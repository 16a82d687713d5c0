SPECIFICATION FairSpec
CONSTANTS
    s1 = s1
    s2 = s2
    c1 = c1
    c2 = c2
    Stations = {s1}
    Registered = {s1}
    Connectors = {2}
    Calls = {c1}
    Listener = listener
    Nobody = nobody
    Kinds = {"Start"}
    RawStatuses = {}
    OldRows <- NoneLeft
    LargestNumber = 1
    MaxSessions = 1
    MaxRows = 0
    MaxFaults = 0
CHECK_DEADLOCK FALSE
PROPERTIES
    AcceptedDrains
