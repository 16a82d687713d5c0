SPECIFICATION FairSpec
CONSTANTS
    s1 = s1
    s2 = s2
    c1 = c1
    c2 = c2
    Stations = {s1,s2}
    Registered = {}
    Connectors = {1,2}
    Calls = {c1}
    Listener = listener
    Nobody = nobody
    Kinds = {"Start", "Stop"}
    RawStatuses = {}
    OldRows <- NoneLeft
    LargestNumber = 1
    MaxSessions = 2
    MaxRows = 1
    MaxFaults = 0
CHECK_DEADLOCK FALSE
PROPERTIES
    ConnectsEventually
    BufferDrains
    CallsAnswered
