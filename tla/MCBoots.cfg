SPECIFICATION Spec
CONSTANTS
    s1 = s1
    s2 = s2
    c1 = c1
    c2 = c2
    Stations = {s1}
    Registered = {s1}
    Connectors = {1,2}
    Calls = {c1,c2}
    Listener = listener
    Nobody = nobody
    Kinds = {"Boot", "Heartbeat", "Status"}
    RawStatuses = {"Charging", "Faulted", "Bogus"}
    OldRows <- NoneLeft
    LargestNumber = 1
    MaxSessions = 0
    MaxRows = 0
    MaxFaults = 1
SYMMETRY MCSymmetry
INVARIANTS
    BootedIsKnown
PROPERTIES
    BufferReachesDatabase
    ChargingShown
