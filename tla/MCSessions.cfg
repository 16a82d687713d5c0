SPECIFICATION Spec
CONSTANTS
    s1 = s1
    s2 = s2
    c1 = c1
    c2 = c2
    Stations = {s1}
    Registered = {s1}
    Connectors = {1}
    Calls = {c1,c2}
    Listener = listener
    Nobody = nobody
    Kinds = {"Start", "Stop"}
    RawStatuses = {}
    OldRows <- OneLeft
    LargestNumber = 9
    MaxSessions = 1
    MaxRows = 1
    MaxFaults = 1
SYMMETRY MCSymmetry
CHECK_DEADLOCK FALSE
INVARIANTS
    TypeOK
    LiveSessionKept
    MappingFaithful
    OpenRowsReachable
    IndInv
PROPERTIES
    UnmappedOnlyWhenDone
    HandoverSpec
