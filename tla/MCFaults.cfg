SPECIFICATION Spec
CONSTANTS
    s1 = s1
    s2 = s2
    c1 = c1
    c2 = c2
    Stations = {s1,s2}
    Registered = {s2}
    Connectors = {1}
    Calls = {c1}
    Listener = listener
    Nobody = nobody
    Kinds = {"Start", "Stop"}
    RawStatuses = {}
    OldRows <- MoreLeft
    LargestNumber = 9
    MaxSessions = 2
    MaxRows = 0
    MaxFaults = 2
CHECK_DEADLOCK FALSE
INVARIANTS
    LiveSessionKept
    UnsavedIsBuffered
    MappingFaithful
    RowInv
PROPERTIES
    UnmappedOnlyWhenDone
    BufferReachesDatabase
    HandoverSpec
