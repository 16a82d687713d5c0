SPECIFICATION Spec
CONSTANTS
    s1 = s1
    k1 = k1
    k2 = k2
    k3 = k3
    l1 = l1
    l2 = l2
    Stations = {s1}
    Sockets = {k1}
    Loops = {l1, l2}
    Nobody = nobody
    FrameKinds = {"boot"}
    MaxFrames = 2
    MaxMessages = 2
    MaxFaults = 0
    MaxRestarts = 0
CHECK_DEADLOCK FALSE
INVARIANTS
    StoredUntilDelivered
