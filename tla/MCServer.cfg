SPECIFICATION Spec
CONSTANTS
    s1 = s1
    k1 = k1
    k2 = k2
    k3 = k3
    l1 = l1
    l2 = l2
    Stations = {s1}
    Sockets = {k1, k2}
    Loops = {l1, l2}
    Nobody = nobody
    FrameKinds = {"boot", "call"}
    MaxFrames = 2
    MaxMessages = 2
    MaxFaults = 1
    MaxRestarts = 1
SYMMETRY MCSymmetry
CHECK_DEADLOCK FALSE
INVARIANTS
    TypeOK
    DisconnectedIsGone
    MarkedWasWritten
    ServerInv
PROPERTIES
    OutboxSpec
