CONSTANTS
    Peers = {p1, p2}
    None = None
    Stamps = {1}
    Volumes = {0}
    MaxGen = 2
    MaxFlush = 1
    MaxQueue = 1
SPECIFICATION Spec
INVARIANTS DeviceWhilePlaying OneSession BoundaryOfSession
CHECK_DEADLOCK FALSE
SYMMETRY Symmetry
