CONSTANTS
    Peers = {p1}
    None = None
    Stamps = {1, 2}
    Volumes = {0}
    MaxGen = 1
    MaxFlush = 1
    MaxQueue = 1
SPECIFICATION Spec
PROPERTY BoundaryInForce
CHECK_DEADLOCK FALSE
