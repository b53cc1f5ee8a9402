CONSTANTS
    Peers = {p1}
    None = None
    Stamps = {1}
    Volumes = {0}
    MaxGen = 1
    MaxFlush = 1
    MaxQueue = 1
SPECIFICATION Spec
PROPERTIES PauseStops CatchesUp
CHECK_DEADLOCK FALSE
