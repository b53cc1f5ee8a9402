CONSTANTS
    Clients = {c1, c2}
    Peers = {p1, p2}
    None = None
    Stamps = {1}
    Volumes = {0}
    MaxGen = 2
    MaxFlush = 1
SPECIFICATION Spec
INVARIANTS SessionOwned KeyedStreamAuthorized PeerOfOwner
PROPERTIES OwnerChangeVisible StreamSpec
SYMMETRY Symmetry
