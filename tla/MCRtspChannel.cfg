CONSTANTS
    RxSize = 4
    RecordMax = 3
    Overhead = 3
    MaxCounter = 3
    MaxReply = 3
    Shapes <- MCShapes
    MaxRequests = 3
    MaxPlain = 6
    MaxWire = 6
    Fragment = 5
    PublicSize = 6
    ProofSize = 5
    ResponseSize = 20
    Publics <- MCPublics
    MaxExchanges = 2
SPECIFICATION ConnectionSpec
INVARIANTS RequestsWhole BoundaryHolds NonceUnique ClosedForCause PairingSound
PROPERTY Served
