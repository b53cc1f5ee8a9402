CONSTANTS
    Half = 3
    HalfStamp = 2
    N = 3
SPECIFICATION Spec
INVARIANT QueueSound
PROPERTY PlayOrder
