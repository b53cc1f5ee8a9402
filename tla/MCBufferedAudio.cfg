CONSTANTS
    Half = 5
    Base = 9
    MaxRecords = 3
    MaxWire = 7
    Lengths = {2, 3, 4, 5}
    MinRecord = 3
    Capacity = 4
    N = 4
    None = None
SPECIFICATION Spec
INVARIANT RecordsKept
PROPERTIES TakenInOrder SeekExact SeekCompletes
