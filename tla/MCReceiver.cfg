CONSTANTS
    Packets <- MCPackets
    MaxStarts = 2
    Quarter = 4
    Bytes = {0, 1, 2, 3, 5, 12, 13}
    Length = 5
    NameSize = 5
    MaxLabel = 3
    MaxName = 12
    FullName = 13
    MaxText = 2
    Configs <- MCConfigs
    MaxObjects = 3
    Candidates <- MCCandidates
    Capacities = {39, 40, 64, 100, 120}
    MaxAdded = 4
    Samples <- MCSamples
    Damages = {0, 1, 31, 47, 66, 93, 113, 175, 223, 255}
    Fragment = 2
    TlvMessages <- MCTlvMessages
    TlvTypes = {0, 1, 2}
    TlvCapacities = {0, 1, 2, 3, 4, 7, 12, 22}
    RtpPackets <- MCRtpPackets
    KeySize = 3
    IvSize = 2
    ConfigSize = 2
    ScratchSize = 3
    Descriptions <- MCDescriptions
    Base64Texts <- MCBase64Texts
SPECIFICATION ReceiverSpec
INVARIANTS NoUseAfterRelease NoLeak StatusTruthful Withdrawn AskedAnswered FormatsExact
PROPERTY Terminates
