SPECIFICATION PlatformSpec
CONSTANTS
  Backends <- MCBackends
  Sources <- MCSources
  F = 2
  Packets <- MCPackets
  MaxTime <- MCMaxTime
  Buffers = 2
  Ring = 3
  PosRing = 8
  Units = {"samples", "bytes", "ms"}
  FrameBytes = 2
  SampleRate = 4
  Second = 3
  AheadLimit = 3
  Margin = 1
  LateLimit = 2
  WriteTime = 2
  Attempts = 6
  Bases = {2}
  SyncWait = 2
  Fallback = 1
  ClockRing = 5
  Origins = {4}
  Timeouts <- MCTimeouts
  Length = 3
  SendRoom = 2
  TimeBound = 3
INVARIANTS DelayHonest HeardOnTime WriteBounded HandlesExact CallBounded SentExact
PROPERTIES DeviceSpec WriteReturns
