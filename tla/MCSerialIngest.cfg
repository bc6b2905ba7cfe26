SPECIFICATION Spec
CONSTANTS
  Wire <- MCWire
  Damaged <- MCDamaged
  BurstSize = 3
  MaxNoise = 1
  MaxFaults = 1
  ReadSize = 10
  MaxFrameBufferSize = 10
  DispatchSize = 8
  RawBufferSize = 1
  SerialErrorThreshold = 0
  MinFrameLength = 5
  MaxAllowedFrameLength = 9
  MinRegisterBytes = 1
INVARIANTS
  TypeOK
  Conserved
  FramesIntact
  IntegrityKept
  NoiseHasCause
PROPERTIES
  EveryFrameDecoded
CHECK_DEADLOCK FALSE
