SPECIFICATION Spec
CONSTANTS
  reader = reader
  staller = staller
  Clients <- MCClients
  Habits <- MCHabits
  Configs <- MCConfigs
  Accepter = Accepter
  Process = Process
  Flusher = Flusher
  Stopper = Stopper
  None = None
  MaxClients = 1
  RowLength = 2
  BufferSize = 3
  MaxFrames = 2
  MaxFaults = 1
INVARIANTS
  TypeOK
  FileComplete
PROPERTIES
  LockstepBroadcast
  OutputGoesOn
  StopEndsAll
CHECK_DEADLOCK FALSE
