\* The test program; init and the 16 processes it
\* spawns, directly or not.
\* The program ends with a shutdown, hence no deadlock check.
CONSTANTS
  Proc <- PCBs
  Callers <- PCBs
  SleepCycles = {}
  init_pcb = 0
  NoParent = NoParent
  PCBPtrs = 17
  WaitArgs = {0}
  MaxPid = 16
  ExitValues <- ExitValuesUsed
  QueueId = {100, 101, 102, 104, 200, 201, 9999}
  MAX_MESSAGE_QUEUES = 32
  MAX_MESSAGES_PER_QUEUE = 16
  MESSAGE_MAX_SIZE = 256
  DSOS_MAX_MESSAGES = 512
  Capacities = {0, 2, 4, 17}
  SendSizes = {0, 1}
  BufferSizes = {0, 1}
  NoData = NoData
SPECIFICATION TestSpec
INVARIANTS WaitsForOneThing CleanEnd
PROPERTIES ImplementsSystem TestEnds
CHECK_DEADLOCK FALSE
