\* Buffers that are too small for the message.
CONSTANTS
  Proc = {a, b, c}
  Callers = {a, b, c}
  SleepCycles = {}
  QueueId = {1}
  MAX_MESSAGE_QUEUES = 1
  MAX_MESSAGES_PER_QUEUE = 1
  MESSAGE_MAX_SIZE = 2
  DSOS_MAX_MESSAGES = 1
  Capacities = {1}
  SendSizes = {2}
  BufferSizes = {1, 2}
  NoData = NoData
SPECIFICATION Spec
SYMMETRY Symmetry
INVARIANT SendersWaitOnFull
