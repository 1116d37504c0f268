\* Two queues and three processes, arguments legal or not, short buffers, a
\* pool that is smaller than both queues together, processes that sleep.
\* The system stops when a PCB is linked twice, hence no deadlock check.
CONSTANTS
  Proc = {a, b, c}
  Callers = {a, b, c}
  SleepCycles = {1}
  QueueId = {1, 2}
  MAX_MESSAGE_QUEUES = 2
  MAX_MESSAGES_PER_QUEUE = 2
  MESSAGE_MAX_SIZE = 2
  DSOS_MAX_MESSAGES = 2
  Capacities = {0, 1, 2}
  SendSizes = {2, 3}
  BufferSizes = {0, 1, 2}
  NoData = NoData
SPECIFICATION Spec
SYMMETRY Symmetry
INVARIANTS TypeOK OneListEach CountsMatch NoBlockLost ReceiversWaitOnEmpty PoolSuffices
PROPERTY WokenWithResult
CHECK_DEADLOCK FALSE
