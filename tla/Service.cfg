\* Three callers and a process that computes, so that a caller can always be
\* taken off the processor, on one queue whose buffers hold every message.
CONSTANTS
  Proc = {a, b, c, idle}
  Callers = {a, b, c}
  SleepCycles = {1}
  QueueId = {1}
  MAX_MESSAGE_QUEUES = 1
  MAX_MESSAGES_PER_QUEUE = 2
  MESSAGE_MAX_SIZE = 1
  DSOS_MAX_MESSAGES = 2
  Capacities = {2}
  SendSizes = {1}
  BufferSizes = {1}
  NoData = NoData
SPECIFICATION Spec
INVARIANTS BlocksInsteadOfFailing SendersWaitOnFull
PROPERTIES ImplementsChannels SendersServed ReceiversServed
