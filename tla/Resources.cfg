\* Two resources of two types, two processes that open, close, destroy,
\* spawn, wait and exit, and one that computes; a pool of descriptors that runs
\* out.
\* The system stops when the kernel fails, hence no deadlock check.
CONSTANTS
  Proc = {init, a, idle}
  Callers = {init, a}
  SleepCycles = {1}
  init_pcb = init
  NoParent = NoParent
  PCBPtrs = 4
  WaitArgs = {0}
  MaxPid = 3
  ResourceId = {r1, r2}
  ResourceType = {RESOURCE_GENERIC, RESOURCE_MESSAGE_QUEUE}
  OpenModes = {0, 3, 4, 5}
  MAX_NUM_RESOURCES = 2
  MAX_NUM_DESCRIPTORS = 3
  MaxFd = 2
SPECIFICATION ResourceSpec
SYMMETRY Symmetry
INVARIANTS ResourceTypeOK RefCountsMatch NothingDangles BlocksAccounted SomebodyTakesOver
CHECK_DEADLOCK FALSE
