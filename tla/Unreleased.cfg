\* A process that ends while its parent does something else.
CONSTANTS
  Proc = {init, a, idle}
  Callers = {init, a}
  SleepCycles = {}
  init_pcb = init
  NoParent = NoParent
  PCBPtrs = 4
  WaitArgs = {0}
  MaxPid = 2
  ResourceId = {r1}
  ResourceType = {RESOURCE_GENERIC}
  OpenModes = {1}
  MAX_NUM_RESOURCES = 1
  MAX_NUM_DESCRIPTORS = 2
  MaxFd = 1
SPECIFICATION ResourceSpec
SYMMETRY Symmetry
INVARIANT ReleasedAtExit
CHECK_DEADLOCK FALSE
