\* A child of init that leaves a child behind.
CONSTANTS
  Proc = {init, a, b, idle}
  Callers = {init, a, b}
  SleepCycles = {}
  init_pcb = init
  NoParent = NoParent
  PCBPtrs = 4
  WaitArgs = {0}
  MaxPid = 3
SPECIFICATION ProcessSpec
SYMMETRY Symmetry
INVARIANT InitReapsOrphans
CHECK_DEADLOCK FALSE
