\* init and three PCBs for the others, which all make calls: the ready list
\* runs empty, orphans outlive their parents, PCBs are used again, the items for
\* children run out.  wait for any child or for a pid, whether a child has it or
\* not; sleep with nobody ready, and long enough for an exit to end it.
\* The system stops when the kernel fails, hence no deadlock check.
CONSTANTS
  Proc = {init, a, b, c}
  Callers = {init, a, b, c}
  SleepCycles = {2}
  init_pcb = init
  NoParent = NoParent
  PCBPtrs = 3
  WaitArgs = {0, 2}
  MaxPid = 4
SPECIFICATION ProcessSpec
SYMMETRY Symmetry
VIEW LiveState
INVARIANTS ProcessTypeOK LivesInOneList EveryChildOnce ParentOrInit NoMissedExit
PROPERTY ImplementsProcessTree
CHECK_DEADLOCK FALSE
