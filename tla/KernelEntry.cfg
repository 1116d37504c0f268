\* Three processes that call and sleep, all of them at once included; a signal
\* hits user code, or is raised on the way back to a handler and waits until the
\* process is back in user code.
CONSTANTS
  Proc = {a, b, c}
  Callers = {a, b, c}
  SleepCycles = {0, 1, 2}
  AlarmPlaces <- UserPlaces
SPECIFICATION KernelSpec
INVARIANTS ContinuesInStep ListsMatchStatus NoOverdueTimer
PROPERTIES WakesOnTime WakesInTimerOrder
PROPERTIES ImplementsAtomicKernel ImplementsScheduler ReadyRuns CallsReturn
