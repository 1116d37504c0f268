\* A signal raised in a trap is delivered by the setcontext at its end.
CONSTANTS
  Proc = {a, b}
  Callers = {a, b}
  SleepCycles = {}
  AlarmPlaces <- UserCodeAndTrap
SPECIFICATION KernelSpec
INVARIANT TrapUninterrupted
CHECK_DEADLOCK FALSE
