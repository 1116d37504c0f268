---------------------------- MODULE AtomicKernel ----------------------------
(***************************************************************************)
(* What the entry into the kernel promises a process (disastrOS_syscall,   *)
(* timerHandler): a system call is executed once, between the moment the   *)
(* process makes it and the moment it goes on behind it; in between, and   *)
(* at any other moment, the processor may go to another process, which     *)
(* changes nothing for those that are not on it.                           *)
(***************************************************************************)
CONSTANTS Proc, Callers

VARIABLES
  running,  \* the process that owns the processor
  phase     \* how far each process is with its call

InUser   == "InUser"
Called   == "Called"
Executed == "Executed"

Step(p, from, to) == phase[p] = from /\ phase' = [phase EXCEPT ![p] = to]

Call ==
  /\ running \in Callers
  /\ Step(running, InUser, Called)
  /\ UNCHANGED running

Execute ==
  /\ Step(running, Called, Executed)
  /\ running' \in Proc

Return ==
  /\ Step(running, Executed, InUser)
  /\ UNCHANGED running

Interrupt == running' \in Proc /\ UNCHANGED phase

AtomicInit == running \in Proc /\ phase = [p \in Proc |-> InUser]

AtomicNext == Call \/ Execute \/ Return \/ Interrupt

AtomicSpec == AtomicInit /\ [][AtomicNext]_<< running, phase >>

=============================================================================
