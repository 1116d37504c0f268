----------------------------- MODULE KernelEntry -----------------------------
(***************************************************************************)
(* How a process gets into the kernel and out again: the contexts that     *)
(* swapcontext saves and setcontext restores, and the timer signal that is *)
(* raised at any moment and delivered when SIGALRM is not blocked.         *)
(*                                                                         *)
(* The calls of the C library are not atomic.  swapcontext saves the       *)
(* registers, then sets the signal mask of the context it switches to,     *)
(* then loads its registers; setcontext sets the mask and then loads the   *)
(* registers.  The places between these steps are Saving, Switching,       *)
(* TrapLeaves and TickLeaves.  A signal is delivered as soon as SIGALRM is *)
(* not blocked, there too; AlarmPlaces says where one may be raised.       *)
(*                                                                         *)
(* The processes make the calls of Scheduler, preempt and sleep, which     *)
(* cover what a call does to the processor: it goes to another process or  *)
(* stays.  The values of results are not looked at here.                   *)
(***************************************************************************)
EXTENDS Scheduler

CONSTANT AlarmPlaces

VARIABLES
  place,     \* what the processor executes
  cpu_state, \* PCB.cpu_state
  pending,   \* SIGALRM has been raised and not been delivered
  executed   \* how often the call of a process has been executed, at most 2;
             \* NoCall as long as it makes none

KernelVars == << place, cpu_state, pending, executed >>
AllVars    == << SchedulerVars, KernelVars >>

User      == "User"       \* the program of the running process
Stored    == "Stored"     \* disastrOS_syscall, the arguments are in the PCB
Saving    == "Saving"     \* in its swapcontext, SIGALRM not yet blocked
Trap      == "Trap"       \* disastrOS_trap
Returned  == "Returned"   \* disastrOS_syscall, before it reads the result
Switching == "Switching"  \* in the swapcontext of timerHandler, mask empty
Tick      == "Tick"       \* timerInterrupt
TrapLeaves == "TrapLeaves"  \* in its setcontext, with the mask of the process
TickLeaves == "TickLeaves"
Overwritten == "Overwritten"  \* a frame of the system stack, used again since

UserPlaces  == { User, Stored, Returned }
SystemStack == { Trap, TrapLeaves, Tick, TickLeaves, Overwritten }
Windows     == { Saving, TrapLeaves, Switching, Tick, TickLeaves }
Places      == UserPlaces \cup SystemStack \cup Windows

ASSUME KernelAssumption == AlarmPlaces \subseteq Places

Leaves == { TrapLeaves, TickLeaves }

NoCall == -1

(***************************************************************************)
(* A context is the place where the process goes on.  One that timerHandler*)
(* has saved first returns from the handler, with SIGALRM blocked until    *)
(* then.                                                                   *)
(***************************************************************************)
Context(at, handler) == [at |-> at, handler |-> handler]

SavedAt_Call(where) == Context(Stored, FALSE)

\* What the swapcontext of disastrOS_syscall saves.
SavedAt(where) == Context(Returned, FALSE)

HandlerSavedAt_Start(where) == Context(User, TRUE)

\* What the swapcontext of timerHandler saves.
HandlerSavedAt(where) ==
  Context(IF where \in SystemStack THEN Overwritten ELSE where, TRUE)

Masked_Never(where) == FALSE

\* SIGALRM is blocked.
Masked(where) ==
  \/ where = Trap
  \/ where \in Leaves /\ cpu_state[running].handler

Delivers == pending /\ ~Masked(place)

\* Its setcontext keeps SIGALRM blocked until the handler has returned.
HandlerResumes == place \in Leaves /\ cpu_state[running].handler

-----------------------------------------------------------------------------
(***************************************************************************)
(* The interval timer; a signal that is pending already is not raised      *)
(* twice.  One that is raised where HandlerResumes, or in the trap before, *)
(* waits until the process is back in its own code.                        *)
(***************************************************************************)
AlarmRaised ==
  /\ ~pending
  /\ place \in AlarmPlaces \/ HandlerResumes
  /\ pending' = TRUE
  /\ UNCHANGED << SchedulerVars, place, cpu_state, executed >>

\* A signal that is pending and not blocked comes before anything else.
timerHandler ==
  /\ Delivers
  /\ pending' = FALSE
  /\ cpu_state' = [cpu_state EXCEPT ![running] = HandlerSavedAt(place)]
  /\ place' = Switching
  /\ UNCHANGED << SchedulerVars, executed >>

Goes(from, to) == place = from /\ ~Delivers /\ place' = to /\ UNCHANGED pending

\* A program calls: disastrOS_syscall stores number and arguments.
SyscallStored ==
  /\ Goes(User, Stored)
  /\ running \in Callers
  /\ executed' = [executed EXCEPT ![running] = 0]
  /\ UNCHANGED << SchedulerVars, cpu_state >>

SyscallSaves ==
  /\ Goes(Stored, Saving)
  /\ cpu_state' = [cpu_state EXCEPT ![running] = SavedAt(place)]
  /\ UNCHANGED << SchedulerVars, executed >>

SyscallSwitches ==
  /\ Goes(Saving, Trap)
  /\ UNCHANGED << SchedulerVars, cpu_state, executed >>

\* The call itself, and the first half of the setcontext at its end.
disastrOS_trap ==
  /\ Goes(Trap, TrapLeaves)
  /\ internal_preempt \/ internal_sleep
  /\ executed' = [executed EXCEPT ![running] = IF @ = 0 THEN 1 ELSE 2]
  /\ UNCHANGED cpu_state

HandlerSwitches ==
  /\ Goes(Switching, Tick)
  /\ UNCHANGED << SchedulerVars, cpu_state, executed >>

TimerInterrupts_Unscheduled ==
  /\ Goes(Tick, TickLeaves)
  /\ UNCHANGED << SchedulerVars, cpu_state, executed >>

TimerInterrupts ==
  /\ Goes(Tick, TickLeaves)
  /\ timerInterrupt
  /\ UNCHANGED << cpu_state, executed >>

\* The registers are loaded, and a handler returns to what it interrupted.
ContextRestored ==
  /\ \E from \in Leaves : Goes(from, cpu_state[running].at)
  /\ UNCHANGED << SchedulerVars, cpu_state, executed >>

ResultIsRead ==
  /\ Goes(Returned, User)
  /\ executed' = [executed EXCEPT ![running] = NoCall]
  /\ UNCHANGED << SchedulerVars, cpu_state >>

-----------------------------------------------------------------------------
KernelInit ==
  /\ SchedulerInit
  /\ place = User
  /\ cpu_state = [p \in Proc |-> Context(User, FALSE)]
  /\ pending = FALSE
  /\ executed = [p \in Proc |-> NoCall]

\* The way of a call, which the process goes as long as it has the processor.
CallStep ==
  SyscallSaves \/ SyscallSwitches \/ disastrOS_trap \/ ResultIsRead

ProcessorStep ==
  timerHandler \/ HandlerSwitches \/ TimerInterrupts \/ ContextRestored \/ CallStep

\* A program need not make a call.
KernelNext == AlarmRaised \/ SyscallStored \/ ProcessorStep

(***************************************************************************)
(* The processor does not stop, and the interval timer is periodic.  Its   *)
(* period, INTERVAL, is longer than it takes to handle a tick: a process   *)
(* that gets the processor again and again gets on with its call.          *)
(***************************************************************************)
KernelFairness ==
  /\ WF_AllVars(ProcessorStep)
  /\ SF_AllVars(AlarmRaised)
  /\ \A p \in Proc : SF_AllVars(running = p /\ CallStep)

KernelSpec == KernelInit /\ [][KernelNext]_AllVars /\ KernelFairness

-----------------------------------------------------------------------------
\* Every variable has its type.
KernelTypeOK ==
  /\ SchedulerTypeOK
  /\ place \in Places
  /\ cpu_state \in [Proc -> [at : Places, handler : BOOLEAN]]
  /\ pending \in BOOLEAN
  /\ executed \in [Proc -> {NoCall, 0, 1, 2}]

\* A process with this much of its call done goes on at a place of its own code.
InStep(p, at) ==
  \/ at = User /\ executed[p] = NoCall
  \/ at = Stored /\ executed[p] = 0
  \/ at = Returned /\ executed[p] = 1

(***************************************************************************)
(* The context of every process that is not on the processor is the one    *)
(* with which it goes on as far as it has come: before its call, or behind *)
(* it, whether a call or the signal has taken the processor from it.  So   *)
(* is the one of the running process while the kernel has the processor    *)
(* (cpu_state is overwritten by every swapcontext, disastrOS.c:50, :105).  *)
(***************************************************************************)
ContinuesInStep ==
  /\ \A p \in Proc :
       p # running \/ place \in {Switching, Tick} \cup Leaves
         => InStep(p, cpu_state[p].at)
  /\ place \in {Saving, Trap} =>
       executed[running] = 0 /\ cpu_state[running].at = Returned
  /\ place \in UserPlaces => InStep(running, place)
  /\ place # Overwritten

\* How far a process is with its call, to an observer of calls and returns.
Phase ==
  [p \in Proc |-> CASE executed[p] = NoCall -> "InUser"
                    [] executed[p] = 0 -> "Called"
                    [] executed[p] = 1 -> "Executed"
                    [] executed[p] = 2 -> "Repeated"]

Atomic == INSTANCE AtomicKernel WITH phase <- Phase

(***************************************************************************)
(* Where the signal finds a process in its own code, or on the way back to *)
(* the handler that a tick has stopped it in, every call is executed once, *)
(* before its process goes on behind it, and processes change hands only   *)
(* with the processor: contexts are saved and restored as often as calls   *)
(* and ticks come, also before the first and after the second switch of    *)
(* one call.  The signal that is raised in a trap which goes back behind a *)
(* call is not among these: the setcontext at its end delivers it on the   *)
(* system stack (TrapUninterrupted).                                       *)
(***************************************************************************)
ImplementsAtomicKernel == Atomic!AtomicSpec

(***************************************************************************)
(* The kernel with its contexts does to the scheduler's lists what the     *)
(* atomic calls and ticks of module Scheduler do; and the ticks, of which  *)
(* only a pending one is remembered while a handler returns, go on         *)
(* forever, as the fairness there says.                                    *)
(***************************************************************************)
ImplementsScheduler == SchedulerSpec

(***************************************************************************)
(* Whoever makes a call comes back from it, with all the interrupts and    *)
(* the switches to others on the way, unless it hardly ever gets the       *)
(* processor without a signal that is pending when the handler of the last *)
(* tick returns and takes it away again.                                   *)
(***************************************************************************)
GetsTime(p) == running = p /\ place \notin Windows /\ ~pending

CallsReturn ==
  \A p \in Proc :
    []<>GetsTime(p) => ( (executed[p] = 0) ~> (executed[p] = NoCall) )

(***************************************************************************)
(* A signal hits no code on the system stack: "this disables alarm during  *)
(* system trap" (disastrOS.c:225).                                         *)
(***************************************************************************)
TrapUninterrupted == \A p \in Proc : cpu_state[p].at # Overwritten

=============================================================================
