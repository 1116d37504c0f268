-------------------------- MODULE KernelEntry_proofs --------------------------
(***************************************************************************)
(* Proofs about KernelEntry: as long as signals are raised in the code of  *)
(* the processes or on the way back to a handler, every call is executed   *)
(* exactly once, for any number of processes and any interleaving of calls *)
(* and signals.                                                            *)
(***************************************************************************)
EXTENDS KernelEntry, Scheduler_proofs

\* A pending signal hits a process, or waits for its handler to return.
SignalOutside == pending => place \in UserPlaces \/ HandlerResumes

\* The inductive invariant.
KernelInv == SchedulerInv /\ KernelTypeOK /\ ContinuesInStep /\ SignalOutside

\* The places as the provers have to see them.
LEMMA PlacesApart ==
  /\ \A s \in Places : s \in Windows \/ s \in UserPlaces \/ s \in {Trap, Overwritten}
  /\ Leaves \subseteq Windows
  /\ {User, Stored, Returned, Saving, Trap, Switching, Tick, TrapLeaves,
      TickLeaves, Overwritten} = Places
BY DEF Places, UserPlaces, SystemStack, Windows, Leaves, User, Stored, Saving, Trap,
     Returned, Switching, Tick, TrapLeaves, TickLeaves, Overwritten

LEMMA KernelInitInv ==
  ASSUME KernelInit
  PROVE  KernelInv
<1>1. SchedulerInv
  BY InitInv DEF KernelInit
<1>2. KernelTypeOK
  BY <1>1 DEF KernelInit, KernelTypeOK, SchedulerInv, Context, NoCall, Places, UserPlaces,
       User
<1>3. ContinuesInStep
  BY <1>1 DEF SchedulerInv, SchedulerTypeOK, KernelInit, ContinuesInStep, InStep, Context, UserPlaces, Leaves, User, Stored,
     Returned, Saving, Trap, Switching, Tick, TrapLeaves, TickLeaves, Overwritten
<1>4. SignalOutside
  BY DEF KernelInit, SignalOutside
<1> QED BY <1>1, <1>2, <1>3, <1>4 DEF KernelInv

\* Whoever leaves SchedulerVars alone keeps the invariant of the scheduler.
LEMMA SchedulerUntouched ==
  ASSUME SchedulerInv, UNCHANGED SchedulerVars
  PROVE  SchedulerInv'
BY NextInv

Contexts == [at : Places, handler : BOOLEAN]

\* What KernelTypeOK says of the next state.
LEMMA TypedNext ==
  ASSUME SchedulerInv', place' \in Places, cpu_state' \in [Proc -> Contexts],
         pending' \in BOOLEAN, executed' \in [Proc -> {NoCall, 0, 1, 2}]
  PROVE  KernelTypeOK'
BY DEF KernelTypeOK, SchedulerInv, Contexts

LEMMA TypedNow ==
  ASSUME KernelInv
  PROVE  /\ running \in Proc /\ place \in Places
         /\ cpu_state \in [Proc -> Contexts]
         /\ pending \in BOOLEAN
         /\ executed \in [Proc -> {NoCall, 0, 1, 2}]
BY DEF KernelInv, KernelTypeOK, SchedulerTypeOK, Contexts

\* The kernel goes on with no signal pending, or back to a handler.
LEMMA NoSignalInKernel ==
  ASSUME KernelInv, ~Delivers, place \notin Leaves
  PROVE  pending = FALSE
<1>1. pending => place \in UserPlaces /\ Masked(place)
  BY DEF KernelInv, SignalOutside, HandlerResumes, Delivers
<1>2. place \in UserPlaces => ~Masked(place)
  BY DEF Masked, UserPlaces, Leaves, User, Stored, Returned, Trap, TrapLeaves, TickLeaves
<1> QED BY <1>1, <1>2, TypedNow

\* A signal is delivered to a process in its own code only.
LEMMA HandlerInv ==
  ASSUME KernelInv, timerHandler
  PROVE  KernelInv'
<1>1. place \in UserPlaces
  BY DEF timerHandler, Delivers, Masked, KernelInv, SignalOutside, HandlerResumes
<1>2. /\ InStep(running, place)
      /\ \A p \in Proc : p # running => InStep(p, cpu_state[p].at)
  BY <1>1 DEF KernelInv, ContinuesInStep
<1>3. HandlerSavedAt(place) = Context(place, TRUE)
  BY <1>1 DEF HandlerSavedAt, UserPlaces, SystemStack, User, Stored, Returned, Trap, Tick,
     TrapLeaves, TickLeaves, Overwritten
<1>4. SchedulerInv'
  BY SchedulerUntouched DEF KernelInv, timerHandler
<1>5. running' = running /\ executed' = executed /\ place' = Switching /\ pending' = FALSE
      /\ cpu_state' = [cpu_state EXCEPT ![running] = Context(place, TRUE)]
  BY <1>3 DEF timerHandler, SchedulerVars
<1>6. Context(place, TRUE) \in Contexts /\ Switching \in Places
  BY TypedNow, PlacesApart DEF Context, Contexts
<1>7. KernelTypeOK'
  BY <1>4, <1>5, <1>6, TypedNow, TypedNext
<1>8. \A p \in Proc : InStep(p, cpu_state[p].at)'
  BY <1>2, <1>5, TypedNow DEF InStep, Context
<1>9. ContinuesInStep'
  BY <1>5, <1>8 DEF ContinuesInStep, UserPlaces, Saving, Trap, Switching, Overwritten, User,
     Stored, Returned
<1>10. SignalOutside'
  BY <1>5 DEF SignalOutside
<1> QED BY <1>4, <1>7, <1>9, <1>10 DEF KernelInv

\* The steps of a call before the kernel executes it.
LEMMA WayInInv ==
  ASSUME KernelInv, SyscallStored \/ SyscallSaves \/ SyscallSwitches
  PROVE  KernelInv'
<1> USE DEF User, Stored, Returned, Saving, Trap, Switching, Tick, TrapLeaves, TickLeaves,
            Overwritten
<1>1. SchedulerInv' /\ running' = running
  BY SchedulerUntouched DEF KernelInv, SyscallStored, SyscallSaves, SyscallSwitches,
     SchedulerVars
<1>2. Context(Returned, FALSE) \in Contexts
      /\ Stored \in Places /\ Saving \in Places /\ Trap \in Places
  BY PlacesApart DEF Context, Contexts
<1>3. SyscallStored => KernelTypeOK' /\ ContinuesInStep'
  <2> SUFFICES ASSUME SyscallStored PROVE KernelTypeOK' /\ ContinuesInStep'
    OBVIOUS
  <2>1. /\ place = User /\ place' = Stored /\ pending' = pending /\ cpu_state' = cpu_state
        /\ executed' = [executed EXCEPT ![running] = 0]
    BY DEF SyscallStored, Goes
  <2>2. KernelTypeOK'
    BY <2>1, <1>1, <1>2, TypedNow, TypedNext
  <2>3. ContinuesInStep'
    BY <2>1, <1>1, TypedNow DEF KernelInv, ContinuesInStep, InStep, UserPlaces, Leaves
  <2> QED BY <2>2, <2>3
<1>4. SyscallSaves => KernelTypeOK' /\ ContinuesInStep'
  <2> SUFFICES ASSUME SyscallSaves PROVE KernelTypeOK' /\ ContinuesInStep'
    OBVIOUS
  <2>1. /\ place = Stored /\ place' = Saving /\ pending' = pending /\ executed' = executed
        /\ cpu_state' = [cpu_state EXCEPT ![running] = Context(Returned, FALSE)]
    BY DEF SyscallSaves, Goes, SavedAt
  <2>2. KernelTypeOK'
    BY <2>1, <1>1, <1>2, TypedNow, TypedNext
  <2>3. ContinuesInStep'
    BY <2>1, <1>1, TypedNow DEF KernelInv, ContinuesInStep, InStep, UserPlaces, Leaves, Context
  <2> QED BY <2>2, <2>3
<1>5. SyscallSwitches => KernelTypeOK' /\ ContinuesInStep'
  <2> SUFFICES ASSUME SyscallSwitches PROVE KernelTypeOK' /\ ContinuesInStep'
    OBVIOUS
  <2>1. /\ place = Saving /\ place' = Trap /\ pending' = pending /\ executed' = executed
        /\ cpu_state' = cpu_state
    BY DEF SyscallSwitches, Goes
  <2>2. KernelTypeOK'
    BY <2>1, <1>1, <1>2, TypedNow, TypedNext
  <2>3. ContinuesInStep'
    BY <2>1, <1>1, TypedNow DEF KernelInv, ContinuesInStep, InStep, UserPlaces, Leaves
  <2> QED BY <2>2, <2>3
<1>6. SignalOutside'
  BY NoSignalInKernel
  DEF SyscallStored, SyscallSaves, SyscallSwitches, Goes, Leaves, SignalOutside
<1> QED BY <1>1, <1>3, <1>4, <1>5, <1>6 DEF KernelInv

\* The call itself: whoever gets the processor, the caller goes on behind it.
LEMMA TrapInv ==
  ASSUME KernelInv, disastrOS_trap
  PROVE  KernelInv'
<1> USE DEF User, Stored, Returned, Saving, Trap, Switching, Tick, TrapLeaves, TickLeaves,
            Overwritten
<1>1. SchedulerInv'
  BY NextInv DEF KernelInv, disastrOS_trap, SchedulerNext
<1>2. executed[running] = 0 /\ cpu_state[running].at = Returned
  BY DEF disastrOS_trap, Goes, KernelInv, ContinuesInStep
<1>3. /\ place = Trap /\ place' = TrapLeaves /\ pending' = pending /\ cpu_state' = cpu_state
      /\ executed' = [executed EXCEPT ![running] = 1]
  BY <1>2 DEF disastrOS_trap, Goes
<1>4. KernelTypeOK'
  BY <1>1, <1>3, TypedNow, TypedNext, PlacesApart
<1>5. \A p \in Proc : InStep(p, cpu_state[p].at)'
  BY <1>2, <1>3, TypedNow DEF KernelInv, ContinuesInStep, InStep
<1>6. ContinuesInStep'
  BY <1>3, <1>5 DEF ContinuesInStep, UserPlaces
<1>7. SignalOutside'
  BY NoSignalInKernel DEF disastrOS_trap, Goes, Leaves, SignalOutside
<1> QED BY <1>1, <1>4, <1>6, <1>7 DEF KernelInv

\* The steps of the handler behind its swapcontext.
LEMMA TickInv ==
  ASSUME KernelInv, HandlerSwitches \/ TimerInterrupts
  PROVE  KernelInv'
<1> USE DEF User, Stored, Returned, Saving, Trap, Switching, Tick, TrapLeaves, TickLeaves,
            Overwritten
<1>1. SchedulerInv'
  BY NextInv DEF KernelInv, HandlerSwitches, TimerInterrupts, SchedulerNext
<1>2. /\ place \in {Switching, Tick} /\ place' \in {Tick, TickLeaves} /\ pending' = pending
      /\ cpu_state' = cpu_state /\ executed' = executed
  BY DEF HandlerSwitches, TimerInterrupts, Goes
<1>3. KernelTypeOK'
  BY <1>1, <1>2, TypedNow, TypedNext, PlacesApart
<1>4. \A p \in Proc : InStep(p, cpu_state[p].at)'
  BY <1>2 DEF KernelInv, ContinuesInStep, InStep
<1>5. ContinuesInStep'
  BY <1>2, <1>4 DEF ContinuesInStep, UserPlaces
<1>6. SignalOutside'
  BY NoSignalInKernel DEF HandlerSwitches, TimerInterrupts, Goes, Leaves, SignalOutside
<1> QED BY <1>1, <1>3, <1>5, <1>6 DEF KernelInv

\* A process that is back in its own code is where its context says.
LEMMA WayOutInv ==
  ASSUME KernelInv, ContextRestored \/ ResultIsRead
  PROVE  KernelInv'
<1> USE DEF User, Stored, Returned, Saving, Trap, Switching, Tick, TrapLeaves, TickLeaves,
            Overwritten
<1>1. SchedulerInv' /\ running' = running
  BY SchedulerUntouched DEF KernelInv, ContextRestored, ResultIsRead, SchedulerVars
<1>2. ContextRestored => KernelTypeOK' /\ ContinuesInStep' /\ SignalOutside'
  <2> SUFFICES ASSUME ContextRestored
               PROVE  KernelTypeOK' /\ ContinuesInStep' /\ SignalOutside'
    OBVIOUS
  <2>1. /\ place \in Leaves /\ place' = cpu_state[running].at /\ pending' = pending
        /\ cpu_state' = cpu_state /\ executed' = executed
    BY DEF ContextRestored, Goes
  <2>2. \A p \in Proc : InStep(p, cpu_state[p].at)
    BY <2>1 DEF KernelInv, ContinuesInStep
  <2>3. InStep(running, place')
    BY <2>1, <2>2, TypedNow
  <2>4. place' \in UserPlaces
    BY <2>3 DEF InStep, UserPlaces
  <2>5. KernelTypeOK'
    BY <2>1, <2>4, <1>1, TypedNow, TypedNext DEF Places
  <2>6. ContinuesInStep'
    BY <2>1, <2>2, <2>3, <2>4, <1>1 DEF ContinuesInStep, InStep, UserPlaces, Leaves
  <2>7. SignalOutside'
    BY <2>4 DEF SignalOutside, UserPlaces
  <2> QED BY <2>5, <2>6, <2>7
<1>3. ResultIsRead => KernelTypeOK' /\ ContinuesInStep'
  <2> SUFFICES ASSUME ResultIsRead PROVE KernelTypeOK' /\ ContinuesInStep'
    OBVIOUS
  <2>1. /\ place = Returned /\ place' = User /\ pending' = pending /\ cpu_state' = cpu_state
        /\ executed' = [executed EXCEPT ![running] = NoCall]
    BY DEF ResultIsRead, Goes
  <2>2. KernelTypeOK'
    BY <2>1, <1>1, TypedNow, TypedNext, PlacesApart
  <2>3. ContinuesInStep'
    BY <2>1, <1>1, TypedNow DEF KernelInv, ContinuesInStep, InStep, UserPlaces, Leaves
  <2> QED BY <2>2, <2>3
<1>4. ResultIsRead => SignalOutside'
  BY NoSignalInKernel DEF ResultIsRead, Goes, Leaves, SignalOutside
<1> QED BY <1>1, <1>2, <1>3, <1>4 DEF KernelInv

LEMMA AlarmInv ==
  ASSUME KernelInv, AlarmPlaces \subseteq UserPlaces, AlarmRaised \/ UNCHANGED AllVars
  PROVE  KernelInv'
<1>1. SchedulerInv' /\ UNCHANGED << running, place, cpu_state, executed >>
      /\ pending' \in BOOLEAN
  BY SchedulerUntouched, TypedNow DEF KernelInv, AlarmRaised, AllVars, KernelVars, SchedulerVars
<1>2. KernelTypeOK'
  BY <1>1, TypedNow, TypedNext
<1>3. ContinuesInStep'
  BY <1>1 DEF KernelInv, ContinuesInStep, InStep
<1>4. SignalOutside'
  BY DEF KernelInv, SignalOutside, HandlerResumes, UserPlaces, Leaves, AlarmRaised, AllVars,
     KernelVars, SchedulerVars
<1> QED BY <1>1, <1>2, <1>3, <1>4 DEF KernelInv

LEMMA KernelNextInv ==
  ASSUME KernelInv, AlarmPlaces \subseteq UserPlaces, [KernelNext]_AllVars
  PROVE  KernelInv'
BY HandlerInv, WayInInv, TrapInv, TickInv, WayOutInv, AlarmInv
   DEF KernelNext, ProcessorStep, CallStep

(***************************************************************************)
(* Every variable has its type, whenever signals are raised in the code of *)
(* processes, or on the way back to a handler.                             *)
(***************************************************************************)
THEOREM KernelTypes ==
  ASSUME AlarmPlaces \subseteq UserPlaces
  PROVE  KernelSpec => []KernelTypeOK
<1>1. KernelInit => KernelInv
  BY KernelInitInv
<1>2. KernelInv /\ [KernelNext]_AllVars => KernelInv'
  BY KernelNextInv
<1>3. KernelInv => KernelTypeOK
  BY DEF KernelInv
<1> QED BY <1>1, <1>2, <1>3, PTL DEF KernelSpec

(***************************************************************************)
(* Under the same assumption every process goes on where its call or the   *)
(* signal has stopped it (disastrOS_syscall, timerHandler).                *)
(***************************************************************************)
THEOREM EverybodyContinues ==
  ASSUME AlarmPlaces \subseteq UserPlaces
  PROVE  KernelSpec => []ContinuesInStep
<1>1. KernelInit => KernelInv
  BY KernelInitInv
<1>2. KernelInv /\ [KernelNext]_AllVars => KernelInv'
  BY KernelNextInv
<1>3. KernelInv => ContinuesInStep
  BY DEF KernelInv
<1> QED BY <1>1, <1>2, <1>3, PTL DEF KernelSpec

\* The values of Phase are those of the abstract kernel.
LEMMA PhaseValues ==
  ASSUME executed \in [Proc -> {NoCall, 0, 1, 2}]
  PROVE  /\ Phase \in [Proc -> {"InUser", "Called", "Executed", "Repeated"}]
         /\ \A p \in Proc : /\ executed[p] = NoCall => Phase[p] = "InUser"
                            /\ executed[p] = 0 => Phase[p] = "Called"
                            /\ executed[p] = 1 => Phase[p] = "Executed"
BY DEF Phase, NoCall

\* A step of one process's counter is a step of its phase.
LEMMA PhaseStep ==
  ASSUME executed \in [Proc -> {NoCall, 0, 1, 2}], NEW p \in Proc,
         NEW n \in {NoCall, 0, 1}, executed' = [executed EXCEPT ![p] = n]
  PROVE  Phase' = [Phase EXCEPT ![p] = IF n = NoCall THEN "InUser"
                                       ELSE IF n = 0 THEN "Called" ELSE "Executed"]
<1>1. executed' \in [Proc -> {NoCall, 0, 1, 2}]
  OBVIOUS
<1>2. Phase' = [q \in Proc |-> CASE executed'[q] = NoCall -> "InUser"
                                 [] executed'[q] = 0 -> "Called"
                                 [] executed'[q] = 1 -> "Executed"
                                 [] executed'[q] = 2 -> "Repeated"]
  BY DEF Phase
<1>3. \A q \in Proc : Phase'[q] = IF q # p THEN Phase[q]
                                  ELSE IF n = NoCall THEN "InUser"
                                  ELSE IF n = 0 THEN "Called" ELSE "Executed"
  BY <1>2 DEF Phase, NoCall
<1> QED BY <1>2, <1>3, PhaseValues

\* Every step of the kernel is one of the abstract kernel, or none.
LEMMA KernelSimulates ==
  ASSUME KernelInv, KernelInv', [KernelNext]_AllVars
  PROVE  [Atomic!AtomicNext]_<< running, Phase >>
<1> USE DEF Atomic!AtomicNext
<1>1. running \in Proc /\ running' \in Proc
  BY DEF KernelInv, KernelTypeOK, SchedulerTypeOK
<1>2. executed' = executed => Phase' = Phase
  BY DEF Phase
<1>3. CASE UNCHANGED << running, executed >>
  BY <1>2, <1>3
<1>4. CASE SyscallStored
  <2>1. executed[running] = NoCall /\ executed' = [executed EXCEPT ![running] = 0]
    BY <1>4 DEF SyscallStored, Goes, KernelInv, ContinuesInStep, InStep, UserPlaces, User, Stored,
       Returned
  <2>2. Phase[running] = "InUser" /\ Phase' = [Phase EXCEPT ![running] = "Called"]
    BY <2>1, <1>1, PhaseValues, PhaseStep, TypedNow DEF NoCall
  <2>3. running' = running /\ running \in Callers
    BY <1>4 DEF SyscallStored, SchedulerVars
  <2> QED
    BY <2>2, <2>3 DEF Atomic!Call, Atomic!Step, Atomic!InUser, Atomic!Called
<1>5. CASE disastrOS_trap
  <2>1. executed[running] = 0 /\ executed' = [executed EXCEPT ![running] = 1]
    BY <1>5 DEF disastrOS_trap, Goes, KernelInv, ContinuesInStep
  <2>2. executed \in [Proc -> {NoCall, 0, 1, 2}]
    BY TypedNow
  <2>3. Phase[running] = "Called"
    BY <2>1, <2>2, <1>1, PhaseValues
  <2>4. Phase' = [Phase EXCEPT ![running] = "Executed"]
    <3> DEFINE n == 1
    <3>1. n \in {NoCall, 0, 1} /\ n # NoCall /\ n # 0
      BY DEF NoCall
    <3>2. executed' = [executed EXCEPT ![running] = n]
      BY <2>1
    <3> HIDE DEF n
    <3> QED BY <3>1, <3>2, <2>2, <1>1, PhaseStep
  <2> QED
    BY <2>3, <2>4, <1>1 DEF Atomic!Execute, Atomic!Step, Atomic!Called, Atomic!Executed
<1>6. CASE TimerInterrupts
  <2>1. Phase' = Phase
    BY <1>6, <1>2 DEF TimerInterrupts
  <2> QED BY <2>1, <1>1 DEF Atomic!Interrupt
<1>7. CASE ResultIsRead
  <2>1. executed[running] = 1 /\ executed' = [executed EXCEPT ![running] = NoCall]
    BY <1>7 DEF ResultIsRead, Goes, KernelInv, ContinuesInStep, InStep, UserPlaces, User, Stored,
       Returned
  <2>2. Phase[running] = "Executed" /\ Phase' = [Phase EXCEPT ![running] = "InUser"]
    BY <2>1, <1>1, PhaseValues, PhaseStep, TypedNow DEF NoCall
  <2>3. running' = running
    BY <1>7 DEF ResultIsRead, SchedulerVars
  <2> QED
    BY <2>2, <2>3 DEF Atomic!Return, Atomic!Step, Atomic!Executed, Atomic!InUser
<1> QED
  BY <1>3, <1>4, <1>5, <1>6, <1>7
  DEF KernelNext, ProcessorStep, CallStep, AlarmRaised, timerHandler, SyscallSaves,
      SyscallSwitches, HandlerSwitches, ContextRestored, AllVars, KernelVars, SchedulerVars

(***************************************************************************)
(* Whenever signals are raised in the code of processes, or on the way     *)
(* back to a handler, the kernel with its contexts implements the kernel   *)
(* in which a call is one step: no call is executed twice, dropped, or     *)
(* answered before it has been executed.                                   *)
(***************************************************************************)
THEOREM CallsAreAtomic ==
  ASSUME AlarmPlaces \subseteq UserPlaces
  PROVE  KernelSpec => ImplementsAtomicKernel
<1>1. KernelInit => Atomic!AtomicInit
  BY DEF KernelInit, SchedulerInit, Atomic!AtomicInit, Phase, Atomic!InUser, NoCall
<1>2. KernelInit => KernelInv
  BY KernelInitInv
<1>3. KernelInv /\ [KernelNext]_AllVars => KernelInv'
  BY KernelNextInv
<1>4. KernelInv /\ KernelInv' /\ [KernelNext]_AllVars
        => [Atomic!AtomicNext]_<< running, Phase >>
  BY KernelSimulates
<1> QED
  BY <1>1, <1>2, <1>3, <1>4, PTL
  DEF KernelSpec, ImplementsAtomicKernel, Atomic!AtomicSpec

-----------------------------------------------------------------------------
\* SchedulerSpec without its fairness.
SchedulerSteps == SchedulerInit /\ [][SchedulerNext]_SchedulerVars

(***************************************************************************)
(* The safety half of ImplementsScheduler, wherever signals are raised: a  *)
(* trap and a tick that is handled do to the lists of the scheduler what   *)
(* its atomic calls and ticks do, and nothing else touches them.           *)
(***************************************************************************)
THEOREM KernelStepsAreScheduled == KernelSpec => SchedulerSteps
<1>1. KernelInit => SchedulerInit
  BY DEF KernelInit
<1>2. [KernelNext]_AllVars => [SchedulerNext]_SchedulerVars
  <2> SUFFICES ASSUME [KernelNext]_AllVars PROVE [SchedulerNext]_SchedulerVars
    OBVIOUS
  <2>1. CASE disastrOS_trap
    BY <2>1 DEF disastrOS_trap, SchedulerNext
  <2>2. CASE TimerInterrupts
    BY <2>2 DEF TimerInterrupts, SchedulerNext
  <2>3. CASE UNCHANGED SchedulerVars
    BY <2>3
  <2> QED
    BY <2>1, <2>2, <2>3
    DEF KernelNext, ProcessorStep, CallStep, AlarmRaised, timerHandler, SyscallStored,
        SyscallSaves, SyscallSwitches, HandlerSwitches, ContextRestored, ResultIsRead,
        AllVars
<1> QED BY <1>1, <1>2, PTL DEF KernelSpec, SchedulerSteps

(***************************************************************************)
(* So what is proved of the scheduler holds under the real entry into the  *)
(* kernel: the lists match, nobody is overdue or early, and whom a tick    *)
(* wakes runs in the order of the timers.                                  *)
(***************************************************************************)
THEOREM KernelKeepsSchedule ==
  KernelSpec => []ListsMatchStatus /\ []NoOverdueTimer /\ WakesOnTime /\ WakesInTimerOrder
<1>1. SchedulerInit => OrderInv
  BY InitOrder
<1>2. OrderInv /\ [SchedulerNext]_SchedulerVars => OrderInv' /\ [WokenInOrder]_SchedulerVars
  BY NextInOrder
<1>3. SchedulerInv /\ [SchedulerNext]_SchedulerVars =>
        [ \A i \in DOMAIN timer_list :
             timer_list[i].pcb \notin waiting_list' => timer_list[i].left = 1
         ]_SchedulerVars
  BY NextWakesOnTime
<1>4. OrderInv => SchedulerInv /\ ListsMatchStatus /\ NoOverdueTimer
  BY DEF OrderInv, SchedulerInv
<1> QED
  BY <1>1, <1>2, <1>3, <1>4, KernelStepsAreScheduled, PTL
  DEF SchedulerSteps, WakesOnTime, WakesInTimerOrder

=============================================================================
