---------------------------- MODULE System_proofs ----------------------------
(***************************************************************************)
(* Proofs about System: what the processes and the message queues promise  *)
(* when each has the scheduler to itself they promise together, for any    *)
(* number of PCBs, queues and message blocks and any arguments of the      *)
(* calls.                                                                  *)
(*                                                                         *)
(* The invariants of the two parts are inductive next to each other        *)
(* because each says of waiting processes only what its own calls rely on: *)
(* ProcessInv leaves those in WaitsElsewhere alone, CallInv those on       *)
(* waiting_list.                                                           *)
(*                                                                         *)
(* Without a process that only computes, an exit may end a sleep and leave *)
(* the timer (ParentWaits); the invariants hold until that timer elapses   *)
(* for a process that is not on waiting_list, where the model stops with   *)
(* NotListed.  What would not be said of the code without a process that   *)
(* computes has one as its assumption.                                     *)
(***************************************************************************)
EXTENDS System, Process_proofs, MessageQueue_proofs

SystemInv == ProcessInv /\ CallInv /\ PoolInv

\* Who waits elsewhere waits at a queue, and the other way round.
LEMMA ElsewhereIsQueues ==
  ASSUME ListsInv, waiting_list \subseteq Proc
  PROVE  Placed(status, waiting_list, InQueues)
           <=> InQueues \subseteq Proc /\ WaitsElsewhere = InQueues
BY DEF ListsInv, Placed, WaitsElsewhere

\* The part of ProcessInv that the calls of the queues need.
LEMMA ListsOfProcesses ==
  ASSUME ProcessInv
  PROVE  ListsHold
BY DEF ProcessInv, ProcessTypeOK, ListsInv, ListsHold, AnyStatus, ProcessStates, Created, Zombie

\* A step of the processes moves nobody who waits at a queue.
LEMMA ProcessStepInv ==
  ASSUME SystemInv, SchedulerFrame, ProcessInv', WaitsElsewhere' = WaitsElsewhere
  PROVE  SystemInv'
<1>1. CallInv /\ PoolInv /\ ProcessInv
  BY DEF SystemInv
<1>2. Placed(status, waiting_list, InQueues) /\ InQueues \subseteq Proc
  BY <1>1 DEF CallInv, ListInv, Placed
<1>3. WaitsElsewhere = InQueues
  BY <1>1, <1>2, ElsewhereIsQueues DEF ProcessInv, ProcessTypeOK
<1>4. ListsInv' /\ waiting_list' \subseteq Proc
  BY DEF ProcessInv, ProcessTypeOK
<1>5. Placed(status', waiting_list', InQueues)
  BY <1>2, <1>3, <1>4 DEF ListsInv, Placed, WaitsElsewhere
<1>6. ListsHold'
  BY DEF ProcessInv, ProcessTypeOK, ListsInv, ListsHold, AnyStatus, ProcessStates, Created, Zombie
<1>7. CallInv'
  BY <1>1, <1>5, <1>6, FrameInv
<1>8. PoolInv'
  BY <1>1, NextPool DEF QueuesStep
<1> QED BY <1>7, <1>8 DEF SystemInv

\* A call of the queues leaves the tree of processes and its lists alone.
LEMMA QueueStepInv ==
  ASSUME SystemInv, QueueCall, CallFrame
  PROVE  SystemInv'
<1> USE DEF ProcessStatus, Running, Ready, Waiting
<1>1. CallInv /\ PoolInv /\ ProcessInv /\ ListsInv /\ ProcessTypeOK
  BY DEF SystemInv, ProcessInv
<1>2. CallInv' /\ ListsHold' /\ Kept
  BY <1>1, CallKeepsInv, CallKeeps DEF CallInv
<1>3. PoolInv'
  BY <1>1, NextPool DEF QueuesStep
<1>4. /\ wait_result' = [wait_result EXCEPT ![running] = NoResult]
      /\ UNCHANGED << pid, parent, children, return_value, signals, zombie_list,
                      free_pcbs, free_ptrs, last_pid, forked, failure >>
      /\ Allocated' = Allocated
      /\ last_wait' \in [Proc -> Int]
      /\ \A p \in Proc : last_wait'[p] = IF p = running THEN NotInWait ELSE last_wait[p]
  <2>1. last_wait \in [Proc -> Int] /\ last_wait' = [last_wait EXCEPT ![running] = NotInWait]
    BY <1>1 DEF CallFrame, CalledOther, Called, ProcessTypeOK
  <2>2. /\ last_wait' \in [Proc -> Int]
        /\ \A p \in Proc : last_wait'[p] = IF p = running THEN NotInWait ELSE last_wait[p]
    <3>1. NotInWait \in Int
      BY DEF NotInWait
    <3> QED BY <2>1, <3>1
  <2> QED BY <2>2 DEF CallFrame, TreeFrame, Allocated
<1>5. \A p \in Proc : IF Living(p) THEN Living(p)' ELSE status'[p] = status[p]
  BY <1>2 DEF Kept, Living
<1>6. ProcessTypeOK'
  <2>1. wait_result' \in [Proc -> Int]
    BY <1>1, <1>4 DEF ProcessTypeOK, NoResult
  <2>2. status' \in [Proc -> ProcessStates]
    BY <1>2 DEF ListsHold, AnyStatus, ProcessStates, Created, Zombie
  <2> QED BY <1>1, <1>2, <1>4, <2>1, <2>2 DEF ProcessTypeOK, ListsHold
<1>7. ListsInv'
  <2>1. /\ ReadyListMatches' /\ RunningMatches' /\ Sorted(timer_list)'
        /\ \A p \in waiting_list' : status'[p] = Waiting
        /\ IsInjective(Owners(timer_list'))
        /\ running' \in waiting_list' => running' \in Range(Owners(timer_list'))
    BY <1>2 DEF ListsHold
  <2>2. zombie_list' = { p \in Allocated' : status'[p] = Zombie }
    <3>1. \A p \in Proc : status'[p] = Zombie <=> status[p] = Zombie
      BY <1>5 DEF Living, Zombie
    <3> QED BY <1>1, <1>4, <3>1 DEF ListsInv, Allocated
  <2>3. \A p \in Proc : p \in free_pcbs' => ~Living(p)'
    BY <1>1, <1>4, <1>5 DEF ListsInv, Living
  <2>4. \A p \in Allocated' : status'[p] # Created
    BY <1>1, <1>4, <1>5 DEF ListsInv, Living, Created, Allocated
  <2>5. NoOverdueTimer'
    BY <1>2 DEF ListsHold
  <2>6. \A p \in Proc : status'[p] = Waiting /\ last_wait'[p] # NotInWait
                           => p \in waiting_list'
    BY <1>1, <1>2, <1>4 DEF ListsInv, Kept
  <2> QED BY <2>1, <2>2, <2>3, <2>4, <2>5, <2>6 DEF ListsInv
<1>8. WaitsAsBefore
  BY <1>2, <1>4 DEF Kept, WaitsAsBefore
<1>9. ProcessInv'
  BY <1>1, <1>4, <1>5, <1>6, <1>7, <1>8, TreeKept
<1> QED BY <1>2, <1>3, <1>9 DEF SystemInv

\* The invariant is inductive.
LEMMA SystemNextInv ==
  ASSUME SystemInv, [SystemNext]_SystemVars
  PROVE  SystemInv'
<1>1. ProcessInv
  BY DEF SystemInv
<1>2. CASE ProcessStep
  <2>1. SchedulerFrame
    BY <1>2 DEF ProcessStep
  <2>2. ProcessInv' /\ WaitsElsewhere' = WaitsElsewhere
    <3>1. CASE ForkedRuns
      BY <1>1, <3>1, FailsInv DEF ForkedRuns, Failures
    <3>2. CASE Scheduling
      BY <1>1, <3>2, SchedulingInv
    <3>3. CASE internal_spawn \/ internal_fork
      BY <1>1, <3>3, SpawnKeepsInv
    <3>4. CASE internal_wait
      BY <1>1, <3>4, WaitKeepsInv
    <3>5. ASSUME NEW value \in ExitValues, internal_exit(value)
          PROVE  ProcessInv' /\ WaitsElsewhere' = WaitsElsewhere
      BY <1>1, <3>5, ExitKeepsInv, SystemAssumption
    <3> QED BY <1>2, <3>1, <3>2, <3>3, <3>4, <3>5 DEF ProcessStep, LifeCall
  <2> QED BY <2>1, <2>2, ProcessStepInv
<1>3. CASE QueueStep
  BY <1>3, QueueStepInv DEF QueueStep
<1>4. CASE UNCHANGED SystemVars
  <2>1. UNCHANGED AllVars /\ UNCHANGED vars
    BY <1>4 DEF SystemVars, AllVars, vars
  <2>2. PoolInv'
    BY <2>1, NextPool DEF SystemInv, QueuesStep, QueuesIdle, vars
  <2> QED BY <2>1, <2>2, ProcessNextInv, IdleInv DEF SystemInv
<1> QED BY <1>2, <1>3, <1>4 DEF SystemNext

\* At boot nobody waits and no queue exists.
LEMMA SystemStart ==
  ASSUME SystemInit
  PROVE  SystemInv
<1>1. ProcessInit /\ QueuesInit
  BY DEF SystemInit
<1>2. ProcessInv /\ WaitsElsewhere = {}
  BY <1>1, ProcessInitInv, NobodyWaits
<1>3. /\ QueueInv /\ LocalTypes
      /\ Apart(waiting_receivers, waiting_senders) /\ InQueues = {}
  BY <1>1, QueuesStart
<1>4. ListInv
  BY <1>2, <1>3, ElsewhereIsQueues DEF ListInv, ProcessInv, ProcessTypeOK
<1>5. PoolInv
  BY <1>1, InitPool
<1> QED BY <1>2, <1>3, <1>4, <1>5, ListsOfProcesses DEF SystemInv, CallInv

(***************************************************************************)
(* Processes and queues keep the promises that they rely on each other     *)
(* for, whatever their calls and the ticks between them.                   *)
(***************************************************************************)
THEOREM SystemInvariant == SystemSpec => []SystemInv
<1>1. SystemInit => SystemInv
  BY SystemStart
<1>2. SystemInv /\ [SystemNext]_SystemVars => SystemInv'
  BY SystemNextInv
<1> QED BY <1>1, <1>2, PTL DEF SystemSpec

-----------------------------------------------------------------------------
\* The invariant says what the properties say.
LEMMA SystemImplies ==
  ASSUME SystemInv
  PROVE  /\ SystemTypeOK /\ WaitsForOneThing
         /\ EveryChildOnce /\ ParentOrInit /\ NoMissedExit /\ NoOverdueTimer
         /\ CountsMatch /\ ReceiversWaitOnEmpty /\ NoBlockLost /\ PoolSuffices
<1>1. ProcessInv /\ CallInv /\ PoolInv /\ ListsInv /\ ProcessTypeOK
  BY DEF SystemInv, ProcessInv
<1>2. QueuesTypeOK /\ CountsMatch /\ ReceiversWaitOnEmpty /\ Blocked = InQueues
  BY <1>1, CallImplies
<1>3. EveryChildOnce /\ ParentOrInit /\ NoMissedExit
  BY <1>1, ProcessImplies
<1>4. NoBlockLost /\ PoolSuffices
  BY <1>1, PoolImplies
<1>5. WaitsForOneThing
  <2>1. /\ Blocked \cap waiting_list = {}
        /\ { p \in Proc : status[p] = Waiting } = waiting_list \cup Blocked
    BY <1>1, <1>2 DEF CallInv, ListInv, Placed
  <2>2. \A p \in Proc : status[p] = Waiting => p \in Allocated
    BY <1>1 DEF ListsInv, Living, Allocated, ProcessStatus
  <2>3. { p \in Allocated : status[p] = Waiting } = { p \in Proc : status[p] = Waiting }
    BY <2>2 DEF Allocated
  <2>4. \A p \in Blocked : last_wait[p] = NotInWait
    BY <1>1, <2>1 DEF ListsInv
  <2> QED BY <2>1, <2>3, <2>4 DEF WaitsForOneThing
<1>6. NoOverdueTimer
  BY <1>1 DEF ListsInv
<1> QED BY <1>1, <1>2, <1>3, <1>4, <1>5, <1>6 DEF SystemTypeOK

\* Every variable always has its type.
THEOREM SystemTypes == SystemSpec => []SystemTypeOK
<1>1. SystemInv => SystemTypeOK
  BY SystemImplies
<1> QED BY <1>1, SystemInvariant, PTL

(***************************************************************************)
(* The tree of processes is as sound as without the queues, though a       *)
(* parent may now be Waiting for something else than a child.              *)
(***************************************************************************)
THEOREM TreeHolds == SystemSpec => [](EveryChildOnce /\ ParentOrInit)
<1>1. SystemInv => EveryChildOnce /\ ParentOrInit
  BY SystemImplies
<1> QED BY <1>1, SystemInvariant, PTL

(***************************************************************************)
(* A parent that is blocked in wait, and has no timer left from a sleep    *)
(* that an exit has ended, misses no exit, whatever values the children    *)
(* exit with and whichever queues they are woken from.                     *)
(***************************************************************************)
THEOREM NoExitMissed == SystemSpec => []NoMissedExit
<1>1. SystemInv => NoMissedExit
  BY SystemImplies
<1> QED BY <1>1, SystemInvariant, PTL

\* No timer stays in the list when its cycles have passed, be its process asleep
\* or woken before by an exit.
THEOREM TimersAreTaken == SystemSpec => []NoOverdueTimer
<1>1. SystemInv => NoOverdueTimer
  BY SystemImplies
<1> QED BY <1>1, SystemInvariant, PTL

(***************************************************************************)
(* Processes that end, and the wait that collects them, disturb neither    *)
(* the queues' counters nor the pool of message blocks.                    *)
(***************************************************************************)
THEOREM QueuesHold ==
  SystemSpec => [](CountsMatch /\ NoBlockLost /\ PoolSuffices)
<1>1. SystemInv => CountsMatch /\ NoBlockLost /\ PoolSuffices
  BY SystemImplies
<1> QED BY <1>1, SystemInvariant, PTL

(***************************************************************************)
(* No message lies in a queue at which a process of the system is blocked; *)
(* a timer that an exit has left, and that elapses for such a process,     *)
(* stops the model (NotListed) before it could be taken out of the queue.  *)
(***************************************************************************)
THEOREM NoMessageMissed == SystemSpec => []ReceiversWaitOnEmpty
<1>1. SystemInv => ReceiversWaitOnEmpty
  BY SystemImplies
<1> QED BY <1>1, SystemInvariant, PTL

-----------------------------------------------------------------------------
\* The queues see a step of the system as they see one of their own.
LEMMA SystemIsStep ==
  ASSUME [SystemNext]_SystemVars
  PROVE  QueuesStep
BY DEF SystemNext, ProcessStep, QueueStep, SystemVars, QueuesStep, QueuesIdle

\* Whoever stops waiting at a queue has a result that fits, for as long as the
\* kernel does not stop at a timer that an exit has left (NotListed).
LEMMA SystemWakes == SystemSpec => WokenWithResult
<1>1. SystemInv /\ [SystemNext]_SystemVars => [WokenRight]_vars
  BY SystemIsStep, NextWakes DEF SystemInv
<1> QED BY <1>1, SystemInvariant, PTL DEF SystemSpec, WokenWithResult

\* Senders wait at full queues only, with the invariant that this rests on.
LEMMA SystemSenders ==
  ASSUME BuffersSuffice
  PROVE  SystemSpec => [](SystemInv /\ SendersWaitOnFull)
<1>1. SystemInit => SendersWaitOnFull
  BY DEF SystemInit, QueuesInit, SendersWaitOnFull
<1>2. SystemInv /\ SendersWaitOnFull /\ [SystemNext]_SystemVars => SendersWaitOnFull'
  BY SystemIsStep, NextSenders DEF SystemInv
<1> QED BY <1>1, <1>2, SystemInvariant, PTL DEF SystemSpec

(***************************************************************************)
(* With buffers that suffice nobody waits for space that is there.         *)
(***************************************************************************)
THEOREM NoSpaceMissed ==
  ASSUME BuffersSuffice
  PROVE  SystemSpec => []SendersWaitOnFull
<1> QED BY SystemSenders, PTL

(***************************************************************************)
(* With buffers that suffice the queues stay channels while processes are  *)
(* born, end and are collected: no message is lost or delivered twice,     *)
(* unless the kernel stops first; it does not if somebody computes.        *)
(***************************************************************************)
THEOREM SystemImplementsChannels ==
  ASSUME BuffersSuffice
  PROVE  SystemSpec => ImplementsChannels
<1>1. SystemInit => Channels!Init /\ LargeBuffers
  BY ChannelsStart DEF SystemInit
<1>2. SystemInv /\ LargeBuffers /\ [SystemNext]_SystemVars => LargeBuffers'
  BY SystemIsStep, NextBuffers DEF SystemInv
<1>3. SystemInv /\ SendersWaitOnFull /\ LargeBuffers /\ [SystemNext]_SystemVars
        => [Channels!Next]_AbstractVars
  BY SystemIsStep, ChannelStep DEF SystemInv
<1>4. [Channels!Next]_AbstractVars <=> [Channels!Next]_(Channels!channelVars)
  BY DEF AbstractVars, Channels!channelVars
<1> QED
  BY <1>1, <1>2, <1>3, <1>4, SystemSenders, PTL
     DEF SystemSpec, ImplementsChannels, Channels!Spec

-----------------------------------------------------------------------------
(***************************************************************************)
(* With a process that only computes.  The tree's promise (TakenOver) and  *)
(* the queues' (BlockingInv) both rest on somebody being ready whenever a  *)
(* caller runs.                                                            *)
(***************************************************************************)
SystemAwake == SystemInv /\ TakenOver /\ BlockingInv

\* The calls of processes return no error of the queues.
LEMMA LifeRefusesNothing ==
  ASSUME SystemInv, BlockingInv, NEW value \in Int,
         ForkedRuns \/ Scheduling \/ internal_spawn \/ internal_fork \/ internal_wait
           \/ internal_exit(value)
  PROVE  BlocksInsteadOfFailing'
<1> USE DEF Refusals, DSOS_EMQFULL, DSOS_EMQEMPTY
<1>1. /\ last_pid \in Nat /\ \A p \in Proc : pid[p] \in Nat
      /\ syscall_retvalue \in [Proc -> Int]
  BY DEF SystemInv, ProcessInv, ProcessTypeOK
<1>2. ASSUME NEW v \in Int \ Refusals, Return(v) PROVE BlocksInsteadOfFailing'
  BY <1>2, ReturnsOther
<1>3. ASSUME NEW reason, Fails(reason) PROVE BlocksInsteadOfFailing'
  BY <1>3 DEF Fails, SchedulerVars, BlockingInv, BlocksInsteadOfFailing
<1>4. CASE ForkedRuns
  BY <1>3, <1>4 DEF ForkedRuns
<1>5. CASE Scheduling
  <2>1. Return(NoResult) \/ Return(DSOS_ESLEEP) \/ Return(0) \/ Fails(NotListed)
    BY <1>5 DEF Scheduling, ProcessTick, timerInterrupt, internal_preempt, internal_sleep,
                ResultRead, SleepRefused, SleepStarts
  <2> QED BY <1>2, <1>3, <2>1 DEF NoResult, DSOS_ESLEEP
<1>6. CASE internal_spawn \/ internal_fork
  <2>1. \/ Return(DSOS_ESPAWN) \/ Return(last_pid)
        \/ Fails(NoPtr)
    BY <1>6 DEF internal_spawn, internal_fork, SpawnFails, SpawnAborts, SpawnStarts, ForkStarts,
                ChildStarts, Result
  <2> QED BY <1>1, <1>2, <1>3, <2>1 DEF DSOS_ESPAWN
<1>7. CASE internal_wait
  <2>1. ASSUME NEW arg \in WaitArgs, WaitRejected(arg) PROVE BlocksInsteadOfFailing'
    BY <1>2, <2>1 DEF WaitRejected, Result, DSOS_EWAIT
  <2>2. ASSUME NEW arg \in WaitArgs, WaitReaps(arg) PROVE BlocksInsteadOfFailing'
    <3>1. PICK i \in DOMAIN children[running] : Return(pid[children[running][i]])
      BY <2>2 DEF WaitReaps
    <3>2. children[running] \in Seq(Proc)
      BY DEF SystemInv, ProcessInv, ProcessTypeOK
    <3>3. children[running][i] \in Proc
      BY <3>1, <3>2
    <3> QED BY <1>1, <1>2, <3>1, <3>3
  <2>3. ASSUME NEW arg \in WaitArgs, WaitBlocks(arg) PROVE BlocksInsteadOfFailing'
    BY <1>2, <2>3 DEF WaitBlocks, Result, NoResult
  <2>4. ASSUME NEW arg \in WaitArgs, WaitReapsSleeper(arg) \/ WaitAborts(arg)
        PROVE  BlocksInsteadOfFailing'
    BY <1>3, <2>4 DEF WaitReapsSleeper, WaitAborts
  <2> QED BY <1>7, <2>1, <2>2, <2>3, <2>4 DEF internal_wait
<1>8. CASE internal_exit(value)
  <2>1. CASE ExitWakesParent(value)
    <3>1. /\ running \in Proc
          /\ syscall_retvalue' = [syscall_retvalue EXCEPT ![running] = NoResult,
                                                          ![parent[running]] = pid[running]]
      BY <2>1 DEF ExitWakesParent, SystemInv, ProcessInv, ProcessTypeOK
    <3> QED BY <1>1, <3>1 DEF BlockingInv, BlocksInsteadOfFailing, NoResult
  <2>2. CASE ExitLeavesZombie(value)
    BY <1>2, <2>2 DEF ExitLeavesZombie, Result, NoResult
  <2>3. CASE InitExits \/ ExitAborts
    BY <1>3, <2>3 DEF InitExits, ExitAborts
  <2> QED BY <1>8, <2>1, <2>2, <2>3 DEF internal_exit
<1> QED BY <1>4, <1>5, <1>6, <1>7, <1>8

\* The promises are kept together.
LEMMA SystemNextAwake ==
  ASSUME SystemAwake, Proc \ Callers # {}, [SystemNext]_SystemVars
  PROVE  SystemAwake'
<1>1. SystemInv /\ TakenOver /\ BlockingInv
  BY DEF SystemAwake
<1>2. SystemInv' /\ ProcessInv' /\ CallInv'
  BY <1>1, SystemNextInv DEF SystemInv
<1>3. CASE ProcessStep
  <2>1. SchedulerFrame
    BY <1>3 DEF ProcessStep
  <2>2. PICK value \in Int :
          \/ ForkedRuns
          \/ Scheduling
          \/ /\ running \in Callers
             /\ internal_spawn \/ internal_fork \/ internal_wait \/ internal_exit(value)
    <3>1. 0 \in Int
      OBVIOUS
    <3> QED BY <1>3, <3>1, SystemAssumption DEF ProcessStep, LifeCall
  <2>3. ComputesOn' /\ TimersAsleep' /\ SomebodyTakesOver'
    <3>1. CASE ForkedRuns
      <4>1. /\ failure' = NoContext
            /\ UNCHANGED << running, status, waiting_list, timer_list, last_wait >>
        BY <3>1 DEF ForkedRuns, Fails, SchedulerVars
      <4> QED BY <1>1, <4>1 DEF TakenOver, ComputesOn, TimersAsleep, SomebodyTakesOver, NoContext,
                                NoNextProcess, LinkedTwice, NotListed, DanglingTimer
    <3> QED BY <1>1, <2>2, <3>1, SchedulingTakenOver, CallTakenOver
  <2>4. Awake'
    BY <2>3 DEF ComputesOn, SomebodyTakesOver, Awake, OthersCompute, SleepersDoNotRun,
                Running, Ready, Waiting
  <2>5. NeverLinkedTwice'
    BY <1>1, <2>1 DEF SchedulerFrame, BlockingInv, NeverLinkedTwice
  <2>6. BlocksInsteadOfFailing'
    BY <1>1, <2>2, LifeRefusesNothing
  <2> QED BY <1>2, <2>3, <2>4, <2>5, <2>6 DEF SystemAwake, TakenOver, BlockingInv
<1>4. CASE QueueStep
  <2>1. running \in Callers /\ QueueCall /\ CallFrame
    BY <1>4 DEF QueueStep
  <2>2. ready_list # << >>
    BY <1>1, <2>1, CallerIsFollowed
  <2>3. BlockingInv'
    BY <1>1, <2>1, <2>2, CallBlocking
  <2>4. Kept
    BY <1>1, <2>1, CallKeeps DEF BlockingInv
  <2>5. ComputesOn'
    BY <1>1, <2>3, <2>4 DEF BlockingInv, Awake, OthersCompute, TakenOver, ComputesOn, Kept,
                            ProcessStatus, Running, Ready, Waiting
  <2>6. SomebodyTakesOver'
    BY <1>1, <2>1, <2>3, <2>4 DEF CallFrame, TreeFrame, BlockingInv, Awake, SleepersDoNotRun,
                                  TakenOver, SomebodyTakesOver, Kept
  <2>7. TimersAsleep'
    <3>1. last_wait \in [Proc -> Int] /\ last_wait' = [last_wait EXCEPT ![running] = NotInWait]
      BY <1>1, <2>1 DEF SystemInv, ProcessInv, ProcessTypeOK, CallFrame, CalledOther, Called
    <3>2. \A p : p # running => last_wait'[p] = last_wait[p]
      BY <3>1
    <3> QED BY <1>1, <2>4, <3>2, TimersListed DEF Kept, TakenOver, TimersAsleep
  <2> QED BY <1>2, <2>3, <2>5, <2>6, <2>7 DEF SystemAwake, TakenOver
<1>5. CASE UNCHANGED SystemVars
  <2>1. UNCHANGED << running, status, waiting_list, timer_list, last_wait, syscall_retvalue,
                     failure, list_broken >>
    BY <1>5 DEF SystemVars, AllVars, SchedulerVars, ProcessVars
  <2> QED BY <1>1, <1>2, <2>1 DEF SystemAwake, TakenOver, ComputesOn, TimersAsleep,
             SomebodyTakesOver,
             BlockingInv, Awake, OthersCompute, SleepersDoNotRun, NeverLinkedTwice,
             BlocksInsteadOfFailing
<1> QED BY <1>3, <1>4, <1>5 DEF SystemNext

LEMMA SystemAwakeInvariant ==
  ASSUME Proc \ Callers # {}
  PROVE  SystemSpec => []SystemAwake
<1>1. SystemInit => SystemAwake
  <2> SUFFICES ASSUME SystemInit
               PROVE  SystemAwake
    OBVIOUS
  <2>1. SystemInv /\ CallInv
    BY SystemStart DEF SystemInv
  <2>2. TakenOver
    BY InitTakenOver DEF SystemInit
  <2>3. Awake
    BY <2>2 DEF TakenOver, ComputesOn, SomebodyTakesOver, Awake, OthersCompute,
                SleepersDoNotRun, Running, Ready, Waiting
  <2>4. NeverLinkedTwice /\ BlocksInsteadOfFailing
    BY DEF SystemInit, QueuesInit, ProcessInit, NeverLinkedTwice, BlocksInsteadOfFailing,
           NoResult, DSOS_EMQFULL, DSOS_EMQEMPTY
  <2> QED BY <2>1, <2>2, <2>3, <2>4 DEF SystemAwake, BlockingInv
<1>2. SystemAwake /\ [SystemNext]_SystemVars => SystemAwake'
  BY SystemNextAwake
<1> QED BY <1>1, <1>2, PTL DEF SystemSpec

(***************************************************************************)
(* One process that only computes is enough for all calls together: no     *)
(* exit, wait or blocking call finds the ready list empty or links a PCB   *)
(* twice, and nobody who waits is left on the processor.                   *)
(***************************************************************************)
THEOREM SystemKeepsRunning ==
  ASSUME Proc \ Callers # {}
  PROVE  SystemSpec => [](SomebodyTakesOver /\ NeverLinkedTwice)
<1>1. SystemAwake => SomebodyTakesOver /\ NeverLinkedTwice
  BY DEF SystemAwake, TakenOver, BlockingInv
<1> QED BY <1>1, SystemAwakeInvariant, PTL

(***************************************************************************)
(* With a process that only computes, no exit, message or tick ever takes  *)
(* a process out of a wait of another kind, and none leaves a process      *)
(* Waiting where nobody looks for it: whoever waits is in one list, and    *)
(* who is blocked in a queue has no timer that would take him out of it.   *)
(***************************************************************************)
THEOREM OneWaitEach ==
  ASSUME Proc \ Callers # {}
  PROVE  SystemSpec => [](WaitsForOneThing /\ \A p \in Blocked : ~HasTimer(p))
<1>1. SystemAwake => WaitsForOneThing /\ \A p \in Blocked : ~HasTimer(p)
  <2> SUFFICES ASSUME SystemAwake
               PROVE  WaitsForOneThing /\ \A p \in Blocked : ~HasTimer(p)
    OBVIOUS
  <2>1. WaitsForOneThing
    BY SystemImplies DEF SystemAwake
  <2>2. Range(Owners(timer_list)) \subseteq waiting_list
    BY DEF SystemAwake, TakenOver, SomebodyTakesOver
  <2> QED BY <2>1, <2>2, TimerOwned DEF WaitsForOneThing
<1> QED BY <1>1, SystemAwakeInvariant, PTL

(***************************************************************************)
(* With a process that only computes, whoever stops waiting at a queue has *)
(* a result that fits: neither an exit nor a tick takes somebody out of a  *)
(* queue's list, and this is not because the kernel stops at a timer of    *)
(* one who is blocked there.                                               *)
(***************************************************************************)
THEOREM WokenByPeersOnly ==
  ASSUME Proc \ Callers # {}
  PROVE  SystemSpec => WokenWithResult /\ [](failure # NotListed)
<1>1. SystemAwake => failure # NotListed
  BY DEF SystemAwake, TakenOver, SomebodyTakesOver
<1> QED BY <1>1, SystemWakes, SystemAwakeInvariant, PTL

\* With a process that only computes, mq_send and mq_receive block and never
\* return EMQFULL or EMQEMPTY.
THEOREM SystemAlwaysBlocks ==
  ASSUME Proc \ Callers # {}
  PROVE  SystemSpec => []BlocksInsteadOfFailing
<1>1. SystemAwake => BlocksInsteadOfFailing
  BY DEF SystemAwake, BlockingInv
<1> QED BY <1>1, SystemAwakeInvariant, PTL

=============================================================================
