------------------------------- MODULE Process -------------------------------
(***************************************************************************)
(* The life of a process: spawn, fork, wait, exit.                         *)
(*                                                                         *)
(* Proc are here the blocks of the PCB pool.  A block is used again after  *)
(* PCB_free, and its fields keep their values until then, which matters    *)
(* because pointers to a PCB may outlive it.  A pid is never used again.   *)
(* A PCBPtr, the list item for a child, is its PCB; free_ptrs counts the   *)
(* free blocks of their pool.                                              *)
(*                                                                         *)
(* The processes that only compute, Proc \ Callers, have been spawned by   *)
(* init before everything else.  A process ends with exit: a function that *)
(* just returns goes on behind main_context, which is not modelled.        *)
(***************************************************************************)
EXTENDS Scheduler, SequencesExt

CONSTANTS
  init_pcb,   \* the first process
  NoParent,   \* the null pointer of PCB.parent
  PCBPtrs,    \* MAX_NUM_PROCESSES as the size of the pool of PCBPtr
  WaitArgs,   \* the pids a caller of disastrOS_wait may pass, 0 for any child
  MaxPid      \* bound: no more processes than this are ever spawned

ASSUME ProcessAssumption ==
  /\ init_pcb \in Callers
  /\ NoParent \notin Proc
  /\ PCBPtrs \in Nat /\ Cardinality(Proc \ Callers) <= PCBPtrs
  /\ WaitArgs \subseteq Int
  /\ MaxPid \in Nat

VARIABLES
  pid,           \* PCB.pid
  parent,        \* PCB.parent
  children,      \* PCB.children
  return_value,  \* PCB.return_value
  signals,       \* PCB.signals; signals_mask lets all of them through
  last_wait,     \* the pid a process has passed to wait, if that was its last call
  wait_result,   \* what wait has written to *result, until it is read
  zombie_list,   \* a set: no code looks at its order
  free_pcbs,     \* the free blocks of the pool of PCBs
  free_ptrs,     \* the number of free blocks of the pool of PCBPtrs
  last_pid,      \* the next pid
  forked,        \* the PCBs whose cpu_state is not the process's own
  failure        \* why the kernel has stopped, see Fails

ProcessVars == << pid, parent, children, return_value, signals, last_wait,
                  wait_result, zombie_list, free_pcbs, free_ptrs, last_pid,
                  forked, failure >>

AllVars == << SchedulerVars, ProcessVars >>

Created == "Created"
Zombie  == "Zombie"

DSOS_EWAIT  == -5
DSOS_ESPAWN == -6

SIGCHLD == "SIGCHLD"
SIGHUP  == "SIGHUP"

AnyChild  == 0
NotInWait == -100  \* last_wait of a process whose last call was another one

-----------------------------------------------------------------------------
(***************************************************************************)
(* The kernel reads through a null pointer, fails an assertion, links a    *)
(* PCB into a second list or detaches it from one it is not in, frees one  *)
(* that is still pointed at, does not come out of a loop or loads a        *)
(* context that is not the process's: the model stops, with the reason.    *)
(***************************************************************************)
None          == "None"
NoPtr         == "NoPtr"          \* assert(new_pcb_ptr)
NoNextProcess == "NoNextProcess"  \* the first of an empty ready list
NotAChild     == "NotAChild"      \* the PCBPtr that PCBPtr_byPID did not find
LinkedTwice   == "LinkedTwice"    \* a PCB that is on the waiting list already
NotListed     == "NotListed"      \* a timer's process that is not on the waiting list
DanglingTimer == "DanglingTimer"  \* the process of a timer is collected
NoContext     == "NoContext"      \* the cpu_state of a forked process
EndlessLoop   == "EndlessLoop"    \* init moves its children to itself
NullParent    == "NullParent"     \* init has none
NoDescriptor  == "NoDescriptor"   \* an assertion of fork, in module Resources

Fails(reason) ==
  /\ failure' = reason
  /\ UNCHANGED << SchedulerVars, pid, parent, children, return_value, signals,
                  last_wait, wait_result, zombie_list, free_pcbs, free_ptrs,
                  last_pid, forked >>

(***************************************************************************)
(* disastrOS_syscall stores the call in the PCB of its caller, where it    *)
(* stays until the next one, long after the call has returned.  It is      *)
(* stored and executed in one step here, but for CallStored.               *)
(***************************************************************************)
Called(arg) == last_wait' = [last_wait EXCEPT ![running] = arg]
CalledOther == Called(NotInWait)

\* The running process has read what its last call has left for it.
Result(v) ==
  /\ Return(v)
  /\ wait_result' = [wait_result EXCEPT ![running] = NoResult]

RunNext_Listed(st) ==
  /\ running' = Head(ready_list)
  /\ ready_list' = ready_list
  /\ status' = [st EXCEPT ![Head(ready_list)] = Running]

\* internal_wait and internal_exit take the next process without a scheduler.
RunNext(st) ==
  /\ running' = Head(ready_list)
  /\ ready_list' = Tail(ready_list)
  /\ status' = [st EXCEPT ![Head(ready_list)] = Running]

-----------------------------------------------------------------------------
SpawnFails ==
  /\ free_pcbs = {}
  /\ Result(DSOS_ESPAWN)
  /\ CalledOther
  /\ UNCHANGED << running, status, ready_list, waiting_list, timer_list, pid,
                  parent, children, return_value, signals, zombie_list,
                  free_pcbs, free_ptrs, last_pid, forked, failure >>

SpawnAborts == free_pcbs # {} /\ free_ptrs = 0 /\ Fails(NoPtr)

\* A block from the pool, with a new pid and its fields cleared; ChildAdded
\* clears the children.
PCB_alloc(p) ==
  /\ p \in free_pcbs
  /\ free_pcbs' = free_pcbs \ {p}
  /\ pid' = [pid EXCEPT ![p] = last_pid]
  /\ last_pid' = last_pid + 1
  /\ return_value' = [return_value EXCEPT ![p] = 0]
  /\ signals' = [signals EXCEPT ![p] = {}]

\* The block goes back to the pool, its fields as they are.
PCB_free(p) == free_pcbs' = free_pcbs \cup {p}

\* PCBPtr_alloc, and the insertion into the list of the running process.
ChildAdded(p) ==
  /\ free_ptrs' = free_ptrs - 1
  /\ children' = [children EXCEPT ![running] = Append(@, p), ![p] = << >>]

\* What spawn and fork have in common.
ChildStarts(p) ==
  /\ last_pid <= MaxPid
  /\ free_ptrs > 0
  /\ PCB_alloc(p)
  /\ ChildAdded(p)
  /\ status' = [status EXCEPT ![p] = Ready]
  /\ parent' = [parent EXCEPT ![p] = running]
  /\ ready_list' = Append(ready_list, p)
  /\ Result(last_pid)
  /\ CalledOther
  /\ UNCHANGED << running, waiting_list, timer_list, zombie_list, failure >>

\* makecontext gives the child a context of its own.
SpawnStarts(p) == ChildStarts(p) /\ forked' = forked \ {p}

\* cpu_state is what it was before: nothing, or another process's that has ended.
ForkStarts(p) == ChildStarts(p) /\ forked' = forked \cup {p}

internal_fork == SpawnFails \/ SpawnAborts \/ \E p \in Proc : ForkStarts(p)

internal_spawn == SpawnFails \/ SpawnAborts \/ \E p \in Proc : SpawnStarts(p)

-----------------------------------------------------------------------------
\* The loop of internal_wait stops at a child that is searched for.
Searched(c, arg) ==
  \/ arg = AnyChild /\ status[c] = Zombie
  \/ arg # AnyChild /\ pid[c] = arg

\* It stops at child i, which is the last one if none is searched for.
Awaited(i, arg) ==
  /\ i \in DOMAIN children[running]
  /\ \A j \in 1 .. i - 1 : ~Searched(children[running][j], arg)
  /\ Searched(children[running][i], arg) \/ i = Len(children[running])

WaitRejected(arg) ==
  /\ children[running] = << >>
  /\ Result(DSOS_EWAIT)
  /\ Called(arg)
  /\ UNCHANGED << running, status, ready_list, waiting_list, timer_list, pid,
                  parent, children, return_value, signals, zombie_list,
                  free_pcbs, free_ptrs, last_pid, forked, failure >>

ChildReaped_Kept(i) == children

ChildReaped(i) == [children EXCEPT ![running] = RemoveAt(@, i)]

WaitReaps(arg) ==
  \E i \in DOMAIN children[running] :
    LET c == children[running][i]
    IN  /\ Awaited(i, arg)
        /\ status[c] = Zombie
        /\ ~HasTimer(c)
        /\ Return(pid[c])
        /\ Called(arg)
        /\ wait_result' = [wait_result EXCEPT ![running] = return_value[c]]
        /\ children' = ChildReaped(i)
        /\ zombie_list' = zombie_list \ {c}
        /\ PCB_free(c)
        /\ free_ptrs' = free_ptrs + 1
        /\ UNCHANGED << running, status, ready_list, waiting_list, timer_list,
                        pid, parent, return_value, signals, last_pid, forked,
                        failure >>

\* The PCB would go back to the pool while an item of timer_list points to it.
WaitReapsSleeper(arg) ==
  /\ \E i \in DOMAIN children[running] :
       LET c == children[running][i]
       IN  Awaited(i, arg) /\ status[c] = Zombie /\ HasTimer(c)
  /\ Fails(DanglingTimer)

\* The call blocks, whether its child was found or not.
MustWait(arg) ==
  \E i \in DOMAIN children[running] :
    Awaited(i, arg) /\ status[children[running][i]] # Zombie

WaitBlocks(arg) ==
  /\ MustWait(arg)
  /\ running \notin waiting_list
  /\ ready_list # << >>
  /\ Result(NoResult)
  /\ waiting_list' = waiting_list \cup {running}
  /\ Called(arg)
  /\ RunNext([status EXCEPT ![running] = Waiting])
  /\ UNCHANGED << timer_list, pid, parent, children, return_value, signals,
                  zombie_list, free_pcbs, free_ptrs, last_pid, forked, failure >>

WaitAborts(arg) ==
  /\ MustWait(arg)
  /\ \/ running \in waiting_list /\ Fails(LinkedTwice)
     \/ running \notin waiting_list /\ ready_list = << >> /\ Fails(NoNextProcess)

internal_wait ==
  \E arg \in WaitArgs :
    \/ WaitRejected(arg)
    \/ WaitReaps(arg) \/ WaitReapsSleeper(arg)
    \/ WaitBlocks(arg) \/ WaitAborts(arg)

-----------------------------------------------------------------------------
Orphaned_Dropped == [children EXCEPT ![running] = << >>]

Orphaned_Grandparent ==
  [children EXCEPT ![parent[running]] = @ \o children[running], ![running] = << >>]

\* The children of the process that exits become children of init.
Orphaned ==
  [children EXCEPT ![init_pcb] = @ \o children[running], ![running] = << >>]

\* They get SIGHUP, and the parent of the process that exits gets SIGCHLD.
Signalled ==
  LET hangup == [p \in Proc |-> IF p \in Range(children[running])
                                THEN signals[p] \cup {SIGHUP} ELSE signals[p]]
  IN  [hangup EXCEPT ![parent[running]] = @ \cup {SIGCHLD}]

ParentWaits_AnyOnly ==
  /\ status[parent[running]] = Waiting
  /\ last_wait[parent[running]] = AnyChild

(***************************************************************************)
(* The parent is Waiting, and its last call was a wait for this process.   *)
(* It may be blocked in that call; or it sleeps, and the wait is one that  *)
(* has returned while it slept on the processor, or has not begun.         *)
(***************************************************************************)
ParentWaits ==
  /\ status[parent[running]] = Waiting
  /\ last_wait[parent[running]] \in {AnyChild, pid[running]}

\* PCBPtr_byPID: the i-th of cs is the first one that has this pid.
PCBPtr_byPID(cs, i, k) ==
  /\ i \in DOMAIN cs
  /\ pid[cs[i]] = k
  /\ \A j \in 1 .. i - 1 : pid[cs[j]] # k

\* The process that exits is the i-th in the list of its parent.
ListedAt(i) == PCBPtr_byPID(Orphaned[parent[running]], i, pid[running])

\* A process has a timer while it runs if an exit has ended its sleep.
TimerReleased ==
  \/ \E i \in DOMAIN timer_list :
       timer_list[i].pcb = running /\ timer_list' = RemoveAt(timer_list, i)
  \/ ~HasTimer(running) /\ UNCHANGED timer_list

(***************************************************************************)
(* The parent gets pid and value at once, the value through the pointer of *)
(* its last wait, and runs.  Its PCBPtr is not freed, and if it has been   *)
(* asleep its timer stays in the list.                                     *)
(***************************************************************************)
ExitWakesParent(value) ==
  /\ running \notin waiting_list
  /\ ParentWaits
  /\ \E i \in DOMAIN Orphaned[parent[running]] :
       /\ ListedAt(i)
       /\ children' = [Orphaned EXCEPT ![parent[running]] = RemoveAt(@, i)]
  /\ running' = parent[running]
  /\ status' = [status EXCEPT ![running] = Zombie, ![parent[running]] = Running]
  /\ waiting_list' = waiting_list \ {parent[running]}
  /\ CalledOther
  /\ syscall_retvalue' = [syscall_retvalue EXCEPT ![running] = NoResult,
                                                  ![parent[running]] = pid[running]]
  /\ return_value' = [return_value EXCEPT ![running] = value]
  /\ wait_result' = [wait_result EXCEPT ![running] = NoResult,
                                        ![parent[running]] = value]
  /\ signals' = Signalled
  /\ TimerReleased
  /\ PCB_free(running)
  /\ UNCHANGED << ready_list, pid, parent, zombie_list, free_ptrs, last_pid,
                  forked, failure >>

\* Nobody waits for it: the process stays as a zombie, and the next one runs.
ExitLeavesZombie(value) ==
  /\ running \notin waiting_list
  /\ ~ParentWaits
  /\ ready_list # << >>
  /\ Result(NoResult)
  /\ CalledOther
  /\ children' = Orphaned
  /\ return_value' = [return_value EXCEPT ![running] = value]
  /\ signals' = Signalled
  /\ zombie_list' = zombie_list \cup {running}
  /\ RunNext([status EXCEPT ![running] = Zombie])
  /\ UNCHANGED << waiting_list, timer_list, pid, parent, free_pcbs, free_ptrs,
                  last_pid, forked, failure >>

ExitAborts ==
  \/ running \in waiting_list /\ Fails(LinkedTwice)
  \/ /\ running \notin waiting_list
     /\ ParentWaits
     /\ \A i \in DOMAIN Orphaned[parent[running]] : ~ListedAt(i)
     /\ Fails(NotAChild)
  \/ /\ running \notin waiting_list
     /\ ~ParentWaits
     /\ ready_list = << >>
     /\ Fails(NoNextProcess)

\* init's children would become init's, and init has no parent to tell.
InitExits == Fails(IF children[init_pcb] # << >> THEN EndlessLoop ELSE NullParent)

internal_exit(value) ==
  \/ running = init_pcb /\ InitExits
  \/ /\ running # init_pcb
     /\ ExitWakesParent(value) \/ ExitLeavesZombie(value) \/ ExitAborts

-----------------------------------------------------------------------------
\* At boot: init has spawned the processes that only compute.
ProcessInit ==
  /\ running = init_pcb
  /\ ready_list \in SetToSeqs(Proc \ Callers)
  /\ children = [p \in Proc |-> IF p = init_pcb THEN ready_list ELSE << >>]
  /\ pid = [p \in Proc |-> IF p \in Range(ready_list)
                           THEN CHOOSE i \in DOMAIN ready_list : ready_list[i] = p
                           ELSE 0]
  /\ status = [p \in Proc |-> IF p = init_pcb THEN Running
                              ELSE IF p \in Range(ready_list) THEN Ready
                              ELSE Created]
  /\ parent = [p \in Proc |-> IF p \in Range(ready_list) THEN init_pcb
                                                         ELSE NoParent]
  /\ waiting_list = {} /\ zombie_list = {} /\ timer_list = << >>
  /\ syscall_retvalue = [p \in Proc |-> NoResult]
  /\ wait_result = [p \in Proc |-> NoResult]
  /\ return_value = [p \in Proc |-> 0]
  /\ signals = [p \in Proc |-> {}]
  /\ last_wait = [p \in Proc |-> NotInWait]
  /\ free_pcbs = Callers \ {init_pcb}
  /\ free_ptrs = PCBPtrs - Len(ready_list)
  /\ last_pid = Len(ready_list) + 1
  /\ forked = {}
  /\ failure = None

\* Ticks and the other calls leave the tree of processes alone.
TreeFrame ==
  /\ wait_result' = [wait_result EXCEPT ![running] = NoResult]
  /\ UNCHANGED << pid, parent, children, return_value, signals, zombie_list,
                  free_pcbs, free_ptrs, last_pid, forked, failure >>

CallFrame == TreeFrame /\ CalledOther

(***************************************************************************)
(* The tick finds the process in disastrOS_syscall: the call is stored and *)
(* not executed.  Others see that if the process sleeps on the processor.  *)
(* The call that it then makes need not be this one, which is more than    *)
(* the code does.                                                          *)
(***************************************************************************)
CallStored ==
  /\ status[running] = Waiting
  /\ \E arg \in WaitArgs \cup {NotInWait} : Called(arg)

TickFrame == TreeFrame /\ (UNCHANGED last_wait \/ CallStored)

\* internal_schedule finds the processes of the timers that elapse on the list.
WakesListed ==
  \A i \in DOMAIN timer_list :
    TimerElapsed(Ticked(timer_list)[i]) => timer_list[i].pcb \in waiting_list

ProcessTick ==
  \/ WakesListed /\ timerInterrupt /\ TickFrame
  \/ ~WakesListed /\ Fails(NotListed)

Scheduling ==
  \/ ProcessTick
  \/ (internal_preempt \/ internal_sleep) /\ CallFrame

\* The value that a process passes to exit is its pid, which tells apart
\* whose value a parent gets.
ProcessCall ==
  /\ running \in Callers
  /\ internal_spawn \/ internal_fork \/ internal_wait \/ internal_exit(pid[running])

\* setcontext loads a context that is not the one of this process.
ForkedRuns == running \in forked /\ Fails(NoContext)

ProcessNext ==
  /\ failure = None
  /\ \/ ForkedRuns
     \/ running \notin forked /\ (Scheduling \/ ProcessCall)

ProcessSpec == ProcessInit /\ [][ProcessNext]_AllVars

-----------------------------------------------------------------------------
ProcessStates == ProcessStatus \cup { Created, Zombie }
Failures == { None, NoPtr, NoNextProcess, NotAChild, LinkedTwice, NotListed,
              DanglingTimer, NoContext, EndlessLoop, NullParent, NoDescriptor }

\* The processes that exist, zombies included.
Allocated == Proc \ free_pcbs

\* Every variable has its type.
ProcessTypeOK ==
  /\ running \in Proc
  /\ status \in [Proc -> ProcessStates]
  /\ ready_list \in Seq(Proc)
  /\ waiting_list \subseteq Proc
  /\ timer_list \in Seq(Timer)
  /\ syscall_retvalue \in [Proc -> Int]
  /\ pid \in [Proc -> Nat]
  /\ parent \in [Proc -> Proc \cup {NoParent}]
  /\ children \in [Proc -> Seq(Proc)]
  /\ return_value \in [Proc -> Int]
  /\ signals \in [Proc -> SUBSET {SIGCHLD, SIGHUP}]
  /\ last_wait \in [Proc -> Int]
  /\ wait_result \in [Proc -> Int]
  /\ zombie_list \subseteq Proc
  /\ free_pcbs \subseteq Proc
  /\ free_ptrs \in 0 .. PCBPtrs
  /\ last_pid \in Nat
  /\ forked \subseteq Proc
  /\ failure \in Failures

(***************************************************************************)
(* Every process that exists is where its status says, and none of the     *)
(* lists holds a PCB that has been freed.                                  *)
(***************************************************************************)
LivesInOneList ==
  /\ IsInjective(ready_list)
  /\ Range(ready_list) = { p \in Allocated : status[p] = Ready }
  /\ zombie_list = { p \in Allocated : status[p] = Zombie }
  /\ waiting_list = { p \in Allocated : status[p] = Waiting }
  /\ \A p \in Allocated : status[p] = Running => p = running
  /\ running \in Allocated /\ (status[running] # Running => running \in waiting_list)

(***************************************************************************)
(* Somebody can wait for every process: each one but init is once in the   *)
(* children of exactly one process, which is not itself a zombie, and no   *)
(* list of children holds a PCB that has been freed, though processes are  *)
(* moved between these lists by exit.                                      *)
(***************************************************************************)
EveryChildOnce ==
  /\ \A p \in Allocated : IsInjective(children[p])
  /\ \A p, q \in Allocated :
       p # q => Range(children[p]) \cap Range(children[q]) = {}
  /\ UNION { Range(children[p]) : p \in Allocated } = Allocated \ {init_pcb}
  /\ \A p \in Allocated : status[p] = Zombie => children[p] = << >>

(***************************************************************************)
(* A child is listed at its parent, unless its parent has ended: then init *)
(* has it, and it has got SIGHUP.                                          *)
(***************************************************************************)
ParentOrInit ==
  \A p \in Allocated : \A c \in Range(children[p]) :
    \/ parent[c] = p
    \/ p = init_pcb /\ SIGHUP \in signals[c]

(***************************************************************************)
(* No exit is missed: a process is not blocked in a wait that one of its   *)
(* own children, a zombie already, would have ended.  The test for zombies *)
(* in internal_wait and the one for a waiting parent in internal_exit      *)
(* leave no gap.  One that a timer will wake is not looked at: it sleeps,  *)
(* and is not in the wait that its PCB shows.                              *)
(***************************************************************************)
NoMissedExit ==
  \A p \in Allocated : \A c \in Range(children[p]) :
    /\ parent[c] = p /\ status[c] = Zombie
    /\ status[p] = Waiting /\ ~HasTimer(p)
    => last_wait[p] \notin {AnyChild, pid[c]}

(***************************************************************************)
(* What exit promises (disastrOS_exit.c:10): the children of a process     *)
(* that ends are init's, and a parent that waits is awakened.              *)
(***************************************************************************)
InitReapsOrphans ==
  \A c \in Range(children[init_pcb]) :
    status[c] = Zombie /\ status[init_pcb] = Waiting /\ ~HasTimer(init_pcb)
      => last_wait[init_pcb] \notin {AnyChild, pid[c]}

Pids == 0 .. MaxPid

\* The PCBs of pid k: one, unless the pid is not used yet or has been collected.
PCBsOf(k) == { p \in Allocated : pid[p] = k }

StateOf(k) == IF k >= last_pid THEN "Unborn"
              ELSE IF PCBsOf(k) = {} THEN "Collected"
              ELSE IF \E p \in PCBsOf(k) : status[p] = Zombie THEN "Ended"
              ELSE "Living"

\* The process that has pid k in its list of children.
HasChild(q, k) == \E i \in DOMAIN children[q] : pid[children[q][i]] = k

GuardianOf(k) == IF \E q \in Allocated : HasChild(q, k)
                 THEN pid[CHOOSE q \in Allocated : HasChild(q, k)]
                 ELSE -1

CollectedBy(k) ==
  IF \E p \in PCBsOf(k) : wait_result[p] # NoResult
  THEN LET p == CHOOSE p \in PCBsOf(k) : TRUE
       IN  << syscall_retvalue[p], wait_result[p] >>
  ELSE << >>

Tree == INSTANCE ProcessTree WITH
  Init_pid  <- 0,
  Value     <- LAMBDA k : k,
  state     <- [k \in Pids |-> StateOf(k)],
  guardian  <- [k \in Pids |-> GuardianOf(k)],
  current   <- pid[running],
  collected <- [k \in Pids |-> CollectedBy(k)]

(***************************************************************************)
(* The programs' view: whatever happens to PCBs, which are used again      *)
(* while pointers to them remain, each pid is collected once and with its  *)
(* own value, by the process that has it as a child, after which nothing   *)
(* of it is left; nobody runs who has ended.  That the one who collects    *)
(* has asked for it is not said: an exit may end its sleep (ParentWaits).  *)
(***************************************************************************)
ImplementsProcessTree == Tree!TreeSpec

(***************************************************************************)
(* With a process that only computes somebody is always ready or running,  *)
(* so nobody sleeps on the processor, and no exit ends a sleep.            *)
(***************************************************************************)
SomebodyTakesOver ==
  /\ failure \notin {NoNextProcess, LinkedTwice, NotListed, DanglingTimer}
  /\ running \notin waiting_list
  /\ Range(Owners(timer_list)) \subseteq waiting_list

=============================================================================
