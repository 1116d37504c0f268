------------------------------ MODULE Scheduler ------------------------------
(***************************************************************************)
(* The scheduler of disastrOS: the running process, the ready list, the    *)
(* waiting list of sleeping processes and the list of timers.              *)
(*                                                                         *)
(* Kernel code runs on the system stack with SIGALRM blocked, so a system  *)
(* call and a timer interrupt are atomic with respect to each other, and   *)
(* each is one action here.  The only processor runs `running'; there is   *)
(* no idle process, so somebody runs at all times.                         *)
(*                                                                         *)
(* A definition whose name is another one's with a suffix after `_', as    *)
(* Requeued_AtFront, is a faulty variant of that definition: PROJECT.json  *)
(* pairs it with the property that TLC finds violated under it.            *)
(*                                                                         *)
(* A doubly linked list is the sequence of its elements.  waiting_list is  *)
(* the set of its elements: no code looks at its order.  A timer holds the *)
(* ticks that are left, awakening_time - disastrOS_time, so the clock      *)
(* itself needs no bound.                                                  *)
(***************************************************************************)
EXTENDS Integers, Sequences, FiniteSets, Functions

CONSTANTS
  Proc,         \* the processes (PCBs)
  Callers,      \* those that make system calls; the others only compute, as
                \* sleeperFunction of disastrOS_test.c does
  SleepCycles   \* the arguments a caller of disastrOS_sleep may pass

ASSUME SchedulerAssumption ==
  /\ IsFiniteSet(Proc)  \* MAX_NUM_PROCESSES
  /\ Callers \subseteq Proc
  /\ SleepCycles \subseteq Int

VARIABLES
  running,          \* the process that owns the processor
  status,           \* PCB.status
  ready_list,       \* the processes that can run, next one first
  waiting_list,     \* the processes that sleep
  timer_list,       \* one [pcb, left] per sleeping process, earliest first
  syscall_retvalue  \* PCB.syscall_retvalue, see NoResult

SchedulerVars ==
  << running, status, ready_list, waiting_list, timer_list, syscall_retvalue >>

Running == "Running"
Ready   == "Ready"
Waiting == "Waiting"
ProcessStatus == { Running, Ready, Waiting }

DSOS_ESLEEP == -7

(***************************************************************************)
(* The value of syscall_retvalue[p] when p waits for nothing in it: p has  *)
(* read its last result, or p is inside a call that has not set one yet.   *)
(* A process reads its result as soon as it is back in user mode, so at    *)
(* the next kernel entry the running process has read it.  No system call  *)
(* returns this value.                                                     *)
(***************************************************************************)
NoResult == -100

Return(v) == syscall_retvalue' = [syscall_retvalue EXCEPT ![running] = v]
ResultRead == Return(NoResult)

HasTimer_Never(p) == FALSE

\* PCB.timer: a process has a timer as long as one of timer_list is its own.
HasTimer(p) == \E i \in DOMAIN timer_list : timer_list[i].pcb = p

TimerElapsed(item) == item.left <= 0

(***************************************************************************)
(* TimerList_add puts a new timer behind the first k of tl: those that     *)
(* elapse earlier or at the same time, up to the first that elapses later. *)
(***************************************************************************)
TimerGoesBehind_NoBreak(tl, item, k) == k = Len(tl)

TimerGoesBehind(tl, item, k) ==
  /\ \A i \in 1 .. k : tl[i].left <= item.left
  /\ k < Len(tl) => item.left < tl[k + 1].left

TimerList_add(tl, item, k) ==
  SubSeq(tl, 1, k) \o << item >> \o SubSeq(tl, k + 1, Len(tl))

(***************************************************************************)
(* The loop of internal_schedule over TimerList_current takes the first n  *)
(* timers of tl: they have elapsed, and the next one, if any, has not.     *)
(***************************************************************************)
TakesTimers_TooSoon(tl, n) ==
  /\ \A i \in 1 .. n : tl[i].left <= 1
  /\ n < Len(tl) => tl[n + 1].left > 1

TakesTimers(tl, n) ==
  /\ \A i \in 1 .. n : TimerElapsed(tl[i])
  /\ n < Len(tl) => ~TimerElapsed(tl[n + 1])

Owners(tl) == [i \in DOMAIN tl |-> tl[i].pcb]

\* The woken processes go to the front of the ready list, in timer order.
WokenFirst_Reversed(woken, rl) ==
  [i \in DOMAIN woken |-> woken[Len(woken) + 1 - i]] \o rl

WokenFirst(woken, rl) == woken \o rl

\* The process that leaves the processor is requeued, unless it waits.
Requeued_AtFront(rl, p) == << p >> \o rl

Requeued_Lost(rl, p) == rl

Requeued(rl, p) == Append(rl, p)

(***************************************************************************)
(* internal_schedule, called with the status, ready list, waiting list and *)
(* timer list that its caller has made.  Wakes the sleepers whose timers   *)
(* have elapsed, then gives the processor to the first ready process.      *)
(* With nobody ready the running process keeps the processor, whatever     *)
(* its status.                                                             *)
(***************************************************************************)
internal_schedule(st, rl, wl, tl) ==
  \E n \in 0 .. Len(tl) :
    /\ TakesTimers(tl, n)
    /\ LET woken  == Owners(SubSeq(tl, 1, n))
           awake  == [p \in Proc |-> IF p \in Range(woken) THEN Ready ELSE st[p]]
           ready  == WokenFirst(woken, rl)
           requeue == awake[running] = Running
       IN  /\ waiting_list' = wl \ Range(woken)
           /\ timer_list' = SubSeq(tl, n + 1, Len(tl))
           /\ \/ /\ ready = << >>
                 /\ ready_list' = << >>
                 /\ status' = awake
                 /\ UNCHANGED running
              \/ /\ ready # << >>
                 /\ running' = Head(ready)
                 /\ ready_list' = IF requeue THEN Requeued(Tail(ready), running)
                                             ELSE Tail(ready)
                 /\ status' = [p \in Proc |->
                                 IF p = Head(ready) THEN Running
                                 ELSE IF p = running /\ requeue THEN Ready
                                 ELSE awake[p]]

\* internal_schedule finds somebody to switch to.
Schedulable(rl, tl) == rl # << >> \/ (tl # << >> /\ TimerElapsed(tl[1]))

-----------------------------------------------------------------------------
(***************************************************************************)
(* At boot the first process runs.  Spawning is not part of this module:   *)
(* the other processes have been created and are ready.                    *)
(***************************************************************************)
SchedulerInit ==
  /\ running \in Proc
  /\ ready_list \in { s \in [1 .. Cardinality(Proc) - 1 -> Proc \ {running}] :
                        IsInjective(s) }
  /\ status = [p \in Proc |-> IF p = running THEN Running ELSE Ready]
  /\ waiting_list = {}
  /\ timer_list = << >>
  /\ syscall_retvalue = [p \in Proc |-> NoResult]

\* One more tick has passed: every timer has one less left.
Ticked(tl) == [i \in DOMAIN tl |-> [tl[i] EXCEPT !.left = tl[i].left - 1]]

\* The periodic SIGALRM: one more tick, then the scheduler.
timerInterrupt ==
  /\ ResultRead
  /\ internal_schedule(status, ready_list, waiting_list, Ticked(timer_list))

internal_preempt ==
  /\ running \in Callers
  /\ ResultRead
  /\ internal_schedule(status, ready_list, waiting_list, timer_list)

\* A process that still has a timer cannot start another one.
SleepRefused ==
  /\ running \in Callers
  /\ HasTimer(running)
  /\ Return(DSOS_ESLEEP)
  /\ UNCHANGED << running, status, ready_list, waiting_list, timer_list >>

SleepStarts(cycles) ==
  /\ running \in Callers
  /\ ~HasTimer(running)
  /\ Return(0)
  /\ \E k \in 0 .. Len(timer_list) :
       LET item == [pcb |-> running, left |-> cycles]
       IN  /\ TimerGoesBehind(timer_list, item, k)
           /\ internal_schedule([status EXCEPT ![running] = Waiting],
                                ready_list,
                                waiting_list \cup {running},
                                TimerList_add(timer_list, item, k))

internal_sleep == SleepRefused \/ \E cycles \in SleepCycles : SleepStarts(cycles)

SchedulerNext == timerInterrupt \/ internal_preempt \/ internal_sleep

(***************************************************************************)
(* setitimer delivers SIGALRM periodically, and every process spends time  *)
(* in user mode, where the signal is not blocked.                          *)
(***************************************************************************)
SchedulerSpec ==
  /\ SchedulerInit
  /\ [][SchedulerNext]_SchedulerVars
  /\ WF_SchedulerVars(timerInterrupt)

-----------------------------------------------------------------------------
Timer == [pcb : Proc, left : Int]

\* Every variable of the scheduler has its type.
SchedulerTypeOK ==
  /\ running \in Proc
  /\ status \in [Proc -> ProcessStatus]
  /\ ready_list \in Seq(Proc)
  /\ waiting_list \subseteq Proc
  /\ timer_list \in Seq(Timer)
  /\ syscall_retvalue \in [Proc -> Int]

(***************************************************************************)
(* The ready list holds every process whose status is Ready, once.  A      *)
(* process that is dropped from it, or is in it twice, is lost or runs     *)
(* twice (List_insert, List_detach).                                       *)
(***************************************************************************)
ReadyListMatches ==
  /\ IsInjective(ready_list)
  /\ Range(ready_list) = { p \in Proc : status[p] = Ready }

(***************************************************************************)
(* At most the running process has status Running, and it does unless it   *)
(* is on the waiting list: a sleeper that nobody could take over from.     *)
(***************************************************************************)
RunningMatches ==
  /\ \A p \in Proc : status[p] = Running => p = running
  /\ status[running] # Running => running \in waiting_list

(***************************************************************************)
(* The processes on the waiting list are Waiting and own exactly one timer *)
(* each; nobody else owns one (internal_sleep, internal_schedule).         *)
(***************************************************************************)
TimersMatch ==
  /\ IsInjective(Owners(timer_list))
  /\ Range(Owners(timer_list)) = waiting_list
  /\ \A p \in waiting_list : status[p] = Waiting

\* The lists, the status fields and the timers describe the same processes.
ListsMatchStatus == ReadyListMatches /\ RunningMatches /\ TimersMatch

(***************************************************************************)
(* No sleeper is overdue: whenever the kernel returns to user mode every   *)
(* timer of the list lies in the future, though internal_schedule looks at *)
(* the head only and stops at the first timer that has not elapsed.        *)
(***************************************************************************)
NoOverdueTimer ==
  \A i \in DOMAIN timer_list : ~TimerElapsed(timer_list[i])

(***************************************************************************)
(* Nobody wakes early: a process leaves the waiting list only at the tick  *)
(* its timer was set for.                                                  *)
(***************************************************************************)
WakesOnTime ==
  [][ \A i \in DOMAIN timer_list :
        timer_list[i].pcb \notin waiting_list' => timer_list[i].left = 1
    ]_SchedulerVars

\* The processes in the order in which they get the processor.
RunOrder == << running >> \o ready_list

\* In the new state p gets the processor before q.
RunsBefore(p, q) ==
  \E i, j \in DOMAIN RunOrder' : i < j /\ RunOrder'[i] = p /\ RunOrder'[j] = q

\* The timer of q, which may be p, stands in front of the one of p.
ElapsesBefore(q, p) ==
  \E i, j \in DOMAIN timer_list :
    i <= j /\ timer_list[i].pcb = q /\ timer_list[j].pcb = p

WokenInOrder ==
  \A p \in waiting_list \ waiting_list', q \in Proc \ waiting_list' :
    RunsBefore(p, q) \/ ElapsesBefore(q, p)

(***************************************************************************)
(* Sleepers that wake in the same tick get the processor in the order of   *)
(* their timers, before everybody who was ready already.                   *)
(***************************************************************************)
WakesInTimerOrder == [][WokenInOrder]_SchedulerVars

(***************************************************************************)
(* A ready process gets the processor, although processes that wake up are *)
(* put in front of it again and again.                                     *)
(***************************************************************************)
ReadyRuns ==
  \A p \in Proc : (status[p] = Ready) ~> (status[p] = Running)

(***************************************************************************)
(* What the callers of disastrOS_sleep count on: a process that still has  *)
(* cycles to sleep does not run.                                           *)
(***************************************************************************)
SleepersDoNotRun == running \notin waiting_list

=============================================================================
