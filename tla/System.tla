------------------------------- MODULE System -------------------------------
(***************************************************************************)
(* The system calls together: processes that spawn, wait, sleep and exit   *)
(* as module Process says, and call the message queues of module           *)
(* MessageQueue in between.  A process that is blocked in a queue has the  *)
(* same status as one that sleeps or waits for a child, and the three are  *)
(* woken by different calls, none of which looks where else it may be.     *)
(*                                                                         *)
(* The calls of one part leave the other alone, but for what a process     *)
(* has from its last call, which it has read.                              *)
(***************************************************************************)
EXTENDS Process, MessageQueue

CONSTANT ExitValues  \* the arguments of disastrOS_exit

ASSUME SystemAssumption == ExitValues \subseteq Int

SystemVars == << AllVars, QueueVars, user_buffer, list_broken >>

SystemInit == ProcessInit /\ QueuesInit

\* As if wait were left out of the table of calls.
LifeCall_NoWait ==
  /\ running \in Callers
  /\ \/ internal_spawn
     \/ internal_fork
     \/ \E value \in ExitValues : internal_exit(value)

LifeCall ==
  /\ running \in Callers
  /\ \/ internal_spawn
     \/ internal_fork
     \/ internal_wait
     \/ \E value \in ExitValues : internal_exit(value)

ProcessStep ==
  /\ \/ ForkedRuns
     \/ running \notin forked /\ (Scheduling \/ LifeCall)
  /\ SchedulerFrame

QueueStep ==
  /\ running \in Callers \ forked
  /\ QueueCall
  /\ CallFrame

SystemNext == failure = None /\ ~list_broken /\ (ProcessStep \/ QueueStep)

SystemSpec == SystemInit /\ [][SystemNext]_SystemVars

-----------------------------------------------------------------------------
\* Every variable has its type.
SystemTypeOK == ProcessTypeOK /\ QueuesTypeOK

(***************************************************************************)
(* A process waits for one thing: a tick, a child, space or a message.     *)
(* Whoever is Waiting is in one list that somebody takes it from, and it   *)
(* is a process that exists.  An exit does not take a parent that is       *)
(* blocked in a queue, as its last call was not wait, nor a message one    *)
(* that waits for a child.                                                 *)
(***************************************************************************)
WaitsForOneThing ==
  /\ { p \in Allocated : status[p] = Waiting } = waiting_list \cup Blocked
  /\ waiting_list \cap Blocked = {}
  /\ \A p \in Blocked : last_wait[p] = NotInWait

=============================================================================
