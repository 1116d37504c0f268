--------------------------- MODULE IntegrationTest ---------------------------
(***************************************************************************)
(* The program that the repository builds, disastrOS_test: its init        *)
(* process, the unit tests of the message queues and the producers and     *)
(* consumers of the scenario, which make the calls of System.              *)
(*                                                                         *)
(* A program is a sequence of parts, a part a sequence of statements with  *)
(* one system call each.  A statement whose result is not the one expected *)
(* ends its part, as the early returns of the tests do.  A tick may come   *)
(* before every call.  Printing is left out.                               *)
(*                                                                         *)
(* A PCB is its pid: where the pool gives the block freed last, a process  *)
(* gets a new one here, as nobody in these programs keeps a pointer to a   *)
(* process that has ended.  All messages have size 1; the text of one is   *)
(* its author, who sends only one.                                         *)
(***************************************************************************)
EXTENDS System

VARIABLES
  task,          \* the program of each process, and its arguments
  at,            \* the part and the line of the last statement it came to
  in_call,       \* it has made that call
  value,         \* what it made of the result of the call before
  test_failures, \* of disastrOS_msgqueue_test.c
  shutdown_now

TestVars == << task, at, in_call, value, test_failures, shutdown_now >>
allVars  == << SystemVars, TestVars >>

-----------------------------------------------------------------------------
(***************************************************************************)
(* Statements: a call, what its result must be, and how many parts are     *)
(* left out when it is not.                                                *)
(***************************************************************************)
Statement(call, arg, expects) == [call |-> call, arg |-> arg, expects |-> expects, skips |-> 1]

\* The value to be returned; or the way in which it is judged, see Verdict.
Value(v)  == << "Value", v >>
Judged(s) == << s >>
Anything  == Judged("Anything")

mq_create(q, size, e)  == Statement("mq_create", << q, size >>, e)
mq_destroy(q, e)       == Statement("mq_destroy", q, e)
mq_send(q, size, e)    == Statement("mq_send", << q, size >>, e)
mq_receive(q, size, e) == Statement("mq_receive", << q, size >>, e)
spawn(program, q, seq) ==
  Statement("spawn", [program |-> program, queue |-> q, seq |-> seq], Anything)
wait(e)                == Statement("wait", 0, e)
preempt                == Statement("preempt", 0, Anything)
exit(s)                == Statement("exit", s, Anything)
shutdown               == Statement("shutdown", 0, Anything)

Skipping(n, s) == [s EXCEPT !.skips = n]

-----------------------------------------------------------------------------
\* disastrOS_msgqueue_test.c
MsgQueueTest_function == <<
  mq_create(100, 4, Value(100)),
  mq_create(100, 4, Value(DSOS_EMQEXISTS)),
  mq_send(100, 1, Value(0)),
  mq_receive(100, 1, Judged("OwnMessage")),
  mq_destroy(100, Value(100)) >>

MsgQueueTest_blocking_sender == <<
  mq_create(101, 2, Value(101)),
  mq_send(101, 1, Value(0)),
  mq_send(101, 1, Value(0)),
  spawn("blocking_sender", 101, 0),
  preempt,
  mq_receive(101, 1, Judged("Positive")),
  wait(Judged("NotNegative")),
  mq_destroy(101, Value(101)) >>

MsgQueueTest_blocking_receiver == <<
  mq_create(102, 2, Value(102)),
  spawn("blocking_receiver", 102, 0),
  preempt,
  mq_send(102, 1, Value(0)),
  preempt,
  wait(Judged("ChildFine")),
  mq_destroy(102, Value(102)) >>

MsgQueueTest_error_cases == <<
  mq_create(104, 0, Value(DSOS_EMQINVALID)),
  mq_create(104, MAX_MESSAGES_PER_QUEUE + 1, Value(DSOS_EMQINVALID)),
  mq_send(9999, 1, Value(DSOS_EMQINVALID)),
  mq_receive(9999, 1, Value(DSOS_EMQINVALID)),
  mq_destroy(9999, Value(DSOS_EMQINVALID)),
  mq_create(104, 2, Value(104)),
  mq_send(104, 0, Value(DSOS_EBUFFER)),
  mq_receive(104, 0, Value(DSOS_EBUFFER)),
  mq_destroy(104, Value(104)) >>

\* disastrOS_test.c
Q1_ID == 200
Q2_ID == 201
QUEUE_CAPACITY == 2

wait_n_ok(n) == [i \in 1 .. n |-> wait(Judged("ChildFine"))]

producer(q, seq) == spawn("producer", q, seq)
consumer(q, seq) == spawn("consumer", q, seq)

phase1 == << consumer(Q1_ID, 1), preempt, producer(Q1_ID, 1) >> \o wait_n_ok(2)
phase2 == << producer(Q2_ID, 10), producer(Q2_ID, 11) >> \o wait_n_ok(2)
phase3 == << producer(Q2_ID, 12), preempt, consumer(Q2_ID, 10),
             consumer(Q2_ID, 11), consumer(Q2_ID, 12) >> \o wait_n_ok(4)
phase4 == << producer(Q1_ID, 2), producer(Q2_ID, 20), consumer(Q1_ID, 2),
             consumer(Q2_ID, 20) >> \o wait_n_ok(4)

initFunction == <<
  << spawn("MsgQueueTest_runAll", 0, 0),
     wait(Anything),
     spawn("sleeperFunction", 0, 0),
     Skipping(3, mq_create(Q1_ID, QUEUE_CAPACITY, Value(Q1_ID))),
     Skipping(2, mq_create(Q2_ID, QUEUE_CAPACITY, Value(Q2_ID))) >>
    \o phase1 \o phase2 \o phase3 \o phase4
    \o << mq_destroy(Q2_ID, Value(Q2_ID)),
          mq_destroy(Q1_ID, Value(Q1_ID)),
          shutdown >>,
  << mq_destroy(Q2_ID, Anything) >>,
  << mq_destroy(Q1_ID, Anything) >>,
  << shutdown >> >>

\* The program of a task; sleeperFunction makes no call.
Program(t) ==
  CASE t.program = "initFunction"        -> initFunction
    [] t.program = "MsgQueueTest_runAll" ->
         << MsgQueueTest_function, MsgQueueTest_blocking_sender,
            MsgQueueTest_blocking_receiver, MsgQueueTest_error_cases,
            << exit("0") >> >>
    [] t.program \in {"producer", "blocking_sender"} ->
         << << mq_send(t.queue, 1, Judged("NotNegative")) >>, << exit("value") >> >>
    [] t.program = "blocking_receiver" ->
         << << mq_receive(t.queue, 1, Judged("NotNegative")) >>, << exit("value") >> >>
    [] t.program = "consumer" ->
         << << mq_receive(t.queue, 1, Judged("OwnSeq")) >>, << exit("value") >> >>
    [] t.program = "sleeperFunction" -> << >>

-----------------------------------------------------------------------------
StatementOf(p, place) == Program(task[p])[place.part][place.line]

FailsIf(bad) == IF bad THEN -1 ELSE 0

\* What a process makes of the result of its call: an error if it is negative.
Verdict(p) ==
  LET expects == StatementOf(p, at[p]).expects
      result  == syscall_retvalue[p]
  IN  CASE expects[1] = "Anything"    -> 0
        [] expects[1] = "Value"       -> FailsIf(result # expects[2])
        [] expects[1] = "NotNegative" -> result
        [] expects[1] = "Positive"    -> FailsIf(result <= 0)
        [] expects[1] = "OwnMessage"  -> FailsIf(result # 1 \/ user_buffer[p] # p)
        [] expects[1] = "ChildFine"   -> FailsIf(result < 0 \/ wait_result[p] < 0)
        [] expects[1] = "OwnSeq"      ->
             IF result <= 0 THEN result
             ELSE FailsIf(task[user_buffer[p]].seq # task[p].seq)

\* The statement behind the one at a place, or the one after the parts left out.
Behind(p, place) ==
  IF place.line < Len(Program(task[p])[place.part])
  THEN [place EXCEPT !.line = @ + 1]
  ELSE [part |-> place.part + 1, line |-> 1]

Elsewhere(p, place) ==
  [part |-> place.part + StatementOf(p, place).skips, line |-> 1]

\* Where a process has come to, and with which value, before it calls again.
Reached(p) ==
  IF ~in_call[p] THEN at[p]
  ELSE IF Verdict(p) < 0 THEN Elsewhere(p, at[p]) ELSE Behind(p, at[p])

ValueOf(p) == IF in_call[p] THEN Verdict(p) ELSE value[p]

IsTestFailure(p) ==
  in_call[p] /\ task[p].program = "MsgQueueTest_runAll" /\ Verdict(p) < 0

\* The running process has read its result and come to its next statement.
GoesOn(calls) ==
  /\ at' = [at EXCEPT ![running] = Reached(running)]
  /\ value' = [value EXCEPT ![running] = ValueOf(running)]
  /\ in_call' = [in_call EXCEPT ![running] = calls]
  /\ test_failures' = IF IsTestFailure(running) THEN test_failures + 1
                                                ELSE test_failures

-----------------------------------------------------------------------------
internal_shutdown ==
  /\ shutdown_now' = TRUE
  /\ UNCHANGED << SystemVars, task >>

\* The new process has the function and the arguments that spawn was given.
Spawns(t) ==
  /\ internal_spawn
  /\ free_pcbs \ free_pcbs' \subseteq {last_pid}
  /\ task' = [task EXCEPT ![last_pid] = t]

ProcessCalls(s) ==
  /\ \/ s.call = "spawn" /\ Spawns(s.arg)
     \/ s.call = "wait" /\ internal_wait /\ UNCHANGED task
     \/ s.call = "exit" /\ UNCHANGED task
          /\ internal_exit(IF s.arg = "0" THEN 0 ELSE ValueOf(running))
     \/ s.call = "preempt" /\ internal_preempt /\ CallFrame /\ UNCHANGED task
  /\ SchedulerFrame

QueueCalls(s) ==
  /\ \/ s.call = "mq_create" /\ internal_mq_create(s.arg[1], s.arg[2])
     \/ s.call = "mq_destroy" /\ internal_mq_destroy(s.arg)
     \/ s.call = "mq_send" /\ internal_mq_send(s.arg[1], s.arg[2])
     \/ s.call = "mq_receive" /\ internal_mq_receive(s.arg[1], s.arg[2])
  /\ CallFrame
  /\ UNCHANGED task

Stopped == failure # None \/ list_broken \/ shutdown_now

\* The running process makes the call of its next statement.
ProgramStep ==
  /\ ~Stopped
  /\ task[running].program # "sleeperFunction"
  /\ LET s == StatementOf(running, Reached(running))
     IN  \/ s.call = "shutdown" /\ internal_shutdown
         \/ (ProcessCalls(s) \/ QueueCalls(s)) /\ UNCHANGED shutdown_now
  /\ GoesOn(TRUE)

TestTick ==
  /\ ~Stopped
  /\ ProcessTick /\ SchedulerFrame
  /\ GoesOn(FALSE)
  /\ UNCHANGED << task, shutdown_now >>

TestInit ==
  /\ SystemInit
  /\ task = [p \in Proc |-> [program |-> "initFunction", queue |-> 0, seq |-> 0]]
  /\ at = [p \in Proc |-> [part |-> 1, line |-> 1]]
  /\ in_call = [p \in Proc |-> FALSE]
  /\ value = [p \in Proc |-> 0]
  /\ test_failures = 0
  /\ shutdown_now = FALSE

TestNext == ProgramStep \/ TestTick

(***************************************************************************)
(* The interval timer is periodic; and its period is longer than the way   *)
(* from one call to the next, at least every now and then.                 *)
(***************************************************************************)
TestSpec ==
  /\ TestInit /\ [][TestNext]_allVars
  /\ WF_allVars(TestTick) /\ SF_allVars(ProgramStep)

-----------------------------------------------------------------------------
(***************************************************************************)
(* Wherever the ticks come, the test program comes to its shutdown: no     *)
(* process waits forever for a message, for space or for a child.          *)
(***************************************************************************)
TestEnds == <>shutdown_now

(***************************************************************************)
(* The verdict of the unit tests does not depend on the ticks: none of     *)
(* them fails, although the processes that they spawn may come before or   *)
(* after the calls that they are to block in.                              *)
(***************************************************************************)
UnitTestsPass == test_failures = 0

(***************************************************************************)
(* What the program makes of the calls it may make: with its own data it   *)
(* makes no step that the system does not allow to any program.            *)
(***************************************************************************)
ImplementsSystem == SystemSpec

\* init has made all its calls, in the first part of its program.
TestPassed == at[init_pcb].part = 1

(***************************************************************************)
(* At the end no unit test has failed, nothing is left of the queues and   *)
(* nobody is blocked, wherever the ticks came; and if the scenario has     *)
(* passed, every child but the sleeper has been collected.                 *)
(***************************************************************************)
CleanEnd ==
  shutdown_now =>
    /\ UnitTestsPass
    /\ resources_list = {} /\ Blocked = {}
    /\ free_messages = DSOS_MAX_MESSAGES
    /\ TestPassed => /\ zombie_list = {}
                     /\ \A p \in Allocated \ {init_pcb} :
                          task[p].program = "sleeperFunction"

=============================================================================
