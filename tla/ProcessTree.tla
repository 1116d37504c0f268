----------------------------- MODULE ProcessTree -----------------------------
(***************************************************************************)
(* What spawn, fork, wait and exit promise to the programs, who know       *)
(* processes by pids: a pid is born once, lives, ends, and is collected    *)
(* once, by its guardian, who gets the pid and the exit value.  The        *)
(* guardian is the process that has started it, and init when that one has *)
(* ended.  PCBs, lists and blocked processes are no part of this, nor      *)
(* whether the guardian has asked: exit may end its sleep instead, and     *)
(* pid and value come in the place of what sleep returns.                  *)
(***************************************************************************)
EXTENDS Integers

CONSTANTS
  Pids,      \* 0 .. n
  Init_pid,  \* init's
  Value(_)   \* the value that a process passes to exit

VARIABLES
  state,     \* of each pid
  guardian,  \* the pid that may collect this one, NoGuardian for init
  current,   \* the pid that runs
  collected  \* what a pid has got from its last wait: a pid and a value

treeVars == << state, guardian, current, collected >>

NoGuardian == -1
Nothing    == << >>

Lives(k) == state[k] = "Living"

\* The one that runs has used what it has collected.
Uses == [collected EXCEPT ![current] = Nothing]

Spawn(k) ==
  /\ UNCHANGED current
  /\ state[k] = "Unborn"
  /\ \A j \in Pids : j < k => state[j] # "Unborn"
  /\ state' = [state EXCEPT ![k] = "Living"]
  /\ guardian' = [guardian EXCEPT ![k] = current]
  /\ collected' = Uses

\* Whoever had the process that ends as guardian gets init.
Adopted ==
  [k \in Pids |-> IF guardian[k] = current THEN Init_pid ELSE guardian[k]]

Exit(next) ==
  /\ current' = next
  /\ current # Init_pid
  /\ next # current /\ Lives(next)
  /\ state' = [state EXCEPT ![current] = "Ended"]
  /\ guardian' = Adopted
  /\ collected' = Uses

Collects(who, k, uses) == [uses EXCEPT ![who] = << k, Value(k) >>]

\* A process ends and its guardian, which waits for it or sleeps, goes on with it.
ExitCollected ==
  /\ current # Init_pid
  /\ current' = guardian[current]
  /\ state' = [state EXCEPT ![current] = "Collected"]
  /\ guardian' = [Adopted EXCEPT ![current] = NoGuardian]
  /\ collected' = Collects(guardian[current], current, Uses)

Wait(k) ==
  /\ UNCHANGED current
  /\ state[k] = "Ended"
  /\ guardian[k] = current
  /\ state' = [state EXCEPT ![k] = "Collected"]
  /\ guardian' = [guardian EXCEPT ![k] = NoGuardian]
  /\ collected' = Collects(current, k, Uses)

\* The processor goes to somebody who lives.
Switch(next) ==
  /\ current' = next
  /\ Lives(next)
  /\ collected' = Uses
  /\ UNCHANGED << state, guardian >>

TreeNext ==
  \/ \E k \in Pids : Switch(k) \/ Spawn(k) \/ Wait(k) \/ Exit(k)
  \/ ExitCollected

\* At boot init runs, and it may have children that live.
TreeInit ==
  /\ current = Init_pid
  /\ state \in [Pids -> {"Unborn", "Living"}]
  /\ Lives(Init_pid)
  /\ \A j, k \in Pids : Lives(k) /\ j < k => Lives(j)
  /\ guardian = [k \in Pids |-> IF Lives(k) /\ k # Init_pid THEN Init_pid
                                                          ELSE NoGuardian]
  /\ collected = [k \in Pids |-> Nothing]

TreeSpec == TreeInit /\ [][TreeNext]_treeVars

=============================================================================
