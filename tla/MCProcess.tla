----------------------------- MODULE MCProcess -----------------------------
(***************************************************************************)
(* Instances of Process for TLC.                                           *)
(***************************************************************************)
EXTENDS Process

Symmetry == Permutations(Callers \ {init_pcb})

Of(P, f) == [p \in P |-> f[p]]

Asleep    == { p \in Proc : status[p] = Waiting }
Collected == { p \in Proc : wait_result[p] # NoResult }

(***************************************************************************)
(* States that differ in nothing else have the same future.  Dead values   *)
(* are left out: a result that came with no pid and value of a child, the  *)
(* return value of a process that has not ended, SIGCHLD, which nobody     *)
(* looks at, the last call of a process that is not Waiting, as it becomes *)
(* so by a call only, and what is left in a free PCB.                      *)
(***************************************************************************)
LiveState ==
  << running, status, ready_list, waiting_list, timer_list, wait_result,
     Of(Collected, syscall_retvalue), Of(Asleep, last_wait),
     Of(zombie_list, return_value),
     [p \in Allocated |-> << pid[p], parent[p], SIGHUP \in signals[p] >>],
     children, zombie_list, free_pcbs, free_ptrs, last_pid,
     forked \ free_pcbs, failure >>

=============================================================================
