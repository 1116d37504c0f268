---------------------------- MODULE MCLinkedList ----------------------------
(***************************************************************************)
(* Instance of LinkedList for TLC.                                         *)
(***************************************************************************)
EXTENDS LinkedList, TLC

Symmetry == Permutations(ListHead)

=============================================================================
