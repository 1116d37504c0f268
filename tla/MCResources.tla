----------------------------- MODULE MCResources -----------------------------
(***************************************************************************)
(* Instances of Resources for TLC.                                         *)
(***************************************************************************)
EXTENDS Resources

Symmetry ==
  Permutations(Callers \ {init_pcb}) \cup Permutations(ResourceId)

=============================================================================
