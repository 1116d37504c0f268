------------------------- MODULE MCChannelRefinement -------------------------
(***************************************************************************)
(* Instances of ChannelRefinement for TLC.                                 *)
(***************************************************************************)
EXTENDS ChannelRefinement, TLC

Symmetry == Permutations(Callers)

=============================================================================
