---------------------------- MODULE MCKernelEntry ----------------------------
(***************************************************************************)
(* Instances of KernelEntry for TLC: where a signal is raised, besides on  *)
(* the way back to a handler.                                              *)
(***************************************************************************)
EXTENDS KernelEntry

UserCodeAndTrap == UserPlaces \cup { Trap }

=============================================================================
