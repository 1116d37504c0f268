-------------------------- MODULE MCIntegrationTest --------------------------
(***************************************************************************)
(* The test program for TLC: as many processes as it spawns, and init.     *)
(***************************************************************************)
EXTENDS IntegrationTest

PCBs == 0 .. 16

\* What the processes make of the results of their calls.
ExitValuesUsed == {-1, 0, 1, DSOS_EMQINVALID, DSOS_EMQNOTOPEN}

=============================================================================
