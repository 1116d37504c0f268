--------------------------- MODULE MCPoolAllocator ---------------------------
(***************************************************************************)
(* PoolAllocator for TLC, with every pointer from a block below the buffer *)
(* to a block above it, aligned or not.                                    *)
(***************************************************************************)
EXTENDS PoolAllocator

MCOffsets == -item_size .. (NumItems + 1) * item_size

=============================================================================
