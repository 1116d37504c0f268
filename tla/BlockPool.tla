------------------------------ MODULE BlockPool ------------------------------
(***************************************************************************)
(* What a pool of equal blocks promises: a block is handed out that nobody *)
(* has, the null pointer only when all are in use, and of a call to        *)
(* release only the start of a block in use is accepted.  The rest of the  *)
(* kernel counts on no more than that (Message_alloc, TimerItem_alloc,     *)
(* PCB_alloc, ...).                                                        *)
(***************************************************************************)
EXTENDS Integers

CONSTANTS
  NumItems,   \* blocks of the pool
  item_size,  \* bytes of a block
  Offsets     \* what callers release, as distances from the buffer

VARIABLES
  used,       \* the blocks that are handed out
  answer      \* what the last call returned

Index == 0 .. NumItems - 1

NoBlock    == << "no block" >>
Block(i)   == << "block", i * item_size >>
Result(r)  == << "result", r >>

Success == 0
Errors  == { -4, -3, -2 }

GetNone ==
  /\ used = Index
  /\ answer' = NoBlock
  /\ UNCHANGED used

GetBlock ==
  \E i \in Index \ used :
    /\ used' = used \cup {i}
    /\ answer' = Block(i)

\* The block that a caller who has the pointer returns.
Release(offset) ==
  \E i \in used :
    /\ offset = i * item_size
    /\ used' = used \ {i}
    /\ answer' = Result(Success)

Refuse(offset) ==
  /\ \A i \in used : offset # i * item_size
  /\ \E e \in Errors : answer' = Result(e)
  /\ UNCHANGED used

Init == used = {} /\ answer = Result(Success)

Next == GetNone \/ GetBlock \/ \E offset \in Offsets : Release(offset) \/ Refuse(offset)

Spec == Init /\ [][Next]_<< used, answer >>

=============================================================================
