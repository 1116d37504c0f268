---------------------------- MODULE PoolAllocator ----------------------------
(***************************************************************************)
(* The allocator behind every object of the kernel: NumItems blocks of one *)
(* buffer, and behind them an array of indices that links the free ones.   *)
(* Every pool is set up once, with exactly the memory it needs, before the *)
(* first process runs.                                                     *)
(*                                                                         *)
(* A pointer is its distance from the buffer in bytes.  A definition with  *)
(* a suffix after `_' is a faulty variant, see Scheduler; getBlock and     *)
(* releaseBlock stand for PoolAllocator_getBlock and _releaseBlock.        *)
(***************************************************************************)
EXTENDS Integers, Functions

CONSTANTS
  NumItems,   \* size_max
  item_size,  \* bytes of a block
  Offsets     \* the pointers that callers release

ASSUME PoolAssumption ==
  /\ NumItems \in Nat \ {0}
  /\ item_size \in Nat \ {0}
  /\ Offsets \subseteq Int

VARIABLES
  free_list,  \* what follows a block in the list of free ones
  first_idx,  \* its first block
  size,       \* its length
  answer      \* what the last call returned

PoolVars == << free_list, first_idx, size, answer >>

NullIdx     == -1
DetachedIdx == -2

Success      == 0
UnalignedFree == -2
OutOfRange   == -3
DoubleFree   == -4

Index == 0 .. NumItems - 1

NoBlock   == << "no block" >>
Block(i)  == << "block", i * item_size >>
Result(r) == << "result", r >>

\* PoolAllocator_init links all blocks, lowest first.
PoolInit ==
  /\ free_list = [i \in Index |-> IF i = NumItems - 1 THEN NullIdx ELSE i + 1]
  /\ first_idx = 0
  /\ size = NumItems
  /\ answer = Result(Success)

GetNone ==
  /\ first_idx = NullIdx
  /\ answer' = NoBlock
  /\ UNCHANGED << free_list, first_idx, size >>

Marked_Not(fl, i) == fl

\* The mark by which releaseBlock recognises a block that is in use.
Marked(fl, i) == [fl EXCEPT ![i] = DetachedIdx]

GetFirst ==
  /\ first_idx # NullIdx
  /\ first_idx' = free_list[first_idx]
  /\ size' = size - 1
  /\ free_list' = Marked(free_list, first_idx)
  /\ answer' = Block(first_idx)

getBlock == GetNone \/ GetFirst

Detached_Always(i) == TRUE

Detached(i) == free_list[i] = DetachedIdx

\* The first check that fails, or Success.
ReleaseResult(offset) ==
  LET idx == offset \div item_size
  IN  IF offset % item_size # 0 THEN UnalignedFree
      ELSE IF idx \notin Index THEN OutOfRange
      ELSE IF ~Detached(idx) THEN DoubleFree
      ELSE Success

ReleaseRefused(offset) ==
  /\ ReleaseResult(offset) # Success
  /\ answer' = Result(ReleaseResult(offset))
  /\ UNCHANGED << free_list, first_idx, size >>

ReleasePushes_Last(offset) ==
  /\ ReleaseResult(offset) = Success
  /\ free_list' = [free_list EXCEPT ![offset \div item_size] = NullIdx]
  /\ first_idx' = offset \div item_size
  /\ size' = size + 1
  /\ answer' = Result(Success)

ReleasePushes(offset) ==
  /\ ReleaseResult(offset) = Success
  /\ free_list' = [free_list EXCEPT ![offset \div item_size] = first_idx]
  /\ first_idx' = offset \div item_size
  /\ size' = size + 1
  /\ answer' = Result(Success)

releaseBlock(offset) == ReleaseRefused(offset) \/ ReleasePushes(offset)

PoolNext == getBlock \/ \E offset \in Offsets : releaseBlock(offset)

PoolSpec == PoolInit /\ [][PoolNext]_PoolVars

-----------------------------------------------------------------------------
\* Every variable has its type.
PoolTypeOK ==
  /\ free_list \in [Index -> Index \cup {NullIdx, DetachedIdx}]
  /\ first_idx \in Index \cup {NullIdx}
  /\ size \in 0 .. NumItems

FreeBlocks == { i \in Index : free_list[i] # DetachedIdx }

(***************************************************************************)
(* From first_idx, chain runs along free_list through every block that is  *)
(* not in use, once, to NullIdx.                                           *)
(***************************************************************************)
IsFreeChain(chain) ==
  /\ IsInjective(chain)
  /\ \A i \in Index : free_list[i] # DetachedIdx => \E k \in 1 .. size : chain[k] = i
  /\ \A k \in 1 .. size :
       free_list[chain[k]] = IF k = size THEN NullIdx ELSE chain[k + 1]
  /\ first_idx = IF size = 0 THEN NullIdx ELSE chain[1]

(***************************************************************************)
(* The free list is one chain of `size' blocks without a loop, whatever    *)
(* was released before, and in whatever order: no block is lost, none is   *)
(* handed out twice.                                                       *)
(***************************************************************************)
FreeListIsChain == \E chain \in [1 .. size -> Index] : IsFreeChain(chain)

Pool == INSTANCE BlockPool WITH used <- Index \ FreeBlocks

\* The free list inside the buffer keeps the promises of a pool of blocks.
ImplementsBlockPool == Pool!Spec

=============================================================================
