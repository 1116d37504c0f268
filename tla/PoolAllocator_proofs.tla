------------------------ MODULE PoolAllocator_proofs ------------------------
(***************************************************************************)
(* PoolAllocator for any number and size of blocks: the free list is a     *)
(* chain of all free blocks, and the allocator implements BlockPool.       *)
(*                                                                         *)
(* The invariant is PoolTypeOK with FreeListIsChain: the first block of    *)
(* the chain is what getBlock hands out, and what releaseBlock pushes is   *)
(* in front of it.  The chain after a step is given explicitly, as the old *)
(* one without its first block, or with one more.                          *)
(***************************************************************************)
EXTENDS PoolAllocator, FiniteSets, FiniteSetTheorems, TLAPS

PoolInv == PoolTypeOK /\ FreeListIsChain

USE DEF NullIdx, DetachedIdx

LEMMA InitChain == ASSUME PoolInit PROVE PoolInv
  <1> USE PoolAssumption
  <1> DEFINE chain == [k \in 1 .. size |-> k - 1]
  <1>1. PoolTypeOK
    BY DEF PoolInit, PoolTypeOK, Index
  <1>2. chain \in [1 .. size -> Index]
    BY DEF PoolInit, Index
  <1>3. IsInjective(chain)
    BY DEF IsInjective, PoolInit
  <1>4. \A i \in Index : \E k \in 1 .. size : chain[k] = i
    <2> TAKE i \in Index
    <2>1. i + 1 \in 1 .. size /\ chain[i + 1] = i
      BY DEF PoolInit, Index
    <2> QED BY <2>1
  <1>5. \A k \in 1 .. size : free_list[chain[k]] = IF k = size THEN NullIdx ELSE chain[k + 1]
    BY DEF PoolInit, Index
  <1>6. first_idx = IF size = 0 THEN NullIdx ELSE chain[1]
    BY DEF PoolInit
  <1>7. IsFreeChain(chain)
    BY <1>3, <1>4, <1>5, <1>6 DEF IsFreeChain
  <1> QED
    BY <1>1, <1>2, <1>7 DEF PoolInv, FreeListIsChain

(***************************************************************************)
(* The null pointer is answered exactly when no block is free.             *)
(***************************************************************************)
LEMMA NullMeansNone ==
  ASSUME PoolInv
  PROVE  first_idx = NullIdx <=> FreeBlocks = {}
  <1> USE PoolAssumption DEF PoolInv, PoolTypeOK
  <1>1. PICK chain \in [1 .. size -> Index] : IsFreeChain(chain)
    BY DEF FreeListIsChain
  <1>2. CASE size = 0
    BY <1>1, <1>2 DEF IsFreeChain, FreeBlocks
  <1>3. CASE size # 0
    <2>1. chain[1] \in Index /\ first_idx = chain[1]
      BY <1>1, <1>3 DEF IsFreeChain
    <2>2. free_list[chain[1]] # DetachedIdx
      <3>1. 1 \in 1 .. size
        BY <1>3
      <3>2. CASE size = 1
        BY <1>1, <3>1, <3>2 DEF IsFreeChain
      <3>3. CASE size # 1
        <4>1. chain[2] \in Index /\ free_list[chain[1]] = chain[2]
          BY <1>1, <1>3, <3>3 DEF IsFreeChain
        <4> QED BY <4>1 DEF Index
      <3> QED BY <3>2, <3>3
    <2> QED BY <2>1, <2>2 DEF Index, FreeBlocks
  <1> QED BY <1>2, <1>3

(***************************************************************************)
(* getBlock hands out a block that was free.                               *)
(***************************************************************************)
LEMMA FirstIsFree ==
  ASSUME PoolInv, first_idx # NullIdx
  PROVE  /\ size > 0
         /\ first_idx \in FreeBlocks
  <1> USE PoolAssumption DEF PoolInv, PoolTypeOK
  <1>1. PICK chain \in [1 .. size -> Index] : IsFreeChain(chain)
    BY DEF FreeListIsChain
  <1>2. size # 0 /\ first_idx = chain[1] /\ 1 \in 1 .. size
    BY <1>1 DEF IsFreeChain
  <1>3. free_list[first_idx] = IF size = 1 THEN NullIdx ELSE chain[2]
    BY <1>1, <1>2 DEF IsFreeChain
  <1>4. size # 1 => chain[2] \in Index
    BY <1>2
  <1> QED
    BY <1>2, <1>3, <1>4 DEF FreeBlocks, Index

(***************************************************************************)
(* A chain without repetition is shorter than the pool if it leaves out a  *)
(* block.                                                                  *)
(***************************************************************************)
LEMMA ChainFits ==
  ASSUME NEW n \in 0 .. NumItems, NEW chain \in [1 .. n -> Index],
         IsInjective(chain), NEW i \in Index, \A k \in 1 .. n : chain[k] # i
  PROVE  n # NumItems
  <1> USE PoolAssumption
  <1>1. IsFiniteSet(Index) /\ Cardinality(Index) = NumItems
    BY FS_Interval DEF Index
  <1>2. Cardinality(1 .. n) = n
    BY FS_Interval
  <1>3. ~ \A j \in Index : \E k \in 1 .. n : chain[k] = j
    OBVIOUS
  <1>4. chain \in Injection(1 .. n, Index)
    BY DEF Injection, IsInjective
  <1>5. chain \notin Surjection(1 .. n, Index)
    BY <1>3 DEF Surjection
  <1> QED
    BY <1>1, <1>2, <1>4, <1>5, FS_Injection, Zenon

LEMMA GetKeeps == ASSUME PoolInv, GetFirst PROVE PoolInv'
  <1> USE PoolAssumption DEF PoolInv, PoolTypeOK
  <1>1. PICK old \in [1 .. size -> Index] : IsFreeChain(old)
    BY DEF FreeListIsChain
  <1>0. PICK new : new = [k \in 1 .. size' |-> old[k + 1]]
    OBVIOUS
  <1>2. size \in 1 .. NumItems /\ size' = size - 1 /\ first_idx = old[1] /\ first_idx \in Index
    BY <1>1, FirstIsFree DEF GetFirst, IsFreeChain, FreeBlocks
  <1>3. free_list' = [free_list EXCEPT ![old[1]] = DetachedIdx]
    BY <1>2 DEF GetFirst, Marked
  <1>4. \A k, l \in 1 .. size : old[k] = old[l] => k = l
    BY <1>1 DEF IsFreeChain, IsInjective
  <1>5. \A k \in 1 .. size :
          free_list[old[k]] = IF k = size THEN NullIdx ELSE old[k + 1]
    BY <1>1 DEF IsFreeChain
  <1>6. first_idx' = IF size = 1 THEN NullIdx ELSE old[2]
    BY <1>2, <1>5 DEF GetFirst
  <1>7. PoolTypeOK'
    BY <1>2, <1>3, <1>6
  <1>8. new \in [1 .. size' -> Index]
    BY <1>0, <1>2
  <1>9. IsInjective(new)
    BY <1>0, <1>2, <1>4, <1>8 DEF IsInjective
  <1>10. \A i \in Index : free_list'[i] # DetachedIdx => \E k \in 1 .. size' : new[k] = i
    <2> SUFFICES ASSUME NEW i \in Index, free_list'[i] # DetachedIdx
                 PROVE  \E k \in 1 .. size' : new[k] = i
      OBVIOUS
    <2>1. i # old[1] /\ free_list[i] # DetachedIdx
      BY <1>2, <1>3
    <2>2. PICK l \in 1 .. size : old[l] = i
      BY <1>1, <2>1 DEF IsFreeChain
    <2>3. l - 1 \in 1 .. size' /\ new[l - 1] = i
      BY <1>0, <1>2, <2>1, <2>2
    <2> QED BY <2>3
  <1>11. \A k \in 1 .. size' :
           free_list'[new[k]] = IF k = size' THEN NullIdx ELSE new[k + 1]
    <2> SUFFICES ASSUME NEW k \in 1 .. size'
                 PROVE  free_list'[new[k]] = IF k = size' THEN NullIdx ELSE new[k + 1]
      OBVIOUS
    <2>1. new[k] = old[k + 1] /\ k + 1 \in 1 .. size /\ 1 \in 1 .. size
      BY <1>0, <1>2
    <2>2. old[k + 1] # old[1]
      BY <1>4, <2>1
    <2>3. free_list'[new[k]] = free_list[old[k + 1]]
      BY <1>3, <2>1, <2>2
    <2> QED BY <1>0, <1>2, <1>5, <2>1, <2>3
  <1>12. first_idx' = IF size' = 0 THEN NullIdx ELSE new[1]
    BY <1>0, <1>2, <1>6
  <1>13. IsFreeChain(new)'
    BY <1>9, <1>10, <1>11, <1>12 DEF IsFreeChain
  <1> QED
    BY <1>7, <1>8, <1>13 DEF FreeListIsChain

LEMMA ReleaseKeeps ==
  ASSUME PoolInv, NEW offset \in Offsets, ReleasePushes(offset)
  PROVE  PoolInv'
  <1> USE PoolAssumption DEF PoolInv, PoolTypeOK
  <1> DEFINE idx == offset \div item_size
  <1>1. PICK old \in [1 .. size -> Index] : IsFreeChain(old)
    BY DEF FreeListIsChain
  <1>2. idx \in Index /\ free_list[idx] = DetachedIdx
    BY DEF ReleasePushes, ReleaseResult, Detached, Success, UnalignedFree, OutOfRange, DoubleFree
  <1>3. /\ free_list' = [free_list EXCEPT ![idx] = first_idx]
        /\ first_idx' = idx
        /\ size' = size + 1
    BY DEF ReleasePushes
  <1> HIDE DEF idx
  <1>0. PICK new : new = [k \in 1 .. size' |-> IF k = 1 THEN idx ELSE old[k - 1]]
    OBVIOUS
  <1>4. \A k, l \in 1 .. size : old[k] = old[l] => k = l
    BY <1>1 DEF IsFreeChain, IsInjective
  <1>5. \A k \in 1 .. size :
          free_list[old[k]] = IF k = size THEN NullIdx ELSE old[k + 1]
    BY <1>1 DEF IsFreeChain
  <1>6. \A k \in 1 .. size : old[k] # idx
    <2> TAKE k \in 1 .. size
    <2>1. k # size => old[k + 1] \in Index
      OBVIOUS
    <2>2. free_list[old[k]] # DetachedIdx
      BY <1>5, <2>1 DEF Index
    <2> QED BY <1>2, <2>2
  <1>7. new \in [1 .. size' -> Index]
    BY <1>2, <1>0, <1>3
  <1>8. IsInjective(new)
    <2> SUFFICES ASSUME NEW k \in 1 .. size', NEW l \in 1 .. size', new[k] = new[l]
                 PROVE  k = l
      BY <1>7 DEF IsInjective
    <2>1. CASE k = 1
      BY <1>0, <1>3, <1>6, <2>1
    <2>2. CASE l = 1
      BY <1>0, <1>3, <1>6, <2>2
    <2>3. CASE k # 1 /\ l # 1
      <3>1. k - 1 \in 1 .. size /\ l - 1 \in 1 .. size /\ old[k - 1] = old[l - 1]
        BY <1>0, <1>3, <2>3
      <3>2. k - 1 = l - 1
        BY <1>4, <3>1
      <3> QED BY <3>2
    <2> QED BY <2>1, <2>2, <2>3
  <1>9. \A i \in Index : free_list'[i] # DetachedIdx => \E k \in 1 .. size' : new[k] = i
    <2> SUFFICES ASSUME NEW i \in Index, free_list'[i] # DetachedIdx
                 PROVE  \E k \in 1 .. size' : new[k] = i
      OBVIOUS
    <2>1. CASE i = idx
      <3>1. 1 \in 1 .. size' /\ new[1] = i
        BY <1>0, <1>3, <2>1
      <3> QED BY <3>1
    <2>2. CASE i # idx
      <3>1. free_list[i] # DetachedIdx
        BY <1>0, <1>3, <2>2
      <3>2. PICK l \in 1 .. size : old[l] = i
        BY <1>1, <3>1 DEF IsFreeChain
      <3>3. l + 1 \in 1 .. size' /\ new[l + 1] = i
        BY <1>0, <1>3, <3>2
      <3> QED BY <3>3
    <2> QED BY <2>1, <2>2
  <1>10. \A k \in 1 .. size' :
           free_list'[new[k]] = IF k = size' THEN NullIdx ELSE new[k + 1]
    <2> SUFFICES ASSUME NEW k \in 1 .. size'
                 PROVE  free_list'[new[k]] = IF k = size' THEN NullIdx ELSE new[k + 1]
      OBVIOUS
    <2>1. first_idx = IF size = 0 THEN NullIdx ELSE old[1]
      BY <1>1 DEF IsFreeChain
    <2>2. CASE k = 1
      <3>1. free_list'[new[k]] = first_idx
        BY <1>2, <1>0, <1>3, <2>2
      <3> QED BY <1>0, <1>3, <2>1, <2>2, <3>1
    <2>3. CASE k # 1
      <3>1. k - 1 \in 1 .. size /\ new[k] = old[k - 1]
        BY <1>0, <1>3, <2>3
      <3>2. free_list'[new[k]] = free_list[old[k - 1]]
        BY <1>0, <1>3, <1>6, <3>1
      <3>3. k # size' => new[k + 1] = old[k]
        BY <1>0, <1>3, <2>3
      <3> QED BY <1>0, <1>3, <1>5, <3>1, <3>2, <3>3
    <2> QED BY <2>2, <2>3
  <1>11. first_idx' = IF size' = 0 THEN NullIdx ELSE new[1]
    BY <1>0, <1>3
  <1>12. IsFreeChain(new)'
    BY <1>8, <1>9, <1>10, <1>11 DEF IsFreeChain
  <1>13. FreeListIsChain'
    BY <1>7, <1>12 DEF FreeListIsChain
  <1>14. size # NumItems
    BY <1>1, <1>2, <1>6, ChainFits DEF IsFreeChain
  <1> QED
    BY <1>2, <1>3, <1>13, <1>14

LEMMA StepKeeps == ASSUME PoolInv, [PoolNext]_PoolVars PROVE PoolInv'
  <1>1. CASE GetNone
    BY <1>1 DEF PoolInv, PoolTypeOK, FreeListIsChain, IsFreeChain, GetNone
  <1>2. CASE GetFirst
    BY <1>2, GetKeeps
  <1>3. ASSUME NEW offset \in Offsets, ReleaseRefused(offset) PROVE PoolInv'
    BY <1>3 DEF PoolInv, PoolTypeOK, FreeListIsChain, IsFreeChain, ReleaseRefused
  <1>4. ASSUME NEW offset \in Offsets, ReleasePushes(offset) PROVE PoolInv'
    BY <1>4, ReleaseKeeps
  <1>5. CASE UNCHANGED PoolVars
    BY <1>5 DEF PoolInv, PoolTypeOK, FreeListIsChain, IsFreeChain, PoolVars
  <1> QED
    BY <1>1, <1>2, <1>3, <1>4, <1>5 DEF PoolNext, getBlock, releaseBlock

(***************************************************************************)
(* The inductive invariant of the allocator.                               *)
(***************************************************************************)
THEOREM PoolInvariant == PoolSpec => []PoolInv
  BY InitChain, StepKeeps, PTL DEF PoolSpec

(***************************************************************************)
(* Index, length and links of the free list stay in their ranges, for a    *)
(* pool of any size.                                                       *)
(***************************************************************************)
THEOREM PoolTypes == PoolSpec => []PoolTypeOK
  <1>1. PoolInv => PoolTypeOK
    BY DEF PoolInv
  <1> QED BY <1>1, PoolInvariant, PTL

(***************************************************************************)
(* Whatever is allocated and released in whatever order, the free blocks   *)
(* are one chain without a loop.                                           *)
(***************************************************************************)
THEOREM FreeListStaysChain == PoolSpec => []FreeListIsChain
  <1>1. PoolInv => FreeListIsChain
    BY DEF PoolInv
  <1> QED BY <1>1, PoolInvariant, PTL

-----------------------------------------------------------------------------
(***************************************************************************)
(* Step simulation: under the invariant each step of the allocator is a    *)
(* step of BlockPool for the blocks that are marked as detached.           *)
(***************************************************************************)
LEMMA GetSimulates == ASSUME PoolInv, getBlock PROVE Pool!GetNone \/ Pool!GetBlock
  <1> USE PoolAssumption DEF PoolInv, PoolTypeOK
  <1>1. CASE GetNone
    <2>1. FreeBlocks = {} /\ FreeBlocks' = FreeBlocks
      BY <1>1, NullMeansNone DEF GetNone, FreeBlocks
    <2> QED
      BY <1>1, <2>1 DEF GetNone, NoBlock, Pool!GetNone, Pool!NoBlock, Pool!Index, Index
  <1>2. CASE GetFirst
    <2>1. first_idx \in FreeBlocks /\ first_idx \in Index
      BY <1>2, FirstIsFree DEF GetFirst, FreeBlocks
    <2>2. (Index \ FreeBlocks)' = (Index \ FreeBlocks) \cup {first_idx}
      BY <1>2, <2>1 DEF GetFirst, Marked, FreeBlocks
    <2>3. answer' = Pool!Block(first_idx)
      BY <1>2 DEF GetFirst, Block, Pool!Block
    <2>4. first_idx \in Pool!Index \ (Index \ FreeBlocks)
      BY <2>1 DEF Pool!Index, Index
    <2> QED
      BY <2>2, <2>3, <2>4 DEF Pool!GetBlock
  <1> QED BY <1>1, <1>2 DEF getBlock

LEMMA ReleaseSimulates ==
  ASSUME PoolInv, NEW offset \in Offsets, releaseBlock(offset)
  PROVE  Pool!Release(offset) \/ Pool!Refuse(offset)
  <1> USE PoolAssumption DEF PoolInv, PoolTypeOK
  <1> DEFINE idx == offset \div item_size
  <1>0. idx \in Int /\ offset \in Int /\ item_size \in Nat \ {0}
    OBVIOUS
  <1>1. CASE ReleasePushes(offset)
    <2>1. /\ idx \in Index /\ free_list[idx] = DetachedIdx
          /\ offset % item_size = 0
      BY <1>1 DEF ReleasePushes, ReleaseResult, Detached, Success, UnalignedFree, OutOfRange, DoubleFree
    <2>2. offset = idx * item_size
      BY <2>1, <1>0
    <2>3. free_list' = [free_list EXCEPT ![idx] = first_idx] /\ answer' = Result(Success)
      BY <1>1 DEF ReleasePushes
    <2>4. first_idx # DetachedIdx
      BY DEF Index
    <2>5. (Index \ FreeBlocks)' = (Index \ FreeBlocks) \ {idx}
      BY <2>1, <2>3, <2>4 DEF FreeBlocks
    <2>6. idx \in Index \ FreeBlocks
      BY <2>1 DEF FreeBlocks
    <2>7. answer' = Pool!Result(Pool!Success)
      BY <2>3 DEF Result, Success, Pool!Result, Pool!Success
    <2> QED
      BY <2>2, <2>5, <2>6, <2>7 DEF Pool!Release
  <1>2. CASE ReleaseRefused(offset)
    <2>1. /\ ReleaseResult(offset) \in Pool!Errors
          /\ offset % item_size # 0 \/ idx \notin Index \/ free_list[idx] # DetachedIdx
      BY <1>2 DEF ReleaseRefused, ReleaseResult, Detached, Success, UnalignedFree, OutOfRange,
           DoubleFree, Pool!Errors
    <2>2. answer' = Pool!Result(ReleaseResult(offset))
      BY <1>2 DEF ReleaseRefused, Result, Pool!Result
    <2>3. FreeBlocks' = FreeBlocks
      BY <1>2 DEF ReleaseRefused, FreeBlocks
    <2>4. \A i \in Index \ FreeBlocks : offset # i * item_size
      <3> SUFFICES ASSUME NEW i \in Index \ FreeBlocks, offset = i * item_size
                   PROVE  FALSE
        OBVIOUS
      <3>1. i \in Int /\ i \in Index /\ free_list[i] = DetachedIdx
        BY DEF Index, FreeBlocks
      <3>2. offset % item_size = 0 /\ idx = i
        BY <1>0, <3>1
      <3> QED BY <2>1, <3>1, <3>2
    <2> QED
      BY <2>1, <2>2, <2>3, <2>4 DEF Pool!Refuse, Index
  <1> QED BY <1>1, <1>2 DEF releaseBlock

(***************************************************************************)
(* The free list inside the buffer implements a pool that knows which      *)
(* blocks are in use, for any number and size of blocks and any pointers   *)
(* that are released.                                                      *)
(***************************************************************************)
THEOREM PoolImplementsBlockPool == PoolSpec => ImplementsBlockPool
  <1>1. PoolInit => Pool!Init
    <2> SUFFICES ASSUME PoolInit PROVE Pool!Init
      OBVIOUS
    <2>1. FreeBlocks = Index
      BY PoolAssumption DEF PoolInit, FreeBlocks, Index
    <2> QED
      BY <2>1 DEF PoolInit, Pool!Init, Result, Success, Pool!Result, Pool!Success
  <1>2. PoolInv /\ [PoolNext]_PoolVars => [Pool!Next]_<< Index \ FreeBlocks, answer >>
    <2> SUFFICES ASSUME PoolInv, [PoolNext]_PoolVars
                 PROVE  [Pool!Next]_<< Index \ FreeBlocks, answer >>
      OBVIOUS
    <2>1. CASE getBlock
      BY <2>1, GetSimulates DEF Pool!Next
    <2>2. ASSUME NEW offset \in Offsets, releaseBlock(offset)
          PROVE  Pool!Next
      BY <2>2, ReleaseSimulates DEF Pool!Next
    <2>3. CASE UNCHANGED PoolVars
      BY <2>3 DEF PoolVars, FreeBlocks
    <2> QED BY <2>1, <2>2, <2>3 DEF PoolNext
  <1> QED
    BY <1>1, <1>2, PoolInvariant, PTL DEF PoolSpec, ImplementsBlockPool, Pool!Spec

=============================================================================
