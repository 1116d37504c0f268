-------------------------- MODULE Resources_proofs --------------------------
(***************************************************************************)
(* Proofs about Resources, for any number of PCBs, resources, descriptors, *)
(* ids and modes.                                                          *)
(*                                                                         *)
(* ResourceInv is inductive together with the invariant of the processes.  *)
(* It adds to the checked invariants what the next fd and the next pid     *)
(* rest on: no entry in a list of a resource is the one that the next open *)
(* or the next fork adds.                                                  *)
(***************************************************************************)
EXTENDS Resources, Process_proofs

Entry      == [owner : Nat, fd : Nat]
Descriptor == [fd : Nat, resource : ResourceId]

\* The variables have their types, the free blocks without their bound.
VariableTypes ==
  /\ resources_list \subseteq ResourceId
  /\ type \in [ResourceId -> ResourceType]
  /\ ref_count \in [ResourceId -> Nat]
  /\ descriptors_ptrs \in [ResourceId -> SUBSET Entry]
  /\ descriptors \in [Proc -> SUBSET Descriptor]
  /\ last_fd \in [Proc -> Nat]
  /\ free_resources \in Nat /\ free_descriptors \in Nat /\ free_descriptor_ptrs \in Nat

\* The lists can be counted.
ListsFinite ==
  /\ \A id \in ResourceId : IsFiniteSet(descriptors_ptrs[id])
  /\ \A p \in Proc : IsFiniteSet(descriptors[p])
  /\ IsFiniteSet(OpenEntries)

\* No resource knows the next process already.
OwnersKnown ==
  \A id \in ResourceId : \A e \in descriptors_ptrs[id] : e.owner < last_pid

(***************************************************************************)
(* No resource knows the next fd of a process.  A forked process, which    *)
(* counts from 0 again, is the exception, but never comes to open.         *)
(***************************************************************************)
FdsBelow ==
  \A p \in Allocated \ forked : \A id \in ResourceId : \A e \in descriptors_ptrs[id] :
    e.owner = pid[p] => e.fd < last_fd[p]

ResourceInv ==
  VariableTypes /\ ListsFinite /\ RefCountsMatch /\ NothingDangles /\ BlocksAccounted
  /\ OwnersKnown /\ FdsBelow

-----------------------------------------------------------------------------
\* The entries of the descriptors D of owner o, alone and with their resources.
EntriesOf(o, D) == { [owner |-> o, fd |-> d.fd] : d \in D }
PairsOf(o, D)   == { << d.resource, [owner |-> o, fd |-> d.fd] >> : d \in D }

DistinctFds(D) == \A d, e \in D : e.fd = d.fd => e = d

\* There is one entry for each descriptor.
LEMMA EntriesCounted ==
  ASSUME NEW D, NEW o, IsFiniteSet(D), DistinctFds(D)
  PROVE  /\ IsFiniteSet(EntriesOf(o, D))
         /\ Cardinality(EntriesOf(o, D)) = Cardinality(D)
<1> DEFINE f == [d \in D |-> [owner |-> o, fd |-> d.fd]]
<1>1. f \in [D -> EntriesOf(o, D)]
  BY DEF EntriesOf
<1>2. \A d, e \in D : f[d] = f[e] => d = e
  BY DEF DistinctFds
<1>3. \A t \in EntriesOf(o, D) : \E d \in D : f[d] = t
  BY DEF EntriesOf
<1> HIDE DEF f
<1>4. f \in Bijection(D, EntriesOf(o, D))
  BY <1>1, <1>2, <1>3 DEF Bijection, Injection, Surjection, IsInjective
<1>5. ExistsBijection(D, EntriesOf(o, D))
  BY <1>4 DEF ExistsBijection
<1> QED BY <1>5, FS_Bijection

LEMMA PairsCounted ==
  ASSUME NEW D, NEW o, IsFiniteSet(D), DistinctFds(D)
  PROVE  /\ IsFiniteSet(PairsOf(o, D))
         /\ Cardinality(PairsOf(o, D)) = Cardinality(D)
<1> DEFINE f == [d \in D |-> << d.resource, [owner |-> o, fd |-> d.fd] >>]
<1>1. f \in [D -> PairsOf(o, D)]
  BY DEF PairsOf
<1>2. \A d, e \in D : f[d] = f[e] => d = e
  BY DEF DistinctFds
<1>3. \A t \in PairsOf(o, D) : \E d \in D : f[d] = t
  BY DEF PairsOf
<1> HIDE DEF f
<1>4. f \in Bijection(D, PairsOf(o, D))
  BY <1>1, <1>2, <1>3 DEF Bijection, Injection, Surjection, IsInjective
<1>5. ExistsBijection(D, PairsOf(o, D))
  BY <1>4 DEF ExistsBijection
<1> QED BY <1>5, FS_Bijection

\* A finite set with a disjoint one, and without a part of it.
LEMMA DisjointUnion ==
  ASSUME NEW S, NEW T, IsFiniteSet(S), IsFiniteSet(T), S \cap T = {}
  PROVE  /\ IsFiniteSet(S \cup T)
         /\ Cardinality(S \cup T) = Cardinality(S) + Cardinality(T)
<1>1. Cardinality(S) \in Nat /\ Cardinality(T) \in Nat
  BY FS_CardinalityType
<1> QED BY <1>1, FS_Union, FS_EmptySet

LEMMA PartRemoved ==
  ASSUME NEW S, NEW T, IsFiniteSet(S), T \subseteq S
  PROVE  /\ IsFiniteSet(S \ T) /\ IsFiniteSet(T)
         /\ Cardinality(S \ T) + Cardinality(T) = Cardinality(S)
         /\ Cardinality(S \ T) \in Nat /\ Cardinality(T) \in Nat
<1>1. IsFiniteSet(T) /\ IsFiniteSet(S \ T)
  BY FS_Subset
<1>2. (S \ T) \cap T = {} /\ (S \ T) \cup T = S
  OBVIOUS
<1>3. Cardinality((S \ T) \cup T) = Cardinality(S \ T) + Cardinality(T)
  BY <1>1, <1>2, DisjointUnion
<1> QED BY <1>1, <1>2, <1>3, FS_CardinalityType

-----------------------------------------------------------------------------
\* The pairs of a resource and an entry, of lists f.
OpenOf(f) == UNION { {id} \X f[id] : id \in ResourceId }

LEMMA InOpen ==
  ASSUME NEW f, NEW x
  PROVE  x \in OpenOf(f) <=> \E id \in ResourceId : \E e \in f[id] : x = << id, e >>
BY DEF OpenOf

LEMMA OpenIs ==
  /\ OpenEntries = OpenOf(descriptors_ptrs)
  /\ OpenEntries' = OpenOf(descriptors_ptrs')
BY DEF OpenEntries, OpenOf

\* One entry more in one list, and one less; so with the entries of the
\* descriptors D of one owner.
OneMore(f, g, id, e) ==
  \A i \in ResourceId : g[i] = IF i = id THEN f[i] \cup {e} ELSE f[i]
OneLess(f, g, id, e) ==
  \A i \in ResourceId : g[i] = IF i = id THEN f[i] \ {e} ELSE f[i]
AllMore(f, g, o, D) ==
  \A i \in ResourceId : g[i] = f[i] \cup EntriesOf(o, { d \in D : d.resource = i })
AllLess(f, g, o, D) ==
  \A i \in ResourceId : g[i] = f[i] \ EntriesOf(o, { d \in D : d.resource = i })

LEMMA OpenWith ==
  ASSUME NEW f, NEW g, NEW id \in ResourceId, NEW e,
         OneMore(f, g, id, e)
  PROVE  OpenOf(g) = OpenOf(f) \cup { << id, e >> }
<1>1. ASSUME NEW x \in OpenOf(g) PROVE x \in OpenOf(f) \cup { << id, e >> }
  <2>1. PICK i, y : i \in ResourceId /\ y \in g[i] /\ x = << i, y >>
    BY InOpen
  <2>2. y \in f[i] \/ (i = id /\ y = e)
    BY <2>1 DEF OneMore
  <2> QED BY <2>1, <2>2, InOpen
<1>2. ASSUME NEW x \in OpenOf(f) PROVE x \in OpenOf(g)
  <2>1. PICK i, y : i \in ResourceId /\ y \in f[i] /\ x = << i, y >>
    BY InOpen
  <2>2. y \in g[i]
    BY <2>1 DEF OneMore
  <2> QED BY <2>1, <2>2, InOpen
<1>3. << id, e >> \in OpenOf(g)
  <2>1. e \in g[id]
    BY DEF OneMore
  <2> QED BY <2>1, InOpen
<1> QED BY <1>1, <1>2, <1>3

LEMMA OpenLess ==
  ASSUME NEW f, NEW g, NEW id \in ResourceId, NEW e,
         OneLess(f, g, id, e)
  PROVE  OpenOf(g) = OpenOf(f) \ { << id, e >> }
<1>1. ASSUME NEW x \in OpenOf(g) PROVE x \in OpenOf(f) /\ x # << id, e >>
  <2>1. PICK i, y : i \in ResourceId /\ y \in g[i] /\ x = << i, y >>
    BY InOpen
  <2>2. y \in f[i] /\ << i, y >> # << id, e >>
    BY <2>1 DEF OneLess
  <2> QED BY <2>1, <2>2, InOpen
<1>2. ASSUME NEW x \in OpenOf(f), x # << id, e >> PROVE x \in OpenOf(g)
  <2>1. PICK i, y : i \in ResourceId /\ y \in f[i] /\ x = << i, y >>
    BY InOpen
  <2>2. y \in g[i]
    BY <1>2, <2>1 DEF OneLess
  <2> QED BY <2>1, <2>2, InOpen
<1> QED BY <1>1, <1>2

LEMMA OpenWithAll ==
  ASSUME NEW f, NEW g, NEW o, NEW D \in SUBSET Descriptor,
         AllMore(f, g, o, D)
  PROVE  OpenOf(g) = OpenOf(f) \cup PairsOf(o, D)
<1>1. ASSUME NEW x \in OpenOf(g) PROVE x \in OpenOf(f) \cup PairsOf(o, D)
  <2>1. PICK i, y : i \in ResourceId /\ y \in g[i] /\ x = << i, y >>
    BY InOpen
  <2>2. CASE y \in f[i]
    BY <2>1, <2>2, InOpen
  <2>3. CASE y \in EntriesOf(o, { d \in D : d.resource = i })
    BY <2>1, <2>3 DEF EntriesOf, PairsOf
  <2> QED BY <2>1, <2>2, <2>3 DEF AllMore
<1>2. ASSUME NEW x \in OpenOf(f) PROVE x \in OpenOf(g)
  <2>1. PICK i, y : i \in ResourceId /\ y \in f[i] /\ x = << i, y >>
    BY InOpen
  <2>2. y \in g[i]
    BY <2>1 DEF AllMore
  <2> QED BY <2>1, <2>2, InOpen
<1>3. ASSUME NEW x \in PairsOf(o, D) PROVE x \in OpenOf(g)
  <2>1. PICK d \in D : x = << d.resource, [owner |-> o, fd |-> d.fd] >>
    BY <1>3 DEF PairsOf
  <2>2. d.resource \in ResourceId
    BY DEF Descriptor
  <2>3. [owner |-> o, fd |-> d.fd] \in EntriesOf(o, { c \in D : c.resource = d.resource })
    BY DEF EntriesOf
  <2>4. [owner |-> o, fd |-> d.fd] \in g[d.resource]
    BY <2>2, <2>3 DEF AllMore
  <2> QED BY <2>1, <2>2, <2>4, InOpen
<1> QED BY <1>1, <1>2, <1>3

LEMMA OpenLessAll ==
  ASSUME NEW f, NEW g, NEW o, NEW D \in SUBSET Descriptor,
         AllLess(f, g, o, D)
  PROVE  OpenOf(g) = OpenOf(f) \ PairsOf(o, D)
<1>1. ASSUME NEW x \in OpenOf(g) PROVE x \in OpenOf(f) /\ x \notin PairsOf(o, D)
  <2>1. PICK i, y : i \in ResourceId /\ y \in g[i] /\ x = << i, y >>
    BY InOpen
  <2>2. y \in f[i] /\ y \notin EntriesOf(o, { d \in D : d.resource = i })
    BY <2>1 DEF AllLess
  <2>3. x \notin PairsOf(o, D)
    BY <2>1, <2>2 DEF EntriesOf, PairsOf
  <2> QED BY <2>1, <2>2, <2>3, InOpen
<1>2. ASSUME NEW x \in OpenOf(f), x \notin PairsOf(o, D) PROVE x \in OpenOf(g)
  <2>1. PICK i, y : i \in ResourceId /\ y \in f[i] /\ x = << i, y >>
    BY InOpen
  <2>2. y \notin EntriesOf(o, { d \in D : d.resource = i })
    BY <1>2, <2>1 DEF EntriesOf, PairsOf
  <2>3. y \in g[i]
    BY <2>1, <2>2 DEF AllLess
  <2> QED BY <2>1, <2>3, InOpen
<1> QED BY <1>1, <1>2

\* What a process that runs has open, and what the resources know of it.
LEMMA RunningHas ==
  ASSUME ProcessInv, ResourceInv
  PROVE  /\ running \in Allocated /\ running \in Proc
         /\ pid \in [Proc -> Nat] /\ last_pid \in Nat
         /\ Allocated \subseteq Proc
         /\ \A p \in Allocated : pid[p] < last_pid
         /\ \A p \in Allocated \ {running} : pid[p] # pid[running]
         /\ descriptors[running] \subseteq Descriptor
         /\ IsFiniteSet(descriptors[running])
         /\ DistinctFds(descriptors[running])
         /\ \A d \in descriptors[running] :
              d.resource \in resources_list /\ OpenedAs(d.fd) \in descriptors_ptrs[d.resource]
<1>1. /\ running \in Allocated /\ running \in Proc
      /\ pid \in [Proc -> Nat] /\ last_pid \in Nat /\ Allocated \subseteq Proc
  BY RunningLives DEF ProcessInv, ProcessTypeOK
<1>2. /\ \A p \in Allocated : pid[p] < last_pid
      /\ \A p \in Allocated \ {running} : pid[p] # pid[running]
  BY <1>1 DEF ProcessInv, PidsInv
<1>3. descriptors[running] \subseteq Descriptor /\ IsFiniteSet(descriptors[running])
  BY <1>1 DEF ResourceInv, VariableTypes, ListsFinite
<1>4. /\ DistinctFds(descriptors[running])
      /\ \A d \in descriptors[running] :
           d.resource \in resources_list /\ OpenedAs(d.fd) \in descriptors_ptrs[d.resource]
  BY <1>1 DEF ResourceInv, NothingDangles, DistinctFds, OpenedAs
<1> QED BY <1>1, <1>2, <1>3, <1>4

\* Its descriptors on one resource are in that resource's list, once each.
LEMMA OwnEntries ==
  ASSUME ProcessInv, ResourceInv, NEW id \in ResourceId
  PROVE  /\ Own(id) \subseteq descriptors[running]
         /\ IsFiniteSet(Own(id)) /\ DistinctFds(Own(id))
         /\ Cardinality(Own(id)) \in Nat
         /\ EntriesOf(pid[running], Own(id)) \subseteq descriptors_ptrs[id]
<1>1. Own(id) \subseteq descriptors[running]
  BY DEF Own
<1>2. IsFiniteSet(Own(id)) /\ Cardinality(Own(id)) \in Nat
  BY <1>1, RunningHas, FS_Subset, FS_CardinalityType
<1>3. DistinctFds(Own(id))
  BY <1>1, RunningHas DEF DistinctFds
<1>4. \A d \in Own(id) : OpenedAs(d.fd) \in descriptors_ptrs[id]
  BY RunningHas DEF Own
<1>5. EntriesOf(pid[running], Own(id)) \subseteq descriptors_ptrs[id]
  BY <1>4 DEF EntriesOf, OpenedAs
<1> QED BY <1>1, <1>2, <1>3, <1>5

\* A step of the processes that leaves what they have open alone.
LEMMA ResourcesKept ==
  ASSUME ResourceInv, UNCHANGED ResourceVars,
         Allocated' \subseteq Allocated, \A p \in Allocated' : pid'[p] = pid[p],
         pid \in [Proc -> Nat], last_pid \in Nat, last_pid' = last_pid,
         forked' = forked
  PROVE  ResourceInv'
<1>1. UNCHANGED << resources_list, type, ref_count, descriptors_ptrs, descriptors,
                   last_fd, free_resources, free_descriptors, free_descriptor_ptrs >>
  BY DEF ResourceVars
<1>2. OpenEntries' = OpenEntries
  BY <1>1 DEF OpenEntries
<1>3. VariableTypes' /\ ListsFinite'
  BY <1>1, <1>2 DEF ResourceInv, VariableTypes, ListsFinite
<1>4. RefCountsMatch' /\ BlocksAccounted'
  BY <1>1, <1>2 DEF ResourceInv, RefCountsMatch, BlocksAccounted
<1>5. NothingDangles'
  BY <1>1 DEF ResourceInv, NothingDangles
<1>6. OwnersKnown'
  BY <1>1 DEF ResourceInv, OwnersKnown
<1>7. FdsBelow'
  BY <1>1 DEF ResourceInv, FdsBelow
<1> QED BY <1>3, <1>4, <1>5, <1>6, <1>7 DEF ResourceInv

-----------------------------------------------------------------------------
\* A call on resources leaves the processes alone, but for its result.
LEMMA AnswersKept ==
  ASSUME NEW v, Answers(v)
  PROVE  /\ UNCHANGED << pid, last_pid, forked, free_pcbs, running >>
         /\ Allocated' = Allocated
BY DEF Answers, Allocated

\* A resource that does not exist has no list, so a new one starts like it.
LEMMA FoundBefore ==
  ASSUME ResourceInv, NEW id \in ResourceId, NEW t \in ResourceType, NEW mode,
         ResourceFound(id, t, mode)
  PROVE  /\ RefsBefore(id, mode) = ref_count[id]
         /\ PtrsBefore(id, mode) = descriptors_ptrs[id]
<1>1. CASE ~Creates(mode)
  BY <1>1 DEF RefsBefore, PtrsBefore
<1>2. CASE Creates(mode)
  <2>1. id \notin resources_list
    BY <1>2 DEF ResourceFound, CreatedNow
  <2>2. ref_count[id] = 0 /\ Cardinality(descriptors_ptrs[id]) = 0
    BY <2>1 DEF ResourceInv, RefCountsMatch
  <2>3. descriptors_ptrs[id] = {}
    BY <2>2, FS_EmptySet DEF ResourceInv, ListsFinite
  <2> QED BY <1>2, <2>2, <2>3 DEF RefsBefore, PtrsBefore
<1> QED BY <1>1, <1>2

\* The list of resources after the call has found or created its resource.
LEMMA CreatedResources ==
  ASSUME ResourceInv, NEW id \in ResourceId, NEW t \in ResourceType, NEW mode,
         ResourceFound(id, t, mode), CreatedIf(id, t, mode)
  PROVE  /\ resources_list' \subseteq ResourceId
         /\ resources_list' = resources_list \cup {id}
         /\ type' \in [ResourceId -> ResourceType]
         /\ free_resources' \in Nat
         /\ free_resources' + Cardinality(resources_list') = MAX_NUM_RESOURCES
<1>1. /\ resources_list \subseteq ResourceId /\ type \in [ResourceId -> ResourceType]
      /\ free_resources \in Nat
      /\ free_resources + Cardinality(resources_list) = MAX_NUM_RESOURCES
  BY DEF ResourceInv, VariableTypes, BlocksAccounted
<1>2. CASE ~Creates(mode)
  <2>1. /\ UNCHANGED << resources_list, type, free_resources >>
        /\ id \in resources_list
    BY <1>2 DEF CreatedIf, ResourceFound, CreatedNow
  <2> QED BY <1>1, <2>1
<1>3. CASE Creates(mode)
  <2>1. /\ resources_list' = resources_list \cup {id}
        /\ type' = [type EXCEPT ![id] = t]
        /\ free_resources' = free_resources - 1
        /\ id \notin resources_list /\ free_resources > 0
    BY <1>3 DEF CreatedIf, ResourceFound, CreatedNow
  <2>2. IsFiniteSet(resources_list)
    BY <1>1, ResourceAssumption, FS_Subset
  <2>3. /\ Cardinality(resources_list') = Cardinality(resources_list) + 1
        /\ Cardinality(resources_list) \in Nat
    BY <2>1, <2>2, FS_AddElement, FS_CardinalityType
  <2> QED BY <1>1, <2>1, <2>3
<1> QED BY <1>2, <1>3

\* An open that gets no descriptor may leave a resource behind.
LEMMA OpenWithoutInv ==
  ASSUME ProcessInv, ResourceInv,
         NEW id \in ResourceId, NEW t \in ResourceType, NEW mode \in OpenModes,
         OpenWithoutDescriptor(id, t, mode)
  PROVE  ResourceInv'
<1>1. /\ ResourceFound(id, t, mode) /\ CreatedIf(id, t, mode)
      /\ ref_count' = [ref_count EXCEPT ![id] = RefsBefore(id, mode)]
      /\ descriptors_ptrs' = [descriptors_ptrs EXCEPT ![id] = PtrsBefore(id, mode)]
      /\ UNCHANGED << descriptors, last_fd, free_descriptors, free_descriptor_ptrs >>
      /\ UNCHANGED << pid, last_pid, forked, free_pcbs, running >>
      /\ Allocated' = Allocated
  BY AnswersKept DEF OpenWithoutDescriptor
<1>2. /\ resources_list' \subseteq ResourceId
      /\ resources_list' = resources_list \cup {id}
      /\ type' \in [ResourceId -> ResourceType]
      /\ free_resources' \in Nat
      /\ free_resources' + Cardinality(resources_list') = MAX_NUM_RESOURCES
  BY <1>1, CreatedResources
<1>3. ref_count' = ref_count /\ descriptors_ptrs' = descriptors_ptrs
  BY <1>1, FoundBefore DEF ResourceInv, VariableTypes
<1>4. OpenEntries' = OpenEntries
  BY <1>3 DEF OpenEntries
<1>5. VariableTypes' /\ ListsFinite'
  BY <1>1, <1>2, <1>3, <1>4 DEF ResourceInv, VariableTypes, ListsFinite
<1>6. RefCountsMatch' /\ BlocksAccounted'
  BY <1>1, <1>2, <1>3, <1>4 DEF ResourceInv, RefCountsMatch, BlocksAccounted
<1>7. NothingDangles' /\ OwnersKnown' /\ FdsBelow'
  BY <1>1, <1>2, <1>3 DEF ResourceInv, NothingDangles, OwnersKnown, FdsBelow
<1> QED BY <1>5, <1>6, <1>7 DEF ResourceInv

\* An open adds one descriptor, whose fd the resources do not know.
LEMMA OpenSucceedsInv ==
  ASSUME ProcessInv, ResourceInv, running \notin forked,
         NEW id \in ResourceId, NEW t \in ResourceType, NEW mode \in OpenModes,
         OpenSucceeds(id, t, mode)
  PROVE  ResourceInv'
<1> DEFINE k == last_fd[running]
           d == [fd |-> k, resource |-> id]
           e == [owner |-> pid[running], fd |-> k]
<1>1. /\ ResourceFound(id, t, mode) /\ CreatedIf(id, t, mode)
      /\ free_descriptors > 0 /\ free_descriptor_ptrs > 0
      /\ descriptors' = [descriptors EXCEPT ![running] = @ \cup {d}]
      /\ descriptors_ptrs' = [descriptors_ptrs EXCEPT ![id] = PtrsBefore(id, mode) \cup {e}]
      /\ ref_count' = [ref_count EXCEPT ![id] = RefsBefore(id, mode) + 1]
      /\ last_fd' = [last_fd EXCEPT ![running] = @ + 1]
      /\ free_descriptors' = free_descriptors - 1
      /\ free_descriptor_ptrs' = free_descriptor_ptrs - 1
      /\ UNCHANGED << pid, last_pid, forked, free_pcbs, running >>
      /\ Allocated' = Allocated
  BY AnswersKept DEF OpenSucceeds, HasBlocks, NextFd, OpenedAs
<1>2. /\ resources_list' \subseteq ResourceId
      /\ resources_list' = resources_list \cup {id}
      /\ type' \in [ResourceId -> ResourceType]
      /\ free_resources' \in Nat
      /\ free_resources' + Cardinality(resources_list') = MAX_NUM_RESOURCES
  BY <1>1, CreatedResources
<1>3. /\ VariableTypes /\ ListsFinite
      /\ RefCountsMatch /\ NothingDangles /\ BlocksAccounted /\ OwnersKnown /\ FdsBelow
  BY DEF ResourceInv
<1>4. /\ running \in Allocated /\ running \in Proc /\ k \in Nat /\ pid[running] \in Nat
      /\ pid \in [Proc -> Nat] /\ last_pid \in Nat /\ pid[running] < last_pid
      /\ Allocated \subseteq Proc
      /\ \A p \in Allocated \ {running} : pid[p] # pid[running]
  BY <1>3, RunningHas DEF VariableTypes
<1>5. /\ descriptors_ptrs' = [descriptors_ptrs EXCEPT ![id] = @ \cup {e}]
      /\ ref_count' = [ref_count EXCEPT ![id] = @ + 1]
  BY <1>1, FoundBefore
<1>6. \A i \in ResourceId : e \notin descriptors_ptrs[i]
  BY <1>3, <1>4 DEF FdsBelow
<1>7. /\ VariableTypes'
  BY <1>1, <1>2, <1>3, <1>4, <1>5 DEF VariableTypes, Entry, Descriptor
<1>8. /\ OpenEntries' = OpenEntries \cup { << id, e >> }
      /\ << id, e >> \notin OpenEntries
  <2>1. /\ \A i \in ResourceId : descriptors_ptrs'[i] =
             IF i = id THEN descriptors_ptrs[i] \cup {e} ELSE descriptors_ptrs[i]
    BY <1>3, <1>5 DEF VariableTypes
  <2>2. OneMore(descriptors_ptrs, descriptors_ptrs', id, e)
    BY <2>1 DEF OneMore
  <2> HIDE DEF e
  <2>4. OpenOf(descriptors_ptrs') = OpenOf(descriptors_ptrs) \cup { << id, e >> }
    BY <2>2, OpenWith
  <2>3. << id, e >> \notin OpenOf(descriptors_ptrs)
    BY <1>6, InOpen
  <2> QED BY <2>3, <2>4, OpenIs
<1>9. /\ IsFiniteSet(OpenEntries') /\ Cardinality(OpenEntries') = Cardinality(OpenEntries) + 1
      /\ Cardinality(OpenEntries) \in Nat
  BY <1>3, <1>8, FS_AddElement, FS_CardinalityType DEF ListsFinite
<1>10. \A i \in ResourceId : IsFiniteSet(descriptors_ptrs'[i])
                             /\ ref_count'[i] = Cardinality(descriptors_ptrs'[i])
  <2> SUFFICES ASSUME NEW i \in ResourceId
               PROVE  IsFiniteSet(descriptors_ptrs'[i])
                      /\ ref_count'[i] = Cardinality(descriptors_ptrs'[i])
    OBVIOUS
  <2>1. IsFiniteSet(descriptors_ptrs[i]) /\ ref_count[i] = Cardinality(descriptors_ptrs[i])
    BY <1>3 DEF ListsFinite, RefCountsMatch
  <2>2. CASE i # id
    BY <1>3, <1>5, <2>1, <2>2 DEF VariableTypes
  <2>3. CASE i = id
    <3>1. /\ descriptors_ptrs'[i] = descriptors_ptrs[i] \cup {e}
          /\ ref_count'[i] = ref_count[i] + 1
      BY <1>3, <1>5, <2>3 DEF VariableTypes
    <3> HIDE DEF e
    <3>2. /\ IsFiniteSet(descriptors_ptrs[i] \cup {e})
          /\ Cardinality(descriptors_ptrs[i] \cup {e}) = Cardinality(descriptors_ptrs[i]) + 1
      BY <1>6, <2>1, FS_AddElement
    <3> QED BY <2>1, <3>1, <3>2
  <2> QED BY <2>2, <2>3
<1>11. ListsFinite'
  <2>1. \A p \in Proc : descriptors'[p] =
          IF p = running THEN descriptors[p] \cup {d} ELSE descriptors[p]
    BY <1>1, <1>3 DEF VariableTypes
  <2> HIDE DEF d
  <2>2. ASSUME NEW p \in Proc PROVE IsFiniteSet(descriptors'[p])
    <3>1. IsFiniteSet(descriptors[p]) /\ IsFiniteSet(descriptors[p] \cup {d})
      BY <1>3, FS_AddElement DEF ListsFinite
    <3> QED BY <2>1, <3>1
  <2> QED BY <1>9, <1>10, <2>2 DEF ListsFinite
<1>12. RefCountsMatch'
  <2>1. \A i \in ResourceId : i \notin resources_list' => ref_count'[i] = 0
    BY <1>2, <1>3, <1>5 DEF RefCountsMatch, VariableTypes
  <2> QED BY <1>10, <2>1 DEF RefCountsMatch
<1>13. BlocksAccounted'
  BY <1>1, <1>2, <1>3, <1>9 DEF BlocksAccounted, VariableTypes
<1>14. NothingDangles'
  <2> SUFFICES ASSUME NEW p \in Allocated, NEW x \in descriptors'[p]
               PROVE  /\ x.resource \in resources_list'
                      /\ [owner |-> pid[p], fd |-> x.fd] \in descriptors_ptrs'[x.resource]
                      /\ \A y \in descriptors'[p] : y.fd = x.fd => y = x
    BY <1>1 DEF NothingDangles
  <2>1. \A y \in descriptors[p] :
          /\ y.resource \in resources_list /\ y.resource \in ResourceId
          /\ [owner |-> pid[p], fd |-> y.fd] \in descriptors_ptrs[y.resource]
          /\ \A z \in descriptors[p] : z.fd = y.fd => z = y
    BY <1>3 DEF NothingDangles, VariableTypes
  <2>2. \A i \in ResourceId : descriptors_ptrs[i] \subseteq descriptors_ptrs'[i]
    BY <1>3, <1>5 DEF VariableTypes
  <2>3. CASE p # running
    <3>1. descriptors'[p] = descriptors[p]
      BY <1>1, <1>3, <1>4, <2>3 DEF VariableTypes
    <3> QED BY <1>2, <2>1, <2>2, <3>1
  <2>4. CASE p = running
    <3>1. descriptors'[p] = descriptors[p] \cup {d}
      BY <1>1, <1>3, <1>4, <2>4 DEF VariableTypes
    <3>2. \A y \in descriptors[p] : y.fd # k
      BY <1>6, <2>1, <2>4
    <3>3. e \in descriptors_ptrs'[id]
      BY <1>3, <1>5 DEF VariableTypes
    <3>4. CASE x = d
      BY <1>2, <2>4, <3>1, <3>2, <3>3, <3>4
    <3>5. CASE x # d
      BY <1>2, <2>1, <2>2, <3>1, <3>2, <3>5
    <3> QED BY <3>4, <3>5
  <2> QED BY <2>3, <2>4
<1>15. OwnersKnown'
  BY <1>1, <1>3, <1>4, <1>5 DEF OwnersKnown, VariableTypes
<1>16. FdsBelow'
  <2> SUFFICES ASSUME NEW p \in Allocated \ forked, NEW i \in ResourceId,
                      NEW x \in descriptors_ptrs'[i], x.owner = pid[p]
               PROVE  x.fd < last_fd'[p]
    BY <1>1 DEF FdsBelow
  <2>1. x \in descriptors_ptrs[i] \/ x = e
    BY <1>3, <1>5 DEF VariableTypes
  <2>2. last_fd'[p] = IF p = running THEN k + 1 ELSE last_fd[p]
    BY <1>1, <1>3, <1>4 DEF VariableTypes
  <2>3. last_fd[p] \in Nat
    BY <1>3, <1>4 DEF VariableTypes
  <2>4. CASE x = e
    BY <1>4, <2>2, <2>4
  <2>5. CASE x \in descriptors_ptrs[i]
    <3>1. x.fd < last_fd[p] /\ x.fd \in Nat
      BY <1>3, <2>5 DEF FdsBelow, VariableTypes, Entry
    <3> QED BY <2>2, <2>3, <3>1
  <2> QED BY <2>1, <2>4, <2>5
<1> QED BY <1>7, <1>11, <1>12, <1>13, <1>14, <1>15, <1>16 DEF ResourceInv

\* A close removes one descriptor, and its own entry.
LEMMA CloseSucceedsInv ==
  ASSUME ProcessInv, ResourceInv,
         NEW fd \in 0 .. MaxFd, NEW d \in DescriptorList_byFd(fd), CloseSucceeds(d)
  PROVE  ResourceInv'
<1> DEFINE e == [owner |-> pid[running], fd |-> d.fd]
           id == d.resource
<1>1. /\ d \in descriptors[running]
      /\ descriptors' = [descriptors EXCEPT ![running] = @ \ {d}]
      /\ descriptors_ptrs' = [descriptors_ptrs EXCEPT ![id] = @ \ {e}]
      /\ ref_count' = [ref_count EXCEPT ![id] = @ - 1]
      /\ free_descriptors' = free_descriptors + 1
      /\ free_descriptor_ptrs' = free_descriptor_ptrs + 1
      /\ UNCHANGED << resources_list, type, last_fd, free_resources >>
      /\ UNCHANGED << pid, last_pid, forked, free_pcbs, running >>
      /\ Allocated' = Allocated
  BY AnswersKept DEF CloseSucceeds, DescriptorList_byFd, Unlinked, OpenedAs
<1>2. /\ VariableTypes /\ ListsFinite
      /\ RefCountsMatch /\ NothingDangles /\ BlocksAccounted /\ OwnersKnown /\ FdsBelow
  BY DEF ResourceInv
<1>3. /\ running \in Allocated /\ running \in Proc
      /\ Allocated \subseteq Proc
      /\ \A p \in Allocated \ {running} : pid[p] # pid[running]
      /\ d \in Descriptor /\ id \in ResourceId
      /\ DistinctFds(descriptors[running])
      /\ id \in resources_list /\ e \in descriptors_ptrs[id]
  BY <1>1, RunningHas DEF Descriptor, OpenedAs
<1>4. \A i \in ResourceId : descriptors_ptrs'[i] =
        IF i = id THEN descriptors_ptrs[i] \ {e} ELSE descriptors_ptrs[i]
  BY <1>1, <1>2 DEF VariableTypes
<1>5. \A p \in Proc : descriptors'[p] =
        IF p = running THEN descriptors[p] \ {d} ELSE descriptors[p]
  BY <1>1, <1>2 DEF VariableTypes
<1>6. /\ OpenEntries' = OpenEntries \ { << id, e >> }
      /\ << id, e >> \in OpenEntries
  <2>1. OneLess(descriptors_ptrs, descriptors_ptrs', id, e)
    BY <1>4 DEF OneLess
  <2> HIDE DEF e, id
  <2>3. OpenOf(descriptors_ptrs') = OpenOf(descriptors_ptrs) \ { << id, e >> }
    BY <1>3, <2>1, OpenLess
  <2>2. << id, e >> \in OpenOf(descriptors_ptrs)
    BY <1>3, InOpen
  <2> QED BY <2>2, <2>3, OpenIs
<1>7. /\ IsFiniteSet(OpenEntries') /\ Cardinality(OpenEntries') = Cardinality(OpenEntries) - 1
      /\ Cardinality(OpenEntries) \in Nat
  BY <1>2, <1>6, FS_RemoveElement, FS_CardinalityType DEF ListsFinite
<1>8. \A i \in ResourceId : IsFiniteSet(descriptors_ptrs'[i])
                            /\ ref_count'[i] = Cardinality(descriptors_ptrs'[i])
                            /\ ref_count'[i] \in Nat
  <2> SUFFICES ASSUME NEW i \in ResourceId
               PROVE  IsFiniteSet(descriptors_ptrs'[i])
                      /\ ref_count'[i] = Cardinality(descriptors_ptrs'[i])
                      /\ ref_count'[i] \in Nat
    OBVIOUS
  <2>1. /\ IsFiniteSet(descriptors_ptrs[i]) /\ ref_count[i] = Cardinality(descriptors_ptrs[i])
        /\ ref_count[i] \in Nat
        /\ ref_count'[i] = IF i = id THEN ref_count[i] - 1 ELSE ref_count[i]
    BY <1>1, <1>2 DEF ListsFinite, RefCountsMatch, VariableTypes
  <2> HIDE DEF e, id
  <2>2. CASE i # id
    BY <1>4, <2>1, <2>2
  <2>3. CASE i = id
    <3>1. descriptors_ptrs'[i] = descriptors_ptrs[i] \ {e} /\ e \in descriptors_ptrs[i]
      BY <1>3, <1>4, <2>3
    <3>2. /\ IsFiniteSet(descriptors_ptrs[i] \ {e})
          /\ Cardinality(descriptors_ptrs[i] \ {e}) = Cardinality(descriptors_ptrs[i]) - 1
          /\ Cardinality(descriptors_ptrs[i] \ {e}) \in Nat
      BY <2>1, <3>1, FS_RemoveElement, FS_CardinalityType
    <3> QED BY <2>1, <2>3, <3>1, <3>2
  <2> QED BY <2>2, <2>3
<1>9. VariableTypes'
  <2>1. ref_count' \in [ResourceId -> Nat]
    BY <1>1, <1>2, <1>8 DEF VariableTypes
  <2>2. /\ descriptors_ptrs' \in [ResourceId -> SUBSET Entry]
        /\ descriptors' \in [Proc -> SUBSET Descriptor]
    BY <1>1, <1>2, <1>3 DEF VariableTypes
  <2> QED BY <1>1, <1>2, <2>1, <2>2 DEF VariableTypes
<1>10. ListsFinite'
  <2> HIDE DEF e, id
  <2>1. ASSUME NEW p \in Proc PROVE IsFiniteSet(descriptors'[p])
    <3>1. IsFiniteSet(descriptors[p]) /\ IsFiniteSet(descriptors[p] \ {d})
      BY <1>2, FS_RemoveElement DEF ListsFinite
    <3> QED BY <1>5, <3>1
  <2> QED BY <1>7, <1>8, <2>1 DEF ListsFinite
<1>11. RefCountsMatch'
  <2>1. \A i \in ResourceId : i \notin resources_list' => ref_count'[i] = 0
    BY <1>1, <1>2, <1>3 DEF RefCountsMatch, VariableTypes
  <2> QED BY <1>8, <2>1 DEF RefCountsMatch
<1>12. BlocksAccounted'
  BY <1>1, <1>2, <1>7 DEF BlocksAccounted, VariableTypes
<1>13. NothingDangles'
  <2> SUFFICES ASSUME NEW p \in Allocated, NEW x \in descriptors'[p]
               PROVE  /\ x.resource \in resources_list
                      /\ [owner |-> pid[p], fd |-> x.fd] \in descriptors_ptrs'[x.resource]
                      /\ \A y \in descriptors'[p] : y.fd = x.fd => y = x
    BY <1>1 DEF NothingDangles
  <2>1. \A y \in descriptors[p] :
          /\ y.resource \in resources_list /\ y.resource \in ResourceId
          /\ [owner |-> pid[p], fd |-> y.fd] \in descriptors_ptrs[y.resource]
          /\ \A z \in descriptors[p] : z.fd = y.fd => z = y
    BY <1>2 DEF NothingDangles, VariableTypes
  <2>2. p \in Proc /\ descriptors'[p] \subseteq descriptors[p] /\ x \in descriptors[p]
    BY <1>3, <1>5
  <2>3. [owner |-> pid[p], fd |-> x.fd] # e
    <3>1. CASE p # running
      BY <1>3, <3>1
    <3>2. CASE p = running
      <4>1. x # d
        BY <1>3, <1>5, <3>2
      <4>2. x.fd # d.fd
        BY <1>1, <1>3, <2>2, <3>2, <4>1 DEF DistinctFds
      <4> QED BY <4>2
    <3> QED BY <3>1, <3>2
  <2> HIDE DEF e, id
  <2> QED BY <1>4, <2>1, <2>2, <2>3
<1>14. OwnersKnown' /\ FdsBelow'
  <2>1. \A i \in ResourceId : descriptors_ptrs'[i] \subseteq descriptors_ptrs[i]
    BY <1>4
  <2> QED BY <1>1, <1>2, <2>1 DEF OwnersKnown, FdsBelow
<1> QED BY <1>9, <1>10, <1>11, <1>12, <1>13, <1>14 DEF ResourceInv

\* A resource that is destroyed is in nobody's list.
LEMMA DestroySucceedsInv ==
  ASSUME ProcessInv, ResourceInv, NEW id \in ResourceId, DestroySucceeds(id)
  PROVE  ResourceInv'
<1>1. /\ id \in resources_list /\ ~(ref_count[id] > 0)
      /\ resources_list' = resources_list \ {id}
      /\ free_resources' = free_resources + 1
      /\ UNCHANGED << type, ref_count, descriptors_ptrs, descriptors, last_fd,
                      free_descriptors, free_descriptor_ptrs >>
      /\ UNCHANGED << pid, last_pid, forked, free_pcbs, running >>
      /\ Allocated' = Allocated
  BY AnswersKept DEF DestroySucceeds, InUse
<1>2. /\ VariableTypes /\ ListsFinite
      /\ RefCountsMatch /\ NothingDangles /\ BlocksAccounted /\ OwnersKnown /\ FdsBelow
  BY DEF ResourceInv
<1>3. OpenEntries' = OpenEntries
  BY <1>1 DEF OpenEntries
<1>4. ref_count[id] = 0
  BY <1>1, <1>2 DEF VariableTypes
<1>5. descriptors_ptrs[id] = {}
  BY <1>2, <1>4, FS_EmptySet DEF ListsFinite, RefCountsMatch
<1>6. IsFiniteSet(resources_list) /\ Cardinality(resources_list) \in Nat
  BY <1>2, ResourceAssumption, FS_Subset, FS_CardinalityType DEF VariableTypes
<1>7. Cardinality(resources_list') = Cardinality(resources_list) - 1
  BY <1>1, <1>6, FS_RemoveElement
<1>8. VariableTypes' /\ ListsFinite'
  BY <1>1, <1>2, <1>3 DEF VariableTypes, ListsFinite
<1>9. RefCountsMatch'
  BY <1>1, <1>2, <1>4 DEF RefCountsMatch
<1>10. BlocksAccounted'
  BY <1>1, <1>2, <1>3, <1>6, <1>7 DEF BlocksAccounted, VariableTypes
<1>11. NothingDangles'
  <2>1. \A p \in Allocated : \A d \in descriptors[p] : d.resource # id
    BY <1>2, <1>5 DEF NothingDangles
  <2> QED BY <1>1, <1>2, <2>1 DEF NothingDangles
<1>12. OwnersKnown' /\ FdsBelow'
  BY <1>1, <1>2 DEF OwnersKnown, FdsBelow
<1> QED BY <1>8, <1>9, <1>10, <1>11, <1>12 DEF ResourceInv

-----------------------------------------------------------------------------
\* What a new process is to the resources, whether spawned or forked.
LEMMA StartedAs ==
  ASSUME ProcessInv, NEW p \in Proc, ChildStarts(p)
  PROVE  /\ p \notin Allocated /\ running # p
         /\ Allocated' = Allocated \cup {p}
         /\ pid' = [pid EXCEPT ![p] = last_pid]
         /\ last_pid' = last_pid + 1
BY RunningLives DEF ChildStarts, PCB_alloc, Allocated

LEMMA SpawnInv ==
  ASSUME ProcessInv, ResourceInv, NEW p \in Proc, SpawnStarts(p), SpawnedWithout(p)
  PROVE  ResourceInv'
<1>1. /\ p \notin Allocated /\ running # p
      /\ Allocated' = Allocated \cup {p}
      /\ pid' = [pid EXCEPT ![p] = last_pid]
      /\ last_pid' = last_pid + 1
      /\ forked' = forked \ {p}
  BY StartedAs DEF SpawnStarts
<1>2. /\ descriptors' = [descriptors EXCEPT ![p] = {}]
      /\ last_fd' = [last_fd EXCEPT ![p] = 0]
      /\ UNCHANGED << resources_list, type, ref_count, descriptors_ptrs,
                      free_resources, free_descriptors, free_descriptor_ptrs >>
  BY DEF SpawnedWithout
<1>3. /\ VariableTypes /\ ListsFinite
      /\ RefCountsMatch /\ NothingDangles /\ BlocksAccounted /\ OwnersKnown /\ FdsBelow
  BY DEF ResourceInv
<1>4. /\ pid \in [Proc -> Nat] /\ last_pid \in Nat /\ Allocated \subseteq Proc
      /\ \A q \in Allocated : pid[q] < last_pid
  BY RunningHas
<1>5. OpenEntries' = OpenEntries
  BY <1>2 DEF OpenEntries
<1>6. VariableTypes'
  BY <1>2, <1>3 DEF VariableTypes
<1>7. ListsFinite'
  BY <1>2, <1>3, <1>5, FS_EmptySet DEF ListsFinite, VariableTypes
<1>8. RefCountsMatch' /\ BlocksAccounted'
  BY <1>2, <1>3, <1>5 DEF RefCountsMatch, BlocksAccounted
<1>9. NothingDangles'
  <2> SUFFICES ASSUME NEW q \in Allocated', NEW d \in descriptors'[q]
               PROVE  /\ d.resource \in resources_list
                      /\ [owner |-> pid'[q], fd |-> d.fd] \in descriptors_ptrs[d.resource]
                      /\ \A e \in descriptors'[q] : e.fd = d.fd => e = d
    BY <1>2 DEF NothingDangles
  <2>1. q # p
    BY <1>2, <1>3 DEF VariableTypes
  <2>2. q \in Allocated /\ descriptors'[q] = descriptors[q] /\ pid'[q] = pid[q]
    BY <1>1, <1>2, <1>3, <1>4, <2>1 DEF VariableTypes
  <2> QED BY <1>3, <2>2 DEF NothingDangles
<1>10. OwnersKnown'
  BY <1>1, <1>2, <1>3, <1>4 DEF OwnersKnown, VariableTypes, Entry
<1>11. FdsBelow'
  <2> SUFFICES ASSUME NEW q \in Allocated' \ forked', NEW id \in ResourceId,
                      NEW e \in descriptors_ptrs[id], e.owner = pid'[q]
               PROVE  e.fd < last_fd'[q]
    BY <1>2 DEF FdsBelow
  <2>1. e.owner < last_pid
    BY <1>3 DEF OwnersKnown
  <2>2. q # p
    BY <1>1, <1>4, <2>1
  <2>3. q \in Allocated \ forked /\ pid'[q] = pid[q] /\ last_fd'[q] = last_fd[q]
    BY <1>1, <1>2, <1>3, <1>4, <2>2 DEF VariableTypes
  <2> QED BY <1>3, <2>3 DEF FdsBelow
<1> QED BY <1>6, <1>7, <1>8, <1>9, <1>10, <1>11 DEF ResourceInv

\* fork adds an entry for each of the parent's descriptors.
LEMMA ForkInv ==
  ASSUME ProcessInv, ResourceInv, NEW p \in Proc, ForkStarts(p), DescriptorsCopied(p)
  PROVE  ResourceInv'
<1> DEFINE mine == descriptors[running]
<1>1. /\ p \notin Allocated /\ running # p
      /\ Allocated' = Allocated \cup {p}
      /\ pid' = [pid EXCEPT ![p] = last_pid]
      /\ last_pid' = last_pid + 1
      /\ forked' = forked \cup {p}
  BY StartedAs DEF ForkStarts
<1>2. /\ free_descriptors >= Opened /\ free_descriptor_ptrs >= Opened
      /\ descriptors' = [descriptors EXCEPT ![p] = mine]
      /\ last_fd' = [last_fd EXCEPT ![p] = 0]
      /\ descriptors_ptrs' = [id \in ResourceId |-> descriptors_ptrs[id] \cup Copies(id)]
      /\ ref_count' = [id \in ResourceId |-> ref_count[id] + Cardinality(Own(id))]
      /\ free_descriptors' = free_descriptors - Opened
      /\ free_descriptor_ptrs' = free_descriptor_ptrs - Opened
      /\ UNCHANGED << resources_list, type, free_resources >>
  BY DEF DescriptorsCopied
<1>3. /\ VariableTypes /\ ListsFinite
      /\ RefCountsMatch /\ NothingDangles /\ BlocksAccounted /\ OwnersKnown /\ FdsBelow
  BY DEF ResourceInv
<1>4. /\ running \in Allocated /\ running \in Proc
      /\ pid \in [Proc -> Nat] /\ last_pid \in Nat /\ Allocated \subseteq Proc
      /\ \A q \in Allocated : pid[q] < last_pid
      /\ mine \subseteq Descriptor /\ IsFiniteSet(mine) /\ DistinctFds(mine)
      /\ \A d \in mine : d.resource \in resources_list
  BY RunningHas
<1>5. Opened = Cardinality(mine) /\ Opened \in Nat
  BY <1>4, FS_CardinalityType DEF Opened
<1>6. \A id \in ResourceId : Copies(id) = EntriesOf(last_pid, Own(id))
  BY DEF Copies, EntriesOf
<1>7. \A id \in ResourceId : Own(id) = { d \in mine : d.resource = id }
  BY DEF Own
<1>8. \A id \in ResourceId :
        /\ descriptors_ptrs'[id] = descriptors_ptrs[id] \cup EntriesOf(last_pid, Own(id))
        /\ ref_count'[id] = ref_count[id] + Cardinality(Own(id))
  BY <1>2, <1>6
<1>9. /\ OpenEntries' = OpenEntries \cup PairsOf(last_pid, mine)
      /\ OpenEntries \cap PairsOf(last_pid, mine) = {}
  <2>1. AllMore(descriptors_ptrs, descriptors_ptrs', last_pid, mine)
    BY <1>7, <1>8 DEF AllMore
  <2>2. ASSUME NEW x \in OpenOf(descriptors_ptrs), x \in PairsOf(last_pid, mine)
        PROVE  FALSE
    <3>1. PICK id, e : id \in ResourceId /\ e \in descriptors_ptrs[id] /\ x = << id, e >>
      BY InOpen
    <3>2. e.owner = last_pid
      BY <2>2, <3>1 DEF PairsOf
    <3> QED BY <1>3, <1>4, <3>1, <3>2 DEF OwnersKnown
  <2> HIDE DEF mine
  <2>3. OpenOf(descriptors_ptrs') = OpenOf(descriptors_ptrs) \cup PairsOf(last_pid, mine)
    BY <1>4, <2>1, OpenWithAll
  <2> QED BY <2>2, <2>3, OpenIs
<1>10. /\ IsFiniteSet(OpenEntries')
       /\ Cardinality(OpenEntries') = Cardinality(OpenEntries) + Opened
       /\ Cardinality(OpenEntries) \in Nat
  <2> HIDE DEF mine
  <2>1. IsFiniteSet(PairsOf(last_pid, mine)) /\ Cardinality(PairsOf(last_pid, mine)) = Opened
    BY <1>4, <1>5, PairsCounted
  <2> QED BY <1>3, <1>9, <2>1, DisjointUnion, FS_CardinalityType DEF ListsFinite
<1>11. ASSUME NEW id \in ResourceId
       PROVE  /\ IsFiniteSet(descriptors_ptrs'[id])
              /\ ref_count'[id] = Cardinality(descriptors_ptrs'[id])
              /\ ref_count'[id] \in Nat
              /\ id \notin resources_list => ref_count'[id] = 0
  <2> DEFINE new == EntriesOf(last_pid, Own(id))
  <2>1. IsFiniteSet(Own(id)) /\ DistinctFds(Own(id)) /\ Cardinality(Own(id)) \in Nat
    BY OwnEntries
  <2>2. IsFiniteSet(new) /\ Cardinality(new) = Cardinality(Own(id))
    BY <2>1, EntriesCounted
  <2>3. descriptors_ptrs[id] \cap new = {}
    <3>1. \A e \in new : e.owner = last_pid
      BY DEF EntriesOf
    <3>2. \A e \in descriptors_ptrs[id] : e.owner # last_pid
      BY <1>3, <1>4 DEF OwnersKnown, VariableTypes, Entry
    <3> QED BY <3>1, <3>2
  <2>4. /\ IsFiniteSet(descriptors_ptrs[id])
        /\ ref_count[id] = Cardinality(descriptors_ptrs[id]) /\ ref_count[id] \in Nat
        /\ id \notin resources_list => ref_count[id] = 0
    BY <1>3 DEF ListsFinite, RefCountsMatch, VariableTypes
  <2>5. id \notin resources_list => Own(id) = {}
    BY <1>4, <1>7
  <2>6. descriptors_ptrs'[id] = descriptors_ptrs[id] \cup new
    BY <1>8
  <2> HIDE DEF new
  <2>7. /\ IsFiniteSet(descriptors_ptrs'[id])
        /\ Cardinality(descriptors_ptrs'[id]) = ref_count[id] + Cardinality(Own(id))
    <3>1. /\ IsFiniteSet(descriptors_ptrs[id] \cup new)
          /\ Cardinality(descriptors_ptrs[id] \cup new)
               = Cardinality(descriptors_ptrs[id]) + Cardinality(new)
      BY <2>2, <2>3, <2>4, DisjointUnion
    <3> QED BY <2>2, <2>4, <2>6, <3>1
  <2>8. id \notin resources_list => Cardinality(Own(id)) = 0
    BY <2>5, FS_EmptySet
  <2> QED BY <1>8, <2>1, <2>4, <2>7, <2>8
<1>12. VariableTypes'
  <2>1. ref_count' \in [ResourceId -> Nat]
    BY <1>2, <1>11
  <2>2. \A id \in ResourceId : descriptors_ptrs'[id] \subseteq Entry
    <3>1. \A id \in ResourceId : EntriesOf(last_pid, Own(id)) \subseteq Entry
      BY <1>4, <1>7 DEF EntriesOf, Entry, Descriptor
    <3> QED BY <1>3, <1>8, <3>1 DEF VariableTypes
  <2>3. descriptors_ptrs' \in [ResourceId -> SUBSET Entry]
    BY <1>2, <2>2
  <2>4. descriptors' \in [Proc -> SUBSET Descriptor]
    BY <1>2, <1>3, <1>4 DEF VariableTypes
  <2> QED BY <1>2, <1>3, <1>5, <2>1, <2>3, <2>4 DEF VariableTypes
<1>13. ListsFinite'
  <2>1. \A q \in Proc : IsFiniteSet(descriptors'[q])
    BY <1>2, <1>3, <1>4 DEF ListsFinite, VariableTypes
  <2> QED BY <1>10, <1>11, <2>1 DEF ListsFinite
<1>14. RefCountsMatch'
  BY <1>2, <1>11 DEF RefCountsMatch
<1>15. BlocksAccounted'
  BY <1>2, <1>3, <1>5, <1>10 DEF BlocksAccounted, VariableTypes
<1>16. NothingDangles'
  <2> SUFFICES ASSUME NEW q \in Allocated', NEW d \in descriptors'[q]
               PROVE  /\ d.resource \in resources_list
                      /\ [owner |-> pid'[q], fd |-> d.fd] \in descriptors_ptrs'[d.resource]
                      /\ \A e \in descriptors'[q] : e.fd = d.fd => e = d
    BY <1>2 DEF NothingDangles
  <2>1. CASE q # p
    <3>1. q \in Allocated /\ descriptors'[q] = descriptors[q] /\ pid'[q] = pid[q]
      BY <1>1, <1>2, <1>3, <1>4, <2>1 DEF VariableTypes
    <3>2. /\ d.resource \in resources_list /\ d.resource \in ResourceId
          /\ [owner |-> pid[q], fd |-> d.fd] \in descriptors_ptrs[d.resource]
          /\ \A e \in descriptors[q] : e.fd = d.fd => e = d
      BY <1>3, <3>1 DEF NothingDangles, VariableTypes
    <3> QED BY <1>8, <3>1, <3>2
  <2>2. CASE q = p
    <3>1. descriptors'[q] = mine /\ pid'[q] = last_pid
      BY <1>1, <1>2, <1>3, <1>4, <2>2 DEF VariableTypes
    <3>2. d \in mine /\ d.resource \in ResourceId /\ d.resource \in resources_list
      BY <1>4, <3>1 DEF Descriptor
    <3>3. [owner |-> last_pid, fd |-> d.fd] \in EntriesOf(last_pid, Own(d.resource))
      BY <1>7, <3>2 DEF EntriesOf
    <3>4. [owner |-> last_pid, fd |-> d.fd] \in descriptors_ptrs'[d.resource]
      BY <1>8, <3>2, <3>3
    <3> QED BY <1>4, <3>1, <3>2, <3>4 DEF DistinctFds
  <2> QED BY <2>1, <2>2
<1>17. OwnersKnown'
  <2> SUFFICES ASSUME NEW id \in ResourceId, NEW e \in descriptors_ptrs'[id]
               PROVE  e.owner < last_pid + 1
    BY <1>1 DEF OwnersKnown
  <2>1. CASE e \in descriptors_ptrs[id]
    BY <1>3, <1>4, <2>1 DEF OwnersKnown, VariableTypes, Entry
  <2>2. CASE e \in EntriesOf(last_pid, Own(id))
    <3>1. e.owner = last_pid
      BY <2>2 DEF EntriesOf
    <3> QED BY <1>4, <3>1
  <2> QED BY <1>8, <2>1, <2>2
<1>18. FdsBelow'
  <2> SUFFICES ASSUME NEW q \in Allocated' \ forked', NEW id \in ResourceId,
                      NEW e \in descriptors_ptrs'[id], e.owner = pid'[q]
               PROVE  e.fd < last_fd'[q]
    BY DEF FdsBelow
  <2>1. q \in Allocated \ forked /\ pid'[q] = pid[q] /\ last_fd'[q] = last_fd[q]
    BY <1>1, <1>2, <1>3, <1>4 DEF VariableTypes
  <2>2. e \notin EntriesOf(last_pid, Own(id))
    BY <1>4, <2>1 DEF EntriesOf
  <2>3. e \in descriptors_ptrs[id]
    BY <1>8, <2>2
  <2> QED BY <1>3, <2>1, <2>3 DEF FdsBelow
<1> QED BY <1>12, <1>13, <1>14, <1>15, <1>16, <1>17, <1>18 DEF ResourceInv

\* exit, when it wakes the parent, closes what the process has open.
LEMMA ExitReleasesInv ==
  ASSUME ProcessInv, ResourceInv, NEW value, ExitWakesParent(value), DescriptorsReleased
  PROVE  ResourceInv'
<1> DEFINE mine == descriptors[running]
           gone == { id \in ResourceId : Emptied(id) }
<1>1. /\ Allocated' = Allocated \ {running}
      /\ UNCHANGED << pid, last_pid, forked >>
  BY DEF ExitWakesParent, PCB_free, Allocated
<1>2. /\ descriptors' = [descriptors EXCEPT ![running] = {}]
      /\ descriptors_ptrs' = [id \in ResourceId |->
           { e \in descriptors_ptrs[id] : ~ \E d \in Own(id) : e = OpenedAs(d.fd) }]
      /\ ref_count' = [id \in ResourceId |-> ref_count[id] - Cardinality(Own(id))]
      /\ resources_list' = resources_list \ gone
      /\ free_resources' = free_resources + Cardinality(gone)
      /\ free_descriptors' = free_descriptors + Opened
      /\ free_descriptor_ptrs' = free_descriptor_ptrs + Opened
      /\ UNCHANGED << type, last_fd >>
  BY DEF DescriptorsReleased
<1>3. /\ VariableTypes /\ ListsFinite
      /\ RefCountsMatch /\ NothingDangles /\ BlocksAccounted /\ OwnersKnown /\ FdsBelow
  BY DEF ResourceInv
<1>4. /\ running \in Allocated /\ running \in Proc /\ Allocated \subseteq Proc
      /\ \A q \in Allocated \ {running} : pid[q] # pid[running]
      /\ mine \subseteq Descriptor /\ IsFiniteSet(mine) /\ DistinctFds(mine)
      /\ \A d \in mine : /\ d.resource \in resources_list
                         /\ OpenedAs(d.fd) \in descriptors_ptrs[d.resource]
  BY RunningHas
<1>5. Opened = Cardinality(mine) /\ Opened \in Nat
  BY <1>4, FS_CardinalityType DEF Opened
<1>6. \A id \in ResourceId : Own(id) = { d \in mine : d.resource = id }
  BY DEF Own
<1>7. \A id \in ResourceId :
        /\ descriptors_ptrs'[id] = descriptors_ptrs[id] \ EntriesOf(pid[running], Own(id))
        /\ ref_count'[id] = ref_count[id] - Cardinality(Own(id))
  <2>1. \A id \in ResourceId : \A e :
          e \in EntriesOf(pid[running], Own(id)) <=> \E d \in Own(id) : e = OpenedAs(d.fd)
    BY DEF EntriesOf, OpenedAs
  <2> QED BY <1>2, <2>1
<1>8. /\ OpenEntries' = OpenEntries \ PairsOf(pid[running], mine)
      /\ PairsOf(pid[running], mine) \subseteq OpenEntries
  <2>1. AllLess(descriptors_ptrs, descriptors_ptrs', pid[running], mine)
    BY <1>6, <1>7 DEF AllLess
  <2>2. ASSUME NEW x \in PairsOf(pid[running], mine)
        PROVE  x \in OpenOf(descriptors_ptrs)
    <3>1. PICK d \in mine : x = << d.resource, OpenedAs(d.fd) >>
      BY <2>2 DEF PairsOf, OpenedAs
    <3>2. d.resource \in ResourceId
      BY <1>4 DEF Descriptor
    <3> QED BY <1>4, <3>1, <3>2, InOpen
  <2> HIDE DEF mine
  <2>3. OpenOf(descriptors_ptrs') = OpenOf(descriptors_ptrs) \ PairsOf(pid[running], mine)
    BY <1>4, <2>1, OpenLessAll
  <2> QED BY <2>2, <2>3, OpenIs
<1>9. /\ IsFiniteSet(OpenEntries')
      /\ Cardinality(OpenEntries') + Opened = Cardinality(OpenEntries)
      /\ Cardinality(OpenEntries') \in Nat
  <2> HIDE DEF mine
  <2>1. Cardinality(PairsOf(pid[running], mine)) = Opened
    BY <1>4, <1>5, PairsCounted
  <2> QED BY <1>3, <1>8, <2>1, PartRemoved DEF ListsFinite
<1>10. ASSUME NEW id \in ResourceId
       PROVE  /\ IsFiniteSet(descriptors_ptrs'[id])
              /\ ref_count'[id] = Cardinality(descriptors_ptrs'[id])
              /\ ref_count'[id] \in Nat
              /\ id \notin resources_list' => ref_count'[id] = 0
              /\ id \in gone => descriptors_ptrs[id] = EntriesOf(pid[running], Own(id))
              /\ id \in gone => id \in resources_list
  <2> DEFINE old == EntriesOf(pid[running], Own(id))
  <2>1. /\ IsFiniteSet(Own(id)) /\ DistinctFds(Own(id)) /\ Cardinality(Own(id)) \in Nat
        /\ old \subseteq descriptors_ptrs[id]
    BY OwnEntries
  <2>2. IsFiniteSet(old) /\ Cardinality(old) = Cardinality(Own(id))
    BY <2>1, EntriesCounted
  <2>3. /\ IsFiniteSet(descriptors_ptrs[id])
        /\ ref_count[id] = Cardinality(descriptors_ptrs[id]) /\ ref_count[id] \in Nat
        /\ id \notin resources_list => ref_count[id] = 0
    BY <1>3 DEF ListsFinite, RefCountsMatch, VariableTypes
  <2>4. /\ descriptors_ptrs'[id] = descriptors_ptrs[id] \ old
        /\ ref_count'[id] = ref_count[id] - Cardinality(Own(id))
    BY <1>7
  <2>5. id \in gone <=> Own(id) # {} /\ ref_count[id] = Cardinality(Own(id))
    BY DEF Emptied
  <2>6. Own(id) # {} => id \in resources_list
    BY <1>4, <1>6
  <2>7. resources_list' = resources_list \ gone
    BY <1>2
  <2> HIDE DEF old, gone
  <2>8. /\ IsFiniteSet(descriptors_ptrs[id] \ old)
        /\ Cardinality(descriptors_ptrs[id] \ old) + Cardinality(old) = ref_count[id]
        /\ Cardinality(descriptors_ptrs[id] \ old) \in Nat
    BY <2>1, <2>3, PartRemoved
  <2>9. ref_count'[id] = Cardinality(descriptors_ptrs'[id]) /\ ref_count'[id] \in Nat
    BY <2>1, <2>2, <2>3, <2>4, <2>8
  <2>10. id \in gone => descriptors_ptrs[id] = old
    BY <2>1, <2>2, <2>3, <2>5, FS_Subset
  <2>11. id \notin resources_list' => ref_count'[id] = 0
    <3>1. CASE id \in gone
      BY <2>1, <2>4, <2>5, <3>1
    <3>2. CASE id \notin resources_list
      BY <2>1, <2>3, <2>9, <2>4, <3>2
    <3> QED BY <2>7, <3>1, <3>2
  <2>12. id \in gone => id \in resources_list
    BY <2>5, <2>6
  <2> QED BY <2>4, <2>8, <2>9, <2>10, <2>11, <2>12 DEF old
<1>11. /\ gone \subseteq resources_list
       /\ Cardinality(gone) \in Nat /\ Cardinality(resources_list') \in Nat
       /\ Cardinality(resources_list') + Cardinality(gone) = Cardinality(resources_list)
  <2>1. IsFiniteSet(resources_list)
    BY <1>3, ResourceAssumption, FS_Subset DEF VariableTypes
  <2>2. gone \subseteq resources_list /\ resources_list' = resources_list \ gone
    BY <1>2, <1>10
  <2> HIDE DEF gone
  <2> QED BY <2>1, <2>2, PartRemoved
<1>12. VariableTypes'
  <2>1. ref_count' \in [ResourceId -> Nat]
    BY <1>2, <1>10
  <2>2. descriptors_ptrs' \in [ResourceId -> SUBSET Entry]
    BY <1>2, <1>3 DEF VariableTypes
  <2>3. descriptors' \in [Proc -> SUBSET Descriptor]
    BY <1>2, <1>3 DEF VariableTypes
  <2>4. resources_list' \subseteq ResourceId
    BY <1>2, <1>3 DEF VariableTypes
  <2> HIDE DEF gone, mine
  <2> QED BY <1>2, <1>3, <1>5, <1>11, <2>1, <2>2, <2>3, <2>4 DEF VariableTypes
<1>13. ListsFinite'
  <2>1. \A q \in Proc : IsFiniteSet(descriptors'[q])
    BY <1>2, <1>3, FS_EmptySet DEF ListsFinite, VariableTypes
  <2> QED BY <1>9, <1>10, <2>1 DEF ListsFinite
<1>14. RefCountsMatch'
  BY <1>10 DEF RefCountsMatch
<1>15. BlocksAccounted'
  <2> HIDE DEF gone, mine
  <2> QED BY <1>2, <1>3, <1>5, <1>9, <1>11 DEF BlocksAccounted, VariableTypes
<1>16. NothingDangles'
  <2> SUFFICES ASSUME NEW q \in Allocated \ {running}, NEW d \in descriptors[q]
               PROVE  /\ d.resource \in resources_list'
                      /\ [owner |-> pid[q], fd |-> d.fd] \in descriptors_ptrs'[d.resource]
                      /\ \A e \in descriptors[q] : e.fd = d.fd => e = d
    <3>1. \A q \in Allocated \ {running} : descriptors'[q] = descriptors[q]
      BY <1>2, <1>3, <1>4 DEF VariableTypes
    <3> QED BY <1>1, <3>1 DEF NothingDangles
  <2> DEFINE i == d.resource
             e == [owner |-> pid[q], fd |-> d.fd]
  <2>1. /\ i \in resources_list /\ i \in ResourceId
        /\ e \in descriptors_ptrs[i]
        /\ \A c \in descriptors[q] : c.fd = d.fd => c = d
    BY <1>3 DEF NothingDangles, VariableTypes
  <2>2. e \notin EntriesOf(pid[running], Own(i))
    BY <1>4 DEF EntriesOf
  <2>3. i \notin gone
    BY <1>10, <2>1, <2>2
  <2> HIDE DEF e, i, gone
  <2>4. i \in resources_list' /\ e \in descriptors_ptrs'[i]
    BY <1>2, <1>7, <2>1, <2>2, <2>3
  <2> QED BY <2>1, <2>4 DEF e, i
<1>17. OwnersKnown' /\ FdsBelow'
  <2>1. \A id \in ResourceId : descriptors_ptrs'[id] \subseteq descriptors_ptrs[id]
    BY <1>7
  <2> QED BY <1>1, <1>2, <1>3, <2>1 DEF OwnersKnown, FdsBelow
<1> QED BY <1>12, <1>13, <1>14, <1>15, <1>16, <1>17 DEF ResourceInv

-----------------------------------------------------------------------------
\* A call on resources is no step of the processes but an answer to one, and
\* fork has an assertion more; every other step is one of module Process.
LEMMA ResourceStep ==
  ASSUME ProcessInv, ResourceInv, ResourceNext
  PROVE  \/ [ProcessNext]_AllVars
         \/ \E v \in Int : Answers(v)
         \/ Fails(NoDescriptor)
<1>1. failure = None
  BY DEF ResourceNext
<1>2. CASE ForkedRuns
  BY <1>1, <1>2 DEF ProcessNext
<1>3. CASE running \notin forked /\ (Scheduling \/ ProcessCall)
  BY <1>1, <1>3 DEF ProcessNext
<1>4. CASE running \notin forked /\ Scheduling
  BY <1>3, <1>4
<1>5. CASE running \notin forked /\ Spawning
  BY <1>3, <1>5 DEF Spawning, ProcessCall, internal_spawn
<1>6. CASE running \notin forked /\ Forking
  BY <1>3, <1>6 DEF Forking, CopyAborts, ProcessCall, internal_fork
<1>7. CASE running \notin forked /\ Waits
  BY <1>3, <1>7 DEF Waits, ProcessCall
<1>8. CASE running \notin forked /\ Exiting
  BY <1>3, <1>8 DEF Exiting, ProcessCall, internal_exit
<1>9. CASE ResourceCall
  <2>1. running \in Proc /\ last_fd[running] \in Int
    BY RunningHas DEF ResourceInv, VariableTypes
  <2>2. CASE internal_openResource
    BY <2>1, <2>2 DEF internal_openResource, CreateFails, OpenNothing, OpenNotExclusive,
       OpenWithoutDescriptor, OpenSucceeds, NextFd, DSOS_ERESOURCECREATE,
       DSOS_ERESOURCEOPEN, DSOS_ERESOURCENOEXCL, DSOS_ERESOURCENOFD
  <2>3. CASE internal_closeResource
    BY <2>3 DEF internal_closeResource, CloseRejected, CloseSucceeds, DSOS_ERESOURCECLOSE
  <2>4. CASE internal_destroyResource
    BY <2>4 DEF internal_destroyResource, DestroyRejected, DestroySucceeds,
       DSOS_ERESOURCECLOSE, DSOS_ERESOURCEINUSE
  <2> QED BY <1>9, <2>2, <2>3, <2>4 DEF ResourceCall
<1> QED BY <1>2, <1>4, <1>5, <1>6, <1>7, <1>8, <1>9 DEF ResourceNext, Continues

LEMMA ProcessKeeps ==
  ASSUME ProcessInv, ResourceInv, ResourceNext
  PROVE  ProcessInv'
<1>1. ASSUME NEW v \in Int, Answers(v) PROVE ProcessInv'
  BY <1>1, ReturnInv DEF Answers, CalledOther, NotInWait
<1>2. CASE Fails(NoDescriptor)
  BY <1>2, FailsInv DEF Failures
<1> QED BY <1>1, <1>2, ResourceStep, ProcessNextInv

\* Steps that leave resources alone take no process into use, but may end one.
LEMMA IdleStepInv ==
  ASSUME ProcessInv, ResourceInv, UNCHANGED ResourceVars,
         \/ ForkedRuns \/ Scheduling \/ SpawnFails \/ SpawnAborts \/ CopyAborts
         \/ internal_wait \/ ExitLeavesZombie(pid[running]) \/ ExitAborts \/ InitExits
  PROVE  ResourceInv'
<1>1. pid \in [Proc -> Nat] /\ last_pid \in Nat
  BY RunningHas
<1>2. ASSUME free_pcbs \subseteq free_pcbs', UNCHANGED << pid, last_pid, forked >>
      PROVE  ResourceInv'
  <2>1. Allocated' \subseteq Allocated
    BY <1>2 DEF Allocated
  <2> QED BY <1>1, <1>2, <2>1, ResourcesKept
<1>3. ASSUME NEW reason, Fails(reason) PROVE ResourceInv'
  BY <1>2, <1>3 DEF Fails
<1>4. CASE ForkedRuns \/ SpawnAborts \/ CopyAborts \/ ExitAborts \/ InitExits
  BY <1>3, <1>4 DEF ForkedRuns, SpawnAborts, CopyAborts, ExitAborts, InitExits
<1>5. CASE Scheduling
  BY <1>2, <1>3, <1>5 DEF Scheduling, ProcessTick, TickFrame, CallFrame, TreeFrame
<1>6. CASE SpawnFails \/ ExitLeavesZombie(pid[running])
  BY <1>2, <1>6 DEF SpawnFails, ExitLeavesZombie
<1>7. CASE internal_wait
  BY <1>2, <1>3, <1>7 DEF internal_wait, WaitRejected, WaitReaps, WaitReapsSleeper, WaitBlocks,
                          WaitAborts, PCB_free
<1> QED BY <1>4, <1>5, <1>6, <1>7

\* Every call keeps the invariant.
LEMMA ResourceNextInv ==
  ASSUME ProcessInv, ResourceInv, ResourceNext
  PROVE  ResourceInv'
<1>1. pid \in [Proc -> Nat] /\ last_pid \in Nat
  BY RunningHas
<1>2. CASE ForkedRuns /\ UNCHANGED ResourceVars
  BY <1>2, IdleStepInv
<1>3. CASE running \notin forked /\ internal_openResource
  <2>1. PICK id \in ResourceId, mode \in OpenModes, t \in ResourceType :
          \/ CreateFails(id, mode) \/ OpenNothing(id, t, mode)
          \/ OpenNotExclusive(id, t, mode) \/ OpenWithoutDescriptor(id, t, mode)
          \/ OpenSucceeds(id, t, mode)
    BY <1>3 DEF internal_openResource
  <2>2. ASSUME NEW v, Answers(v), UNCHANGED ResourceVars PROVE ResourceInv'
    BY <1>1, <2>2, AnswersKept, ResourcesKept
  <2>3. CASE CreateFails(id, mode) \/ OpenNothing(id, t, mode)
             \/ OpenNotExclusive(id, t, mode)
    BY <2>2, <2>3 DEF CreateFails, OpenNothing, OpenNotExclusive
  <2> QED BY <1>3, <2>1, <2>3, OpenWithoutInv, OpenSucceedsInv
<1>4. CASE internal_closeResource
  <2>1. PICK fd \in 0 .. MaxFd :
          CloseRejected(fd) \/ \E d \in DescriptorList_byFd(fd) : CloseSucceeds(d)
    BY <1>4 DEF internal_closeResource
  <2>2. CASE CloseRejected(fd)
    BY <1>1, <2>2, AnswersKept, ResourcesKept DEF CloseRejected
  <2> QED BY <2>1, <2>2, CloseSucceedsInv
<1>5. CASE internal_destroyResource
  <2>1. PICK id \in ResourceId : DestroyRejected(id) \/ DestroySucceeds(id)
    BY <1>5 DEF internal_destroyResource
  <2>2. CASE DestroyRejected(id)
    BY <1>1, <2>2, AnswersKept, ResourcesKept DEF DestroyRejected
  <2> QED BY <2>1, <2>2, DestroySucceedsInv
<1>6. CASE Spawning
  BY <1>6, IdleStepInv, SpawnInv DEF Spawning
<1>7. CASE Forking
  BY <1>7, IdleStepInv, ForkInv DEF Forking
<1>8. CASE Waits
  BY <1>8, IdleStepInv DEF Waits
<1>9. CASE Exiting
  BY <1>9, IdleStepInv, ExitReleasesInv DEF Exiting
<1>10. CASE Scheduling /\ UNCHANGED ResourceVars
  BY <1>10, IdleStepInv
<1> QED
  BY <1>2, <1>3, <1>4, <1>5, <1>6, <1>7, <1>8, <1>9, <1>10
  DEF ResourceNext, Continues, ResourceCall

\* At boot there is no resource, and nobody has anything open.
LEMMA ResourceInitInv ==
  ASSUME ResourceInit
  PROVE  ProcessInv /\ ResourceInv
<1>1. ProcessInv
  BY ProcessInitInv DEF ResourceInit
<1>2. /\ resources_list = {}
      /\ type = [id \in ResourceId |-> CHOOSE t \in ResourceType : TRUE]
      /\ ref_count = [id \in ResourceId |-> 0]
      /\ descriptors_ptrs = [id \in ResourceId |-> {}]
      /\ descriptors = [p \in Proc |-> {}]
      /\ last_fd = [p \in Proc |-> 0]
      /\ free_resources = MAX_NUM_RESOURCES
      /\ free_descriptors = MAX_NUM_DESCRIPTORS
      /\ free_descriptor_ptrs = MAX_NUM_DESCRIPTORS
  BY DEF ResourceInit
<1>3. (CHOOSE t \in ResourceType : TRUE) \in ResourceType
  BY ResourceAssumption
<1>4. VariableTypes
  BY <1>2, <1>3, ResourceAssumption DEF VariableTypes
<1>5. OpenEntries = {}
  BY <1>2 DEF OpenEntries
<1>6. ListsFinite
  BY <1>2, <1>5, FS_EmptySet DEF ListsFinite
<1>7. RefCountsMatch /\ BlocksAccounted
  BY <1>2, <1>5, FS_EmptySet, ResourceAssumption DEF RefCountsMatch, BlocksAccounted
<1>8. NothingDangles /\ OwnersKnown /\ FdsBelow
  BY <1>1, <1>2, RunningLives DEF NothingDangles, OwnersKnown, FdsBelow
<1> QED BY <1>1, <1>4, <1>6, <1>7, <1>8 DEF ResourceInv

(***************************************************************************)
(* Resources and descriptors fit together for any number of processes,     *)
(* resources, descriptors and ids, however processes are spawned, forked   *)
(* and ended in between.                                                   *)
(***************************************************************************)
THEOREM ResourceInvariant == ResourceSpec => [](ProcessInv /\ ResourceInv)
<1>1. ResourceInit => ProcessInv /\ ResourceInv
  BY ResourceInitInv
<1>2. ProcessInv /\ ResourceInv /\ [ResourceNext]_<< AllVars, ResourceVars >>
        => ProcessInv' /\ ResourceInv'
  <2> SUFFICES ASSUME ProcessInv, ResourceInv,
                      [ResourceNext]_<< AllVars, ResourceVars >>
               PROVE  ProcessInv' /\ ResourceInv'
    OBVIOUS
  <2>1. CASE ResourceNext
    BY <2>1, ProcessKeeps, ResourceNextInv
  <2>2. CASE UNCHANGED << AllVars, ResourceVars >>
    <3>1. ProcessInv'
      BY <2>2, ProcessNextInv
    <3>2. UNCHANGED << pid, last_pid, forked, free_pcbs >> /\ UNCHANGED ResourceVars
      BY <2>2 DEF AllVars, ProcessVars
    <3> QED BY <3>1, <3>2, RunningHas, ResourcesKept DEF Allocated
  <2> QED BY <2>1, <2>2
<1> QED BY <1>1, <1>2, PTL DEF ResourceSpec

\* Every variable always has its type, and no pool has more blocks than it had.
THEOREM ResourceTypes == ResourceSpec => []ResourceTypeOK
<1>1. ResourceInv => ResourceTypeOK
  <2> SUFFICES ASSUME ResourceInv PROVE ResourceTypeOK
    OBVIOUS
  <2>1. VariableTypes /\ ListsFinite /\ BlocksAccounted
    BY DEF ResourceInv
  <2>2. Cardinality(OpenEntries) \in Nat /\ Cardinality(resources_list) \in Nat
    BY <2>1, ResourceAssumption, FS_Subset, FS_CardinalityType
    DEF VariableTypes, ListsFinite
  <2>3. /\ free_resources \in 0 .. MAX_NUM_RESOURCES
        /\ free_descriptors \in 0 .. MAX_NUM_DESCRIPTORS
        /\ free_descriptor_ptrs \in 0 .. MAX_NUM_DESCRIPTORS
    BY <2>1, <2>2, ResourceAssumption DEF VariableTypes, BlocksAccounted
  <2> QED BY <2>1, <2>3 DEF VariableTypes, ResourceTypeOK, Entry, Descriptor
<1> QED BY <1>1, ResourceInvariant, PTL

(***************************************************************************)
(* The reference counter of a resource is always the length of its list:   *)
(* open and fork raise it, close and exit lower it by as much as they take *)
(* out, so that DSOS_EINUSE (disastrOS_destroy_resource.c:22) is the truth.*)
(***************************************************************************)
THEOREM CountersAreRight == ResourceSpec => []RefCountsMatch
<1>1. ResourceInv => RefCountsMatch
  BY DEF ResourceInv
<1> QED BY <1>1, ResourceInvariant, PTL

(***************************************************************************)
(* A descriptor of a process in use always has its resource, and is known  *)
(* there: neither destroyResource nor the end of another process, which    *)
(* frees the resources that it was the last to use, takes it away.         *)
(***************************************************************************)
THEOREM DescriptorsAreGood == ResourceSpec => []NothingDangles
<1>1. ResourceInv => NothingDangles
  BY DEF ResourceInv
<1> QED BY <1>1, ResourceInvariant, PTL

(***************************************************************************)
(* What is not in a list is in its pool: the calls and the end of a        *)
(* process neither lose nor double a block.                                *)
(***************************************************************************)
THEOREM BlocksComeBack == ResourceSpec => []BlocksAccounted
<1>1. ResourceInv => BlocksAccounted
  BY DEF ResourceInv
<1> QED BY <1>1, ResourceInvariant, PTL

(***************************************************************************)
(* Resources change nothing about who runs: one process that only computes *)
(* is enough for every call to find its successor.                         *)
(***************************************************************************)
THEOREM ComputingIsEnoughWithResources ==
  ASSUME Proc \ Callers # {}
  PROVE  ResourceSpec => []SomebodyTakesOver
<1>1. ResourceInit => TakenOver
  BY InitTakenOver DEF ResourceInit
<1>2. ProcessInv /\ ResourceInv /\ TakenOver /\ [ResourceNext]_<< AllVars, ResourceVars >>
        => TakenOver'
  <2> SUFFICES ASSUME ProcessInv, ResourceInv, TakenOver,
                      [ResourceNext]_<< AllVars, ResourceVars >>
               PROVE  TakenOver'
    OBVIOUS
  <2>1. CASE [ProcessNext]_AllVars
    BY <2>1, NextTakenOver
  <2>2. CASE ResourceNext /\ \E v \in Int : Answers(v)
    <3>1. /\ UNCHANGED << running, status, waiting_list, timer_list, failure >>
          /\ last_wait' = [last_wait EXCEPT ![running] = NotInWait]
      BY <2>2 DEF Answers, CalledOther, Called
    <3>2. /\ running \notin Range(Owners(timer_list))
          /\ \A p : p # running => last_wait'[p] = last_wait[p]
      <4>1. last_wait \in [Proc -> Int]
        BY DEF ProcessInv, ProcessTypeOK
      <4> QED BY <3>1, <4>1, TimersListed
    <3>3. TimersAsleep'
      BY <3>1, <3>2 DEF TakenOver, TimersAsleep
    <3> QED BY <2>2, <3>1, <3>3, ProcessKeeps DEF TakenOver, ComputesOn, SomebodyTakesOver
  <2>3. CASE ResourceNext /\ Fails(NoDescriptor)
    <3>1. /\ UNCHANGED << running, status, waiting_list, timer_list, last_wait >>
          /\ failure' = NoDescriptor
      BY <2>3 DEF Fails, SchedulerVars
    <3> QED BY <2>3, <3>1, ProcessKeeps
            DEF TakenOver, ComputesOn, TimersAsleep, SomebodyTakesOver, NoDescriptor,
                NoNextProcess, LinkedTwice, NotListed, DanglingTimer
  <2>4. CASE UNCHANGED << AllVars, ResourceVars >>
    BY <2>1, <2>4
  <2> QED BY <2>1, <2>2, <2>3, <2>4, ResourceStep
<1>3. TakenOver => SomebodyTakesOver
  BY DEF TakenOver
<1> QED BY <1>1, <1>2, <1>3, ResourceInvariant, PTL DEF ResourceSpec

(***************************************************************************)
(* Nor about the tree of processes: with the descriptors that fork copies  *)
(* and exit closes, the calls still are what ProcessTree promises.         *)
(***************************************************************************)
THEOREM ResourcesLeaveTree ==
  ASSUME Cardinality(Proc \ Callers) <= MaxPid
  PROVE  ResourceSpec => ImplementsProcessTree
<1>1. ResourceInit => MappedInv /\ Tree!TreeInit
  BY TreeStart DEF ResourceInit
<1>2. ProcessInv /\ ResourceInv /\ MappedInv /\ [ResourceNext]_<< AllVars, ResourceVars >>
        => MappedInv' /\ [Tree!TreeNext]_(Tree!treeVars)
  <2> SUFFICES ASSUME ProcessInv, ResourceInv, MappedInv,
                      [ResourceNext]_<< AllVars, ResourceVars >>
               PROVE  MappedInv' /\ [Tree!TreeNext]_(Tree!treeVars)
    OBVIOUS
  <2>1. CASE [ProcessNext]_AllVars
    BY <2>1, TreeStep
  <2>2. CASE ResourceNext /\ \E v \in Int : Answers(v)
    <3>1. /\ wait_result' = [wait_result EXCEPT ![running] = NoResult]
          /\ UNCHANGED << pid, children, return_value, zombie_list, free_pcbs, last_pid >>
      BY <2>2 DEF Answers, Result
    <3>2. ProcessInv'
      BY <2>2, ProcessKeeps
    <3> QED BY <3>1, <3>2, IdleStep DEF MappedInv
  <2>3. CASE ResourceNext /\ Fails(NoDescriptor)
    <3>1. UNCHANGED << SchedulerVars, pid, children, return_value, wait_result,
                       zombie_list, free_pcbs, last_pid >>
      BY <2>3 DEF Fails
    <3>2. ProcessInv'
      BY <2>3, ProcessKeeps
    <3> QED BY <3>1, <3>2, StoppedStep DEF MappedInv
  <2>4. CASE UNCHANGED << AllVars, ResourceVars >>
    BY <2>1, <2>4
  <2> QED BY <2>1, <2>2, <2>3, <2>4, ResourceStep
<1> QED BY <1>1, <1>2, ResourceInvariant, PTL
        DEF ResourceSpec, ImplementsProcessTree, Tree!TreeSpec

=============================================================================
