--------------------------- MODULE Process_proofs ---------------------------
(***************************************************************************)
(* Proofs about Process, for any number of PCBs, PCBPtrs and pids and any  *)
(* arguments of sleep and wait.                                            *)
(*                                                                         *)
(* ProcessInv is inductive.  It says more than the invariants that follow  *)
(* from it: whom an exit may wake and whom it sees asleep, that pids are   *)
(* unique, that the lists of children are a forest in which every PCB in   *)
(* use but init's is exactly once, and that no PCBPtr is counted twice.    *)
(***************************************************************************)
EXTENDS Process, Scheduler_proofs

\* The statuses of a process that has been spawned and has not ended.
Living(p) == status[p] \in ProcessStatus

(***************************************************************************)
(* The lists describe the status fields.  Who waits on the processor has a *)
(* timer, but not everybody who waits has one, nor does everybody who has  *)
(* one wait.  Others may wait in lists that this module does not know of,  *)
(* WaitsElsewhere; their last call was not wait.                           *)
(***************************************************************************)
WaitsElsewhere == { p \in Proc : status[p] = Waiting } \ waiting_list

ListsInv ==
  /\ ReadyListMatches
  /\ RunningMatches
  /\ \A p \in waiting_list : status[p] = Waiting
  /\ zombie_list = { p \in Allocated : status[p] = Zombie }
  /\ \A p \in Proc : p \in free_pcbs => ~Living(p)
  /\ \A p \in Allocated : status[p] # Created
  /\ Sorted(timer_list)
  /\ IsInjective(Owners(timer_list))
  /\ NoOverdueTimer
  /\ running \in waiting_list => running \in Range(Owners(timer_list))
  /\ \A p \in Proc : status[p] = Waiting /\ last_wait[p] # NotInWait => p \in waiting_list

\* Pids are unique, and every process but init has had a parent.
PidsInv ==
  /\ init_pcb \in Allocated /\ Living(init_pcb)
  /\ \A p \in Allocated : pid[p] < last_pid
  /\ \A p, q \in Allocated : pid[p] = pid[q] => p = q
  /\ \A p \in Allocated \ {init_pcb} : parent[p] \in Proc \ {p}

\* Each element of A is once in exactly one of the lists cs.
Forest(cs, A) ==
  /\ cs \in [Proc -> Seq(Proc)]
  /\ \A p \in Proc : IsInjective(cs[p]) /\ Range(cs[p]) \subseteq A
  /\ \A p, q \in Proc : p # q => Range(cs[p]) \cap Range(cs[q]) = {}
  /\ \A c \in A : \E p \in Proc : c \in Range(cs[p])

\* What spawn, wait and exit make of the lists of children.
Added(cs, q, c)   == [cs EXCEPT ![q] = Append(@, c), ![c] = << >>]
Removed(cs, q, i) == [cs EXCEPT ![q] = RemoveAt(@, i)]
Moved(cs, q, r)   == [cs EXCEPT ![q] = @ \o cs[r], ![r] = << >>]

TreeInv ==
  /\ Forest(children, Allocated \ {init_pcb})
  /\ \A p \in Proc : ~Living(p) => children[p] = << >>

\* ParentOrInit and NoMissedExit, for all PCBs.
ParentInv ==
  \A p \in Proc : \A c \in Range(children[p]) :
    parent[c] = p \/ (p = init_pcb /\ SIGHUP \in signals[c])

WaitInv ==
  \A p \in Proc : \A c \in Range(children[p]) :
    /\ parent[c] = p /\ status[c] = Zombie
    /\ status[p] = Waiting /\ p \notin Range(Owners(timer_list))
    => last_wait[p] \notin {AnyChild, pid[c]}

\* Each process but init has taken a PCBPtr.
PtrsInv == free_ptrs + Cardinality(Allocated) <= PCBPtrs + 1

ProcessInv ==
  ProcessTypeOK /\ ListsInv /\ PidsInv /\ TreeInv /\ ParentInv /\ WaitInv /\ PtrsInv

\* Whoever waits after a step without a timer has done so before, or his last
\* call was not wait.
WaitsAsBefore ==
  \A p \in Proc : status'[p] = Waiting /\ p \notin Range(Owners(timer_list')) =>
    \/ last_wait'[p] = NotInWait
    \/ /\ status[p] = Waiting /\ p \notin Range(Owners(timer_list))
       /\ last_wait'[p] = last_wait[p]

-----------------------------------------------------------------------------
\* Who has a timer is an owner of one.
LEMMA TimerOwned ==
  ASSUME NEW p
  PROVE  HasTimer(p) <=> p \in Range(Owners(timer_list))
BY DEF HasTimer, Owners, Range

\* The items that List_detach of the i-th leaves, in their order.
LEMMA RemoveAtItems ==
  ASSUME NEW S, NEW s \in Seq(S), NEW i \in 1 .. Len(s)
  PROVE  /\ RemoveAt(s, i) \in Seq(S) /\ Len(RemoveAt(s, i)) = Len(s) - 1
         /\ \A j \in 1 .. Len(s) - 1 :
              RemoveAt(s, i)[j] = IF j < i THEN s[j] ELSE s[j + 1]
<1> DEFINE a == SubSeq(s, 1, i - 1)
           c == SubSeq(s, i + 1, Len(s))
<1>1. Len(s) \in Nat /\ i \in 0 .. Len(s) /\ i - 1 \in 0 .. Len(s)
  BY LenProperties
<1>2. a \in Seq(S) /\ Len(a) = i - 1 /\ \A j \in 1 .. i - 1 : a[j] = s[j]
  BY <1>1, SplitAt
<1>3. /\ c \in Seq(S) /\ Len(c) = Len(s) - i
      /\ \A j \in 1 .. Len(s) - i : c[j] = s[i + j]
  BY <1>1, SplitAt
<1>4. RemoveAt(s, i) = a \o c
  BY DEF RemoveAt
<1> HIDE DEF a, c
<1>5. /\ a \o c \in Seq(S) /\ Len(a \o c) = (i - 1) + (Len(s) - i)
      /\ \A j \in 1 .. (i - 1) + (Len(s) - i) :
           (a \o c)[j] = IF j <= i - 1 THEN a[j] ELSE c[j - (i - 1)]
  <2>1. /\ a \o c \in Seq(S) /\ Len(a \o c) = Len(a) + Len(c)
        /\ \A j \in 1 .. Len(a) + Len(c) :
             (a \o c)[j] = IF j <= Len(a) THEN a[j] ELSE c[j - Len(a)]
    BY <1>2, <1>3, ConcatProperties
  <2> QED BY <1>2, <1>3, <2>1
<1>6. ASSUME NEW j \in 1 .. Len(s) - 1
      PROVE  (a \o c)[j] = IF j < i THEN s[j] ELSE s[j + 1]
  <2>1. CASE j < i
    <3>1. j \in 1 .. i - 1
      BY <1>1, <2>1
    <3> QED BY <1>1, <1>2, <1>5, <2>1, <3>1
  <2>2. CASE ~(j < i)
    <3>1. /\ j - (i - 1) \in 1 .. Len(s) - i /\ i + (j - (i - 1)) = j + 1
          /\ ~(j <= i - 1) /\ j \in 1 .. (i - 1) + (Len(s) - i)
      BY <1>1, <2>2
    <3>2. (a \o c)[j] = c[j - (i - 1)]
      BY <1>5, <3>1
    <3>3. c[j - (i - 1)] = s[i + (j - (i - 1))]
      BY <1>3, <3>1
    <3> QED BY <2>2, <3>1, <3>2, <3>3
  <2> QED BY <2>1, <2>2
<1> QED BY <1>1, <1>4, <1>5, <1>6

\* List_detach of the i-th element.
LEMMA RemoveAtList ==
  ASSUME NEW S, NEW s \in Seq(S), NEW i \in 1 .. Len(s), IsInjective(s)
  PROVE  /\ RemoveAt(s, i) \in Seq(S)
         /\ IsInjective(RemoveAt(s, i))
         /\ Range(RemoveAt(s, i)) = Range(s) \ {s[i]}
<1> DEFINE a == SubSeq(s, 1, i - 1)
           c == SubSeq(s, i + 1, Len(s))
<1>1. Len(s) \in Nat /\ DOMAIN s = 1 .. Len(s) /\ i \in 0 .. Len(s) /\ i - 1 \in 0 .. Len(s)
  BY LenProperties
<1>2. a \in Seq(S) /\ IsInjective(a) /\ Len(a) = i - 1 /\ \A j \in 1 .. i - 1 : a[j] = s[j]
  BY <1>1, SplitAt, SplitInjective
<1>3. /\ c \in Seq(S) /\ IsInjective(c) /\ Len(c) = Len(s) - i
      /\ \A j \in 1 .. Len(s) - i : c[j] = s[i + j]
  <2>1. /\ c \in Seq(S) /\ Len(c) = Len(s) - i
        /\ \A j \in 1 .. Len(s) - i : c[j] = s[i + j]
    <3>1. i \in 0 .. Len(s)
      BY <1>1
    <3> QED BY ONLY s \in Seq(S), <3>1, SplitAt
  <2>2. IsInjective(c)
    BY <1>1, SplitInjective
  <2> QED BY <2>1, <2>2
<1>4. RemoveAt(s, i) = a \o c
  BY DEF RemoveAt
<1> HIDE DEF a, c
<1>5. DOMAIN a = 1 .. i - 1 /\ DOMAIN c = 1 .. Len(s) - i
  BY <1>2, <1>3, LenProperties
<1>6. \A j, k \in 1 .. Len(s) : s[j] = s[k] => j = k
  BY <1>1 DEF IsInjective
<1>7. ASSUME NEW x PROVE x \in Range(a) \cup Range(c) <=> x \in Range(s) \ {s[i]}
  <2>1. ASSUME x \in Range(a) PROVE x \in Range(s) \ {s[i]}
    <3>1. PICK j \in 1 .. i - 1 : x = a[j]
      BY <1>5, <2>1 DEF Range
    <3>2. j \in 1 .. Len(s) /\ j # i /\ x = s[j]
      BY <1>1, <1>2, <3>1
    <3> QED BY <1>1, <1>6, <3>2 DEF Range
  <2>2. ASSUME x \in Range(c) PROVE x \in Range(s) \ {s[i]}
    <3>1. PICK j \in 1 .. Len(s) - i : x = c[j]
      BY <1>5, <2>2 DEF Range
    <3>2. i + j \in 1 .. Len(s) /\ i + j # i /\ x = s[i + j]
      BY <1>1, <1>3, <3>1
    <3> QED BY <1>1, <1>6, <3>2 DEF Range
  <2>3. ASSUME x \in Range(s) \ {s[i]} PROVE x \in Range(a) \cup Range(c)
    <3>1. PICK j \in 1 .. Len(s) : x = s[j] /\ j # i
      BY <1>1, <2>3 DEF Range
    <3>2. CASE j < i
      <4>1. j \in 1 .. i - 1
        BY <1>1, <3>2
      <4> QED BY <1>2, <1>5, <3>1, <4>1 DEF Range
    <3>3. CASE j > i
      <4>1. j - i \in 1 .. Len(s) - i /\ i + (j - i) = j
        BY <1>1, <3>3
      <4> QED BY <1>3, <1>5, <3>1, <4>1 DEF Range
    <3> QED BY <1>1, <3>1, <3>2, <3>3
  <2> QED BY <2>1, <2>2, <2>3
<1>8. Range(a) \cap Range(c) = {}
  <2> SUFFICES ASSUME NEW j \in 1 .. i - 1, NEW k \in 1 .. Len(s) - i, a[j] = c[k]
               PROVE  FALSE
    BY <1>5 DEF Range
  <2>1. j \in 1 .. Len(s) /\ i + k \in 1 .. Len(s) /\ j # i + k
    BY <1>1
  <2> QED BY <1>2, <1>3, <1>6, <2>1
<1>9. Range(a \o c) = Range(a) \cup Range(c)
  BY <1>2, <1>3, RangeConcatenation, ZenonT(30)
<1>10. a \o c \in Seq(S)
  BY <1>2, <1>3, ConcatProperties
<1>11. IsInjective(a \o c)
  BY <1>2, <1>3, <1>8, ConcatInjective
<1>12. Range(a) \cup Range(c) = Range(s) \ {s[i]}
  BY <1>7
<1> QED BY <1>4, <1>9, <1>10, <1>11, <1>12

\* The elements of a list are those of its indices.
LEMMA InRange ==
  ASSUME NEW S, NEW s \in Seq(S)
  PROVE  /\ DOMAIN s = 1 .. Len(s) /\ Len(s) \in Nat
         /\ \A x : x \in Range(s) <=> \E i \in 1 .. Len(s) : s[i] = x
         /\ Range(s) \subseteq S
         /\ Range(s) = {} => s = << >>
<1>1. DOMAIN s = 1 .. Len(s) /\ Len(s) \in Nat
  BY LenProperties
<1>2. \A i \in 1 .. Len(s) : s[i] \in S
  BY ElementOfSeq
<1>3. \A x : x \in Range(s) <=> \E i \in 1 .. Len(s) : s[i] = x
  BY <1>1 DEF Range
<1>4. ASSUME Range(s) = {} PROVE s = << >>
  <2>1. 1 \notin 1 .. Len(s)
    BY <1>3, <1>4
  <2>2. Len(s) = 0
    BY <1>1, <2>1
  <2> QED BY <2>2, EmptySeq
<1>5. Range(s) \subseteq S
  BY <1>2, <1>3
<1> QED BY <1>1, <1>3, <1>4, <1>5

-----------------------------------------------------------------------------
\* PCBPtr_alloc and List_insert: a new child at the end of the list of q.
LEMMA ForestAdd ==
  ASSUME NEW cs, NEW A \in SUBSET Proc, Forest(cs, A),
         NEW q \in Proc, NEW c \in Proc \ A, c # q, cs[c] = << >>
  PROVE  /\ Forest(Added(cs, q, c), A \cup {c})
         /\ Range(Added(cs, q, c)[q]) = Range(cs[q]) \cup {c}
         /\ \A p \in Proc : p # q => Added(cs, q, c)[p] = cs[p]
<1> DEFINE new == Added(cs, q, c)
           add == Append(cs[q], c)
<1>1. /\ cs \in [Proc -> Seq(Proc)]
      /\ \A p \in Proc : IsInjective(cs[p]) /\ Range(cs[p]) \subseteq A
      /\ \A p, r \in Proc : p # r => Range(cs[p]) \cap Range(cs[r]) = {}
      /\ \A x \in A : \E p \in Proc : x \in Range(cs[p])
  BY DEF Forest
<1>2. add \in Seq(Proc) /\ Range(add) = Range(cs[q]) \cup {c} /\ IsInjective(add)
  <2>1. cs[q] \in Seq(Proc) /\ IsInjective(cs[q]) /\ c \notin Range(cs[q])
    BY <1>1
  <2> QED BY <2>1, AppendInjectiveList
<1> HIDE DEF add
<1>3. new \in [Proc -> Seq(Proc)] /\ new[q] = add /\ \A p \in Proc : p # q => new[p] = cs[p]
  BY <1>1, <1>2 DEF add, Added
<1> HIDE DEF new
<1>4. \A p \in Proc : Range(new[p]) = IF p = q THEN Range(cs[q]) \cup {c} ELSE Range(cs[p])
  BY <1>2, <1>3
<1>5. \A p \in Proc : IsInjective(new[p]) /\ Range(new[p]) \subseteq A \cup {c}
  BY <1>1, <1>2, <1>3, <1>4
<1>6. \A p, r \in Proc : p # r => Range(new[p]) \cap Range(new[r]) = {}
  <2> SUFFICES ASSUME NEW p \in Proc, NEW r \in Proc, p # r,
                      NEW x \in Range(new[p]), x \in Range(new[r])
               PROVE  FALSE
    OBVIOUS
  <2>1. c \notin Range(cs[p]) /\ c \notin Range(cs[r])
    BY <1>1
  <2>2. x \notin Range(cs[p]) \/ x \notin Range(cs[r])
    BY <1>1
  <2> QED BY <1>4, <2>1, <2>2
<1>7. \A x \in A \cup {c} : \E p \in Proc : x \in Range(new[p])
  BY <1>1, <1>4
<1>8. Forest(new, A \cup {c})
  BY <1>3, <1>5, <1>6, <1>7 DEF Forest
<1> QED BY <1>3, <1>4, <1>8 DEF new

\* List_detach: the i-th child of q leaves the forest.
LEMMA ForestRemove ==
  ASSUME NEW cs, NEW A \in SUBSET Proc, Forest(cs, A),
         NEW q \in Proc, NEW i \in DOMAIN cs[q]
  PROVE  /\ Forest(Removed(cs, q, i), A \ {cs[q][i]})
         /\ cs[q][i] \in Range(cs[q])
         /\ \A p \in Proc : Range(Removed(cs, q, i)[p]) = Range(cs[p]) \ {cs[q][i]}
         /\ \A p \in Proc : p # q => Removed(cs, q, i)[p] = cs[p]
<1> DEFINE new == Removed(cs, q, i)
           rest == RemoveAt(cs[q], i)
           c == cs[q][i]
<1>1. /\ cs \in [Proc -> Seq(Proc)]
      /\ \A p \in Proc : IsInjective(cs[p]) /\ Range(cs[p]) \subseteq A
      /\ \A p, r \in Proc : p # r => Range(cs[p]) \cap Range(cs[r]) = {}
      /\ \A x \in A : \E p \in Proc : x \in Range(cs[p])
  BY DEF Forest
<1>2. cs[q] \in Seq(Proc) /\ IsInjective(cs[q]) /\ i \in 1 .. Len(cs[q])
  BY <1>1, InRange
<1>3. rest \in Seq(Proc) /\ IsInjective(rest) /\ Range(rest) = Range(cs[q]) \ {c}
  BY <1>2, RemoveAtList
<1>4. c \in Range(cs[q])
  BY <1>2 DEF Range
<1> HIDE DEF rest, c
<1>5. new \in [Proc -> Seq(Proc)] /\ new[q] = rest /\ \A p \in Proc : p # q => new[p] = cs[p]
  BY <1>1, <1>3 DEF rest, Removed
<1> HIDE DEF new
<1>6. ASSUME NEW p \in Proc PROVE Range(new[p]) = Range(cs[p]) \ {c}
  <2>1. CASE p = q
    BY <1>3, <1>5, <2>1
  <2>2. CASE p # q
    <3>1. c \notin Range(cs[p])
      BY <1>1, <1>4, <2>2
    <3> QED BY <1>5, <2>2, <3>1
  <2> QED BY <2>1, <2>2
<1>7. ASSUME NEW p \in Proc
      PROVE  IsInjective(new[p]) /\ Range(new[p]) \subseteq A \ {c}
  <2>1. IsInjective(new[p])
    BY <1>1, <1>3, <1>5
  <2>2. Range(cs[p]) \subseteq A
    BY <1>1
  <2> QED BY <1>6, <2>1, <2>2
<1>8. \A p, r \in Proc : p # r => Range(new[p]) \cap Range(new[r]) = {}
  BY <1>1, <1>6
<1>9. \A x \in A \ {c} : \E p \in Proc : x \in Range(new[p])
  BY <1>1, <1>6
<1>10. Forest(new, A \ {c})
  BY <1>5, <1>7, <1>8, <1>9 DEF Forest
<1> QED BY <1>4, <1>5, <1>6, <1>10 DEF new, c

\* The loop of internal_exit: the children of r go behind those of q.
LEMMA ForestMove ==
  ASSUME NEW cs, NEW A \in SUBSET Proc, Forest(cs, A),
         NEW q \in Proc, NEW r \in Proc \ {q}
  PROVE  /\ Forest(Moved(cs, q, r), A)
         /\ Range(Moved(cs, q, r)[q]) = Range(cs[q]) \cup Range(cs[r])
         /\ Moved(cs, q, r)[r] = << >>
         /\ \A p \in Proc \ {q, r} : Moved(cs, q, r)[p] = cs[p]
<1> DEFINE new  == Moved(cs, q, r)
           both == cs[q] \o cs[r]
<1>1. /\ cs \in [Proc -> Seq(Proc)]
      /\ \A p \in Proc : IsInjective(cs[p]) /\ Range(cs[p]) \subseteq A
      /\ \A p, s \in Proc : p # s => Range(cs[p]) \cap Range(cs[s]) = {}
      /\ \A x \in A : \E p \in Proc : x \in Range(cs[p])
  BY DEF Forest
<1>2. both \in Seq(Proc) /\ IsInjective(both) /\ Range(both) = Range(cs[q]) \cup Range(cs[r])
  <2>1. /\ cs[q] \in Seq(Proc) /\ cs[r] \in Seq(Proc)
        /\ IsInjective(cs[q]) /\ IsInjective(cs[r]) /\ Range(cs[q]) \cap Range(cs[r]) = {}
    BY <1>1
  <2>2. Range(both) = Range(cs[q]) \cup Range(cs[r])
    BY <2>1, RangeConcatenation, ZenonT(30)
  <2> QED BY <2>1, <2>2, ConcatProperties, ConcatInjective
<1> HIDE DEF both
<1>3. /\ << >> \in Seq(Proc) /\ IsInjective(<< >>) /\ Range(<< >>) = {}
  BY DEF IsInjective, Range
<1>4. /\ new \in [Proc -> Seq(Proc)] /\ new[q] = both /\ new[r] = << >>
      /\ \A p \in Proc \ {q, r} : new[p] = cs[p]
  BY <1>1, <1>2, <1>3 DEF both, Moved
<1> HIDE DEF new
<1>5. \A p \in Proc : Range(new[p]) = IF p = q THEN Range(cs[q]) \cup Range(cs[r])
                                      ELSE IF p = r THEN {} ELSE Range(cs[p])
  BY <1>2, <1>3, <1>4
<1>6. \A p \in Proc : IsInjective(new[p]) /\ Range(new[p]) \subseteq A
  BY <1>1, <1>2, <1>3, <1>4, <1>5
<1>7. \A p, s \in Proc : p # s => Range(new[p]) \cap Range(new[s]) = {}
  BY <1>1, <1>5
<1>8. \A x \in A : \E p \in Proc : x \in Range(new[p])
  BY <1>1, <1>5
<1>9. Forest(new, A)
  BY <1>4, <1>6, <1>7, <1>8 DEF Forest
<1> QED BY <1>4, <1>5, <1>9 DEF new

-----------------------------------------------------------------------------
\* Where the running process is, and where those are that it may meet.
LEMMA RunningLives ==
  ASSUME ProcessInv
  PROVE  /\ running \in Allocated /\ Living(running)
         /\ running \notin waiting_list => status[running] = Running
         /\ \A p \in Proc : Living(p) => p \in Allocated
         /\ Allocated \in SUBSET Proc /\ init_pcb \in Proc
<1> USE DEF ProcessStatus, Running, Ready, Waiting, Living
<1>1. running \in Proc
  BY DEF ProcessInv, ProcessTypeOK
<1>2. status[running] = Running \/ running \in waiting_list
  BY DEF ProcessInv, ListsInv, RunningMatches
<1>3. Living(running)
  BY <1>1, <1>2 DEF ProcessInv, ListsInv
<1>4. \A p \in Proc : Living(p) => p \in Allocated
  BY DEF ProcessInv, ListsInv, Allocated
<1>5. Allocated \in SUBSET Proc /\ init_pcb \in Proc
  BY ProcessAssumption, SchedulerAssumption DEF Allocated
<1> QED BY <1>1, <1>2, <1>3, <1>4, <1>5

\* The next process, when the running one waits or ends without a scheduler.
LEMMA NextOne ==
  ASSUME ProcessInv, ready_list # << >>
  PROVE  /\ Head(ready_list) \in Proc /\ status[Head(ready_list)] = Ready
         /\ Head(ready_list) # running /\ Head(ready_list) \notin waiting_list
         /\ Tail(ready_list) \in Seq(Proc) /\ IsInjective(Tail(ready_list))
         /\ Range(Tail(ready_list)) = { p \in Proc : status[p] = Ready } \ {Head(ready_list)}
<1> USE DEF Running, Ready, Waiting
<1>1. ready_list \in Seq(Proc) /\ IsInjective(ready_list)
      /\ Range(ready_list) = { p \in Proc : status[p] = Ready }
  BY DEF ProcessInv, ListsInv, ProcessTypeOK, ReadyListMatches
<1>2. /\ Head(ready_list) \in Proc /\ Tail(ready_list) \in Seq(Proc)
      /\ IsInjective(Tail(ready_list))
      /\ Range(ready_list) = {Head(ready_list)} \cup Range(Tail(ready_list))
      /\ Range(Tail(ready_list)) = Range(ready_list) \ {Head(ready_list)}
  BY <1>1, DetachHead
<1>3. status[Head(ready_list)] = Ready
  BY <1>1, <1>2
<1>4. /\ status[running] = Running \/ running \in waiting_list
      /\ \A p \in waiting_list : status[p] = Waiting
  BY DEF ProcessInv, ListsInv, RunningMatches
<1> QED BY <1>1, <1>2, <1>3, <1>4

\* What a call leaves for the running process is a number.
LEMMA ResultTyped ==
  ASSUME ProcessInv, NEW v \in Int, Result(v)
  PROVE  /\ syscall_retvalue' \in [Proc -> Int]
         /\ wait_result' \in [Proc -> Int]
BY DEF ProcessInv, ProcessTypeOK, Result, Return, NoResult

-----------------------------------------------------------------------------
\* The scheduler, called with the lists that its caller has made of these.
LEMMA ScheduleProcess ==
  ASSUME ProcessInv, NEW st, NEW wl, NEW tl,
         ConsistentIn(ProcessStates, st, ready_list, wl, tl), Sorted(tl),
         internal_schedule(st, ready_list, wl, tl),
         { p \in Proc : st[p] = Waiting } \ wl = WaitsElsewhere,
         \A p \in Proc : IF Living(p) THEN st[p] \in ProcessStatus ELSE st[p] = status[p],
         \A p \in Proc : st[p] = Waiting /\ last_wait'[p] # NotInWait => p \in wl,
         UNCHANGED << free_pcbs, zombie_list >>
  PROVE  /\ running' \in Proc /\ status' \in [Proc -> ProcessStates]
         /\ ready_list' \in Seq(Proc) /\ waiting_list' \subseteq Proc
         /\ timer_list' \in Seq(Timer)
         /\ ListsInv' /\ WaitsElsewhere' = WaitsElsewhere
         /\ \A p \in Proc : IF Living(p) THEN Living(p)' ELSE status'[p] = status[p]
         /\ \A p \in Proc : status'[p] = Waiting /\ p \notin Range(Owners(timer_list'))
              => st[p] = Waiting /\ p \notin Range(Owners(tl))
<1> USE DEF ProcessStatus, Running, Ready, Waiting
<1>1. /\ running' \in Proc /\ status' \in [Proc -> ProcessStates]
      /\ ready_list' \in Seq(Proc) /\ waiting_list' \subseteq Proc
      /\ timer_list' \in Seq(Timer)
      /\ ReadyListMatches' /\ RunningMatches'
      /\ IsInjective(Owners(timer_list'))
      /\ Range(Owners(timer_list')) = Range(Owners(tl)) \ (wl \ waiting_list')
      /\ running' \in waiting_list' => running' \in Range(Owners(timer_list'))
      /\ waiting_list' \subseteq wl
      /\ wl \ waiting_list' \subseteq Range(Owners(tl))
      /\ \A p \in waiting_list' : status'[p] = Waiting
      /\ \A p \in Proc : status'[p] = Waiting
                           <=> st[p] = Waiting /\ p \notin wl \ waiting_list'
      /\ \A p \in Proc : IF st[p] \in ProcessStatus
                          THEN status'[p] \in ProcessStatus
                          ELSE status'[p] = st[p]
  BY ScheduleAny
<1>2. Sorted(timer_list)' /\ NoOverdueTimer'
  BY ScheduleTimers DEF ConsistentIn
<1>3. \A p \in Proc : IF Living(p) THEN Living(p)' ELSE status'[p] = status[p]
  BY <1>1 DEF Living
<1>4. WaitsElsewhere' = WaitsElsewhere
  BY <1>1 DEF WaitsElsewhere
<1>5. /\ zombie_list' = { p \in Allocated' : status'[p] = Zombie }
      /\ \A p \in Proc : p \in free_pcbs' => ~Living(p)'
      /\ \A p \in Allocated' : status'[p] # Created
  <2>1. /\ zombie_list = { p \in Allocated : status[p] = Zombie }
        /\ \A p \in Proc : p \in free_pcbs => ~Living(p)
        /\ \A p \in Allocated : status[p] # Created
        /\ Allocated' = Allocated /\ Allocated \subseteq Proc
    BY DEF ProcessInv, ListsInv, Allocated
  <2>2. \A p \in Proc : (status'[p] = Zombie <=> status[p] = Zombie)
                     /\ (status'[p] = Created <=> status[p] = Created)
    BY <1>3 DEF Living, Zombie, Created
  <2>3. \A p \in Proc : p \in free_pcbs' => ~Living(p)'
    BY <1>3, <2>1 DEF Living
  <2>4. zombie_list' = zombie_list
    OBVIOUS
  <2> QED BY <2>1, <2>2, <2>3, <2>4
<1>6. \A p \in Proc : status'[p] = Waiting /\ last_wait'[p] # NotInWait
                         => p \in waiting_list'
  BY <1>1
<1>7. \A p \in Proc : status'[p] = Waiting /\ p \notin Range(Owners(timer_list'))
        => st[p] = Waiting /\ p \notin Range(Owners(tl))
  BY <1>1
<1>8. ListsInv'
  BY <1>1, <1>2, <1>5, <1>6 DEF ListsInv
<1> QED BY <1>1, <1>3, <1>4, <1>7, <1>8

\* The lists as they are, and with one more tick.
LEMMA ProcessConsistent ==
  ASSUME ProcessInv
  PROVE  /\ ConsistentIn(ProcessStates, status, ready_list, waiting_list, timer_list)
         /\ WakesListed => ConsistentIn(ProcessStates, status, ready_list, waiting_list,
                                        Ticked(timer_list))
         /\ Owners(Ticked(timer_list)) = Owners(timer_list)
         /\ Sorted(Ticked(timer_list))
<1> USE DEF ProcessStatus, Running, Ready, Waiting
<1>1. timer_list \in Seq(Timer) /\ Sorted(timer_list)
  BY DEF ProcessInv, ProcessTypeOK, ListsInv
<1>2. /\ Ticked(timer_list) \in Seq(Timer)
      /\ Owners(Ticked(timer_list)) = Owners(timer_list)
      /\ Sorted(Ticked(timer_list))
  BY <1>1, TickKeepsOrder
<1>3. /\ running \in Proc /\ ProcessStatus \subseteq ProcessStates
      /\ status \in [Proc -> ProcessStates]
      /\ ready_list \in Seq(Proc) /\ waiting_list \subseteq Proc
  BY DEF ProcessInv, ProcessTypeOK, ProcessStates
<1>4. /\ IsInjective(ready_list) /\ Range(ready_list) = { p \in Proc : status[p] = Ready }
      /\ \A p \in waiting_list : status[p] = Waiting
      /\ \A p \in Proc : status[p] = Running => p = running
      /\ status[running] = Running \/ running \in waiting_list
      /\ IsInjective(Owners(timer_list)) /\ NoOverdueTimer
      /\ running \in waiting_list => running \in Range(Owners(timer_list))
  BY DEF ProcessInv, ListsInv, ReadyListMatches, RunningMatches
<1>5. status[running] # Ready
  BY <1>4
<1>6. ElapsedListed(waiting_list, timer_list)
  BY <1>4 DEF ElapsedListed, NoOverdueTimer
<1>7. ASSUME WakesListed PROVE ElapsedListed(waiting_list, Ticked(timer_list))
  <2>1. /\ DOMAIN Ticked(timer_list) = DOMAIN timer_list
        /\ \A i \in DOMAIN timer_list : Ticked(timer_list)[i].pcb = timer_list[i].pcb
    <3>1. DOMAIN Ticked(timer_list) = DOMAIN timer_list
      BY DEF Ticked
    <3>2. \A i \in DOMAIN timer_list : /\ Owners(timer_list)[i] = timer_list[i].pcb
                                       /\ Owners(Ticked(timer_list))[i] = Ticked(timer_list)[i].pcb
      BY <3>1 DEF Owners
    <3> QED BY <1>2, <3>1, <3>2
  <2> QED BY <1>7, <2>1 DEF WakesListed, ElapsedListed
<1> QED BY <1>1, <1>2, <1>3, <1>4, <1>5, <1>6, <1>7 DEF ConsistentIn

\* internal_sleep: the caller has its timer when internal_schedule is called.
LEMMA SleepProcess ==
  ASSUME ProcessInv, ~HasTimer(running),
         NEW cycles \in Int, NEW k \in 0 .. Len(timer_list),
         TimerGoesBehind(timer_list, [pcb |-> running, left |-> cycles], k)
  PROVE  LET new == TimerList_add(timer_list, [pcb |-> running, left |-> cycles], k)
             st  == [status EXCEPT ![running] = Waiting]
         IN  /\ status[running] = Running
             /\ ConsistentIn(ProcessStates, st, ready_list, waiting_list \cup {running}, new)
             /\ Sorted(new)
             /\ Range(Owners(new)) = Range(Owners(timer_list)) \cup {running}
<1> USE DEF ProcessStatus, Running, Ready, Waiting
<1> DEFINE item == [pcb |-> running, left |-> cycles]
           new  == TimerList_add(timer_list, item, k)
           st   == [status EXCEPT ![running] = Waiting]
<1>1. /\ ConsistentIn(ProcessStates, status, ready_list, waiting_list, timer_list)
      /\ Sorted(timer_list)
  BY ProcessConsistent DEF ProcessInv, ListsInv
<1>2. /\ running \in Proc /\ timer_list \in Seq(Timer)
      /\ ProcessStatus \subseteq ProcessStates /\ status \in [Proc -> ProcessStates]
      /\ ready_list \in Seq(Proc) /\ IsInjective(ready_list)
      /\ Range(ready_list) = { p \in Proc : status[p] = Ready }
      /\ waiting_list \subseteq Proc
      /\ IsInjective(Owners(timer_list)) /\ ElapsedListed(waiting_list, timer_list)
      /\ \A p \in waiting_list : status[p] = Waiting
      /\ \A p \in Proc : status[p] = Running => p = running
      /\ running \in waiting_list => running \in Range(Owners(timer_list))
  BY <1>1 DEF ConsistentIn
<1>3. running \notin Range(Owners(timer_list))
  BY DEF HasTimer, Owners, Range
<1>4. running \notin waiting_list /\ status[running] = Running
  BY <1>2, <1>3, RunningLives
<1>5. item \in Timer /\ item.pcb = running
  BY <1>2 DEF Timer
<1> HIDE DEF item
<1>6. /\ new \in Seq(Timer)
      /\ Sorted(new)
      /\ Range(Owners(new)) = Range(Owners(timer_list)) \cup {item.pcb}
      /\ IsInjective(Owners(timer_list)) /\ item.pcb \notin Range(Owners(timer_list))
           => IsInjective(Owners(new))
      /\ \A i \in DOMAIN new : new[i] = item \/ \E j \in DOMAIN timer_list : new[i] = timer_list[j]
  <2>1. TimerGoesBehind(timer_list, item, k)
    BY DEF item
  <2> QED BY <1>1, <1>2, <1>5, <2>1, AddKeepsOrder
<1>7. /\ st \in [Proc -> ProcessStates]
      /\ \A p \in Proc : st[p] = IF p = running THEN Waiting ELSE status[p]
  BY <1>2
<1> HIDE DEF st, new
<1>8. ConsistentIn(ProcessStates, st, ready_list, waiting_list \cup {running}, new)
  <2>1. Range(ready_list) = { p \in Proc : st[p] = Ready }
    BY <1>2, <1>4, <1>7
  <2>2. /\ \A p \in waiting_list \cup {running} : st[p] = Waiting
        /\ \A p \in Proc : st[p] = Running => p = running
        /\ st[running] # Ready
    BY <1>2, <1>7
  <2>3. IsInjective(Owners(new)) /\ running \in Range(Owners(new))
    BY <1>3, <1>2, <1>5, <1>6
  <2>4. ElapsedListed(waiting_list \cup {running}, new)
    BY <1>2, <1>5, <1>6 DEF ElapsedListed
  <2> QED BY <1>2, <1>6, <1>7, <2>1, <2>2, <2>3, <2>4 DEF ConsistentIn
<1> QED BY <1>4, <1>5, <1>6, <1>8 DEF st, new, item

\* A step of the scheduler that does not stop the kernel.
Schedules ==
  \/ WakesListed /\ timerInterrupt /\ TickFrame
  \/ (internal_preempt \/ internal_sleep) /\ CallFrame

\* Every call of the scheduler leaves lists that describe the status fields,
\* spawns nobody and ends nobody.
LEMMA SchedulingLists ==
  ASSUME ProcessInv, Schedules
  PROVE  /\ running' \in Proc /\ status' \in [Proc -> ProcessStates]
         /\ ready_list' \in Seq(Proc) /\ waiting_list' \subseteq Proc
         /\ timer_list' \in Seq(Timer) /\ syscall_retvalue' \in [Proc -> Int]
         /\ ListsInv' /\ WaitsElsewhere' = WaitsElsewhere
         /\ \A p \in Proc : IF Living(p) THEN Living(p)' ELSE status'[p] = status[p]
         /\ WaitsAsBefore /\ last_wait' \in [Proc -> Int]
<1> USE DEF ProcessStatus, Running, Ready, Waiting
<1>1. UNCHANGED << free_pcbs, zombie_list >>
  BY DEF Schedules, TickFrame, CallFrame, TreeFrame
<1>2. /\ running \in Proc /\ syscall_retvalue \in [Proc -> Int]
      /\ { p \in Proc : status[p] = Waiting } \ waiting_list = WaitsElsewhere
      /\ \A p \in Proc : status[p] = Waiting /\ last_wait[p] # NotInWait
                           => p \in waiting_list
      /\ Sorted(timer_list) /\ last_wait \in [Proc -> Int]
      /\ status \in [Proc -> ProcessStates]
  BY DEF ProcessInv, ProcessTypeOK, ListsInv, WaitsElsewhere
<1>3. \A v \in Int : Return(v) => syscall_retvalue' \in [Proc -> Int]
  BY <1>2 DEF Return
<1>4. /\ ConsistentIn(ProcessStates, status, ready_list, waiting_list, timer_list)
      /\ WakesListed => ConsistentIn(ProcessStates, status, ready_list, waiting_list,
                                     Ticked(timer_list))
      /\ Owners(Ticked(timer_list)) = Owners(timer_list)
      /\ Sorted(Ticked(timer_list))
  BY ProcessConsistent
<1>5. \A p \in Proc : IF Living(p) THEN status[p] \in ProcessStatus ELSE status[p] = status[p]
  BY DEF Living
<1>6. CASE WakesListed /\ timerInterrupt /\ TickFrame
  <2>1. /\ Return(NoResult) /\ NoResult \in Int
        /\ internal_schedule(status, ready_list, waiting_list, Ticked(timer_list))
    BY <1>6 DEF timerInterrupt, ResultRead, NoResult
  <2>2. /\ status[running] = Waiting =>
             running \in waiting_list /\ running \in Range(Owners(timer_list))
        /\ \/ last_wait' = last_wait
           \/ /\ status[running] = Waiting
              /\ \E arg \in Int : last_wait' = [last_wait EXCEPT ![running] = arg]
    BY <1>6, ProcessAssumption
    DEF TickFrame, CallStored, Called, NotInWait, ProcessInv, ListsInv, RunningMatches
  <2>3. /\ last_wait' \in [Proc -> Int]
        /\ \A p \in Proc : p = running \/ last_wait'[p] = last_wait[p]
        /\ status[running] = Waiting \/ last_wait' = last_wait
    BY <1>2, <2>2
  <2>4. \A p \in Proc : status[p] = Waiting /\ last_wait'[p] # NotInWait
                           => p \in waiting_list
    BY <1>2, <2>2, <2>3
  <2>5. syscall_retvalue' \in [Proc -> Int]
    BY <1>3, <2>1
  <2>6. /\ running' \in Proc /\ status' \in [Proc -> ProcessStates]
        /\ ready_list' \in Seq(Proc) /\ waiting_list' \subseteq Proc
        /\ timer_list' \in Seq(Timer)
        /\ ListsInv' /\ WaitsElsewhere' = WaitsElsewhere
        /\ \A p \in Proc : IF Living(p) THEN Living(p)' ELSE status'[p] = status[p]
        /\ \A p \in Proc : status'[p] = Waiting /\ p \notin Range(Owners(timer_list'))
             => status[p] = Waiting /\ p \notin Range(Owners(Ticked(timer_list)))
    BY <1>1, <1>2, <1>4, <1>5, <1>6, <2>1, <2>4, ScheduleProcess
  <2>7. WaitsAsBefore
    BY <1>4, <2>2, <2>6, <2>3 DEF WaitsAsBefore
  <2> QED BY <1>2, <2>5, <2>6, <2>7, <2>3
<1> SUFFICES ASSUME internal_preempt \/ internal_sleep, CallFrame
             PROVE  /\ running' \in Proc /\ status' \in [Proc -> ProcessStates]
                    /\ ready_list' \in Seq(Proc) /\ waiting_list' \subseteq Proc
                    /\ timer_list' \in Seq(Timer) /\ syscall_retvalue' \in [Proc -> Int]
                    /\ ListsInv' /\ WaitsElsewhere' = WaitsElsewhere
                    /\ \A p \in Proc : IF Living(p) THEN Living(p)'
                                                     ELSE status'[p] = status[p]
                    /\ WaitsAsBefore /\ last_wait' \in [Proc -> Int]
  BY <1>6 DEF Schedules
<1>7. /\ last_wait' \in [Proc -> Int]
      /\ \A p \in Proc : last_wait'[p] = IF p = running THEN NotInWait ELSE last_wait[p]
  BY <1>2 DEF CallFrame, CalledOther, Called, NotInWait
<1>8. ASSUME NEW st, NEW wl, NEW tl,
             ConsistentIn(ProcessStates, st, ready_list, wl, tl), Sorted(tl),
             internal_schedule(st, ready_list, wl, tl),
             { p \in Proc : st[p] = Waiting } \ wl = WaitsElsewhere,
             \A p \in Proc : IF Living(p) THEN st[p] \in ProcessStatus ELSE st[p] = status[p],
             waiting_list \subseteq wl, Range(Owners(timer_list)) \subseteq Range(Owners(tl)),
             \A p \in Proc : p = running \/ st[p] = status[p]
      PROVE  /\ running' \in Proc /\ status' \in [Proc -> ProcessStates]
             /\ ready_list' \in Seq(Proc) /\ waiting_list' \subseteq Proc
             /\ timer_list' \in Seq(Timer)
             /\ ListsInv' /\ WaitsElsewhere' = WaitsElsewhere
             /\ \A p \in Proc : IF Living(p) THEN Living(p)' ELSE status'[p] = status[p]
             /\ WaitsAsBefore
  <2>1. \A p \in Proc : st[p] = Waiting /\ last_wait'[p] # NotInWait => p \in wl
    BY <1>2, <1>7, <1>8
  <2>2. /\ running' \in Proc /\ status' \in [Proc -> ProcessStates]
        /\ ready_list' \in Seq(Proc) /\ waiting_list' \subseteq Proc
        /\ timer_list' \in Seq(Timer)
        /\ ListsInv' /\ WaitsElsewhere' = WaitsElsewhere
        /\ \A p \in Proc : IF Living(p) THEN Living(p)' ELSE status'[p] = status[p]
        /\ \A p \in Proc : status'[p] = Waiting /\ p \notin Range(Owners(timer_list'))
             => st[p] = Waiting /\ p \notin Range(Owners(tl))
    BY <1>1, <1>8, <2>1, ScheduleProcess
  <2>3. WaitsAsBefore
    BY <1>7, <1>8, <2>2 DEF WaitsAsBefore
  <2> QED BY <2>2, <2>3
<1>9. CASE internal_preempt
  <2>1. /\ Return(NoResult) /\ NoResult \in Int
        /\ internal_schedule(status, ready_list, waiting_list, timer_list)
    BY <1>9 DEF internal_preempt, ResultRead, NoResult
  <2>2. syscall_retvalue' \in [Proc -> Int]
    BY <1>3, <2>1
  <2> QED BY <1>2, <1>4, <1>5, <1>7, <1>8, <2>1, <2>2
<1>10. CASE SleepRefused
  <2>1. /\ Return(DSOS_ESLEEP) /\ DSOS_ESLEEP \in Int
        /\ UNCHANGED << running, status, ready_list, waiting_list, timer_list >>
    BY <1>10 DEF SleepRefused, DSOS_ESLEEP
  <2>2. ListsInv'
    BY <1>1, <1>2, <1>7, <2>1 DEF ProcessInv, ListsInv, ReadyListMatches, RunningMatches,
                                  Allocated, Living, NoOverdueTimer, TimerElapsed
  <2>3. syscall_retvalue' \in [Proc -> Int]
    BY <1>3, <2>1
  <2>4. WaitsAsBefore
    BY <1>7, <2>1 DEF WaitsAsBefore
  <2> QED BY <1>7, <2>1, <2>2, <2>3, <2>4
          DEF ProcessInv, ProcessTypeOK, Living, WaitsElsewhere
<1>11. ASSUME NEW cycles \in SleepCycles, SleepStarts(cycles)
       PROVE  /\ running' \in Proc /\ status' \in [Proc -> ProcessStates]
              /\ ready_list' \in Seq(Proc) /\ waiting_list' \subseteq Proc
              /\ timer_list' \in Seq(Timer) /\ syscall_retvalue' \in [Proc -> Int]
              /\ ListsInv' /\ WaitsElsewhere' = WaitsElsewhere
              /\ \A p \in Proc : IF Living(p) THEN Living(p)' ELSE status'[p] = status[p]
              /\ WaitsAsBefore
  <2> DEFINE item == [pcb |-> running, left |-> cycles]
             st   == [status EXCEPT ![running] = Waiting]
             wl   == waiting_list \cup {running}
  <2>1. ~HasTimer(running) /\ Return(0) /\ cycles \in Int
    BY <1>11, SchedulerAssumption DEF SleepStarts
  <2>2. PICK k \in 0 .. Len(timer_list) :
          /\ TimerGoesBehind(timer_list, item, k)
          /\ internal_schedule(st, ready_list, wl, TimerList_add(timer_list, item, k))
    BY <1>11 DEF SleepStarts
  <2> DEFINE new == TimerList_add(timer_list, item, k)
  <2>3. /\ status[running] = Running
        /\ ConsistentIn(ProcessStates, st, ready_list, wl, new)
        /\ Sorted(new)
        /\ Range(Owners(new)) = Range(Owners(timer_list)) \cup {running}
    BY <2>1, <2>2, SleepProcess
  <2>4. \A p \in Proc : st[p] = IF p = running THEN Waiting ELSE status[p]
    BY <1>2
  <2>5. { p \in Proc : st[p] = Waiting } \ wl = WaitsElsewhere
    BY <1>2, <2>3, <2>4
  <2>6. syscall_retvalue' \in [Proc -> Int]
    BY <1>3, <2>1
  <2>7. internal_schedule(st, ready_list, wl, new) /\ waiting_list \subseteq wl
    BY <2>2
  <2> HIDE DEF st, wl, new
  <2>8. \A p \in Proc : IF Living(p) THEN st[p] \in ProcessStatus ELSE st[p] = status[p]
    BY <2>3, <2>4 DEF Living
  <2> QED BY <1>8, <2>3, <2>4, <2>5, <2>6, <2>7, <2>8
<1> QED BY <1>7, <1>9, <1>10, <1>11 DEF internal_sleep

-----------------------------------------------------------------------------
(***************************************************************************)
(* One lemma for each kind of step.  A step that leaves the tree alone     *)
(* keeps the rest of the invariant if it keeps the lists, spawns nobody    *)
(* and ends nobody.                                                        *)
(***************************************************************************)
LEMMA TreeKept ==
  ASSUME ProcessInv, ListsInv', ProcessTypeOK',
         \A p \in Proc : IF Living(p) THEN Living(p)' ELSE status'[p] = status[p],
         WaitsAsBefore,
         UNCHANGED << pid, parent, children, signals, free_pcbs, free_ptrs, last_pid >>
  PROVE  ProcessInv'
<1> USE DEF ProcessStatus, Running, Ready, Waiting
<1>1. Allocated' = Allocated /\ \A p \in Proc : Living(p)' <=> Living(p)
  BY DEF Allocated, Living
<1>2. PidsInv'
  BY <1>1, RunningLives DEF ProcessInv, PidsInv
<1>3. TreeInv'
  BY <1>1 DEF ProcessInv, TreeInv
<1>4. ParentInv'
  BY DEF ProcessInv, ParentInv
<1>5. WaitInv'
  <2> SUFFICES ASSUME NEW p \in Proc, NEW c \in Range(children[p]),
                      parent[c] = p, status'[c] = Zombie, status'[p] = Waiting,
                      p \notin Range(Owners(timer_list'))
               PROVE  last_wait'[p] \notin {AnyChild, pid[c]}
    BY DEF WaitInv
  <2>1. c \in Proc /\ pid[c] \in Nat
    BY DEF ProcessInv, TreeInv, Forest, Allocated, ProcessTypeOK
  <2>2. status[c] = Zombie
    BY <2>1 DEF Living, Zombie
  <2>3. CASE last_wait'[p] = NotInWait
    BY <2>1, <2>3 DEF NotInWait, AnyChild
  <2>4. CASE /\ status[p] = Waiting /\ p \notin Range(Owners(timer_list))
             /\ last_wait'[p] = last_wait[p]
    BY <2>2, <2>4 DEF ProcessInv, WaitInv
  <2> QED BY <2>3, <2>4 DEF WaitsAsBefore
<1>6. PtrsInv'
  BY <1>1 DEF ProcessInv, PtrsInv
<1> QED BY <1>2, <1>3, <1>4, <1>5, <1>6 DEF ProcessInv

\* The kernel stops.
LEMMA FailsInv ==
  ASSUME ProcessInv, NEW reason \in Failures, Fails(reason)
  PROVE  ProcessInv' /\ WaitsElsewhere' = WaitsElsewhere
<1>1. /\ failure' = reason
      /\ UNCHANGED << running, status, ready_list, waiting_list, timer_list,
                      syscall_retvalue, pid, parent, children, return_value, signals,
                      last_wait, wait_result, zombie_list, free_pcbs, free_ptrs,
                      last_pid, forked >>
  BY DEF Fails, SchedulerVars
<1>2. ProcessTypeOK'
  BY <1>1 DEF ProcessInv, ProcessTypeOK
<1>3. ListsInv'
  BY <1>1 DEF ProcessInv, ListsInv, ReadyListMatches, RunningMatches, Allocated, Living,
              NoOverdueTimer, TimerElapsed
<1>4. /\ \A p \in Proc : IF Living(p) THEN Living(p)' ELSE status'[p] = status[p]
      /\ WaitsElsewhere' = WaitsElsewhere /\ WaitsAsBefore
  BY <1>1 DEF Living, WaitsElsewhere, WaitsAsBefore
<1> QED BY <1>1, <1>2, <1>3, <1>4, TreeKept

\* The interrupt, internal_preempt and internal_sleep.
LEMMA SchedulingInv ==
  ASSUME ProcessInv, Scheduling
  PROVE  ProcessInv' /\ WaitsElsewhere' = WaitsElsewhere
<1>1. CASE Fails(NotListed)
  BY <1>1, FailsInv DEF Failures
<1>2. CASE Schedules
  <2>1. /\ running' \in Proc /\ status' \in [Proc -> ProcessStates]
        /\ ready_list' \in Seq(Proc) /\ waiting_list' \subseteq Proc
        /\ timer_list' \in Seq(Timer) /\ syscall_retvalue' \in [Proc -> Int]
        /\ ListsInv' /\ WaitsElsewhere' = WaitsElsewhere
        /\ \A p \in Proc : IF Living(p) THEN Living(p)' ELSE status'[p] = status[p]
        /\ WaitsAsBefore /\ last_wait' \in [Proc -> Int]
    BY <1>2, SchedulingLists
  <2>2. /\ wait_result' = [wait_result EXCEPT ![running] = NoResult]
        /\ UNCHANGED << pid, parent, children, return_value, signals, zombie_list,
                        free_pcbs, free_ptrs, last_pid, forked, failure >>
    BY <1>2 DEF Schedules, TickFrame, CallFrame, TreeFrame
  <2>3. ProcessTypeOK'
    <3>1. ProcessTypeOK
      BY DEF ProcessInv
    <3>2. wait_result' \in [Proc -> Int]
      <4>1. wait_result \in [Proc -> Int] /\ NoResult \in Int
        BY <3>1 DEF ProcessTypeOK, NoResult
      <4> QED BY <2>2, <4>1
    <3> QED BY <2>1, <2>2, <3>1, <3>2 DEF ProcessTypeOK
  <2> QED BY <2>1, <2>2, <2>3, TreeKept
<1> QED BY <1>1, <1>2 DEF Scheduling, ProcessTick, Schedules

\* A call that only returns a value.
LEMMA ReturnInv ==
  ASSUME ProcessInv, NEW v \in Int, Result(v), NEW arg \in Int, Called(arg),
         UNCHANGED << running, status, ready_list, waiting_list, timer_list, pid,
                      parent, children, return_value, signals, zombie_list,
                      free_pcbs, free_ptrs, last_pid, forked, failure >>
  PROVE  ProcessInv' /\ WaitsElsewhere' = WaitsElsewhere
<1>1. /\ last_wait' \in [Proc -> Int]
      /\ \A p \in Proc : p # running => last_wait'[p] = last_wait[p]
  BY DEF ProcessInv, ProcessTypeOK, Called
<1>2. ProcessTypeOK'
  BY <1>1, ResultTyped DEF ProcessInv, ProcessTypeOK
<1>3. status[running] = Waiting =>
        running \in waiting_list /\ running \in Range(Owners(timer_list))
  BY DEF ProcessInv, ListsInv, RunningMatches, Running, Waiting
<1>4. ListsInv'
  BY <1>1, <1>3 DEF ProcessInv, ListsInv, ReadyListMatches, RunningMatches, Allocated,
                    Living, NoOverdueTimer, TimerElapsed
<1>5. /\ \A p \in Proc : IF Living(p) THEN Living(p)' ELSE status'[p] = status[p]
      /\ WaitsElsewhere' = WaitsElsewhere /\ WaitsAsBefore
  BY <1>1, <1>3 DEF Living, WaitsElsewhere, WaitsAsBefore
<1> QED BY <1>2, <1>4, <1>5, TreeKept

\* spawn and fork.
LEMMA ChildStartsInv ==
  ASSUME ProcessInv, NEW p \in Proc, ChildStarts(p), forked' \subseteq Proc
  PROVE  ProcessInv' /\ WaitsElsewhere' = WaitsElsewhere
<1> USE DEF ProcessStatus, Running, Ready, Waiting
<1>1. /\ p \in free_pcbs /\ free_ptrs > 0
      /\ free_pcbs' = free_pcbs \ {p}
      /\ pid' = [pid EXCEPT ![p] = last_pid]
      /\ last_pid' = last_pid + 1
      /\ return_value' = [return_value EXCEPT ![p] = 0]
      /\ signals' = [signals EXCEPT ![p] = {}]
      /\ free_ptrs' = free_ptrs - 1
      /\ children' = [children EXCEPT ![running] = Append(@, p), ![p] = << >>]
      /\ status' = [status EXCEPT ![p] = Ready]
      /\ parent' = [parent EXCEPT ![p] = running]
      /\ ready_list' = Append(ready_list, p)
      /\ Result(last_pid)
      /\ last_wait' = [last_wait EXCEPT ![running] = NotInWait]
      /\ UNCHANGED << running, waiting_list, timer_list, zombie_list, failure >>
  BY DEF ChildStarts, PCB_alloc, ChildAdded, CalledOther, Called
<1>2. ProcessTypeOK
  BY DEF ProcessInv
<1>3. /\ running \in Allocated /\ Allocated \in SUBSET Proc /\ p \notin Allocated
      /\ p # running /\ p # init_pcb /\ ~Living(p) /\ init_pcb \in Allocated
      /\ status[p] \notin ProcessStatus
      /\ running \in Proc
  BY <1>1, RunningLives DEF Allocated, ProcessInv, ListsInv, PidsInv, Living
<1>4. Allocated' = Allocated \cup {p}
  BY <1>1 DEF Allocated
<1>5. /\ \A q \in Proc : status'[q] = IF q = p THEN Ready ELSE status[q]
      /\ \A q \in Proc : pid'[q] = IF q = p THEN last_pid ELSE pid[q]
      /\ \A q \in Proc : parent'[q] = IF q = p THEN running ELSE parent[q]
      /\ \A q \in Proc : q # p => signals'[q] = signals[q]
      /\ \A q \in Proc : last_wait'[q] = IF q = running THEN NotInWait ELSE last_wait[q]
  BY <1>1, <1>2 DEF ProcessTypeOK
<1> DEFINE A == Allocated \ {init_pcb}
<1>6. /\ Forest(children', A \cup {p})
      /\ Range(children'[running]) = Range(children[running]) \cup {p}
      /\ \A q \in Proc : q # running => children'[q] = children[q]
  <2>1. /\ Forest(children, A) /\ children[p] = << >> /\ A \in SUBSET Proc
        /\ p \in Proc \ A
    BY <1>3 DEF ProcessInv, TreeInv
  <2>2. children' = Added(children, running, p)
    BY <1>1 DEF Added
  <2> HIDE DEF A
  <2> QED BY <1>3, <2>1, <2>2, ForestAdd
<1>7. \A q \in Proc : Range(children[q]) \subseteq A
  BY DEF ProcessInv, TreeInv, Forest
<1>8. ProcessTypeOK'
  <2>1. syscall_retvalue' \in [Proc -> Int] /\ wait_result' \in [Proc -> Int]
    <3>1. last_pid \in Int
      BY <1>2 DEF ProcessTypeOK
    <3> QED BY <1>1, <3>1, ResultTyped
  <2>2. ready_list' \in Seq(Proc)
    BY <1>1, <1>2 DEF ProcessTypeOK
  <2>3. children' \in [Proc -> Seq(Proc)]
    BY <1>6 DEF Forest
  <2>4. /\ status' \in [Proc -> ProcessStates] /\ pid' \in [Proc -> Nat]
        /\ parent' \in [Proc -> Proc \cup {NoParent}] /\ return_value' \in [Proc -> Int]
        /\ signals' \in [Proc -> SUBSET {SIGCHLD, SIGHUP}]
        /\ free_pcbs' \subseteq Proc /\ last_pid' \in Nat /\ last_wait' \in [Proc -> Int]
    <3>1. status' \in [Proc -> ProcessStates] /\ pid' \in [Proc -> Nat]
      BY <1>1, <1>2 DEF ProcessTypeOK, ProcessStates
    <3>2. return_value' \in [Proc -> Int] /\ free_pcbs' \subseteq Proc /\ last_pid' \in Nat
      <4>1. return_value \in [Proc -> Int] /\ free_pcbs \subseteq Proc /\ last_pid \in Nat
        BY <1>2 DEF ProcessTypeOK
      <4> QED BY ONLY <1>1, <4>1
    <3>3. parent' \in [Proc -> Proc \cup {NoParent}]
      BY <1>1, <1>2, <1>3 DEF ProcessTypeOK
    <3>4. signals' \in [Proc -> SUBSET {SIGCHLD, SIGHUP}]
      BY <1>1, <1>2 DEF ProcessTypeOK
    <3>5. last_wait' \in [Proc -> Int]
      BY <1>1, <1>2 DEF ProcessTypeOK, NotInWait
    <3> QED BY <3>1, <3>2, <3>3, <3>4, <3>5
  <2>5. free_ptrs' \in 0 .. PCBPtrs
    BY <1>1, <1>2, ProcessAssumption DEF ProcessTypeOK
  <2> QED BY <1>1, <1>2, <2>1, <2>2, <2>3, <2>4, <2>5 DEF ProcessTypeOK
<1>9. ListsInv'
  <2>1. ListsInv
    BY DEF ProcessInv
  <2>2. ReadyListMatches'
    <3>1. ready_list \in Seq(Proc) /\ IsInjective(ready_list)
          /\ Range(ready_list) = { q \in Proc : status[q] = Ready }
      BY <1>2, <2>1 DEF ProcessTypeOK, ListsInv, ReadyListMatches
    <3>2. p \notin Range(ready_list)
      BY <1>3, <3>1
    <3>3. IsInjective(ready_list') /\ Range(ready_list') = Range(ready_list) \cup {p}
      BY <1>1, <3>1, <3>2, AppendInjectiveList
    <3>4. Range(ready_list') = { q \in Proc : status'[q] = Ready }
      BY <1>5, <3>1, <3>3
    <3> QED BY <3>3, <3>4 DEF ReadyListMatches
  <2>3. RunningMatches'
    BY <1>1, <1>3, <1>5, <2>1 DEF ListsInv, RunningMatches
  <2>4. \A q \in waiting_list' : status'[q] = Waiting
    BY <1>1, <1>3, <1>5, <2>1 DEF ListsInv
  <2>5. zombie_list' = { q \in Allocated' : status'[q] = Zombie }
    BY <1>1, <1>3, <1>4, <1>5, <2>1 DEF ListsInv, Zombie
  <2>6. \A q \in Proc : q \in free_pcbs' => ~Living(q)'
    BY <1>1, <1>5, <2>1 DEF ListsInv, Living
  <2>7. \A q \in Allocated' : status'[q] # Created
    BY <1>3, <1>4, <1>5, <2>1 DEF ListsInv, Created
  <2>8. \A q \in Proc : status'[q] = Waiting /\ last_wait'[q] # NotInWait
                           => q \in waiting_list'
    BY <1>1, <1>3, <1>5, <2>1 DEF ListsInv
  <2>9. /\ Sorted(timer_list)' /\ IsInjective(Owners(timer_list')) /\ NoOverdueTimer'
        /\ running' \in waiting_list' => running' \in Range(Owners(timer_list'))
    BY <1>1, <2>1 DEF ListsInv, NoOverdueTimer, TimerElapsed
  <2> QED BY <2>2, <2>3, <2>4, <2>5, <2>6, <2>7, <2>8, <2>9 DEF ListsInv
<1>10. PidsInv'
  <2>1. PidsInv /\ last_pid \in Nat /\ \A q \in Proc : pid[q] \in Nat
    BY <1>2 DEF ProcessInv, ProcessTypeOK
  <2>2. init_pcb \in Allocated' /\ Living(init_pcb)'
    BY <1>3, <1>4, <1>5, <2>1 DEF PidsInv, Living
  <2>3. \A q \in Allocated' : pid'[q] < last_pid'
    BY <1>1, <1>3, <1>4, <1>5, <2>1 DEF PidsInv
  <2>4. \A q, r \in Allocated' : pid'[q] = pid'[r] => q = r
    BY <1>1, <1>3, <1>4, <1>5, <2>1 DEF PidsInv
  <2>5. \A q \in Allocated' \ {init_pcb} : parent'[q] \in Proc \ {q}
    BY <1>3, <1>4, <1>5, <2>1 DEF PidsInv
  <2> QED BY <2>2, <2>3, <2>4, <2>5 DEF PidsInv
<1>11. TreeInv'
  <2>1. Allocated' \ {init_pcb} = A \cup {p}
    BY <1>3, <1>4
  <2>2. ASSUME NEW q \in Proc, ~Living(q)' PROVE children'[q] = << >>
    <3>1. ~Living(q) /\ q # running
      BY <1>3, <1>5, <2>2, RunningLives DEF Living
    <3> QED BY <1>6, <3>1 DEF ProcessInv, TreeInv
  <2> QED BY <1>6, <2>1, <2>2 DEF TreeInv
<1>12. ParentInv'
  BY <1>3, <1>5, <1>6, <1>7 DEF ProcessInv, ParentInv
<1>13. WaitInv'
  <2> SUFFICES ASSUME NEW q \in Proc, NEW c \in Range(children'[q]), parent'[c] = q,
                      status'[c] = Zombie, status'[q] = Waiting,
                      q \notin Range(Owners(timer_list'))
               PROVE  last_wait'[q] \notin {AnyChild, pid'[c]}
    BY DEF WaitInv
  <2>1. c # p
    BY <1>5, <1>6, <1>7 DEF Zombie
  <2>2. c \in Range(children[q]) /\ c \in Proc /\ q # p
    BY <1>3, <1>5, <1>6, <1>7, <2>1
  <2>3. pid'[c] \in Nat
    BY <1>8, <2>2 DEF ProcessTypeOK
  <2>4. CASE q = running
    BY <1>5, <2>3, <2>4 DEF NotInWait, AnyChild
  <2>5. CASE q # running
    BY <1>1, <1>5, <2>1, <2>2, <2>5 DEF ProcessInv, WaitInv
  <2> QED BY <2>4, <2>5
<1>14. PtrsInv'
  <2>1. IsFiniteSet(Allocated)
    BY <1>3, SchedulerAssumption, FS_Subset
  <2>2. Cardinality(Allocated) \in Nat /\ Cardinality(Allocated') = Cardinality(Allocated) + 1
    BY <1>3, <1>4, <2>1, FS_CardinalityType, FS_AddElement
  <2>3. free_ptrs \in Int /\ PCBPtrs \in Int
    BY <1>2, ProcessAssumption DEF ProcessTypeOK
  <2> QED BY <1>1, <2>2, <2>3 DEF ProcessInv, PtrsInv
<1>15. WaitsElsewhere' = WaitsElsewhere
  BY <1>1, <1>3, <1>5 DEF WaitsElsewhere, ListsInv, Living
<1> QED BY <1>8, <1>9, <1>10, <1>11, <1>12, <1>13, <1>14, <1>15 DEF ProcessInv

\* wait, when there is a zombie to collect.
LEMMA WaitReapsInv ==
  ASSUME ProcessInv, NEW arg \in WaitArgs, WaitReaps(arg)
  PROVE  ProcessInv' /\ WaitsElsewhere' = WaitsElsewhere
<1> USE DEF ProcessStatus, Running, Ready, Waiting
<1>1. PICK i \in DOMAIN children[running] :
        LET c == children[running][i]
        IN  /\ status[c] = Zombie
            /\ Return(pid[c])
            /\ wait_result' = [wait_result EXCEPT ![running] = return_value[c]]
            /\ children' = ChildReaped(i)
            /\ zombie_list' = zombie_list \ {c}
            /\ PCB_free(c)
            /\ free_ptrs' = free_ptrs + 1
            /\ Called(arg)
            /\ UNCHANGED << running, status, ready_list, waiting_list, timer_list,
                            pid, parent, return_value, signals, last_pid, forked,
                            failure >>
  BY DEF WaitReaps
<1> DEFINE c == children[running][i]
           A == Allocated \ {init_pcb}
<1>2. /\ status[c] = Zombie
      /\ syscall_retvalue' = [syscall_retvalue EXCEPT ![running] = pid[c]]
      /\ wait_result' = [wait_result EXCEPT ![running] = return_value[c]]
      /\ children' = Removed(children, running, i)
      /\ zombie_list' = zombie_list \ {c}
      /\ free_pcbs' = free_pcbs \cup {c}
      /\ free_ptrs' = free_ptrs + 1
      /\ last_wait' = [last_wait EXCEPT ![running] = arg]
      /\ UNCHANGED << running, status, ready_list, waiting_list, timer_list,
                      pid, parent, return_value, signals, last_pid, forked, failure >>
  BY <1>1 DEF Return, ChildReaped, Removed, PCB_free, Called
<1>3. ProcessTypeOK /\ ListsInv
  BY DEF ProcessInv
<1>4. /\ running \in Proc /\ Living(running) /\ A \in SUBSET Proc /\ Allocated \in SUBSET Proc
      /\ Forest(children, A)
  BY RunningLives DEF ProcessInv, TreeInv
<1> HIDE DEF c
<1>5. /\ Forest(children', A \ {c})
      /\ c \in Range(children[running])
      /\ \A p \in Proc : Range(children'[p]) = Range(children[p]) \ {c}
      /\ \A p \in Proc : p # running => children'[p] = children[p]
  <2>1. /\ Forest(Removed(children, running, i), A \ {c})
        /\ c \in Range(children[running])
        /\ \A p \in Proc : Range(Removed(children, running, i)[p]) = Range(children[p]) \ {c}
        /\ \A p \in Proc : p # running => Removed(children, running, i)[p] = children[p]
    <3> HIDE DEF A
    <3> QED BY <1>4, ForestRemove DEF c
  <2> QED BY <1>2, <2>1
<1>6. c \in Proc /\ c \in Allocated /\ c # init_pcb
  BY <1>4, <1>5 DEF Forest
<1>7. Allocated' = Allocated \ {c} /\ A \ {c} = Allocated' \ {init_pcb}
  BY <1>2, <1>6 DEF Allocated
<1>8. PtrsInv' /\ free_ptrs' \in 0 .. PCBPtrs
  <2>1. IsFiniteSet(Allocated) /\ IsFiniteSet(Allocated')
    BY <1>4, <1>7, SchedulerAssumption, FS_Subset
  <2>2. /\ Cardinality(Allocated) \in Nat /\ Cardinality(Allocated') \in Nat
        /\ Cardinality(Allocated') = Cardinality(Allocated) - 1
    BY <1>6, <1>7, <2>1, FS_CardinalityType, FS_RemoveElement
  <2>3. Cardinality(Allocated') # 0
    <3>1. init_pcb \in Allocated'
      BY <1>6, <1>7 DEF ProcessInv, PidsInv
    <3> QED BY <2>1, <3>1, FS_EmptySet
  <2>4. free_ptrs \in Nat /\ PCBPtrs \in Nat
    BY <1>3, ProcessAssumption DEF ProcessTypeOK
  <2>5. free_ptrs + Cardinality(Allocated) <= PCBPtrs + 1
    BY DEF ProcessInv, PtrsInv
  <2> QED BY <1>2, <2>2, <2>3, <2>4, <2>5 DEF PtrsInv
<1>9. ProcessTypeOK'
  <2>1. /\ syscall_retvalue' \in [Proc -> Int] /\ wait_result' \in [Proc -> Int]
        /\ zombie_list' \subseteq Proc /\ free_pcbs' \subseteq Proc
        /\ last_wait' \in [Proc -> Int]
    <3>1. pid[c] \in Int /\ return_value[c] \in Int /\ arg \in Int
      BY <1>3, <1>6, ProcessAssumption DEF ProcessTypeOK
    <3> QED BY <1>2, <1>3, <1>6, <3>1 DEF ProcessTypeOK
  <2>2. children' \in [Proc -> Seq(Proc)]
    BY <1>5 DEF Forest
  <2> QED BY <1>2, <1>3, <1>8, <2>1, <2>2 DEF ProcessTypeOK
<1>20. /\ \A p \in Proc : p # running => last_wait'[p] = last_wait[p]
       /\ status[running] = Waiting =>
            running \in waiting_list /\ running \in Range(Owners(timer_list))
  BY <1>2, <1>3 DEF ListsInv, RunningMatches, ProcessTypeOK
<1>10. ListsInv'
  <2>1. ReadyListMatches' /\ RunningMatches'
    BY <1>2, <1>3 DEF ListsInv, ReadyListMatches, RunningMatches
  <2>2. zombie_list' = { p \in Allocated' : status'[p] = Zombie }
    BY <1>2, <1>3, <1>7 DEF ListsInv
  <2>3. \A p \in Proc : p \in free_pcbs' => ~Living(p)'
    BY <1>2, <1>3 DEF ListsInv, Living, Zombie
  <2>4. \A p \in Allocated' : status'[p] # Created
    BY <1>2, <1>3, <1>7 DEF ListsInv
  <2>5. NoOverdueTimer'
    BY <1>2, <1>3 DEF ListsInv, NoOverdueTimer, TimerElapsed
  <2>6. \A p \in Proc : status'[p] = Waiting /\ last_wait'[p] # NotInWait
                           => p \in waiting_list'
    BY <1>2, <1>3, <1>20 DEF ListsInv
  <2> QED BY <1>2, <1>3, <2>1, <2>2, <2>3, <2>4, <2>5, <2>6 DEF ListsInv
<1>11. PidsInv'
  BY <1>2, <1>6, <1>7 DEF ProcessInv, PidsInv, Living
<1>12. TreeInv'
  <2>1. \A p \in Proc : ~Living(p)' => children'[p] = << >>
    BY <1>2, <1>4, <1>5 DEF ProcessInv, TreeInv, Living
  <2> QED BY <1>5, <1>7, <2>1 DEF TreeInv
<1>13. ParentInv'
  BY <1>2, <1>5 DEF ProcessInv, ParentInv
<1>14. WaitInv'
  BY <1>2, <1>5, <1>20 DEF ProcessInv, WaitInv
<1>15. WaitsElsewhere' = WaitsElsewhere
  BY <1>2 DEF WaitsElsewhere
<1> QED BY <1>8, <1>9, <1>10, <1>11, <1>12, <1>13, <1>14, <1>15 DEF ProcessInv

\* The search of internal_wait has not passed over a zombie that it wants.
LEMMA NoZombieWanted ==
  ASSUME ProcessInv, NEW arg \in WaitArgs, MustWait(arg),
         NEW c \in Range(children[running]), status[c] = Zombie
  PROVE  arg \notin {AnyChild, pid[c]}
<1> DEFINE cs == children[running]
<1>1. PICK i \in DOMAIN cs : Awaited(i, arg) /\ status[cs[i]] # Zombie
  BY DEF MustWait
<1>2. /\ cs \in Seq(Proc) /\ IsInjective(cs) /\ Range(cs) \subseteq Allocated
      /\ DOMAIN cs = 1 .. Len(cs) /\ Len(cs) \in Nat
  <2>1. cs \in Seq(Proc) /\ IsInjective(cs) /\ Range(cs) \subseteq Allocated
    BY RunningLives DEF ProcessInv, TreeInv, Forest
  <2> QED BY <2>1, InRange
<1>3. PICK j \in 1 .. Len(cs) : cs[j] = c
  BY <1>2 DEF Range
<1>4. /\ \A k \in 1 .. i - 1 : ~Searched(cs[k], arg)
      /\ Searched(cs[i], arg) \/ i = Len(cs)
  BY <1>1 DEF Awaited
<1>5. SUFFICES ASSUME arg \in {AnyChild, pid[c]}
               PROVE  FALSE
  OBVIOUS
<1> HIDE DEF cs
<1>6. Searched(c, arg)
  BY <1>5 DEF Searched
<1>7. i \in 1 .. Len(cs) /\ i # j /\ ~(j < i)
  <2>1. i \in 1 .. Len(cs) /\ i # j
    BY <1>1, <1>2, <1>3
  <2>2. j < i => j \in 1 .. i - 1
    BY <1>2, <2>1
  <2> QED BY <1>3, <1>4, <1>6, <2>1, <2>2
<1>8. i < j /\ i # Len(cs)
  BY <1>2, <1>7
<1>9. Searched(cs[i], arg)
  BY <1>4, <1>8
<1>10. arg # AnyChild /\ pid[cs[i]] = arg /\ pid[c] = arg
  BY <1>1, <1>5, <1>9 DEF Searched
<1>11. cs[i] \in Allocated /\ c \in Allocated
  BY <1>2, <1>3, <1>7 DEF Range
<1>12. cs[i] = c
  BY <1>10, <1>11 DEF ProcessInv, PidsInv
<1> QED BY <1>1, <1>12

\* wait, when the caller has to block.
LEMMA WaitBlocksInv ==
  ASSUME ProcessInv, NEW arg \in WaitArgs, WaitBlocks(arg)
  PROVE  ProcessInv' /\ WaitsElsewhere' = WaitsElsewhere
<1> USE DEF ProcessStatus, Running, Ready, Waiting
<1> DEFINE next == Head(ready_list)
<1>1. /\ MustWait(arg) /\ running \notin waiting_list /\ ready_list # << >>
      /\ Result(NoResult)
      /\ waiting_list' = waiting_list \cup {running}
      /\ last_wait' = [last_wait EXCEPT ![running] = arg]
      /\ running' = next
      /\ ready_list' = Tail(ready_list)
      /\ status' = [[status EXCEPT ![running] = Waiting] EXCEPT ![next] = Running]
      /\ UNCHANGED << timer_list, pid, parent, children, return_value, signals,
                      zombie_list, free_pcbs, free_ptrs, last_pid, forked, failure >>
  BY DEF WaitBlocks, RunNext, Called
<1>2. ProcessTypeOK /\ ListsInv
  BY DEF ProcessInv
<1>3. /\ running \in Proc /\ running \in Allocated /\ status[running] = Running
      /\ Allocated \in SUBSET Proc
  BY <1>1, RunningLives
<1>4. /\ next \in Proc /\ status[next] = Ready
      /\ next # running /\ next \notin waiting_list
      /\ Tail(ready_list) \in Seq(Proc) /\ IsInjective(Tail(ready_list))
      /\ Range(Tail(ready_list)) = { p \in Proc : status[p] = Ready } \ {next}
  BY <1>1, NextOne
<1> HIDE DEF next
<1>5. /\ status' \in [Proc -> ProcessStates]
      /\ \A p \in Proc : status'[p] = IF p = next THEN Running
                                      ELSE IF p = running THEN Waiting ELSE status[p]
  BY <1>1, <1>2, <1>3, <1>4 DEF ProcessTypeOK, ProcessStates
<1>6. /\ last_wait' \in [Proc -> Int]
      /\ \A p \in Proc : last_wait'[p] = IF p = running THEN arg ELSE last_wait[p]
  BY <1>1, <1>2, ProcessAssumption DEF ProcessTypeOK
<1>7. Allocated' = Allocated /\ \A p \in Proc : Living(p)' <=> Living(p)
  BY <1>1, <1>3, <1>4, <1>5 DEF Allocated, Living
<1>8. ProcessTypeOK'
  <2>1. syscall_retvalue' \in [Proc -> Int] /\ wait_result' \in [Proc -> Int]
    BY <1>1, ResultTyped DEF NoResult
  <2>2. /\ running' \in Proc /\ ready_list' \in Seq(Proc) /\ waiting_list' \subseteq Proc
    BY <1>1, <1>2, <1>3, <1>4 DEF ProcessTypeOK
  <2> QED BY <1>1, <1>2, <1>5, <1>6, <2>1, <2>2 DEF ProcessTypeOK
<1>9. ListsInv'
  <2>1. ReadyListMatches'
    <3>1. Range(ready_list') = { p \in Proc : status'[p] = Ready }
      BY <1>1, <1>3, <1>4, <1>5
    <3> QED BY <1>1, <1>4, <3>1 DEF ReadyListMatches
  <2>2. RunningMatches'
    BY <1>1, <1>2, <1>4, <1>5 DEF ListsInv, RunningMatches
  <2>3. \A p \in waiting_list' : status'[p] = Waiting
    BY <1>1, <1>2, <1>3, <1>4, <1>5 DEF ProcessTypeOK, ListsInv
  <2>4. zombie_list' = { p \in Allocated' : status'[p] = Zombie }
    BY <1>1, <1>2, <1>3, <1>4, <1>5, <1>7 DEF ListsInv, Zombie
  <2>5. \A p \in Proc : p \in free_pcbs' => ~Living(p)'
    BY <1>1, <1>2, <1>7 DEF ListsInv
  <2>6. \A p \in Allocated' : status'[p] # Created
    BY <1>2, <1>3, <1>5, <1>7 DEF ListsInv, Created
  <2>7. \A p \in Proc : status'[p] = Waiting /\ last_wait'[p] # NotInWait
                           => p \in waiting_list'
    BY <1>1, <1>2, <1>3, <1>4, <1>5, <1>6 DEF ListsInv
  <2>8. /\ Sorted(timer_list)' /\ IsInjective(Owners(timer_list')) /\ NoOverdueTimer'
    BY <1>1, <1>2 DEF ListsInv, NoOverdueTimer, TimerElapsed
  <2>9. running' \notin waiting_list'
    BY <1>1, <1>4
  <2> QED BY <2>1, <2>2, <2>3, <2>4, <2>5, <2>6, <2>7, <2>8, <2>9 DEF ListsInv
<1>10. PidsInv'
  BY <1>1, <1>7, RunningLives DEF ProcessInv, PidsInv
<1>11. TreeInv'
  BY <1>1, <1>7 DEF ProcessInv, TreeInv
<1>12. ParentInv'
  BY <1>1 DEF ProcessInv, ParentInv
<1>13. WaitInv'
  <2> SUFFICES ASSUME NEW p \in Proc, NEW c \in Range(children[p]), parent[c] = p,
                      status'[c] = Zombie, status'[p] = Waiting,
                      p \notin Range(Owners(timer_list))
               PROVE  last_wait'[p] \notin {AnyChild, pid[c]}
    BY <1>1 DEF WaitInv
  <2>1. c \in Proc
    BY DEF ProcessInv, TreeInv, Forest, Allocated
  <2>2. status[c] = Zombie
    BY <1>5, <2>1 DEF Zombie
  <2>3. CASE p = running
    BY <1>1, <1>6, <2>2, <2>3, NoZombieWanted
  <2>4. CASE p # running
    BY <1>5, <1>6, <2>2, <2>4 DEF ProcessInv, WaitInv
  <2> QED BY <2>3, <2>4
<1>14. PtrsInv'
  BY <1>1, <1>7 DEF ProcessInv, PtrsInv
<1>15. WaitsElsewhere' = WaitsElsewhere
  BY <1>1, <1>3, <1>4, <1>5 DEF WaitsElsewhere
<1> QED BY <1>8, <1>9, <1>10, <1>11, <1>12, <1>13, <1>14, <1>15 DEF ProcessInv

-----------------------------------------------------------------------------
\* The loop of internal_exit: every child has a list, and those that init
\* gets have been told.
LEMMA OrphanedTree ==
  ASSUME ProcessInv, running # init_pcb
  PROVE  /\ Forest(Orphaned, Allocated \ {init_pcb})
         /\ Orphaned[running] = << >>
         /\ \A p \in Proc \ {init_pcb, running} : Orphaned[p] = children[p]
         /\ Signalled \in [Proc -> SUBSET {SIGCHLD, SIGHUP}]
         /\ \A p \in Proc : \A c \in Range(Orphaned[p]) :
              parent[c] = p \/ (p = init_pcb /\ SIGHUP \in Signalled[c])
         /\ \A p \in Proc : \A c \in Range(Orphaned[p]) :
              parent[c] = p => c \in Range(children[p])
<1> DEFINE A == Allocated \ {init_pcb}
<1>1. /\ running \in Proc /\ running \in Allocated /\ init_pcb \in Proc
      /\ A \in SUBSET Proc /\ parent[running] \in Proc
  BY RunningLives DEF ProcessInv, PidsInv
<1>2. Forest(children, A)
  BY DEF ProcessInv, TreeInv
<1>3. Orphaned = Moved(children, init_pcb, running)
  BY DEF Orphaned, Moved
<1> HIDE DEF A
<1>4. /\ Forest(Orphaned, A)
      /\ Range(Orphaned[init_pcb]) = Range(children[init_pcb]) \cup Range(children[running])
      /\ Orphaned[running] = << >>
      /\ \A p \in Proc \ {init_pcb, running} : Orphaned[p] = children[p]
  <2>1. running \in Proc \ {init_pcb}
    BY <1>1
  <2> DEFINE new == Moved(children, init_pcb, running)
  <2>2. /\ Forest(new, A)
        /\ Range(new[init_pcb]) = Range(children[init_pcb]) \cup Range(children[running])
        /\ new[running] = << >>
        /\ \A p \in Proc \ {init_pcb, running} : new[p] = children[p]
    BY <1>1, <1>2, <2>1, ForestMove
  <2> HIDE DEF new
  <2> QED BY <1>3, <2>2 DEF new
<1>5. Range(Orphaned[running]) = {}
  BY <1>4 DEF Range
<1>6. /\ Signalled \in [Proc -> SUBSET {SIGCHLD, SIGHUP}]
      /\ \A p \in Proc : signals[p] \subseteq Signalled[p]
      /\ \A p \in Range(children[running]) : SIGHUP \in Signalled[p]
  <2> DEFINE hangup == [p \in Proc |-> IF p \in Range(children[running])
                                       THEN signals[p] \cup {SIGHUP} ELSE signals[p]]
  <2>1. signals \in [Proc -> SUBSET {SIGCHLD, SIGHUP}] /\ Range(children[running]) \subseteq Proc
    BY <1>1, <1>2 DEF ProcessInv, ProcessTypeOK, Forest
  <2>2. Signalled = [hangup EXCEPT ![parent[running]] = @ \cup {SIGCHLD}]
    BY DEF Signalled
  <2>3. /\ hangup \in [Proc -> SUBSET {SIGCHLD, SIGHUP}]
        /\ \A p \in Proc : signals[p] \subseteq hangup[p]
        /\ \A p \in Range(children[running]) : SIGHUP \in hangup[p]
    BY <2>1
  <2> HIDE DEF hangup
  <2>4. \A p \in Proc : hangup[p] \subseteq Signalled[p]
    BY <1>1, <2>2, <2>3
  <2>5. Signalled \in [Proc -> SUBSET {SIGCHLD, SIGHUP}]
    BY <1>1, <2>2, <2>3
  <2> QED BY <2>1, <2>3, <2>4, <2>5
<1>7. ASSUME NEW p \in Proc, NEW c \in Range(Orphaned[p])
      PROVE  /\ parent[c] = p \/ (p = init_pcb /\ SIGHUP \in Signalled[c])
             /\ parent[c] = p => c \in Range(children[p])
  <2>1. \A q \in Proc : \A d \in Range(children[q]) :
          parent[d] = q \/ (q = init_pcb /\ SIGHUP \in signals[d])
    BY DEF ProcessInv, ParentInv
  <2>2. c \in Proc
    BY <1>1, <1>4, <1>7 DEF Forest
  <2>3. CASE p = running
    BY <1>5, <1>7, <2>3
  <2>4. CASE p \in Proc \ {init_pcb, running}
    BY <1>4, <1>7, <2>1, <2>4
  <2>5. CASE p = init_pcb
    <3>1. CASE c \in Range(children[init_pcb])
      BY <1>1, <1>6, <2>1, <2>2, <2>5, <3>1
    <3>2. CASE c \in Range(children[running])
      BY <1>1, <1>6, <2>1, <2>5, <3>2
    <3> QED BY <1>4, <1>7, <2>5, <3>1, <3>2
  <2> QED BY <2>3, <2>4, <2>5
<1> QED BY <1>4, <1>6, <1>7 DEF A

\* exit, when nobody waits for it.
LEMMA ExitLeavesZombieInv ==
  ASSUME ProcessInv, running # init_pcb, NEW value \in Int, ExitLeavesZombie(value)
  PROVE  ProcessInv' /\ WaitsElsewhere' = WaitsElsewhere
<1> USE DEF ProcessStatus, Running, Ready, Waiting
<1> DEFINE next == Head(ready_list)
<1>1. /\ running \notin waiting_list /\ ~ParentWaits /\ ready_list # << >>
      /\ Result(NoResult)
      /\ children' = Orphaned
      /\ return_value' = [return_value EXCEPT ![running] = value]
      /\ signals' = Signalled
      /\ zombie_list' = zombie_list \cup {running}
      /\ running' = next
      /\ ready_list' = Tail(ready_list)
      /\ status' = [[status EXCEPT ![running] = Zombie] EXCEPT ![next] = Running]
      /\ last_wait' = [last_wait EXCEPT ![running] = NotInWait]
      /\ UNCHANGED << waiting_list, timer_list, pid, parent, free_pcbs, free_ptrs,
                      last_pid, forked, failure >>
  BY DEF ExitLeavesZombie, RunNext, CalledOther, Called
<1>2. ProcessTypeOK /\ ListsInv
  BY DEF ProcessInv
<1>3. /\ running \in Proc /\ running \in Allocated /\ status[running] = Running
      /\ Allocated \in SUBSET Proc /\ \A p \in Proc : Living(p) => p \in Allocated
  BY <1>1, RunningLives
<1>4. /\ next \in Proc /\ status[next] = Ready
      /\ next # running /\ next \notin waiting_list
      /\ Tail(ready_list) \in Seq(Proc) /\ IsInjective(Tail(ready_list))
      /\ Range(Tail(ready_list)) = { p \in Proc : status[p] = Ready } \ {next}
  BY <1>1, NextOne
<1> HIDE DEF next
<1>5. /\ status' \in [Proc -> ProcessStates]
      /\ \A p \in Proc : status'[p] = IF p = next THEN Running
                                      ELSE IF p = running THEN Zombie ELSE status[p]
  BY <1>1, <1>2, <1>3, <1>4 DEF ProcessTypeOK, ProcessStates
<1>6. Allocated' = Allocated /\ \A p \in Proc : Living(p)' <=> (Living(p) /\ p # running)
  BY <1>1, <1>3, <1>4, <1>5 DEF Allocated, Living, Zombie
<1>7. /\ Forest(Orphaned, Allocated \ {init_pcb})
      /\ Orphaned[running] = << >>
      /\ \A p \in Proc \ {init_pcb, running} : Orphaned[p] = children[p]
      /\ Signalled \in [Proc -> SUBSET {SIGCHLD, SIGHUP}]
      /\ \A p \in Proc : \A c \in Range(Orphaned[p]) :
           parent[c] = p \/ (p = init_pcb /\ SIGHUP \in Signalled[c])
      /\ \A p \in Proc : \A c \in Range(Orphaned[p]) :
           parent[c] = p => c \in Range(children[p])
  BY OrphanedTree
<1>8. ProcessTypeOK'
  <2>1. syscall_retvalue' \in [Proc -> Int] /\ wait_result' \in [Proc -> Int]
    BY <1>1, ResultTyped DEF NoResult
  <2>2. /\ running' \in Proc /\ ready_list' \in Seq(Proc) /\ waiting_list' \subseteq Proc
        /\ zombie_list' \subseteq Proc /\ return_value' \in [Proc -> Int]
    BY <1>1, <1>2, <1>3, <1>4 DEF ProcessTypeOK
  <2>4. last_wait' \in [Proc -> Int]
    BY <1>1, <1>2 DEF ProcessTypeOK, NotInWait
  <2>3. children' \in [Proc -> Seq(Proc)] /\ signals' \in [Proc -> SUBSET {SIGCHLD, SIGHUP}]
    BY <1>1, <1>7 DEF Forest
  <2> QED BY <1>1, <1>2, <1>5, <2>1, <2>2, <2>3, <2>4 DEF ProcessTypeOK
<1>9. ListsInv'
  <2>1. ReadyListMatches'
    <3>1. Range(ready_list') = { p \in Proc : status'[p] = Ready }
      BY <1>1, <1>3, <1>4, <1>5 DEF Zombie
    <3> QED BY <1>1, <1>4, <3>1 DEF ReadyListMatches
  <2>2. RunningMatches'
    BY <1>1, <1>2, <1>4, <1>5 DEF ListsInv, RunningMatches, Zombie
  <2>3. \A p \in waiting_list' : status'[p] = Waiting
    BY <1>1, <1>2, <1>3, <1>4, <1>5 DEF ProcessTypeOK, ListsInv, Zombie
  <2>4. zombie_list' = { p \in Allocated' : status'[p] = Zombie }
    BY <1>1, <1>2, <1>3, <1>4, <1>5, <1>6 DEF ListsInv, Zombie
  <2>5. \A p \in Proc : p \in free_pcbs' => ~Living(p)'
    BY <1>1, <1>2, <1>6 DEF ListsInv
  <2>6. \A p \in Allocated' : status'[p] # Created
    BY <1>2, <1>3, <1>5, <1>6 DEF ListsInv, Created, Zombie
  <2>7. \A p \in Proc : status'[p] = Waiting /\ last_wait'[p] # NotInWait
                           => p \in waiting_list'
    BY <1>1, <1>2, <1>3, <1>4, <1>5 DEF ListsInv, Zombie
  <2>8. /\ Sorted(timer_list)' /\ IsInjective(Owners(timer_list')) /\ NoOverdueTimer'
    BY <1>1, <1>2 DEF ListsInv, NoOverdueTimer, TimerElapsed
  <2>9. running' \notin waiting_list'
    BY <1>1, <1>4
  <2> QED BY <2>1, <2>2, <2>3, <2>4, <2>5, <2>6, <2>7, <2>8, <2>9 DEF ListsInv
<1>10. PidsInv'
  BY <1>1, <1>6, RunningLives DEF ProcessInv, PidsInv
<1>11. TreeInv'
  <2>1. ASSUME NEW p \in Proc, ~Living(p)' PROVE children'[p] = << >>
    <3>1. CASE p = running
      BY <1>1, <1>7, <3>1
    <3>2. CASE p # running
      <4>1. ~Living(p) /\ p # init_pcb
        BY <1>6, <2>1, <3>2 DEF ProcessInv, PidsInv
      <4> QED BY <1>1, <1>7, <3>2, <4>1 DEF ProcessInv, TreeInv
    <3> QED BY <3>1, <3>2
  <2>2. Forest(children', Allocated' \ {init_pcb})
    BY <1>1, <1>6, <1>7
  <2> QED BY <2>1, <2>2 DEF TreeInv
<1>12. ParentInv'
  BY <1>1, <1>7 DEF ParentInv
<1>13. WaitInv'
  <2> SUFFICES ASSUME NEW p \in Proc, NEW c \in Range(Orphaned[p]), parent[c] = p,
                      status'[c] = Zombie, status'[p] = Waiting,
                      p \notin Range(Owners(timer_list))
               PROVE  last_wait[p] \notin {AnyChild, pid[c]}
    <3>1. \A p \in Proc : status'[p] = Waiting => last_wait'[p] = last_wait[p]
      BY <1>1, <1>5 DEF Zombie
    <3> QED BY <1>1, <3>1 DEF WaitInv
  <2>1. c \in Proc
    BY <1>3, <1>7 DEF Forest
  <2>2. status[p] = Waiting
    BY <1>5 DEF Zombie
  <2>3. CASE c = running
    BY <1>1, <2>2, <2>3 DEF ParentWaits
  <2>4. CASE c # running
    <3>1. status[c] = Zombie
      BY <1>5, <2>1, <2>4 DEF Zombie
    <3> QED BY <1>7, <2>2, <3>1 DEF ProcessInv, WaitInv
  <2> QED BY <2>3, <2>4
<1>14. PtrsInv'
  BY <1>1, <1>6 DEF ProcessInv, PtrsInv
<1>15. WaitsElsewhere' = WaitsElsewhere
  BY <1>1, <1>3, <1>4, <1>5 DEF WaitsElsewhere, Zombie
<1> QED BY <1>8, <1>9, <1>10, <1>11, <1>12, <1>13, <1>14, <1>15 DEF ProcessInv


\* The timer of the process that ends, if it has one, leaves the list.
LEMMA TimerReleasedLists ==
  ASSUME ProcessInv, TimerReleased
  PROVE  /\ timer_list' \in Seq(Timer) /\ Sorted(timer_list)' /\ NoOverdueTimer'
         /\ IsInjective(Owners(timer_list'))
         /\ Range(Owners(timer_list')) = Range(Owners(timer_list)) \ {running}
<1>1. /\ timer_list \in Seq(Timer) /\ Sorted(timer_list) /\ NoOverdueTimer
      /\ IsInjective(Owners(timer_list))
  BY DEF ProcessInv, ProcessTypeOK, ListsInv
<1>2. CASE ~HasTimer(running) /\ UNCHANGED timer_list
  <2>1. running \notin Range(Owners(timer_list))
    BY <1>2, TimerOwned
  <2> QED BY <1>1, <1>2, <2>1 DEF Sorted, NoOverdueTimer
<1>3. ASSUME NEW i \in DOMAIN timer_list,
             timer_list[i].pcb = running, timer_list' = RemoveAt(timer_list, i)
      PROVE  /\ timer_list' \in Seq(Timer) /\ Sorted(timer_list)' /\ NoOverdueTimer'
             /\ IsInjective(Owners(timer_list'))
             /\ Range(Owners(timer_list')) = Range(Owners(timer_list)) \ {running}
  <2> DEFINE os == Owners(timer_list)
             n  == Len(timer_list)
  <2>1. DOMAIN timer_list = 1 .. n /\ n \in Nat /\ i \in 1 .. n
    BY <1>1, LenProperties
  <2>2. /\ timer_list' \in Seq(Timer) /\ Len(timer_list') = n - 1
        /\ \A j \in 1 .. n - 1 :
             timer_list'[j] = IF j < i THEN timer_list[j] ELSE timer_list[j + 1]
    BY <1>1, <1>3, <2>1, RemoveAtItems
  <2>3. DOMAIN timer_list' = 1 .. n - 1
    BY <2>2, LenProperties
  <2>4. \A j \in 1 .. n - 1 : j \in 1 .. n /\ j + 1 \in 1 .. n
    BY <2>1
  <2>5. NoOverdueTimer'
    BY <1>1, <2>1, <2>2, <2>3, <2>4 DEF NoOverdueTimer
  <2>6. Sorted(timer_list)'
    <3> SUFFICES ASSUME NEW j \in 1 .. n - 1, NEW k \in 1 .. n - 1, j <= k
                 PROVE  timer_list'[j].left <= timer_list'[k].left
      BY <2>3 DEF Sorted
    <3>1. \A x, y \in 1 .. n : x <= y => timer_list[x].left <= timer_list[y].left
      BY <1>1, <2>1 DEF Sorted
    <3>2. CASE j < i /\ k < i
      BY <2>2, <2>4, <3>1, <3>2
    <3>3. CASE j < i /\ ~(k < i)
      <4>1. j <= k + 1
        BY <2>1
      <4> QED BY <2>2, <2>4, <3>1, <3>3, <4>1
    <3>4. CASE ~(j < i)
      <4>1. ~(k < i) /\ j + 1 <= k + 1
        BY <2>1, <3>4
      <4> QED BY <2>2, <2>4, <3>1, <3>4, <4>1
    <3> QED BY <3>2, <3>3, <3>4
  <2>7. /\ os \in Seq(Proc) /\ Len(os) = n
        /\ \A j \in 1 .. n : os[j] = timer_list[j].pcb
    BY <1>1, OwnersOfTimers
  <2>8. /\ Owners(timer_list') \in Seq(Proc) /\ Len(Owners(timer_list')) = n - 1
        /\ \A j \in 1 .. n - 1 : Owners(timer_list')[j] = timer_list'[j].pcb
    BY <2>2, OwnersOfTimers
  <2> HIDE DEF os
  <2>9. /\ RemoveAt(os, i) \in Seq(Proc) /\ Len(RemoveAt(os, i)) = n - 1
        /\ \A j \in 1 .. n - 1 : RemoveAt(os, i)[j] = IF j < i THEN os[j] ELSE os[j + 1]
    BY <2>1, <2>7, RemoveAtItems
  <2>10. Owners(timer_list') = RemoveAt(os, i)
    <3>1. \A j \in 1 .. n - 1 : Owners(timer_list')[j] = RemoveAt(os, i)[j]
      BY <2>2, <2>4, <2>7, <2>8, <2>9
    <3> QED BY <2>8, <2>9, <3>1, SeqEqual
  <2>11. /\ IsInjective(RemoveAt(os, i))
         /\ Range(RemoveAt(os, i)) = Range(os) \ {os[i]}
    <3>1. IsInjective(os)
      BY <1>1 DEF os
    <3> QED BY <2>1, <2>7, <3>1, RemoveAtList
  <2>12. os[i] = running
    BY <1>3, <2>1, <2>7
  <2> QED BY <2>2, <2>5, <2>6, <2>10, <2>11, <2>12 DEF os
<1> QED BY <1>2, <1>3 DEF TimerReleased

\* The parent that exit wakes, and the item of the one that ends in its list.
LEMMA ParentWakes ==
  ASSUME ProcessInv, running # init_pcb, ParentWaits,
         NEW i \in DOMAIN Orphaned[parent[running]], ListedAt(i)
  PROVE  /\ parent[running] \in Proc \ {running}
         /\ status[parent[running]] = Waiting /\ parent[running] \in Allocated
         /\ parent[running] \in waiting_list
         /\ Orphaned[parent[running]][i] = running
<1> DEFINE P == parent[running]
<1>1. running \in Proc /\ running \in Allocated /\ Allocated \in SUBSET Proc
      /\ \A p \in Proc : Living(p) => p \in Allocated
  BY RunningLives
<1>2. P \in Proc \ {running}
  BY <1>1 DEF ProcessInv, PidsInv
<1>3. status[P] = Waiting /\ last_wait[P] \in {AnyChild, pid[running]}
  BY DEF ParentWaits
<1>4. P \in Allocated
  BY <1>1, <1>2, <1>3 DEF Living, ProcessStatus, Waiting
<1>5. P \in waiting_list
  <2>1. pid[running] \in Nat
    BY <1>1 DEF ProcessInv, ProcessTypeOK
  <2>2. last_wait[P] # NotInWait
    BY <1>3, <2>1 DEF AnyChild, NotInWait
  <2> QED BY <1>2, <1>3, <2>2 DEF ProcessInv, ListsInv
<1>6. Orphaned[P][i] = running
  <2>1. Forest(Orphaned, Allocated \ {init_pcb})
    BY OrphanedTree
  <2>2. Orphaned[P][i] \in Range(Orphaned[P])
    BY DEF Range
  <2>3. Orphaned[P][i] \in Allocated
    BY <1>2, <2>1, <2>2 DEF Forest
  <2>4. pid[Orphaned[P][i]] = pid[running]
    BY DEF ListedAt, PCBPtr_byPID
  <2> QED BY <1>1, <2>3, <2>4 DEF ProcessInv, PidsInv
<1> QED BY <1>2, <1>3, <1>4, <1>5, <1>6

\* exit, when the parent waits for it.
LEMMA ExitWakesParentInv ==
  ASSUME ProcessInv, running # init_pcb, NEW value \in Int, ExitWakesParent(value)
  PROVE  ProcessInv' /\ WaitsElsewhere' = WaitsElsewhere
<1> USE DEF ProcessStatus, Running, Ready, Waiting, Zombie
<1> DEFINE P == parent[running]
<1>1. /\ running \notin waiting_list /\ ParentWaits
      /\ running' = P
      /\ status' = [status EXCEPT ![running] = Zombie, ![P] = Running]
      /\ waiting_list' = waiting_list \ {P}
      /\ last_wait' = [last_wait EXCEPT ![running] = NotInWait]
      /\ syscall_retvalue' = [syscall_retvalue EXCEPT ![running] = NoResult,
                                                      ![P] = pid[running]]
      /\ return_value' = [return_value EXCEPT ![running] = value]
      /\ wait_result' = [wait_result EXCEPT ![running] = NoResult, ![P] = value]
      /\ signals' = Signalled
      /\ TimerReleased
      /\ free_pcbs' = free_pcbs \cup {running}
      /\ UNCHANGED << ready_list, pid, parent, zombie_list, free_ptrs, last_pid,
                      forked, failure >>
  BY DEF ExitWakesParent, PCB_free, CalledOther, Called
<1>2. PICK i \in DOMAIN Orphaned[P] : ListedAt(i) /\ children' = Removed(Orphaned, P, i)
  BY DEF ExitWakesParent, Removed
<1>3. ProcessTypeOK /\ ListsInv
  BY DEF ProcessInv
<1>4. /\ running \in Proc /\ running \in Allocated /\ status[running] = Running
      /\ Allocated \in SUBSET Proc /\ \A p \in Proc : Living(p) => p \in Allocated
  BY <1>1, RunningLives
<1>5. /\ P \in Proc \ {running} /\ status[P] = Waiting /\ P \in Allocated
      /\ P \in waiting_list /\ Orphaned[P][i] = running
  BY <1>1, <1>2, ParentWakes
<1>20. /\ timer_list' \in Seq(Timer) /\ Sorted(timer_list)' /\ NoOverdueTimer'
       /\ IsInjective(Owners(timer_list'))
       /\ Range(Owners(timer_list')) = Range(Owners(timer_list)) \ {running}
  BY <1>1, TimerReleasedLists
<1> HIDE DEF P
<1>6. /\ status' \in [Proc -> ProcessStates]
      /\ \A p \in Proc : status'[p] = IF p = P THEN Running
                                      ELSE IF p = running THEN Zombie ELSE status[p]
  BY <1>1, <1>3, <1>4, <1>5 DEF ProcessTypeOK, ProcessStates
<1>7. /\ Allocated' = Allocated \ {running}
      /\ \A p \in Proc : Living(p)' <=> (Living(p) /\ p # running)
  BY <1>1, <1>4, <1>5, <1>6 DEF Allocated, Living
<1>8. /\ Forest(Orphaned, Allocated \ {init_pcb})
      /\ Orphaned[running] = << >>
      /\ \A p \in Proc \ {init_pcb, running} : Orphaned[p] = children[p]
      /\ Signalled \in [Proc -> SUBSET {SIGCHLD, SIGHUP}]
      /\ \A p \in Proc : \A c \in Range(Orphaned[p]) :
           parent[c] = p \/ (p = init_pcb /\ SIGHUP \in Signalled[c])
      /\ \A p \in Proc : \A c \in Range(Orphaned[p]) :
           parent[c] = p => c \in Range(children[p])
  BY OrphanedTree
<1>9. /\ Forest(children', Allocated' \ {init_pcb})
      /\ \A p \in Proc : Range(children'[p]) = Range(Orphaned[p]) \ {running}
      /\ \A p \in Proc : p # P => children'[p] = Orphaned[p]
  <2> DEFINE A == Allocated \ {init_pcb}
             cs == Orphaned
  <2>1. A \in SUBSET Proc /\ Forest(cs, A) /\ P \in Proc /\ i \in DOMAIN cs[P]
    BY <1>2, <1>4, <1>5, <1>8
  <2>2. A \ {running} = Allocated' \ {init_pcb} /\ cs[P][i] = running
    BY <1>5, <1>7
  <2>3. children' = Removed(cs, P, i)
    BY <1>2
  <2> HIDE DEF A, cs
  <2>4. /\ Forest(Removed(cs, P, i), A \ {cs[P][i]})
        /\ \A p \in Proc : Range(Removed(cs, P, i)[p]) = Range(cs[p]) \ {cs[P][i]}
        /\ \A p \in Proc : p # P => Removed(cs, P, i)[p] = cs[p]
    <3>1. \A f, B, q : B \in SUBSET Proc /\ Forest(f, B) /\ q \in Proc =>
            \A k \in DOMAIN f[q] :
              /\ Forest(Removed(f, q, k), B \ {f[q][k]})
              /\ \A p \in Proc : Range(Removed(f, q, k)[p]) = Range(f[p]) \ {f[q][k]}
              /\ \A p \in Proc : p # q => Removed(f, q, k)[p] = f[p]
      BY ForestRemove
    <3>2. \A k \in DOMAIN cs[P] :
              /\ Forest(Removed(cs, P, k), A \ {cs[P][k]})
              /\ \A p \in Proc : Range(Removed(cs, P, k)[p]) = Range(cs[p]) \ {cs[P][k]}
              /\ \A p \in Proc : p # P => Removed(cs, P, k)[p] = cs[p]
      BY <2>1, <3>1
    <3> QED BY <2>1, <3>2
  <2>5. /\ Forest(children', Allocated' \ {init_pcb})
        /\ \A p \in Proc : Range(children'[p]) = Range(cs[p]) \ {running}
        /\ \A p \in Proc : p # P => children'[p] = cs[p]
    BY <2>2, <2>3, <2>4
  <2> QED BY <2>5 DEF cs
<1>10. PtrsInv'
  <2>1. IsFiniteSet(Allocated) /\ IsFiniteSet(Allocated')
    BY <1>4, <1>7, SchedulerAssumption, FS_Subset
  <2>2. /\ Cardinality(Allocated) \in Nat /\ Cardinality(Allocated') \in Nat
        /\ Cardinality(Allocated') = Cardinality(Allocated) - 1
    BY <1>4, <1>7, <2>1, FS_CardinalityType, FS_RemoveElement
  <2>3. free_ptrs \in Nat /\ PCBPtrs \in Nat
    BY <1>3, ProcessAssumption DEF ProcessTypeOK
  <2>4. free_ptrs + Cardinality(Allocated) <= PCBPtrs + 1
    BY DEF ProcessInv, PtrsInv
  <2> QED BY <1>1, <2>2, <2>3, <2>4 DEF PtrsInv
<1>11. ProcessTypeOK'
  <2>1. pid[running] \in Int /\ NoResult \in Int /\ NotInWait \in Int
    BY <1>3, <1>4 DEF ProcessTypeOK, NoResult, NotInWait
  <2>2. syscall_retvalue' \in [Proc -> Int] /\ wait_result' \in [Proc -> Int]
    BY <1>1, <1>3, <1>4, <1>5, <2>1 DEF ProcessTypeOK
  <2>3. return_value' \in [Proc -> Int] /\ last_wait' \in [Proc -> Int]
    BY <1>1, <1>3, <2>1 DEF ProcessTypeOK
  <2>4. running' \in Proc /\ waiting_list' \subseteq Proc /\ free_pcbs' \subseteq Proc
    BY <1>1, <1>3, <1>4, <1>5 DEF ProcessTypeOK
  <2>5. children' \in [Proc -> Seq(Proc)] /\ signals' \in [Proc -> SUBSET {SIGCHLD, SIGHUP}]
    BY <1>1, <1>8, <1>9 DEF Forest
  <2> QED BY <1>1, <1>3, <1>6, <1>20, <2>2, <2>3, <2>4, <2>5 DEF ProcessTypeOK
<1>12. ListsInv'
  <2>1. ReadyListMatches'
    BY <1>1, <1>3, <1>4, <1>5, <1>6 DEF ListsInv, ReadyListMatches
  <2>2. RunningMatches'
    BY <1>1, <1>3, <1>4, <1>5, <1>6 DEF ListsInv, RunningMatches
  <2>3. \A p \in waiting_list' : status'[p] = Waiting
    BY <1>1, <1>3, <1>4, <1>5, <1>6 DEF ProcessTypeOK, ListsInv
  <2>4. zombie_list' = { p \in Allocated' : status'[p] = Zombie }
    BY <1>1, <1>3, <1>4, <1>5, <1>6, <1>7 DEF ListsInv
  <2>5. \A p \in Proc : p \in free_pcbs' => ~Living(p)'
    BY <1>1, <1>3, <1>7 DEF ListsInv
  <2>6. \A p \in Allocated' : status'[p] # Created
    BY <1>3, <1>4, <1>6, <1>7 DEF ListsInv, Created
  <2>7. \A p \in Proc : status'[p] = Waiting /\ last_wait'[p] # NotInWait
                           => p \in waiting_list'
    <3> SUFFICES ASSUME NEW p \in Proc, status'[p] = Waiting, last_wait'[p] # NotInWait
                 PROVE  p \in waiting_list'
      OBVIOUS
    <3>1. p # P /\ p # running /\ status[p] = Waiting
      BY <1>6
    <3>2. last_wait[p] # NotInWait
      BY <1>1, <3>1
    <3> QED BY <1>1, <1>3, <3>1, <3>2 DEF ListsInv
  <2>8. /\ Sorted(timer_list)' /\ IsInjective(Owners(timer_list')) /\ NoOverdueTimer'
    BY <1>20
  <2>9. running' \notin waiting_list'
    BY <1>1
  <2> QED BY <2>1, <2>2, <2>3, <2>4, <2>5, <2>6, <2>7, <2>8, <2>9 DEF ListsInv
<1>13. PidsInv'
  BY <1>1, <1>4, <1>7 DEF ProcessInv, PidsInv
<1>14. TreeInv'
  <2>1. ASSUME NEW p \in Proc, ~Living(p)' PROVE children'[p] = << >>
    <3>1. CASE p = running
      BY <1>5, <1>8, <1>9, <3>1
    <3>2. CASE p # running
      <4>1. ~Living(p) /\ p # init_pcb
        BY <1>7, <2>1, <3>2 DEF ProcessInv, PidsInv
      <4>2. p # P
        BY <1>5, <4>1 DEF Living
      <4> QED BY <1>8, <1>9, <3>2, <4>1, <4>2 DEF ProcessInv, TreeInv
    <3> QED BY <3>1, <3>2
  <2> QED BY <1>9, <2>1 DEF TreeInv
<1>15. ParentInv'
  BY <1>1, <1>8, <1>9 DEF ParentInv
<1>16. WaitInv'
  <2> SUFFICES ASSUME NEW p \in Proc, NEW c \in Range(children'[p]), parent[c] = p,
                      status'[c] = Zombie, status'[p] = Waiting,
                      p \notin Range(Owners(timer_list'))
               PROVE  last_wait'[p] \notin {AnyChild, pid[c]}
    BY <1>1 DEF WaitInv
  <2>1. c \in Range(children[p]) /\ c # running /\ c \in Proc
    BY <1>4, <1>8, <1>9 DEF Forest
  <2>2. status[c] = Zombie /\ status[p] = Waiting /\ p # P /\ p # running
    BY <1>6, <2>1
  <2>3. last_wait'[p] = last_wait[p] /\ p \notin Range(Owners(timer_list))
    BY <1>1, <1>3, <1>20, <2>2 DEF ProcessTypeOK
  <2> QED BY <2>1, <2>2, <2>3 DEF ProcessInv, WaitInv
<1>17. WaitsElsewhere' = WaitsElsewhere
  BY <1>1, <1>4, <1>5, <1>6, <1>8 DEF WaitsElsewhere
<1> QED
  BY <1>10, <1>11, <1>12, <1>13, <1>14, <1>15, <1>16, <1>17 DEF ProcessInv

-----------------------------------------------------------------------------
\* At boot the ready list holds the processes that only compute, once each.
LEMMA InitReady ==
  ASSUME ProcessInit
  PROVE  /\ ready_list \in Seq(Proc) /\ IsInjective(ready_list)
         /\ Range(ready_list) = Proc \ Callers
         /\ Len(ready_list) = Cardinality(Proc \ Callers)
         /\ DOMAIN ready_list = 1 .. Len(ready_list) /\ Len(ready_list) \in Nat
         /\ IsFiniteSet(Proc \ Callers)
<1> DEFINE others == Proc \ Callers
           N == Cardinality(others)
<1>1. IsFiniteSet(others) /\ N \in Nat
  BY SchedulerAssumption, FS_Subset, FS_CardinalityType
<1>2. /\ ready_list \in [1 .. N -> others]
      /\ \A i, j \in 1 .. N : i # j => ready_list[i] # ready_list[j]
  BY DEF ProcessInit, SetToSeqs
<1> HIDE DEF others, N
<1>3. IsInjective(ready_list)
  BY <1>2 DEF IsInjective
<1>4. Range(ready_list) = others
  <2>1. IsFiniteSet(1 .. N) /\ Cardinality(1 .. N) = N
    <3>1. 0 + 1 \in Int /\ 1 \in Int /\ N \in Int
      BY <1>1
    <3>2. IsFiniteSet(1 .. N) /\ Cardinality(1 .. N) = IF 1 > N THEN 0 ELSE N - 1 + 1
      BY <3>1, FS_Interval
    <3> QED BY <1>1, <3>2
  <2>2. ready_list \in Injection(1 .. N, others)
    BY <1>2, <1>3 DEF Injection
  <2>3. N = Cardinality(others)
    BY DEF N
  <2>4. ready_list \in Surjection(1 .. N, others)
    BY <1>1, <2>1, <2>2, <2>3, FS_Injection
  <2>5. \A p \in others : \E i \in 1 .. N : ready_list[i] = p
    BY <2>4 DEF Surjection
  <2> QED BY <1>2, <2>5 DEF Range
<1>5. ready_list \in Seq(Proc) /\ Len(ready_list) = N
  <2>1. ready_list \in [1 .. N -> Proc]
    BY <1>2 DEF others
  <2> QED BY <1>1, <2>1, SeqDef, LenProperties
<1> QED BY <1>1, <1>2, <1>3, <1>4, <1>5 DEF others, N

\* The invariant holds at boot.
LEMMA ProcessInitInv ==
  ASSUME ProcessInit
  PROVE  ProcessInv
<1> USE DEF ProcessStatus, Running, Ready, Waiting, Created, Zombie
<1> DEFINE others == Proc \ Callers
           N == Len(ready_list)
<1>1. /\ ready_list \in Seq(Proc) /\ IsInjective(ready_list)
      /\ Range(ready_list) = others
      /\ N = Cardinality(others) /\ IsFiniteSet(others)
      /\ DOMAIN ready_list = 1 .. N /\ N \in Nat
  BY InitReady
<1>2. /\ running = init_pcb /\ waiting_list = {} /\ zombie_list = {} /\ timer_list = << >>
      /\ free_pcbs = Callers \ {init_pcb}
      /\ free_ptrs = PCBPtrs - N
      /\ last_pid = N + 1
      /\ forked = {} /\ failure = None
      /\ children = [p \in Proc |-> IF p = init_pcb THEN ready_list ELSE << >>]
      /\ syscall_retvalue = [p \in Proc |-> NoResult]
      /\ wait_result = [p \in Proc |-> NoResult]
      /\ return_value = [p \in Proc |-> 0]
      /\ signals = [p \in Proc |-> {}]
      /\ last_wait = [p \in Proc |-> NotInWait]
  BY DEF ProcessInit
<1>3. /\ status = [p \in Proc |-> IF p = init_pcb THEN Running
                                  ELSE IF p \in others THEN Ready ELSE Created]
      /\ parent = [p \in Proc |-> IF p \in others THEN init_pcb ELSE NoParent]
      /\ pid = [p \in Proc |-> IF p \in others
                               THEN CHOOSE i \in DOMAIN ready_list : ready_list[i] = p
                               ELSE 0]
  BY <1>1 DEF ProcessInit
<1>4. /\ init_pcb \in Proc /\ init_pcb \notin others /\ others \subseteq Proc
      /\ Allocated = others \cup {init_pcb}
  BY <1>2, ProcessAssumption, SchedulerAssumption DEF Allocated
<1>5. \A p \in others : pid[p] \in 1 .. N /\ ready_list[pid[p]] = p
  <2> SUFFICES ASSUME NEW p \in others
               PROVE  pid[p] \in 1 .. N /\ ready_list[pid[p]] = p
    OBVIOUS
  <2>1. \E i \in DOMAIN ready_list : ready_list[i] = p
    BY <1>1 DEF Range
  <2>2. pid[p] = CHOOSE i \in DOMAIN ready_list : ready_list[i] = p
    BY <1>3, <1>4
  <2> QED BY <1>1, <2>1, <2>2
<1>6. pid[init_pcb] = 0 /\ pid \in [Proc -> Nat]
  <2>1. \A p \in Proc : p \notin others => pid[p] = 0
    BY <1>3
  <2>2. \A p \in Proc : pid[p] \in Nat
    BY <1>1, <1>5, <2>1
  <2>3. pid = [p \in Proc |-> pid[p]]
    BY <1>3
  <2> QED BY <1>4, <2>1, <2>2, <2>3
<1>7. Len(timer_list) = 0 /\ timer_list \in Seq(Timer) /\ DOMAIN timer_list = {}
      /\ DOMAIN Owners(timer_list) = {} /\ Range(Owners(timer_list)) = {}
  <2>1. Len(timer_list) = 0 /\ timer_list \in Seq(Timer) /\ DOMAIN timer_list = {}
    BY <1>2, EmptySeq
  <2>2. DOMAIN Owners(timer_list) = {}
    BY <2>1 DEF Owners
  <2> QED BY <2>1, <2>2 DEF Range
<1> HIDE DEF others, N
<1>8. ProcessTypeOK
  <2>1. /\ status \in [Proc -> ProcessStates]
        /\ parent \in [Proc -> Proc \cup {NoParent}]
        /\ children \in [Proc -> Seq(Proc)]
    <3>1. << >> \in Seq(Proc)
      BY EmptySeq
    <3> QED BY <1>1, <1>2, <1>3, <1>4, <3>1 DEF ProcessStates
  <2>2. /\ running \in Proc /\ waiting_list \subseteq Proc /\ zombie_list \subseteq Proc
        /\ free_pcbs \subseteq Proc /\ forked \subseteq Proc /\ failure \in Failures
    BY <1>2, <1>4, SchedulerAssumption DEF Failures
  <2>3. /\ syscall_retvalue \in [Proc -> Int] /\ wait_result \in [Proc -> Int]
        /\ return_value \in [Proc -> Int] /\ last_wait \in [Proc -> Int]
    BY <1>2 DEF NoResult, NotInWait
  <2>4. signals \in [Proc -> SUBSET {SIGCHLD, SIGHUP}]
    BY <1>2
  <2>5. free_ptrs \in 0 .. PCBPtrs /\ last_pid \in Nat
    <3>1. N <= PCBPtrs /\ PCBPtrs \in Nat
      BY <1>1, ProcessAssumption DEF others
    <3> QED BY <1>1, <1>2, <3>1
  <2> QED BY <1>1, <1>6, <1>7, <2>1, <2>2, <2>3, <2>4, <2>5 DEF ProcessTypeOK
<1>9. ListsInv
  <2>1. ReadyListMatches
    BY <1>1, <1>3, <1>4 DEF ReadyListMatches
  <2>2. RunningMatches
    BY <1>2, <1>3, <1>4 DEF RunningMatches
  <2>3. /\ \A p \in waiting_list : status[p] = Waiting
        /\ zombie_list = { p \in Allocated : status[p] = Zombie }
    BY <1>2, <1>3, <1>4
  <2>4. \A p \in Proc : p \in free_pcbs => ~Living(p)
    BY <1>2, <1>3, <1>4 DEF Living, others
  <2>5. \A p \in Allocated : status[p] # Created
    BY <1>3, <1>4
  <2>6. Sorted(timer_list) /\ IsInjective(Owners(timer_list)) /\ NoOverdueTimer
    BY <1>7 DEF Sorted, IsInjective, NoOverdueTimer
  <2>7. \A p \in Proc : last_wait[p] = NotInWait
    BY <1>2
  <2> QED BY <1>2, <1>7, <2>1, <2>2, <2>3, <2>4, <2>5, <2>6, <2>7 DEF ListsInv
<1>10. PidsInv
  <2>1. init_pcb \in Allocated /\ Living(init_pcb)
    BY <1>3, <1>4 DEF Living
  <2>2. \A p \in Allocated : pid[p] < last_pid
    BY <1>1, <1>2, <1>4, <1>5, <1>6
  <2>3. ASSUME NEW p \in Allocated, NEW q \in Allocated, pid[p] = pid[q] PROVE p = q
    BY <1>1, <1>4, <1>5, <1>6, <2>3
  <2>4. \A p \in Allocated \ {init_pcb} : parent[p] \in Proc \ {p}
    BY <1>3, <1>4
  <2> QED BY <2>1, <2>2, <2>3, <2>4 DEF PidsInv
<1>11. /\ children \in [Proc -> Seq(Proc)] /\ children[init_pcb] = ready_list
       /\ \A p \in Proc : p # init_pcb => children[p] = << >>
       /\ \A p \in Proc : Range(children[p]) = IF p = init_pcb THEN others ELSE {}
  <2>1. Range(<< >>) = {} /\ << >> \in Seq(Proc)
    BY DEF Range
  <2>2. /\ children \in [Proc -> Seq(Proc)] /\ children[init_pcb] = ready_list
        /\ \A p \in Proc : p # init_pcb => children[p] = << >>
    BY <1>1, <1>2, <1>4, <2>1
  <2> QED BY <1>1, <2>1, <2>2
<1>12. TreeInv
  <2>1. \A p \in Proc : IsInjective(children[p])
    <3>1. IsInjective(<< >>)
      BY DEF IsInjective
    <3> QED BY <1>1, <1>11, <3>1
  <2>2. Allocated \ {init_pcb} = others
    BY <1>4
  <2>3. Forest(children, others)
    BY <1>4, <1>11, <2>1 DEF Forest
  <2>4. \A p \in Proc : ~Living(p) => p # init_pcb
    BY <1>3, <1>4 DEF Living
  <2> QED BY <1>11, <2>2, <2>3, <2>4 DEF TreeInv
<1>13. ParentInv
  BY <1>3, <1>4, <1>11 DEF ParentInv
<1>14. WaitInv
  BY <1>3, <1>4, <1>11 DEF WaitInv
<1>15. PtrsInv
  <2>1. Cardinality(Allocated) = N + 1
    BY <1>1, <1>4, FS_AddElement
  <2>2. PCBPtrs \in Nat
    BY ProcessAssumption
  <2> QED BY <1>1, <1>2, <2>1, <2>2 DEF PtrsInv
<1> QED BY <1>8, <1>9, <1>10, <1>12, <1>13, <1>14, <1>15 DEF ProcessInv

\* spawn and fork, whatever comes of them.
LEMMA SpawnKeepsInv ==
  ASSUME ProcessInv, internal_spawn \/ internal_fork
  PROVE  ProcessInv' /\ WaitsElsewhere' = WaitsElsewhere
<1>1. CASE SpawnFails
  BY <1>1, ReturnInv DEF SpawnFails, DSOS_ESPAWN, CalledOther, NotInWait
<1>2. CASE SpawnAborts
  BY <1>2, FailsInv DEF SpawnAborts, Failures
<1>3. ASSUME NEW p \in Proc, SpawnStarts(p) \/ ForkStarts(p)
      PROVE  ProcessInv' /\ WaitsElsewhere' = WaitsElsewhere
  <2>1. forked' \subseteq Proc
    BY <1>3 DEF SpawnStarts, ForkStarts, ProcessInv, ProcessTypeOK
  <2> QED BY <1>3, <2>1, ChildStartsInv DEF SpawnStarts, ForkStarts
<1> QED BY <1>1, <1>2, <1>3 DEF internal_spawn, internal_fork

\* wait, whatever comes of it.
LEMMA WaitKeepsInv ==
  ASSUME ProcessInv, internal_wait
  PROVE  ProcessInv' /\ WaitsElsewhere' = WaitsElsewhere
<1>1. ASSUME NEW arg \in WaitArgs, WaitRejected(arg)
      PROVE  ProcessInv' /\ WaitsElsewhere' = WaitsElsewhere
  BY <1>1, ReturnInv, ProcessAssumption DEF WaitRejected, DSOS_EWAIT
<1>2. ASSUME NEW arg \in WaitArgs, WaitReaps(arg)
      PROVE  ProcessInv' /\ WaitsElsewhere' = WaitsElsewhere
  BY <1>2, WaitReapsInv
<1>3. ASSUME NEW arg \in WaitArgs, WaitBlocks(arg)
      PROVE  ProcessInv' /\ WaitsElsewhere' = WaitsElsewhere
  BY <1>3, WaitBlocksInv
<1>4. ASSUME NEW arg \in WaitArgs, WaitAborts(arg)
      PROVE  ProcessInv' /\ WaitsElsewhere' = WaitsElsewhere
  BY <1>4, FailsInv DEF WaitAborts, Failures
<1>5. ASSUME NEW arg \in WaitArgs, WaitReapsSleeper(arg)
      PROVE  ProcessInv' /\ WaitsElsewhere' = WaitsElsewhere
  BY <1>5, FailsInv DEF WaitReapsSleeper, Failures
<1> QED BY <1>1, <1>2, <1>3, <1>4, <1>5 DEF internal_wait

\* exit with any value, whatever comes of it.
LEMMA ExitKeepsInv ==
  ASSUME ProcessInv, NEW value \in Int, internal_exit(value)
  PROVE  ProcessInv' /\ WaitsElsewhere' = WaitsElsewhere
<1>1. CASE InitExits
  BY <1>1, FailsInv DEF InitExits, Failures
<1>2. CASE running # init_pcb /\ ExitWakesParent(value)
  BY <1>2, ExitWakesParentInv
<1>3. CASE running # init_pcb /\ ExitLeavesZombie(value)
  BY <1>3, ExitLeavesZombieInv
<1>4. CASE ExitAborts
  BY <1>4, FailsInv DEF ExitAborts, Failures
<1> QED BY <1>1, <1>2, <1>3, <1>4 DEF internal_exit

\* The invariant is inductive.
LEMMA ProcessNextInv ==
  ASSUME ProcessInv, [ProcessNext]_AllVars
  PROVE  ProcessInv' /\ WaitsElsewhere' = WaitsElsewhere
<1>1. running \in Proc /\ pid[running] \in Int
  BY DEF ProcessInv, ProcessTypeOK
<1>2. CASE ForkedRuns
  BY <1>2, FailsInv DEF ForkedRuns, Failures
<1>3. CASE Scheduling
  BY <1>3, SchedulingInv
<1>4. CASE internal_spawn \/ internal_fork
  BY <1>4, SpawnKeepsInv
<1>5. CASE internal_wait
  BY <1>5, WaitKeepsInv
<1>6. CASE internal_exit(pid[running])
  BY <1>1, <1>6, ExitKeepsInv
<1>7. CASE UNCHANGED AllVars
  <2>1. UNCHANGED << running, status, ready_list, waiting_list, timer_list,
                     syscall_retvalue, pid, parent, children, return_value, signals,
                     last_wait, wait_result, zombie_list, free_pcbs, free_ptrs,
                     last_pid, forked, failure >>
    BY <1>7 DEF AllVars, SchedulerVars, ProcessVars
  <2>2. ProcessTypeOK'
    BY <2>1 DEF ProcessInv, ProcessTypeOK
  <2>3. ListsInv'
    BY <2>1 DEF ProcessInv, ListsInv, ReadyListMatches, RunningMatches, Allocated, Living,
                    NoOverdueTimer, TimerElapsed
  <2>4. /\ \A p \in Proc : IF Living(p) THEN Living(p)' ELSE status'[p] = status[p]
        /\ WaitsElsewhere' = WaitsElsewhere /\ WaitsAsBefore
    BY <2>1 DEF Living, WaitsElsewhere, WaitsAsBefore
  <2> QED BY <2>1, <2>2, <2>3, <2>4, TreeKept
<1> QED
  BY <1>2, <1>3, <1>4, <1>5, <1>6, <1>7 DEF ProcessNext, ProcessCall

(***************************************************************************)
(* The lists, pids and the tree of processes fit together for any number   *)
(* of PCBs and PCBPtrs and any arguments of sleep and wait.                *)
(***************************************************************************)
THEOREM ProcessInvariant == ProcessSpec => []ProcessInv
<1>1. ProcessInit => ProcessInv
  BY ProcessInitInv
<1>2. ProcessInv /\ [ProcessNext]_AllVars => ProcessInv'
  BY ProcessNextInv
<1> QED BY <1>1, <1>2, PTL DEF ProcessSpec

\* Nobody waits at boot.
LEMMA NobodyWaits == ProcessInit => WaitsElsewhere = {}
BY DEF ProcessInit, WaitsElsewhere, Running, Ready, Waiting, Created

\* Processes alone wait in waiting_list only.
LEMMA NobodyElsewhere == ProcessSpec => [](ProcessInv /\ WaitsElsewhere = {})
<1>1. ProcessInit => WaitsElsewhere = {}
  BY NobodyWaits
<1>2. ProcessInv /\ [ProcessNext]_AllVars => (WaitsElsewhere = {} => (WaitsElsewhere = {})')
  BY ProcessNextInv
<1> QED BY <1>1, <1>2, ProcessInvariant, PTL DEF ProcessSpec

\* Every variable always has its type.
THEOREM ProcessTypes == ProcessSpec => []ProcessTypeOK
<1>1. ProcessInv => ProcessTypeOK
  BY DEF ProcessInv
<1> QED BY <1>1, ProcessInvariant, PTL

(***************************************************************************)
(* However calls and ticks follow each other, a process is in the one list *)
(* that its status names, and a PCB in the pool is in none.                *)
(***************************************************************************)
THEOREM EverybodyInOneList == ProcessSpec => []LivesInOneList
<1>1. ProcessInv /\ WaitsElsewhere = {} => LivesInOneList
  <2> SUFFICES ASSUME ProcessInv, WaitsElsewhere = {} PROVE LivesInOneList
    OBVIOUS
  <2>1. ListsInv /\ Allocated \subseteq Proc
    BY DEF ProcessInv, Allocated
  <2>2. \A p \in Proc : status[p] \in {Ready, Waiting} => p \in Allocated
    BY <2>1 DEF ListsInv, Living, ProcessStatus, Allocated
  <2>3. Range(ready_list) = { p \in Allocated : status[p] = Ready }
    BY <2>1, <2>2 DEF ListsInv, ReadyListMatches
  <2>4. waiting_list = { p \in Allocated : status[p] = Waiting }
    BY <2>1, <2>2 DEF ListsInv, WaitsElsewhere, ProcessInv, ProcessTypeOK
  <2> QED BY <2>1, <2>3, <2>4, RunningLives
          DEF ListsInv, ReadyListMatches, RunningMatches, LivesInOneList
<1> QED BY <1>1, NobodyElsewhere, PTL

\* The invariant says of the tree and of the waits what the properties say.
LEMMA ProcessImplies ==
  ASSUME ProcessInv
  PROVE  EveryChildOnce /\ ParentOrInit /\ NoMissedExit
<1>1. Forest(children, Allocated \ {init_pcb}) /\ Allocated \subseteq Proc
  BY DEF ProcessInv, TreeInv, Allocated
<1>2. \A p \in Proc : ~Living(p) => children[p] = << >>
  BY DEF ProcessInv, TreeInv
<1>3. \A p \in Allocated : status[p] = Zombie => children[p] = << >>
  BY <1>1, <1>2 DEF Living, ProcessStatus, Zombie, Running, Ready, Waiting
<1>4. ASSUME NEW c \in Allocated \ {init_pcb}
      PROVE  \E p \in Allocated : c \in Range(children[p])
  <2>1. PICK p \in Proc : c \in Range(children[p])
    BY <1>1 DEF Forest
  <2>2. Range(<< >>) = {}
    BY DEF Range
  <2>3. Living(p)
    BY <1>2, <2>1, <2>2
  <2> QED BY <2>1, <2>3, RunningLives
<1>5. UNION { Range(children[p]) : p \in Allocated } = Allocated \ {init_pcb}
  BY <1>1, <1>4 DEF Forest
<1>6. EveryChildOnce
  BY <1>1, <1>3, <1>5 DEF Forest, EveryChildOnce
<1>7. ParentOrInit
  BY DEF ProcessInv, ParentInv, ParentOrInit, Allocated
<1>8. NoMissedExit
  BY TimerOwned DEF ProcessInv, WaitInv, NoMissedExit, Allocated
<1> QED BY <1>6, <1>7, <1>8

(***************************************************************************)
(* Exit, which gives children away while wait takes others out, never      *)
(* loses a child, lists it twice or leaves it to a zombie.                 *)
(***************************************************************************)
THEOREM NoChildLost == ProcessSpec => []EveryChildOnce
<1>1. ProcessInv => EveryChildOnce
  BY ProcessImplies
<1> QED BY <1>1, ProcessInvariant, PTL

(***************************************************************************)
(* A process whose parent is another one than the one that lists it is     *)
(* init's, and has been told.                                              *)
(***************************************************************************)
THEOREM ListedAtParent == ProcessSpec => []ParentOrInit
<1>1. ProcessInv => ParentOrInit
  BY ProcessImplies
<1> QED BY <1>1, ProcessInvariant, PTL

(***************************************************************************)
(* For any order of exit and wait, and any pids passed to wait: nobody is  *)
(* blocked in a wait that a child of its own has ended already.            *)
(***************************************************************************)
THEOREM ExitNeverMissed == ProcessSpec => []NoMissedExit
<1>1. ProcessInv => NoMissedExit
  BY ProcessImplies
<1> QED BY <1>1, ProcessInvariant, PTL

-----------------------------------------------------------------------------
\* The processes that only compute never wait and never end.
ComputesOn == \A p \in Proc \ Callers : status[p] \in {Ready, Running}

\* Who has a timer has made no other call since disastrOS_sleep.
TimersAsleep == \A p \in Range(Owners(timer_list)) : last_wait[p] = NotInWait

TakenOver == ProcessInv /\ ComputesOn /\ TimersAsleep /\ SomebodyTakesOver

\* The reasons to stop that SomebodyTakesOver excludes.
NobodyReady == { NoNextProcess, LinkedTwice, NotListed, DanglingTimer }

\* While a caller runs, those that compute are ready.
LEMMA CallerIsFollowed ==
  ASSUME TakenOver, Proc \ Callers # {}, running \in Callers
  PROVE  ready_list # << >>
<1>1. PICK p \in Proc \ Callers : status[p] \in {Ready, Running}
  BY DEF TakenOver, ComputesOn
<1>2. status[p] = Ready
  BY <1>1 DEF TakenOver, ProcessInv, ListsInv, RunningMatches
<1>3. p \in Range(ready_list)
  BY <1>1, <1>2 DEF TakenOver, ProcessInv, ListsInv, ReadyListMatches
<1>4. Range(<< >>) = {}
  BY DEF Range
<1> QED BY <1>3, <1>4

\* Every timer's process is on the waiting list, so none is running and none
\* is missed when it wakes.
LEMMA TimersListed ==
  ASSUME TakenOver
  PROVE  /\ running \notin Range(Owners(timer_list))
         /\ WakesListed
         /\ \A p \in Range(Owners(timer_list)) : status[p] = Waiting
<1>1. /\ Range(Owners(timer_list)) \subseteq waiting_list
      /\ running \notin waiting_list
      /\ \A p \in waiting_list : status[p] = Waiting
  BY DEF TakenOver, SomebodyTakesOver, ProcessInv, ListsInv
<1>2. \A i \in DOMAIN timer_list : timer_list[i].pcb \in Range(Owners(timer_list))
  BY DEF Owners, Range
<1> QED BY <1>1, <1>2 DEF WakesListed

\* A call of internal_schedule that can switch leaves somebody awake running,
\* and the timers that are left belong to processes on the waiting list.
LEMMA ScheduleTakenOver ==
  ASSUME NEW st, NEW rl, NEW wl, NEW tl,
         ConsistentIn(ProcessStates, st, rl, wl, tl),
         internal_schedule(st, rl, wl, tl),
         st[running] = Running \/ Schedulable(rl, tl),
         Range(Owners(tl)) \subseteq wl,
         \A p \in Range(Owners(tl)) : last_wait'[p] = NotInWait,
         \A p \in Proc \ Callers : st[p] \in {Ready, Running},
         failure' \notin NobodyReady
  PROVE  ComputesOn' /\ TimersAsleep' /\ SomebodyTakesOver'
<1> USE DEF Running, Ready, Waiting
<1>1. /\ \A p \in waiting_list' : status'[p] = Waiting
      /\ \A p \in Proc : status'[p] = Waiting
                           <=> st[p] = Waiting /\ p \notin wl \ waiting_list'
      /\ \A p \in Proc : IF st[p] \in ProcessStatus
                          THEN status'[p] \in ProcessStatus
                          ELSE status'[p] = st[p]
      /\ status'[running'] = Running
      /\ Range(Owners(timer_list')) = Range(Owners(tl)) \ (wl \ waiting_list')
  BY ScheduleAny
<1>2. ComputesOn'
  BY <1>1 DEF ComputesOn, ProcessStatus
<1>3. TimersAsleep'
  BY <1>1 DEF TimersAsleep
<1>4. SomebodyTakesOver'
  BY <1>1 DEF SomebodyTakesOver, NobodyReady
<1> QED BY <1>2, <1>3, <1>4

\* The interrupt, internal_preempt and internal_sleep.
LEMMA SchedulingTakenOver ==
  ASSUME TakenOver, Proc \ Callers # {}, Scheduling
  PROVE  ComputesOn' /\ TimersAsleep' /\ SomebodyTakesOver'
<1> USE DEF Running, Ready, Waiting
<1>1. /\ ProcessInv /\ ComputesOn /\ SomebodyTakesOver /\ TimersAsleep
      /\ Range(Owners(timer_list)) \subseteq waiting_list
      /\ status \in [Proc -> ProcessStates] /\ last_wait \in [Proc -> Int]
      /\ running \in Proc
  BY DEF TakenOver, ProcessInv, ProcessTypeOK, SomebodyTakesOver
<1>2. status[running] = Running
  BY <1>1, RunningLives DEF SomebodyTakesOver
<1>3. /\ WakesListed /\ running \notin Range(Owners(timer_list))
      /\ ConsistentIn(ProcessStates, status, ready_list, waiting_list, timer_list)
      /\ ConsistentIn(ProcessStates, status, ready_list, waiting_list, Ticked(timer_list))
      /\ Owners(Ticked(timer_list)) = Owners(timer_list)
  BY <1>1, TimersListed, ProcessConsistent
<1>4. Schedules
  BY <1>3 DEF Scheduling, ProcessTick, Schedules
<1>5. failure' \notin NobodyReady
  BY <1>1, <1>4 DEF Schedules, TickFrame, CallFrame, TreeFrame, SomebodyTakesOver, NobodyReady
<1>6. CASE timerInterrupt /\ TickFrame
  <2>1. /\ internal_schedule(status, ready_list, waiting_list, Ticked(timer_list))
        /\ last_wait' = last_wait
    BY <1>2, <1>6 DEF timerInterrupt, TickFrame, CallStored
  <2>2. \A p \in Range(Owners(Ticked(timer_list))) : last_wait'[p] = NotInWait
    BY <1>1, <1>3, <2>1 DEF TimersAsleep
  <2>3. Range(Owners(Ticked(timer_list))) \subseteq waiting_list
    BY <1>1, <1>3
  <2> QED BY <1>1, <1>2, <1>3, <1>5, <2>1, <2>2, <2>3, ScheduleTakenOver DEF ComputesOn
<1> SUFFICES ASSUME internal_preempt \/ internal_sleep, CallFrame
             PROVE  ComputesOn' /\ TimersAsleep' /\ SomebodyTakesOver'
  BY <1>4, <1>6 DEF Schedules
<1>7. \A p \in Range(Owners(timer_list)) \cup {running} : last_wait'[p] = NotInWait
  <2>1. last_wait' = [last_wait EXCEPT ![running] = NotInWait]
    BY DEF CallFrame, CalledOther, Called
  <2>2. last_wait'[running] = NotInWait /\ \A p : p # running => last_wait'[p] = last_wait[p]
    BY <1>1, <2>1
  <2> QED BY <1>1, <2>2 DEF TimersAsleep
<1>8. CASE internal_preempt
  <2>1. internal_schedule(status, ready_list, waiting_list, timer_list)
    BY <1>8 DEF internal_preempt
  <2> QED BY <1>1, <1>2, <1>3, <1>5, <1>7, <2>1, ScheduleTakenOver DEF ComputesOn
<1>9. CASE SleepRefused
  BY <1>3, <1>9, TimerOwned DEF SleepRefused
<1>10. ASSUME NEW cycles \in SleepCycles, SleepStarts(cycles)
       PROVE  ComputesOn' /\ TimersAsleep' /\ SomebodyTakesOver'
  <2> DEFINE item == [pcb |-> running, left |-> cycles]
             st   == [status EXCEPT ![running] = Waiting]
             wl   == waiting_list \cup {running}
  <2>1. ~HasTimer(running) /\ cycles \in Int /\ running \in Callers
    BY <1>10, SchedulerAssumption DEF SleepStarts
  <2>2. PICK k \in 0 .. Len(timer_list) :
          /\ TimerGoesBehind(timer_list, item, k)
          /\ internal_schedule(st, ready_list, wl, TimerList_add(timer_list, item, k))
    BY <1>10 DEF SleepStarts
  <2> DEFINE new == TimerList_add(timer_list, item, k)
  <2>3. /\ ConsistentIn(ProcessStates, st, ready_list, wl, new)
        /\ Range(Owners(new)) = Range(Owners(timer_list)) \cup {running}
    BY <1>1, <2>1, <2>2, SleepProcess
  <2>4. Schedulable(ready_list, new)
    BY <2>1, CallerIsFollowed DEF Schedulable
  <2>5. \A p \in Proc \ Callers : st[p] \in {Ready, Running}
    BY <1>1, <2>1 DEF ComputesOn
  <2>6. internal_schedule(st, ready_list, wl, new)
    BY <2>2
  <2>7. Range(Owners(new)) \subseteq wl
    BY <1>1, <2>3
  <2>8. \A p \in Range(Owners(new)) : last_wait'[p] = NotInWait
    BY <1>7, <2>3
  <2> HIDE DEF st, wl, new, item
  <2> QED BY <1>5, <2>3, <2>4, <2>5, <2>6, <2>7, <2>8, ScheduleTakenOver
<1> QED BY <1>8, <1>9, <1>10 DEF internal_sleep

\* spawn, fork, wait and exit, with whatever argument.
LEMMA CallTakenOver ==
  ASSUME TakenOver, Proc \ Callers # {}, running \in Callers, NEW value,
         internal_spawn \/ internal_fork \/ internal_wait \/ internal_exit(value)
  PROVE  ComputesOn' /\ TimersAsleep' /\ SomebodyTakesOver'
<1> USE DEF Running, Ready, Waiting, Zombie
<1>1. /\ ProcessInv /\ ComputesOn /\ running \in Callers
      /\ failure \notin NobodyReady /\ running \notin waiting_list
      /\ status \in [Proc -> ProcessStates]
  BY DEF TakenOver, ProcessInv, ProcessTypeOK, SomebodyTakesOver, NobodyReady
<1>2. ready_list # << >>
  BY <1>1, CallerIsFollowed
<1>3. /\ running \notin Range(Owners(timer_list))
      /\ Range(Owners(timer_list)) \subseteq waiting_list
      /\ \A p \in Range(Owners(timer_list)) : status[p] = Waiting /\ last_wait[p] = NotInWait
      /\ last_wait \in [Proc -> Int]
  BY TimersListed DEF TakenOver, TimersAsleep, SomebodyTakesOver, ProcessInv, ProcessTypeOK
<1>4. ASSUME NEW arg, Called(arg), UNCHANGED timer_list,
             waiting_list \subseteq waiting_list', running' \notin waiting_list',
             failure' \notin NobodyReady
      PROVE  TimersAsleep' /\ SomebodyTakesOver'
  <2>1. \A p : p # running => last_wait'[p] = last_wait[p]
    BY <1>3, <1>4 DEF Called
  <2> QED BY <1>3, <1>4, <2>1 DEF TimersAsleep, SomebodyTakesOver, NobodyReady
<1>5. ASSUME NEW reason \in Failures \ NobodyReady, Fails(reason)
      PROVE  ComputesOn' /\ TimersAsleep' /\ SomebodyTakesOver'
  <2>1. /\ failure' = reason
        /\ UNCHANGED << running, status, waiting_list, timer_list, last_wait >>
    BY <1>5 DEF Fails, SchedulerVars
  <2> QED BY <1>1, <1>3, <1>5, <2>1 DEF ComputesOn, TimersAsleep, SomebodyTakesOver, NobodyReady
<1>6. {NoPtr, NotAChild, EndlessLoop, NullParent} \subseteq Failures \ NobodyReady
  BY DEF Failures, NobodyReady, NoPtr, NotAChild, EndlessLoop, NullParent, NoNextProcess,
         LinkedTwice, NotListed, DanglingTimer
<1>7. CASE SpawnFails
  BY <1>1, <1>4, <1>7 DEF SpawnFails, CalledOther, ComputesOn
<1>8. CASE SpawnAborts
  BY <1>5, <1>6, <1>8 DEF SpawnAborts
<1>9. ASSUME NEW p \in Proc, ChildStarts(p)
      PROVE  ComputesOn' /\ TimersAsleep' /\ SomebodyTakesOver'
  <2>1. /\ status' = [status EXCEPT ![p] = Ready] /\ Called(NotInWait)
        /\ UNCHANGED << running, waiting_list, timer_list, failure >>
    BY <1>9 DEF ChildStarts, CalledOther
  <2> QED BY <1>1, <1>4, <2>1 DEF ComputesOn
<1>10. ASSUME NEW arg \in WaitArgs, WaitRejected(arg)
       PROVE  ComputesOn' /\ TimersAsleep' /\ SomebodyTakesOver'
  BY <1>1, <1>4, <1>10 DEF WaitRejected, ComputesOn
<1>11. ASSUME NEW arg \in WaitArgs, WaitReaps(arg)
       PROVE  ComputesOn' /\ TimersAsleep' /\ SomebodyTakesOver'
  BY <1>1, <1>4, <1>11 DEF WaitReaps, ComputesOn
<1>12. ASSUME NEW arg \in WaitArgs, WaitBlocks(arg)
       PROVE  ComputesOn' /\ TimersAsleep' /\ SomebodyTakesOver'
  <2>1. /\ running' = Head(ready_list) /\ waiting_list' = waiting_list \cup {running}
        /\ status' = [[status EXCEPT ![running] = Waiting]
                        EXCEPT ![Head(ready_list)] = Running]
        /\ Called(arg) /\ UNCHANGED << timer_list, failure >>
    BY <1>12 DEF WaitBlocks, RunNext
  <2>2. Head(ready_list) # running /\ Head(ready_list) \notin waiting_list
    BY <1>1, <1>2, NextOne
  <2>3. ComputesOn'
    BY <1>1, <2>1 DEF ComputesOn
  <2> QED BY <1>1, <1>4, <2>1, <2>2, <2>3
<1>13. ASSUME NEW arg \in WaitArgs PROVE ~WaitAborts(arg)
  BY <1>1, <1>2 DEF WaitAborts
<1>14. ASSUME NEW arg \in WaitArgs PROVE ~WaitReapsSleeper(arg)
  <2>1. \A c : status[c] = Zombie => ~HasTimer(c)
    BY <1>3, TimerOwned
  <2> QED BY <2>1 DEF WaitReapsSleeper
<1>15. ASSUME internal_exit(value) PROVE ComputesOn' /\ TimersAsleep' /\ SomebodyTakesOver'
  <2>1. CASE InitExits
    BY <1>5, <1>6, <2>1 DEF InitExits
  <2>2. CASE running # init_pcb /\ ExitWakesParent(value)
    <3> DEFINE P == parent[running]
    <3>1. /\ running' = P /\ waiting_list' = waiting_list \ {P}
          /\ status' = [status EXCEPT ![running] = Zombie, ![P] = Running]
          /\ failure' = failure /\ ParentWaits /\ TimerReleased /\ Called(NotInWait)
      BY <2>2 DEF ExitWakesParent, CalledOther
    <3>2. timer_list' = timer_list
      BY <1>3, <3>1, TimerOwned DEF TimerReleased, HasTimer
    <3>3. P \notin Range(Owners(timer_list))
      <4>1. pid[running] \in Nat
        BY <1>1, RunningLives DEF ProcessInv, ProcessTypeOK
      <4> QED BY <1>3, <3>1, <4>1 DEF ParentWaits, AnyChild, NotInWait
    <3>4. ComputesOn'
      BY <1>1, <3>1 DEF ComputesOn
    <3>5. \A p : p # running => last_wait'[p] = last_wait[p]
      BY <1>3, <3>1 DEF Called
    <3>6. Range(Owners(timer_list')) = Range(Owners(timer_list))
      BY <3>2
    <3>7. TimersAsleep'
      BY <1>3, <3>5, <3>6 DEF TimersAsleep
    <3>8. SomebodyTakesOver'
      BY <1>1, <1>3, <3>1, <3>3, <3>6 DEF SomebodyTakesOver, NobodyReady
    <3> QED BY <3>4, <3>7, <3>8
  <2>3. CASE ExitLeavesZombie(value)
    <3>1. /\ running' = Head(ready_list) /\ waiting_list' = waiting_list
          /\ status' = [[status EXCEPT ![running] = Zombie]
                          EXCEPT ![Head(ready_list)] = Running]
          /\ Called(NotInWait) /\ UNCHANGED << timer_list, failure >>
      BY <2>3 DEF ExitLeavesZombie, RunNext, CalledOther
    <3>2. Head(ready_list) \notin waiting_list
      BY <1>1, <1>2, NextOne
    <3>3. ComputesOn'
      BY <1>1, <3>1 DEF ComputesOn
    <3> QED BY <1>1, <1>4, <3>1, <3>2, <3>3
  <2>4. CASE ExitAborts
    <3>1. Fails(NotAChild)
      BY <1>1, <1>2, <2>4 DEF ExitAborts
    <3> QED BY <1>5, <1>6, <3>1
  <2> QED BY <1>15, <2>1, <2>2, <2>3, <2>4 DEF internal_exit
<1> QED BY <1>7, <1>8, <1>9, <1>10, <1>11, <1>12, <1>13, <1>14, <1>15
        DEF internal_spawn, internal_fork, internal_wait, SpawnStarts, ForkStarts

LEMMA InitTakenOver ==
  ASSUME ProcessInit
  PROVE  TakenOver
<1>1. Range(ready_list) = Proc \ Callers
  BY InitReady
<1>2. /\ waiting_list = {} /\ failure = None /\ timer_list = << >>
      /\ status = [p \in Proc |-> IF p = init_pcb THEN Running
                                  ELSE IF p \in Range(ready_list) THEN Ready
                                  ELSE Created]
  BY DEF ProcessInit
<1>3. ComputesOn
  BY <1>1, <1>2 DEF ComputesOn
<1>4. Range(Owners(timer_list)) = {}
  BY <1>2 DEF Owners, Range
<1>5. TimersAsleep /\ SomebodyTakesOver
  BY <1>2, <1>4 DEF TimersAsleep, SomebodyTakesOver, None, NoNextProcess, LinkedTwice,
                    NotListed, DanglingTimer
<1> QED BY <1>3, <1>5, ProcessInitInv DEF TakenOver

LEMMA NextTakenOver ==
  ASSUME TakenOver, Proc \ Callers # {}, [ProcessNext]_AllVars
  PROVE  TakenOver'
<1>1. ProcessInv'
  BY ProcessNextInv DEF TakenOver
<1>2. CASE ForkedRuns
  <2>1. /\ failure' = NoContext
        /\ UNCHANGED << running, status, waiting_list, timer_list, last_wait >>
    BY <1>2 DEF ForkedRuns, Fails, SchedulerVars
  <2> QED BY <1>1, <2>1 DEF TakenOver, ComputesOn, TimersAsleep, SomebodyTakesOver, NoContext,
                            NoNextProcess, LinkedTwice, NotListed, DanglingTimer
<1>3. CASE Scheduling
  BY <1>1, <1>3, SchedulingTakenOver DEF TakenOver
<1>4. CASE ProcessCall
  BY <1>1, <1>4, CallTakenOver DEF ProcessCall, TakenOver
<1>5. CASE UNCHANGED AllVars
  BY <1>1, <1>5 DEF AllVars, SchedulerVars, ProcessVars, TakenOver, ComputesOn,
                    TimersAsleep, SomebodyTakesOver
<1> QED BY <1>2, <1>3, <1>4, <1>5 DEF ProcessNext

(***************************************************************************)
(* One process that only computes is enough: then no call finds the ready  *)
(* list empty (disastrOS_wait.c:64, disastrOS_exit.c:96), puts a PCB into  *)
(* the waiting list twice, or leaves a sleeper on the processor; and no    *)
(* exit takes a sleeper for one that waits (disastrOS_exit.c:39-44), so    *)
(* every timer belongs to a process on the waiting list.                   *)
(***************************************************************************)
THEOREM ComputingIsEnough ==
  ASSUME Proc \ Callers # {}
  PROVE  ProcessSpec => []SomebodyTakesOver
<1>1. ProcessInit => TakenOver
  BY InitTakenOver
<1>2. TakenOver /\ [ProcessNext]_AllVars => TakenOver'
  BY NextTakenOver
<1>3. TakenOver => SomebodyTakesOver
  BY DEF TakenOver
<1> QED BY <1>1, <1>2, <1>3, PTL DEF ProcessSpec

-----------------------------------------------------------------------------
(***************************************************************************)
(* What the mapping to ProcessTree needs besides ProcessInv: pid 0 is      *)
(* init's, the pids fit into the bound, a result of wait is read before    *)
(* anything else happens, and the value of a zombie is its own.            *)
(***************************************************************************)
MappingInv ==
  /\ pid[init_pcb] = 0
  /\ last_pid <= MaxPid + 1
  /\ \A p \in Proc : wait_result[p] # NoResult => p = running
  /\ \A p \in zombie_list : return_value[p] = pid[p]

MappedInv == ProcessInv /\ MappingInv

\* Nothing that wait has delivered is left.
NothingCollected == \A p \in Proc : wait_result[p] = NoResult

(***************************************************************************)
(* What the mapping makes of a state: the state and the guardian of a pid  *)
(* are those of the one PCB that has it.                                   *)
(***************************************************************************)
StatesMapped ==
  /\ \A k \in Pids : \A p \in Allocated : pid[p] = k =>
       StateOf(k) = IF p \in zombie_list THEN "Ended" ELSE "Living"
  /\ \A k \in Pids : (\A p \in Allocated : pid[p] # k) =>
       StateOf(k) = IF k >= last_pid THEN "Unborn" ELSE "Collected"

GuardiansMapped ==
  /\ \A k \in Pids : \A q \in Proc : \A c \in Range(children[q]) : pid[c] = k =>
       GuardianOf(k) = pid[q]
  /\ \A k \in Pids : (\A q \in Proc : \A c \in Range(children[q]) : pid[c] # k) =>
       GuardianOf(k) = -1

CollectedMapped ==
  \A k \in Pids :
    CollectedBy(k) = IF k = pid[running] /\ wait_result[running] # NoResult
                     THEN << syscall_retvalue[running], wait_result[running] >>
                     ELSE << >>

PidsMapped ==
  /\ running \in Allocated /\ running \notin zombie_list
  /\ Allocated \subseteq Proc /\ zombie_list \subseteq Allocated
  /\ \A p \in Allocated : pid[p] \in Pids /\ pid[p] < last_pid
  /\ \A p, q \in Allocated : pid[p] = pid[q] => p = q
  /\ \A q \in Proc : \A c \in Range(children[q]) :
       c \in Allocated \ {init_pcb} /\ q \in Allocated \ zombie_list
  /\ \A p, q \in Proc : p # q => Range(children[p]) \cap Range(children[q]) = {}
  /\ last_pid \in Nat /\ init_pcb \in Allocated

Mapped == PidsMapped /\ StatesMapped /\ GuardiansMapped /\ CollectedMapped

LEMMA MappedPids ==
  ASSUME MappedInv
  PROVE  PidsMapped
<1>1. /\ running \in Allocated /\ Living(running) /\ init_pcb \in Allocated
      /\ \A p \in Proc : Living(p) => p \in Allocated
      /\ Allocated \subseteq Proc
  BY RunningLives DEF MappedInv, ProcessInv, PidsInv
<1>2. \A p \in zombie_list : p \in Allocated /\ ~Living(p)
  BY DEF MappedInv, ProcessInv, ListsInv, Living, ProcessStatus, Zombie, Running, Ready,
         Waiting
<1>3. /\ \A p \in Allocated : pid[p] \in Pids /\ pid[p] < last_pid
      /\ last_pid \in Nat
  <2>1. pid \in [Proc -> Nat] /\ last_pid \in Nat /\ last_pid <= MaxPid + 1
    BY DEF MappedInv, MappingInv, ProcessInv, ProcessTypeOK
  <2>2. \A p \in Allocated : pid[p] < last_pid
    BY DEF MappedInv, ProcessInv, PidsInv
  <2>3. MaxPid \in Nat
    BY ProcessAssumption
  <2> QED BY <1>1, <2>1, <2>2, <2>3 DEF Pids
<1>4. \A p, q \in Allocated : pid[p] = pid[q] => p = q
  BY DEF MappedInv, ProcessInv, PidsInv
<1>5. Forest(children, Allocated \ {init_pcb})
  BY DEF MappedInv, ProcessInv, TreeInv
<1>6. ASSUME NEW q \in Proc, NEW c \in Range(children[q])
      PROVE  c \in Allocated \ {init_pcb} /\ q \in Allocated \ zombie_list
  <2>1. Range(<< >>) = {}
    BY DEF Range
  <2>2. Living(q)
    BY <1>6, <2>1 DEF MappedInv, ProcessInv, TreeInv
  <2> QED BY <1>1, <1>2, <1>5, <1>6, <2>2 DEF Forest
<1>7. \A p, q \in Proc : p # q => Range(children[p]) \cap Range(children[q]) = {}
  BY <1>5 DEF Forest
<1> QED BY <1>1, <1>2, <1>3, <1>4, <1>6, <1>7 DEF PidsMapped

LEMMA MappedStates ==
  ASSUME MappedInv
  PROVE  StatesMapped
<1>1. PidsMapped
  BY MappedPids
<1>2. \A p \in Allocated : p \in zombie_list <=> status[p] = Zombie
  BY DEF MappedInv, ProcessInv, ListsInv
<1>3. ASSUME NEW p \in Allocated
      PROVE  StateOf(pid[p]) = IF p \in zombie_list THEN "Ended" ELSE "Living"
  <2>1. PCBsOf(pid[p]) = {p}
    BY <1>1 DEF PCBsOf, PidsMapped
  <2>2. ~(pid[p] >= last_pid)
    <3>1. pid[p] \in Nat /\ last_pid \in Nat /\ pid[p] < last_pid
      BY <1>1 DEF PidsMapped, Pids
    <3> QED BY <3>1
  <2> QED BY <1>2, <2>1, <2>2 DEF StateOf
<1>4. ASSUME NEW k \in Pids, \A p \in Allocated : pid[p] # k
      PROVE  StateOf(k) = IF k >= last_pid THEN "Unborn" ELSE "Collected"
  <2>1. PCBsOf(k) = {}
    BY <1>4 DEF PCBsOf
  <2> QED BY <2>1 DEF StateOf
<1> QED BY <1>3, <1>4 DEF StatesMapped

LEMMA MappedGuardians ==
  ASSUME MappedInv
  PROVE  GuardiansMapped
<1>1. PidsMapped
  BY MappedPids
<1>2. ASSUME NEW q \in Proc, NEW k
      PROVE  HasChild(q, k) <=> \E c \in Range(children[q]) : pid[c] = k
  BY DEF HasChild, Range
<1>3. ASSUME NEW q \in Proc, NEW c \in Range(children[q])
      PROVE  GuardianOf(pid[c]) = pid[q]
  <2>1. q \in Allocated /\ HasChild(q, pid[c])
    BY <1>1, <1>2, <1>3 DEF PidsMapped
  <2>2. ASSUME NEW r \in Allocated, HasChild(r, pid[c]) PROVE r = q
    <3>1. r \in Proc
      BY <1>1 DEF PidsMapped
    <3>2. PICK d \in Range(children[r]) : pid[d] = pid[c]
      BY <1>2, <2>2, <3>1
    <3>3. d = c
      BY <1>1, <1>3, <3>1, <3>2 DEF PidsMapped
    <3> QED BY <1>1, <1>3, <3>1, <3>2, <3>3 DEF PidsMapped
  <2> QED BY <2>1, <2>2 DEF GuardianOf
<1>4. ASSUME NEW k \in Pids, \A q \in Proc : \A c \in Range(children[q]) : pid[c] # k
      PROVE  GuardianOf(k) = -1
  <2>1. \A q \in Allocated : ~HasChild(q, k)
    BY <1>1, <1>2, <1>4 DEF PidsMapped
  <2> QED BY <2>1 DEF GuardianOf
<1> QED BY <1>3, <1>4 DEF GuardiansMapped

LEMMA MappedCollected ==
  ASSUME MappedInv
  PROVE  CollectedMapped
<1>1. PidsMapped
  BY MappedPids
<1>2. \A p \in Proc : wait_result[p] # NoResult => p = running
  BY DEF MappedInv, MappingInv
<1>3. ASSUME NEW k \in Pids
      PROVE  CollectedBy(k) = IF k = pid[running] /\ wait_result[running] # NoResult
                              THEN << syscall_retvalue[running], wait_result[running] >>
                              ELSE << >>
  <2>1. CASE k = pid[running] /\ wait_result[running] # NoResult
    <3>1. PCBsOf(k) = {running}
      BY <1>1, <2>1 DEF PCBsOf, PidsMapped
    <3>2. (CHOOSE p \in PCBsOf(k) : TRUE) = running
      BY <3>1
    <3> QED BY <2>1, <3>1, <3>2 DEF CollectedBy
  <2>2. CASE ~(k = pid[running] /\ wait_result[running] # NoResult)
    <3>1. ~ \E p \in PCBsOf(k) : wait_result[p] # NoResult
      BY <1>1, <1>2, <2>2 DEF PCBsOf, PidsMapped
    <3> QED BY <2>2, <3>1 DEF CollectedBy
  <2> QED BY <2>1, <2>2
<1> QED BY <1>3 DEF CollectedMapped

LEMMA MappedNow == MappedInv => Mapped
BY MappedPids, MappedStates, MappedGuardians, MappedCollected DEF Mapped

LEMMA MappedThen == MappedInv' => Mapped'
BY MappedNow, PTL

\* collected before and after a step by which nothing is collected.
LEMMA CollectedView ==
  ASSUME Mapped, Mapped', MappingInv
  PROVE  /\ [[k \in Pids |-> CollectedBy(k)] EXCEPT ![pid[running]] = << >>]
              = [k \in Pids |-> << >>]
         /\ NothingCollected' =>
              [k \in Pids |-> CollectedBy(k)]' = [k \in Pids |-> << >>]
<1>1. pid[running] \in Pids
  BY DEF Mapped, PidsMapped
<1>2. \A k \in Pids : k # pid[running] => CollectedBy(k) = << >>
  BY DEF Mapped, CollectedMapped
<1>3. [[k \in Pids |-> CollectedBy(k)] EXCEPT ![pid[running]] = << >>]
        = [k \in Pids |-> << >>]
  BY <1>1, <1>2
<1>4. ASSUME NothingCollected', NEW k \in Pids PROVE CollectedBy(k)' = << >>
  <2>1. running' \in Proc
    BY DEF Mapped, PidsMapped
  <2>2. wait_result'[running'] = NoResult
    BY <1>4, <2>1 DEF NothingCollected
  <2>3. CollectedBy(k)' = IF k = pid'[running'] /\ wait_result'[running'] # NoResult
             THEN << syscall_retvalue'[running'], wait_result'[running'] >> ELSE << >>
    BY <1>4 DEF Mapped, CollectedMapped
  <2> QED BY <2>2, <2>3
<1> QED BY <1>3, <1>4

\* States and guardians are read from these variables alone.
LEMMA SameTree ==
  ASSUME Mapped, Mapped', UNCHANGED << pid, children, zombie_list, free_pcbs, last_pid >>
  PROVE  /\ [k \in Pids |-> StateOf(k)]' = [k \in Pids |-> StateOf(k)]
         /\ [k \in Pids |-> GuardianOf(k)]' = [k \in Pids |-> GuardianOf(k)]
<1>1. Allocated' = Allocated
  BY DEF Allocated
<1>2. ASSUME NEW k \in Pids PROVE StateOf(k)' = StateOf(k)
  <2>1. CASE \E p \in Allocated : pid[p] = k
    <3>1. PICK p \in Allocated : pid[p] = k
      BY <2>1
    <3>2. StateOf(k) = IF p \in zombie_list THEN "Ended" ELSE "Living"
      BY <3>1 DEF Mapped, StatesMapped
    <3>3. StateOf(k)' = IF p \in zombie_list' THEN "Ended" ELSE "Living"
      BY <1>1, <3>1 DEF Mapped, StatesMapped
    <3> QED BY <3>2, <3>3
  <2>2. CASE \A p \in Allocated : pid[p] # k
    <3>1. StateOf(k) = IF k >= last_pid THEN "Unborn" ELSE "Collected"
      BY <1>2, <2>2 DEF Mapped, StatesMapped
    <3>2. StateOf(k)' = IF k >= last_pid' THEN "Unborn" ELSE "Collected"
      BY <1>1, <1>2, <2>2 DEF Mapped, StatesMapped
    <3> QED BY <3>1, <3>2
  <2> QED BY <2>1, <2>2
<1>3. ASSUME NEW k \in Pids PROVE GuardianOf(k)' = GuardianOf(k)
  BY <1>1 DEF GuardianOf, HasChild
<1> QED BY <1>2, <1>3

\* A call or a tick that leaves the tree alone.
LEMMA StepSwitches ==
  ASSUME MappedInv, MappedInv', NothingCollected',
         UNCHANGED << pid, children, zombie_list, free_pcbs, last_pid >>
  PROVE  Tree!TreeNext
<1>1. Mapped /\ Mapped' /\ MappingInv
  BY MappedNow, MappedThen DEF MappedInv
<1>2. PICK next \in Pids : next = pid'[running']
  BY <1>1 DEF Mapped, PidsMapped
<1>3. /\ [k \in Pids |-> StateOf(k)]' = [k \in Pids |-> StateOf(k)]
      /\ [k \in Pids |-> GuardianOf(k)]' = [k \in Pids |-> GuardianOf(k)]
  BY <1>1, SameTree
<1>4. [k \in Pids |-> StateOf(k)][next] = "Living"
  <2>1. StateOf(next)' = "Living"
    BY <1>1, <1>2 DEF Mapped, PidsMapped, StatesMapped
  <2> QED BY <1>3, <2>1
<1>5. [k \in Pids |-> CollectedBy(k)]'
        = [[k \in Pids |-> CollectedBy(k)] EXCEPT ![pid[running]] = << >>]
  BY <1>1, CollectedView
<1>6. Tree!Switch(next)
  BY <1>2, <1>3, <1>4, <1>5 DEF Tree!Switch, Tree!Lives, Tree!Uses, Tree!Nothing
<1> QED BY <1>2, <1>6 DEF Tree!TreeNext

\* A pid whose PCB a step leaves alone.
LEMMA StateKept ==
  ASSUME Mapped, Mapped', NEW k \in Pids,
         k >= last_pid <=> k >= last_pid',
         \A p \in Proc : p \in Allocated /\ pid[p] = k <=> p \in Allocated' /\ pid'[p] = k,
         \A p \in Allocated : pid[p] = k => (p \in zombie_list <=> p \in zombie_list')
  PROVE  StateOf(k)' = StateOf(k)
<1>1. Allocated \subseteq Proc /\ Allocated' \subseteq Proc
  BY DEF Mapped, PidsMapped
<1>2. CASE \E p \in Allocated : pid[p] = k
  <2>1. PICK p \in Allocated : pid[p] = k
    BY <1>2
  <2>2. StateOf(k) = IF p \in zombie_list THEN "Ended" ELSE "Living"
    BY <2>1 DEF Mapped, StatesMapped
  <2>3. StateOf(k)' = IF p \in zombie_list' THEN "Ended" ELSE "Living"
    BY <1>1, <2>1 DEF Mapped, StatesMapped
  <2> QED BY <2>1, <2>2, <2>3
<1>3. CASE \A p \in Allocated : pid[p] # k
  <2>1. StateOf(k) = IF k >= last_pid THEN "Unborn" ELSE "Collected"
    BY <1>3 DEF Mapped, StatesMapped
  <2>2. \A p \in Allocated' : pid'[p] # k
    BY <1>1, <1>3
  <2>3. StateOf(k)' = IF k >= last_pid' THEN "Unborn" ELSE "Collected"
    BY <2>2 DEF Mapped, StatesMapped
  <2> QED BY <2>1, <2>3
<1> QED BY <1>2, <1>3

\* A pid that a step leaves in the list of children in which it is.
LEMMA GuardianKept ==
  ASSUME Mapped, Mapped', NEW k \in Pids,
         \A q \in Proc : \A c \in Range(children[q]) : pid[c] = k =>
           c \in Range(children'[q]) /\ pid'[c] = k /\ pid'[q] = pid[q],
         \A q \in Proc : \A c \in Range(children'[q]) : pid'[c] = k =>
           c \in Range(children[q]) /\ pid[c] = k
  PROVE  GuardianOf(k)' = GuardianOf(k)
<1>1. CASE \E q \in Proc : \E c \in Range(children[q]) : pid[c] = k
  <2>1. PICK q \in Proc : \E c \in Range(children[q]) : pid[c] = k
    BY <1>1
  <2>2. PICK c \in Range(children[q]) : pid[c] = k
    BY <2>1
  <2>3. GuardianOf(k) = pid[q]
    BY <2>2 DEF Mapped, GuardiansMapped
  <2>4. GuardianOf(k)' = pid'[q]
    BY <2>2 DEF Mapped, GuardiansMapped
  <2> QED BY <2>2, <2>3, <2>4
<1>2. CASE \A q \in Proc : \A c \in Range(children[q]) : pid[c] # k
  <2>1. GuardianOf(k) = -1
    BY <1>2 DEF Mapped, GuardiansMapped
  <2>2. \A q \in Proc : \A c \in Range(children'[q]) : pid'[c] # k
    BY <1>2
  <2>3. GuardianOf(k)' = -1
    BY <2>2 DEF Mapped, GuardiansMapped
  <2> QED BY <2>1, <2>3
<1> QED BY <1>1, <1>2

\* spawn and fork: the smallest pid not used yet is born.
LEMMA StepSpawns ==
  ASSUME MappedInv, MappedInv', NothingCollected', NEW p \in Proc, ChildStarts(p)
  PROVE  Tree!TreeNext
<1>1. Mapped /\ Mapped' /\ MappingInv
  BY MappedNow, MappedThen DEF MappedInv
<1>2. /\ p \in free_pcbs /\ last_pid <= MaxPid
      /\ free_pcbs' = free_pcbs \ {p}
      /\ pid' = [pid EXCEPT ![p] = last_pid]
      /\ last_pid' = last_pid + 1
      /\ children' = Added(children, running, p)
      /\ UNCHANGED << running, zombie_list >>
  BY DEF ChildStarts, PCB_alloc, ChildAdded, Added
<1>3. /\ p \notin Allocated /\ Allocated' = Allocated \cup {p}
      /\ running \in Allocated /\ Allocated \subseteq Proc /\ zombie_list \subseteq Allocated
  BY <1>1, <1>2 DEF Allocated, Mapped, PidsMapped
<1>4. \A q \in Proc : pid'[q] = IF q = p THEN last_pid ELSE pid[q]
  BY <1>2 DEF MappedInv, ProcessInv, ProcessTypeOK
<1>5. /\ Range(children'[running]) = Range(children[running]) \cup {p}
      /\ \A q \in Proc : q # running => children'[q] = children[q]
  <2> DEFINE A == Allocated \ {init_pcb}
  <2>1. Forest(children, A) /\ A \in SUBSET Proc /\ p \in Proc \ A /\ running \in Proc
    BY <1>3 DEF MappedInv, ProcessInv, TreeInv
  <2>2. children[p] = << >> /\ p # running
    BY <1>2, <1>3 DEF MappedInv, ProcessInv, ListsInv, TreeInv
  <2>3. children' = Added(children, running, p)
    BY <1>2
  <2> DEFINE new == Added(children, running, p)
  <2>4. /\ Forest(new, A \cup {p})
        /\ Range(new[running]) = Range(children[running]) \cup {p}
        /\ \A q \in Proc : q # running => new[q] = children[q]
    <3> HIDE DEF A
    <3> QED BY <2>1, <2>2, ForestAdd
  <2> HIDE DEF new
  <2> QED BY <2>3, <2>4 DEF new
<1>6. PICK new \in Pids : new = last_pid
  BY <1>1, <1>2, ProcessAssumption DEF Mapped, PidsMapped, Pids
<1>7. \A q \in Allocated : pid[q] # new /\ pid'[q] = pid[q] /\ q # p
  <2>1. \A q \in Allocated : pid[q] < last_pid /\ pid[q] \in Pids /\ last_pid \in Nat
    BY <1>1 DEF Mapped, PidsMapped
  <2> QED BY <1>3, <1>4, <1>6, <2>1 DEF Pids
<1>8. StateOf(new) = "Unborn" /\ StateOf(new)' = "Living"
  <2>1. new >= last_pid
    BY <1>6 DEF Pids
  <2>2. pid'[p] = new /\ p \in Allocated' /\ p \notin zombie_list'
    BY <1>2, <1>3, <1>4, <1>6
  <2> QED BY <1>1, <1>7, <2>1, <2>2 DEF Mapped, StatesMapped
<1>9. ASSUME NEW k \in Pids, k # new
      PROVE  StateOf(k)' = StateOf(k) /\ GuardianOf(k)' = GuardianOf(k)
  <2>1. k >= last_pid <=> k >= last_pid'
    BY <1>2, <1>6, <1>9 DEF Pids
  <2>2. \A q \in Proc : q \in Allocated /\ pid[q] = k <=> q \in Allocated' /\ pid'[q] = k
    BY <1>3, <1>4, <1>6, <1>7, <1>9
  <2>3. StateOf(k)' = StateOf(k)
    BY <1>1, <1>2, <2>1, <2>2, StateKept
  <2>4. \A q \in Proc : \A c \in Range(children[q]) : c \in Allocated /\ q \in Allocated
    BY <1>1 DEF Mapped, PidsMapped
  <2>5. \A q \in Proc : \A c \in Range(children[q]) : pid[c] = k =>
           c \in Range(children'[q]) /\ pid'[c] = k /\ pid'[q] = pid[q]
    BY <1>5, <1>7, <2>4
  <2>6. \A q \in Proc : \A c \in Range(children'[q]) : pid'[c] = k =>
           c \in Range(children[q]) /\ pid[c] = k
    BY <1>4, <1>5, <1>6, <1>7, <1>9, <2>4
  <2>7. GuardianOf(k)' = GuardianOf(k)
    BY <1>1, <2>5, <2>6, GuardianKept
  <2> QED BY <2>3, <2>7
<1>10. GuardianOf(new)' = pid[running]
  <2>1. p \in Range(children'[running]) /\ pid'[p] = new /\ running \in Proc
    BY <1>3, <1>4, <1>5, <1>6
  <2>2. GuardianOf(new)' = pid'[running]
    BY <1>1, <2>1 DEF Mapped, GuardiansMapped
  <2> QED BY <1>3, <1>7, <2>2
<1>11. \A j \in Pids : j < new => StateOf(j) # "Unborn"
  <2>1. \A j \in Pids : j < new => ~(j >= last_pid)
    BY <1>6 DEF Pids
  <2> QED BY <1>1, <2>1 DEF Mapped, StatesMapped
<1>12. [k \in Pids |-> StateOf(k)]'
         = [[k \in Pids |-> StateOf(k)] EXCEPT ![new] = "Living"]
  BY <1>8, <1>9
<1>13. [k \in Pids |-> GuardianOf(k)]'
         = [[k \in Pids |-> GuardianOf(k)] EXCEPT ![new] = pid[running]]
  BY <1>9, <1>10
<1>14. [k \in Pids |-> CollectedBy(k)]'
         = [[k \in Pids |-> CollectedBy(k)] EXCEPT ![pid[running]] = << >>]
  BY <1>1, CollectedView
<1>15. (pid[running])' = pid[running]
  BY <1>2, <1>3, <1>7
<1>16. Tree!Spawn(new)
  BY <1>8, <1>11, <1>12, <1>13, <1>14, <1>15 DEF Tree!Spawn, Tree!Uses, Tree!Nothing
<1> QED BY <1>16 DEF Tree!TreeNext

\* wait, for a zombie: its guardian collects it.
LEMMA StepCollects ==
  ASSUME MappedInv, MappedInv', NEW arg \in WaitArgs, WaitReaps(arg)
  PROVE  Tree!TreeNext
<1>1. Mapped /\ Mapped' /\ MappingInv
  BY MappedNow, MappedThen DEF MappedInv
<1>2. PICK i \in DOMAIN children[running] :
        LET c == children[running][i]
        IN  /\ status[c] = Zombie
            /\ Return(pid[c])
            /\ wait_result' = [wait_result EXCEPT ![running] = return_value[c]]
            /\ children' = ChildReaped(i)
            /\ zombie_list' = zombie_list \ {c}
            /\ PCB_free(c)
            /\ UNCHANGED << running, pid, last_pid >>
  BY DEF WaitReaps
<1> DEFINE c == children[running][i]
           A == Allocated \ {init_pcb}
<1>3. /\ status[c] = Zombie
      /\ syscall_retvalue' = [syscall_retvalue EXCEPT ![running] = pid[c]]
      /\ wait_result' = [wait_result EXCEPT ![running] = return_value[c]]
      /\ children' = Removed(children, running, i)
      /\ zombie_list' = zombie_list \ {c}
      /\ free_pcbs' = free_pcbs \cup {c}
      /\ UNCHANGED << running, pid, last_pid >>
  BY <1>2 DEF Return, ChildReaped, Removed, PCB_free
<1>4. /\ running \in Proc /\ A \in SUBSET Proc /\ Allocated \subseteq Proc
      /\ zombie_list \subseteq Allocated /\ Forest(children, A)
  BY <1>1 DEF Mapped, PidsMapped, MappedInv, ProcessInv, TreeInv
<1> HIDE DEF c
<1>5. /\ c \in Range(children[running])
      /\ \A q \in Proc : Range(children'[q]) = Range(children[q]) \ {c}
  <2>1. /\ Forest(Removed(children, running, i), A \ {c})
        /\ c \in Range(children[running])
        /\ \A q \in Proc : Range(Removed(children, running, i)[q]) = Range(children[q]) \ {c}
    <3> HIDE DEF A
    <3> QED BY <1>4, ForestRemove DEF c
  <2> QED BY <1>3, <2>1
<1>6. /\ c \in Allocated /\ c \in zombie_list
      /\ \A q \in Allocated : pid[q] = pid[c] => q = c
      /\ \A q \in Proc : \A d \in Range(children[q]) : d \in Allocated
  <2>1. c \in Allocated
    BY <1>1, <1>4, <1>5 DEF Mapped, PidsMapped
  <2>2. c \in zombie_list
    BY <1>3, <2>1 DEF MappedInv, ProcessInv, ListsInv
  <2> QED BY <1>1, <2>1, <2>2 DEF Mapped, PidsMapped
<1>7. Allocated' = Allocated \ {c}
  BY <1>3 DEF Allocated
<1>8. PICK old \in Pids : old = pid[c] /\ old < last_pid
  BY <1>1, <1>6 DEF Mapped, PidsMapped
<1>9. StateOf(old) = "Ended" /\ StateOf(old)' = "Collected"
  <2>1. StateOf(old) = "Ended"
    BY <1>1, <1>6, <1>8 DEF Mapped, StatesMapped
  <2>2. \A q \in Allocated' : pid'[q] # old
    BY <1>3, <1>6, <1>7, <1>8
  <2>3. ~(old >= last_pid')
    <3>1. last_pid' = last_pid /\ last_pid \in Nat /\ old < last_pid /\ old \in Int
      BY <1>1, <1>3, <1>8 DEF Mapped, PidsMapped, Pids
    <3> QED BY <3>1
  <2>4. StateOf(old)' = "Collected"
    BY <1>1, <2>2, <2>3 DEF Mapped, StatesMapped
  <2> QED BY <2>1, <2>4
<1>10. GuardianOf(old) = pid[running] /\ GuardianOf(old)' = -1
  <2>1. GuardianOf(old) = pid[running]
    BY <1>1, <1>4, <1>5, <1>8 DEF Mapped, GuardiansMapped
  <2>2. \A q \in Proc : \A d \in Range(children'[q]) : pid'[d] # old
    BY <1>3, <1>5, <1>6, <1>8
  <2>3. GuardianOf(old)' = -1
    BY <1>1, <2>2 DEF Mapped, GuardiansMapped
  <2> QED BY <2>1, <2>3
<1>11. ASSUME NEW k \in Pids, k # old
       PROVE  StateOf(k)' = StateOf(k) /\ GuardianOf(k)' = GuardianOf(k)
  <2>1. StateOf(k)' = StateOf(k)
    BY <1>1, <1>3, <1>4, <1>7, <1>8, <1>11, StateKept
  <2>2. \A q \in Proc : \A d \in Range(children[q]) : pid[d] = k =>
           d \in Range(children'[q]) /\ pid'[d] = k /\ pid'[q] = pid[q]
    BY <1>3, <1>5, <1>8, <1>11
  <2>3. \A q \in Proc : \A d \in Range(children'[q]) : pid'[d] = k =>
           d \in Range(children[q]) /\ pid[d] = k
    BY <1>3, <1>5
  <2>4. GuardianOf(k)' = GuardianOf(k)
    BY <1>1, <2>2, <2>3, GuardianKept
  <2> QED BY <2>1, <2>4
<1>12. [k \in Pids |-> StateOf(k)]'
         = [[k \in Pids |-> StateOf(k)] EXCEPT ![old] = "Collected"]
  BY <1>9, <1>11
<1>13. [k \in Pids |-> GuardianOf(k)]'
         = [[k \in Pids |-> GuardianOf(k)] EXCEPT ![old] = -1]
  BY <1>10, <1>11
<1>14. (pid[running])' = pid[running]
  BY <1>3
<1>15. /\ syscall_retvalue'[running'] = old /\ wait_result'[running'] = old
       /\ wait_result'[running'] # NoResult
  <2>1. return_value[c] = pid[c]
    BY <1>1, <1>6 DEF MappingInv
  <2>2. old # NoResult
    BY <1>8 DEF NoResult, Pids
  <2>3. syscall_retvalue \in [Proc -> Int] /\ wait_result \in [Proc -> Int]
    BY DEF MappedInv, ProcessInv, ProcessTypeOK
  <2> QED BY <1>3, <1>4, <1>8, <2>1, <2>2, <2>3
<1>16. [k \in Pids |-> CollectedBy(k)]'
         = [ [[k \in Pids |-> CollectedBy(k)] EXCEPT ![pid[running]] = << >>]
               EXCEPT ![pid[running]] = << old, old >> ]
  <2>1. [[k \in Pids |-> CollectedBy(k)] EXCEPT ![pid[running]] = << >>]
          = [k \in Pids |-> << >>]
    BY <1>1, CollectedView
  <2>2. ASSUME NEW k \in Pids
        PROVE  CollectedBy(k)' = IF k = pid[running] THEN << old, old >> ELSE << >>
    BY <1>1, <1>14, <1>15 DEF Mapped, CollectedMapped
  <2>3. pid[running] \in Pids
    BY <1>1 DEF Mapped, PidsMapped
  <2> QED BY <2>1, <2>2, <2>3
<1>17. Tree!Wait(old)
  BY <1>9, <1>10, <1>12, <1>13, <1>14, <1>16
  DEF Tree!Wait, Tree!Collects, Tree!Uses, Tree!Nothing, Tree!NoGuardian
<1> QED BY <1>17 DEF Tree!TreeNext

\* The children of the process that exits are among those of init.
LEMMA OrphanedRanges ==
  ASSUME Mapped, MappedInv, running # init_pcb
  PROVE  \A q \in Proc :
           Range(Orphaned[q]) = IF q = running THEN {}
                                ELSE IF q = init_pcb
                                THEN Range(children[init_pcb]) \cup Range(children[running])
                                ELSE Range(children[q])
<1> DEFINE A == Allocated \ {init_pcb}
           new == Moved(children, init_pcb, running)
<1>1. /\ Forest(children, A) /\ A \in SUBSET Proc
      /\ init_pcb \in Proc /\ running \in Proc \ {init_pcb}
  BY DEF MappedInv, ProcessInv, TreeInv, Mapped, PidsMapped
<1>2. new = Orphaned
  BY DEF Orphaned, Moved
<1>3. /\ Forest(new, A)
      /\ Range(new[init_pcb]) = Range(children[init_pcb]) \cup Range(children[running])
      /\ new[running] = << >>
      /\ \A q \in Proc \ {init_pcb, running} : new[q] = children[q]
  <2> HIDE DEF A
  <2> QED BY <1>1, ForestMove
<1> HIDE DEF new
<1>4. Range(<< >>) = {}
  BY DEF Range
<1> QED BY <1>1, <1>2, <1>3, <1>4

(***************************************************************************)
(* What both branches of exit do to the pids other than that of the        *)
(* process that ends: those it was guardian of are init's.                 *)
(***************************************************************************)
LEMMA OthersAdopted ==
  ASSUME MappedInv, Mapped, Mapped', running # init_pcb,
         UNCHANGED << pid, last_pid >>,
         Allocated' \cup {running} = Allocated,
         zombie_list' \ {running} = zombie_list,
         \A q \in Proc : Range(children'[q]) \ {running} = Range(Orphaned[q]) \ {running},
         NEW k \in Pids, k # pid[running]
  PROVE  /\ StateOf(k)' = StateOf(k)
         /\ GuardianOf(k)' = IF GuardianOf(k) = pid[running] THEN 0 ELSE GuardianOf(k)
<1>1. /\ Allocated \subseteq Proc /\ running \in Allocated /\ init_pcb \in Allocated
      /\ running \notin zombie_list
      /\ \A p, q \in Allocated : pid[p] = pid[q] => p = q
      /\ \A q \in Proc : \A c \in Range(children[q]) : c \in Allocated /\ q \in Allocated
  BY DEF Mapped, PidsMapped
<1>2. StateOf(k)' = StateOf(k)
  <2>1. \A p \in Proc : p \in Allocated /\ pid[p] = k <=> p \in Allocated' /\ pid'[p] = k
    OBVIOUS
  <2>2. \A p \in Allocated : pid[p] = k => (p \in zombie_list <=> p \in zombie_list')
    OBVIOUS
  <2> QED BY <2>1, <2>2, StateKept
<1>3. \A q \in Proc :
        Range(Orphaned[q]) = IF q = running THEN {}
                             ELSE IF q = init_pcb
                             THEN Range(children[init_pcb]) \cup Range(children[running])
                             ELSE Range(children[q])
  BY OrphanedRanges
<1>4. pid[init_pcb] = 0
  BY DEF MappedInv, MappingInv
<1>5. CASE \E q \in Proc : \E c \in Range(children[q]) : pid[c] = k
  <2>1. PICK q \in Proc : \E c \in Range(children[q]) : pid[c] = k
    BY <1>5
  <2>2. PICK c \in Range(children[q]) : pid[c] = k
    BY <2>1
  <2>3. GuardianOf(k) = pid[q] /\ c # running
    BY <2>2 DEF Mapped, GuardiansMapped
  <2>4. CASE q = running
    <3>1. c \in Range(children'[init_pcb]) /\ pid'[c] = k /\ init_pcb \in Proc
      BY <1>1, <1>3, <2>2, <2>3, <2>4
    <3>2. GuardianOf(k)' = pid'[init_pcb]
      BY <3>1 DEF Mapped, GuardiansMapped
    <3> QED BY <1>2, <1>4, <2>3, <2>4, <3>2
  <2>5. CASE q # running
    <3>1. c \in Range(children'[q]) /\ pid'[c] = k
      BY <1>1, <1>3, <2>2, <2>3, <2>5
    <3>2. GuardianOf(k)' = pid'[q]
      BY <3>1 DEF Mapped, GuardiansMapped
    <3>3. pid[q] # pid[running]
      BY <1>1, <2>2, <2>5
    <3> QED BY <1>2, <2>3, <3>2, <3>3
  <2> QED BY <2>4, <2>5
<1>6. CASE \A q \in Proc : \A c \in Range(children[q]) : pid[c] # k
  <2>1. GuardianOf(k) = -1
    BY <1>6 DEF Mapped, GuardiansMapped
  <2>2. \A q \in Proc : \A c \in Range(children'[q]) : pid'[c] # k
    <3> SUFFICES ASSUME NEW q \in Proc, NEW c \in Range(children'[q]), pid'[c] = k
                 PROVE  FALSE
      OBVIOUS
    <3>1. c \in Range(Orphaned[q])
      OBVIOUS
    <3> QED BY <1>1, <1>3, <1>6, <3>1
  <2>3. GuardianOf(k)' = -1
    BY <2>2 DEF Mapped, GuardiansMapped
  <2>4. pid[running] # -1
    BY <1>1 DEF Mapped, PidsMapped, Pids
  <2> QED BY <1>2, <2>1, <2>3, <2>4
<1> QED BY <1>2, <1>5, <1>6

\* exit, when nobody waits: the process ends and the processor goes to another one.
LEMMA StepEnds ==
  ASSUME MappedInv, MappedInv', NothingCollected', running # init_pcb,
         NEW value, ExitLeavesZombie(value)
  PROVE  Tree!TreeNext
<1>1. Mapped /\ Mapped' /\ MappingInv
  BY MappedNow, MappedThen DEF MappedInv
<1>2. /\ children' = Orphaned
      /\ zombie_list' = zombie_list \cup {running}
      /\ ready_list # << >> /\ running' = Head(ready_list)
      /\ UNCHANGED << pid, free_pcbs, last_pid >>
  BY DEF ExitLeavesZombie, RunNext
<1>3. /\ Allocated' = Allocated /\ Allocated \subseteq Proc
      /\ running \in Allocated /\ init_pcb \in Allocated /\ running \notin zombie_list
      /\ \A p, q \in Allocated : pid[p] = pid[q] => p = q
  BY <1>1, <1>2 DEF Allocated, Mapped, PidsMapped
<1>4. PICK old \in Pids : old = pid[running]
  BY <1>1 DEF Mapped, PidsMapped
<1>5. PICK next \in Pids : next = pid'[running']
  BY <1>1 DEF Mapped, PidsMapped
<1>6. ASSUME NEW k \in Pids, k # old
      PROVE  /\ StateOf(k)' = StateOf(k)
             /\ GuardianOf(k)' = IF GuardianOf(k) = old THEN 0 ELSE GuardianOf(k)
  <2>1. \A q \in Proc : Range(children'[q]) \ {running} = Range(Orphaned[q]) \ {running}
    BY <1>2
  <2>2. /\ UNCHANGED << pid, last_pid >>
        /\ Allocated' \cup {running} = Allocated
        /\ zombie_list' \ {running} = zombie_list
    BY <1>2, <1>3
  <2>3. k # pid[running]
    BY <1>4, <1>6
  <2> QED BY <1>1, <1>4, <2>1, <2>2, <2>3, OthersAdopted
<1>7. StateOf(old)' = "Ended"
  <2>1. pid'[running] = old /\ running \in Allocated' /\ running \in zombie_list'
    BY <1>2, <1>3, <1>4
  <2> QED BY <1>1, <2>1 DEF Mapped, StatesMapped
<1>8. PICK q \in Proc : running \in Range(children[q])
  <2>1. Forest(children, Allocated \ {init_pcb})
    BY DEF MappedInv, ProcessInv, TreeInv
  <2> QED BY <1>3, <2>1 DEF Forest
<1>9. q # running
  BY <1>3, <1>8 DEF MappedInv, ProcessInv, ParentInv, PidsInv
<1>10. GuardianOf(old)' = GuardianOf(old) /\ GuardianOf(old) # old
  <2>1. GuardianOf(old) = pid[q] /\ q \in Allocated
    BY <1>1, <1>4, <1>8 DEF Mapped, GuardiansMapped, PidsMapped
  <2>2. running \in Range(children'[q])
    BY <1>1, <1>2, <1>8, <1>9, OrphanedRanges
  <2>3. pid'[running] = old /\ pid'[q] = pid[q]
    BY <1>2, <1>4
  <2>4. GuardianOf(old)' = pid'[q]
    BY <1>1, <2>2, <2>3 DEF Mapped, GuardiansMapped
  <2>5. pid[q] # old
    BY <1>3, <1>4, <1>9, <2>1
  <2> QED BY <2>1, <2>3, <2>4, <2>5
<1>11. [k \in Pids |-> StateOf(k)]'
         = [[k \in Pids |-> StateOf(k)] EXCEPT ![old] = "Ended"]
  BY <1>6, <1>7
<1>12. [k \in Pids |-> GuardianOf(k)]'
         = [k \in Pids |-> IF [j \in Pids |-> GuardianOf(j)][k] = old THEN 0
                           ELSE [j \in Pids |-> GuardianOf(j)][k]]
  BY <1>6, <1>10
<1>13. [k \in Pids |-> CollectedBy(k)]'
         = [[k \in Pids |-> CollectedBy(k)] EXCEPT ![pid[running]] = << >>]
  BY <1>1, CollectedView
<1>14. next # old
  <2>1. running' # running
    BY <1>2, NextOne DEF MappedInv
  <2>2. running' \in Allocated /\ pid'[running'] = pid[running']
    BY <1>1, <1>2, <1>3 DEF Mapped, PidsMapped
  <2> QED BY <1>3, <1>4, <1>5, <2>1, <2>2
<1>15. [k \in Pids |-> StateOf(k)][next] = "Living"
  <2>1. StateOf(next)' = "Living"
    BY <1>1, <1>5 DEF Mapped, PidsMapped, StatesMapped
  <2> QED BY <1>6, <1>14, <2>1
<1>16. pid[running] # 0
  BY <1>1, <1>3 DEF MappingInv
<1>17. Tree!Exit(next)
  BY <1>4, <1>5, <1>11, <1>12, <1>13, <1>14, <1>15, <1>16
  DEF Tree!Exit, Tree!Adopted, Tree!Lives, Tree!Uses, Tree!Nothing
<1> QED BY <1>17 DEF Tree!TreeNext

\* exit, when the parent waits: it collects the process at once, and runs.
LEMMA StepEndsCollected ==
  ASSUME MappedInv, MappedInv', running # init_pcb, ExitWakesParent(pid[running])
  PROVE  Tree!TreeNext
<1>1. Mapped /\ Mapped' /\ MappingInv
  BY MappedNow, MappedThen DEF MappedInv
<1> DEFINE P == parent[running]
<1>2. /\ ParentWaits
      /\ running' = P
      /\ syscall_retvalue' = [syscall_retvalue EXCEPT ![running] = NoResult,
                                                      ![P] = pid[running]]
      /\ wait_result' = [wait_result EXCEPT ![running] = NoResult, ![P] = pid[running]]
      /\ free_pcbs' = free_pcbs \cup {running}
      /\ UNCHANGED << pid, zombie_list, last_pid >>
  BY DEF ExitWakesParent, PCB_free
<1>3. PICK i \in DOMAIN Orphaned[P] : ListedAt(i) /\ children' = Removed(Orphaned, P, i)
  BY DEF ExitWakesParent, Removed
<1>4. P \in Proc \ {running} /\ P \in Allocated /\ Orphaned[P][i] = running
  BY <1>2, <1>3, ParentWakes DEF MappedInv
<1> HIDE DEF P
<1>5. /\ Allocated' = Allocated \ {running} /\ Allocated \subseteq Proc
      /\ running \in Allocated /\ init_pcb \in Allocated /\ running \notin zombie_list
      /\ \A p, q \in Allocated : pid[p] = pid[q] => p = q
      /\ \A q \in Proc : \A c \in Range(children[q]) : c \in Allocated
  BY <1>1, <1>2 DEF Allocated, Mapped, PidsMapped
<1>6. \A q \in Proc : Range(children'[q]) = Range(Orphaned[q]) \ {running}
  <2> DEFINE A  == Allocated \ {init_pcb}
             cs == Orphaned
  <2>1. A \in SUBSET Proc /\ Forest(cs, A) /\ P \in Proc /\ i \in DOMAIN cs[P]
    BY <1>3, <1>4, <1>5, OrphanedTree DEF MappedInv
  <2>2. cs[P][i] = running /\ children' = Removed(cs, P, i)
    BY <1>3, <1>4
  <2> HIDE DEF A, cs
  <2>3. \A f, B, q : B \in SUBSET Proc /\ Forest(f, B) /\ q \in Proc =>
          \A k \in DOMAIN f[q] :
            /\ Forest(Removed(f, q, k), B \ {f[q][k]})
            /\ \A p \in Proc : Range(Removed(f, q, k)[p]) = Range(f[p]) \ {f[q][k]}
    BY ForestRemove
  <2>4. \A k \in DOMAIN cs[P] :
            /\ Forest(Removed(cs, P, k), A \ {cs[P][k]})
            /\ \A p \in Proc : Range(Removed(cs, P, k)[p]) = Range(cs[p]) \ {cs[P][k]}
    BY <2>1, <2>3
  <2>5. \A q \in Proc : Range(children'[q]) = Range(cs[q]) \ {running}
    BY <2>1, <2>2, <2>4
  <2> QED BY <2>5 DEF cs
<1>7. PICK old \in Pids : old = pid[running] /\ old < last_pid
  BY <1>1 DEF Mapped, PidsMapped
<1>8. PICK who \in Pids : who = pid[P] /\ who # old
  BY <1>1, <1>4, <1>5, <1>7 DEF Mapped, PidsMapped
<1>9. ASSUME NEW k \in Pids, k # old
      PROVE  /\ StateOf(k)' = StateOf(k)
             /\ GuardianOf(k)' = IF GuardianOf(k) = old THEN 0 ELSE GuardianOf(k)
  <2>1. \A q \in Proc : Range(children'[q]) \ {running} = Range(Orphaned[q]) \ {running}
    BY <1>6
  <2>2. /\ UNCHANGED << pid, last_pid >>
        /\ Allocated' \cup {running} = Allocated
        /\ zombie_list' \ {running} = zombie_list
    BY <1>2, <1>5
  <2>3. k # pid[running]
    BY <1>7, <1>9
  <2> QED BY <1>1, <1>7, <2>1, <2>2, <2>3, OthersAdopted
<1>10. StateOf(old)' = "Collected"
  <2>1. \A q \in Allocated' : pid'[q] # old
    BY <1>2, <1>5, <1>7
  <2>2. ~(old >= last_pid')
    <3>1. last_pid' = last_pid /\ last_pid \in Nat /\ old < last_pid /\ old \in Int
      BY <1>1, <1>2, <1>7 DEF Mapped, PidsMapped, Pids
    <3> QED BY <3>1
  <2> QED BY <1>1, <2>1, <2>2 DEF Mapped, StatesMapped
<1>11. GuardianOf(old) = who
  <2>1. running \in Range(Orphaned[P])
    BY <1>3, <1>4 DEF Range
  <2>2. \A q \in Proc : running \in Range(children[q]) =>
          parent[running] = q \/ q = init_pcb
    BY DEF MappedInv, ProcessInv, ParentInv
  <2>3. running \notin Range(children[running])
    BY <1>4, <1>5, <2>2 DEF P
  <2>4. running \in Range(children[P])
    BY <1>1, <1>4, <2>1, <2>3, OrphanedRanges
  <2> QED BY <1>1, <1>4, <1>7, <1>8, <2>4 DEF Mapped, GuardiansMapped
<1>12. GuardianOf(old)' = -1
  <2>1. \A q \in Proc : \A c \in Range(children'[q]) : pid'[c] # old
    <3> SUFFICES ASSUME NEW q \in Proc, NEW c \in Range(children'[q]), pid'[c] = old
                 PROVE  FALSE
      OBVIOUS
    <3>1. c \in Allocated'
      BY <1>1 DEF Mapped, PidsMapped
    <3> QED BY <1>2, <1>5, <1>7, <3>1
  <2> QED BY <1>1, <2>1 DEF Mapped, GuardiansMapped
<1>13. [k \in Pids |-> StateOf(k)]'
         = [[k \in Pids |-> StateOf(k)] EXCEPT ![old] = "Collected"]
  BY <1>9, <1>10
<1>14. [k \in Pids |-> GuardianOf(k)]'
         = [[k \in Pids |-> IF [j \in Pids |-> GuardianOf(j)][k] = old THEN 0
                            ELSE [j \in Pids |-> GuardianOf(j)][k]] EXCEPT ![old] = -1]
  BY <1>9, <1>12
<1>15. /\ (pid[running])' = who
       /\ syscall_retvalue'[running'] = old /\ wait_result'[running'] = old
       /\ wait_result'[running'] # NoResult
  <2>1. old # NoResult
    BY <1>7 DEF NoResult, Pids
  <2>2. syscall_retvalue \in [Proc -> Int] /\ wait_result \in [Proc -> Int]
    BY DEF MappedInv, ProcessInv, ProcessTypeOK
  <2> QED BY <1>2, <1>4, <1>7, <1>8, <2>1, <2>2
<1>16. [k \in Pids |-> CollectedBy(k)]'
         = [ [[k \in Pids |-> CollectedBy(k)] EXCEPT ![pid[running]] = << >>]
               EXCEPT ![who] = << old, old >> ]
  <2>1. [[k \in Pids |-> CollectedBy(k)] EXCEPT ![pid[running]] = << >>]
          = [k \in Pids |-> << >>]
    BY <1>1, CollectedView
  <2>2. ASSUME NEW k \in Pids
        PROVE  CollectedBy(k)' = IF k = who THEN << old, old >> ELSE << >>
    BY <1>1, <1>15 DEF Mapped, CollectedMapped
  <2> QED BY <2>1, <2>2
<1>17. pid[running] # 0
  BY <1>1, <1>5 DEF MappingInv
<1>18. [k \in Pids |-> GuardianOf(k)][old] = who
  BY <1>11
<1>19. Tree!ExitCollected
  <2>1. (pid[running])' = [k \in Pids |-> GuardianOf(k)][pid[running]]
    BY <1>7, <1>15, <1>18
  <2>2. [k \in Pids |-> StateOf(k)]'
          = [[k \in Pids |-> StateOf(k)] EXCEPT ![pid[running]] = "Collected"]
    BY <1>7, <1>13
  <2>3. [k \in Pids |-> GuardianOf(k)]' = [Tree!Adopted EXCEPT ![pid[running]] = -1]
    BY <1>7, <1>14 DEF Tree!Adopted
  <2>4. [k \in Pids |-> CollectedBy(k)]'
          = Tree!Collects([k \in Pids |-> GuardianOf(k)][pid[running]], pid[running],
                          Tree!Uses)
    BY <1>7, <1>16, <1>18 DEF Tree!Collects, Tree!Uses, Tree!Nothing
  <2> QED BY <1>17, <2>1, <2>2, <2>3, <2>4 DEF Tree!ExitCollected, Tree!NoGuardian
<1> QED BY <1>19 DEF Tree!TreeNext

\* The running process has read what wait has delivered, and gets nothing new.
LEMMA ResultsRead ==
  ASSUME MappedInv, wait_result' = [wait_result EXCEPT ![running] = NoResult]
  PROVE  NothingCollected'
<1>1. wait_result \in [Proc -> Int] /\ \A p \in Proc : wait_result[p] # NoResult => p = running
  BY DEF MappedInv, MappingInv, ProcessInv, ProcessTypeOK
<1> QED BY <1>1 DEF NothingCollected

LEMMA MappingKept ==
  ASSUME MappedInv, NothingCollected',
         UNCHANGED << pid, last_pid, zombie_list, return_value >>
  PROVE  MappingInv'
BY DEF MappedInv, MappingInv, NothingCollected

\* A call or a tick that leaves the tree alone.
LEMMA IdleStep ==
  ASSUME MappedInv, ProcessInv', wait_result' = [wait_result EXCEPT ![running] = NoResult],
         UNCHANGED << pid, children, return_value, zombie_list, free_pcbs, last_pid >>
  PROVE  MappingInv' /\ Tree!TreeNext
<1>1. NothingCollected'
  BY ResultsRead
<1>2. MappingInv'
  BY <1>1, MappingKept
<1> QED BY <1>1, <1>2, StepSwitches DEF MappedInv

\* The kernel stops, or nothing happens: the programs see nothing of it.
LEMMA StoppedStep ==
  ASSUME MappedInv, ProcessInv',
         UNCHANGED << SchedulerVars, pid, children, return_value, wait_result,
                      zombie_list, free_pcbs, last_pid >>
  PROVE  MappingInv' /\ UNCHANGED Tree!treeVars
<1>1. UNCHANGED << running, syscall_retvalue >>
  BY DEF SchedulerVars
<1>2. MappingInv'
  BY <1>1 DEF MappedInv, MappingInv
<1>3. Mapped /\ Mapped'
  BY <1>2, MappedNow, MappedThen DEF MappedInv
<1>4. ASSUME NEW k \in Pids PROVE CollectedBy(k)' = CollectedBy(k)
  BY <1>1, <1>3 DEF Mapped, CollectedMapped
<1>5. /\ [k \in Pids |-> StateOf(k)]' = [k \in Pids |-> StateOf(k)]
      /\ [k \in Pids |-> GuardianOf(k)]' = [k \in Pids |-> GuardianOf(k)]
  BY <1>3, SameTree
<1>6. /\ [k \in Pids |-> CollectedBy(k)]' = [k \in Pids |-> CollectedBy(k)]
      /\ (pid[running])' = pid[running]
  BY <1>1, <1>4
<1> QED BY <1>2, <1>5, <1>6 DEF Tree!treeVars

\* Every step of the kernel is one of the tree of processes, or none.
LEMMA TreeStep ==
  ASSUME MappedInv, [ProcessNext]_AllVars
  PROVE  MappedInv' /\ [Tree!TreeNext]_(Tree!treeVars)
<1>1. ProcessInv'
  BY ProcessNextInv DEF MappedInv
<1>2. /\ pid \in [Proc -> Nat] /\ last_pid \in Nat /\ return_value \in [Proc -> Int]
      /\ wait_result \in [Proc -> Int]
      /\ running \in Proc /\ running \in Allocated /\ init_pcb \in Allocated
      /\ zombie_list \subseteq Allocated /\ running \notin zombie_list
  BY MappedPids DEF MappedInv, ProcessInv, ProcessTypeOK, PidsMapped
<1>3. /\ pid[init_pcb] = 0 /\ last_pid <= MaxPid + 1
      /\ \A p \in Proc : wait_result[p] # NoResult => p = running
      /\ \A p \in zombie_list : return_value[p] = pid[p]
  BY DEF MappedInv, MappingInv
<1> DEFINE Goal == MappingInv' /\ [Tree!TreeNext]_(Tree!treeVars)
<1> SUFFICES Goal
  BY <1>1 DEF MappedInv
<1>4. ASSUME NEW reason, Fails(reason) PROVE Goal
  BY <1>1, <1>4, StoppedStep DEF Fails
<1>5. CASE UNCHANGED AllVars
  <2>1. UNCHANGED << SchedulerVars, pid, children, return_value, wait_result,
                     zombie_list, free_pcbs, last_pid >>
    BY <1>5 DEF AllVars, ProcessVars
  <2> QED BY <1>1, <2>1, StoppedStep
<1>6. CASE Scheduling
  <2>1. CASE Fails(NotListed)
    BY <1>4, <2>1
  <2>2. CASE TreeFrame
    <3>1. /\ wait_result' = [wait_result EXCEPT ![running] = NoResult]
          /\ UNCHANGED << pid, children, return_value, zombie_list, free_pcbs, last_pid >>
      BY <2>2 DEF TreeFrame
    <3> QED BY <1>1, <3>1, IdleStep
  <2> QED BY <1>6, <2>1, <2>2 DEF Scheduling, ProcessTick, TickFrame, CallFrame
<1>7. CASE SpawnFails \/ \E arg \in WaitArgs : WaitRejected(arg)
  <2>1. /\ wait_result' = [wait_result EXCEPT ![running] = NoResult]
        /\ UNCHANGED << pid, children, return_value, zombie_list, free_pcbs, last_pid >>
    BY <1>7 DEF SpawnFails, WaitRejected, Result
  <2> QED BY <1>1, <2>1, IdleStep
<1>8. ASSUME NEW arg \in WaitArgs, WaitBlocks(arg) PROVE Goal
  <2>1. /\ wait_result' = [wait_result EXCEPT ![running] = NoResult]
        /\ UNCHANGED << pid, children, return_value, zombie_list, free_pcbs, last_pid >>
    BY <1>8 DEF WaitBlocks, Result
  <2> QED BY <1>1, <2>1, IdleStep
<1>9. ASSUME NEW p \in Proc, SpawnStarts(p) \/ ForkStarts(p) PROVE Goal
  <2>1. ChildStarts(p)
    BY <1>9 DEF SpawnStarts, ForkStarts
  <2>2. /\ p \in free_pcbs /\ last_pid <= MaxPid
        /\ pid' = [pid EXCEPT ![p] = last_pid]
        /\ last_pid' = last_pid + 1
        /\ return_value' = [return_value EXCEPT ![p] = 0]
        /\ wait_result' = [wait_result EXCEPT ![running] = NoResult]
        /\ zombie_list' = zombie_list
    BY <2>1 DEF ChildStarts, PCB_alloc, Result
  <2>3. NothingCollected'
    BY <2>2, ResultsRead
  <2>4. p \notin Allocated
    BY <2>2 DEF Allocated
  <2>5. last_pid' <= MaxPid + 1
    BY <1>2, <2>2, ProcessAssumption
  <2>6. pid'[init_pcb] = 0 /\ \A q \in zombie_list' : return_value'[q] = pid'[q]
    BY <1>2, <1>3, <2>2, <2>4 DEF Allocated
  <2>7. MappingInv'
    BY <2>3, <2>5, <2>6 DEF MappingInv, NothingCollected
  <2> QED BY <1>1, <2>1, <2>3, <2>7, StepSpawns DEF MappedInv
<1>10. ASSUME NEW arg \in WaitArgs, WaitReaps(arg) PROVE Goal
  <2>1. PICK i \in DOMAIN children[running] :
          /\ wait_result' = [wait_result EXCEPT
                              ![running] = return_value[children[running][i]]]
          /\ zombie_list' = zombie_list \ {children[running][i]}
          /\ UNCHANGED << running, pid, return_value, last_pid >>
    BY <1>10 DEF WaitReaps
  <2>2. \A p \in Proc : wait_result'[p] # NoResult => p = running'
    BY <1>2, <1>3, <2>1
  <2>3. MappingInv'
    BY <1>3, <2>1, <2>2 DEF MappingInv
  <2> QED BY <1>1, <1>10, <2>3, StepCollects DEF MappedInv
<1>11. CASE running # init_pcb /\ ExitLeavesZombie(pid[running])
  <2>1. /\ return_value' = [return_value EXCEPT ![running] = pid[running]]
        /\ wait_result' = [wait_result EXCEPT ![running] = NoResult]
        /\ zombie_list' = zombie_list \cup {running}
        /\ UNCHANGED << pid, last_pid >>
    BY <1>11 DEF ExitLeavesZombie, Result
  <2>2. NothingCollected'
    BY <2>1, ResultsRead
  <2>3. \A q \in zombie_list' : return_value'[q] = pid'[q]
    BY <1>2, <1>3, <2>1 DEF Allocated
  <2>4. MappingInv'
    BY <1>3, <2>1, <2>2, <2>3 DEF MappingInv, NothingCollected
  <2> QED BY <1>1, <1>11, <2>2, <2>4, StepEnds DEF MappedInv
<1>12. CASE running # init_pcb /\ ExitWakesParent(pid[running])
  <2>1. /\ return_value' = [return_value EXCEPT ![running] = pid[running]]
        /\ wait_result' = [wait_result EXCEPT ![running] = NoResult,
                                              ![parent[running]] = pid[running]]
        /\ running' = parent[running]
        /\ UNCHANGED << pid, zombie_list, last_pid >>
    BY <1>12 DEF ExitWakesParent
  <2>2. \A p \in Proc : wait_result'[p] # NoResult => p = running'
    BY <1>2, <1>3, <2>1
  <2>3. \A q \in zombie_list' : return_value'[q] = pid'[q]
    BY <1>2, <1>3, <2>1 DEF Allocated
  <2>4. MappingInv'
    BY <1>3, <2>1, <2>2, <2>3 DEF MappingInv
  <2> QED BY <1>1, <1>12, <2>4, StepEndsCollected DEF MappedInv
<1>13. ASSUME ForkedRuns \/ SpawnAborts \/ InitExits \/ ExitAborts PROVE Goal
  BY <1>4, <1>13 DEF ForkedRuns, SpawnAborts, InitExits, ExitAborts
<1>14. ASSUME NEW arg \in WaitArgs, WaitReapsSleeper(arg) \/ WaitAborts(arg) PROVE Goal
  BY <1>4, <1>14 DEF WaitReapsSleeper, WaitAborts
<1> HIDE DEF Goal
<1> QED
  BY <1>5, <1>6, <1>7, <1>8, <1>9, <1>10, <1>11, <1>12, <1>13, <1>14
  DEF ProcessNext, ProcessCall, internal_spawn, internal_fork, internal_wait,
      internal_exit

\* At boot init runs, with those that only compute as its children.
LEMMA TreeStart ==
  ASSUME Cardinality(Proc \ Callers) <= MaxPid, ProcessInit
  PROVE  MappedInv /\ Tree!TreeInit
<1> DEFINE others == Proc \ Callers
           N == Len(ready_list)
<1>1. /\ ready_list \in Seq(Proc) /\ IsInjective(ready_list)
      /\ Range(ready_list) = others
      /\ N = Cardinality(others)
      /\ DOMAIN ready_list = 1 .. N /\ N \in Nat
  BY InitReady
<1>2. /\ running = init_pcb /\ zombie_list = {}
      /\ free_pcbs = Callers \ {init_pcb}
      /\ last_pid = N + 1
      /\ children = [p \in Proc |-> IF p = init_pcb THEN ready_list ELSE << >>]
      /\ wait_result = [p \in Proc |-> NoResult]
      /\ pid = [p \in Proc |-> IF p \in others
                               THEN CHOOSE i \in DOMAIN ready_list : ready_list[i] = p
                               ELSE 0]
  BY <1>1 DEF ProcessInit
<1>3. /\ init_pcb \in Proc /\ init_pcb \notin others /\ others \subseteq Proc
      /\ Allocated = others \cup {init_pcb}
  BY <1>2, ProcessAssumption, SchedulerAssumption DEF Allocated
<1>4. pid[init_pcb] = 0
  BY <1>2, <1>3
<1>5. ASSUME NEW k \in 1 .. N PROVE ready_list[k] \in others /\ pid[ready_list[k]] = k
  <2>1. ready_list[k] \in others
    BY <1>1 DEF Range
  <2>2. \A i \in DOMAIN ready_list : ready_list[i] = ready_list[k] => i = k
    BY <1>1 DEF IsInjective
  <2>3. pid[ready_list[k]] = CHOOSE i \in DOMAIN ready_list : ready_list[i] = ready_list[k]
    BY <1>2, <1>3, <2>1
  <2> QED BY <1>1, <2>1, <2>2, <2>3
<1> HIDE DEF others, N
<1>6. ProcessInv
  BY ProcessInitInv
<1>7. N <= MaxPid /\ MaxPid \in Nat
  BY <1>1, ProcessAssumption DEF others
<1>8. MappedInv
  BY <1>1, <1>2, <1>4, <1>6, <1>7 DEF MappedInv, MappingInv
<1>9. Mapped
  BY <1>8, MappedNow
<1>10. ASSUME NEW k \in Pids
       PROVE  StateOf(k) = IF k <= N THEN "Living" ELSE "Unborn"
  <2>1. /\ \A p \in Allocated : pid[p] = k => StateOf(k) = "Living"
        /\ (\A p \in Allocated : pid[p] # k) =>
             StateOf(k) = IF k >= last_pid THEN "Unborn" ELSE "Collected"
        /\ \A p \in Allocated : pid[p] \in Nat /\ pid[p] < last_pid
    <3>1. zombie_list = {}
      BY <1>2
    <3> QED BY <1>9, <3>1 DEF Mapped, StatesMapped, PidsMapped, Pids
  <2>2. last_pid = N + 1 /\ N \in Nat /\ k \in Nat
    BY <1>1, <1>2 DEF Pids
  <2>3. CASE k \in 1 .. N
    <3>1. ready_list[k] \in Allocated /\ pid[ready_list[k]] = k
      BY <1>3, <1>5, <2>3
    <3> QED BY <2>1, <2>2, <2>3, <3>1
  <2>4. CASE k = 0
    <3>1. init_pcb \in Allocated
      BY <1>3
    <3> QED BY <1>4, <2>1, <2>2, <2>4, <3>1
  <2>5. CASE k > N
    <3>1. \A p \in Allocated : pid[p] # k
      BY <2>1, <2>2, <2>5
    <3> QED BY <2>1, <2>2, <2>5, <3>1
  <2> QED BY <2>2, <2>3, <2>4, <2>5
<1>11. ASSUME NEW k \in Pids
       PROVE  GuardianOf(k) = IF k <= N /\ k # 0 THEN 0 ELSE -1
  <2>1. CASE k \in 1 .. N
    <3>1. ready_list[k] \in Range(children[init_pcb]) /\ pid[ready_list[k]] = k
      BY <1>1, <1>2, <1>3, <1>5, <2>1
    <3> QED BY <1>3, <1>4, <1>9, <2>1, <3>1 DEF Mapped, GuardiansMapped
  <2>2. CASE k \notin 1 .. N
    <3>1. Range(<< >>) = {}
      BY DEF Range
    <3>2. ASSUME NEW q \in Proc, NEW c \in Range(children[q]) PROVE pid[c] # k
      <4>1. c \in Range(ready_list)
        BY <1>2, <3>1, <3>2
      <4>2. PICK i \in 1 .. N : c = ready_list[i]
        BY <1>1, <4>1 DEF Range
      <4> QED BY <1>5, <2>2, <4>2
    <3>3. GuardianOf(k) = -1
      BY <1>9, <3>2 DEF Mapped, GuardiansMapped
    <3> QED BY <1>1, <2>2, <3>3 DEF Pids
  <2> QED BY <2>1, <2>2
<1>12. ASSUME NEW k \in Pids PROVE CollectedBy(k) = << >>
  BY <1>2, <1>3, <1>9 DEF Mapped, CollectedMapped
<1>13. 0 \in Pids
  BY <1>7 DEF Pids
<1>14. pid[running] = 0
  BY <1>2, <1>4
<1> DEFINE st == [k \in Pids |-> StateOf(k)]
<1>15. /\ st \in [Pids -> {"Unborn", "Living"}] /\ st[0] = "Living"
       /\ \A k \in Pids : st[k] = "Living" <=> k <= N
  BY <1>1, <1>10, <1>13
<1>16. \A j, k \in Pids : st[k] = "Living" /\ j < k => st[j] = "Living"
  BY <1>1, <1>15 DEF Pids
<1>17. [k \in Pids |-> GuardianOf(k)]
         = [k \in Pids |-> IF st[k] = "Living" /\ k # 0 THEN 0 ELSE -1]
  BY <1>11, <1>15
<1>18. [k \in Pids |-> CollectedBy(k)] = [k \in Pids |-> << >>]
  BY <1>12
<1> QED
  BY <1>8, <1>14, <1>15, <1>16, <1>17, <1>18
  DEF Tree!TreeInit, Tree!Lives, Tree!NoGuardian, Tree!Nothing

(***************************************************************************)
(* Spawn, fork, wait and exit are what ProcessTree promises: seen through  *)
(* their pids, processes are born once, end once and are collected once,   *)
(* with their own value, by the one that has started them or by init.  The *)
(* bound on pids has to leave room for the processes that exist at boot.   *)
(***************************************************************************)
THEOREM CallsImplementTree ==
  ASSUME Cardinality(Proc \ Callers) <= MaxPid
  PROVE  ProcessSpec => ImplementsProcessTree
<1>1. ProcessInit => MappedInv /\ Tree!TreeInit
  BY TreeStart
<1>2. MappedInv /\ [ProcessNext]_AllVars => MappedInv' /\ [Tree!TreeNext]_(Tree!treeVars)
  BY TreeStep
<1> QED BY <1>1, <1>2, PTL DEF ProcessSpec, ImplementsProcessTree, Tree!TreeSpec

=============================================================================
