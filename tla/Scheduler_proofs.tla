-------------------------- MODULE Scheduler_proofs --------------------------
(***************************************************************************)
(* Proofs about Scheduler, for any number of processes and any arguments   *)
(* of sleep.                                                               *)
(*                                                                         *)
(* Consistent(st, rl, wl, tl) is what internal_schedule relies on when it  *)
(* is called; ScheduleLists and ScheduleTimers say what it leaves.  Every  *)
(* system call that reschedules, those of MessageQueue included, goes      *)
(* through these two lemmas.  Where processes also wait without a timer,   *)
(* or are not spawned yet or zombies, as in Process, ConsistentIn and      *)
(* ScheduleAny take their place.                                           *)
(***************************************************************************)
EXTENDS Scheduler, SequenceTheorems, FiniteSetTheorems, TLAPS

(***************************************************************************)
(* Lists without repetition: what linked_list.c's insertions at the ends   *)
(* and detachments of the head do to a list in which no element occurs     *)
(* twice.                                                                  *)
(***************************************************************************)

\* Two lists without repetition and without a common element can be joined.
LEMMA ConcatInjective ==
  ASSUME NEW S, NEW s \in Seq(S), NEW t \in Seq(S),
         IsInjective(s), IsInjective(t), Range(s) \cap Range(t) = {}
  PROVE  IsInjective(s \o t)
<1>1. /\ s \o t \in Seq(S)
      /\ Len(s \o t) = Len(s) + Len(t)
      /\ \A i \in 1 .. Len(s) + Len(t) :
           (s \o t)[i] = IF i <= Len(s) THEN s[i] ELSE t[i - Len(s)]
  BY ConcatProperties
<1>2. DOMAIN (s \o t) = 1 .. Len(s) + Len(t)
  BY <1>1, LenProperties
<1>3. /\ Len(s) \in Nat /\ DOMAIN s = 1 .. Len(s)
      /\ Len(t) \in Nat /\ DOMAIN t = 1 .. Len(t)
  BY LenProperties
<1>4. \A i \in 1 .. Len(s), j \in 1 .. Len(t) : s[i] # t[j]
  BY <1>3 DEF Range
<1>5. \A i, j \in 1 .. Len(s) : s[i] = s[j] => i = j
  BY <1>3 DEF IsInjective
<1>6. \A i, j \in 1 .. Len(t) : t[i] = t[j] => i = j
  BY <1>3 DEF IsInjective
<1> SUFFICES ASSUME NEW i \in 1 .. Len(s) + Len(t),
                    NEW j \in 1 .. Len(s) + Len(t),
                    (s \o t)[i] = (s \o t)[j]
             PROVE  i = j
  BY <1>2 DEF IsInjective
<1>7. CASE i <= Len(s) /\ j <= Len(s)
  BY <1>1, <1>3, <1>5, <1>7
<1>8. CASE i <= Len(s) /\ j > Len(s)
  BY <1>1, <1>3, <1>4, <1>8
<1>9. CASE i > Len(s) /\ j <= Len(s)
  BY <1>1, <1>3, <1>4, <1>9
<1>10. CASE i > Len(s) /\ j > Len(s)
  <2>1. i - Len(s) \in 1 .. Len(t) /\ j - Len(s) \in 1 .. Len(t)
    BY <1>3, <1>10
  <2>2. t[i - Len(s)] = t[j - Len(s)]
    BY <1>1, <1>3, <1>10
  <2> QED BY <1>3, <1>6, <2>1, <2>2
<1> QED BY <1>3, <1>7, <1>8, <1>9, <1>10

\* The list with one element.
LEMMA Singleton ==
  ASSUME NEW S, NEW e \in S
  PROVE  /\ << e >> \in Seq(S)
         /\ Range(<< e >>) = {e}
         /\ IsInjective(<< e >>)
  BY DEF Range, IsInjective

\* List_insert behind the last element.
LEMMA AppendInjectiveList ==
  ASSUME NEW S, NEW s \in Seq(S), NEW e \in S
  PROVE  /\ Append(s, e) \in Seq(S)
         /\ Range(Append(s, e)) = Range(s) \cup {e}
         /\ IsInjective(s) /\ e \notin Range(s) => IsInjective(Append(s, e))
<1>1. Append(s, e) = s \o << e >>
  BY AppendIsConcat
<1>2. << e >> \in Seq(S) /\ Range(<< e >>) = {e} /\ IsInjective(<< e >>)
  BY Singleton
<1>3. Range(s \o << e >>) = Range(s) \cup Range(<< e >>)
  BY <1>2, RangeConcatenation, ZenonT(30)
<1>4. ASSUME IsInjective(s), e \notin Range(s)
      PROVE  IsInjective(s \o << e >>)
  <2>1. Range(s) \cap Range(<< e >>) = {}
    BY <1>2, <1>4
  <2> QED BY <1>2, <1>4, <2>1, ConcatInjective
<1> QED BY <1>1, <1>2, <1>3, <1>4, AppendProperties

\* List_detach of the first element.
LEMMA DetachHead ==
  ASSUME NEW S, NEW s \in Seq(S), s # << >>
  PROVE  /\ Head(s) \in S
         /\ Tail(s) \in Seq(S)
         /\ Range(s) = {Head(s)} \cup Range(Tail(s))
         /\ IsInjective(s) => /\ IsInjective(Tail(s))
                              /\ Head(s) \notin Range(Tail(s))
                              /\ Range(Tail(s)) = Range(s) \ {Head(s)}
<1>1. /\ Head(s) \in S
      /\ Tail(s) \in Seq(S)
      /\ Len(Tail(s)) = Len(s) - 1
      /\ \A i \in 1 .. Len(Tail(s)) : Tail(s)[i] = s[i + 1]
  BY HeadTailProperties
<1>2. Len(s) \in Nat /\ DOMAIN s = 1 .. Len(s) /\ Len(s) > 0
  BY LenProperties, EmptySeq
<1>3. DOMAIN Tail(s) = 1 .. Len(s) - 1
  BY <1>1, LenProperties
<1>4. Head(s) = s[1]
  BY <1>2
<1>5. Range(Tail(s)) = { s[i + 1] : i \in 1 .. Len(s) - 1 }
  BY <1>1, <1>3 DEF Range
<1>6. Range(s) = {s[1]} \cup { s[i + 1] : i \in 1 .. Len(s) - 1 }
  <2>1. ASSUME NEW x \in Range(s)
        PROVE  x \in {s[1]} \cup { s[i + 1] : i \in 1 .. Len(s) - 1 }
    <3>1. PICK k \in 1 .. Len(s) : x = s[k]
      BY <1>2, <2>1 DEF Range
    <3>2. CASE k = 1
      BY <3>1, <3>2
    <3>3. CASE k # 1
      <4>1. k - 1 \in 1 .. Len(s) - 1 /\ s[k] = s[(k - 1) + 1]
        BY <1>2, <3>3
      <4> QED BY <3>1, <4>1
    <3> QED BY <3>2, <3>3
  <2>2. ASSUME NEW i \in 1 .. Len(s) - 1
        PROVE  s[i + 1] \in Range(s)
    <3>1. i + 1 \in 1 .. Len(s)
      BY <1>2
    <3> QED BY <1>2, <3>1 DEF Range
  <2>3. s[1] \in Range(s)
    BY <1>2 DEF Range
  <2> QED BY <2>1, <2>2, <2>3
<1>7. ASSUME IsInjective(s)
      PROVE  IsInjective(Tail(s)) /\ Head(s) \notin Range(Tail(s))
  <2>1. \A i, j \in 1 .. Len(s) : s[i] = s[j] => i = j
    BY <1>2, <1>7 DEF IsInjective
  <2>2. \A i \in 1 .. Len(s) - 1 : i + 1 \in 1 .. Len(s) /\ i + 1 # 1
    BY <1>2
  <2>3. Head(s) \notin Range(Tail(s))
    BY <1>2, <1>4, <1>5, <2>1, <2>2
  <2>4. ASSUME NEW i \in 1 .. Len(s) - 1, NEW j \in 1 .. Len(s) - 1,
               Tail(s)[i] = Tail(s)[j]
        PROVE  i = j
    <3>1. s[i + 1] = s[j + 1]
      BY <1>1, <1>2, <2>4
    <3> QED BY <1>2, <2>1, <2>2, <3>1
  <2> QED BY <1>3, <2>3, <2>4 DEF IsInjective
<1> QED BY <1>1, <1>4, <1>5, <1>6, <1>7

\* A list is its first n elements and the others.
LEMMA SplitAt ==
  ASSUME NEW S, NEW s \in Seq(S), NEW n \in 0 .. Len(s)
  PROVE  /\ SubSeq(s, 1, n) \in Seq(S)
         /\ SubSeq(s, n + 1, Len(s)) \in Seq(S)
         /\ Len(SubSeq(s, 1, n)) = n
         /\ Len(SubSeq(s, n + 1, Len(s))) = Len(s) - n
         /\ \A i \in 1 .. n : SubSeq(s, 1, n)[i] = s[i]
         /\ \A i \in 1 .. Len(s) - n : SubSeq(s, n + 1, Len(s))[i] = s[n + i]
         /\ SubSeq(s, 1, n) \o SubSeq(s, n + 1, Len(s)) = s
<1>1. Len(s) \in Nat /\ n \in Int
  BY LenProperties
<1>2. \A i \in 1 .. Len(s) : s[i] \in S
  BY ElementOfSeq
<1>3. /\ SubSeq(s, 1, n) \in Seq(S)
      /\ Len(SubSeq(s, 1, n)) = n
      /\ \A i \in 1 .. n : SubSeq(s, 1, n)[i] = s[i]
  <2>1. \A i \in 1 .. n : s[i] \in S
    BY <1>1, <1>2
  <2>2. /\ SubSeq(s, 1, n) \in Seq(S)
        /\ Len(SubSeq(s, 1, n)) = IF 1 <= n THEN n - 1 + 1 ELSE 0
        /\ \A i \in 1 .. n - 1 + 1 : SubSeq(s, 1, n)[i] = s[1 + i - 1]
    BY <1>1, <2>1, SubSeqProperties
  <2>3. Len(SubSeq(s, 1, n)) = n
    BY <1>1, <2>2
  <2>4. \A i \in 1 .. n : SubSeq(s, 1, n)[i] = s[i]
    BY <1>1, <2>2
  <2> QED BY <2>2, <2>3, <2>4
<1>4. /\ SubSeq(s, n + 1, Len(s)) \in Seq(S)
      /\ Len(SubSeq(s, n + 1, Len(s))) = Len(s) - n
      /\ \A i \in 1 .. Len(s) - n : SubSeq(s, n + 1, Len(s))[i] = s[n + i]
  <2>1. \A i \in n + 1 .. Len(s) : s[i] \in S
    BY <1>1, <1>2
  <2>2. n + 1 \in Int /\ Len(s) \in Int
    BY <1>1
  <2>3. /\ SubSeq(s, n + 1, Len(s)) \in Seq(S)
        /\ Len(SubSeq(s, n + 1, Len(s)))
             = IF n + 1 <= Len(s) THEN Len(s) - (n + 1) + 1 ELSE 0
        /\ \A i \in 1 .. Len(s) - (n + 1) + 1 :
             SubSeq(s, n + 1, Len(s))[i] = s[n + 1 + i - 1]
    BY <2>1, <2>2, SubSeqProperties
  <2>4. Len(SubSeq(s, n + 1, Len(s))) = Len(s) - n
    BY <1>1, <2>3
  <2>5. \A i \in 1 .. Len(s) - n : SubSeq(s, n + 1, Len(s))[i] = s[n + i]
    <3> SUFFICES ASSUME NEW i \in 1 .. Len(s) - n
                 PROVE  SubSeq(s, n + 1, Len(s))[i] = s[n + i]
      OBVIOUS
    <3>1. i \in 1 .. Len(s) - (n + 1) + 1 /\ n + 1 + i - 1 = n + i
      BY <1>1
    <3> QED BY <2>3, <3>1
  <2> QED BY <2>3, <2>4, <2>5
<1>5. SubSeq(s, 1, n) \o SubSeq(s, n + 1, Len(s)) = s
  <2>1. 1 \in 1 .. Len(s) + 1 /\ n \in 1 - 1 .. Len(s) /\ Len(s) \in n .. Len(s)
    BY <1>1
  <2>2. SubSeq(s, 1, n) \o SubSeq(s, n + 1, Len(s)) = SubSeq(s, 1, Len(s))
    BY <2>1, ConcatAdjacentSubSeq
  <2>3. SubSeq(s, 1, Len(s)) = s
    BY SubSeqFull
  <2> QED BY <2>2, <2>3
<1> QED BY <1>3, <1>4, <1>5

\* Both parts of a list without repetition are such lists, and disjoint.
LEMMA SplitInjective ==
  ASSUME NEW S, NEW s \in Seq(S), NEW n \in 0 .. Len(s), IsInjective(s)
  PROVE  /\ IsInjective(SubSeq(s, 1, n))
         /\ IsInjective(SubSeq(s, n + 1, Len(s)))
         /\ Range(SubSeq(s, n + 1, Len(s))) = Range(s) \ Range(SubSeq(s, 1, n))
<1> DEFINE a == SubSeq(s, 1, n)
           b == SubSeq(s, n + 1, Len(s))
<1>1. /\ a \in Seq(S) /\ b \in Seq(S)
      /\ Len(a) = n /\ Len(b) = Len(s) - n
      /\ \A i \in 1 .. n : a[i] = s[i]
      /\ \A i \in 1 .. Len(s) - n : b[i] = s[n + i]
      /\ a \o b = s
  BY SplitAt
<1>2. Len(s) \in Nat /\ DOMAIN s = 1 .. Len(s) /\ n \in Nat /\ n <= Len(s)
  BY LenProperties
<1>3. DOMAIN a = 1 .. n /\ DOMAIN b = 1 .. Len(s) - n
  BY <1>1, LenProperties
<1> HIDE DEF a, b
<1>4. \A i, j \in 1 .. Len(s) : s[i] = s[j] => i = j
  BY <1>2 DEF IsInjective
<1>5. IsInjective(a)
  BY <1>1, <1>2, <1>3, <1>4 DEF IsInjective
<1>6. IsInjective(b)
  <2> SUFFICES ASSUME NEW i \in 1 .. Len(s) - n, NEW j \in 1 .. Len(s) - n, b[i] = b[j]
               PROVE  i = j
    BY <1>3 DEF IsInjective
  <2>1. n + i \in 1 .. Len(s) /\ n + j \in 1 .. Len(s)
    BY <1>2
  <2>2. s[n + i] = s[n + j]
    BY <1>1
  <2> QED BY <1>2, <1>4, <2>1, <2>2
<1>7. Range(s) = Range(a) \cup Range(b)
  <2>1. a \in Seq(S) /\ b \in Seq(S) /\ a \o b = s
    BY <1>1
  <2>2. Range(a \o b) = Range(a) \cup Range(b)
    BY <2>1, RangeConcatenation, ZenonT(30)
  <2> QED BY <2>1, <2>2
<1>8. ASSUME NEW x \in Range(a), x \in Range(b)
      PROVE  FALSE
  <2>1. PICK i \in 1 .. n : x = a[i]
    BY <1>3 DEF Range
  <2>2. PICK j \in 1 .. Len(s) - n : x = b[j]
    BY <1>3, <1>8 DEF Range
  <2>3. s[i] = s[n + j]
    BY <1>1, <2>1, <2>2
  <2>4. i \in 1 .. Len(s) /\ n + j \in 1 .. Len(s) /\ i # n + j
    BY <1>2
  <2> QED BY <1>4, <2>3, <2>4
<1> QED BY <1>5, <1>6, <1>7, <1>8 DEF a, b

-----------------------------------------------------------------------------

\* The lists describe the status fields, and a process that cannot go on
\* running waits for a timer or has somebody to take over.
Consistent(st, rl, wl, tl) ==
  /\ running \in Proc
  /\ st \in [Proc -> ProcessStatus]
  /\ rl \in Seq(Proc) /\ IsInjective(rl)
  /\ Range(rl) = { p \in Proc : st[p] = Ready }
  /\ wl \subseteq Proc
  /\ tl \in Seq(Timer) /\ IsInjective(Owners(tl)) /\ Range(Owners(tl)) = wl
  /\ \A p \in wl : st[p] = Waiting
  /\ \A p \in Proc : st[p] = Running => p = running
  /\ st[running] # Ready
  /\ st[running] = Running \/ running \in wl \/ Schedulable(rl, tl)

\* The same with statuses of S, where not everybody who waits has a timer, nor
\* everybody who has one waits: only those whose timers have elapsed must.
ElapsedListed(wl, tl) == \A i \in DOMAIN tl : TimerElapsed(tl[i]) => tl[i].pcb \in wl

ConsistentIn(S, st, rl, wl, tl) ==
  /\ running \in Proc
  /\ ProcessStatus \subseteq S
  /\ st \in [Proc -> S]
  /\ rl \in Seq(Proc) /\ IsInjective(rl)
  /\ Range(rl) = { p \in Proc : st[p] = Ready }
  /\ wl \subseteq Proc
  /\ tl \in Seq(Timer) /\ IsInjective(Owners(tl)) /\ ElapsedListed(wl, tl)
  /\ \A p \in wl : st[p] = Waiting
  /\ \A p \in Proc : st[p] = Running => p = running
  /\ st[running] # Ready
  /\ running \in wl => running \in Range(Owners(tl))
  /\ st[running] = Running \/ running \in wl \/ Schedulable(rl, tl)

\* Earlier timers stand in front of later ones.
Sorted(tl) == \A i, j \in DOMAIN tl : i <= j => tl[i].left <= tl[j].left

-----------------------------------------------------------------------------
\* The owners of a list of timers are a list of as many processes.
LEMMA OwnersOfTimers ==
  ASSUME NEW tl \in Seq(Timer)
  PROVE  /\ Owners(tl) \in Seq(Proc)
         /\ Len(Owners(tl)) = Len(tl)
         /\ DOMAIN Owners(tl) = 1 .. Len(tl)
         /\ \A i \in 1 .. Len(tl) : Owners(tl)[i] = tl[i].pcb
<1>1. Len(tl) \in Nat /\ DOMAIN tl = 1 .. Len(tl) /\ \A i \in 1 .. Len(tl) : tl[i] \in Timer
  BY LenProperties, ElementOfSeq
<1>2. \A i \in 1 .. Len(tl) : tl[i].pcb \in Proc
  BY <1>1 DEF Timer
<1>3. Owners(tl) \in [1 .. Len(tl) -> Proc]
  BY <1>1, <1>2 DEF Owners
<1>4. Owners(tl) \in Seq(Proc)
  BY <1>1, <1>3, SeqDef
<1>5. Len(Owners(tl)) = Len(tl)
  BY <1>1, <1>3, <1>4, LenProperties
<1> QED BY <1>1, <1>3, <1>4, <1>5 DEF Owners

\* The owners of the first n timers are the first n owners, and so the rest.
LEMMA OwnersOfParts ==
  ASSUME NEW tl \in Seq(Timer), NEW n \in 0 .. Len(tl)
  PROVE  /\ Owners(SubSeq(tl, 1, n)) = SubSeq(Owners(tl), 1, n)
         /\ Owners(SubSeq(tl, n + 1, Len(tl))) = SubSeq(Owners(tl), n + 1, Len(tl))
<1> DEFINE a == SubSeq(tl, 1, n)
           b == SubSeq(tl, n + 1, Len(tl))
           oa == SubSeq(Owners(tl), 1, n)
           ob == SubSeq(Owners(tl), n + 1, Len(tl))
<1>1. /\ a \in Seq(Timer) /\ b \in Seq(Timer)
      /\ Len(a) = n /\ Len(b) = Len(tl) - n
      /\ \A i \in 1 .. n : a[i] = tl[i]
      /\ \A i \in 1 .. Len(tl) - n : b[i] = tl[n + i]
  BY SplitAt
<1>2. /\ Owners(tl) \in Seq(Proc) /\ Len(Owners(tl)) = Len(tl)
      /\ \A i \in 1 .. Len(tl) : Owners(tl)[i] = tl[i].pcb
  BY OwnersOfTimers
<1>3. /\ oa \in Seq(Proc) /\ ob \in Seq(Proc)
      /\ Len(oa) = n /\ Len(ob) = Len(tl) - n
      /\ \A i \in 1 .. n : oa[i] = Owners(tl)[i]
      /\ \A i \in 1 .. Len(tl) - n : ob[i] = Owners(tl)[n + i]
  BY <1>2, SplitAt
<1>4. /\ Owners(a) \in Seq(Proc) /\ Len(Owners(a)) = n
      /\ \A i \in 1 .. n : Owners(a)[i] = a[i].pcb
  BY <1>1, OwnersOfTimers
<1>5. /\ Owners(b) \in Seq(Proc) /\ Len(Owners(b)) = Len(tl) - n
      /\ \A i \in 1 .. Len(tl) - n : Owners(b)[i] = b[i].pcb
  BY <1>1, OwnersOfTimers
<1>6. Len(tl) \in Nat
  BY LenProperties
<1> HIDE DEF a, b, oa, ob
<1>7. Owners(a) = oa
  <2>1. \A i \in 1 .. n : i \in 1 .. Len(tl)
    BY <1>6
  <2>2. \A i \in 1 .. n : Owners(a)[i] = oa[i]
    BY <1>1, <1>2, <1>3, <1>4, <2>1
  <2> QED BY <1>3, <1>4, <2>2, SeqEqual
<1>8. Owners(b) = ob
  <2>1. \A i \in 1 .. Len(tl) - n : n + i \in 1 .. Len(tl)
    BY <1>6
  <2>2. \A i \in 1 .. Len(tl) - n : Owners(b)[i] = ob[i]
    BY <1>1, <1>2, <1>3, <1>5, <2>1
  <2> QED BY <1>3, <1>5, <2>2, SeqEqual
<1> QED BY <1>7, <1>8 DEF a, b, oa, ob

-----------------------------------------------------------------------------
(***************************************************************************)
(* internal_schedule leaves lists that describe the status fields, and     *)
(* takes from the waiting list those it wakes: nobody else stops waiting.  *)
(***************************************************************************)
LEMMA ScheduleAny ==
  ASSUME NEW S, NEW st, NEW rl, NEW wl, NEW tl,
         ConsistentIn(S, st, rl, wl, tl),
         internal_schedule(st, rl, wl, tl)
  PROVE  /\ running' \in Proc
         /\ status' \in [Proc -> S]
         /\ ready_list' \in Seq(Proc)
         /\ waiting_list' \subseteq Proc
         /\ timer_list' \in Seq(Timer)
         /\ ReadyListMatches' /\ RunningMatches'
         /\ IsInjective(Owners(timer_list'))
         /\ Range(Owners(timer_list')) = Range(Owners(tl)) \ (wl \ waiting_list')
         /\ \A p \in waiting_list' : status'[p] = Waiting
         /\ running' \in waiting_list' => running' \in Range(Owners(timer_list'))
         /\ waiting_list' \subseteq wl
         /\ wl \ waiting_list' \subseteq Range(Owners(tl))
         /\ \A p \in Proc : status'[p] = Waiting
                              <=> st[p] = Waiting /\ p \notin wl \ waiting_list'
         /\ \A p \in Proc : IF st[p] \in ProcessStatus
                             THEN status'[p] \in ProcessStatus
                             ELSE status'[p] = st[p]
         /\ st[running] = Running \/ Schedulable(rl, tl) => status'[running'] = Running
<1> USE DEF ProcessStatus, Running, Ready, Waiting
<1> DEFINE TimersLeft ==
             /\ IsInjective(Owners(timer_list'))
             /\ Range(Owners(timer_list')) = Range(Owners(tl)) \ (wl \ waiting_list')
             /\ \A p \in waiting_list' : status'[p] = Waiting
<1>1. PICK n \in 0 .. Len(tl) :
        /\ TakesTimers(tl, n)
        /\ LET woken  == Owners(SubSeq(tl, 1, n))
               awake  == [p \in Proc |-> IF p \in Range(woken) THEN Ready ELSE st[p]]
               ready  == WokenFirst(woken, rl)
               requeue == awake[running] = Running
           IN  /\ waiting_list' = wl \ Range(woken)
               /\ timer_list' = SubSeq(tl, n + 1, Len(tl))
               /\ \/ /\ ready = << >>
                     /\ ready_list' = << >>
                     /\ status' = awake
                     /\ UNCHANGED running
                  \/ /\ ready # << >>
                     /\ running' = Head(ready)
                     /\ ready_list' = IF requeue THEN Requeued(Tail(ready), running)
                                                 ELSE Tail(ready)
                     /\ status' = [p \in Proc |->
                                     IF p = Head(ready) THEN Running
                                     ELSE IF p = running /\ requeue THEN Ready
                                     ELSE awake[p]]
  BY DEF internal_schedule
<1> DEFINE woken   == Owners(SubSeq(tl, 1, n))
           rest    == Owners(SubSeq(tl, n + 1, Len(tl)))
           awake   == [p \in Proc |-> IF p \in Range(woken) THEN Ready ELSE st[p]]
           ready   == woken \o rl
           requeue == awake[running] = Running
<1>2. /\ waiting_list' = wl \ Range(woken)
      /\ timer_list' = SubSeq(tl, n + 1, Len(tl))
      /\ \/ /\ ready = << >>
            /\ ready_list' = << >>
            /\ status' = awake
            /\ UNCHANGED running
         \/ /\ ready # << >>
            /\ running' = Head(ready)
            /\ ready_list' = IF requeue THEN Append(Tail(ready), running)
                                        ELSE Tail(ready)
            /\ status' = [p \in Proc |->
                            IF p = Head(ready) THEN Running
                            ELSE IF p = running /\ requeue THEN Ready
                            ELSE awake[p]]
  BY <1>1 DEF WokenFirst, Requeued
<1>3. /\ running \in Proc
      /\ st \in [Proc -> S] /\ {Running, Ready, Waiting} \subseteq S
      /\ rl \in Seq(Proc) /\ IsInjective(rl)
      /\ Range(rl) = { p \in Proc : st[p] = Ready }
      /\ wl \subseteq Proc
      /\ tl \in Seq(Timer) /\ IsInjective(Owners(tl)) /\ ElapsedListed(wl, tl)
      /\ \A p \in wl : st[p] = Waiting
      /\ \A p \in Proc : st[p] = Running => p = running
      /\ st[running] # Ready
      /\ running \in wl => running \in Range(Owners(tl))
      /\ st[running] = Running \/ running \in wl \/ Schedulable(rl, tl)
  BY DEF ConsistentIn
<1>4. /\ Owners(tl) \in Seq(Proc) /\ Len(Owners(tl)) = Len(tl)
      /\ woken = SubSeq(Owners(tl), 1, n)
      /\ rest = SubSeq(Owners(tl), n + 1, Len(Owners(tl)))
  BY <1>3, OwnersOfTimers, OwnersOfParts
<1>5. timer_list' \in Seq(Timer) /\ Owners(timer_list') = rest
  BY <1>2, <1>3, SplitAt
<1> HIDE DEF woken, rest
<1>6. /\ woken \in Seq(Proc) /\ rest \in Seq(Proc)
      /\ IsInjective(woken) /\ IsInjective(rest)
      /\ Range(rest) = Range(Owners(tl)) \ Range(woken)
      /\ Range(woken) \subseteq Range(Owners(tl)) /\ Range(woken) \subseteq wl
      /\ Len(woken) = n
  <2> DEFINE o == Owners(tl)
  <2>0. n \in 0 .. Len(o)
    BY <1>4
  <2> HIDE DEF o
  <2>1. woken \in Seq(Proc) /\ rest \in Seq(Proc) /\ Len(woken) = n
        /\ woken \o rest = o
    BY <1>4, <2>0, SplitAt DEF o
  <2>2. IsInjective(woken) /\ IsInjective(rest)
        /\ Range(rest) = Range(o) \ Range(woken)
    BY <1>3, <1>4, <2>0, SplitInjective DEF o
  <2>3. Range(o) = Range(woken) \cup Range(rest)
    <3>1. Range(woken \o rest) = Range(woken) \cup Range(rest)
      BY <2>1, RangeConcatenation, ZenonT(30)
    <3> QED BY <2>1, <3>1
  <2>4. Range(woken) \subseteq wl
    <3> SUFFICES ASSUME NEW i \in 1 .. n PROVE woken[i] \in wl
      BY <2>1, LenProperties DEF Range
    <3>1. Len(tl) \in Nat /\ i \in 1 .. Len(tl) /\ DOMAIN tl = 1 .. Len(tl)
      BY <1>3, LenProperties
    <3>2. woken[i] = o[i] /\ o[i] = tl[i].pcb
      <4>1. \A j \in 1 .. n : SubSeq(o, 1, n)[j] = o[j]
        BY <1>4, <2>0, SplitAt DEF o
      <4>2. \A j \in 1 .. Len(tl) : o[j] = tl[j].pcb
        BY <1>3, OwnersOfTimers DEF o
      <4> QED BY <1>4, <3>1, <4>1, <4>2 DEF o
    <3>3. TimerElapsed(tl[i])
      BY <1>1 DEF TakesTimers
    <3> QED BY <1>3, <3>1, <3>2, <3>3 DEF ElapsedListed
  <2> QED BY <1>3, <2>1, <2>2, <2>3, <2>4 DEF o
<1>7. /\ awake \in [Proc -> S]
      /\ \A p \in Proc : awake[p] = IF p \in Range(woken) THEN Ready ELSE st[p]
  BY <1>3
<1>8. /\ ready \in Seq(Proc) /\ IsInjective(ready)
      /\ Range(ready) = { p \in Proc : awake[p] = Ready }
  <2>1. ready \in Seq(Proc) /\ Range(ready) = Range(woken) \cup Range(rl)
    BY <1>3, <1>6, ConcatProperties, RangeConcatenation
  <2>2. Range(woken) \cap Range(rl) = {}
    BY <1>3, <1>6
  <2>3. IsInjective(ready)
    BY <1>3, <1>6, <2>2, ConcatInjective
  <2>4. Range(ready) = { p \in Proc : awake[p] = Ready }
    BY <1>3, <1>6, <1>7, <2>1
  <2> QED BY <2>1, <2>3, <2>4
<1>9. /\ \A p \in waiting_list' : awake[p] = Waiting
      /\ \A p \in Proc : awake[p] = Running => p = running
      /\ \A p \in Proc : awake[p] = Waiting <=> st[p] = Waiting /\ p \notin Range(woken)
      /\ Range(woken) = wl \ waiting_list'
      /\ \A p \in Proc : IF st[p] \in ProcessStatus THEN awake[p] \in ProcessStatus
                                                   ELSE awake[p] = st[p]
  BY <1>2, <1>3, <1>6, <1>7
<1> HIDE DEF awake, ready
<1>10. CASE ready = << >>
  <2>1. ready_list' = << >> /\ status' = awake /\ running' = running
    BY <1>2, <1>10
  <2>2. woken = << >> /\ rl = << >>
    BY <1>3, <1>6, <1>10, ConcatEqualIffEmpty DEF ready
  <2>3. ~Schedulable(rl, tl)
    <3>1. n = 0
      BY <1>6, <2>2, EmptySeq
    <3>2. ~(tl # << >> /\ TimerElapsed(tl[1]))
      <4>1. Len(tl) \in Nat /\ (tl # << >> => 0 < Len(tl))
        BY <1>3, LenProperties, EmptySeq
      <4> QED BY <1>1, <3>1, <4>1 DEF TakesTimers
    <3> QED BY <2>2, <3>2 DEF Schedulable
  <2>4. Range(woken) = {} /\ waiting_list' = wl
    BY <1>2, <2>2, <1>6, <1>9 DEF Range
  <2>5. ReadyListMatches'
    <3>1. IsInjective(ready_list') /\ Range(ready_list') = { p \in Proc : awake[p] = Ready }
      BY <1>8, <1>10, <2>1
    <3> QED BY <2>1, <3>1 DEF ReadyListMatches
  <2>6. RunningMatches'
    <3>1. status'[running'] = st[running]
      BY <1>3, <1>7, <2>1, <2>4
    <3>2. status'[running'] # Running => running' \in waiting_list'
      BY <1>3, <2>1, <2>3, <2>4, <3>1
    <3> QED BY <1>9, <2>1, <3>2 DEF RunningMatches
  <2>7. TimersLeft
    BY <1>2, <1>3, <1>6, <1>5, <1>9, <2>1 DEF TimersLeft
  <2>8. ready_list' \in Seq(Proc)
    BY <1>8, <1>10, <2>1
  <2>9. st[running] = Running => status'[running'] = Running
    BY <1>3, <1>7, <2>1, <2>4
  <2>10. /\ running' \in waiting_list' => running' \in Range(Owners(timer_list'))
         /\ \A p \in Proc : IF st[p] \in ProcessStatus THEN status'[p] \in ProcessStatus
                                                      ELSE status'[p] = st[p]
    BY <1>3, <1>9, <2>1, <2>4, <2>7
  <2> HIDE DEF TimersLeft
  <2>11. st[running] = Running \/ Schedulable(rl, tl) => status'[running'] = Running
    BY <2>3, <2>9
  <2>12. /\ running' \in Proc /\ status' \in [Proc -> S] /\ waiting_list' \subseteq Proc
         /\ waiting_list' \subseteq wl /\ wl \ waiting_list' \subseteq Range(Owners(tl))
         /\ \A p \in Proc : status'[p] = Waiting <=> st[p] = Waiting /\ p \notin wl \ waiting_list'
    BY <1>2, <1>3, <1>6, <1>7, <1>9, <2>1
  <2> QED BY <1>5, <2>5, <2>6, <2>7, <2>8, <2>10, <2>11, <2>12 DEF TimersLeft
<1>11. CASE ready # << >>
  <2> DEFINE next == Head(ready)
  <2>1. /\ running' = next
        /\ ready_list' = IF requeue THEN Append(Tail(ready), running) ELSE Tail(ready)
        /\ status' = [p \in Proc |-> IF p = next THEN Running
                                     ELSE IF p = running /\ requeue THEN Ready
                                     ELSE awake[p]]
    BY <1>2, <1>11
  <2>2. /\ next \in Proc /\ Tail(ready) \in Seq(Proc) /\ IsInjective(Tail(ready))
        /\ next \notin Range(Tail(ready))
        /\ Range(Tail(ready)) = Range(ready) \ {next}
        /\ next \in Range(ready)
    BY <1>8, <1>11, DetachHead
  <2>3. awake[next] = Ready
    BY <1>8, <2>2
  <2> HIDE DEF next
  <2>4. status'[running'] = Running
    BY <2>1, <2>2
  <2>5. CASE requeue
    <3>1. /\ ready_list' = Append(Tail(ready), running)
          /\ \A p \in Proc : status'[p] = IF p = next THEN Running
                                          ELSE IF p = running THEN Ready
                                          ELSE awake[p]
          /\ status' \in [Proc -> S]
      BY <1>3, <1>7, <2>1, <2>5
    <3>2. running # next /\ running \notin Range(Tail(ready)) /\ awake[running] = Running
      BY <1>3, <1>8, <2>2, <2>3, <2>5
    <3>3. /\ ready_list' \in Seq(Proc) /\ IsInjective(ready_list')
          /\ Range(ready_list') = Range(Tail(ready)) \cup {running}
      <4> DEFINE tail == Tail(ready)
      <4>1. tail \in Seq(Proc) /\ IsInjective(tail) /\ running \notin Range(tail)
        BY <2>2, <3>2
      <4> HIDE DEF tail
      <4>2. /\ Append(tail, running) \in Seq(Proc)
            /\ IsInjective(Append(tail, running))
            /\ Range(Append(tail, running)) = Range(tail) \cup {running}
        BY <1>3, <4>1, AppendInjectiveList
      <4> QED BY <3>1, <4>2 DEF tail
    <3>4. ReadyListMatches'
      <4>1. Range(ready_list') = { p \in Proc : status'[p] = Ready }
        BY <1>3, <1>8, <2>2, <3>1, <3>2, <3>3
      <4> QED BY <3>3, <4>1 DEF ReadyListMatches
    <3>5. RunningMatches'
      BY <1>9, <2>1, <2>2, <3>1, <3>2 DEF RunningMatches
    <3>6. \A p \in Proc : status'[p] = Waiting <=> awake[p] = Waiting
      BY <2>3, <3>1, <3>2
    <3>7. TimersLeft
      BY <1>2, <1>3, <1>6, <1>5, <1>9, <3>6 DEF TimersLeft
    <3>8. \A p \in Proc : IF st[p] \in ProcessStatus THEN status'[p] \in ProcessStatus
                                                    ELSE status'[p] = st[p]
      BY <1>9, <2>3, <3>1, <3>2
    <3>9. running' \in waiting_list' => running' \in Range(Owners(timer_list'))
      BY <2>4, <3>7
    <3>10. /\ running' \in Proc /\ status' \in [Proc -> S] /\ waiting_list' \subseteq Proc
           /\ waiting_list' \subseteq wl /\ wl \ waiting_list' \subseteq Range(Owners(tl))
           /\ \A p \in Proc : status'[p] = Waiting <=> st[p] = Waiting /\ p \notin wl \ waiting_list'
      BY <1>2, <1>3, <1>6, <1>9, <2>1, <2>2, <3>1, <3>6
    <3> HIDE DEF TimersLeft
    <3> QED BY <1>5, <2>4, <3>3, <3>4, <3>5, <3>7, <3>8, <3>9, <3>10 DEF TimersLeft
  <2>6. CASE ~requeue
    <3>1. /\ ready_list' = Tail(ready)
          /\ \A p \in Proc : status'[p] = IF p = next THEN Running ELSE awake[p]
          /\ status' \in [Proc -> S]
      BY <1>3, <1>7, <2>1, <2>6
    <3>2. \A p \in Proc : awake[p] # Running
      BY <1>9, <2>6
    <3>3. ReadyListMatches'
      <4>1. Range(ready_list') = { p \in Proc : status'[p] = Ready }
        BY <1>8, <2>2, <3>1
      <4> QED BY <2>2, <3>1, <4>1 DEF ReadyListMatches
    <3>4. RunningMatches'
      BY <2>1, <2>2, <3>1, <3>2 DEF RunningMatches
    <3>5. \A p \in Proc : status'[p] = Waiting <=> awake[p] = Waiting
      BY <2>3, <3>1
    <3>6. TimersLeft
      BY <1>2, <1>3, <1>6, <1>5, <1>9, <3>5 DEF TimersLeft
    <3>7. \A p \in Proc : IF st[p] \in ProcessStatus THEN status'[p] \in ProcessStatus
                                                    ELSE status'[p] = st[p]
      BY <1>9, <2>3, <3>1
    <3>8. running' \in waiting_list' => running' \in Range(Owners(timer_list'))
      BY <2>4, <3>6
    <3>9. /\ running' \in Proc /\ status' \in [Proc -> S] /\ waiting_list' \subseteq Proc
          /\ ready_list' \in Seq(Proc)
          /\ waiting_list' \subseteq wl /\ wl \ waiting_list' \subseteq Range(Owners(tl))
          /\ \A p \in Proc : status'[p] = Waiting <=> st[p] = Waiting /\ p \notin wl \ waiting_list'
      BY <1>2, <1>3, <1>6, <1>9, <2>1, <2>2, <3>1, <3>5
    <3> HIDE DEF TimersLeft
    <3> QED BY <1>5, <2>4, <3>3, <3>4, <3>6, <3>7, <3>8, <3>9 DEF TimersLeft
  <2> QED BY <2>5, <2>6
<1> QED BY <1>10, <1>11

(***************************************************************************)
(* The same where everybody who waits has a timer: what internal_schedule  *)
(* does to the lists of Scheduler and MessageQueue.                        *)
(***************************************************************************)
LEMMA ScheduleLists ==
  ASSUME NEW st, NEW rl, NEW wl, NEW tl,
         Consistent(st, rl, wl, tl),
         internal_schedule(st, rl, wl, tl)
  PROVE  /\ running' \in Proc
         /\ status' \in [Proc -> ProcessStatus]
         /\ ready_list' \in Seq(Proc)
         /\ waiting_list' \subseteq Proc
         /\ timer_list' \in Seq(Timer)
         /\ ListsMatchStatus'
         /\ waiting_list' \subseteq wl
         /\ \A p \in Proc : status'[p] = Waiting
                              <=> st[p] = Waiting /\ p \notin wl \ waiting_list'
         /\ st[running] = Running \/ Schedulable(rl, tl) => status'[running'] = Running
<1>1. ConsistentIn(ProcessStatus, st, rl, wl, tl) /\ Range(Owners(tl)) = wl /\ wl \subseteq Proc
  <2>1. ElapsedListed(wl, tl)
    BY DEF Consistent, ElapsedListed, Owners, Range
  <2> QED BY <2>1 DEF Consistent, ConsistentIn
<1>2. /\ running' \in Proc
      /\ status' \in [Proc -> ProcessStatus]
      /\ ready_list' \in Seq(Proc)
      /\ waiting_list' \subseteq Proc
      /\ timer_list' \in Seq(Timer)
      /\ ReadyListMatches' /\ RunningMatches'
      /\ IsInjective(Owners(timer_list'))
      /\ Range(Owners(timer_list')) = Range(Owners(tl)) \ (wl \ waiting_list')
      /\ \A p \in waiting_list' : status'[p] = Waiting
      /\ waiting_list' \subseteq wl
      /\ \A p \in Proc : status'[p] = Waiting
                           <=> st[p] = Waiting /\ p \notin wl \ waiting_list'
      /\ st[running] = Running \/ Schedulable(rl, tl) => status'[running'] = Running
  BY <1>1, ScheduleAny
<1>3. TimersMatch'
  BY <1>1, <1>2 DEF TimersMatch
<1> QED BY <1>2, <1>3 DEF ListsMatchStatus

\* What is left of a sorted list of timers is sorted, and lies in the future.
LEMMA ScheduleTimers ==
  ASSUME NEW st, NEW rl, NEW wl, NEW tl \in Seq(Timer), Sorted(tl),
         internal_schedule(st, rl, wl, tl)
  PROVE  Sorted(timer_list)' /\ NoOverdueTimer'
<1>1. PICK n \in 0 .. Len(tl) :
        TakesTimers(tl, n) /\ timer_list' = SubSeq(tl, n + 1, Len(tl))
  BY DEF internal_schedule
<1>2. /\ timer_list' \in Seq(Timer)
      /\ Len(timer_list') = Len(tl) - n
      /\ \A i \in 1 .. Len(tl) - n : timer_list'[i] = tl[n + i]
  BY <1>1, SplitAt
<1>3. /\ Len(tl) \in Nat /\ n \in Nat /\ n <= Len(tl)
      /\ DOMAIN tl = 1 .. Len(tl) /\ DOMAIN timer_list' = 1 .. Len(tl) - n
      /\ \A i \in 1 .. Len(tl) : tl[i].left \in Int
  <2>1. \A i \in 1 .. Len(tl) : tl[i] \in Timer
    BY ElementOfSeq
  <2> QED BY <1>2, <2>1, LenProperties DEF Timer
<1>4. \A i \in 1 .. Len(tl) - n : n + 1 \in 1 .. Len(tl) /\ n + i \in 1 .. Len(tl) /\ n + 1 <= n + i
  BY <1>3
<1>5. Sorted(timer_list)'
  <2> SUFFICES ASSUME NEW i \in 1 .. Len(tl) - n, NEW j \in 1 .. Len(tl) - n, i <= j
               PROVE  timer_list'[i].left <= timer_list'[j].left
    BY <1>3 DEF Sorted
  <2>1. n + i \in 1 .. Len(tl) /\ n + j \in 1 .. Len(tl) /\ n + i <= n + j
    BY <1>3
  <2> QED BY <1>2, <1>3, <2>1 DEF Sorted
<1>6. NoOverdueTimer'
  <2> SUFFICES ASSUME NEW i \in 1 .. Len(tl) - n
               PROVE  ~TimerElapsed(timer_list'[i])
    BY <1>3 DEF NoOverdueTimer, TimerElapsed
  <2>1. n < Len(tl)
    BY <1>3
  <2>2. ~(tl[n + 1].left <= 0)
    BY <1>1, <2>1 DEF TakesTimers, TimerElapsed
  <2>3. tl[n + 1].left <= tl[n + i].left
    BY <1>3, <1>4 DEF Sorted
  <2> QED BY <1>2, <1>3, <1>4, <2>2, <2>3 DEF TimerElapsed
<1> QED BY <1>5, <1>6

\* Whom internal_schedule wakes has a timer that has elapsed.
LEMMA ScheduleWakes ==
  ASSUME NEW st, NEW rl, NEW wl, NEW tl \in Seq(Timer),
         internal_schedule(st, rl, wl, tl)
  PROVE  \A p \in wl \ waiting_list' :
           \E i \in DOMAIN tl : tl[i].pcb = p /\ TimerElapsed(tl[i])
<1>1. PICK n \in 0 .. Len(tl) :
        TakesTimers(tl, n) /\ waiting_list' = wl \ Range(Owners(SubSeq(tl, 1, n)))
  BY DEF internal_schedule
<1> DEFINE a == SubSeq(tl, 1, n)
<1>2. a \in Seq(Timer) /\ Len(a) = n /\ \A i \in 1 .. n : a[i] = tl[i]
  BY SplitAt
<1>3. Len(tl) \in Nat /\ n \in Nat /\ n <= Len(tl) /\ DOMAIN tl = 1 .. Len(tl)
  BY LenProperties
<1> HIDE DEF a
<1>4. DOMAIN Owners(a) = 1 .. n /\ \A i \in 1 .. n : Owners(a)[i] = a[i].pcb
  BY <1>2, OwnersOfTimers
<1> SUFFICES ASSUME NEW p \in wl \ waiting_list'
             PROVE  \E i \in DOMAIN tl : tl[i].pcb = p /\ TimerElapsed(tl[i])
  OBVIOUS
<1>5. PICK i \in 1 .. n : Owners(a)[i] = p
  BY <1>1, <1>4 DEF Range, a
<1>6. i \in DOMAIN tl /\ tl[i].pcb = p
  BY <1>2, <1>3, <1>4, <1>5
<1>7. TimerElapsed(tl[i])
  BY <1>1 DEF TakesTimers
<1> QED BY <1>6, <1>7

\* Called with no timer that has elapsed, it takes none.
LEMMA ScheduleTakesNone ==
  ASSUME NEW st, NEW rl, NEW wl, timer_list \in Seq(Timer), NoOverdueTimer,
         internal_schedule(st, rl, wl, timer_list)
  PROVE  waiting_list' = wl /\ timer_list' = timer_list
<1>1. PICK n \in 0 .. Len(timer_list) :
        /\ TakesTimers(timer_list, n)
        /\ waiting_list' = wl \ Range(Owners(SubSeq(timer_list, 1, n)))
        /\ timer_list' = SubSeq(timer_list, n + 1, Len(timer_list))
  BY DEF internal_schedule
<1>2. Len(timer_list) \in Nat /\ DOMAIN timer_list = 1 .. Len(timer_list)
  BY LenProperties
<1>3. n = 0
  <2> SUFFICES ASSUME n # 0 PROVE FALSE
    OBVIOUS
  <2>1. 1 \in 1 .. n /\ 1 \in DOMAIN timer_list
    BY <1>2
  <2> QED BY <1>1, <2>1 DEF TakesTimers, NoOverdueTimer
<1>4. timer_list' = timer_list
  BY <1>1, <1>3, SubSeqFull
<1>5. Range(Owners(SubSeq(timer_list, 1, n))) = {}
  <2>1. SubSeq(timer_list, 1, n) \in Seq(Timer) /\ Len(SubSeq(timer_list, 1, n)) = 0
    BY <1>2, <1>3, SplitAt
  <2> DEFINE a == SubSeq(timer_list, 1, n)
  <2> HIDE DEF a
  <2>2. DOMAIN Owners(a) = 1 .. 0
    BY <2>1, OwnersOfTimers DEF a
  <2>3. Range(Owners(a)) = {}
    BY <2>2 DEF Range
  <2> QED BY <2>3 DEF a
<1> QED BY <1>1, <1>4, <1>5

\* A tick leaves the owners and the order of the timers as they are.
LEMMA TickKeepsOrder ==
  ASSUME NEW tl \in Seq(Timer), Sorted(tl)
  PROVE  /\ Ticked(tl) \in Seq(Timer)
         /\ Owners(Ticked(tl)) = Owners(tl)
         /\ Sorted(Ticked(tl))
<1>1. Len(tl) \in Nat /\ DOMAIN tl = 1 .. Len(tl) /\ \A i \in 1 .. Len(tl) : tl[i] \in Timer
  BY LenProperties, ElementOfSeq
<1>2. \A i \in 1 .. Len(tl) : /\ [tl[i] EXCEPT !.left = tl[i].left - 1] \in Timer
                              /\ [tl[i] EXCEPT !.left = tl[i].left - 1].pcb = tl[i].pcb
                              /\ [tl[i] EXCEPT !.left = tl[i].left - 1].left = tl[i].left - 1
  BY <1>1 DEF Timer
<1>3. /\ Ticked(tl) \in [1 .. Len(tl) -> Timer]
      /\ \A i \in 1 .. Len(tl) : /\ Ticked(tl)[i].pcb = tl[i].pcb
                                 /\ Ticked(tl)[i].left = tl[i].left - 1
  BY <1>1, <1>2 DEF Ticked
<1>4. Ticked(tl) \in Seq(Timer)
  BY <1>1, <1>3, SeqDef
<1>5. DOMAIN Ticked(tl) = 1 .. Len(tl)
  BY <1>3
<1>6. Owners(Ticked(tl)) = Owners(tl)
  BY <1>1, <1>3, <1>5 DEF Owners
<1>7. \A i \in 1 .. Len(tl) : tl[i].left \in Int
  BY <1>1 DEF Timer
<1>8. Sorted(Ticked(tl))
  <2> SUFFICES ASSUME NEW i \in 1 .. Len(tl), NEW j \in 1 .. Len(tl), i <= j
               PROVE  Ticked(tl)[i].left <= Ticked(tl)[j].left
    BY <1>5 DEF Sorted
  <2>1. tl[i].left <= tl[j].left
    BY <1>1 DEF Sorted
  <2> QED BY <1>3, <1>7, <2>1
<1> QED BY <1>4, <1>6, <1>8

(***************************************************************************)
(* TimerList_add keeps the list sorted and adds the new owner.             *)
(***************************************************************************)
LEMMA AddKeepsOrder ==
  ASSUME NEW tl \in Seq(Timer), NEW item \in Timer, NEW k \in 0 .. Len(tl),
         Sorted(tl), TimerGoesBehind(tl, item, k)
  PROVE  LET new == TimerList_add(tl, item, k)
         IN  /\ new \in Seq(Timer)
             /\ Sorted(new)
             /\ Range(Owners(new)) = Range(Owners(tl)) \cup {item.pcb}
             /\ IsInjective(Owners(tl)) /\ item.pcb \notin Range(Owners(tl))
                  => IsInjective(Owners(new))
             /\ \A i \in DOMAIN new : new[i] = item \/ \E j \in DOMAIN tl : new[i] = tl[j]
<1> DEFINE a == SubSeq(tl, 1, k)
           b == SubSeq(tl, k + 1, Len(tl))
           one == << item >>
           new == TimerList_add(tl, item, k)
<1>1. /\ a \in Seq(Timer) /\ b \in Seq(Timer)
      /\ Len(a) = k /\ Len(b) = Len(tl) - k
      /\ \A i \in 1 .. k : a[i] = tl[i]
      /\ \A i \in 1 .. Len(tl) - k : b[i] = tl[k + i]
  BY SplitAt
<1>2. /\ Len(tl) \in Nat /\ k \in Nat /\ k <= Len(tl)
      /\ DOMAIN tl = 1 .. Len(tl)
      /\ \A i \in 1 .. Len(tl) : tl[i] \in Timer
  BY LenProperties, ElementOfSeq
<1>3. one \in Seq(Timer) /\ Len(one) = 1 /\ one[1] = item
  BY Singleton
<1>4. new = (a \o one) \o b
  BY DEF TimerList_add
<1> HIDE DEF a, b, one, new
<1>5. /\ new \in Seq(Timer)
      /\ Len(new) = Len(tl) + 1
      /\ \A i \in 1 .. Len(tl) + 1 :
           new[i] = IF i <= k THEN tl[i] ELSE IF i = k + 1 THEN item ELSE tl[i - 1]
  <2>1. /\ a \o one \in Seq(Timer) /\ Len(a \o one) = k + 1
        /\ \A i \in 1 .. k + 1 : (a \o one)[i] = IF i <= k THEN a[i] ELSE one[i - k]
    <3>1. /\ a \o one \in Seq(Timer) /\ Len(a \o one) = Len(a) + Len(one)
          /\ \A i \in 1 .. Len(a) + Len(one) :
               (a \o one)[i] = IF i <= Len(a) THEN a[i] ELSE one[i - Len(a)]
      BY <1>1, <1>3, ConcatProperties
    <3> QED BY <1>1, <1>3, <3>1
  <2>2. /\ new \in Seq(Timer) /\ Len(new) = (k + 1) + (Len(tl) - k)
        /\ \A i \in 1 .. (k + 1) + (Len(tl) - k) :
             new[i] = IF i <= k + 1 THEN (a \o one)[i] ELSE b[i - (k + 1)]
    <3> DEFINE c == a \o one
    <3>1. c \in Seq(Timer) /\ Len(c) = k + 1
      BY <2>1
    <3> HIDE DEF c
    <3>2. /\ c \o b \in Seq(Timer) /\ Len(c \o b) = Len(c) + Len(b)
          /\ \A i \in 1 .. Len(c) + Len(b) :
               (c \o b)[i] = IF i <= Len(c) THEN c[i] ELSE b[i - Len(c)]
      BY <1>1, <3>1, ConcatProperties
    <3>3. new = c \o b
      BY <1>4 DEF c
    <3> QED BY <1>1, <3>1, <3>2, <3>3 DEF c
  <2>3. Len(new) = Len(tl) + 1 /\ (k + 1) + (Len(tl) - k) = Len(tl) + 1
    BY <1>2, <2>2
  <2>4. ASSUME NEW i \in 1 .. Len(tl) + 1
        PROVE  new[i] = IF i <= k THEN tl[i] ELSE IF i = k + 1 THEN item ELSE tl[i - 1]
    <3>1. CASE i <= k
      <4>1. i \in 1 .. k /\ i \in 1 .. k + 1 /\ i <= k + 1
        BY <1>2, <3>1
      <4>2. new[i] = (a \o one)[i]
        BY <2>2, <2>3, <4>1
      <4> QED BY <1>1, <2>1, <3>1, <4>1, <4>2
    <3>2. CASE i = k + 1
      <4>1. i \in 1 .. k + 1 /\ i <= k + 1 /\ ~(i <= k) /\ i - k = 1
        BY <1>2, <3>2
      <4>2. new[i] = (a \o one)[i]
        BY <2>2, <2>3, <4>1
      <4> QED BY <1>3, <2>1, <3>2, <4>1, <4>2
    <3>3. CASE i > k + 1
      <4>1. /\ i - (k + 1) \in 1 .. Len(tl) - k
            /\ k + (i - (k + 1)) = i - 1
        BY <1>2, <3>3
      <4>2. new[i] = b[i - (k + 1)]
        BY <1>2, <2>2, <2>3, <3>3
      <4> QED BY <1>1, <1>2, <3>3, <4>1, <4>2
    <3> QED BY <1>2, <3>1, <3>2, <3>3
  <2> QED BY <2>2, <2>3, <2>4
<1>6. \A i \in 1 .. Len(tl) : tl[i].left \in Int
  BY <1>2 DEF Timer
<1>7. item.left \in Int
  BY DEF Timer
<1>8. DOMAIN new = 1 .. Len(tl) + 1
  BY <1>5, LenProperties
<1>9. Sorted(new)
  <2>1. \A i \in 1 .. k : tl[i].left <= item.left
    BY DEF TimerGoesBehind
  <2>2. \A j \in k + 1 .. Len(tl) : item.left <= tl[j].left
    <3> SUFFICES ASSUME NEW j \in k + 1 .. Len(tl)
                 PROVE  item.left <= tl[j].left
      OBVIOUS
    <3>1. k < Len(tl) /\ k + 1 \in 1 .. Len(tl) /\ j \in 1 .. Len(tl) /\ k + 1 <= j
      BY <1>2
    <3>2. item.left < tl[k + 1].left
      BY <3>1 DEF TimerGoesBehind
    <3>3. tl[k + 1].left <= tl[j].left
      BY <1>2, <3>1 DEF Sorted
    <3> QED BY <1>6, <1>7, <3>1, <3>2, <3>3
  <2>3. \A i, j \in 1 .. Len(tl) : i <= j => tl[i].left <= tl[j].left
    BY <1>2 DEF Sorted
  <2> SUFFICES ASSUME NEW i \in 1 .. Len(tl) + 1, NEW j \in 1 .. Len(tl) + 1, i <= j
               PROVE  new[i].left <= new[j].left
    BY <1>8 DEF Sorted
  <2>4. CASE j <= k
    BY <1>2, <1>5, <2>3, <2>4
  <2>5. CASE j = k + 1
    BY <1>2, <1>5, <1>7, <2>1, <2>5
  <2>6. CASE j > k + 1 /\ i <= k
    <3>1. j - 1 \in 1 .. Len(tl) /\ i \in 1 .. Len(tl) /\ i <= j - 1
      BY <1>2, <2>6
    <3> QED BY <1>2, <1>5, <2>3, <2>6, <3>1
  <2>7. CASE j > k + 1 /\ i = k + 1
    <3>1. j - 1 \in k + 1 .. Len(tl)
      BY <1>2, <2>7
    <3> QED BY <1>2, <1>5, <2>2, <2>7, <3>1
  <2>8. CASE j > k + 1 /\ i > k + 1
    <3>1. j - 1 \in 1 .. Len(tl) /\ i - 1 \in 1 .. Len(tl) /\ i - 1 <= j - 1
      BY <1>2, <2>8
    <3> QED BY <1>2, <1>5, <2>3, <2>8, <3>1
  <2> QED BY <1>2, <2>4, <2>5, <2>6, <2>7, <2>8
<1>10. /\ Owners(new) \in Seq(Proc) /\ DOMAIN Owners(new) = 1 .. Len(tl) + 1
       /\ \A i \in 1 .. Len(tl) + 1 : Owners(new)[i] = new[i].pcb
  BY <1>5, OwnersOfTimers
<1>11. /\ DOMAIN Owners(tl) = 1 .. Len(tl)
       /\ \A i \in 1 .. Len(tl) : Owners(tl)[i] = tl[i].pcb
  BY OwnersOfTimers
<1>12. Range(Owners(new)) = Range(Owners(tl)) \cup {item.pcb}
  <2>1. ASSUME NEW i \in 1 .. Len(tl) + 1
        PROVE  Owners(new)[i] \in Range(Owners(tl)) \cup {item.pcb}
    <3>1. CASE i <= k
      <4>1. i \in 1 .. Len(tl) /\ Owners(new)[i] = Owners(tl)[i]
        BY <1>2, <1>5, <1>10, <1>11, <3>1
      <4> QED BY <1>11, <4>1 DEF Range
    <3>2. CASE i = k + 1
      BY <1>2, <1>5, <1>10, <3>2
    <3>3. CASE i > k + 1
      <4>1. i - 1 \in 1 .. Len(tl)
        BY <1>2, <3>3
      <4>2. Owners(new)[i] = Owners(tl)[i - 1]
        BY <1>2, <1>5, <1>10, <1>11, <3>3, <4>1
      <4> QED BY <1>11, <4>1, <4>2 DEF Range
    <3> QED BY <1>2, <3>1, <3>2, <3>3
  <2>2. ASSUME NEW i \in 1 .. Len(tl)
        PROVE  Owners(tl)[i] \in Range(Owners(new))
    <3>1. CASE i <= k
      <4>1. i \in 1 .. Len(tl) + 1 /\ Owners(new)[i] = Owners(tl)[i]
        BY <1>2, <1>5, <1>10, <1>11, <3>1
      <4> QED BY <1>10, <4>1 DEF Range
    <3>2. CASE i > k
      <4>1. /\ i + 1 \in 1 .. Len(tl) + 1 /\ ~(i + 1 <= k) /\ i + 1 # k + 1
            /\ (i + 1) - 1 = i
        BY <1>2, <3>2
      <4>2. Owners(new)[i + 1] = Owners(tl)[i]
        BY <1>5, <1>10, <1>11, <4>1
      <4> QED BY <1>10, <4>1, <4>2 DEF Range
    <3> QED BY <1>2, <3>1, <3>2
  <2>3. item.pcb \in Range(Owners(new))
    <3>1. k + 1 \in 1 .. Len(tl) + 1 /\ Owners(new)[k + 1] = item.pcb
      BY <1>2, <1>5, <1>10
    <3> QED BY <1>10, <3>1 DEF Range
  <2> QED BY <1>10, <1>11, <2>1, <2>2, <2>3 DEF Range
<1>13. ASSUME IsInjective(Owners(tl)), item.pcb \notin Range(Owners(tl))
       PROVE  IsInjective(Owners(new))
  <2>1. \A i, j \in 1 .. Len(tl) : tl[i].pcb = tl[j].pcb => i = j
    BY <1>11, <1>13 DEF IsInjective
  <2>2. \A i \in 1 .. Len(tl) : tl[i].pcb # item.pcb
    BY <1>11, <1>13 DEF Range
  <2> DEFINE old(i) == IF i <= k THEN i ELSE i - 1
  <2>3. \A i \in 1 .. Len(tl) + 1 : i # k + 1 =>
          /\ old(i) \in 1 .. Len(tl)
          /\ Owners(new)[i] = tl[old(i)].pcb
    BY <1>2, <1>5, <1>10
  <2>4. Owners(new)[k + 1] = item.pcb
    BY <1>2, <1>5, <1>10
  <2>5. \A i, j \in 1 .. Len(tl) + 1 : i # k + 1 /\ j # k + 1 /\ old(i) = old(j) => i = j
    BY <1>2
  <2> HIDE DEF old
  <2> SUFFICES ASSUME NEW i \in 1 .. Len(tl) + 1, NEW j \in 1 .. Len(tl) + 1,
                      Owners(new)[i] = Owners(new)[j]
               PROVE  i = j
    BY <1>10 DEF IsInjective
  <2>6. CASE i = k + 1 \/ j = k + 1
    BY <2>2, <2>3, <2>4, <2>6
  <2>7. CASE i # k + 1 /\ j # k + 1
    BY <2>1, <2>3, <2>5, <2>7
  <2> QED BY <2>6, <2>7
<1>14. ASSUME NEW i \in 1 .. Len(tl) + 1
       PROVE  new[i] = item \/ \E j \in 1 .. Len(tl) : new[i] = tl[j]
  <2>1. CASE i <= k
    <3>1. i \in 1 .. Len(tl) /\ new[i] = tl[i]
      BY <1>2, <1>5, <2>1
    <3> QED BY <3>1
  <2>2. CASE i = k + 1
    BY <1>2, <1>5, <2>2
  <2>3. CASE i > k + 1
    <3>1. i - 1 \in 1 .. Len(tl) /\ new[i] = tl[i - 1]
      BY <1>2, <1>5, <2>3
    <3> QED BY <3>1
  <2> QED BY <1>2, <2>1, <2>2, <2>3
<1> QED BY <1>2, <1>5, <1>8, <1>9, <1>12, <1>13, <1>14 DEF new

-----------------------------------------------------------------------------
(***************************************************************************)
(* The inductive invariant.  NoOverdueTimer needs the order of the timers, *)
(* because internal_schedule looks at the first one only; the lists need   *)
(* nothing else.                                                           *)
(***************************************************************************)
SchedulerInv ==
  /\ SchedulerTypeOK
  /\ ListsMatchStatus
  /\ Sorted(timer_list)
  /\ NoOverdueTimer

\* Between two steps the lists are as internal_schedule wants them.
LEMMA InvConsistent ==
  ASSUME SchedulerTypeOK, ListsMatchStatus
  PROVE  Consistent(status, ready_list, waiting_list, timer_list)
<1> USE DEF ProcessStatus, Running, Ready, Waiting
<1>1. status[running] # Ready
  BY DEF SchedulerTypeOK, ListsMatchStatus, RunningMatches, TimersMatch
<1> QED
  BY <1>1 DEF Consistent, SchedulerTypeOK, ListsMatchStatus, ReadyListMatches,
              RunningMatches, TimersMatch

\* Every process but the running one is in the ready list at boot.
LEMMA InitInv ==
  ASSUME SchedulerInit
  PROVE  SchedulerInv
<1> USE DEF ProcessStatus, Running, Ready, Waiting
<1> DEFINE others == Proc \ {running}
           N == Cardinality(Proc) - 1
<1>1. running \in Proc /\ IsFiniteSet(others) /\ Cardinality(others) = N /\ N \in Nat
  <2>1. running \in Proc /\ IsFiniteSet(Proc)
    BY SchedulerAssumption DEF SchedulerInit
  <2>2. IsFiniteSet(others) /\ Cardinality(others) = Cardinality(Proc) - 1
    BY <2>1, FS_RemoveElement
  <2> QED BY <2>1, <2>2, FS_CardinalityType
<1>2. ready_list \in [1 .. N -> others] /\ IsInjective(ready_list)
  BY DEF SchedulerInit
<1> HIDE DEF others, N
<1>3. Range(ready_list) = others
  <2>1. IsFiniteSet(1 .. N) /\ Cardinality(1 .. N) = N
    <3>1. 0 + 1 \in Int /\ 1 \in Int /\ N \in Int
      BY <1>1
    <3>2. IsFiniteSet(1 .. N) /\ Cardinality(1 .. N) = IF 1 > N THEN 0 ELSE N - 1 + 1
      BY <3>1, FS_Interval
    <3> QED BY <1>1, <3>2
  <2>2. ready_list \in Injection(1 .. N, others)
    BY <1>2 DEF Injection
  <2>3. ready_list \in Surjection(1 .. N, others)
    BY <1>1, <2>1, <2>2, FS_Injection
  <2>4. \A p \in others : \E i \in 1 .. N : ready_list[i] = p
    BY <2>3 DEF Surjection
  <2> QED BY <1>2, <2>4 DEF Range
<1>4. ready_list \in Seq(Proc)
  <2>1. ready_list \in [1 .. N -> Proc]
    BY <1>2 DEF others
  <2> QED BY <1>1, <2>1, SeqDef
<1>5. timer_list = << >> /\ Len(timer_list) = 0 /\ timer_list \in Seq(Timer)
      /\ DOMAIN timer_list = {}
  <2>1. timer_list = << >>
    BY DEF SchedulerInit
  <2> QED BY <2>1, EmptySeq
<1>6. status = [p \in Proc |-> IF p = running THEN Running ELSE Ready]
      /\ waiting_list = {} /\ syscall_retvalue = [p \in Proc |-> NoResult]
  BY DEF SchedulerInit
<1>7. SchedulerTypeOK
  BY <1>1, <1>4, <1>5, <1>6 DEF SchedulerTypeOK, NoResult
<1>8. ReadyListMatches
  BY <1>2, <1>3, <1>6 DEF ReadyListMatches, others
<1>9. RunningMatches
  BY <1>1, <1>6 DEF RunningMatches
<1>10. TimersMatch
  <2>1. DOMAIN Owners(timer_list) = {}
    BY <1>5 DEF Owners
  <2> QED BY <1>6, <2>1 DEF TimersMatch, IsInjective, Range
<1> QED
  BY <1>5, <1>7, <1>8, <1>9, <1>10 DEF SchedulerInv, ListsMatchStatus, Sorted, NoOverdueTimer

\* A call of internal_schedule with consistent lists and sorted timers
\* establishes the invariant, if the results are typed.
LEMMA ScheduleInv ==
  ASSUME NEW st, NEW rl, NEW wl, NEW tl,
         Consistent(st, rl, wl, tl),
         Sorted(tl),
         internal_schedule(st, rl, wl, tl),
         syscall_retvalue' \in [Proc -> Int]
  PROVE  SchedulerInv'
<1>1. tl \in Seq(Timer)
  BY DEF Consistent
<1>2. Sorted(timer_list)' /\ NoOverdueTimer'
  BY <1>1, ScheduleTimers
<1>3. /\ SchedulerTypeOK'
      /\ ListsMatchStatus'
  BY ScheduleLists DEF SchedulerTypeOK
<1> QED BY <1>2, <1>3 DEF SchedulerInv

\* Returning a number keeps the results typed.
LEMMA ReturnTyped ==
  ASSUME NEW v \in Int, Return(v), SchedulerTypeOK
  PROVE  syscall_retvalue' \in [Proc -> Int]
BY DEF Return, SchedulerTypeOK

\* After a tick the lists are as internal_schedule wants them.
LEMMA TickConsistent ==
  ASSUME SchedulerInv
  PROVE  /\ Consistent(status, ready_list, waiting_list, Ticked(timer_list))
         /\ Sorted(Ticked(timer_list))
<1>1. /\ Consistent(status, ready_list, waiting_list, timer_list)
      /\ status[running] = Running \/ running \in waiting_list
  BY InvConsistent DEF SchedulerInv, ListsMatchStatus, RunningMatches
<1>2. /\ Ticked(timer_list) \in Seq(Timer)
      /\ Owners(Ticked(timer_list)) = Owners(timer_list)
      /\ Sorted(Ticked(timer_list))
  BY TickKeepsOrder DEF SchedulerInv, SchedulerTypeOK
<1> QED BY <1>1, <1>2 DEF Consistent

\* A process without a timer runs with status Running.
LEMMA NoTimerRuns ==
  ASSUME SchedulerInv, ~HasTimer(running)
  PROVE  running \notin waiting_list /\ status[running] = Running
<1>1. running \notin Range(Owners(timer_list))
  BY DEF HasTimer, Owners, Range
<1> QED
  BY <1>1 DEF SchedulerInv, ListsMatchStatus, TimersMatch, RunningMatches

\* The caller of sleep has its timer and is on the waiting list when
\* internal_schedule is called.
LEMMA SleepConsistent ==
  ASSUME SchedulerInv, ~HasTimer(running),
         NEW cycles \in Int, NEW k \in 0 .. Len(timer_list),
         TimerGoesBehind(timer_list, [pcb |-> running, left |-> cycles], k)
  PROVE  LET new == TimerList_add(timer_list, [pcb |-> running, left |-> cycles], k)
         IN  /\ Consistent([status EXCEPT ![running] = Waiting], ready_list,
                           waiting_list \cup {running}, new)
             /\ Sorted(new)
<1> USE DEF ProcessStatus, Running, Ready, Waiting
<1> DEFINE item == [pcb |-> running, left |-> cycles]
           new  == TimerList_add(timer_list, item, k)
           st   == [status EXCEPT ![running] = Waiting]
<1>1. /\ Consistent(status, ready_list, waiting_list, timer_list)
      /\ running \in Proc /\ timer_list \in Seq(Timer) /\ Sorted(timer_list)
      /\ status \in [Proc -> ProcessStatus]
  BY InvConsistent DEF SchedulerInv, SchedulerTypeOK
<1>2. running \notin waiting_list /\ status[running] = Running
  BY NoTimerRuns
<1>3. item \in Timer /\ item.pcb = running
  BY <1>1 DEF Timer
<1> HIDE DEF item
<1>4. /\ new \in Seq(Timer)
      /\ Sorted(new)
      /\ Range(Owners(new)) = Range(Owners(timer_list)) \cup {item.pcb}
      /\ IsInjective(Owners(timer_list)) /\ item.pcb \notin Range(Owners(timer_list))
           => IsInjective(Owners(new))
  <2>1. TimerGoesBehind(timer_list, item, k)
    BY DEF item
  <2> QED BY <1>1, <1>3, <2>1, AddKeepsOrder
<1>5. IsInjective(Owners(new)) /\ Range(Owners(new)) = waiting_list \cup {running}
  BY <1>1, <1>2, <1>3, <1>4 DEF Consistent
<1>6. /\ st \in [Proc -> ProcessStatus]
      /\ \A p \in Proc : st[p] = IF p = running THEN Waiting ELSE status[p]
  BY <1>1
<1> HIDE DEF st, new
<1>7. Consistent(st, ready_list, waiting_list \cup {running}, new)
  <2>1. Range(ready_list) = { p \in Proc : st[p] = Ready }
    BY <1>1, <1>2, <1>6 DEF Consistent
  <2>2. /\ \A p \in waiting_list \cup {running} : st[p] = Waiting
        /\ \A p \in Proc : st[p] = Running => p = running
        /\ st[running] # Ready
    BY <1>1, <1>6 DEF Consistent
  <2> QED BY <1>1, <1>4, <1>5, <1>6, <2>1, <2>2 DEF Consistent
<1> QED BY <1>4, <1>7 DEF st, new, item

-----------------------------------------------------------------------------
(***************************************************************************)
(* One lemma for each action of the scheduler; MessageQueue cites them too.*)
(***************************************************************************)
LEMMA TimerInterruptInv ==
  ASSUME SchedulerInv, timerInterrupt
  PROVE  SchedulerInv'
<1>1. /\ Return(NoResult)
      /\ internal_schedule(status, ready_list, waiting_list, Ticked(timer_list))
  BY DEF timerInterrupt, ResultRead
<1>2. syscall_retvalue' \in [Proc -> Int]
  BY <1>1, ReturnTyped DEF NoResult, SchedulerInv
<1>3. /\ Consistent(status, ready_list, waiting_list, Ticked(timer_list))
      /\ Sorted(Ticked(timer_list))
  BY TickConsistent
<1> QED BY <1>1, <1>2, <1>3, ScheduleInv

\* internal_preempt keeps the invariant.
LEMMA PreemptInv ==
  ASSUME SchedulerInv, internal_preempt
  PROVE  SchedulerInv'
<1>1. /\ Return(NoResult)
      /\ internal_schedule(status, ready_list, waiting_list, timer_list)
  BY DEF internal_preempt, ResultRead
<1>2. syscall_retvalue' \in [Proc -> Int]
  BY <1>1, ReturnTyped DEF NoResult, SchedulerInv
<1>3. /\ Consistent(status, ready_list, waiting_list, timer_list)
      /\ Sorted(timer_list)
  BY InvConsistent DEF SchedulerInv
<1> QED BY <1>1, <1>2, <1>3, ScheduleInv

\* internal_sleep keeps the invariant, whatever its argument.
LEMMA SleepInv ==
  ASSUME SchedulerInv, internal_sleep
  PROVE  SchedulerInv'
<1>1. CASE SleepRefused
  <2>1. /\ Return(DSOS_ESLEEP)
        /\ UNCHANGED << running, status, ready_list, waiting_list, timer_list >>
    BY <1>1 DEF SleepRefused
  <2>2. syscall_retvalue' \in [Proc -> Int]
    BY <2>1, ReturnTyped DEF DSOS_ESLEEP, SchedulerInv
  <2> QED
    BY <2>1, <2>2 DEF SchedulerInv, SchedulerTypeOK, ListsMatchStatus, ReadyListMatches,
                      RunningMatches, TimersMatch, NoOverdueTimer, Sorted, Owners, TimerElapsed
<1>2. ASSUME NEW cycles \in SleepCycles, SleepStarts(cycles)
      PROVE  SchedulerInv'
  <2> DEFINE item == [pcb |-> running, left |-> cycles]
             st   == [status EXCEPT ![running] = Waiting]
             wl   == waiting_list \cup {running}
  <2>1. ~HasTimer(running) /\ Return(0) /\ cycles \in Int
    BY <1>2, SchedulerAssumption DEF SleepStarts
  <2>2. PICK k \in 0 .. Len(timer_list) :
          /\ TimerGoesBehind(timer_list, item, k)
          /\ internal_schedule(st, ready_list, wl, TimerList_add(timer_list, item, k))
    BY <1>2 DEF SleepStarts
  <2>3. syscall_retvalue' \in [Proc -> Int]
    BY <2>1, ReturnTyped DEF SchedulerInv
  <2> DEFINE new == TimerList_add(timer_list, item, k)
  <2>4. Consistent(st, ready_list, wl, new) /\ Sorted(new)
    BY <2>1, <2>2, SleepConsistent
  <2> HIDE DEF item, st, wl, new
  <2> QED BY <2>2, <2>3, <2>4, ScheduleInv DEF new
<1> QED BY <1>1, <1>2 DEF internal_sleep

\* The invariant is inductive.
LEMMA NextInv ==
  ASSUME SchedulerInv, [SchedulerNext]_SchedulerVars
  PROVE  SchedulerInv'
<1>1. CASE SchedulerNext
  BY <1>1, TimerInterruptInv, PreemptInv, SleepInv DEF SchedulerNext
<1>2. CASE UNCHANGED SchedulerVars
  BY <1>2 DEF SchedulerVars, SchedulerInv, SchedulerTypeOK, ListsMatchStatus,
              ReadyListMatches, RunningMatches, TimersMatch, NoOverdueTimer, Sorted,
              Owners, TimerElapsed
<1> QED BY <1>1, <1>2

(***************************************************************************)
(* The invariant of the scheduler holds for any finite set of processes    *)
(* and any arguments of sleep, negative ones included.                     *)
(***************************************************************************)
THEOREM SchedulerInvariant == SchedulerSpec => []SchedulerInv
<1>1. SchedulerInit => SchedulerInv
  BY InitInv
<1>2. SchedulerInv /\ [SchedulerNext]_SchedulerVars => SchedulerInv'
  BY NextInv
<1> QED BY <1>1, <1>2, PTL DEF SchedulerSpec

\* Every variable of the scheduler always has its type.
THEOREM SchedulerTypes == SchedulerSpec => []SchedulerTypeOK
<1>1. SchedulerInv => SchedulerTypeOK
  BY DEF SchedulerInv
<1> QED BY <1>1, SchedulerInvariant, PTL

(***************************************************************************)
(* internal_schedule, internal_sleep and the interrupt never lose a        *)
(* process, list it twice or leave it without its timer.                   *)
(***************************************************************************)
THEOREM ListsAlwaysMatch == SchedulerSpec => []ListsMatchStatus
<1>1. SchedulerInv => ListsMatchStatus
  BY DEF SchedulerInv
<1> QED BY <1>1, SchedulerInvariant, PTL

(***************************************************************************)
(* The loop of internal_schedule, which stops at the first timer that has  *)
(* not elapsed, never leaves an elapsed one behind it.                     *)
(***************************************************************************)
THEOREM NobodyOverdue == SchedulerSpec => []NoOverdueTimer
<1>1. SchedulerInv => NoOverdueTimer
  BY DEF SchedulerInv
<1> QED BY <1>1, SchedulerInvariant, PTL

\* Whom a call of the scheduler that adds no timers of others wakes had one
\* tick left, or none: the timers that the call sees are those of the list,
\* later by at most one tick, and one of the running process, if it sleeps.
LEMMA WokenInTime ==
  ASSUME SchedulerInv,
         NEW st, NEW rl, NEW wl, NEW tl \in Seq(Timer),
         waiting_list \subseteq wl,
         internal_schedule(st, rl, wl, tl),
         \A i \in DOMAIN tl :
           \/ tl[i].pcb \notin waiting_list
           \/ \E j \in DOMAIN timer_list :
                tl[i].pcb = timer_list[j].pcb /\ tl[i].left >= timer_list[j].left - 1
  PROVE  \A i \in DOMAIN timer_list :
           timer_list[i].pcb \notin waiting_list' => timer_list[i].left = 1
<1> SUFFICES ASSUME NEW i \in DOMAIN timer_list, timer_list[i].pcb \notin waiting_list'
             PROVE  timer_list[i].left = 1
  OBVIOUS
<1>1. /\ \A j \in DOMAIN timer_list : timer_list[j] \in Timer
      /\ DOMAIN tl = 1 .. Len(tl) /\ \A j \in DOMAIN tl : tl[j] \in Timer
  BY LenProperties, ElementOfSeq DEF SchedulerInv, SchedulerTypeOK
<1>2. DOMAIN Owners(timer_list) = DOMAIN timer_list
      /\ \A j \in DOMAIN timer_list : Owners(timer_list)[j] = timer_list[j].pcb
  BY DEF Owners
<1>3. timer_list[i].pcb \in waiting_list
      /\ \A j \in DOMAIN timer_list : timer_list[j].pcb = timer_list[i].pcb => j = i
  BY <1>2 DEF SchedulerInv, ListsMatchStatus, TimersMatch, Range, IsInjective
<1>4. PICK j \in DOMAIN tl : tl[j].pcb = timer_list[i].pcb /\ TimerElapsed(tl[j])
  BY <1>3, ScheduleWakes
<1>5. tl[j].left >= timer_list[i].left - 1
  BY <1>3, <1>4
<1>6. ~TimerElapsed(timer_list[i])
  BY DEF SchedulerInv, NoOverdueTimer
<1>7. timer_list[i].left \in Int /\ tl[j].left \in Int
  BY <1>1 DEF Timer
<1> QED BY <1>4, <1>5, <1>6, <1>7 DEF TimerElapsed

\* Each action of the scheduler wakes nobody early.
LEMMA NextWakesOnTime ==
  ASSUME SchedulerInv, [SchedulerNext]_SchedulerVars
  PROVE  [ \A i \in DOMAIN timer_list :
             timer_list[i].pcb \notin waiting_list' => timer_list[i].left = 1
         ]_SchedulerVars
<1> DEFINE OnTime == \A i \in DOMAIN timer_list :
                       timer_list[i].pcb \notin waiting_list' => timer_list[i].left = 1
<1>1. /\ timer_list \in Seq(Timer) /\ running \in Proc
      /\ DOMAIN timer_list = 1 .. Len(timer_list)
      /\ \A i \in DOMAIN timer_list : timer_list[i] \in Timer
      /\ \A i \in DOMAIN timer_list : timer_list[i].left \in Int
  <2>1. timer_list \in Seq(Timer) /\ running \in Proc
    BY DEF SchedulerInv, SchedulerTypeOK
  <2>2. DOMAIN timer_list = 1 .. Len(timer_list)
    BY <2>1, LenProperties
  <2>3. \A i \in DOMAIN timer_list : timer_list[i] \in Timer
    BY <2>1, <2>2, ElementOfSeq
  <2> QED BY <2>1, <2>2, <2>3 DEF Timer
<1>2. CASE timerInterrupt
  <2> DEFINE tl == Ticked(timer_list)
  <2>1. internal_schedule(status, ready_list, waiting_list, tl)
    BY <1>2 DEF timerInterrupt
  <2>2. tl \in Seq(Timer)
    BY <1>1, TickKeepsOrder DEF SchedulerInv
  <2>3. /\ DOMAIN tl = DOMAIN timer_list
        /\ \A i \in DOMAIN timer_list : /\ tl[i].pcb = timer_list[i].pcb
                                        /\ tl[i].left = timer_list[i].left - 1
    BY <1>1 DEF Ticked, Timer
  <2>4. \A i \in DOMAIN tl :
          \/ tl[i].pcb \notin waiting_list
          \/ \E j \in DOMAIN timer_list :
               tl[i].pcb = timer_list[j].pcb /\ tl[i].left >= timer_list[j].left - 1
    BY <1>1, <2>3
  <2> HIDE DEF tl
  <2>5. OnTime
    BY <2>1, <2>2, <2>4, WokenInTime
  <2> QED BY <2>5
<1>3. CASE internal_preempt
  <2>1. internal_schedule(status, ready_list, waiting_list, timer_list)
    BY <1>3 DEF internal_preempt
  <2>2. \A i \in DOMAIN timer_list : timer_list[i].left >= timer_list[i].left - 1
    BY <1>1
  <2>3. OnTime
    BY <1>1, <2>1, <2>2, WokenInTime
  <2> QED BY <2>3
<1>4. CASE SleepRefused
  BY <1>4 DEF SleepRefused, SchedulerInv, ListsMatchStatus, TimersMatch, Owners, Range
<1>5. ASSUME NEW cycles \in SleepCycles, SleepStarts(cycles)
      PROVE  OnTime
  <2> DEFINE item == [pcb |-> running, left |-> cycles]
             st   == [status EXCEPT ![running] = Waiting]
             wl   == waiting_list \cup {running}
  <2>1. ~HasTimer(running) /\ cycles \in Int
    BY <1>5, SchedulerAssumption DEF SleepStarts
  <2>2. PICK k \in 0 .. Len(timer_list) :
          /\ TimerGoesBehind(timer_list, item, k)
          /\ internal_schedule(st, ready_list, wl, TimerList_add(timer_list, item, k))
    BY <1>5 DEF SleepStarts
  <2> DEFINE new == TimerList_add(timer_list, item, k)
  <2>3. item \in Timer /\ item.pcb = running
    BY <1>1, <2>1 DEF Timer
  <2>4. running \notin waiting_list
    BY <2>1, NoTimerRuns
  <2> HIDE DEF item
  <2>5. /\ new \in Seq(Timer)
        /\ \A i \in DOMAIN new : new[i] = item \/ \E j \in DOMAIN timer_list : new[i] = timer_list[j]
    BY <1>1, <2>2, <2>3, AddKeepsOrder DEF SchedulerInv
  <2>6. \A i \in DOMAIN timer_list : timer_list[i].left >= timer_list[i].left - 1
    BY <1>1
  <2> HIDE DEF new
  <2>7. \A i \in DOMAIN new :
          \/ new[i].pcb \notin waiting_list
          \/ \E j \in DOMAIN timer_list :
               new[i].pcb = timer_list[j].pcb /\ new[i].left >= timer_list[j].left - 1
    BY <2>3, <2>4, <2>5, <2>6
  <2>8. waiting_list \subseteq wl /\ internal_schedule(st, ready_list, wl, new)
    BY <2>2 DEF new
  <2> HIDE DEF st, wl
  <2> QED BY <2>5, <2>7, <2>8, WokenInTime
<1>6. CASE UNCHANGED SchedulerVars
  BY <1>6
<1> QED
  BY <1>2, <1>3, <1>4, <1>5, <1>6 DEF SchedulerNext, internal_sleep

(***************************************************************************)
(* internal_schedule takes a process off the waiting list at the very tick *)
(* its timer was set for, at any rate of interrupts, preemptions and calls *)
(* of sleep.                                                               *)
(***************************************************************************)
THEOREM EverybodyOnTime == SchedulerSpec => WakesOnTime
<1>1. SchedulerInv /\ [SchedulerNext]_SchedulerVars =>
        [ \A i \in DOMAIN timer_list :
             timer_list[i].pcb \notin waiting_list' => timer_list[i].left = 1
         ]_SchedulerVars
  BY NextWakesOnTime
<1> QED BY <1>1, SchedulerInvariant, PTL DEF SchedulerSpec, WakesOnTime

-----------------------------------------------------------------------------
(***************************************************************************)
(* With a process that only computes there is always somebody to switch    *)
(* to, since such a process never waits.                                   *)
(***************************************************************************)
OthersCompute == \A p \in Proc \ Callers : status[p] # Waiting

AwakeInv == SchedulerInv /\ OthersCompute /\ SleepersDoNotRun

\* While a caller runs, the processes that compute are ready.
LEMMA SomebodyReady ==
  ASSUME SchedulerInv, OthersCompute, Callers # Proc, running \in Callers
  PROVE  ready_list # << >>
<1> USE DEF ProcessStatus, Running, Ready, Waiting
<1>1. PICK p \in Proc : p \notin Callers
  BY SchedulerAssumption
<1>2. status[p] = Ready
  BY <1>1 DEF SchedulerInv, SchedulerTypeOK, OthersCompute, ListsMatchStatus, RunningMatches
<1>3. p \in Range(ready_list)
  BY <1>2 DEF SchedulerInv, ListsMatchStatus, ReadyListMatches
<1> QED BY <1>3, EmptySeq DEF Range

\* internal_schedule leaves a process running that does not wait.
LEMMA ScheduleAwake ==
  ASSUME NEW st, NEW rl, NEW wl, NEW tl,
         Consistent(st, rl, wl, tl),
         internal_schedule(st, rl, wl, tl),
         st[running] = Running \/ Schedulable(rl, tl),
         \A p \in Proc \ Callers : st[p] # Waiting
  PROVE  OthersCompute' /\ SleepersDoNotRun'
<1>1. /\ ListsMatchStatus' /\ running' \in Proc
      /\ status'[running'] = Running
      /\ \A p \in Proc : status'[p] = Waiting
                           <=> st[p] = Waiting /\ p \notin wl \ waiting_list'
  BY ScheduleLists
<1>2. OthersCompute'
  BY <1>1 DEF OthersCompute
<1>3. SleepersDoNotRun'
  BY <1>1 DEF ListsMatchStatus, TimersMatch, SleepersDoNotRun, Running, Waiting
<1> QED BY <1>2, <1>3

\* In a state of the invariant the running process has status Running.
LEMMA RunsAwake ==
  ASSUME AwakeInv
  PROVE  status[running] = Running
BY DEF AwakeInv, SchedulerInv, ListsMatchStatus, RunningMatches, SleepersDoNotRun

\* The timer interrupt.
LEMMA TimerInterruptAwake ==
  ASSUME AwakeInv, timerInterrupt
  PROVE  OthersCompute' /\ SleepersDoNotRun'
<1>1. internal_schedule(status, ready_list, waiting_list, Ticked(timer_list))
  BY DEF timerInterrupt
<1>2. Consistent(status, ready_list, waiting_list, Ticked(timer_list))
  BY TickConsistent DEF AwakeInv
<1> QED BY <1>1, <1>2, RunsAwake, ScheduleAwake DEF AwakeInv, OthersCompute

\* internal_preempt.
LEMMA PreemptAwake ==
  ASSUME AwakeInv, internal_preempt
  PROVE  OthersCompute' /\ SleepersDoNotRun'
<1>1. internal_schedule(status, ready_list, waiting_list, timer_list)
  BY DEF internal_preempt
<1>2. Consistent(status, ready_list, waiting_list, timer_list)
  BY InvConsistent DEF AwakeInv, SchedulerInv
<1> QED BY <1>1, <1>2, RunsAwake, ScheduleAwake DEF AwakeInv, OthersCompute

\* internal_sleep: the caller is not one of those that compute.
LEMMA SleepAwake ==
  ASSUME AwakeInv, internal_sleep, Callers # Proc
  PROVE  OthersCompute' /\ SleepersDoNotRun'
<1>1. SchedulerInv
  BY DEF AwakeInv
<1>2. CASE SleepRefused
  BY <1>2 DEF SleepRefused, AwakeInv, OthersCompute, SleepersDoNotRun
<1>3. ASSUME NEW cycles \in SleepCycles, SleepStarts(cycles)
      PROVE  OthersCompute' /\ SleepersDoNotRun'
  <2> DEFINE item == [pcb |-> running, left |-> cycles]
             st   == [status EXCEPT ![running] = Waiting]
             wl   == waiting_list \cup {running}
  <2>1. ~HasTimer(running) /\ cycles \in Int /\ running \in Callers
    BY <1>3, SchedulerAssumption DEF SleepStarts
  <2>2. PICK k \in 0 .. Len(timer_list) :
          /\ TimerGoesBehind(timer_list, item, k)
          /\ internal_schedule(st, ready_list, wl, TimerList_add(timer_list, item, k))
    BY <1>3 DEF SleepStarts
  <2> DEFINE new == TimerList_add(timer_list, item, k)
  <2>3. Consistent(st, ready_list, wl, new)
    BY <1>1, <2>1, <2>2, SleepConsistent
  <2>4. Schedulable(ready_list, new)
    BY <1>1, <2>1, SomebodyReady DEF AwakeInv, Schedulable
  <2>5. \A p \in Proc \ Callers : st[p] # Waiting
    BY <2>1 DEF AwakeInv, OthersCompute, SchedulerInv, SchedulerTypeOK
  <2> HIDE DEF st, wl, new, item
  <2>6. internal_schedule(st, ready_list, wl, new)
    BY <2>2 DEF new
  <2> QED BY <2>3, <2>4, <2>5, <2>6, ScheduleAwake
<1> QED BY <1>2, <1>3 DEF internal_sleep

(***************************************************************************)
(* What the callers of disastrOS_sleep count on holds as soon as one       *)
(* process only computes: nobody runs with cycles left to sleep.           *)
(***************************************************************************)
THEOREM NobodyRunsAsleep ==
  ASSUME Callers # Proc
  PROVE  SchedulerSpec => []SleepersDoNotRun
<1>1. SchedulerInit => OthersCompute /\ SleepersDoNotRun
  BY DEF SchedulerInit, OthersCompute, SleepersDoNotRun, Running, Ready, Waiting
<1>2. SchedulerInit => AwakeInv
  BY <1>1, InitInv DEF AwakeInv
<1>3. AwakeInv /\ [SchedulerNext]_SchedulerVars => AwakeInv'
  <2> SUFFICES ASSUME AwakeInv, [SchedulerNext]_SchedulerVars
               PROVE  AwakeInv'
    OBVIOUS
  <2>1. SchedulerInv'
    BY NextInv DEF AwakeInv
  <2>2. CASE SchedulerNext
    BY <2>1, <2>2, TimerInterruptAwake, PreemptAwake, SleepAwake DEF SchedulerNext, AwakeInv
  <2>3. CASE UNCHANGED SchedulerVars
    BY <2>1, <2>3 DEF SchedulerVars, AwakeInv, OthersCompute, SleepersDoNotRun
  <2> QED BY <2>2, <2>3
<1>4. AwakeInv => SleepersDoNotRun
  BY DEF AwakeInv
<1> QED BY <1>2, <1>3, <1>4, PTL DEF SchedulerSpec

-----------------------------------------------------------------------------
\* The processor goes to the woken processes in the order of their timers, and
\* to nobody else before the last of them.
LEMMA ScheduleOrder ==
  ASSUME NEW st, NEW rl, NEW wl, NEW tl,
         Consistent(st, rl, wl, tl),
         internal_schedule(st, rl, wl, tl),
         NEW p \in wl \ waiting_list',
         NEW q \in Proc, q = running' \/ q \in Range(ready_list')
  PROVE  \/ RunsBefore(p, q)
         \/ \E i, j \in DOMAIN tl : i <= j /\ tl[i].pcb = q /\ tl[j].pcb = p
<1>1. tl \in Seq(Timer) /\ rl \in Seq(Proc) /\ running \in Proc
  BY DEF Consistent
<1>2. PICK n \in 0 .. Len(tl) :
        LET woken   == Owners(SubSeq(tl, 1, n))
            awake   == [r \in Proc |-> IF r \in Range(woken) THEN Ready ELSE st[r]]
            ready   == WokenFirst(woken, rl)
            requeue == awake[running] = Running
        IN  /\ waiting_list' = wl \ Range(woken)
            /\ \/ ready = << >>
               \/ /\ running' = Head(ready)
                  /\ ready_list' = IF requeue THEN Requeued(Tail(ready), running)
                                              ELSE Tail(ready)
  BY DEF internal_schedule
<1> DEFINE a     == SubSeq(tl, 1, n)
           woken == Owners(SubSeq(tl, 1, n))
           ready == woken \o rl
           ro    == << running' >> \o ready_list'
<1>3. /\ waiting_list' = wl \ Range(woken)
      /\ ready # << >> => /\ running' = Head(ready)
                          /\ \/ ready_list' = Append(Tail(ready), running)
                             \/ ready_list' = Tail(ready)
  BY <1>2 DEF WokenFirst, Requeued
<1>4. /\ a \in Seq(Timer) /\ Len(a) = n /\ \A i \in 1 .. n : a[i] = tl[i]
      /\ Len(tl) \in Nat /\ n \in Nat /\ n <= Len(tl) /\ DOMAIN tl = 1 .. Len(tl)
  BY <1>1, SplitAt, LenProperties
<1>5. /\ woken \in Seq(Proc) /\ Len(woken) = n /\ DOMAIN woken = 1 .. n
      /\ \A i \in 1 .. n : woken[i] = tl[i].pcb
  <2> HIDE DEF a
  <2>1. /\ Owners(a) \in Seq(Proc) /\ Len(Owners(a)) = n /\ DOMAIN Owners(a) = 1 .. n
        /\ \A i \in 1 .. n : Owners(a)[i] = a[i].pcb
    BY <1>4, OwnersOfTimers
  <2> QED BY <1>4, <2>1 DEF a
<1>6. PICK k \in 1 .. n : woken[k] = p
  BY <1>3, <1>5 DEF Range
<1> HIDE DEF woken, a
<1>7. /\ ready \in Seq(Proc) /\ Len(ready) \in Nat /\ n <= Len(ready)
      /\ \A i \in 1 .. n : ready[i] = tl[i].pcb
  <2>1. woken \in Seq(Proc) /\ rl \in Seq(Proc)
    BY <1>1, <1>5
  <2>2. Len(rl) \in Nat /\ Len(woken) \in Nat
    BY <2>1, LenProperties
  <2>3. /\ ready \in Seq(Proc) /\ Len(ready) = Len(woken) + Len(rl)
        /\ \A i \in 1 .. Len(woken) + Len(rl) :
             ready[i] = IF i <= Len(woken) THEN woken[i] ELSE rl[i - Len(woken)]
    BY <2>1, ConcatProperties
  <2> HIDE DEF ready
  <2> QED BY <1>4, <1>5, <2>2, <2>3
<1> HIDE DEF ready
<1>8. ready # << >>
  BY <1>4, <1>6, <1>7, EmptySeq
<1>9. /\ running' = ready[1] /\ running' \in Proc
      /\ ready_list' \in Seq(Proc) /\ Len(ready_list') \in Nat
      /\ Len(ready) - 1 <= Len(ready_list')
      /\ \A i \in 1 .. Len(ready) - 1 : ready_list'[i] = ready[i + 1]
  <2> DEFINE tail == Tail(ready)
  <2>1. /\ Head(ready) = ready[1] /\ Head(ready) \in Proc /\ tail \in Seq(Proc)
        /\ Len(tail) = Len(ready) - 1
        /\ \A i \in 1 .. Len(tail) : tail[i] = ready[i + 1]
    BY <1>7, <1>8, HeadTailProperties, ElementOfSeq
  <2>2. running' = Head(ready) /\ (ready_list' = Append(tail, running) \/ ready_list' = tail)
    BY <1>3, <1>8
  <2> HIDE DEF tail
  <2>3. Len(tail) \in Nat
    BY <2>1, LenProperties
  <2>4. /\ Append(tail, running) \in Seq(Proc)
        /\ Len(Append(tail, running)) = Len(tail) + 1
        /\ \A i \in 1 .. Len(tail) : Append(tail, running)[i] = tail[i]
    BY <1>1, <2>1, AppendProperties
  <2>5. Len(ready) \in Nat
    BY <1>7
  <2>6. CASE ready_list' = tail
    BY <2>1, <2>2, <2>3, <2>5, <2>6
  <2>7. CASE ready_list' = Append(tail, running)
    BY <2>1, <2>2, <2>3, <2>4, <2>5, <2>7
  <2> QED BY <2>2, <2>6, <2>7
<1>10. /\ DOMAIN ro = 1 .. Len(ready_list') + 1
       /\ ro[1] = running'
       /\ \A i \in 1 .. Len(ready_list') : ro[i + 1] = ready_list'[i]
  <2> DEFINE r == ready_list'
             x == running'
  <2>1. r \in Seq(Proc) /\ x \in Proc
    BY <1>9
  <2> HIDE DEF r, x
  <2>2. << x >> \in Seq(Proc) /\ Len(<< x >>) = 1 /\ << x >>[1] = x
    BY <2>1, Singleton
  <2> DEFINE one == << x >>
  <2>3. one \in Seq(Proc) /\ Len(one) = 1 /\ one[1] = x
    BY <2>2
  <2> HIDE DEF one
  <2>4. /\ one \o r \in Seq(Proc) /\ Len(one \o r) = 1 + Len(r)
        /\ (one \o r)[1] = x
        /\ \A i \in 1 .. Len(r) : (one \o r)[i + 1] = r[i]
    BY <2>1, <2>3, ConcatProperties, LenProperties
  <2>5. DOMAIN (one \o r) = 1 .. Len(r) + 1
    BY <2>1, <2>4, LenProperties
  <2> QED BY <2>4, <2>5 DEF one, r, x
<1>11. RunOrder' = ro
  BY DEF RunOrder
<1> HIDE DEF ro
<1>12. \A i \in 1 .. n : i \in DOMAIN ro /\ ro[i] = tl[i].pcb
  <2> SUFFICES ASSUME NEW i \in 1 .. n PROVE i \in DOMAIN ro /\ ro[i] = tl[i].pcb
    OBVIOUS
  <2>1. i \in Nat /\ i <= Len(ready) /\ i \in DOMAIN ro
    BY <1>4, <1>7, <1>9, <1>10
  <2>2. CASE i = 1
    BY <1>7, <1>9, <1>10, <2>1, <2>2
  <2>3. CASE i # 1
    <3>1. i - 1 \in 1 .. Len(ready) - 1 /\ i - 1 \in 1 .. Len(ready_list') /\ (i - 1) + 1 = i
      BY <1>7, <1>9, <2>1, <2>3
    <3> QED BY <1>7, <1>9, <1>10, <2>1, <3>1
  <2> QED BY <2>2, <2>3
<1>13. PICK m \in DOMAIN ro : ro[m] = q
  <2>1. CASE q = running'
    BY <1>9, <1>10, <2>1
  <2>2. CASE q \in Range(ready_list')
    <3>1. PICK i \in 1 .. Len(ready_list') : ready_list'[i] = q
      BY <1>9, <2>2, LenProperties DEF Range
    <3>2. i + 1 \in DOMAIN ro /\ ro[i + 1] = q
      BY <1>9, <1>10, <3>1
    <3> QED BY <3>2
  <2> QED BY <2>1, <2>2
<1>14. m \in Nat /\ 1 <= m
  BY <1>9, <1>10
<1>15. CASE k < m
  BY <1>5, <1>6, <1>11, <1>12, <1>13, <1>15 DEF RunsBefore
<1>16. CASE m <= k
  <2>1. m \in 1 .. n
    BY <1>4, <1>14, <1>16
  <2>2. m \in DOMAIN tl /\ k \in DOMAIN tl
    BY <1>4, <2>1
  <2> QED BY <1>5, <1>6, <1>12, <1>13, <1>16, <2>1, <2>2
<1> QED BY <1>14, <1>15, <1>16

\* In this module nobody waits but for a timer.
WaitersListed == \A p \in Proc : status[p] = Waiting => p \in waiting_list

OrderInv == SchedulerInv /\ WaitersListed

\* A call of internal_schedule keeps this as well.
LEMMA ScheduleListed ==
  ASSUME NEW st, NEW rl, NEW wl, NEW tl,
         Consistent(st, rl, wl, tl),
         internal_schedule(st, rl, wl, tl),
         \A p \in Proc : st[p] = Waiting => p \in wl
  PROVE  WaitersListed'
<1>1. \A p \in Proc : status'[p] = Waiting
                        <=> st[p] = Waiting /\ p \notin wl \ waiting_list'
  BY ScheduleLists
<1> QED BY <1>1 DEF WaitersListed

\* A call sees the timers of sleepers that have time left: it wakes nobody.
LEMMA CallsWakeNobody ==
  ASSUME SchedulerInv,
         NEW st, NEW rl, NEW wl, NEW tl \in Seq(Timer),
         waiting_list \subseteq wl,
         internal_schedule(st, rl, wl, tl),
         \A i \in DOMAIN tl : tl[i].pcb \notin waiting_list
                              \/ \E j \in DOMAIN timer_list : tl[i] = timer_list[j]
  PROVE  WokenInOrder
<1>1. \A p \in wl \ waiting_list' : \E i \in DOMAIN tl : tl[i].pcb = p /\ TimerElapsed(tl[i])
  BY ScheduleWakes
<1>2. waiting_list \subseteq waiting_list'
  BY <1>1 DEF SchedulerInv, NoOverdueTimer
<1> QED BY <1>2 DEF WokenInOrder

\* One lemma for the invariant and the order: they go through the same calls.
LEMMA NextInOrder ==
  ASSUME OrderInv, [SchedulerNext]_SchedulerVars
  PROVE  OrderInv' /\ [WokenInOrder]_SchedulerVars
<1> USE DEF Running, Ready, Waiting
<1>1. SchedulerInv /\ SchedulerInv' /\ WaitersListed
  BY NextInv DEF OrderInv
<1>2. /\ timer_list \in Seq(Timer) /\ running \in Proc
      /\ DOMAIN timer_list = 1 .. Len(timer_list)
      /\ \A i \in DOMAIN timer_list : timer_list[i] \in Timer
      /\ status \in [Proc -> ProcessStatus] /\ status' \in [Proc -> ProcessStatus]
  BY <1>1, LenProperties, ElementOfSeq DEF SchedulerInv, SchedulerTypeOK
<1>3. CASE timerInterrupt
  <2> DEFINE tl == Ticked(timer_list)
  <2>1. internal_schedule(status, ready_list, waiting_list, tl)
    BY <1>3 DEF timerInterrupt
  <2>2. Consistent(status, ready_list, waiting_list, tl)
    BY <1>1, TickConsistent
  <2>3. /\ DOMAIN tl = DOMAIN timer_list
        /\ \A i \in DOMAIN timer_list : tl[i].pcb = timer_list[i].pcb
    BY <1>2 DEF Ticked, Timer
  <2> HIDE DEF tl
  <2>4. WaitersListed'
    BY <1>1, <2>1, <2>2, ScheduleListed DEF WaitersListed
  <2>5. ASSUME NEW p \in waiting_list \ waiting_list', NEW q \in Proc \ waiting_list'
        PROVE  RunsBefore(p, q) \/ ElapsesBefore(q, p)
    <3>1. status'[q] = Running \/ status'[q] = Ready
      BY <1>2, <2>4 DEF WaitersListed, ProcessStatus
    <3>2. q = running' \/ q \in Range(ready_list')
      BY <1>1, <3>1 DEF SchedulerInv, ListsMatchStatus, ReadyListMatches, RunningMatches
    <3>3. \/ RunsBefore(p, q)
          \/ \E i, j \in DOMAIN tl : i <= j /\ tl[i].pcb = q /\ tl[j].pcb = p
      BY <2>1, <2>2, <3>2, ScheduleOrder
    <3> QED BY <2>3, <3>3 DEF ElapsesBefore
  <2> QED BY <1>1, <2>4, <2>5 DEF OrderInv, WokenInOrder
<1>4. CASE internal_preempt
  <2>1. internal_schedule(status, ready_list, waiting_list, timer_list)
    BY <1>4 DEF internal_preempt
  <2>2. Consistent(status, ready_list, waiting_list, timer_list)
    BY <1>1, InvConsistent DEF SchedulerInv
  <2>3. WaitersListed'
    BY <1>1, <2>1, <2>2, ScheduleListed DEF WaitersListed
  <2>4. WokenInOrder
    BY <1>1, <1>2, <2>1, CallsWakeNobody
  <2> QED BY <1>1, <2>3, <2>4 DEF OrderInv
<1>5. CASE SleepRefused
  BY <1>1, <1>5 DEF SleepRefused, OrderInv, WaitersListed, WokenInOrder
<1>6. ASSUME NEW cycles \in SleepCycles, SleepStarts(cycles)
      PROVE  WaitersListed' /\ WokenInOrder
  <2> DEFINE item == [pcb |-> running, left |-> cycles]
             st   == [status EXCEPT ![running] = Waiting]
             wl   == waiting_list \cup {running}
  <2>1. ~HasTimer(running) /\ cycles \in Int
    BY <1>6, SchedulerAssumption DEF SleepStarts
  <2>2. PICK k \in 0 .. Len(timer_list) :
          /\ TimerGoesBehind(timer_list, item, k)
          /\ internal_schedule(st, ready_list, wl, TimerList_add(timer_list, item, k))
    BY <1>6 DEF SleepStarts
  <2> DEFINE new == TimerList_add(timer_list, item, k)
  <2>3. item \in Timer /\ item.pcb = running
    BY <1>2, <2>1 DEF Timer
  <2>4. running \notin waiting_list
    BY <1>1, <2>1, NoTimerRuns
  <2>5. Consistent(st, ready_list, wl, new)
    BY <1>1, <2>1, <2>2, SleepConsistent
  <2>6. waiting_list \subseteq wl /\ internal_schedule(st, ready_list, wl, new)
    BY <2>2
  <2>7. \A p \in Proc : st[p] = Waiting => p \in wl
    BY <1>1, <1>2 DEF WaitersListed
  <2> HIDE DEF item
  <2>8. /\ new \in Seq(Timer)
        /\ \A i \in DOMAIN new : new[i] = item \/ \E j \in DOMAIN timer_list : new[i] = timer_list[j]
    BY <1>1, <1>2, <2>2, <2>3, AddKeepsOrder DEF SchedulerInv
  <2> HIDE DEF new, st, wl
  <2>9. WaitersListed'
    BY <2>5, <2>6, <2>7, ScheduleListed
  <2>10. \A i \in DOMAIN new : new[i].pcb \notin waiting_list
                               \/ \E j \in DOMAIN timer_list : new[i] = timer_list[j]
    BY <2>3, <2>4, <2>8
  <2> QED BY <1>1, <2>6, <2>8, <2>9, <2>10, CallsWakeNobody
<1>7. CASE UNCHANGED SchedulerVars
  BY <1>1, <1>7 DEF SchedulerVars, OrderInv, WaitersListed
<1> QED
  BY <1>1, <1>3, <1>4, <1>5, <1>6, <1>7 DEF SchedulerNext, internal_sleep, OrderInv

LEMMA InitOrder == SchedulerInit => OrderInv
BY InitInv DEF SchedulerInit, OrderInv, WaitersListed, Running, Ready, Waiting

(***************************************************************************)
(* However many sleepers a tick wakes, and whoever was ready or running:   *)
(* internal_schedule gives them the processor in the order of their timers *)
(* before anybody else.                                                    *)
(***************************************************************************)
THEOREM WokenInTimerOrder == SchedulerSpec => WakesInTimerOrder
<1>1. SchedulerInit => OrderInv
  BY InitOrder
<1>2. OrderInv /\ [SchedulerNext]_SchedulerVars => OrderInv' /\ [WokenInOrder]_SchedulerVars
  BY NextInOrder
<1> QED BY <1>1, <1>2, PTL DEF SchedulerSpec, WakesInTimerOrder

=============================================================================
