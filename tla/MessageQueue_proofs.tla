------------------------- MODULE MessageQueue_proofs -------------------------
(***************************************************************************)
(* Proofs about MessageQueue, for any processes, queues, capacities, sizes *)
(* and any pool of message blocks.                                         *)
(*                                                                         *)
(* The waiting lists of a queue are proved about apart from the scheduler: *)
(* Apart(R, S) says that no process is in two of the lists R and S, twice  *)
(* in one, or waits at two queues.  Enlisted and Delisted say what a       *)
(* List_insert and a List_detach do to it; the scheduler's side is in      *)
(* Scheduler_proofs.                                                       *)
(***************************************************************************)
EXTENDS ChannelRefinement, Scheduler_proofs

\* The processes in the lists R and S of queue q, and of any queue.
On(R, S, q)  == Range(Pcbs(R[q])) \cup Range(Pcbs(S[q]))
AllOn(R, S)  == UNION { On(R, S, q) : q \in QueueId }

Apart(R, S) ==
  /\ \A q \in QueueId : /\ IsInjective(Pcbs(R[q]))
                        /\ IsInjective(Pcbs(S[q]))
                        /\ Range(Pcbs(R[q])) \cap Range(Pcbs(S[q])) = {}
  /\ \A q1, q2 \in QueueId : q1 # q2 => On(R, S, q1) \cap On(R, S, q2) = {}

\* Waiting lists, whatever the sizes in their entries are.
Entries(T) == [pcb : Proc, size : T]
Lists(T)   == [QueueId -> Seq(Entries(T))]

\* With new instead of R, process p waits at queue q, too.
Joins(T, R, S, new, q, p) ==
  /\ new \in Lists(T)
  /\ Apart(new, S)
  /\ AllOn(new, S) = AllOn(R, S) \cup {p}
  /\ \A x \in QueueId \ {q} : On(new, S, x) = On(R, S, x)
  /\ On(new, S, q) = On(R, S, q) \cup {p}

\* With new instead of R, process p no longer waits at queue q.
Leaves(T, R, S, new, q, p) ==
  /\ new \in Lists(T)
  /\ Apart(new, S)
  /\ p \in Proc /\ p \in AllOn(R, S)
  /\ AllOn(new, S) = AllOn(R, S) \ {p}
  /\ \A x \in QueueId \ {q} : On(new, S, x) = On(R, S, x)
  /\ p \in On(R, S, q) /\ On(new, S, q) = On(R, S, q) \ {p}

\* With newR and newS instead of R and S, those in woken wait no longer,
\* which are all who waited at queue q.
AllLeave(T, R, newR, U, S, newS, q, woken) ==
  /\ newR \in Lists(T)
  /\ newS \in Lists(U)
  /\ Apart(newR, newS)
  /\ woken \in Seq(Proc) /\ IsInjective(woken)
  /\ Range(woken) = On(R, S, q) /\ On(R, S, q) \subseteq AllOn(R, S)
  /\ AllOn(newR, newS) = AllOn(R, S) \ On(R, S, q)
  /\ \A x \in QueueId \ {q} : On(newR, newS, x) = On(R, S, x)
  /\ On(newR, newS, q) = {}

-----------------------------------------------------------------------------
\* The PCBs of a waiting list are a list of as many processes.
LEMMA PcbsOfList ==
  ASSUME NEW T, NEW list \in Seq(Entries(T))
  PROVE  /\ Pcbs(list) \in Seq(Proc)
         /\ Len(Pcbs(list)) = Len(list)
         /\ DOMAIN Pcbs(list) = 1 .. Len(list)
         /\ \A i \in 1 .. Len(list) : Pcbs(list)[i] = list[i].pcb
<1>1. Len(list) \in Nat /\ DOMAIN list = 1 .. Len(list)
      /\ \A i \in 1 .. Len(list) : list[i] \in Entries(T)
  BY LenProperties, ElementOfSeq
<1>2. \A i \in 1 .. Len(list) : list[i].pcb \in Proc
  BY <1>1 DEF Entries
<1>3. Pcbs(list) \in [1 .. Len(list) -> Proc]
  BY <1>1, <1>2 DEF Pcbs
<1>4. Pcbs(list) \in Seq(Proc)
  BY <1>1, <1>3, SeqDef
<1>5. Len(Pcbs(list)) = Len(list)
  BY <1>1, <1>3, <1>4, LenProperties
<1> QED BY <1>1, <1>3, <1>4, <1>5 DEF Pcbs

\* A process that is inserted behind the others is behind the other PCBs.
LEMMA PcbsAppend ==
  ASSUME NEW T, NEW list \in Seq(Entries(T)), NEW e \in Entries(T)
  PROVE  /\ WaitsLast(list, e) \in Seq(Entries(T))
         /\ Pcbs(WaitsLast(list, e)) = Append(Pcbs(list), e.pcb)
<1> DEFINE new == Append(list, e)
<1>1. /\ new \in Seq(Entries(T)) /\ Len(new) = Len(list) + 1
      /\ \A i \in 1 .. Len(list) : new[i] = list[i]
      /\ new[Len(list) + 1] = e
  BY AppendProperties
<1>2. Len(list) \in Nat /\ e.pcb \in Proc
  BY LenProperties DEF Entries
<1>3. /\ Pcbs(list) \in Seq(Proc) /\ Len(Pcbs(list)) = Len(list)
      /\ \A i \in 1 .. Len(list) : Pcbs(list)[i] = list[i].pcb
  BY PcbsOfList
<1> HIDE DEF new
<1>4. /\ Pcbs(new) \in Seq(Proc) /\ Len(Pcbs(new)) = Len(list) + 1
      /\ \A i \in 1 .. Len(list) + 1 : Pcbs(new)[i] = new[i].pcb
  BY <1>1, PcbsOfList
<1> DEFINE ps == Append(Pcbs(list), e.pcb)
<1>5. /\ ps \in Seq(Proc) /\ Len(ps) = Len(list) + 1
      /\ \A i \in 1 .. Len(list) : ps[i] = Pcbs(list)[i]
      /\ ps[Len(list) + 1] = e.pcb
  BY <1>2, <1>3, AppendProperties
<1> HIDE DEF ps
<1>6. \A i \in 1 .. Len(list) + 1 : Pcbs(new)[i] = ps[i]
  <2> SUFFICES ASSUME NEW i \in 1 .. Len(list) + 1
               PROVE  Pcbs(new)[i] = ps[i]
    OBVIOUS
  <2>1. CASE i \in 1 .. Len(list)
    BY <1>1, <1>3, <1>4, <1>5, <2>1
  <2>2. CASE i = Len(list) + 1
    BY <1>1, <1>4, <1>5, <2>2
  <2> QED BY <1>2, <2>1, <2>2
<1>7. Pcbs(new) = ps
  BY <1>4, <1>5, <1>6, SeqEqual
<1> QED BY <1>1, <1>7 DEF new, ps, WaitsLast

\* Detaching the first process detaches its PCB.
LEMMA PcbsTail ==
  ASSUME NEW T, NEW list \in Seq(Entries(T)), list # << >>
  PROVE  /\ Tail(list) \in Seq(Entries(T))
         /\ Head(list) \in Entries(T)
         /\ Pcbs(list) \in Seq(Proc)
         /\ Pcbs(list) # << >>
         /\ Head(Pcbs(list)) = Head(list).pcb
         /\ Pcbs(Tail(list)) = Tail(Pcbs(list))
<1> DEFINE tail == Tail(list)
           ps   == Pcbs(list)
<1>1. /\ tail \in Seq(Entries(T)) /\ Len(tail) = Len(list) - 1
      /\ \A i \in 1 .. Len(tail) : tail[i] = list[i + 1]
      /\ Head(list) \in Entries(T) /\ Head(list) = list[1]
  BY HeadTailProperties
<1>2. Len(list) \in Nat /\ Len(list) > 0
  BY LenProperties, EmptySeq
<1>3. /\ ps \in Seq(Proc) /\ Len(ps) = Len(list)
      /\ \A i \in 1 .. Len(list) : ps[i] = list[i].pcb
  BY PcbsOfList
<1> HIDE DEF tail, ps
<1>4. /\ Pcbs(tail) \in Seq(Proc) /\ Len(Pcbs(tail)) = Len(list) - 1
      /\ \A i \in 1 .. Len(list) - 1 : Pcbs(tail)[i] = tail[i].pcb
  BY <1>1, PcbsOfList
<1>5. ps # << >>
  BY <1>2, <1>3, EmptySeq
<1>6. /\ Tail(ps) \in Seq(Proc) /\ Len(Tail(ps)) = Len(list) - 1
      /\ \A i \in 1 .. Len(Tail(ps)) : Tail(ps)[i] = ps[i + 1]
      /\ Head(ps) = ps[1]
  BY <1>3, <1>5, HeadTailProperties
<1>7. \A i \in 1 .. Len(list) - 1 : Pcbs(tail)[i] = Tail(ps)[i]
  <2> SUFFICES ASSUME NEW i \in 1 .. Len(list) - 1
               PROVE  Pcbs(tail)[i] = Tail(ps)[i]
    OBVIOUS
  <2>1. i + 1 \in 1 .. Len(list)
    BY <1>2
  <2> QED BY <1>1, <1>3, <1>4, <1>6, <2>1
<1>8. Pcbs(tail) = Tail(ps)
  BY <1>4, <1>6, <1>7, SeqEqual
<1>9. Head(ps) = Head(list).pcb
  BY <1>1, <1>2, <1>3, <1>6
<1> QED BY <1>1, <1>3, <1>5, <1>8, <1>9 DEF tail, ps

-----------------------------------------------------------------------------
\* It does not matter which of the two lists of a queue is which.
LEMMA ApartSymmetric ==
  ASSUME NEW R, NEW S, Apart(R, S)
  PROVE  /\ Apart(S, R)
         /\ AllOn(S, R) = AllOn(R, S)
         /\ \A q \in QueueId : On(S, R, q) = On(R, S, q)
<1>1. \A q \in QueueId : On(S, R, q) = On(R, S, q)
  BY DEF On
<1>2. Apart(S, R)
  BY <1>1 DEF Apart
<1>3. AllOn(S, R) = AllOn(R, S)
  BY <1>1 DEF AllOn
<1> QED BY <1>1, <1>2, <1>3

\* A process that waits nowhere can be inserted into any list.
LEMMA Enlisted ==
  ASSUME NEW T, NEW R \in Lists(T), NEW S, Apart(R, S),
         NEW q \in QueueId, NEW e \in Entries(T), e.pcb \notin AllOn(R, S)
  PROVE  Joins(T, R, S, [R EXCEPT ![q] = WaitsLast(@, e)], q, e.pcb)
<1> DEFINE new == [R EXCEPT ![q] = WaitsLast(@, e)]
           p   == e.pcb
<1>0. p \in Proc /\ R[q] \in Seq(Entries(T))
  BY DEF Entries, Lists
<1>1. /\ WaitsLast(R[q], e) \in Seq(Entries(T))
      /\ Pcbs(WaitsLast(R[q], e)) = Append(Pcbs(R[q]), p)
  BY <1>0, PcbsAppend
<1>2. /\ new \in [QueueId -> Seq(Entries(T))]
      /\ new[q] = WaitsLast(R[q], e)
      /\ \A x \in QueueId \ {q} : new[x] = R[x]
  BY <1>1 DEF Lists
<1>3. /\ \A x \in QueueId : p \notin On(R, S, x)
  BY DEF AllOn
<1>4. /\ Range(Append(Pcbs(R[q]), p)) = Range(Pcbs(R[q])) \cup {p}
      /\ IsInjective(Append(Pcbs(R[q]), p))
  <2>1. Pcbs(R[q]) \in Seq(Proc)
    BY <1>0, PcbsOfList
  <2>2. IsInjective(Pcbs(R[q])) /\ p \notin Range(Pcbs(R[q]))
    BY <1>3 DEF Apart, On
  <2> QED BY <1>0, <2>1, <2>2, AppendInjectiveList
<1> HIDE DEF new, p
<1>5. /\ Range(Pcbs(new[q])) = Range(Pcbs(R[q])) \cup {p}
      /\ IsInjective(Pcbs(new[q]))
  BY <1>1, <1>2, <1>4
<1>6. /\ On(new, S, q) = On(R, S, q) \cup {p}
      /\ \A x \in QueueId \ {q} : On(new, S, x) = On(R, S, x)
  BY <1>2, <1>5 DEF On
<1>7. Apart(new, S)
  <2>1. ASSUME NEW x \in QueueId
        PROVE  /\ IsInjective(Pcbs(new[x]))
               /\ IsInjective(Pcbs(S[x]))
               /\ Range(Pcbs(new[x])) \cap Range(Pcbs(S[x])) = {}
    <3>1. CASE x = q
      BY <1>3, <1>5, <3>1 DEF Apart, On
    <3>2. CASE x # q
      BY <1>2, <3>2 DEF Apart
    <3> QED BY <3>1, <3>2
  <2>2. \A x, y \in QueueId : x # y => On(new, S, x) \cap On(new, S, y) = {}
    BY <1>3, <1>6 DEF Apart
  <2> QED BY <2>1, <2>2 DEF Apart
<1>8. AllOn(new, S) = AllOn(R, S) \cup {p}
  BY <1>6 DEF AllOn
<1> QED BY <1>2, <1>6, <1>7, <1>8 DEF new, p, Joins, Lists

\* The first process of a list can be detached.
LEMMA Delisted ==
  ASSUME NEW T, NEW R \in Lists(T), NEW S, Apart(R, S),
         NEW q \in QueueId, R[q] # << >>
  PROVE  Leaves(T, R, S, [R EXCEPT ![q] = Tail(@)], q, Head(R[q]).pcb)
<1> DEFINE new == [R EXCEPT ![q] = Tail(@)]
           p   == Head(R[q]).pcb
           ps  == Pcbs(R[q])
<1>1. /\ Tail(R[q]) \in Seq(Entries(T)) /\ Head(R[q]) \in Entries(T)
      /\ ps \in Seq(Proc) /\ ps # << >>
      /\ Head(ps) = p /\ Pcbs(Tail(R[q])) = Tail(ps)
  <2>1. R[q] \in Seq(Entries(T))
    BY DEF Lists
  <2> QED BY <2>1, PcbsTail
<1>2. /\ new \in [QueueId -> Seq(Entries(T))]
      /\ new[q] = Tail(R[q])
      /\ \A x \in QueueId \ {q} : new[x] = R[x]
  BY <1>1 DEF Lists
<1>3. IsInjective(ps)
  BY DEF Apart
<1> HIDE DEF new, p, ps
<1>4. /\ p \in Proc
      /\ p \in Range(ps)
      /\ IsInjective(Tail(ps))
      /\ Range(Tail(ps)) = Range(ps) \ {p}
  BY <1>1, <1>3, DetachHead
<1>5. /\ Range(Pcbs(new[q])) = Range(Pcbs(R[q])) \ {p}
      /\ IsInjective(Pcbs(new[q]))
  BY <1>1, <1>2, <1>4 DEF ps
<1>6. /\ p \in On(R, S, q)
      /\ On(new, S, q) = On(R, S, q) \ {p}
      /\ \A x \in QueueId \ {q} : On(new, S, x) = On(R, S, x)
  <2>1. p \notin Range(Pcbs(S[q]))
    BY <1>4 DEF Apart, ps
  <2> QED BY <1>2, <1>4, <1>5, <2>1 DEF On, ps
<1>7. \A x \in QueueId \ {q} : p \notin On(R, S, x)
  BY <1>6 DEF Apart
<1>8. Apart(new, S)
  <2>1. ASSUME NEW x \in QueueId
        PROVE  /\ IsInjective(Pcbs(new[x]))
               /\ IsInjective(Pcbs(S[x]))
               /\ Range(Pcbs(new[x])) \cap Range(Pcbs(S[x])) = {}
    <3>1. CASE x = q
      BY <1>5, <3>1 DEF Apart
    <3>2. CASE x # q
      BY <1>2, <3>2 DEF Apart
    <3> QED BY <3>1, <3>2
  <2>2. \A x, y \in QueueId : x # y => On(new, S, x) \cap On(new, S, y) = {}
    BY <1>6 DEF Apart
  <2> QED BY <2>1, <2>2 DEF Apart
<1>9. AllOn(new, S) = AllOn(R, S) \ {p} /\ p \in AllOn(R, S)
  BY <1>6, <1>7 DEF AllOn
<1> QED BY <1>2, <1>4, <1>6, <1>8, <1>9 DEF new, p, Leaves, Lists

\* Destroying a queue empties its two lists; the others stay as they are.
LEMMA Cleared ==
  ASSUME NEW T, NEW R \in Lists(T),
         NEW U, NEW S \in Lists(U), Apart(R, S),
         NEW q \in QueueId
  PROVE  AllLeave(T, R, [R EXCEPT ![q] = << >>],
                  U, S, [S EXCEPT ![q] = << >>], q, Pcbs(R[q]) \o Pcbs(S[q]))
<1> DEFINE newR  == [R EXCEPT ![q] = << >>]
           newS  == [S EXCEPT ![q] = << >>]
           r     == Pcbs(R[q])
           s     == Pcbs(S[q])
<1>1. /\ newR \in [QueueId -> Seq(Entries(T))]
      /\ newS \in [QueueId -> Seq(Entries(U))]
      /\ newR[q] = << >> /\ newS[q] = << >>
      /\ \A x \in QueueId \ {q} : newR[x] = R[x] /\ newS[x] = S[x]
  <2>1. << >> \in Seq(Entries(T)) /\ << >> \in Seq(Entries(U))
    BY EmptySeq
  <2> QED BY <2>1 DEF Lists
<1>2. Range(Pcbs(<< >>)) = {} /\ IsInjective(Pcbs(<< >>))
  <2>1. DOMAIN Pcbs(<< >>) = {}
    BY DEF Pcbs
  <2> QED BY <2>1 DEF Range, IsInjective
<1>3. /\ r \in Seq(Proc) /\ s \in Seq(Proc)
      /\ IsInjective(r) /\ IsInjective(s) /\ Range(r) \cap Range(s) = {}
      /\ On(R, S, q) = Range(r) \cup Range(s)
  BY PcbsOfList DEF Apart, On, Lists
<1> HIDE DEF newR, newS, r, s
<1>4. /\ r \o s \in Seq(Proc) /\ IsInjective(r \o s)
      /\ Range(r \o s) = On(R, S, q)
  BY <1>3, ConcatProperties, RangeConcatenation, ConcatInjective
<1>5. /\ On(newR, newS, q) = {}
      /\ \A x \in QueueId \ {q} : On(newR, newS, x) = On(R, S, x)
  BY <1>1, <1>2 DEF On
<1>6. Apart(newR, newS)
  <2>1. ASSUME NEW x \in QueueId
        PROVE  /\ IsInjective(Pcbs(newR[x]))
               /\ IsInjective(Pcbs(newS[x]))
               /\ Range(Pcbs(newR[x])) \cap Range(Pcbs(newS[x])) = {}
    <3>1. CASE x = q
      BY <1>1, <1>2, <3>1
    <3>2. CASE x # q
      BY <1>1, <3>2 DEF Apart
    <3> QED BY <3>1, <3>2
  <2>2. \A x, y \in QueueId : x # y => On(newR, newS, x) \cap On(newR, newS, y) = {}
    BY <1>5 DEF Apart
  <2> QED BY <2>1, <2>2 DEF Apart
<1>7. /\ AllOn(newR, newS) = AllOn(R, S) \ On(R, S, q)
      /\ On(R, S, q) \subseteq AllOn(R, S)
  <2>1. \A x \in QueueId \ {q} : On(R, S, x) \cap On(R, S, q) = {}
    BY DEF Apart
  <2> QED BY <1>5, <2>1 DEF AllOn
<1> QED BY <1>1, <1>4, <1>5, <1>6, <1>7 DEF newR, newS, r, s, AllLeave, Lists

-----------------------------------------------------------------------------
(***************************************************************************)
(* The processes that wait are those on the waiting list of the scheduler  *)
(* and those in B, and no process is both.                                 *)
(***************************************************************************)
Placed(st, wl, B) ==
  /\ B \subseteq Proc
  /\ B \cap wl = {}
  /\ { p \in Proc : st[p] = Waiting } = wl \cup B

\* internal_schedule wakes sleepers only.
LEMMA ScheduleKeepsPlaced ==
  ASSUME NEW st, NEW rl, NEW wl, NEW tl, NEW B,
         Consistent(st, rl, wl, tl),
         internal_schedule(st, rl, wl, tl),
         Placed(st, wl, B)
  PROVE  Placed(status', waiting_list', B)
<1>1. /\ waiting_list' \subseteq wl
      /\ \A p \in Proc : status'[p] = Waiting
                           <=> st[p] = Waiting /\ p \notin wl \ waiting_list'
      /\ waiting_list' \subseteq Proc
  BY ScheduleLists
<1> QED BY <1>1 DEF Placed

-----------------------------------------------------------------------------
\* The statuses of processes that do not live are those of Process.
AnyStatus == ProcessStatus \cup { "Created", "Zombie" }

(***************************************************************************)
(* What the calls of the queues need of the scheduler.  It is less than    *)
(* SchedulerInv: there may be processes that do not live, processes on the *)
(* waiting list that wait for something else than a timer, and processes   *)
(* that have a timer and are not on that list.                             *)
(***************************************************************************)
ListsHold ==
  /\ running \in Proc
  /\ status \in [Proc -> AnyStatus]
  /\ ready_list \in Seq(Proc)
  /\ waiting_list \subseteq Proc
  /\ timer_list \in Seq(Timer)
  /\ syscall_retvalue \in [Proc -> Int]
  /\ ReadyListMatches /\ RunningMatches
  /\ IsInjective(Owners(timer_list))
  /\ \A p \in waiting_list : status[p] = Waiting
  /\ running \in waiting_list => running \in Range(Owners(timer_list))
  /\ Sorted(timer_list) /\ NoOverdueTimer

\* What the calls of the queues leave to those processes.
Kept ==
  /\ \A p \in Proc : IF status[p] \in ProcessStatus THEN status'[p] \in ProcessStatus
                                                    ELSE status'[p] = status[p]
  /\ \A p \in Proc : status'[p] = Waiting => status[p] = Waiting \/ p = running
  /\ UNCHANGED << waiting_list, timer_list >>

\* The scheduler alone has neither.
LEMMA ListsOfScheduler ==
  ASSUME SchedulerInv
  PROVE  ListsHold
BY DEF SchedulerInv, SchedulerTypeOK, ListsMatchStatus, TimersMatch, ListsHold, AnyStatus

LEMMA SchedulerKept ==
  ASSUME SchedulerInv, ListsHold', Kept
  PROVE  SchedulerInv'
<1>1. status \in [Proc -> ProcessStatus] /\ Range(Owners(timer_list)) = waiting_list
  BY DEF SchedulerInv, SchedulerTypeOK, ListsMatchStatus, TimersMatch
<1>2. status' \in [Proc -> ProcessStatus]
  <2>1. \A p \in Proc : status'[p] \in ProcessStatus
    BY <1>1 DEF Kept
  <2> QED BY <2>1 DEF ListsHold
<1>3. Range(Owners(timer_list')) = waiting_list'
  BY <1>1 DEF Kept, ListsHold
<1>4. TimersMatch'
  BY <1>3 DEF ListsHold, TimersMatch
<1> QED
  BY <1>1, <1>2, <1>4 DEF SchedulerInv, SchedulerTypeOK, ListsMatchStatus, ListsHold, Kept

\* Returning a number keeps the results typed.
LEMMA ReturnsNumber ==
  ASSUME NEW v \in Int, Return(v), ListsHold
  PROVE  syscall_retvalue' \in [Proc -> Int]
BY DEF Return, ListsHold

\* A call that wakes processes of B, and does not schedule.
LEMMA MakeReadyInv ==
  ASSUME ListsHold, NEW B, Placed(status, waiting_list, B),
         NEW ps \in Seq(Proc), IsInjective(ps), Range(ps) \subseteq B,
         MakeReady(ps),
         syscall_retvalue' \in [Proc -> Int]
  PROVE  /\ ListsHold'
         /\ Placed(status', waiting_list', B \ Range(ps))
<1> USE DEF AnyStatus, ProcessStatus, Running, Ready, Waiting
<1>1. /\ status' = [p \in Proc |-> IF p \in Range(ps) THEN Ready ELSE status[p]]
      /\ ready_list' = ready_list \o ps
      /\ running' = running /\ waiting_list' = waiting_list /\ timer_list' = timer_list
  BY DEF MakeReady
<1>2. /\ running \in Proc /\ status \in [Proc -> AnyStatus]
      /\ ready_list \in Seq(Proc) /\ waiting_list \subseteq Proc
      /\ timer_list \in Seq(Timer)
  BY DEF ListsHold
<1>3. /\ \A p \in Range(ps) : p \in Proc /\ status[p] = Waiting /\ p \notin waiting_list
  BY DEF Placed
<1>4. /\ status' \in [Proc -> AnyStatus]
      /\ \A p \in Proc : status'[p] = IF p \in Range(ps) THEN Ready ELSE status[p]
  BY <1>1, <1>2
<1>5. ready_list' \in Seq(Proc) /\ Range(ready_list') = Range(ready_list) \cup Range(ps)
  BY <1>1, <1>2, ConcatProperties, RangeConcatenation
<1>6. ReadyListMatches'
  <2>1. IsInjective(ready_list) /\ Range(ready_list) = { p \in Proc : status[p] = Ready }
    BY DEF ListsHold, ReadyListMatches
  <2>2. Range(ready_list) \cap Range(ps) = {}
    BY <1>3, <2>1
  <2>3. IsInjective(ready_list')
    BY <1>1, <1>2, <2>1, <2>2, ConcatInjective
  <2>4. Range(ready_list') = { p \in Proc : status'[p] = Ready }
    BY <1>3, <1>4, <1>5, <2>1
  <2> QED BY <2>3, <2>4 DEF ReadyListMatches
<1>7. RunningMatches'
  <2>1. running \notin Range(ps)
    BY <1>3 DEF ListsHold, RunningMatches
  <2> QED
    BY <1>1, <1>2, <1>4, <2>1 DEF ListsHold, RunningMatches
<1>8. /\ IsInjective(Owners(timer_list'))
      /\ \A p \in waiting_list' : status'[p] = Waiting
      /\ running' \in waiting_list' => running' \in Range(Owners(timer_list'))
      /\ Sorted(timer_list)' /\ NoOverdueTimer'
  BY <1>1, <1>2, <1>3, <1>4 DEF ListsHold, Sorted, NoOverdueTimer
<1>9. Placed(status', waiting_list', B \ Range(ps))
  BY <1>1, <1>3, <1>4 DEF Placed
<1> QED BY <1>1, <1>2, <1>4, <1>5, <1>6, <1>7, <1>8, <1>9 DEF ListsHold

-----------------------------------------------------------------------------
\* The types of the queues' variables.
QueueTypes ==
  /\ resources_list \subseteq QueueId
  /\ max_messages \in [QueueId -> 0 .. MAX_MESSAGES_PER_QUEUE]
  /\ current_messages \in [QueueId -> Nat]
  /\ messages \in [QueueId -> Seq(MessageRecord)]
  /\ waiting_receivers \in Lists(Nat \ {0})
  /\ waiting_senders \in Lists(1 .. MESSAGE_MAX_SIZE)
  /\ free_messages \in Nat

QueueInv == QueueTypes /\ CountsMatch /\ ReceiversWaitOnEmpty

LocalTypes ==
  /\ user_buffer \in [Proc -> Proc \cup {NoData}]
  /\ list_broken \in BOOLEAN

InQueues == AllOn(waiting_receivers, waiting_senders)

ListInv ==
  /\ Apart(waiting_receivers, waiting_senders)
  /\ Placed(status, waiting_list, InQueues)

(***************************************************************************)
(* The inductive invariant.  A peer that completes a call makes the caller *)
(* ready without a look at its other list fields, so the lists of the      *)
(* queues and those of the scheduler have to be kept apart together.       *)
(***************************************************************************)
CallInv == ListsHold /\ QueueInv /\ LocalTypes /\ ListInv

Inv == SchedulerInv /\ CallInv

\* The invariant of the calls says what QueuesTypeOK and the rest say.
LEMMA CallImplies ==
  ASSUME CallInv
  PROVE  /\ QueuesTypeOK /\ CountsMatch /\ ReceiversWaitOnEmpty
         /\ \A q \in QueueId : BlockedOn(q) = On(waiting_receivers, waiting_senders, q)
         /\ Blocked = InQueues
<1>1. QueuesTypeOK
  BY DEF CallInv, QueueInv, QueueTypes, LocalTypes, QueuesTypeOK, ReceiverEntry, SenderEntry,
         Entries, Lists
<1>2. \A q \in QueueId : BlockedOn(q) = On(waiting_receivers, waiting_senders, q)
  BY DEF BlockedOn, On
<1>3. Blocked = InQueues
  BY <1>2 DEF Blocked, InQueues, AllOn
<1> QED BY <1>1, <1>2, <1>3 DEF CallInv, QueueInv

\* With the scheduler's it says what TypeOK and OneListEach say.
LEMMA InvImplies ==
  ASSUME Inv
  PROVE  TypeOK /\ OneListEach /\ CountsMatch /\ ReceiversWaitOnEmpty
<1>1. /\ QueuesTypeOK /\ CountsMatch /\ ReceiversWaitOnEmpty
      /\ \A q \in QueueId : BlockedOn(q) = On(waiting_receivers, waiting_senders, q)
      /\ Blocked = InQueues
  BY CallImplies DEF Inv
<1>2. TypeOK
  BY <1>1 DEF Inv, SchedulerInv, TypeOK
<1>3. \A q \in QueueId : BlockedOn(q) \cap waiting_list = {}
  BY <1>1 DEF Inv, CallInv, ListInv, Placed, InQueues, AllOn
<1>4. WaitingMatches
  BY <1>1, <1>3 DEF Inv, CallInv, ListInv, Apart, Placed, WaitingMatches
<1> QED BY <1>1, <1>2, <1>4 DEF OneListEach, Inv, SchedulerInv

\* A process that runs outside the waiting list has status Running and waits
\* for nothing.
LEMMA RunnerFree ==
  ASSUME CallInv, running \notin waiting_list
  PROVE  status[running] = Running /\ running \in Proc \ InQueues
<1>1. status[running] = Running /\ running \in Proc
  BY DEF CallInv, ListsHold, RunningMatches
<1> QED BY <1>1 DEF CallInv, ListInv, Placed, Running, Waiting

\* The queues and the buffers do not change what they hold.
LEMMA SameQueues ==
  ASSUME CallInv, UNCHANGED QueueVars
  PROVE  QueueInv' /\ Apart(waiting_receivers, waiting_senders)' /\ InQueues' = InQueues
<1>1. QueueTypes'
  BY DEF CallInv, QueueInv, QueueTypes, QueueVars
<1>2. CountsMatch'
  BY DEF CallInv, QueueInv, CountsMatch, QueueVars, BlockedOn
<1>3. ReceiversWaitOnEmpty'
  BY DEF CallInv, QueueInv, ReceiversWaitOnEmpty, QueueVars, IsEmpty
<1>4. Apart(waiting_receivers, waiting_senders)' /\ InQueues' = InQueues
  BY DEF CallInv, ListInv, QueueVars, Apart, On, InQueues, AllOn
<1> QED BY <1>1, <1>2, <1>3, <1>4 DEF QueueInv

\* The scheduler's variables do not change, but for a result.
LEMMA SameLists ==
  ASSUME ListsHold, UNCHANGED ProcVars, syscall_retvalue' \in [Proc -> Int]
  PROVE  ListsHold' /\ status' = status /\ waiting_list' = waiting_list
BY DEF ProcVars, ListsHold, ReadyListMatches, RunningMatches, Sorted, Owners, NoOverdueTimer

\* Reading the buffer keeps the types.
LEMMA BufferReadTyped ==
  ASSUME CallInv, BufferRead
  PROVE  user_buffer' \in [Proc -> Proc \cup {NoData}]
BY DEF CallInv, LocalTypes, BufferRead

\* The queues and the lists stay as they are; a result is returned.
LEMMA AnswerInv ==
  ASSUME CallInv, NEW v \in Int, Answer(v)
  PROVE  CallInv'
<1>1. Return(v) /\ BufferRead /\ UNCHANGED << ProcVars, QueueVars, list_broken >>
  BY DEF Answer
<1>2. syscall_retvalue' \in [Proc -> Int]
  BY <1>1, ReturnsNumber DEF CallInv
<1>3. ListsHold' /\ status' = status /\ waiting_list' = waiting_list
  BY <1>1, <1>2, SameLists DEF CallInv
<1>4. QueueInv' /\ Apart(waiting_receivers, waiting_senders)' /\ InQueues' = InQueues
  BY <1>1, SameQueues
<1>5. ListInv'
  BY <1>3, <1>4 DEF CallInv, ListInv, Placed
<1>6. LocalTypes'
  BY <1>1, BufferReadTyped DEF CallInv, LocalTypes
<1> QED BY <1>3, <1>4, <1>5, <1>6 DEF CallInv

\* A PCB that is linked twice ends the model without another change.
LEMMA LinkTwiceInv ==
  ASSUME CallInv, LinkTwice
  PROVE  CallInv'
<1>1. list_broken' = TRUE /\ UNCHANGED << SchedulerVars, QueueVars, user_buffer >>
  BY DEF LinkTwice
<1>2. UNCHANGED ProcVars /\ syscall_retvalue' \in [Proc -> Int]
  BY <1>1 DEF SchedulerVars, ProcVars, CallInv, ListsHold
<1>3. ListsHold' /\ status' = status /\ waiting_list' = waiting_list
  BY <1>2, SameLists DEF CallInv
<1>4. QueueInv' /\ Apart(waiting_receivers, waiting_senders)' /\ InQueues' = InQueues
  BY <1>1, SameQueues
<1>5. ListInv'
  BY <1>3, <1>4 DEF CallInv, ListInv, Placed
<1>6. LocalTypes'
  BY <1>1 DEF CallInv, LocalTypes
<1> QED BY <1>3, <1>4, <1>5, <1>6 DEF CallInv

-----------------------------------------------------------------------------
\* A step of the scheduler alone keeps the invariant of the queues, if it
\* moves nobody who waits at one.
LEMMA FrameInv ==
  ASSUME CallInv, SchedulerFrame, ListsHold',
         Placed(status', waiting_list', InQueues)
  PROVE  CallInv'
<1>1. BufferRead /\ UNCHANGED << QueueVars, list_broken >>
  BY DEF SchedulerFrame
<1>2. QueueInv' /\ Apart(waiting_receivers, waiting_senders)' /\ InQueues' = InQueues
  BY <1>1, SameQueues
<1>3. ListInv'
  BY <1>2 DEF ListInv, Placed
<1>4. LocalTypes'
  BY <1>1, BufferReadTyped DEF CallInv, LocalTypes
<1> QED BY <1>2, <1>3, <1>4 DEF CallInv

\* The same where the queues have the scheduler to themselves.
LEMMA SchedulerFrameInv ==
  ASSUME Inv, SchedulerFrame, SchedulerInv',
         Placed(status', waiting_list', InQueues)
  PROVE  Inv'
<1>1. ListsHold'
  BY DEF SchedulerInv, SchedulerTypeOK, ListsMatchStatus, TimersMatch, ListsHold, AnyStatus
<1> QED BY <1>1, FrameInv DEF Inv

\* The timer interrupt.
LEMMA TickInv ==
  ASSUME Inv, Tick
  PROVE  Inv'
<1>1. timerInterrupt /\ SchedulerFrame /\ SchedulerInv
  BY DEF Tick, Inv
<1>2. internal_schedule(status, ready_list, waiting_list, Ticked(timer_list))
  BY <1>1 DEF timerInterrupt
<1>3. Consistent(status, ready_list, waiting_list, Ticked(timer_list))
  BY <1>1, TickConsistent
<1>4. Placed(status', waiting_list', InQueues)
  BY <1>2, <1>3, ScheduleKeepsPlaced DEF Inv, CallInv, ListInv
<1> QED BY <1>1, <1>4, TimerInterruptInv, SchedulerFrameInv

\* disastrOS_preempt.
LEMMA QueuePreemptInv ==
  ASSUME Inv, internal_preempt, SchedulerFrame
  PROVE  Inv'
<1>1. internal_schedule(status, ready_list, waiting_list, timer_list) /\ SchedulerInv
  BY DEF internal_preempt, Inv
<1>2. Consistent(status, ready_list, waiting_list, timer_list)
  BY <1>1, InvConsistent DEF SchedulerInv
<1>3. Placed(status', waiting_list', InQueues)
  BY <1>1, <1>2, ScheduleKeepsPlaced DEF Inv, CallInv, ListInv
<1> QED BY <1>1, <1>3, PreemptInv, SchedulerFrameInv

\* disastrOS_sleep: who goes to sleep is in no queue.
LEMMA QueueSleepInv ==
  ASSUME Inv, internal_sleep, SchedulerFrame
  PROVE  Inv'
<1>1. SchedulerInv /\ SchedulerInv'
  BY SleepInv DEF Inv
<1>2. CASE SleepRefused
  <2>1. Placed(status', waiting_list', InQueues)
    BY <1>2 DEF SleepRefused, Inv, CallInv, ListInv, Placed
  <2> QED BY <1>1, <2>1, SchedulerFrameInv
<1>3. ASSUME NEW cycles \in SleepCycles, SleepStarts(cycles)
      PROVE  Inv'
  <2> DEFINE item == [pcb |-> running, left |-> cycles]
             st   == [status EXCEPT ![running] = Waiting]
             wl   == waiting_list \cup {running}
  <2>1. ~HasTimer(running) /\ cycles \in Int
    BY <1>3, SchedulerAssumption DEF SleepStarts
  <2>2. PICK k \in 0 .. Len(timer_list) :
          /\ TimerGoesBehind(timer_list, item, k)
          /\ internal_schedule(st, ready_list, wl, TimerList_add(timer_list, item, k))
    BY <1>3 DEF SleepStarts
  <2> DEFINE new == TimerList_add(timer_list, item, k)
  <2>3. Consistent(st, ready_list, wl, new)
    BY <1>1, <2>1, <2>2, SleepConsistent
  <2>4. running \notin InQueues /\ running \in Proc /\ status \in [Proc -> ProcessStatus]
    BY <1>1, <2>1, NoTimerRuns, RunnerFree
       DEF Inv, SchedulerInv, SchedulerTypeOK
  <2>5. Placed(st, wl, InQueues)
    BY <2>4 DEF Inv, CallInv, ListInv, Placed
  <2> HIDE DEF item, st, wl, new
  <2>6. Placed(status', waiting_list', InQueues)
    BY <2>2, <2>3, <2>5, ScheduleKeepsPlaced DEF new
  <2> QED BY <1>1, <2>6, SchedulerFrameInv
<1> QED BY <1>2, <1>3 DEF internal_sleep

-----------------------------------------------------------------------------
\* Who blocks can be taken off the processor.
LEMMA BlockConsistent ==
  ASSUME CallInv, running \notin waiting_list, Schedulable(ready_list, timer_list)
  PROVE  ConsistentIn(AnyStatus, [status EXCEPT ![running] = Waiting],
                      ready_list, waiting_list, timer_list)
<1> USE DEF AnyStatus, ProcessStatus, Running, Ready, Waiting
<1> DEFINE st == [status EXCEPT ![running] = Waiting]
<1>1. status[running] = Running
  BY RunnerFree
<1>2. ListsHold
  BY DEF CallInv
<1>3. /\ st \in [Proc -> AnyStatus]
      /\ \A p \in Proc : st[p] = IF p = running THEN Waiting ELSE status[p]
  BY <1>2 DEF ListsHold
<1> HIDE DEF st
<1>4. Range(ready_list) = { p \in Proc : st[p] = Ready }
  BY <1>1, <1>2, <1>3 DEF ListsHold, ReadyListMatches
<1>5. /\ \A p \in waiting_list : st[p] = Waiting
      /\ \A p \in Proc : st[p] = Running => p = running
      /\ st[running] # Ready
  BY <1>1, <1>2, <1>3 DEF ListsHold, RunningMatches
<1>6. ElapsedListed(waiting_list, timer_list)
  BY <1>2 DEF ListsHold, NoOverdueTimer, ElapsedListed
<1>7. ConsistentIn(AnyStatus, st, ready_list, waiting_list, timer_list)
  BY <1>2, <1>3, <1>4, <1>5, <1>6 DEF ListsHold, ReadyListMatches, ConsistentIn
<1> QED BY <1>7 DEF st

\* Who blocks is taken off the processor and is in no list but the queue's.
LEMMA BlockSchedules ==
  ASSUME CallInv, Block
  PROVE  /\ ListsHold' /\ Kept
         /\ Placed(status', waiting_list', InQueues \cup {running})
         /\ running \in Proc \ InQueues
         /\ user_buffer' \in [Proc -> Proc \cup {NoData}]
<1> DEFINE st == [status EXCEPT ![running] = Waiting]
<1>1. /\ running \notin waiting_list
      /\ Schedulable(ready_list, timer_list)
      /\ Return(NoResult) /\ BufferRead
      /\ internal_schedule(st, ready_list, waiting_list, timer_list)
  BY DEF Block, Linked
<1>2. running \in Proc \ InQueues /\ status[running] = Running
  BY <1>1, RunnerFree
<1>3. /\ ListsHold
      /\ status \in [Proc -> AnyStatus] /\ timer_list \in Seq(Timer)
      /\ Sorted(timer_list) /\ NoOverdueTimer
  BY DEF CallInv, ListsHold
<1>4. ConsistentIn(AnyStatus, st, ready_list, waiting_list, timer_list)
  BY <1>1, BlockConsistent
<1>5. Placed(st, waiting_list, InQueues \cup {running})
  BY <1>1, <1>2, <1>3 DEF CallInv, ListInv, Placed
<1>6. \A p \in Proc : st[p] = IF p = running THEN Waiting ELSE status[p]
  BY <1>3
<1> HIDE DEF st
<1>7. syscall_retvalue' \in [Proc -> Int]
  BY <1>1, <1>3, ReturnsNumber DEF NoResult
<1>8. /\ running' \in Proc
      /\ status' \in [Proc -> AnyStatus]
      /\ ready_list' \in Seq(Proc)
      /\ waiting_list' \subseteq Proc
      /\ timer_list' \in Seq(Timer)
      /\ ReadyListMatches' /\ RunningMatches'
      /\ IsInjective(Owners(timer_list'))
      /\ \A p \in waiting_list' : status'[p] = Waiting
      /\ running' \in waiting_list' => running' \in Range(Owners(timer_list'))
      /\ \A p \in Proc : status'[p] = Waiting
                           <=> st[p] = Waiting /\ p \notin waiting_list \ waiting_list'
      /\ \A p \in Proc : IF st[p] \in ProcessStatus THEN status'[p] \in ProcessStatus
                                                     ELSE status'[p] = st[p]
  BY <1>1, <1>4, ScheduleAny
<1>9. UNCHANGED << waiting_list, timer_list >>
  BY <1>1, <1>3, ScheduleTakesNone
<1>10. ListsHold'
  BY <1>3, <1>7, <1>8, <1>9 DEF ListsHold, Sorted, NoOverdueTimer
<1>11. Kept
  BY <1>2, <1>3, <1>6, <1>8, <1>9 DEF Kept, ProcessStatus, Running, Waiting
<1>12. Placed(status', waiting_list', InQueues \cup {running})
  BY <1>5, <1>8, <1>9 DEF Placed
<1>13. user_buffer' \in [Proc -> Proc \cup {NoData}]
  BY <1>1, BufferReadTyped
<1> QED BY <1>2, <1>10, <1>11, <1>12, <1>13

\* A caller that blocks in mq_send.
LEMMA SendBlocksInv ==
  ASSUME CallInv, NEW q \in QueueId \cup {0}, NEW size \in Int, SendBlocks(q, size)
  PROVE  CallInv'
<1>1. q \in resources_list /\ size \in 1 .. MESSAGE_MAX_SIZE
  BY DEF SendBlocks, SendLegal
<1>2. CASE LinkTwice
  BY <1>2, LinkTwiceInv
<1>3. CASE CannotBlock(DSOS_EMQFULL)
  BY <1>3, AnswerInv DEF CannotBlock, DSOS_EMQFULL
<1>4. CASE /\ Block
           /\ waiting_senders' = [waiting_senders EXCEPT
                                    ![q] = WaitsLast(@, Entry(running, size))]
           /\ UNCHANGED << resources_list, max_messages, current_messages, messages,
                           waiting_receivers, free_messages, list_broken >>
  <2> DEFINE e == Entry(running, size)
             T == 1 .. MESSAGE_MAX_SIZE
             R == waiting_receivers
             S == waiting_senders
  <2>1. /\ ListsHold'
        /\ Placed(status', waiting_list', InQueues \cup {running})
        /\ running \in Proc \ InQueues
        /\ user_buffer' \in [Proc -> Proc \cup {NoData}]
    BY <1>4, BlockSchedules
  <2>2. e \in Entries(T) /\ e.pcb = running
    BY <1>1, <2>1 DEF Entries, Entry
  <2>3. S \in Lists(T) /\ q \in QueueId
        /\ Apart(R, S) /\ InQueues = AllOn(R, S)
    BY <1>1 DEF CallInv, QueueInv, QueueTypes, ListInv, InQueues
  <2> HIDE DEF e, T
  <2>4. Apart(S, R) /\ e.pcb \notin AllOn(S, R) /\ AllOn(S, R) = AllOn(R, S)
        /\ \A x \in QueueId : On(S, R, x) = On(R, S, x)
    BY <2>1, <2>2, <2>3, ApartSymmetric
  <2>5. S' = [S EXCEPT ![q] = WaitsLast(@, e)] /\ R' = R
    BY <1>4 DEF e
  <2>6. Joins(T, S, R, S', q, running)
    BY <2>2, <2>3, <2>4, <2>5, Enlisted, Zenon
  <2>7. Apart(R', S') /\ AllOn(R', S') = InQueues \cup {running}
        /\ \A x \in QueueId \ {q} : On(R', S', x) = On(R, S, x)
    <3>1. /\ Apart(S', R) /\ AllOn(S', R) = AllOn(S, R) \cup {running}
          /\ \A x \in QueueId \ {q} : On(S', R, x) = On(S, R, x)
      BY <2>6 DEF Joins
    <3>2. /\ Apart(R, S') /\ AllOn(R, S') = AllOn(S', R)
          /\ \A x \in QueueId : On(R, S', x) = On(S', R, x)
      BY <3>1, ApartSymmetric, Zenon
    <3> QED BY <2>3, <2>4, <2>5, <3>1, <3>2
  <2> HIDE DEF R, S
  <2>8. ListInv'
    BY <2>1, <2>7 DEF ListInv, InQueues, R, S
  <2>9. QueueTypes'
    BY <1>4, <2>6 DEF CallInv, QueueInv, QueueTypes, Joins, S, T
  <2>10. CountsMatch'
    BY <1>1, <1>4, <2>7 DEF CallInv, QueueInv, CountsMatch, BlockedOn, On, R, S
  <2>11. ReceiversWaitOnEmpty'
    BY <1>4 DEF CallInv, QueueInv, ReceiversWaitOnEmpty, IsEmpty
  <2>12. LocalTypes'
    BY <1>4, <2>1 DEF CallInv, LocalTypes
  <2> QED BY <2>1, <2>8, <2>9, <2>10, <2>11, <2>12 DEF CallInv, QueueInv
<1> QED BY <1>2, <1>3, <1>4 DEF SendBlocks

\* A caller that blocks in mq_receive.
LEMMA ReceiveBlocksInv ==
  ASSUME CallInv, NEW q \in QueueId \cup {0}, NEW size \in Int, ReceiveBlocks(q, size)
  PROVE  CallInv'
<1>1. q \in resources_list /\ size \in Nat \ {0} /\ IsEmpty(q)
  BY DEF ReceiveBlocks, ReceiveLegal
<1>2. CASE LinkTwice
  BY <1>2, LinkTwiceInv
<1>3. CASE CannotBlock(DSOS_EMQEMPTY)
  BY <1>3, AnswerInv DEF CannotBlock, DSOS_EMQEMPTY
<1>4. CASE /\ Block
           /\ waiting_receivers' = [waiting_receivers EXCEPT
                                      ![q] = WaitsLast(@, Entry(running, size))]
           /\ UNCHANGED << resources_list, max_messages, current_messages, messages,
                           waiting_senders, free_messages, list_broken >>
  <2> DEFINE e == Entry(running, size)
             T == Nat \ {0}
             R == waiting_receivers
             S == waiting_senders
  <2>1. /\ ListsHold'
        /\ Placed(status', waiting_list', InQueues \cup {running})
        /\ running \in Proc \ InQueues
        /\ user_buffer' \in [Proc -> Proc \cup {NoData}]
    BY <1>4, BlockSchedules
  <2>2. e \in Entries(T) /\ e.pcb = running
    BY <1>1, <2>1 DEF Entries, Entry
  <2>3. R \in Lists(T) /\ q \in QueueId
        /\ Apart(R, S) /\ InQueues = AllOn(R, S)
    BY <1>1 DEF CallInv, QueueInv, QueueTypes, ListInv, InQueues
  <2> HIDE DEF e, T
  <2>4. R' = [R EXCEPT ![q] = WaitsLast(@, e)] /\ S' = S
    BY <1>4 DEF e
  <2>5. e.pcb \notin AllOn(R, S)
    BY <2>1, <2>2, <2>3
  <2>6. Joins(T, R, S, R', q, running)
    BY <2>2, <2>3, <2>4, <2>5, Enlisted, Zenon
  <2>7. /\ R' \in Lists(T) /\ Apart(R', S') /\ AllOn(R', S') = InQueues \cup {running}
        /\ \A x \in QueueId \ {q} : On(R', S', x) = On(R, S, x) /\ R'[x] = R[x]
    BY <2>3, <2>4, <2>6 DEF Joins, Lists
  <2> HIDE DEF R, S
  <2>8. ListInv'
    BY <2>1, <2>7 DEF ListInv, InQueues, R, S
  <2>9. QueueTypes'
    BY <1>4, <2>7 DEF CallInv, QueueInv, QueueTypes, R, T
  <2>10. CountsMatch'
    BY <1>1, <1>4, <2>7 DEF CallInv, QueueInv, CountsMatch, BlockedOn, On, R, S
  <2>11. ReceiversWaitOnEmpty'
    BY <1>1, <1>4, <2>7 DEF CallInv, QueueInv, ReceiversWaitOnEmpty, IsEmpty, R
  <2>12. LocalTypes'
    BY <1>4, <2>1 DEF CallInv, LocalTypes
  <2> QED BY <2>1, <2>8, <2>9, <2>10, <2>11, <2>12 DEF CallInv, QueueInv
<1> QED BY <1>2, <1>3, <1>4 DEF ReceiveBlocks

-----------------------------------------------------------------------------
\* A call that returns v and leaves every list of processes as it is keeps
\* the scheduler's invariant and the lists.
LEMMA ReturnKeepsLists ==
  ASSUME CallInv, NEW v \in Int, Return(v), UNCHANGED ProcVars,
         UNCHANGED << waiting_receivers, waiting_senders >>
  PROVE  ListsHold' /\ ListInv'
<1>1. syscall_retvalue' \in [Proc -> Int]
  BY ReturnsNumber DEF CallInv
<1>2. ListsHold' /\ status' = status /\ waiting_list' = waiting_list
  BY <1>1, SameLists DEF CallInv
<1>3. ListInv'
  BY <1>2 DEF CallInv, ListInv, Placed, Apart, On, InQueues, AllOn
<1> QED BY <1>2, <1>3

\* The list of a queue after its first message has been taken.
LEMMA FirstMessage ==
  ASSUME CallInv, NEW q \in resources_list, ~IsEmpty(q)
  PROVE  /\ q \in QueueId
         /\ messages[q] \in Seq(MessageRecord)
         /\ Head(messages[q]) \in MessageRecord
         /\ Tail(messages[q]) \in Seq(MessageRecord)
         /\ Len(Tail(messages[q])) = Len(messages[q]) - 1
         /\ Len(messages[q]) \in Nat \ {0}
         /\ current_messages[q] = Len(messages[q])
<1>1. q \in QueueId /\ messages[q] \in Seq(MessageRecord) /\ messages[q] # << >>
      /\ current_messages[q] = Len(messages[q])
  BY DEF CallInv, QueueInv, QueueTypes, CountsMatch, IsEmpty
<1>2. Len(messages[q]) \in Nat \ {0}
  BY <1>1, EmptySeq, LenProperties
<1> QED BY <1>1, <1>2, HeadTailProperties

\* mq_send puts a message into the queue.
LEMMA SendEnqueuesInv ==
  ASSUME CallInv, NEW q \in QueueId \cup {0}, NEW size \in Int, SendEnqueues(q, size)
  PROVE  CallInv'
<1> DEFINE msg == Message_alloc(size, running)
<1>1. /\ q \in resources_list /\ size \in 1 .. MESSAGE_MAX_SIZE
      /\ current_messages[q] < max_messages[q]
      /\ free_messages > 0 /\ waiting_receivers[q] = << >>
      /\ messages' = [messages EXCEPT ![q] = Append(@, msg)]
      /\ current_messages' = [current_messages EXCEPT ![q] = @ + 1]
      /\ free_messages' = free_messages - 1
      /\ Return(0) /\ BufferRead
      /\ UNCHANGED << ProcVars, resources_list, max_messages, waiting_receivers,
                      waiting_senders, list_broken >>
  <2>1. current_messages[q] \in Nat /\ max_messages[q] \in Nat
    BY DEF SendEnqueues, SendLegal, CallInv, QueueInv, QueueTypes
  <2> QED BY <2>1 DEF SendEnqueues, SendLegal, IsFull, ReceiverWaits
<1>2. ListsHold' /\ ListInv'
  BY <1>1, ReturnKeepsLists
<1>3. q \in QueueId /\ messages[q] \in Seq(MessageRecord) /\ running \in Proc
      /\ current_messages[q] = Len(messages[q])
  BY <1>1 DEF CallInv, QueueInv, QueueTypes, CountsMatch, ListsHold
<1>4. msg \in MessageRecord
  BY <1>1, <1>3 DEF Message_alloc, Message, MessageRecord
<1> HIDE DEF msg
<1>5. /\ Append(messages[q], msg) \in Seq(MessageRecord)
      /\ Len(Append(messages[q], msg)) = Len(messages[q]) + 1
  BY <1>3, <1>4, AppendProperties
<1>6. QueueTypes'
  BY <1>1, <1>3, <1>5 DEF CallInv, QueueInv, QueueTypes
<1>7. CountsMatch'
  <2> SUFFICES ASSUME NEW x \in QueueId
               PROVE  /\ current_messages'[x] = Len(messages'[x])
                      /\ current_messages'[x] <= max_messages'[x]
                      /\ x \in resources_list' <=> max_messages'[x] > 0
                      /\ x \notin resources_list' => BlockedOn(x)' = {}
    BY DEF CountsMatch
  <2>1. /\ x \in resources_list' <=> max_messages'[x] > 0
        /\ x \notin resources_list' => BlockedOn(x)' = {}
    BY <1>1 DEF CallInv, QueueInv, CountsMatch, BlockedOn
  <2>2. CASE x = q
    BY <1>1, <1>3, <1>5, <2>1, <2>2 DEF CallInv, QueueInv, QueueTypes
  <2>3. CASE x # q
    BY <1>1, <2>1, <2>3 DEF CallInv, QueueInv, QueueTypes, CountsMatch
  <2> QED BY <2>2, <2>3
<1>8. ReceiversWaitOnEmpty'
  BY <1>1 DEF CallInv, QueueInv, QueueTypes, ReceiversWaitOnEmpty, IsEmpty
<1>9. LocalTypes'
  BY <1>1, BufferReadTyped DEF CallInv, LocalTypes
<1> QED BY <1>2, <1>6, <1>7, <1>8, <1>9 DEF CallInv, QueueInv

\* A message leaves the queue and its block is freed; nobody is woken.
LEMMA TakenInv ==
  ASSUME CallInv, NEW q \in resources_list, ~IsEmpty(q), NEW v \in Int,
         MessageTaken(q), Message_free, Return(v),
         user_buffer' \in [Proc -> Proc \cup {NoData}],
         UNCHANGED << ProcVars, resources_list, max_messages, waiting_receivers,
                      waiting_senders, list_broken >>
  PROVE  CallInv'
<1>1. /\ messages' = [messages EXCEPT ![q] = Tail(@)]
      /\ current_messages' = [current_messages EXCEPT ![q] = @ - 1]
      /\ free_messages' = free_messages + 1
  BY DEF MessageTaken, Message_free
<1>2. ListsHold' /\ ListInv'
  BY ReturnKeepsLists
<1>3. /\ q \in QueueId
      /\ Tail(messages[q]) \in Seq(MessageRecord)
      /\ Len(Tail(messages[q])) = Len(messages[q]) - 1
      /\ Len(messages[q]) \in Nat \ {0}
      /\ current_messages[q] = Len(messages[q])
  BY FirstMessage
<1>4. QueueTypes'
  BY <1>1, <1>3 DEF CallInv, QueueInv, QueueTypes
<1>5. CountsMatch'
  <2> SUFFICES ASSUME NEW x \in QueueId
               PROVE  /\ current_messages'[x] = Len(messages'[x])
                      /\ current_messages'[x] <= max_messages'[x]
                      /\ x \in resources_list' <=> max_messages'[x] > 0
                      /\ x \notin resources_list' => BlockedOn(x)' = {}
    BY DEF CountsMatch
  <2>1. /\ x \in resources_list' <=> max_messages'[x] > 0
        /\ x \notin resources_list' => BlockedOn(x)' = {}
    BY DEF CallInv, QueueInv, CountsMatch, BlockedOn
  <2>2. CASE x = q
    <3>1. current_messages[q] <= max_messages[q] /\ max_messages[q] \in Int
      BY <1>3 DEF CallInv, QueueInv, QueueTypes, CountsMatch
    <3> QED BY <1>1, <1>3, <2>1, <2>2, <3>1 DEF CallInv, QueueInv, QueueTypes
  <2>3. CASE x # q
    BY <1>1, <2>1, <2>3 DEF CallInv, QueueInv, QueueTypes, CountsMatch
  <2> QED BY <2>2, <2>3
<1>6. ReceiversWaitOnEmpty'
  BY <1>1 DEF CallInv, QueueInv, QueueTypes, ReceiversWaitOnEmpty, IsEmpty
<1>7. LocalTypes'
  BY DEF CallInv, LocalTypes
<1> QED BY <1>2, <1>4, <1>5, <1>6, <1>7 DEF CallInv, QueueInv

\* mq_receive discards a message that its buffer cannot hold.
LEMMA ReceiveDiscardsInv ==
  ASSUME CallInv, NEW q \in QueueId \cup {0}, NEW size \in Int, ReceiveDiscards(q, size)
  PROVE  CallInv'
<1>1. user_buffer' \in [Proc -> Proc \cup {NoData}]
  BY BufferReadTyped DEF ReceiveDiscards
<1> QED
  BY <1>1, TakenInv DEF ReceiveDiscards, ReceiveLegal, DSOS_EBUFFER

\* What is delivered to a buffer is the text of a message.
LEMMA DeliveredTyped ==
  ASSUME CallInv, NEW msg \in MessageRecord, Delivered(msg)
  PROVE  user_buffer' \in [Proc -> Proc \cup {NoData}]
BY DEF CallInv, LocalTypes, Delivered, MessageRecord

\* mq_receive takes a message and nobody waits to send.
LEMMA ReceiveTakesInv ==
  ASSUME CallInv, NEW q \in QueueId \cup {0}, NEW size \in Int, ReceiveTakes(q, size)
  PROVE  CallInv'
<1> DEFINE msg == Head(messages[q])
<1>1. /\ q \in resources_list /\ ~IsEmpty(q)
      /\ Delivered(msg) /\ Return(msg.size)
      /\ MessageTaken(q) /\ Message_free
      /\ UNCHANGED << ProcVars, resources_list, max_messages, waiting_receivers,
                      waiting_senders, list_broken >>
  BY DEF ReceiveTakes, ReceiveLegal
<1>2. msg \in MessageRecord
  BY <1>1, FirstMessage
<1>3. msg.size \in Int
  BY <1>2 DEF MessageRecord
<1> HIDE DEF msg
<1>4. user_buffer' \in [Proc -> Proc \cup {NoData}]
  BY <1>1, <1>2, DeliveredTyped
<1> QED BY <1>1, <1>3, <1>4, TakenInv

-----------------------------------------------------------------------------
\* A peer that waits in a queue becomes ready, with a result.
LEMMA WakeOne ==
  ASSUME CallInv, NEW p \in InQueues, MakeReady(<< p >>),
         NEW own \in Int, NEW v \in Int, Completes(own, p, v)
  PROVE  /\ ListsHold'
         /\ Placed(status', waiting_list', InQueues \ {p})
<1>1. ListsHold /\ Placed(status, waiting_list, InQueues) /\ p \in Proc
  BY DEF CallInv, ListInv, Placed
<1>2. << p >> \in Seq(Proc) /\ IsInjective(<< p >>) /\ Range(<< p >>) = {p}
  BY <1>1, Singleton
<1>3. syscall_retvalue' \in [Proc -> Int]
  BY DEF Completes, CallInv, ListsHold
<1> DEFINE ps == << p >>
           B  == InQueues
<1>4. Range(ps) \subseteq B /\ MakeReady(ps) /\ ps \in Seq(Proc) /\ IsInjective(ps)
      /\ Placed(status, waiting_list, B)
  BY <1>1, <1>2
<1> HIDE DEF ps, B
<1>5. ListsHold' /\ Placed(status', waiting_list', B \ Range(ps))
  BY <1>1, <1>3, <1>4, MakeReadyInv
<1> QED BY <1>2, <1>5 DEF ps, B

\* mq_send hands the oldest message to a waiting receiver.
LEMMA SendHandsOverInv ==
  ASSUME CallInv, NEW q \in QueueId \cup {0}, NEW size \in Int, SendHandsOver(q, size)
  PROVE  CallInv'
<1> DEFINE new      == Message_alloc(size, running)
           queued   == Append(messages[q], new)
           msg      == Head(queued)
           receiver == Head(waiting_receivers[q])
           fits     == msg.size <= receiver.size
           p        == receiver.pcb
           T        == Nat \ {0}
           R        == waiting_receivers
           S        == waiting_senders
<1>1. /\ q \in resources_list /\ size \in 1 .. MESSAGE_MAX_SIZE
      /\ R[q] # << >>
      /\ messages' = [messages EXCEPT ![q] = Tail(queued)]
      /\ R' = [R EXCEPT ![q] = Tail(@)]
      /\ S' = S
      /\ MakeReady(<< p >>)
      /\ Completes(0, p, IF fits THEN msg.size ELSE DSOS_EBUFFER)
      /\ user_buffer' = [user_buffer EXCEPT ![running] = NoData,
                                            ![p] = IF fits THEN msg.data ELSE @]
      /\ UNCHANGED << resources_list, max_messages, current_messages,
                      free_messages, list_broken >>
  BY DEF SendHandsOver, SendLegal, ReceiverWaits
<1>2. /\ q \in QueueId /\ R \in Lists(T) /\ Apart(R, S) /\ running \in Proc
      /\ messages \in [QueueId -> Seq(MessageRecord)]
      /\ InQueues = AllOn(R, S)
  BY <1>1 DEF CallInv, QueueInv, QueueTypes, ListInv, ListsHold, InQueues
<1>3. new \in MessageRecord
  BY <1>1, <1>2 DEF Message_alloc, Message, MessageRecord
<1>4. messages[q] = << >>
  BY <1>1, <1>2 DEF CallInv, QueueInv, ReceiversWaitOnEmpty, IsEmpty
<1> HIDE DEF new
<1>5. queued = << new >> /\ msg = new /\ Tail(queued) = << >>
  <2>1. queued = << new >>
    BY <1>4
  <2> QED BY <2>1
<1>6. messages' = messages
  BY <1>1, <1>2, <1>4, <1>5
<1>7. Leaves(T, R, S, R', q, p)
  <2> HIDE DEF T
  <2> QED BY <1>1, <1>2, Delisted, Zenon
<1>8. p \in InQueues /\ p \in Proc
  BY <1>2, <1>7 DEF Leaves
<1> DEFINE v == IF fits THEN msg.size ELSE DSOS_EBUFFER
<1>9. v \in Int /\ msg.data \in Proc
  BY <1>3, <1>5 DEF MessageRecord, DSOS_EBUFFER
<1>10. user_buffer' \in [Proc -> Proc \cup {NoData}]
  BY <1>1, <1>9 DEF CallInv, LocalTypes
<1> HIDE DEF v, fits, msg, queued, p, receiver
<1>11. MakeReady(<< p >>) /\ Completes(0, p, v)
  BY <1>1 DEF v
<1>12. ListsHold' /\ Placed(status', waiting_list', InQueues \ {p})
  <2>1. 0 \in Int
    OBVIOUS
  <2> QED BY <1>8, <1>9, <1>11, <2>1, WakeOne, Zenon
<1>13. /\ R' \in Lists(T) /\ Apart(R', S') /\ AllOn(R', S') = InQueues \ {p}
       /\ \A x \in QueueId \ {q} : On(R', S', x) = On(R, S, x) /\ R'[x] = R[x]
  BY <1>1, <1>2, <1>7 DEF Leaves, Lists
<1> HIDE DEF R, S
<1>14. ListInv'
  BY <1>12, <1>13 DEF ListInv, InQueues, R, S
<1>15. QueueTypes'
  BY <1>1, <1>6, <1>13 DEF CallInv, QueueInv, QueueTypes, R, S, T
<1>16. CountsMatch'
  BY <1>1, <1>6, <1>13 DEF CallInv, QueueInv, CountsMatch, BlockedOn, On, R, S
<1>17. ReceiversWaitOnEmpty'
  BY <1>1, <1>4, <1>6, <1>13 DEF CallInv, QueueInv, ReceiversWaitOnEmpty, IsEmpty, R
<1>18. LocalTypes'
  BY <1>1, <1>10 DEF CallInv, LocalTypes
<1> QED BY <1>12, <1>14, <1>15, <1>16, <1>17, <1>18 DEF CallInv, QueueInv

\* mq_receive takes a message and completes the call of a waiting sender.
LEMMA ReceiveRefillsInv ==
  ASSUME CallInv, NEW q \in QueueId \cup {0}, NEW size \in Int, ReceiveRefills(q, size)
  PROVE  CallInv'
<1> DEFINE msg    == Head(messages[q])
           sender == Head(waiting_senders[q])
           new    == Message_alloc(sender.size, sender.pcb)
           p      == sender.pcb
           T      == 1 .. MESSAGE_MAX_SIZE
           R      == waiting_receivers
           S      == waiting_senders
<1>1. /\ q \in resources_list /\ ~IsEmpty(q)
      /\ S[q] # << >>
      /\ Delivered(msg)
      /\ Completes(msg.size, p, 0)
      /\ messages' = [messages EXCEPT ![q] = Append(Tail(@), new)]
      /\ S' = [S EXCEPT ![q] = Tail(@)]
      /\ R' = R
      /\ MakeReady(<< p >>)
      /\ UNCHANGED << resources_list, max_messages, current_messages,
                      free_messages, list_broken >>
  BY DEF ReceiveRefills, ReceiveLegal, SenderWaits
<1>2. /\ q \in QueueId /\ S \in Lists(T) /\ Apart(R, S) /\ running \in Proc
      /\ messages \in [QueueId -> Seq(MessageRecord)]
      /\ InQueues = AllOn(R, S)
  BY <1>1 DEF CallInv, QueueInv, QueueTypes, ListInv, ListsHold, InQueues
<1>3. /\ msg \in MessageRecord
      /\ Tail(messages[q]) \in Seq(MessageRecord)
      /\ Len(Tail(messages[q])) = Len(messages[q]) - 1
      /\ Len(messages[q]) \in Nat \ {0}
  BY <1>1, FirstMessage
<1>4. sender \in Entries(T)
  BY <1>1, <1>2, PcbsTail DEF Lists
<1>5. new \in MessageRecord
  BY <1>2, <1>4 DEF Message_alloc, Message, MessageRecord, Entries
<1>6. msg.size \in Int
  BY <1>3 DEF MessageRecord
<1>7. user_buffer' \in [Proc -> Proc \cup {NoData}]
  <2> HIDE DEF msg
  <2> QED BY <1>1, <1>3, DeliveredTyped
<1> HIDE DEF new, msg
<1>8. /\ Append(Tail(messages[q]), new) \in Seq(MessageRecord)
      /\ Len(Append(Tail(messages[q]), new)) = Len(messages[q])
  BY <1>3, <1>5, AppendProperties
<1>9. /\ Apart(S, R) /\ AllOn(S, R) = AllOn(R, S)
      /\ \A x \in QueueId : On(S, R, x) = On(R, S, x)
  BY <1>2, ApartSymmetric, Zenon
<1>10. Leaves(T, S, R, S', q, p)
  <2> HIDE DEF T
  <2> QED BY <1>1, <1>2, <1>9, Delisted, Zenon
<1>11. p \in InQueues
  BY <1>2, <1>9, <1>10 DEF Leaves
<1> HIDE DEF p, sender
<1>12. ListsHold' /\ Placed(status', waiting_list', InQueues \ {p})
  <2>1. 0 \in Int /\ MakeReady(<< p >>) /\ Completes(msg.size, p, 0)
    BY <1>1
  <2> QED BY <1>6, <1>11, <2>1, WakeOne, Zenon
<1>13. /\ S' \in Lists(T) /\ Apart(R', S') /\ AllOn(R', S') = InQueues \ {p}
       /\ \A x \in QueueId \ {q} : On(R', S', x) = On(R, S, x)
  <2>1. /\ Apart(S', R) /\ AllOn(S', R) = AllOn(S, R) \ {p} /\ S' \in Lists(T)
        /\ \A x \in QueueId \ {q} : On(S', R, x) = On(S, R, x)
    BY <1>10 DEF Leaves
  <2>2. /\ Apart(R, S') /\ AllOn(R, S') = AllOn(S', R)
        /\ \A x \in QueueId : On(R, S', x) = On(S', R, x)
    BY <2>1, ApartSymmetric, Zenon
  <2> QED BY <1>1, <1>2, <1>9, <2>1, <2>2
<1> HIDE DEF R, S
<1>14. ListInv'
  BY <1>12, <1>13 DEF ListInv, InQueues, R, S
<1>15. QueueTypes'
  BY <1>1, <1>2, <1>8, <1>13 DEF CallInv, QueueInv, QueueTypes, R, S, T
<1>16. CountsMatch'
  <2>1. \A x \in QueueId : Len(messages'[x]) = Len(messages[x])
    BY <1>1, <1>2, <1>8
  <2> QED BY <1>1, <1>13, <2>1 DEF CallInv, QueueInv, CountsMatch, BlockedOn, On, R, S
<1>17. ReceiversWaitOnEmpty'
  BY <1>1, <1>2 DEF CallInv, QueueInv, ReceiversWaitOnEmpty, IsEmpty, R
<1>18. LocalTypes'
  BY <1>1, <1>7 DEF CallInv, LocalTypes
<1> QED BY <1>12, <1>14, <1>15, <1>16, <1>17, <1>18 DEF CallInv, QueueInv

-----------------------------------------------------------------------------
\* mq_create adds an empty queue.
LEMMA CreateAddsInv ==
  ASSUME CallInv, NEW q \in QueueId \cup {0}, NEW size \in Int, CreateAdds(q, size)
  PROVE  CallInv'
<1>1. /\ q \in QueueId /\ q \notin resources_list /\ size \in 1 .. MAX_MESSAGES_PER_QUEUE
      /\ resources_list' = resources_list \cup {q}
      /\ max_messages' = [max_messages EXCEPT ![q] = size]
      /\ Return(q) /\ BufferRead
      /\ UNCHANGED << ProcVars, current_messages, messages, waiting_receivers,
                      waiting_senders, free_messages, list_broken >>
  BY DEF CreateAdds, CreateLegal
<1>2. q \in Int
  BY <1>1, MessageQueueAssumption
<1>3. ListsHold' /\ ListInv'
  BY <1>1, <1>2, ReturnKeepsLists
<1>4. QueueTypes'
  BY <1>1, MessageQueueAssumption DEF CallInv, QueueInv, QueueTypes
<1>5. CountsMatch'
  <2> SUFFICES ASSUME NEW x \in QueueId
               PROVE  /\ current_messages'[x] = Len(messages'[x])
                      /\ current_messages'[x] <= max_messages'[x]
                      /\ x \in resources_list' <=> max_messages'[x] > 0
                      /\ x \notin resources_list' => BlockedOn(x)' = {}
    BY DEF CountsMatch
  <2>1. /\ current_messages[x] = Len(messages[x])
        /\ current_messages[x] <= max_messages[x]
        /\ x \in resources_list <=> max_messages[x] > 0
        /\ x \notin resources_list => BlockedOn(x) = {}
        /\ current_messages[x] \in Nat /\ max_messages[x] \in Nat
    BY MessageQueueAssumption DEF CallInv, QueueInv, QueueTypes, CountsMatch
  <2>2. BlockedOn(x)' = BlockedOn(x)
    BY <1>1 DEF BlockedOn
  <2>3. CASE x = q
    BY <1>1, <2>1, <2>2, <2>3, MessageQueueAssumption DEF CallInv, QueueInv, QueueTypes
  <2>4. CASE x # q
    BY <1>1, <2>1, <2>2, <2>4 DEF CallInv, QueueInv, QueueTypes
  <2> QED BY <2>3, <2>4
<1>6. ReceiversWaitOnEmpty'
  BY <1>1 DEF CallInv, QueueInv, ReceiversWaitOnEmpty, IsEmpty
<1>7. LocalTypes'
  BY <1>1, BufferReadTyped DEF CallInv, LocalTypes
<1> QED BY <1>3, <1>4, <1>5, <1>6, <1>7 DEF CallInv, QueueInv

\* mq_destroy wakes everybody who waits at the queue.
LEMMA DestroyRemovesInv ==
  ASSUME CallInv, NEW q \in QueueId \cup {0}, DestroyRemoves(q)
  PROVE  CallInv'
<1> DEFINE R == waiting_receivers
           S == waiting_senders
           T == Nat \ {0}
           U == 1 .. MESSAGE_MAX_SIZE
           woken == Pcbs(R[q]) \o Pcbs(S[q])
<1>1. /\ q \in resources_list /\ MakeReady(woken)
      /\ syscall_retvalue' = [p \in Proc |->
           IF p = running THEN q
           ELSE IF p \in Range(woken) THEN DSOS_EMQNOTOPEN
           ELSE syscall_retvalue[p]]
      /\ R' = [R EXCEPT ![q] = << >>]
      /\ S' = [S EXCEPT ![q] = << >>]
      /\ free_messages' = free_messages + Len(messages[q])
      /\ messages' = [messages EXCEPT ![q] = << >>]
      /\ current_messages' = [current_messages EXCEPT ![q] = 0]
      /\ max_messages' = [max_messages EXCEPT ![q] = 0]
      /\ resources_list' = resources_list \ {q}
      /\ BufferRead /\ UNCHANGED list_broken
  BY DEF DestroyRemoves
<1>2. /\ q \in QueueId /\ R \in Lists(T) /\ S \in Lists(U) /\ Apart(R, S)
      /\ Placed(status, waiting_list, InQueues) /\ InQueues = AllOn(R, S)
      /\ ListsHold /\ resources_list \subseteq QueueId
      /\ max_messages \in [QueueId -> 0 .. MAX_MESSAGES_PER_QUEUE]
      /\ current_messages \in [QueueId -> Nat]
      /\ messages \in [QueueId -> Seq(MessageRecord)]
      /\ free_messages \in Nat
  BY <1>1 DEF CallInv, QueueInv, QueueTypes, ListInv, InQueues
<1>3. q \in Int /\ MAX_MESSAGES_PER_QUEUE \in Nat /\ DSOS_EMQNOTOPEN \in Int
  BY <1>2, MessageQueueAssumption DEF DSOS_EMQNOTOPEN
<1> HIDE DEF T, U
<1>4. AllLeave(T, R, R', U, S, S', q, woken)
  BY <1>1, <1>2, Cleared, Zenon
<1> HIDE DEF woken
<1>5. syscall_retvalue' \in [Proc -> Int]
  BY <1>1, <1>2, <1>3 DEF ListsHold
<1>6. woken \in Seq(Proc) /\ IsInjective(woken) /\ Range(woken) \subseteq InQueues
  BY <1>2, <1>4 DEF AllLeave
<1>7. ListsHold' /\ Placed(status', waiting_list', InQueues \ Range(woken))
  BY <1>1, <1>2, <1>5, <1>6, MakeReadyInv
<1>8. /\ R' \in Lists(T) /\ S' \in Lists(U) /\ Apart(R', S')
      /\ AllOn(R', S') = InQueues \ Range(woken)
      /\ On(R', S', q) = {}
      /\ \A x \in QueueId \ {q} : On(R', S', x) = On(R, S, x)
  BY <1>2, <1>4 DEF AllLeave
<1>9. R'[q] = << >> /\ \A x \in QueueId \ {q} : R'[x] = R[x]
  BY <1>1, <1>2 DEF Lists
<1> HIDE DEF R, S
<1>10. ListInv'
  BY <1>7, <1>8 DEF ListInv, InQueues, R, S
<1>11. QueueTypes'
  <2>1. Len(messages[q]) \in Nat /\ << >> \in Seq(MessageRecord)
    BY <1>2, LenProperties, EmptySeq
  <2> QED BY <1>1, <1>2, <1>3, <1>8, <2>1 DEF QueueTypes, R, S, T, U
<1>12. CountsMatch'
  <2> SUFFICES ASSUME NEW x \in QueueId
               PROVE  /\ current_messages'[x] = Len(messages'[x])
                      /\ current_messages'[x] <= max_messages'[x]
                      /\ x \in resources_list' <=> max_messages'[x] > 0
                      /\ x \notin resources_list' => BlockedOn(x)' = {}
    BY DEF CountsMatch
  <2>1. BlockedOn(x) = On(R, S, x) /\ BlockedOn(x)' = On(R', S', x)
    BY DEF BlockedOn, On, R, S
  <2>2. CASE x = q
    <3>1. current_messages'[x] = 0 /\ max_messages'[x] = 0 /\ messages'[x] = << >>
      BY <1>1, <1>2, <2>2
    <3>2. Len(<< >>) = 0
      BY EmptySeq
    <3>3. x \notin resources_list' /\ BlockedOn(x)' = {}
      BY <1>1, <1>8, <2>1, <2>2
    <3> QED BY <3>1, <3>2, <3>3
  <2>3. CASE x # q
    <3>1. /\ current_messages'[x] = current_messages[x] /\ max_messages'[x] = max_messages[x]
          /\ messages'[x] = messages[x] /\ BlockedOn(x)' = BlockedOn(x)
          /\ x \in resources_list' <=> x \in resources_list
      BY <1>1, <1>2, <1>8, <2>1, <2>3
    <3> QED BY <3>1 DEF CallInv, QueueInv, CountsMatch
  <2> QED BY <2>2, <2>3
<1>13. ReceiversWaitOnEmpty'
  <2> SUFFICES ASSUME NEW x \in QueueId, waiting_receivers'[x] # << >>
               PROVE  messages'[x] = << >>
    BY DEF ReceiversWaitOnEmpty, IsEmpty
  <2>1. x # q
    BY <1>9 DEF R
  <2> QED BY <1>1, <1>2, <1>9, <2>1 DEF CallInv, QueueInv, ReceiversWaitOnEmpty, IsEmpty, R
<1>14. LocalTypes'
  BY <1>1, BufferReadTyped DEF CallInv, LocalTypes
<1> QED BY <1>7, <1>10, <1>11, <1>12, <1>13, <1>14 DEF CallInv, QueueInv

-----------------------------------------------------------------------------
\* After boot nobody sleeps and no queue exists.
LEMMA QueuesStart ==
  ASSUME QueuesInit
  PROVE  /\ QueueInv /\ LocalTypes
         /\ Apart(waiting_receivers, waiting_senders) /\ InQueues = {}
<1>1. /\ resources_list = {}
      /\ max_messages = [q \in QueueId |-> 0]
      /\ current_messages = [q \in QueueId |-> 0]
      /\ messages = [q \in QueueId |-> << >>]
      /\ waiting_receivers = [q \in QueueId |-> << >>]
      /\ waiting_senders = [q \in QueueId |-> << >>]
      /\ free_messages = DSOS_MAX_MESSAGES
      /\ user_buffer = [p \in Proc |-> NoData]
      /\ list_broken = FALSE
  BY DEF QueuesInit
<1>2. \A T : << >> \in Seq(T)
  OBVIOUS
<1>3. QueueTypes
  BY <1>1, <1>2, MessageQueueAssumption DEF QueueTypes, Lists
<1>4. \A q \in QueueId : /\ Range(Pcbs(waiting_receivers[q])) = {}
                         /\ Range(Pcbs(waiting_senders[q])) = {}
                         /\ IsInjective(Pcbs(waiting_receivers[q]))
                         /\ IsInjective(Pcbs(waiting_senders[q]))
  <2>1. DOMAIN Pcbs(<< >>) = {}
    BY DEF Pcbs
  <2> QED BY <1>1, <2>1 DEF Range, IsInjective
<1>5. CountsMatch
  <2>1. Len(<< >>) = 0
    BY EmptySeq
  <2> QED BY <1>1, <1>4, <2>1 DEF CountsMatch, BlockedOn
<1>6. ReceiversWaitOnEmpty
  BY <1>1 DEF ReceiversWaitOnEmpty
<1>7. LocalTypes
  BY <1>1 DEF LocalTypes
<1>8. Apart(waiting_receivers, waiting_senders) /\ InQueues = {}
  BY <1>4 DEF Apart, On, InQueues, AllOn
<1> QED BY <1>3, <1>5, <1>6, <1>7, <1>8 DEF QueueInv

LEMMA InitQueues ==
  ASSUME Init
  PROVE  Inv
<1>1. SchedulerInv
  BY InitInv DEF Init
<1>2. /\ QueueInv /\ LocalTypes
      /\ Apart(waiting_receivers, waiting_senders) /\ InQueues = {}
  BY QueuesStart DEF Init
<1>3. Placed(status, waiting_list, {})
  BY DEF Init, SchedulerInit, Placed, Running, Ready, Waiting
<1> QED BY <1>1, <1>2, <1>3, ListsOfScheduler DEF Inv, CallInv, ListInv

\* mq_send with any arguments.
LEMMA SendInv ==
  ASSUME CallInv, NEW q \in QueueId \cup {0}, NEW size \in Int, internal_mq_send(q, size)
  PROVE  CallInv'
<1>1. CASE SendRejected(q, size)
  <2>1. SendError(q, size) \in Int
    BY DEF SendError, DSOS_EBUFFER, DSOS_EMQINVALID
  <2> QED BY <1>1, <2>1, AnswerInv DEF SendRejected
<1>2. CASE SendWithoutBlock(q, size)
  BY <1>2, AnswerInv DEF SendWithoutBlock, DSOS_EBUFFER
<1> QED
  BY <1>1, <1>2, SendBlocksInv, SendEnqueuesInv, SendHandsOverInv DEF internal_mq_send

\* mq_receive.
LEMMA ReceiveInv ==
  ASSUME CallInv, NEW q \in QueueId \cup {0}, NEW size \in Int, internal_mq_receive(q, size)
  PROVE  CallInv'
<1>1. CASE ReceiveRejected(q, size)
  <2>1. ReceiveError(q, size) \in Int
    BY DEF ReceiveError, DSOS_EBUFFER, DSOS_EMQINVALID
  <2> QED BY <1>1, <2>1, AnswerInv DEF ReceiveRejected
<1> QED
  BY <1>1, ReceiveBlocksInv, ReceiveDiscardsInv, ReceiveTakesInv, ReceiveRefillsInv
     DEF internal_mq_receive

\* mq_create.
LEMMA CreateInv ==
  ASSUME CallInv, NEW q \in QueueId \cup {0}, NEW size \in Int, internal_mq_create(q, size)
  PROVE  CallInv'
<1>1. CASE CreateRejected(q, size)
  <2>1. CreateError(q, size) \in Int
    BY DEF CreateError, DSOS_EMQINVALID, DSOS_EMQEXISTS, DSOS_EMQCREATE
  <2> QED BY <1>1, <2>1, AnswerInv DEF CreateRejected
<1> QED BY <1>1, CreateAddsInv DEF internal_mq_create

\* mq_destroy.
LEMMA DestroyInv ==
  ASSUME CallInv, NEW q \in QueueId \cup {0}, internal_mq_destroy(q)
  PROVE  CallInv'
<1>1. CASE DestroyRejected(q)
  BY <1>1, AnswerInv DEF DestroyRejected, DSOS_EMQINVALID
<1> QED BY <1>1, DestroyRemovesInv DEF internal_mq_destroy

\* Any call of the queues, whatever else goes on.
LEMMA CallKeepsInv ==
  ASSUME CallInv, QueueCall
  PROVE  CallInv'
<1>1. PICK q \in QueueId \cup {0} :
        \/ \E size \in Capacities : internal_mq_create(q, size)
        \/ internal_mq_destroy(q)
        \/ \E size \in SendSizes : internal_mq_send(q, size)
        \/ \E size \in BufferSizes : internal_mq_receive(q, size)
  BY DEF QueueCall
<1>2. ASSUME NEW size \in Capacities, internal_mq_create(q, size) PROVE CallInv'
  BY <1>2, CreateInv, MessageQueueAssumption
<1>3. ASSUME internal_mq_destroy(q) PROVE CallInv'
  BY <1>3, DestroyInv
<1>4. ASSUME NEW size \in SendSizes, internal_mq_send(q, size) PROVE CallInv'
  BY <1>4, SendInv, MessageQueueAssumption
<1>5. ASSUME NEW size \in BufferSizes, internal_mq_receive(q, size) PROVE CallInv'
  BY <1>5, ReceiveInv, MessageQueueAssumption
<1> QED BY <1>1, <1>2, <1>3, <1>4, <1>5

\* The process at the head of a list is blocked.
LEMMA HeadBlocked ==
  ASSUME NEW T, NEW R \in Lists(T), NEW S, NEW q \in QueueId, R[q] # << >>
  PROVE  Range(<< Head(R[q]).pcb >>) \subseteq AllOn(R, S)
<1> DEFINE p == Head(R[q]).pcb
<1>1. R[q] \in Seq(Entries(T))
  BY DEF Lists
<1>2. Pcbs(R[q]) \in Seq(Proc) /\ Pcbs(R[q]) # << >> /\ Head(Pcbs(R[q])) = p
  BY <1>1, PcbsTail
<1> HIDE DEF p
<1>3. p \in Proc /\ p \in Range(Pcbs(R[q]))
  BY <1>2, DetachHead
<1>4. Range(<< p >>) = {p}
  BY <1>3, Singleton
<1>5. p \in On(R, S, q)
  BY <1>3 DEF On
<1> QED BY <1>4, <1>5 DEF AllOn, p

\* A call leaves the scheduler alone, makes processes ready that were blocked,
\* or blocks.
LEMMA CallSchedules ==
  ASSUME CallInv, QueueCall
  PROVE  \/ UNCHANGED ProcVars
         \/ \E ps : MakeReady(ps) /\ Range(ps) \subseteq InQueues
         \/ Block
<1> DEFINE R == waiting_receivers
           S == waiting_senders
           T == Nat \ {0}
           U == 1 .. MESSAGE_MAX_SIZE
<1>1. /\ R \in Lists(T) /\ S \in Lists(U) /\ Apart(R, S)
      /\ InQueues = AllOn(R, S) /\ AllOn(S, R) = AllOn(R, S)
      /\ resources_list \subseteq QueueId
  <2>1. AllOn(S, R) = AllOn(R, S)
    BY DEF AllOn, On
  <2> QED BY <2>1 DEF CallInv, QueueInv, QueueTypes, ListInv, InQueues
<1> HIDE DEF T, U
<1>2. ASSUME NEW q, NEW size, internal_mq_create(q, size)
      PROVE  UNCHANGED ProcVars
  BY <1>2 DEF internal_mq_create, CreateRejected, CreateAdds, Answer
<1>3. ASSUME NEW q, internal_mq_destroy(q)
      PROVE  \/ UNCHANGED ProcVars
             \/ \E ps : MakeReady(ps) /\ Range(ps) \subseteq InQueues
  <2>1. CASE DestroyRejected(q)
    BY <2>1 DEF DestroyRejected, Answer
  <2>2. CASE DestroyRemoves(q)
    <3> DEFINE woken == Pcbs(R[q]) \o Pcbs(S[q])
    <3>1. MakeReady(woken) /\ q \in QueueId
      BY <1>1, <2>2 DEF DestroyRemoves
    <3>2. AllLeave(T, R, [R EXCEPT ![q] = << >>], U, S, [S EXCEPT ![q] = << >>], q, woken)
      BY <1>1, <3>1, Cleared, Zenon
    <3>3. Range(woken) \subseteq InQueues
      BY <1>1, <3>2 DEF AllLeave
    <3> QED BY <3>1, <3>3
  <2> QED BY <1>3, <2>1, <2>2 DEF internal_mq_destroy
<1>4. ASSUME NEW q, NEW size, internal_mq_send(q, size)
      PROVE  \/ UNCHANGED ProcVars
             \/ \E ps : MakeReady(ps) /\ Range(ps) \subseteq InQueues
             \/ Block
  <2>1. CASE SendHandsOver(q, size)
    <3>1. /\ MakeReady(<< Head(R[q]).pcb >>) /\ R[q] # << >> /\ q \in QueueId
      BY <1>1, <2>1 DEF SendHandsOver, SendLegal, ReceiverWaits
    <3>2. Range(<< Head(R[q]).pcb >>) \subseteq InQueues
      BY <1>1, <3>1, HeadBlocked, Zenon
    <3> QED BY <3>1, <3>2
  <2> QED
    BY <1>4, <2>1 DEF internal_mq_send, SendRejected, SendBlocks, SendWithoutBlock,
       SendEnqueues, Answer, LinkTwice, CannotBlock, SchedulerVars, ProcVars
<1>5. ASSUME NEW q, NEW size, internal_mq_receive(q, size)
      PROVE  \/ UNCHANGED ProcVars
             \/ \E ps : MakeReady(ps) /\ Range(ps) \subseteq InQueues
             \/ Block
  <2>1. CASE ReceiveRefills(q, size)
    <3>1. /\ MakeReady(<< Head(S[q]).pcb >>) /\ S[q] # << >> /\ q \in QueueId
      BY <1>1, <2>1 DEF ReceiveRefills, ReceiveLegal, SenderWaits
    <3>2. Range(<< Head(S[q]).pcb >>) \subseteq InQueues
      BY <1>1, <3>1, HeadBlocked, Zenon
    <3> QED BY <3>1, <3>2
  <2> QED
    BY <1>5, <2>1 DEF internal_mq_receive, ReceiveRejected, ReceiveBlocks,
       ReceiveDiscards, ReceiveTakes, Answer, LinkTwice, CannotBlock, SchedulerVars, ProcVars
<1> QED BY <1>2, <1>3, <1>4, <1>5 DEF QueueCall

\* A call does nothing to processes that do not wait for it.
LEMMA CallKeeps ==
  ASSUME CallInv, QueueCall
  PROVE  Kept
<1>1. CASE UNCHANGED ProcVars
  BY <1>1 DEF ProcVars, Kept
<1>2. ASSUME NEW ps, MakeReady(ps), Range(ps) \subseteq InQueues
      PROVE  Kept
  <2>1. /\ status' = [p \in Proc |-> IF p \in Range(ps) THEN Ready ELSE status[p]]
        /\ UNCHANGED << waiting_list, timer_list >>
    BY <1>2 DEF MakeReady
  <2>2. \A p \in Range(ps) : p \in Proc /\ status[p] = Waiting
    BY <1>2 DEF CallInv, ListInv, Placed
  <2> QED BY <2>1, <2>2 DEF Kept, ProcessStatus, Running, Ready, Waiting
<1>3. CASE Block
  BY <1>3, BlockSchedules
<1> QED BY <1>1, <1>2, <1>3, CallSchedules

\* The queues see a call, a step of somebody else, or nothing.
QueuesIdle == UNCHANGED << QueueVars, user_buffer, list_broken >>
QueuesStep == QueueCall \/ SchedulerFrame \/ QueuesIdle

LEMMA NextIsStep ==
  ASSUME [Next]_vars
  PROVE  QueuesStep
BY DEF Next, Tick, Syscall, vars, QueuesIdle, QueuesStep

\* Nothing happens.
LEMMA IdleInv ==
  ASSUME CallInv, UNCHANGED vars
  PROVE  CallInv'
<1>1. /\ UNCHANGED << QueueVars, ProcVars, user_buffer, list_broken >>
      /\ syscall_retvalue' = syscall_retvalue
  BY DEF vars, SchedulerVars, ProcVars
<1>2. ListsHold /\ syscall_retvalue' \in [Proc -> Int]
  BY <1>1 DEF CallInv, ListsHold
<1>3. ListsHold' /\ status' = status /\ waiting_list' = waiting_list
  BY <1>1, <1>2, SameLists
<1>4. QueueInv' /\ Apart(waiting_receivers, waiting_senders)' /\ InQueues' = InQueues
  BY <1>1, SameQueues DEF CallInv
<1> QED BY <1>1, <1>3, <1>4 DEF CallInv, ListInv, Placed, LocalTypes

\* The invariant is inductive.
LEMMA NextQueues ==
  ASSUME Inv, [Next]_vars
  PROVE  Inv'
<1>0. CallInv /\ SchedulerInv
  BY DEF Inv
<1>1. CASE Tick
  BY <1>1, TickInv
<1>2. CASE Syscall
  <2>1. CASE internal_preempt /\ SchedulerFrame
    BY <2>1, QueuePreemptInv
  <2>2. CASE internal_sleep /\ SchedulerFrame
    BY <2>2, QueueSleepInv
  <2>3. CASE QueueCall
    <3>1. CallInv' /\ Kept
      BY <1>0, <2>3, CallKeepsInv, CallKeeps
    <3>2. SchedulerInv'
      BY <1>0, <3>1, SchedulerKept DEF CallInv
    <3> QED BY <3>1, <3>2 DEF Inv
  <2> QED BY <1>2, <2>1, <2>2, <2>3 DEF Syscall
<1>3. CASE UNCHANGED vars
  <2>1. UNCHANGED ProcVars
    BY <1>3 DEF vars, SchedulerVars, ProcVars
  <2>2. CallInv'
    BY <1>0, <1>3, IdleInv
  <2>3. Kept
    BY <2>1 DEF ProcVars, Kept
  <2> QED BY <1>0, <2>2, <2>3, SchedulerKept DEF Inv, CallInv
<1> QED BY <1>1, <1>2, <1>3 DEF Next

(***************************************************************************)
(* The invariant of the queues holds for all constants.                    *)
(***************************************************************************)
THEOREM QueueInvariant == Spec => []Inv
<1>1. Init => Inv
  BY InitQueues
<1>2. Inv /\ [Next]_vars => Inv'
  BY NextQueues
<1> QED BY <1>1, <1>2, PTL DEF Spec

\* Every variable of the queues always has its type.
THEOREM QueueTypesHold == Spec => []TypeOK
<1>1. Inv => TypeOK
  BY InvImplies
<1> QED BY <1>1, QueueInvariant, PTL

(***************************************************************************)
(* No call, and no peer that completes another process's call, ever puts a *)
(* process into two lists or takes it out of all of them.                  *)
(***************************************************************************)
THEOREM OneListAlways == Spec => []OneListEach
<1>1. Inv => OneListEach
  BY InvImplies
<1> QED BY <1>1, QueueInvariant, PTL

(***************************************************************************)
(* current_messages never disagrees with the list it counts, and no queue  *)
(* ever holds more than its capacity.                                      *)
(***************************************************************************)
THEOREM CountsAlwaysMatch == Spec => []CountsMatch
<1>1. Inv => CountsMatch
  BY InvImplies
<1> QED BY <1>1, QueueInvariant, PTL

(***************************************************************************)
(* No message ever lies in a queue at which a receiver sleeps: mq_send     *)
(* never enqueues past a waiting receiver.                                 *)
(***************************************************************************)
THEOREM NoMissedMessage == Spec => []ReceiversWaitOnEmpty
<1>1. Inv => ReceiversWaitOnEmpty
  BY InvImplies
<1> QED BY <1>1, QueueInvariant, PTL

-----------------------------------------------------------------------------
(***************************************************************************)
(* The pool of message blocks.  A block in a queue is a place, so that the *)
(* sizes of all queues together are one cardinality.                       *)
(***************************************************************************)
PoolInv ==
  /\ IsFiniteSet(resources_list)
  /\ Cardinality(resources_list) <= MAX_MESSAGE_QUEUES
  /\ free_messages + Cardinality(Places(current_messages)) = DSOS_MAX_MESSAGES

\* A queue has a place of its own for each of its messages.
LEMMA PlaceIn ==
  ASSUME NEW n \in [QueueId -> Nat], NEW x
  PROVE  x \in Places(n) <=>
           \E q \in QueueId, i \in Nat : x = << q, i >> /\ 1 <= i /\ i <= n[q]
BY DEF Places

\* There are finitely many places, not more than all queues together can have.
LEMMA PlacesBounded ==
  ASSUME CallInv, IsFiniteSet(resources_list)
  PROVE  /\ IsFiniteSet(Places(max_messages))
         /\ IsFiniteSet(Places(current_messages))
         /\ Places(current_messages) \subseteq Places(max_messages)
         /\ Cardinality(Places(max_messages))
              <= Cardinality(resources_list) * MAX_MESSAGES_PER_QUEUE
         /\ Cardinality(Places(current_messages)) \in Nat
         /\ Cardinality(Places(max_messages)) \in Nat
         /\ Cardinality(resources_list) \in Nat
<1> DEFINE all == resources_list \X (1 .. MAX_MESSAGES_PER_QUEUE)
<1>1. /\ MAX_MESSAGES_PER_QUEUE \in Nat
      /\ max_messages \in [QueueId -> 0 .. MAX_MESSAGES_PER_QUEUE]
      /\ max_messages \in [QueueId -> Nat]
      /\ current_messages \in [QueueId -> Nat]
      /\ \A q \in QueueId : /\ current_messages[q] <= max_messages[q]
                            /\ q \in resources_list <=> max_messages[q] > 0
  BY MessageQueueAssumption DEF CallInv, QueueInv, QueueTypes, CountsMatch
<1>2. Places(max_messages) \subseteq all
  <2> SUFFICES ASSUME NEW q \in QueueId, NEW i \in Nat, 1 <= i, i <= max_messages[q]
               PROVE  << q, i >> \in all
    BY <1>1, PlaceIn
  <2> QED BY <1>1
<1>3. Places(current_messages) \subseteq Places(max_messages)
  <2> SUFFICES ASSUME NEW q \in QueueId, NEW i \in Nat, 1 <= i, i <= current_messages[q]
               PROVE  << q, i >> \in Places(max_messages)
    BY <1>1, PlaceIn
  <2>1. i <= max_messages[q]
    BY <1>1
  <2> QED BY <1>1, <2>1, PlaceIn
<1>4. /\ IsFiniteSet(1 .. MAX_MESSAGES_PER_QUEUE)
      /\ Cardinality(1 .. MAX_MESSAGES_PER_QUEUE) = MAX_MESSAGES_PER_QUEUE
  <2>1. /\ IsFiniteSet(1 .. MAX_MESSAGES_PER_QUEUE)
        /\ Cardinality(1 .. MAX_MESSAGES_PER_QUEUE) =
             IF 1 > MAX_MESSAGES_PER_QUEUE THEN 0 ELSE MAX_MESSAGES_PER_QUEUE - 1 + 1
    BY <1>1, FS_Interval
  <2> QED BY <1>1, <2>1
<1>5. /\ IsFiniteSet(all)
      /\ Cardinality(all) = Cardinality(resources_list) * MAX_MESSAGES_PER_QUEUE
  BY <1>4, FS_Product
<1> HIDE DEF all
<1>6. /\ IsFiniteSet(Places(max_messages))
      /\ Cardinality(Places(max_messages)) <= Cardinality(all)
  BY <1>2, <1>5, FS_Subset
<1>7. IsFiniteSet(Places(current_messages))
  BY <1>3, <1>6, FS_Subset
<1> QED BY <1>3, <1>5, <1>6, <1>7, FS_CardinalityType

\* One message more at a queue is one place more.
LEMMA PlaceAdded ==
  ASSUME NEW n \in [QueueId -> Nat], IsFiniteSet(Places(n)), NEW q \in QueueId
  PROVE  Cardinality(Places([n EXCEPT ![q] = @ + 1])) = Cardinality(Places(n)) + 1
<1> DEFINE m == [n EXCEPT ![q] = @ + 1]
           x == << q, n[q] + 1 >>
<1>1. m \in [QueueId -> Nat] /\ m[q] = n[q] + 1 /\ \A p \in QueueId \ {q} : m[p] = n[p]
  OBVIOUS
<1>2. x \notin Places(n)
  BY PlaceIn
<1>3. Places(m) = Places(n) \cup {x}
  <2> HIDE DEF m
  <2>1. ASSUME NEW p \in QueueId, NEW i \in Nat
        PROVE  << p, i >> \in Places(m) <=> << p, i >> \in Places(n) \cup {x}
    BY <1>1, PlaceIn
  <2> QED BY <1>1, <2>1, PlaceIn
<1> QED BY <1>2, <1>3, FS_AddElement

\* One message less is one place less.
LEMMA PlaceRemoved ==
  ASSUME NEW n \in [QueueId -> Nat], IsFiniteSet(Places(n)), NEW q \in QueueId, n[q] > 0
  PROVE  Cardinality(Places([n EXCEPT ![q] = @ - 1])) = Cardinality(Places(n)) - 1
<1> DEFINE m == [n EXCEPT ![q] = @ - 1]
           x == << q, n[q] >>
<1>1. m \in [QueueId -> Nat] /\ m[q] = n[q] - 1 /\ \A p \in QueueId \ {q} : m[p] = n[p]
  OBVIOUS
<1>2. x \in Places(n)
  BY PlaceIn
<1>3. Places(m) = Places(n) \ {x}
  <2> HIDE DEF m
  <2>1. ASSUME NEW p \in QueueId, NEW i \in Nat
        PROVE  << p, i >> \in Places(m) <=> << p, i >> \in Places(n) \ {x}
    BY <1>1, PlaceIn
  <2> QED BY <1>1, <2>1, PlaceIn
<1> QED BY <1>2, <1>3, FS_RemoveElement

\* A queue that is emptied gives up as many places as it had messages.
LEMMA PlacesCleared ==
  ASSUME NEW n \in [QueueId -> Nat], IsFiniteSet(Places(n)), NEW q \in QueueId
  PROVE  Cardinality(Places([n EXCEPT ![q] = 0])) = Cardinality(Places(n)) - n[q]
<1> DEFINE m   == [n EXCEPT ![q] = 0]
           own == {q} \X (1 .. n[q])
<1>1. m \in [QueueId -> Nat] /\ m[q] = 0 /\ \A p \in QueueId \ {q} : m[p] = n[p]
  OBVIOUS
<1>2. own \subseteq Places(n)
  BY DEF Places
<1>3. Places(m) = Places(n) \ own
  <2> HIDE DEF m
  <2>1. ASSUME NEW p \in QueueId, NEW i \in Nat
        PROVE  << p, i >> \in Places(m) <=> << p, i >> \in Places(n) \ own
    BY <1>1, PlaceIn
  <2> QED BY <1>1, <2>1, PlaceIn
<1>4. IsFiniteSet(1 .. n[q]) /\ Cardinality(1 .. n[q]) = n[q]
  <2>1. /\ IsFiniteSet(1 .. n[q])
        /\ Cardinality(1 .. n[q]) = IF 1 > n[q] THEN 0 ELSE n[q] - 1 + 1
    BY FS_Interval
  <2> QED BY <2>1
<1>5. Cardinality(own) = n[q]
  <2>1. IsFiniteSet({q}) /\ Cardinality({q}) = 1
    BY FS_Singleton
  <2>2. Cardinality(own) = Cardinality({q}) * Cardinality(1 .. n[q])
    BY <1>4, <2>1, FS_Product, Zenon
  <2> QED BY <1>4, <2>1, <2>2
<1>6. Places(n) \cap own = own
  BY <1>2
<1> HIDE DEF own, m
<1>7. Cardinality(Places(n) \ own) = Cardinality(Places(n)) - Cardinality(Places(n) \cap own)
  BY FS_Difference
<1> QED BY <1>3, <1>5, <1>6, <1>7 DEF m

(***************************************************************************)
(* What each step does to the number of messages, the blocks and the       *)
(* queues: nothing, or one message comes or goes, or one queue.            *)
(***************************************************************************)
LEMMA StepOfPool ==
  ASSUME CallInv, QueuesStep
  PROVE  \/ UNCHANGED << resources_list, current_messages, free_messages >>
         \/ \E q \in QueueId :
              /\ current_messages' = [current_messages EXCEPT ![q] = @ + 1]
              /\ free_messages' = free_messages - 1
              /\ UNCHANGED resources_list
         \/ \E q \in QueueId :
              /\ current_messages[q] > 0
              /\ current_messages' = [current_messages EXCEPT ![q] = @ - 1]
              /\ free_messages' = free_messages + 1
              /\ UNCHANGED resources_list
         \/ \E q \in QueueId :
              /\ Cardinality(resources_list) < MAX_MESSAGE_QUEUES
              /\ q \notin resources_list
              /\ resources_list' = resources_list \cup {q}
              /\ UNCHANGED << current_messages, free_messages >>
         \/ \E q \in QueueId :
              /\ current_messages' = [current_messages EXCEPT ![q] = 0]
              /\ free_messages' = free_messages + current_messages[q]
              /\ resources_list' = resources_list \ {q}
<1>1. CASE SchedulerFrame \/ QueuesIdle
  BY <1>1 DEF SchedulerFrame, QueuesIdle, QueueVars
<1>2. CASE QueueCall
  <2> USE DEF Answer, QueueVars
  <2>2. ASSUME NEW q \in QueueId \cup {0}, NEW size \in Capacities,
               internal_mq_create(q, size)
        PROVE  \/ UNCHANGED << resources_list, current_messages, free_messages >>
               \/ /\ q \in QueueId
                  /\ Cardinality(resources_list) < MAX_MESSAGE_QUEUES
                  /\ q \notin resources_list
                  /\ resources_list' = resources_list \cup {q}
                  /\ UNCHANGED << current_messages, free_messages >>
    BY <2>2 DEF internal_mq_create, CreateRejected, CreateAdds, CreateLegal
  <2>3. ASSUME NEW q \in QueueId \cup {0}, internal_mq_destroy(q)
        PROVE  \/ UNCHANGED << resources_list, current_messages, free_messages >>
               \/ /\ q \in QueueId
                  /\ current_messages' = [current_messages EXCEPT ![q] = 0]
                  /\ free_messages' = free_messages + current_messages[q]
                  /\ resources_list' = resources_list \ {q}
    BY <2>3 DEF internal_mq_destroy, DestroyRejected, DestroyRemoves, CallInv, QueueInv,
                QueueTypes, CountsMatch
  <2>4. ASSUME NEW q \in QueueId \cup {0}, NEW size \in SendSizes,
               internal_mq_send(q, size)
        PROVE  \/ UNCHANGED << resources_list, current_messages, free_messages >>
               \/ /\ q \in QueueId
                  /\ current_messages' = [current_messages EXCEPT ![q] = @ + 1]
                  /\ free_messages' = free_messages - 1
                  /\ UNCHANGED resources_list
    BY <2>4 DEF internal_mq_send, SendRejected, SendBlocks, SendWithoutBlock, SendEnqueues,
                SendHandsOver, LinkTwice, CannotBlock, SendLegal, CallInv, QueueInv, QueueTypes
  <2>5. ASSUME NEW q \in QueueId \cup {0}, NEW size \in BufferSizes,
               internal_mq_receive(q, size)
        PROVE  \/ UNCHANGED << resources_list, current_messages, free_messages >>
               \/ /\ q \in QueueId
                  /\ current_messages[q] > 0
                  /\ current_messages' = [current_messages EXCEPT ![q] = @ - 1]
                  /\ free_messages' = free_messages + 1
                  /\ UNCHANGED resources_list
    <3>1. CASE ReceiveDiscards(q, size) \/ ReceiveTakes(q, size)
      <4>1. q \in resources_list /\ ~IsEmpty(q) /\ MessageTaken(q) /\ Message_free
            /\ UNCHANGED resources_list
        BY <3>1 DEF ReceiveDiscards, ReceiveTakes, ReceiveLegal
      <4>2. q \in QueueId /\ current_messages[q] > 0
        BY <4>1, FirstMessage
      <4> QED BY <4>1, <4>2 DEF MessageTaken, Message_free
    <3> QED BY <2>5, <3>1 DEF internal_mq_receive, ReceiveRejected, ReceiveBlocks,
                              ReceiveRefills, LinkTwice, CannotBlock
  <2> QED BY <1>2, <2>2, <2>3, <2>4, <2>5 DEF QueueCall
<1> QED BY <1>1, <1>2 DEF QueuesStep

\* Blocks and queues stay accounted for.
LEMMA NextPool ==
  ASSUME CallInv, PoolInv, QueuesStep
  PROVE  PoolInv'
<1>1. /\ current_messages \in [QueueId -> Nat] /\ free_messages \in Nat
      /\ MAX_MESSAGE_QUEUES \in Nat /\ DSOS_MAX_MESSAGES \in Nat
  BY MessageQueueAssumption DEF CallInv, QueueInv, QueueTypes
<1>2. /\ IsFiniteSet(Places(current_messages))
      /\ Cardinality(Places(current_messages)) \in Nat
      /\ IsFiniteSet(resources_list)
      /\ Cardinality(resources_list) \in Nat
  BY PlacesBounded DEF PoolInv
<1>3. CASE UNCHANGED << resources_list, current_messages, free_messages >>
  BY <1>3 DEF PoolInv
<1>4. ASSUME NEW q \in QueueId,
             current_messages' = [current_messages EXCEPT ![q] = @ + 1],
             free_messages' = free_messages - 1, UNCHANGED resources_list
      PROVE  PoolInv'
  <2>1. Cardinality(Places(current_messages')) = Cardinality(Places(current_messages)) + 1
    BY <1>1, <1>2, <1>4, PlaceAdded
  <2>2. Places(current_messages)' = Places(current_messages')
    BY DEF Places
  <2> QED BY <1>1, <1>2, <1>4, <2>1, <2>2 DEF PoolInv
<1>5. ASSUME NEW q \in QueueId, current_messages[q] > 0,
             current_messages' = [current_messages EXCEPT ![q] = @ - 1],
             free_messages' = free_messages + 1, UNCHANGED resources_list
      PROVE  PoolInv'
  <2>1. Cardinality(Places(current_messages')) = Cardinality(Places(current_messages)) - 1
    BY <1>1, <1>2, <1>5, PlaceRemoved
  <2>2. Places(current_messages)' = Places(current_messages')
    BY DEF Places
  <2> QED BY <1>1, <1>2, <1>5, <2>1, <2>2 DEF PoolInv
<1>6. ASSUME NEW q \in QueueId,
             Cardinality(resources_list) < MAX_MESSAGE_QUEUES,
             q \notin resources_list,
             resources_list' = resources_list \cup {q},
             UNCHANGED << current_messages, free_messages >>
      PROVE  PoolInv'
  <2>1. /\ IsFiniteSet(resources_list')
        /\ Cardinality(resources_list') = Cardinality(resources_list) + 1
    BY <1>2, <1>6, FS_AddElement
  <2>2. Places(current_messages)' = Places(current_messages)
    BY <1>6 DEF Places
  <2> QED BY <1>1, <1>2, <1>6, <2>1, <2>2 DEF PoolInv
<1>7. ASSUME NEW q \in QueueId,
             current_messages' = [current_messages EXCEPT ![q] = 0],
             free_messages' = free_messages + current_messages[q],
             resources_list' = resources_list \ {q}
      PROVE  PoolInv'
  <2>1. Cardinality(Places(current_messages'))
          = Cardinality(Places(current_messages)) - current_messages[q]
    BY <1>1, <1>2, <1>7, PlacesCleared
  <2>2. Places(current_messages)' = Places(current_messages')
    BY DEF Places
  <2>3. /\ IsFiniteSet(resources_list')
        /\ Cardinality(resources_list') <= Cardinality(resources_list)
    <3>1. /\ IsFiniteSet(resources_list \ {q})
          /\ Cardinality(resources_list \ {q}) =
               IF q \in resources_list THEN Cardinality(resources_list) - 1
                                       ELSE Cardinality(resources_list)
      BY <1>2, FS_RemoveElement
    <3> QED BY <1>2, <1>7, <3>1
  <2>4. Cardinality(resources_list') \in Nat
    BY <2>3, FS_CardinalityType
  <2> QED BY <1>1, <1>2, <1>7, <2>1, <2>2, <2>3, <2>4 DEF PoolInv
<1> QED BY <1>3, <1>4, <1>5, <1>6, <1>7, StepOfPool

\* At boot every block is free.
LEMMA InitPool ==
  ASSUME QueuesInit
  PROVE  PoolInv
<1>1. /\ resources_list = {}
      /\ current_messages = [q \in QueueId |-> 0]
      /\ free_messages = DSOS_MAX_MESSAGES
  BY DEF QueuesInit
<1>2. Places(current_messages) = {}
  BY <1>1 DEF Places
<1>3. IsFiniteSet({}) /\ Cardinality({}) = 0
  BY FS_EmptySet
<1>4. /\ IsFiniteSet(resources_list) /\ Cardinality(resources_list) = 0
      /\ Cardinality(Places(current_messages)) = 0
  BY <1>1, <1>2, <1>3, Zenon
<1> QED BY <1>1, <1>4, MessageQueueAssumption DEF PoolInv

\* The accounts of the pool, with the invariant they rest on.
LEMMA PoolInvariant == Spec => [](Inv /\ PoolInv)
<1>1. Init => Inv /\ PoolInv
  BY InitQueues, InitPool DEF Init
<1>2. Inv /\ PoolInv /\ [Next]_vars => (Inv /\ PoolInv)'
  BY NextQueues, NextIsStep, NextPool DEF Inv
<1> QED BY <1>1, <1>2, PTL DEF Spec

\* PoolInv speaks of the counters, NoBlockLost of the lists they count.
LEMMA PoolImplies ==
  ASSUME CallInv, PoolInv
  PROVE  NoBlockLost /\ PoolSuffices
<1>1. /\ current_messages \in [QueueId -> Nat] /\ max_messages \in [QueueId -> Nat]
      /\ free_messages \in Nat /\ DSOS_MAX_MESSAGES \in Nat
      /\ resources_list \subseteq QueueId
      /\ \A q \in QueueId : current_messages[q] = Len(messages[q])
  BY MessageQueueAssumption DEF CallInv, QueueInv, QueueTypes, CountsMatch
<1>2. [q \in QueueId |-> Len(messages[q])] = current_messages
  BY <1>1
<1>3. NoBlockLost
  BY <1>2 DEF PoolInv, NoBlockLost
<1>4. PoolSuffices
  <2> SUFFICES ASSUME Cardinality(Places(max_messages)) <= DSOS_MAX_MESSAGES,
                      NEW q \in resources_list, ~IsFull(q)
               PROVE  free_messages > 0
    BY DEF PoolSuffices
  <2> DEFINE x == << q, max_messages[q] >>
             rest == Places(max_messages) \ {x}
  <2>1. /\ IsFiniteSet(Places(max_messages))
        /\ Places(current_messages) \subseteq Places(max_messages)
        /\ Cardinality(Places(current_messages)) \in Nat
        /\ Cardinality(Places(max_messages)) \in Nat
    BY PlacesBounded DEF PoolInv
  <2>2. q \in QueueId /\ current_messages[q] < max_messages[q]
    BY <1>1 DEF IsFull
  <2>3. x \in Places(max_messages)
    BY <1>1, <2>2, PlaceIn
  <2>4. x \notin Places(current_messages)
    BY <1>1, <2>2, PlaceIn
  <2>5. IsFiniteSet(rest) /\ Cardinality(rest) = Cardinality(Places(max_messages)) - 1
    BY <2>1, <2>3, FS_RemoveElement
  <2>6. Cardinality(Places(current_messages)) <= Cardinality(rest)
    <3>1. Places(current_messages) \in SUBSET rest
      BY <2>1, <2>4
    <3> QED BY <2>5, <3>1, FS_Subset
  <2> QED BY <1>1, <2>1, <2>5, <2>6 DEF PoolInv
<1> QED BY <1>3, <1>4

(***************************************************************************)
(* Whatever is sent, received, refused, discarded or destroyed, no message *)
(* block is leaked and none is freed twice.                                *)
(***************************************************************************)
THEOREM BlocksAreKept == Spec => []NoBlockLost
<1>1. Inv /\ PoolInv => NoBlockLost
  BY PoolImplies DEF Inv
<1> QED BY <1>1, PoolInvariant, PTL

\* A queue with space left never lacks a block, if the pool has one per place.
THEOREM PoolAlwaysSuffices == Spec => []PoolSuffices
<1>1. Inv /\ PoolInv => PoolSuffices
  BY PoolImplies DEF Inv
<1> QED BY <1>1, PoolInvariant, PTL

(***************************************************************************)
(* With as many blocks as all queues together can hold, which is how       *)
(* DSOS_MAX_MESSAGES is defined, the branch of mq_send for an exhausted    *)
(* pool is never taken.                                                    *)
(***************************************************************************)
THEOREM AllocationSucceeds ==
  ASSUME DSOS_MAX_MESSAGES >= MAX_MESSAGE_QUEUES * MAX_MESSAGES_PER_QUEUE
  PROVE  Spec => [][\A q \in QueueId, size \in SendSizes : ~SendWithoutBlock(q, size)]_vars
<1>1. ASSUME CallInv, PoolInv, NEW q \in QueueId, NEW size \in SendSizes,
             SendWithoutBlock(q, size)
      PROVE  FALSE
  <2>1. q \in resources_list /\ ~IsFull(q) /\ free_messages = 0
    BY <1>1 DEF SendWithoutBlock, SendLegal
  <2> DEFINE n == Cardinality(resources_list)
             k == MAX_MESSAGES_PER_QUEUE
  <2>2. /\ Cardinality(Places(max_messages)) \in Nat
        /\ Cardinality(Places(max_messages)) <= n * k
        /\ n \in Nat /\ n <= MAX_MESSAGE_QUEUES
    BY <1>1, PlacesBounded DEF PoolInv
  <2>3. MAX_MESSAGE_QUEUES \in Nat /\ k \in Nat /\ DSOS_MAX_MESSAGES \in Nat
    BY MessageQueueAssumption
  <2> HIDE DEF n, k
  <2>4. n * k <= MAX_MESSAGE_QUEUES * k
    BY <2>2, <2>3
  <2>5. Cardinality(Places(max_messages)) <= DSOS_MAX_MESSAGES
    BY <2>2, <2>3, <2>4 DEF k
  <2> QED BY <1>1, <2>1, <2>5, PoolImplies DEF PoolSuffices
<1>2. Inv /\ PoolInv =>
        [\A q \in QueueId, size \in SendSizes : ~SendWithoutBlock(q, size)]_vars
  BY <1>1 DEF Inv
<1> QED BY <1>2, PoolInvariant, PTL

-----------------------------------------------------------------------------
\* A step that leaves the waiting lists alone, or only adds to them.
LEMMA NobodyWoken ==
  ASSUME \A q \in QueueId : BlockedOn(q) \subseteq BlockedOn(q)'
  PROVE  WokenRight
BY DEF WokenRight

LEMMA SameWaiting ==
  ASSUME UNCHANGED << waiting_receivers, waiting_senders >>
  PROVE  WokenRight
BY NobodyWoken DEF BlockedOn

\* Somebody more in a list takes nobody out of it.
LEMMA AppendedWaits ==
  ASSUME NEW T, NEW R \in Lists(T), NEW q \in QueueId, NEW e \in Entries(T)
  PROVE  \A x \in QueueId :
           Range(Pcbs(R[x])) \subseteq Range(Pcbs([R EXCEPT ![q] = WaitsLast(@, e)][x]))
<1> DEFINE new == [R EXCEPT ![q] = WaitsLast(@, e)]
<1>1. R[q] \in Seq(Entries(T)) /\ e.pcb \in Proc
  BY DEF Lists, Entries
<1>2. Pcbs(WaitsLast(R[q], e)) = Append(Pcbs(R[q]), e.pcb) /\ Pcbs(R[q]) \in Seq(Proc)
  BY <1>1, PcbsAppend, PcbsOfList
<1>3. Range(Append(Pcbs(R[q]), e.pcb)) = Range(Pcbs(R[q])) \cup {e.pcb}
  BY <1>1, <1>2, AppendInjectiveList
<1>4. new[q] = WaitsLast(R[q], e) /\ \A x \in QueueId \ {q} : new[x] = R[x]
  BY DEF Lists
<1> HIDE DEF new
<1>5. \A x \in QueueId : Range(Pcbs(R[x])) \subseteq Range(Pcbs(new[x]))
  BY <1>2, <1>3, <1>4
<1> QED BY <1>5 DEF new

\* The peer completes the call of the process at the head of a list.
LEMMA OneWoken ==
  ASSUME CallInv, NEW q \in resources_list, UNCHANGED resources_list,
         NEW p \in BlockedOn(q),
         BlockedOn(q)' = BlockedOn(q) \ {p},
         \A x \in QueueId \ {q} : BlockedOn(x)' = BlockedOn(x),
         MakeReady(<< p >>),
         NEW own, NEW v, Completes(own, p, v),
         v # NoResult, v # DSOS_EMQNOTOPEN,
         v = 0 <=> p \in Range(Pcbs(waiting_senders[q]))
  PROVE  WokenRight
<1>1. q \in QueueId /\ p \in InQueues
  <2>1. q \in QueueId
    BY DEF CallInv, QueueInv, QueueTypes
  <2> QED BY <2>1 DEF InQueues, AllOn, On, BlockedOn
<1>2. p \in Proc /\ syscall_retvalue \in [Proc -> Int] /\ ready_list \in Seq(Proc)
  BY <1>1 DEF CallInv, ListInv, Placed, ListsHold
<1>3. syscall_retvalue'[p] = v
  BY <1>2 DEF Completes
<1>4. p \in Range(ready_list')
  <2>1. << p >> \in Seq(Proc) /\ Range(<< p >>) = {p}
    BY <1>2, Singleton
  <2>2. Range(ready_list \o << p >>) = Range(ready_list) \cup Range(<< p >>)
    BY <1>2, <2>1, RangeConcatenation, ZenonT(30)
  <2> QED BY <2>1, <2>2 DEF MakeReady
<1>5. ASSUME NEW x \in QueueId, NEW y \in BlockedOn(x) \ BlockedOn(x)'
      PROVE  x = q /\ y = p
  BY <1>5
<1> QED BY <1>3, <1>4, <1>5 DEF WokenRight

\* mq_send.
LEMMA SendWakes ==
  ASSUME CallInv, NEW q \in QueueId \cup {0}, NEW size \in Int, internal_mq_send(q, size)
  PROVE  WokenRight
<1> DEFINE R == waiting_receivers
           S == waiting_senders
<1>1. CASE UNCHANGED << waiting_receivers, waiting_senders >>
  BY <1>1, SameWaiting
<1>2. CASE SendBlocks(q, size) /\ Block
           /\ S' = [S EXCEPT ![q] = WaitsLast(@, Entry(running, size))]
           /\ UNCHANGED waiting_receivers
  <2>1. q \in QueueId /\ size \in 1 .. MESSAGE_MAX_SIZE
    BY <1>2 DEF SendBlocks, SendLegal, CallInv, QueueInv, QueueTypes
  <2>2. Entry(running, size) \in Entries(1 .. MESSAGE_MAX_SIZE)
    BY <2>1 DEF CallInv, ListsHold, Entry, Entries
  <2>3. S \in Lists(1 .. MESSAGE_MAX_SIZE)
    BY DEF CallInv, QueueInv, QueueTypes
  <2>4. \A x \in QueueId : Range(Pcbs(S[x])) \subseteq Range(Pcbs(S'[x]))
    BY <1>2, <2>1, <2>2, <2>3, AppendedWaits, Zenon
  <2> QED BY <1>2, <2>4, NobodyWoken DEF BlockedOn
<1>3. CASE SendHandsOver(q, size)
  <2> DEFINE queued   == Append(messages[q], Message_alloc(size, running))
             msg      == Head(queued)
             receiver == Head(R[q])
             p        == receiver.pcb
             v        == IF msg.size <= receiver.size THEN msg.size ELSE DSOS_EBUFFER
             T        == Nat \ {0}
  <2>1. /\ q \in resources_list /\ size \in 1 .. MESSAGE_MAX_SIZE
        /\ R[q] # << >>
        /\ MakeReady(<< p >>) /\ Completes(0, p, v)
        /\ R' = [R EXCEPT ![q] = Tail(@)] /\ S' = S
        /\ UNCHANGED resources_list
    BY <1>3 DEF SendHandsOver, SendLegal, ReceiverWaits
  <2>2. /\ q \in QueueId /\ messages[q] = << >> /\ R \in Lists(T) /\ Apart(R, S)
    BY <2>1 DEF CallInv, QueueInv, QueueTypes, ReceiversWaitOnEmpty, IsEmpty, ListInv
  <2>3. msg.size = size
    <3>1. msg = Message_alloc(size, running)
      BY <2>2
    <3> QED BY <3>1 DEF Message_alloc, Message
  <2>4. v # NoResult /\ v # DSOS_EMQNOTOPEN /\ v # 0
    BY <2>1, <2>3 DEF DSOS_EBUFFER, DSOS_EMQNOTOPEN, NoResult
  <2>5. Leaves(T, R, S, R', q, p)
    <3> HIDE DEF T
    <3> QED BY <2>1, <2>2, Delisted, Zenon
  <2>6. p \in Range(Pcbs(R[q]))
    <3>1. Pcbs(R[q]) \in Seq(Proc) /\ Pcbs(R[q]) # << >> /\ Head(Pcbs(R[q])) = p
      <4>1. R[q] \in Seq(Entries(T))
        BY <2>2 DEF Lists
      <4> QED BY <2>1, <4>1, PcbsTail
    <3> HIDE DEF p
    <3> QED BY <3>1, DetachHead
  <2> HIDE DEF v, p, msg, queued, receiver
  <2>7. p \notin Range(Pcbs(S[q]))
    BY <2>2, <2>6 DEF Apart
  <2>8. /\ p \in BlockedOn(q) /\ BlockedOn(q)' = BlockedOn(q) \ {p}
        /\ \A x \in QueueId \ {q} : BlockedOn(x)' = BlockedOn(x)
    BY <2>1, <2>5 DEF Leaves, BlockedOn, On
  <2> HIDE DEF R, S
  <2> QED BY <2>1, <2>4, <2>7, <2>8, OneWoken DEF S
<1> QED BY <1>1, <1>2, <1>3 DEF internal_mq_send, SendRejected, SendBlocks, SendWithoutBlock,
           SendEnqueues, Answer, QueueVars, LinkTwice, CannotBlock

\* mq_receive.
LEMMA ReceiveWakes ==
  ASSUME CallInv, NEW q \in QueueId \cup {0}, NEW size \in Int, internal_mq_receive(q, size)
  PROVE  WokenRight
<1> DEFINE R == waiting_receivers
           S == waiting_senders
<1>1. CASE UNCHANGED << waiting_receivers, waiting_senders >>
  BY <1>1, SameWaiting
<1>2. CASE ReceiveBlocks(q, size) /\ Block
           /\ R' = [R EXCEPT ![q] = WaitsLast(@, Entry(running, size))]
           /\ UNCHANGED waiting_senders
  <2>1. q \in QueueId /\ size \in Nat \ {0}
    BY <1>2 DEF ReceiveBlocks, ReceiveLegal, CallInv, QueueInv, QueueTypes
  <2>2. Entry(running, size) \in Entries(Nat \ {0})
    BY <2>1 DEF CallInv, ListsHold, Entry, Entries
  <2>3. R \in Lists(Nat \ {0})
    BY DEF CallInv, QueueInv, QueueTypes
  <2>4. \A x \in QueueId : Range(Pcbs(R[x])) \subseteq Range(Pcbs(R'[x]))
    BY <1>2, <2>1, <2>2, <2>3, AppendedWaits, Zenon
  <2> QED BY <1>2, <2>4, NobodyWoken DEF BlockedOn
<1>3. CASE ReceiveRefills(q, size)
  <2> DEFINE msg == Head(messages[q])
             p   == Head(S[q]).pcb
             T   == 1 .. MESSAGE_MAX_SIZE
  <2>1. /\ q \in resources_list /\ ~IsEmpty(q) /\ S[q] # << >>
        /\ Completes(msg.size, p, 0) /\ MakeReady(<< p >>)
        /\ S' = [S EXCEPT ![q] = Tail(@)] /\ R' = R
        /\ UNCHANGED resources_list
    BY <1>3 DEF ReceiveRefills, ReceiveLegal, SenderWaits
  <2>2. /\ q \in QueueId /\ S \in Lists(T) /\ Apart(R, S)
    BY <2>1 DEF CallInv, QueueInv, QueueTypes, ListInv
  <2>3. /\ Apart(S, R) /\ \A x \in QueueId : On(S, R, x) = On(R, S, x)
                       /\ On(S', R, x) = On(R, S', x)
    <3>1. \A x \in QueueId : On(S', R, x) = On(R, S', x)
      BY DEF On
    <3> QED BY <2>2, <3>1, ApartSymmetric, Zenon
  <2>4. Leaves(T, S, R, S', q, p)
    <3> HIDE DEF T
    <3> QED BY <2>1, <2>2, <2>3, Delisted, Zenon
  <2>5. p \in Range(Pcbs(S[q]))
    <3>1. Pcbs(S[q]) \in Seq(Proc) /\ Pcbs(S[q]) # << >> /\ Head(Pcbs(S[q])) = p
      <4>1. S[q] \in Seq(Entries(T))
        BY <2>2 DEF Lists
      <4> QED BY <2>1, <4>1, PcbsTail
    <3> HIDE DEF p
    <3> QED BY <3>1, DetachHead
  <2>6. 0 # NoResult /\ 0 # DSOS_EMQNOTOPEN
    BY DEF NoResult, DSOS_EMQNOTOPEN
  <2> HIDE DEF p, msg
  <2>7. /\ p \in BlockedOn(q) /\ BlockedOn(q)' = BlockedOn(q) \ {p}
        /\ \A x \in QueueId \ {q} : BlockedOn(x)' = BlockedOn(x)
    <3>1. \A x \in QueueId : BlockedOn(x) = On(R, S, x) /\ BlockedOn(x)' = On(R, S', x)
      BY <2>1 DEF BlockedOn, On
    <3> QED BY <2>2, <2>3, <2>4, <3>1 DEF Leaves
  <2> HIDE DEF R, S
  <2> QED BY <2>1, <2>5, <2>6, <2>7, OneWoken DEF S
<1> QED BY <1>1, <1>2, <1>3 DEF internal_mq_receive, ReceiveRejected, ReceiveBlocks,
           ReceiveDiscards, ReceiveTakes, Answer, QueueVars, LinkTwice, CannotBlock

\* mq_destroy.
LEMMA DestroyWakes ==
  ASSUME CallInv, NEW q \in QueueId \cup {0}, DestroyRemoves(q)
  PROVE  WokenRight
<1> DEFINE R == waiting_receivers
           S == waiting_senders
           T == Nat \ {0}
           U == 1 .. MESSAGE_MAX_SIZE
           woken == Pcbs(R[q]) \o Pcbs(S[q])
<1>1. /\ q \in resources_list /\ MakeReady(woken)
      /\ syscall_retvalue' = [p \in Proc |->
           IF p = running THEN q
           ELSE IF p \in Range(woken) THEN DSOS_EMQNOTOPEN
           ELSE syscall_retvalue[p]]
      /\ R' = [R EXCEPT ![q] = << >>]
      /\ S' = [S EXCEPT ![q] = << >>]
      /\ resources_list' = resources_list \ {q}
  BY DEF DestroyRemoves
<1>2. /\ q \in QueueId /\ R \in Lists(T) /\ S \in Lists(U) /\ Apart(R, S)
      /\ ready_list \in Seq(Proc) /\ InQueues \subseteq Proc
  BY <1>1 DEF CallInv, QueueInv, QueueTypes, ListInv, Placed, ListsHold
<1> HIDE DEF T, U
<1>3. AllLeave(T, R, R', U, S, S', q, woken)
  BY <1>1, <1>2, Cleared, Zenon
<1> HIDE DEF woken
<1>4. /\ woken \in Seq(Proc) /\ Range(woken) = BlockedOn(q)
      /\ \A x \in QueueId \ {q} : BlockedOn(x)' = BlockedOn(x)
      /\ Range(woken) \subseteq InQueues
  BY <1>3 DEF AllLeave, BlockedOn, On, InQueues
<1>5. running \notin Range(woken)
  <2>1. CASE running \in waiting_list
    BY <1>4, <2>1 DEF CallInv, ListInv, Placed
  <2>2. CASE running \notin waiting_list
    BY <1>4, <2>2, RunnerFree
  <2> QED BY <2>1, <2>2
<1>6. Range(woken) \subseteq Range(ready_list')
  <2>1. Range(ready_list \o woken) = Range(ready_list) \cup Range(woken)
    BY <1>2, <1>4, RangeConcatenation, ZenonT(30)
  <2> QED BY <1>1, <2>1 DEF MakeReady
<1>7. DSOS_EMQNOTOPEN # NoResult /\ DSOS_EMQNOTOPEN # 0
  BY DEF DSOS_EMQNOTOPEN, NoResult
<1>8. \A p \in Range(woken) : syscall_retvalue'[p] = DSOS_EMQNOTOPEN
  BY <1>1, <1>2, <1>4, <1>5
<1>9. q \notin resources_list'
  BY <1>1
<1> HIDE DEF R, S
<1>10. ASSUME NEW x \in QueueId, NEW p \in BlockedOn(x) \ BlockedOn(x)'
       PROVE  x = q /\ p \in Range(woken)
  BY <1>4, <1>10
<1> QED BY <1>6, <1>7, <1>8, <1>9, <1>10 DEF WokenRight

\* Every step.
LEMMA NextWakes ==
  ASSUME CallInv, QueuesStep
  PROVE  WokenRight
<1>1. CASE SchedulerFrame \/ QueuesIdle
  BY <1>1, SameWaiting DEF SchedulerFrame, QueuesIdle, QueueVars
<1>2. CASE QueueCall
  <2>2. ASSUME NEW q \in QueueId \cup {0}, NEW size \in Capacities,
               internal_mq_create(q, size)
        PROVE  WokenRight
    BY <2>2, SameWaiting DEF internal_mq_create, CreateRejected, CreateAdds, Answer, QueueVars
  <2>3. ASSUME NEW q \in QueueId \cup {0}, internal_mq_destroy(q)
        PROVE  WokenRight
    BY <2>3, SameWaiting, DestroyWakes DEF internal_mq_destroy, DestroyRejected, Answer, QueueVars
  <2>4. ASSUME NEW q \in QueueId \cup {0}, NEW size \in SendSizes,
               internal_mq_send(q, size)
        PROVE  WokenRight
    BY <2>4, SendWakes, MessageQueueAssumption
  <2>5. ASSUME NEW q \in QueueId \cup {0}, NEW size \in BufferSizes,
               internal_mq_receive(q, size)
        PROVE  WokenRight
    BY <2>5, ReceiveWakes, MessageQueueAssumption
  <2> QED BY <1>2, <2>2, <2>3, <2>4, <2>5 DEF QueueCall
<1> QED BY <1>1, <1>2 DEF QueuesStep

(***************************************************************************)
(* Whoever stops waiting at a queue, because of a message, of space or of  *)
(* the queue's end, is ready and has the result that fits.                 *)
(***************************************************************************)
THEOREM EverybodyWokenWithResult == Spec => WokenWithResult
<1>1. Inv /\ [Next]_vars => [WokenRight]_vars
  BY NextIsStep, NextWakes DEF Inv
<1> QED BY <1>1, QueueInvariant, PTL DEF Spec, WokenWithResult

-----------------------------------------------------------------------------
(***************************************************************************)
(* What the queues give their callers, under the two premises that the     *)
(* code leaves to those who use it.                                        *)
(*                                                                         *)
(* With a process that only computes (Callers # Proc) a caller that has to *)
(* wait always can: somebody takes the processor, no call fails instead of *)
(* blocking, and no sleeper ever runs and blocks a second time.  With      *)
(* buffers that hold every message (BuffersSuffice) a sender waits at a    *)
(* full queue only, and the queues implement the channels of FifoChannel.  *)
(***************************************************************************)
Awake == OthersCompute /\ SleepersDoNotRun

BlockingInv == CallInv /\ Awake /\ NeverLinkedTwice /\ BlocksInsteadOfFailing

Refusals == {DSOS_EMQFULL, DSOS_EMQEMPTY}

\* A process that returns something else does not fail to block.
LEMMA ReturnsOther ==
  ASSUME BlockingInv, NEW v \in Int, v \notin Refusals, Return(v)
  PROVE  BlocksInsteadOfFailing'
BY DEF BlockingInv, BlocksInsteadOfFailing, Return, Refusals, CallInv, ListsHold

\* Nobody starts to wait, and the same process runs.
LEMMA SameAwake ==
  ASSUME BlockingInv, UNCHANGED ProcVars
  PROVE  Awake'
BY DEF BlockingInv, Awake, OthersCompute, SleepersDoNotRun, ProcVars

\* Nobody starts to wait when others become ready.
LEMMA MakeReadyAwake ==
  ASSUME BlockingInv, NEW ps, MakeReady(ps)
  PROVE  Awake'
BY DEF BlockingInv, Awake, OthersCompute, SleepersDoNotRun, MakeReady, Ready, Waiting

\* A call that returns another error, or nothing.
LEMMA AnswerAwake ==
  ASSUME BlockingInv, NEW v \in Int, v \notin Refusals, Answer(v)
  PROVE  Awake' /\ NeverLinkedTwice' /\ BlocksInsteadOfFailing'
<1>1. Return(v) /\ UNCHANGED ProcVars /\ UNCHANGED list_broken
  BY DEF Answer
<1>2. NeverLinkedTwice'
  BY <1>1 DEF BlockingInv, NeverLinkedTwice
<1> QED BY <1>1, <1>2, ReturnsOther, SameAwake

\* A caller that runs can hand the processor over.
LEMMA CanBlock ==
  ASSUME BlockingInv, ready_list # << >>
  PROVE  Schedulable(ready_list, timer_list) /\ ~Linked(running)
BY DEF BlockingInv, Awake, Schedulable, Linked, SleepersDoNotRun

\* A caller that blocks.
LEMMA BlockAwake ==
  ASSUME BlockingInv, running \in Callers, Block, UNCHANGED list_broken
  PROVE  Awake' /\ NeverLinkedTwice' /\ BlocksInsteadOfFailing'
<1> DEFINE st == [status EXCEPT ![running] = Waiting]
<1>1. /\ Schedulable(ready_list, timer_list) /\ running \notin waiting_list
      /\ Return(NoResult)
      /\ internal_schedule(st, ready_list, waiting_list, timer_list)
  BY DEF Block, Linked
<1>2. CallInv /\ ListsHold /\ status \in [Proc -> AnyStatus]
  BY DEF BlockingInv, CallInv, ListsHold
<1>3. ConsistentIn(AnyStatus, st, ready_list, waiting_list, timer_list)
  BY <1>1, <1>2, BlockConsistent
<1>4. \A p \in Proc \ Callers : st[p] # Waiting
  BY <1>2 DEF BlockingInv, Awake, OthersCompute
<1> HIDE DEF st
<1>5. Awake'
  <2>1. /\ running' \in Proc /\ status'[running'] = Running
        /\ \A p \in waiting_list' : status'[p] = Waiting
        /\ \A p \in Proc : status'[p] = Waiting
                             <=> st[p] = Waiting /\ p \notin waiting_list \ waiting_list'
    BY <1>1, <1>3, ScheduleAny
  <2> QED BY <1>4, <2>1 DEF Awake, OthersCompute, SleepersDoNotRun, Running, Waiting
<1>6. BlocksInsteadOfFailing'
  <2>1. NoResult \in Int /\ NoResult \notin Refusals
    BY DEF NoResult, Refusals, DSOS_EMQFULL, DSOS_EMQEMPTY
  <2> QED BY <1>1, <2>1, ReturnsOther
<1>7. NeverLinkedTwice'
  BY DEF BlockingInv, NeverLinkedTwice
<1> QED BY <1>5, <1>6, <1>7

\* A call that completes the one a peer is blocked in.
LEMMA CompletesAwake ==
  ASSUME BlockingInv, NEW p \in Proc, NEW own \in Int \ Refusals, NEW v \in Int \ Refusals,
         MakeReady(<< p >>), Completes(own, p, v), UNCHANGED list_broken
  PROVE  Awake' /\ NeverLinkedTwice' /\ BlocksInsteadOfFailing'
<1>1. BlocksInsteadOfFailing'
  BY DEF BlockingInv, BlocksInsteadOfFailing, Completes, Refusals, CallInv, ListsHold
<1>2. NeverLinkedTwice'
  BY DEF BlockingInv, NeverLinkedTwice
<1>3. Awake'
  BY MakeReadyAwake
<1> QED BY <1>1, <1>2, <1>3

-----------------------------------------------------------------------------
\* The scheduler's own steps.
LEMMA SchedulerAwake ==
  ASSUME Inv, BlockingInv, Callers # Proc, SchedulerFrame,
         timerInterrupt \/ internal_preempt \/ internal_sleep
  PROVE  Awake' /\ NeverLinkedTwice' /\ BlocksInsteadOfFailing'
<1>1. AwakeInv
  BY DEF BlockingInv, Awake, Inv, AwakeInv
<1>2. Awake'
  BY <1>1, TimerInterruptAwake, PreemptAwake, SleepAwake DEF Awake
<1>3. NeverLinkedTwice'
  BY DEF BlockingInv, NeverLinkedTwice, SchedulerFrame
<1>4. Return(NoResult) \/ Return(DSOS_ESLEEP) \/ Return(0)
  BY DEF timerInterrupt, internal_preempt, internal_sleep, ResultRead, SleepRefused, SleepStarts
<1>5. /\ NoResult \in Int \ Refusals
      /\ DSOS_ESLEEP \in Int \ Refusals
      /\ 0 \in Int \ Refusals
  BY DEF NoResult, DSOS_ESLEEP, Refusals, DSOS_EMQFULL, DSOS_EMQEMPTY
<1>6. BlocksInsteadOfFailing'
  BY <1>4, <1>5, ReturnsOther
<1> QED BY <1>2, <1>3, <1>6

\* mq_send.
LEMMA SendAwake ==
  ASSUME BlockingInv, running \in Callers, ready_list # << >>,
         NEW q \in QueueId \cup {0}, NEW size \in Int, internal_mq_send(q, size)
  PROVE  Awake' /\ NeverLinkedTwice' /\ BlocksInsteadOfFailing'
<1> USE DEF Refusals, DSOS_EMQFULL, DSOS_EMQEMPTY
<1>1. CASE SendRejected(q, size)
  <2>1. SendError(q, size) \in Int /\ SendError(q, size) \notin Refusals
    BY DEF SendError, DSOS_EBUFFER, DSOS_EMQINVALID
  <2> QED BY <1>1, <2>1, AnswerAwake DEF SendRejected
<1>2. CASE SendWithoutBlock(q, size)
  BY <1>2, AnswerAwake DEF SendWithoutBlock, DSOS_EBUFFER
<1>3. CASE SendBlocks(q, size)
  BY <1>3, CanBlock, BlockAwake DEF SendBlocks, LinkTwice, CannotBlock
<1>4. CASE SendEnqueues(q, size)
  <2>1. Return(0) /\ UNCHANGED ProcVars /\ UNCHANGED list_broken
    BY <1>4 DEF SendEnqueues
  <2>2. NeverLinkedTwice'
    BY <2>1 DEF BlockingInv, NeverLinkedTwice
  <2> QED BY <2>1, <2>2, ReturnsOther, SameAwake
<1>5. CASE SendHandsOver(q, size)
  <2> DEFINE queued   == Append(messages[q], Message_alloc(size, running))
             msg      == Head(queued)
             receiver == Head(waiting_receivers[q])
             p        == receiver.pcb
             v        == IF msg.size <= receiver.size THEN msg.size ELSE DSOS_EBUFFER
  <2>1. /\ q \in resources_list /\ size \in 1 .. MESSAGE_MAX_SIZE
        /\ waiting_receivers[q] # << >>
        /\ MakeReady(<< p >>) /\ Completes(0, p, v) /\ UNCHANGED list_broken
    BY <1>5 DEF SendHandsOver, SendLegal, ReceiverWaits
  <2>2. /\ q \in QueueId /\ messages[q] = << >>
        /\ waiting_receivers[q] \in Seq(Entries(Nat \ {0}))
    BY <2>1 DEF BlockingInv, CallInv, QueueInv, QueueTypes, ReceiversWaitOnEmpty, IsEmpty, Lists
  <2>3. p \in Proc
    BY <2>1, <2>2, PcbsTail DEF Entries
  <2>4. msg.size = size
    <3>1. msg = Message_alloc(size, running)
      BY <2>2
    <3> QED BY <3>1 DEF Message_alloc, Message
  <2>5. v \in Int \ Refusals /\ 0 \in Int \ Refusals
    BY <2>1, <2>4 DEF DSOS_EBUFFER
  <2> HIDE DEF p, v
  <2> QED BY <2>1, <2>3, <2>5, CompletesAwake
<1> QED BY <1>1, <1>2, <1>3, <1>4, <1>5 DEF internal_mq_send

\* mq_receive.
LEMMA ReceiveAwake ==
  ASSUME BlockingInv, running \in Callers, ready_list # << >>,
         NEW q \in QueueId \cup {0}, NEW size \in Int, internal_mq_receive(q, size)
  PROVE  Awake' /\ NeverLinkedTwice' /\ BlocksInsteadOfFailing'
<1> USE DEF Refusals, DSOS_EMQFULL, DSOS_EMQEMPTY
<1> DEFINE msg == Head(messages[q])
<1>0. CallInv
  BY DEF BlockingInv
<1>1. CASE ReceiveRejected(q, size)
  <2>1. ReceiveError(q, size) \in Int /\ ReceiveError(q, size) \notin Refusals
    BY DEF ReceiveError, DSOS_EBUFFER, DSOS_EMQINVALID
  <2> QED BY <1>1, <2>1, AnswerAwake DEF ReceiveRejected
<1>2. CASE ReceiveBlocks(q, size)
  BY <1>2, CanBlock, BlockAwake DEF ReceiveBlocks, LinkTwice, CannotBlock
<1>3. CASE ReceiveDiscards(q, size) \/ ReceiveTakes(q, size)
  <2>1. /\ Return(DSOS_EBUFFER) \/ Return(msg.size)
        /\ q \in resources_list /\ ~IsEmpty(q)
        /\ UNCHANGED ProcVars /\ UNCHANGED list_broken
    BY <1>3 DEF ReceiveDiscards, ReceiveTakes, ReceiveLegal
  <2>2. msg.size \in 1 .. MESSAGE_MAX_SIZE
    BY <1>0, <2>1, FirstMessage DEF MessageRecord
  <2>3. msg.size \in Int \ Refusals /\ DSOS_EBUFFER \in Int \ Refusals
    BY <2>2 DEF DSOS_EBUFFER
  <2> HIDE DEF msg
  <2>4. NeverLinkedTwice'
    BY <2>1 DEF BlockingInv, NeverLinkedTwice
  <2> QED BY <2>1, <2>3, <2>4, ReturnsOther, SameAwake
<1>4. CASE ReceiveRefills(q, size)
  <2> DEFINE p == Head(waiting_senders[q]).pcb
  <2>1. /\ q \in resources_list /\ ~IsEmpty(q) /\ waiting_senders[q] # << >>
        /\ Completes(msg.size, p, 0) /\ MakeReady(<< p >>) /\ UNCHANGED list_broken
    BY <1>4 DEF ReceiveRefills, ReceiveLegal, SenderWaits
  <2>2. msg.size \in 1 .. MESSAGE_MAX_SIZE
    BY <1>0, <2>1, FirstMessage DEF MessageRecord
  <2>3. msg.size \in Int \ Refusals /\ 0 \in Int \ Refusals
    BY <2>2
  <2>4. waiting_senders[q] \in Seq(Entries(1 .. MESSAGE_MAX_SIZE))
    BY <1>0, <2>1 DEF CallInv, QueueInv, QueueTypes, Lists
  <2>5. p \in Proc
    BY <2>1, <2>4, PcbsTail DEF Entries
  <2> HIDE DEF p, msg
  <2> QED BY <2>1, <2>3, <2>5, CompletesAwake
<1> QED BY <1>1, <1>2, <1>3, <1>4 DEF internal_mq_receive

\* mq_create and mq_destroy.
LEMMA CreateDestroyAwake ==
  ASSUME BlockingInv, NEW q \in QueueId \cup {0}, NEW size \in Int,
         internal_mq_create(q, size) \/ internal_mq_destroy(q)
  PROVE  Awake' /\ NeverLinkedTwice' /\ BlocksInsteadOfFailing'
<1> USE DEF Refusals, DSOS_EMQFULL, DSOS_EMQEMPTY
<1>1. CASE CreateRejected(q, size)
  <2>1. CreateError(q, size) \in Int /\ CreateError(q, size) \notin Refusals
    BY DEF CreateError, DSOS_EMQINVALID, DSOS_EMQEXISTS, DSOS_EMQCREATE
  <2> QED BY <1>1, <2>1, AnswerAwake DEF CreateRejected
<1>2. CASE CreateAdds(q, size)
  <2>1. Return(q) /\ UNCHANGED ProcVars /\ UNCHANGED list_broken /\ q \in QueueId
    BY <1>2 DEF CreateAdds, CreateLegal
  <2>2. q \in Int /\ q \notin Refusals
    BY <2>1, MessageQueueAssumption
  <2>3. NeverLinkedTwice'
    BY <2>1 DEF BlockingInv, NeverLinkedTwice
  <2> QED BY <2>1, <2>2, <2>3, ReturnsOther, SameAwake
<1>3. CASE DestroyRejected(q)
  BY <1>3, AnswerAwake DEF DestroyRejected, DSOS_EMQINVALID
<1>4. CASE DestroyRemoves(q)
  <2> DEFINE woken == Pcbs(waiting_receivers[q]) \o Pcbs(waiting_senders[q])
  <2>1. /\ q \in resources_list /\ MakeReady(woken) /\ UNCHANGED list_broken
        /\ syscall_retvalue' = [p \in Proc |->
             IF p = running THEN q
             ELSE IF p \in Range(woken) THEN DSOS_EMQNOTOPEN
             ELSE syscall_retvalue[p]]
    BY <1>4 DEF DestroyRemoves
  <2>2. q \notin Refusals /\ DSOS_EMQNOTOPEN \notin Refusals
    BY <2>1, MessageQueueAssumption DEF DSOS_EMQNOTOPEN
  <2> HIDE DEF woken
  <2>3. BlocksInsteadOfFailing'
    BY <2>1, <2>2 DEF BlockingInv, BlocksInsteadOfFailing
  <2>4. NeverLinkedTwice'
    BY <2>1 DEF BlockingInv, NeverLinkedTwice
  <2> QED BY <2>1, <2>3, <2>4, MakeReadyAwake
<1> QED BY <1>1, <1>2, <1>3, <1>4 DEF internal_mq_create, internal_mq_destroy

\* Any call of the queues, while somebody is ready.
LEMMA CallBlocking ==
  ASSUME BlockingInv, running \in Callers, ready_list # << >>, QueueCall
  PROVE  BlockingInv'
<1>1. CallInv'
  BY CallKeepsInv DEF BlockingInv
<1>2. ASSUME NEW q \in QueueId \cup {0}, NEW size \in Capacities,
             internal_mq_create(q, size)
      PROVE  BlockingInv'
  BY <1>1, <1>2, CreateDestroyAwake, MessageQueueAssumption DEF BlockingInv
<1>3. ASSUME NEW q \in QueueId \cup {0}, internal_mq_destroy(q)
      PROVE  BlockingInv'
  <2>1. 0 \in Int
    OBVIOUS
  <2> QED BY <1>1, <1>3, <2>1, CreateDestroyAwake DEF BlockingInv
<1>4. ASSUME NEW q \in QueueId \cup {0}, NEW size \in SendSizes,
             internal_mq_send(q, size)
      PROVE  BlockingInv'
  BY <1>1, <1>4, SendAwake, MessageQueueAssumption DEF BlockingInv
<1>5. ASSUME NEW q \in QueueId \cup {0}, NEW size \in BufferSizes,
             internal_mq_receive(q, size)
      PROVE  BlockingInv'
  BY <1>1, <1>5, ReceiveAwake, MessageQueueAssumption DEF BlockingInv
<1> QED BY <1>2, <1>3, <1>4, <1>5 DEF QueueCall

\* The invariant is inductive.
LEMMA NextBlocking ==
  ASSUME Inv, BlockingInv, Callers # Proc, [Next]_vars
  PROVE  Inv' /\ BlockingInv'
<1>1. Inv' /\ CallInv'
  BY NextQueues DEF Inv
<1>2. CASE Tick
  BY <1>1, <1>2, SchedulerAwake DEF Tick, BlockingInv
<1>3. CASE Syscall
  <2>1. running \in Callers /\ ready_list # << >>
    BY <1>3, SomebodyReady DEF Syscall, Inv, BlockingInv, Awake
  <2>2. CASE (internal_preempt \/ internal_sleep) /\ SchedulerFrame
    BY <1>1, <2>2, SchedulerAwake DEF BlockingInv
  <2>3. CASE QueueCall
    BY <1>1, <2>1, <2>3, CallBlocking
  <2> QED BY <1>3, <2>2, <2>3 DEF Syscall
<1>4. CASE UNCHANGED vars
  BY <1>1, <1>4 DEF vars, SchedulerVars, BlockingInv, Awake, OthersCompute, SleepersDoNotRun,
                    NeverLinkedTwice, BlocksInsteadOfFailing
<1> QED BY <1>2, <1>3, <1>4 DEF Next

\* The invariant holds when some process only computes.
LEMMA BlockingInvariant ==
  ASSUME Callers # Proc
  PROVE  Spec => [](Inv /\ BlockingInv)
<1>1. Init => Inv /\ BlockingInv
  <2> SUFFICES ASSUME Init
               PROVE  Inv /\ BlockingInv
    OBVIOUS
  <2>1. Inv
    BY InitQueues
  <2>2. Awake
    BY DEF Init, SchedulerInit, Awake, OthersCompute, SleepersDoNotRun, Running, Ready, Waiting
  <2>3. NeverLinkedTwice /\ BlocksInsteadOfFailing
    BY DEF Init, QueuesInit, SchedulerInit, NeverLinkedTwice, BlocksInsteadOfFailing, NoResult,
           DSOS_EMQFULL, DSOS_EMQEMPTY
  <2> QED BY <2>1, <2>2, <2>3 DEF BlockingInv, Inv
<1>2. Inv /\ BlockingInv /\ [Next]_vars => (Inv /\ BlockingInv)'
  BY NextBlocking
<1> QED BY <1>1, <1>2, PTL DEF Spec

(***************************************************************************)
(* With a process that only computes no PCB is ever inserted into a second *)
(* list, so the check at the top of List_insert never fails for a blocking *)
(* call.                                                                   *)
(***************************************************************************)
THEOREM NobodyLinkedTwice ==
  ASSUME Callers # Proc
  PROVE  Spec => []NeverLinkedTwice
<1>1. BlockingInv => NeverLinkedTwice
  BY DEF BlockingInv
<1> QED BY <1>1, BlockingInvariant, PTL

(***************************************************************************)
(* With a process that only computes mq_send blocks at a full queue and    *)
(* mq_receive at an empty one: they never return EMQFULL or EMQEMPTY.      *)
(***************************************************************************)
THEOREM AlwaysBlocks ==
  ASSUME Callers # Proc
  PROVE  Spec => []BlocksInsteadOfFailing
<1>1. BlockingInv => BlocksInsteadOfFailing
  BY DEF BlockingInv
<1> QED BY <1>1, BlockingInvariant, PTL

-----------------------------------------------------------------------------
(***************************************************************************)
(* The premise of what follows: whoever receives brings a buffer that      *)
(* holds every message, or one that mq_receive refuses at once.  Without   *)
(* it a message is dropped and its place is not refilled.                  *)
(***************************************************************************)
BuffersSuffice == \A size \in BufferSizes : size <= 0 \/ size >= MESSAGE_MAX_SIZE

\* Then no message is discarded.
LEMMA NothingDiscarded ==
  ASSUME BuffersSuffice, CallInv, NEW q, NEW size \in BufferSizes
  PROVE  ~ReceiveDiscards(q, size)
<1> SUFFICES ASSUME ReceiveDiscards(q, size)
             PROVE  FALSE
  OBVIOUS
<1>1. q \in resources_list /\ ~IsEmpty(q) /\ size > 0 /\ size < Head(messages[q]).size
  BY DEF ReceiveDiscards, ReceiveLegal
<1>2. Head(messages[q]).size \in 1 .. MESSAGE_MAX_SIZE
  BY <1>1, FirstMessage DEF MessageRecord
<1> QED BY <1>1, <1>2, MessageQueueAssumption DEF BuffersSuffice

\* Nobody waits in a list whose PCBs are those of nobody.
LEMMA NobodyListed ==
  ASSUME NEW T, NEW list \in Seq(Entries(T)), Range(Pcbs(list)) = {}
  PROVE  list = << >>
<1> SUFFICES ASSUME list # << >>
             PROVE  FALSE
  OBVIOUS
<1> DEFINE ps == Pcbs(list)
<1>1. ps \in Seq(Proc) /\ ps # << >>
  BY PcbsTail
<1> HIDE DEF ps
<1>2. Range(ps) = {Head(ps)} \cup Range(Tail(ps))
  BY <1>1, DetachHead
<1> QED BY <1>2 DEF ps

\* A queue that does not exist has nobody in its lists.
LEMMA NobodyAtNoQueue ==
  ASSUME CallInv, NEW q \in QueueId, q \notin resources_list
  PROVE  waiting_senders[q] = << >> /\ waiting_receivers[q] = << >>
<1> DEFINE T == 1 .. MESSAGE_MAX_SIZE
           U == Nat \ {0}
<1>1. waiting_senders[q] \in Seq(Entries(T)) /\ waiting_receivers[q] \in Seq(Entries(U))
  BY DEF CallInv, QueueInv, QueueTypes, Lists
<1>2. Range(Pcbs(waiting_senders[q])) = {} /\ Range(Pcbs(waiting_receivers[q])) = {}
  BY DEF CallInv, QueueInv, CountsMatch, BlockedOn
<1> HIDE DEF T, U
<1> QED BY <1>1, <1>2, NobodyListed

\* The senders of every queue, and its space, stay as they are.
LEMMA SameSpace ==
  ASSUME SendersWaitOnFull,
         UNCHANGED << waiting_senders, current_messages, max_messages >>
  PROVE  SendersWaitOnFull'
BY DEF SendersWaitOnFull, IsFull

\* What happens at queue q leaves its senders at a full queue.
LEMMA SpaceOfOne ==
  ASSUME SendersWaitOnFull, NEW q \in QueueId,
         \A x \in QueueId \ {q} : /\ waiting_senders'[x] = waiting_senders[x]
                                  /\ current_messages'[x] = current_messages[x]
                                  /\ max_messages'[x] = max_messages[x],
         waiting_senders'[q] # << >> => current_messages'[q] >= max_messages'[q]
  PROVE  SendersWaitOnFull'
BY DEF SendersWaitOnFull, IsFull

\* No step makes space at a queue and leaves somebody waiting for it.
LEMMA NextSenders ==
  ASSUME BuffersSuffice, CallInv, SendersWaitOnFull, QueuesStep
  PROVE  SendersWaitOnFull'
<1>0. /\ waiting_senders \in Lists(1 .. MESSAGE_MAX_SIZE)
      /\ current_messages \in [QueueId -> Nat]
      /\ max_messages \in [QueueId -> 0 .. MAX_MESSAGES_PER_QUEUE]
      /\ resources_list \subseteq QueueId
  BY DEF CallInv, QueueInv, QueueTypes
<1>1. CASE SchedulerFrame \/ QueuesIdle
  BY <1>1, SameSpace DEF SchedulerFrame, QueuesIdle, QueueVars
<1>2. CASE QueueCall
  <2>2. ASSUME NEW q \in QueueId \cup {0}, NEW size \in Capacities,
               internal_mq_create(q, size)
        PROVE  SendersWaitOnFull'
    <3>1. CASE CreateRejected(q, size)
      BY <3>1, SameSpace DEF CreateRejected, Answer, QueueVars
    <3>2. CASE CreateAdds(q, size)
      <4>1. /\ q \in QueueId /\ q \notin resources_list
            /\ max_messages' = [max_messages EXCEPT ![q] = size]
            /\ UNCHANGED << waiting_senders, current_messages >>
        BY <3>2 DEF CreateAdds, CreateLegal
      <4> QED BY <1>0, <4>1, NobodyAtNoQueue, SpaceOfOne
    <3> QED BY <2>2, <3>1, <3>2 DEF internal_mq_create
  <2>3. ASSUME NEW q \in QueueId \cup {0}, internal_mq_destroy(q)
        PROVE  SendersWaitOnFull'
    <3>1. CASE DestroyRejected(q)
      BY <3>1, SameSpace DEF DestroyRejected, Answer, QueueVars
    <3>2. CASE DestroyRemoves(q)
      <4>1. /\ q \in QueueId
            /\ waiting_senders' = [waiting_senders EXCEPT ![q] = << >>]
            /\ current_messages' = [current_messages EXCEPT ![q] = 0]
            /\ max_messages' = [max_messages EXCEPT ![q] = 0]
        BY <1>0, <3>2 DEF DestroyRemoves
      <4>2. waiting_senders'[q] = << >>
        BY <1>0, <4>1 DEF Lists
      <4>3. \A x \in QueueId \ {q} : /\ waiting_senders'[x] = waiting_senders[x]
                                     /\ current_messages'[x] = current_messages[x]
                                     /\ max_messages'[x] = max_messages[x]
        BY <1>0, <4>1 DEF Lists
      <4> QED BY <4>1, <4>2, <4>3, SpaceOfOne
    <3> QED BY <2>3, <3>1, <3>2 DEF internal_mq_destroy
  <2>4. ASSUME NEW q \in QueueId \cup {0}, NEW size \in SendSizes,
               internal_mq_send(q, size)
        PROVE  SendersWaitOnFull'
    <3>1. CASE UNCHANGED << waiting_senders, current_messages, max_messages >>
      BY <3>1, SameSpace
    <3>2. CASE SendBlocks(q, size)
               /\ waiting_senders' = [waiting_senders EXCEPT
                                        ![q] = WaitsLast(@, Entry(running, size))]
               /\ UNCHANGED << current_messages, max_messages >>
      <4>1. q \in QueueId /\ current_messages[q] >= max_messages[q]
        BY <1>0, <3>2 DEF SendBlocks, SendLegal, IsFull
      <4>2. \A x \in QueueId \ {q} : waiting_senders'[x] = waiting_senders[x]
        BY <1>0, <3>2 DEF Lists
      <4> QED BY <3>2, <4>1, <4>2, SpaceOfOne
    <3>3. CASE SendEnqueues(q, size)
      <4>1. /\ q \in QueueId /\ ~IsFull(q)
            /\ current_messages' = [current_messages EXCEPT ![q] = @ + 1]
            /\ UNCHANGED << waiting_senders, max_messages >>
        BY <1>0, <3>3 DEF SendEnqueues, SendLegal
      <4>2. waiting_senders[q] = << >>
        BY <4>1 DEF SendersWaitOnFull
      <4> QED BY <1>0, <4>1, <4>2, SpaceOfOne
    <3> QED BY <2>4, <3>1, <3>2, <3>3 DEF internal_mq_send, SendRejected, SendBlocks,
           SendWithoutBlock, SendHandsOver, Answer, QueueVars, LinkTwice, CannotBlock
  <2>5. ASSUME NEW q \in QueueId \cup {0}, NEW size \in BufferSizes,
               internal_mq_receive(q, size)
        PROVE  SendersWaitOnFull'
    <3>1. CASE UNCHANGED << waiting_senders, current_messages, max_messages >>
      BY <3>1, SameSpace
    <3>2. CASE ReceiveTakes(q, size)
      <4>1. /\ q \in QueueId /\ waiting_senders[q] = << >>
            /\ current_messages' = [current_messages EXCEPT ![q] = @ - 1]
            /\ UNCHANGED << waiting_senders, max_messages >>
        BY <1>0, <3>2 DEF ReceiveTakes, ReceiveLegal, SenderWaits, MessageTaken
      <4> QED BY <1>0, <4>1, SpaceOfOne
    <3>3. CASE ReceiveRefills(q, size)
      <4>1. /\ q \in QueueId /\ waiting_senders[q] # << >>
            /\ waiting_senders' = [waiting_senders EXCEPT ![q] = Tail(@)]
            /\ UNCHANGED << current_messages, max_messages >>
        BY <1>0, <3>3 DEF ReceiveRefills, ReceiveLegal, SenderWaits
      <4>2. current_messages[q] >= max_messages[q]
        BY <4>1 DEF SendersWaitOnFull, IsFull
      <4>3. \A x \in QueueId \ {q} : waiting_senders'[x] = waiting_senders[x]
        BY <1>0, <4>1 DEF Lists
      <4> QED BY <4>1, <4>2, <4>3, SpaceOfOne
    <3>4. ~ReceiveDiscards(q, size)
      BY NothingDiscarded
    <3> QED BY <2>5, <3>1, <3>2, <3>3, <3>4 DEF internal_mq_receive, ReceiveRejected,
           ReceiveBlocks, Answer, QueueVars, LinkTwice, CannotBlock
  <2> QED BY <1>2, <2>2, <2>3, <2>4, <2>5 DEF QueueCall
<1> QED BY <1>1, <1>2 DEF QueuesStep

\* Senders wait at full queues only, with the invariant that this rests on.
LEMMA SendersInvariant ==
  ASSUME BuffersSuffice
  PROVE  Spec => [](Inv /\ SendersWaitOnFull)
<1>1. Init => Inv /\ SendersWaitOnFull
  <2>1. Init => SendersWaitOnFull
    BY DEF Init, QueuesInit, SendersWaitOnFull
  <2> QED BY <2>1, InitQueues
<1>2. Inv /\ SendersWaitOnFull /\ [Next]_vars => (Inv /\ SendersWaitOnFull)'
  BY NextQueues, NextIsStep, NextSenders DEF Inv
<1> QED BY <1>1, <1>2, PTL DEF Spec

(***************************************************************************)
(* Every mq_receive that takes a message lets a waiting sender go on, so   *)
(* with buffers that suffice nobody waits for space that is there.         *)
(***************************************************************************)
THEOREM SendersAlwaysWaitOnFull ==
  ASSUME BuffersSuffice
  PROVE  Spec => []SendersWaitOnFull
<1> QED BY SendersInvariant, PTL

-----------------------------------------------------------------------------
\* The authors of a list of messages are a list of as many processes.
LEMMA AuthorsOfList ==
  ASSUME NEW T, \A m \in T : m.data \in Proc, NEW list \in Seq(T)
  PROVE  /\ Authors(list) \in Seq(Proc)
         /\ Len(Authors(list)) = Len(list)
         /\ \A i \in 1 .. Len(list) : Authors(list)[i] = list[i].data
<1>1. Len(list) \in Nat /\ DOMAIN list = 1 .. Len(list)
      /\ \A i \in 1 .. Len(list) : list[i] \in T
  BY LenProperties, ElementOfSeq
<1>2. \A i \in 1 .. Len(list) : list[i].data \in Proc
  BY <1>1
<1>3. Authors(list) \in [1 .. Len(list) -> Proc]
  BY <1>1, <1>2 DEF Authors
<1>4. Authors(list) \in Seq(Proc)
  BY <1>1, <1>3, SeqDef
<1>5. Len(Authors(list)) = Len(list)
  BY <1>1, <1>3, <1>4, LenProperties
<1> QED BY <1>1, <1>3, <1>4, <1>5 DEF Authors

\* A new message is by the last author.
LEMMA AuthorsAppend ==
  ASSUME NEW T, \A m \in T : m.data \in Proc, NEW list \in Seq(T), NEW msg \in T
  PROVE  Authors(Append(list, msg)) = Append(Authors(list), msg.data)
<1> DEFINE new == Append(list, msg)
           xs  == Append(Authors(list), msg.data)
<1>1. /\ new \in Seq(T) /\ Len(new) = Len(list) + 1
      /\ \A i \in 1 .. Len(list) : new[i] = list[i]
      /\ new[Len(list) + 1] = msg
  BY AppendProperties
<1>2. Len(list) \in Nat /\ msg.data \in Proc
  BY LenProperties
<1>3. /\ Authors(list) \in Seq(Proc) /\ Len(Authors(list)) = Len(list)
      /\ \A i \in 1 .. Len(list) : Authors(list)[i] = list[i].data
  BY AuthorsOfList
<1>4. /\ xs \in Seq(Proc) /\ Len(xs) = Len(list) + 1
      /\ \A i \in 1 .. Len(list) : xs[i] = Authors(list)[i]
      /\ xs[Len(list) + 1] = msg.data
  BY <1>2, <1>3, AppendProperties
<1> HIDE DEF new, xs
<1>5. /\ Authors(new) \in Seq(Proc) /\ Len(Authors(new)) = Len(list) + 1
      /\ \A i \in 1 .. Len(list) + 1 : Authors(new)[i] = new[i].data
  BY <1>1, AuthorsOfList
<1>6. \A i \in 1 .. Len(list) + 1 : Authors(new)[i] = xs[i]
  <2> SUFFICES ASSUME NEW i \in 1 .. Len(list) + 1
               PROVE  Authors(new)[i] = xs[i]
    OBVIOUS
  <2>1. CASE i \in 1 .. Len(list)
    BY <1>1, <1>3, <1>4, <1>5, <2>1
  <2>2. CASE i = Len(list) + 1
    BY <1>1, <1>4, <1>5, <2>2
  <2> QED BY <1>2, <2>1, <2>2
<1>7. Authors(new) = xs
  BY <1>4, <1>5, <1>6, SeqEqual
<1> QED BY <1>7 DEF new, xs

\* The oldest message is by the first author.
LEMMA AuthorsTail ==
  ASSUME NEW T, \A m \in T : m.data \in Proc, NEW list \in Seq(T), list # << >>
  PROVE  /\ Authors(list) \in Seq(Proc)
         /\ Authors(list) # << >>
         /\ Head(Authors(list)) = Head(list).data
         /\ Authors(Tail(list)) = Tail(Authors(list))
<1> DEFINE tail == Tail(list)
           xs   == Authors(list)
<1>1. /\ tail \in Seq(T) /\ Len(tail) = Len(list) - 1
      /\ \A i \in 1 .. Len(tail) : tail[i] = list[i + 1]
      /\ Head(list) = list[1]
  BY HeadTailProperties
<1>2. Len(list) \in Nat /\ Len(list) > 0
  BY LenProperties, EmptySeq
<1>3. /\ xs \in Seq(Proc) /\ Len(xs) = Len(list)
      /\ \A i \in 1 .. Len(list) : xs[i] = list[i].data
  BY AuthorsOfList
<1> HIDE DEF tail, xs
<1>4. /\ Authors(tail) \in Seq(Proc) /\ Len(Authors(tail)) = Len(list) - 1
      /\ \A i \in 1 .. Len(list) - 1 : Authors(tail)[i] = tail[i].data
  BY <1>1, AuthorsOfList
<1>5. xs # << >>
  BY <1>2, <1>3, EmptySeq
<1>6. /\ Tail(xs) \in Seq(Proc) /\ Len(Tail(xs)) = Len(list) - 1
      /\ \A i \in 1 .. Len(Tail(xs)) : Tail(xs)[i] = xs[i + 1]
      /\ Head(xs) = xs[1]
  BY <1>3, <1>5, HeadTailProperties
<1>7. \A i \in 1 .. Len(list) - 1 : Authors(tail)[i] = Tail(xs)[i]
  <2> SUFFICES ASSUME NEW i \in 1 .. Len(list) - 1
               PROVE  Authors(tail)[i] = Tail(xs)[i]
    OBVIOUS
  <2>1. i + 1 \in 1 .. Len(list)
    BY <1>2
  <2> QED BY <1>1, <1>3, <1>4, <1>6, <2>1
<1>8. Authors(tail) = Tail(xs)
  BY <1>4, <1>6, <1>7, SeqEqual
<1>9. Head(xs) = Head(list).data
  BY <1>1, <1>2, <1>3, <1>6
<1> QED BY <1>3, <1>5, <1>8, <1>9 DEF tail, xs

\* An element behind the second of two lists is behind both.
LEMMA ConcatAppend ==
  ASSUME NEW S, NEW a \in Seq(S), NEW b \in Seq(S), NEW e \in S
  PROVE  a \o Append(b, e) = Append(a \o b, e)
<1>1. a \o b \in Seq(S) /\ << e >> \in Seq(S)
  BY ConcatProperties, Singleton
<1>2. Append(b, e) = b \o << e >> /\ Append(a \o b, e) = (a \o b) \o << e >>
  BY <1>1, AppendIsConcat
<1> QED BY <1>1, <1>2, ConcatAssociative

\* The first of two lists ends with the first element of the second.
LEMMA ConcatShift ==
  ASSUME NEW S, NEW a \in Seq(S), NEW b \in Seq(S), b # << >>
  PROVE  Append(a, Head(b)) \o Tail(b) = a \o b
<1> DEFINE e == Head(b)
           t == Tail(b)
<1>1. e \in S /\ t \in Seq(S) /\ << e >> \in Seq(S)
  BY HeadTailProperties, Singleton
<1>2. b = << e >> \o t
  <2>1. /\ Len(b) \in Nat /\ Len(b) > 0 /\ e = b[1]
        /\ Len(t) = Len(b) - 1 /\ \A i \in 1 .. Len(t) : t[i] = b[i + 1]
    BY LenProperties, EmptySeq, HeadTailProperties
  <2> HIDE DEF e, t
  <2> DEFINE c == << e >> \o t
  <2>2. /\ c \in Seq(S) /\ Len(c) = Len(b)
        /\ \A i \in 1 .. Len(b) : c[i] = IF i <= 1 THEN e ELSE t[i - 1]
    <3>1. Len(<< e >>) = 1 /\ << e >>[1] = e
      OBVIOUS
    <3>2. /\ c \in Seq(S) /\ Len(c) = Len(<< e >>) + Len(t)
          /\ \A i \in 1 .. Len(<< e >>) + Len(t) :
               c[i] = IF i <= Len(<< e >>) THEN << e >>[i] ELSE t[i - Len(<< e >>)]
      BY <1>1, ConcatProperties
    <3> HIDE DEF c
    <3>3. Len(c) = Len(b)
      BY <2>1, <3>1, <3>2
    <3> QED BY <2>1, <3>1, <3>2, <3>3
  <2> HIDE DEF c
  <2>3. ASSUME NEW i \in 1 .. Len(b)
        PROVE  c[i] = b[i]
    BY <2>1, <2>2
  <2>4. c = b
    BY <2>2, <2>3, SeqEqual
  <2> QED BY <2>4 DEF c
<1> HIDE DEF e, t
<1>3. Append(a, e) = a \o << e >>
  BY <1>1, AppendIsConcat
<1> QED BY <1>1, <1>2, <1>3, ConcatAssociative DEF e, t

\* The head and the tail of two lists are those of the first.
LEMMA ConcatHeadTail ==
  ASSUME NEW S, NEW a \in Seq(S), NEW b \in Seq(S), a # << >>
  PROVE  /\ a \o b # << >>
         /\ Head(a \o b) = Head(a)
         /\ Tail(a \o b) = Tail(a) \o b
<1> DEFINE c == a \o b
           d == Tail(a) \o b
<1>1. Len(a) \in Nat /\ Len(a) > 0 /\ Len(b) \in Nat
  BY LenProperties, EmptySeq
<1>2. /\ c \in Seq(S) /\ Len(c) = Len(a) + Len(b)
      /\ \A i \in 1 .. Len(a) + Len(b) : c[i] = IF i <= Len(a) THEN a[i] ELSE b[i - Len(a)]
  BY ConcatProperties
<1>3. /\ Tail(a) \in Seq(S) /\ Len(Tail(a)) = Len(a) - 1
      /\ \A i \in 1 .. Len(Tail(a)) : Tail(a)[i] = a[i + 1]
      /\ Head(a) = a[1]
  BY HeadTailProperties
<1>4. /\ d \in Seq(S) /\ Len(d) = Len(Tail(a)) + Len(b)
      /\ \A i \in 1 .. Len(Tail(a)) + Len(b) :
           d[i] = IF i <= Len(Tail(a)) THEN Tail(a)[i] ELSE b[i - Len(Tail(a))]
  BY <1>3, ConcatProperties
<1> HIDE DEF c, d
<1>5. c # << >> /\ Head(c) = Head(a)
  <2>1. c # << >>
    BY <1>1, <1>2, EmptySeq
  <2>2. Head(c) = c[1]
    BY <1>2, <2>1
  <2> QED BY <1>1, <1>2, <1>3, <2>1, <2>2
<1>6. /\ Tail(c) \in Seq(S) /\ Len(Tail(c)) = Len(c) - 1
      /\ \A i \in 1 .. Len(Tail(c)) : Tail(c)[i] = c[i + 1]
  BY <1>2, <1>5, HeadTailProperties
<1>7. \A i \in 1 .. Len(Tail(c)) : Tail(c)[i] = d[i]
  <2> SUFFICES ASSUME NEW i \in 1 .. Len(Tail(c))
               PROVE  Tail(c)[i] = d[i]
    OBVIOUS
  <2>1. Tail(c)[i] = c[i + 1] /\ i + 1 \in 1 .. Len(a) + Len(b) /\ i \in 1 .. Len(a) - 1 + Len(b)
    BY <1>1, <1>2, <1>6
  <2>2. CASE i <= Len(a) - 1
    BY <1>1, <1>2, <1>3, <1>4, <2>1, <2>2
  <2>3. CASE i > Len(a) - 1
    <3>1. d[i] = b[i - (Len(a) - 1)] /\ c[i + 1] = b[i + 1 - Len(a)]
      BY <1>1, <1>2, <1>3, <1>4, <2>1, <2>3
    <3>2. i - (Len(a) - 1) = i + 1 - Len(a)
      BY <1>1, <2>1
    <3> QED BY <2>1, <3>1, <3>2
  <2> QED BY <1>1, <2>1, <2>2, <2>3
<1>8. Len(Tail(c)) = Len(d)
  BY <1>1, <1>2, <1>3, <1>4, <1>6
<1>9. Tail(c) = d
  BY <1>4, <1>6, <1>7, <1>8, SeqEqual
<1> QED BY <1>5, <1>9 DEF c, d

-----------------------------------------------------------------------------
\* Buffers for every message, and waiting receivers that brought such a buffer.
LargeSizes == { s \in Nat \ {0} : s >= MESSAGE_MAX_SIZE }
LargeBuffers == waiting_receivers \in Lists(LargeSizes)

\* The variables of the channels, as the queues represent them.
AbstractVars == << resources_list, content, readers, user_buffer >>

\* The lists of a queue are lists of processes.
LEMMA ListsOfQueue ==
  ASSUME CallInv, NEW q \in QueueId
  PROVE  /\ messages[q] \in Seq(MessageRecord)
         /\ waiting_receivers[q] \in Seq(Entries(Nat \ {0}))
         /\ waiting_senders[q] \in Seq(Entries(1 .. MESSAGE_MAX_SIZE))
         /\ Authors(messages[q]) \in Seq(Proc)
         /\ Pcbs(waiting_senders[q]) \in Seq(Proc)
         /\ Pcbs(waiting_receivers[q]) \in Seq(Proc)
<1> DEFINE T == Nat \ {0}
           U == 1 .. MESSAGE_MAX_SIZE
<1>1. /\ messages[q] \in Seq(MessageRecord)
      /\ waiting_receivers[q] \in Seq(Entries(T))
      /\ waiting_senders[q] \in Seq(Entries(U))
  BY DEF CallInv, QueueInv, QueueTypes, Lists
<1>2. \A m \in MessageRecord : m.data \in Proc
  BY DEF MessageRecord
<1> HIDE DEF T, U
<1>3. Authors(messages[q]) \in Seq(Proc)
  BY <1>1, <1>2, AuthorsOfList
<1>4. Pcbs(waiting_senders[q]) \in Seq(Proc) /\ Pcbs(waiting_receivers[q]) \in Seq(Proc)
  BY <1>1, PcbsOfList
<1> QED BY <1>1, <1>3, <1>4 DEF T, U

\* An empty list has no PCBs and no authors.
LEMMA NoPcbs == Pcbs(<< >>) = << >> /\ Authors(<< >>) = << >>
<1>1. << >> \in Seq(Entries(Nat)) /\ Len(<< >>) = 0
  BY EmptySeq
<1>2. Pcbs(<< >>) \in Seq(Proc) /\ Len(Pcbs(<< >>)) = 0
  BY <1>1, PcbsOfList
<1>3. << >> \in Seq(MessageRecord)
  BY EmptySeq
<1>4. \A m \in MessageRecord : m.data \in Proc
  BY DEF MessageRecord
<1>5. Authors(<< >>) \in Seq(Proc) /\ Len(Authors(<< >>)) = 0
  BY <1>1, <1>3, <1>4, AuthorsOfList
<1> QED BY <1>2, <1>5, EmptySeq

\* The queues but q keep their messages and senders.
LEMMA ContentStep ==
  ASSUME NEW q \in QueueId, NEW new,
         \A x \in QueueId \ {q} : /\ messages'[x] = messages[x]
                                  /\ waiting_senders'[x] = waiting_senders[x],
         Authors(messages'[q]) \o Pcbs(waiting_senders'[q]) = new
  PROVE  content' = [content EXCEPT ![q] = new]
<1>1. content' = [x \in QueueId |-> Authors(messages'[x]) \o Pcbs(waiting_senders'[x])]
  BY DEF content, Authors, Pcbs
<1>2. \A x \in QueueId : content'[x] = IF x = q THEN new ELSE content[x]
  BY <1>1 DEF content
<1> QED BY <1>1, <1>2 DEF content

\* The queues but q keep their receivers.
LEMMA ReadersStep ==
  ASSUME NEW q \in QueueId, NEW new,
         \A x \in QueueId \ {q} : waiting_receivers'[x] = waiting_receivers[x],
         Pcbs(waiting_receivers'[q]) = new
  PROVE  readers' = [readers EXCEPT ![q] = new]
<1>1. readers' = [x \in QueueId |-> Pcbs(waiting_receivers'[x])]
  BY DEF readers, Pcbs
<1>2. \A x \in QueueId : readers'[x] = IF x = q THEN new ELSE readers[x]
  BY <1>1 DEF readers
<1> QED BY <1>1, <1>2 DEF readers

\* Messages and senders that stay as they are.
LEMMA SameContent ==
  ASSUME UNCHANGED << messages, waiting_senders >>
  PROVE  content' = content
BY DEF content, Authors, Pcbs

\* Likewise for the receivers.
LEMMA SameReaders ==
  ASSUME UNCHANGED waiting_receivers
  PROVE  readers' = readers
BY DEF readers, Pcbs

\* The caller is one of the users of the channels.
LEMMA RunnerIsProc ==
  ASSUME CallInv
  PROVE  running \in Proc
BY DEF CallInv, ListsHold

\* An action that leaves the queues alone.
LEMMA ConsumeStep ==
  ASSUME CallInv, BufferRead, UNCHANGED QueueVars
  PROVE  Channels!Next
<1>1. content' = content /\ readers' = readers /\ resources_list' = resources_list
  BY SameContent, SameReaders DEF QueueVars
<1>2. Channels!Consume(running)
  BY <1>1 DEF Channels!Consume, Channels!Consumed, BufferRead
<1> QED BY <1>2, RunnerIsProc DEF Channels!Next

\* mq_create opens a channel.
LEMMA CreateStep ==
  ASSUME CallInv, NEW q \in QueueId \cup {0}, NEW size, internal_mq_create(q, size)
  PROVE  Channels!Next
<1>1. CASE CreateRejected(q, size)
  BY <1>1, ConsumeStep DEF CreateRejected, Answer
<1>2. CASE CreateAdds(q, size)
  <2>1. /\ q \in QueueId /\ q \notin resources_list
        /\ resources_list' = resources_list \cup {q}
        /\ BufferRead
        /\ UNCHANGED << messages, waiting_receivers, waiting_senders >>
    BY <1>2 DEF CreateAdds, CreateLegal
  <2>2. Channels!Open(running, q)
    BY <2>1, SameContent, SameReaders DEF Channels!Open, Channels!Consumed, BufferRead
  <2> QED BY <2>1, <2>2, RunnerIsProc DEF Channels!Next
<1> QED BY <1>1, <1>2 DEF internal_mq_create

\* mq_destroy closes one.
LEMMA DestroyStep ==
  ASSUME CallInv, NEW q \in QueueId \cup {0}, internal_mq_destroy(q)
  PROVE  Channels!Next
<1>1. CASE DestroyRejected(q)
  BY <1>1, ConsumeStep DEF DestroyRejected, Answer
<1>2. CASE DestroyRemoves(q)
  <2>1. /\ q \in resources_list
        /\ waiting_receivers' = [waiting_receivers EXCEPT ![q] = << >>]
        /\ waiting_senders' = [waiting_senders EXCEPT ![q] = << >>]
        /\ messages' = [messages EXCEPT ![q] = << >>]
        /\ resources_list' = resources_list \ {q}
        /\ BufferRead
    BY <1>2 DEF DestroyRemoves
  <2>2. /\ q \in QueueId
        /\ \A x \in QueueId \ {q} : /\ messages'[x] = messages[x]
                                    /\ waiting_senders'[x] = waiting_senders[x]
                                    /\ waiting_receivers'[x] = waiting_receivers[x]
        /\ messages'[q] = << >> /\ waiting_senders'[q] = << >>
        /\ waiting_receivers'[q] = << >>
    BY <2>1 DEF CallInv, QueueInv, QueueTypes, Lists
  <2>3. << >> \o << >> = << >>
    BY EmptySeq, ConcatEmptySeq
  <2>4. content' = [content EXCEPT ![q] = << >>]
    <3> DEFINE new == << >>
    <3>1. Authors(messages'[q]) \o Pcbs(waiting_senders'[q]) = new
      BY <2>2, <2>3, NoPcbs
    <3> HIDE DEF new
    <3>2. content' = [content EXCEPT ![q] = new]
      BY <2>2, <3>1, ContentStep
    <3> QED BY <3>2 DEF new
  <2>5. readers' = [readers EXCEPT ![q] = << >>]
    BY <2>2, NoPcbs, ReadersStep
  <2>6. Channels!Close(running, q)
    BY <2>1, <2>4, <2>5 DEF Channels!Close, Channels!Consumed, BufferRead
  <2> QED BY <2>2, <2>6, RunnerIsProc DEF Channels!Next
<1> QED BY <1>1, <1>2 DEF internal_mq_destroy

\* mq_send puts a message in, at once or when it blocks, or passes it on.
LEMMA SendStep ==
  ASSUME CallInv, SendersWaitOnFull, LargeBuffers,
         NEW q \in QueueId \cup {0}, NEW size \in Int, internal_mq_send(q, size)
  PROVE  Channels!Next \/ UNCHANGED AbstractVars
<1> DEFINE m == messages[q]
           R == waiting_receivers[q]
           S == waiting_senders[q]
           U == 1 .. MESSAGE_MAX_SIZE
<1>0. ASSUME q \in QueueId
      PROVE  /\ m \in Seq(MessageRecord) /\ S \in Seq(Entries(U))
             /\ Authors(m) \in Seq(Proc) /\ Pcbs(S) \in Seq(Proc)
             /\ messages \in [QueueId -> Seq(MessageRecord)]
             /\ waiting_senders \in [QueueId -> Seq(Entries(U))]
             /\ waiting_receivers \in [QueueId -> Seq(Entries(Nat \ {0}))]
             /\ content[q] = Authors(m) \o Pcbs(S)
             /\ readers[q] = Pcbs(R)
             /\ R \in Seq(Entries(Nat \ {0}))
  BY <1>0, ListsOfQueue DEF content, readers, CallInv, QueueInv, QueueTypes, Lists
<1> HIDE DEF U
<1>1. CASE BufferRead /\ UNCHANGED QueueVars
  BY <1>1, ConsumeStep
<1>2. CASE LinkTwice
  <2>1. UNCHANGED << resources_list, messages, waiting_senders, waiting_receivers, user_buffer >>
    BY <1>2 DEF LinkTwice, QueueVars
  <2> QED BY <2>1, SameContent, SameReaders DEF AbstractVars
<1>3. CASE /\ SendLegal(q, size) /\ IsFull(q) /\ Block
           /\ waiting_senders' = [waiting_senders EXCEPT
                                    ![q] = WaitsLast(@, Entry(running, size))]
           /\ UNCHANGED << resources_list, max_messages, current_messages, messages,
                           waiting_receivers, free_messages, list_broken >>
  <2>1. q \in resources_list /\ q \in QueueId /\ size \in U /\ BufferRead
    BY <1>3 DEF SendLegal, CallInv, QueueInv, QueueTypes, Block, U
  <2> DEFINE e == Entry(running, size)
  <2>2. e \in Entries(U) /\ e.pcb = running
    BY <2>1, RunnerIsProc DEF Entry, Entries
  <2> HIDE DEF e
  <2>3. Pcbs(WaitsLast(S, e)) = Append(Pcbs(S), running)
    BY <1>0, <2>1, <2>2, PcbsAppend
  <2>4. Authors(m) \o Append(Pcbs(S), running) = Append(content[q], running)
    <3>1. Authors(m) \in Seq(Proc) /\ Pcbs(S) \in Seq(Proc)
          /\ content[q] = Authors(m) \o Pcbs(S)
      BY <1>0, <2>1
    <3> QED BY <3>1, RunnerIsProc, ConcatAppend
  <2>5. /\ \A x \in QueueId \ {q} : /\ messages'[x] = messages[x]
                                    /\ waiting_senders'[x] = waiting_senders[x]
        /\ waiting_senders'[q] = WaitsLast(S, e)
        /\ messages'[q] = m
    BY <1>0, <1>3, <2>1 DEF e
  <2>6. content' = [content EXCEPT ![q] = Append(content[q], running)]
    <3>1. Authors(messages'[q]) \o Pcbs(waiting_senders'[q]) = Append(content[q], running)
      BY <2>3, <2>4, <2>5
    <3> HIDE DEF m, S
    <3> QED BY <2>1, <2>5, <3>1, ContentStep
  <2>7. readers' = readers
    BY <1>3, SameReaders
  <2>8. readers[q] = << >>
    \* The queue is full, so it is not empty.
    <3>1. R = << >>
      <4>1. current_messages[q] >= max_messages[q] /\ max_messages[q] > 0
            /\ current_messages[q] = Len(messages[q])
        BY <1>3, <2>1 DEF IsFull, CallInv, QueueInv, CountsMatch
      <4>2. max_messages[q] \in Nat
        BY <2>1 DEF CallInv, QueueInv, QueueTypes
      <4>3. messages[q] # << >>
        BY <4>1, <4>2, EmptySeq
      <4> QED BY <2>1, <4>3 DEF CallInv, QueueInv, ReceiversWaitOnEmpty, IsEmpty
    <3> QED BY <1>0, <2>1, <3>1, NoPcbs
  <2>9. Channels!Send(running, q)
    BY <1>3, <2>1, <2>6, <2>7, <2>8 DEF Channels!Send, Channels!Consumed, BufferRead
  <2> QED BY <2>1, <2>9, RunnerIsProc DEF Channels!Next
<1>4. CASE SendEnqueues(q, size)
  <2> DEFINE msg == Message_alloc(size, running)
  <2>1. /\ q \in resources_list /\ q \in QueueId /\ size \in 1 .. MESSAGE_MAX_SIZE
        /\ ~IsFull(q) /\ R = << >>
        /\ messages' = [messages EXCEPT ![q] = Append(@, msg)]
        /\ BufferRead
        /\ UNCHANGED << resources_list, waiting_receivers, waiting_senders >>
    BY <1>4 DEF SendEnqueues, SendLegal, ReceiverWaits, CallInv, QueueInv, QueueTypes
  <2>2. msg \in MessageRecord /\ msg.data = running
    BY <2>1, RunnerIsProc DEF Message_alloc, Message, MessageRecord
  <2> HIDE DEF msg
  <2>3. S = << >>
    BY <2>1 DEF SendersWaitOnFull
  <2>4. Authors(Append(m, msg)) = Append(Authors(m), running)
    <3>1. \A x \in MessageRecord : x.data \in Proc
      BY DEF MessageRecord
    <3>2. m \in Seq(MessageRecord)
      BY <1>0, <2>1
    <3> QED BY <2>2, <3>1, <3>2, AuthorsAppend
  <2>5. /\ \A x \in QueueId \ {q} : /\ messages'[x] = messages[x]
                                    /\ waiting_senders'[x] = waiting_senders[x]
        /\ messages'[q] = Append(m, msg) /\ waiting_senders'[q] = << >>
    BY <1>0, <2>1, <2>3
  <2>6. content[q] = Authors(m)
        /\ Append(Authors(m), running) \o << >> = Append(Authors(m), running)
    <3>1. Authors(m) \in Seq(Proc) /\ content[q] = Authors(m) \o << >>
      BY <1>0, <2>1, <2>3, NoPcbs
    <3>2. Append(Authors(m), running) \in Seq(Proc)
      BY <3>1, RunnerIsProc, AppendProperties
    <3> QED BY <3>1, <3>2, ConcatEmptySeq
  <2>7. content' = [content EXCEPT ![q] = Append(content[q], running)]
    BY <2>1, <2>4, <2>5, <2>6, NoPcbs, ContentStep
  <2>8. readers' = readers /\ readers[q] = << >>
    BY <1>0, <2>1, SameReaders, NoPcbs
  <2>9. Channels!Send(running, q)
    BY <2>1, <2>7, <2>8 DEF Channels!Send, Channels!Consumed, BufferRead
  <2> QED BY <2>1, <2>9, RunnerIsProc DEF Channels!Next
<1>5. CASE SendHandsOver(q, size)
  <2> DEFINE queued   == Append(messages[q], Message_alloc(size, running))
             msg      == Head(queued)
             receiver == Head(R)
             p        == receiver.pcb
             fits     == msg.size <= receiver.size
             tail     == Tail(queued)
  <2>0. /\ q \in resources_list /\ size \in 1 .. MESSAGE_MAX_SIZE
        /\ ~IsFull(q) /\ R # << >>
        /\ messages' = [messages EXCEPT ![q] = tail]
        /\ waiting_receivers' = [waiting_receivers EXCEPT ![q] = Tail(@)]
        /\ user_buffer' = [user_buffer EXCEPT ![running] = NoData,
                             ![p] = IF fits THEN msg.data ELSE @]
        /\ UNCHANGED << resources_list, waiting_senders >>
    BY <1>5 DEF SendHandsOver, SendLegal, ReceiverWaits
  <2>1. q \in QueueId /\ messages[q] = << >> /\ S = << >>
    BY <2>0 DEF CallInv, QueueInv, QueueTypes, ReceiversWaitOnEmpty, IsEmpty, SendersWaitOnFull
  <2>2. msg = Message_alloc(size, running) /\ tail = << >>
    BY <2>1
  <2>3. msg.size = size /\ msg.data = running
    BY <2>2 DEF Message_alloc, Message
  <2>4. R \in Seq(Entries(LargeSizes))
    BY <2>1 DEF LargeBuffers, Lists
  <2>5. receiver \in Entries(LargeSizes) /\ Head(Pcbs(R)) = p
        /\ Pcbs(Tail(R)) = Tail(Pcbs(R)) /\ Pcbs(R) # << >>
    BY <2>0, <2>4, PcbsTail
  <2>6. fits
    BY <2>0, <2>3, <2>5, MessageQueueAssumption DEF Entries, LargeSizes
  <2> HIDE DEF msg, fits, tail, queued, receiver
  <2>7. user_buffer' = [user_buffer EXCEPT ![running] = NoData, ![p] = running]
    BY <2>0, <2>3, <2>6
  <2>8. messages' = messages
    BY <1>0, <2>0, <2>1, <2>2
  <2>9. content' = content /\ content[q] = << >>
    <3>1. << >> \o << >> = << >>
      BY EmptySeq, ConcatEmptySeq
    <3> QED BY <1>0, <2>0, <2>1, <2>8, <3>1, NoPcbs, SameContent
  <2>10. readers' = [readers EXCEPT ![q] = Tail(readers[q])]
    <3>1. /\ \A x \in QueueId \ {q} : waiting_receivers'[x] = waiting_receivers[x]
          /\ waiting_receivers'[q] = Tail(R)
      BY <1>0, <2>0, <2>1
    <3>2. Pcbs(waiting_receivers'[q]) = Tail(readers[q])
      BY <1>0, <2>1, <2>5, <3>1
    <3> QED BY <2>1, <3>1, <3>2, ReadersStep
  <2>11. readers[q] # << >> /\ Head(readers[q]) = p
    BY <1>0, <2>1, <2>5
  <2> HIDE DEF p
  <2>12. Channels!Pass(running, q)
    BY <2>0, <2>7, <2>9, <2>10, <2>11 DEF Channels!Pass
  <2> QED BY <2>1, <2>12, RunnerIsProc DEF Channels!Next
<1> QED BY <1>1, <1>2, <1>3, <1>4, <1>5 DEF internal_mq_send, SendRejected, SendBlocks,
           SendWithoutBlock, Answer, CannotBlock

\* mq_receive takes a message out, or waits for one.
LEMMA ReceiveStep ==
  ASSUME BuffersSuffice, CallInv, SendersWaitOnFull,
         NEW q \in QueueId \cup {0}, NEW size \in BufferSizes, internal_mq_receive(q, size)
  PROVE  Channels!Next \/ UNCHANGED AbstractVars
<1> DEFINE m == messages[q]
           R == waiting_receivers[q]
           S == waiting_senders[q]
           T == Nat \ {0}
           U == 1 .. MESSAGE_MAX_SIZE
<1>0. ASSUME q \in QueueId
      PROVE  /\ m \in Seq(MessageRecord) /\ S \in Seq(Entries(U))
             /\ Authors(m) \in Seq(Proc) /\ Pcbs(S) \in Seq(Proc)
             /\ messages \in [QueueId -> Seq(MessageRecord)]
             /\ waiting_senders \in [QueueId -> Seq(Entries(U))]
             /\ waiting_receivers \in [QueueId -> Seq(Entries(T))]
             /\ content[q] = Authors(m) \o Pcbs(S)
             /\ readers[q] = Pcbs(R)
             /\ R \in Seq(Entries(T))
  BY <1>0, ListsOfQueue DEF content, readers, CallInv, QueueInv, QueueTypes, Lists
<1> HIDE DEF T, U
<1>1. CASE BufferRead /\ UNCHANGED QueueVars
  BY <1>1, ConsumeStep
<1>2. CASE LinkTwice
  <2>1. UNCHANGED << resources_list, messages, waiting_senders, waiting_receivers, user_buffer >>
    BY <1>2 DEF LinkTwice, QueueVars
  <2> QED BY <2>1, SameContent, SameReaders DEF AbstractVars
<1>3. CASE /\ ReceiveLegal(q, size) /\ IsEmpty(q) /\ Block
           /\ waiting_receivers' = [waiting_receivers EXCEPT
                                      ![q] = WaitsLast(@, Entry(running, size))]
           /\ UNCHANGED << resources_list, max_messages, current_messages, messages,
                           waiting_senders, free_messages, list_broken >>
  <2>1. /\ q \in resources_list /\ q \in QueueId /\ size \in T /\ BufferRead
        /\ m = << >> /\ running \notin waiting_list
    BY <1>3, MessageQueueAssumption
       DEF ReceiveLegal, CallInv, QueueInv, QueueTypes, Block, Linked, IsEmpty, T
  <2> DEFINE e == Entry(running, size)
  <2>2. e \in Entries(T) /\ e.pcb = running
    BY <2>1, RunnerIsProc DEF Entry, Entries
  <2> HIDE DEF e
  <2>3. Pcbs(WaitsLast(R, e)) = Append(Pcbs(R), running)
    BY <1>0, <2>1, <2>2, PcbsAppend
  <2>4. readers' = [readers EXCEPT ![q] = Append(readers[q], running)]
    <3>1. /\ \A x \in QueueId \ {q} : waiting_receivers'[x] = waiting_receivers[x]
          /\ waiting_receivers'[q] = WaitsLast(R, e)
      BY <1>0, <1>3, <2>1 DEF e
    <3>2. Pcbs(waiting_receivers'[q]) = Append(readers[q], running)
      BY <1>0, <2>1, <2>3, <3>1
    <3> HIDE DEF R
    <3> QED BY <2>1, <3>1, <3>2, ReadersStep
  <2>5. S = << >>
    \* Otherwise the queue, which is empty, would be full.
    <3>1. /\ max_messages[q] > 0 /\ current_messages[q] = Len(messages[q])
          /\ max_messages[q] \in Nat
      BY <2>1 DEF CallInv, QueueInv, CountsMatch, QueueTypes
    <3>2. current_messages[q] = 0
      BY <2>1, <3>1, EmptySeq
    <3> QED BY <2>1, <3>1, <3>2 DEF SendersWaitOnFull, IsFull
  <2>6. content' = content /\ content[q] = << >>
    <3>1. << >> \o << >> = << >>
      BY EmptySeq, ConcatEmptySeq
    <3> QED BY <1>0, <1>3, <2>1, <2>5, <3>1, NoPcbs, SameContent
  <2>7. running \notin Range(readers[q])
    <3>1. running \notin InQueues
      BY <2>1, RunnerFree
    <3> QED BY <1>0, <2>1, <3>1 DEF InQueues, AllOn, On
  <2>8. Channels!Wait(running, q)
    BY <1>3, <2>1, <2>4, <2>6, <2>7 DEF Channels!Wait, Channels!Consumed,
       Channels!Range, Range, BufferRead
  <2> QED BY <2>1, <2>8, RunnerIsProc DEF Channels!Next
<1>4. ASSUME q \in QueueId, m # << >>
      PROVE  /\ Authors(m) # << >> /\ Tail(m) \in Seq(MessageRecord)
             /\ Head(Authors(m)) = Head(m).data
             /\ Authors(Tail(m)) = Tail(Authors(m))
             /\ content[q] # << >> /\ Head(content[q]) = Head(m).data
             /\ Tail(content[q]) = Tail(Authors(m)) \o Pcbs(S)
             /\ Tail(Authors(m)) \in Seq(Proc)
             /\ readers[q] = << >>
  <2>1. \A x \in MessageRecord : x.data \in Proc
    BY DEF MessageRecord
  <2>2. m \in Seq(MessageRecord) /\ Authors(m) \in Seq(Proc) /\ Pcbs(S) \in Seq(Proc)
        /\ content[q] = Authors(m) \o Pcbs(S) /\ readers[q] = Pcbs(R)
    BY <1>0, <1>4
  <2>3. /\ Authors(m) # << >> /\ Head(Authors(m)) = Head(m).data
        /\ Authors(Tail(m)) = Tail(Authors(m)) /\ Tail(m) \in Seq(MessageRecord)
    BY <1>4, <2>1, <2>2, AuthorsTail, HeadTailProperties
  <2>4. R = << >>
    BY <1>4 DEF CallInv, QueueInv, ReceiversWaitOnEmpty, IsEmpty
  <2>5. readers[q] = << >>
    BY <2>2, <2>4, NoPcbs
  <2> HIDE DEF m, S
  <2>6. Tail(Authors(m)) \in Seq(Proc)
    BY <2>2, <2>3, HeadTailProperties
  <2>7. /\ content[q] # << >> /\ Head(content[q]) = Head(m).data
        /\ Tail(content[q]) = Tail(Authors(m)) \o Pcbs(S)
    BY <2>2, <2>3, ConcatHeadTail
  <2> QED BY <2>3, <2>5, <2>6, <2>7
<1>5. CASE ReceiveTakes(q, size)
  <2>1. /\ q \in resources_list /\ q \in QueueId
        /\ m # << >> /\ S = << >>
        /\ Delivered(Head(m))
        /\ messages' = [messages EXCEPT ![q] = Tail(@)]
        /\ UNCHANGED << resources_list, waiting_receivers, waiting_senders >>
    BY <1>5 DEF ReceiveTakes, ReceiveLegal, IsEmpty, SenderWaits, MessageTaken,
                CallInv, QueueInv, QueueTypes
  <2>2. /\ \A x \in QueueId \ {q} : /\ messages'[x] = messages[x]
                                    /\ waiting_senders'[x] = waiting_senders[x]
        /\ messages'[q] = Tail(m) /\ waiting_senders'[q] = S
    BY <1>0, <2>1
  <2>3. Authors(messages'[q]) \o Pcbs(waiting_senders'[q]) = Tail(content[q])
    BY <1>4, <2>1, <2>2
  <2>4. content' = [content EXCEPT ![q] = Tail(content[q])]
    <3> HIDE DEF m, S
    <3> QED BY <2>1, <2>2, <2>3, ContentStep
  <2>5. readers' = readers
    BY <2>1, SameReaders
  <2>6. user_buffer' = [user_buffer EXCEPT ![running] = Head(content[q])]
    BY <1>4, <2>1 DEF Delivered
  <2>7. Channels!Receive(running, q)
    BY <1>4, <2>1, <2>4, <2>5, <2>6 DEF Channels!Receive
  <2> QED BY <2>1, <2>7, RunnerIsProc DEF Channels!Next
<1>6. CASE ReceiveRefills(q, size)
  <2> DEFINE e   == Head(S)
             new == Message_alloc(e.size, e.pcb)
  <2>1. /\ q \in resources_list /\ q \in QueueId
        /\ m # << >> /\ S # << >>
        /\ Delivered(Head(m))
        /\ messages' = [messages EXCEPT ![q] = Append(Tail(@), new)]
        /\ waiting_senders' = [waiting_senders EXCEPT ![q] = Tail(@)]
        /\ UNCHANGED << resources_list, waiting_receivers >>
    BY <1>6 DEF ReceiveRefills, ReceiveLegal, IsEmpty, SenderWaits, CallInv, QueueInv, QueueTypes
  <2>2. /\ e \in Entries(U) /\ Pcbs(S) \in Seq(Proc) /\ Pcbs(S) # << >>
        /\ Head(Pcbs(S)) = e.pcb /\ Pcbs(Tail(S)) = Tail(Pcbs(S))
    BY <1>0, <2>1, PcbsTail
  <2>3. new \in MessageRecord /\ new.data = Head(Pcbs(S))
    BY <2>2, RunnerIsProc DEF Message_alloc, Message, MessageRecord, Entries, U
  <2>4. /\ \A x \in QueueId \ {q} : /\ messages'[x] = messages[x]
                                    /\ waiting_senders'[x] = waiting_senders[x]
        /\ messages'[q] = Append(Tail(m), new) /\ waiting_senders'[q] = Tail(S)
    BY <1>0, <2>1
  <2> HIDE DEF new, e
  <2>5. Authors(Append(Tail(m), new)) = Append(Tail(Authors(m)), Head(Pcbs(S)))
    <3>1. \A x \in MessageRecord : x.data \in Proc
      BY DEF MessageRecord
    <3>2. Tail(m) \in Seq(MessageRecord) /\ Authors(Tail(m)) = Tail(Authors(m))
      BY <1>4, <2>1
    <3> QED BY <2>3, <3>1, <3>2, AuthorsAppend
  <2>6. Append(Tail(Authors(m)), Head(Pcbs(S))) \o Tail(Pcbs(S)) = Tail(content[q])
    <3>1. Tail(Authors(m)) \in Seq(Proc) /\ Tail(content[q]) = Tail(Authors(m)) \o Pcbs(S)
      BY <1>4, <2>1
    <3> QED BY <2>2, <3>1, ConcatShift
  <2>7. content' = [content EXCEPT ![q] = Tail(content[q])]
    <3>1. Authors(messages'[q]) \o Pcbs(waiting_senders'[q]) = Tail(content[q])
      BY <2>2, <2>4, <2>5, <2>6
    <3> HIDE DEF m, S
    <3> QED BY <2>1, <2>4, <3>1, ContentStep
  <2>8. readers' = readers
    BY <2>1, SameReaders
  <2>9. user_buffer' = [user_buffer EXCEPT ![running] = Head(content[q])]
    BY <1>4, <2>1 DEF Delivered
  <2>10. Channels!Receive(running, q)
    BY <1>4, <2>1, <2>7, <2>8, <2>9 DEF Channels!Receive
  <2> QED BY <2>1, <2>10, RunnerIsProc DEF Channels!Next
<1>7. ~ReceiveDiscards(q, size)
  BY NothingDiscarded
<1> QED BY <1>1, <1>2, <1>3, <1>5, <1>6, <1>7 DEF internal_mq_receive, ReceiveRejected,
           ReceiveBlocks, Answer, CannotBlock

\* Every step of the queues is a step of the channels, or none.
LEMMA ChannelStep ==
  ASSUME BuffersSuffice, CallInv, SendersWaitOnFull, LargeBuffers, QueuesStep
  PROVE  [Channels!Next]_AbstractVars
<1>1. CASE SchedulerFrame
  BY <1>1, ConsumeStep DEF SchedulerFrame
<1>2. CASE QueueCall
  <2>2. ASSUME NEW q \in QueueId \cup {0}, NEW size \in Capacities,
               internal_mq_create(q, size)
        PROVE  Channels!Next
    BY <2>2, CreateStep
  <2>3. ASSUME NEW q \in QueueId \cup {0}, internal_mq_destroy(q)
        PROVE  Channels!Next
    BY <2>3, DestroyStep
  <2>4. ASSUME NEW q \in QueueId \cup {0}, NEW size \in SendSizes,
               internal_mq_send(q, size)
        PROVE  Channels!Next \/ UNCHANGED AbstractVars
    BY <2>4, SendStep, MessageQueueAssumption
  <2>5. ASSUME NEW q \in QueueId \cup {0}, NEW size \in BufferSizes,
               internal_mq_receive(q, size)
        PROVE  Channels!Next \/ UNCHANGED AbstractVars
    BY <2>5, ReceiveStep
  <2> QED BY <1>2, <2>2, <2>3, <2>4, <2>5 DEF QueueCall
<1>3. CASE QueuesIdle
  <2>1. UNCHANGED << resources_list, messages, waiting_senders, waiting_receivers, user_buffer >>
    BY <1>3 DEF QueuesIdle, QueueVars
  <2> QED BY <2>1, SameContent, SameReaders DEF AbstractVars
<1> QED BY <1>1, <1>2, <1>3 DEF QueuesStep

\* Whoever waits for a message has a buffer for it.
LEMMA NextBuffers ==
  ASSUME BuffersSuffice, CallInv, LargeBuffers, QueuesStep
  PROVE  LargeBuffers'
<1> DEFINE R == waiting_receivers
<1>1. CASE UNCHANGED waiting_receivers
  BY <1>1 DEF LargeBuffers
<1>2. ASSUME NEW q \in QueueId \cup {0}, NEW size \in BufferSizes, size > 0,
             R' = [R EXCEPT ![q] = WaitsLast(@, Entry(running, size))],
             q \in resources_list
      PROVE  LargeBuffers'
  <2> DEFINE e == Entry(running, size)
  <2>1. q \in QueueId /\ R \in [QueueId -> Seq(Entries(LargeSizes))]
    BY <1>2 DEF CallInv, QueueInv, QueueTypes, LargeBuffers, Lists
  <2>2. size \in LargeSizes
    BY <1>2, MessageQueueAssumption DEF BuffersSuffice, LargeSizes
  <2>3. e \in Entries(LargeSizes)
    BY <2>2, RunnerIsProc DEF Entry, Entries
  <2> HIDE DEF e
  <2>4. WaitsLast(R[q], e) \in Seq(Entries(LargeSizes))
    <3>1. R[q] \in Seq(Entries(LargeSizes))
      BY <2>1
    <3> QED BY <2>3, <3>1, PcbsAppend
  <2>5. R' = [R EXCEPT ![q] = WaitsLast(R[q], e)]
    BY <1>2 DEF e
  <2> QED BY <2>1, <2>4, <2>5 DEF LargeBuffers, Lists
<1>3. ASSUME NEW q \in QueueId \cup {0}, q \in resources_list, R[q] # << >>,
             R' = [R EXCEPT ![q] = Tail(@)]
      PROVE  LargeBuffers'
  <2>1. q \in QueueId /\ R \in [QueueId -> Seq(Entries(LargeSizes))]
    BY <1>3 DEF CallInv, QueueInv, QueueTypes, LargeBuffers, Lists
  <2>2. Tail(R[q]) \in Seq(Entries(LargeSizes))
    <3>1. R[q] \in Seq(Entries(LargeSizes))
      BY <2>1
    <3> QED BY <1>3, <3>1, PcbsTail
  <2> QED BY <1>3, <2>1, <2>2 DEF LargeBuffers, Lists
<1>4. ASSUME NEW q \in QueueId \cup {0}, R' = [R EXCEPT ![q] = << >>]
      PROVE  LargeBuffers'
  <2>1. << >> \in Seq(Entries(LargeSizes))
    BY EmptySeq
  <2> QED BY <1>4, <2>1 DEF LargeBuffers, Lists
<1>5. CASE QueueCall
  <2>2. ASSUME NEW q \in QueueId \cup {0}, NEW size \in Capacities,
               internal_mq_create(q, size)
        PROVE  LargeBuffers'
    BY <1>1, <2>2 DEF internal_mq_create, CreateRejected, CreateAdds, Answer, QueueVars
  <2>3. ASSUME NEW q \in QueueId \cup {0}, internal_mq_destroy(q)
        PROVE  LargeBuffers'
    BY <1>1, <1>4, <2>3 DEF internal_mq_destroy, DestroyRejected, DestroyRemoves, Answer, QueueVars
  <2>4. ASSUME NEW q \in QueueId \cup {0}, NEW size \in SendSizes,
               internal_mq_send(q, size)
        PROVE  LargeBuffers'
    BY <1>1, <1>3, <2>4 DEF internal_mq_send, SendRejected, SendBlocks, SendWithoutBlock,
       SendEnqueues, SendHandsOver, SendLegal, ReceiverWaits, Answer, QueueVars, LinkTwice,
       CannotBlock
  <2>5. ASSUME NEW q \in QueueId \cup {0}, NEW size \in BufferSizes,
               internal_mq_receive(q, size)
        PROVE  LargeBuffers'
    BY <1>1, <1>2, <2>5 DEF internal_mq_receive, ReceiveRejected, ReceiveBlocks,
       ReceiveDiscards, ReceiveTakes, ReceiveRefills, ReceiveLegal, Answer, QueueVars, LinkTwice,
       CannotBlock
  <2> QED BY <1>5, <2>2, <2>3, <2>4, <2>5 DEF QueueCall
<1>6. CASE SchedulerFrame \/ QueuesIdle
  BY <1>1, <1>6 DEF SchedulerFrame, QueuesIdle, QueueVars
<1> QED BY <1>5, <1>6 DEF QueuesStep

\* At boot the channels are closed and empty, and nobody waits.
LEMMA ChannelsStart ==
  ASSUME QueuesInit
  PROVE  Channels!Init /\ LargeBuffers
<1>1. << >> \o << >> = << >>
  BY EmptySeq, ConcatEmptySeq
<1>2. Channels!Init
  BY <1>1, NoPcbs DEF QueuesInit, Channels!Init, content, readers
<1>3. << >> \in Seq(Entries(LargeSizes))
  BY EmptySeq
<1> QED BY <1>2, <1>3 DEF QueuesInit, LargeBuffers, Lists

(***************************************************************************)
(* With buffers that suffice the queues are channels: whoever blocks, and  *)
(* whoever completes whose call, a message is delivered once, in the order *)
(* of the calls of mq_send, to the receivers in the order of theirs.       *)
(***************************************************************************)
THEOREM QueuesImplementChannels ==
  ASSUME BuffersSuffice
  PROVE  Spec => ImplementsChannels
<1>1. Init => Channels!Init /\ LargeBuffers
  BY ChannelsStart DEF Init
<1>2. Inv /\ LargeBuffers /\ [Next]_vars => LargeBuffers'
  BY NextIsStep, NextBuffers DEF Inv
<1>3. Inv /\ SendersWaitOnFull /\ LargeBuffers /\ [Next]_vars => [Channels!Next]_AbstractVars
  BY NextIsStep, ChannelStep DEF Inv
<1>4. [Channels!Next]_AbstractVars <=> [Channels!Next]_(Channels!channelVars)
  BY DEF AbstractVars, Channels!channelVars
<1> QED
  BY <1>1, <1>2, <1>3, <1>4, SendersInvariant, PTL
     DEF Spec, ImplementsChannels, Channels!Spec

=============================================================================
