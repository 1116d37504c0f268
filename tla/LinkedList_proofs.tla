-------------------------- MODULE LinkedList_proofs --------------------------
(***************************************************************************)
(* LinkedList for any number of lists and items: the pointers describe the *)
(* sequences.                                                              *)
(*                                                                         *)
(* The invariant is ListTypeOK, ItemsApart and PointersMatch together: an  *)
(* operation writes the links of two neighbours, and only because no item  *)
(* is in two lists do these writes leave every other list alone.           *)
(***************************************************************************)
EXTENDS LinkedList, SequenceTheorems, TLAPS

ListInv == ListTypeOK /\ ItemsApart /\ PointersMatch

\* d is the sequence c with x behind place k.
IsInserted(d, c, k, x) ==
  /\ Len(d) = Len(c) + 1
  /\ \A j \in 1 .. Len(c) + 1 :
       d[j] = IF j <= k THEN c[j] ELSE IF j = k + 1 THEN x ELSE c[j - 1]

LEMMA InsertedIs ==
  ASSUME NEW S, NEW s \in Seq(S), NEW k \in 0 .. Len(s), NEW item \in S
  PROVE  /\ Inserted(s, k, item) \in Seq(S)
         /\ IsInserted(Inserted(s, k, item), s, k, item)
  <1> DEFINE a == SubSeq(s, 1, k)
             b == SubSeq(s, k + 1, Len(s))
             front == a \o << item >>
  <1>1. /\ a \in Seq(S) /\ Len(a) = k
        /\ \A j \in 1 .. k : a[j] = s[j]
    OBVIOUS
  <1>2. /\ b \in Seq(S) /\ Len(b) = Len(s) - k
        /\ \A j \in 1 .. Len(s) - k : b[j] = s[j + k]
    OBVIOUS
  <1> HIDE DEF a, b
  <1>3. /\ front \in Seq(S) /\ Len(front) = k + 1
        /\ \A j \in 1 .. k : front[j] = s[j]
        /\ front[k + 1] = item
    BY <1>1
  <1> HIDE DEF front
  <1>4. /\ front \o b \in Seq(S) /\ Len(front \o b) = Len(front) + Len(b)
        /\ \A j \in 1 .. Len(front) + Len(b) :
             (front \o b)[j] = IF j <= Len(front) THEN front[j] ELSE b[j - Len(front)]
    BY <1>2, <1>3, ConcatProperties
  <1>5. Len(front) + Len(b) = Len(s) + 1
    BY <1>2, <1>3
  <1>6. ASSUME NEW j \in 1 .. Len(s) + 1
        PROVE  (front \o b)[j] = IF j <= k THEN s[j] ELSE IF j = k + 1 THEN item ELSE s[j - 1]
    <2>1. CASE j <= k
      BY <1>3, <1>4, <1>5, <2>1
    <2>2. CASE j = k + 1
      BY <1>3, <1>4, <1>5, <2>2
    <2>3. CASE j > k + 1
      <3>1. j - (k + 1) \in 1 .. Len(s) - k /\ (j - (k + 1)) + k = j - 1
        BY <2>3
      <3> DEFINE i == j - (k + 1)
      <3>2. i \in 1 .. Len(s) - k /\ i + k = j - 1
        BY <3>1
      <3>3. (front \o b)[j] = b[i]
        BY <1>3, <1>4, <1>5, <2>3
      <3> HIDE DEF i
      <3>4. b[i] = s[i + k]
        BY <1>2, <3>2
      <3>5. (front \o b)[j] = s[j - 1]
        BY <3>2, <3>3, <3>4
      <3> QED BY <2>3, <3>5
    <2>4. j <= k \/ j = k + 1 \/ j > k + 1
      OBVIOUS
    <2> QED BY <2>1, <2>2, <2>3, <2>4
  <1>7. /\ front \o b \in Seq(S)
        /\ IsInserted(front \o b, s, k, item)
    BY <1>4, <1>5, <1>6 DEF IsInserted
  <1> QED BY <1>7, Zenon DEF front, a, b, Inserted

LEMMA RemovedIs ==
  ASSUME NEW S, NEW s \in Seq(S), NEW k \in 1 .. Len(s)
  PROVE  /\ Removed(s, k) \in Seq(S)
         /\ Len(Removed(s, k)) = Len(s) - 1
         /\ \A j \in 1 .. Len(s) - 1 :
              Removed(s, k)[j] = IF j < k THEN s[j] ELSE s[j + 1]
  <1> DEFINE a == SubSeq(s, 1, k - 1)
             b == SubSeq(s, k + 1, Len(s))
  <1>1. /\ a \in Seq(S) /\ Len(a) = k - 1
        /\ \A j \in 1 .. k - 1 : a[j] = s[j]
    OBVIOUS
  <1>2. /\ b \in Seq(S) /\ Len(b) = Len(s) - k
        /\ \A j \in 1 .. Len(s) - k : b[j] = s[j + k]
    OBVIOUS
  <1> HIDE DEF a, b
  <1>3. /\ a \o b \in Seq(S) /\ Len(a \o b) = Len(s) - 1
        /\ \A j \in 1 .. Len(s) - 1 : (a \o b)[j] = IF j < k THEN a[j] ELSE b[j - (k - 1)]
    <2>1. a \in Seq(S) /\ b \in Seq(S)
      BY <1>1, <1>2
    <2>2. /\ a \o b \in Seq(S) /\ Len(a \o b) = Len(a) + Len(b)
          /\ \A j \in 1 .. Len(a) + Len(b) :
               (a \o b)[j] = IF j <= Len(a) THEN a[j] ELSE b[j - Len(a)]
      BY <2>1, ConcatProperties
    <2> QED BY <1>1, <1>2, <2>1, <2>2
  <1>4. \A j \in 1 .. Len(s) - 1 : (a \o b)[j] = IF j < k THEN s[j] ELSE s[j + 1]
    <2> TAKE j \in 1 .. Len(s) - 1
    <2>1. CASE j < k
      BY <1>1, <1>3, <2>1
    <2>2. CASE ~(j < k)
      <3> DEFINE i == j - (k - 1)
      <3>1. i \in 1 .. Len(s) - k /\ i + k = j + 1
        BY <2>2
      <3>2. (a \o b)[j] = b[i]
        BY <1>3, <2>2
      <3> HIDE DEF i
      <3>3. b[i] = s[i + k]
        BY <1>2, <3>1
      <3> QED BY <2>2, <3>1, <3>2, <3>3
    <2> QED BY <2>1, <2>2
  <1> QED BY <1>3, <1>4 DEF a, b, Removed

(***************************************************************************)
(* Place finds the item that an operation works on.                        *)
(***************************************************************************)
LEMMA PlaceIs ==
  ASSUME ListInv, NEW h \in ListHead, NEW p, p = Null \/ In(h, p)
  PROVE  /\ Place(h, p) \in 0 .. Len(contents[h])
         /\ p = Null => Place(h, p) = 0
         /\ p # Null => Place(h, p) > 0 /\ contents[h][Place(h, p)] = p
  <1>1. \E k \in 0 .. Len(contents[h]) :
          IF p = Null THEN k = 0 ELSE k > 0 /\ contents[h][k] = p
    <2>1. Len(contents[h]) \in Nat
      BY DEF ListInv, ListTypeOK
    <2>2. CASE p = Null
      BY <2>1, <2>2
    <2>3. CASE p # Null
      <3>1. PICK k \in 1 .. Len(contents[h]) : contents[h][k] = p
        BY <2>3 DEF In
      <3> QED BY <2>1, <2>3, <3>1
    <2> QED BY <2>2, <2>3
  <1>2. /\ Place(h, p) \in 0 .. Len(contents[h])
        /\ IF p = Null THEN Place(h, p) = 0
           ELSE Place(h, p) > 0 /\ contents[h][Place(h, p)] = p
    BY <1>1, Zenon DEF Place
  <1> QED BY <1>2

LEMMA InitKeeps == ASSUME ListInit PROVE ListInv
  <1>1. ListTypeOK
    BY DEF ListInit, ListTypeOK, Pointer
  <1>2. ItemsApart
    BY DEF ListInit, ItemsApart
  <1>3. PointersMatch
    BY DEF ListInit, PointersMatch, PointersOf, Unlisted, Linked
  <1> QED BY <1>1, <1>2, <1>3 DEF ListInv

(***************************************************************************)
(* The test of List_insert finds every item that is in a list, but for the *)
(* only item of a list.                                                    *)
(***************************************************************************)
LEMMA UnlinkedIsUnlisted ==
  ASSUME ListInv, NEW item \in ListItem, ~Linked(item), ~Sole(item)
  PROVE  Unlisted(item)
  <1> USE ListAssumption
  <1> SUFFICES ASSUME NEW g \in ListHead, NEW k \in 1 .. Len(contents[g]), contents[g][k] = item
               PROVE  FALSE
    BY DEF Unlisted, In
  <1>1. contents[g] \in Seq(ListItem) /\ Len(contents[g]) \in Nat
    BY DEF ListInv, ListTypeOK
  <1>2. next[item] = Null /\ prev[item] = Null
    BY DEF Linked
  <1>3. /\ next[item] = IF k = Len(contents[g]) THEN Null ELSE contents[g][k + 1]
        /\ prev[item] = IF k = 1 THEN Null ELSE contents[g][k - 1]
    BY DEF ListInv, PointersMatch, PointersOf
  <1>4. k = Len(contents[g])
    <2>1. k # Len(contents[g]) => contents[g][k + 1] \in ListItem
      BY <1>1
    <2> QED BY <1>2, <1>3, <2>1
  <1>5. k = 1
    <2>1. k # 1 => contents[g][k - 1] \in ListItem
      BY <1>1
    <2> QED BY <1>2, <1>3, <2>1
  <1> QED BY <1>4, <1>5 DEF Sole

LEMMA InsertKeeps ==
  ASSUME ListInv, NEW h \in ListHead, NEW item \in ListItem,
         NEW p \in ListItem \cup {Null}, p = Null \/ In(h, p), ~Sole(item),
         InsertLinks(h, p, item)
  PROVE  ListInv'
  <1> USE ListAssumption
  <1> DEFINE c == contents[h]
             k == Place(h, p)
             n == Behind(h, p)
             d == Inserted(c, k, item)
  <1>1. Unlisted(item) /\ ~Linked(item)
    BY UnlinkedIsUnlisted DEF InsertLinks
  <1>2. /\ c \in Seq(ListItem) /\ Len(c) \in Nat /\ k \in 0 .. Len(c)
        /\ p = Null => k = 0
        /\ p # Null => k > 0 /\ c[k] = p
    BY PlaceIs DEF ListInv, ListTypeOK
  <1>3. \A j \in 1 .. Len(c) : c[j] \in ListItem
    BY <1>2
  <1>4. n = IF k = Len(c) THEN Null ELSE c[k + 1]
    BY <1>2 DEF Behind, ListInv, PointersMatch, PointersOf
  <1>6. /\ prev' = [i \in ListItem |-> IF i = item /\ p # Null THEN p
                                       ELSE IF i = n THEN item ELSE prev[i]]
        /\ next' = [i \in ListItem |-> IF i = item /\ n # Null THEN n
                                       ELSE IF i = p THEN item ELSE next[i]]
        /\ first' = IF p = Null THEN [first EXCEPT ![h] = item] ELSE first
        /\ last' = IF n = Null THEN [last EXCEPT ![h] = item] ELSE last
        /\ size' = [size EXCEPT ![h] = @ + 1]
        /\ contents' = [contents EXCEPT ![h] = d]
    BY DEF InsertLinks, Counted
  <1> HIDE DEF c, k, n
  <1>5. /\ d \in Seq(ListItem) /\ Len(d) = Len(c) + 1
        /\ \A j \in 1 .. Len(c) + 1 :
             d[j] = IF j <= k THEN c[j] ELSE IF j = k + 1 THEN item ELSE c[j - 1]
    <2>1. c \in Seq(ListItem) /\ k \in 0 .. Len(c) /\ item \in ListItem
      BY <1>2
    <2>2. Inserted(c, k, item) \in Seq(ListItem) /\ IsInserted(Inserted(c, k, item), c, k, item)
      BY <2>1, InsertedIs, Zenon
    <2> QED BY <2>2, Zenon DEF d, IsInserted
  <1> HIDE DEF d
  <1>50. Len(d) = Len(c) + 1 /\ Len(c) \in Nat /\ k \in 0 .. Len(c)
    BY <1>2, <1>5
  <1>51. \A j \in 1 .. k : j \in 1 .. Len(c) /\ j \in 1 .. Len(d) /\ d[j] = c[j]
    BY <1>2, <1>5
  <1>52. k + 1 \in 1 .. Len(d) /\ d[k + 1] = item
    BY <1>2, <1>5
  <1>53. \A j \in k + 2 .. Len(d) : j \in 1 .. Len(d) /\ j - 1 \in 1 .. Len(c) /\ d[j] = c[j - 1]
    BY <1>2, <1>5
  <1>54. \A j \in k + 1 .. Len(c) : j + 1 \in 1 .. Len(d) /\ d[j + 1] = c[j]
    <2> TAKE j \in k + 1 .. Len(c)
    <2>1. j + 1 \in k + 2 .. Len(d) /\ (j + 1) - 1 = j
      BY <1>2, <1>5
    <2> QED BY <1>53, <2>1
  <1>7. \A g \in ListHead : contents'[g] = IF g = h THEN d ELSE contents[g]
    BY <1>6 DEF ListInv, ListTypeOK
  <1>8. \A g \in ListHead : \A j \in 1 .. Len(contents[g]) : contents[g][j] # item
    BY <1>1 DEF Unlisted, In
  <1>9. n \in ListItem \cup {Null} /\ n # item /\ p # item
    BY <1>1, <1>2, <1>3, <1>4, <1>8 DEF c
  <1>10. next[item] = Null /\ prev[item] = Null
    BY <1>1 DEF Linked
  <1>11. ListTypeOK'
    <2>1. next' \in [ListItem -> Pointer] /\ prev' \in [ListItem -> Pointer]
      BY <1>6, <1>9 DEF ListInv, ListTypeOK, Pointer
    <2>2. first' \in [ListHead -> Pointer] /\ last' \in [ListHead -> Pointer]
      BY <1>6 DEF ListInv, ListTypeOK, Pointer
    <2>3. size' \in [ListHead -> Nat]
      BY <1>6 DEF ListInv, ListTypeOK
    <2>4. contents' \in [ListHead -> Seq(ListItem)]
      BY <1>5, <1>6 DEF ListInv, ListTypeOK
    <2> QED BY <2>1, <2>2, <2>3, <2>4 DEF ListTypeOK
  <1>12. \A i, j \in 1 .. Len(c) : c[i] = c[j] => i = j
    BY DEF ListInv, ItemsApart, c
  <1>13. \A g \in ListHead : g # h =>
           \A i \in 1 .. Len(contents[g]), j \in 1 .. Len(c) : contents[g][i] # c[j]
    BY DEF ListInv, ItemsApart, c
  <1>14. \A g \in ListHead : g # h =>
           \A i \in 1 .. Len(contents[g]), j \in 1 .. Len(d) : contents[g][i] # d[j]
    <2> SUFFICES ASSUME NEW g \in ListHead, g # h,
                        NEW i \in 1 .. Len(contents[g]), NEW j \in 1 .. Len(d)
                 PROVE  contents[g][i] # d[j]
      OBVIOUS
    <2>1. CASE j <= k
      BY <1>2, <1>5, <1>13, <2>1
    <2>2. CASE j = k + 1
      BY <1>2, <1>5, <1>8, <2>2
    <2>3. CASE j > k + 1
      <3>1. j - 1 \in 1 .. Len(c) /\ d[j] = c[j - 1]
        BY <1>2, <1>5, <2>3
      <3> QED BY <1>13, <3>1
    <2> QED BY <1>2, <2>1, <2>2, <2>3
  <1>15. \A i, j \in 1 .. Len(d) : d[i] = d[j] => i = j
    <2>1. \A j \in 1 .. Len(c) : c[j] # item
      BY <1>8 DEF c
    <2> SUFFICES ASSUME NEW i \in 1 .. Len(d), NEW j \in 1 .. Len(d), d[i] = d[j], i < j
                 PROVE  FALSE
      BY <1>2, <1>5
    <2>2. CASE j <= k
      <3>1. i \in 1 .. k /\ j \in 1 .. k
        BY <1>2, <2>2
      <3> QED BY <1>12, <1>51, <2>2, <3>1
    <2>3. CASE j = k + 1
      <3>1. i \in 1 .. k
        BY <1>2, <2>3
      <3> QED BY <1>51, <1>52, <2>1, <2>3, <3>1
    <2>4. CASE j > k + 1 /\ i <= k
      <3>1. j \in k + 2 .. Len(d) /\ i \in 1 .. k
        BY <1>2, <1>5, <2>4
      <3>2. /\ i \in 1 .. Len(c) /\ d[i] = c[i]
            /\ j - 1 \in 1 .. Len(c) /\ d[j] = c[j - 1]
        BY <1>51, <1>53, <3>1
      <3>3. c[i] = c[j - 1]
        BY <3>2
      <3>4. i = j - 1
        BY <1>12, <3>2, <3>3
      <3> QED BY <1>50, <2>4, <3>4
    <2>5. CASE j > k + 1 /\ i = k + 1
      <3>1. j - 1 \in 1 .. Len(c) /\ d[j] = c[j - 1] /\ d[i] = item
        BY <1>2, <1>5, <1>52, <1>53, <2>5
      <3> QED BY <2>1, <3>1
    <2>6. CASE j > k + 1 /\ i > k + 1
      <3>1. j - 1 \in 1 .. Len(c) /\ d[j] = c[j - 1] /\ i - 1 \in 1 .. Len(c) /\ d[i] = c[i - 1]
        BY <1>2, <1>5, <1>53, <2>6
      <3>2. i - 1 = j - 1
        BY <1>12, <3>1
      <3> QED BY <3>2
    <2> QED BY <1>2, <2>2, <2>3, <2>4, <2>5, <2>6
  <1>16. ItemsApart'
    <2>1. SUFFICES ASSUME NEW f \in ListHead, NEW g \in ListHead,
                          NEW i \in 1 .. Len(contents'[f]), NEW j \in 1 .. Len(contents'[g]),
                          contents'[f][i] = contents'[g][j]
                   PROVE  f = g /\ i = j
      BY DEF ItemsApart
    <2>2. CASE f = h /\ g = h
      BY <1>7, <1>15, <2>1, <2>2
    <2>3. CASE f # h /\ g # h
      BY <1>7, <2>1, <2>3 DEF ListInv, ItemsApart
    <2>4. CASE f = h /\ g # h
      BY <1>7, <1>14, <2>1, <2>4
    <2>5. CASE f # h /\ g = h
      BY <1>7, <1>14, <2>1, <2>5
    <2> QED BY <2>2, <2>3, <2>4, <2>5
  <1>17. /\ \A j \in 1 .. Len(c) : next[c[j]] = IF j = Len(c) THEN Null ELSE c[j + 1]
         /\ \A j \in 1 .. Len(c) : prev[c[j]] = IF j = 1 THEN Null ELSE c[j - 1]
    BY DEF ListInv, PointersMatch, PointersOf, c
  <1>18. \A j \in 1 .. Len(d) : next'[d[j]] = IF j = Len(d) THEN Null ELSE d[j + 1]
    <2> TAKE j \in 1 .. Len(d)
    <2>1. CASE j < k
      <3>1. c[j] \in ListItem /\ c[j] # item /\ c[j] # p
        BY <1>2, <1>3, <1>8, <1>12, <2>1 DEF c
      <3>2. next'[c[j]] = next[c[j]]
        BY <1>6, <3>1
      <3> QED BY <1>2, <1>5, <1>17, <2>1, <3>2
    <2>2. CASE j = k
      <3>1. p \in ListItem /\ d[j] = p /\ d[j + 1] = item
        BY <1>2, <1>3, <1>5, <2>2
      <3>2. next'[p] = item
        BY <1>6, <1>9, <3>1
      <3> QED BY <1>2, <1>5, <2>2, <3>1, <3>2
    <2>3. CASE j = k + 1
      <3>1. next'[item] = n
        BY <1>6, <1>9, <1>10
      <3>2. d[j] = item
        BY <1>52, <2>3
      <3>3. k # Len(c) => d[j + 1] = c[k + 1]
        BY <1>2, <1>54, <2>3
      <3> QED BY <1>2, <1>4, <1>5, <2>3, <3>1, <3>2, <3>3
    <2>4. CASE j > k + 1
      <3>1. j - 1 \in 1 .. Len(c) /\ d[j] = c[j - 1]
        BY <1>2, <1>5, <1>53, <2>4
      <3>0. j # Len(d) => d[j + 1] = c[j]
        <4>1. j # Len(d) => j \in k + 1 .. Len(c)
          BY <1>50, <2>4
        <4> QED BY <1>54, <4>1
      <3>2. c[j - 1] \in ListItem /\ c[j - 1] # item /\ c[j - 1] # p
        BY <1>2, <1>3, <1>8, <1>12, <2>4, <3>1 DEF c
      <3>3. next'[c[j - 1]] = next[c[j - 1]]
        BY <1>6, <3>2
      <3>4. next[c[j - 1]] = IF j - 1 = Len(c) THEN Null ELSE c[(j - 1) + 1]
        BY <1>17, <3>1
      <3>5. (j - 1) + 1 = j /\ (j - 1 = Len(c) <=> j = Len(d))
        BY <1>2, <1>5
      <3> QED BY <3>0, <3>1, <3>3, <3>4, <3>5
    <2> QED BY <1>2, <1>5, <2>1, <2>2, <2>3, <2>4
  <1>19. \A j \in 1 .. Len(d) : prev'[d[j]] = IF j = 1 THEN Null ELSE d[j - 1]
    <2> TAKE j \in 1 .. Len(d)
    <2>1. CASE j <= k
      <3>1. c[j] \in ListItem /\ c[j] # item /\ c[j] # n
        BY <1>2, <1>3, <1>4, <1>8, <1>12, <2>1 DEF c
      <3>2. prev'[c[j]] = prev[c[j]]
        BY <1>6, <3>1
      <3> QED BY <1>2, <1>5, <1>17, <2>1, <3>2
    <2>2. CASE j = k + 1
      <3>1. prev'[item] = p
        BY <1>6, <1>9, <1>10
      <3>2. d[j] = item /\ (k # 0 => d[j - 1] = p)
        BY <1>2, <1>5, <2>2
      <3> QED BY <1>2, <2>2, <3>1, <3>2
    <2>3. CASE j = k + 2
      <3>1. n = c[k + 1] /\ d[j] = n /\ n \in ListItem /\ d[j - 1] = item
        BY <1>2, <1>3, <1>4, <1>5, <2>3
      <3>2. prev'[n] = item
        BY <1>6, <1>9, <3>1
      <3> QED BY <1>2, <2>3, <3>1, <3>2
    <2>4. CASE j > k + 2
      <3>1. j - 1 \in 1 .. Len(c) /\ d[j] = c[j - 1] /\ d[j - 1] = c[j - 2]
        BY <1>2, <1>5, <2>4
      <3>2. c[j - 1] \in ListItem /\ c[j - 1] # item /\ c[j - 1] # n
        BY <1>2, <1>3, <1>4, <1>8, <1>12, <2>4, <3>1 DEF c
      <3>3. prev'[c[j - 1]] = prev[c[j - 1]]
        BY <1>6, <3>2
      <3>4. prev[c[j - 1]] = IF j - 1 = 1 THEN Null ELSE c[(j - 1) - 1]
        BY <1>17, <3>1
      <3> QED BY <1>2, <1>5, <2>4, <3>1, <3>3, <3>4
    <2> QED BY <1>2, <1>5, <2>1, <2>2, <2>3, <2>4
  <1>20. /\ size'[h] = Len(d)
         /\ first'[h] = IF d = << >> THEN Null ELSE d[1]
         /\ last'[h] = IF d = << >> THEN Null ELSE d[Len(d)]
    <2>1. /\ size[h] = Len(c)
          /\ first[h] = IF c = << >> THEN Null ELSE c[1]
          /\ last[h] = IF c = << >> THEN Null ELSE c[Len(c)]
      BY DEF ListInv, PointersMatch, PointersOf, c
    <2>2. d # << >> /\ (c = << >> <=> Len(c) = 0)
      BY <1>2, <1>5
    <2>3. size'[h] = Len(d)
      BY <1>5, <1>6, <2>1 DEF ListInv, ListTypeOK
    <2>4. first'[h] = d[1]
      <3>1. CASE p = Null
        <4>1. d[1] = item
          BY <1>2, <1>52, <3>1
        <4> QED BY <1>6, <3>1, <4>1 DEF ListInv, ListTypeOK
      <3>2. CASE p # Null
        <4>1. d[1] = c[1] /\ c # << >>
          BY <1>2, <1>51, <2>2, <3>2
        <4> QED BY <1>6, <2>1, <3>2, <4>1
      <3> QED BY <3>1, <3>2
    <2>5. last'[h] = d[Len(d)]
      <3>1. CASE n = Null
        <4>1. k = Len(c)
          BY <1>2, <1>3, <1>4, <3>1
        <4>2. d[Len(d)] = item
          BY <1>5, <1>52, <4>1
        <4> QED BY <1>6, <3>1, <4>2 DEF ListInv, ListTypeOK
      <3>2. CASE n # Null
        <4>1. k < Len(c) /\ d[Len(d)] = c[Len(c)]
          BY <1>2, <1>4, <1>5, <1>54, <3>2
        <4> QED BY <1>2, <1>6, <2>1, <2>2, <3>2, <4>1
      <3> QED BY <3>1, <3>2
    <2> QED BY <2>2, <2>3, <2>4, <2>5
  <1>21. ASSUME NEW g \in ListHead, g # h PROVE PointersOf(g, contents[g])'
    <2> DEFINE e == contents[g]
    <2>1. contents'[g] = e /\ e \in Seq(ListItem)
      BY <1>7, <1>21 DEF ListInv, ListTypeOK
    <2>2. size'[g] = size[g] /\ first'[g] = first[g] /\ last'[g] = last[g]
      BY <1>6, <1>21 DEF ListInv, ListTypeOK
    <2>3. ASSUME NEW j \in 1 .. Len(e)
          PROVE  next'[e[j]] = next[e[j]] /\ prev'[e[j]] = prev[e[j]]
      <3>1. e[j] \in ListItem /\ e[j] # item
        BY <1>8, <2>1
      <3>2. e[j] # p
        BY <1>2, <1>13, <1>21, <2>1, <3>1
      <3>3. e[j] # n
        BY <1>2, <1>4, <1>13, <1>21, <2>1, <3>1
      <3> QED BY <1>6, <3>1, <3>2, <3>3
    <2>4. /\ size[g] = Len(e)
          /\ first[g] = IF e = << >> THEN Null ELSE e[1]
          /\ last[g] = IF e = << >> THEN Null ELSE e[Len(e)]
      BY DEF ListInv, PointersMatch, PointersOf
    <2>5. ASSUME NEW j \in 1 .. Len(e)
          PROVE  /\ next[e[j]] = IF j = Len(e) THEN Null ELSE e[j + 1]
                 /\ prev[e[j]] = IF j = 1 THEN Null ELSE e[j - 1]
      BY DEF ListInv, PointersMatch, PointersOf
    <2> HIDE DEF e
    <2>6. ASSUME NEW j \in 1 .. Len(e)
          PROVE  /\ next'[e[j]] = IF j = Len(e) THEN Null ELSE e[j + 1]
                 /\ prev'[e[j]] = IF j = 1 THEN Null ELSE e[j - 1]
      BY <2>3, <2>5, Zenon
    <2>7. /\ size'[g] = Len(e)
          /\ first'[g] = IF e = << >> THEN Null ELSE e[1]
          /\ last'[g] = IF e = << >> THEN Null ELSE e[Len(e)]
      BY <2>2, <2>4, Zenon
    <2> QED BY <2>1, <2>6, <2>7, Zenon DEF PointersOf
  <1>22. ASSUME NEW i \in ListItem, Unlisted(i)' PROVE ~Linked(i)'
    <2>1. \A g \in ListHead : \A j \in 1 .. Len(contents'[g]) : contents'[g][j] # i
      BY <1>22 DEF Unlisted, In
    <2>2. \A j \in 1 .. Len(d) : d[j] # i
      BY <1>7, <2>1
    <2>3. i # item
      BY <1>52, <2>2
    <2>4. \A j \in 1 .. Len(c) : c[j] # i
      <3> TAKE j \in 1 .. Len(c)
      <3>1. CASE j <= k
        BY <1>2, <1>5, <2>2, <3>1
      <3>2. CASE j > k
        <4>1. j + 1 \in 1 .. Len(d) /\ d[j + 1] = c[j]
          BY <1>2, <1>5, <3>2
        <4> QED BY <2>2, <4>1
      <3> QED BY <1>2, <3>1, <3>2
    <2>5. i # p /\ i # n
      BY <1>2, <1>4, <2>4
    <2>6. Unlisted(i)
      BY <1>7, <2>1, <2>4 DEF Unlisted, In, c
    <2>7. ~Linked(i)
      BY <2>6 DEF ListInv, PointersMatch
    <2> QED BY <1>6, <2>3, <2>5, <2>7 DEF Linked
  <1>23. PointersOf(h, contents[h])'
    BY <1>7, <1>18, <1>19, <1>20 DEF PointersOf
  <1>24. PointersMatch'
    BY <1>21, <1>22, <1>23 DEF PointersMatch
  <1> QED BY <1>11, <1>16, <1>24 DEF ListInv

LEMMA DetachKeeps ==
  ASSUME ListInv, NEW h \in ListHead, NEW item \in ListItem, List_detach(h, item)
  PROVE  ListInv'
  <1> USE ListAssumption
  <1> DEFINE c == contents[h]
             k == Place(h, item)
             p == prev[item]
             n == next[item]
             d == Removed(c, k)
  <1>1. c \in Seq(ListItem) /\ k \in 1 .. Len(c) /\ c[k] = item /\ Len(c) \in Nat
    BY PlaceIs DEF List_detach, ListInv, ListTypeOK
  <1>2. \A j \in 1 .. Len(c) : c[j] \in ListItem
    BY <1>1
  <1>3. /\ \A j \in 1 .. Len(c) : next[c[j]] = IF j = Len(c) THEN Null ELSE c[j + 1]
        /\ \A j \in 1 .. Len(c) : prev[c[j]] = IF j = 1 THEN Null ELSE c[j - 1]
        /\ size[h] = Len(c)
        /\ first[h] = IF c = << >> THEN Null ELSE c[1]
        /\ last[h] = IF c = << >> THEN Null ELSE c[Len(c)]
    BY DEF ListInv, PointersMatch, PointersOf
  <1>4. /\ p = IF k = 1 THEN Null ELSE c[k - 1]
        /\ n = IF k = Len(c) THEN Null ELSE c[k + 1]
    BY <1>1, <1>3
  <1>5. /\ d \in Seq(ListItem) /\ Len(d) = Len(c) - 1
        /\ \A j \in 1 .. Len(c) - 1 : d[j] = IF j < k THEN c[j] ELSE c[j + 1]
    BY <1>1, RemovedIs
  <1>6. /\ next' = [[i \in ListItem |-> IF i = p THEN n ELSE next[i]] EXCEPT ![item] = Null]
        /\ prev' = [[i \in ListItem |-> IF i = n THEN p ELSE prev[i]] EXCEPT ![item] = Null]
        /\ first' = IF item = first[h] THEN [first EXCEPT ![h] = n] ELSE first
        /\ last' = IF item = last[h] THEN [last EXCEPT ![h] = p] ELSE last
        /\ size' = [size EXCEPT ![h] = @ - 1]
        /\ contents' = [contents EXCEPT ![h] = d]
    BY DEF List_detach, Cleared
  <1>7. \A i, j \in 1 .. Len(c) : c[i] = c[j] => i = j
    BY DEF ListInv, ItemsApart
  <1>8. \A g \in ListHead : g # h =>
          \A i \in 1 .. Len(contents[g]), j \in 1 .. Len(c) : contents[g][i] # c[j]
    BY DEF ListInv, ItemsApart
  <1> HIDE DEF c, k, p, n, d
  <1>9. /\ \A i \in ListItem : next'[i] = IF i = item THEN Null ELSE IF i = p THEN n ELSE next[i]
        /\ \A i \in ListItem : prev'[i] = IF i = item THEN Null ELSE IF i = n THEN p ELSE prev[i]
    BY <1>6
  <1>10. \A g \in ListHead : contents'[g] = IF g = h THEN d ELSE contents[g]
    BY <1>6 DEF ListInv, ListTypeOK
  <1>11. Len(d) = Len(c) - 1 /\ Len(c) \in Nat \ {0} /\ k \in 1 .. Len(c)
    BY <1>1, <1>5
  <1>12. \A j \in 1 .. k - 1 : j \in 1 .. Len(c) /\ j \in 1 .. Len(d) /\ d[j] = c[j]
    BY <1>5, <1>11
  <1>13. \A j \in k .. Len(d) : j \in 1 .. Len(d) /\ j + 1 \in 1 .. Len(c) /\ d[j] = c[j + 1]
    BY <1>5, <1>11
  <1>14. \A j \in 1 .. Len(d) : \E i \in 1 .. Len(c) : i # k /\ d[j] = c[i]
    <2> TAKE j \in 1 .. Len(d)
    <2>1. CASE j < k
      <3>1. j \in 1 .. k - 1
        BY <1>11, <2>1
      <3> QED BY <1>12, <2>1, <3>1
    <2>2. CASE ~(j < k)
      <3>1. j \in k .. Len(d) /\ j + 1 # k
        BY <1>11, <2>2
      <3> QED BY <1>13, <3>1
    <2> QED BY <2>1, <2>2
  <1>15. \A g \in ListHead : g # h =>
           \A i \in 1 .. Len(contents[g]), j \in 1 .. Len(d) : contents[g][i] # d[j]
    BY <1>8, <1>14
  <1>16. \A i, j \in 1 .. Len(d) : d[i] = d[j] => i = j
    <2> SUFFICES ASSUME NEW i \in 1 .. Len(d), NEW j \in 1 .. Len(d), d[i] = d[j], i < j
                 PROVE  FALSE
      BY <1>11
    <2>1. CASE j < k
      <3>1. i \in 1 .. k - 1 /\ j \in 1 .. k - 1
        BY <1>11, <2>1
      <3>2. c[i] = c[j] /\ i \in 1 .. Len(c) /\ j \in 1 .. Len(c)
        BY <1>12, <3>1
      <3>3. i = j
        BY <1>7, <3>2
      <3> QED BY <3>3
    <2>2. CASE i < k /\ ~(j < k)
      <3>1. i \in 1 .. k - 1 /\ j \in k .. Len(d)
        BY <1>11, <2>2
      <3>2. c[i] = c[j + 1] /\ i \in 1 .. Len(c) /\ j + 1 \in 1 .. Len(c)
        BY <1>12, <1>13, <3>1
      <3>3. i = j + 1
        BY <1>7, <3>2
      <3> QED BY <3>3
    <2>3. CASE ~(i < k)
      <3>1. i \in k .. Len(d) /\ j \in k .. Len(d)
        BY <1>11, <2>3
      <3>2. c[i + 1] = c[j + 1] /\ i + 1 \in 1 .. Len(c) /\ j + 1 \in 1 .. Len(c)
        BY <1>13, <3>1
      <3>3. i + 1 = j + 1
        BY <1>7, <3>2
      <3> QED BY <3>3
    <2> QED BY <1>11, <2>1, <2>2, <2>3
  <1>17. ItemsApart'
    <2>1. SUFFICES ASSUME NEW f \in ListHead, NEW g \in ListHead,
                          NEW i \in 1 .. Len(contents'[f]), NEW j \in 1 .. Len(contents'[g]),
                          contents'[f][i] = contents'[g][j]
                   PROVE  f = g /\ i = j
      BY DEF ItemsApart
    <2>2. CASE f = h /\ g = h
      BY <1>10, <1>16, <2>1, <2>2
    <2>3. CASE f # h /\ g # h
      BY <1>10, <2>1, <2>3 DEF ListInv, ItemsApart
    <2>4. CASE f = h /\ g # h
      BY <1>10, <1>15, <2>1, <2>4
    <2>5. CASE f # h /\ g = h
      BY <1>10, <1>15, <2>1, <2>5
    <2> QED BY <2>2, <2>3, <2>4, <2>5
  <1>18. p \in ListItem \cup {Null} /\ n \in ListItem \cup {Null}
    BY <1>2, <1>4, <1>11
  <1>19. ListTypeOK'
    <2>1. next' \in [ListItem -> Pointer] /\ prev' \in [ListItem -> Pointer]
      BY <1>6, <1>18 DEF ListInv, ListTypeOK, Pointer
    <2>2. first' \in [ListHead -> Pointer] /\ last' \in [ListHead -> Pointer]
      BY <1>6, <1>18 DEF ListInv, ListTypeOK, Pointer
    <2>3. size' \in [ListHead -> Nat]
      BY <1>3, <1>6, <1>11 DEF ListInv, ListTypeOK
    <2>4. contents' \in [ListHead -> Seq(ListItem)]
      BY <1>5, <1>6 DEF ListInv, ListTypeOK
    <2> QED BY <2>1, <2>2, <2>3, <2>4 DEF ListTypeOK
  <1>20. \A j \in 1 .. Len(d) : next'[d[j]] = IF j = Len(d) THEN Null ELSE d[j + 1]
    <2> TAKE j \in 1 .. Len(d)
    <2>1. CASE j < k - 1
      <3>1. j \in 1 .. k - 1 /\ j + 1 \in 1 .. k - 1 /\ j # k /\ j # k - 1 /\ j # Len(c) /\ j # Len(d)
        BY <1>11, <2>1
      <3>2. d[j] = c[j] /\ d[j + 1] = c[j + 1] /\ j \in 1 .. Len(c)
        BY <1>12, <3>1
      <3>3. c[j] \in ListItem /\ c[j] # item
        BY <1>1, <1>2, <1>7, <3>1, <3>2
      <3>4. c[j] # p
        BY <1>4, <1>7, <1>11, <3>1, <3>2, <3>3
      <3>5. next[c[j]] = c[j + 1]
        BY <1>3, <3>1, <3>2
      <3> QED BY <1>9, <3>1, <3>2, <3>3, <3>4, <3>5
    <2>2. CASE j = k - 1
      <3>1. j \in 1 .. k - 1 /\ k # 1 /\ k - 1 \in 1 .. Len(c) /\ k - 1 # k
        BY <1>11, <2>2
      <3>2. d[j] = p /\ p = c[k - 1]
        BY <1>4, <1>12, <2>2, <3>1
      <3>3. p \in ListItem /\ p # item
        BY <1>1, <1>2, <1>7, <3>1, <3>2
      <3>4. next'[d[j]] = n
        BY <1>9, <3>2, <3>3
      <3>5. j # Len(d) => d[j + 1] = c[k + 1] /\ k # Len(c)
        <4> SUFFICES ASSUME j # Len(d) PROVE d[j + 1] = c[k + 1] /\ k # Len(c)
          OBVIOUS
        <4>1. j + 1 = k /\ k \in k .. Len(d) /\ k # Len(c)
          BY <1>11, <2>2
        <4> QED BY <1>13, <4>1
      <3>6. j = Len(d) => k = Len(c)
        BY <1>11, <2>2
      <3> QED BY <1>4, <3>4, <3>5, <3>6
    <2>3. CASE j >= k
      <3>1. j \in k .. Len(d)
        BY <1>11, <2>3
      <3>2. d[j] = c[j + 1] /\ j + 1 \in 1 .. Len(c) /\ j + 1 # k /\ j + 1 # k - 1
        BY <1>11, <1>13, <2>3, <3>1
      <3>3. c[j + 1] \in ListItem /\ c[j + 1] # item
        BY <1>1, <1>2, <1>7, <3>2
      <3>4. c[j + 1] # p
        <4>1. k # 1 => k - 1 \in 1 .. Len(c)
          BY <1>11
        <4> QED BY <1>4, <1>7, <3>2, <3>3, <4>1
      <3>5. next[c[j + 1]] = IF j + 1 = Len(c) THEN Null ELSE c[(j + 1) + 1]
        BY <1>3, <3>2
      <3>6. j # Len(d) => d[j + 1] = c[(j + 1) + 1]
        <4>1. j # Len(d) => j + 1 \in k .. Len(d)
          BY <1>11, <3>1
        <4> QED BY <1>13, <4>1
      <3>7. j + 1 = Len(c) <=> j = Len(d)
        BY <1>11
      <3> QED BY <1>9, <3>2, <3>3, <3>4, <3>5, <3>6, <3>7
    <2> QED BY <1>11, <2>1, <2>2, <2>3
  <1>21. \A j \in 1 .. Len(d) : prev'[d[j]] = IF j = 1 THEN Null ELSE d[j - 1]
    <2> TAKE j \in 1 .. Len(d)
    <2>1. CASE j < k
      <3>1. j \in 1 .. k - 1 /\ j # k /\ j # k + 1
        BY <1>11, <2>1
      <3>2. d[j] = c[j] /\ j \in 1 .. Len(c)
        BY <1>12, <3>1
      <3>3. c[j] \in ListItem /\ c[j] # item
        BY <1>1, <1>2, <1>7, <3>1, <3>2
      <3>4. c[j] # n
        <4>1. k # Len(c) => k + 1 \in 1 .. Len(c)
          BY <1>11
        <4> QED BY <1>4, <1>7, <3>1, <3>2, <3>3, <4>1
      <3>5. prev[c[j]] = IF j = 1 THEN Null ELSE c[j - 1]
        BY <1>3, <3>2
      <3>6. j # 1 => d[j - 1] = c[j - 1]
        <4>1. j # 1 => j - 1 \in 1 .. k - 1
          BY <1>11, <3>1
        <4> QED BY <1>12, <4>1
      <3> QED BY <1>9, <3>2, <3>3, <3>4, <3>5, <3>6
    <2>2. CASE j = k
      <3>1. k \in k .. Len(d) /\ k # Len(c) /\ k + 1 \in 1 .. Len(c) /\ k + 1 # k
        BY <1>11, <2>2
      <3>2. d[j] = n /\ n = c[k + 1]
        BY <1>4, <1>13, <2>2, <3>1
      <3>3. n \in ListItem /\ n # item
        BY <1>1, <1>2, <1>7, <3>1, <3>2
      <3>4. prev'[d[j]] = p
        BY <1>9, <3>2, <3>3
      <3>5. j # 1 => d[j - 1] = c[k - 1]
        <4>1. j # 1 => k - 1 \in 1 .. k - 1
          BY <1>11, <2>2
        <4> QED BY <1>12, <2>2, <4>1
      <3> QED BY <1>4, <2>2, <3>4, <3>5
    <2>3. CASE j > k
      <3>1. j \in k .. Len(d) /\ j - 1 \in k .. Len(d) /\ (j - 1) + 1 = j /\ j # 1
        BY <1>11, <2>3
      <3>2. d[j] = c[j + 1] /\ j + 1 \in 1 .. Len(c) /\ d[j - 1] = c[j]
        BY <1>13, <3>1
      <3>3. j + 1 # k /\ j + 1 # k + 1 /\ j + 1 # 1 /\ (j + 1) - 1 = j
        BY <1>11, <2>3
      <3>4. c[j + 1] \in ListItem /\ c[j + 1] # item
        BY <1>1, <1>2, <1>7, <3>2, <3>3
      <3>5. c[j + 1] # n
        <4>1. k # Len(c) => k + 1 \in 1 .. Len(c)
          BY <1>11
        <4> QED BY <1>4, <1>7, <3>2, <3>3, <3>4, <4>1
      <3>6. prev[c[j + 1]] = c[j]
        BY <1>3, <3>2, <3>3
      <3> QED BY <1>9, <3>1, <3>2, <3>4, <3>5, <3>6
    <2> QED BY <1>11, <2>1, <2>2, <2>3
  <1>22. /\ size'[h] = Len(d)
         /\ first'[h] = IF d = << >> THEN Null ELSE d[1]
         /\ last'[h] = IF d = << >> THEN Null ELSE d[Len(d)]
    <2>1. c # << >> /\ (d = << >> <=> Len(d) = 0)
      BY <1>1, <1>5, <1>11
    <2>2. size'[h] = Len(d)
      BY <1>3, <1>6, <1>11 DEF ListInv, ListTypeOK
    <2>3. first'[h] = IF d = << >> THEN Null ELSE d[1]
      <3>1. CASE k = 1
        <4>1. first'[h] = n
          BY <1>1, <1>3, <1>6, <2>1, <3>1 DEF ListInv, ListTypeOK
        <4>2. k # Len(c) => d[1] = c[k + 1]
          <5>1. k # Len(c) => 1 \in k .. Len(d)
            BY <1>11, <3>1
          <5> QED BY <1>13, <3>1, <5>1
        <4>3. k = Len(c) <=> Len(d) = 0
          BY <1>11, <3>1
        <4> QED BY <1>4, <2>1, <4>1, <4>2, <4>3
      <3>2. CASE k # 1
        <4>1. 1 \in 1 .. k - 1 /\ Len(d) # 0 /\ 1 \in 1 .. Len(c)
          BY <1>11, <3>2
        <4>2. d[1] = c[1] /\ c[1] # item
          BY <1>1, <1>7, <1>12, <3>2, <4>1
        <4> QED BY <1>3, <1>6, <2>1, <4>1, <4>2
      <3> QED BY <3>1, <3>2
    <2>4. last'[h] = IF d = << >> THEN Null ELSE d[Len(d)]
      <3>1. CASE k = Len(c)
        <4>1. last'[h] = p
          BY <1>1, <1>3, <1>6, <2>1, <3>1 DEF ListInv, ListTypeOK
        <4>2. k # 1 => d[Len(d)] = c[k - 1]
          <5>1. k # 1 => Len(d) \in 1 .. k - 1 /\ Len(d) = k - 1
            BY <1>11, <3>1
          <5> QED BY <1>12, <5>1
        <4>3. k = 1 <=> Len(d) = 0
          BY <1>11, <3>1
        <4> QED BY <1>4, <2>1, <4>1, <4>2, <4>3
      <3>2. CASE k # Len(c)
        <4>1. Len(d) \in k .. Len(d) /\ Len(d) # 0 /\ Len(d) + 1 = Len(c) /\ Len(c) \in 1 .. Len(c)
          BY <1>11, <3>2
        <4>2. d[Len(d)] = c[Len(c)] /\ c[Len(c)] # item
          BY <1>1, <1>7, <1>13, <3>2, <4>1
        <4> QED BY <1>3, <1>6, <2>1, <4>1, <4>2
      <3> QED BY <3>1, <3>2
    <2> QED BY <2>2, <2>3, <2>4
  <1>23. ASSUME NEW g \in ListHead, g # h PROVE PointersOf(g, contents[g])'
    <2> DEFINE e == contents[g]
    <2>1. contents'[g] = e /\ e \in Seq(ListItem)
      BY <1>10, <1>23 DEF ListInv, ListTypeOK
    <2>2. size'[g] = size[g] /\ first'[g] = first[g] /\ last'[g] = last[g]
      BY <1>6, <1>23 DEF ListInv, ListTypeOK
    <2>3. ASSUME NEW j \in 1 .. Len(e)
          PROVE  next'[e[j]] = next[e[j]] /\ prev'[e[j]] = prev[e[j]]
      <3>1. e[j] \in ListItem
        BY <2>1
      <3>2. \A i \in 1 .. Len(c) : e[j] # c[i]
        BY <1>8, <1>23
      <3>3. e[j] # item
        BY <1>1, <3>2
      <3>4. e[j] # p /\ e[j] # n
        <4>1. (k # Len(c) => k + 1 \in 1 .. Len(c)) /\ (k # 1 => k - 1 \in 1 .. Len(c))
          BY <1>11
        <4> QED BY <1>4, <3>1, <3>2, <4>1
      <3> QED BY <1>9, <3>1, <3>3, <3>4
    <2>4. /\ size[g] = Len(e)
          /\ first[g] = IF e = << >> THEN Null ELSE e[1]
          /\ last[g] = IF e = << >> THEN Null ELSE e[Len(e)]
      BY DEF ListInv, PointersMatch, PointersOf
    <2>5. ASSUME NEW j \in 1 .. Len(e)
          PROVE  /\ next[e[j]] = IF j = Len(e) THEN Null ELSE e[j + 1]
                 /\ prev[e[j]] = IF j = 1 THEN Null ELSE e[j - 1]
      BY DEF ListInv, PointersMatch, PointersOf
    <2> HIDE DEF e
    <2>6. ASSUME NEW j \in 1 .. Len(e)
          PROVE  /\ next'[e[j]] = IF j = Len(e) THEN Null ELSE e[j + 1]
                 /\ prev'[e[j]] = IF j = 1 THEN Null ELSE e[j - 1]
      BY <2>3, <2>5, Zenon
    <2>7. /\ size'[g] = Len(e)
          /\ first'[g] = IF e = << >> THEN Null ELSE e[1]
          /\ last'[g] = IF e = << >> THEN Null ELSE e[Len(e)]
      BY <2>2, <2>4, Zenon
    <2> QED BY <2>1, <2>6, <2>7, Zenon DEF PointersOf
  <1>24. ASSUME NEW i \in ListItem, Unlisted(i)' PROVE ~Linked(i)'
    <2>1. CASE i = item
      BY <1>9, <2>1 DEF Linked
    <2>2. CASE i # item
      <3>1. \A g \in ListHead : \A j \in 1 .. Len(contents'[g]) : contents'[g][j] # i
        BY <1>24 DEF Unlisted, In
      <3>2. \A j \in 1 .. Len(d) : d[j] # i
        BY <1>10, <3>1
      <3>3. \A j \in 1 .. Len(c) : c[j] # i
        <4> TAKE j \in 1 .. Len(c)
        <4>1. CASE j < k
          <5>1. j \in 1 .. k - 1
            BY <1>11, <4>1
          <5> QED BY <1>12, <3>2, <5>1
        <4>2. CASE j = k
          BY <1>1, <2>2, <4>2
        <4>3. CASE j > k
          <5>1. j - 1 \in k .. Len(d) /\ (j - 1) + 1 = j
            BY <1>11, <4>3
          <5> QED BY <1>13, <3>2, <5>1
        <4> QED BY <1>11, <4>1, <4>2, <4>3
      <3>4. i # p /\ i # n
        <4>1. (k # Len(c) => k + 1 \in 1 .. Len(c)) /\ (k # 1 => k - 1 \in 1 .. Len(c))
          BY <1>11
        <4> QED BY <1>4, <3>3, <4>1
      <3>5. Unlisted(i)
        BY <1>10, <3>1, <3>3 DEF Unlisted, In, c
      <3>6. ~Linked(i)
        BY <3>5 DEF ListInv, PointersMatch
      <3> QED BY <1>9, <2>2, <3>4, <3>6 DEF Linked
    <2> QED BY <2>1, <2>2
  <1>25. PointersOf(h, contents[h])'
    BY <1>10, <1>20, <1>21, <1>22 DEF PointersOf
  <1>26. PointersMatch'
    BY <1>23, <1>24, <1>25 DEF PointersMatch
  <1> QED BY <1>17, <1>19, <1>26 DEF ListInv

LEMMA ListStepKeeps == ASSUME ListInv, [ListNext]_ListVars PROVE ListInv'
  <1>1. ASSUME NEW h \in ListHead, NEW item \in ListItem, List_detach(h, item)
        PROVE  ListInv'
    BY <1>1, DetachKeeps
  <1>2. ASSUME UNCHANGED ListVars
        PROVE  ListInv'
    BY <1>2 DEF ListInv, ListTypeOK, ItemsApart, PointersMatch, PointersOf, Unlisted, In,
         Linked, ListVars
  <1>3. ASSUME NEW h \in ListHead, NEW item \in ListItem, NEW p \in ListItem \cup {Null},
               List_insert(h, p, item)
        PROVE  ListInv'
    <2>1. CASE InsertRefused(item)
      BY <1>2, <2>1 DEF InsertRefused
    <2>2. CASE InsertLinks(h, p, item)
      BY <1>3, <2>2, InsertKeeps DEF List_insert
    <2> QED BY <1>3, <2>1, <2>2 DEF List_insert
  <1> QED BY <1>1, <1>2, <1>3 DEF ListNext

(***************************************************************************)
(* The inductive invariant of the lists.                                   *)
(***************************************************************************)
THEOREM ListInvariant == ListSpec => []ListInv
  BY InitKeeps, ListStepKeeps, PTL DEF ListSpec

(***************************************************************************)
(* The links, heads and sizes of any number of lists keep their types; in  *)
(* particular no size is ever decremented below 0.                         *)
(***************************************************************************)
THEOREM ListTypesHold == ListSpec => []ListTypeOK
  <1>1. ListInv => ListTypeOK
    BY DEF ListInv
  <1> QED BY <1>1, ListInvariant, PTL

(***************************************************************************)
(* No item is ever in two lists, or in one twice.                          *)
(***************************************************************************)
THEOREM ItemsStayApart == ListSpec => []ItemsApart
  <1>1. ListInv => ItemsApart
    BY DEF ListInv
  <1> QED BY <1>1, ListInvariant, PTL

(***************************************************************************)
(* The pointers of each list describe the sequence of items inserted and   *)
(* not detached, for any number of lists that share any number of items:   *)
(* what lets the other modules take a list for a sequence.                 *)
(***************************************************************************)
THEOREM PointersAlwaysMatch == ListSpec => []PointersMatch
  <1>1. ListInv => PointersMatch
    BY DEF ListInv
  <1> QED BY <1>1, ListInvariant, PTL

=============================================================================
