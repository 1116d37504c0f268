----------------------------- MODULE LinkedList -----------------------------
(***************************************************************************)
(* The doubly linked lists that hold every object of the kernel.  An item  *)
(* carries its two link fields itself, the same two for every list it may  *)
(* be in.  The other modules take a list for the sequence of its items;    *)
(* here are the pointers that make that sound.                             *)
(*                                                                         *)
(* `contents' is a history variable: it says what each list should hold,   *)
(* by the meaning of the two operations, and no pointer depends on it.     *)
(* Callers keep the contract that the assertions under _LIST_DEBUG_ state: *)
(* they insert behind an item of that list, and detach from the list that  *)
(* the item is in.  An item that is inserted may be in a list already, but *)
(* not as its only item: the test of List_insert does not notice that one. *)
(*                                                                         *)
(* A definition with a suffix after `_' is a faulty variant, see Scheduler.*)
(***************************************************************************)
EXTENDS Integers, Sequences

CONSTANTS
  ListHead,  \* the list heads
  ListItem,  \* the items that are put into lists
  Null       \* the null pointer

ASSUME ListAssumption == Null \notin ListItem

VARIABLES
  next, prev,         \* the link fields of each item
  first, last, size,  \* the fields of each head
  contents            \* the sequence of items that each list should hold

ListVars == << next, prev, first, last, size, contents >>

In(h, item) == \E k \in 1 .. Len(contents[h]) : contents[h][k] = item
Unlisted(item) == \A h \in ListHead : ~In(h, item)

\* The only item of a list has no neighbours.
Sole(item) == \E h \in ListHead : Len(contents[h]) = 1 /\ contents[h][1] = item

Linked(item) == next[item] # Null \/ prev[item] # Null

\* What lies behind p in list h; the null pointer is in front of them all.
Behind(h, p) == IF p = Null THEN first[h] ELSE next[p]

\* The place of p in list h, 0 for the null pointer.
Place(h, p) ==
  CHOOSE k \in 0 .. Len(contents[h]) : IF p = Null THEN k = 0 ELSE k > 0 /\ contents[h][k] = p

Inserted(s, k, item) == SubSeq(s, 1, k) \o << item >> \o SubSeq(s, k + 1, Len(s))
Removed(s, k) == SubSeq(s, 1, k - 1) \o SubSeq(s, k + 1, Len(s))

Counted(h) == [size EXCEPT ![h] = @ + 1]

InsertRefused(item) == Linked(item) /\ UNCHANGED ListVars

\* List_insert puts item between p and what lies behind it.
InsertLinks(h, p, item) ==
  /\ ~Linked(item)
  /\ LET n == Behind(h, p)
     IN  /\ prev' = [i \in ListItem |-> IF i = item /\ p # Null THEN p
                                    ELSE IF i = n THEN item ELSE prev[i]]
         /\ next' = [i \in ListItem |-> IF i = item /\ n # Null THEN n
                                    ELSE IF i = p THEN item ELSE next[i]]
         /\ first' = IF p = Null THEN [first EXCEPT ![h] = item] ELSE first
         /\ last' = IF n = Null THEN [last EXCEPT ![h] = item] ELSE last
  /\ size' = Counted(h)
  /\ contents' = [contents EXCEPT ![h] = Inserted(@, Place(h, p), item)]

List_insert(h, p, item) ==
  /\ p = Null \/ In(h, p)
  /\ ~Sole(item)
  /\ InsertRefused(item) \/ InsertLinks(h, p, item)

Cleared_Not(links, item) == links

\* List_detach makes the item one that can be inserted again.
Cleared(links, item) == [links EXCEPT ![item] = Null]

List_detach(h, item) ==
  /\ In(h, item)
  /\ LET p == prev[item]
         n == next[item]
     IN  /\ next' = Cleared([i \in ListItem |-> IF i = p THEN n ELSE next[i]], item)
         /\ prev' = Cleared([i \in ListItem |-> IF i = n THEN p ELSE prev[i]], item)
         /\ first' = IF item = first[h] THEN [first EXCEPT ![h] = n] ELSE first
         /\ last' = IF item = last[h] THEN [last EXCEPT ![h] = p] ELSE last
  /\ size' = [size EXCEPT ![h] = @ - 1]
  /\ contents' = [contents EXCEPT ![h] = Removed(@, Place(h, item))]

\* PCB_alloc, Message_alloc and the others clear the links; List_init the heads.
ListInit ==
  /\ next = [i \in ListItem |-> Null]
  /\ prev = [i \in ListItem |-> Null]
  /\ first = [h \in ListHead |-> Null]
  /\ last = [h \in ListHead |-> Null]
  /\ size = [h \in ListHead |-> 0]
  /\ contents = [h \in ListHead |-> << >>]

ListNext ==
  \E h \in ListHead, item \in ListItem :
    \/ \E p \in ListItem \cup {Null} : List_insert(h, p, item)
    \/ List_detach(h, item)

ListSpec == ListInit /\ [][ListNext]_ListVars

-----------------------------------------------------------------------------
Pointer == ListItem \cup {Null}

\* Every variable has its type.
ListTypeOK ==
  /\ next \in [ListItem -> Pointer]
  /\ prev \in [ListItem -> Pointer]
  /\ first \in [ListHead -> Pointer]
  /\ last \in [ListHead -> Pointer]
  /\ size \in [ListHead -> Nat]
  /\ contents \in [ListHead -> Seq(ListItem)]

(***************************************************************************)
(* An item is in one list at most, and there once, although callers try to *)
(* insert items that have neighbours already.                              *)
(***************************************************************************)
ItemsApart ==
  \A g, h \in ListHead : \A j \in 1 .. Len(contents[g]), k \in 1 .. Len(contents[h]) :
    contents[g][j] = contents[h][k] => g = h /\ j = k

\* The head and the links of list h are those of the sequence c.
PointersOf(h, c) ==
  /\ size[h] = Len(c)
  /\ first[h] = IF c = << >> THEN Null ELSE c[1]
  /\ last[h] = IF c = << >> THEN Null ELSE c[Len(c)]
  /\ \A k \in 1 .. Len(c) :
       /\ next[c[k]] = IF k = Len(c) THEN Null ELSE c[k + 1]
       /\ prev[c[k]] = IF k = 1 THEN Null ELSE c[k - 1]

(***************************************************************************)
(* However items move between lists, the pointers of each list describe    *)
(* exactly the sequence of items that was inserted and not detached, from  *)
(* both ends; an item in no list is linked to nothing, so that it can be   *)
(* inserted (List_insert, List_detach).                                    *)
(***************************************************************************)
PointersMatch ==
  /\ \A h \in ListHead : PointersOf(h, contents[h])
  /\ \A item \in ListItem : Unlisted(item) => ~Linked(item)

=============================================================================
