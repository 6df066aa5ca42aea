-------------------------------- MODULE PriQ --------------------------------
(***************************************************************************)
(* qPriQ (qpriq.h), the array heap behind the event scheduler.  The slots  *)
(* p[1], ..., p[N] are the sequence p; slot 0 only ever holds the sentinel *)
(* compMAX, which is above every key, so that upheap stops at the root.    *)
(*                                                                         *)
(* upheap and downheap carry one item along a path and shift the items of  *)
(* the path by one slot.  Each is written as the slot where its loop ends  *)
(* (Rise, Sink) and the array it leaves.                                   *)
(***************************************************************************)
EXTENDS Naturals, Sequences, Bags, FiniteSets

CONSTANTS
  Keys,     \* the values of compType used
  Stores,   \* the values of storType used
  MaxCount  \* bound: items in the queue at one time

ASSUME PriQAssumption == Keys \subseteq Nat /\ MaxCount \in Nat

VARIABLES
  p,       \* the items, in slots 1..N
  Max,     \* slots allocated (besides slot 0)
  stored,  \* ghost: the bag of items inserted and not yet removed
  high     \* ghost: the largest N so far

vars == <<p, Max, stored, high>>

Items == [c : Keys, s : Stores]

minGrow == 4

-----------------------------------------------------------------------------
(* The heap operations on a sequence h                                     *)

\* Slot k and the slots above it.
Line[k \in Nat] == IF k = 0 THEN {} ELSE {k} \cup Line[k \div 2]

\* Where upheap leaves v: items equal to v are passed as well.
RiseFrom(h, v, k) ==
  LET Rise[j \in 1..Len(h)] ==
        IF j > 1 /\ h[j \div 2].c <= v.c THEN Rise[j \div 2] ELSE j
  IN  Rise[k]

upheap(h, k) ==
  LET v == h[k]
      top == RiseFrom(h, v, k)
  IN  [j \in 1..Len(h) |->
         IF j = top THEN v
         ELSE IF j \in Line[k] \ Line[top] THEN h[j \div 2] ELSE h[j]]

\* Slip: the left child is always taken.
LeftChild(h, j) == 2 * j

\* The child that downheap compares with: the right one only if it is larger.
Child(h, j) ==
  IF 2 * j < Len(h) /\ h[2 * j].c < h[2 * j + 1].c THEN 2 * j + 1 ELSE 2 * j

SinkFrom(h, v, k) ==
  LET Sink[j \in 1..Len(h)] ==
        IF j <= Len(h) \div 2 /\ v.c < h[Child(h, j)].c THEN Sink[Child(h, j)] ELSE j
  IN  Sink[k]

\* Slip: the moved item is not put into the slot where the loop ends.
downheapNoStore(h, k) ==
  LET last == SinkFrom(h, h[k], k)
  IN  [j \in 1..Len(h) |-> IF j \in Line[last] \ (Line[k \div 2] \cup {last})
                           THEN h[Child(h, j)] ELSE h[j]]

downheap(h, k) ==
  LET v == h[k]
      last == SinkFrom(h, v, k)
  IN  [j \in 1..Len(h) |->
         IF j = last THEN v
         ELSE IF j \in Line[last] \ Line[k \div 2] THEN h[Child(h, j)] ELSE h[j]]

\* What remove(i) leaves: the last item goes to slot i and only sinks from there.
Without(h, i) ==
  LET n == Len(h) - 1
      rest == SubSeq(h, 1, n)
  IN  IF i > n THEN rest ELSE downheap([rest EXCEPT ![i] = h[n + 1]], i)

-----------------------------------------------------------------------------
\* The scheduler's constructor asks for room at once; a default queue has none.
Init ==
  /\ p = <<>>
  /\ Max \in {0, 1}
  /\ stored = EmptyBag
  /\ high = 0

\* Slip: the array grows one insertion too late.
grownLate == IF Len(p) > Max THEN (IF Max < minGrow THEN minGrow ELSE Max * 2) ELSE Max

grown == IF Len(p) >= Max THEN (IF Max < minGrow THEN minGrow ELSE Max * 2) ELSE Max

insert(x) ==
  /\ Len(p) < MaxCount
  /\ Max' = grown
  /\ p' = upheap(Append(p, x), Len(p) + 1)
  /\ stored' = stored (+) SetToBag({x})
  /\ high' = IF Len(p) = high THEN high + 1 ELSE high

remove(i) ==
  /\ p' = Without(p, i)
  /\ stored' = stored (-) SetToBag({p[i]})
  /\ UNCHANGED <<Max, high>>

Next ==
  \/ \E x \in Items : insert(x)
  \/ \E i \in 1..Len(p) : remove(i)

Spec == Init /\ [][Next]_vars

-----------------------------------------------------------------------------
(* Properties                                                              *)

\* The queue is a sequence of items that fits into the slots allocated: insert
\* never writes past the end of p, whatever Max the queue was built with.
TypeOK ==
  /\ p \in Seq(Items)
  /\ Max \in Nat /\ Len(p) <= Max
  /\ IsABag(stored)
  /\ high \in Len(p)..MaxCount

\* The items in the slots are those inserted and not removed: moving one along a
\* path neither drops nor doubles another (qpriq.h:105-116, 149-163).
Conserved ==
  stored = [x \in {p[i] : i \in 1..Len(p)} |->
              Cardinality({i \in 1..Len(p) : p[i] = x})]

\* No item is larger than the one above it, but for those in the slots of except.
OrderedBut(h, except) ==
  \A i \in 2..Len(h) : i \notin except => h[i].c <= h[i \div 2].c

\* A queue that never held more than five items is a heap, so remove() returns an
\* item with the largest key, even when items were removed from its middle.
SmallIsHeap == high <= 5 => OrderedBut(p, {})

\* remove(i) never lifts the item it moves into slot i.  On a heap that can break
\* the order at the edge above slot i, and at no other.
RemoveBreaksOneEdge ==
  [][\A i \in 1..Len(p) :
       OrderedBut(p, {}) /\ remove(i) => OrderedBut(p', {i})]_vars
=============================================================================
