----------------------------- MODULE PriQProofs -----------------------------
(***************************************************************************)
(* Theorems about PriQ, for any keys and any bound on the items.           *)
(*                                                                         *)
(* The loops of upheap and downheap are recursive functions.  A function   *)
(* that satisfies their equations is given in closed form (the slot in     *)
(* RiseTo, in SinkTo), so they satisfy them; what the loops compute then   *)
(* follows by strong induction.  From it come the two facts about the      *)
(* array they leave: it is a permutation of the old one, and the edges     *)
(* that were out of order are mended.                                      *)
(***************************************************************************)
EXTENDS PriQ, FunctionTheorems, FiniteSetTheorems, SequenceTheorems,
        WellFoundedInduction, TLAPS

-----------------------------------------------------------------------------
(* Numbers and slots                                                       *)

\* Strong induction, for sets of numbers.
LEMMA StrongInd ==
  ASSUME NEW S, \A n \in Nat : (\A m \in Nat : m < n => m \in S) => n \in S
  PROVE  Nat \subseteq S
<1>. DEFINE R == {xy \in Nat \X Nat : xy[1] < xy[2]}
            T == Nat \ S
<1>. SUFFICES ASSUME T # {} PROVE FALSE
  OBVIOUS
<1>1. IsWellFoundedOn(R, Nat)
  BY NatLessThanWellFounded DEF OpToRel
<1>2. T \subseteq Nat /\ T # {}
  OBVIOUS
<1>. HIDE DEF R, T
<1>3. PICK m \in T : \A y \in T : ~(<<y, m>> \in R)
  BY <1>1, <1>2, WFMin
<1>. USE DEF R, T
<1>4. \A y \in Nat : y < m => y \in S
  BY <1>3
<1>. QED
  BY <1>3, <1>4

\* The slot above k.
LEMMA Up ==
  ASSUME NEW k \in Nat
  PROVE  /\ k \div 2 \in Nat
         /\ 2 * (k \div 2) <= k /\ k <= 2 * (k \div 2) + 1
         /\ k >= 1 => k \div 2 < k
         /\ k >= 2 => k \div 2 >= 1
OBVIOUS

\* The slots below j.
LEMMA UpOf ==
  ASSUME NEW j \in Nat
  PROVE  (2 * j) \div 2 = j /\ (2 * j + 1) \div 2 = j
OBVIOUS

\* The sets of slots that a walk up the tree from k may leave out.
Walks(k) == {S \in SUBSET Nat : k \in S /\ \A i \in S : i > 1 => i \div 2 \in S}

\* Line satisfies its equation.
LEMMA LineRec ==
  /\ Line = [k \in Nat |-> IF k = 0 THEN {} ELSE {k} \cup Line[k \div 2]]
  /\ Line[0] = {}
  /\ \A k \in Nat : k >= 1 => Line[k] = {k} \cup Line[k \div 2]
<1>. DEFINE A == [k \in Nat |-> IF k = 0 THEN {}
                                ELSE {j \in Nat : j >= 1 /\ \A S \in Walks(k) : j \in S}]
            F(f) == f = [k \in Nat |-> IF k = 0 THEN {} ELSE {k} \cup f[k \div 2]]
<1>1. ASSUME NEW k \in Nat, k >= 1
      PROVE  A[k] = {k} \cup A[k \div 2]
  <2>1. CASE k = 1
    <3>1. k \div 2 = 0
      BY <2>1
    <3>2. {1} \in Walks(k)
      BY <2>1 DEF Walks
    <3>3. \A S \in Walks(k) : 1 \in S
      BY <2>1 DEF Walks
    <3>4. A[k] = {1}
      BY <2>1, <3>2, <3>3
    <3>. QED
      BY <3>1, <3>4, <2>1
  <2>2. CASE k > 1
    <3>1. k \div 2 \in Nat /\ k \div 2 >= 1
      BY <2>2, Up
    <3>2. \A S \in Walks(k) : S \in Walks(k \div 2) /\ k \in S
      BY <2>2 DEF Walks
    <3>3. \A S \in Walks(k \div 2) : S \cup {k} \in Walks(k)
      BY <2>2 DEF Walks
    <3>4. \A S \in SUBSET Nat : S \in Walks(k \div 2) => k \div 2 \in S
      BY DEF Walks
    <3>5. ASSUME NEW j \in A[k], j # k PROVE j \in A[k \div 2]
      <4>1. j \in Nat /\ j >= 1 /\ \A S \in Walks(k) : j \in S
        BY <2>2
      <4>2. \A S \in Walks(k \div 2) : j \in S
        BY <3>3, <3>5, <4>1
      <4>. QED
        BY <3>1, <4>1, <4>2
    <3>6. ASSUME NEW j \in A[k \div 2] PROVE j \in A[k]
      BY <3>1, <3>2, <3>6
    <3>7. k \in A[k]
      BY <2>2, <3>2
    <3>8. A[k] \subseteq Nat /\ A[k \div 2] \subseteq Nat
      BY <3>1
    <3>. HIDE DEF A
    <3>. QED
      BY <3>5, <3>6, <3>7, <3>8
  <2>. QED
    BY <1>1, <2>1, <2>2
<1>2. A[0] = {}
  OBVIOUS
<1>3. F(A)
  <2>. DEFINE B == [k \in Nat |-> IF k = 0 THEN {} ELSE {k} \cup A[k \div 2]]
  <2>1. \A k \in Nat : A[k] = B[k]
    <3>. HIDE DEF A
    <3>. QED
      BY <1>1, <1>2
  <2>2. A = [k \in Nat |-> A[k]]
    OBVIOUS
  <2>. HIDE DEF A
  <2>. QED
    BY <2>1, <2>2
<1>. HIDE DEF A
<1>4. Line = CHOOSE f : F(f)
  BY DEF Line
<1>. HIDE DEF F
<1>5. F(Line)
  BY <1>3, <1>4
<1>. USE DEF F
<1>6. Line = [k \in Nat |-> IF k = 0 THEN {} ELSE {k} \cup Line[k \div 2]]
  BY <1>5
<1>7. ASSUME NEW k \in Nat, k >= 1 PROVE Line[k] = {k} \cup Line[k \div 2]
  <2>. DEFINE L == Line
  <2>1. L = [m \in Nat |-> IF m = 0 THEN {} ELSE {m} \cup L[m \div 2]]
    BY <1>6
  <2>. HIDE DEF L
  <2>2. L[k] = {k} \cup L[k \div 2]
    BY <2>1, <1>7
  <2>. QED
    BY <2>2 DEF L
<1>8. Line[0] = {}
  <2>. DEFINE L == Line
  <2>1. L = [m \in Nat |-> IF m = 0 THEN {} ELSE {m} \cup L[m \div 2]]
    BY <1>6
  <2>. HIDE DEF L
  <2>2. L[0] = {}
    BY <2>1
  <2>. QED
    BY <2>2 DEF L
<1>. QED
  BY <1>6, <1>7, <1>8

\* A line runs from its slot to the root.
LEMMA LineIn ==
  ASSUME NEW k \in Nat
  PROVE  /\ \A j \in Line[k] : j \in Nat /\ 1 <= j /\ j <= k
         /\ k >= 1 => k \in Line[k] /\ 1 \in Line[k]
<1>. DEFINE S == {m \in Nat : /\ \A j \in Line[m] : j \in Nat /\ 1 <= j /\ j <= m
                              /\ m >= 1 => m \in Line[m] /\ 1 \in Line[m]}
<1>1. ASSUME NEW n \in Nat, \A m \in Nat : m < n => m \in S
      PROVE  n \in S
  <2>1. CASE n = 0
    BY <2>1, LineRec
  <2>2. CASE n >= 1
    <3>1. n \div 2 \in Nat /\ n \div 2 < n /\ n \div 2 \in S
      BY <2>2, <1>1, Up
    <3>2. Line[n] = {n} \cup Line[n \div 2]
      BY <2>2, LineRec
    <3>3. n \div 2 >= 1 \/ n = 1
      BY <2>2
    <3>. QED
      BY <3>1, <3>2, <3>3, <2>2
  <2>. QED
    BY <2>1, <2>2
<1>2. Nat \subseteq S
  <2>. HIDE DEF S
  <2>. QED
    BY <1>1, StrongInd
<1>. QED
  BY <1>2

\* A slot of a line has its own line inside it.
LEMMA LineUp ==
  ASSUME NEW k \in Nat, NEW j \in Line[k]
  PROVE  /\ Line[j] \subseteq Line[k]
         /\ j > 1 => j \div 2 \in Line[k]
<1>. DEFINE S == {m \in Nat : \A i \in Line[m] : Line[i] \subseteq Line[m]}
<1>1. ASSUME NEW n \in Nat, \A m \in Nat : m < n => m \in S
      PROVE  n \in S
  <2>1. CASE n = 0
    BY <2>1, LineRec
  <2>2. CASE n >= 1
    <3>1. n \div 2 \in Nat /\ n \div 2 < n /\ n \div 2 \in S
      BY <2>2, <1>1, Up
    <3>2. Line[n] = {n} \cup Line[n \div 2]
      BY <2>2, LineRec
    <3>. QED
      BY <3>1, <3>2
  <2>. QED
    BY <2>1, <2>2
<1>2. Nat \subseteq S
  <2>. HIDE DEF S
  <2>. QED
    BY <1>1, StrongInd
<1>3. Line[j] \subseteq Line[k]
  BY <1>2
<1>4. ASSUME j > 1 PROVE j \div 2 \in Line[k]
  <2>1. j \in Nat
    BY LineIn
  <2>2. j \div 2 \in Nat /\ j \div 2 >= 1
    BY <2>1, <1>4
  <2>3. Line[j] = {j} \cup Line[j \div 2]
    BY <2>1, <1>4, LineRec
  <2>. QED
    BY <1>3, <2>2, <2>3, LineIn
<1>. QED
  BY <1>3, <1>4

\* Of two slots of a line the lower one is above the other's parent, or is it.
LEMMA LineOrder ==
  ASSUME NEW k \in Nat, NEW i \in Line[k], NEW j \in Line[k], i < j
  PROVE  i \in Line[j \div 2] /\ i <= j \div 2 /\ j \div 2 >= 1
<1>. DEFINE S == {m \in Nat : \A a, b \in Line[m] : a < b => a \in Line[b \div 2]}
<1>1. ASSUME NEW n \in Nat, \A m \in Nat : m < n => m \in S
      PROVE  n \in S
  <2>1. CASE n = 0
    BY <2>1, LineRec
  <2>2. CASE n >= 1
    <3>1. n \div 2 \in Nat /\ n \div 2 < n /\ n \div 2 \in S
      BY <2>2, <1>1, Up
    <3>2. Line[n] = {n} \cup Line[n \div 2]
      BY <2>2, LineRec
    <3>3. \A a \in Line[n \div 2] : a \in Nat /\ a <= n \div 2
      BY <3>1, LineIn
    <3>4. ASSUME NEW a \in Line[n], NEW b \in Line[n], a < b PROVE a \in Line[b \div 2]
      <4>1. CASE b = n
        <5>1. a # n
          BY <4>1, <3>4
        <5>. QED
          BY <5>1, <4>1, <3>2
      <4>2. CASE b # n
        <5>1. b \in Line[n \div 2] /\ b \in Nat /\ b <= n \div 2
          BY <4>2, <3>2, <3>3
        <5>2. a # n
          BY <5>1, <3>1, <3>4
        <5>3. a \in Line[n \div 2]
          BY <5>2, <3>2
        <5>. QED
          BY <5>1, <5>3, <3>1, <3>4
      <4>. QED
        BY <4>1, <4>2
    <3>. QED
      BY <3>4
  <2>. QED
    BY <2>1, <2>2
<1>2. Nat \subseteq S
  <2>. HIDE DEF S
  <2>. QED
    BY <1>1, StrongInd
<1>3. i \in Line[j \div 2]
  BY <1>2
<1>4. i \in Nat /\ j \in Nat /\ i >= 1
  BY LineIn
<1>. QED
  BY <1>3, <1>4, LineIn, Up

-----------------------------------------------------------------------------
(* The loops                                                               *)

Pick(S) == CHOOSE t \in S : TRUE

LEMMA PickIn ==
  /\ \A S : S # {} => Pick(S) \in S
  /\ \A t : Pick({t}) = t
BY DEF Pick

\* upheap's loop passes the slot j.
Passes(h, v, j) == j > 1 /\ h[j \div 2].c <= v.c

\* Where it ends when it starts from slot j.
RiseTo(h, v, j) ==
  {t \in Line[j] : /\ ~Passes(h, v, t)
                   /\ t = j \/ h[t].c <= v.c
                   /\ \A i \in Line[j] \ Line[t] : Passes(h, v, i)}

\* upheap's loop, one step at a time.
LEMMA RiseRec ==
  ASSUME NEW h, Len(h) \in Nat, NEW v
  PROVE  \A j \in 1..Len(h) :
           RiseFrom(h, v, j) = IF Passes(h, v, j) THEN RiseFrom(h, v, j \div 2) ELSE j
<1>. DEFINE n == Len(h)
            W == [j \in 1..n |-> Pick(RiseTo(h, v, j))]
            F(f) == f = [j \in 1..n |-> IF Passes(h, v, j) THEN f[j \div 2] ELSE j]
<1>1. ASSUME NEW j \in 1..n, Passes(h, v, j)
      PROVE  j \div 2 \in 1..n /\ RiseTo(h, v, j) = RiseTo(h, v, j \div 2)
  <2>1. j \in Nat /\ j > 1 /\ j \div 2 \in 1..n
    BY <1>1 DEF Passes
  <2>2. Line[j] = {j} \cup Line[j \div 2]
    BY <2>1, LineRec
  <2>3. \A t \in Line[j \div 2] : t < j /\ Line[t] \subseteq Line[j \div 2]
    BY <2>1, LineIn, LineUp
  <2>4. \A t \in Line[j \div 2] : j \notin Line[t]
    BY <2>3, <2>1
  <2>5. h[j \div 2].c <= v.c
    BY <1>1 DEF Passes
  <2>6. ASSUME NEW t \in RiseTo(h, v, j) PROVE t \in RiseTo(h, v, j \div 2)
    <3>1. t # j
      BY <1>1 DEF RiseTo
    <3>. QED
      BY <3>1, <2>2 DEF RiseTo
  <2>7. ASSUME NEW t \in RiseTo(h, v, j \div 2) PROVE t \in RiseTo(h, v, j)
    BY <1>1, <2>2, <2>4, <2>5 DEF RiseTo
  <2>. QED
    BY <2>1, <2>6, <2>7
<1>2. ASSUME NEW j \in 1..n, ~Passes(h, v, j)
      PROVE  RiseTo(h, v, j) = {j}
  <2>1. j \in Nat /\ j \in Line[j]
    BY LineIn
  <2>2. \A t \in Line[j] : t # j => j \notin Line[t]
    BY <2>1, LineIn
  <2>. QED
    BY <1>2, <2>1, <2>2 DEF RiseTo
<1>3. F(W)
  <2>. DEFINE B == [j \in 1..n |-> IF Passes(h, v, j) THEN W[j \div 2] ELSE j]
  <2>1. \A j \in 1..n : W[j] = B[j]
    BY <1>1, <1>2, PickIn
  <2>2. W = [j \in 1..n |-> W[j]]
    OBVIOUS
  <2>. HIDE DEF W
  <2>. QED
    BY <2>1, <2>2
<1>. HIDE DEF W
<1>4. \A k \in 1..Len(h) : RiseFrom(h, v, k) = (CHOOSE f : F(f))[k]
  BY DEF RiseFrom, Passes
<1>. HIDE DEF F
<1>5. F(CHOOSE f : F(f))
  BY <1>3
<1>. DEFINE g == CHOOSE f : F(f)
<1>. HIDE DEF g
<1>6. F(g)
  BY <1>5 DEF g
<1>7. \A j \in 1..n : g[j] = IF Passes(h, v, j) THEN g[j \div 2] ELSE j
  BY <1>6 DEF F
<1>. QED
  BY <1>1, <1>4, <1>7 DEF g

\* Where upheap's loop ends, and what it compared on the way.
LEMMA RiseFacts ==
  ASSUME NEW h, Len(h) \in Nat, NEW v, NEW k \in 1..Len(h)
  PROVE  RiseFrom(h, v, k) \in RiseTo(h, v, k)
<1>. DEFINE S == {j \in Nat : j \in 1..Len(h) => RiseFrom(h, v, j) \in RiseTo(h, v, j)}
<1>2. ASSUME NEW j \in Nat, \A m \in Nat : m < j => m \in S
      PROVE  j \in S
  <2>. SUFFICES ASSUME j \in 1..Len(h) PROVE RiseFrom(h, v, j) \in RiseTo(h, v, j)
    OBVIOUS
  <2>1. CASE Passes(h, v, j)
    <3>1. j > 1 /\ j \div 2 \in 1..Len(h) /\ j \div 2 < j
      BY <2>1 DEF Passes
    <3>2. RiseFrom(h, v, j) = RiseFrom(h, v, j \div 2)
      BY RiseRec, <2>1
    <3>3. RiseFrom(h, v, j) \in RiseTo(h, v, j \div 2)
      BY <3>1, <3>2, <1>2
    <3>4. Line[j] = {j} \cup Line[j \div 2]
      BY <3>1, LineRec
    <3>5. h[j \div 2].c <= v.c
      BY <2>1 DEF Passes
    <3>. QED
      BY <2>1, <3>3, <3>4, <3>5 DEF RiseTo
  <2>2. CASE ~Passes(h, v, j)
    <3>1. RiseFrom(h, v, j) = j
      BY RiseRec, <2>2
    <3>. QED
      BY <2>2, <3>1, LineIn DEF RiseTo
  <2>. QED
    BY <2>1, <2>2
<1>3. Nat \subseteq S
  <2>. HIDE DEF S
  <2>. QED
    BY <1>2, StrongInd
<1>. QED
  BY <1>3

\* downheap's loop leaves the slot j for the child it compared with.
Falls(h, v, j) == j <= Len(h) \div 2 /\ v.c < h[Child(h, j)].c

\* Where it ends when it starts from slot j.
SinkTo(h, v, j) ==
  {t \in 1..Len(h) :
     /\ j \in Line[t]
     /\ ~Falls(h, v, t)
     /\ \A i \in Line[t] \ (Line[j \div 2] \cup {t}) :
          Falls(h, v, i) /\ Child(h, i) \in Line[t]}

\* The child is below its slot, and one of the array's.
LEMMA ChildIn ==
  ASSUME NEW h, Len(h) \in Nat, NEW j \in 1..Len(h)
  PROVE  /\ Child(h, j) \in {2 * j, 2 * j + 1}
         /\ Child(h, j) \div 2 = j /\ Child(h, j) > j
         /\ j <= Len(h) \div 2 => Child(h, j) \in 1..Len(h)
<1>0. j \in Nat /\ j >= 1
  OBVIOUS
<1>1. 2 * j < Len(h) => 2 * j + 1 <= Len(h)
  OBVIOUS
<1>2. j <= Len(h) \div 2 => 2 * j <= Len(h)
  OBVIOUS
<1>3. (2 * j) \div 2 = j /\ (2 * j + 1) \div 2 = j
  BY <1>0, UpOf
<1>4. Child(h, j) \in {2 * j, 2 * j + 1} /\ (Child(h, j) = 2 * j + 1 => 2 * j < Len(h))
  BY DEF Child
<1>. HIDE DEF Child
<1>5. j <= Len(h) \div 2 => Child(h, j) \in 1..Len(h)
  BY <1>0, <1>1, <1>2, <1>4
<1>6. Child(h, j) \div 2 = j /\ Child(h, j) > j
  BY <1>0, <1>3, <1>4
<1>. QED
  BY <1>4, <1>5, <1>6

\* downheap's loop, one step at a time.
LEMMA SinkRec ==
  ASSUME NEW h, Len(h) \in Nat, NEW v
  PROVE  \A j \in 1..Len(h) :
           SinkFrom(h, v, j) = IF Falls(h, v, j) THEN SinkFrom(h, v, Child(h, j)) ELSE j
<1>. DEFINE n == Len(h)
            W == [j \in 1..n |-> Pick(SinkTo(h, v, j))]
            F(f) == f = [j \in 1..n |-> IF Falls(h, v, j) THEN f[Child(h, j)] ELSE j]
<1>1. ASSUME NEW j \in 1..n, Falls(h, v, j)
      PROVE  Child(h, j) \in 1..n /\ SinkTo(h, v, j) = SinkTo(h, v, Child(h, j))
  <2>. DEFINE c == Child(h, j)
  <2>1. j \in Nat /\ c \in 1..n /\ c > 1 /\ c \div 2 = j
    BY <1>1, ChildIn DEF Falls
  <2>. HIDE DEF c
  <2>2. Line[j] = {j} \cup Line[j \div 2] /\ j \notin Line[j \div 2]
    BY <2>1, LineRec, LineIn
  <2>3. ASSUME NEW t \in SinkTo(h, v, j) PROVE t \in SinkTo(h, v, c)
    <3>1. t # j
      BY <1>1 DEF SinkTo
    <3>2. c \in Line[t]
      BY <3>1, <2>2 DEF SinkTo, c
    <3>. QED
      BY <3>2, <2>1, <2>2 DEF SinkTo
  <2>4. ASSUME NEW t \in SinkTo(h, v, c) PROVE t \in SinkTo(h, v, j)
    <3>1. j \in Line[t] /\ c \in Line[t]
      BY <2>1, LineUp DEF SinkTo
    <3>2. \A i \in Line[t] \ (Line[j \div 2] \cup {t}) :
            Falls(h, v, i) /\ Child(h, i) \in Line[t]
      BY <1>1, <2>1, <2>2, <3>1 DEF SinkTo, c
    <3>. QED
      BY <3>1, <3>2 DEF SinkTo
  <2>. QED
    BY <2>1, <2>3, <2>4 DEF c
<1>2. ASSUME NEW j \in 1..n, ~Falls(h, v, j)
      PROVE  SinkTo(h, v, j) = {j}
  <2>1. Line[j] = {j} \cup Line[j \div 2] /\ j \notin Line[j \div 2]
    BY LineRec, LineIn
  <2>2. j \in SinkTo(h, v, j)
    BY <1>2, <2>1 DEF SinkTo
  <2>3. \A t \in SinkTo(h, v, j) : t = j
    BY <1>2, <2>1 DEF SinkTo
  <2>. QED
    BY <2>2, <2>3
<1>3. F(W)
  <2>. DEFINE B == [j \in 1..n |-> IF Falls(h, v, j) THEN W[Child(h, j)] ELSE j]
  <2>1. \A j \in 1..n : W[j] = B[j]
    BY <1>1, <1>2, PickIn
  <2>2. W = [j \in 1..n |-> W[j]]
    OBVIOUS
  <2>. HIDE DEF W
  <2>. QED
    BY <2>1, <2>2
<1>. HIDE DEF W
<1>4. \A k \in 1..Len(h) : SinkFrom(h, v, k) = (CHOOSE f : F(f))[k]
  BY DEF SinkFrom, Falls
<1>. HIDE DEF F
<1>5. F(CHOOSE f : F(f))
  BY <1>3
<1>. DEFINE g == CHOOSE f : F(f)
<1>. HIDE DEF g
<1>6. F(g)
  BY <1>5 DEF g
<1>7. \A j \in 1..n : g[j] = IF Falls(h, v, j) THEN g[Child(h, j)] ELSE j
  BY <1>6 DEF F
<1>. QED
  BY <1>1, <1>4, <1>7 DEF g

\* Where downheap's loop ends, and what it compared on the way.
LEMMA SinkFacts ==
  ASSUME NEW h, Len(h) \in Nat, NEW v, NEW k \in 1..Len(h)
  PROVE  SinkFrom(h, v, k) \in SinkTo(h, v, k)
<1>. DEFINE S == {d \in Nat : \A j \in 1..Len(h) :
                               Len(h) - j = d => SinkFrom(h, v, j) \in SinkTo(h, v, j)}
<1>2. ASSUME NEW d \in Nat, \A m \in Nat : m < d => m \in S
      PROVE  d \in S
  <2>. SUFFICES ASSUME NEW j \in 1..Len(h), Len(h) - j = d
                PROVE  SinkFrom(h, v, j) \in SinkTo(h, v, j)
    OBVIOUS
  <2>0. Line[j] = {j} \cup Line[j \div 2] /\ j \notin Line[j \div 2]
    BY LineRec, LineIn
  <2>1. CASE Falls(h, v, j)
    <3>. DEFINE c == Child(h, j)
                t == SinkFrom(h, v, j)
    <3>1. c \in 1..Len(h) /\ c > 1 /\ c \div 2 = j /\ c > j
      BY <2>1, ChildIn DEF Falls
    <3>2. t = SinkFrom(h, v, c)
      BY SinkRec, <2>1
    <3>. HIDE DEF c, t
    <3>3. Len(h) - c \in Nat /\ Len(h) - c < d
      BY <3>1
    <3>4. t \in SinkTo(h, v, c)
      BY <3>1, <3>2, <3>3, <1>2
    <3>5. j \in Line[t] /\ c \in Line[t]
      BY <3>1, <3>4, LineUp DEF SinkTo
    <3>6. \A i \in Line[t] \ (Line[j \div 2] \cup {t}) :
            Falls(h, v, i) /\ Child(h, i) \in Line[t]
      BY <2>0, <2>1, <3>1, <3>4, <3>5 DEF SinkTo, c
    <3>7. t \in SinkTo(h, v, j)
      BY <3>4, <3>5, <3>6 DEF SinkTo
    <3>. QED
      BY <3>7 DEF t
  <2>2. CASE ~Falls(h, v, j)
    <3>1. SinkFrom(h, v, j) = j
      BY SinkRec, <2>2
    <3>. QED
      BY <2>0, <2>2, <3>1 DEF SinkTo
  <2>. QED
    BY <2>1, <2>2
<1>3. Nat \subseteq S
  <2>. HIDE DEF S
  <2>. QED
    BY <1>2, StrongInd
<1>4. Len(h) - k \in Nat
  OBVIOUS
<1>5. SinkFrom(h, v, k) \in SinkTo(h, v, k)
  BY <1>3, <1>4
<1>. QED
  BY <1>5

\* An array of n items is a sequence.
LEMMA FunSeq ==
  ASSUME NEW S, NEW n \in Nat, NEW f \in [1..n -> S]
  PROVE  f \in Seq(S) /\ Len(f) = n
OBVIOUS

\* The slots that upheap shifts, and those that downheap shifts.
Climbed(h, k) == Line[k] \ Line[RiseFrom(h, h[k], k)]
Dropped(h, k) == Line[SinkFrom(h, h[k], k)] \ Line[k \div 2]

\* The slots between where upheap ends and where it starts.
LEMMA ClimbedFacts ==
  ASSUME NEW h \in Seq(Items), NEW k \in 1..Len(h), NEW top, top = RiseFrom(h, h[k], k)
  PROVE  /\ top \in 1..k /\ top \in Line[k]
         /\ \A j : j \in Climbed(h, k) <=> j \in Line[k] /\ top < j
         /\ \A j \in Climbed(h, k) :
              /\ j \in 2..k /\ h[j \div 2].c <= h[k].c
              /\ j \div 2 \in Climbed(h, k) \cup {top}
         /\ ~Passes(h, h[k], top)
         /\ top = k \/ h[top].c <= h[k].c
<1>1. Len(h) \in Nat
  OBVIOUS
<1>2. top \in RiseTo(h, h[k], k)
  BY <1>1, RiseFacts
<1>3. top \in Line[k] /\ top \in Nat /\ top >= 1 /\ top <= k
  BY <1>2, LineIn DEF RiseTo
<1>4. ASSUME NEW j \in Climbed(h, k) PROVE top < j
  <2>1. j \in Line[k] /\ j \notin Line[top] /\ j \in Nat
    BY LineIn DEF Climbed
  <2>2. j # top
    BY <2>1, <1>3, LineIn
  <2>3. ~(j < top)
    <3>. SUFFICES ASSUME j < top PROVE FALSE
      OBVIOUS
    <3>1. j \in Line[top \div 2]
      BY <1>3, <2>1, LineOrder
    <3>. QED
      BY <1>3, <2>1, <3>1, LineRec
  <2>. QED
    BY <1>3, <2>1, <2>2, <2>3
<1>5. ASSUME NEW j \in Line[k], top < j PROVE j \in Climbed(h, k)
  BY <1>3, <1>5, LineIn DEF Climbed
<1>6. ASSUME NEW j \in Climbed(h, k)
      PROVE  /\ j \in 2..k /\ h[j \div 2].c <= h[k].c
             /\ j \div 2 \in Climbed(h, k) \cup {top}
  <2>1. j \in Line[k] /\ j \in Nat /\ j <= k /\ top < j
    BY <1>4, LineIn DEF Climbed
  <2>2. h[j \div 2].c <= h[k].c
    BY <1>2 DEF RiseTo, Passes, Climbed
  <2>3. j \div 2 \in Line[k] /\ top <= j \div 2 /\ j \div 2 \in Nat
    BY <2>1, <1>3, LineUp, LineOrder
  <2>. QED
    BY <2>1, <2>2, <2>3, <1>3, <1>5
<1>. QED
  BY <1>2, <1>3, <1>4, <1>5, <1>6, LineIn DEF RiseTo, Climbed

\* The slots between where downheap starts and where it ends.
LEMMA DroppedFacts ==
  ASSUME NEW h \in Seq(Items), NEW k \in 1..Len(h), NEW last, last = SinkFrom(h, h[k], k)
  PROVE  /\ last \in k..Len(h) /\ last \in Dropped(h, k) /\ k \in Dropped(h, k)
         /\ \A j : j \in Dropped(h, k) <=> j \in Line[last] /\ k <= j
         /\ \A j \in Dropped(h, k) :
              /\ j \in k..last
              /\ j # last => /\ Falls(h, h[k], j) /\ Child(h, j) \in Dropped(h, k)
                             /\ Child(h, j) > j
              /\ j # k => j \div 2 \in Dropped(h, k) /\ Child(h, j \div 2) = j
         /\ ~Falls(h, h[k], last)
<1>1. Len(h) \in Nat
  OBVIOUS
<1>2. last \in SinkTo(h, h[k], k)
  BY <1>1, SinkFacts
<1>3. last \in 1..Len(h) /\ k \in Line[last] /\ k <= last /\ last \in Line[last]
  BY <1>2, LineIn DEF SinkTo
<1>4. \A j \in Line[last] : j \in Nat /\ j >= 1 /\ j <= last
  BY <1>3, LineIn
<1>5. Line[k] = {k} \cup Line[k \div 2]
  BY LineRec
<1>6. k \div 2 \in Nat /\ k \div 2 < k
  OBVIOUS
<1>7. \A j \in Line[k \div 2] : j < k
  BY <1>6, LineIn
<1>8. \A j \in Line[last] : j < k => j \in Line[k \div 2]
  BY <1>3, LineOrder
<1>9. \A j : j \in Dropped(h, k) <=> j \in Line[last] /\ k <= j
  BY <1>4, <1>7, <1>8 DEF Dropped
<1>10. k \in Dropped(h, k) /\ last \in Dropped(h, k)
  BY <1>3, <1>9
<1>11. ASSUME NEW j \in Dropped(h, k), j # last
       PROVE  /\ Falls(h, h[k], j) /\ Child(h, j) \in Dropped(h, k)
              /\ Child(h, j) > j
  <2>1. j \in Line[last] /\ k <= j /\ j \in 1..Len(h)
    BY <1>3, <1>4, <1>9
  <2>2. Falls(h, h[k], j) /\ Child(h, j) \in Line[last]
    BY <1>2, <1>11 DEF SinkTo, Dropped
  <2>3. Child(h, j) > j
    BY <1>1, <2>1, ChildIn
  <2>. QED
    BY <2>1, <2>2, <2>3, <1>4, <1>9
<1>12. ASSUME NEW j \in Dropped(h, k), j # k
       PROVE  j \div 2 \in Dropped(h, k) /\ Child(h, j \div 2) = j
  <2>1. j \in Line[last] /\ k < j /\ j \in Nat /\ j <= last
    BY <1>4, <1>9, <1>12
  <2>2. k <= j \div 2 /\ j \div 2 \in Line[last] /\ j \div 2 < j
    BY <2>1, <1>3, LineUp, LineOrder
  <2>3. j \div 2 \in Dropped(h, k) /\ j \div 2 # last /\ j \div 2 \in 1..Len(h)
    BY <2>1, <2>2, <1>3, <1>9
  <2>. DEFINE i == j \div 2
  <2>4. Child(h, i) \in Line[last] /\ Child(h, i) \div 2 = i /\ Child(h, i) > i
    BY <2>3, <1>1, <1>9, <1>11, ChildIn
  <2>5. Child(h, i) \in Nat
    BY <2>4, <1>4
  <2>6. ~(j < Child(h, i))
    <3>. SUFFICES ASSUME j < Child(h, i) PROVE FALSE
      OBVIOUS
    <3>1. j <= Child(h, i) \div 2
      BY <1>3, <2>1, <2>4, LineOrder
    <3>. QED
      BY <3>1, <2>1, <2>2, <2>4
  <2>7. ~(Child(h, i) < j)
    <3>. SUFFICES ASSUME Child(h, i) < j PROVE FALSE
      OBVIOUS
    <3>. DEFINE d == Child(h, i)
    <3>1. last \in Nat /\ d \in Line[last] /\ j \in Line[last] /\ d < j
      BY <1>3, <2>1, <2>4
    <3>. HIDE DEF d
    <3>2. d <= j \div 2
      BY <3>1, LineOrder
    <3>. QED
      BY <3>2, <2>1, <2>4, <2>5 DEF d
  <2>. QED
    BY <2>1, <2>3, <2>5, <2>6, <2>7
<1>13. ~Falls(h, h[k], last)
  BY <1>2 DEF SinkTo
<1>. QED
  BY <1>3, <1>4, <1>9, <1>10, <1>11, <1>12, <1>13

-----------------------------------------------------------------------------
(* The items are kept                                                      *)

\* g holds the items of h, each once, in slots of their own.
Permutes(h, g) ==
  \E s \in Injection(1..Len(h), 1..Len(h)) : g = [j \in 1..Len(h) |-> h[s[j]]]

\* Every item upheap shifts goes to the slot the item before it left.
LEMMA UpheapPermutes ==
  ASSUME NEW h \in Seq(Items), NEW k \in 1..Len(h)
  PROVE  Permutes(h, upheap(h, k))
<1>. DEFINE n == Len(h)
            top == RiseFrom(h, h[k], k)
            P == Climbed(h, k)
            s == [j \in 1..n |-> IF j = top THEN k ELSE IF j \in P THEN j \div 2 ELSE j]
<1>1. n \in Nat
  OBVIOUS
<1>2. /\ top \in 1..k /\ top \in Line[k]
      /\ \A j : j \in P <=> j \in Line[k] /\ top < j
      /\ \A j \in P : j \in 2..k /\ j \div 2 \in P \cup {top}
  BY ClimbedFacts
<1>3. upheap(h, k) = [j \in 1..n |-> h[s[j]]]
  BY <1>2 DEF upheap, Climbed
<1>. HIDE DEF top, P
<1>4. s \in [1..n -> 1..n]
  BY <1>1, <1>2
<1>5. \A j \in P : j \div 2 \in Nat /\ j \div 2 < j /\ j \div 2 >= top
  BY <1>2
<1>6. \A i, j \in P : i < j => i <= j \div 2
  BY <1>2, LineOrder
<1>7. k \in P \cup {top}
  BY <1>2, LineIn
<1>8. ASSUME NEW i \in 1..n, NEW j \in 1..n, s[i] = s[j], i < j PROVE FALSE
  <2>1. CASE i \in P /\ j \in P
    <3>1. i <= j \div 2 /\ i \div 2 < i /\ i \div 2 \in Nat /\ j \div 2 \in Nat
      BY <2>1, <1>5, <1>6, <1>8
    <3>2. s[i] = i \div 2 /\ s[j] = j \div 2
      BY <2>1, <1>2
    <3>. QED
      BY <3>1, <3>2, <1>8
  <2>2. CASE i \in P /\ j \notin P
    <3>1. s[i] = i \div 2 /\ i \div 2 < i /\ i \div 2 \in Nat
      BY <2>2, <1>2, <1>5
    <3>2. j # top /\ s[j] = j
      BY <2>2, <1>2, <1>8
    <3>. QED
      BY <3>1, <3>2, <1>8
  <2>3. CASE i = top /\ j \in P
    <3>1. s[i] = k /\ s[j] = j \div 2 /\ j \div 2 < j /\ j <= k /\ j \div 2 \in Nat
      BY <2>3, <1>2, <1>5
    <3>. QED
      BY <3>1, <1>8
  <2>4. CASE i = top /\ j \notin P
    <3>1. s[i] = k /\ s[j] = j
      BY <2>4, <1>8
    <3>2. j \in P
      BY <3>1, <1>7, <1>8, <2>4
    <3>. QED
      BY <3>2, <2>4
  <2>5. CASE i \notin P /\ i # top
    <3>1. s[i] = i
      BY <2>5
    <3>2. j = top => s[j] = k
      OBVIOUS
    <3>3. j # top /\ j \in P => s[j] \in P \cup {top}
      BY <1>2
    <3>4. j # top /\ j \notin P => s[j] = j
      OBVIOUS
    <3>. QED
      BY <3>1, <3>2, <3>3, <3>4, <1>7, <1>8, <2>5
  <2>. QED
    BY <2>1, <2>2, <2>3, <2>4, <2>5
<1>9. \A i, j \in 1..n : s[i] = s[j] => i = j
  BY <1>1, <1>8
<1>10. s \in Injection(1..n, 1..n)
  BY <1>4, <1>9, Fun_IsInj
<1>. HIDE DEF s
<1>. QED
  BY <1>3, <1>10 DEF Permutes

\* The same for downheap.
LEMMA DownheapPermutes ==
  ASSUME NEW h \in Seq(Items), NEW k \in 1..Len(h)
  PROVE  Permutes(h, downheap(h, k))
<1>. DEFINE n == Len(h)
            last == SinkFrom(h, h[k], k)
            Q == Dropped(h, k)
            s == [j \in 1..n |-> IF j = last THEN k ELSE IF j \in Q THEN Child(h, j) ELSE j]
<1>1. n \in Nat
  OBVIOUS
<1>2. /\ last \in k..n /\ last \in Q /\ k \in Q
      /\ \A j \in Q : /\ j \in k..last
                      /\ j # last => Child(h, j) \in Q /\ Child(h, j) > j
  BY DroppedFacts
<1>3. downheap(h, k) = [j \in 1..n |-> h[s[j]]]
  BY <1>2 DEF downheap, Dropped
<1>4. \A j \in 1..n : Child(h, j) \div 2 = j
  BY <1>1, ChildIn
<1>. HIDE DEF last, Q
<1>0. \A j \in Q : j # last => Child(h, j) \in Q /\ Child(h, j) \in 1..n /\ Child(h, j) > k
  <2>1. ASSUME NEW j \in Q, j # last
        PROVE  Child(h, j) \in Q /\ Child(h, j) \in 1..n /\ Child(h, j) > k
    <3>1. Child(h, j) \in Q /\ Child(h, j) > j /\ j \in k..last
      BY <1>2, <2>1
    <3>2. Child(h, j) \in k..last
      BY <3>1, <1>2
    <3>. QED
      BY <3>1, <3>2, <1>1, <1>2
  <2>. QED
    BY <2>1
<1>5. s \in [1..n -> 1..n]
  BY <1>0, <1>1, <1>2
<1>6. ASSUME NEW i \in 1..n, NEW j \in 1..n, s[i] = s[j], i # j, i \in Q PROVE FALSE
  <2>1. i = last => s[i] = k
    OBVIOUS
  <2>2. j = last => s[j] = k
    OBVIOUS
  <2>3. i # last => s[i] = Child(h, i) /\ s[i] > k /\ s[i] \in Q
    BY <1>0, <1>6
  <2>4. j # last /\ j \in Q => s[j] = Child(h, j) /\ s[j] > k /\ s[j] \in Q
    BY <1>0
  <2>5. j \notin Q => s[j] = j
    BY <1>2
  <2>6. k \in Nat /\ s[i] \in Nat /\ s[j] \in Nat
    BY <1>5
  <2>7. ~(i # last /\ j # last /\ j \in Q)
    BY <2>3, <2>4, <1>4, <1>6
  <2>. HIDE DEF s
  <2>. QED
    BY <2>1, <2>2, <2>3, <2>4, <2>5, <2>6, <2>7, <1>2, <1>6
<1>7. \A i \in 1..n : i \notin Q => s[i] = i
  BY <1>2
<1>8. \A i, j \in 1..n : s[i] = s[j] => i = j
  <2>. HIDE DEF s
  <2>. QED
    BY <1>6, <1>7
<1>9. s \in Injection(1..n, 1..n)
  BY <1>5, <1>8, Fun_IsInj
<1>. HIDE DEF s
<1>. QED
  BY <1>3, <1>9 DEF Permutes

\* How often each item is in the array.
BagOf(h) ==
  [x \in {h[i] : i \in 1..Len(h)} |-> Cardinality({i \in 1..Len(h) : h[i] = x})]

\* It is a bag, of the items in the slots.
LEMMA BagIs ==
  ASSUME NEW h \in Seq(Items)
  PROVE  /\ IsABag(BagOf(h))
         /\ \A x : x \in DOMAIN BagOf(h) <=> \E i \in 1..Len(h) : h[i] = x
         /\ \A x : /\ IsFiniteSet({i \in 1..Len(h) : h[i] = x})
                   /\ x \in DOMAIN BagOf(h)
                        => /\ BagOf(h)[x] = Cardinality({i \in 1..Len(h) : h[i] = x})
                           /\ BagOf(h)[x] \in Nat /\ BagOf(h)[x] > 0
<1>. DEFINE At(x) == {i \in 1..Len(h) : h[i] = x}
<1>1. Len(h) \in Nat /\ IsFiniteSet(1..Len(h))
  BY FS_Interval
<1>2. \A x : At(x) \in SUBSET (1..Len(h))
  OBVIOUS
<1>. HIDE DEF At
<1>3. \A x : IsFiniteSet(At(x))
  BY <1>1, <1>2, FS_Subset
<1>4. \A x : Cardinality(At(x)) \in Nat /\ (At(x) # {} => Cardinality(At(x)) > 0)
  BY <1>3, FS_CardinalityType, FS_EmptySet
<1>5. \A x : x \in DOMAIN BagOf(h) <=> \E i \in 1..Len(h) : h[i] = x
  BY DEF BagOf
<1>6. ASSUME NEW x \in DOMAIN BagOf(h)
      PROVE  /\ BagOf(h)[x] = Cardinality(At(x))
             /\ BagOf(h)[x] \in Nat /\ BagOf(h)[x] > 0
  <2>1. At(x) # {}
    BY <1>5, <1>6 DEF At
  <2>2. BagOf(h)[x] = Cardinality(At(x))
    BY DEF BagOf, At
  <2>. QED
    BY <2>1, <2>2, <1>4
<1>7. BagOf(h) = [x \in DOMAIN BagOf(h) |-> BagOf(h)[x]]
  BY DEF BagOf
<1>8. IsABag(BagOf(h))
  BY <1>6, <1>7 DEF IsABag
<1>. QED
  BY <1>3, <1>5, <1>6, <1>8 DEF At

\* Moving the items around changes neither their number nor which they are.
LEMMA PermutesKeeps ==
  ASSUME NEW h \in Seq(Items), NEW g, Permutes(h, g)
  PROVE  g \in Seq(Items) /\ Len(g) = Len(h) /\ BagOf(g) = BagOf(h)
<1>. DEFINE D == 1..Len(h)
<1>1. PICK s \in Injection(D, D) : g = [j \in D |-> h[s[j]]]
  BY DEF Permutes
<1>2. Len(h) \in Nat /\ IsFiniteSet(D)
  BY FS_Interval
<1>. HIDE DEF D
<1>3. s \in [D -> D] /\ (\A a, b \in D : s[a] = s[b] => a = b)
  BY <1>1, Fun_InjectionProperties
<1>4. s \in Surjection(D, D)
  BY <1>1, <1>2, FS_Injection
<1>5. \A t \in D : \E a \in D : s[a] = t
  BY <1>4, Fun_SurjectionProperties
<1>6. g \in [D -> Items] /\ \A i \in D : g[i] = h[s[i]]
  <2>1. \A i \in D : h[i] \in Items
    BY DEF D
  <2>. QED
    BY <2>1, <1>1, <1>3
<1>7. g \in Seq(Items) /\ Len(g) = Len(h)
  BY <1>2, <1>6, FunSeq DEF D
<1>8. {g[i] : i \in D} = {h[i] : i \in D}
  <2>1. \A i \in D : \E j \in D : g[i] = h[j]
    BY <1>3, <1>6
  <2>2. \A j \in D : \E i \in D : g[i] = h[j]
    BY <1>5, <1>6
  <2>. QED
    BY <2>1, <2>2
<1>9. ASSUME NEW x
      PROVE  Cardinality({i \in D : g[i] = x}) = Cardinality({i \in D : h[i] = x})
  <2>. DEFINE S == {i \in D : g[i] = x}
              T == {i \in D : h[i] = x}
              f == [i \in S |-> s[i]]
  <2>1. f \in [S -> T]
    BY <1>6, <1>3
  <2>2. \A a, b \in S : f[a] = f[b] => a = b
    BY <1>3
  <2>3. \A t \in T : \E a \in S : f[a] = t
    BY <1>6, <1>5
  <2>4. IsFiniteSet(S)
    <3>1. S \in SUBSET D
      OBVIOUS
    <3>. QED
      BY <3>1, <1>2, FS_Subset
  <2>. HIDE DEF f, S, T
  <2>5. f \in Bijection(S, T)
    BY <2>1, <2>2, <2>3, Fun_IsBij
  <2>6. ExistsBijection(S, T)
    BY <2>5 DEF ExistsBijection
  <2>7. Cardinality(T) = Cardinality(S)
    BY <2>4, <2>6, FS_Bijection
  <2>. QED
    BY <2>7 DEF S, T
<1>10. BagOf(g) = BagOf(h)
  BY <1>7, <1>8, <1>9 DEF BagOf, D
<1>. QED
  BY <1>7, <1>10

\* A new last item is one more of its kind.
LEMMA BagAdds ==
  ASSUME NEW h \in Seq(Items), NEW x \in Items
  PROVE  BagOf(Append(h, x)) = BagOf(h) (+) SetToBag({x})
<1>. DEFINE g == Append(h, x)
            n == Len(h)
            G(y) == {i \in 1..Len(g) : g[i] = y}
            H(y) == {i \in 1..n : h[i] = y}
            B == BagOf(h)
            Sum2 == B (+) SetToBag({x})
<1>1. n \in Nat /\ g \in Seq(Items) /\ Len(g) = n + 1 /\ g[n + 1] = x
      /\ \A i \in 1..n : g[i] = h[i]
  OBVIOUS
<1>2. /\ \A y : y \in DOMAIN BagOf(g) <=> \E i \in 1..Len(g) : g[i] = y
      /\ \A y \in DOMAIN BagOf(g) : BagOf(g)[y] = Cardinality(G(y))
  BY <1>1, BagIs
<1>3. /\ \A y : y \in DOMAIN B <=> \E i \in 1..n : h[i] = y
      /\ \A y : IsFiniteSet(H(y))
      /\ \A y \in DOMAIN B : B[y] = Cardinality(H(y)) /\ B[y] \in Nat
  BY BagIs
<1>. HIDE DEF g
<1>4. \A y : y # x => G(y) = H(y)
  BY <1>1
<1>5. G(x) = H(x) \cup {n + 1} /\ n + 1 \notin H(x)
  BY <1>1
<1>6. \A y : y \notin DOMAIN B => H(y) = {}
  BY <1>3
<1>7. DOMAIN BagOf(g) = DOMAIN B \cup {x}
  <2>1. ASSUME NEW y \in DOMAIN BagOf(g) PROVE y \in DOMAIN B \cup {x}
    <3>1. PICK i \in 1..Len(g) : g[i] = y
      BY <1>2, <2>1
    <3>. QED
      BY <3>1, <1>1, <1>3
  <2>2. ASSUME NEW y \in DOMAIN B PROVE y \in DOMAIN BagOf(g)
    <3>1. PICK i \in 1..n : h[i] = y
      BY <1>3, <2>2
    <3>2. i \in 1..Len(g) /\ g[i] = y
      BY <3>1, <1>1
    <3>. QED
      BY <3>2, <1>2
  <2>3. x \in DOMAIN BagOf(g)
    BY <1>1, <1>2
  <2>. QED
    BY <2>1, <2>2, <2>3
<1>. HIDE DEF H, G, B
<1>8. Cardinality(G(x)) = Cardinality(H(x)) + 1
  BY <1>3, <1>5, FS_AddElement
<1>9. \A y : y \notin DOMAIN B => Cardinality(H(y)) = 0
  BY <1>6, FS_EmptySet
<1>10. /\ Sum2 = [y \in DOMAIN B \cup {x} |-> (IF y \in DOMAIN B THEN B[y] ELSE 0)
                                               + (IF y \in {x} THEN 1 ELSE 0)]
  BY DEF (+), SetToBag
<1>. HIDE DEF Sum2
<1>11. ASSUME NEW y \in DOMAIN B \cup {x} PROVE BagOf(g)[y] = Sum2[y]
  <2>1. CASE y = x /\ y \in DOMAIN B
    BY <2>1, <1>2, <1>3, <1>7, <1>8, <1>10
  <2>2. CASE y = x /\ y \notin DOMAIN B
    BY <2>2, <1>2, <1>7, <1>8, <1>9, <1>10
  <2>3. CASE y # x
    BY <2>3, <1>2, <1>3, <1>4, <1>7, <1>10
  <2>. QED
    BY <2>1, <2>2, <2>3, <1>11
<1>12. BagOf(g) = [y \in DOMAIN BagOf(g) |-> BagOf(g)[y]]
  BY DEF BagOf
<1>13. BagOf(g) = Sum2
  BY <1>7, <1>10, <1>11, <1>12
<1>. QED
  BY <1>13 DEF g, Sum2, B

\* What is put into a bag and taken out again leaves no trace.
LEMMA BagAddSub ==
  ASSUME NEW B, IsABag(B), NEW x
  PROVE  (B (+) SetToBag({x})) (-) SetToBag({x}) = B
<1>. DEFINE C == B (+) SetToBag({x})
<1>1. \A y \in DOMAIN B : B[y] \in Nat /\ B[y] > 0
  BY DEF IsABag
<1>2. B = [y \in DOMAIN B |-> B[y]]
  BY DEF IsABag
<1>3. C = [y \in DOMAIN B \cup {x} |-> (IF y \in DOMAIN B THEN B[y] ELSE 0)
                                       + (IF y \in {x} THEN 1 ELSE 0)]
  BY DEF (+), SetToBag
<1>. HIDE DEF C
<1>. DEFINE D == [y \in DOMAIN C |-> IF y \in {x} THEN C[y] - 1 ELSE C[y]]
<1>4. C (-) SetToBag({x}) = [y \in {d \in DOMAIN D : D[d] > 0} |-> D[y]]
  BY DEF (-), SetToBag
<1>5. ASSUME NEW y \in DOMAIN B PROVE y \in DOMAIN D /\ D[y] = B[y]
  BY <1>1, <1>3, <1>5
<1>6. ASSUME NEW y \in DOMAIN D, y \notin DOMAIN B PROVE D[y] = 0
  BY <1>3, <1>6
<1>. HIDE DEF D
<1>7. {d \in DOMAIN D : D[d] > 0} = DOMAIN B
  BY <1>1, <1>5, <1>6
<1>8. C (-) SetToBag({x}) = [y \in DOMAIN B |-> B[y]]
  BY <1>4, <1>5, <1>7
<1>. QED
  BY <1>2, <1>8 DEF C

\* The array in which Without sinks the item of slot i.
Filled(h, i) ==
  LET n == Len(h) - 1
      rest == SubSeq(h, 1, n)
  IN  IF i > n THEN rest ELSE [rest EXCEPT ![i] = h[n + 1]]

\* It holds the last item in slot i.
LEMMA FilledIs ==
  ASSUME NEW h \in Seq(Items), NEW i \in 1..Len(h)
  PROVE  /\ Filled(h, i) \in Seq(Items) /\ Len(Filled(h, i)) = Len(h) - 1
         /\ \A j \in 1..(Len(h) - 1) :
              Filled(h, i)[j] = IF j = i THEN h[Len(h)] ELSE h[j]
         /\ Without(h, i) = IF i = Len(h) THEN Filled(h, i) ELSE downheap(Filled(h, i), i)
<1>. DEFINE n == Len(h) - 1
            rest == SubSeq(h, 1, n)
<1>1. n \in Nat /\ Len(h) = n + 1 /\ i \in Nat /\ 1 <= i /\ i <= n + 1
  OBVIOUS
<1>2. rest \in Seq(Items) /\ Len(rest) = n /\ \A j \in 1..n : rest[j] = h[j]
  BY <1>1, SubSeqProperties
<1>. HIDE DEF rest, n
<1>3. CASE i > n
  <2>0. Filled(h, i) = rest
    BY <1>3 DEF Filled, rest, n
  <2>1. Filled(h, i) = rest /\ i = Len(h) /\ \A j \in 1..n : j # i
    BY <2>0, <1>1, <1>3
  <2>2. Without(h, i) = rest
    BY <1>3 DEF Without, rest, n
  <2>. QED
    BY <2>1, <2>2, <1>1, <1>2
<1>4. CASE ~(i > n)
  <2>0. h[Len(h)] \in Items
    BY <1>1, ElementOfSeq
  <2>1. i \in 1..n /\ h[n + 1] \in Items /\ i # Len(h)
    BY <2>0, <1>1, <1>4
  <2>2. Filled(h, i) = [rest EXCEPT ![i] = h[n + 1]]
    BY <1>4 DEF Filled, rest, n
  <2>3. Without(h, i) = downheap(Filled(h, i), i)
    BY <1>4, <2>2 DEF Without, rest, n
  <2>4. /\ Filled(h, i) \in Seq(Items) /\ Len(Filled(h, i)) = n
        /\ \A j \in 1..n : Filled(h, i)[j] = IF j = i THEN h[n + 1] ELSE rest[j]
    BY <2>1, <2>2, <1>2, ExceptSeq
  <2>. QED
    BY <2>1, <2>3, <2>4, <1>1, <1>2
<1>. QED
  BY <1>3, <1>4 DEF n

\* remove takes the item of slot i out, and no other.
LEMMA WithoutIs ==
  ASSUME NEW h \in Seq(Items), NEW i \in 1..Len(h)
  PROVE  /\ Without(h, i) \in Seq(Items) /\ Len(Without(h, i)) = Len(h) - 1
         /\ BagOf(Without(h, i)) = BagOf(h) (-) SetToBag({h[i]})
<1>. DEFINE q == Filled(h, i)
            n == Len(h) - 1
            g == Append(q, h[i])
            s == [j \in 1..Len(h) |-> IF j = i THEN n + 1 ELSE IF j = n + 1 THEN i ELSE j]
<1>1. /\ q \in Seq(Items) /\ Len(q) = n /\ n \in Nat /\ Len(h) = n + 1
      /\ \A j \in 1..n : q[j] = IF j = i THEN h[n + 1] ELSE h[j]
      /\ Without(h, i) = IF i = Len(h) THEN q ELSE downheap(q, i)
  BY FilledIs
<1>. HIDE DEF q
<1>2. /\ Without(h, i) \in Seq(Items) /\ Len(Without(h, i)) = n
      /\ BagOf(Without(h, i)) = BagOf(q)
  <2>1. CASE i = Len(h)
    BY <2>1, <1>1
  <2>2. CASE i # Len(h)
    <3>1. i \in 1..Len(q) /\ Without(h, i) = downheap(q, i)
      BY <2>2, <1>1
    <3>2. Permutes(q, Without(h, i))
      BY <3>1, <1>1, DownheapPermutes
    <3>. QED
      BY <3>2, <1>1, PermutesKeeps
  <2>. QED
    BY <2>1, <2>2
<1>3. Permutes(h, g)
  <2>1. s \in [1..Len(h) -> 1..Len(h)]
    BY <1>1
  <2>2. \A a, b \in 1..Len(h) : s[a] = s[b] => a = b
    BY <1>1
  <2>3. s \in Injection(1..Len(h), 1..Len(h))
    BY <2>1, <2>2, Fun_IsInj
  <2>4. \A j \in 1..Len(h) : g[j] = h[s[j]]
    BY <1>1
  <2>5. g = [j \in 1..Len(h) |-> g[j]]
    BY <1>1
  <2>. HIDE DEF g, s
  <2>6. g = [j \in 1..Len(h) |-> h[s[j]]]
    BY <2>4, <2>5
  <2>. QED
    BY <2>3, <2>6 DEF Permutes
<1>4. BagOf(h) = BagOf(q) (+) SetToBag({h[i]})
  <2>1. h[i] \in Items
    OBVIOUS
  <2>2. BagOf(h) = BagOf(g)
    BY <1>3, PermutesKeeps
  <2>. QED
    BY <2>1, <2>2, <1>1, BagAdds
<1>5. IsABag(BagOf(q))
  BY <1>1, BagIs
<1>6. BagOf(q) = BagOf(h) (-) SetToBag({h[i]})
  BY <1>4, <1>5, BagAddSub
<1>. QED
  BY <1>2, <1>6

-----------------------------------------------------------------------------
(* The order                                                               *)

\* Keys are numbers.
LEMMA KeyOf ==
  ASSUME NEW h \in Seq(Items), NEW i \in 1..Len(h)
  PROVE  h[i].c \in Nat
<1>1. h[i] \in Items
  BY ElementOfSeq
<1>. QED
  BY <1>1, PriQAssumption DEF Items

\* upheap mends the one edge that a new last item may break.
LEMMA UpheapOrders ==
  ASSUME NEW h \in Seq(Items), Len(h) >= 1, OrderedBut(h, {Len(h)})
  PROVE  OrderedBut(upheap(h, Len(h)), {})
<1>. DEFINE n == Len(h)
            v == h[n]
            top == RiseFrom(h, v, n)
            P == Climbed(h, n)
            g == upheap(h, n)
<1>1. n \in Nat /\ n \in 1..n /\ \A i \in 1..n : h[i].c \in Nat
  BY KeyOf
<1>2. /\ top \in 1..n /\ top \in Line[n]
      /\ \A j : j \in P <=> j \in Line[n] /\ top < j
      /\ \A j \in P : j \in 2..n /\ h[j \div 2].c <= v.c /\ j \div 2 \in P \cup {top}
      /\ top > 1 => ~(h[top \div 2].c <= v.c)
      /\ top = n \/ h[top].c <= v.c
  BY <1>1, ClimbedFacts DEF Passes
<1>3. g = [j \in 1..n |-> IF j = top THEN v ELSE IF j \in P THEN h[j \div 2] ELSE h[j]]
  BY DEF upheap, Climbed
<1>4. n \in P \cup {top}
  BY <1>1, <1>2, LineIn
<1>5. n = Len(g)
  BY <1>1, <1>3, FunSeq
<1>. HIDE DEF top, P, g
<1>6. /\ g[top] = v
      /\ \A j \in P : j \in 1..n /\ g[j] = h[j \div 2]
      /\ \A j \in 1..n : j # top /\ j \notin P => g[j] = h[j]
  BY <1>1, <1>2, <1>3
<1>7. \A j \in 2..n : j # n => h[j].c <= h[j \div 2].c
  BY DEF OrderedBut
<1>8. ASSUME NEW i \in 2..n PROVE g[i].c <= g[i \div 2].c
  <2>. DEFINE u == i \div 2
  <2>1. u \in 1..n /\ u < i /\ i \in 1..n
    BY <1>1
  <2>2. h[i].c \in Nat /\ h[u].c \in Nat /\ v.c \in Nat /\ h[top].c \in Nat
    BY <1>1, <1>2, <2>1
  <2>3. u \in P => u \in 2..n /\ u # n /\ u \div 2 \in 1..n
    BY <1>2, <2>1
  <2>4. u \in P => h[u \div 2].c \in Nat /\ h[u].c <= h[u \div 2].c
    BY <1>1, <1>7, <2>3
  <2>5. CASE i = top
    <3>1. u \notin P /\ u # top
      BY <1>2, <2>1, <2>5
    <3>. QED
      BY <3>1, <2>1, <2>2, <2>5, <1>2, <1>6
  <2>6. CASE i \in P
    <3>1. g[i] = h[u]
      BY <2>6, <1>6
    <3>2. CASE u = top
      BY <3>1, <3>2, <2>6, <1>2, <1>6
    <3>3. CASE u \in P
      <4>1. g[u] = h[u \div 2]
        BY <3>3, <1>6
      <4>. QED
        BY <3>1, <4>1, <3>3, <2>4
    <3>. QED
      BY <3>2, <3>3, <2>6, <1>2
  <2>7. CASE i # top /\ i \notin P
    <3>1. g[i] = h[i] /\ i # n
      BY <2>1, <2>7, <1>4, <1>6
    <3>2. h[i].c <= h[u].c
      BY <3>1, <1>7
    <3>3. CASE u = top
      <4>1. top # n
        BY <2>1, <3>3
      <4>2. h[top].c <= v.c
        BY <4>1, <1>2
      <4>3. h[i].c <= v.c
        BY <4>2, <3>2, <3>3, <2>2
      <4>. QED
        BY <3>1, <3>3, <4>3, <1>6
    <3>4. CASE u \in P
      <4>1. g[u] = h[u \div 2]
        BY <3>4, <1>6
      <4>2. h[i].c <= h[u \div 2].c
        BY <3>2, <3>4, <2>2, <2>4
      <4>. QED
        BY <3>1, <4>1, <4>2
    <3>5. CASE u # top /\ u \notin P
      <4>1. g[u] = h[u]
        BY <2>1, <3>5, <1>6
      <4>. QED
        BY <3>1, <3>2, <4>1
    <3>. QED
      BY <3>3, <3>4, <3>5
  <2>. QED
    BY <2>5, <2>6, <2>7
<1>9. OrderedBut(g, {})
  BY <1>5, <1>8 DEF OrderedBut
<1>. QED
  BY <1>9 DEF g

\* A slot's item is no larger than that of the child downheap would take.
LEMMA ChildLargest ==
  ASSUME NEW h \in Seq(Items), NEW i \in 2..Len(h)
  PROVE  /\ i \div 2 \in 1..Len(h) /\ i \div 2 <= Len(h) \div 2
         /\ Child(h, i \div 2) \in 1..Len(h)
         /\ h[i].c <= h[Child(h, i \div 2)].c
<1>. DEFINE u == i \div 2
<1>1. Len(h) \in Nat /\ u \in 1..Len(h) /\ u <= Len(h) \div 2 /\ i \in 1..Len(h)
  OBVIOUS
<1>2. i = 2 * u \/ i = 2 * u + 1
  OBVIOUS
<1>3. Child(h, u) \in 1..Len(h)
  BY <1>1, ChildIn
<1>4. \A j \in 1..Len(h) : h[j].c \in Nat
  BY KeyOf
<1>5. h[i].c \in Nat /\ h[Child(h, u)].c \in Nat
  BY <1>1, <1>3, <1>4
<1>. HIDE DEF u
<1>6. h[i].c <= h[Child(h, u)].c
  <2>1. CASE 2 * u < Len(h)
    <3>1. 2 * u \in 1..Len(h) /\ 2 * u + 1 \in 1..Len(h)
      BY <1>1, <2>1
    <3>2. h[2 * u].c \in Nat /\ h[2 * u + 1].c \in Nat
      BY <3>1, <1>4
    <3>3. CASE h[2 * u].c < h[2 * u + 1].c
      BY <2>1, <3>2, <3>3, <1>2 DEF Child
    <3>4. CASE ~(h[2 * u].c < h[2 * u + 1].c)
      BY <2>1, <3>2, <3>4, <1>2 DEF Child
    <3>. QED
      BY <3>3, <3>4
  <2>2. CASE ~(2 * u < Len(h))
    <3>1. i = 2 * u /\ Child(h, u) = 2 * u
      BY <2>2, <1>1, <1>2 DEF Child
    <3>. QED
      BY <3>1, <1>5
  <2>. QED
    BY <2>1, <2>2
<1>. QED
  BY <1>1, <1>3, <1>6 DEF u

\* downheap mends the edges below slot k; the edge above it only if it was in order.
LEMMA DownheapOrders ==
  ASSUME NEW h \in Seq(Items), NEW k \in 1..Len(h),
         \A i \in 2..Len(h) : i # k /\ i \div 2 # k => h[i].c <= h[i \div 2].c,
         \A i \in 2..Len(h) : i \div 2 = k /\ k > 1 => h[i].c <= h[k \div 2].c
  PROVE  /\ OrderedBut(downheap(h, k), {k})
         /\ k = 1 \/ h[k].c <= h[k \div 2].c => OrderedBut(downheap(h, k), {})
<1>. DEFINE n == Len(h)
            v == h[k]
            last == SinkFrom(h, v, k)
            Q == Dropped(h, k)
            g == downheap(h, k)
<1>1. n \in Nat /\ \A i \in 1..n : h[i].c \in Nat
  BY KeyOf
<1>2. /\ last \in k..n /\ last \in Q /\ k \in Q
      /\ \A j \in Q : /\ j \in k..last
                      /\ j # last => /\ Falls(h, v, j) /\ Child(h, j) \in Q
                                     /\ Child(h, j) > j
                      /\ j # k => j \div 2 \in Q /\ Child(h, j \div 2) = j
      /\ ~Falls(h, v, last)
  BY DroppedFacts
<1>3. g = [j \in 1..n |-> IF j = last THEN v ELSE IF j \in Q THEN h[Child(h, j)] ELSE h[j]]
  BY DEF downheap, Dropped
<1>4. n = Len(g)
  BY <1>1, <1>3, FunSeq
<1>. HIDE DEF last, Q, g
<1>5. \A j \in Q : j \in 1..n
  BY <1>1, <1>2
<1>6. /\ g[last] = v
      /\ \A j \in Q : j # last => g[j] = h[Child(h, j)]
      /\ \A j \in 1..n : j \notin Q => g[j] = h[j]
  BY <1>2, <1>3, <1>5
<1>7. \A i \in 2..n : /\ i \div 2 \in 1..n /\ i \div 2 <= n \div 2
                      /\ Child(h, i \div 2) \in 1..n
                      /\ h[i].c <= h[Child(h, i \div 2)].c
  BY ChildLargest
<1>8. \A j \in 1..n : Child(h, j) \div 2 = j
  BY <1>1, ChildIn
<1>9. ASSUME NEW i \in 2..n, i # k PROVE g[i].c <= g[i \div 2].c
  <2>. DEFINE u == i \div 2
  <2>1. u \in 1..n /\ u < i /\ i \in 1..n /\ u <= n \div 2
    BY <1>1
  <2>2. CASE i \in Q
    <3>1. u \in Q /\ u # last /\ Child(h, u) = i
      BY <2>1, <2>2, <1>2, <1>9
    <3>2. g[u] = h[i]
      BY <3>1, <1>6
    <3>3. CASE i = last
      <4>1. v.c < h[i].c
        BY <3>1, <1>2 DEF Falls
      <4>2. v.c \in Nat /\ h[i].c \in Nat
        BY <1>1, <2>1
      <4>. QED
        BY <3>2, <3>3, <4>1, <4>2, <1>6
    <3>4. CASE i # last
      <4>. DEFINE d == Child(h, i)
      <4>1. d \in Q /\ d > i /\ g[i] = h[d] /\ d \div 2 = i
        BY <2>1, <2>2, <3>4, <1>2, <1>6, <1>8
      <4>. HIDE DEF d
      <4>2. d \in 2..n /\ d # k
        BY <4>1, <2>1, <2>2, <1>2, <1>5
      <4>3. h[d].c <= h[d \div 2].c
        BY <4>1, <4>2, <1>9
      <4>. QED
        BY <4>1, <4>3, <3>2
    <3>. QED
      BY <3>3, <3>4
  <2>3. CASE i \notin Q
    <3>1. g[i] = h[i]
      BY <2>1, <2>3, <1>6
    <3>2. CASE u = last
      <4>1. ~(v.c < h[Child(h, u)].c) /\ h[i].c <= h[Child(h, u)].c
        BY <3>2, <2>1, <1>2, <1>7 DEF Falls
      <4>2. v.c \in Nat /\ h[i].c \in Nat /\ h[Child(h, u)].c \in Nat
        BY <1>1, <1>7, <2>1
      <4>. QED
        BY <3>1, <3>2, <4>1, <4>2, <1>6
    <3>3. CASE u # last /\ u \in Q
      <4>1. g[u] = h[Child(h, u)]
        BY <3>3, <1>6
      <4>. QED
        BY <3>1, <4>1, <1>7
    <3>4. CASE u \notin Q
      <4>1. g[u] = h[u] /\ u # k
        BY <3>4, <2>1, <1>2, <1>6
      <4>. QED
        BY <3>1, <4>1, <1>9
    <3>. QED
      BY <3>2, <3>3, <3>4
  <2>. QED
    BY <2>2, <2>3
<1>10. ASSUME k # 1, h[k].c <= h[k \div 2].c PROVE g[k].c <= g[k \div 2].c
  <2>1. k \div 2 \in 1..n /\ k \div 2 < k /\ k > 1
    BY <1>1, <1>10
  <2>2. g[k \div 2] = h[k \div 2]
    BY <2>1, <1>2, <1>6
  <2>3. CASE k = last
    BY <2>2, <2>3, <1>6, <1>10
  <2>4. CASE k # last
    <3>. DEFINE d == Child(h, k)
    <3>1. d \in Q /\ d > k /\ g[k] = h[d] /\ d \div 2 = k
      BY <2>4, <1>2, <1>6, <1>8
    <3>. HIDE DEF d
    <3>2. d \in 2..n
      BY <3>1, <1>5, <2>1
    <3>. QED
      BY <2>1, <2>2, <3>1, <3>2
  <2>. QED
    BY <2>3, <2>4
<1>11. OrderedBut(g, {k})
  BY <1>4, <1>9 DEF OrderedBut
<1>12. k = 1 \/ h[k].c <= h[k \div 2].c => OrderedBut(g, {})
  BY <1>4, <1>9, <1>10 DEF OrderedBut
<1>. QED
  BY <1>11, <1>12 DEF g

\* In an ordered array no item is larger than the one at the root.
LEMMA RootLargest ==
  ASSUME NEW h \in Seq(Items), OrderedBut(h, {}), NEW i \in 1..Len(h)
  PROVE  h[i].c <= h[1].c
<1>. DEFINE S == {m \in Nat : m \in 1..Len(h) => h[m].c <= h[1].c}
<1>1. \A m \in 1..Len(h) : h[m].c \in Nat
  BY KeyOf
<1>2. Len(h) \in Nat
  OBVIOUS
<1>3. ASSUME NEW n \in Nat, \A m \in Nat : m < n => m \in S
      PROVE  n \in S
  <2>. SUFFICES ASSUME n \in 1..Len(h) PROVE h[n].c <= h[1].c
    OBVIOUS
  <2>1. CASE n = 1
    BY <2>1, <1>1
  <2>2. CASE n # 1
    <3>1. n \div 2 \in 1..Len(h) /\ n \div 2 < n /\ n \in 2..Len(h)
      BY <2>2, <1>2
    <3>2. h[n].c <= h[n \div 2].c /\ h[n \div 2].c <= h[1].c
      BY <3>1, <1>3 DEF OrderedBut
    <3>3. h[n].c \in Nat /\ h[n \div 2].c \in Nat /\ h[1].c \in Nat
      BY <3>1, <1>1, <1>2
    <3>. QED
      BY <3>2, <3>3
  <2>. QED
    BY <2>1, <2>2
<1>4. Nat \subseteq S
  <2>. HIDE DEF S
  <2>. QED
    BY <1>3, StrongInd
<1>. QED
  BY <1>4

\* What insert leaves of an ordered array is ordered.
LEMMA InsertOrders ==
  ASSUME NEW h \in Seq(Items), NEW x \in Items, OrderedBut(h, {})
  PROVE  OrderedBut(upheap(Append(h, x), Len(h) + 1), {})
<1>. DEFINE g == Append(h, x)
<1>1. /\ g \in Seq(Items) /\ Len(g) = Len(h) + 1 /\ Len(h) \in Nat
      /\ \A i \in 1..Len(h) : g[i] = h[i]
  OBVIOUS
<1>. HIDE DEF g
<1>2. ASSUME NEW i \in 2..Len(g), i # Len(g) PROVE g[i].c <= g[i \div 2].c
  <2>1. i \in 2..Len(h) /\ i \in 1..Len(h) /\ i \div 2 \in 1..Len(h)
    BY <1>1, <1>2
  <2>2. h[i].c <= h[i \div 2].c
    BY <2>1 DEF OrderedBut
  <2>. QED
    BY <2>1, <2>2, <1>1
<1>3. OrderedBut(g, {Len(g)})
  BY <1>2 DEF OrderedBut
<1>4. OrderedBut(upheap(g, Len(g)), {})
  BY <1>1, <1>3, UpheapOrders
<1>. QED
  BY <1>1, <1>4 DEF g

\* What remove leaves of an ordered array; the item moved into slot i is the last one.
LEMMA RemoveOrders ==
  ASSUME NEW h \in Seq(Items), NEW i \in 1..Len(h), OrderedBut(h, {})
  PROVE  /\ OrderedBut(Without(h, i), {i})
         /\ \/ i = 1 \/ i = Len(h)
            \/ h[Len(h)].c <= h[i \div 2].c
            => OrderedBut(Without(h, i), {})
<1>. DEFINE q == Filled(h, i)
            n == Len(h) - 1
<1>1. /\ q \in Seq(Items) /\ Len(q) = n /\ n \in Nat /\ Len(h) = n + 1
      /\ \A j \in 1..n : q[j] = IF j = i THEN h[n + 1] ELSE h[j]
      /\ Without(h, i) = IF i = Len(h) THEN q ELSE downheap(q, i)
  BY FilledIs
<1>. HIDE DEF q
<1>2. \A j \in 2..Len(h) : h[j].c <= h[j \div 2].c
  BY DEF OrderedBut
<1>3. \A j \in 1..Len(h) : h[j].c \in Nat
  BY KeyOf
<1>4. ASSUME NEW j \in 2..n, j # i, j \div 2 # i PROVE q[j].c <= q[j \div 2].c
  <2>1. j \in 1..n /\ j \div 2 \in 1..n /\ j \in 2..Len(h)
    BY <1>1
  <2>2. q[j] = h[j] /\ q[j \div 2] = h[j \div 2]
    BY <1>1, <1>4, <2>1
  <2>. QED
    BY <2>1, <2>2, <1>2
<1>5. CASE i = Len(h)
  <2>1. ASSUME NEW j \in 2..n PROVE q[j].c <= q[j \div 2].c
    <3>1. j # i /\ j \div 2 # i
      BY <1>1, <1>5
    <3>. QED
      BY <3>1, <1>4
  <2>2. OrderedBut(q, {})
    BY <2>1, <1>1 DEF OrderedBut
  <2>. QED
    BY <2>2, <1>1, <1>5 DEF OrderedBut
<1>6. CASE i # Len(h)
  <2>1. i \in 1..Len(q) /\ q[i] = h[n + 1] /\ Without(h, i) = downheap(q, i)
    BY <1>1, <1>6
  <2>2. ASSUME NEW j \in 2..Len(q), j \div 2 = i, i > 1 PROVE q[j].c <= q[i \div 2].c
    <3>1. /\ j \in 1..n /\ j # i /\ i \div 2 \in 1..n /\ i \div 2 # i
          /\ j \in 2..Len(h) /\ i \in 2..Len(h) /\ i \in 1..Len(h) /\ j \in 1..Len(h)
          /\ i \div 2 \in 1..Len(h)
      BY <1>1, <2>1, <2>2
    <3>2. q[j] = h[j] /\ q[i \div 2] = h[i \div 2]
      BY <3>1, <1>1
    <3>3. h[j].c <= h[i].c /\ h[i].c <= h[i \div 2].c
      BY <3>1, <2>2, <1>2
    <3>4. h[j].c \in Nat /\ h[i].c \in Nat /\ h[i \div 2].c \in Nat
      BY <3>1, <1>3
    <3>. QED
      BY <3>2, <3>3, <3>4
  <2>3. /\ OrderedBut(downheap(q, i), {i})
        /\ i = 1 \/ q[i].c <= q[i \div 2].c => OrderedBut(downheap(q, i), {})
    BY <2>1, <2>2, <1>1, <1>4, DownheapOrders
  <2>4. i # 1 => q[i \div 2] = h[i \div 2]
    <3>1. i # 1 => i \div 2 \in 1..n /\ i \div 2 # i
      BY <1>1, <2>1
    <3>. QED
      BY <3>1, <1>1
  <2>. QED
    BY <2>1, <2>3, <2>4, <1>1, <1>6
<1>. QED
  BY <1>5, <1>6

\* Among at most five items the last is below, or beside, any slot it is moved to.
LEMMA SmallRemoveOrders ==
  ASSUME NEW h \in Seq(Items), Len(h) <= 5, NEW i \in 1..Len(h), OrderedBut(h, {})
  PROVE  OrderedBut(Without(h, i), {})
<1>1. Len(h) \in 1..5 /\ \A j \in 1..Len(h) : h[j].c \in Nat
  <2>1. Len(h) \in Nat /\ Len(h) >= 1
    OBVIOUS
  <2>. DEFINE n == Len(h)
  <2>2. n \in Nat /\ 1 <= n /\ n <= 5
    BY <2>1
  <2>. HIDE DEF n
  <2>4. n \in 1..5
    BY <2>2
  <2>3. \A j \in 1..Len(h) : h[j].c \in Nat
    BY KeyOf
  <2>. QED
    BY <2>4, <2>3 DEF n
<1>2. \A j \in 2..Len(h) : h[j].c <= h[j \div 2].c
  BY DEF OrderedBut
<1>3. CASE i = 1 \/ i = Len(h)
  BY <1>3, RemoveOrders
<1>4. CASE i \in {2, 3} /\ i # Len(h)
  <2>1. i \div 2 = 1 /\ Len(h) \in 3..5
    BY <1>1, <1>4
  <2>2. h[Len(h)].c <= h[1].c
    BY RootLargest, <1>1
  <2>. QED
    BY <2>1, <2>2, RemoveOrders
<1>5. CASE i = 4 /\ i # Len(h)
  <2>1. i \div 2 = 2 /\ Len(h) = 5 /\ 5 \div 2 = 2
    BY <1>1, <1>5
  <2>2. h[Len(h)].c <= h[2].c
    BY <2>1, <1>2
  <2>. QED
    BY <2>1, <2>2, RemoveOrders
<1>. QED
  BY <1>1, <1>3, <1>4, <1>5

-----------------------------------------------------------------------------
(* The specification                                                       *)

IInv == TypeOK /\ Conserved /\ SmallIsHeap

LEMMA ConservedIs == Conserved <=> stored = BagOf(p)
BY DEF Conserved, BagOf

LEMMA InitIInv == Init => IInv
<1>. SUFFICES ASSUME Init PROVE IInv
  OBVIOUS
<1>1. p = <<>> /\ p \in Seq(Items) /\ Len(p) = 0
  BY EmptySeq DEF Init
<1>2. TypeOK
  <2>1. IsABag(stored)
    BY DEF Init, EmptyBag, SetToBag, IsABag
  <2>. QED
    BY <1>1, <2>1, PriQAssumption DEF Init, TypeOK
<1>3. Conserved
  <2>1. {p[i] : i \in 1..Len(p)} = {}
    BY <1>1
  <2>2. BagOf(p) = [x \in {} |-> 1]
    BY <2>1 DEF BagOf
  <2>3. stored = [x \in {} |-> 1]
    BY DEF Init, EmptyBag, SetToBag
  <2>. QED
    BY <2>2, <2>3, ConservedIs
<1>4. SmallIsHeap
  BY <1>1 DEF SmallIsHeap, OrderedBut
<1>. QED
  BY <1>2, <1>3, <1>4 DEF IInv

LEMMA InsertIInv ==
  ASSUME IInv, NEW x \in Items, insert(x)
  PROVE  IInv'
<1>. DEFINE g == Append(p, x)
<1>1. p \in Seq(Items) /\ Len(p) \in Nat /\ Len(p) <= Max /\ Max \in Nat
      /\ high \in Len(p)..MaxCount /\ stored = BagOf(p)
  BY ConservedIs DEF IInv, TypeOK
<1>2. g \in Seq(Items) /\ Len(g) = Len(p) + 1 /\ Len(g) \in 1..Len(g)
  BY <1>1
<1>3. p' = upheap(g, Len(g))
  BY <1>2 DEF insert
<1>4. stored' = BagOf(g)
  BY <1>1, BagAdds DEF insert
<1>. HIDE DEF g
<1>5. p' \in Seq(Items) /\ Len(p') = Len(p) + 1 /\ stored' = BagOf(p')
  BY <1>2, <1>3, <1>4, UpheapPermutes, PermutesKeeps
<1>6. Max' \in Nat /\ Len(p') <= Max'
  <2>1. CASE Len(p) >= Max /\ Max < 4
    BY <2>1, <1>1, <1>5 DEF insert, grown, minGrow
  <2>2. CASE Len(p) >= Max /\ ~(Max < 4)
    <3>1. Max' = Max * 2
      BY <2>2 DEF insert, grown, minGrow
    <3>. QED
      BY <3>1, <2>2, <1>1, <1>5
  <2>3. CASE ~(Len(p) >= Max)
    BY <2>3, <1>1, <1>5 DEF insert, grown
  <2>. QED
    BY <2>1, <2>2, <2>3
<1>7. high' \in Len(p')..MaxCount /\ high' >= high
  <2>1. Len(p) < MaxCount /\ MaxCount \in Nat
    BY PriQAssumption DEF insert
  <2>2. high' = IF Len(p) = high THEN high + 1 ELSE high
    BY DEF insert
  <2>. QED
    BY <2>1, <2>2, <1>1, <1>5
<1>8. TypeOK'
  BY <1>5, <1>6, <1>7, BagIs DEF TypeOK
<1>9. Conserved'
  BY <1>5 DEF Conserved, BagOf
<1>10. SmallIsHeap'
  <2>. SUFFICES ASSUME high' <= 5 PROVE OrderedBut(p', {})
    BY DEF SmallIsHeap
  <2>1. OrderedBut(p, {})
    BY <1>1, <1>7 DEF IInv, SmallIsHeap
  <2>. QED
    BY <2>1, <1>1, InsertOrders DEF insert
<1>. QED
  BY <1>8, <1>9, <1>10 DEF IInv

LEMMA RemoveIInv ==
  ASSUME IInv, NEW i \in 1..Len(p), remove(i)
  PROVE  IInv'
<1>1. p \in Seq(Items) /\ Len(p) \in Nat /\ Len(p) <= Max /\ Max \in Nat
      /\ high \in Len(p)..MaxCount /\ stored = BagOf(p)
  BY ConservedIs DEF IInv, TypeOK
<1>2. p' \in Seq(Items) /\ Len(p') = Len(p) - 1 /\ stored' = BagOf(p')
  BY <1>1, WithoutIs DEF remove
<1>3. TypeOK'
  BY <1>1, <1>2, BagIs, PriQAssumption DEF TypeOK, remove
<1>4. Conserved'
  BY <1>2 DEF Conserved, BagOf
<1>5. SmallIsHeap'
  <2>. SUFFICES ASSUME high' <= 5 PROVE OrderedBut(p', {})
    BY DEF SmallIsHeap
  <2>1. OrderedBut(p, {}) /\ Len(p) <= 5
    BY <1>1, PriQAssumption DEF IInv, SmallIsHeap, remove
  <2>. QED
    BY <2>1, <1>1, SmallRemoveOrders DEF remove
<1>. QED
  BY <1>3, <1>4, <1>5 DEF IInv

LEMMA NextIInv == IInv /\ [Next]_vars => IInv'
<1>. SUFFICES ASSUME IInv, [Next]_vars PROVE IInv'
  OBVIOUS
<1>1. ASSUME NEW x \in Items, insert(x) PROVE IInv'
  BY <1>1, InsertIInv
<1>2. ASSUME NEW i \in 1..Len(p), remove(i) PROVE IInv'
  BY <1>2, RemoveIInv
<1>3. CASE UNCHANGED vars
  BY <1>3 DEF vars, IInv, TypeOK, Conserved, SmallIsHeap, OrderedBut
<1>. QED
  BY <1>1, <1>2, <1>3 DEF Next

LEMMA IInvHolds == Spec => []IInv
<1>. QED
  BY InitIInv, NextIInv, PTL DEF Spec

\* The array is long enough for its items, whatever room the queue was built with.
THEOREM TypeCorrect == Spec => []TypeOK
<1>1. IInv => TypeOK
  BY DEF IInv
<1>. QED
  BY <1>1, IInvHolds, PTL

\* No item is lost or doubled on the paths that upheap and downheap shift.
THEOREM ItemsConserved == Spec => []Conserved
<1>1. IInv => Conserved
  BY DEF IInv
<1>. QED
  BY <1>1, IInvHolds, PTL

\* Up to five items, removals from the middle of the array do not harm the order.
THEOREM SmallStaysHeap == Spec => []SmallIsHeap
<1>1. IInv => SmallIsHeap
  BY DEF IInv
<1>. QED
  BY <1>1, IInvHolds, PTL

\* Such a queue has an item with the largest key at its root, where remove() takes it.
SmallRootLargest == high <= 5 => \A i \in 1..Len(p) : p[i].c <= p[1].c

\* Up to five items, the scheduler is given the earliest event of the queue.
THEOREM SmallRemovesLargest == Spec => []SmallRootLargest
<1>1. IInv => SmallRootLargest
  BY RootLargest DEF IInv, TypeOK, SmallIsHeap, SmallRootLargest
<1>. QED
  BY <1>1, IInvHolds, PTL

\* remove(i) breaks the order of a heap at no edge but the one above slot i.
THEOREM RemoveBreaksOne == Spec => RemoveBreaksOneEdge
<1>. DEFINE A == \A i \in 1..Len(p) :
                   OrderedBut(p, {}) /\ remove(i) => OrderedBut(p', {i})
<1>1. IInv /\ [Next]_vars => [A]_vars
  <2>. SUFFICES ASSUME IInv PROVE A
    OBVIOUS
  <2>. QED
    BY RemoveOrders DEF IInv, TypeOK, remove
<1>. HIDE DEF A
<1>2. Spec => [][A]_vars
  BY <1>1, IInvHolds, PTL DEF Spec
<1>. QED
  BY <1>2 DEF A, RemoveBreaksOneEdge

\* A heap of any size stays one under insert and remove(), which takes the root: the
\* order is lost through removals from the middle alone.
RootUseKeepsHeap ==
  [][/\ OrderedBut(p, {})
     /\ (\E x \in Items : insert(x)) \/ (p # <<>> /\ remove(1))
     => OrderedBut(p', {})]_vars

\* upheap and downheap mend all that insertion and removal of the root disturb.
THEOREM OnlyMiddleBreaks == Spec => RootUseKeepsHeap
<1>. DEFINE A == /\ OrderedBut(p, {})
                 /\ (\E x \in Items : insert(x)) \/ (p # <<>> /\ remove(1))
                 => OrderedBut(p', {})
<1>1. IInv /\ [Next]_vars => [A]_vars
  <2>. SUFFICES ASSUME IInv, OrderedBut(p, {}) PROVE A
    OBVIOUS
  <2>1. p \in Seq(Items)
    BY DEF IInv, TypeOK
  <2>2. ASSUME NEW x \in Items, insert(x) PROVE OrderedBut(p', {})
    BY <2>1, <2>2, InsertOrders DEF insert
  <2>3. ASSUME p # <<>>, remove(1) PROVE OrderedBut(p', {})
    <3>1. 1 \in 1..Len(p)
      BY <2>1, <2>3
    <3>. QED
      BY <2>1, <2>3, <3>1, RemoveOrders DEF remove
  <2>. QED
    BY <2>2, <2>3
<1>. HIDE DEF A
<1>2. Spec => [][A]_vars
  BY <1>1, IInvHolds, PTL DEF Spec
<1>. QED
  BY <1>2 DEF A, RootUseKeepsHeap

=============================================================================
