------------------------------ MODULE SqlProofs ------------------------------
(***************************************************************************)
(* The properties of Sql, for any data sources, connections and bounds.    *)
(*                                                                         *)
(* Counts are related to the stack of macros: pushing a query or popping a *)
(* frame changes the number of holders of a connection by one, and the     *)
(* references with it.  That a pooled query is never the last holder, and  *)
(* that no work is forgotten, needs in addition that the connection of a   *)
(* pooled query is in a pool below it and that of another in no pool.      *)
(***************************************************************************)
EXTENDS Sql, FiniteSetTheorems, TLAPS

HoldersIn(s, c) == {i \in DOMAIN s : Holds(s[i], c)}
Counted(s, c) == Cardinality(HoldersIn(s, c))

ConnRecord == [state : {"unused", "open", "dead"}, refs : Nat, work : BOOLEAN]

\* The connection of a query in a transaction is in a pool below it; that of another
\* query is its own.
StackInv(s) ==
  \A k \in DOMAIN s : s[k].kind = "query" =>
    IF s[k].pooled
    THEN \E j \in 1 .. k - 1 : s[j].kind = "trans" /\ s[k].conn \in Pooled(s[j])
    ELSE HoldersIn(s, s[k].conn) = {k}

\* The transactions that have an unmet error
Failing(s) == {i \in DOMAIN s : s[i].kind = "trans" /\ s[i].failed}

\* RefsExact of a page, connections and lost references; x has one more.
ExactBut(s, cs, l, x) ==
  \A c \in Conn :
    /\ cs[c].refs = Counted(s, c) + l[c] + (IF c = x THEN 1 ELSE 0)
    /\ cs[c].state = "unused" <=> cs[c].refs = 0

Exact(s, cs, l) == ExactBut(s, cs, l, None)

WorkInv(s, cs, l) ==
  \A c \in Conn :
    cs[c].work => l[c] > 0 \/ \E i \in DOMAIN s : s[i].kind = "trans" /\ c \in Pooled(s[i])

\* What is invariant of pages and connections
Core ==
  /\ page \in Seq(Frames) /\ Len(page) <= MaxDepth
  /\ exc \in IDs \union {"none", "abort"}
  /\ exc \in IDs => InTry(page)
  /\ conn \in [Conn -> ConnRecord]
  /\ late \subseteq {"direct"}
  /\ StackInv(page)
  /\ exc # "positive" => Failing(page) = {}
  /\ Exact(page, conn, lost)
  /\ WorkInv(page, conn, lost)

\* ... and of the rest
Side ==
  /\ lost \in [Conn -> Nat]
  /\ aborts \in 0 .. MaxAborts
  /\ ended \in [ok : BOOLEAN, failed : BOOLEAN, refused : BOOLEAN,
                committed : BOOLEAN, undone : BOOLEAN]
  /\ FailureRollsBack
  /\ ~ended.refused => ~(ended.committed /\ ended.undone)
  /\ ended.committed => ended.ok

IInv == Core /\ Side

(***************************************************************************)
(* Frames and pages                                                        *)
(***************************************************************************)

LEMMA TextKind ==
  /\ TryFrame \in Frames /\ TryFrame.kind = "try"
  /\ SafeFrame \in Frames /\ SafeFrame.kind = "safe"
  BY DEF TryFrame, SafeFrame, Frames

LEMMA QueryKind ==
  ASSUME NEW c \in Conn, NEW p \in BOOLEAN
  PROVE  /\ QueryFrame(c, p) \in Frames
         /\ QueryFrame(c, p).kind = "query"
         /\ QueryFrame(c, p).conn = c
         /\ QueryFrame(c, p).pooled = p
  BY DEF QueryFrame, Frames

LEMMA TransKind ==
  ASSUME NEW m \in [Dsn -> Conn \union {None}], NEW k \in BOOLEAN, NEW f \in BOOLEAN
  PROVE  /\ TransFrame(m, k, f) \in Frames
         /\ TransFrame(m, k, f).kind = "trans"
         /\ TransFrame(m, k, f).pool = m
         /\ TransFrame(m, k, f).ok = k
         /\ TransFrame(m, k, f).failed = f
  BY DEF TransFrame, Frames

LEMMA FrameKinds ==
  ASSUME NEW f \in Frames
  PROVE  /\ f.kind \in {"try", "safe", "query", "trans"}
         /\ f.kind = "query" => f.conn \in Conn /\ f.pooled \in BOOLEAN
         /\ f.kind = "trans" =>
              /\ f.pool \in [Dsn -> Conn \union {None}]
              /\ f.ok \in BOOLEAN /\ f.failed \in BOOLEAN
              /\ f = TransFrame(f.pool, f.ok, f.failed)
  BY DEF Frames, TryFrame, SafeFrame, QueryFrame, TransFrame

\* Changing a transaction's frame gives a transaction's frame.
LEMMA FlagChanged ==
  ASSUME NEW f \in Frames, f.kind = "trans", NEW b \in BOOLEAN
  PROVE  /\ [f EXCEPT !.failed = b] = TransFrame(f.pool, f.ok, b)
         /\ [f EXCEPT !.ok = b] = TransFrame(f.pool, b, f.failed)
  <1> DEFINE g == TransFrame(f.pool, f.ok, f.failed)
  <1>1. f = g
    BY FrameKinds
  <1>2. /\ [g EXCEPT !.failed = b] = TransFrame(f.pool, f.ok, b)
        /\ [g EXCEPT !.ok = b] = TransFrame(f.pool, b, f.failed)
    BY DEF TransFrame
  <1> QED BY <1>1, <1>2

LEMMA PoolChanged ==
  ASSUME NEW f \in Frames, f.kind = "trans", NEW d \in Dsn, NEW c \in Conn
  PROVE  [f EXCEPT !.pool[d] = c] = TransFrame([f.pool EXCEPT ![d] = c], f.ok, f.failed)
  <1> DEFINE g == TransFrame(f.pool, f.ok, f.failed)
  <1>1. f = g
    BY FrameKinds
  <1>2. [g EXCEPT !.pool[d] = c] = TransFrame([f.pool EXCEPT ![d] = c], f.ok, f.failed)
    BY DEF TransFrame
  <1> QED BY <1>1, <1>2

LEMMA HoldersFinite ==
  ASSUME NEW s \in Seq(Frames), NEW c
  PROVE  /\ IsFiniteSet(HoldersIn(s, c))
         /\ Counted(s, c) \in Nat
         /\ Counted(s, c) = 0 <=> HoldersIn(s, c) = {}
  <1>1. IsFiniteSet(1 .. Len(s))
    BY FS_Interval
  <1>2. HoldersIn(s, c) \subseteq 1 .. Len(s)
    BY DEF HoldersIn
  <1>3. IsFiniteSet(HoldersIn(s, c))
    BY <1>1, <1>2, FS_Subset
  <1> QED BY <1>3, FS_CardinalityType, FS_EmptySet DEF Counted

\* Two holders count for at least two.
LEMMA TwoHolders ==
  ASSUME NEW s \in Seq(Frames), NEW c,
         NEW i \in HoldersIn(s, c), NEW j \in HoldersIn(s, c), i # j
  PROVE  Counted(s, c) >= 2
  <1>1. IsFiniteSet(HoldersIn(s, c)) /\ Counted(s, c) \in Nat
    BY HoldersFinite
  <1> DEFINE I == {i}
             IJ == I \union {j}
  <1>2. IsFiniteSet(I) /\ Cardinality(I) = 1
    BY FS_Singleton
  <1>3. j \notin I /\ IJ \subseteq HoldersIn(s, c)
    OBVIOUS
  <1> HIDE DEF I
  <1>4. Cardinality(IJ) = Cardinality(I) + 1
    BY <1>2, <1>3, FS_AddElement
  <1>5. Cardinality(IJ) <= Cardinality(HoldersIn(s, c))
    BY <1>1, <1>3, FS_Subset
  <1> QED BY <1>1, <1>2, <1>4, <1>5 DEF Counted

LEMMA AppendHolders ==
  ASSUME NEW s \in Seq(Frames), NEW f \in Frames, NEW c
  PROVE  /\ HoldersIn(Append(s, f), c) =
              HoldersIn(s, c) \union (IF Holds(f, c) THEN {Len(s) + 1} ELSE {})
         /\ Counted(Append(s, f), c) = Counted(s, c) + (IF Holds(f, c) THEN 1 ELSE 0)
  <1>1. HoldersIn(Append(s, f), c) =
          HoldersIn(s, c) \union (IF Holds(f, c) THEN {Len(s) + 1} ELSE {})
    <2> DEFINE t == Append(s, f)
    <2>1. /\ DOMAIN t = 1 .. Len(s) + 1 /\ DOMAIN s = 1 .. Len(s) /\ Len(s) \in Nat
          /\ t[Len(s) + 1] = f /\ \A i \in 1 .. Len(s) : t[i] = s[i]
      OBVIOUS
    <2> HIDE DEF t
    <2>2. HoldersIn(t, c) = HoldersIn(s, c) \union (IF Holds(f, c) THEN {Len(s) + 1} ELSE {})
      BY <2>1 DEF HoldersIn
    <2> QED BY <2>2 DEF t
  <1>2. Len(s) + 1 \notin HoldersIn(s, c)
    BY DEF HoldersIn
  <1>3. IsFiniteSet(HoldersIn(s, c)) /\ Counted(s, c) \in Nat
    BY HoldersFinite
  <1>4. Counted(Append(s, f), c) = Counted(s, c) + (IF Holds(f, c) THEN 1 ELSE 0)
    <2>1. CASE Holds(f, c)
      <3>1. Cardinality(HoldersIn(s, c) \union {Len(s) + 1}) = Cardinality(HoldersIn(s, c)) + 1
        BY <1>2, <1>3, FS_AddElement
      <3> QED BY <1>1, <2>1, <3>1 DEF Counted
    <2>2. CASE ~Holds(f, c)
      BY <1>1, <1>3, <2>2 DEF Counted
    <2> QED BY <2>1, <2>2
  <1> QED BY <1>1, <1>4

LEMMA QueryHolds ==
  ASSUME NEW c \in Conn, NEW p \in BOOLEAN, NEW x
  PROVE  Holds(QueryFrame(c, p), x) <=> x = c
  BY QueryKind DEF Holds

\* A page whose last macro is done
LEMMA PopPage ==
  ASSUME NEW s \in Seq(Frames), s # <<>>
  PROVE  LET t == SubSeq(s, 1, Len(s) - 1) IN
           /\ t \in Seq(Frames) /\ Len(t) = Len(s) - 1 /\ Len(s) \in Nat \ {0}
           /\ s[Len(s)] \in Frames
           /\ \A i \in DOMAIN t : i \in DOMAIN s /\ t[i] = s[i]
           /\ DOMAIN s = DOMAIN t \union {Len(s)}
           /\ s = Append(t, s[Len(s)])
  <1> DEFINE n == Len(s)
             t == SubSeq(s, 1, n - 1)
  <1>1. n \in Nat \ {0} /\ DOMAIN s = 1 .. n /\ s[n] \in Frames
    OBVIOUS
  <1>2. t \in Seq(Frames) /\ Len(t) = n - 1 /\ \A i \in 1 .. n - 1 : t[i] = s[i]
    BY <1>1
  <1>3. DOMAIN t = 1 .. n - 1
    BY <1>1, <1>2
  <1>4. s = Append(t, s[n])
    BY <1>1, <1>2
  <1> QED BY <1>1, <1>2, <1>3, <1>4

LEMMA PopHolders ==
  ASSUME NEW s \in Seq(Frames), s # <<>>, NEW c
  PROVE  LET t == SubSeq(s, 1, Len(s) - 1) IN
           /\ HoldersIn(t, c) = HoldersIn(s, c) \ {Len(s)}
           /\ Counted(s, c) = Counted(t, c) + (IF Holds(s[Len(s)], c) THEN 1 ELSE 0)
           /\ Counted(t, c) \in Nat
  <1> DEFINE n == Len(s)
             t == SubSeq(s, 1, n - 1)
  <1>1. /\ t \in Seq(Frames) /\ Len(t) = n - 1 /\ n \in Nat \ {0} /\ s[n] \in Frames
        /\ s = Append(t, s[n])
    BY PopPage
  <1>2. /\ HoldersIn(s, c) = HoldersIn(t, c) \union (IF Holds(s[n], c) THEN {n} ELSE {})
        /\ Counted(s, c) = Counted(t, c) + (IF Holds(s[n], c) THEN 1 ELSE 0)
    <2> DEFINE f == s[n]
    <2>1. f \in Frames /\ s = Append(t, f) /\ Len(t) + 1 = n
      BY <1>1
    <2> HIDE DEF f, t
    <2>2. /\ HoldersIn(Append(t, f), c) =
               HoldersIn(t, c) \union (IF Holds(f, c) THEN {Len(t) + 1} ELSE {})
          /\ Counted(Append(t, f), c) = Counted(t, c) + (IF Holds(f, c) THEN 1 ELSE 0)
      BY <1>1, <2>1, AppendHolders
    <2> QED BY <2>1, <2>2 DEF f
  <1>3. n \notin HoldersIn(t, c)
    BY <1>1 DEF HoldersIn
  <1> QED BY <1>1, <1>2, <1>3, HoldersFinite

\* The pages of s and t differ in the flags of transactions at most.
Alike(s, t) ==
  /\ t \in Seq(Frames) /\ Len(t) = Len(s)
  /\ \A i \in DOMAIN s :
       /\ t[i].kind = s[i].kind
       /\ s[i].kind = "query" => t[i] = s[i]
       /\ s[i].kind = "trans" => t[i].pool = s[i].pool

LEMMA AlikePage ==
  ASSUME NEW s \in Seq(Frames), NEW t, Alike(s, t)
  PROVE  /\ \A c : HoldersIn(t, c) = HoldersIn(s, c) /\ Counted(t, c) = Counted(s, c)
         /\ StackInv(s) => StackInv(t)
         /\ \A cs, l : WorkInv(s, cs, l) => WorkInv(t, cs, l)
         /\ \A cs, l, x : ExactBut(s, cs, l, x) => ExactBut(t, cs, l, x)
         /\ InTry(t) <=> InTry(s)
  <1>1. DOMAIN t = DOMAIN s
    BY DEF Alike
  <1>2. \A i \in DOMAIN s : s[i].kind = "trans" => Pooled(t[i]) = Pooled(s[i])
    BY DEF Alike, Pooled
  <1>3. \A i \in DOMAIN s : \A c : Holds(t[i], c) <=> Holds(s[i], c)
    BY <1>2 DEF Alike, Holds
  <1>4. \A c : HoldersIn(t, c) = HoldersIn(s, c)
    BY <1>1, <1>3 DEF HoldersIn
  <1>5. \A c : Counted(t, c) = Counted(s, c)
    BY <1>4 DEF Counted
  <1>6. StackInv(s) => StackInv(t)
    <2> SUFFICES ASSUME StackInv(s), NEW k \in DOMAIN t, t[k].kind = "query"
                 PROVE  IF t[k].pooled
                        THEN \E j \in 1 .. k - 1 : t[j].kind = "trans" /\ t[k].conn \in Pooled(t[j])
                        ELSE HoldersIn(t, t[k].conn) = {k}
      BY DEF StackInv
    <2>1. k \in DOMAIN s /\ s[k].kind = "query" /\ t[k] = s[k]
      BY <1>1 DEF Alike
    <2>2. CASE s[k].pooled
      <3>1. PICK j \in 1 .. k - 1 : s[j].kind = "trans" /\ s[k].conn \in Pooled(s[j])
        BY <2>1, <2>2 DEF StackInv
      <3>2. j \in DOMAIN s
        BY <2>1
      <3>3. t[j].kind = "trans" /\ t[k].conn \in Pooled(t[j])
        BY <1>2, <2>1, <3>1, <3>2 DEF Alike
      <3> QED BY <2>1, <2>2, <3>3
    <2>3. CASE ~s[k].pooled
      BY <1>4, <2>1, <2>3 DEF StackInv
    <2> QED BY <2>2, <2>3
  <1>7. \A cs, l : WorkInv(s, cs, l) => WorkInv(t, cs, l)
    BY <1>1, <1>2 DEF WorkInv, Alike
  <1>8. \A cs, l, x : ExactBut(s, cs, l, x) => ExactBut(t, cs, l, x)
    BY <1>5 DEF ExactBut
  <1>9. InTry(t) <=> InTry(s)
    BY <1>1 DEF Alike, InTry
  <1> QED BY <1>4, <1>5, <1>6, <1>7, <1>8, <1>9

(***************************************************************************)
(* Queries                                                                 *)
(***************************************************************************)

\* A reference is given back.
LEMMA FreedConn ==
  ASSUME NEW cs \in [Conn -> ConnRecord], NEW c \in Conn, cs[c].refs >= 1,
         cs[c].state = "unused" <=> cs[c].refs = 0
  PROVE  /\ [cs EXCEPT ![c] = Freed(@)] \in [Conn -> ConnRecord]
         /\ \A x \in Conn \ {c} : [cs EXCEPT ![c] = Freed(@)][x] = cs[x]
         /\ Freed(cs[c]).refs = cs[c].refs - 1
         /\ Freed(cs[c]).state = "unused" <=> Freed(cs[c]).refs = 0
         /\ Freed(cs[c]).work => cs[c].work /\ Freed(cs[c]).refs > 0
  <1> DEFINE h == cs[c]
  <1>1. h \in ConnRecord /\ h.refs >= 1 /\ (h.state = "unused" <=> h.refs = 0)
    OBVIOUS
  <1> HIDE DEF h
  <1>2. /\ Freed(h) \in ConnRecord /\ Freed(h).refs = h.refs - 1
        /\ Freed(h).state = "unused" <=> Freed(h).refs = 0
        /\ Freed(h).work => h.work /\ Freed(h).refs > 0
    <2>1. CASE h.refs = 1
      BY <2>1 DEF Freed, Unused, ConnRecord
    <2>2. CASE h.refs # 1
      <3>1. Freed(h) = [h EXCEPT !.refs = @ - 1]
        BY <2>2 DEF Freed
      <3>2. h.refs - 1 \in Nat /\ h.refs - 1 > 0
        BY <1>1, <2>2 DEF ConnRecord
      <3>3. /\ Freed(h).refs = h.refs - 1 /\ Freed(h).state = h.state /\ Freed(h).work = h.work
            /\ Freed(h) \in ConnRecord
        BY <1>1, <3>1, <3>2 DEF ConnRecord
      <3> QED BY <1>1, <3>2, <3>3
    <2> QED BY <2>1, <2>2
  <1> QED BY <1>2 DEF h

\* A query on c, outside of the page s, has a reference that it will give back.
Owed(s, cs, c, pooled) ==
  /\ s \in Seq(Frames) /\ Len(s) <= MaxDepth
  /\ c \in Conn /\ pooled \in BOOLEAN
  /\ cs \in [Conn -> ConnRecord]
  /\ StackInv(s)
  /\ ExactBut(s, cs, lost, c)
  /\ WorkInv(s, cs, lost)
  /\ IF pooled THEN \E i \in DOMAIN s : s[i].kind = "trans" /\ c \in Pooled(s[i])
     ELSE HoldersIn(s, c) = {}

\* The query is about to be executed.
Ready(s, cs, c, pooled) ==
  /\ Owed(s, cs, c, pooled)
  /\ Failing(s) = {}
  /\ pooled => \E i \in DOMAIN s : IsPool(s, i)

\* The query's reference, given back, was its own.
LEMMA FreedExact ==
  ASSUME lost \in [Conn -> Nat], NEW s, NEW cs, NEW c, NEW pooled, Owed(s, cs, c, pooled)
  PROVE  /\ cs[c].refs >= 1 /\ (cs[c].state = "unused" <=> cs[c].refs = 0)
         /\ [cs EXCEPT ![c] = Freed(@)] \in [Conn -> ConnRecord]
         /\ Exact(s, [cs EXCEPT ![c] = Freed(@)], lost)
         /\ WorkInv(s, [cs EXCEPT ![c] = Freed(@)], lost)
  <1> DEFINE n == [cs EXCEPT ![c] = Freed(@)]
  <1>1. \A x \in Conn : Counted(s, x) \in Nat /\ lost[x] \in Nat
    BY HoldersFinite DEF Owed
  <1>2. /\ c \in Conn /\ cs \in [Conn -> ConnRecord]
        /\ \A x \in Conn : /\ cs[x].refs = Counted(s, x) + lost[x] + (IF x = c THEN 1 ELSE 0)
                           /\ cs[x].state = "unused" <=> cs[x].refs = 0
    BY DEF Owed, ExactBut
  <1>3. cs[c].refs >= 1 /\ cs[c].refs - 1 = Counted(s, c) + lost[c]
    BY <1>1, <1>2
  <1>4. /\ n \in [Conn -> ConnRecord]
        /\ \A x \in Conn \ {c} : n[x] = cs[x]
        /\ n[c] = Freed(cs[c])
        /\ n[c].refs = cs[c].refs - 1
        /\ n[c].state = "unused" <=> n[c].refs = 0
        /\ n[c].work => cs[c].work
    BY <1>2, <1>3, FreedConn
  <1>5. \A x \in Conn : x # None
    BY SqlAssumption DEF SqlAssumption
  <1>6. Exact(s, n, lost)
    <2> SUFFICES ASSUME NEW x \in Conn
                 PROVE  /\ n[x].refs = Counted(s, x) + lost[x] + 0
                        /\ n[x].state = "unused" <=> n[x].refs = 0
      BY <1>5 DEF Exact, ExactBut
    <2>1. CASE x = c
      BY <1>1, <1>3, <1>4, <2>1
    <2>2. CASE x # c
      BY <1>1, <1>2, <1>4, <2>2
    <2> QED BY <2>1, <2>2
  <1>7. WorkInv(s, n, lost)
    BY <1>2, <1>4 DEF Owed, WorkInv
  <1> QED BY <1>2, <1>3, <1>4, <1>6, <1>7

\* Work makes no difference to counts, and is done where a transaction will end it.
LEMMA WorkedReady ==
  ASSUME NEW s, NEW cs, NEW c, NEW pooled, Ready(s, cs, c, pooled)
  PROVE  Ready(s, Worked(cs, c, pooled), c, pooled)
  <1> DEFINE n == Worked(cs, c, pooled)
  <1>1. c \in Conn /\ pooled \in BOOLEAN /\ cs \in [Conn -> ConnRecord]
    BY DEF Ready, Owed
  <1>2. n = [cs EXCEPT ![c].work = @ \/ pooled]
    BY DEF Worked
  <1>3. /\ n \in [Conn -> ConnRecord]
        /\ \A x \in Conn : n[x].refs = cs[x].refs /\ n[x].state = cs[x].state
        /\ \A x \in Conn : n[x].work <=> cs[x].work \/ (x = c /\ pooled)
    <2>1. n[c] = [cs[c] EXCEPT !.work = @ \/ pooled] /\ \A x \in Conn \ {c} : n[x] = cs[x]
      BY <1>1, <1>2
    <2>2. cs[c] \in ConnRecord /\ (cs[c].work \/ pooled) \in BOOLEAN
      BY <1>1 DEF ConnRecord
    <2>3. /\ n[c] \in ConnRecord /\ n[c].refs = cs[c].refs /\ n[c].state = cs[c].state
          /\ n[c].work <=> cs[c].work \/ pooled
      BY <2>1, <2>2 DEF ConnRecord
    <2> QED BY <1>1, <1>2, <2>1, <2>3
  <1>4. ExactBut(s, n, lost, c)
    BY <1>3 DEF Ready, Owed, ExactBut
  <1>5. WorkInv(s, n, lost)
    BY <1>3 DEF Ready, Owed, WorkInv
  <1> HIDE DEF n
  <1> QED BY <1>3, <1>4, <1>5 DEF Ready, Owed, n

\* A query in a transaction is not alone in having its connection.
LEMMA PoolHolds ==
  ASSUME lost \in [Conn -> Nat], NEW s, NEW cs, NEW c, NEW pooled, Owed(s, cs, c, pooled), pooled
  PROVE  InPool(s) /\ InTry(s) /\ cs[c].refs >= 2
  <1>1. PICK i \in DOMAIN s : s[i].kind = "trans" /\ c \in Pooled(s[i])
    BY DEF Owed
  <1>2. s[i].kind = "trans"
    BY <1>1
  <1>3. i \in HoldersIn(s, c)
    BY <1>1, <1>2 DEF HoldersIn, Holds
  <1>4. Counted(s, c) \in Nat /\ Counted(s, c) # 0 /\ lost[c] \in Nat
    BY <1>3, HoldersFinite DEF Owed
  <1>5. cs[c].refs = Counted(s, c) + lost[c] + 1
    BY DEF Owed, ExactBut
  <1> QED BY <1>2, <1>4, <1>5 DEF InPool, InTry

LEMMA DropExact ==
  ASSUME lost \in [Conn -> Nat], late \subseteq {"direct"},
         NEW s, NEW cs, NEW c, NEW pooled, Owed(s, cs, c, pooled), Drop(cs, c, pooled)
  PROVE  /\ conn' \in [Conn -> ConnRecord]
         /\ Exact(s, conn', lost) /\ WorkInv(s, conn', lost)
         /\ late' \subseteq {"direct"}
  <1>1. ASSUME pooled PROVE cs[c].refs # 1
    <2>1. cs[c].refs >= 2
      BY <1>1, PoolHolds
    <2> QED BY <2>1
  <1>2. late' \subseteq {"direct"}
    BY <1>1 DEF Drop
  <1> QED BY <1>2, FreedExact DEF Drop

\* The pool of a page is the only one there is.
LEMMA PoolOfIs ==
  ASSUME NEW s \in Seq(Frames), NEW i, IsPool(s, i)
  PROVE  PoolOf(s) = i
  <1>1. \A j : IsPool(s, j) => j = i
    BY DEF IsPool
  <1> QED BY <1>1 DEF PoolOf

\* The page after a query failed in it
FailedPage(s, pooled) == IF pooled THEN [s EXCEPT ![PoolOf(s)].failed = TRUE] ELSE s

LEMMA FailedPageIs ==
  ASSUME NEW s, NEW cs, NEW c, NEW pooled, Ready(s, cs, c, pooled)
  PROVE  /\ Alike(s, FailedPage(s, pooled))
         /\ ~pooled => Failing(FailedPage(s, pooled)) = {}
  <1>1. CASE pooled
    <2>1. PICK i \in DOMAIN s : IsPool(s, i)
      BY <1>1 DEF Ready, Owed
    <2>2. s \in Seq(Frames) /\ s[i] \in Frames /\ s[i].kind = "trans" /\ PoolOf(s) = i
      BY <2>1, PoolOfIs DEF Ready, Owed, IsPool
    <2> DEFINE f == [s[i] EXCEPT !.failed = TRUE]
    <2>3. FailedPage(s, pooled) = [s EXCEPT ![i] = f]
      BY <1>1, <2>2 DEF FailedPage
    <2>4. f = TransFrame(s[i].pool, s[i].ok, TRUE)
      <3> DEFINE g == s[i]
      <3>1. g \in Frames /\ g.kind = "trans"
        BY <2>2
      <3> HIDE DEF g
      <3>2. [g EXCEPT !.failed = TRUE] = TransFrame(g.pool, g.ok, TRUE)
        BY <3>1, FlagChanged
      <3> QED BY <3>2 DEF g
    <2> HIDE DEF f
    <2>5. f \in Frames /\ f.kind = "trans" /\ f.pool = s[i].pool
      <3>1. s[i].pool \in [Dsn -> Conn \union {None}] /\ s[i].ok \in BOOLEAN /\ TRUE \in BOOLEAN
        BY <2>2, FrameKinds
      <3> QED BY <2>4, <3>1, TransKind
    <2>6. [s EXCEPT ![i] = f] \in Seq(Frames) /\ Len([s EXCEPT ![i] = f]) = Len(s)
      BY <2>2, <2>5
    <2>7. Alike(s, [s EXCEPT ![i] = f])
      BY <2>2, <2>5, <2>6 DEF Alike
    <2> QED BY <1>1, <2>3, <2>7
  <1>2. CASE ~pooled
    BY <1>2 DEF Ready, Owed, FailedPage, Alike
  <1> QED BY <1>1, <1>2

LEMMA FailsCore ==
  ASSUME Core, Side, Running, UNCHANGED <<lost, aborts, ended>>,
         NEW s, NEW cs, NEW c, NEW pooled, Ready(s, cs, c, pooled), Fails(s, cs, c, pooled)
  PROVE  Core'
  <1> DEFINE t == FailedPage(s, pooled)
  <1>1. /\ page' = t /\ conn' = [cs EXCEPT ![c] = Freed(@)] /\ late' = late
        /\ exc' = IF InTry(s) THEN "positive" ELSE "none"
    BY DEF Fails, FailedPage, Thrown
  <1>2. Alike(s, t) /\ (~pooled => Failing(t) = {})
    BY FailedPageIs
  <1>3. lost \in [Conn -> Nat] /\ late \subseteq {"direct"} /\ Owed(s, cs, c, pooled)
    BY DEF Side, Core, Ready
  <1>4. conn' \in [Conn -> ConnRecord] /\ Exact(s, conn', lost) /\ WorkInv(s, conn', lost)
    BY <1>1, <1>3, FreedExact
  <1>5. ASSUME pooled PROVE exc' = "positive"
    BY <1>1, <1>3, <1>5, PoolHolds
  <1>6. t \in Seq(Frames) /\ Len(t) <= MaxDepth /\ s \in Seq(Frames) /\ StackInv(s) /\ pooled \in BOOLEAN
    BY <1>2 DEF Alike, Ready, Owed
  <1>7. StackInv(t) /\ Exact(t, conn', lost) /\ WorkInv(t, conn', lost) /\ (InTry(t) <=> InTry(s))
    BY <1>2, <1>4, <1>6, AlikePage DEF Exact
  <1>8. exc' \in {"positive", "none"} /\ (exc' \in IDs => InTry(t))
    BY <1>1, <1>7 DEF IDs
  <1> HIDE DEF t
  <1>9. exc' # "positive" => Failing(t) = {}
    BY <1>2, <1>5, <1>6
  <1> QED BY <1>1, <1>3, <1>4, <1>6, <1>7, <1>8, <1>9 DEF Core, IDs

LEMMA PlainCore ==
  ASSUME Core, Side, Running, UNCHANGED <<lost, aborts, ended>>,
         NEW s, NEW cs, NEW c, NEW pooled, Ready(s, cs, c, pooled), Plain(s, cs, c, pooled)
  PROVE  Core'
  <1> DEFINE ws == Worked(cs, c, pooled)
  <1>1. Owed(s, ws, c, pooled) /\ lost \in [Conn -> Nat] /\ late \subseteq {"direct"}
    BY WorkedReady DEF Side, Core, Ready
  <1>2. /\ page' = s /\ exc' = "none"
        /\ Drop(ws, c, pooled) \/ (conn' = [ws EXCEPT ![c] = Freed(@)] /\ late' = late)
    BY DEF Plain, Running
  <1> HIDE DEF ws
  <1>3. /\ conn' \in [Conn -> ConnRecord] /\ Exact(s, conn', lost) /\ WorkInv(s, conn', lost)
        /\ late' \subseteq {"direct"}
    <2>1. CASE Drop(ws, c, pooled)
      BY <1>1, <2>1, DropExact
    <2>2. CASE conn' = [ws EXCEPT ![c] = Freed(@)] /\ late' = late
      <3>1. /\ [ws EXCEPT ![c] = Freed(@)] \in [Conn -> ConnRecord]
            /\ Exact(s, [ws EXCEPT ![c] = Freed(@)], lost)
            /\ WorkInv(s, [ws EXCEPT ![c] = Freed(@)], lost)
        BY <1>1, FreedExact
      <3> QED BY <1>1, <2>2, <3>1
    <2> QED BY <1>2, <2>1, <2>2
  <1>4. s \in Seq(Frames) /\ Len(s) <= MaxDepth /\ StackInv(s) /\ Failing(s) = {}
    BY DEF Ready, Owed
  <1> QED BY <1>2, <1>3, <1>4 DEF Core, IDs

\* A macro is entered that has no connection, or the connection c of a query.
LEMMA PushStack ==
  ASSUME NEW s \in Seq(Frames), StackInv(s), NEW f \in Frames,
         f.kind = "query" =>
           IF f.pooled THEN \E i \in DOMAIN s : s[i].kind = "trans" /\ f.conn \in Pooled(s[i])
           ELSE HoldersIn(s, f.conn) = {},
         f.kind = "trans" => Pooled(f) = {}
  PROVE  StackInv(Append(s, f))
  <1> DEFINE t == Append(s, f)
             n == Len(s) + 1
  <1>1. /\ DOMAIN t = 1 .. n /\ DOMAIN s = 1 .. Len(s) /\ Len(s) \in Nat /\ t[n] = f
        /\ \A i \in 1 .. Len(s) : t[i] = s[i]
    OBVIOUS
  <1>2. \A c : HoldersIn(t, c) = HoldersIn(s, c) \union (IF Holds(f, c) THEN {n} ELSE {})
    BY AppendHolders
  <1> HIDE DEF t
  <1> SUFFICES ASSUME NEW k \in DOMAIN t, t[k].kind = "query"
               PROVE  IF t[k].pooled
                      THEN \E j \in 1 .. k - 1 : t[j].kind = "trans" /\ t[k].conn \in Pooled(t[j])
                      ELSE HoldersIn(t, t[k].conn) = {k}
    BY DEF StackInv, t
  <1>3. CASE k = n
    <2>1. t[k] = f
      BY <1>1, <1>3
    <2>2. CASE f.pooled
      <3>1. PICK i \in DOMAIN s : s[i].kind = "trans" /\ f.conn \in Pooled(s[i])
        BY <2>1, <2>2
      <3> QED BY <1>1, <1>3, <2>1, <2>2, <3>1
    <2>3. CASE ~f.pooled
      <3>1. HoldersIn(s, f.conn) = {} /\ Holds(f, f.conn)
        BY <2>1, <2>3 DEF Holds
      <3>2. HoldersIn(t, f.conn) = {n}
        BY <1>2, <3>1
      <3> QED BY <1>3, <2>1, <2>3, <3>2
    <2> QED BY <2>2, <2>3
  <1>4. CASE k \in DOMAIN s
    <2>1. t[k] = s[k] /\ s[k].kind = "query"
      BY <1>1, <1>4
    <2>2. CASE s[k].pooled
      <3>1. PICK j \in 1 .. k - 1 : s[j].kind = "trans" /\ s[k].conn \in Pooled(s[j])
        BY <1>4, <2>1, <2>2 DEF StackInv
      <3>2. t[j] = s[j]
        BY <1>1, <1>4
      <3> QED BY <2>1, <2>2, <3>1, <3>2
    <2>3. CASE ~s[k].pooled
      <3> DEFINE c == s[k].conn
      <3>1. HoldersIn(s, c) = {k}
        BY <1>4, <2>1, <2>3 DEF StackInv
      <3>2. ~Holds(f, c)
        <4> SUFFICES ASSUME Holds(f, c) PROVE FALSE
          OBVIOUS
        <4>1. f.kind = "query" /\ f.conn = c
          BY DEF Holds
        <4>2. PICK i \in DOMAIN s : s[i].kind = "trans" /\ c \in Pooled(s[i])
          BY <3>1, <4>1
        <4>3. i \in HoldersIn(s, c)
          BY <4>2 DEF HoldersIn, Holds
        <4>4. i = k
          BY <3>1, <4>3
        <4> QED BY <2>1, <4>2, <4>4
      <3> QED BY <1>2, <2>1, <2>3, <3>1, <3>2
    <2> QED BY <2>2, <2>3
  <1> QED BY <1>1, <1>3, <1>4

\* The other parts of Core, when a macro is entered
LEMMA PushRest ==
  ASSUME NEW s \in Seq(Frames), NEW f \in Frames
  PROVE  /\ Append(s, f) \in Seq(Frames) /\ Len(Append(s, f)) = Len(s) + 1
         /\ (f.kind = "trans" => ~f.failed) /\ Failing(s) = {} => Failing(Append(s, f)) = {}
         /\ \A cs, l : WorkInv(s, cs, l) => WorkInv(Append(s, f), cs, l)
  <1> DEFINE t == Append(s, f)
             n == Len(s) + 1
  <1>1. /\ DOMAIN t = 1 .. n /\ DOMAIN s = 1 .. Len(s) /\ Len(s) \in Nat /\ t[n] = f
        /\ \A i \in 1 .. Len(s) : t[i] = s[i]
        /\ t \in Seq(Frames) /\ Len(t) = n
    OBVIOUS
  <1> HIDE DEF t
  <1>2. (f.kind = "trans" => ~f.failed) /\ Failing(s) = {} => Failing(t) = {}
    BY <1>1 DEF Failing
  <1>3. \A cs, l : WorkInv(s, cs, l) => WorkInv(t, cs, l)
    BY <1>1 DEF WorkInv
  <1> QED BY <1>1, <1>2, <1>3 DEF t

LEMMA RowsCore ==
  ASSUME Core, Side, Running, UNCHANGED <<lost, aborts, ended>>,
         NEW s, NEW cs, NEW c, NEW pooled, Ready(s, cs, c, pooled), Rows(s, cs, c, pooled)
  PROVE  Core'
  <1> DEFINE ws == Worked(cs, c, pooled)
             f == QueryFrame(c, pooled)
             t == Append(s, f)
  <1>1. Ready(s, ws, c, pooled)
    BY WorkedReady
  <1>2. page' = t /\ conn' = ws /\ exc' = "none" /\ late' = late /\ Len(s) < MaxDepth
    BY DEF Rows, Running
  <1>3. /\ s \in Seq(Frames) /\ StackInv(s) /\ Failing(s) = {} /\ c \in Conn /\ pooled \in BOOLEAN
        /\ ws \in [Conn -> ConnRecord] /\ ExactBut(s, ws, lost, c) /\ WorkInv(s, ws, lost)
        /\ IF pooled THEN \E i \in DOMAIN s : s[i].kind = "trans" /\ c \in Pooled(s[i])
           ELSE HoldersIn(s, c) = {}
    BY <1>1 DEF Ready, Owed
  <1>4. f \in Frames /\ f.kind = "query" /\ f.conn = c /\ f.pooled = pooled
    BY <1>3, QueryKind
  <1>5. \A x : Holds(f, x) <=> x = c
    BY <1>3, QueryHolds
  <1> HIDE DEF ws, f
  <1>6. t \in Seq(Frames) /\ Len(t) = Len(s) + 1 /\ Failing(t) = {} /\ WorkInv(t, ws, lost)
    BY <1>3, <1>4, PushRest
  <1>7. StackInv(t)
    BY <1>3, <1>4, PushStack
  <1>8. \A x \in Conn : x # None
    BY SqlAssumption DEF SqlAssumption
  <1>9. Exact(t, ws, lost)
    <2> SUFFICES ASSUME NEW x \in Conn
                 PROVE  /\ ws[x].refs = Counted(t, x) + lost[x] + 0
                        /\ ws[x].state = "unused" <=> ws[x].refs = 0
      BY <1>8 DEF Exact, ExactBut
    <2>1. Counted(t, x) = Counted(s, x) + (IF x = c THEN 1 ELSE 0)
      BY <1>3, <1>4, <1>5, AppendHolders
    <2>2. /\ ws[x].refs = Counted(s, x) + lost[x] + (IF x = c THEN 1 ELSE 0)
          /\ ws[x].state = "unused" <=> ws[x].refs = 0
      BY <1>3 DEF ExactBut
    <2>3. Counted(s, x) \in Nat /\ lost[x] \in Nat
      BY <1>3, HoldersFinite DEF Side
    <2> QED BY <2>1, <2>2, <2>3
  <1>10. Len(t) <= MaxDepth
    BY <1>2, <1>3, <1>6, SqlAssumption DEF SqlAssumption
  <1> HIDE DEF t
  <1> QED BY <1>2, <1>3, <1>6, <1>7, <1>9, <1>10 DEF Core, IDs

LEMMA ExecuteCore ==
  ASSUME Core, Side, Running, UNCHANGED <<lost, aborts, ended>>,
         NEW s, NEW cs, NEW c, NEW pooled, Ready(s, cs, c, pooled), Execute(s, cs, c, pooled)
  PROVE  Core'
  BY FailsCore, PlainCore, RowsCore DEF Execute

\* A new connection
LEMMA ConnectedExact ==
  ASSUME Core, Side, NEW c \in Conn, conn[c].state = "unused",
         NEW state \in {"open", "dead"}, NEW r \in {1, 2}
  PROVE  /\ HoldersIn(page, c) = {} /\ Counted(page, c) = 0 /\ lost[c] = 0
         /\ Connected(c, state, r) \in [Conn -> ConnRecord]
         /\ Connected(c, state, r)[c].refs = r /\ Connected(c, state, r)[c].state # "unused"
         /\ ~Connected(c, state, r)[c].work
         /\ \A x \in Conn \ {c} : Connected(c, state, r)[x] = conn[x]
  <1>1. page \in Seq(Frames) /\ conn \in [Conn -> ConnRecord] /\ lost \in [Conn -> Nat]
    BY DEF Core, Side
  <1>2. c # None
    BY SqlAssumption DEF SqlAssumption
  <1>3. conn[c].refs = 0 /\ conn[c].refs = Counted(page, c) + lost[c] + 0
    BY <1>2 DEF Core, Exact, ExactBut
  <1>4. Counted(page, c) \in Nat /\ lost[c] \in Nat
    BY <1>1, HoldersFinite
  <1>5. Counted(page, c) = 0 /\ lost[c] = 0
    BY <1>3, <1>4
  <1>6. HoldersIn(page, c) = {}
    BY <1>1, <1>5, HoldersFinite
  <1>7. [state |-> state, refs |-> r, work |-> FALSE] \in ConnRecord
    BY DEF ConnRecord
  <1> QED BY <1>1, <1>5, <1>6, <1>7 DEF Connected

LEMMA FoundReady ==
  ASSUME Core, Side, Running, NEW d \in Dsn, NEW i \in DOMAIN page,
         IsPool(page, i), page[i].pool[d] # None
  PROVE  Ready(page, [conn EXCEPT ![page[i].pool[d]].refs = @ + 1], page[i].pool[d], TRUE)
  <1> DEFINE c == page[i].pool[d]
             cs == [conn EXCEPT ![c].refs = @ + 1]
  <1>1. /\ page \in Seq(Frames) /\ Len(page) <= MaxDepth /\ conn \in [Conn -> ConnRecord]
        /\ StackInv(page) /\ Failing(page) = {}
        /\ Exact(page, conn, lost) /\ WorkInv(page, conn, lost) /\ lost \in [Conn -> Nat]
    BY DEF Core, Side, Running
  <1>2. page[i] \in Frames /\ page[i].kind = "trans" /\ page[i].pool \in [Dsn -> Conn \union {None}]
    BY <1>1, FrameKinds DEF IsPool
  <1>3. c \in Conn /\ c \in Pooled(page[i])
    BY <1>2 DEF Pooled
  <1> HIDE DEF c
  <1>4. /\ cs \in [Conn -> ConnRecord] /\ \A x \in Conn \ {c} : cs[x] = conn[x]
        /\ cs[c].refs = conn[c].refs + 1 /\ cs[c].state = conn[c].state /\ cs[c].work = conn[c].work
    <2>1. conn[c] \in ConnRecord
      BY <1>1, <1>3
    <2>2. /\ [conn[c] EXCEPT !.refs = @ + 1] \in ConnRecord
          /\ [conn[c] EXCEPT !.refs = @ + 1].refs = conn[c].refs + 1
          /\ [conn[c] EXCEPT !.refs = @ + 1].state = conn[c].state
          /\ [conn[c] EXCEPT !.refs = @ + 1].work = conn[c].work
      BY <2>1 DEF ConnRecord
    <2>3. cs[c] = [conn[c] EXCEPT !.refs = @ + 1] /\ \A x \in Conn \ {c} : cs[x] = conn[x]
      BY <1>1, <1>3
    <2> QED BY <1>1, <1>3, <2>2, <2>3
  <1>5. i \in HoldersIn(page, c) /\ Counted(page, c) \in Nat /\ Counted(page, c) # 0
    <2>1. i \in HoldersIn(page, c)
      BY <1>2, <1>3 DEF HoldersIn, Holds
    <2> QED BY <1>1, <2>1, HoldersFinite
  <1>6. \A x \in Conn : x # None
    BY SqlAssumption DEF SqlAssumption
  <1>7. ExactBut(page, cs, lost, c)
    <2> SUFFICES ASSUME NEW x \in Conn
                 PROVE  /\ cs[x].refs = Counted(page, x) + lost[x] + (IF x = c THEN 1 ELSE 0)
                        /\ cs[x].state = "unused" <=> cs[x].refs = 0
      BY DEF ExactBut
    <2>1. /\ conn[x].refs = Counted(page, x) + lost[x] + 0
          /\ conn[x].state = "unused" <=> conn[x].refs = 0
          /\ Counted(page, x) \in Nat /\ lost[x] \in Nat
      BY <1>1, <1>6, HoldersFinite DEF Exact, ExactBut
    <2>2. CASE x = c
      BY <1>4, <1>5, <2>1, <2>2
    <2>3. CASE x # c
      BY <1>4, <2>1, <2>3
    <2> QED BY <2>2, <2>3
  <1>8. WorkInv(page, cs, lost)
    BY <1>1, <1>4 DEF WorkInv
  <1> HIDE DEF cs
  <1>9. Ready(page, cs, c, TRUE)
    <2>1. Owed(page, cs, c, TRUE)
      BY <1>1, <1>2, <1>3, <1>4, <1>7, <1>8 DEF Owed
    <2> QED BY <1>1, <2>1 DEF Ready
  <1> QED BY <1>9 DEF cs, c

\* A connection enters the pool of the innermost transaction.
LEMMA ConnectReady ==
  ASSUME Core, Side, Running, NEW d \in Dsn, NEW c \in Conn, NEW state \in {"open", "dead"},
         conn[c].state = "unused", NEW i \in DOMAIN page, IsPool(page, i), page[i].pool[d] = None
  PROVE  Ready([page EXCEPT ![i].pool[d] = c], Connected(c, state, 2), c, TRUE)
  <1> DEFINE f == [page[i] EXCEPT !.pool[d] = c]
             s == [page EXCEPT ![i].pool[d] = c]
             cs == Connected(c, state, 2)
  <1>1. /\ page \in Seq(Frames) /\ Len(page) <= MaxDepth /\ conn \in [Conn -> ConnRecord]
        /\ StackInv(page) /\ Failing(page) = {}
        /\ Exact(page, conn, lost) /\ WorkInv(page, conn, lost) /\ lost \in [Conn -> Nat]
    BY DEF Core, Side, Running
  <1>2. /\ page[i] \in Frames /\ page[i].kind = "trans"
        /\ page[i].pool \in [Dsn -> Conn \union {None}]
        /\ page[i].ok \in BOOLEAN /\ page[i].failed \in BOOLEAN
    BY <1>1, FrameKinds DEF IsPool
  <1>3. f = TransFrame([page[i].pool EXCEPT ![d] = c], page[i].ok, page[i].failed)
    <2> DEFINE g == page[i]
    <2>1. g \in Frames /\ g.kind = "trans"
      BY <1>2
    <2> HIDE DEF g
    <2>2. [g EXCEPT !.pool[d] = c] = TransFrame([g.pool EXCEPT ![d] = c], g.ok, g.failed)
      BY <2>1, PoolChanged
    <2> QED BY <2>2 DEF g
  <1>4. s = [page EXCEPT ![i] = f]
    OBVIOUS
  <1> HIDE DEF f
  <1>5. [page[i].pool EXCEPT ![d] = c] \in [Dsn -> Conn \union {None}]
    BY <1>2
  <1>6. /\ f \in Frames /\ f.kind = "trans" /\ f.pool = [page[i].pool EXCEPT ![d] = c]
        /\ f.failed = page[i].failed
    BY <1>2, <1>3, <1>5, TransKind
  <1>7. c # None
    BY SqlAssumption DEF SqlAssumption
  <1>8. Pooled(f) = Pooled(page[i]) \union {c}
    BY <1>2, <1>6, <1>7 DEF Pooled
  <1>9. /\ s \in Seq(Frames) /\ Len(s) = Len(page) /\ DOMAIN s = DOMAIN page
        /\ s[i] = f /\ \A j \in DOMAIN page \ {i} : s[j] = page[j]
    <2> HIDE DEF s
    <2>1. page \in Seq(Frames) /\ i \in DOMAIN page /\ f \in Frames /\ s = [page EXCEPT ![i] = f]
      BY <1>1, <1>4, <1>6
    <2>2. DOMAIN s = DOMAIN page /\ s[i] = f /\ \A j \in DOMAIN page \ {i} : s[j] = page[j]
      BY <2>1
    <2>3. s \in Seq(Frames) /\ Len(s) = Len(page)
      BY <2>1
    <2> QED BY <2>2, <2>3
  <1> HIDE DEF s
  <1>10. \A j \in DOMAIN page : \A x : Holds(s[j], x) <=> Holds(page[j], x) \/ (j = i /\ x = c)
    BY <1>2, <1>6, <1>8, <1>9 DEF Holds
  <1>11. /\ HoldersIn(page, c) = {} /\ lost[c] = 0
         /\ cs \in [Conn -> ConnRecord] /\ cs[c].refs = 2 /\ cs[c].state # "unused" /\ ~cs[c].work
         /\ \A x \in Conn \ {c} : cs[x] = conn[x]
    BY ConnectedExact
  <1> HIDE DEF cs
  <1>12. HoldersIn(s, c) = {i} /\ \A x : x # c => HoldersIn(s, x) = HoldersIn(page, x)
    BY <1>9, <1>10, <1>11 DEF HoldersIn
  <1>13. Counted(s, c) = 1 /\ \A x : x # c => Counted(s, x) = Counted(page, x)
    BY <1>12, FS_Singleton DEF Counted
  <1>14. StackInv(s)
    <2> SUFFICES ASSUME NEW k \in DOMAIN s, s[k].kind = "query"
                 PROVE  IF s[k].pooled
                        THEN \E j \in 1 .. k - 1 : s[j].kind = "trans" /\ s[k].conn \in Pooled(s[j])
                        ELSE HoldersIn(s, s[k].conn) = {k}
      BY DEF StackInv
    <2>1. k \in DOMAIN page /\ k # i /\ s[k] = page[k]
      BY <1>6, <1>9
    <2>2. CASE page[k].pooled
      <3>1. PICK j \in 1 .. k - 1 : page[j].kind = "trans" /\ page[k].conn \in Pooled(page[j])
        BY <1>1, <2>1, <2>2 DEF StackInv
      <3>2. j \in DOMAIN page
        BY <1>1, <2>1
      <3>3. s[j].kind = "trans" /\ page[k].conn \in Pooled(s[j])
        BY <1>6, <1>8, <1>9, <3>1, <3>2
      <3> QED BY <2>1, <2>2, <3>3
    <2>3. CASE ~page[k].pooled
      <3>1. HoldersIn(page, page[k].conn) = {k}
        BY <1>1, <2>1, <2>3 DEF StackInv
      <3>2. page[k].conn # c
        BY <1>11, <3>1
      <3> QED BY <1>12, <2>1, <2>3, <3>1, <3>2
    <2> QED BY <2>2, <2>3
  <1>15. Failing(s) = {}
    BY <1>1, <1>2, <1>6, <1>9 DEF Failing
  <1>16. \A x \in Conn : x # None
    BY SqlAssumption DEF SqlAssumption
  <1>17. ExactBut(s, cs, lost, c)
    <2> SUFFICES ASSUME NEW x \in Conn
                 PROVE  /\ cs[x].refs = Counted(s, x) + lost[x] + (IF x = c THEN 1 ELSE 0)
                        /\ cs[x].state = "unused" <=> cs[x].refs = 0
      BY DEF ExactBut
    <2>1. CASE x = c
      BY <1>11, <1>13, <2>1
    <2>2. CASE x # c
      BY <1>1, <1>11, <1>13, <1>16, <2>2 DEF Exact, ExactBut
    <2> QED BY <2>1, <2>2
  <1>18. WorkInv(s, cs, lost)
    <2> SUFFICES ASSUME NEW x \in Conn, cs[x].work
                 PROVE  lost[x] > 0 \/ \E j \in DOMAIN s : s[j].kind = "trans" /\ x \in Pooled(s[j])
      BY DEF WorkInv
    <2>1. conn[x].work
      BY <1>11
    <2>2. lost[x] > 0 \/ \E j \in DOMAIN page : page[j].kind = "trans" /\ x \in Pooled(page[j])
      BY <1>1, <2>1 DEF WorkInv
    <2> QED BY <1>6, <1>8, <1>9, <2>2
  <1>19. IsPool(s, i)
    BY <1>2, <1>6, <1>9 DEF IsPool
  <1>20. Ready(s, cs, c, TRUE)
    <2>1. Owed(s, cs, c, TRUE)
      BY <1>1, <1>6, <1>8, <1>9, <1>11, <1>14, <1>17, <1>18 DEF Owed
    <2> QED BY <1>9, <1>15, <1>19, <2>1 DEF Ready
  <1> QED BY <1>20 DEF s, cs

\* A query outside of transactions
LEMMA DirectReady ==
  ASSUME Core, Side, Running, NEW c \in Conn, NEW state \in {"open", "dead"},
         conn[c].state = "unused"
  PROVE  Ready(page, Connected(c, state, 1), c, FALSE)
  <1> DEFINE cs == Connected(c, state, 1)
  <1>1. /\ page \in Seq(Frames) /\ Len(page) <= MaxDepth /\ conn \in [Conn -> ConnRecord]
        /\ StackInv(page) /\ Failing(page) = {}
        /\ Exact(page, conn, lost) /\ WorkInv(page, conn, lost)
    BY DEF Core, Running
  <1>2. /\ HoldersIn(page, c) = {} /\ Counted(page, c) = 0 /\ lost[c] = 0
        /\ cs \in [Conn -> ConnRecord] /\ cs[c].refs = 1 /\ cs[c].state # "unused" /\ ~cs[c].work
        /\ \A x \in Conn \ {c} : cs[x] = conn[x]
    BY ConnectedExact
  <1> HIDE DEF cs
  <1>3. \A x \in Conn : x # None
    BY SqlAssumption DEF SqlAssumption
  <1>4. ExactBut(page, cs, lost, c)
    <2> SUFFICES ASSUME NEW x \in Conn
                 PROVE  /\ cs[x].refs = Counted(page, x) + lost[x] + (IF x = c THEN 1 ELSE 0)
                        /\ cs[x].state = "unused" <=> cs[x].refs = 0
      BY DEF ExactBut
    <2>1. CASE x = c
      BY <1>2, <2>1
    <2>2. CASE x # c
      BY <1>1, <1>2, <1>3, <2>2 DEF Exact, ExactBut
    <2> QED BY <2>1, <2>2
  <1>5. WorkInv(page, cs, lost)
    BY <1>1, <1>2 DEF WorkInv
  <1>6. Ready(page, cs, c, FALSE)
    BY <1>1, <1>2, <1>4, <1>5 DEF Ready, Owed
  <1> QED BY <1>6 DEF cs

LEMMA EvalSqlCore ==
  ASSUME Core, Side, NEW d \in Dsn, EvalSql(d)
  PROVE  Core'
  <1>1. Running /\ UNCHANGED <<lost, aborts, ended>>
    BY DEF EvalSql
  <1>2. ASSUME NEW i \in DOMAIN page, IsPool(page, i), page[i].pool[d] # None, Found(i, d)
        PROVE  Core'
    <2> DEFINE c == page[i].pool[d]
               cs == [conn EXCEPT ![c].refs = @ + 1]
    <2>1. Ready(page, cs, c, TRUE)
      BY <1>1, <1>2, FoundReady
    <2>2. Execute(page, cs, c, TRUE)
      BY <1>2 DEF Found
    <2> HIDE DEF c, cs
    <2> QED BY <1>1, <2>1, <2>2, ExecuteCore
  <1>3. ASSUME NEW c \in Conn, NEW state \in {"open", "dead"}, conn[c].state = "unused",
               NEW i \in DOMAIN page, IsPool(page, i), page[i].pool[d] = None,
               Connect(i, d, c, state)
        PROVE  Core'
    <2> DEFINE s == [page EXCEPT ![i].pool[d] = c]
               cs == Connected(c, state, 2)
    <2>1. Ready(s, cs, c, TRUE)
      BY <1>1, <1>3, ConnectReady
    <2>2. Execute(s, cs, c, TRUE)
      BY <1>3 DEF Connect
    <2> HIDE DEF s, cs
    <2> QED BY <1>1, <2>1, <2>2, ExecuteCore
  <1>4. ASSUME NEW c \in Conn, NEW state \in {"open", "dead"}, conn[c].state = "unused",
               Execute(page, Connected(c, state, 1), c, FALSE)
        PROVE  Core'
    <2>1. Ready(page, Connected(c, state, 1), c, FALSE)
      BY <1>1, <1>4, DirectReady
    <2> QED BY <1>1, <1>4, <2>1, ExecuteCore
  <1> QED BY <1>2, <1>3, <1>4 DEF EvalSql

(***************************************************************************)
(* Macros that are done                                                    *)
(***************************************************************************)

LEMMA PopStack ==
  ASSUME NEW s \in Seq(Frames), s # <<>>, StackInv(s)
  PROVE  /\ StackInv(SubSeq(s, 1, Len(s) - 1))
         /\ Failing(SubSeq(s, 1, Len(s) - 1)) \subseteq Failing(s)
  <1> DEFINE n == Len(s)
             t == SubSeq(s, 1, n - 1)
  <1>1. /\ t \in Seq(Frames) /\ Len(t) = n - 1 /\ n \in Nat \ {0}
        /\ \A i \in DOMAIN t : i \in DOMAIN s /\ t[i] = s[i]
    BY PopPage
  <1>2. DOMAIN t = 1 .. n - 1
    BY <1>1
  <1>3. \A c : HoldersIn(t, c) = HoldersIn(s, c) \ {n}
    BY PopHolders
  <1> HIDE DEF t
  <1>4. StackInv(t)
    <2> SUFFICES ASSUME NEW k \in DOMAIN t, t[k].kind = "query"
                 PROVE  IF t[k].pooled
                        THEN \E j \in 1 .. k - 1 : t[j].kind = "trans" /\ t[k].conn \in Pooled(t[j])
                        ELSE HoldersIn(t, t[k].conn) = {k}
      BY DEF StackInv
    <2>1. k \in DOMAIN s /\ t[k] = s[k] /\ k # n
      BY <1>1, <1>2
    <2>2. CASE s[k].pooled
      <3>1. PICK j \in 1 .. k - 1 : s[j].kind = "trans" /\ s[k].conn \in Pooled(s[j])
        BY <2>1, <2>2 DEF StackInv
      <3>2. t[j] = s[j]
        BY <1>1, <1>2
      <3> QED BY <2>1, <2>2, <3>1, <3>2
    <2>3. CASE ~s[k].pooled
      <3>1. HoldersIn(s, s[k].conn) = {k}
        BY <2>1, <2>3 DEF StackInv
      <3> QED BY <1>3, <2>1, <2>3, <3>1
    <2> QED BY <2>2, <2>3
  <1>5. Failing(t) \subseteq Failing(s)
    BY <1>1 DEF Failing
  <1> QED BY <1>4, <1>5 DEF t

\* What is invariant of the page that is left when a macro is done
LEMMA PopCore ==
  ASSUME Core, page # <<>>
  PROVE  /\ Below \in Seq(Frames) /\ Len(Below) <= MaxDepth
         /\ StackInv(Below) /\ (exc # "positive" => Failing(Below) = {})
         /\ Failing(Below) # {} => InTry(Below)
         /\ Top \in Frames /\ DOMAIN page = DOMAIN Below \union {Len(page)}
         /\ \A i \in DOMAIN Below : i \in DOMAIN page /\ Below[i] = page[i]
  <1>1. page \in Seq(Frames) /\ Len(page) <= MaxDepth /\ StackInv(page)
        /\ (exc # "positive" => Failing(page) = {})
    BY DEF Core
  <1>2. /\ Below \in Seq(Frames) /\ Len(Below) = Len(page) - 1 /\ Len(page) \in Nat \ {0}
        /\ Top \in Frames /\ DOMAIN page = DOMAIN Below \union {Len(page)}
        /\ \A i \in DOMAIN Below : i \in DOMAIN page /\ Below[i] = page[i]
    BY <1>1, PopPage DEF Below, Top
  <1>3. StackInv(Below) /\ Failing(Below) \subseteq Failing(page)
    BY <1>1, PopStack DEF Below
  <1>4. Failing(Below) # {} => InTry(Below)
    BY DEF Failing, InTry
  <1> QED BY <1>1, <1>2, <1>3, <1>4, SqlAssumption DEF SqlAssumption

LEMMA QueryOwed ==
  ASSUME Core, Side, page # <<>>, Top.kind = "query"
  PROVE  Owed(Below, conn, Top.conn, Top.pooled)
  <1> DEFINE n == Len(page)
             c == Top.conn
  <1>1. /\ page \in Seq(Frames) /\ conn \in [Conn -> ConnRecord] /\ StackInv(page)
        /\ Exact(page, conn, lost) /\ WorkInv(page, conn, lost) /\ lost \in [Conn -> Nat]
    BY DEF Core, Side
  <1>2. /\ Below \in Seq(Frames) /\ Len(Below) <= MaxDepth /\ StackInv(Below) /\ Top \in Frames
        /\ DOMAIN page = DOMAIN Below \union {n}
        /\ \A i \in DOMAIN Below : i \in DOMAIN page /\ Below[i] = page[i]
    BY PopCore
  <1>3. c \in Conn /\ Top.pooled \in BOOLEAN
    BY <1>2, FrameKinds
  <1>4. \A x : Holds(Top, x) <=> x = c
    BY DEF Holds
  <1>5. \A x : /\ HoldersIn(Below, x) = HoldersIn(page, x) \ {n}
               /\ Counted(page, x) = Counted(Below, x) + (IF x = c THEN 1 ELSE 0)
               /\ Counted(Below, x) \in Nat
    BY <1>1, <1>4, PopHolders DEF Below, Top
  <1>6. n \in DOMAIN page /\ page[n] = Top
    BY <1>2 DEF Top
  <1>7. IF Top.pooled THEN \E i \in DOMAIN Below : Below[i].kind = "trans" /\ c \in Pooled(Below[i])
        ELSE HoldersIn(Below, c) = {}
    <2>1. CASE Top.pooled
      <3>1. PICK j \in 1 .. n - 1 : page[j].kind = "trans" /\ c \in Pooled(page[j])
        BY <1>1, <1>6, <2>1 DEF StackInv
      <3>2. j \in DOMAIN page /\ j # n
        BY <1>1, <1>6
      <3> QED BY <1>2, <2>1, <3>1, <3>2
    <2>2. CASE ~Top.pooled
      <3>1. HoldersIn(page, c) = {n}
        BY <1>1, <1>6, <2>2 DEF StackInv
      <3> QED BY <1>5, <2>2, <3>1
    <2> QED BY <2>1, <2>2
  <1>8. \A x \in Conn : x # None
    BY SqlAssumption DEF SqlAssumption
  <1>9. ExactBut(Below, conn, lost, c)
    <2> SUFFICES ASSUME NEW x \in Conn
                 PROVE  /\ conn[x].refs = Counted(Below, x) + lost[x] + (IF x = c THEN 1 ELSE 0)
                        /\ conn[x].state = "unused" <=> conn[x].refs = 0
      BY DEF ExactBut
    <2>1. /\ conn[x].refs = Counted(page, x) + lost[x] + 0
          /\ conn[x].state = "unused" <=> conn[x].refs = 0
          /\ lost[x] \in Nat
      BY <1>1, <1>8 DEF Exact, ExactBut
    <2> QED BY <1>5, <2>1
  <1>10. WorkInv(Below, conn, lost)
    BY <1>1, <1>2, <1>6 DEF WorkInv
  <1> QED BY <1>1, <1>2, <1>3, <1>7, <1>9, <1>10 DEF Owed

\* What becomes of an error when the macro it passes is done
LEMMA ThrownOn ==
  ASSUME Core, page # <<>>,
         \/ exc' = "none" /\ exc # "positive"
         \/ exc \in IDs /\ Thrown(exc, Below)
  PROVE  /\ exc' \in IDs \union {"none", "abort"}
         /\ exc' \in IDs => InTry(Below)
         /\ exc' # "positive" => Failing(Below) = {}
  <1>1. CASE exc' = "none" /\ exc # "positive"
    BY <1>1, PopCore DEF IDs
  <1>2. CASE exc \in IDs /\ Thrown(exc, Below)
    <2>1. CASE InTry(Below)
      BY <1>2, <2>1, PopCore DEF Thrown
    <2>2. CASE ~InTry(Below)
      BY <1>2, <2>2, PopCore DEF Thrown, IDs
    <2> QED BY <2>1, <2>2
  <1> QED BY <1>1, <1>2

LEMMA RowsDoneCore ==
  ASSUME Core, Side, RowsDone \/ RowsFailed
  PROVE  Core'
  <1>1. /\ page # <<>> /\ Top.kind = "query" /\ page' = Below /\ Drop(conn, Top.conn, Top.pooled)
        /\ lost' = lost
    BY DEF RowsDone, RowsFailed
  <1>2. \/ exc' = "none" /\ exc # "positive"
        \/ exc \in IDs /\ Thrown(exc, Below)
    BY DEF RowsDone, RowsFailed, Running
  <1>3. Owed(Below, conn, Top.conn, Top.pooled)
    BY <1>1, QueryOwed
  <1>4. /\ conn' \in [Conn -> ConnRecord] /\ Exact(Below, conn', lost) /\ WorkInv(Below, conn', lost)
        /\ late' \subseteq {"direct"}
    BY <1>1, <1>3, DropExact DEF Core, Side
  <1>5. Below \in Seq(Frames) /\ Len(Below) <= MaxDepth /\ StackInv(Below)
    BY <1>1, PopCore
  <1>6. /\ exc' \in IDs \union {"none", "abort"}
        /\ exc' \in IDs => InTry(Below)
        /\ exc' # "positive" => Failing(Below) = {}
    BY <1>1, <1>2, ThrownOn
  <1> HIDE DEF Below
  <1> QED BY <1>1, <1>4, <1>5, <1>6 DEF Core

\* An abort leaves behind the references of the macros it goes through.
LEMMA AbortedCore ==
  ASSUME Core, Side, RowsAborted \/ TransAborted \/ TextAborted
  PROVE  Core' /\ lost' \in [Conn -> Nat]
  <1> DEFINE n == Len(page)
  <1>1. /\ page # <<>> /\ page' = Below /\ exc = "abort" /\ UNCHANGED <<exc, conn, late>>
    BY DEF RowsAborted, TransAborted, TextAborted
  <1>2. /\ page \in Seq(Frames) /\ conn \in [Conn -> ConnRecord] /\ late \subseteq {"direct"}
        /\ Exact(page, conn, lost) /\ WorkInv(page, conn, lost) /\ lost \in [Conn -> Nat]
    BY DEF Core, Side
  <1>3. /\ Below \in Seq(Frames) /\ Len(Below) <= MaxDepth /\ StackInv(Below)
        /\ Failing(Below) = {} /\ Top \in Frames
        /\ DOMAIN page = DOMAIN Below \union {n}
        /\ \A i \in DOMAIN Below : i \in DOMAIN page /\ Below[i] = page[i]
    BY <1>1, PopCore
  <1>4. /\ lost' \in [Conn -> Nat]
        /\ \A x \in Conn : lost'[x] = lost[x] + (IF Holds(Top, x) THEN 1 ELSE 0)
    <2>1. CASE RowsAborted
      <3>1. Top.kind = "query" /\ lost' = [lost EXCEPT ![Top.conn] = @ + 1] /\ Top.conn \in Conn
        BY <1>3, <2>1, FrameKinds DEF RowsAborted
      <3> QED BY <1>2, <3>1 DEF Holds
    <2>2. CASE TransAborted
      <3>1. /\ Top.kind = "trans"
            /\ lost' = [c \in Conn |-> IF c \in Pooled(Top) THEN lost[c] + 1 ELSE lost[c]]
        BY <2>2 DEF TransAborted
      <3> QED BY <1>2, <3>1 DEF Holds
    <2>3. CASE TextAborted
      <3>1. Top.kind \in {"try", "safe"} /\ lost' = lost
        BY <2>3 DEF TextAborted
      <3> QED BY <1>2, <3>1 DEF Holds
    <2> QED BY <2>1, <2>2, <2>3
  <1>5. \A x \in Conn : x # None
    BY SqlAssumption DEF SqlAssumption
  <1>6. Exact(Below, conn, lost')
    <2> SUFFICES ASSUME NEW x \in Conn
                 PROVE  /\ conn[x].refs = Counted(Below, x) + lost'[x] + 0
                        /\ conn[x].state = "unused" <=> conn[x].refs = 0
      BY <1>5 DEF Exact, ExactBut
    <2>1. /\ Counted(page, x) = Counted(Below, x) + (IF Holds(Top, x) THEN 1 ELSE 0)
          /\ Counted(Below, x) \in Nat
      BY <1>1, <1>2, PopHolders DEF Below, Top
    <2>2. /\ conn[x].refs = Counted(page, x) + lost[x] + 0
          /\ conn[x].state = "unused" <=> conn[x].refs = 0
          /\ lost[x] \in Nat
      BY <1>2, <1>5 DEF Exact, ExactBut
    <2> QED BY <1>4, <2>1, <2>2
  <1>7. WorkInv(Below, conn, lost')
    <2> SUFFICES ASSUME NEW x \in Conn, conn[x].work
                 PROVE  lost'[x] > 0 \/ \E i \in DOMAIN Below :
                                          Below[i].kind = "trans" /\ x \in Pooled(Below[i])
      BY DEF WorkInv
    <2>1. CASE lost[x] > 0
      BY <1>2, <1>4, <2>1
    <2>2. CASE \E i \in DOMAIN page : page[i].kind = "trans" /\ x \in Pooled(page[i])
      <3>1. PICK i \in DOMAIN page : page[i].kind = "trans" /\ x \in Pooled(page[i])
        BY <2>2
      <3>2. CASE i = n
        <4>1. Holds(Top, x)
          BY <3>1, <3>2 DEF Holds, Top
        <4> QED BY <1>2, <1>4, <4>1
      <3>3. CASE i # n
        BY <1>3, <3>1, <3>3
      <3> QED BY <3>2, <3>3
    <2> QED BY <1>2, <2>1, <2>2 DEF WorkInv
  <1> QED BY <1>1, <1>2, <1>3, <1>4, <1>6, <1>7 DEF Core, IDs

\* A transaction ends: its pool gives up its references, and work that is left is on a
\* connection of another pool.
LEMMA EndTransCore ==
  ASSUME Core, Side, TransDone \/ TransFailed
  PROVE  Core'
  <1> DEFINE n == Len(page)
  <1>1. /\ page # <<>> /\ Top.kind = "trans" /\ page' = Below /\ late' = late /\ lost' = lost
        /\ conn' = [c \in Conn |-> IF c \in Pooled(Top) THEN Freed(conn[c]) ELSE conn[c]]
    BY DEF TransDone, TransFailed, EndTrans
  <1>2. \/ exc' = "none" /\ exc # "positive"
        \/ exc \in IDs /\ Thrown(exc, Below)
    BY DEF TransDone, TransFailed, Running
  <1>3. /\ page \in Seq(Frames) /\ conn \in [Conn -> ConnRecord] /\ late \subseteq {"direct"}
        /\ StackInv(page)
        /\ Exact(page, conn, lost) /\ WorkInv(page, conn, lost) /\ lost \in [Conn -> Nat]
    BY DEF Core, Side
  <1>4. /\ Below \in Seq(Frames) /\ Len(Below) <= MaxDepth /\ StackInv(Below) /\ Top \in Frames
        /\ DOMAIN page = DOMAIN Below \union {n}
        /\ \A i \in DOMAIN Below : i \in DOMAIN page /\ Below[i] = page[i]
    BY <1>1, PopCore
  <1>5. \A x \in Conn : x # None
    BY SqlAssumption DEF SqlAssumption
  <1>6. \A x : Holds(Top, x) <=> x \in Pooled(Top)
    BY <1>1 DEF Holds
  <1>7. ASSUME NEW x \in Conn
        PROVE  /\ conn[x].refs = Counted(Below, x) + (IF x \in Pooled(Top) THEN 1 ELSE 0) + lost[x]
               /\ conn[x].state = "unused" <=> conn[x].refs = 0
               /\ Counted(Below, x) \in Nat /\ lost[x] \in Nat
    <2>1. /\ Counted(page, x) = Counted(Below, x) + (IF Holds(Top, x) THEN 1 ELSE 0)
          /\ Counted(Below, x) \in Nat
      BY <1>1, <1>3, PopHolders DEF Below, Top
    <2>2. /\ conn[x].refs = Counted(page, x) + lost[x] + 0
          /\ conn[x].state = "unused" <=> conn[x].refs = 0
          /\ lost[x] \in Nat
      BY <1>3, <1>5 DEF Exact, ExactBut
    <2> QED BY <1>6, <2>1, <2>2
  <1>8. ASSUME NEW x \in Conn
        PROVE  /\ conn'[x] \in ConnRecord
               /\ conn'[x].refs = Counted(Below, x) + lost[x]
               /\ conn'[x].state = "unused" <=> conn'[x].refs = 0
               /\ conn'[x].work => conn[x].work /\ (x \in Pooled(Top) => conn'[x].refs > 0)
    <2>1. CASE x \in Pooled(Top)
      <3>1. conn'[x] = Freed(conn[x]) /\ conn[x].refs >= 1 /\ conn[x].refs - 1 = Counted(Below, x) + lost[x]
        BY <1>1, <1>7, <2>1
      <3>2. /\ [conn EXCEPT ![x] = Freed(@)] \in [Conn -> ConnRecord]
            /\ Freed(conn[x]).refs = conn[x].refs - 1
            /\ Freed(conn[x]).state = "unused" <=> Freed(conn[x]).refs = 0
            /\ Freed(conn[x]).work => conn[x].work /\ Freed(conn[x]).refs > 0
        BY <1>3, <1>7, <3>1, FreedConn
      <3>3. Freed(conn[x]) \in ConnRecord
        BY <1>3, <3>2
      <3> QED BY <3>1, <3>2, <3>3
    <2>2. CASE x \notin Pooled(Top)
      BY <1>1, <1>3, <1>7, <2>2
    <2> QED BY <2>1, <2>2
  <1>9. conn' \in [Conn -> ConnRecord]
    <2>1. conn' = [c \in Conn |-> conn'[c]]
      BY <1>1
    <2> QED BY <1>8, <2>1
  <1>10. Exact(Below, conn', lost)
    <2> SUFFICES ASSUME NEW x \in Conn
                 PROVE  /\ conn'[x].refs = Counted(Below, x) + lost[x] + 0
                        /\ conn'[x].state = "unused" <=> conn'[x].refs = 0
      BY <1>5 DEF Exact, ExactBut
    <2> QED BY <1>7, <1>8
  <1>11. WorkInv(Below, conn', lost)
    <2> SUFFICES ASSUME NEW x \in Conn, conn'[x].work, ~(lost[x] > 0)
                 PROVE  \E i \in DOMAIN Below : Below[i].kind = "trans" /\ x \in Pooled(Below[i])
      BY DEF WorkInv
    <2>1. CASE x \in Pooled(Top)
      <3>1. Counted(Below, x) # 0 /\ Counted(Below, x) \in Nat
        BY <1>7, <1>8, <2>1
      <3>2. HoldersIn(Below, x) # {}
        BY <1>4, <3>1, HoldersFinite
      <3>3. PICK k \in DOMAIN Below : Holds(Below[k], x)
        BY <3>2 DEF HoldersIn
      <3>4. CASE Below[k].kind = "trans"
        BY <3>3, <3>4 DEF Holds
      <3>5. CASE Below[k].kind = "query"
        <4>1. Below[k].conn = x /\ page[k] = Below[k] /\ k \in DOMAIN page /\ k # n
          BY <1>1, <1>4, <3>3, <3>5 DEF Holds, Top
        <4>2. n \in HoldersIn(page, x)
          BY <1>4, <1>6, <2>1 DEF HoldersIn, Top
        <4>3. Below[k].pooled
          BY <1>3, <3>5, <4>1, <4>2 DEF StackInv
        <4>4. PICK j \in 1 .. k - 1 : Below[j].kind = "trans" /\ x \in Pooled(Below[j])
          BY <1>4, <3>5, <4>1, <4>3 DEF StackInv
        <4>5. j \in DOMAIN Below
          <5> DEFINE t == Below
          <5>1. t \in Seq(Frames) /\ k \in DOMAIN t /\ j \in 1 .. k - 1
            BY <1>4, <3>3
          <5> HIDE DEF t
          <5>2. k \in 1 .. Len(t) /\ Len(t) \in Nat /\ DOMAIN t = 1 .. Len(t)
            BY <5>1
          <5>3. j \in DOMAIN t
            BY <5>1, <5>2
          <5> QED BY <5>3 DEF t
        <4> QED BY <4>4, <4>5
      <3> QED BY <3>3, <3>4, <3>5 DEF Holds
    <2>2. CASE x \notin Pooled(Top)
      <3>1. PICK i \in DOMAIN page : page[i].kind = "trans" /\ x \in Pooled(page[i])
        BY <1>3, <1>8 DEF WorkInv
      <3>2. i # n
        BY <2>2, <3>1 DEF Top
      <3> QED BY <1>4, <3>1, <3>2
    <2> QED BY <2>1, <2>2
  <1>12. /\ exc' \in IDs \union {"none", "abort"}
         /\ exc' \in IDs => InTry(Below)
         /\ exc' # "positive" => Failing(Below) = {}
    BY <1>1, <1>2, ThrownOn
  <1> QED BY <1>1, <1>3, <1>4, <1>9, <1>10, <1>11, <1>12 DEF Core

(***************************************************************************)
(* Other macros                                                            *)
(***************************************************************************)

LEMMA TextPopped ==
  ASSUME Core, Side, page # <<>>, Top.kind \in {"try", "safe"}
  PROVE  Exact(Below, conn, lost) /\ WorkInv(Below, conn, lost)
  <1>1. page \in Seq(Frames) /\ Exact(page, conn, lost) /\ WorkInv(page, conn, lost)
    BY DEF Core
  <1>2. /\ DOMAIN page = DOMAIN Below \union {Len(page)}
        /\ \A i \in DOMAIN Below : Below[i] = page[i]
    BY PopCore
  <1>3. \A x : ~Holds(Top, x)
    BY DEF Holds
  <1>4. \A x : Counted(page, x) = Counted(Below, x) + 0 /\ Counted(Below, x) \in Nat
    BY <1>1, <1>3, PopHolders DEF Below, Top
  <1>5. \A x : Counted(page, x) = Counted(Below, x)
    BY <1>4
  <1>6. Exact(Below, conn, lost)
    BY <1>1, <1>5 DEF Exact, ExactBut
  <1>7. WorkInv(Below, conn, lost)
    BY <1>1, <1>2 DEF WorkInv, Top
  <1> QED BY <1>6, <1>7

LEMMA TextDoneCore ==
  ASSUME Core, Side, TextDone
  PROVE  Core'
  <1>1. /\ page # <<>> /\ Top.kind \in {"try", "safe"} /\ page' = Below /\ exc = "none"
        /\ UNCHANGED <<exc, conn, lost, late>>
    BY DEF TextDone, Running
  <1>2. Exact(Below, conn, lost) /\ WorkInv(Below, conn, lost)
    BY <1>1, TextPopped
  <1>3. Below \in Seq(Frames) /\ Len(Below) <= MaxDepth /\ StackInv(Below) /\ Failing(Below) = {}
    BY <1>1, PopCore
  <1> QED BY <1>1, <1>2, <1>3 DEF Core, IDs

\* An error that is caught leaves the page as it is but for the transactions' flags.
LEMMA MetPage ==
  ASSUME NEW s \in Seq(Frames)
  PROVE  Alike(s, Met(s)) /\ Failing(Met(s)) = {}
  <1> DEFINE t == Met(s)
  <1>1. /\ DOMAIN s = 1 .. Len(s) /\ Len(s) \in Nat
        /\ t = [i \in 1 .. Len(s) |-> t[i]]
    BY DEF Met
  <1>2. ASSUME NEW i \in 1 .. Len(s)
        PROVE  /\ t[i] \in Frames /\ t[i].kind = s[i].kind
               /\ s[i].kind = "query" => t[i] = s[i]
               /\ s[i].kind = "trans" => t[i].pool = s[i].pool /\ ~t[i].failed
    <2> DEFINE f == s[i]
    <2>1. f \in Frames
      BY <1>1
    <2>2. t[i] = IF f.kind = "trans" THEN [f EXCEPT !.failed = FALSE] ELSE f
      BY <1>1 DEF Met
    <2> HIDE DEF f, t
    <2>3. CASE f.kind = "trans"
      <3>1. f.pool \in [Dsn -> Conn \union {None}] /\ f.ok \in BOOLEAN /\ FALSE \in BOOLEAN
        BY <2>1, <2>3, FrameKinds
      <3> DEFINE g == TransFrame(f.pool, f.ok, FALSE)
      <3>2. g \in Frames /\ g.kind = "trans" /\ g.pool = f.pool /\ g.failed = FALSE
        BY <3>1, TransKind
      <3>3. t[i] = g
        BY <2>1, <2>2, <2>3, FlagChanged
      <3> HIDE DEF g
      <3> QED BY <2>3, <3>2, <3>3 DEF f
    <2>4. CASE f.kind # "trans"
      BY <2>1, <2>2, <2>4 DEF f
    <2> QED BY <2>3, <2>4
  <1> HIDE DEF t
  <1>3. t \in Seq(Frames) /\ Len(t) = Len(s) /\ DOMAIN t = 1 .. Len(s)
    BY <1>1, <1>2
  <1>4. Alike(s, t)
    BY <1>1, <1>2, <1>3 DEF Alike
  <1>5. Failing(t) = {}
    <2> SUFFICES ASSUME NEW i \in DOMAIN t, t[i].kind = "trans" PROVE ~t[i].failed
      BY DEF Failing
    <2> QED BY <1>2, <1>3
  <1> QED BY <1>4, <1>5 DEF t

\* A try catches the error, or a safe-expand prints it.
LEMMA CaughtCore ==
  ASSUME Core, Side, Catch \/ SafeCaught
  PROVE  Core'
  <1>1. PICK s \in {page, Below} :
          /\ page' = Met(s) /\ page # <<>> /\ exc' = "none"
          /\ s = Below => Top.kind \in {"try", "safe"}
          /\ UNCHANGED <<conn, lost, late>>
    BY DEF Catch, SafeCaught
  <1>2. /\ s \in Seq(Frames) /\ Len(s) <= MaxDepth /\ StackInv(s)
        /\ Exact(s, conn, lost) /\ WorkInv(s, conn, lost)
    <2>1. CASE s = page
      BY <2>1 DEF Core
    <2>2. CASE s = Below
      BY <1>1, <2>2, PopCore, TextPopped
    <2> QED BY <2>1, <2>2
  <1>3. Alike(s, Met(s)) /\ Failing(Met(s)) = {}
    BY <1>2, MetPage
  <1>4. Met(s) \in Seq(Frames) /\ Len(Met(s)) = Len(s)
    BY <1>3 DEF Alike
  <1>5. StackInv(Met(s)) /\ Exact(Met(s), conn, lost) /\ WorkInv(Met(s), conn, lost)
    BY <1>2, <1>3, AlikePage DEF Exact
  <1> QED BY <1>1, <1>2, <1>3, <1>4, <1>5 DEF Core, IDs

\* The exception leaves the safe-expand for the try that was below it already.
LEMMA SafePassedCore ==
  ASSUME Core, Side, SafePassed
  PROVE  Core'
  <1>1. /\ page # <<>> /\ Top.kind = "safe" /\ page' = Below /\ exc \in IDs
        /\ UNCHANGED <<exc, conn, lost, late>>
    BY DEF SafePassed
  <1>2. Exact(Below, conn, lost) /\ WorkInv(Below, conn, lost)
    BY <1>1, TextPopped
  <1>3. /\ Below \in Seq(Frames) /\ Len(Below) <= MaxDepth /\ StackInv(Below)
        /\ exc # "positive" => Failing(Below) = {}
        /\ DOMAIN page = DOMAIN Below \union {Len(page)}
        /\ \A i \in DOMAIN Below : Below[i] = page[i]
    BY <1>1, PopCore
  <1>4. InTry(Below)
    <2>1. PICK i \in DOMAIN page : page[i].kind \in {"try", "trans"}
      BY <1>1 DEF Core, InTry
    <2>2. i # Len(page)
      BY <1>1, <2>1 DEF Top
    <2> QED BY <1>3, <2>1, <2>2 DEF InTry
  <1> QED BY <1>1, <1>2, <1>3, <1>4 DEF Core

LEMMA BeginCore ==
  ASSUME Core, Side, BeginTrans \/ BeginTry \/ BeginSafe
  PROVE  Core'
  <1>1. PICK f \in {TryFrame, SafeFrame, TransFrame(NoConns, TRUE, FALSE)} :
          /\ page' = Append(page, f) /\ Len(page) < MaxDepth /\ exc = "none"
          /\ UNCHANGED <<exc, conn, lost, late>>
    BY DEF BeginTrans, BeginTry, BeginSafe, Running
  <1>2. /\ page \in Seq(Frames) /\ StackInv(page) /\ Failing(page) = {}
        /\ Exact(page, conn, lost) /\ WorkInv(page, conn, lost)
    BY <1>1 DEF Core
  <1>3. NoConns \in [Dsn -> Conn \union {None}] /\ \A d \in Dsn : NoConns[d] = None
    BY DEF NoConns
  <1>4. /\ f \in Frames /\ f.kind # "query"
        /\ f.kind = "trans" => ~f.failed /\ f.pool = NoConns
    <2>1. CASE f \in {TryFrame, SafeFrame}
      BY <2>1, TextKind
    <2>2. CASE f = TransFrame(NoConns, TRUE, FALSE)
      <3>1. TRUE \in BOOLEAN /\ FALSE \in BOOLEAN
        OBVIOUS
      <3>2. f \in Frames /\ f.kind = "trans" /\ f.pool = NoConns /\ f.failed = FALSE
        BY <1>3, <2>2, <3>1, TransKind
      <3> QED BY <3>2
    <2> QED BY <1>1, <2>1, <2>2
  <1>5. f.kind = "trans" => Pooled(f) = {}
    BY <1>3, <1>4 DEF Pooled
  <1>6. \A x : ~Holds(f, x)
    BY <1>4, <1>5 DEF Holds
  <1> DEFINE t == Append(page, f)
  <1>7. \A x : Counted(t, x) = Counted(page, x) + 0 /\ Counted(page, x) \in Nat
    BY <1>2, <1>4, <1>6, AppendHolders, HoldersFinite
  <1>8. /\ t \in Seq(Frames) /\ Len(t) = Len(page) + 1 /\ Failing(t) = {} /\ WorkInv(t, conn, lost)
        /\ StackInv(t)
    BY <1>2, <1>4, <1>5, PushRest, PushStack
  <1>9. page' = t /\ Len(page) < MaxDepth /\ Len(page) \in Nat
    BY <1>1, <1>2
  <1> HIDE DEF t
  <1>10. Exact(t, conn, lost)
    <2>1. \A x : Counted(t, x) = Counted(page, x)
      BY <1>7
    <2> QED BY <1>2, <2>1 DEF Exact, ExactBut
  <1>11. Len(t) <= MaxDepth
    BY <1>8, <1>9, SqlAssumption DEF SqlAssumption
  <1> QED BY <1>1, <1>8, <1>9, <1>10, <1>11 DEF Core, IDs

LEMMA RollbackCore ==
  ASSUME Core, Side, Rollback
  PROVE  Core'
  <1>1. PICK i \in DOMAIN page : IsPool(page, i) /\ page' = [page EXCEPT ![i].ok = FALSE]
    BY DEF Rollback
  <1>2. exc = "none" /\ UNCHANGED <<exc, conn, lost, late>>
    BY DEF Rollback, Running
  <1>3. /\ page \in Seq(Frames) /\ Len(page) <= MaxDepth /\ StackInv(page) /\ Failing(page) = {}
        /\ Exact(page, conn, lost) /\ WorkInv(page, conn, lost)
    BY <1>2 DEF Core
  <1> DEFINE g == page[i]
             f == [g EXCEPT !.ok = FALSE]
             t == [page EXCEPT ![i] = f]
  <1>4. g \in Frames /\ g.kind = "trans" /\ page' = t
    BY <1>1, <1>3 DEF IsPool
  <1> HIDE DEF g
  <1>5. g.pool \in [Dsn -> Conn \union {None}] /\ g.failed \in BOOLEAN /\ FALSE \in BOOLEAN
    BY <1>4, FrameKinds
  <1>6. f = TransFrame(g.pool, FALSE, g.failed)
    BY <1>4, FlagChanged
  <1> HIDE DEF f
  <1>7. f \in Frames /\ f.kind = "trans" /\ f.pool = g.pool /\ f.failed = g.failed
    BY <1>5, <1>6, TransKind
  <1>8. /\ t \in Seq(Frames) /\ Len(t) = Len(page) /\ DOMAIN t = DOMAIN page /\ t[i] = f
        /\ \A j \in DOMAIN page : j # i => t[j] = page[j]
    BY <1>3, <1>7
  <1> HIDE DEF t
  <1>9. Alike(page, t)
    BY <1>4, <1>7, <1>8 DEF Alike, g
  <1>10. Failing(t) = {}
    BY <1>3, <1>4, <1>7, <1>8 DEF Failing, g
  <1>11. StackInv(t) /\ Exact(t, conn, lost) /\ WorkInv(t, conn, lost)
    BY <1>3, <1>9, AlikePage DEF Exact
  <1> QED BY <1>2, <1>3, <1>4, <1>8, <1>10, <1>11 DEF Core, IDs

\* An exception or an abort is thrown, or the aborted page ends.
LEMMA ThrowCore ==
  ASSUME Core, Side, (\E id \in IDs : EvalThrow(id)) \/ EvalAbort \/ PageAborted
  PROVE  Core'
  <1>1. /\ UNCHANGED <<page, conn, lost, late>>
        /\ exc # "positive"
        /\ exc' \in IDs \union {"none", "abort"} /\ (exc' \in IDs => InTry(page))
    BY DEF EvalThrow, EvalAbort, PageAborted, Running, IDs
  <1> QED BY <1>1 DEF Core

(***************************************************************************)
(* The rest of the state, and the theorems                                 *)
(***************************************************************************)

\* Nothing is being expanded, and nothing is connected.
LEMMA IdleCore ==
  ASSUME NEW s, s = <<>>, NEW cs, cs = [c \in Conn |-> Unused],
         NEW l, l = [c \in Conn |-> 0]
  PROVE  /\ s \in Seq(Frames) /\ Len(s) <= MaxDepth
         /\ cs \in [Conn -> ConnRecord] /\ l \in [Conn -> Nat]
         /\ StackInv(s) /\ Failing(s) = {} /\ Exact(s, cs, l) /\ WorkInv(s, cs, l)
  <1>1. s \in Seq(Frames) /\ Len(s) = 0 /\ DOMAIN s = {}
    OBVIOUS
  <1>2. \A c : HoldersIn(s, c) = {} /\ Counted(s, c) = 0
    <2>1. \A c : HoldersIn(s, c) = {}
      BY <1>1 DEF HoldersIn
    <2> QED BY <2>1, FS_EmptySet DEF Counted
  <1>3. \A c \in Conn : cs[c] = Unused /\ l[c] = 0
    OBVIOUS
  <1>4. Unused \in ConnRecord /\ Unused.refs = 0 /\ Unused.state = "unused" /\ ~Unused.work
    BY DEF Unused, ConnRecord
  <1>5. \A c \in Conn : c # None
    BY SqlAssumption DEF SqlAssumption
  <1>6. Exact(s, cs, l)
    <2>1. \A c \in Conn : cs[c].refs = 0 /\ cs[c].state = "unused" /\ Counted(s, c) = 0
      BY <1>2, <1>3, <1>4
    <2> QED BY <1>3, <1>5, <2>1 DEF Exact, ExactBut
  <1>7. WorkInv(s, cs, l)
    BY <1>3, <1>4 DEF WorkInv
  <1>8. StackInv(s) /\ Failing(s) = {}
    BY <1>1 DEF StackInv, Failing
  <1>9. cs \in [Conn -> ConnRecord] /\ l \in [Conn -> Nat]
    BY <1>4
  <1> QED BY <1>1, <1>6, <1>7, <1>8, <1>9, SqlAssumption DEF SqlAssumption

LEMMA InitInv == Init => IInv
  <1> SUFFICES ASSUME Init PROVE IInv
    OBVIOUS
  <1>1. Core
    BY IdleCore DEF Core, Init, IDs
  <1>2. Side
    BY SqlAssumption DEF Side, Init, FailureRollsBack, SqlAssumption
  <1> QED BY <1>1, <1>2 DEF IInv

\* What the end of a transaction decides
LEMMA EndedSide ==
  ASSUME Core, Side, TransDone \/ TransFailed
  PROVE  Side'
  <1>1. PICK ok \in BOOLEAN :
          /\ page # <<>> /\ Top.kind = "trans" /\ (Top.failed => ~ok)
          /\ EndTrans(Top, ok) /\ UNCHANGED <<lost, aborts>>
    <2>1. CASE TransDone
      <3>1. page # <<>> /\ Top.kind = "trans" /\ EndTrans(Top, Top.ok) /\ exc = "none"
        BY <2>1 DEF TransDone, Running
      <3>2. Top \in Frames /\ DOMAIN page = DOMAIN Below \union {Len(page)}
        BY <3>1, PopCore
      <3>3. Top.ok \in BOOLEAN
        BY <3>1, <3>2, FrameKinds
      <3>4. ~Top.failed
        BY <3>1, <3>2 DEF Core, Failing, Top
      <3> QED BY <2>1, <3>1, <3>3, <3>4 DEF TransDone
    <2>2. CASE TransFailed
      BY <2>2 DEF TransFailed
    <2> QED BY <2>1, <2>2
  <1>2. Top.failed \in BOOLEAN
    BY <1>1, PopCore, FrameKinds
  <1>3. PICK refused \in BOOLEAN, working \in SUBSET Conn :
          ended' = [ok |-> ok, failed |-> Top.failed, refused |-> refused,
                    committed |-> ok /\ working # {}, undone |-> ~ok /\ working # {}]
    <2>1. PICK r \in SUBSET Pooled(Top) :
            ended' = [ok |-> ok, failed |-> Top.failed, refused |-> r # {},
                      committed |-> ok /\ {c \in Pooled(Top) \ r : conn[c].work} # {},
                      undone |-> ~ok /\ {c \in Pooled(Top) \ r : conn[c].work} # {}]
      BY <1>1 DEF EndTrans
    <2>2. Pooled(Top) \subseteq Conn
      <3>1. Top.pool \in [Dsn -> Conn \union {None}]
        BY <1>1, PopCore, FrameKinds
      <3> QED BY <3>1 DEF Pooled
    <2>3. {c \in Pooled(Top) \ r : conn[c].work} \in SUBSET Conn /\ (r # {}) \in BOOLEAN
      BY <2>2
    <2> QED BY <2>1, <2>3
  <1>4. /\ ended' \in [ok : BOOLEAN, failed : BOOLEAN, refused : BOOLEAN,
                       committed : BOOLEAN, undone : BOOLEAN]
        /\ ended'.failed = Top.failed /\ ended'.ok = ok
        /\ ended'.committed = (ok /\ working # {}) /\ ended'.undone = (~ok /\ working # {})
    BY <1>2, <1>3
  <1>5. FailureRollsBack'
    BY <1>1, <1>4 DEF FailureRollsBack
  <1>6. (ended'.committed => ended'.ok) /\ ~(ended'.committed /\ ended'.undone)
    BY <1>4
  <1> QED BY <1>1, <1>4, <1>5, <1>6 DEF Side

LEMMA NextInv == IInv /\ [Next]_vars => IInv'
  <1> SUFFICES ASSUME Core, Side, [Next]_vars PROVE Core' /\ Side'
    BY DEF IInv
  <1>1. ASSUME NEW d \in Dsn, EvalSql(d) PROVE Core' /\ Side'
    <2>1. Core'
      BY <1>1, EvalSqlCore
    <2>2. UNCHANGED <<lost, aborts, ended>>
      BY <1>1 DEF EvalSql
    <2> QED BY <2>1, <2>2 DEF Side, FailureRollsBack
  <1>2. ASSUME NEW d \in Dsn, ConnectDies(d) PROVE Core' /\ Side'
    <2>1. /\ page' = <<>> /\ conn' = [c \in Conn |-> Unused] /\ lost' = [c \in Conn |-> 0]
          /\ exc = "none" /\ UNCHANGED <<exc, aborts, late, ended>>
      BY <1>2 DEF ConnectDies, Running
    <2>2. Core'
      BY <2>1, IdleCore DEF Core, IDs
    <2>3. lost' \in [Conn -> Nat]
      BY <2>1
    <2> QED BY <2>1, <2>2, <2>3 DEF Side, FailureRollsBack
  <1>3. ASSUME RowsDone \/ RowsFailed PROVE Core' /\ Side'
    <2>1. UNCHANGED <<lost, aborts, ended>>
      BY <1>3 DEF RowsDone, RowsFailed
    <2> QED BY <1>3, <2>1, RowsDoneCore DEF Side, FailureRollsBack
  <1>4. ASSUME RowsAborted \/ TransAborted \/ TextAborted PROVE Core' /\ Side'
    <2>1. UNCHANGED <<aborts, ended>>
      BY <1>4 DEF RowsAborted, TransAborted, TextAborted
    <2>2. Core' /\ lost' \in [Conn -> Nat]
      BY <1>4, AbortedCore
    <2> QED BY <2>1, <2>2 DEF Side, FailureRollsBack
  <1>5. ASSUME TransDone \/ TransFailed PROVE Core' /\ Side'
    BY <1>5, EndTransCore, EndedSide
  <1>6. ASSUME TextDone \/ Catch \/ SafeCaught \/ SafePassed PROVE Core' /\ Side'
    <2>1. Core'
      BY <1>6, TextDoneCore, CaughtCore, SafePassedCore
    <2>2. UNCHANGED <<lost, aborts, ended>>
      BY <1>6 DEF TextDone, Catch, SafeCaught, SafePassed
    <2> QED BY <2>1, <2>2 DEF Side, FailureRollsBack
  <1>7. ASSUME BeginTrans \/ BeginTry \/ BeginSafe \/ Rollback PROVE Core' /\ Side'
    <2>1. Core'
      BY <1>7, BeginCore, RollbackCore
    <2>2. UNCHANGED <<lost, aborts, ended>>
      BY <1>7 DEF BeginTrans, BeginTry, BeginSafe, Rollback
    <2> QED BY <2>1, <2>2 DEF Side, FailureRollsBack
  <1>8. ASSUME (\E id \in IDs : EvalThrow(id)) \/ EvalAbort \/ PageAborted PROVE Core' /\ Side'
    <2>1. Core'
      BY <1>8, ThrowCore
    <2>2. UNCHANGED <<lost, ended>> /\ aborts' \in 0 .. MaxAborts
      <3>1. aborts \in 0 .. MaxAborts /\ MaxAborts \in Nat
        BY SqlAssumption DEF Side, SqlAssumption
      <3> QED BY <1>8, <3>1 DEF EvalThrow, EvalAbort, PageAborted
    <2> QED BY <2>1, <2>2 DEF Side, FailureRollsBack
  <1>9. ASSUME UNCHANGED vars PROVE Core' /\ Side'
    BY <1>9 DEF vars, Core, Side, FailureRollsBack
  <1> QED BY <1>1, <1>2, <1>3, <1>4, <1>5, <1>6, <1>7, <1>8, <1>9 DEF Next

LEMMA Invariant == Spec => []IInv
  BY InitInv, NextInv, PTL DEF Spec

LEMMA ExactNow ==
  ASSUME IInv, NEW c \in Conn
  PROVE  /\ conn[c].refs = Cardinality(Holders(c)) + lost[c]
         /\ conn[c].state = "unused" <=> conn[c].refs = 0
  <1>1. /\ conn[c].refs = Counted(page, c) + lost[c] + 0
        /\ conn[c].state = "unused" <=> conn[c].refs = 0
    BY SqlAssumption DEF IInv, Core, Exact, ExactBut, SqlAssumption
  <1>2. Counted(page, c) \in Nat /\ lost[c] \in Nat
    BY HoldersFinite DEF IInv, Core, Side
  <1>3. Counted(page, c) = Cardinality(Holders(c))
    BY DEF Counted, HoldersIn, Holders
  <1> QED BY <1>1, <1>2, <1>3

\* Whatever is nested in whatever, an exception is on its way only where a try or a
\* transaction waits for it (sql.cpp:1136).
THEOREM TypeCorrect == Spec => []TypeOK
  <1>1. IInv => TypeOK
    BY DEF IInv, Core, Side, TypeOK, ConnRecord
  <1> QED BY <1>1, Invariant, PTL

\* A connection has as many references as queries and pools have it and aborts have left
\* behind (sql.cpp:100).
THEOREM CountsExact == Spec => []RefsExact
  <1>1. IInv => RefsExact
    BY ExactNow DEF RefsExact
  <1> QED BY <1>1, Invariant, PTL

\* The statement of a query in a transaction is freed while its connection is open
\* (sql.cpp:875).
THEOREM StatementsFirst == Spec => []PooledStmtFirst
  <1>1. IInv => PooledStmtFirst
    BY DEF IInv, Core, PooledStmtFirst
  <1> QED BY <1>1, Invariant, PTL

\* A transaction with a failed query is not committed (sql.cpp:1142), unless a try in it
\* caught the error or a safe-expand in it printed it (qctx.cpp:255).
THEOREM FailuresRollBack == Spec => []FailureRollsBack
  <1>1. IInv => FailureRollsBack
    BY DEF IInv, Side
  <1> QED BY <1>1, Invariant, PTL

\* A transaction commits everything or nothing, and aborts alone leave work undecided
\* (sql.cpp:328).
THEOREM AllOrNothing == Spec => []WorkDecided
  <1>1. IInv => WorkDecided
    BY DEF IInv, Core, Side, WorkInv, WorkDecided
  <1> QED BY <1>1, Invariant, PTL

====
