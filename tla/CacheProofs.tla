----------------------------- MODULE CacheProofs -----------------------------
(***************************************************************************)
(* The safety properties of Cache, for any number of threads and any       *)
(* bounds.                                                                 *)
(*                                                                         *)
(* A step changes the page of one thread, and so each of the numbers that  *)
(* the counts are made of by one at most.  Freshness follows the content   *)
(* from the thread that read it to the entry it maps.                      *)
(***************************************************************************)
EXTENDS Cache, FiniteSetTheorems, TLAPS

TimedRecord == [refs : Nat, time : Nat]
ModuleRecord == [refs : Nat, content : 0 .. MaxWrites]
PageRecord ==
  [pc : {"idle", "open", "found", "read", "map", "copy", "class", "pointer"},
   obj : Obj \union {None}, found : BOOLEAN, read : 0 .. MaxWrites, torn : BOOLEAN]

\* What a page counts for
IsOpener(r, o) == r.obj = o /\ r.pc = "open"
IsFinder(r, o) == r.obj = o /\ r.found
IsTaker(r, o) == r.obj = o /\ r.found /\ r.pc # "found"
IsClass(r, o) == r.obj = o /\ r.pc = "class"

Opens(p, o) == Cardinality({t \in Thread : IsOpener(p[t], o)})
Finds(p, o) == Cardinality({t \in Thread : IsFinder(p[t], o)})
Takes(p, o) == Cardinality({t \in Thread : IsTaker(p[t], o)})
Classes(p, o) == Cardinality({t \in Thread : IsClass(p[t], o)})

\* Where a page has an object
PageOK(r) ==
  /\ r.pc \in {"idle", "read", "map"} => r.obj = None
  /\ r.pc \in {"found", "copy", "class", "pointer"} => r.obj \in Obj
  /\ r.found => r.pc \in {"found", "copy", "class", "pointer"}
  /\ r.pc = "found" => r.found

PagesOK == page \in [Thread -> PageRecord] /\ \A t \in Thread : PageOK(page[t])

TimedCount(o) ==
  timed[o].refs = One(entry = o) + Opens(page, o) + Finds(page, o) + leaked[o]

ModuleCount(o) ==
  module[o].refs = One(timed[o].refs > 0) + Takes(page, o) + Classes(page, o)

CountInv == \A o \in Obj : TimedCount(o) /\ ModuleCount(o)

\* No object is newer than the file; what a thread read undisturbed is in the file; and
\* FreshUnlessTorn, of a file that was removed too.
FreshInv ==
  /\ \A o \in Obj : timed[o].time <= mtime
  /\ \A t \in Thread : page[t].pc = "map" /\ ~page[t].torn => page[t].read = content
  /\ entry # None /\ timed[entry].time = mtime =>
       module[entry].content = content \/ entry \in torn

IInv == TypeOK /\ PagesOK /\ CountInv /\ FreshInv

(***************************************************************************)
(* Numbers                                                                 *)
(***************************************************************************)

\* Sets that differ in one element at most
LEMMA OneApart ==
  ASSUME NEW S, NEW R, NEW t, IsFiniteSet(S), R \ {t} = S \ {t}
  PROVE  /\ Cardinality(S) \in Nat /\ Cardinality(R) \in Nat
         /\ Cardinality(R) + One(t \in S) = Cardinality(S) + One(t \in R)
         /\ t \in S => Cardinality(S) >= 1
  <1> DEFINE D == S \ {t}
  <1>1. IsFiniteSet(D) /\ Cardinality(D) = IF t \in S THEN Cardinality(S) - 1 ELSE Cardinality(S)
    BY FS_RemoveElement
  <1>2. t \notin D
    OBVIOUS
  <1>3. S = (IF t \in S THEN D \union {t} ELSE D) /\ R = (IF t \in R THEN D \union {t} ELSE D)
    OBVIOUS
  <1> HIDE DEF D
  <1>4. IsFiniteSet(D \union {t}) /\ Cardinality(D \union {t}) = Cardinality(D) + 1
    BY <1>1, <1>2, FS_AddElement
  <1>5. Cardinality(D) \in Nat
    BY <1>1, FS_CardinalityType
  <1>6. Cardinality(S) = Cardinality(D) + One(t \in S)
    BY <1>3, <1>4, <1>5 DEF One
  <1>7. Cardinality(R) = Cardinality(D) + One(t \in R)
    BY <1>3, <1>4, <1>5 DEF One
  <1> QED BY <1>5, <1>6, <1>7 DEF One

\* The page of t becomes r.
LEMMA PageCounts ==
  ASSUME NEW p \in [Thread -> PageRecord], NEW q \in [Thread -> PageRecord], NEW t \in Thread,
         \A u \in Thread \ {t} : q[u] = p[u],
         NEW o
  PROVE  /\ Opens(p, o) \in Nat /\ Opens(q, o) \in Nat
         /\ Opens(q, o) + One(IsOpener(p[t], o)) = Opens(p, o) + One(IsOpener(q[t], o))
         /\ IsOpener(p[t], o) => Opens(p, o) >= 1
         /\ Finds(p, o) \in Nat /\ Finds(q, o) \in Nat
         /\ Finds(q, o) + One(IsFinder(p[t], o)) = Finds(p, o) + One(IsFinder(q[t], o))
         /\ IsFinder(p[t], o) => Finds(p, o) >= 1
         /\ Takes(p, o) \in Nat /\ Takes(q, o) \in Nat
         /\ Takes(q, o) + One(IsTaker(p[t], o)) = Takes(p, o) + One(IsTaker(q[t], o))
         /\ IsTaker(p[t], o) => Takes(p, o) >= 1
         /\ Classes(p, o) \in Nat /\ Classes(q, o) \in Nat
         /\ Classes(q, o) + One(IsClass(p[t], o)) = Classes(p, o) + One(IsClass(q[t], o))
         /\ IsClass(p[t], o) => Classes(p, o) >= 1
  <1>1. IsFiniteSet(Thread)
    BY CacheAssumption DEF CacheAssumption
  <1>2. /\ Opens(p, o) \in Nat /\ Opens(q, o) \in Nat
        /\ Opens(q, o) + One(IsOpener(p[t], o)) = Opens(p, o) + One(IsOpener(q[t], o))
        /\ IsOpener(p[t], o) => Opens(p, o) >= 1
    <2> DEFINE S == {u \in Thread : IsOpener(p[u], o)}
               R == {u \in Thread : IsOpener(q[u], o)}
    <2>1. IsFiniteSet(S) /\ R \ {t} = S \ {t}
      BY <1>1, FS_Subset
    <2>2. (t \in S <=> IsOpener(p[t], o)) /\ (t \in R <=> IsOpener(q[t], o))
      OBVIOUS
    <2>3. Opens(p, o) = Cardinality(S) /\ Opens(q, o) = Cardinality(R)
      BY DEF Opens
    <2> HIDE DEF S, R
    <2>4. /\ Cardinality(S) \in Nat /\ Cardinality(R) \in Nat
          /\ Cardinality(R) + One(t \in S) = Cardinality(S) + One(t \in R)
          /\ t \in S => Cardinality(S) >= 1
      BY <2>1, OneApart
    <2> QED BY <2>2, <2>3, <2>4 DEF One
  <1>3. /\ Finds(p, o) \in Nat /\ Finds(q, o) \in Nat
        /\ Finds(q, o) + One(IsFinder(p[t], o)) = Finds(p, o) + One(IsFinder(q[t], o))
        /\ IsFinder(p[t], o) => Finds(p, o) >= 1
    <2> DEFINE S == {u \in Thread : IsFinder(p[u], o)}
               R == {u \in Thread : IsFinder(q[u], o)}
    <2>1. IsFiniteSet(S) /\ R \ {t} = S \ {t}
      BY <1>1, FS_Subset
    <2>2. (t \in S <=> IsFinder(p[t], o)) /\ (t \in R <=> IsFinder(q[t], o))
      OBVIOUS
    <2>3. Finds(p, o) = Cardinality(S) /\ Finds(q, o) = Cardinality(R)
      BY DEF Finds
    <2> HIDE DEF S, R
    <2>4. /\ Cardinality(S) \in Nat /\ Cardinality(R) \in Nat
          /\ Cardinality(R) + One(t \in S) = Cardinality(S) + One(t \in R)
          /\ t \in S => Cardinality(S) >= 1
      BY <2>1, OneApart
    <2> QED BY <2>2, <2>3, <2>4 DEF One
  <1>4. /\ Takes(p, o) \in Nat /\ Takes(q, o) \in Nat
        /\ Takes(q, o) + One(IsTaker(p[t], o)) = Takes(p, o) + One(IsTaker(q[t], o))
        /\ IsTaker(p[t], o) => Takes(p, o) >= 1
    <2> DEFINE S == {u \in Thread : IsTaker(p[u], o)}
               R == {u \in Thread : IsTaker(q[u], o)}
    <2>1. IsFiniteSet(S) /\ R \ {t} = S \ {t}
      BY <1>1, FS_Subset
    <2>2. (t \in S <=> IsTaker(p[t], o)) /\ (t \in R <=> IsTaker(q[t], o))
      OBVIOUS
    <2>3. Takes(p, o) = Cardinality(S) /\ Takes(q, o) = Cardinality(R)
      BY DEF Takes
    <2> HIDE DEF S, R
    <2>4. /\ Cardinality(S) \in Nat /\ Cardinality(R) \in Nat
          /\ Cardinality(R) + One(t \in S) = Cardinality(S) + One(t \in R)
          /\ t \in S => Cardinality(S) >= 1
      BY <2>1, OneApart
    <2> QED BY <2>2, <2>3, <2>4 DEF One
  <1>5. /\ Classes(p, o) \in Nat /\ Classes(q, o) \in Nat
        /\ Classes(q, o) + One(IsClass(p[t], o)) = Classes(p, o) + One(IsClass(q[t], o))
        /\ IsClass(p[t], o) => Classes(p, o) >= 1
    <2> DEFINE S == {u \in Thread : IsClass(p[u], o)}
               R == {u \in Thread : IsClass(q[u], o)}
    <2>1. IsFiniteSet(S) /\ R \ {t} = S \ {t}
      BY <1>1, FS_Subset
    <2>2. (t \in S <=> IsClass(p[t], o)) /\ (t \in R <=> IsClass(q[t], o))
      OBVIOUS
    <2>3. Classes(p, o) = Cardinality(S) /\ Classes(q, o) = Cardinality(R)
      BY DEF Classes
    <2> HIDE DEF S, R
    <2>4. /\ Cardinality(S) \in Nat /\ Cardinality(R) \in Nat
          /\ Cardinality(R) + One(t \in S) = Cardinality(S) + One(t \in R)
          /\ t \in S => Cardinality(S) >= 1
      BY <2>1, OneApart
    <2> QED BY <2>2, <2>3, <2>4 DEF One
  <1> QED BY <1>2, <1>3, <1>4, <1>5

LEMMA Typed ==
  ASSUME TypeOK
  PROVE  /\ timed \in [Obj -> TimedRecord] /\ module \in [Obj -> ModuleRecord]
         /\ page \in [Thread -> PageRecord] /\ leaked \in [Obj -> Nat]
         /\ \A o \in Obj : /\ timed[o].refs \in Nat /\ timed[o].time \in Nat
                           /\ module[o].refs \in Nat /\ leaked[o] \in Nat
  <1>1. /\ timed \in [Obj -> TimedRecord] /\ module \in [Obj -> ModuleRecord]
        /\ page \in [Thread -> PageRecord] /\ leaked \in [Obj -> 0 .. MaxLeaks]
    BY DEF TypeOK, TimedRecord, ModuleRecord, PageRecord
  <1>2. leaked \in [Obj -> Nat]
    BY <1>1, CacheAssumption DEF CacheAssumption
  <1> QED BY <1>1, <1>2 DEF TimedRecord, ModuleRecord

LEMMA FreeIs ==
  ASSUME NEW ms \in [Obj -> ModuleRecord], NEW o \in Obj
  PROVE  /\ Free(ms, o) \in [Obj -> ModuleRecord]
         /\ Free(ms, o)[o].refs = (IF ms[o].refs = 0 THEN 0 ELSE ms[o].refs - 1)
         /\ Free(ms, o)[o].content = ms[o].content
         /\ \A x \in Obj \ {o} : Free(ms, o)[x] = ms[x]
  <1> DEFINE m == ms[o]
             n == [m EXCEPT !.refs = IF @ = 0 THEN 0 ELSE @ - 1]
  <1>1. m \in ModuleRecord /\ Free(ms, o) = [ms EXCEPT ![o] = n]
    BY DEF Free
  <1> HIDE DEF m
  <1>2. /\ n \in ModuleRecord /\ n.refs = (IF m.refs = 0 THEN 0 ELSE m.refs - 1)
        /\ n.content = m.content
    BY <1>1 DEF ModuleRecord
  <1> HIDE DEF n
  <1>3. /\ [ms EXCEPT ![o] = n] \in [Obj -> ModuleRecord] /\ [ms EXCEPT ![o] = n][o] = n
        /\ \A x \in Obj \ {o} : [ms EXCEPT ![o] = n][x] = ms[x]
    BY <1>2
  <1> QED BY <1>1, <1>2, <1>3 DEF m

LEMMA FreeTimedIs ==
  ASSUME NEW ts \in [Obj -> TimedRecord], NEW ms \in [Obj -> ModuleRecord], NEW o \in Obj,
         ts[o].refs >= 1, FreeTimed(ts, ms, o)
  PROVE  /\ timed' \in [Obj -> TimedRecord] /\ module' \in [Obj -> ModuleRecord]
         /\ timed'[o].refs = ts[o].refs - 1 /\ timed'[o].time = ts[o].time
         /\ \A x \in Obj \ {o} : timed'[x] = ts[x] /\ module'[x] = ms[x]
         /\ module'[o].refs = (IF ts[o].refs = 1 /\ ms[o].refs # 0 THEN ms[o].refs - 1
                               ELSE ms[o].refs)
         /\ module'[o].content = ms[o].content
  <1> DEFINE h == ts[o]
             n == [h EXCEPT !.refs = @ - 1]
  <1>1. h \in TimedRecord /\ h.refs >= 1 /\ timed' = [ts EXCEPT ![o] = n]
    BY DEF FreeTimed
  <1>2. module' = IF h.refs = 1 THEN Free(ms, o) ELSE ms
    BY DEF FreeTimed
  <1> HIDE DEF h
  <1>3. n \in TimedRecord /\ n.refs = h.refs - 1 /\ n.time = h.time
    BY <1>1 DEF TimedRecord
  <1> HIDE DEF n
  <1>4. timed' \in [Obj -> TimedRecord] /\ timed'[o] = n /\ \A x \in Obj \ {o} : timed'[x] = ts[x]
    BY <1>1, <1>3
  <1>5. /\ module' \in [Obj -> ModuleRecord]
        /\ module'[o].refs = (IF h.refs = 1 /\ ms[o].refs # 0 THEN ms[o].refs - 1 ELSE ms[o].refs)
        /\ module'[o].content = ms[o].content
        /\ \A x \in Obj \ {o} : module'[x] = ms[x]
    <2>1. ms[o].refs \in Nat
      BY DEF ModuleRecord
    <2>2. CASE h.refs = 1
      BY <1>2, <2>1, <2>2, FreeIs
    <2>3. CASE h.refs # 1
      BY <1>2, <2>3
    <2> QED BY <2>2, <2>3
  <1> QED BY <1>3, <1>4, <1>5 DEF h

\* A reference more
LEMMA TakenModule ==
  ASSUME NEW ms \in [Obj -> ModuleRecord], NEW o \in Obj
  PROVE  LET n == [ms EXCEPT ![o].refs = @ + 1] IN
           /\ n \in [Obj -> ModuleRecord] /\ n[o].refs = ms[o].refs + 1
           /\ n[o].content = ms[o].content /\ \A x \in Obj \ {o} : n[x] = ms[x]
  <1> DEFINE m == ms[o]
             k == [m EXCEPT !.refs = @ + 1]
             n == [ms EXCEPT ![o] = k]
  <1>1. m \in ModuleRecord /\ n = [ms EXCEPT ![o].refs = @ + 1]
    OBVIOUS
  <1> HIDE DEF m
  <1>2. k \in ModuleRecord /\ k.refs = m.refs + 1 /\ k.content = m.content
    BY <1>1 DEF ModuleRecord
  <1> HIDE DEF k
  <1>3. n \in [Obj -> ModuleRecord] /\ n[o] = k /\ \A x \in Obj \ {o} : n[x] = ms[x]
    BY <1>2
  <1> QED BY <1>1, <1>2, <1>3 DEF m

LEMMA TakenTimed ==
  ASSUME NEW ts \in [Obj -> TimedRecord], NEW o \in Obj
  PROVE  LET n == [ts EXCEPT ![o].refs = @ + 1] IN
           /\ n \in [Obj -> TimedRecord] /\ n[o].refs = ts[o].refs + 1
           /\ n[o].time = ts[o].time /\ \A x \in Obj \ {o} : n[x] = ts[x]
  <1> DEFINE m == ts[o]
             k == [m EXCEPT !.refs = @ + 1]
             n == [ts EXCEPT ![o] = k]
  <1>1. m \in TimedRecord /\ n = [ts EXCEPT ![o].refs = @ + 1]
    OBVIOUS
  <1> HIDE DEF m
  <1>2. k \in TimedRecord /\ k.refs = m.refs + 1 /\ k.time = m.time
    BY <1>1 DEF TimedRecord
  <1> HIDE DEF k
  <1>3. n \in [Obj -> TimedRecord] /\ n[o] = k /\ \A x \in Obj \ {o} : n[x] = ts[x]
    BY <1>2
  <1> QED BY <1>1, <1>2, <1>3 DEF m

\* The page of t changes in the step, to one that is in order.
Turned(t) ==
  /\ page' \in [Thread -> PageRecord]
  /\ \A u \in Thread \ {t} : page'[u] = page[u]
  /\ PageOK(page'[t])

LEMMA Turn ==
  ASSUME PagesOK, NEW t \in Thread, NEW r \in PageRecord, PageOK(r),
         page' = [page EXCEPT ![t] = r]
  PROVE  Turned(t) /\ page'[t] = r
  BY DEF Turned, PagesOK

\* What remains to be shown of a step that changes the page of t
LEMMA StepInv ==
  ASSUME IInv, NEW t \in Thread, Turned(t),
         UNCHANGED <<exists, content, mtime>>,
         entry' \in Obj \union {None}, lock' \in Thread \union {None}, torn' \subseteq Obj,
         timed' \in [Obj -> TimedRecord], module' \in [Obj -> ModuleRecord],
         leaked' \in [Obj -> 0 .. MaxLeaks],
         CountInv', FreshInv'
  PROVE  IInv'
  <1>1. TypeOK'
    BY DEF IInv, TypeOK, Turned, TimedRecord, ModuleRecord, PageRecord
  <1>2. PagesOK'
    BY DEF IInv, PagesOK, Turned
  <1> QED BY <1>1, <1>2 DEF IInv

\* ... if in addition the entry and the contents and times of objects are left alone
LEMMA SameFresh ==
  ASSUME IInv, NEW t \in Thread, Turned(t),
         UNCHANGED <<exists, content, mtime, entry, torn>>,
         \A o \in Obj : timed'[o].time = timed[o].time /\ module'[o].content = module[o].content,
         page'[t].pc = "map" => page'[t].read = content
  PROVE  FreshInv'
  <1>1. \A u \in Thread : page'[u].pc = "map" /\ ~page'[u].torn => page'[u].read = content
    BY DEF IInv, FreshInv, Turned
  <1>2. entry \in Obj \union {None}
    BY DEF IInv, TypeOK
  <1> QED BY <1>1, <1>2 DEF IInv, FreshInv

(***************************************************************************)
(* Steps                                                                   *)
(***************************************************************************)

\* What the step of t makes of the numbers of an object
LEMMA Counted ==
  ASSUME IInv, NEW t \in Thread, Turned(t), NEW o \in Obj
  PROVE  /\ timed[o].refs = One(entry = o) + Opens(page, o) + Finds(page, o) + leaked[o]
         /\ module[o].refs = One(timed[o].refs > 0) + Takes(page, o) + Classes(page, o)
         /\ timed[o].refs \in Nat /\ module[o].refs \in Nat /\ leaked[o] \in Nat
         /\ Opens(page, o) \in Nat /\ Opens(page', o) \in Nat
         /\ Opens(page', o) + One(IsOpener(page[t], o)) = Opens(page, o) + One(IsOpener(page'[t], o))
         /\ IsOpener(page[t], o) => Opens(page, o) >= 1
         /\ Finds(page, o) \in Nat /\ Finds(page', o) \in Nat
         /\ Finds(page', o) + One(IsFinder(page[t], o)) = Finds(page, o) + One(IsFinder(page'[t], o))
         /\ IsFinder(page[t], o) => Finds(page, o) >= 1
         /\ Takes(page, o) \in Nat /\ Takes(page', o) \in Nat
         /\ Takes(page', o) + One(IsTaker(page[t], o)) = Takes(page, o) + One(IsTaker(page'[t], o))
         /\ IsTaker(page[t], o) => Takes(page, o) >= 1
         /\ Classes(page, o) \in Nat /\ Classes(page', o) \in Nat
         /\ Classes(page', o) + One(IsClass(page[t], o)) = Classes(page, o) + One(IsClass(page'[t], o))
         /\ IsClass(page[t], o) => Classes(page, o) >= 1
  <1>1. page \in [Thread -> PageRecord] /\ page' \in [Thread -> PageRecord]
        /\ \A u \in Thread \ {t} : page'[u] = page[u]
    BY DEF IInv, PagesOK, Turned
  <1>2. TimedCount(o) /\ ModuleCount(o)
    BY DEF IInv, CountInv
  <1>3. timed[o].refs \in Nat /\ module[o].refs \in Nat /\ leaked[o] \in Nat
    BY Typed DEF IInv
  <1> QED BY <1>1, <1>2, <1>3, PageCounts DEF TimedCount, ModuleCount

LEMMA CountedNow ==
  ASSUME IInv, NEW o \in Obj
  PROVE  /\ timed[o].refs = One(entry = o) + Opens(page, o) + Finds(page, o) + leaked[o]
         /\ module[o].refs = One(timed[o].refs > 0) + Takes(page, o) + Classes(page, o)
         /\ timed[o].refs \in Nat /\ module[o].refs \in Nat /\ leaked[o] \in Nat
         /\ Opens(page, o) \in Nat /\ Finds(page, o) \in Nat
         /\ Takes(page, o) \in Nat /\ Classes(page, o) \in Nat
  <1>1. TimedCount(o) /\ ModuleCount(o)
    BY DEF IInv, CountInv
  <1>2. timed[o].refs \in Nat /\ module[o].refs \in Nat /\ leaked[o] \in Nat
    BY Typed DEF IInv
  <1>3. IsFiniteSet(Thread)
    BY CacheAssumption DEF CacheAssumption
  <1>4. Opens(page, o) \in Nat
    BY <1>3, FS_Subset, FS_CardinalityType DEF Opens
  <1>5. Finds(page, o) \in Nat
    BY <1>3, FS_Subset, FS_CardinalityType DEF Finds
  <1>6. Takes(page, o) \in Nat
    BY <1>3, FS_Subset, FS_CardinalityType DEF Takes
  <1>7. Classes(page, o) \in Nat
    BY <1>3, FS_Subset, FS_CardinalityType DEF Classes
  <1> QED BY <1>1, <1>2, <1>4, <1>5, <1>6, <1>7 DEF TimedCount, ModuleCount

LEMMA FourZeros ==
  ASSUME NEW a \in Nat, NEW b \in Nat, NEW c \in Nat, NEW d \in Nat, a + b + c + d = 0
  PROVE  a = 0 /\ b = 0 /\ c = 0 /\ d = 0
  OBVIOUS

\* Nobody uses a module without references.
LEMMA Unused ==
  ASSUME IInv, NEW o \in Obj, module[o].refs = 0
  PROVE  /\ timed[o].refs = 0 /\ entry # o /\ leaked[o] = 0
         /\ Opens(page, o) = 0 /\ Finds(page, o) = 0
         /\ Takes(page, o) = 0 /\ Classes(page, o) = 0
  <1> DEFINE h == timed[o].refs
             m == module[o].refs
             a == One(entry = o)
             b == One(h > 0)
  <1>1. a \in {0, 1} /\ b \in {0, 1} /\ (entry = o => a = 1) /\ (h > 0 => b = 1)
    BY DEF One
  <1>2. /\ h = a + Opens(page, o) + Finds(page, o) + leaked[o]
        /\ m = b + Takes(page, o) + Classes(page, o) /\ m = 0
        /\ h \in Nat /\ leaked[o] \in Nat
        /\ Opens(page, o) \in Nat /\ Finds(page, o) \in Nat
        /\ Takes(page, o) \in Nat /\ Classes(page, o) \in Nat
    <2>1. /\ timed[o].refs = One(entry = o) + Opens(page, o) + Finds(page, o) + leaked[o]
          /\ module[o].refs = One(timed[o].refs > 0) + Takes(page, o) + Classes(page, o)
      BY CountedNow
    <2>2. /\ timed[o].refs \in Nat /\ leaked[o] \in Nat
          /\ Opens(page, o) \in Nat /\ Finds(page, o) \in Nat
          /\ Takes(page, o) \in Nat /\ Classes(page, o) \in Nat
      BY CountedNow
    <2>3. m = 0
      OBVIOUS
    <2>4. /\ h = a + Opens(page, o) + Finds(page, o) + leaked[o]
          /\ m = b + Takes(page, o) + Classes(page, o)
      BY <2>1
    <2> QED BY <2>2, <2>3, <2>4
  <1> HIDE DEF a, b, h, m
  <1>3. b = 0 /\ Takes(page, o) = 0 /\ Classes(page, o) = 0
    BY <1>1, <1>2
  <1>4. h = 0
    BY <1>1, <1>2, <1>3
  <1>5. a = 0 /\ Opens(page, o) = 0 /\ Finds(page, o) = 0 /\ leaked[o] = 0
    <2>1. a \in Nat
      BY <1>1
    <2> QED BY <1>2, <1>4, <2>1, FourZeros
  <1>6. entry # o
    BY <1>1, <1>5
  <1> QED BY <1>3, <1>4, <1>5, <1>6 DEF h

LEMMA Now ==
  ASSUME IInv, NEW t \in Thread
  PROVE  /\ page[t] \in PageRecord /\ PageOK(page[t])
         /\ entry \in Obj \union {None} /\ lock \in Thread \union {None} /\ torn \subseteq Obj
         /\ timed \in [Obj -> TimedRecord] /\ module \in [Obj -> ModuleRecord]
         /\ leaked \in [Obj -> 0 .. MaxLeaks] /\ PagesOK
         /\ content \in 0 .. MaxWrites
         /\ None \notin Obj /\ 0 \in 0 .. MaxWrites
  BY Typed, CacheAssumption DEF IInv, PagesOK, TypeOK, CacheAssumption

LEMMA NoPageIs == NoPage \in PageRecord /\ PageOK(NoPage) /\ NoPage.obj = None /\ NoPage.pc = "idle"
  BY CacheAssumption DEF NoPage, PageRecord, PageOK, CacheAssumption

LEMMA LookupInv ==
  ASSUME IInv, NEW t \in Thread, Lookup(t)
  PROVE  IInv'
  <1> DEFINE r == [NoPage EXCEPT !.pc = "open", !.obj = entry]
  <1>1. /\ page[t].pc = "idle" /\ page' = [page EXCEPT ![t] = r]
        /\ UNCHANGED <<exists, content, mtime, entry, module, leaked, torn>>
        /\ IF entry = None THEN UNCHANGED <<lock, timed>>
           ELSE lock' = t /\ timed' = [timed EXCEPT ![entry].refs = @ + 1]
    BY DEF Lookup, At
  <1>2. r \in PageRecord /\ PageOK(r) /\ r.obj = entry /\ r.pc = "open" /\ ~r.found
    BY Now DEF NoPage, PageRecord, PageOK
  <1> HIDE DEF r
  <1>3. Turned(t) /\ page'[t] = r
    BY <1>1, <1>2, Now, Turn
  <1>4. /\ timed' \in [Obj -> TimedRecord]
        /\ \A o \in Obj : /\ timed'[o].refs = timed[o].refs + One(o = entry)
                          /\ timed'[o].time = timed[o].time
    <2>1. CASE entry = None
      BY <1>1, <2>1, Now, Typed DEF IInv, One
    <2>2. CASE entry \in Obj
      <3>1. entry # None /\ timed' = [timed EXCEPT ![entry].refs = @ + 1]
        BY <1>1, <2>2, Now
      <3>2. /\ timed' \in [Obj -> TimedRecord] /\ timed'[entry].refs = timed[entry].refs + 1
            /\ timed'[entry].time = timed[entry].time /\ \A x \in Obj \ {entry} : timed'[x] = timed[x]
        BY <2>2, <3>1, TakenTimed, Now
      <3> QED BY <2>2, <3>2, Typed DEF IInv, One
    <2> QED BY <2>1, <2>2, Now
  <1>5. page[t].obj = None /\ ~page[t].found
    BY <1>1, Now DEF PageOK
  <1>6. CountInv'
    <2> SUFFICES ASSUME NEW o \in Obj PROVE TimedCount(o)' /\ ModuleCount(o)'
      BY DEF CountInv
    <2>1. /\ ~IsOpener(page[t], o) /\ ~IsFinder(page[t], o) /\ ~IsTaker(page[t], o)
          /\ ~IsClass(page[t], o)
          /\ IsOpener(page'[t], o) <=> o = entry
          /\ ~IsFinder(page'[t], o) /\ ~IsTaker(page'[t], o) /\ ~IsClass(page'[t], o)
      BY <1>1, <1>2, <1>3, <1>5, Now DEF IsOpener, IsFinder, IsTaker, IsClass
    <2>2. /\ Opens(page', o) = Opens(page, o) + One(o = entry)
          /\ Finds(page', o) = Finds(page, o) /\ Takes(page', o) = Takes(page, o)
          /\ Classes(page', o) = Classes(page, o)
          /\ Opens(page', o) \in Nat /\ Finds(page', o) \in Nat
          /\ Takes(page', o) \in Nat /\ Classes(page', o) \in Nat
      BY <1>3, <2>1, Counted DEF One
    <2>3. TimedCount(o)'
      BY <1>1, <1>3, <1>4, <2>2, CountedNow DEF TimedCount, One
    <2>4. ModuleCount(o)'
      BY <1>1, <1>3, <1>4, <2>2, CountedNow DEF ModuleCount, One
    <2> QED BY <2>3, <2>4
  <1>7. FreshInv'
    BY <1>1, <1>2, <1>3, <1>4, SameFresh
  <1>8. entry' \in Obj \union {None} /\ lock' \in Thread \union {None} /\ torn' \subseteq Obj
        /\ module' \in [Obj -> ModuleRecord] /\ leaked' \in [Obj -> 0 .. MaxLeaks]
    BY <1>1, Now
  <1> QED BY <1>1, <1>3, <1>4, <1>6, <1>7, <1>8, StepInv

LEMMA UnlockedIs ==
  ASSUME IInv, NEW t \in Thread, Unlocked(t)
  PROVE  lock' \in Thread \union {None}
  BY Now DEF Unlocked

LEMMA OpenFailsInv ==
  ASSUME IInv, NEW t \in Thread, OpenFails(t)
  PROVE  IInv'
  <1> DEFINE x == page[t].obj
  <1>1. /\ page[t].pc = "open" /\ page' = [page EXCEPT ![t] = NoPage] /\ Unlocked(t)
        /\ UNCHANGED <<exists, content, mtime, entry, timed, module, torn>>
        /\ IF x = None THEN UNCHANGED leaked
           ELSE leaked[x] < MaxLeaks /\ leaked' = [leaked EXCEPT ![x] = @ + 1]
    BY DEF OpenFails, At
  <1>2. Turned(t) /\ page'[t] = NoPage
    BY <1>1, NoPageIs, Now, Turn
  <1>3. x \in Obj \union {None} /\ ~page[t].found
    BY <1>1, Now DEF PageRecord, PageOK
  <1> HIDE DEF x
  <1>4. /\ leaked' \in [Obj -> 0 .. MaxLeaks]
        /\ \A o \in Obj : leaked'[o] = leaked[o] + One(o = x)
    <2>1. CASE x = None
      BY <1>1, <2>1, Now, Typed DEF IInv, One
    <2>2. CASE x \in Obj
      <3>1. x # None /\ leaked[x] \in 0 .. MaxLeaks /\ leaked[x] < MaxLeaks /\ MaxLeaks \in Nat
        BY <1>1, <2>2, Now, CacheAssumption DEF CacheAssumption
      <3>2. leaked[x] + 1 \in 0 .. MaxLeaks
        BY <3>1
      <3> QED BY <1>1, <2>2, <3>1, <3>2, Now, Typed DEF IInv, One
    <2> QED BY <1>3, <2>1, <2>2
  <1>5. CountInv'
    <2> SUFFICES ASSUME NEW o \in Obj PROVE TimedCount(o)' /\ ModuleCount(o)'
      BY DEF CountInv
    <2>1. /\ IsOpener(page[t], o) <=> o = x
          /\ ~IsFinder(page[t], o) /\ ~IsTaker(page[t], o) /\ ~IsClass(page[t], o)
          /\ ~IsOpener(page'[t], o)
          /\ ~IsFinder(page'[t], o) /\ ~IsTaker(page'[t], o) /\ ~IsClass(page'[t], o)
      BY <1>1, <1>2, <1>3, NoPageIs, Now DEF IsOpener, IsFinder, IsTaker, IsClass, x
    <2>2. /\ Opens(page', o) + One(o = x) = Opens(page, o)
          /\ Finds(page', o) = Finds(page, o) /\ Takes(page', o) = Takes(page, o)
          /\ Classes(page', o) = Classes(page, o)
          /\ Opens(page', o) \in Nat /\ Finds(page', o) \in Nat
          /\ Takes(page', o) \in Nat /\ Classes(page', o) \in Nat
      BY <1>2, <2>1, Counted DEF One
    <2>3. TimedCount(o)'
      <3>1. timed[o].refs = One(entry = o) + Opens(page, o) + Finds(page, o) + leaked[o]
            /\ leaked[o] \in Nat /\ Opens(page, o) \in Nat /\ Finds(page, o) \in Nat
        BY CountedNow
      <3>2. leaked'[o] = leaked[o] + One(o = x) /\ timed' = timed /\ entry' = entry
        BY <1>1, <1>4
      <3>3. timed[o].refs = One(entry = o) + Opens(page', o) + Finds(page', o) + leaked'[o]
        BY <2>2, <3>1, <3>2 DEF One
      <3> QED BY <3>2, <3>3 DEF TimedCount
    <2>4. ModuleCount(o)'
      BY <1>1, <1>2, <2>2, CountedNow DEF ModuleCount
    <2> QED BY <2>3, <2>4
  <1>6. FreshInv'
    BY <1>1, <1>2, NoPageIs, SameFresh
  <1>7. entry' \in Obj \union {None} /\ torn' \subseteq Obj
        /\ timed' \in [Obj -> TimedRecord] /\ module' \in [Obj -> ModuleRecord]
    BY <1>1, Now
  <1> QED BY <1>1, <1>2, <1>4, <1>5, <1>6, <1>7, UnlockedIs, StepInv

\* The object that was looked up is of the file's time.
LEMMA OpenFoundInv ==
  ASSUME IInv, NEW t \in Thread, Open(t),
         page[t].obj # None, timed[page[t].obj].time = mtime
  PROVE  IInv'
  <1> DEFINE q == page[t]
             x == q.obj
             r == [q EXCEPT !.pc = "found", !.found = TRUE]
  <1>1. /\ q.pc = "open" /\ page' = [page EXCEPT ![t] = r] /\ Unlocked(t)
        /\ UNCHANGED <<exists, content, mtime, entry, timed, module, leaked, torn>>
    BY Now DEF Open, At
  <1>2. q \in PageRecord /\ PageOK(q) /\ x \in Obj
    BY Now DEF PageRecord
  <1> HIDE DEF q
  <1>3. r \in PageRecord /\ PageOK(r) /\ r.obj = x /\ r.pc = "found" /\ r.found
    BY <1>2 DEF PageRecord, PageOK
  <1> HIDE DEF r
  <1>4. Turned(t) /\ page'[t] = r
    BY <1>1, <1>3, Now, Turn
  <1>5. CountInv'
    <2> SUFFICES ASSUME NEW o \in Obj PROVE TimedCount(o)' /\ ModuleCount(o)'
      BY DEF CountInv
    <2>1. /\ IsOpener(page[t], o) <=> o = x
          /\ ~IsFinder(page[t], o) /\ ~IsTaker(page[t], o) /\ ~IsClass(page[t], o)
          /\ ~IsOpener(page'[t], o) /\ (IsFinder(page'[t], o) <=> o = x)
          /\ ~IsTaker(page'[t], o) /\ ~IsClass(page'[t], o)
      BY <1>1, <1>2, <1>3, <1>4 DEF IsOpener, IsFinder, IsTaker, IsClass, PageOK, q
    <2>2. /\ Opens(page', o) + One(o = x) = Opens(page, o)
          /\ Finds(page', o) = Finds(page, o) + One(o = x) /\ Takes(page', o) = Takes(page, o)
          /\ Classes(page', o) = Classes(page, o)
          /\ Opens(page', o) \in Nat /\ Finds(page', o) \in Nat
          /\ Takes(page', o) \in Nat /\ Classes(page', o) \in Nat
      BY <1>4, <2>1, Counted DEF One
    <2>3. TimedCount(o)'
      BY <1>1, <1>4, <2>2, CountedNow DEF TimedCount, One
    <2>4. ModuleCount(o)'
      BY <1>1, <1>4, <2>2, CountedNow DEF ModuleCount
    <2> QED BY <2>3, <2>4
  <1>6. FreshInv'
    BY <1>1, <1>3, <1>4, SameFresh
  <1>7. entry' \in Obj \union {None} /\ torn' \subseteq Obj /\ leaked' \in [Obj -> 0 .. MaxLeaks]
        /\ timed' \in [Obj -> TimedRecord] /\ module' \in [Obj -> ModuleRecord]
    BY <1>1, Now
  <1> QED BY <1>1, <1>4, <1>5, <1>6, <1>7, UnlockedIs, StepInv

\* It is of another time, or there is none.
LEMMA OpenOtherInv ==
  ASSUME IInv, NEW t \in Thread, Open(t),
         ~(page[t].obj # None /\ timed[page[t].obj].time = mtime)
  PROVE  IInv'
  <1> DEFINE q == page[t]
             x == q.obj
             r == [q EXCEPT !.pc = "read", !.obj = None]
  <1>1. /\ q.pc = "open" /\ page' = [page EXCEPT ![t] = r] /\ Unlocked(t)
        /\ IF x = None THEN UNCHANGED <<timed, module>> ELSE FreeTimed(timed, module, x)
        /\ UNCHANGED <<exists, content, mtime, entry, leaked, torn>>
    BY Now DEF Open, At
  <1>2. q \in PageRecord /\ PageOK(q) /\ x \in Obj \union {None}
    BY Now DEF PageRecord
  <1> HIDE DEF q
  <1>3. r \in PageRecord /\ PageOK(r) /\ r.obj = None /\ r.pc = "read" /\ ~r.found
    BY <1>1, <1>2 DEF PageRecord, PageOK
  <1> HIDE DEF r
  <1>4. Turned(t) /\ page'[t] = r
    BY <1>1, <1>3, Now, Turn
  <1>5. ASSUME NEW o \in Obj
        PROVE  /\ Opens(page', o) + One(o = x) = Opens(page, o)
               /\ Finds(page', o) = Finds(page, o) /\ Takes(page', o) = Takes(page, o)
               /\ Classes(page', o) = Classes(page, o)
               /\ Opens(page', o) \in Nat /\ Finds(page', o) \in Nat
               /\ Takes(page', o) \in Nat /\ Classes(page', o) \in Nat
    <2>1. /\ IsOpener(page[t], o) <=> o = x
          /\ ~IsFinder(page[t], o) /\ ~IsTaker(page[t], o) /\ ~IsClass(page[t], o)
          /\ ~IsOpener(page'[t], o) /\ ~IsFinder(page'[t], o)
          /\ ~IsTaker(page'[t], o) /\ ~IsClass(page'[t], o)
      BY <1>1, <1>2, <1>3, <1>4, Now DEF IsOpener, IsFinder, IsTaker, IsClass, PageOK, q
    <2> QED BY <1>4, <2>1, Counted DEF One
  <1>6. /\ timed' \in [Obj -> TimedRecord] /\ module' \in [Obj -> ModuleRecord]
        /\ \A o \in Obj : timed'[o].time = timed[o].time /\ module'[o].content = module[o].content
        /\ \A o \in Obj \ {x} : timed'[o] = timed[o] /\ module'[o] = module[o]
        /\ x \in Obj => /\ timed[x].refs >= 1 /\ timed'[x].refs = timed[x].refs - 1
                        /\ module'[x].refs = (IF timed[x].refs = 1 /\ module[x].refs # 0
                                              THEN module[x].refs - 1 ELSE module[x].refs)
    <2>1. CASE x = None
      BY <1>1, <2>1, Now
    <2>2. CASE x \in Obj
      <3>1. x # None /\ FreeTimed(timed, module, x)
        BY <1>1, <2>2, Now
      <3>2. Opens(page, x) >= 1
        BY <1>4, <1>5, <2>2, Counted DEF One
      <3>3. timed[x].refs >= 1
        BY <1>4, <2>2, <3>2, Counted DEF One
      <3> QED BY <2>2, <3>1, <3>3, FreeTimedIs, Now
    <2> QED BY <1>2, <2>1, <2>2
  <1>7. CountInv'
    <2> SUFFICES ASSUME NEW o \in Obj PROVE TimedCount(o)' /\ ModuleCount(o)'
      BY DEF CountInv
    <2>1. /\ timed[o].refs = One(entry = o) + Opens(page, o) + Finds(page, o) + leaked[o]
          /\ module[o].refs = One(timed[o].refs > 0) + Takes(page, o) + Classes(page, o)
          /\ timed[o].refs \in Nat /\ module[o].refs \in Nat /\ leaked[o] \in Nat
          /\ Takes(page, o) \in Nat /\ Classes(page, o) \in Nat
      BY CountedNow
    <2>2. /\ Opens(page', o) + One(o = x) = Opens(page, o)
          /\ Finds(page', o) = Finds(page, o) /\ Takes(page', o) = Takes(page, o)
          /\ Classes(page', o) = Classes(page, o)
          /\ Opens(page', o) \in Nat /\ Finds(page', o) \in Nat
      BY <1>5
    <2>3. entry' = entry /\ leaked' = leaked
      BY <1>1
    <2>4. CASE o = x
      <3>1. /\ timed[o].refs >= 1 /\ timed'[o].refs = timed[o].refs - 1
            /\ module'[o].refs = (IF timed[o].refs = 1 /\ module[o].refs # 0
                                  THEN module[o].refs - 1 ELSE module[o].refs)
        BY <1>6, <2>4
      <3>2. timed'[o].refs = One(entry = o) + Opens(page', o) + Finds(page', o) + leaked[o]
        BY <2>1, <2>2, <2>4, <3>1 DEF One
      <3>3. module'[o].refs = One(timed'[o].refs > 0) + Takes(page', o) + Classes(page', o)
        BY <2>1, <2>2, <3>1 DEF One
      <3> QED BY <2>3, <3>2, <3>3 DEF TimedCount, ModuleCount
    <2>5. CASE o # x
      <3>1. timed'[o] = timed[o] /\ module'[o] = module[o]
        BY <1>6, <2>5
      <3>2. timed[o].refs = One(entry = o) + Opens(page', o) + Finds(page', o) + leaked[o]
        BY <2>1, <2>2, <2>5 DEF One
      <3> QED BY <2>1, <2>2, <2>3, <3>1, <3>2 DEF TimedCount, ModuleCount
    <2> QED BY <2>4, <2>5
  <1>8. FreshInv'
    BY <1>1, <1>3, <1>4, <1>6, SameFresh
  <1>9. entry' \in Obj \union {None} /\ torn' \subseteq Obj /\ leaked' \in [Obj -> 0 .. MaxLeaks]
    BY <1>1, Now
  <1> QED BY <1>1, <1>4, <1>6, <1>7, <1>8, <1>9, UnlockedIs, StepInv

\* Steps that change the counts of modules only
LEMMA ModuleStep ==
  ASSUME IInv, NEW t \in Thread, Turned(t),
         UNCHANGED <<exists, content, mtime, entry, lock, timed, leaked, torn>>,
         module' \in [Obj -> ModuleRecord],
         \A o \in Obj : module'[o].content = module[o].content,
         \A o \in Obj : /\ IsOpener(page[t], o) <=> IsOpener(page'[t], o)
                        /\ IsFinder(page[t], o) <=> IsFinder(page'[t], o),
         \A o \in Obj : module'[o].refs + One(IsTaker(page[t], o)) + One(IsClass(page[t], o))
                          = module[o].refs + One(IsTaker(page'[t], o)) + One(IsClass(page'[t], o)),
         page'[t].pc # "map"
  PROVE  IInv'
  <1>1. CountInv'
    <2> SUFFICES ASSUME NEW o \in Obj PROVE TimedCount(o)' /\ ModuleCount(o)'
      BY DEF CountInv
    <2>1. /\ timed[o].refs = One(entry = o) + Opens(page, o) + Finds(page, o) + leaked[o]
          /\ module[o].refs = One(timed[o].refs > 0) + Takes(page, o) + Classes(page, o)
          /\ timed[o].refs \in Nat /\ module[o].refs \in Nat /\ leaked[o] \in Nat
          /\ Takes(page, o) \in Nat /\ Classes(page, o) \in Nat
      BY CountedNow
    <2>2. Opens(page', o) = Opens(page, o) /\ Finds(page', o) = Finds(page, o)
      <3>1. /\ IsOpener(page[t], o) <=> IsOpener(page'[t], o)
            /\ IsFinder(page[t], o) <=> IsFinder(page'[t], o)
        OBVIOUS
      <3>2. /\ One(IsOpener(page[t], o)) = One(IsOpener(page'[t], o))
            /\ One(IsFinder(page[t], o)) = One(IsFinder(page'[t], o))
        BY <3>1 DEF One
      <3>3. /\ Opens(page, o) \in Nat /\ Opens(page', o) \in Nat
            /\ Finds(page, o) \in Nat /\ Finds(page', o) \in Nat
            /\ Opens(page', o) + One(IsOpener(page[t], o)) = Opens(page, o) + One(IsOpener(page'[t], o))
            /\ Finds(page', o) + One(IsFinder(page[t], o)) = Finds(page, o) + One(IsFinder(page'[t], o))
        BY Counted
      <3>4. One(IsOpener(page[t], o)) \in Nat /\ One(IsFinder(page[t], o)) \in Nat
        BY DEF One
      <3> QED BY <3>2, <3>3, <3>4
    <2>3. /\ Takes(page', o) + One(IsTaker(page[t], o)) = Takes(page, o) + One(IsTaker(page'[t], o))
          /\ Classes(page', o) + One(IsClass(page[t], o)) = Classes(page, o) + One(IsClass(page'[t], o))
          /\ Takes(page', o) \in Nat /\ Classes(page', o) \in Nat
      BY Counted
    <2>4. /\ module'[o].refs + One(IsTaker(page[t], o)) + One(IsClass(page[t], o))
               = module[o].refs + One(IsTaker(page'[t], o)) + One(IsClass(page'[t], o))
          /\ module'[o].refs \in Nat
      BY DEF ModuleRecord
    <2>5. module'[o].refs = One(timed[o].refs > 0) + Takes(page', o) + Classes(page', o)
      BY <2>1, <2>3, <2>4 DEF One
    <2>6. TimedCount(o)'
      BY <2>1, <2>2 DEF TimedCount
    <2>7. ModuleCount(o)'
      BY <2>5 DEF ModuleCount
    <2> QED BY <2>6, <2>7
  <1>2. FreshInv'
    BY SameFresh
  <1>3. entry' \in Obj \union {None} /\ lock' \in Thread \union {None} /\ torn' \subseteq Obj
        /\ timed' \in [Obj -> TimedRecord] /\ leaked' \in [Obj -> 0 .. MaxLeaks]
    BY Now
  <1> QED BY <1>1, <1>2, <1>3, StepInv

LEMMA TakeInv ==
  ASSUME IInv, NEW t \in Thread, Take(t)
  PROVE  IInv'
  <1> DEFINE q == page[t]
             x == q.obj
             r == [q EXCEPT !.pc = "copy"]
  <1>1. /\ q.pc = "found" /\ page' = [page EXCEPT ![t] = r]
        /\ module' = [module EXCEPT ![x].refs = @ + 1]
        /\ UNCHANGED <<exists, content, mtime, entry, lock, timed, leaked, torn>>
    BY Now DEF Take, At, Goto
  <1>2. q \in PageRecord /\ PageOK(q) /\ x \in Obj /\ q.found
    BY <1>1, Now DEF PageOK
  <1> HIDE DEF q
  <1>3. r \in PageRecord /\ PageOK(r) /\ r.obj = x /\ r.pc = "copy" /\ r.found
    BY <1>2 DEF PageRecord, PageOK
  <1> HIDE DEF r
  <1>4. Turned(t) /\ page'[t] = r
    BY <1>1, <1>3, Now, Turn
  <1>5. /\ module' \in [Obj -> ModuleRecord] /\ module'[x].refs = module[x].refs + 1
        /\ module'[x].content = module[x].content /\ \A o \in Obj \ {x} : module'[o] = module[o]
    BY <1>1, <1>2, Now, TakenModule
  <1>6. ASSUME NEW o \in Obj
        PROVE  /\ ~IsOpener(page[t], o) /\ ~IsOpener(page'[t], o)
               /\ IsFinder(page[t], o) <=> IsFinder(page'[t], o)
               /\ ~IsTaker(page[t], o) /\ ~IsClass(page[t], o)
               /\ IsTaker(page'[t], o) <=> o = x
               /\ ~IsClass(page'[t], o)
    BY <1>1, <1>2, <1>3, <1>4 DEF IsOpener, IsFinder, IsTaker, IsClass, q
  <1>7. ASSUME NEW o \in Obj
        PROVE  module'[o].refs + One(IsTaker(page[t], o)) + One(IsClass(page[t], o))
                 = module[o].refs + One(IsTaker(page'[t], o)) + One(IsClass(page'[t], o))
    <2>1. module[o].refs \in Nat /\ module'[o].refs = module[o].refs + One(o = x)
      BY <1>2, <1>5, Typed DEF IInv, One
    <2> QED BY <1>6, <2>1 DEF One
  <1>8. \A o \in Obj : module'[o].content = module[o].content
    BY <1>2, <1>5
  <1> QED BY <1>1, <1>3, <1>4, <1>5, <1>6, <1>7, <1>8, ModuleStep

LEMMA ReadInv ==
  ASSUME IInv, NEW t \in Thread, Read(t)
  PROVE  IInv'
  <1> DEFINE q == page[t]
             r == [q EXCEPT !.pc = "map", !.read = content]
  <1>1. /\ q.pc = "read"
        /\ page' = [page EXCEPT ![t] = r] \/ page' = [page EXCEPT ![t] = NoPage]
        /\ UNCHANGED <<exists, content, mtime, entry, lock, timed, module, leaked, torn>>
    BY Now DEF Read, At
  <1>2. q \in PageRecord /\ PageOK(q) /\ content \in 0 .. MaxWrites
    BY Now
  <1> HIDE DEF q
  <1>3. r \in PageRecord /\ PageOK(r) /\ r.obj = None /\ r.read = content /\ ~r.found
    BY <1>1, <1>2 DEF PageRecord, PageOK
  <1> HIDE DEF r
  <1>4. Turned(t) /\ page'[t] \in {r, NoPage}
    <2>1. CASE page' = [page EXCEPT ![t] = r]
      BY <1>3, <2>1, Now, Turn
    <2>2. CASE page' = [page EXCEPT ![t] = NoPage]
      BY <2>2, NoPageIs, Now, Turn
    <2> QED BY <1>1, <2>1, <2>2
  <1>5. page'[t].obj = None /\ page'[t].pc = "map" => page'[t].read = content
    BY <1>3, <1>4, NoPageIs
  <1>6. page'[t].obj = None
    BY <1>3, <1>4, NoPageIs
  <1>7. ASSUME NEW o \in Obj
        PROVE  /\ ~IsOpener(page[t], o) /\ ~IsFinder(page[t], o)
               /\ ~IsTaker(page[t], o) /\ ~IsClass(page[t], o)
               /\ ~IsOpener(page'[t], o) /\ ~IsFinder(page'[t], o)
               /\ ~IsTaker(page'[t], o) /\ ~IsClass(page'[t], o)
    BY <1>1, <1>2, <1>6, Now DEF IsOpener, IsFinder, IsTaker, IsClass, PageOK, q
  <1>8. CountInv'
    <2> SUFFICES ASSUME NEW o \in Obj PROVE TimedCount(o)' /\ ModuleCount(o)'
      BY DEF CountInv
    <2>1. /\ Opens(page', o) = Opens(page, o) /\ Finds(page', o) = Finds(page, o)
          /\ Takes(page', o) = Takes(page, o) /\ Classes(page', o) = Classes(page, o)
      BY <1>4, <1>7, Counted DEF One
    <2> QED BY <1>1, <2>1, CountedNow DEF TimedCount, ModuleCount
  <1>9. FreshInv'
    BY <1>1, <1>4, <1>5, <1>6, SameFresh
  <1>10. entry' \in Obj \union {None} /\ lock' \in Thread \union {None} /\ torn' \subseteq Obj
         /\ timed' \in [Obj -> TimedRecord] /\ module' \in [Obj -> ModuleRecord]
         /\ leaked' \in [Obj -> 0 .. MaxLeaks]
    BY <1>1, Now
  <1> QED BY <1>1, <1>4, <1>8, <1>9, <1>10, StepInv

LEMMA CopyClassInv ==
  ASSUME IInv, NEW t \in Thread, CopyClass(t)
  PROVE  IInv'
  <1> DEFINE q == page[t]
             x == q.obj
             r == [q EXCEPT !.pc = "class"]
  <1>1. /\ q.pc = "copy" /\ page' = [page EXCEPT ![t] = r]
        /\ module' = [module EXCEPT ![x].refs = @ + 1]
        /\ UNCHANGED <<exists, content, mtime, entry, lock, timed, leaked, torn>>
    BY Now DEF CopyClass, At, Goto
  <1>2. q \in PageRecord /\ PageOK(q) /\ x \in Obj
    BY <1>1, Now DEF PageOK
  <1> HIDE DEF q
  <1>3. r \in PageRecord /\ PageOK(r) /\ r.obj = x /\ r.pc = "class" /\ r.found = q.found
    BY <1>2 DEF PageRecord, PageOK
  <1> HIDE DEF r
  <1>4. Turned(t) /\ page'[t] = r
    BY <1>1, <1>3, Now, Turn
  <1>5. /\ module' \in [Obj -> ModuleRecord] /\ module'[x].refs = module[x].refs + 1
        /\ module'[x].content = module[x].content /\ \A o \in Obj \ {x} : module'[o] = module[o]
    BY <1>1, <1>2, Now, TakenModule
  <1>6. ASSUME NEW o \in Obj
        PROVE  /\ ~IsOpener(page[t], o) /\ ~IsOpener(page'[t], o)
               /\ IsFinder(page[t], o) <=> IsFinder(page'[t], o)
               /\ IsTaker(page[t], o) <=> IsTaker(page'[t], o)
               /\ ~IsClass(page[t], o)
               /\ IsClass(page'[t], o) <=> o = x
    BY <1>1, <1>2, <1>3, <1>4 DEF IsOpener, IsFinder, IsTaker, IsClass, q
  <1>7. ASSUME NEW o \in Obj
        PROVE  module'[o].refs + One(IsTaker(page[t], o)) + One(IsClass(page[t], o))
                 = module[o].refs + One(IsTaker(page'[t], o)) + One(IsClass(page'[t], o))
    <2>1. module[o].refs \in Nat /\ module'[o].refs = module[o].refs + One(o = x)
      BY <1>2, <1>5, Typed DEF IInv, One
    <2> QED BY <1>6, <2>1 DEF One
  <1>8. \A o \in Obj : module'[o].content = module[o].content
    BY <1>2, <1>5
  <1> QED BY <1>1, <1>3, <1>4, <1>5, <1>6, <1>7, <1>8, ModuleStep

LEMMA CopyPointerInv ==
  ASSUME IInv, NEW t \in Thread, CopyPointer(t)
  PROVE  IInv'
  <1> DEFINE q == page[t]
             r == [q EXCEPT !.pc = "pointer"]
  <1>1. /\ q.pc = "copy" /\ page' = [page EXCEPT ![t] = r]
        /\ UNCHANGED <<exists, content, mtime, entry, lock, timed, module, leaked, torn>>
    BY Now DEF CopyPointer, At, Goto
  <1>2. q \in PageRecord /\ PageOK(q)
    BY Now
  <1> HIDE DEF q
  <1>3. r \in PageRecord /\ PageOK(r) /\ r.obj = q.obj /\ r.pc = "pointer" /\ r.found = q.found
    BY <1>1, <1>2 DEF PageRecord, PageOK
  <1> HIDE DEF r
  <1>4. Turned(t) /\ page'[t] = r
    BY <1>1, <1>3, Now, Turn
  <1>5. ASSUME NEW o \in Obj
        PROVE  /\ ~IsOpener(page[t], o) /\ ~IsOpener(page'[t], o)
               /\ IsFinder(page[t], o) <=> IsFinder(page'[t], o)
               /\ IsTaker(page[t], o) <=> IsTaker(page'[t], o)
               /\ ~IsClass(page[t], o) /\ ~IsClass(page'[t], o)
    BY <1>1, <1>2, <1>3, <1>4 DEF IsOpener, IsFinder, IsTaker, IsClass, q
  <1>6. ASSUME NEW o \in Obj
        PROVE  module'[o].refs + One(IsTaker(page[t], o)) + One(IsClass(page[t], o))
                 = module[o].refs + One(IsTaker(page'[t], o)) + One(IsClass(page'[t], o))
    <2>1. module[o].refs \in Nat /\ module' = module
      BY <1>1, Typed DEF IInv
    <2> QED BY <1>5, <2>1 DEF One
  <1>7. module' \in [Obj -> ModuleRecord] /\ \A o \in Obj : module'[o].content = module[o].content
    BY <1>1, Now
  <1> QED BY <1>1, <1>3, <1>4, <1>5, <1>6, <1>7, ModuleStep

LEMMA EndPageInv ==
  ASSUME IInv, NEW t \in Thread, EndPage(t)
  PROVE  IInv'
  <1> DEFINE q == page[t]
             x == q.obj
  <1>1. /\ q.pc \in {"class", "pointer"} /\ ~q.found /\ page' = [page EXCEPT ![t] = NoPage]
        /\ module' = (IF q.pc = "class" THEN Free(module, x) ELSE module)
        /\ UNCHANGED <<exists, content, mtime, entry, lock, timed, leaked, torn>>
    BY DEF EndPage, At
  <1>2. q \in PageRecord /\ PageOK(q) /\ x \in Obj
    BY <1>1, Now DEF PageOK
  <1>3. Turned(t) /\ page'[t] = NoPage
    BY <1>1, NoPageIs, Now, Turn
  <1>4. ASSUME NEW o \in Obj
        PROVE  /\ ~IsOpener(page[t], o) /\ ~IsOpener(page'[t], o)
               /\ ~IsFinder(page[t], o) /\ ~IsFinder(page'[t], o)
               /\ ~IsTaker(page[t], o) /\ ~IsTaker(page'[t], o)
               /\ IsClass(page[t], o) <=> o = x /\ q.pc = "class"
               /\ ~IsClass(page'[t], o)
    BY <1>1, <1>2, <1>3, NoPageIs, Now DEF IsOpener, IsFinder, IsTaker, IsClass
  <1>5. q.pc = "class" => module[x].refs >= 1
    <2>1. q.pc = "class" => IsClass(page[t], x)
      BY <1>2, <1>4
    <2>2. q.pc = "class" => Classes(page, x) >= 1
      BY <1>2, <1>3, <2>1, Counted
    <2> QED BY <1>2, <2>2, CountedNow DEF One
  <1> HIDE DEF q
  <1>6. /\ module' \in [Obj -> ModuleRecord]
        /\ \A o \in Obj : module'[o].content = module[o].content
        /\ \A o \in Obj : module'[o].refs + One(o = x /\ q.pc = "class") = module[o].refs
    <2>1. \A o \in Obj : module[o].refs \in Nat
      BY Typed DEF IInv
    <2>2. CASE q.pc = "class"
      <3>1. /\ module' \in [Obj -> ModuleRecord] /\ module'[x].refs = module[x].refs - 1
            /\ module'[x].content = module[x].content
            /\ \A o \in Obj \ {x} : module'[o] = module[o]
        <4>1. module' = Free(module, x) /\ module \in [Obj -> ModuleRecord]
          BY <1>1, <2>2, Now
        <4>2. module[x].refs \in Nat /\ module[x].refs >= 1
          BY <1>2, <1>5, <2>1, <2>2
        <4>3. /\ Free(module, x) \in [Obj -> ModuleRecord]
              /\ Free(module, x)[x].refs = (IF module[x].refs = 0 THEN 0 ELSE module[x].refs - 1)
              /\ Free(module, x)[x].content = module[x].content
              /\ \A o \in Obj \ {x} : Free(module, x)[o] = module[o]
          BY <1>2, <4>1, FreeIs
        <4> QED BY <4>1, <4>2, <4>3
      <3> QED BY <1>2, <1>5, <2>1, <2>2, <3>1 DEF One
    <2>3. CASE q.pc # "class"
      BY <1>1, <2>1, <2>3, Now DEF One
    <2> QED BY <2>2, <2>3
  <1>7. ASSUME NEW o \in Obj
        PROVE  module'[o].refs + One(IsTaker(page[t], o)) + One(IsClass(page[t], o))
                 = module[o].refs + One(IsTaker(page'[t], o)) + One(IsClass(page'[t], o))
    <2>1. module[o].refs \in Nat /\ module'[o].refs \in Nat
      BY <1>6, Typed DEF IInv, ModuleRecord
    <2>2. module'[o].refs + One(o = x /\ q.pc = "class") = module[o].refs
      BY <1>6
    <2>3. One(IsTaker(page[t], o)) = 0 /\ One(IsTaker(page'[t], o)) = 0 /\ One(IsClass(page'[t], o)) = 0
          /\ One(IsClass(page[t], o)) = One(o = x /\ q.pc = "class")
      BY <1>4 DEF One
    <2>4. One(o = x /\ q.pc = "class") \in Nat
      BY DEF One
    <2> QED BY <2>1, <2>2, <2>3, <2>4
  <1> QED BY <1>1, <1>3, <1>4, <1>6, <1>7, NoPageIs, ModuleStep

\* A new module is mapped in place of what is there.
LEMMA MapObjInv ==
  ASSUME IInv, NEW t \in Thread, MapObj(t)
  PROVE  IInv'
  <1> DEFINE q == page[t]
  <1>1. PICK o \in Obj :
          /\ timed[o].refs = 0 /\ module[o].refs = 0
          /\ IF entry = None
             THEN /\ timed' = [timed EXCEPT ![o] = [refs |-> 1, time |-> mtime]]
                  /\ module' = [module EXCEPT ![o] = [refs |-> 1, content |-> q.read]]
             ELSE FreeTimed([timed EXCEPT ![o] = [refs |-> 1, time |-> mtime]],
                            [module EXCEPT ![o] = [refs |-> 1, content |-> q.read]], entry)
          /\ entry' = o
          /\ torn' = (IF q.torn THEN torn \union {o} ELSE torn \ {o})
          /\ page' = [page EXCEPT ![t] = [q EXCEPT !.pc = "copy", !.obj = o]]
    BY DEF MapObj
  <1>2. q.pc = "map" /\ UNCHANGED <<exists, content, mtime, lock, leaked>>
    BY DEF MapObj, At
  <1>3. q \in PageRecord /\ PageOK(q) /\ q.obj = None /\ ~q.found /\ q.read \in 0 .. MaxWrites
    BY <1>2, Now DEF PageRecord, PageOK
  <1>4. mtime \in Nat /\ MaxWrites \in Nat /\ entry \in Obj \union {None} /\ None \notin Obj
    BY Now, CacheAssumption DEF IInv, TypeOK, CacheAssumption
  <1> DEFINE r == [q EXCEPT !.pc = "copy", !.obj = o]
  <1>5. r \in PageRecord /\ PageOK(r) /\ r.obj = o /\ r.pc = "copy" /\ ~r.found
    BY <1>3, <1>4 DEF PageRecord, PageOK
  <1>6. page' = [page EXCEPT ![t] = r]
    BY <1>1
  <1>7. q.pc = "map" /\ ~q.torn => q.read = content
    BY DEF IInv, FreshInv
  <1>8. ASSUME NEW x
        PROVE  /\ ~IsOpener(page[t], x) /\ ~IsFinder(page[t], x)
               /\ ~IsTaker(page[t], x) /\ ~IsClass(page[t], x)
    BY <1>2, <1>3 DEF IsOpener, IsFinder, IsTaker, IsClass
  <1> HIDE DEF r
  <1>9. Turned(t) /\ page'[t] = r
    BY <1>5, <1>6, Now, Turn
  <1>10. ASSUME NEW x \in Obj
         PROVE  /\ Opens(page', x) = Opens(page, x) /\ Finds(page', x) = Finds(page, x)
                /\ Takes(page', x) = Takes(page, x) /\ Classes(page', x) = Classes(page, x)
    <2>1. /\ ~IsOpener(page'[t], x) /\ ~IsFinder(page'[t], x)
          /\ ~IsTaker(page'[t], x) /\ ~IsClass(page'[t], x)
      BY <1>5, <1>9 DEF IsOpener, IsFinder, IsTaker, IsClass
    <2> QED BY <1>8, <1>9, <2>1, Counted DEF One
  <1> HIDE DEF q
  <1>11. entry # o /\ leaked[o] = 0 /\ Opens(page, o) = 0 /\ Finds(page, o) = 0
         /\ Takes(page, o) = 0 /\ Classes(page, o) = 0
    BY <1>1, Unused
  <1> DEFINE ts == [timed EXCEPT ![o] = [refs |-> 1, time |-> mtime]]
             ms == [module EXCEPT ![o] = [refs |-> 1, content |-> q.read]]
  <1>12. /\ ts \in [Obj -> TimedRecord] /\ ts[o].refs = 1 /\ ts[o].time = mtime
         /\ \A x \in Obj \ {o} : ts[x] = timed[x]
    <2>1. [refs |-> 1, time |-> mtime] \in TimedRecord
      BY <1>4 DEF TimedRecord
    <2> QED BY <2>1, Now
  <1>13. /\ ms \in [Obj -> ModuleRecord] /\ ms[o].refs = 1 /\ ms[o].content = q.read
         /\ \A x \in Obj \ {o} : ms[x] = module[x]
    <2>1. [refs |-> 1, content |-> q.read] \in ModuleRecord
      BY <1>3 DEF ModuleRecord
    <2> QED BY <2>1, Now
  <1>14. IF entry = None THEN timed' = ts /\ module' = ms ELSE FreeTimed(ts, ms, entry)
    BY <1>1
  <1> HIDE DEF ts, ms
  <1>15. /\ timed' \in [Obj -> TimedRecord] /\ module' \in [Obj -> ModuleRecord]
         /\ timed'[o].refs = 1 /\ timed'[o].time = mtime
         /\ module'[o].refs = 1 /\ module'[o].content = q.read
         /\ \A x \in Obj \ {o, entry} : timed'[x] = timed[x] /\ module'[x] = module[x]
         /\ entry \in Obj =>
              /\ timed[entry].refs \in Nat /\ timed[entry].refs >= 1
              /\ timed'[entry].refs = timed[entry].refs - 1 /\ timed'[entry].time = timed[entry].time
              /\ module'[entry].refs = (IF timed[entry].refs = 1 /\ module[entry].refs # 0
                                        THEN module[entry].refs - 1 ELSE module[entry].refs)
    <2>1. CASE entry = None
      BY <1>4, <1>12, <1>13, <1>14, <2>1
    <2>2. CASE entry \in Obj
      <3>1. ts[entry] = timed[entry] /\ ms[entry] = module[entry]
        BY <1>11, <1>12, <1>13, <2>2
      <3>2. timed[entry].refs \in Nat /\ timed[entry].refs >= 1
        BY <2>2, CountedNow DEF One
      <3>3. FreeTimed(ts, ms, entry) /\ ts[entry].refs >= 1
        BY <1>4, <1>14, <2>2, <3>1, <3>2
      <3>4. /\ timed' \in [Obj -> TimedRecord] /\ module' \in [Obj -> ModuleRecord]
            /\ timed'[entry].refs = ts[entry].refs - 1 /\ timed'[entry].time = ts[entry].time
            /\ \A x \in Obj \ {entry} : timed'[x] = ts[x] /\ module'[x] = ms[x]
            /\ module'[entry].refs = (IF ts[entry].refs = 1 /\ ms[entry].refs # 0
                                      THEN ms[entry].refs - 1 ELSE ms[entry].refs)
        BY <1>12, <1>13, <2>2, <3>3, FreeTimedIs
      <3> QED BY <1>11, <1>12, <1>13, <3>1, <3>2, <3>4
    <2> QED BY <1>4, <2>1, <2>2
  <1>16. CountInv'
    <2> SUFFICES ASSUME NEW x \in Obj PROVE TimedCount(x)' /\ ModuleCount(x)'
      BY DEF CountInv
    <2>1. /\ timed[x].refs = One(entry = x) + Opens(page, x) + Finds(page, x) + leaked[x]
          /\ module[x].refs = One(timed[x].refs > 0) + Takes(page, x) + Classes(page, x)
          /\ timed[x].refs \in Nat /\ module[x].refs \in Nat /\ leaked[x] \in Nat
          /\ Opens(page, x) \in Nat /\ Finds(page, x) \in Nat
          /\ Takes(page, x) \in Nat /\ Classes(page, x) \in Nat
      BY CountedNow
    <2>2. /\ Opens(page', x) = Opens(page, x) /\ Finds(page', x) = Finds(page, x)
          /\ Takes(page', x) = Takes(page, x) /\ Classes(page', x) = Classes(page, x)
      BY <1>10
    <2>3. entry' = o /\ leaked' = leaked
      BY <1>1, <1>2
    <2>4. CASE x = o
      <3>1. timed'[x].refs = One(o = x) + Opens(page, x) + Finds(page, x) + leaked[x]
        BY <1>11, <1>15, <2>4 DEF One
      <3>2. module'[x].refs = One(timed'[x].refs > 0) + Takes(page, x) + Classes(page, x)
        BY <1>11, <1>15, <2>4 DEF One
      <3> QED BY <2>2, <2>3, <3>1, <3>2 DEF TimedCount, ModuleCount
    <2>5. CASE x # o /\ x = entry
      <3>1. /\ timed[x].refs >= 1 /\ timed'[x].refs = timed[x].refs - 1
            /\ module'[x].refs = (IF timed[x].refs = 1 /\ module[x].refs # 0
                                  THEN module[x].refs - 1 ELSE module[x].refs)
        BY <1>15, <2>5
      <3>2. timed'[x].refs = One(o = x) + Opens(page, x) + Finds(page, x) + leaked[x]
        BY <2>1, <2>5, <3>1 DEF One
      <3>3. module'[x].refs = One(timed'[x].refs > 0) + Takes(page, x) + Classes(page, x)
        BY <2>1, <3>1 DEF One
      <3> QED BY <2>2, <2>3, <3>2, <3>3 DEF TimedCount, ModuleCount
    <2>6. CASE x # o /\ x # entry
      <3>1. timed'[x] = timed[x] /\ module'[x] = module[x]
        BY <1>15, <2>6
      <3>2. timed[x].refs = One(o = x) + Opens(page, x) + Finds(page, x) + leaked[x]
        BY <2>1, <2>6 DEF One
      <3> QED BY <2>1, <2>2, <2>3, <3>1, <3>2 DEF TimedCount, ModuleCount
    <2> QED BY <2>4, <2>5, <2>6
  <1>17. FreshInv'
    <2>1. \A x \in Obj : timed'[x].time <= mtime
      <3>1. \A x \in Obj : timed[x].time <= mtime
        BY DEF IInv, FreshInv
      <3> QED BY <1>4, <1>15, <3>1
    <2>2. \A u \in Thread : page'[u].pc = "map" /\ ~page'[u].torn => page'[u].read = content
      BY <1>5, <1>9 DEF IInv, FreshInv, Turned
    <2>3. module'[o].content = content \/ o \in torn'
      BY <1>1, <1>2, <1>7, <1>15
    <2> QED BY <1>1, <1>2, <2>1, <2>2, <2>3 DEF FreshInv
  <1>18. /\ entry' \in Obj \union {None} /\ lock' \in Thread \union {None} /\ torn' \subseteq Obj
         /\ leaked' \in [Obj -> 0 .. MaxLeaks]
    BY <1>1, <1>2, Now
  <1> QED BY <1>2, <1>9, <1>15, <1>16, <1>17, <1>18, StepInv

\* The end of EvalModule: a page gives back both references.
LEMMA ReleaseInv ==
  ASSUME IInv, NEW t \in Thread, Release(t)
  PROVE  IInv'
  <1> DEFINE q == page[t]
             x == q.obj
             r == [q EXCEPT !.found = FALSE]
             ms == Free(module, x)
  <1>1. /\ q.pc \in {"class", "pointer"} /\ q.found /\ page' = [page EXCEPT ![t] = r]
        /\ FreeTimed(timed, ms, x)
        /\ UNCHANGED <<exists, content, mtime, entry, lock, leaked, torn>>
    BY Now DEF Release
  <1>2. q \in PageRecord /\ PageOK(q) /\ x \in Obj
    BY <1>1, Now DEF PageOK
  <1>3. r \in PageRecord /\ PageOK(r) /\ r.obj = x /\ r.pc = q.pc /\ ~r.found
    BY <1>1, <1>2 DEF PageRecord, PageOK
  <1> HIDE DEF r
  <1>4. Turned(t) /\ page'[t] = r
    BY <1>1, <1>3, Now, Turn
  <1>5. ASSUME NEW o \in Obj
        PROVE  /\ ~IsOpener(page[t], o) /\ ~IsOpener(page'[t], o)
               /\ IsFinder(page[t], o) <=> o = x
               /\ IsTaker(page[t], o) <=> o = x
               /\ ~IsFinder(page'[t], o) /\ ~IsTaker(page'[t], o)
               /\ IsClass(page[t], o) <=> IsClass(page'[t], o)
    BY <1>1, <1>2, <1>3, <1>4 DEF IsOpener, IsFinder, IsTaker, IsClass
  <1> HIDE DEF q
  <1>6. ASSUME NEW o \in Obj
        PROVE  /\ Opens(page', o) = Opens(page, o)
               /\ Finds(page', o) + One(o = x) = Finds(page, o)
               /\ Takes(page', o) + One(o = x) = Takes(page, o)
               /\ Classes(page', o) = Classes(page, o)
               /\ Finds(page', o) \in Nat /\ Takes(page', o) \in Nat
    <2>1. /\ Opens(page, o) \in Nat /\ Opens(page', o) \in Nat
          /\ Finds(page, o) \in Nat /\ Finds(page', o) \in Nat
          /\ Takes(page, o) \in Nat /\ Takes(page', o) \in Nat
          /\ Classes(page, o) \in Nat /\ Classes(page', o) \in Nat
          /\ Opens(page', o) + One(IsOpener(page[t], o)) = Opens(page, o) + One(IsOpener(page'[t], o))
          /\ Finds(page', o) + One(IsFinder(page[t], o)) = Finds(page, o) + One(IsFinder(page'[t], o))
          /\ Takes(page', o) + One(IsTaker(page[t], o)) = Takes(page, o) + One(IsTaker(page'[t], o))
          /\ Classes(page', o) + One(IsClass(page[t], o)) = Classes(page, o) + One(IsClass(page'[t], o))
      BY <1>4, Counted
    <2>2. /\ One(IsOpener(page[t], o)) = 0 /\ One(IsOpener(page'[t], o)) = 0
          /\ One(IsFinder(page[t], o)) = One(o = x) /\ One(IsFinder(page'[t], o)) = 0
          /\ One(IsTaker(page[t], o)) = One(o = x) /\ One(IsTaker(page'[t], o)) = 0
          /\ One(IsClass(page[t], o)) = One(IsClass(page'[t], o))
      BY <1>5 DEF One
    <2>3. One(o = x) \in Nat /\ One(IsClass(page[t], o)) \in Nat
      BY DEF One
    <2> QED BY <2>1, <2>2, <2>3
  <1>7. /\ timed[x].refs \in Nat /\ timed[x].refs >= 1
        /\ module[x].refs \in Nat
        /\ module[x].refs >= 1 /\ (timed[x].refs = 1 => module[x].refs >= 2)
    <2>1. Finds(page, x) >= 1 /\ Takes(page, x) >= 1
      BY <1>2, <1>6 DEF One
    <2> QED BY <1>2, <2>1, CountedNow DEF One
  <1>8. /\ ms \in [Obj -> ModuleRecord] /\ ms[x].refs = module[x].refs - 1
        /\ ms[x].content = module[x].content /\ \A o \in Obj \ {x} : ms[o] = module[o]
    <2>1. /\ ms \in [Obj -> ModuleRecord]
          /\ ms[x].refs = (IF module[x].refs = 0 THEN 0 ELSE module[x].refs - 1)
          /\ ms[x].content = module[x].content /\ \A o \in Obj \ {x} : ms[o] = module[o]
      BY <1>2, FreeIs, Now
    <2> QED BY <1>7, <2>1
  <1> HIDE DEF ms
  <1>9. /\ timed' \in [Obj -> TimedRecord] /\ module' \in [Obj -> ModuleRecord]
        /\ timed'[x].refs = timed[x].refs - 1 /\ timed'[x].time = timed[x].time
        /\ \A o \in Obj \ {x} : timed'[o] = timed[o] /\ module'[o] = ms[o]
        /\ module'[x].refs = (IF timed[x].refs = 1 /\ ms[x].refs # 0 THEN ms[x].refs - 1
                              ELSE ms[x].refs)
        /\ module'[x].content = ms[x].content
    BY <1>1, <1>2, <1>7, <1>8, FreeTimedIs, Now
  <1>10. module'[x].refs = (IF timed[x].refs = 1 THEN module[x].refs - 2 ELSE module[x].refs - 1)
    BY <1>7, <1>8, <1>9
  <1>11. CountInv'
    <2> SUFFICES ASSUME NEW o \in Obj PROVE TimedCount(o)' /\ ModuleCount(o)'
      BY DEF CountInv
    <2>1. /\ timed[o].refs = One(entry = o) + Opens(page, o) + Finds(page, o) + leaked[o]
          /\ module[o].refs = One(timed[o].refs > 0) + Takes(page, o) + Classes(page, o)
          /\ timed[o].refs \in Nat /\ module[o].refs \in Nat /\ leaked[o] \in Nat
          /\ Opens(page, o) \in Nat /\ Classes(page, o) \in Nat
      BY CountedNow
    <2>2. entry' = entry /\ leaked' = leaked
      BY <1>1
    <2>3. CASE o = x
      <3>1. timed'[o].refs = timed[o].refs - 1 /\ timed[o].refs >= 1
            /\ module'[o].refs = (IF timed[o].refs = 1 THEN module[o].refs - 2
                                  ELSE module[o].refs - 1)
        BY <1>7, <1>9, <1>10, <2>3
      <3>2. Finds(page', o) + 1 = Finds(page, o) /\ Takes(page', o) + 1 = Takes(page, o)
            /\ Finds(page', o) \in Nat /\ Takes(page', o) \in Nat
            /\ Opens(page', o) = Opens(page, o) /\ Classes(page', o) = Classes(page, o)
        BY <1>6, <2>3 DEF One
      <3>3. timed'[o].refs = One(entry = o) + Opens(page', o) + Finds(page', o) + leaked[o]
        BY <2>1, <3>1, <3>2 DEF One
      <3>4. module'[o].refs = One(timed'[o].refs > 0) + Takes(page', o) + Classes(page', o)
        BY <2>1, <3>1, <3>2 DEF One
      <3> QED BY <2>2, <3>3, <3>4 DEF TimedCount, ModuleCount
    <2>4. CASE o # x
      <3>1. timed'[o] = timed[o] /\ module'[o] = module[o]
        BY <1>8, <1>9, <2>4
      <3>2. Finds(page', o) = Finds(page, o) /\ Takes(page', o) = Takes(page, o)
            /\ Opens(page', o) = Opens(page, o) /\ Classes(page', o) = Classes(page, o)
        BY <1>6, <2>4 DEF One
      <3> QED BY <2>1, <2>2, <3>1, <3>2 DEF TimedCount, ModuleCount
    <2> QED BY <2>3, <2>4
  <1>12. FreshInv'
    <2>1. \A o \in Obj : timed'[o].time = timed[o].time /\ module'[o].content = module[o].content
      BY <1>8, <1>9
    <2>2. page'[t].pc # "map"
      BY <1>1, <1>3, <1>4
    <2> QED BY <1>1, <1>4, <2>1, <2>2, SameFresh
  <1>13. entry' \in Obj \union {None} /\ lock' \in Thread \union {None} /\ torn' \subseteq Obj
         /\ leaked' \in [Obj -> 0 .. MaxLeaks]
    BY <1>1, Now
  <1> QED BY <1>1, <1>4, <1>9, <1>11, <1>12, <1>13, StepInv

\* A change of the file disturbs what is being read of it, and makes other objects old.
LEMMA WriteInv ==
  ASSUME IInv, NEW now \in 0 .. MaxWrites, Write(now)
  PROVE  IInv'
  <1>1. /\ exists /\ content < MaxWrites /\ now \in {mtime, mtime + 1}
        /\ content' = content + 1 /\ mtime' = now
        /\ torn' = (IF now = mtime THEN torn \union {o \in Obj : timed[o].time = now} ELSE torn)
        /\ page' = [t \in Thread |->
                      [page[t] EXCEPT !.torn = @ \/ page[t].pc \in {"read", "map"}]]
        /\ UNCHANGED <<exists, entry, lock, timed, module, leaked>>
    BY DEF Write
  <1>2. content \in 0 .. MaxWrites /\ mtime \in 0 .. content /\ MaxWrites \in Nat
    BY CacheAssumption DEF IInv, TypeOK, CacheAssumption
  <1>3. page \in [Thread -> PageRecord]
    BY DEF IInv, PagesOK
  <1>4. ASSUME NEW t \in Thread
        PROVE  /\ page'[t] \in PageRecord /\ page'[t].pc = page[t].pc /\ page'[t].obj = page[t].obj
               /\ page'[t].found = page[t].found /\ page'[t].read = page[t].read
               /\ page'[t].pc = "map" => page'[t].torn
    <2> DEFINE q == page[t]
               b == q.torn \/ q.pc \in {"read", "map"}
    <2>1. q \in PageRecord /\ page'[t] = [q EXCEPT !.torn = b] /\ b \in BOOLEAN
      BY <1>1, <1>3 DEF PageRecord
    <2>2. q.pc = "map" => b
      OBVIOUS
    <2> HIDE DEF q, b
    <2>3. /\ [q EXCEPT !.torn = b] \in PageRecord /\ [q EXCEPT !.torn = b].pc = q.pc
          /\ [q EXCEPT !.torn = b].obj = q.obj /\ [q EXCEPT !.torn = b].found = q.found
          /\ [q EXCEPT !.torn = b].read = q.read /\ [q EXCEPT !.torn = b].torn = b
      BY <2>1 DEF PageRecord
    <2> QED BY <2>1, <2>2, <2>3 DEF q
  <1>5. page' \in [Thread -> PageRecord]
    BY <1>1, <1>4
  <1>6. PagesOK'
    BY <1>4, <1>5 DEF IInv, PagesOK, PageOK
  <1>7. ASSUME NEW o \in Obj
        PROVE  /\ Opens(page', o) = Opens(page, o) /\ Finds(page', o) = Finds(page, o)
               /\ Takes(page', o) = Takes(page, o) /\ Classes(page', o) = Classes(page, o)
    <2>1. {t \in Thread : IsOpener(page'[t], o)} = {t \in Thread : IsOpener(page[t], o)}
      BY <1>4 DEF IsOpener
    <2>2. {t \in Thread : IsFinder(page'[t], o)} = {t \in Thread : IsFinder(page[t], o)}
      BY <1>4 DEF IsFinder
    <2>3. {t \in Thread : IsTaker(page'[t], o)} = {t \in Thread : IsTaker(page[t], o)}
      BY <1>4 DEF IsTaker
    <2>4. {t \in Thread : IsClass(page'[t], o)} = {t \in Thread : IsClass(page[t], o)}
      BY <1>4 DEF IsClass
    <2> QED BY <2>1, <2>2, <2>3, <2>4 DEF Opens, Finds, Takes, Classes
  <1>8. CountInv'
    BY <1>1, <1>7 DEF IInv, CountInv, TimedCount, ModuleCount
  <1>9. FreshInv'
    <2>1. \A o \in Obj : timed[o].time \in Nat /\ timed[o].time <= mtime
      BY Typed DEF IInv, FreshInv
    <2>2. \A o \in Obj : timed'[o].time <= mtime'
      BY <1>1, <1>2, <2>1
    <2>3. \A t \in Thread : ~(page'[t].pc = "map" /\ ~page'[t].torn)
      BY <1>4
    <2>4. entry \in Obj \union {None}
      BY DEF IInv, TypeOK
    <2>5. ASSUME entry # None, timed[entry].time = now
          PROVE  entry \in torn'
      <3>1. now = mtime
        BY <1>1, <1>2, <2>1, <2>4, <2>5
      <3> QED BY <1>1, <2>4, <2>5, <3>1
    <2> QED BY <1>1, <2>2, <2>3, <2>5 DEF FreshInv
  <1>10. TypeOK'
    <2>1. content' \in 0 .. MaxWrites /\ mtime' \in 0 .. content' /\ torn' \subseteq Obj
      BY <1>1, <1>2 DEF IInv, TypeOK
    <2> QED BY <1>1, <1>5, <2>1 DEF IInv, TypeOK, PageRecord
  <1> QED BY <1>6, <1>8, <1>9, <1>10 DEF IInv

\* Nothing is said of a file that is not there.
LEMMA GoneInv ==
  ASSUME IInv, exists' \in BOOLEAN,
         UNCHANGED <<content, mtime, entry, lock, timed, module, leaked, torn, page>>
  PROVE  IInv'
  <1>1. TypeOK'
    BY DEF IInv, TypeOK
  <1>2. PagesOK'
    BY DEF IInv, PagesOK
  <1>3. CountInv'
    BY DEF IInv, CountInv, TimedCount, ModuleCount
  <1>4. FreshInv'
    BY DEF IInv, FreshInv
  <1> QED BY <1>1, <1>2, <1>3, <1>4 DEF IInv

LEMMA InitInv == Init => IInv
  <1> SUFFICES ASSUME Init PROVE IInv
    OBVIOUS
  <1>1. MaxWrites \in Nat /\ MaxLeaks \in Nat /\ None \notin Obj
    BY CacheAssumption DEF CacheAssumption
  <1>2. page = [t \in Thread |-> NoPage] /\ NoPage \in PageRecord /\ PageOK(NoPage)
        /\ NoPage.obj = None /\ NoPage.pc = "idle" /\ ~NoPage.found
    BY NoPageIs DEF Init, NoPage
  <1>3. page \in [Thread -> PageRecord]
    BY <1>2
  <1>4. TypeOK
    BY <1>1, <1>3 DEF Init, TypeOK, PageRecord
  <1>5. PagesOK
    BY <1>2, <1>3 DEF PagesOK
  <1>6. CountInv
    <2> SUFFICES ASSUME NEW o \in Obj PROVE TimedCount(o) /\ ModuleCount(o)
      BY DEF CountInv
    <2>1. \A t \in Thread : /\ ~IsOpener(page[t], o) /\ ~IsFinder(page[t], o)
                            /\ ~IsTaker(page[t], o) /\ ~IsClass(page[t], o)
      BY <1>1, <1>2 DEF IsOpener, IsFinder, IsTaker, IsClass
    <2>2. /\ {t \in Thread : IsOpener(page[t], o)} = {} /\ {t \in Thread : IsFinder(page[t], o)} = {}
          /\ {t \in Thread : IsTaker(page[t], o)} = {} /\ {t \in Thread : IsClass(page[t], o)} = {}
      BY <2>1
    <2>3. Opens(page, o) = 0 /\ Finds(page, o) = 0 /\ Takes(page, o) = 0 /\ Classes(page, o) = 0
      BY <2>2, FS_EmptySet DEF Opens, Finds, Takes, Classes
    <2>4. timed[o].refs = 0 /\ module[o].refs = 0 /\ leaked[o] = 0 /\ entry # o
      BY <1>1 DEF Init
    <2> QED BY <2>3, <2>4 DEF TimedCount, ModuleCount, One
  <1>7. FreshInv
    BY <1>2 DEF Init, FreshInv
  <1> QED BY <1>4, <1>5, <1>6, <1>7 DEF IInv

LEMMA NextInv == IInv /\ [Next]_vars => IInv'
  <1> SUFFICES ASSUME IInv, [Next]_vars PROVE IInv'
    OBVIOUS
  <1>1. CASE UNCHANGED vars
    <2>1. exists' \in BOOLEAN
      BY <1>1 DEF vars, IInv, TypeOK
    <2> QED BY <1>1, <2>1, GoneInv DEF vars
  <1>2. CASE \E t \in Thread :
               \/ Lookup(t) \/ OpenFails(t) \/ Open(t)
               \/ Take(t) \/ Read(t) \/ MapObj(t) \/ CopyClass(t) \/ CopyPointer(t)
               \/ Release(t) \/ EndPage(t)
    <2> PICK t \in Thread :
               \/ Lookup(t) \/ OpenFails(t) \/ Open(t)
               \/ Take(t) \/ Read(t) \/ MapObj(t) \/ CopyClass(t) \/ CopyPointer(t)
               \/ Release(t) \/ EndPage(t)
      BY <1>2
    <2>1. CASE Open(t)
      <3>1. CASE page[t].obj # None /\ timed[page[t].obj].time = mtime
        BY <2>1, <3>1, OpenFoundInv
      <3>2. CASE ~(page[t].obj # None /\ timed[page[t].obj].time = mtime)
        BY <2>1, <3>2, OpenOtherInv
      <3> QED BY <3>1, <3>2
    <2> QED BY <2>1, LookupInv, OpenFailsInv, TakeInv, ReadInv, MapObjInv, CopyClassInv,
               CopyPointerInv, ReleaseInv, EndPageInv
  <1>3. CASE \E now \in 0 .. MaxWrites : Write(now)
    BY <1>3, WriteInv
  <1>4. CASE Remove
    BY <1>4, GoneInv DEF Remove
  <1>5. CASE Restore
    BY <1>5, GoneInv DEF Restore
  <1> QED BY <1>1, <1>2, <1>3, <1>4, <1>5 DEF Next

LEMMA Invariance == Spec => []IInv
  <1>1. Init => IInv
    BY InitInv
  <1>2. IInv /\ [Next]_vars => IInv'
    BY NextInv
  <1> QED BY <1>1, <1>2, PTL DEF Spec

(***************************************************************************)
(* Theorems                                                                *)
(***************************************************************************)

\* Every variable keeps to its values: no count of references gets below zero, whatever the
\* order in which pages find, replace and release modules (EvalModule, pscache.cpp).
THEOREM TypeCorrect == Spec => []TypeOK
  <1>1. IInv => TypeOK
    BY DEF IInv
  <1> QED BY <1>1, Invariance, PTL

\* The counts of qObjTimed and qObjClass are what their users add up to, and the only page
\* that can be left with a freed module is one that has just loaded it.
THEOREM CountsExact == Spec => []RefsExact
  <1>1. IInv => RefsExact
    <2> SUFFICES ASSUME IInv, NEW o \in Obj
        PROVE  /\ timed[o].refs = One(entry = o) + Cardinality(Holding(o, {"open"}))
                                  + Cardinality(Finders(o)) + leaked[o]
               /\ module[o].refs = One(timed[o].refs > 0)
                                   + Cardinality(Finders(o) \ Holding(o, {"found"}))
                                   + Cardinality(Holding(o, {"class"}))
               /\ module[o].refs = 0 =>
                    \A t \in Holding(o, {"found", "copy", "class"}) :
                      At(t, "copy") /\ ~page[t].found /\ entry # o
      BY DEF RefsExact
    <2>1. /\ Holding(o, {"open"}) = {t \in Thread : IsOpener(page[t], o)}
          /\ Holding(o, {"class"}) = {t \in Thread : IsClass(page[t], o)}
      BY DEF Holding, IsOpener, IsClass
    <2>2. Finders(o) = {t \in Thread : IsFinder(page[t], o)}
      BY DEF Finders, IsFinder
    <2>3. Finders(o) \ Holding(o, {"found"}) = {t \in Thread : IsTaker(page[t], o)}
      BY DEF Finders, Holding, IsTaker
    <2>4. /\ Cardinality(Holding(o, {"open"})) = Opens(page, o)
          /\ Cardinality(Finders(o)) = Finds(page, o)
          /\ Cardinality(Finders(o) \ Holding(o, {"found"})) = Takes(page, o)
          /\ Cardinality(Holding(o, {"class"})) = Classes(page, o)
      BY <2>1, <2>2, <2>3 DEF Opens, Finds, Takes, Classes
    <2>5. ASSUME module[o].refs = 0, NEW t \in Holding(o, {"found", "copy", "class"})
          PROVE  At(t, "copy") /\ ~page[t].found /\ entry # o
      <3>1. entry # o /\ Finds(page, o) = 0 /\ Classes(page, o) = 0
        BY <2>5, Unused
      <3>2. t \in Thread /\ page[t].obj = o /\ page[t].pc \in {"found", "copy", "class"}
        BY DEF Holding
      <3>3. page \in [Thread -> PageRecord] /\ PageOK(page[t])
        BY <3>2, Now DEF IInv, PagesOK
      <3>4. ~IsFinder(page[t], o) /\ ~IsClass(page[t], o)
        BY <3>1, <3>2, <3>3, PageCounts
      <3> QED BY <3>1, <3>2, <3>3, <3>4 DEF IsFinder, IsClass, PageOK, At
    <2> QED BY <2>4, <2>5, CountedNow
  <1> QED BY <1>1, Invariance, PTL

\* A module given out as current is what the file holds, but for a write during the reading
\* or a second one within a second.
THEOREM Fresh == Spec => []FreshUnlessTorn
  <1>1. IInv => FreshUnlessTorn
    BY DEF IInv, FreshInv, FreshUnlessTorn
  <1> QED BY <1>1, Invariance, PTL

====
