--------------------------- MODULE ContextProofs ---------------------------
(***************************************************************************)
(* The interpreter's contexts, for any names and values, any nesting limit *)
(* and any depth of activations.                                           *)
(*                                                                         *)
(* What has to be true of a stack of activations and its contexts is said  *)
(* of any two sequences, cs and st, for a step of Context may take the     *)
(* innermost activation off and put another one on.                        *)
(***************************************************************************)
EXTENDS Context, FiniteSetTheorems, SequenceTheorems, WellFoundedInduction, TLAPS

Ctx == [chain : SUBSET Nat, map : Maps, try : Nat, handler : BOOLEAN,
        safe : BOOLEAN, level : Nat]
Act == [kind : Kinds, in : Nat, on : Nat, guard : BOOLEAN]

Typed(cs, st) ==
  /\ cs \in Seq(Ctx) /\ st \in Seq(Act)
  /\ Len(cs) >= Session
  /\ \A i \in 1..Len(st) : st[i].in \in Session..Len(cs) /\ st[i].on \in Session..Len(cs)

\* A context but the first two belongs to one activation, and the page is at the bottom.
Owned(cs, st) ==
  /\ \A c \in 1..Len(cs) : c > Session =>
       \E i \in 1..Len(st) : st[i].kind \in Owning /\ st[i].in = c
  /\ \A i \in 1..Len(st) : /\ st[i].kind \in Owning => st[i].in > Session
                           /\ st[i].kind = "page" => i = 1

\* Contexts are made and destroyed in the order of the activations.
Stacked(st) ==
  /\ \A i \in 1..Len(st) : st[i].kind # "safe-expand" => st[i].in = st[i].on
  /\ \A i, j \in 1..Len(st) : i < j =>
       /\ st[i].on <= st[j].on
       /\ st[j].kind \in Owning => st[i].in < st[j].in /\ st[i].on < st[j].in

\* The parents of a context are older; what is expanded is below what was before.
Linked(cs, st) ==
  /\ \A c \in 1..Len(cs) : cs[c].chain \subseteq 1..c /\ c \in cs[c].chain
  /\ \A i \in 1..Len(st) :
       st[i].kind = "safe-expand" => cs[st[i].in].chain = {st[i].in}
  /\ \A i, j \in 1..Len(st) : i <= j => st[i].on \in cs[st[j].on].chain

Frame(cs, st) == Typed(cs, st) /\ Owned(cs, st) /\ Stacked(st) /\ Linked(cs, st)

TriesOf(cs, st, c) == {i \in 1..Len(st) : st[i].kind = "try" /\ st[i].on \in cs[c].chain}

Balanced(cs, st) ==
  \A c \in 1..Len(cs) :
    cs[c].try = Cardinality(TriesOf(cs, st, c)) + (IF cs[c].handler THEN 1 ELSE 0)

Safe(cs, st) ==
  \A i, j \in 1..Len(st) : i < j /\ cs[st[i].on].safe => cs[st[j].on].safe

Good(cs, st) == Frame(cs, st) /\ Balanced(cs, st) /\ Safe(cs, st)

\* A safe-expand hides every try of the stack.
Hidden(st) ==
  \A i \in 1..Len(st) : st[i].kind = "try" =>
    \E j \in 1..Len(st) : j > i /\ st[j].kind = "safe-expand"

\* A try statement of ParseFunc is in the activation below.
Guarded(st) == \A i \in 1..Len(st) : st[i].guard => i > 1

IInv ==
  /\ Good(ctxs, acts)
  /\ Guarded(acts)
  /\ exc = "guarded" => acts # <<>>
  /\ said => Hidden(acts)
  /\ exc \in {"none", "ex", "abort", "guarded"}
  /\ said \in BOOLEAN

-----------------------------------------------------------------------------
(* Sequences                                                               *)

LEMMA AppendSeq ==
  ASSUME NEW S, NEW s \in Seq(S), NEW x \in S
  PROVE  /\ Append(s, x) \in Seq(S)
         /\ Len(Append(s, x)) = Len(s) + 1
         /\ \A i \in 1..Len(s) : Append(s, x)[i] = s[i]
         /\ Append(s, x)[Len(s) + 1] = x
  OBVIOUS

LEMMA FrontSeq ==
  ASSUME NEW S, NEW s \in Seq(S), s # <<>>
  PROVE  /\ Front(s) \in Seq(S)
         /\ Len(Front(s)) = Len(s) - 1
         /\ \A i \in 1..(Len(s) - 1) : Front(s)[i] = s[i]
         /\ Len(s) \in Nat \ {0}
         /\ Last(s) = s[Len(s)] /\ Last(s) \in S
<1>1. PICK n \in Nat : Len(s) = n + 1
  <2>1. Len(s) \in Nat \ {0}
    BY EmptySeq
  <2>2. \A k \in Nat \ {0} : k - 1 \in Nat /\ k = (k - 1) + 1
    OBVIOUS
  <2>. QED
    BY <2>1, <2>2
<1>2. Len(s) - 1 = n /\ Len(s) \in Nat \ {0}
  BY <1>1
<1>3. \A i \in 1..n : s[i] \in S
  BY <1>1, ElementOfSeq
<1>4. Front(s) = SubSeq(s, 1, n)
  BY <1>2 DEF Front
<1>5. /\ Front(s) \in Seq(S)
      /\ Len(Front(s)) = IF 1 <= n THEN n - 1 + 1 ELSE 0
      /\ \A i \in 1..(n - 1 + 1) : Front(s)[i] = s[1 + i - 1]
  BY <1>3, <1>4, SubSeqProperties
<1>6. \A i \in 1..n : i \in 1..(n - 1 + 1) /\ 1 + i - 1 = i
  OBVIOUS
<1>7. (IF 1 <= n THEN n - 1 + 1 ELSE 0) = n
  OBVIOUS
<1>8. Last(s) = s[Len(s)] /\ Last(s) \in S
  BY <1>2, ElementOfSeq DEF Last
<1>9. \A i \in 1..n : Front(s)[i] = s[i]
  BY <1>5, <1>6
<1>. QED
  BY <1>2, <1>5, <1>7, <1>8, <1>9

-----------------------------------------------------------------------------
(* The number of tries                                                      *)

LEMMA TriesFinite ==
  ASSUME NEW cs, NEW st \in Seq(Act), NEW c
  PROVE  /\ IsFiniteSet(TriesOf(cs, st, c))
         /\ Cardinality(TriesOf(cs, st, c)) \in Nat
<1>1. IsFiniteSet(1..Len(st))
  BY FS_Interval
<1>2. TriesOf(cs, st, c) \in SUBSET (1..Len(st))
  BY DEF TriesOf
<1>. QED
  BY <1>1, <1>2, FS_Subset, FS_CardinalityType

\* A context that counts no try is below none.
LEMMA NoTry ==
  ASSUME NEW cs, NEW st, Good(cs, st), NEW c \in 1..Len(cs), cs[c].try = 0,
         NEW i \in 1..Len(st), st[i].kind = "try"
  PROVE  st[i].on \notin cs[c].chain /\ ~cs[c].handler
<1>1. cs[c].try = Cardinality(TriesOf(cs, st, c)) + (IF cs[c].handler THEN 1 ELSE 0)
  BY DEF Good, Balanced
<1>2. IsFiniteSet(TriesOf(cs, st, c)) /\ Cardinality(TriesOf(cs, st, c)) \in Nat
  BY TriesFinite DEF Good, Frame, Typed
<1>3. Cardinality(TriesOf(cs, st, c)) = 0 /\ ~cs[c].handler
  BY <1>1, <1>2
<1>4. TriesOf(cs, st, c) = {}
  BY <1>2, <1>3, FS_EmptySet
<1>. QED
  BY <1>3, <1>4 DEF TriesOf

-----------------------------------------------------------------------------
(* The innermost activation                                                *)

\* A context p that may be given to an activation on top of st.
Fits(cs, st, p) ==
  /\ p \in Session..Len(cs)
  /\ \A i \in 1..Len(st) :
       /\ st[i].on <= p
       /\ st[i].on \in cs[p].chain
       /\ cs[st[i].on].safe => cs[p].safe

LEMMA TopFits ==
  ASSUME NEW cs, NEW st, Good(cs, st), st # <<>>
  PROVE  Fits(cs, st, Last(st).on) /\ Fits(cs, Front(st), Last(st).on)
<1>. DEFINE n == Len(st)
<1>1. n \in Nat \ {0} /\ Last(st) = st[n] /\ Len(Front(st)) = n - 1
      /\ \A i \in 1..(n - 1) : Front(st)[i] = st[i]
  BY FrontSeq DEF Good, Frame, Typed
<1>2. n \in 1..Len(st)
  BY <1>1
<1>3. st[n].on \in Session..Len(cs)
  BY <1>2 DEF Good, Frame, Typed
<1>4. ASSUME NEW i \in 1..n
      PROVE  /\ st[i].on <= st[n].on
             /\ st[i].on \in cs[st[n].on].chain
             /\ cs[st[i].on].safe => cs[st[n].on].safe
  <2>1. i = n \/ i < n
    BY <1>1
  <2>2. st[n].on <= st[n].on
    BY <1>3 DEF Session
  <2>3. st[i].on \in cs[st[n].on].chain
    BY <1>2, <2>1 DEF Good, Frame, Linked
  <2>. QED
    BY <1>2, <2>1, <2>2, <2>3 DEF Good, Frame, Stacked, Safe
<1>5. \A i \in 1..(n - 1) : i \in 1..n
  BY <1>1
<1>. QED
  BY <1>1, <1>3, <1>4, <1>5 DEF Fits

\* No context is below the one the innermost activation gives to its macros.
LEMMA Innermost ==
  ASSUME NEW cs, NEW st, Frame(cs, st), st # <<>>, NEW c \in 1..Len(cs),
         Last(st).on \in cs[c].chain
  PROVE  c = Last(st).on
<1>. DEFINE n == Len(st)
<1>1. n \in Nat \ {0} /\ Last(st) = st[n]
  BY FrontSeq DEF Frame, Typed
<1>2. n \in 1..Len(st)
  BY <1>1
<1>3. st[n].on \in Session..Len(cs) /\ st[n].on <= c
  BY <1>1, <1>2 DEF Frame, Typed, Linked
<1>4. SUFFICES ASSUME st[n].on < c PROVE FALSE
  BY <1>1, <1>3 DEF Session, Frame, Typed
<1>5. c > Session
  BY <1>3, <1>4 DEF Session
<1>6. PICK i \in 1..Len(st) : st[i].kind \in Owning /\ st[i].in = c
  BY <1>5 DEF Frame, Owned
<1>7. st[i].kind # "safe-expand"
  BY <1>1, <1>4, <1>6 DEF Frame, Linked
<1>8. st[i].on = c
  BY <1>6, <1>7 DEF Frame, Stacked
<1>9. i = n \/ i < n
  BY <1>1
<1>. QED
  BY <1>2, <1>4, <1>8, <1>9, <1>3 DEF Frame, Stacked, Session

-----------------------------------------------------------------------------
(* Changes of the contexts that leave their order alone                    *)

Like(cs, ds) ==
  /\ ds \in Seq(Ctx) /\ Len(ds) = Len(cs)
  /\ \A c \in 1..Len(cs) : ds[c].chain = cs[c].chain

LEMMA FrameLike ==
  ASSUME NEW cs, NEW ds, NEW st, Frame(cs, st), Like(cs, ds)
  PROVE  /\ Frame(ds, st)
         /\ \A c \in 1..Len(cs) : TriesOf(ds, st, c) = TriesOf(cs, st, c)
<1>0. /\ Len(ds) = Len(cs) /\ Len(cs) \in Nat
      /\ \A i \in 1..Len(st) : st[i].in \in 1..Len(cs) /\ st[i].on \in 1..Len(cs)
  BY DEF Like, Frame, Typed, Session
<1>1. Typed(ds, st)
  BY <1>0 DEF Like, Frame, Typed
<1>2. Owned(ds, st)
  BY <1>0 DEF Frame, Owned
<1>3. Linked(ds, st)
  BY <1>0 DEF Like, Frame, Linked
<1>4. \A c \in 1..Len(cs) : TriesOf(ds, st, c) = TriesOf(cs, st, c)
  BY DEF Like, TriesOf
<1>. QED
  BY <1>1, <1>2, <1>3, <1>4 DEF Frame

\* The names and the level of a context decide about nothing else.
LEMMA Remapped ==
  ASSUME NEW cs, NEW ds, NEW st, Good(cs, st), Like(cs, ds),
         \A c \in 1..Len(cs) : /\ ds[c].try = cs[c].try
                               /\ ds[c].handler = cs[c].handler
                               /\ ds[c].safe = cs[c].safe
  PROVE  Good(ds, st)
<1>1. Frame(ds, st) /\ \A c \in 1..Len(cs) : TriesOf(ds, st, c) = TriesOf(cs, st, c)
  BY FrameLike DEF Good
<1>2. Len(ds) = Len(cs)
  BY DEF Like
<1>3. Balanced(ds, st)
  BY <1>1, <1>2 DEF Good, Balanced
<1>4. \A i \in 1..Len(st) : st[i].on \in 1..Len(cs)
  BY DEF Good, Frame, Typed, Session
<1>5. Safe(ds, st)
  BY <1>4 DEF Good, Safe
<1>. QED
  BY <1>1, <1>3, <1>5 DEF Good

\* errorhandler: the context counts its handler as one more try.
LEMMA HandlerSet ==
  ASSUME NEW cs, NEW st, Good(cs, st), NEW p \in 1..Len(cs), NEW b \in BOOLEAN
  PROVE  Good([cs EXCEPT ![p] =
                [cs[p] EXCEPT !.handler = b,
                              !.try = (cs[p].try - (IF cs[p].handler THEN 1 ELSE 0))
                                      + (IF b THEN 1 ELSE 0)]], st)
<1>. DEFINE t == (cs[p].try - (IF cs[p].handler THEN 1 ELSE 0)) + (IF b THEN 1 ELSE 0)
            x == [cs[p] EXCEPT !.handler = b, !.try = t]
            ds == [cs EXCEPT ![p] = x]
<1>1. cs \in Seq(Ctx) /\ cs[p] \in Ctx
  BY ElementOfSeq DEF Good, Frame, Typed
<1>2. Cardinality(TriesOf(cs, st, p)) \in Nat
  BY TriesFinite DEF Good, Frame, Typed
<1>3. cs[p].try = Cardinality(TriesOf(cs, st, p)) + (IF cs[p].handler THEN 1 ELSE 0)
  BY DEF Good, Balanced
<1>4. t = Cardinality(TriesOf(cs, st, p)) + (IF b THEN 1 ELSE 0) /\ t \in Nat
  BY <1>2, <1>3
<1>5. /\ x \in Ctx /\ x.chain = cs[p].chain /\ x.try = t /\ x.handler = b
      /\ x.safe = cs[p].safe
  <2>. HIDE DEF t
  <2>. QED
    BY <1>1, <1>4 DEF Ctx
<1>. HIDE DEF x, t
<1>6. /\ ds \in Seq(Ctx) /\ Len(ds) = Len(cs)
      /\ \A c \in 1..Len(cs) : ds[c] = IF c = p THEN x ELSE cs[c]
  BY <1>1, <1>5, ExceptSeq
<1>. HIDE DEF ds
<1>7. Like(cs, ds)
  BY <1>5, <1>6 DEF Like
<1>8. Frame(ds, st) /\ \A c \in 1..Len(cs) : TriesOf(ds, st, c) = TriesOf(cs, st, c)
  BY <1>7, FrameLike DEF Good
<1>9. Balanced(ds, st)
  <2>1. SUFFICES ASSUME NEW c \in 1..Len(cs)
                 PROVE  ds[c].try = Cardinality(TriesOf(ds, st, c))
                                    + (IF ds[c].handler THEN 1 ELSE 0)
    BY <1>6 DEF Balanced
  <2>2. CASE c = p
    BY <2>2, <1>4, <1>5, <1>6, <1>8
  <2>3. CASE c # p
    BY <2>3, <1>6, <1>8 DEF Good, Balanced
  <2>. QED
    BY <2>2, <2>3
<1>10. \A c \in 1..Len(cs) : ds[c].safe = cs[c].safe
  BY <1>5, <1>6
<1>11. \A i \in 1..Len(st) : st[i].on \in 1..Len(cs)
  BY DEF Good, Frame, Typed, Session
<1>12. Safe(ds, st)
  BY <1>10, <1>11 DEF Good, Safe
<1>. QED
  BY <1>8, <1>9, <1>12 DEF Good, ds, x, t

\* safe-mode: what is expanded further in is given the same context.
LEMMA SafeSet ==
  ASSUME NEW cs, NEW st, Good(cs, st), st # <<>>
  PROVE  Good([cs EXCEPT ![Last(st).on].safe = TRUE], st)
<1>. DEFINE p == Last(st).on
            x == [cs[p] EXCEPT !.safe = TRUE]
            ds == [cs EXCEPT ![p] = x]
<1>0. Fits(cs, st, p)
  BY TopFits
<1>1. p \in 1..Len(cs)
  BY <1>0 DEF Fits, Session
<1>2. cs \in Seq(Ctx) /\ cs[p] \in Ctx
  BY <1>1, ElementOfSeq DEF Good, Frame, Typed
<1>3. /\ x \in Ctx /\ x.chain = cs[p].chain /\ x.try = cs[p].try
      /\ x.handler = cs[p].handler /\ x.safe
  BY <1>2 DEF Ctx
<1>4. ds = [cs EXCEPT ![Last(st).on].safe = TRUE]
  OBVIOUS
<1>. HIDE DEF x
<1>5. /\ ds \in Seq(Ctx) /\ Len(ds) = Len(cs)
      /\ \A c \in 1..Len(cs) : ds[c] = IF c = p THEN x ELSE cs[c]
  BY <1>1, <1>2, <1>3, ExceptSeq
<1>. HIDE DEF ds
<1>6. Like(cs, ds)
  BY <1>3, <1>5 DEF Like
<1>7. Frame(ds, st) /\ \A c \in 1..Len(cs) : TriesOf(ds, st, c) = TriesOf(cs, st, c)
  BY <1>6, FrameLike DEF Good
<1>8. \A c \in 1..Len(cs) : ds[c].try = cs[c].try /\ ds[c].handler = cs[c].handler
  BY <1>3, <1>5
<1>9. Balanced(ds, st)
  BY <1>5, <1>7, <1>8 DEF Good, Balanced
<1>10. Safe(ds, st)
  <2>1. SUFFICES ASSUME NEW i \in 1..Len(st), NEW j \in 1..Len(st), i < j,
                        ds[st[i].on].safe
                 PROVE  ds[st[j].on].safe
    BY DEF Safe
  <2>2. st[i].on \in 1..Len(cs) /\ st[j].on \in 1..Len(cs)
    BY DEF Good, Frame, Typed, Session
  <2>3. st[i].on <= st[j].on /\ st[j].on <= p
    BY <2>1, <1>0 DEF Fits, Good, Frame, Stacked
  <2>4. CASE st[i].on = p
    <3>1. st[j].on = p
      BY <2>2, <2>3, <2>4, <1>1
    <3>. QED
      BY <3>1, <1>1, <1>3, <1>5
  <2>5. CASE st[i].on # p
    <3>1. cs[st[i].on].safe
      BY <2>1, <2>2, <2>5, <1>5
    <3>2. cs[st[j].on].safe
      BY <2>1, <3>1 DEF Good, Safe
    <3>. QED
      BY <2>2, <3>2, <1>3, <1>5
  <2>. QED
    BY <2>4, <2>5
<1>. QED
  BY <1>4, <1>7, <1>9, <1>10 DEF Good

-----------------------------------------------------------------------------
(* An activation is begun                                                  *)

Grown(st, ss) ==
  /\ Len(st) \in Nat /\ Len(ss) = Len(st) + 1
  /\ \A i \in 1..Len(st) : ss[i] = st[i]

\* d sees of the contexts on the stack what c saw.
Sees(cs, c, ds, d, st) ==
  \A i \in 1..Len(st) : st[i].on \in ds[d].chain <=> st[i].on \in cs[c].chain

\* The tries are counted as before if what is begun is not a try.
LEMMA TriesUp ==
  ASSUME NEW cs, NEW ds, NEW st, NEW ss, Grown(st, ss), ss[Len(ss)].kind # "try",
         NEW c, NEW d, Sees(cs, c, ds, d, st)
  PROVE  TriesOf(ds, ss, d) = TriesOf(cs, st, c)
<1>. DEFINE k == Len(st)
<1>1. /\ k \in Nat /\ Len(ss) = k + 1
      /\ \A i \in 1..k : ss[i] = st[i]
  BY DEF Grown
<1>2. \A i \in 1..(k + 1) : i = k + 1 \/ i \in 1..k
  BY <1>1
<1>3. \A i \in 1..k : i \in 1..(k + 1)
  BY <1>1
<1>4. ss[k + 1].kind # "try"
  BY <1>1
<1>5. \A i \in 1..k : st[i].on \in ds[d].chain <=> st[i].on \in cs[c].chain
  BY DEF Sees
<1>6. TriesOf(ds, ss, d) = {i \in 1..(k + 1) : ss[i].kind = "try" /\ ss[i].on \in ds[d].chain}
  BY <1>1 DEF TriesOf
<1>. HIDE DEF k
<1>7. {i \in 1..(k + 1) : ss[i].kind = "try" /\ ss[i].on \in ds[d].chain}
      = {i \in 1..k : st[i].kind = "try" /\ st[i].on \in cs[c].chain}
  BY <1>1, <1>2, <1>3, <1>4, <1>5
<1>. QED
  BY <1>6, <1>7 DEF TriesOf, k

LEMMA FrameUp ==
  ASSUME NEW cs, NEW st, Frame(cs, st), NEW x \in Ctx, NEW a \in Act,
         a.kind \in Owning, a.in = Len(cs) + 1, a.on \in Session..(Len(cs) + 1),
         x.chain \subseteq 1..(Len(cs) + 1), Len(cs) + 1 \in x.chain,
         \A i \in 1..Len(st) : st[i].on <= a.on,
         \A i \in 1..Len(st) : st[i].on \in Append(cs, x)[a.on].chain,
         a.kind = "safe-expand" => x.chain = {Len(cs) + 1},
         a.kind # "safe-expand" => a.on = Len(cs) + 1
  PROVE  Frame(Append(cs, x), Append(st, a))
<1>. DEFINE ds == Append(cs, x)
            ss == Append(st, a)
            n == Len(cs)
            k == Len(st)
<1>0. cs \in Seq(Ctx) /\ st \in Seq(Act) /\ n \in Nat /\ k \in Nat /\ n >= 2
  BY DEF Frame, Typed, Session
<1>1. /\ ds \in Seq(Ctx) /\ Len(ds) = n + 1 /\ ds[n + 1] = x
      /\ \A c \in 1..n : ds[c] = cs[c]
  BY <1>0, AppendSeq
<1>2. /\ ss \in Seq(Act) /\ Len(ss) = k + 1 /\ ss[k + 1] = a
      /\ \A i \in 1..k : ss[i] = st[i]
  BY <1>0, AppendSeq
<1>3. /\ \A i \in 1..(k + 1) : i = k + 1 \/ i \in 1..k
      /\ \A i \in 1..k : i \in 1..(k + 1) /\ i < k + 1
      /\ k + 1 \in 1..(k + 1)
  BY <1>0
<1>4. /\ \A c \in 1..(n + 1) : c = n + 1 \/ c \in 1..n
      /\ \A c \in 1..n : c \in 1..(n + 1)
      /\ n + 1 \in 1..(n + 1)
  BY <1>0
<1>5. \A i \in 1..k : st[i].in \in 2..n /\ st[i].on \in 2..n
  BY DEF Frame, Typed, Session
<1>6. a.on \in 2..(n + 1) /\ a.in \in 2..(n + 1)
  BY <1>0 DEF Session
<1>. HIDE DEF ds, ss, n, k
<1>7. Typed(ds, ss)
  <2>1. \A i \in 1..(k + 1) : ss[i].in \in 2..(n + 1) /\ ss[i].on \in 2..(n + 1)
    <3>1. \A i \in 1..k : ss[i].in \in 2..(n + 1) /\ ss[i].on \in 2..(n + 1)
      <4>1. \A c \in 2..n : c \in 2..(n + 1)
        BY <1>0
      <4>. QED
        BY <4>1, <1>2, <1>5
    <3>. QED
      BY <3>1, <1>2, <1>3, <1>6
  <2>. QED
    BY <2>1, <1>0, <1>1, <1>2 DEF Typed, Session
<1>8. Owned(ds, ss)
  <2>1. ASSUME NEW c \in 1..(n + 1), c > Session
        PROVE  \E i \in 1..(k + 1) : ss[i].kind \in Owning /\ ss[i].in = c
    <3>1. CASE c = n + 1
      BY <3>1, <1>2, <1>3 DEF n
    <3>2. CASE c \in 1..n
      <4>1. PICK i \in 1..k : st[i].kind \in Owning /\ st[i].in = c
        BY <2>1, <3>2 DEF Frame, Owned, n, k
      <4>. QED
        BY <4>1, <1>2, <1>3
    <3>. QED
      BY <3>1, <3>2, <1>4
  <2>2. ASSUME NEW i \in 1..(k + 1)
        PROVE  /\ ss[i].kind \in Owning => ss[i].in > Session
               /\ ss[i].kind = "page" => i = 1
    <3>1. CASE i = k + 1
      <4>1. a.kind # "page" /\ a.in > 2
        BY <1>0 DEF Owning, n
      <4>. QED
        BY <3>1, <4>1, <1>2 DEF Session
    <3>2. CASE i \in 1..k
      BY <3>2, <1>2 DEF Frame, Owned, k
    <3>. QED
      BY <3>1, <3>2, <1>3
  <2>. QED
    BY <2>1, <2>2, <1>1, <1>2 DEF Owned
<1>9. Stacked(ss)
  <2>1. ASSUME NEW i \in 1..(k + 1), ss[i].kind # "safe-expand"
        PROVE  ss[i].in = ss[i].on
    <3>1. CASE i = k + 1
      BY <2>1, <3>1, <1>2
    <3>2. CASE i \in 1..k
      BY <2>1, <3>2, <1>2 DEF Frame, Stacked, k
    <3>. QED
      BY <3>1, <3>2, <1>3
  <2>2. ASSUME NEW i \in 1..(k + 1), NEW j \in 1..(k + 1), i < j
        PROVE  /\ ss[i].on <= ss[j].on
               /\ ss[j].kind \in Owning => ss[i].in < ss[j].in /\ ss[i].on < ss[j].in
    <3>1. i \in 1..k
      BY <2>2, <1>0, <1>3
    <3>2. CASE j = k + 1
      <4>1. st[i].on <= a.on
        BY <3>1 DEF k
      <4>2. st[i].in < n + 1 /\ st[i].on < n + 1
        BY <3>1, <1>0, <1>5
      <4>. QED
        BY <3>1, <3>2, <4>1, <4>2, <1>2 DEF n
    <3>3. CASE j \in 1..k
      BY <2>2, <3>1, <3>3, <1>2 DEF Frame, Stacked, k
    <3>. QED
      BY <3>2, <3>3, <1>3
  <2>. QED
    BY <2>1, <2>2, <1>2 DEF Stacked
<1>10. Linked(ds, ss)
  <2>1. ASSUME NEW c \in 1..(n + 1)
        PROVE  ds[c].chain \subseteq 1..c /\ c \in ds[c].chain
    <3>1. CASE c = n + 1
      BY <3>1, <1>1 DEF n
    <3>2. CASE c \in 1..n
      BY <3>2, <1>1 DEF Frame, Linked, n
    <3>. QED
      BY <3>1, <3>2, <1>4
  <2>2. ASSUME NEW i \in 1..(k + 1), ss[i].kind = "safe-expand"
        PROVE  ds[ss[i].in].chain = {ss[i].in}
    <3>1. CASE i = k + 1
      BY <2>2, <3>1, <1>1, <1>2 DEF n
    <3>2. CASE i \in 1..k
      <4>1. cs[st[i].in].chain = {st[i].in} /\ st[i].in \in 1..n
        BY <2>2, <3>2, <1>2, <1>5 DEF Frame, Linked, k
      <4>. QED
        BY <3>2, <4>1, <1>1, <1>2
    <3>. QED
      BY <3>1, <3>2, <1>3
  <2>3. ASSUME NEW i \in 1..(k + 1), NEW j \in 1..(k + 1), i <= j
        PROVE  ss[i].on \in ds[ss[j].on].chain
    <3>1. CASE j = k + 1 /\ i = k + 1
      BY <3>1, <2>1, <1>2, <1>6
    <3>2. CASE j = k + 1 /\ i \in 1..k
      BY <3>2, <1>2 DEF ds, k
    <3>3. CASE j \in 1..k
      <4>1. i \in 1..k
        BY <2>3, <3>3, <1>0, <1>3
      <4>2. st[i].on \in cs[st[j].on].chain /\ st[j].on \in 1..n
        BY <2>3, <3>3, <4>1, <1>5 DEF Frame, Linked, k
      <4>. QED
        BY <3>3, <4>1, <4>2, <1>1, <1>2
    <3>. QED
      BY <3>1, <3>2, <3>3, <1>3
  <2>. QED
    BY <2>1, <2>2, <2>3, <1>1, <1>2 DEF Linked
<1>. QED
  BY <1>7, <1>8, <1>9, <1>10 DEF Frame, ds, ss

\* Call, Sub, Catch and Unhandled.
LEMMA PushChild ==
  ASSUME NEW cs, NEW st, Good(cs, st), NEW p, Fits(cs, st, p), NEW m \in Maps,
         NEW kind \in Owning \ {"safe-expand"}, NEW g \in BOOLEAN
  PROVE  Good(Append(cs, Child(cs, p, m)),
              Append(st, Activation(kind, Len(cs) + 1, Len(cs) + 1, g)))
<1>. DEFINE n == Len(cs)
            k == Len(st)
            x == Child(cs, p, m)
            a == Activation(kind, Len(cs) + 1, Len(cs) + 1, g)
            ds == Append(cs, x)
            ss == Append(st, a)
<1>0. cs \in Seq(Ctx) /\ st \in Seq(Act) /\ n \in Nat /\ k \in Nat /\ n >= 2
  BY DEF Good, Frame, Typed, Session
<1>1. p \in 1..n /\ p \in 2..n
  BY DEF Fits, Session
<1>2. cs[p] \in Ctx /\ cs[p].chain \subseteq 1..p
  BY <1>0, <1>1, ElementOfSeq DEF Good, Frame, Linked
<1>3. /\ x \in Ctx /\ x.chain = cs[p].chain \cup {n + 1}
      /\ x.try = cs[p].try /\ x.handler = cs[p].handler /\ x.safe = cs[p].safe
  <2>1. cs[p].chain \cup {n + 1} \in SUBSET Nat /\ cs[p].level + 1 \in Nat
    <3>1. cs[p].chain \in SUBSET Nat /\ cs[p].level \in Nat
      BY <1>2 DEF Ctx
    <3>2. {n + 1} \in SUBSET Nat
      BY <1>0
    <3>. QED
      BY <3>1, <3>2
  <2>. HIDE DEF n
  <2>. QED
    BY <2>1, <1>2 DEF Child, Ctx, n
<1>4. /\ a \in Act /\ a.kind = kind /\ a.in = n + 1 /\ a.on = n + 1
  BY <1>0 DEF Activation, Act, Owning, Kinds
<1>5. \A i \in 1..k : st[i].on \in 1..n /\ st[i].on <= n + 1 /\ st[i].on \in cs[p].chain
  BY <1>0 DEF Good, Frame, Typed, Session, Fits
<1>6. /\ ds \in Seq(Ctx) /\ Len(ds) = n + 1 /\ ds[n + 1] = x
      /\ \A c \in 1..n : ds[c] = cs[c]
  BY <1>0, <1>3, AppendSeq
<1>7. /\ ss \in Seq(Act) /\ Len(ss) = k + 1 /\ ss[k + 1] = a
      /\ \A i \in 1..k : ss[i] = st[i]
  BY <1>0, <1>4, AppendSeq
<1>. HIDE DEF x, a, ds, ss
<1>8. Frame(ds, ss)
  <2>1. x.chain \subseteq 1..(n + 1) /\ n + 1 \in x.chain
    BY <1>0, <1>1, <1>2, <1>3
  <2>2. a.kind \in Owning /\ a.kind # "safe-expand" /\ a.on \in Session..(n + 1)
    BY <1>0, <1>4 DEF Session
  <2>3. \A i \in 1..k : st[i].on \in ds[a.on].chain /\ st[i].on <= a.on
    BY <1>3, <1>4, <1>5, <1>6
  <2>. QED
    BY <2>1, <2>2, <2>3, <1>3, <1>4, FrameUp DEF Good, ds, ss
<1>9. Balanced(ds, ss)
  <2>0. ss[Len(ss)].kind # "try" /\ Grown(st, ss)
    BY <1>0, <1>4, <1>7 DEF Owning, Grown
  <2>1. ASSUME NEW c \in 1..n
        PROVE  ds[c].try = Cardinality(TriesOf(ds, ss, c)) + (IF ds[c].handler THEN 1 ELSE 0)
    <3>1. Sees(cs, c, ds, c, st)
      BY <1>6 DEF Sees
    <3>2. TriesOf(ds, ss, c) = TriesOf(cs, st, c)
      BY <2>0, <3>1, TriesUp
    <3>. QED
      BY <3>2, <1>6 DEF Good, Balanced
  <2>2. x.try = Cardinality(TriesOf(ds, ss, n + 1)) + (IF x.handler THEN 1 ELSE 0)
    <3>1. \A i \in 1..k : st[i].on # n + 1
      BY <1>0, <1>5
    <3>2. Sees(cs, p, ds, n + 1, st)
      BY <3>1, <1>3, <1>6 DEF Sees
    <3>3. TriesOf(ds, ss, n + 1) = TriesOf(cs, st, p)
      BY <2>0, <3>2, TriesUp
    <3>. QED
      BY <3>3, <1>1, <1>3 DEF Good, Balanced
  <2>3. \A c \in 1..(n + 1) : c = n + 1 \/ c \in 1..n
    BY <1>0
  <2>. QED
    BY <2>1, <2>2, <2>3, <1>6 DEF Balanced
<1>10. Safe(ds, ss)
  <2>1. SUFFICES ASSUME NEW i \in 1..(k + 1), NEW j \in 1..(k + 1), i < j,
                        ds[ss[i].on].safe
                 PROVE  ds[ss[j].on].safe
    BY <1>7 DEF Safe
  <2>2. i \in 1..k
    BY <2>1, <1>0
  <2>3. cs[st[i].on].safe
    BY <2>1, <2>2, <1>5, <1>6, <1>7
  <2>4. CASE j = k + 1
    BY <2>2, <2>3, <2>4, <1>3, <1>4, <1>6, <1>7 DEF Fits
  <2>5. CASE j \in 1..k
    BY <2>1, <2>2, <2>3, <2>5, <1>5, <1>6, <1>7 DEF Good, Safe
  <2>6. j = k + 1 \/ j \in 1..k
    BY <1>0
  <2>. QED
    BY <2>4, <2>5, <2>6
<1>. QED
  BY <1>8, <1>9, <1>10 DEF Good, ds, ss, x, a

\* EvalSafeExpand.
LEMMA PushOrphan ==
  ASSUME NEW cs, NEW st, Good(cs, st), NEW p, Fits(cs, st, p), NEW g \in BOOLEAN
  PROVE  Good(Append(cs, Orphan(cs)),
              Append(st, Activation("safe-expand", Len(cs) + 1, p, g)))
<1>. DEFINE n == Len(cs)
            k == Len(st)
            x == Orphan(cs)
            a == Activation("safe-expand", Len(cs) + 1, p, g)
            ds == Append(cs, x)
            ss == Append(st, a)
<1>0. cs \in Seq(Ctx) /\ st \in Seq(Act) /\ n \in Nat /\ k \in Nat /\ n >= 2
  BY DEF Good, Frame, Typed, Session
<1>1. p \in 1..n /\ p \in 2..n
  BY DEF Fits, Session
<1>2. /\ x \in Ctx /\ x.chain = {n + 1} /\ x.try = 0 /\ ~x.handler /\ ~x.safe
  <2>1. NoNames \in Maps
    BY DEF NoNames, Maps
  <2>2. {n + 1} \in SUBSET Nat
    BY <1>0
  <2>. HIDE DEF n
  <2>. QED
    BY <2>1, <2>2 DEF Orphan, Ctx, n
<1>4. /\ a \in Act /\ a.kind = "safe-expand" /\ a.in = n + 1 /\ a.on = p
  BY <1>0, <1>1 DEF Activation, Act, Kinds
<1>5. \A i \in 1..k : st[i].on \in 1..n /\ st[i].on <= p /\ st[i].on \in cs[p].chain
  BY <1>0 DEF Good, Frame, Typed, Session, Fits
<1>6. /\ ds \in Seq(Ctx) /\ Len(ds) = n + 1 /\ ds[n + 1] = x
      /\ \A c \in 1..n : ds[c] = cs[c]
  BY <1>0, <1>2, AppendSeq
<1>7. /\ ss \in Seq(Act) /\ Len(ss) = k + 1 /\ ss[k + 1] = a
      /\ \A i \in 1..k : ss[i] = st[i]
  BY <1>0, <1>4, AppendSeq
<1>. HIDE DEF x, a, ds, ss
<1>8. Frame(ds, ss)
  <2>1. x.chain \subseteq 1..(n + 1) /\ n + 1 \in x.chain
    BY <1>0, <1>2
  <2>2. a.kind \in Owning /\ a.on \in Session..(n + 1)
    BY <1>0, <1>1, <1>4 DEF Session, Owning
  <2>3. \A i \in 1..k : st[i].on \in ds[a.on].chain /\ st[i].on <= a.on
    BY <1>1, <1>4, <1>5, <1>6
  <2>. QED
    BY <2>1, <2>2, <2>3, <1>2, <1>4, FrameUp DEF Good, ds, ss
<1>9. Balanced(ds, ss)
  <2>0. ss[Len(ss)].kind # "try" /\ Grown(st, ss)
    BY <1>0, <1>4, <1>7 DEF Grown
  <2>1. ASSUME NEW c \in 1..n
        PROVE  ds[c].try = Cardinality(TriesOf(ds, ss, c)) + (IF ds[c].handler THEN 1 ELSE 0)
    <3>1. Sees(cs, c, ds, c, st)
      BY <1>6 DEF Sees
    <3>2. TriesOf(ds, ss, c) = TriesOf(cs, st, c)
      BY <2>0, <3>1, TriesUp
    <3>. QED
      BY <3>2, <1>6 DEF Good, Balanced
  <2>2. x.try = Cardinality(TriesOf(ds, ss, n + 1)) + (IF x.handler THEN 1 ELSE 0)
    <3>1. ASSUME NEW i \in 1..(k + 1), ss[i].kind = "try", ss[i].on \in ds[n + 1].chain
          PROVE  FALSE
      <4>1. i \in 1..k
        BY <3>1, <1>0, <1>4, <1>7
      <4>2. st[i].on = n + 1
        BY <3>1, <4>1, <1>2, <1>6, <1>7
      <4>. QED
        BY <4>1, <4>2, <1>0, <1>5
    <3>2. TriesOf(ds, ss, n + 1) = {}
      BY <3>1, <1>7 DEF TriesOf
    <3>3. Cardinality(TriesOf(ds, ss, n + 1)) = 0
      BY <3>2, FS_EmptySet
    <3>. QED
      BY <3>3, <1>2
  <2>3. \A c \in 1..(n + 1) : c = n + 1 \/ c \in 1..n
    BY <1>0
  <2>. QED
    BY <2>1, <2>2, <2>3, <1>6 DEF Balanced
<1>10. Safe(ds, ss)
  <2>1. SUFFICES ASSUME NEW i \in 1..(k + 1), NEW j \in 1..(k + 1), i < j,
                        ds[ss[i].on].safe
                 PROVE  ds[ss[j].on].safe
    BY <1>7 DEF Safe
  <2>2. i \in 1..k
    BY <2>1, <1>0
  <2>3. cs[st[i].on].safe
    BY <2>1, <2>2, <1>5, <1>6, <1>7
  <2>4. CASE j = k + 1
    BY <2>2, <2>3, <2>4, <1>1, <1>4, <1>6, <1>7 DEF Fits
  <2>5. CASE j \in 1..k
    BY <2>1, <2>2, <2>3, <2>5, <1>5, <1>6, <1>7 DEF Good, Safe
  <2>6. j = k + 1 \/ j \in 1..k
    BY <1>0
  <2>. QED
    BY <2>4, <2>5, <2>6
<1>. QED
  BY <1>8, <1>9, <1>10 DEF Good, ds, ss, x, a

\* Activations that use a context that is there: Block, EvalTry and the page.
LEMMA FrameSame ==
  ASSUME NEW cs, NEW st, Frame(cs, st), NEW p, p \in Session..Len(cs),
         \A i \in 1..Len(st) : st[i].on <= p /\ st[i].on \in cs[p].chain,
         NEW a \in Act, a.in = p, a.on = p, a.kind \notin Owning,
         a.kind = "page" => st = <<>>
  PROVE  Frame(cs, Append(st, a))
<1>. DEFINE ss == Append(st, a)
            n == Len(cs)
            k == Len(st)
<1>0. cs \in Seq(Ctx) /\ st \in Seq(Act) /\ n \in Nat /\ k \in Nat /\ n >= 2
  BY DEF Frame, Typed, Session
<1>2. /\ ss \in Seq(Act) /\ Len(ss) = k + 1 /\ ss[k + 1] = a
      /\ \A i \in 1..k : ss[i] = st[i]
  BY <1>0, AppendSeq
<1>3. /\ \A i \in 1..(k + 1) : i = k + 1 \/ i \in 1..k
      /\ \A i \in 1..k : i \in 1..(k + 1) /\ i < k + 1
      /\ k + 1 \in 1..(k + 1)
  BY <1>0
<1>4. a.kind # "safe-expand" /\ (a.kind = "page" => k = 0)
  BY DEF Owning
<1>5. p \in 1..n /\ p <= p
  BY <1>0 DEF Session
<1>. HIDE DEF ss, n, k
<1>6. Typed(cs, ss)
  BY <1>2, <1>3 DEF Frame, Typed, k
<1>7. Owned(cs, ss)
  <2>1. ASSUME NEW c \in 1..n, c > Session
        PROVE  \E i \in 1..(k + 1) : ss[i].kind \in Owning /\ ss[i].in = c
    <3>1. PICK i \in 1..k : st[i].kind \in Owning /\ st[i].in = c
      BY <2>1 DEF Frame, Owned, n, k
    <3>. QED
      BY <3>1, <1>2, <1>3
  <2>2. ASSUME NEW i \in 1..(k + 1)
        PROVE  /\ ss[i].kind \in Owning => ss[i].in > Session
               /\ ss[i].kind = "page" => i = 1
    <3>1. CASE i = k + 1
      BY <3>1, <1>2, <1>4
    <3>2. CASE i \in 1..k
      BY <3>2, <1>2 DEF Frame, Owned, k
    <3>. QED
      BY <3>1, <3>2, <1>3
  <2>. QED
    BY <2>1, <2>2, <1>2 DEF Owned, n
<1>8. Stacked(ss)
  <2>1. ASSUME NEW i \in 1..(k + 1), ss[i].kind # "safe-expand"
        PROVE  ss[i].in = ss[i].on
    BY <2>1, <1>2, <1>3 DEF Frame, Stacked, k
  <2>2. ASSUME NEW i \in 1..(k + 1), NEW j \in 1..(k + 1), i < j
        PROVE  /\ ss[i].on <= ss[j].on
               /\ ss[j].kind \in Owning => ss[i].in < ss[j].in /\ ss[i].on < ss[j].in
    <3>1. i \in 1..k
      BY <2>2, <1>0, <1>3
    <3>2. CASE j = k + 1
      BY <3>1, <3>2, <1>2 DEF k
    <3>3. CASE j \in 1..k
      BY <2>2, <3>1, <3>3, <1>2 DEF Frame, Stacked, k
    <3>. QED
      BY <3>2, <3>3, <1>3
  <2>. QED
    BY <2>1, <2>2, <1>2 DEF Stacked
<1>9. Linked(cs, ss)
  <2>1. ASSUME NEW i \in 1..(k + 1), ss[i].kind = "safe-expand"
        PROVE  cs[ss[i].in].chain = {ss[i].in}
    BY <2>1, <1>2, <1>3, <1>4 DEF Frame, Linked, k
  <2>2. ASSUME NEW i \in 1..(k + 1), NEW j \in 1..(k + 1), i <= j
        PROVE  ss[i].on \in cs[ss[j].on].chain
    <3>1. CASE j = k + 1 /\ i = k + 1
      BY <3>1, <1>2, <1>5 DEF Frame, Linked, n
    <3>2. CASE j = k + 1 /\ i \in 1..k
      BY <3>2, <1>2 DEF k
    <3>3. CASE j \in 1..k
      <4>1. i \in 1..k
        BY <2>2, <3>3, <1>0, <1>3
      <4>. QED
        BY <2>2, <3>3, <4>1, <1>2 DEF Frame, Linked, k
    <3>. QED
      BY <3>1, <3>2, <3>3, <1>3
  <2>. QED
    BY <2>1, <2>2, <1>2 DEF Frame, Linked
<1>. QED
  BY <1>6, <1>7, <1>8, <1>9 DEF Frame, ss

LEMMA PushSame ==
  ASSUME NEW cs, NEW st, Good(cs, st), NEW p, Fits(cs, st, p),
         NEW kind \in {"page", "block"}, kind = "page" => st = <<>>, NEW g \in BOOLEAN
  PROVE  Good(cs, Append(st, Activation(kind, p, p, g)))
<1>. DEFINE k == Len(st)
            a == Activation(kind, p, p, g)
            ss == Append(st, a)
<1>0. st \in Seq(Act) /\ k \in Nat
  BY DEF Good, Frame, Typed
<1>1. p \in Session..Len(cs) /\ p \in Nat
  BY DEF Fits, Good, Frame, Typed, Session
<1>2. a \in Act /\ a.kind = kind /\ a.in = p /\ a.on = p /\ a.kind \notin Owning
  BY <1>1 DEF Activation, Act, Kinds, Owning
<1>3. /\ ss \in Seq(Act) /\ Len(ss) = k + 1 /\ ss[k + 1] = a
      /\ \A i \in 1..k : ss[i] = st[i]
  BY <1>0, <1>2, AppendSeq
<1>. HIDE DEF a, ss
<1>4. Frame(cs, ss)
  <2>1. \A i \in 1..Len(st) : st[i].on <= p /\ st[i].on \in cs[p].chain
    BY DEF Fits
  <2>. QED
    BY <2>1, <1>1, <1>2, FrameSame DEF Good, ss
<1>5. Balanced(cs, ss)
  <2>1. ss[Len(ss)].kind # "try" /\ Grown(st, ss)
    BY <1>0, <1>2, <1>3 DEF Grown
  <2>2. ASSUME NEW c \in 1..Len(cs)
        PROVE  TriesOf(cs, ss, c) = TriesOf(cs, st, c)
    <3>1. Sees(cs, c, cs, c, st)
      BY DEF Sees
    <3>. QED
      BY <2>1, <3>1, TriesUp
  <2>. QED
    BY <2>2 DEF Good, Balanced
<1>6. Safe(cs, ss)
  <2>1. SUFFICES ASSUME NEW i \in 1..(k + 1), NEW j \in 1..(k + 1), i < j,
                        cs[ss[i].on].safe
                 PROVE  cs[ss[j].on].safe
    BY <1>3 DEF Safe
  <2>2. i \in 1..k
    BY <2>1, <1>0
  <2>3. CASE j = k + 1
    BY <2>1, <2>2, <2>3, <1>2, <1>3 DEF Fits
  <2>4. CASE j \in 1..k
    BY <2>1, <2>2, <2>4, <1>3 DEF Good, Safe
  <2>5. j = k + 1 \/ j \in 1..k
    BY <1>0
  <2>. QED
    BY <2>3, <2>4, <2>5
<1>. QED
  BY <1>4, <1>5, <1>6 DEF Good, ss, a

\* EvalTry: the context counts one more, and no context below it is there to miss it.
LEMMA PushTry ==
  ASSUME NEW cs, NEW st, Good(cs, st), st # <<>>, NEW g \in BOOLEAN
  PROVE  Good([cs EXCEPT ![Last(st).on].try = @ + 1],
              Append(st, Activation("try", Last(st).on, Last(st).on, g)))
<1>. DEFINE k == Len(st)
            p == Last(st).on
            a == Activation("try", p, p, g)
            ss == Append(st, a)
            x == [cs[p] EXCEPT !.try = @ + 1]
            ds == [cs EXCEPT ![p] = x]
<1>0. st \in Seq(Act) /\ k \in Nat /\ cs \in Seq(Ctx) /\ Fits(cs, st, p)
  BY TopFits DEF Good, Frame, Typed
<1>1. p \in Session..Len(cs) /\ p \in 1..Len(cs) /\ p \in Nat /\ cs[p] \in Ctx
  BY <1>0, ElementOfSeq DEF Fits, Good, Frame, Typed, Session
<1>2. a \in Act /\ a.kind = "try" /\ a.in = p /\ a.on = p /\ a.kind \notin Owning
  BY <1>1 DEF Activation, Act, Kinds, Owning
<1>3. /\ ss \in Seq(Act) /\ Len(ss) = k + 1 /\ ss[k + 1] = a
      /\ \A i \in 1..k : ss[i] = st[i]
  BY <1>0, <1>2, AppendSeq
<1>4. /\ x \in Ctx /\ x.chain = cs[p].chain /\ x.try = cs[p].try + 1
      /\ x.handler = cs[p].handler /\ x.safe = cs[p].safe
  BY <1>1 DEF Ctx
<1>. HIDE DEF x
<1>5. /\ ds \in Seq(Ctx) /\ Len(ds) = Len(cs)
      /\ \A c \in 1..Len(cs) : ds[c] = IF c = p THEN x ELSE cs[c]
  BY <1>0, <1>1, <1>4, ExceptSeq
<1>6. ds = [cs EXCEPT ![Last(st).on].try = @ + 1]
  BY DEF x
<1>. HIDE DEF a, ss, ds
<1>7. Frame(cs, ss)
  <2>1. \A i \in 1..Len(st) : st[i].on <= p /\ st[i].on \in cs[p].chain
    BY <1>0 DEF Fits
  <2>2. a.kind # "page"
    BY <1>2
  <2>. HIDE DEF p
  <2>. QED
    BY <2>1, <2>2, <1>1, <1>2, FrameSame DEF Good, ss
<1>8. Like(cs, ds)
  BY <1>4, <1>5 DEF Like
<1>9. Frame(ds, ss) /\ \A c \in 1..Len(cs) : TriesOf(ds, ss, c) = TriesOf(cs, ss, c)
  BY <1>7, <1>8, FrameLike
<1>10. /\ \A i \in 1..(k + 1) : i = k + 1 \/ i \in 1..k
       /\ \A i \in 1..k : i \in 1..(k + 1)
       /\ k + 1 \in 1..(k + 1) /\ k + 1 \notin 1..k
  BY <1>0
<1>11. Balanced(ds, ss)
  <2>1. SUFFICES ASSUME NEW c \in 1..Len(cs)
                 PROVE  ds[c].try = Cardinality(TriesOf(cs, ss, c))
                                    + (IF ds[c].handler THEN 1 ELSE 0)
    BY <1>5, <1>9 DEF Balanced
  <2>2. cs[c].try = Cardinality(TriesOf(cs, st, c)) + (IF cs[c].handler THEN 1 ELSE 0)
    BY DEF Good, Balanced
  <2>3. IsFiniteSet(TriesOf(cs, st, c)) /\ Cardinality(TriesOf(cs, st, c)) \in Nat
    BY <1>0, TriesFinite
  <2>. HIDE DEF k, p
  <2>4. CASE c = p
    <3>1. p \in cs[p].chain
      BY <1>1 DEF Good, Frame, Linked
    <3>2. TriesOf(cs, ss, p) = TriesOf(cs, st, p) \cup {k + 1}
      BY <3>1, <1>2, <1>3, <1>10 DEF TriesOf, k
    <3>3. k + 1 \notin TriesOf(cs, st, p)
      BY <1>10 DEF TriesOf, k
    <3>4. Cardinality(TriesOf(cs, ss, p)) = Cardinality(TriesOf(cs, st, p)) + 1
      BY <2>3, <2>4, <3>2, <3>3, FS_AddElement
    <3>5. ds[p].try = cs[p].try + 1 /\ ds[p].handler = cs[p].handler
      BY <1>1, <1>4, <1>5
    <3>. QED
      BY <2>2, <2>3, <2>4, <3>4, <3>5
  <2>5. CASE c # p
    <3>1. p \notin cs[c].chain
      BY <2>5, Innermost DEF Good, p
    <3>2. TriesOf(cs, ss, c) = TriesOf(cs, st, c)
      BY <3>1, <1>2, <1>3, <1>10 DEF TriesOf, k
    <3>. QED
      BY <2>2, <2>5, <3>2, <1>5
  <2>. QED
    BY <2>4, <2>5
<1>12. Safe(ds, ss)
  <2>1. SUFFICES ASSUME NEW i \in 1..(k + 1), NEW j \in 1..(k + 1), i < j,
                        ds[ss[i].on].safe
                 PROVE  ds[ss[j].on].safe
    BY <1>3 DEF Safe
  <2>2. \A c \in 1..Len(cs) : ds[c].safe = cs[c].safe
    BY <1>4, <1>5
  <2>3. ss[i].on \in 1..Len(cs) /\ ss[j].on \in 1..Len(cs)
    BY <1>3, <1>7 DEF Frame, Typed, Session
  <2>4. cs[ss[i].on].safe
    BY <2>1, <2>2, <2>3
  <2>5. i \in 1..k
    BY <2>1, <1>0
  <2>6. CASE j = k + 1
    BY <2>2, <2>3, <2>4, <2>5, <2>6, <1>0, <1>2, <1>3 DEF Fits
  <2>7. CASE j \in 1..k
    BY <2>1, <2>2, <2>3, <2>4, <2>5, <2>7, <1>3 DEF Good, Safe
  <2>. QED
    BY <2>6, <2>7, <1>10
<1>. QED
  BY <1>6, <1>9, <1>11, <1>12 DEF Good, ss, a

-----------------------------------------------------------------------------
(* An activation is left                                                   *)

\* Leaving, of any contexts.
Left(cs, a) ==
  IF a.kind \in Owning THEN Front(cs)
  ELSE IF a.kind = "try" THEN [cs EXCEPT ![a.on].try = @ - 1]
  ELSE cs

LEMMA FrontGrown ==
  ASSUME NEW S, NEW s \in Seq(S), s # <<>>
  PROVE  Front(s) \in Seq(S) /\ Grown(Front(s), s) /\ Last(s) = s[Len(s)] /\ Last(s) \in S
<1>1. /\ Front(s) \in Seq(S)
      /\ Len(Front(s)) = Len(s) - 1
      /\ \A i \in 1..(Len(s) - 1) : Front(s)[i] = s[i]
      /\ Len(s) \in Nat \ {0}
      /\ Last(s) = s[Len(s)] /\ Last(s) \in S
  BY FrontSeq
<1>2. Len(s) - 1 \in Nat /\ Len(s) = (Len(s) - 1) + 1
  BY <1>1
<1>. QED
  BY <1>1, <1>2 DEF Grown

\* The activation that is left has the newest context, if it has one of its own.
LEMMA OwnedLast ==
  ASSUME NEW cs, NEW st, NEW ss, Frame(cs, ss), Grown(st, ss), ss[Len(ss)].kind \in Owning
  PROVE  ss[Len(ss)].in = Len(cs) /\ Len(cs) > Session
<1>. DEFINE n == Len(cs)
            k == Len(st)
<1>1. k \in Nat /\ Len(ss) = k + 1 /\ n \in Nat
  BY DEF Frame, Typed, Grown
<1>2. /\ \A i \in 1..(k + 1) : i = k + 1 \/ (i \in 1..k /\ i < k + 1)
      /\ k + 1 \in 1..(k + 1)
  BY <1>1
<1>. HIDE DEF n, k
<1>3. ss[k + 1].kind \in Owning /\ ss[k + 1].in \in 2..n /\ ss[k + 1].in > 2
  BY <1>1, <1>2 DEF Frame, Typed, Owned, Session, n, k
<1>4. n > 2 /\ n \in 1..n
  BY <1>1, <1>3
<1>5. PICK i \in 1..(k + 1) : ss[i].kind \in Owning /\ ss[i].in = n
  BY <1>1, <1>4 DEF Frame, Owned, Session, n
<1>6. CASE i = k + 1
  BY <1>1, <1>4, <1>5, <1>6 DEF Session, n
<1>7. CASE i \in 1..k
  <2>1. ss[i].in < ss[k + 1].in
    BY <1>1, <1>2, <1>3, <1>7 DEF Frame, Stacked
  <2>. QED
    BY <2>1, <1>1, <1>3, <1>5
<1>. QED
  BY <1>2, <1>5, <1>6, <1>7

LEMMA FrameDown ==
  ASSUME NEW cs, NEW st \in Seq(Act), NEW ss, Frame(cs, ss), Grown(st, ss),
         ss[Len(ss)].kind \notin Owning
  PROVE  Frame(cs, st)
<1>. DEFINE k == Len(st)
<1>1. /\ k \in Nat /\ Len(ss) = k + 1
      /\ \A i \in 1..k : ss[i] = st[i]
  BY DEF Grown
<1>2. \A i \in 1..k : i \in 1..(k + 1)
  BY <1>1
<1>3. \A i \in 1..(k + 1) : i = k + 1 \/ i \in 1..k
  BY <1>1
<1>4. ss[k + 1].kind \notin Owning
  BY <1>1
<1>. HIDE DEF k
<1>5. Typed(cs, st)
  BY <1>1, <1>2 DEF Frame, Typed, k
<1>6. Owned(cs, st)
  <2>1. ASSUME NEW c \in 1..Len(cs), c > Session
        PROVE  \E i \in 1..k : st[i].kind \in Owning /\ st[i].in = c
    <3>1. PICK i \in 1..(k + 1) : ss[i].kind \in Owning /\ ss[i].in = c
      BY <2>1, <1>1 DEF Frame, Owned
    <3>. QED
      BY <3>1, <1>1, <1>3, <1>4
  <2>2. ASSUME NEW i \in 1..k
        PROVE  /\ st[i].kind \in Owning => st[i].in > Session
               /\ st[i].kind = "page" => i = 1
    BY <1>1, <1>2 DEF Frame, Owned
  <2>. QED
    BY <2>1, <2>2 DEF Owned, k
<1>7. Stacked(st)
  <2>1. ASSUME NEW i \in 1..k, st[i].kind # "safe-expand"
        PROVE  st[i].in = st[i].on
    BY <2>1, <1>1, <1>2 DEF Frame, Stacked
  <2>2. ASSUME NEW i \in 1..k, NEW j \in 1..k, i < j
        PROVE  /\ st[i].on <= st[j].on
               /\ st[j].kind \in Owning => st[i].in < st[j].in /\ st[i].on < st[j].in
    BY <2>2, <1>1, <1>2 DEF Frame, Stacked
  <2>. QED
    BY <2>1, <2>2 DEF Stacked, k
<1>8. Linked(cs, st)
  <2>1. ASSUME NEW i \in 1..k, st[i].kind = "safe-expand"
        PROVE  cs[st[i].in].chain = {st[i].in}
    BY <2>1, <1>1, <1>2 DEF Frame, Linked
  <2>2. ASSUME NEW i \in 1..k, NEW j \in 1..k, i <= j
        PROVE  st[i].on \in cs[st[j].on].chain
    BY <2>2, <1>1, <1>2 DEF Frame, Linked
  <2>. QED
    BY <2>1, <2>2 DEF Frame, Linked, k
<1>. QED
  BY <1>5, <1>6, <1>7, <1>8 DEF Frame

LEMMA FramePop ==
  ASSUME NEW cs, NEW st \in Seq(Act), NEW ss, Frame(cs, ss), Grown(st, ss),
         ss[Len(ss)].kind \in Owning
  PROVE  /\ Frame(Front(cs), st)
         /\ Grown(Front(cs), cs)
         /\ \A i \in 1..Len(st) : st[i].on \in 1..Len(Front(cs))
<1>. DEFINE k == Len(st)
            ds == Front(cs)
            n == Len(ds)
<1>1. /\ k \in Nat /\ Len(ss) = k + 1
      /\ \A i \in 1..k : ss[i] = st[i]
  BY DEF Grown
<1>2. \A i \in 1..k : i \in 1..(k + 1) /\ i < k + 1
  BY <1>1
<1>3. /\ \A i \in 1..(k + 1) : i = k + 1 \/ i \in 1..k
      /\ k + 1 \in 1..(k + 1)
  BY <1>1
<1>4. Len(cs) > Session /\ ss[k + 1].in = Len(cs)
  BY <1>1, OwnedLast
<1>5. cs \in Seq(Ctx) /\ cs # <<>>
  BY <1>4, EmptySeq DEF Frame, Typed, Session
<1>6. ds \in Seq(Ctx) /\ Grown(ds, cs)
  BY <1>5, FrontGrown
<1>7. /\ n \in Nat /\ Len(cs) = n + 1 /\ n >= 2
      /\ \A c \in 1..n : ds[c] = cs[c]
  BY <1>4, <1>6 DEF Grown, Session
<1>8. \A c \in 1..n : c \in 1..(n + 1) /\ c # n + 1
  BY <1>7
<1>. HIDE DEF k, ds, n
<1>9. ASSUME NEW i \in 1..k
      PROVE  /\ st[i].in \in 2..n /\ st[i].on \in 2..n /\ st[i].in \in 1..n
             /\ st[i].on \in 1..n
  <2>1. ss[i].in \in 2..(n + 1) /\ ss[i].on \in 2..(n + 1)
    BY <1>1, <1>2, <1>7 DEF Frame, Typed, Session
  <2>2. ss[i].in < n + 1 /\ ss[i].on < n + 1
    BY <1>1, <1>2, <1>3, <1>4, <1>7 DEF Frame, Stacked
  <2>. QED
    BY <2>1, <2>2, <1>1, <1>7
<1>10. Typed(ds, st)
  BY <1>6, <1>7, <1>9 DEF Typed, Session, k, n
<1>11. Owned(ds, st)
  <2>1. ASSUME NEW c \in 1..n, c > Session
        PROVE  \E i \in 1..k : st[i].kind \in Owning /\ st[i].in = c
    <3>1. PICK i \in 1..(k + 1) : ss[i].kind \in Owning /\ ss[i].in = c
      BY <2>1, <1>1, <1>7, <1>8 DEF Frame, Owned
    <3>2. i # k + 1
      BY <3>1, <1>4, <1>7, <1>8
    <3>. QED
      BY <3>1, <3>2, <1>1, <1>3
  <2>2. ASSUME NEW i \in 1..k
        PROVE  /\ st[i].kind \in Owning => st[i].in > Session
               /\ st[i].kind = "page" => i = 1
    BY <1>1, <1>2 DEF Frame, Owned
  <2>. QED
    BY <2>1, <2>2 DEF Owned, k, n
<1>12. Stacked(st)
  <2>1. ASSUME NEW i \in 1..k, st[i].kind # "safe-expand"
        PROVE  st[i].in = st[i].on
    BY <2>1, <1>1, <1>2 DEF Frame, Stacked
  <2>2. ASSUME NEW i \in 1..k, NEW j \in 1..k, i < j
        PROVE  /\ st[i].on <= st[j].on
               /\ st[j].kind \in Owning => st[i].in < st[j].in /\ st[i].on < st[j].in
    BY <2>2, <1>1, <1>2 DEF Frame, Stacked
  <2>. QED
    BY <2>1, <2>2 DEF Stacked, k
<1>13. Linked(ds, st)
  <2>0. ASSUME NEW c \in 1..n
        PROVE  ds[c].chain \subseteq 1..c /\ c \in ds[c].chain
    BY <1>7, <1>8 DEF Frame, Linked
  <2>1. ASSUME NEW i \in 1..k, st[i].kind = "safe-expand"
        PROVE  ds[st[i].in].chain = {st[i].in}
    BY <2>1, <1>1, <1>2, <1>7, <1>9 DEF Frame, Linked
  <2>2. ASSUME NEW i \in 1..k, NEW j \in 1..k, i <= j
        PROVE  st[i].on \in ds[st[j].on].chain
    BY <2>2, <1>1, <1>2, <1>7, <1>9 DEF Frame, Linked
  <2>. QED
    BY <2>0, <2>1, <2>2 DEF Linked, k, n
<1>. QED
  BY <1>6, <1>9, <1>10, <1>11, <1>12, <1>13 DEF Frame, ds, k, n

LEMMA SafeDown ==
  ASSUME NEW cs, NEW ds, NEW st, NEW ss, Safe(cs, ss), Grown(st, ss),
         \A i \in 1..Len(st) : ds[st[i].on].safe = cs[st[i].on].safe
  PROVE  Safe(ds, st)
<1>1. SUFFICES ASSUME NEW i \in 1..Len(st), NEW j \in 1..Len(st), i < j,
                      ds[st[i].on].safe
               PROVE  ds[st[j].on].safe
  BY DEF Safe
<1>2. i \in 1..Len(ss) /\ j \in 1..Len(ss) /\ ss[i] = st[i] /\ ss[j] = st[j]
  BY DEF Grown
<1>3. cs[ss[i].on].safe
  BY <1>1, <1>2
<1>4. cs[ss[j].on].safe
  BY <1>1, <1>2, <1>3 DEF Safe
<1>. QED
  BY <1>2, <1>4

LEMMA LeaveOwning ==
  ASSUME NEW cs, NEW st \in Seq(Act), NEW ss, Good(cs, ss), Grown(st, ss),
         ss[Len(ss)].kind \in Owning
  PROVE  Good(Front(cs), st)
<1>. DEFINE ds == Front(cs)
            n == Len(ds)
<1>1. /\ Frame(ds, st) /\ Grown(ds, cs)
      /\ \A i \in 1..Len(st) : st[i].on \in 1..n
  BY FramePop DEF Good
<1>. HIDE DEF ds
<1>2. \A c \in 1..n : c \in 1..Len(cs) /\ cs[c] = ds[c]
  BY <1>1 DEF Grown
<1>3. ss[Len(ss)].kind # "try"
  BY DEF Owning
<1>4. Balanced(ds, st)
  <2>1. SUFFICES ASSUME NEW c \in 1..n
                 PROVE  ds[c].try = Cardinality(TriesOf(ds, st, c))
                                    + (IF ds[c].handler THEN 1 ELSE 0)
    BY DEF Balanced
  <2>2. Sees(ds, c, cs, c, st)
    BY <1>2 DEF Sees
  <2>3. TriesOf(cs, ss, c) = TriesOf(ds, st, c)
    BY <2>2, <1>3, TriesUp
  <2>. QED
    BY <2>3, <1>2 DEF Good, Balanced
<1>5. Safe(ds, st)
  BY <1>1, <1>2, SafeDown DEF Good
<1>. QED
  BY <1>1, <1>4, <1>5 DEF Good, ds

LEMMA LeavePlain ==
  ASSUME NEW cs, NEW st \in Seq(Act), NEW ss, Good(cs, ss), Grown(st, ss),
         ss[Len(ss)].kind \notin Owning, ss[Len(ss)].kind # "try"
  PROVE  Good(cs, st)
<1>1. Frame(cs, st)
  BY FrameDown DEF Good
<1>2. Balanced(cs, st)
  <2>1. ASSUME NEW c
        PROVE  TriesOf(cs, ss, c) = TriesOf(cs, st, c)
    <3>1. Sees(cs, c, cs, c, st)
      BY DEF Sees
    <3>. QED
      BY <3>1, TriesUp
  <2>. QED
    BY <2>1 DEF Good, Balanced
<1>3. Safe(cs, st)
  BY SafeDown DEF Good
<1>. QED
  BY <1>1, <1>2, <1>3 DEF Good

\* RemTry takes back what the try counted, from the one context that has counted it.
LEMMA LeaveTry ==
  ASSUME NEW cs, NEW st \in Seq(Act), NEW ss, Good(cs, ss), Grown(st, ss),
         ss[Len(ss)].kind = "try"
  PROVE  /\ Good([cs EXCEPT ![ss[Len(ss)].on].try = @ - 1], st)
         /\ Like(cs, [cs EXCEPT ![ss[Len(ss)].on].try = @ - 1])
         /\ \A c \in 1..Len(cs) :
              [cs EXCEPT ![ss[Len(ss)].on].try = @ - 1][c].safe = cs[c].safe
<1>. DEFINE k == Len(st)
            p == ss[Len(ss)].on
            x == [cs[p] EXCEPT !.try = @ - 1]
            ds == [cs EXCEPT ![p] = x]
<1>0. /\ k \in Nat /\ Len(ss) = k + 1 /\ ss \in Seq(Act) /\ cs \in Seq(Ctx)
      /\ \A i \in 1..k : ss[i] = st[i]
  BY DEF Grown, Good, Frame, Typed
<1>1. /\ \A i \in 1..(k + 1) : i = k + 1 \/ i \in 1..k
      /\ \A i \in 1..k : i \in 1..(k + 1)
      /\ k + 1 \in 1..(k + 1) /\ k + 1 \notin 1..k
  BY <1>0
<1>2. p = ss[k + 1].on /\ ss[k + 1].kind = "try" /\ ss # <<>> /\ Last(ss) = ss[k + 1]
  <2>1. ss # <<>>
    BY <1>0, EmptySeq
  <2>. QED
    BY <2>1, <1>0, FrontSeq
<1>3. p \in 1..Len(cs) /\ cs[p] \in Ctx
  BY <1>0, <1>1, <1>2, ElementOfSeq DEF Good, Frame, Typed, Session
<1>. HIDE DEF k, p
<1>4. ASSUME NEW c \in 1..Len(cs)
      PROVE  /\ cs[c].try = Cardinality(TriesOf(cs, ss, c))
                             + (IF cs[c].handler THEN 1 ELSE 0)
             /\ IsFiniteSet(TriesOf(cs, st, c))
             /\ Cardinality(TriesOf(cs, st, c)) \in Nat
  BY TriesFinite DEF Good, Balanced
<1>5. Cardinality(TriesOf(cs, ss, p)) = Cardinality(TriesOf(cs, st, p)) + 1
  <2>1. p \in cs[p].chain
    BY <1>3 DEF Good, Frame, Linked
  <2>2. TriesOf(cs, ss, p) = TriesOf(cs, st, p) \cup {k + 1}
    BY <2>1, <1>0, <1>1, <1>2 DEF TriesOf, k
  <2>3. k + 1 \notin TriesOf(cs, st, p)
    BY <1>1 DEF TriesOf, k
  <2>. QED
    BY <2>2, <2>3, <1>3, <1>4, FS_AddElement
<1>6. ASSUME NEW c \in 1..Len(cs), c # p
      PROVE  TriesOf(cs, ss, c) = TriesOf(cs, st, c)
  <2>1. p \notin cs[c].chain
    BY <1>2, <1>6, Innermost DEF Good
  <2>. QED
    BY <2>1, <1>0, <1>1, <1>2 DEF TriesOf, k
<1>7. /\ cs[p].try - 1 \in Nat
      /\ cs[p].try - 1 = Cardinality(TriesOf(cs, st, p)) + (IF cs[p].handler THEN 1 ELSE 0)
  BY <1>3, <1>4, <1>5
<1>8. /\ x \in Ctx /\ x.chain = cs[p].chain /\ x.try = cs[p].try - 1
      /\ x.handler = cs[p].handler /\ x.safe = cs[p].safe
  BY <1>3, <1>7 DEF Ctx
<1>9. ds = [cs EXCEPT ![ss[Len(ss)].on].try = @ - 1]
  BY DEF p
<1>. HIDE DEF x
<1>10. /\ ds \in Seq(Ctx) /\ Len(ds) = Len(cs)
       /\ \A c \in 1..Len(cs) : ds[c] = IF c = p THEN x ELSE cs[c]
  BY <1>0, <1>3, <1>8, ExceptSeq
<1>. HIDE DEF ds
<1>11. Like(cs, ds)
  BY <1>8, <1>10 DEF Like
<1>12. ss[Len(ss)].kind \notin Owning
  BY DEF Owning
<1>13. Frame(cs, st)
  BY <1>12, FrameDown DEF Good
<1>14. Frame(ds, st) /\ \A c \in 1..Len(cs) : TriesOf(ds, st, c) = TriesOf(cs, st, c)
  BY <1>11, <1>13, FrameLike
<1>15. Balanced(ds, st)
  <2>1. SUFFICES ASSUME NEW c \in 1..Len(cs)
                 PROVE  ds[c].try = Cardinality(TriesOf(cs, st, c))
                                    + (IF ds[c].handler THEN 1 ELSE 0)
    BY <1>10, <1>14 DEF Balanced
  <2>2. CASE c = p
    BY <2>2, <1>7, <1>8, <1>10
  <2>3. CASE c # p
    BY <2>3, <1>4, <1>6, <1>10
  <2>. QED
    BY <2>2, <2>3
<1>16. \A c \in 1..Len(cs) : ds[c].safe = cs[c].safe
  BY <1>8, <1>10
<1>17. Safe(ds, st)
  <2>1. \A i \in 1..Len(st) : st[i].on \in 1..Len(cs)
    BY <1>13 DEF Frame, Typed, Session
  <2>. QED
    BY <2>1, <1>16, SafeDown DEF Good
<1>. QED
  BY <1>9, <1>11, <1>14, <1>15, <1>16, <1>17 DEF Good

LEMMA Leave ==
  ASSUME NEW cs, NEW st \in Seq(Act), NEW ss, Good(cs, ss), Grown(st, ss)
  PROVE  Good(Left(cs, ss[Len(ss)]), st)
<1>1. CASE ss[Len(ss)].kind \in Owning
  BY <1>1, LeaveOwning DEF Left
<1>2. CASE ss[Len(ss)].kind \notin Owning /\ ss[Len(ss)].kind # "try"
  BY <1>2, LeavePlain DEF Left
<1>3. CASE ss[Len(ss)].kind = "try"
  <2>1. ss[Len(ss)].kind \notin Owning
    BY <1>3 DEF Owning
  <2>. QED
    BY <2>1, <1>3, LeaveTry DEF Left
<1>. QED
  BY <1>1, <1>2, <1>3

-----------------------------------------------------------------------------
(* Steps                                                                   *)

\* Where the context of an activation counts no try, no try is around it.
LEMMA Silent ==
  ASSUME NEW cs, NEW st, Good(cs, st), NEW j \in 1..Len(st), cs[st[j].on].try = 0
  PROVE  \A i \in 1..Len(st) : i <= j => st[i].kind # "try"
<1>1. SUFFICES ASSUME NEW i \in 1..Len(st), i <= j, st[i].kind = "try" PROVE FALSE
  OBVIOUS
<1>2. st[j].on \in 1..Len(cs)
  BY DEF Good, Frame, Typed, Session
<1>3. st[i].on \in cs[st[j].on].chain
  BY <1>1 DEF Good, Frame, Linked
<1>. QED
  BY <1>1, <1>2, <1>3, NoTry

LEMMA SilentTop ==
  ASSUME NEW cs, NEW st, Good(cs, st), st # <<>>, cs[Last(st).on].try = 0
  PROVE  \A i \in 1..Len(st) : st[i].kind # "try"
<1>1. Len(st) \in Nat \ {0} /\ Last(st) = st[Len(st)]
  BY FrontSeq DEF Good, Frame, Typed
<1>2. Len(st) \in 1..Len(st) /\ \A i \in 1..Len(st) : i <= Len(st)
  BY <1>1
<1>. QED
  BY <1>1, <1>2, Silent

LEMMA GuardedUp ==
  ASSUME NEW st \in Seq(Act), NEW a \in Act, Guarded(st), a.guard => st # <<>>
  PROVE  Guarded(Append(st, a))
<1>1. /\ Len(Append(st, a)) = Len(st) + 1 /\ Append(st, a)[Len(st) + 1] = a
      /\ \A i \in 1..Len(st) : Append(st, a)[i] = st[i]
  BY AppendSeq
<1>2. /\ \A i \in 1..(Len(st) + 1) : i = Len(st) + 1 \/ i \in 1..Len(st)
      /\ st # <<>> => Len(st) + 1 > 1
  BY EmptySeq
<1>. QED
  BY <1>1, <1>2 DEF Guarded

LEMMA GuardedDown ==
  ASSUME NEW st \in Seq(Act), NEW ss, Grown(st, ss), Guarded(ss)
  PROVE  Guarded(st) /\ (ss[Len(ss)].guard => st # <<>>)
<1>1. Guarded(st)
  BY DEF Grown, Guarded
<1>2. ASSUME ss[Len(ss)].guard PROVE st # <<>>
  <2>1. Len(ss) \in 1..Len(ss) /\ Len(ss) = Len(st) + 1 /\ Len(st) \in Nat
    BY DEF Grown
  <2>2. Len(st) # 0
    BY <1>2, <2>1 DEF Guarded
  <2>. QED
    BY <2>2, EmptySeq
<1>. QED
  BY <1>1, <1>2

LEMMA BeginInv ==
  ASSUME NEW cs, NEW st \in Seq(Act), NEW a \in Act, Good(cs, Append(st, a)),
         a.kind = "try" => cs[a.in].try > 0,
         a.kind = "safe-expand" => cs[a.in].level = 0,
         Guarded(st), a.guard => st # <<>>, Begin(st, cs, a)
  PROVE  IInv'
<1>. DEFINE ss == Append(st, a)
<1>1. /\ Grown(st, ss) /\ ss[Len(ss)] = a
      /\ Len(ss) \in 1..Len(ss)
      /\ \A i \in 1..Len(st) : ss[i] = st[i] /\ i \in 1..Len(ss) /\ i <= Len(ss)
  BY AppendSeq DEF Grown
<1>2. CASE acts' = ss /\ ctxs' = cs /\ exc' \in {"none", "ex"} /\ said' = FALSE
  BY <1>2, GuardedUp DEF IInv
<1>3. ASSUME ~Compiled(a), cs[a.in].level > MaxLevels, cs[a.in].try = 0,
             acts' = st, exc' = "none", said' = TRUE,
             ctxs' = IF a.kind \in Owning THEN Front(cs) ELSE cs
      PROVE  IInv'
  <2>1. a.kind # "try"
    BY <1>3
  <2>2. a.kind # "safe-expand"
    BY <1>3, ContextAssumption
  <2>. HIDE DEF ss
  <2>3. Good(ctxs', acts')
    <3>1. ctxs' = Left(cs, ss[Len(ss)])
      BY <1>1, <1>3, <2>1 DEF Left
    <3>. QED
      BY <3>1, <1>1, <1>3, Leave DEF ss
  <2>4. a.in = a.on
    BY <1>1, <2>2 DEF Good, Frame, Stacked, ss
  <2>5. \A i \in 1..Len(st) : st[i].kind # "try"
    <3>1. Good(cs, ss) /\ cs[ss[Len(ss)].on].try = 0
      BY <1>1, <1>3, <2>4 DEF ss
    <3>2. \A i \in 1..Len(ss) : i <= Len(ss) => ss[i].kind # "try"
      BY <3>1, <1>1, Silent
    <3>. QED
      BY <3>2, <1>1
  <2>. QED
    BY <1>3, <2>3, <2>5 DEF IInv, Hidden
<1>. QED
  BY <1>2, <1>3 DEF Begin

LEMMA InitInv == Init => IInv
<1>1. SUFFICES ASSUME Init PROVE IInv
  OBVIOUS
<1>2. PICK m \in Maps :
        ctxs = << [chain |-> {Global}, map |-> m, try |-> 0, handler |-> FALSE,
                   safe |-> FALSE, level |-> 0],
                  [chain |-> {Global, Session}, map |-> NoNames, try |-> 0,
                   handler |-> FALSE, safe |-> FALSE, level |-> 1] >>
  BY <1>1 DEF Init
<1>3. NoNames \in Maps
  BY DEF NoNames, Maps
<1>4. /\ [chain |-> {1}, map |-> m, try |-> 0, handler |-> FALSE,
          safe |-> FALSE, level |-> 0] \in Ctx
      /\ [chain |-> {1, 2}, map |-> NoNames, try |-> 0,
          handler |-> FALSE, safe |-> FALSE, level |-> 1] \in Ctx
  BY <1>3 DEF Ctx
<1>5. /\ ctxs \in Seq(Ctx) /\ Len(ctxs) = 2
      /\ ctxs[1].chain = {1} /\ ctxs[2].chain = {1, 2}
      /\ \A c \in 1..2 : ctxs[c].try = 0 /\ ~ctxs[c].handler
  BY <1>2, <1>4 DEF Global, Session
<1>6. <<>> \in Seq(Act) /\ Len(<<>>) = 0
  BY EmptySeq
<1>7. Good(ctxs, <<>>)
  <2>1. Typed(ctxs, <<>>) /\ Owned(ctxs, <<>>) /\ Stacked(<<>>)
    BY <1>5, <1>6 DEF Typed, Owned, Stacked, Session
  <2>2. Linked(ctxs, <<>>)
    BY <1>5, <1>6 DEF Linked
  <2>3. Balanced(ctxs, <<>>)
    <3>1. SUFFICES ASSUME NEW c \in 1..2
                   PROVE  ctxs[c].try = Cardinality(TriesOf(ctxs, <<>>, c))
                                        + (IF ctxs[c].handler THEN 1 ELSE 0)
      BY <1>5 DEF Balanced
    <3>2. TriesOf(ctxs, <<>>, c) = {}
      BY <1>6 DEF TriesOf
    <3>3. Cardinality(TriesOf(ctxs, <<>>, c)) = 0
      BY <3>2, FS_EmptySet
    <3>. QED
      BY <3>3, <1>5
  <2>4. Safe(ctxs, <<>>)
    BY <1>6 DEF Safe
  <2>. QED
    BY <2>1, <2>2, <2>3, <2>4 DEF Good, Frame
<1>8. Fits(ctxs, <<>>, Session)
  BY <1>5, <1>6 DEF Fits, Session
<1>9. acts = Append(<<>>, Page)
  BY <1>1 DEF Init
<1>10. Good(ctxs, acts)
  BY <1>7, <1>8, <1>9, PushSame DEF Page
<1>11. Guarded(acts)
  BY <1>6, <1>9, GuardedUp DEF Page, Activation, Act, Guarded, Kinds, Session
<1>. QED
  BY <1>1, <1>10, <1>11 DEF Init, IInv

-----------------------------------------------------------------------------
(* Variables                                                               *)

LEMMA MaxIn ==
  ASSUME NEW n \in Nat, NEW S, S \subseteq 0..n, S # {}
  PROVE  Max(S) \in S /\ \A y \in S : y <= Max(S)
<1>. DEFINE R == {xy \in Nat \X Nat : xy[1] < xy[2]}
            T == {n - x : x \in S}
<1>1. IsWellFoundedOn(R, Nat)
  BY NatLessThanWellFounded DEF OpToRel
<1>2. T \subseteq Nat /\ T # {}
  <2>1. \A x \in S : n - x \in Nat
    OBVIOUS
  <2>2. PICK s \in S : TRUE
    OBVIOUS
  <2>3. n - s \in T
    BY <2>2
  <2>. QED
    BY <2>1, <2>3
<1>. HIDE DEF R, T
<1>3. PICK m \in T : \A y \in T : ~(<<y, m>> \in R)
  BY <1>1, <1>2, WFMin
<1>. USE DEF R, T
<1>4. PICK x \in S : m = n - x
  OBVIOUS
<1>5. \A y \in S : y <= x
  <2>1. ASSUME NEW y \in S PROVE y <= x
    <3>1. n - y \in T /\ n - y \in Nat /\ m \in Nat
      BY <1>2
    <3>2. ~(n - y < m)
      BY <1>3, <3>1
    <3>. QED
      BY <1>4, <3>2
  <2>. QED
    BY <2>1
<1>6. \E z \in S : \A y \in S : z >= y
  BY <1>5
<1>. QED
  BY <1>6 DEF Max

LEMMA WhereIn ==
  ASSUME NEW c \in 1..Len(ctxs), Good(ctxs, acts), NEW n
  PROVE  /\ Where(c, n) \in 0..c
         /\ Where(c, n) # 0 => Where(c, n) \in Chain(c) /\ ctxs[Where(c, n)].map[n] # Undef
         /\ \A k \in Chain(c) : ctxs[k].map[n] # Undef => k <= Where(c, n)
<1>. DEFINE S == {0} \cup {k \in Chain(c) : ctxs[k].map[n] # Undef}
<1>1. Chain(c) \subseteq 1..c
  BY DEF Chain, Good, Frame, Linked
<1>2. c \in Nat /\ S \subseteq 0..c /\ S # {}
  BY <1>1
<1>3. Max(S) \in S /\ \A y \in S : y <= Max(S)
  BY <1>2, MaxIn
<1>4. Where(c, n) = Max(S)
  BY DEF Where
<1>. QED
  BY <1>2, <1>3, <1>4

\* One name of one context is mapped.
LEMMA MapSet ==
  ASSUME NEW cs, NEW st, Good(cs, st), NEW p \in 1..Len(cs), NEW n \in Names,
         NEW v \in Values \cup {Undef}
  PROVE  Good([cs EXCEPT ![p].map[n] = v], st)
<1>. DEFINE x == [cs[p] EXCEPT !.map = [@ EXCEPT ![n] = v]]
            ds == [cs EXCEPT ![p] = x]
<1>1. cs \in Seq(Ctx) /\ cs[p] \in Ctx
  BY ElementOfSeq DEF Good, Frame, Typed
<1>2. /\ x \in Ctx /\ x.chain = cs[p].chain /\ x.try = cs[p].try
      /\ x.handler = cs[p].handler /\ x.safe = cs[p].safe
  <2>1. [cs[p].map EXCEPT ![n] = v] \in Maps
    BY <1>1 DEF Ctx, Maps
  <2>. QED
    BY <2>1, <1>1 DEF Ctx
<1>3. ds = [cs EXCEPT ![p].map[n] = v]
  OBVIOUS
<1>. HIDE DEF x
<1>4. /\ ds \in Seq(Ctx) /\ Len(ds) = Len(cs)
      /\ \A c \in 1..Len(cs) : ds[c] = IF c = p THEN x ELSE cs[c]
  BY <1>1, <1>2, ExceptSeq
<1>. HIDE DEF ds
<1>5. Like(cs, ds)
  BY <1>2, <1>4 DEF Like
<1>6. \A c \in 1..Len(cs) : /\ ds[c].try = cs[c].try /\ ds[c].handler = cs[c].handler
                            /\ ds[c].safe = cs[c].safe
  BY <1>2, <1>4
<1>. QED
  BY <1>3, <1>5, <1>6, Remapped

\* DelObjTop: a name is forgotten in some of the contexts.
LEMMA BelowGood ==
  ASSUME Good(ctxs, acts), NEW n \in Names
  PROVE  Good(Below(n), acts) /\ Len(Below(n)) = Len(ctxs)
<1>. DEFINE ds == Below(n)
<1>1. ctxs \in Seq(Ctx) /\ DOMAIN ctxs = 1..Len(ctxs)
  BY DEF Good, Frame, Typed
<1>2. ASSUME NEW k \in 1..Len(ctxs)
      PROVE  /\ [ctxs[k] EXCEPT !.map[n] = Undef] \in Ctx
             /\ [ctxs[k] EXCEPT !.map[n] = Undef].chain = ctxs[k].chain
             /\ [ctxs[k] EXCEPT !.map[n] = Undef].try = ctxs[k].try
             /\ [ctxs[k] EXCEPT !.map[n] = Undef].handler = ctxs[k].handler
             /\ [ctxs[k] EXCEPT !.map[n] = Undef].safe = ctxs[k].safe
             /\ ctxs[k] \in Ctx
  <2>1. ctxs[k] \in Ctx
    BY <1>1, ElementOfSeq
  <2>2. [ctxs[k].map EXCEPT ![n] = Undef] \in Maps
    BY <2>1 DEF Ctx, Maps
  <2>. QED
    BY <2>1, <2>2 DEF Ctx
<1>3. /\ ds \in Seq(Ctx) /\ Len(ds) = Len(ctxs)
      /\ \A k \in 1..Len(ctxs) :
           ds[k] = IF k \in Chain(Top.on) /\ k > Session THEN [ctxs[k] EXCEPT !.map[n] = Undef]
                   ELSE ctxs[k]
  BY <1>1, <1>2 DEF Below
<1>. HIDE DEF ds
<1>4. Like(ctxs, ds)
  BY <1>2, <1>3 DEF Like
<1>5. \A c \in 1..Len(ctxs) : /\ ds[c].try = ctxs[c].try /\ ds[c].handler = ctxs[c].handler
                              /\ ds[c].safe = ctxs[c].safe
  BY <1>2, <1>3
<1>. QED
  BY <1>3, <1>4, <1>5, Remapped DEF ds

LEMMA TopIn ==
  ASSUME Good(ctxs, acts), acts # <<>>
  PROVE  /\ Fits(ctxs, acts, Top.on) /\ Top \in Act /\ Top = acts[Len(acts)]
         /\ Top.on \in 1..Len(ctxs) /\ ctxs[Top.on] \in Ctx
         /\ Grown(Front(acts), acts) /\ Front(acts) \in Seq(Act)
<1>1. acts \in Seq(Act) /\ ctxs \in Seq(Ctx)
  BY DEF Good, Frame, Typed
<1>2. Fits(ctxs, acts, Top.on)
  BY TopFits DEF Top
<1>3. Top.on \in 1..Len(ctxs)
  BY <1>2 DEF Fits, Session
<1>. QED
  BY <1>1, <1>2, <1>3, FrontGrown, ElementOfSeq DEF Top

LEMMA RemapInv ==
  ASSUME IInv, NEW cs, Good(cs, acts), Remap(cs)
  PROVE  IInv'
  BY DEF Remap, IInv

LEMMA VariableStep == IInv /\ Variable => IInv'
<1>. SUFFICES ASSUME IInv, Variable PROVE IInv'
  OBVIOUS
<1>1. Good(ctxs, acts)
  BY DEF IInv
<1>2. PICK n \in Names :
        \/ EvalUnset(n) \/ EvalGUndefine(n)
        \/ \E v \in Values : EvalSet(n, v) \/ EvalGSet(n, v) \/ EvalLet(n, v)
  BY DEF Variable
<1>3. acts # <<>>
  BY <1>2 DEF Running, EvalUnset, EvalGUndefine, EvalSet, EvalGSet, EvalLet
<1>4. Top.on \in 1..Len(ctxs) /\ 2 \in 1..Len(ctxs)
  BY <1>1, <1>3, TopIn DEF Good, Frame, Typed, Session
<1>5. CASE EvalUnset(n)
  <2>1. Good([ctxs EXCEPT ![Top.on].map[n] = Undef], acts)
    BY <1>1, <1>4, MapSet
  <2>. QED
    BY <1>5, <2>1, RemapInv DEF EvalUnset
<1>6. CASE EvalGUndefine(n)
  BY <1>1, <1>6, BelowGood, RemapInv DEF EvalGUndefine
<1>7. ASSUME NEW v \in Values, EvalSet(n, v) PROVE IInv'
  <2>1. Good([ctxs EXCEPT ![Top.on].map[n] = v], acts)
    BY <1>1, <1>4, MapSet
  <2>. QED
    BY <1>7, <2>1, RemapInv DEF EvalSet
<1>8. ASSUME NEW v \in Values, EvalGSet(n, v) PROVE IInv'
  <2>1. Good([Below(n) EXCEPT ![2].map[n] = v], acts)
    BY <1>1, <1>4, BelowGood, MapSet
  <2>. QED
    BY <1>8, <2>1, RemapInv DEF EvalGSet, Session
<1>9. ASSUME NEW v \in Values, EvalLet(n, v) PROVE IInv'
  <2>1. LetWhere(n) \in 1..Len(ctxs)
    BY <1>1, <1>4, WhereIn DEF LetWhere, Session
  <2>2. Good([ctxs EXCEPT ![LetWhere(n)].map[n] = v], acts)
    BY <1>1, <2>1, MapSet
  <2>. QED
    BY <1>9, <2>2, RemapInv DEF EvalLet
<1>. QED
  BY <1>2, <1>5, <1>6, <1>7, <1>8, <1>9

LEMMA SettingStep == IInv /\ Setting => IInv'
<1>. SUFFICES ASSUME IInv, Setting PROVE IInv'
  OBVIOUS
<1>1. Good(ctxs, acts)
  BY DEF IInv
<1>2. acts # <<>>
  BY DEF Setting, EvalSafeMode, EvalErrorHandler, Running
<1>3. CASE EvalSafeMode
  <2>1. Good([ctxs EXCEPT ![Top.on].safe = TRUE], acts)
    BY <1>1, <1>2, SafeSet DEF Top
  <2>. QED
    BY <1>3, <2>1, RemapInv DEF EvalSafeMode
<1>4. ASSUME NEW b \in BOOLEAN, EvalErrorHandler(b) PROVE IInv'
  <2>1. Top.on \in 1..Len(ctxs)
    BY <1>1, <1>2, TopIn
  <2>2. Good([ctxs EXCEPT ![Top.on] =
               [ctxs[Top.on] EXCEPT !.handler = b,
                 !.try = (ctxs[Top.on].try - (IF ctxs[Top.on].handler THEN 1 ELSE 0))
                         + (IF b THEN 1 ELSE 0)]], acts)
    BY <1>1, <2>1, HandlerSet
  <2>. QED
    BY <1>4, <2>2, RemapInv DEF EvalErrorHandler
<1>. QED
  BY <1>3, <1>4 DEF Setting

LEMMA ExpansionStep == IInv /\ Expansion => IInv'
<1>. SUFFICES ASSUME IInv, Expansion PROVE IInv'
  OBVIOUS
<1>1. Good(ctxs, acts) /\ acts \in Seq(Act) /\ Len(ctxs) \in Nat /\ Guarded(acts)
  BY DEF IInv, Good, Frame, Typed
<1>2. ASSUME NEW m \in Maps, NEW kind \in {"call", "sub"}, NEW guard \in BOOLEAN, Running,
             Begin(acts, Append(ctxs, Child(ctxs, Top.on, m)),
                   Activation(kind, Len(ctxs) + 1, Len(ctxs) + 1, guard))
      PROVE  IInv'
  <2>1. Fits(ctxs, acts, Top.on)
    BY <1>1, <1>2, TopIn DEF Running
  <2>2. Good(Append(ctxs, Child(ctxs, Top.on, m)),
             Append(acts, Activation(kind, Len(ctxs) + 1, Len(ctxs) + 1, guard)))
    BY <1>1, <2>1, PushChild DEF Owning
  <2>. acts # <<>>
    BY <1>2 DEF Running
  <2>3. /\ Activation(kind, Len(ctxs) + 1, Len(ctxs) + 1, guard) \in Act
        /\ Activation(kind, Len(ctxs) + 1, Len(ctxs) + 1, guard).kind
              \notin {"try", "safe-expand"}
    BY <1>1 DEF Activation, Act, Kinds
  <2>. QED
    BY <1>1, <1>2, <2>2, <2>3, BeginInv
<1>3. ASSUME NEW m \in Maps, NEW guard \in BOOLEAN, Call(m, guard) PROVE IInv'
  BY <1>2, <1>3 DEF Call, MayEnter
<1>4. ASSUME NEW m \in Maps, Sub(m) PROVE IInv'
  BY <1>2, <1>4 DEF Sub, MayEnter, Guard
<1>5. ASSUME NEW guard \in BOOLEAN, Block(guard) PROVE IInv'
  <2>. DEFINE a == Activation("block", Top.on, Top.on, guard)
  <2>. acts # <<>>
    BY <1>5 DEF Running, MayEnter, Block
  <2>1. Fits(ctxs, acts, Top.on) /\ Top.on \in Nat
    BY <1>1, <1>5, TopIn DEF Running, MayEnter, Block
  <2>2. Good(ctxs, Append(acts, a))
    BY <1>1, <2>1, PushSame
  <2>3. a \in Act /\ a.kind = "block"
    BY <2>1 DEF Activation, Act, Kinds
  <2>4. Begin(acts, ctxs, a)
    BY <1>5 DEF Block
  <2>. HIDE DEF a
  <2>. QED
    BY <1>1, <2>2, <2>3, <2>4, BeginInv
<1>6. CASE EvalTry
  <2>. DEFINE a == Activation("try", Top.on, Top.on, Guard)
              cs == [ctxs EXCEPT ![Top.on].try = @ + 1]
  <2>1. acts # <<>>
    BY <1>6 DEF Running, MayEnter, EvalTry
  <2>2. Top.on \in 1..Len(ctxs) /\ ctxs[Top.on] \in Ctx /\ Guard \in BOOLEAN
    BY <1>1, <2>1, TopIn DEF Guard
  <2>3. Good(cs, Append(acts, a))
    BY <1>1, <2>1, <2>2, PushTry DEF Top
  <2>4. a \in Act /\ a.kind = "try" /\ a.in = Top.on
    BY <2>2 DEF Activation, Act, Kinds
  <2>5. cs[Top.on].try > 0
    <3>1. ctxs[Top.on].try \in Nat /\ Top.on \in DOMAIN ctxs
      BY <2>2 DEF Ctx, IInv, Good, Frame, Typed
    <3>2. cs[Top.on].try = ctxs[Top.on].try + 1
      BY <2>2, <3>1 DEF Ctx
    <3>. QED
      BY <3>1, <3>2
  <2>6. Begin(acts, cs, a)
    BY <1>6 DEF EvalTry
  <2>. HIDE DEF a, cs
  <2>. QED
    BY <1>1, <2>1, <2>3, <2>4, <2>5, <2>6, BeginInv
<1>7. CASE EvalSafeExpand
  <2>. DEFINE a == Activation("safe-expand", Len(ctxs) + 1, Top.on, Guard)
              cs == Append(ctxs, Orphan(ctxs))
  <2>. acts # <<>>
    BY <1>7 DEF Running, MayEnter, EvalSafeExpand
  <2>1. Fits(ctxs, acts, Top.on) /\ Top.on \in Nat /\ Guard \in BOOLEAN
    BY <1>1, <1>7, TopIn DEF Running, MayEnter, EvalSafeExpand, Guard
  <2>2. Good(cs, Append(acts, a))
    BY <1>1, <2>1, PushOrphan
  <2>3. a \in Act /\ a.kind = "safe-expand" /\ a.in = Len(ctxs) + 1
    BY <1>1, <2>1 DEF Activation, Act, Kinds
  <2>4. cs[Len(ctxs) + 1].level = 0
    <3>1. cs[Len(ctxs) + 1] = Orphan(ctxs)
      BY AppendSeq DEF IInv, Good, Frame, Typed
    <3>. QED
      BY <3>1 DEF Orphan
  <2>5. Begin(acts, cs, a)
    BY <1>7 DEF EvalSafeExpand
  <2>. HIDE DEF a, cs
  <2>. QED
    BY <1>1, <2>2, <2>3, <2>4, <2>5, BeginInv
<1>8. CASE Return
  <2>1. acts # <<>>
    BY <1>8 DEF Return, Running
  <2>2. Good(Left(ctxs, Top), Front(acts)) /\ Guarded(Front(acts))
    BY <1>1, <2>1, TopIn, Leave, GuardedDown
  <2>. QED
    BY <1>8, <2>2 DEF Return, Running, Left, Leaving, IInv
<1>9. CASE ParseTry
  <2>1. Fits(ctxs, acts, Session)
    BY <1>1, <1>9, EmptySeq DEF ParseTry, Fits, Session, Good, Frame, Typed
  <2>2. Good(ctxs, Append(acts, Page))
    BY <1>1, <1>9, <2>1, PushSame DEF ParseTry, Page
  <2>3. acts' = Append(acts, Page)
    BY <1>9 DEF ParseTry
  <2>4. Page \in Act /\ ~Page.guard
    BY DEF Page, Activation, Act, Kinds, Session
  <2>5. Guarded(acts')
    BY <1>1, <2>3, <2>4, GuardedUp
  <2>. QED
    BY <1>9, <2>2, <2>3, <2>5 DEF ParseTry, IInv
<1>. QED
  BY <1>3, <1>4, <1>5, <1>6, <1>7, <1>8, <1>9 DEF Expansion

\* A page is the outermost activation.
LEMMA PageAlone ==
  ASSUME Good(ctxs, acts), acts # <<>>, Top.kind = "page"
  PROVE  Front(acts) = <<>> /\ Left(ctxs, Top) = ctxs
<1>1. Top = acts[Len(acts)] /\ Grown(Front(acts), acts) /\ Front(acts) \in Seq(Act)
  BY TopIn
<1>2. Len(acts) \in 1..Len(acts) /\ Len(acts) = Len(Front(acts)) + 1
      /\ Len(Front(acts)) \in Nat
  BY <1>1 DEF Grown
<1>3. Len(acts) = 1
  BY <1>1, <1>2 DEF Good, Frame, Owned
<1>. DEFINE k == Len(Front(acts))
<1>. HIDE DEF k
<1>4. k = 0
  <2>1. k \in Nat /\ k + 1 = 1
    BY <1>2, <1>3 DEF k
  <2>. QED
    BY <2>1
<1>5. Front(acts) = <<>>
  BY <1>1, <1>4, EmptySeq DEF k
<1>. QED
  BY <1>5 DEF Left, Owning

LEMMA ThrowStep ==
  ASSUME IInv, NEW guard \in BOOLEAN, EvalThrow(guard)
  PROVE  IInv'
<1>1. Good(ctxs, acts) /\ acts # <<>> /\ UNCHANGED <<ctxs, acts>>
  BY DEF IInv, EvalThrow, Running
<1>2. Top.on \in 1..Len(ctxs) /\ ctxs[Top.on].try \in Nat
  BY <1>1, TopIn DEF Ctx
<1>3. CASE ctxs[Top.on].try > 0
  BY <1>1, <1>3 DEF EvalThrow, IInv
<1>4. CASE ctxs[Top.on].try = 0
  <2>1. Hidden(acts)
    BY <1>1, <1>4, SilentTop DEF Top, Hidden
  <2>. QED
    BY <1>1, <1>4, <2>1 DEF EvalThrow, IInv
<1>. QED
  BY <1>2, <1>3, <1>4

LEMMA RethrowStep ==
  ASSUME IInv, Rethrow
  PROVE  IInv'
<1>1. Good(ctxs, acts) /\ UNCHANGED <<ctxs, acts>> /\ acts # <<>>
  BY DEF IInv, Rethrow
<1>2. /\ Top = acts[Len(acts)] /\ acts \in Seq(Act)
      /\ Grown(Front(acts), acts)
  BY <1>1, TopIn DEF Good, Frame, Typed
<1>3. /\ Len(acts) \in 1..Len(acts)
      /\ \A i \in 1..Len(acts) : i = Len(acts) \/ i < Len(acts)
  BY <1>2 DEF Grown
<1>4. Top.in \in 1..Len(ctxs) /\ ctxs[Top.in] \in Ctx
  BY <1>1, <1>2, <1>3, ElementOfSeq DEF Good, Frame, Typed, Session
<1>5. ctxs[Top.in].try \in Nat
  BY <1>4 DEF Ctx
<1>6. CASE ctxs[Top.in].try > 0
  BY <1>1, <1>6 DEF Rethrow, IInv
<1>7. CASE ctxs[Top.in].try = 0
  <2>1. CASE Top.kind = "safe-expand"
    <3>1. ASSUME NEW i \in 1..Len(acts), acts[i].kind = "try"
          PROVE  Len(acts) > i
      BY <2>1, <3>1, <1>2, <1>3
    <3>2. Hidden(acts)
      BY <2>1, <3>1, <1>2, <1>3 DEF Hidden
    <3>. QED
      BY <1>1, <1>7, <3>2 DEF Rethrow, IInv
  <2>2. CASE Top.kind # "safe-expand"
    <3>1. Top.in = Top.on
      BY <1>1, <1>2, <1>3, <2>2 DEF Good, Frame, Stacked
    <3>2. Hidden(acts)
      BY <1>1, <1>7, <3>1, SilentTop DEF Top, Hidden
    <3>. QED
      BY <1>1, <1>7, <3>2 DEF Rethrow, IInv
  <2>. QED
    BY <2>1, <2>2
<1>. QED
  BY <1>5, <1>6, <1>7

LEMMA CatchStep ==
  ASSUME IInv, Catch
  PROVE  IInv'
<1>. DEFINE cs == Leaving(Top)
            st == Front(acts)
            c == Child(cs, Top.on, NoNames)
            a == Activation("catch", Len(cs) + 1, Len(cs) + 1, Top.guard)
<1>1. Good(ctxs, acts) /\ acts # <<>> /\ Top.kind = "try"
  BY DEF IInv, Catch
<1>2. /\ Top = acts[Len(acts)] /\ Top \in Act
      /\ Grown(st, acts) /\ st \in Seq(Act) /\ Top.on \in 1..Len(ctxs)
  BY <1>1, TopIn
<1>3. cs = [ctxs EXCEPT ![Top.on].try = @ - 1]
  BY <1>1 DEF Leaving, Owning
<1>4. /\ Good(cs, st) /\ Like(ctxs, cs)
      /\ \A k \in 1..Len(ctxs) : cs[k].safe = ctxs[k].safe
  BY <1>1, <1>2, <1>3, LeaveTry
<1>. Guarded(st) /\ (Top.guard => st # <<>>)
  BY <1>2, GuardedDown DEF IInv
<1>5. Fits(cs, st, Top.on)
  <2>1. Fits(ctxs, st, Top.on)
    BY <1>1, TopFits DEF Top
  <2>2. \A i \in 1..Len(st) : st[i].on \in 1..Len(cs)
    BY <1>4 DEF Good, Frame, Typed, Session
  <2>. HIDE DEF cs, st
  <2>. QED
    BY <1>2, <1>4, <2>1, <2>2 DEF Fits, Like
<1>6. CASE Begin(st, Append(cs, c), a)
  <2>1. Top.guard \in BOOLEAN /\ NoNames \in Maps /\ Len(cs) \in Nat
    BY <1>2, <1>4 DEF Act, NoNames, Maps, Good, Frame, Typed
  <2>. HIDE DEF cs, st
  <2>2. Good(Append(cs, c), Append(st, a))
    BY <1>4, <1>5, <2>1, PushChild DEF Owning
  <2>3. a \in Act /\ a.kind = "catch" /\ a.guard = Top.guard
    BY <2>1 DEF Activation, Act, Kinds
  <2>. HIDE DEF a, c
  <2>. QED
    BY <1>2, <1>6, <2>2, <2>3, BeginInv
<1>7. CASE ctxs' = cs /\ acts' = st /\ exc' = "none" /\ said' = FALSE
  BY <1>4, <1>7 DEF IInv
<1>. QED
  BY <1>6, <1>7 DEF Catch

LEMMA UnhandledStep ==
  ASSUME IInv, Unhandled
  PROVE  IInv'
<1>1. Good(ctxs, acts) /\ acts # <<>> /\ Top.kind = "page"
  BY DEF IInv, Unhandled
<1>2. /\ Grown(Front(acts), acts) /\ Front(acts) \in Seq(Act)
      /\ Top = acts[Len(acts)]
  BY <1>1, TopIn
<1>. Guarded(<<>>)
  BY DEF Guarded
<1>3. Good(ctxs, <<>>)
  <2>1. Good(Left(ctxs, Top), Front(acts))
    BY <1>1, <1>2, Leave
  <2>. QED
    BY <1>1, <2>1, PageAlone
<1>4. CASE /\ Begin(<<>>, Append(ctxs, Child(ctxs, Top.on, NoNames)),
                    Activation("handler", Len(ctxs) + 1, Len(ctxs) + 1, FALSE))
  <2>. DEFINE a == Activation("handler", Len(ctxs) + 1, Len(ctxs) + 1, FALSE)
  <2>1. Fits(ctxs, <<>>, Top.on)
    BY <1>1, TopIn, EmptySeq DEF Fits
  <2>2. NoNames \in Maps /\ Len(ctxs) \in Nat /\ <<>> \in Seq(Act)
    BY <1>1 DEF NoNames, Maps, Good, Frame, Typed
  <2>3. Good(Append(ctxs, Child(ctxs, Top.on, NoNames)), Append(<<>>, a))
    BY <1>3, <2>1, <2>2, PushChild DEF Owning
  <2>4. a \in Act /\ a.kind = "handler" /\ ~a.guard
    BY <2>2 DEF Activation, Act, Kinds
  <2>5. Begin(<<>>, Append(ctxs, Child(ctxs, Top.on, NoNames)), a)
    BY <1>4
  <2>. HIDE DEF a
  <2>. QED
    BY <2>2, <2>3, <2>4, <2>5, BeginInv
<1>5. CASE acts' = <<>> /\ exc' = "none" /\ said' = FALSE /\ UNCHANGED ctxs
  BY <1>3, <1>5 DEF IInv
<1>. QED
  BY <1>4, <1>5 DEF Unhandled

LEMMA UnwindStep ==
  ASSUME IInv, Unwind
  PROVE  IInv'
<1>1. Good(ctxs, acts) /\ acts # <<>>
  BY DEF IInv, Unwind
<1>2. /\ Good(Left(ctxs, Top), Front(acts))
      /\ Guarded(Front(acts)) /\ (Top.guard => Front(acts) # <<>>)
  BY <1>1, TopIn, Leave, GuardedDown DEF IInv
<1>3. ctxs' = Left(ctxs, Top) /\ acts' = Front(acts) /\ said' = FALSE
  BY DEF Unwind, Leaving, Left
<1>4. /\ exc' \in {"none", "ex", "abort", "guarded"}
      /\ exc' = "guarded" => Top.guard
  BY DEF Unwind
<1>. QED
  BY <1>2, <1>3, <1>4 DEF IInv

LEMMA ExceptionStep == IInv /\ Exception => IInv'
<1>. SUFFICES ASSUME IInv, Exception PROVE IInv'
  OBVIOUS
<1>1. ASSUME NEW guard \in BOOLEAN, EvalThrow(guard) PROVE IInv'
  BY <1>1, ThrowStep
<1>2. CASE EvalAbort
  BY <1>2 DEF EvalAbort, IInv
<1>3. CASE Rethrow
  BY <1>3, RethrowStep
<1>. QED
  BY <1>1, <1>2, <1>3, CatchStep, UnhandledStep, UnwindStep DEF Exception

LEMMA NextInv == IInv /\ [Next]_vars => IInv'
<1>1. CASE UNCHANGED vars
  BY <1>1 DEF vars, IInv
<1>. QED
  BY <1>1, VariableStep, SettingStep, ExpansionStep, ExceptionStep DEF Next

-----------------------------------------------------------------------------
\* The strengthening holds in every reachable state.
THEOREM Invariant == Spec => []IInv
  BY InitInv, NextInv, PTL DEF Spec

\* Every context in use is live, and every live one but the first two is in use.
THEOREM TypeCorrect == Spec => []TypeOK
<1>1. IInv => TypeOK
  <2>1. SUFFICES ASSUME IInv PROVE TypeOK
    OBVIOUS
  <2>2. ctxs \in Seq(Ctx) /\ acts \in Seq(Act) /\ Frame(ctxs, acts)
    BY <2>1 DEF IInv, Good, Frame, Typed
  <2>3. DOMAIN ctxs = 1..Len(ctxs) /\ DOMAIN acts = 1..Len(acts)
    BY <2>2
  <2>4. \A i \in DOMAIN acts : {acts[i].in, acts[i].on} \subseteq Session..Len(ctxs)
    BY <2>2, <2>3 DEF Frame, Typed
  <2>5. \A c \in DOMAIN ctxs : c > Session =>
          \E i \in DOMAIN acts : acts[i].kind \in Owning /\ acts[i].in = c
    BY <2>2, <2>3 DEF Frame, Owned
  <2>. QED
    BY <2>1, <2>2, <2>4, <2>5 DEF TypeOK, IInv, Ctx, Act
<1>. QED
  BY <1>1, Invariant, PTL

\* myTry is the number of tries around, and the handler, after every way out of a body.
THEOREM TriesCounted == Spec => []TryBalanced
<1>1. IInv => TryBalanced
  <2>1. SUFFICES ASSUME IInv, NEW c \in 1..Len(ctxs)
                 PROVE  ctxs[c].try = Cardinality(Tries(c))
                                      + (IF ctxs[c].handler THEN 1 ELSE 0)
    BY DEF IInv, Good, Frame, Typed, TryBalanced
  <2>2. Tries(c) = TriesOf(ctxs, acts, c)
    BY <2>1 DEF Tries, TriesOf, Chain, IInv, Good, Frame, Typed
  <2>. QED
    BY <2>1, <2>2 DEF IInv, Good, Balanced
<1>. QED
  BY <1>1, Invariant, PTL

\* Throw prints an exception only where every try around is hidden by a safe-expand.
THEOREM PrintsOutside == Spec => []PrintedOutsideTry
<1>1. IInv => PrintedOutsideTry
  BY DEF IInv, Hidden, PrintedOutsideTry, Good, Frame, Typed
<1>. QED
  BY <1>1, Invariant, PTL

\* Safe mode is never lost on the way into a body.
THEOREM SafeModeStays == Spec => []SafeModeKept
<1>1. IInv => SafeModeKept
  BY DEF IInv, Safe, SafeModeKept, Good, Frame, Typed
<1>. QED
  BY <1>1, Invariant, PTL

-----------------------------------------------------------------------------
(* The context with the libraries                                          *)

GlobalKept(cs) == cs \in Seq(Ctx) /\ Len(cs) >= 2 /\ cs[1].map = ctxs[1].map

LEMMA FrontKeeps ==
  ASSUME NEW cs, GlobalKept(cs)
  PROVE  Front(cs)[1].map = ctxs[1].map
<1>1. cs # <<>>
  BY EmptySeq DEF GlobalKept
<1>2. Grown(Front(cs), cs)
  BY <1>1, FrontGrown DEF GlobalKept
<1>3. 1 \in 1..Len(Front(cs))
  BY <1>2 DEF Grown, GlobalKept
<1>. QED
  BY <1>2, <1>3 DEF Grown, GlobalKept

LEMMA BeginKeeps ==
  ASSUME NEW cs, GlobalKept(cs), NEW st, NEW a, Begin(st, cs, a)
  PROVE  ctxs'[1].map = ctxs[1].map
<1>1. ctxs' = cs \/ ctxs' = Front(cs)
  BY DEF Begin
<1>. QED
  BY <1>1, FrontKeeps DEF GlobalKept

\* Any new context goes to the end.
LEMMA AppendKeeps ==
  ASSUME NEW cs, GlobalKept(cs), NEW x \in Ctx
  PROVE  GlobalKept(Append(cs, x))
<1>1. /\ Append(cs, x) \in Seq(Ctx) /\ Len(Append(cs, x)) = Len(cs) + 1
      /\ \A i \in 1..Len(cs) : Append(cs, x)[i] = cs[i]
  BY AppendSeq DEF GlobalKept
<1>2. 1 \in 1..Len(cs) /\ Len(cs) + 1 >= 2
  BY DEF GlobalKept
<1>. QED
  BY <1>1, <1>2 DEF GlobalKept

LEMMA ChildCtx ==
  ASSUME NEW cs \in Seq(Ctx), NEW p \in 1..Len(cs), NEW m \in Maps
  PROVE  Child(cs, p, m) \in Ctx /\ Orphan(cs) \in Ctx
<1>1. cs[p] \in Ctx /\ Len(cs) \in Nat
  BY ElementOfSeq
<1>2. cs[p].chain \cup {Len(cs) + 1} \in SUBSET Nat /\ cs[p].level + 1 \in Nat
  BY <1>1 DEF Ctx
<1>3. NoNames \in Maps /\ {Len(cs) + 1} \in SUBSET Nat
  BY <1>1 DEF NoNames, Maps
<1>4. Child(cs, p, m) \in Ctx
  BY <1>1, <1>2 DEF Child, Ctx
<1>5. Orphan(cs) \in Ctx
  BY <1>3 DEF Orphan, Ctx
<1>. QED
  BY <1>4, <1>5

LEMMA GlobalStep == IInv /\ [Next]_vars => ctxs'[1].map = ctxs[1].map
<1>. SUFFICES ASSUME IInv, [Next]_vars PROVE ctxs'[1].map = ctxs[1].map
  OBVIOUS
<1>1. /\ ctxs \in Seq(Ctx) /\ DOMAIN ctxs = 1..Len(ctxs) /\ 1 \in 1..Len(ctxs)
      /\ Good(ctxs, acts) /\ GlobalKept(ctxs)
  BY DEF IInv, Good, Frame, Typed, Session, GlobalKept
<1>2. ASSUME acts # <<>>
      PROVE  Top.on \in 2..Len(ctxs) /\ Top.on \in 1..Len(ctxs) /\ Top.on # 1
  <2>1. Top.on \in Session..Len(ctxs)
    BY <1>1, <1>2, TopIn DEF Fits
  <2>. QED
    BY <2>1, <1>1 DEF Session, GlobalKept
<1>3. ASSUME acts # <<>>, NEW m \in Maps
      PROVE  /\ GlobalKept(Append(ctxs, Child(ctxs, Top.on, m)))
             /\ GlobalKept(Append(ctxs, Orphan(ctxs)))
  BY <1>1, <1>2, <1>3, AppendKeeps, ChildCtx
<1>4. NoNames \in Maps
  BY DEF NoNames, Maps
<1>5. ASSUME acts # <<>>
      PROVE  Leaving(Top)[1].map = ctxs[1].map
  <2>1. CASE Top.kind \in Owning
    BY <1>1, <2>1, FrontKeeps DEF Leaving
  <2>2. CASE Top.kind \notin Owning /\ Top.kind = "try"
    <3>1. Leaving(Top) = [ctxs EXCEPT ![Top.on].try = @ - 1]
      BY <2>2 DEF Leaving
    <3>. QED
      BY <3>1, <1>1, <1>2, <1>5
  <2>3. CASE Top.kind \notin Owning /\ Top.kind # "try"
    BY <2>3 DEF Leaving
  <2>. QED
    BY <2>1, <2>2, <2>3
<1>6. CASE Expansion
  <2>1. ASSUME NEW m \in Maps, Sub(m) \/ \E guard \in BOOLEAN : Call(m, guard)
        PROVE  ctxs'[1].map = ctxs[1].map
    <3>1. acts # <<>>
      BY <2>1 DEF Sub, Call, MayEnter, Running
    <3>. QED
      BY <2>1, <3>1, <1>3, BeginKeeps DEF Sub, Call
  <2>2. ASSUME NEW guard \in BOOLEAN, Block(guard)
        PROVE  ctxs'[1].map = ctxs[1].map
    BY <2>2, <1>1, BeginKeeps DEF Block
  <2>3. CASE EvalTry
    <3>. DEFINE x == [ctxs[Top.on] EXCEPT !.try = @ + 1]
                cs == [ctxs EXCEPT ![Top.on] = x]
    <3>1. acts # <<>>
      BY <2>3 DEF EvalTry, MayEnter, Running
    <3>2. ctxs[Top.on] \in Ctx
      BY <3>1, <1>1, TopIn
    <3>3. x \in Ctx
      BY <3>2 DEF Ctx
    <3>4. cs = [ctxs EXCEPT ![Top.on].try = @ + 1]
      OBVIOUS
    <3>. HIDE DEF x
    <3>5. cs \in Seq(Ctx) /\ Len(cs) = Len(ctxs) /\ cs[1] = ctxs[1]
      BY <3>1, <3>3, <1>1, <1>2, ExceptSeq
    <3>6. GlobalKept(cs)
      BY <3>5, <1>1 DEF GlobalKept
    <3>. QED
      BY <2>3, <3>4, <3>6, BeginKeeps DEF EvalTry
  <2>4. CASE EvalSafeExpand
    <3>1. acts # <<>>
      BY <2>4 DEF EvalSafeExpand, MayEnter, Running
    <3>. QED
      BY <2>4, <3>1, <1>3, <1>4, BeginKeeps DEF EvalSafeExpand
  <2>5. CASE Return
    BY <2>5, <1>5 DEF Return, Running
  <2>6. CASE ParseTry
    BY <2>6 DEF ParseTry
  <2>. QED
    BY <1>6, <2>1, <2>2, <2>3, <2>4, <2>5, <2>6 DEF Expansion
<1>7. CASE Variable
  <2>1. PICK n \in Names :
          \/ EvalUnset(n) \/ EvalGUndefine(n)
          \/ \E v \in Values : EvalSet(n, v) \/ EvalGSet(n, v) \/ EvalLet(n, v)
    BY <1>7 DEF Variable
  <2>2. acts # <<>>
    BY <2>1 DEF Running, EvalUnset, EvalGUndefine, EvalSet, EvalGSet, EvalLet
  <2>3. Below(n)[1] = ctxs[1]
    BY <1>1 DEF Below, Session
  <2>4. CASE EvalUnset(n)
    BY <2>4, <2>2, <1>1, <1>2 DEF EvalUnset, Remap
  <2>5. CASE EvalGUndefine(n)
    BY <2>5, <2>3 DEF EvalGUndefine, Remap
  <2>6. ASSUME NEW v \in Values, EvalSet(n, v) PROVE ctxs'[1].map = ctxs[1].map
    BY <2>6, <2>2, <1>1, <1>2 DEF EvalSet, Remap
  <2>7. ASSUME NEW v \in Values, EvalGSet(n, v) PROVE ctxs'[1].map = ctxs[1].map
    <3>1. 1 \in DOMAIN Below(n)
      BY <1>1 DEF Below
    <3>. QED
      BY <2>7, <2>3, <3>1 DEF EvalGSet, Remap, Session
  <2>8. ASSUME NEW v \in Values, EvalLet(n, v) PROVE ctxs'[1].map = ctxs[1].map
    <3>1. LetWhere(n) # 1
      BY <1>2, <2>2 DEF LetWhere, Session
    <3>. QED
      BY <2>8, <3>1, <1>1 DEF EvalLet, Remap
  <2>. QED
    BY <2>1, <2>4, <2>5, <2>6, <2>7, <2>8
<1>8. CASE Setting
  <2>1. acts # <<>>
    BY <1>8 DEF Setting, EvalSafeMode, EvalErrorHandler, Running
  <2>. QED
    BY <2>1, <1>1, <1>2, <1>8 DEF Setting, EvalSafeMode, EvalErrorHandler, Remap
<1>9. CASE Exception
  <2>1. CASE Catch
    <3>. DEFINE cs == Leaving(Top)
    <3>1. acts # <<>> /\ Top.kind = "try"
      BY <2>1 DEF Catch
    <3>2. /\ Top = acts[Len(acts)] /\ Grown(Front(acts), acts) /\ Front(acts) \in Seq(Act)
      BY <3>1, <1>1, TopIn
    <3>3. cs = [ctxs EXCEPT ![Top.on].try = @ - 1]
      BY <3>1 DEF Leaving, Owning
    <3>. DEFINE ss == acts
                st == Front(acts)
    <3>0. Good(ctxs, ss) /\ st \in Seq(Act) /\ Grown(st, ss) /\ ss[Len(ss)].kind = "try"
      BY <1>1, <3>1, <3>2
    <3>4. Like(ctxs, [ctxs EXCEPT ![ss[Len(ss)].on].try = @ - 1])
      <4>. HIDE DEF st
      <4>. QED
        BY <3>0, LeaveTry
    <3>. Like(ctxs, cs)
      BY <3>2, <3>3, <3>4
    <3>5. cs[1].map = ctxs[1].map
      BY <1>5, <3>1
    <3>. HIDE DEF cs
    <3>6. GlobalKept(cs) /\ Top.on \in 1..Len(cs)
      BY <3>1, <3>4, <3>5, <1>1, <1>2 DEF Like, GlobalKept
    <3>7. GlobalKept(Append(cs, Child(cs, Top.on, NoNames)))
      BY <3>6, <1>4, ChildCtx, AppendKeeps DEF GlobalKept
    <3>. QED
      BY <2>1, <3>5, <3>7, BeginKeeps DEF Catch, cs
  <2>2. CASE Unhandled
    BY <2>2, <1>3, <1>4, BeginKeeps DEF Unhandled
  <2>3. CASE Unwind
    BY <2>3, <1>5 DEF Unwind
  <2>4. ASSUME NEW guard \in BOOLEAN, EvalThrow(guard) PROVE ctxs'[1].map = ctxs[1].map
    BY <2>4 DEF EvalThrow
  <2>. QED
    BY <1>9, <2>1, <2>2, <2>3, <2>4 DEF Exception, EvalAbort, Rethrow
<1>10. CASE UNCHANGED vars
  BY <1>10 DEF vars
<1>. QED
  BY <1>6, <1>7, <1>8, <1>9, <1>10 DEF Next

\* No macro of a page reaches the map that all pages share.
THEOREM GlobalStays == Spec => GlobalUntouched
<1>1. IInv /\ [Next]_vars => [ctxs'[Global].map = ctxs[Global].map]_vars
  BY GlobalStep DEF Global
<1>. QED
  BY <1>1, Invariant, PTL DEF Spec, GlobalUntouched

-----------------------------------------------------------------------------
(* let                                                                     *)

\* The one map that let changes; the chains stay.
LEMMA LetChange ==
  ASSUME IInv, NEW n \in Names, NEW v \in Values, EvalLet(n, v)
  PROVE  /\ acts # <<>> /\ Top.on \in 2..Len(ctxs) /\ Top.on \in 1..Len(ctxs)
         /\ LetWhere(n) \in Chain(Top.on) /\ LetWhere(n) \in 2..Top.on
         /\ Len(ctxs') = Len(ctxs)
         /\ \A k \in 1..Len(ctxs) :
              /\ ctxs'[k].chain = ctxs[k].chain
              /\ ctxs'[k].map[n] = IF k = LetWhere(n) THEN v ELSE ctxs[k].map[n]
<1>1. Good(ctxs, acts) /\ acts # <<>> /\ ctxs \in Seq(Ctx)
  BY DEF IInv, Good, Frame, Typed, EvalLet, Running
<1>2. /\ Top.on \in 2..Len(ctxs) /\ Top.on \in 1..Len(ctxs)
  BY <1>1, TopIn DEF Fits, Session
<1>3. Top.on \in Chain(Top.on)
  BY <1>1, <1>2 DEF Chain, Good, Frame, Linked
<1>4. /\ Where(Top.on, n) \in 0..Top.on
      /\ Where(Top.on, n) # 0 => Where(Top.on, n) \in Chain(Top.on)
  BY <1>1, <1>2, WhereIn
<1>5. LetWhere(n) \in Chain(Top.on) /\ LetWhere(n) \in 2..Top.on
  BY <1>2, <1>3, <1>4 DEF LetWhere, Session
<1>. DEFINE w == LetWhere(n)
            x == [ctxs[w] EXCEPT !.map = [@ EXCEPT ![n] = v]]
            ds == [ctxs EXCEPT ![w] = x]
<1>6. w \in 1..Len(ctxs)
  BY <1>2, <1>5
<1>7. ctxs[w] \in Ctx
  BY <1>1, <1>6, ElementOfSeq
<1>8. x \in Ctx /\ x.chain = ctxs[w].chain /\ x.map[n] = v
  <2>1. [ctxs[w].map EXCEPT ![n] = v] \in Maps /\ [ctxs[w].map EXCEPT ![n] = v][n] = v
    BY <1>7 DEF Ctx, Maps
  <2>. QED
    BY <2>1, <1>7 DEF Ctx
<1>9. ctxs' = ds
  BY DEF EvalLet, Remap
<1>. HIDE DEF x, w
<1>10. /\ Len(ds) = Len(ctxs)
       /\ \A k \in 1..Len(ctxs) : ds[k] = IF k = w THEN x ELSE ctxs[k]
  BY <1>1, <1>6, <1>8, ExceptSeq
<1>. HIDE DEF ds
<1>11. \A k \in 1..Len(ctxs) :
         /\ ctxs'[k].chain = ctxs[k].chain
         /\ ctxs'[k].map[n] = IF k = w THEN v ELSE ctxs[k].map[n]
  BY <1>8, <1>9, <1>10
<1>. QED
  BY <1>1, <1>2, <1>5, <1>9, <1>10, <1>11 DEF w

LEMMA LetStep ==
  ASSUME IInv, NEW n \in Names, NEW v \in Values, EvalLet(n, v), NEW c \in 1..Len(ctxs)
  PROVE  Find(c, n)' =
           IF c = Top.on \/ (Where(c, n) = Where(Top.on, n) /\ Where(c, n) >= Session)
           THEN v ELSE Find(c, n)
<1>. DEFINE w == LetWhere(n)
            S == {0} \cup {k \in Chain(c) : ctxs[k].map[n] # Undef}
            T == {0} \cup {k \in Chain(c)' : ctxs'[k].map[n] # Undef}
<1>1. /\ acts # <<>> /\ Top.on \in 2..Len(ctxs) /\ Top.on \in 1..Len(ctxs)
      /\ w \in Chain(Top.on) /\ w \in 2..Top.on
      /\ \A k \in 1..Len(ctxs) :
           /\ ctxs'[k].chain = ctxs[k].chain
           /\ ctxs'[k].map[n] = IF k = w THEN v ELSE ctxs[k].map[n]
  BY LetChange
<1>2. Good(ctxs, acts)
  BY DEF IInv
<1>3. Chain(c) \subseteq 1..c /\ Chain(c) \subseteq 1..Len(ctxs) /\ c \in Chain(c) /\ c \in Nat
  BY <1>2 DEF Chain, Good, Frame, Linked
<1>4. Chain(c)' = Chain(c)
  BY <1>1 DEF Chain
<1>5. v # Undef
  BY ContextAssumption
<1>6. T = {0} \cup {k \in Chain(c) : k = w \/ ctxs[k].map[n] # Undef}
  BY <1>1, <1>3, <1>4, <1>5
<1>7. Where(c, n)' = Max(T) /\ Where(c, n) = Max(S)
  BY DEF Where
<1>8. /\ Where(c, n) \in 0..c
      /\ Where(c, n) # 0 => Where(c, n) \in Chain(c) /\ ctxs[Where(c, n)].map[n] # Undef
  BY <1>2, WhereIn
<1>9. /\ Where(Top.on, n) \in 0..Top.on
      /\ Where(Top.on, n) # 0 => ctxs[Where(Top.on, n)].map[n] # Undef
  BY <1>1, <1>2, WhereIn
<1>10. Find(c, n)' = IF Where(c, n)' = 0 THEN Undef ELSE ctxs'[Where(c, n)'].map[n]
  BY DEF Find
<1>11. Find(c, n) = IF Where(c, n) = 0 THEN Undef ELSE ctxs[Where(c, n)].map[n]
  BY DEF Find
<1>12. w = IF Where(Top.on, n) < Session THEN Top.on ELSE Where(Top.on, n)
  BY DEF LetWhere
<1>. HIDE DEF w, S, T
<1>13. CASE Where(Top.on, n) >= Session
  <2>1. w = Where(Top.on, n) /\ ctxs[w].map[n] # Undef /\ w # 0
    BY <1>9, <1>12, <1>13 DEF Session
  <2>2. T = S
    BY <2>1, <1>6 DEF S
  <2>3. Where(c, n)' = Where(c, n)
    BY <2>2, <1>7
  <2>4. c = Top.on => Where(c, n) = w
    BY <2>1
  <2>5. CASE Where(c, n) = 0
    BY <2>1, <2>3, <2>4, <2>5, <1>10, <1>11
  <2>6. CASE Where(c, n) # 0
    <3>1. Where(c, n) \in 1..Len(ctxs)
      BY <2>6, <1>3, <1>8
    <3>2. Find(c, n)' = IF Where(c, n) = w THEN v ELSE ctxs[Where(c, n)].map[n]
      BY <2>3, <2>6, <3>1, <1>1, <1>10
    <3>. QED
      BY <2>1, <2>4, <2>6, <3>2, <1>11, <1>13
  <2>. QED
    BY <2>5, <2>6
<1>14. CASE ~(Where(Top.on, n) >= Session)
  <2>1. w = Top.on
    BY <1>9, <1>12, <1>14, <1>1 DEF Session
  <2>2. CASE c = Top.on
    <3>1. c \in T /\ T \subseteq 0..c /\ T # {}
      BY <2>1, <2>2, <1>3, <1>6
    <3>2. Max(T) \in T /\ \A y \in T : y <= Max(T)
      BY <3>1, <1>3, MaxIn
    <3>. DEFINE m == Max(T)
    <3>3. m = c
      <4>1. m \in 0..c /\ c <= m
        BY <3>1, <3>2
      <4>. HIDE DEF m
      <4>. QED
        BY <4>1, <1>3
    <3>. QED
      BY <3>3, <2>1, <2>2, <1>1, <1>3, <1>7, <1>10
  <2>3. CASE c # Top.on
    <3>1. w \notin Chain(c)
      BY <2>1, <2>3, <1>1, <1>2, Innermost DEF Top, Chain, Good
    <3>2. T = S
      BY <3>1, <1>6 DEF S
    <3>3. Where(c, n)' = Where(c, n)
      BY <3>2, <1>7
    <3>4. ~(Where(c, n) = Where(Top.on, n) /\ Where(c, n) >= Session)
      BY <1>14
    <3>5. Where(c, n) # 0 => Where(c, n) \in 1..Len(ctxs) /\ Where(c, n) # w
      BY <3>1, <1>3, <1>8
    <3>6. Find(c, n)' = Find(c, n)
      BY <3>3, <3>5, <1>1, <1>10, <1>11
    <3>. QED
      BY <3>4, <3>6, <2>3
  <2>. QED
    BY <2>2, <2>3
<1>. QED
  BY <1>13, <1>14

\* let changes the variable that the caller sees, and no other of that name.
THEOREM LetReplacesOne == Spec => LetReplaces
<1>1. ASSUME IInv, [Next]_vars
      PROVE  [\A n \in Names, v \in Values :
                EvalLet(n, v) =>
                  \A c \in DOMAIN ctxs :
                    Find(c, n)' =
                      IF c = Top.on \/ (Where(c, n) = Where(Top.on, n)
                                        /\ Where(c, n) >= Session)
                      THEN v ELSE Find(c, n)]_vars
  <2>1. DOMAIN ctxs = 1..Len(ctxs)
    BY <1>1 DEF IInv, Good, Frame, Typed
  <2>. QED
    BY <1>1, <2>1, LetStep
<1>. QED
  BY <1>1, Invariant, PTL DEF Spec, LetReplaces

-----------------------------------------------------------------------------
(* gset                                                                    *)

\* A context sees what its ancestors see, and every body in progress the session's.
Nested(cs, st) ==
  /\ \A c \in DOMAIN cs : \A k \in cs[c].chain : cs[k].chain \subseteq cs[c].chain
  /\ \A i \in 1..Len(st) : Session \in cs[st[i].on].chain

\* The contexts that a step leaves: those there were, and one new at the end.
MadeOf(cs) ==
  \A c \in DOMAIN cs :
    \/ c \in 1..Len(ctxs) /\ cs[c].chain = ctxs[c].chain
    \/ /\ acts # <<>> /\ c = Len(ctxs) + 1
       /\ cs[c].chain = {c} \/ cs[c].chain = ctxs[Top.on].chain \cup {c}

\* The context p is one that a body was given, the page's own, or a new one below.
GivenOn(cs, p) ==
  \/ \E j \in 1..Len(acts) : p = acts[j].on
  \/ p = Session
  \/ acts # <<>> /\ p = Len(ctxs) + 1 /\ cs[p].chain = ctxs[Top.on].chain \cup {p}

LEMMA NestedStep ==
  ASSUME Frame(ctxs, acts), Nested(ctxs, acts), Frame(ctxs', acts'), MadeOf(ctxs'),
         \A i \in 1..Len(acts') : GivenOn(ctxs', acts'[i].on)
  PROVE  Nested(ctxs', acts')
<1>1. /\ Len(ctxs) \in Nat /\ 2 \in 1..Len(ctxs) /\ DOMAIN ctxs = 1..Len(ctxs)
      /\ \A c \in 1..Len(ctxs) : ctxs[c].chain \subseteq 1..c /\ c \in ctxs[c].chain
      /\ \A i \in 1..Len(acts) : acts[i].on \in 1..Len(ctxs)
  BY DEF Frame, Typed, Linked, Session
<1>2. /\ Len(ctxs') \in Nat /\ DOMAIN ctxs' = 1..Len(ctxs')
      /\ \A c \in 1..Len(ctxs') : ctxs'[c].chain \subseteq 1..c /\ c \in ctxs'[c].chain
      /\ \A i \in 1..Len(acts') : acts'[i].on \in 1..Len(ctxs')
  BY DEF Frame, Typed, Linked, Session
<1>3. ASSUME acts # <<>>
      PROVE  Top.on \in 1..Len(ctxs) /\ Session \in ctxs[Top.on].chain
  <2>1. Top = acts[Len(acts)] /\ Len(acts) \in Nat \ {0}
    BY <1>3, FrontSeq DEF Frame, Typed, Top
  <2>2. Len(acts) \in 1..Len(acts)
    BY <2>1
  <2>3. Session \in ctxs[acts[Len(acts)].on].chain
    BY <2>2 DEF Nested
  <2>. QED
    BY <2>1, <2>2, <2>3, <1>1
<1>4. ASSUME NEW c \in DOMAIN ctxs', NEW k \in ctxs'[c].chain
      PROVE  ctxs'[k].chain \subseteq ctxs'[c].chain
  <2>1. k \in 1..c /\ k \in DOMAIN ctxs' /\ c \in Nat
    BY <1>2, <1>4
  <2>2. CASE k = c
    BY <2>2
  <2>3. CASE k # c
    <3>1. k < c /\ c <= Len(ctxs) + 1
      BY <2>1, <2>3, <1>1 DEF MadeOf
    <3>2. k \in 1..Len(ctxs) /\ k # Len(ctxs) + 1
      BY <3>1, <2>1, <1>1
    <3>3. ctxs'[k].chain = ctxs[k].chain
      BY <2>1, <3>2 DEF MadeOf
    <3>4. CASE c \in 1..Len(ctxs) /\ ctxs'[c].chain = ctxs[c].chain
      BY <3>3, <3>4, <1>1, <1>4 DEF Nested
    <3>5. CASE acts # <<>> /\ ctxs'[c].chain = ctxs[Top.on].chain \cup {c}
      <4>1. k \in ctxs[Top.on].chain
        BY <2>3, <3>5, <1>4
      <4>2. ctxs[k].chain \subseteq ctxs[Top.on].chain
        BY <4>1, <3>5, <1>1, <1>3 DEF Nested
      <4>. QED
        BY <4>2, <3>3, <3>5
    <3>6. CASE ctxs'[c].chain = {c}
      BY <2>3, <3>6, <1>4
    <3>. QED
      BY <3>4, <3>5, <3>6 DEF MadeOf
  <2>. QED
    BY <2>2, <2>3
<1>5. ASSUME NEW i \in 1..Len(acts')
      PROVE  Session \in ctxs'[acts'[i].on].chain
  <2>. DEFINE p == acts'[i].on
  <2>. SUFFICES Session \in ctxs'[p].chain
    OBVIOUS
  <2>1. p \in DOMAIN ctxs' /\ GivenOn(ctxs', p) /\ p \in ctxs'[p].chain
    BY <1>2
  <2>. HIDE DEF p
  <2>2. ASSUME p \in 1..Len(ctxs) PROVE ctxs'[p].chain = ctxs[p].chain
    <3>1. p # Len(ctxs) + 1
      BY <2>2, <1>1
    <3>. QED
      BY <2>1, <3>1 DEF MadeOf
  <2>3. CASE \E j \in 1..Len(acts) : p = acts[j].on
    <3>1. PICK j \in 1..Len(acts) : p = acts[j].on
      BY <2>3
    <3>2. Session \in ctxs[p].chain /\ p \in 1..Len(ctxs)
      BY <3>1, <1>1 DEF Nested
    <3>. QED
      BY <2>2, <3>2
  <2>4. CASE p = Session
    BY <2>1, <2>4
  <2>5. CASE acts # <<>> /\ p = Len(ctxs) + 1 /\ ctxs'[p].chain = ctxs[Top.on].chain \cup {p}
    BY <2>5, <1>3
  <2>. QED
    BY <2>1, <2>3, <2>4, <2>5 DEF GivenOn
<1>. QED
  BY <1>4, <1>5 DEF Nested

\* The activations of st were there before.
Old(st) == \A i \in 1..Len(st) : \E j \in 1..Len(acts) : st[i].on = acts[j].on

LEMMA OldStacks ==
  ASSUME acts \in Seq(Act)
  PROVE  Old(acts) /\ Old(<<>>) /\ (acts # <<>> => Old(Front(acts)))
<1>1. Old(acts) /\ Old(<<>>)
  BY DEF Old
<1>2. ASSUME acts # <<>>, NEW i \in 1..Len(Front(acts))
      PROVE  \E j \in 1..Len(acts) : Front(acts)[i].on = acts[j].on
  <2>1. /\ Len(acts) \in Nat \ {0} /\ Len(Front(acts)) = Len(acts) - 1
        /\ \A j \in 1..(Len(acts) - 1) : Front(acts)[j] = acts[j]
    BY <1>2, FrontSeq
  <2>2. i \in 1..Len(acts) /\ i \in 1..(Len(acts) - 1)
    BY <2>1
  <2>. QED
    BY <2>1, <2>2
<1>. QED
  BY <1>1, <1>2 DEF Old

LEMMA MadeFront ==
  ASSUME NEW cs \in Seq(Ctx), cs # <<>>, MadeOf(cs)
  PROVE  MadeOf(Front(cs))
<1>1. /\ Front(cs) \in Seq(Ctx) /\ Len(cs) \in Nat \ {0} /\ Len(Front(cs)) = Len(cs) - 1
      /\ \A i \in 1..(Len(cs) - 1) : Front(cs)[i] = cs[i]
  BY FrontSeq
<1>2. DOMAIN Front(cs) = 1..(Len(cs) - 1) /\ DOMAIN cs = 1..Len(cs)
  BY <1>1
<1>3. \A i \in 1..(Len(cs) - 1) : i \in 1..Len(cs)
  BY <1>1
<1>. QED
  BY <1>1, <1>2, <1>3 DEF MadeOf

LEMMA MadeAppend ==
  ASSUME NEW cs \in Seq(Ctx), MadeOf(cs), Len(cs) = Len(ctxs), acts # <<>>, NEW x \in Ctx,
         x.chain = {Len(ctxs) + 1} \/ x.chain = ctxs[Top.on].chain \cup {Len(ctxs) + 1}
  PROVE  /\ MadeOf(Append(cs, x)) /\ Append(cs, x) \in Seq(Ctx) /\ Append(cs, x) # <<>>
         /\ Append(cs, x)[Len(ctxs) + 1] = x
<1>1. /\ Append(cs, x) \in Seq(Ctx) /\ Len(Append(cs, x)) = Len(cs) + 1 /\ Len(cs) \in Nat
      /\ \A i \in 1..Len(cs) : Append(cs, x)[i] = cs[i]
      /\ Append(cs, x)[Len(cs) + 1] = x
  BY AppendSeq
<1>2. DOMAIN Append(cs, x) = 1..(Len(cs) + 1) /\ DOMAIN cs = 1..Len(cs)
  BY <1>1
<1>3. \A c \in 1..(Len(cs) + 1) : c = Len(cs) + 1 \/ c \in 1..Len(cs)
  BY <1>1
<1>4. Append(cs, x) # <<>>
  BY <1>1, EmptySeq
<1>. QED
  BY <1>1, <1>2, <1>3, <1>4 DEF MadeOf

\* An activation is begun, or refused, on a stack that was there before.
LEMMA NestedBegin ==
  ASSUME Frame(ctxs, acts), Nested(ctxs, acts), Frame(ctxs', acts'),
         NEW cs \in Seq(Ctx), cs # <<>>, MadeOf(cs),
         NEW st \in Seq(Act), Old(st), NEW a \in Act, GivenOn(cs, a.on), Begin(st, cs, a)
  PROVE  Nested(ctxs', acts')
<1>1. MadeOf(Front(cs))
  BY MadeFront
<1>2. \A i \in 1..Len(st) : GivenOn(ctxs', st[i].on)
  BY DEF Old, GivenOn
<1>3. CASE ctxs' = cs /\ acts' = Append(st, a)
  <2>1. /\ Len(acts') = Len(st) + 1 /\ Len(st) \in Nat /\ acts'[Len(st) + 1] = a
        /\ \A i \in 1..Len(st) : acts'[i] = st[i]
    BY <1>3, AppendSeq
  <2>2. \A i \in 1..Len(acts') : i = Len(st) + 1 \/ i \in 1..Len(st)
    BY <2>1
  <2>3. \A i \in 1..Len(acts') : GivenOn(ctxs', acts'[i].on)
    BY <2>1, <2>2, <1>2, <1>3
  <2>. QED
    BY <2>3, <1>3, NestedStep
<1>4. CASE acts' = st /\ (ctxs' = cs \/ ctxs' = Front(cs))
  BY <1>1, <1>2, <1>4, NestedStep
<1>. QED
  BY <1>3, <1>4 DEF Begin

\* No activation is begun.
LEMMA NestedQuiet ==
  ASSUME Frame(ctxs, acts), Nested(ctxs, acts), Frame(ctxs', acts'),
         MadeOf(ctxs'), Old(acts')
  PROVE  Nested(ctxs', acts')
<1>1. \A i \in 1..Len(acts') : GivenOn(ctxs', acts'[i].on)
  BY DEF Old, GivenOn
<1>. QED
  BY <1>1, NestedStep

\* What a step does to some field of one context but the parents.
LEMMA FieldsKeepChains ==
  ASSUME ctxs \in Seq(Ctx), NEW p, NEW n, NEW v
  PROVE  /\ MadeOf([ctxs EXCEPT ![p].map[n] = v])
         /\ MadeOf([ctxs EXCEPT ![p].try = v])
         /\ MadeOf([ctxs EXCEPT ![p].safe = v])
         /\ MadeOf([ctxs EXCEPT ![p] = [ctxs[p] EXCEPT !.handler = n, !.try = v]])
<1>1. DOMAIN ctxs = 1..Len(ctxs) /\ \A k \in 1..Len(ctxs) : ctxs[k] \in Ctx
  BY ElementOfSeq
<1>2. ASSUME NEW k \in 1..Len(ctxs)
      PROVE  /\ [ctxs EXCEPT ![p].map[n] = v][k].chain = ctxs[k].chain
             /\ [ctxs EXCEPT ![p].try = v][k].chain = ctxs[k].chain
             /\ [ctxs EXCEPT ![p].safe = v][k].chain = ctxs[k].chain
             /\ [ctxs EXCEPT ![p] = [ctxs[p] EXCEPT !.handler = n, !.try = v]][k].chain
                  = ctxs[k].chain
  BY <1>1 DEF Ctx
<1>. QED
  BY <1>1, <1>2 DEF MadeOf

LEMMA BelowKeepsChains ==
  ASSUME ctxs \in Seq(Ctx), NEW n, NEW v
  PROVE  MadeOf(Below(n)) /\ MadeOf([Below(n) EXCEPT ![Session].map[n] = v])
<1>1. DOMAIN ctxs = 1..Len(ctxs) /\ \A k \in 1..Len(ctxs) : ctxs[k] \in Ctx
  BY ElementOfSeq
<1>2. DOMAIN Below(n) = 1..Len(ctxs)
  BY <1>1 DEF Below
<1>3. ASSUME NEW k \in 1..Len(ctxs)
      PROVE  /\ Below(n)[k].chain = ctxs[k].chain
             /\ [Below(n) EXCEPT ![Session].map[n] = v][k].chain = ctxs[k].chain
  <2>1. Below(n)[k] = ctxs[k] \/ Below(n)[k] = [ctxs[k] EXCEPT !.map[n] = Undef]
    BY <1>1 DEF Below
  <2>2. Below(n)[k].chain = ctxs[k].chain
        /\ [Below(n)[k] EXCEPT !.map[n] = v].chain = ctxs[k].chain
    BY <2>1, <1>1 DEF Ctx
  <2>3. [Below(n) EXCEPT ![Session].map[n] = v][k] =
          IF k = Session THEN [Below(n)[k] EXCEPT !.map[n] = v] ELSE Below(n)[k]
    BY <1>2
  <2>. QED
    BY <2>2, <2>3
<1>4. DOMAIN [Below(n) EXCEPT ![Session].map[n] = v] = 1..Len(ctxs)
  BY <1>2
<1>. QED
  BY <1>2, <1>3, <1>4 DEF MadeOf

LEMMA NestedExpansion ==
  ASSUME IInv, Frame(ctxs', acts'), Nested(ctxs, acts), Expansion
  PROVE  Nested(ctxs', acts')
<1>1. /\ Good(ctxs, acts) /\ Frame(ctxs, acts) /\ acts \in Seq(Act) /\ ctxs \in Seq(Ctx)
      /\ Len(ctxs) \in Nat /\ Len(ctxs) >= 2 /\ ctxs # <<>>
  BY EmptySeq DEF IInv, Good, Frame, Typed, Session
<1>2. MadeOf(ctxs)
  BY <1>1 DEF MadeOf
<1>3. Old(acts)
  BY <1>1, OldStacks
<1>4. ASSUME acts # <<>>
      PROVE  /\ Top.on \in 1..Len(ctxs) /\ Top.on \in Nat /\ ctxs[Top.on] \in Ctx
             /\ \A cs : GivenOn(cs, Top.on)
  <2>1. Top = acts[Len(acts)] /\ Len(acts) \in Nat \ {0}
    BY <1>1, <1>4, FrontSeq DEF Top
  <2>2. Len(acts) \in 1..Len(acts)
    BY <2>1
  <2>. QED
    BY <1>1, <1>4, <2>1, <2>2, TopIn DEF GivenOn
<1>5. ASSUME acts # <<>>, NEW m \in Maps, NEW kind \in {"call", "sub"}, NEW guard \in BOOLEAN,
             Begin(acts, Append(ctxs, Child(ctxs, Top.on, m)),
                   Activation(kind, Len(ctxs) + 1, Len(ctxs) + 1, guard))
      PROVE  Nested(ctxs', acts')
  <2>. DEFINE x == Child(ctxs, Top.on, m)
              a == Activation(kind, Len(ctxs) + 1, Len(ctxs) + 1, guard)
  <2>1. x \in Ctx /\ x.chain = ctxs[Top.on].chain \cup {Len(ctxs) + 1}
    <3>1. x \in Ctx
      BY <1>1, <1>4, <1>5, ChildCtx
    <3>. QED
      BY <3>1, <1>4, <1>5 DEF Child, Ctx
  <2>2. a \in Act /\ a.on = Len(ctxs) + 1
    BY <1>1 DEF Activation, Act, Kinds
  <2>3. Begin(acts, Append(ctxs, x), a)
    BY <1>5
  <2>. HIDE DEF x, a
  <2>4. /\ MadeOf(Append(ctxs, x)) /\ Append(ctxs, x) \in Seq(Ctx) /\ Append(ctxs, x) # <<>>
        /\ Append(ctxs, x)[Len(ctxs) + 1] = x
    BY <1>1, <1>2, <1>5, <2>1, MadeAppend
  <2>5. GivenOn(Append(ctxs, x), a.on)
    BY <1>5, <2>1, <2>2, <2>4 DEF GivenOn
  <2>. QED
    BY <1>1, <1>3, <2>2, <2>3, <2>4, <2>5, NestedBegin
<1>6. ASSUME NEW m \in Maps, NEW guard \in BOOLEAN, Call(m, guard)
      PROVE  Nested(ctxs', acts')
  BY <1>5, <1>6 DEF Call, MayEnter, Running
<1>7. ASSUME NEW m \in Maps, Sub(m)
      PROVE  Nested(ctxs', acts')
  <2>1. acts # <<>> /\ Guard \in BOOLEAN
    BY <1>7 DEF Sub, MayEnter, Running, Guard
  <2>. QED
    BY <2>1, <1>5, <1>7 DEF Sub
<1>8. ASSUME NEW guard \in BOOLEAN, Block(guard)
      PROVE  Nested(ctxs', acts')
  <2>. DEFINE a == Activation("block", Top.on, Top.on, guard)
  <2>1. acts # <<>>
    BY <1>8 DEF Block, MayEnter, Running
  <2>2. a \in Act /\ a.on = Top.on /\ Begin(acts, ctxs, a)
    BY <2>1, <1>4, <1>8 DEF Block, Activation, Act, Kinds
  <2>. HIDE DEF a
  <2>3. GivenOn(ctxs, a.on)
    BY <2>1, <2>2, <1>4
  <2>. QED
    BY <2>2, <2>3, <1>1, <1>2, <1>3, NestedBegin
<1>9. CASE EvalTry
  <2>. DEFINE x == [ctxs[Top.on] EXCEPT !.try = @ + 1]
              cs == [ctxs EXCEPT ![Top.on] = x]
              a == Activation("try", Top.on, Top.on, Guard)
  <2>1. acts # <<>> /\ Guard \in BOOLEAN
    BY <1>9 DEF EvalTry, MayEnter, Running, Guard
  <2>2. a \in Act /\ a.on = Top.on
    BY <2>1, <1>4 DEF Activation, Act, Kinds
  <2>3. cs = [ctxs EXCEPT ![Top.on].try = @ + 1]
    OBVIOUS
  <2>4. Begin(acts, cs, a)
    BY <2>3, <1>9 DEF EvalTry
  <2>5. x \in Ctx /\ x.chain = ctxs[Top.on].chain
    BY <2>1, <1>4 DEF Ctx
  <2>. HIDE DEF x, a
  <2>6. /\ cs \in Seq(Ctx) /\ Len(cs) = Len(ctxs)
        /\ \A k \in 1..Len(ctxs) : cs[k] = IF k = Top.on THEN x ELSE ctxs[k]
    BY <2>1, <2>5, <1>1, <1>4, ExceptSeq
  <2>. HIDE DEF cs
  <2>7. cs # <<>> /\ DOMAIN cs = 1..Len(ctxs)
    BY <2>6, <1>1, EmptySeq
  <2>8. MadeOf(cs)
    BY <2>5, <2>6, <2>7 DEF MadeOf
  <2>9. GivenOn(cs, a.on)
    BY <2>1, <2>2, <1>4
  <2>. QED
    BY <2>2, <2>4, <2>6, <2>7, <2>8, <2>9, <1>1, <1>3, NestedBegin
<1>10. CASE EvalSafeExpand
  <2>. DEFINE x == Orphan(ctxs)
              a == Activation("safe-expand", Len(ctxs) + 1, Top.on, Guard)
  <2>1. acts # <<>> /\ Guard \in BOOLEAN
    BY <1>10 DEF EvalSafeExpand, MayEnter, Running, Guard
  <2>2. a \in Act /\ a.on = Top.on
    BY <2>1, <1>1, <1>4 DEF Activation, Act, Kinds
  <2>3. NoNames \in Maps
    BY DEF NoNames, Maps
  <2>4. x \in Ctx /\ x.chain = {Len(ctxs) + 1}
    BY <2>1, <2>3, <1>1, <1>4, ChildCtx DEF Orphan
  <2>5. Begin(acts, Append(ctxs, x), a)
    BY <1>10 DEF EvalSafeExpand
  <2>. HIDE DEF x, a
  <2>6. /\ MadeOf(Append(ctxs, x)) /\ Append(ctxs, x) \in Seq(Ctx) /\ Append(ctxs, x) # <<>>
    BY <1>1, <1>2, <2>1, <2>4, MadeAppend
  <2>7. GivenOn(Append(ctxs, x), a.on)
    BY <2>1, <2>2, <1>4
  <2>. QED
    BY <2>2, <2>5, <2>6, <2>7, <1>1, <1>3, NestedBegin
<1>11. ASSUME acts # <<>>
       PROVE  MadeOf(Leaving(Top)) /\ Old(Front(acts))
  <2>1. MadeOf(Front(ctxs))
    BY <1>1, <1>2, MadeFront
  <2>2. MadeOf([ctxs EXCEPT ![Top.on].try = ctxs[Top.on].try - 1])
    BY <1>1, FieldsKeepChains
  <2>. QED
    BY <2>1, <2>2, <1>1, <1>2, <1>11, OldStacks DEF Leaving
<1>12. CASE Return
  BY <1>1, <1>11, <1>12, NestedQuiet DEF Return, Running
<1>13. CASE ParseTry
  <2>1. \A i \in 1..Len(acts') : GivenOn(ctxs', acts'[i].on)
    BY <1>13 DEF ParseTry, Page, Activation, GivenOn
  <2>. QED
    BY <2>1, <1>1, <1>2, <1>13, NestedStep DEF ParseTry
<1>. QED
  BY <1>6, <1>7, <1>8, <1>9, <1>10, <1>12, <1>13 DEF Expansion

LEMMA NestedException ==
  ASSUME IInv, Frame(ctxs', acts'), Nested(ctxs, acts), Exception
  PROVE  Nested(ctxs', acts')
<1>1. /\ Good(ctxs, acts) /\ Frame(ctxs, acts) /\ acts \in Seq(Act) /\ ctxs \in Seq(Ctx)
      /\ Len(ctxs) \in Nat /\ Len(ctxs) >= 2 /\ ctxs # <<>>
  BY EmptySeq DEF IInv, Good, Frame, Typed, Session
<1>2. MadeOf(ctxs)
  BY <1>1 DEF MadeOf
<1>3. Old(acts) /\ Old(<<>>)
  BY <1>1, OldStacks
<1>4. NoNames \in Maps
  BY DEF NoNames, Maps
<1>5. CASE Catch
  <2>. DEFINE cs == Leaving(Top)
              st == Front(acts)
              x == Child(cs, Top.on, NoNames)
              a == Activation("catch", Len(cs) + 1, Len(cs) + 1, Top.guard)
  <2>1. acts # <<>> /\ Top.kind = "try" /\ Top.kind \notin Owning
    BY <1>5 DEF Catch, Owning
  <2>2. /\ Top = acts[Len(acts)] /\ Top \in Act /\ Top.on \in 1..Len(ctxs)
        /\ Grown(st, acts) /\ st \in Seq(Act)
    BY <1>1, <2>1, TopIn
  <2>3. cs = [ctxs EXCEPT ![Top.on].try = @ - 1]
    BY <2>1 DEF Leaving
  <2>4. Like(ctxs, cs)
    <3>1. /\ Good(ctxs, acts) /\ st \in Seq(Act) /\ Grown(st, acts)
          /\ acts[Len(acts)].kind = "try"
      BY <1>1, <2>1, <2>2
    <3>2. Like(ctxs, [ctxs EXCEPT ![acts[Len(acts)].on].try = @ - 1])
      <4>. HIDE DEF st
      <4>. QED
        BY <3>1, LeaveTry
    <3>. QED
      BY <2>2, <2>3, <3>2
  <2>5. Old(st)
    BY <1>1, <2>1, OldStacks
  <2>6. Top.guard \in BOOLEAN
    BY <2>2 DEF Act
  <2>. HIDE DEF cs, st
  <2>7. /\ cs \in Seq(Ctx) /\ Len(cs) = Len(ctxs) /\ MadeOf(cs)
        /\ cs[Top.on].chain = ctxs[Top.on].chain /\ cs[Top.on] \in Ctx
    <3>1. cs \in Seq(Ctx) /\ Len(cs) = Len(ctxs) /\ DOMAIN cs = 1..Len(ctxs)
      BY <2>4 DEF Like
    <3>2. cs[Top.on] \in Ctx
      BY <2>2, <3>1, ElementOfSeq
    <3>. QED
      BY <2>2, <2>4, <3>1, <3>2 DEF Like, MadeOf
  <2>8. x \in Ctx /\ x.chain = ctxs[Top.on].chain \cup {Len(ctxs) + 1}
    <3>1. x \in Ctx
      BY <1>4, <2>2, <2>7, ChildCtx
    <3>. QED
      BY <3>1, <2>7 DEF Child, Ctx
  <2>9. a \in Act /\ a.on = Len(ctxs) + 1
    BY <1>1, <2>6, <2>7 DEF Activation, Act, Kinds
  <2>10. \/ Begin(st, Append(cs, x), a)
         \/ ctxs' = cs /\ acts' = st
    BY <1>5 DEF Catch, cs, st
  <2>. HIDE DEF x, a
  <2>11. CASE Begin(st, Append(cs, x), a)
    <3>1. /\ MadeOf(Append(cs, x)) /\ Append(cs, x) \in Seq(Ctx) /\ Append(cs, x) # <<>>
          /\ Append(cs, x)[Len(ctxs) + 1] = x
      BY <2>1, <2>7, <2>8, MadeAppend
    <3>2. GivenOn(Append(cs, x), a.on)
      BY <2>1, <2>8, <2>9, <3>1 DEF GivenOn
    <3>. QED
      BY <3>1, <3>2, <1>1, <2>2, <2>5, <2>9, <2>11, NestedBegin
  <2>12. CASE ctxs' = cs /\ acts' = st
    BY <1>1, <2>5, <2>7, <2>12, NestedQuiet
  <2>. QED
    BY <2>10, <2>11, <2>12
<1>6. CASE Unhandled
  <2>. DEFINE x == Child(ctxs, Top.on, NoNames)
              a == Activation("handler", Len(ctxs) + 1, Len(ctxs) + 1, FALSE)
  <2>1. acts # <<>>
    BY <1>6 DEF Unhandled
  <2>2. Top.on \in 1..Len(ctxs) /\ ctxs[Top.on] \in Ctx
    BY <1>1, <2>1, TopIn
  <2>3. x \in Ctx /\ x.chain = ctxs[Top.on].chain \cup {Len(ctxs) + 1}
    <3>1. x \in Ctx
      BY <1>1, <1>4, <2>2, ChildCtx
    <3>. QED
      BY <3>1, <2>2 DEF Child, Ctx
  <2>4. a \in Act /\ a.on = Len(ctxs) + 1 /\ <<>> \in Seq(Act)
    BY <1>1 DEF Activation, Act, Kinds
  <2>5. \/ Begin(<<>>, Append(ctxs, x), a)
        \/ acts' = <<>> /\ ctxs' = ctxs
    BY <1>6 DEF Unhandled
  <2>. HIDE DEF x, a
  <2>6. CASE Begin(<<>>, Append(ctxs, x), a)
    <3>1. /\ MadeOf(Append(ctxs, x)) /\ Append(ctxs, x) \in Seq(Ctx)
          /\ Append(ctxs, x) # <<>> /\ Append(ctxs, x)[Len(ctxs) + 1] = x
      BY <1>1, <1>2, <2>1, <2>3, MadeAppend
    <3>2. GivenOn(Append(ctxs, x), a.on)
      BY <2>1, <2>3, <2>4, <3>1 DEF GivenOn
    <3>. QED
      BY <3>1, <3>2, <1>1, <1>3, <2>4, <2>6, NestedBegin
  <2>7. CASE acts' = <<>> /\ ctxs' = ctxs
    BY <1>1, <1>2, <1>3, <2>7, NestedQuiet
  <2>. QED
    BY <2>5, <2>6, <2>7
<1>7. CASE Unwind
  <2>1. acts # <<>> /\ ctxs' = Leaving(Top) /\ acts' = Front(acts)
    BY <1>7 DEF Unwind
  <2>2. MadeOf(Front(ctxs)) /\ MadeOf([ctxs EXCEPT ![Top.on].try = ctxs[Top.on].try - 1])
    BY <1>1, <1>2, MadeFront, FieldsKeepChains
  <2>3. MadeOf(Leaving(Top)) /\ Old(Front(acts))
    BY <2>1, <2>2, <1>1, <1>2, OldStacks DEF Leaving
  <2>. QED
    BY <2>1, <2>3, <1>1, NestedQuiet
<1>8. CASE (\E guard \in BOOLEAN : EvalThrow(guard)) \/ EvalAbort \/ Rethrow
  <2>1. ctxs' = ctxs /\ acts' = acts
    BY <1>8 DEF EvalThrow, EvalAbort, Rethrow
  <2>. QED
    BY <2>1
<1>. QED
  BY <1>5, <1>6, <1>7, <1>8 DEF Exception

LEMMA NestedRemap ==
  ASSUME IInv, Frame(ctxs', acts'), Nested(ctxs, acts), Variable \/ Setting
  PROVE  Nested(ctxs', acts')
<1>1. Frame(ctxs, acts) /\ acts \in Seq(Act) /\ ctxs \in Seq(Ctx)
  BY DEF IInv, Good, Frame, Typed
<1>2. acts' = acts /\ Old(acts')
  <2>1. acts' = acts
    BY DEF Variable, Setting, EvalUnset, EvalGUndefine, EvalSet, EvalGSet, EvalLet,
           EvalSafeMode, EvalErrorHandler, Remap
  <2>. QED
    BY <2>1, <1>1, OldStacks
<1>3. MadeOf(ctxs')
  <2>1. CASE Variable
    <3>1. PICK n \in Names :
            \/ EvalUnset(n) \/ EvalGUndefine(n)
            \/ \E v \in Values : EvalSet(n, v) \/ EvalGSet(n, v) \/ EvalLet(n, v)
      BY <2>1 DEF Variable
    <3>2. CASE EvalUnset(n)
      BY <3>2, <1>1, FieldsKeepChains DEF EvalUnset, Remap
    <3>3. CASE EvalGUndefine(n)
      BY <3>3, <1>1, BelowKeepsChains DEF EvalGUndefine, Remap
    <3>4. ASSUME NEW v \in Values, EvalSet(n, v) PROVE MadeOf(ctxs')
      BY <3>4, <1>1, FieldsKeepChains DEF EvalSet, Remap
    <3>5. ASSUME NEW v \in Values, EvalGSet(n, v) PROVE MadeOf(ctxs')
      BY <3>5, <1>1, BelowKeepsChains DEF EvalGSet, Remap
    <3>6. ASSUME NEW v \in Values, EvalLet(n, v) PROVE MadeOf(ctxs')
      BY <3>6, <1>1, FieldsKeepChains DEF EvalLet, Remap
    <3>. QED
      BY <3>1, <3>2, <3>3, <3>4, <3>5, <3>6
  <2>2. CASE EvalSafeMode
    BY <1>1, <2>2, FieldsKeepChains DEF EvalSafeMode, Remap
  <2>3. ASSUME NEW b \in BOOLEAN, EvalErrorHandler(b) PROVE MadeOf(ctxs')
    BY <1>1, <2>3, FieldsKeepChains DEF EvalErrorHandler, Remap
  <2>. QED
    BY <2>1, <2>2, <2>3 DEF Setting
<1>. QED
  BY <1>1, <1>2, <1>3, NestedQuiet

NestedInv == IInv /\ Nested(ctxs, acts)

LEMMA NestedAlways == Spec => []NestedInv
<1>1. Init => NestedInv
  <2>. SUFFICES ASSUME Init PROVE Nested(ctxs, acts)
    BY InitInv DEF NestedInv
  <2>1. /\ Len(acts) = 1 /\ acts[1].on = 2 /\ DOMAIN ctxs = {1, 2}
        /\ ctxs[1].chain = {1} /\ ctxs[2].chain = {1, 2}
    BY DEF Init, Page, Activation, Global, Session
  <2>. QED
    BY <2>1 DEF Nested, Session
<1>2. NestedInv /\ [Next]_vars => NestedInv'
  <2>. SUFFICES ASSUME IInv, Nested(ctxs, acts), [Next]_vars PROVE NestedInv'
    BY DEF NestedInv
  <2>1. IInv' /\ Frame(ctxs', acts')
    BY NextInv DEF IInv, Good
  <2>2. Nested(ctxs', acts')
    <3>1. CASE Next
      BY <2>1, <3>1, NestedExpansion, NestedException, NestedRemap DEF Next
    <3>2. CASE UNCHANGED vars
      BY <3>2 DEF vars
    <3>. QED
      BY <3>1, <3>2
  <2>. QED
    BY <2>1, <2>2 DEF NestedInv
<1>. QED
  BY <1>1, <1>2, PTL DEF Spec

LEMMA GSetStep ==
  ASSUME NestedInv, NEW n \in Names, NEW v \in Values, EvalGSet(n, v), NEW i \in 1..Len(acts)
  PROVE  Find(acts[i].on, n)' = v
<1>. DEFINE p == acts[i].on
            T == {0} \cup {k \in ctxs'[p].chain : ctxs'[k].map[n] # Undef}
<1>1. /\ Good(ctxs, acts) /\ acts # <<>> /\ acts' = acts /\ ctxs \in Seq(Ctx)
      /\ acts \in Seq(Act)
  BY DEF NestedInv, IInv, Good, Frame, Typed, EvalGSet, Running, Remap
<1>2. DOMAIN ctxs = 1..Len(ctxs) /\ \A k \in 1..Len(ctxs) : ctxs[k] \in Ctx
  BY <1>1, ElementOfSeq
<1>3. p \in 1..Len(ctxs) /\ 2 \in 1..Len(ctxs)
  BY DEF NestedInv, IInv, Good, Frame, Typed, Session
<1>4. Top = acts[Len(acts)] /\ Top.on \in 1..Len(ctxs) /\ p \in ctxs[Top.on].chain
  <2>1. Top = acts[Len(acts)] /\ Len(acts) \in Nat \ {0}
    BY <1>1, FrontSeq DEF Top
  <2>2. Len(acts) \in 1..Len(acts) /\ i <= Len(acts)
    BY <2>1
  <2>. QED
    BY <1>1, <2>1, <2>2, TopIn DEF Good, Frame, Linked
<1>5. /\ ctxs[p].chain \subseteq ctxs[Top.on].chain /\ 2 \in ctxs[p].chain
      /\ ctxs[p].chain \subseteq 1..Len(ctxs)
  <2>1. ctxs[p].chain \subseteq 1..p
    BY <1>1, <1>3 DEF Good, Frame, Linked
  <2>. QED
    BY <2>1, <1>2, <1>3, <1>4 DEF NestedInv, Nested, Session
<1>6. ctxs' = [Below(n) EXCEPT ![2].map[n] = v]
  BY DEF EvalGSet, Remap, Session
<1>7. ASSUME NEW k \in 1..Len(ctxs)
      PROVE  /\ ctxs'[k].chain = ctxs[k].chain
             /\ k = 2 => ctxs'[k].map[n] = v
             /\ k \in ctxs[Top.on].chain /\ k > 2 => ctxs'[k].map[n] = Undef
  <2>1. ctxs[k] \in Ctx /\ n \in DOMAIN ctxs[k].map
    BY <1>2 DEF Ctx, Maps
  <2>2. Below(n)[k] = IF k \in ctxs[Top.on].chain /\ k > 2
                      THEN [ctxs[k] EXCEPT !.map[n] = Undef] ELSE ctxs[k]
    BY <1>2 DEF Below, Chain, Session
  <2>3. DOMAIN Below(n) = 1..Len(ctxs)
    BY <1>2 DEF Below
  <2>4. /\ [ctxs[k] EXCEPT !.map[n] = Undef].chain = ctxs[k].chain
        /\ [ctxs[k] EXCEPT !.map[n] = Undef].map[n] = Undef
        /\ [ctxs[k] EXCEPT !.map[n] = v].chain = ctxs[k].chain
        /\ [ctxs[k] EXCEPT !.map[n] = v].map[n] = v
    BY <2>1 DEF Ctx
  <2>5. CASE k = 2
    <3>1. Below(n)[k] = ctxs[k]
      BY <2>2, <2>5
    <3>2. ctxs'[k] = [ctxs[k] EXCEPT !.map[n] = v]
      BY <3>1, <2>3, <2>5, <1>6
    <3>. QED
      BY <3>2, <2>4, <2>5
  <2>6. CASE k # 2
    <3>1. ctxs'[k] = Below(n)[k]
      BY <2>3, <2>6, <1>6
    <3>. QED
      BY <3>1, <2>2, <2>4, <2>6
  <2>. QED
    BY <2>5, <2>6
<1>8. v # Undef
  BY ContextAssumption
<1>9. ctxs'[p].chain = ctxs[p].chain
  BY <1>3, <1>7
<1>10. ASSUME NEW k \in ctxs'[p].chain, ctxs'[k].map[n] # Undef PROVE k \in 0..2
  <2>1. k \in 1..Len(ctxs) /\ k \in ctxs[Top.on].chain
    BY <1>5, <1>9, <1>10
  <2>. QED
    BY <2>1, <1>7, <1>10
<1>11. 2 \in T /\ T \subseteq 0..2
  BY <1>3, <1>5, <1>7, <1>8, <1>9, <1>10
<1>12. Find(p, n)' = IF Max(T) = 0 THEN Undef ELSE ctxs'[Max(T)].map[n]
  BY <1>1 DEF Find, Where, Chain
<1>. HIDE DEF T
<1>13. Max(T) \in T /\ \A y \in T : y <= Max(T)
  BY <1>11, MaxIn
<1>. DEFINE m == Max(T)
<1>14. m \in 0..2 /\ 2 <= m
  BY <1>11, <1>13
<1>15. m = 2
  <2>. HIDE DEF m
  <2>. QED
    BY <1>14
<1>. QED
  BY <1>3, <1>7, <1>12, <1>15

\* Every body in progress sees what gset has set: the contexts between it and the
\* session's are ancestors of the caller's, and have forgotten the name.
THEOREM GSetReachesAll == Spec => GSetSeen
<1>1. ASSUME NestedInv, [Next]_vars
      PROVE  [\A n \in Names, v \in Values :
                EvalGSet(n, v) => \A i \in DOMAIN acts : Find(acts[i].on, n)' = v]_vars
  <2>1. DOMAIN acts = 1..Len(acts)
    BY <1>1 DEF NestedInv, IInv, Good, Frame, Typed
  <2>. QED
    BY <1>1, <2>1, GSetStep
<1>. QED
  BY <1>1, NestedAlways, PTL DEF Spec, GSetSeen

=============================================================================
