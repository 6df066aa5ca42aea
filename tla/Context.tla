------------------------------ MODULE Context ------------------------------
(***************************************************************************)
(* qCtx, the macro interpreter (qctx.h, qctx.cpp), and the macros of the   *)
(* core library that change its contexts (core.cpp).                       *)
(*                                                                         *)
(* A page is expanded by ParseTry.  Each macro that expands a body is an   *)
(* activation on the C++ stack; some create a context of their own, which  *)
(* lives as long as the activation and takes over, when it is built, the   *)
(* try count, error handler and safe mode of its parent.  Exceptions are   *)
(* C++ exceptions: a step of the model takes one out of one activation.    *)
(*                                                                         *)
(* The script is any sequence of macros.  Left out: lookups with ':', the  *)
(* strict flag (its exceptions are raised like those of throw), contexts   *)
(* of modules and classes, and exceptions that are not the interpreter's.  *)
(***************************************************************************)
EXTENDS Naturals, FiniteSets, SequencesExt

CONSTANTS
  Names,     \* names of variables
  Values,    \* what they can stand for
  Undef,     \* a name that is not in a context's map
  MaxLevels, \* GetMaxLevels(), small
  MaxDepth   \* bound: activations at one time

ASSUME ContextAssumption ==
  /\ Undef \notin Values
  /\ MaxLevels \in Nat /\ MaxDepth \in Nat

VARIABLES
  ctxs,  \* the live contexts, oldest first
  acts,  \* the activations, innermost last; none when no page is expanded
  exc,   \* the exception on its way: "none", "ex", "abort", or "guarded", an
         \* "ex" that is inside the try statement of ParseFunc
  said   \* ghost: the last step printed an exception instead of throwing it

vars == <<ctxs, acts, exc, said>>

\* The context with the libraries, shared by all pages, and the page's own.
Global  == 1
Session == 2

Kinds == {"page", "call", "sub", "block", "try", "safe-expand", "catch", "handler"}

\* Activations with a context of their own.
Owning == {"call", "sub", "safe-expand", "catch", "handler"}

Maps == [Names -> Values \cup {Undef}]
NoNames == [n \in Names |-> Undef]

\* "in" parses the body; "on" is what the macros called from it are given.
Activation(kind, in, on, guard) == [kind |-> kind, in |-> in, on |-> on, guard |-> guard]

Page == Activation("page", Session, Session, FALSE)

Init ==
  /\ \E m \in Maps :
       ctxs = << [chain |-> {Global}, map |-> m, try |-> 0, handler |-> FALSE,
                  safe |-> FALSE, level |-> 0],
                 [chain |-> {Global, Session}, map |-> NoNames, try |-> 0,
                  handler |-> FALSE, safe |-> FALSE, level |-> 1] >>
  /\ acts = <<Page>>
  /\ exc = "none"
  /\ said = FALSE

-----------------------------------------------------------------------------
(* Contexts                                                                *)

Top == Last(acts)
Running == acts # <<>> /\ exc = "none"

\* c and the contexts that the parent pointers lead to from it.  SetParent sets them
\* when the context is built, below contexts that are all older.
Chain(c) == ctxs[c].chain

\* Find: the context whose map answers for n, 0 if there is none.
Where(c, n) == Max({0} \cup {k \in Chain(c) : ctxs[k].map[n] # Undef})

Find(c, n) == IF Where(c, n) = 0 THEN Undef ELSE ctxs[Where(c, n)].map[n]

\* Slips: SetParent forgets the parent's try count, or safe mode.
ChildNoTry(cs, p, m) ==
  [cs[p] EXCEPT !.chain = @ \cup {Len(cs) + 1}, !.map = m, !.level = @ + 1, !.try = 0]
ChildUnsafe(cs, p, m) ==
  [cs[p] EXCEPT !.chain = @ \cup {Len(cs) + 1}, !.map = m, !.level = @ + 1, !.safe = FALSE]

\* Construct and SetParent: a context below cs[p] with the variables m; the try
\* count, handler and safe mode are the parent's.
Child(cs, p, m) ==
  [cs[p] EXCEPT !.chain = @ \cup {Len(cs) + 1}, !.map = m, !.level = @ + 1]

\* The context that safe-expand builds from the environment only.
Orphan(cs) == [chain |-> {Len(cs) + 1}, map |-> NoNames, try |-> 0, handler |-> FALSE,
               safe |-> FALSE, level |-> 0]

-----------------------------------------------------------------------------
(* Variables                                                               *)

Remap(cs) == ctxs' = cs /\ said' = FALSE /\ UNCHANGED <<acts, exc>>

\* set(n, v), define and the other macros that map a name where they are called.
EvalSet(n, v) ==
  /\ Running
  /\ Remap([ctxs EXCEPT ![Top.on].map[n] = v])

\* set(n).
EvalUnset(n) ==
  /\ Running
  /\ Remap([ctxs EXCEPT ![Top.on].map[n] = Undef])

\* DelObjTop: n is forgotten in every context below the session's.
Below(n) ==
  [k \in DOMAIN ctxs |->
     IF k \in Chain(Top.on) /\ k > Session THEN [ctxs[k] EXCEPT !.map[n] = Undef]
     ELSE ctxs[k]]

\* Slip: only the innermost context forgets n.
EvalGSetShadowed(n, v) ==
  /\ Running
  /\ Remap([[ctxs EXCEPT ![Top.on].map[n] = Undef] EXCEPT ![Session].map[n] = v])

EvalGSet(n, v) ==
  /\ Running
  /\ Remap([Below(n) EXCEPT ![Session].map[n] = v])

\* gdefine(n) does not reach the session's own map.
EvalGUndefine(n) ==
  /\ Running
  /\ Remap(Below(n))

\* Slips: the walk up does not stop at the session, or stops below it.
LetWhereAny(n) == IF Where(Top.on, n) = 0 THEN Top.on ELSE Where(Top.on, n)
LetWhereBelow(n) == IF Where(Top.on, n) <= Session THEN Top.on ELSE Where(Top.on, n)

\* MapObjLet and DelObjLet: where n is, as far up as the session, or else right here.
LetWhere(n) == IF Where(Top.on, n) < Session THEN Top.on ELSE Where(Top.on, n)

EvalLet(n, v) ==
  /\ Running
  /\ Remap([ctxs EXCEPT ![LetWhere(n)].map[n] = v])

-----------------------------------------------------------------------------
(* Expanding a body                                                        *)

\* The body of a macro is compiled: RunCompiled evaluates its functions one by one,
\* without the try statement of ParseFunc and without a look at the level.
Compiled(a) == a.kind = "call"

\* a is begun on the stack st; Parse refuses a context that is nested too deeply.
Begin(st, cs, a) ==
  LET c == cs[a.in]
      deep == ~Compiled(a) /\ c.level > MaxLevels
  IN
  \/ /\ ~deep \/ c.try > 0
     /\ acts' = Append(st, a)
     /\ ctxs' = cs
     /\ exc' = IF deep THEN "ex" ELSE "none"
     /\ said' = FALSE
  \/ /\ deep /\ c.try = 0
     /\ acts' = st
     /\ ctxs' = IF a.kind \in Owning THEN Front(cs) ELSE cs
     /\ exc' = "none"
     /\ said' = TRUE

\* ParseFunc evaluates name(...) in a try statement if myTry is 0, but not %name%.
Guard == ~Compiled(Top) /\ ctxs[Top.in].try = 0

MayEnter == Running /\ Len(acts) < MaxDepth

\* qObjDef::Eval: the arguments become variables of a new context.
Call(m, guard) ==
  /\ MayEnter
  /\ guard => Guard
  /\ Begin(acts, Append(ctxs, Child(ctxs, Top.on, m)),
           Activation("call", Len(ctxs) + 1, Len(ctxs) + 1, guard))

\* EvalNil, EvalFor and the enumerations: an uncompiled body in a new context.
Sub(m) ==
  /\ MayEnter
  /\ Begin(acts, Append(ctxs, Child(ctxs, Top.on, m)),
           Activation("sub", Len(ctxs) + 1, Len(ctxs) + 1, Guard))

\* EvalIf, EvalWhile, EvalDo, EvalExpand, qObjParsed: a body in the same context.
Block(guard) ==
  /\ MayEnter
  /\ guard => Guard
  /\ Begin(acts, ctxs, Activation("block", Top.on, Top.on, guard))

EvalTry ==
  /\ MayEnter
  /\ Begin(acts, [ctxs EXCEPT ![Top.on].try = @ + 1],
           Activation("try", Top.on, Top.on, Guard))

\* Slip: the functions exposed are given the new context.
EvalSafeExpandInside ==
  /\ MayEnter
  /\ Begin(acts, Append(ctxs, Orphan(ctxs)),
           Activation("safe-expand", Len(ctxs) + 1, Len(ctxs) + 1, Guard))

\* qObjSafe evaluates the functions exposed in the context of the caller.
EvalSafeExpand ==
  /\ MayEnter
  /\ Begin(acts, Append(ctxs, Orphan(ctxs)),
           Activation("safe-expand", Len(ctxs) + 1, Top.on, Guard))

\* Slip: an %abort% passes a try without RemTry.
LeavingKeepsTry(a) ==
  IF a.kind \in Owning THEN Front(ctxs)
  ELSE IF a.kind = "try" /\ exc # "abort" THEN [ctxs EXCEPT ![a.on].try = @ - 1]
  ELSE ctxs

\* The contexts once a has been left, in whatever way.
Leaving(a) ==
  IF a.kind \in Owning THEN Front(ctxs)
  ELSE IF a.kind = "try" THEN [ctxs EXCEPT ![a.on].try = @ - 1]
  ELSE ctxs

\* The body ends.
Return ==
  /\ Running
  /\ ctxs' = Leaving(Top)
  /\ acts' = Front(acts)
  /\ said' = FALSE
  /\ UNCHANGED exc

\* The same context expands another page: the page macro, the page, the wrapper.
ParseTry ==
  /\ acts = <<>>
  /\ exc = "none"
  /\ acts' = <<Page>>
  /\ said' = FALSE
  /\ UNCHANGED <<ctxs, exc>>

-----------------------------------------------------------------------------
(* Exceptions                                                              *)

\* throw, and every macro that fails: printed unless the context counts a try.
EvalThrow(guard) ==
  /\ Running
  /\ guard => Guard
  /\ IF ctxs[Top.on].try > 0
     THEN exc' = (IF guard THEN "guarded" ELSE "ex") /\ said' = FALSE
     ELSE said' = TRUE /\ UNCHANGED exc
  /\ UNCHANGED <<ctxs, acts>>

EvalAbort ==
  /\ Running
  /\ exc' = "abort"
  /\ said' = FALSE
  /\ UNCHANGED <<ctxs, acts>>

\* Slip: the count goes down though there was no handler.
EvalErrorHandlerUntested(b) ==
  /\ Running
  /\ LET c == ctxs[Top.on]
     IN  Remap([ctxs EXCEPT ![Top.on] =
           [c EXCEPT !.handler = b, !.try = (c.try - 1) + (IF b THEN 1 ELSE 0)]])

\* errorhandler(b): an empty one is no handler.
EvalErrorHandler(b) ==
  /\ Running
  /\ LET c == ctxs[Top.on]
     IN  Remap([ctxs EXCEPT ![Top.on] =
           [c EXCEPT !.handler = b,
                     !.try = (c.try - (IF c.handler THEN 1 ELSE 0))
                             + (IF b THEN 1 ELSE 0)]])

EvalSafeMode ==
  /\ Running
  /\ Remap([ctxs EXCEPT ![Top.on].safe = TRUE])

\* ParseFunc caught it: Throw once more, with the try count as it is now.
Rethrow ==
  /\ exc = "guarded"
  /\ IF ctxs[Top.in].try > 0
     THEN exc' = "ex" /\ said' = FALSE
     ELSE exc' = "none" /\ said' = TRUE
  /\ UNCHANGED <<ctxs, acts>>

\* EvalTry caught an "ex": expand the second argument, if there is one.
Catch ==
  /\ exc = "ex"
  /\ acts # <<>> /\ Top.kind = "try"
  /\ LET cs == Leaving(Top)
         new == Len(cs) + 1
     IN  \/ Begin(Front(acts),
                  Append(cs, Child(cs, Top.on, NoNames)),
                  Activation("catch", new, new, Top.guard))
         \/ /\ ctxs' = cs
            /\ acts' = Front(acts)
            /\ exc' = "none"
            /\ said' = FALSE

\* ParseTry caught an "ex": run the page's error handler, or print and be done.
Unhandled ==
  /\ exc = "ex"
  /\ acts # <<>> /\ Top.kind = "page"
  /\ \/ /\ ctxs[Top.on].handler
        /\ Begin(<<>>, Append(ctxs, Child(ctxs, Top.on, NoNames)),
                 Activation("handler", Len(ctxs) + 1, Len(ctxs) + 1, FALSE))
     \/ /\ ~ctxs[Top.on].handler
        /\ acts' = <<>>
        /\ exc' = "none"
        /\ said' = FALSE
        /\ UNCHANGED ctxs

\* Every other activation is left.  ParseTry stops an abort but in its handler.
Unwind ==
  /\ exc \in {"ex", "abort"}
  /\ acts # <<>>
  /\ exc = "ex" => Top.kind \notin {"try", "page"}
  /\ ctxs' = Leaving(Top)
  /\ acts' = Front(acts)
  /\ exc' = IF Top.kind = "page" \/ (Top.kind = "handler" /\ exc = "ex") THEN "none"
            ELSE IF exc = "ex" /\ Top.guard THEN "guarded" ELSE exc
  /\ said' = FALSE

-----------------------------------------------------------------------------
Expansion ==
  \/ \E m \in Maps : Sub(m) \/ \E guard \in BOOLEAN : Call(m, guard)
  \/ \E guard \in BOOLEAN : Block(guard)
  \/ EvalTry \/ EvalSafeExpand \/ Return \/ ParseTry

Variable ==
  \E n \in Names :
    \/ EvalUnset(n) \/ EvalGUndefine(n)
    \/ \E v \in Values : EvalSet(n, v) \/ EvalGSet(n, v) \/ EvalLet(n, v)

Exception ==
  \/ \E guard \in BOOLEAN : EvalThrow(guard)
  \/ EvalAbort \/ Rethrow \/ Catch \/ Unhandled \/ Unwind

Setting == EvalSafeMode \/ \E b \in BOOLEAN : EvalErrorHandler(b)

Next == Expansion \/ Variable \/ Exception \/ Setting

Spec == Init /\ [][Next]_vars

-----------------------------------------------------------------------------
(* Properties                                                              *)

\* Types; the live contexts are the two of the page and one for each activation that
\* owns one, so no activation is left with a context that was destroyed.
TypeOK ==
  /\ ctxs \in Seq([chain : SUBSET Nat, map : Maps, try : Nat, handler : BOOLEAN,
                   safe : BOOLEAN, level : Nat])
  /\ acts \in Seq([kind : Kinds, in : Nat, on : Nat, guard : BOOLEAN])
  /\ exc \in {"none", "ex", "abort", "guarded"}
  /\ said \in BOOLEAN
  /\ \A i \in DOMAIN acts : {acts[i].in, acts[i].on} \subseteq Session..Len(ctxs)
  /\ \A c \in DOMAIN ctxs : c > Session =>
       \E i \in DOMAIN acts : acts[i].kind \in Owning /\ acts[i].in = c

Tries(c) == {i \in DOMAIN acts : acts[i].kind = "try" /\ acts[i].on \in Chain(c)}

\* Every context counts the tries in progress around it and its own error handler,
\* after every way out of a body.  So the assertions of AddTry and RemTry hold
\* (qctx.h:270), and a try or a handler is in force exactly while it should be.
TryBalanced ==
  \A c \in DOMAIN ctxs :
    ctxs[c].try = Cardinality(Tries(c)) + (IF ctxs[c].handler THEN 1 ELSE 0)

\* An exception is printed only where no try surrounds it, however many macros,
\* contexts and handlers lie between: all that hides a try is a safe-expand.
PrintedOutsideTry ==
  said => \A i \in DOMAIN acts :
            acts[i].kind = "try" =>
              \E j \in DOMAIN acts : j > i /\ acts[j].kind = "safe-expand"

\* docs/funcs/throw:3: an exception is printed unless it is in a try block; inside
\* of one, processing is halted and the handler is expanded instead.
ThrowHaltsTry == said => \A i \in DOMAIN acts : acts[i].kind # "try"

\* No macro is given a context without safe mode while the expansion of a body that
\* has it is in progress, not even by safe-expand (core.cpp:146).
SafeModeKept ==
  \A i, j \in DOMAIN acts :
    i < j /\ ctxs[acts[i].on].safe => ctxs[acts[j].on].safe

\* No %abort% gets past ParseTry, which smx.cpp:120 calls outside of any try.
AbortStopsHere == acts = <<>> => exc = "none"

\* docs/funcs/try:6: what a block sets is not known after the try is finished.
TryIsLocal ==
  [][\A n \in Names, v \in Values :
       Running /\ Top.kind = "try" /\ EvalSet(n, v)
         => ctxs'[acts[Len(acts) - 1].on].map = ctxs[acts[Len(acts) - 1].on].map]_vars

\* Expanding a page changes no name in the context shared by all pages.
GlobalUntouched == [][ctxs'[Global].map = ctxs[Global].map]_vars

\* let(n, v) changes the one variable the caller sees, for all who see it, and
\* makes a new one only if that is none or the global context's (qctx.h:353).
LetReplaces ==
  [][\A n \in Names, v \in Values :
       EvalLet(n, v) =>
         \A c \in DOMAIN ctxs :
           Find(c, n)' =
             IF c = Top.on \/ (Where(c, n) = Where(Top.on, n) /\ Where(c, n) >= Session)
             THEN v ELSE Find(c, n)]_vars

\* After gset(n, v) every body in progress sees v: no variable of the same name is
\* left in a context between the caller and the session (qctx.cpp:616).
GSetSeen ==
  [][\A n \in Names, v \in Values :
       EvalGSet(n, v) => \A i \in DOMAIN acts : Find(acts[i].on, n)' = v]_vars
=============================================================================
