------------------------------- MODULE Sched -------------------------------
(***************************************************************************)
(* qSchedPool, the event scheduler (qsched.h, qsched.cpp; only the Windows *)
(* build creates one).  Events are plain heap objects without a reference  *)
(* count.  Who may delete one is decided by where it is: in the queue      *)
(* myHeap, or in the local variable of the thread that took it out.        *)
(*                                                                         *)
(* A thread runs RunThread (a worker) or a macro (a script).  qThread::Run *)
(* never stores the handle of the thread it starts, so IsDead() is always  *)
(* true and every Schedule() starts one more worker; all of them share     *)
(* myGodot, which no lock protects.  myCrit is held for the length of one  *)
(* action, never from one action to the next.                              *)
(*                                                                         *)
(* Left out: flags and wording of schedules, the pset store, the           *)
(* destructor, and the macros that only read an event.                     *)
(***************************************************************************)
EXTENDS Naturals, FiniteSets

CONSTANTS
  Names,    \* event names
  Elems,    \* bound: the qSchedElem objects that may be allocated
  Workers,  \* bound: the threads SpawnThread may start
  Scripts,  \* threads that run macros
  Plans,    \* the schedules a macro asks for: [first, offset, last]
  OKLate,   \* myOKLate
  Start, Horizon,  \* bounds: the clock runs from Start to Horizon
  None

Threads == Workers \cup Scripts

ASSUME SchedAssumption ==
  /\ Workers \cap Scripts = {}
  /\ None \notin Names \cup Elems
  /\ OKLate \in Nat /\ Start \in Nat /\ Horizon \in Nat
  /\ Plans \subseteq [first : Nat, offset : Nat, last : Nat]

VARIABLES
  now,     \* time(0)
  mem,     \* mem[e]: "unused", "live" or "freed"
  elem,    \* elem[e]: the fields of the object
  myHeap,  \* the queue: the events in it, each with the time it was inserted for
  myMap,   \* myMap[n]: the event registered under the name n, or None
  myGodot, \* the time the workers wait for
  pc,      \* pc[t]: where t stands; "none" for a worker not started
  hand,    \* hand[t]: the event in t's local variable, or None
  at,      \* at[t]: the time t passes to InsertHeap
  ref      \* ref[t]: the event a pause or resume found, or None

vars == <<now, mem, elem, myHeap, myMap, myGodot, pc, hand, at, ref>>

Fields == [name : Names \cup {None}, first : Nat, offset : Nat, last : Nat,
           next : Nat, paused : BOOLEAN, during : BOOLEAN]

Goto(t, l) == pc' = [pc EXCEPT ![t] = l]
Queued == {r.e : r \in myHeap}

Init ==
  /\ now = Start
  /\ mem = [e \in Elems |-> "unused"]
  /\ elem \in [Elems -> {[name |-> None, first |-> 0, offset |-> 0, last |-> 0,
                          next |-> 0, paused |-> FALSE, during |-> FALSE]}]
  /\ myHeap = {}
  /\ myMap = [n \in Names |-> None]
  /\ myGodot = 0
  /\ pc = [t \in Threads |-> IF t \in Workers THEN "none" ELSE "script"]
  /\ hand = [t \in Threads |-> None]
  /\ at = [t \in Threads |-> 0]
  /\ ref = [t \in Threads |-> None]

-----------------------------------------------------------------------------
(* qSchedElem                                                              *)

\* The first multiple of the offset, from first on, that is not before now.
Following(f) ==
  IF now <= f.first THEN f.first
  ELSE f.first + f.offset * ((now - f.first + f.offset - 1) \div f.offset)

\* CalcNext: what it returns (0 for never) and the value it leaves in myNext.
CalcNext(f) ==
  IF f.last # 0 /\ now > f.last THEN [ret |-> 0, next |-> f.next]
  ELSE IF f.offset = 0 THEN [ret |-> f.next, next |-> f.next]
  ELSE [ret  |-> IF f.last # 0 /\ Following(f) > f.last THEN 0 ELSE Following(f),
        next |-> Following(f)]

\* SetTimes: a first time of 0 means now, but myNext is left 0.
SetTimes(n, s) ==
  [name |-> n, first |-> IF s.first = 0 THEN now ELSE s.first, offset |-> s.offset,
   last |-> s.last, next |-> s.first, paused |-> FALSE, during |-> FALSE]

-----------------------------------------------------------------------------
(* Macros                                                                  *)

\* schedule-event up to the call of Schedule: an event that is too late is freed.
Define(t, n, s, e) ==
  LET f == SetTimes(n, s)
      c == CalcNext(f)
  IN
  /\ pc[t] = "script"
  /\ mem[e] = "unused"
  /\ elem' = [elem EXCEPT ![e] = [f EXCEPT !.next = c.next]]
  /\ \/ /\ c.ret + OKLate > now
        /\ mem' = [mem EXCEPT ![e] = "live"]
        /\ hand' = [hand EXCEPT ![t] = e]
        /\ at' = [at EXCEPT ![t] = c.ret]
        /\ Goto(t, "delete")
     \/ /\ c.ret + OKLate <= now
        /\ mem' = [mem EXCEPT ![e] = "freed"]
        /\ UNCHANGED <<hand, at, pc>>
  /\ UNCHANGED <<now, myHeap, myMap, myGodot, ref>>

\* pause-event and resume-event look the event up without the lock ...
Lookup(t, n, l) ==
  /\ pc[t] = "script"
  /\ myMap[n] # None
  /\ ref' = [ref EXCEPT ![t] = myMap[n]]
  /\ Goto(t, l)
  /\ UNCHANGED <<now, mem, elem, myHeap, myMap, myGodot, hand, at>>

\* ... and use it afterwards: a store into an event freed meanwhile is lost.
Store(t, f, b) ==
  elem' = IF mem[ref[t]] = "live" THEN [elem EXCEPT ![ref[t]][f] = b] ELSE elem

Done(t) ==
  /\ ref' = [ref EXCEPT ![t] = None]
  /\ Goto(t, "script")
  /\ UNCHANGED <<now, mem, myHeap, myMap, myGodot, hand, at>>

Pause(t) == pc[t] = "pause" /\ Store(t, "paused", TRUE) /\ Done(t)

\* Resume makes up for what was due during the pause: the body is parsed here.
Resume(t) ==
  /\ pc[t] = "resume"
  /\ Goto(t, IF elem[ref[t]].during THEN "clear" ELSE "unpause")
  /\ UNCHANGED <<now, mem, elem, myHeap, myMap, myGodot, hand, at, ref>>

ClearDuring(t) ==
  /\ pc[t] = "clear"
  /\ Store(t, "during", FALSE)
  /\ Goto(t, "unpause")
  /\ UNCHANGED <<now, mem, myHeap, myMap, myGodot, hand, at, ref>>

Unpause(t) == pc[t] = "unpause" /\ Store(t, "paused", FALSE) /\ Done(t)

-----------------------------------------------------------------------------
(* Schedule(), called by scripts and by workers                            *)

\* Slip: the event is freed whether or not it was found in the queue.
DeleteAlways(t) ==
  LET n == elem[hand[t]].name
      old == myMap[n]
  IN
  /\ pc[t] = "delete"
  /\ myHeap' = {r \in myHeap : r.e # old}
  /\ mem' = IF old = None THEN mem ELSE [mem EXCEPT ![old] = "freed"]
  /\ myMap' = [myMap EXCEPT ![n] = None]
  /\ Goto(t, "insert")
  /\ UNCHANGED <<now, elem, myGodot, hand, at, ref>>

\* Delete(name, false): the event of that name is freed if it is in the queue; if
\* a worker has it, only its name is forgotten.
Delete(t) ==
  LET n == elem[hand[t]].name
      old == myMap[n]
  IN
  /\ pc[t] = "delete"
  /\ \/ /\ old # None /\ old \in Queued
        /\ myHeap' = {r \in myHeap : r.e # old}
        /\ mem' = [mem EXCEPT ![old] = "freed"]
     \/ /\ old = None \/ old \notin Queued
        /\ UNCHANGED <<myHeap, mem>>
  /\ myMap' = [myMap EXCEPT ![n] = None]
  /\ Goto(t, "insert")
  /\ UNCHANGED <<now, elem, myGodot, hand, at, ref>>

\* InsertHeap(t, elem).
Insert(t) ==
  /\ pc[t] = "insert"
  /\ myMap' = [myMap EXCEPT ![elem[hand[t]].name] = hand[t]]
  /\ myHeap' = myHeap \cup {[t |-> at[t], e |-> hand[t]]}
  /\ hand' = [hand EXCEPT ![t] = None]
  /\ Goto(t, "kick")
  /\ UNCHANGED <<now, mem, elem, myGodot, at, ref>>

\* SpawnThread, as the thread always looks dead, and KickThread: PulseEvent wakes
\* the workers that wait at this moment and nobody later.
Kick(t) ==
  LET new == {w \in Workers : pc[w] = "none"}
      woken == IF myGodot > at[t] THEN {w \in Workers : pc[w] = "wait"} ELSE {}
      back == IF t \in Scripts THEN "script" ELSE "take"
  IN
  /\ pc[t] = "kick"
  /\ \/ \E w \in new, v \in woken \cup {t} :
          pc' = [pc EXCEPT ![w] = "take", ![v] = "take", ![t] = back]
     \/ /\ new = {}
        /\ \E v \in woken \cup {t} : pc' = [pc EXCEPT ![v] = "take", ![t] = back]
  /\ at' = [at EXCEPT ![t] = 0]
  /\ UNCHANGED <<now, mem, elem, myHeap, myMap, myGodot, hand, ref>>

-----------------------------------------------------------------------------
(* RunThread                                                               *)

\* The queue gives out an event with the least time.  It is only certain to do so
\* if there were never six events in it (PriQ, SmallIsHeap).
First(r) ==
  Cardinality(Elems) <= 5 => \A q \in myHeap : r.t <= q.t

\* Slip: RemoveHeap does not test empty().
TakeEmpty(w) ==
  /\ pc[w] = "take"
  /\ Goto(w, "godot")
  /\ \/ \E r \in myHeap : myHeap' = myHeap \ {r} /\ hand' = [hand EXCEPT ![w] = r.e]
     \/ myHeap = {} /\ UNCHANGED <<myHeap, hand>>
  /\ UNCHANGED <<now, mem, elem, myMap, myGodot, at, ref>>

\* Slip: the worker looks at the first event and leaves it in the queue.
TakePeek(w) ==
  /\ pc[w] = "take"
  /\ \E r \in myHeap : First(r) /\ hand' = [hand EXCEPT ![w] = r.e]
  /\ Goto(w, "godot")
  /\ UNCHANGED <<now, mem, elem, myHeap, myMap, myGodot, at, ref>>

\* RemoveHeap: an event, or the wait at the end of the outer loop.
Take(w) ==
  /\ pc[w] = "take"
  /\ \/ \E r \in myHeap :
          /\ First(r)
          /\ myHeap' = myHeap \ {r}
          /\ hand' = [hand EXCEPT ![w] = r.e]
          /\ Goto(w, "godot")
     \/ /\ myHeap = {}
        /\ Goto(w, "wait")
        /\ UNCHANGED <<myHeap, hand>>
  /\ UNCHANGED <<now, mem, elem, myMap, myGodot, at, ref>>

SetGodot(w) ==
  /\ pc[w] = "godot"
  /\ myGodot' = elem[hand[w]].next
  /\ Goto(w, "check")
  /\ UNCHANGED <<now, mem, elem, myHeap, myMap, hand, at, ref>>

\* "now >= myGodot", which another worker may have stored.
Check(w) ==
  /\ pc[w] = "check"
  /\ Goto(w, IF now >= myGodot THEN "fire" ELSE "putback")
  /\ UNCHANGED <<now, mem, elem, myHeap, myMap, myGodot, hand, at, ref>>

\* The body is parsed, or the pause is told that something was due.
Fire(w) ==
  LET e == hand[w] IN
  /\ pc[w] = "fire"
  /\ elem' = IF elem[e].paused THEN [elem EXCEPT ![e].during = TRUE] ELSE elem
  /\ Goto(w, "next")
  /\ UNCHANGED <<now, mem, myHeap, myMap, myGodot, hand, at, ref>>

\* CalcNext and "next > myGodot": once more, or never again.
AfterFire(w) ==
  LET e == hand[w]
      c == CalcNext(elem[e])
  IN
  /\ pc[w] = "next"
  /\ elem' = [elem EXCEPT ![e].next = c.next]
  /\ \/ /\ c.ret > myGodot
        /\ at' = [at EXCEPT ![w] = c.ret]
        /\ Goto(w, "delete")
     \/ /\ c.ret <= myGodot
        /\ Goto(w, "finish")
        /\ UNCHANGED at
  /\ UNCHANGED <<now, mem, myHeap, myMap, myGodot, hand, ref>>

\* Slip: the event is freed and its name stays in the map.
FinishKeepsName(w) ==
  /\ pc[w] = "finish"
  /\ mem' = [mem EXCEPT ![hand[w]] = "freed"]
  /\ hand' = [hand EXCEPT ![w] = None]
  /\ Goto(w, "take")
  /\ UNCHANGED <<now, elem, myHeap, myMap, myGodot, at, ref>>

\* The name is forgotten whichever event it stands for by now.
Finish(w) ==
  /\ pc[w] = "finish"
  /\ myMap' = [myMap EXCEPT ![elem[hand[w]].name] = None]
  /\ mem' = [mem EXCEPT ![hand[w]] = "freed"]
  /\ hand' = [hand EXCEPT ![w] = None]
  /\ Goto(w, "take")
  /\ UNCHANGED <<now, elem, myHeap, myGodot, at, ref>>

\* Not yet: InsertHeap(myGodot, e), and on to the wait.
PutBack(w) ==
  /\ pc[w] = "putback"
  /\ myMap' = [myMap EXCEPT ![elem[hand[w]].name] = hand[w]]
  /\ myHeap' = myHeap \cup {[t |-> myGodot, e |-> hand[w]]}
  /\ hand' = [hand EXCEPT ![w] = None]
  /\ Goto(w, "wait")
  /\ UNCHANGED <<now, mem, elem, myGodot, at, ref>>

\* Slip: the waits are INFINITE, and only a pulse ends them.
WakeUpNever(w) == FALSE

\* Each wait has a timeout.
WakeUp(w) ==
  /\ pc[w] = "wait"
  /\ Goto(w, "take")
  /\ UNCHANGED <<now, mem, elem, myHeap, myMap, myGodot, hand, at, ref>>

Tick ==
  /\ now < Horizon
  /\ now' = now + 1
  /\ UNCHANGED <<mem, elem, myHeap, myMap, myGodot, pc, hand, at, ref>>

-----------------------------------------------------------------------------
Scheduling(t) == Delete(t) \/ Insert(t) \/ Kick(t)

Using(t) == Pause(t) \/ Resume(t) \/ ClearDuring(t) \/ Unpause(t)

Working(w) ==
  \/ Take(w) \/ SetGodot(w) \/ Check(w) \/ Fire(w) \/ AfterFire(w)
  \/ Finish(w) \/ PutBack(w) \/ WakeUp(w)

Macro(t) ==
  \/ \E n \in Names, s \in Plans, e \in Elems : Define(t, n, s, e)
  \/ \E n \in Names, l \in {"pause", "resume"} : Lookup(t, n, l)

Next ==
  \/ \E t \in Threads : Scheduling(t)
  \/ \E w \in Workers : Working(w)
  \/ \E t \in Scripts : Macro(t) \/ Using(t)
  \/ Tick

Spec == Init /\ [][Next]_vars

\* The clock runs and every thread keeps running; nobody has to call a macro.
FairSpec ==
  /\ Spec
  /\ WF_vars(Tick)
  /\ \A t \in Threads : WF_vars(Scheduling(t) \/ Using(t))
  /\ \A w \in Workers : WF_vars(Working(w))

-----------------------------------------------------------------------------
(* Properties                                                              *)

\* Where a thread has an event in its local variable, and where else it may stand.
Holding   == {"delete", "insert", "godot", "check", "fire", "next", "finish", "putback"}
Looking   == {"pause", "resume", "clear", "unpause"}
OfScripts == {"script", "delete", "insert", "kick"} \cup Looking
OfWorkers == {"none", "take", "wait", "kick"} \cup Holding

\* Types; a thread stands where its kind can, and has an event exactly where
\* RunThread, Define and Schedule take e or elem for a valid pointer.
TypeOK ==
  /\ now \in Nat
  /\ mem \in [Elems -> {"unused", "live", "freed"}]
  /\ elem \in [Elems -> Fields]
  /\ myHeap \subseteq [t : Nat, e : Elems]
  /\ myMap \in [Names -> Elems \cup {None}]
  /\ myGodot \in Nat
  /\ pc \in [Threads -> OfScripts \cup OfWorkers]
  /\ hand \in [Threads -> Elems \cup {None}]
  /\ at \in [Threads -> Nat]
  /\ ref \in [Threads -> Elems \cup {None}]
  /\ \A t \in Scripts : pc[t] \in OfScripts
  /\ \A w \in Workers : pc[w] \in OfWorkers
  /\ \A t \in Threads : hand[t] # None <=> pc[t] \in Holding

\* An event is live as long as it is in the queue or in a thread's hands, and no
\* longer: none leaks, and neither is ever left with one that was deleted.
LiveIffHeld ==
  \A e \in Elems : mem[e] = "live" <=> (e \in Queued \/ \E t \in Threads : hand[t] = e)

\* No event has two holders, so nobody deletes or queues what another one uses.
\* With it the assertions on FindElem never fail (qsched.cpp:248, qsched.h:390).
OneHolder ==
  /\ \A r, q \in myHeap : r.e = q.e => r = q
  /\ \A t \in Threads : hand[t] \notin Queued
  /\ \A t, u \in Threads : t # u /\ hand[t] = hand[u] => hand[t] = None

\* A name is never left standing for an event that was deleted, whoever deleted it.
NamesLive == \A n \in Names : myMap[n] # None => mem[myMap[n]] = "live"

\* An event that is in the queue is not forgotten when a pulse is lost or myGodot
\* names another event: it is fired (or noted as due), replaced, or deleted.
EventuallyFired ==
  \A e \in Elems :
    (e \in Queued) ~> (mem[e] = "freed" \/ \E w \in Workers : pc[w] = "fire" /\ hand[w] = e)
=============================================================================
