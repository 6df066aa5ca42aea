---------------------------- MODULE SchedProofs ----------------------------
(***************************************************************************)
(* Who owns an event: the ownership properties of Sched, for any number of *)
(* names, events, workers and scripts, any clock and any schedules.        *)
(*                                                                         *)
(* A pointer in the queue, in a local variable or in the map is used long  *)
(* after it was stored there, and the lock was released in between.  The   *)
(* argument is that a lock section that deletes an event has just taken    *)
(* away the only reference to it, and that the map refers to an event only *)
(* under the event's own name, so that one entry is all there is to drop.  *)
(***************************************************************************)
EXTENDS Sched, TLAPS

\* A live event has a name, and the map refers to it under no other.
NameInv ==
  /\ \A e \in Elems : mem[e] = "live" => elem[e].name \in Names
  /\ \A n \in Names : myMap[n] # None => elem[myMap[n]].name = n

IInv == TypeOK /\ LiveIffHeld /\ OneHolder /\ NamesLive /\ NameInv

-----------------------------------------------------------------------------
\* Rounding up to a multiple of the offset stays in Nat.
LEMMA FollowingNat ==
  ASSUME NEW f \in Fields, f.offset # 0, now \in Nat
  PROVE  Following(f) \in Nat
<1>1. CASE now <= f.first
  BY <1>1 DEF Following, Fields
<1>2. CASE ~(now <= f.first)
  <2>1. PICK d \in Nat : now - f.first + f.offset - 1 = d
    BY <1>2 DEF Fields
  <2>2. d \div f.offset \in Nat
    BY DEF Fields
  <2>3. Following(f) = f.first + f.offset * (d \div f.offset)
    BY <1>2, <2>1 DEF Following
  <2>. QED
    BY <2>2, <2>3 DEF Fields
<1>. QED
  BY <1>1, <1>2

LEMMA CalcNextType ==
  ASSUME NEW f \in Fields, now \in Nat
  PROVE  CalcNext(f) \in [ret : Nat, next : Nat]
<1>1. f.offset # 0 => Following(f) \in Nat
  BY FollowingNat
<1>. QED
  BY <1>1 DEF CalcNext, Fields

LEMMA SetTimesType ==
  ASSUME NEW n \in Names, NEW s \in Plans, now \in Nat
  PROVE  SetTimes(n, s) \in Fields /\ SetTimes(n, s).name = n
  BY SchedAssumption DEF SetTimes, Fields

\* A store into one field of an event keeps the others, its name among them.
LEMMA StoreType ==
  ASSUME NEW f \in Fields, NEW b \in BOOLEAN, NEW i \in Nat
  PROVE  /\ [f EXCEPT !.paused = b] \in Fields
         /\ [f EXCEPT !.during = b] \in Fields
         /\ [f EXCEPT !.next = i] \in Fields
  BY DEF Fields

\* What InsertHeap does to the queue, with e and the time it is inserted for.
LEMMA QueuedInsert ==
  ASSUME NEW i, NEW e, myHeap' = myHeap \cup {[t |-> i, e |-> e]}
  PROVE  Queued' = Queued \cup {e}
<1>1. ASSUME NEW x \in Queued' PROVE x \in Queued \cup {e}
  BY <1>1 DEF Queued
<1>2. ASSUME NEW x \in Queued PROVE x \in Queued'
  BY <1>2 DEF Queued
<1>3. e \in Queued'
  <2>1. [t |-> i, e |-> e] \in myHeap' /\ [t |-> i, e |-> e].e = e
    OBVIOUS
  <2>. QED
    BY <2>1 DEF Queued
<1>. QED
  BY <1>1, <1>2, <1>3

\* In the initial states there are no events.
LEMMA InitInv == Init => IInv
<1>. SUFFICES ASSUME Init PROVE IInv
  OBVIOUS
<1>1. TypeOK
  <2>. DEFINE blank == [name |-> None, first |-> 0, offset |-> 0, last |-> 0,
                        next |-> 0, paused |-> FALSE, during |-> FALSE]
  <2>1. blank \in Fields /\ elem \in [Elems -> {blank}]
    BY DEF Init, Fields
  <2>2. elem \in [Elems -> Fields]
    BY <2>1
  <2>. QED
    BY <2>2, SchedAssumption
    DEF Init, TypeOK, Threads, OfScripts, OfWorkers, Holding, Looking
<1>. QED
  BY <1>1, SchedAssumption
  DEF Init, IInv, LiveIffHeld, OneHolder, NamesLive, NameInv, Queued

\* A lookup gives no right to the event.
LEMMA LookupStep ==
  ASSUME IInv, NEW t \in Scripts, NEW n \in Names, NEW l \in {"pause", "resume"},
         Lookup(t, n, l)
  PROVE  IInv'
<1>. USE SchedAssumption DEF IInv, TypeOK, Threads, Goto, Holding, Looking, OfScripts, OfWorkers
<1>1. CASE Lookup(t, n, l)
  <2>1. TypeOK'
    BY <1>1 DEF Fields, Lookup
  <2>2. LiveIffHeld' /\ OneHolder'
    BY <1>1 DEF LiveIffHeld, OneHolder, NamesLive, Queued, Lookup
  <2>3. NamesLive' /\ NameInv'
    BY <1>1 DEF LiveIffHeld, OneHolder, NamesLive, NameInv, Queued, Fields, Lookup
  <2>. QED
    BY <2>1, <2>2, <2>3
<1>. QED
  BY <1>1

\* A store into an event changes no name and no holder.
LEMMA UseStep ==
  ASSUME IInv, NEW t \in Scripts,
         Pause(t) \/ Resume(t) \/ ClearDuring(t) \/ Unpause(t)
  PROVE  IInv'
<1>. USE SchedAssumption DEF IInv, TypeOK, Threads, Goto, Holding, Looking, OfScripts, OfWorkers
<1>1. CASE Pause(t)
  <2>1. TypeOK'
    <3>1. elem' \in [Elems -> Fields]
      BY <1>1, StoreType DEF Pause, Store, Done
    <3>. QED
      BY <1>1, <3>1 DEF Pause, Store, Done
  <2>2. LiveIffHeld' /\ OneHolder'
    BY <1>1 DEF LiveIffHeld, OneHolder, NamesLive, Queued, Pause, Store, Done
  <2>3. NamesLive' /\ NameInv'
    BY <1>1 DEF LiveIffHeld, OneHolder, NamesLive, NameInv, Queued, Fields, Pause, Store, Done
  <2>. QED
    BY <2>1, <2>2, <2>3
<1>2. CASE Resume(t)
  <2>1. TypeOK'
    BY <1>2 DEF Fields, Resume
  <2>2. LiveIffHeld' /\ OneHolder'
    BY <1>2 DEF LiveIffHeld, OneHolder, NamesLive, Queued, Resume
  <2>3. NamesLive' /\ NameInv'
    BY <1>2 DEF LiveIffHeld, OneHolder, NamesLive, NameInv, Queued, Fields, Resume
  <2>. QED
    BY <2>1, <2>2, <2>3
<1>3. CASE ClearDuring(t)
  <2>1. TypeOK'
    <3>1. elem' \in [Elems -> Fields]
      BY <1>3, StoreType DEF ClearDuring, Store
    <3>. QED
      BY <1>3, <3>1 DEF ClearDuring, Store
  <2>2. LiveIffHeld' /\ OneHolder'
    BY <1>3 DEF LiveIffHeld, OneHolder, NamesLive, Queued, ClearDuring, Store
  <2>3. NamesLive' /\ NameInv'
    BY <1>3 DEF LiveIffHeld, OneHolder, NamesLive, NameInv, Queued, Fields, ClearDuring, Store
  <2>. QED
    BY <2>1, <2>2, <2>3
<1>4. CASE Unpause(t)
  <2>1. TypeOK'
    <3>1. elem' \in [Elems -> Fields]
      BY <1>4, StoreType DEF Unpause, Store, Done
    <3>. QED
      BY <1>4, <3>1 DEF Unpause, Store, Done
  <2>2. LiveIffHeld' /\ OneHolder'
    BY <1>4 DEF LiveIffHeld, OneHolder, NamesLive, Queued, Unpause, Store, Done
  <2>3. NamesLive' /\ NameInv'
    BY <1>4 DEF LiveIffHeld, OneHolder, NamesLive, NameInv, Queued, Fields, Unpause, Store, Done
  <2>. QED
    BY <2>1, <2>2, <2>3
<1>. QED
  BY <1>1, <1>2, <1>3, <1>4

\* The new event is in the hands of the script that defined it.
LEMMA DefineStep ==
  ASSUME IInv, NEW t \in Scripts, NEW n \in Names, NEW s \in Plans, NEW e \in Elems,
         Define(t, n, s, e)
  PROVE  IInv'
<1>. DEFINE f == SetTimes(n, s)
            c == CalcNext(f)
<1>. USE SchedAssumption DEF IInv, TypeOK, Threads, Goto, Holding, Looking, OfScripts, OfWorkers
<1>1. f \in Fields /\ f.name = n /\ c \in [ret : Nat, next : Nat]
  BY SetTimesType, CalcNextType
<1>. HIDE DEF f, c
<1>2. [f EXCEPT !.next = c.next] \in Fields /\ [f EXCEPT !.next = c.next].name = n
  BY <1>1 DEF Fields
<1>3. /\ pc[t] = "script" /\ mem[e] = "unused"
      /\ elem' = [elem EXCEPT ![e] = [f EXCEPT !.next = c.next]]
      /\ UNCHANGED <<now, myHeap, myMap, myGodot, ref>>
      /\ \/ /\ mem' = [mem EXCEPT ![e] = "live"]
            /\ hand' = [hand EXCEPT ![t] = e]
            /\ at' = [at EXCEPT ![t] = c.ret]
            /\ pc' = [pc EXCEPT ![t] = "delete"]
         \/ /\ mem' = [mem EXCEPT ![e] = "freed"]
            /\ UNCHANGED <<hand, at, pc>>
  BY DEF Define, f, c
<1>4. TypeOK'
  BY <1>1, <1>2, <1>3
<1>5. LiveIffHeld' /\ OneHolder'
  BY <1>3 DEF LiveIffHeld, OneHolder, Queued
<1>6. NamesLive' /\ NameInv'
  BY <1>2, <1>3 DEF NamesLive, NameInv
<1>. QED
  BY <1>4, <1>5, <1>6

\* Schedule: Delete drops the only entry of what it frees, and what it frees is in
\* nobody's hands.
LEMMA ScheduleStep ==
  ASSUME IInv, NEW t \in Threads,
         Delete(t) \/ Insert(t) \/ Kick(t)
  PROVE  IInv'
<1>. USE SchedAssumption DEF IInv, TypeOK, Threads, Goto, Holding, Looking, OfScripts, OfWorkers
<1>1. CASE Delete(t)
  <2>. DEFINE old == myMap[elem[hand[t]].name]
  <2>0. /\ \/ /\ old # None /\ old \in Queued
              /\ myHeap' = {r \in myHeap : r.e # old}
              /\ mem' = [mem EXCEPT ![old] = "freed"]
           \/ UNCHANGED <<myHeap, mem>>
        /\ myMap' = [myMap EXCEPT ![elem[hand[t]].name] = None]
        /\ pc' = [pc EXCEPT ![t] = "insert"] /\ pc[t] = "delete"
        /\ UNCHANGED <<now, elem, myGodot, hand, at, ref>>
    BY <1>1 DEF Delete
  <2>. HIDE DEF old
  <2>1. TypeOK'
    <3>1. myMap' \in [Names -> Elems \cup {None}] /\ mem' \in [Elems -> {"unused", "live", "freed"}]
      BY <2>0
    <3>2. myHeap' \subseteq [t : Nat, e : Elems]
      BY <2>0
    <3>3. /\ pc' \in [Threads -> OfScripts \cup OfWorkers]
          /\ \A u \in Threads : u # t => pc'[u] = pc[u]
          /\ pc'[t] = "insert"
      BY <2>0
    <3>. QED
      BY <2>0, <3>1, <3>2, <3>3
  <2>2. LiveIffHeld' /\ OneHolder'
    <3>1. CASE UNCHANGED <<myHeap, mem>>
      BY <2>0, <3>1 DEF LiveIffHeld, OneHolder, Queued
    <3>2. ASSUME old # None, old \in Queued,
                 myHeap' = {r \in myHeap : r.e # old},
                 mem' = [mem EXCEPT ![old] = "freed"]
          PROVE  LiveIffHeld' /\ OneHolder'
      <4>1. Queued' = Queued \ {old} /\ old \in Elems
        BY <3>2 DEF Queued
      <4>2. \A u \in Threads : hand[u] # old /\ hand'[u] = hand[u]
        BY <2>0, <3>2 DEF OneHolder
      <4>3. LiveIffHeld'
        BY <3>2, <4>1, <4>2 DEF LiveIffHeld
      <4>4. OneHolder'
        BY <3>2, <4>1, <4>2 DEF OneHolder
      <4>. QED
        BY <4>3, <4>4
    <3>. QED
      BY <2>0, <3>1, <3>2
  <2>3. NamesLive'
    <3>1. ASSUME NEW n \in Names, myMap'[n] # None
          PROVE  mem'[myMap'[n]] = "live"
      <4>1. myMap[n] = myMap'[n] /\ myMap[n] \in Elems /\ n # elem[hand[t]].name
        BY <2>0, <3>1
      <4>2. mem[myMap[n]] = "live" /\ elem[myMap[n]].name = n
        BY <4>1 DEF NamesLive, NameInv
      <4>3. old # None => elem[old].name # n
        <5>1. elem[hand[t]].name \in Names => (old # None => elem[old].name = elem[hand[t]].name)
          BY DEF NameInv, old
        <5>2. hand[t] \in Elems /\ mem[hand[t]] = "live"
          BY <2>0 DEF LiveIffHeld
        <5>3. elem[hand[t]].name \in Names
          BY <5>2 DEF NameInv
        <5>. QED
          BY <4>1, <5>1, <5>3
      <4>. QED
        BY <2>0, <4>1, <4>2, <4>3
    <3>. QED
      BY <3>1 DEF NamesLive
  <2>4. NameInv'
    <3>1. \A e \in Elems : mem'[e] = "live" => mem[e] = "live"
      BY <2>0
    <3>2. \A n \in Names : myMap'[n] # None => myMap'[n] = myMap[n]
      BY <2>0
    <3>. QED
      BY <2>0, <3>1, <3>2 DEF NameInv
  <2>. QED
    BY <2>1, <2>2, <2>3, <2>4
<1>2. CASE Insert(t)
  <2>1. TypeOK'
    <3>1. hand[t] \in Elems /\ at[t] \in Nat
      BY <1>2 DEF Insert
    <3>2. myHeap' \subseteq [t : Nat, e : Elems]
      BY <1>2, <3>1 DEF Insert
    <3>. QED
      BY <1>2, <3>1, <3>2 DEF Insert
  <2>2. LiveIffHeld' /\ OneHolder'
    <3>1. Queued' = Queued \cup {hand[t]}
      BY <1>2, QueuedInsert DEF Insert
    <3>2. hand[t] \in Elems \ Queued
      BY <1>2 DEF Insert, OneHolder
    <3>3. LiveIffHeld'
      BY <1>2, <3>1, <3>2 DEF LiveIffHeld, OneHolder, Insert
    <3>4. \A r, q \in myHeap' : r.e = q.e => r = q
      BY <1>2, <3>2 DEF OneHolder, Queued, Insert
    <3>5. Queued \subseteq Elems
      BY DEF Queued
    <3>6. hand' = [hand EXCEPT ![t] = None]
      BY <1>2 DEF Insert
    <3>7. \A u \in Threads : hand'[u] \notin Queued'
      BY <3>1, <3>2, <3>5, <3>6 DEF OneHolder
    <3>. QED
      BY <3>3, <3>4, <3>6, <3>7 DEF OneHolder
  <2>3. NamesLive' /\ NameInv'
    BY <1>2 DEF LiveIffHeld, OneHolder, NamesLive, NameInv, Queued, Fields, Insert
  <2>. QED
    BY <2>1, <2>2, <2>3
<1>3. CASE Kick(t)
  <2>1. TypeOK'
    BY <1>3 DEF Fields, Kick
  <2>2. LiveIffHeld' /\ OneHolder'
    BY <1>3 DEF LiveIffHeld, OneHolder, NamesLive, Queued, Kick
  <2>3. NamesLive' /\ NameInv'
    BY <1>3 DEF LiveIffHeld, OneHolder, NamesLive, NameInv, Queued, Fields, Kick
  <2>. QED
    BY <2>1, <2>2, <2>3
<1>. QED
  BY <1>1, <1>2, <1>3

\* RunThread: the event a worker took out is its own until it puts it back.
LEMMA WorkerStep ==
  ASSUME IInv, NEW w \in Workers,
         Take(w) \/ SetGodot(w) \/ Check(w) \/ Fire(w) \/ AfterFire(w) \/ Finish(w) \/ PutBack(w) \/ WakeUp(w)
  PROVE  IInv'
<1>. USE SchedAssumption DEF IInv, TypeOK, Threads, Goto, Holding, Looking, OfScripts, OfWorkers
<1>1. CASE Take(w)
  <2>1. TypeOK'
    BY <1>1 DEF Fields, Take
  <2>2. LiveIffHeld' /\ OneHolder'
    BY <1>1 DEF LiveIffHeld, OneHolder, NamesLive, Queued, Take
  <2>3. NamesLive' /\ NameInv'
    BY <1>1 DEF LiveIffHeld, OneHolder, NamesLive, NameInv, Queued, Fields, Take
  <2>. QED
    BY <2>1, <2>2, <2>3
<1>2. CASE SetGodot(w)
  <2>1. TypeOK'
    BY <1>2 DEF Fields, SetGodot
  <2>2. LiveIffHeld' /\ OneHolder'
    BY <1>2 DEF LiveIffHeld, OneHolder, NamesLive, Queued, SetGodot
  <2>3. NamesLive' /\ NameInv'
    BY <1>2 DEF LiveIffHeld, OneHolder, NamesLive, NameInv, Queued, Fields, SetGodot
  <2>. QED
    BY <2>1, <2>2, <2>3
<1>3. CASE Check(w)
  <2>1. TypeOK'
    BY <1>3 DEF Fields, Check
  <2>2. LiveIffHeld' /\ OneHolder'
    BY <1>3 DEF LiveIffHeld, OneHolder, NamesLive, Queued, Check
  <2>3. NamesLive' /\ NameInv'
    BY <1>3 DEF LiveIffHeld, OneHolder, NamesLive, NameInv, Queued, Fields, Check
  <2>. QED
    BY <2>1, <2>2, <2>3
<1>4. CASE Fire(w)
  <2>1. TypeOK'
    <3>1. elem' \in [Elems -> Fields]
      BY <1>4, StoreType DEF Fire
    <3>. QED
      BY <1>4, <3>1 DEF Fire
  <2>2. LiveIffHeld' /\ OneHolder'
    BY <1>4 DEF LiveIffHeld, OneHolder, NamesLive, Queued, Fire
  <2>3. NamesLive' /\ NameInv'
    BY <1>4 DEF LiveIffHeld, OneHolder, NamesLive, NameInv, Queued, Fields, Fire
  <2>. QED
    BY <2>1, <2>2, <2>3
<1>5. CASE AfterFire(w)
  <2>1. TypeOK'
    <3>. DEFINE c == CalcNext(elem[hand[w]])
    <3>1. c \in [ret : Nat, next : Nat]
      BY <1>5, CalcNextType DEF AfterFire
    <3>2. elem' \in [Elems -> Fields]
      BY <1>5, <3>1, StoreType DEF AfterFire
    <3>. QED
      BY <1>5, <3>1, <3>2 DEF AfterFire
  <2>2. LiveIffHeld' /\ OneHolder'
    BY <1>5, CalcNextType DEF LiveIffHeld, OneHolder, NamesLive, Queued, AfterFire
  <2>3. NamesLive' /\ NameInv'
    BY <1>5, CalcNextType DEF LiveIffHeld, OneHolder, NamesLive, NameInv, Queued, Fields, AfterFire
  <2>. QED
    BY <2>1, <2>2, <2>3
<1>6. CASE Finish(w)
  <2>1. TypeOK'
    BY <1>6 DEF Fields, Finish
  <2>2. LiveIffHeld' /\ OneHolder'
    BY <1>6 DEF LiveIffHeld, OneHolder, NamesLive, Queued, Finish
  <2>3. NamesLive' /\ NameInv'
    BY <1>6 DEF LiveIffHeld, OneHolder, NamesLive, NameInv, Queued, Fields, Finish
  <2>. QED
    BY <2>1, <2>2, <2>3
<1>7. CASE PutBack(w)
  <2>1. TypeOK'
    <3>1. hand[w] \in Elems /\ myGodot \in Nat
      BY <1>7 DEF PutBack
    <3>2. myHeap' \subseteq [t : Nat, e : Elems]
      BY <1>7, <3>1 DEF PutBack
    <3>. QED
      BY <1>7, <3>1, <3>2 DEF PutBack
  <2>2. LiveIffHeld' /\ OneHolder'
    <3>1. Queued' = Queued \cup {hand[w]}
      BY <1>7, QueuedInsert DEF PutBack
    <3>2. hand[w] \in Elems \ Queued
      BY <1>7 DEF PutBack, OneHolder
    <3>3. LiveIffHeld'
      BY <1>7, <3>1, <3>2 DEF LiveIffHeld, OneHolder, PutBack
    <3>4. \A r, q \in myHeap' : r.e = q.e => r = q
      BY <1>7, <3>2 DEF OneHolder, Queued, PutBack
    <3>5. Queued \subseteq Elems
      BY DEF Queued
    <3>6. hand' = [hand EXCEPT ![w] = None]
      BY <1>7 DEF PutBack
    <3>7. \A u \in Threads : hand'[u] \notin Queued'
      BY <3>1, <3>2, <3>5, <3>6 DEF OneHolder
    <3>. QED
      BY <3>3, <3>4, <3>6, <3>7 DEF OneHolder
  <2>3. NamesLive' /\ NameInv'
    BY <1>7 DEF LiveIffHeld, OneHolder, NamesLive, NameInv, Queued, Fields, PutBack
  <2>. QED
    BY <2>1, <2>2, <2>3
<1>8. CASE WakeUp(w)
  <2>1. TypeOK'
    BY <1>8 DEF Fields, WakeUp
  <2>2. LiveIffHeld' /\ OneHolder'
    BY <1>8 DEF LiveIffHeld, OneHolder, NamesLive, Queued, WakeUp
  <2>3. NamesLive' /\ NameInv'
    BY <1>8 DEF LiveIffHeld, OneHolder, NamesLive, NameInv, Queued, Fields, WakeUp
  <2>. QED
    BY <2>1, <2>2, <2>3
<1>. QED
  BY <1>1, <1>2, <1>3, <1>4, <1>5, <1>6, <1>7, <1>8

LEMMA NextInv == IInv /\ [Next]_vars => IInv'
<1>. SUFFICES ASSUME IInv, [Next]_vars PROVE IInv'
  OBVIOUS
<1>1. CASE UNCHANGED vars
  BY <1>1 DEF vars, IInv, TypeOK, LiveIffHeld, OneHolder, NamesLive, NameInv, Queued
<1>2. CASE Tick
  BY <1>2 DEF Tick, IInv, TypeOK, LiveIffHeld, OneHolder, NamesLive, NameInv, Queued
<1>3. ASSUME NEW t \in Threads, Scheduling(t) PROVE IInv'
  BY <1>3, ScheduleStep DEF Scheduling
<1>4. ASSUME NEW w \in Workers, Working(w) PROVE IInv'
  BY <1>4, WorkerStep DEF Working
<1>5. ASSUME NEW t \in Scripts, Macro(t) PROVE IInv'
  BY <1>5, LookupStep, DefineStep DEF Macro
<1>6. ASSUME NEW t \in Scripts, Using(t) PROVE IInv'
  BY <1>6, UseStep DEF Using
<1>. QED
  BY <1>1, <1>2, <1>3, <1>4, <1>5, <1>6 DEF Next

-----------------------------------------------------------------------------
\* The strengthening holds in every reachable state.
THEOREM Invariant == Spec => []IInv
  BY InitInv, NextInv, PTL DEF Spec

\* Threads have an event in hand exactly where the code takes e or elem for valid.
THEOREM TypeCorrect == Spec => []TypeOK
<1>1. IInv => TypeOK
  BY DEF IInv
<1>. QED
  BY <1>1, Invariant, PTL

\* Nothing leaks and nothing is used after Free(): what is in the queue or in the
\* hands of a thread is live, and what is live is there.
THEOREM NothingLeaks == Spec => []LiveIffHeld
<1>1. IInv => LiveIffHeld
  BY DEF IInv
<1>. QED
  BY <1>1, Invariant, PTL

\* The assertions on FindElem never fail: an event has one holder.
THEOREM Ownership == Spec => []OneHolder
<1>1. IInv => OneHolder
  BY DEF IInv
<1>. QED
  BY <1>1, Invariant, PTL

\* myMap never refers to an event that was deleted.
THEOREM MapLive == Spec => []NamesLive
<1>1. IInv => NamesLive
  BY DEF IInv
<1>. QED
  BY <1>1, Invariant, PTL
=============================================================================
