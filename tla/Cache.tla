-------------------------------- MODULE Cache --------------------------------
(* The cache that EvalModule (pscache.cpp) loads modules through: one file that is
   written, removed and restored, and threads whose pages load it.  A qObjTimed and the
   qObjClass it owns have one identity and a count each. *)
EXTENDS Naturals, FiniteSets

CONSTANTS
  Thread,
  Obj,        \* bound: modules alive at one time
  None,
  MaxWrites,  \* bound: changes of the file
  MaxLeaks    \* bound: references that a vanished file leaves behind

ASSUME CacheAssumption ==
  /\ None \notin Obj \union Thread
  /\ IsFiniteSet(Thread)
  /\ MaxWrites \in Nat /\ MaxLeaks \in Nat

VARIABLES
  exists, content, mtime,  \* the file; content counts its changes
  entry,   \* what the cache has for it
  lock,    \* holder of the cache's critical section, beyond one step
  timed,   \* qObjTimed of each object: references, the time it was given
  module,  \* its qObjClass: references, what it was read from
  leaked,  \* references to each qObjTimed that nobody will free
  torn,    \* objects whose file was written while they were read, or twice in a second
  page     \* what each thread is doing

vars == <<exists, content, mtime, entry, lock, timed, module, leaked, torn, page>>

NoPage == [pc |-> "idle", obj |-> None, found |-> FALSE, read |-> 0, torn |-> FALSE]

At(t, label) == page[t].pc = label
Goto(t, label) == page' = [page EXCEPT ![t].pc = label]

Init ==
  /\ exists = TRUE /\ content = 0 /\ mtime = 0
  /\ entry = None
  /\ lock = None
  /\ timed = [o \in Obj |-> [refs |-> 0, time |-> 0]]
  /\ module = [o \in Obj |-> [refs |-> 0, content |-> 0]]
  /\ leaked = [o \in Obj |-> 0]
  /\ torn = {}
  /\ page = [t \in Thread |-> NoPage]

(***************************************************************************)
(* Counts                                                                  *)
(***************************************************************************)

\* qObjClass::Free.  (A module that is gone already is freed with no effect here.)
Free(ms, o) == [ms EXCEPT ![o].refs = IF @ = 0 THEN 0 ELSE @ - 1]

\* qObjTimed::Free in a cache with counts ts and ms; ~qObjTimed frees the module.
FreeTimed(ts, ms, o) ==
  /\ timed' = [ts EXCEPT ![o].refs = @ - 1]
  /\ module' = IF ts[o].refs = 1 THEN Free(ms, o) ELSE ms

(***************************************************************************)
(* OpenFileFQ                                                              *)
(***************************************************************************)

\* The lock is kept if there is an entry, and left if there is none.
Lookup(t) ==
  /\ At(t, "idle")
  /\ lock = None
  /\ IF entry = None
     THEN UNCHANGED <<lock, timed>>
     ELSE /\ lock' = t
          /\ timed' = [timed EXCEPT ![entry].refs = @ + 1]
  /\ page' = [page EXCEPT ![t] = [NoPage EXCEPT !.pc = "open", !.obj = entry]]
  /\ UNCHANGED <<exists, content, mtime, entry, module, leaked, torn>>

Unlocked(t) == lock' = IF lock = t THEN None ELSE lock

\* No file: EvalModule throws, and what was found is never freed.
OpenFails(t) ==
  /\ At(t, "open")
  /\ ~exists
  /\ IF page[t].obj = None THEN UNCHANGED leaked
     ELSE /\ leaked[page[t].obj] < MaxLeaks
          /\ leaked' = [leaked EXCEPT ![page[t].obj] = @ + 1]
  /\ Unlocked(t)
  /\ page' = [page EXCEPT ![t] = NoPage]
  /\ UNCHANGED <<exists, content, mtime, entry, timed, module, torn>>

\* Variant: an object of another time loses the cache's reference too, and stays mapped.
OpenEvicting(t) ==
  /\ At(t, "open")
  /\ exists
  /\ LET o == page[t].obj IN
       IF o # None /\ timed[o].time = mtime
       THEN /\ page' = [page EXCEPT ![t].pc = "found", ![t].found = TRUE]
            /\ UNCHANGED timed
       ELSE /\ page' = [page EXCEPT ![t].pc = "read", ![t].obj = None]
            /\ IF o = None THEN UNCHANGED timed ELSE timed' = [timed EXCEPT ![o].refs = @ - 2]
  /\ lock' = IF lock = t THEN None ELSE lock
  /\ UNCHANGED <<exists, content, mtime, entry, module, leaked, torn>>

\* An object of another time than the file's is let go; the entry stays.
Open(t) ==
  /\ At(t, "open")
  /\ exists
  /\ LET o == page[t].obj IN
       IF o # None /\ timed[o].time = mtime
       THEN /\ page' = [page EXCEPT ![t].pc = "found", ![t].found = TRUE]
            /\ UNCHANGED <<timed, module>>
       ELSE /\ page' = [page EXCEPT ![t].pc = "read", ![t].obj = None]
            /\ IF o = None THEN UNCHANGED <<timed, module>> ELSE FreeTimed(timed, module, o)
  /\ Unlocked(t)
  /\ UNCHANGED <<exists, content, mtime, entry, leaked, torn>>

(***************************************************************************)
(* EvalModule                                                              *)
(***************************************************************************)

\* Variant: the module of an object that was found is taken without a reference.
TakeUncounted(t) ==
  /\ At(t, "found")
  /\ module' = [module EXCEPT ![page[t].obj].refs = @]
  /\ Goto(t, "copy")
  /\ UNCHANGED <<exists, content, mtime, entry, lock, timed, leaked, torn>>

Take(t) ==
  /\ At(t, "found")
  /\ module' = [module EXCEPT ![page[t].obj].refs = @ + 1]
  /\ Goto(t, "copy")
  /\ UNCHANGED <<exists, content, mtime, entry, lock, timed, leaked, torn>>

\* The file is expanded to its end, or an exception leaves the macro (and the module is
\* lost without ever having been in the cache).
Read(t) ==
  /\ At(t, "read")
  /\ \/ page' = [page EXCEPT ![t].pc = "map", ![t].read = content]
     \/ page' = [page EXCEPT ![t] = NoPage]
  /\ UNCHANGED <<exists, content, mtime, entry, lock, timed, module, leaked, torn>>

\* Variant: keeps the constructor's time, a second after the file's.
MapObjUntimed(t) ==
  /\ At(t, "map")
  /\ lock = None
  /\ \E o \in Obj :
       /\ timed[o].refs = 0 /\ module[o].refs = 0
       /\ \A u \in Thread : page[u].obj # o
       /\ LET ts == [timed EXCEPT ![o] = [refs |-> 1, time |-> mtime + 1]]
              ms == [module EXCEPT ![o] = [refs |-> 1, content |-> page[t].read]]
          IN  IF entry = None THEN timed' = ts /\ module' = ms
              ELSE FreeTimed(ts, ms, entry)
       /\ entry' = o
       /\ torn' = IF page[t].torn THEN torn \union {o} ELSE torn \ {o}
       /\ page' = [page EXCEPT ![t].pc = "copy", ![t].obj = o]
  /\ UNCHANGED <<exists, content, mtime, lock, leaked>>

\* qObjCache::MapObj.  The cache has the only reference to the new module, with the time
\* the file has now; what it replaces loses one.
MapObj(t) ==
  /\ At(t, "map")
  /\ lock = None
  /\ \E o \in Obj :
       /\ timed[o].refs = 0 /\ module[o].refs = 0
       /\ \A u \in Thread : page[u].obj # o
       /\ LET ts == [timed EXCEPT ![o] = [refs |-> 1, time |-> mtime]]
              ms == [module EXCEPT ![o] = [refs |-> 1, content |-> page[t].read]]
          IN  IF entry = None THEN timed' = ts /\ module' = ms
              ELSE FreeTimed(ts, ms, entry)
       /\ entry' = o
       /\ torn' = IF page[t].torn THEN torn \union {o} ELSE torn \ {o}
       /\ page' = [page EXCEPT ![t].pc = "copy", ![t].obj = o]
  /\ UNCHANGED <<exists, content, mtime, lock, leaked>>

\* module(file): a class based on the module is mapped in the page's context.
CopyClass(t) ==
  /\ At(t, "copy")
  /\ module' = [module EXCEPT ![page[t].obj].refs = @ + 1]
  /\ Goto(t, "class")
  /\ UNCHANGED <<exists, content, mtime, entry, lock, timed, leaked, torn>>

\* module(file,namespace): a pointer to the module's context is, without a reference.
CopyPointer(t) ==
  /\ At(t, "copy")
  /\ Goto(t, "pointer")
  /\ UNCHANGED <<exists, content, mtime, entry, lock, timed, module, leaked, torn>>

\* Variant: frees the module and forgets the qObjTimed.
ReleaseModule(t) ==
  /\ page[t].pc \in {"class", "pointer"} /\ page[t].found
  /\ module' = Free(module, page[t].obj)
  /\ page' = [page EXCEPT ![t].found = FALSE]
  /\ UNCHANGED <<timed, exists, content, mtime, entry, lock, leaked, torn>>

\* The end of EvalModule, if the module was found
Release(t) ==
  /\ page[t].pc \in {"class", "pointer"} /\ page[t].found
  /\ FreeTimed(timed, Free(module, page[t].obj), page[t].obj)
  /\ page' = [page EXCEPT ![t].found = FALSE]
  /\ UNCHANGED <<exists, content, mtime, entry, lock, leaked, torn>>

\* The page ends, and what it mapped goes.
EndPage(t) ==
  /\ page[t].pc \in {"class", "pointer"} /\ ~page[t].found
  /\ module' = IF At(t, "class") THEN Free(module, page[t].obj) ELSE module
  /\ page' = [page EXCEPT ![t] = NoPage]
  /\ UNCHANGED <<exists, content, mtime, entry, lock, timed, leaked, torn>>

(***************************************************************************)
(* The file                                                                *)
(***************************************************************************)

\* Written in place, in the same second as before or a later one.
Write(now) ==
  /\ exists /\ content < MaxWrites
  /\ now \in {mtime, mtime + 1}
  /\ content' = content + 1
  /\ mtime' = now
  /\ torn' = IF now = mtime THEN torn \union {o \in Obj : timed[o].time = now} ELSE torn
  /\ page' = [t \in Thread |-> [page[t] EXCEPT !.torn = @ \/ page[t].pc \in {"read", "map"}]]
  /\ UNCHANGED <<exists, entry, lock, timed, module, leaked>>

Remove ==
  /\ exists /\ exists' = FALSE
  /\ UNCHANGED <<content, mtime, entry, lock, timed, module, leaked, torn, page>>

Restore ==
  /\ ~exists /\ exists' = TRUE
  /\ UNCHANGED <<content, mtime, entry, lock, timed, module, leaked, torn, page>>

Next ==
  \/ \E t \in Thread :
       \/ Lookup(t) \/ OpenFails(t) \/ Open(t)
       \/ Take(t) \/ Read(t) \/ MapObj(t) \/ CopyClass(t) \/ CopyPointer(t)
       \/ Release(t) \/ EndPage(t)
  \/ \E now \in 0 .. MaxWrites : Write(now)
  \/ Remove \/ Restore

Spec == Init /\ [][Next]_vars

(***************************************************************************)
(* Properties                                                              *)
(***************************************************************************)

TypeOK ==
  /\ exists \in BOOLEAN /\ content \in 0 .. MaxWrites /\ mtime \in 0 .. content
  /\ entry \in Obj \union {None} /\ lock \in Thread \union {None}
  /\ timed \in [Obj -> [refs : Nat, time : Nat]]
  /\ module \in [Obj -> [refs : Nat, content : 0 .. MaxWrites]]
  /\ leaked \in [Obj -> 0 .. MaxLeaks]
  /\ torn \subseteq Obj
  /\ page \in [Thread -> [pc : {"idle", "open", "found", "read", "map", "copy", "class", "pointer"},
                          obj : Obj \union {None}, found : BOOLEAN,
                          read : 0 .. MaxWrites, torn : BOOLEAN]]

Holding(o, pcs) == {t \in Thread : page[t].obj = o /\ page[t].pc \in pcs}
Finders(o) == {t \in Thread : page[t].obj = o /\ page[t].found}
One(b) == IF b THEN 1 ELSE 0

\* The counts are what the objects' users add up to, so that nothing is freed while a page
\* that found it is using it, and nothing but the leaked references survives the last user.
\* One user is not counted: a page that has just read and mapped a module (pscache.cpp:328)
\* takes its reference at :339, and a page that maps the same file in between frees it.
RefsExact ==
  \A o \in Obj :
    /\ timed[o].refs = One(entry = o) + Cardinality(Holding(o, {"open"}))
                       + Cardinality(Finders(o)) + leaked[o]
    /\ module[o].refs = One(timed[o].refs > 0)
                        + Cardinality(Finders(o) \ Holding(o, {"found"}))
                        + Cardinality(Holding(o, {"class"}))
    /\ module[o].refs = 0 =>
         \A t \in Holding(o, {"found", "copy", "class"}) :
           At(t, "copy") /\ ~page[t].found /\ entry # o

\* A module the cache gives out as current (pscache.cpp:93) is what the file holds, unless
\* the file was written while the module was read, or again in the same second: the time is
\* taken after the reading and counts seconds.
FreshUnlessTorn ==
  entry # None /\ exists /\ timed[entry].time = mtime =>
    module[entry].content = content \/ entry \in torn
=============================================================================
