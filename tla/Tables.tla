------------------------------- MODULE Tables -------------------------------
(* A persistent table (dbh.cpp) of one key, shared by processes through the drivers
   for SQLite and TDB: opening and giving up, errors, the recovery of a corrupt TDB
   file, and the counters that hset.cpp keeps in it. *)
EXTENDS Naturals, FiniteSets

CONSTANTS
  Proc,         \* processes, each with one CDBHash on the same path
  File,         \* bound: files there can be
  None,
  MaxVal,       \* bound: the greatest value of the key
  MaxCorrupt,   \* bound: files that become corrupt
  MaxTries,     \* attempts to open before a table is given up: 5
  MaxRetry      \* recoveries in one call: 4

ASSUME TablesAssumption ==
  /\ None \notin File \union Proc
  /\ MaxVal \in Nat /\ MaxCorrupt \in Nat
  /\ MaxTries \in Nat /\ MaxRetry \in Nat \ {0}

VARIABLES
  file,     \* kind of each file, the value of the key (0: not there), corrupt
  path,     \* the file under the table's path
  ofd,      \* gEnvLock's open lock file in each process, by one process that has it
  envLock,  \* the open lock file that holds gEnvLock
  db,       \* m_db: the file each process has open
  tried,    \* m_triedthispath
  call,     \* the call each process is in: where, what for, the value, recoveries
  sure,     \* what a counter was given by Get is still what is there
  finders   \* processes that found a file corrupt

vars == <<file, path, ofd, envLock, db, tried, call, sure, finders>>

\* HGet, HSet, HDel; Counter, whose second half is "put".  Counter with a number is
\* one of the first three.
Ops == {"get", "set", "del", "count", "put"}

At(p, label) == call[p].pc = label
Goto(p, label) == call' = [call EXCEPT ![p].pc = label]

NoCall == [pc |-> "idle", op |-> "get", val |-> 0, retry |-> 0]
Return(p) == call' = [call EXCEPT ![p] = NoCall]

\* A file to create; which one makes no difference.
Unused(f) ==
  LET unused == {g \in File : file[g].kind = "none"}
  IN  f \in unused /\ f = CHOOSE g \in unused : TRUE

Kind(p) == file[db[p]].kind
Value(p) == file[db[p]].val
Corrupted(p) == file[db[p]].corrupt

\* The processes that a server forks inherit the lock file that it opened.
Eldest(forked) == CHOOSE p \in forked : TRUE

Init ==
  /\ file = [f \in File |-> [kind |-> "none", val |-> 0, corrupt |-> FALSE]]
  /\ path = None
  /\ \E forked \in SUBSET Proc : ofd = [p \in Proc |-> IF p \in forked THEN Eldest(forked) ELSE p]
  /\ envLock = None
  /\ db = [p \in Proc |-> None]
  /\ tried = [p \in Proc |-> 0]
  /\ call = [p \in Proc |-> NoCall]
  /\ sure = [p \in Proc |-> FALSE]
  /\ finders = {}

(***************************************************************************)
(* Calls                                                                   *)
(***************************************************************************)

Call(p, o, v) ==
  /\ At(p, "idle")
  /\ o # "put" /\ (o = "set" <=> v # 0)
  /\ call' = [call EXCEPT ![p] = [pc |-> "open", op |-> o, val |-> v, retry |-> 0]]
  /\ UNCHANGED <<file, path, ofd, envLock, db, tried, sure, finders>>

\* Which function of the driver the call comes to
Body(o) ==
  IF o \in {"get", "count"} THEN "fetch" ELSE IF o = "del" THEN "delete" ELSE "store"

\* Variant: the counter's new value is stored by the next call, as it was read.
AnsweredAsRead(p, v, found) ==
  IF call[p].op = "count" /\ v < MaxVal
  THEN /\ call' = [call EXCEPT ![p] = [pc |-> "open", op |-> "put", val |-> v, retry |-> 0]]
       /\ sure' = [sure EXCEPT ![p] = found]
  ELSE Return(p) /\ UNCHANGED sure

\* Get returns v, or nothing.  A counter goes on to Set one more than that, or 1 (and
\* ends, by the bound, at MaxVal).
Answered(p, v, found) ==
  IF call[p].op = "count" /\ v < MaxVal
  THEN /\ call' = [call EXCEPT ![p] = [pc |-> "open", op |-> "put", val |-> v + 1, retry |-> 0]]
       /\ sure' = [sure EXCEPT ![p] = found]
  ELSE Return(p) /\ UNCHANGED sure

\* The call fails: all that the callers see of it is that Get returns nothing.
Failed(p) == Answered(p, 0, FALSE)

(***************************************************************************)
(* CDBHash::Open                                                           *)
(***************************************************************************)

\* Tried in this order: a TDB file is not a database to SQLite, a file of SQLite's has
\* not TDB's magic; either creates a file that is not there.
Opened(p, f) ==
  /\ \/ f = path /\ UNCHANGED <<file, path>>
     \/ /\ path = None
        /\ Unused(f)
        /\ \E k \in {"sqlite", "tdb"} : file' = [file EXCEPT ![f].kind = k]
        /\ path' = f
  /\ db' = [db EXCEPT ![p] = f]
  /\ tried' = [tried EXCEPT ![p] = 0]
  /\ Goto(p, Body(call[p].op))
  /\ UNCHANGED sure

NotOpened(p) ==
  /\ tried' = [tried EXCEPT ![p] = @ + 1]
  /\ Failed(p)
  /\ UNCHANGED <<file, path, db>>

Open(p) ==
  /\ At(p, "open")
  /\ \/ /\ db[p] # None
        /\ Goto(p, Body(call[p].op))
        /\ UNCHANGED <<file, path, db, tried, sure>>
     \/ /\ db[p] = None /\ tried[p] < MaxTries
        /\ NotOpened(p) \/ \E f \in File : Opened(p, f)
     \/ /\ db[p] = None /\ tried[p] >= MaxTries  \* counted on in the code
        /\ Failed(p)
        /\ UNCHANGED <<file, path, db, tried>>
  /\ UNCHANGED <<ofd, envLock, finders>>

(***************************************************************************)
(* The drivers                                                             *)
(***************************************************************************)

Dead == [NoCall EXCEPT !.pc = "dead"]
Dies(p) == call' = [call EXCEPT ![p] = Dead] /\ UNCHANGED sure

\* The end of CDBDriverTdb::Get has no return statement, and may not come back.
FallsOff(p) == Failed(p) \/ (Body(call[p].op) = "fetch" /\ Dies(p))

\* Set and Del of SQLite have none either.
Ended(p) == Return(p) \/ (Kind(p) = "sqlite" /\ call' = [call EXCEPT ![p] = Dead])

\* SQLite is locked for too long, or worse: close, and open again with the next call.
\* Set has no return statement on this way out either.
SqliteError(p) ==
  /\ Kind(p) = "sqlite"
  /\ db' = [db EXCEPT ![p] = None]
  /\ Failed(p) \/ (At(p, "store") /\ Dies(p))
  /\ UNCHANGED <<file, finders>>

\* Variant: a key that is not there is taken for corruption.
FindCorruptOrNothing(p) ==
  /\ Kind(p) = "tdb" /\ (Corrupted(p) \/ Value(p) = 0)
  /\ Goto(p, "lock")
  /\ finders' = finders \union {p}
  /\ UNCHANGED <<file, db, sure>>

FindCorrupt(p) ==
  /\ Kind(p) = "tdb" /\ Corrupted(p)
  /\ Goto(p, "lock")
  /\ finders' = finders \union {p}
  /\ UNCHANGED <<file, db, sure>>

\* Any other error of TDB's, for the disk or for a lock, ends the call, but after a
\* recovery the loop makes it again.
TdbError(p) ==
  /\ Kind(p) = "tdb"
  /\ IF call[p].retry = 0 THEN FallsOff(p) ELSE Goto(p, "again") /\ UNCHANGED sure
  /\ UNCHANGED <<file, db, finders>>

\* That a key is not there is an error too, which Get answers with nothing unless it has
\* recovered the file.
Fetch(p) ==
  /\ At(p, "fetch")
  /\ \/ SqliteError(p)
     \/ FindCorrupt(p)
     \/ TdbError(p)
     \/ /\ Kind(p) = "sqlite" \/ (~Corrupted(p) /\ (Value(p) # 0 \/ call[p].retry = 0))
        /\ Answered(p, Value(p), TRUE)
        /\ UNCHANGED <<file, db, finders>>
  /\ UNCHANGED <<path, ofd, envLock, tried>>

Written(p, v) ==
  /\ file' = [file EXCEPT ![db[p]].val = v]
  /\ sure' = [q \in Proc |-> FALSE]

Store(p) ==
  /\ At(p, "store")
  /\ \/ SqliteError(p)
     \/ FindCorrupt(p)
     \/ TdbError(p)
     \/ /\ Kind(p) = "sqlite" \/ ~Corrupted(p)
        /\ Written(p, call[p].val)
        /\ Ended(p)
        /\ UNCHANGED <<db, finders>>
  /\ UNCHANGED <<path, ofd, envLock, tried>>

\* The loop of Get or of Set goes round with the file that it has.
Again(p) ==
  /\ At(p, "again")
  /\ Goto(p, Body(call[p].op))
  /\ UNCHANGED <<file, path, ofd, envLock, db, tried, sure, finders>>

\* Del neither closes nor recovers.
Delete(p) ==
  /\ At(p, "delete")
  /\ \/ (Kind(p) = "sqlite" \/ ~Corrupted(p)) /\ Written(p, 0)
     \/ UNCHANGED <<file, sure>>
  /\ Ended(p)
  /\ UNCHANGED <<path, ofd, envLock, db, tried, finders>>

(***************************************************************************)
(* Recovery, under gEnvLock; Open does not take it.  Its flock excludes    *)
(* other open files only, as Acquire of Mutex has it, not the processes    *)
(* that inherited the same.                                                *)
(***************************************************************************)

Lock(p) ==
  /\ At(p, "lock")
  /\ envLock \in {None, ofd[p]}
  /\ envLock' = ofd[p]
  /\ Goto(p, "rename")
  /\ UNCHANGED <<file, path, ofd, db, tried, sure, finders>>

\* Whatever is there under the path now gets the name with .bak.
Rename(p) ==
  /\ At(p, "rename")
  /\ path' = None
  /\ Goto(p, "reopen")
  /\ UNCHANGED <<file, ofd, envLock, db, tried, sure, finders>>

\* Reopen succeeds with f, which the driver has open beside the corrupt file.
Reopened(p, f) ==
  /\ \/ f = path /\ file[f].kind = "tdb" /\ UNCHANGED <<file, path>>
     \/ /\ path = None
        /\ Unused(f)
        /\ file' = [file EXCEPT ![f].kind = "tdb"]
        /\ path' = f
  /\ db' = [db EXCEPT ![p] = f]
  /\ IF call[p].retry + 1 < MaxRetry
     THEN /\ call' = [call EXCEPT ![p].retry = @ + 1, ![p].pc = Body(call[p].op)]
          /\ sure' = [sure EXCEPT ![p] = FALSE]
     ELSE FallsOff(p)

\* Reopen fails, for a file of SQLite's that is there by now too.  After a recovery the
\* loop goes on, without a file.
NotReopened(p) ==
  /\ db' = [db EXCEPT ![p] = None]
  /\ IF call[p].retry = 0 THEN FallsOff(p) ELSE Dies(p)
  /\ UNCHANGED <<file, path>>

\* ~CMutexLock: whoever shares the open file loses the lock too.
Unlock(p) == envLock' = IF envLock = ofd[p] THEN None ELSE envLock

\* Variant: a failure leaves the lock behind.
ReopenKeepingLock(p) ==
  /\ At(p, "reopen")
  /\ \/ (\E f \in File : Reopened(p, f)) /\ Unlock(p)
     \/ NotReopened(p) /\ UNCHANGED envLock
  /\ UNCHANGED <<ofd, tried, finders>>

Reopen(p) ==
  /\ At(p, "reopen")
  /\ NotReopened(p) \/ \E f \in File : Reopened(p, f)
  /\ Unlock(p)
  /\ UNCHANGED <<ofd, tried, finders>>

(***************************************************************************)
(* Between calls, and around them                                          *)
(***************************************************************************)

\* qObjHCtx::Cleanup, at the end of a page
Cleanup(p) ==
  /\ At(p, "idle")
  /\ db' = [db EXCEPT ![p] = None]
  /\ UNCHANGED <<file, path, ofd, envLock, tried, call, sure, finders>>

\* HFile with another path, and back
SetPath(p) ==
  /\ At(p, "idle")
  /\ db' = [db EXCEPT ![p] = None]
  /\ tried' = [tried EXCEPT ![p] = 0]
  /\ UNCHANGED <<file, path, ofd, envLock, call, sure, finders>>

Corrupt(f) ==
  /\ file[f].kind = "tdb"
  /\ Cardinality({g \in File : file[g].corrupt}) < MaxCorrupt
  /\ file' = [file EXCEPT ![f].corrupt = TRUE]
  /\ UNCHANGED <<path, ofd, envLock, db, tried, call, sure, finders>>

Step(p) ==
  \/ Open(p) \/ Fetch(p) \/ Store(p) \/ Again(p) \/ Delete(p)
  \/ Lock(p) \/ Rename(p) \/ Reopen(p)

Next ==
  \/ \E p \in Proc :
       \/ Step(p) \/ Cleanup(p) \/ SetPath(p)
       \/ \E o \in Ops, v \in 0 .. MaxVal : Call(p, o, v)
  \/ \E f \in File : Corrupt(f)

Spec == Init /\ [][Next]_vars

\* A process that is in a call goes on when it can.
FairSpec == Spec /\ \A p \in Proc : WF_vars(Step(p))

(***************************************************************************)
(* Properties                                                              *)
(***************************************************************************)

\* An open table has no attempts against it, so that it takes MaxTries failures in a row
\* to give it up (dbh.cpp:97); a process in a driver has a file open; and gEnvLock is
\* held during recovery only, and left on every way out of it.  Who shares its open file
\* with nobody holds it throughout.
TypeOK ==
  /\ file \in [File -> [kind : {"none", "sqlite", "tdb"}, val : 0 .. MaxVal, corrupt : BOOLEAN]]
  /\ path \in {f \in File : file[f].kind # "none"} \union {None}
  /\ ofd \in [Proc -> Proc]
  /\ envLock \in Proc \union {None}
  /\ db \in [Proc -> {f \in File : file[f].kind # "none"} \union {None}]
  /\ tried \in [Proc -> 0 .. MaxTries]
  /\ call \in [Proc -> [pc : {"idle", "open", "fetch", "store", "delete", "again", "lock",
                              "rename", "reopen", "dead"},
                        op : Ops, val : 0 .. MaxVal, retry : 0 .. MaxRetry]]
  /\ sure \in [Proc -> BOOLEAN]
  /\ finders \subseteq Proc
  /\ envLock # None => \E p \in Proc : ofd[p] = envLock /\ call[p].pc \in {"rename", "reopen"}
  /\ \A p \in Proc :
       /\ db[p] # None => tried[p] = 0
       /\ call[p].pc \in {"fetch", "store", "delete", "again", "lock", "rename", "reopen"}
            => db[p] # None
       /\ (\A q \in Proc : ofd[q] = ofd[p] => q = p) =>
            (envLock = ofd[p] <=> call[p].pc \in {"rename", "reopen"})

\* A counter stores one more than is in its table, unless another process wrote between
\* its Get and its Set (hset.cpp:124), the table was recovered in between, or the Get
\* got no answer from the driver and was taken for an empty key.
CounterExact ==
  \A p \in Proc :
    At(p, "store") /\ call[p].op = "put" /\ sure[p] /\ ~Corrupted(p)
      => call[p].val = Value(p) + 1

\* Recovery takes nothing but corrupt files out of the way, unless two processes found
\* a file corrupt: the one that comes second to gEnvLock does not look again
\* (dbd_tdb.cpp:107).
RecoveryKeepsGood ==
  (\A p, q \in finders : p = q) =>
    \A f \in File : file[f].kind # "none" /\ ~file[f].corrupt => f = path

\* Every call ends, or the process dies of it, but for one that has recovered the file
\* and again and again gets another error from the new one, in Set (dbd_tdb.cpp:151) as
\* in Get, or in Get does not find its key there (dbd_tdb.cpp:112): those loops have no
\* other way out.
CallsEnd ==
  \A p \in Proc : []<>(call[p].pc \in {"idle", "dead", "again"})
=============================================================================
