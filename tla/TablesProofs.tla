---------------------------- MODULE TablesProofs ----------------------------
(***************************************************************************)
(* The safety properties of Tables, for any number of processes and files  *)
(* and any bounds.                                                         *)
(*                                                                         *)
(* A counter that Get gave its value to is exact until somebody writes,    *)
(* so the invariant follows that value from the Get to the Set.  Recovery  *)
(* renames whatever is under the path, so the invariant says that a        *)
(* process that is alone in having found a corrupt file has the one under  *)
(* the path open until it renames it.                                      *)
(***************************************************************************)
EXTENDS Tables, TLAPS

Labels ==
  {"idle", "open", "fetch", "store", "delete", "again", "lock", "rename", "reopen", "dead"}
CallRecord == [pc : Labels, op : Ops, val : 0 .. MaxVal, retry : 0 .. MaxRetry]
FileRecord == [kind : {"none", "sqlite", "tdb"}, val : 0 .. MaxVal, corrupt : BOOLEAN]

InDriver == {"fetch", "store", "delete", "again", "lock", "rename", "reopen"}
Recovering == {"lock", "rename", "reopen"}
Inside == {"rename", "reopen"}

\* What a counter was given by Get is one less than what it is about to store.
Storing == {"open", "fetch", "again", "store"}
SureInv ==
  \A p \in Proc :
    call[p].op = "put" /\ sure[p] /\ call[p].pc \in Storing =>
      /\ db[p] # None
      /\ Corrupted(p) \/ call[p].val = Value(p) + 1

\* Who is recovering has found a corrupt file, and has it open until it is renamed.
FoundInv ==
  \A p \in Proc :
    /\ call[p].pc \in Recovering => p \in finders
    /\ call[p].pc \in {"lock", "rename"} => Corrupted(p)

\* What a process has open is the file under the path, as long as no other has found a
\* corrupt one, but for the moment between rename and Reopen.
PathInv ==
  \A p \in Proc :
    finders \subseteq {p} /\ call[p].pc # "reopen" /\ db[p] # None => db[p] = path

IInv == TypeOK /\ SureInv /\ FoundInv /\ PathInv /\ RecoveryKeepsGood

(***************************************************************************)
(* How calls end                                                           *)
(***************************************************************************)

\* The rest of a call is typed, and the other processes' calls stay.
CallOf(p, pcs) ==
  /\ call' \in [Proc -> CallRecord]
  /\ \A q \in Proc \ {p} : call'[q] = call[q]
  /\ call'[p].pc \in pcs

LEMMA GotoCall ==
  ASSUME TypeOK, NEW p \in Proc, NEW label \in Labels, Goto(p, label)
  PROVE  CallOf(p, {label}) /\ call'[p].op = call[p].op /\ call'[p].val = call[p].val
  BY DEF TypeOK, CallOf, Goto, CallRecord, Labels

LEMMA ReturnCall ==
  ASSUME TypeOK, NEW p \in Proc, Return(p)
  PROVE  CallOf(p, {"idle"}) /\ call'[p].op = "get"
  <1>1. NoCall \in CallRecord
    BY TablesAssumption DEF NoCall, CallRecord, Labels, Ops, TablesAssumption
  <1>2. call' = [call EXCEPT ![p] = NoCall] /\ call \in [Proc -> CallRecord]
    BY DEF Return, TypeOK, CallRecord, Labels
  <1> QED BY <1>1, <1>2 DEF CallOf, NoCall

\* Answered either returns, or goes on to the counter's Set with what Get found.
LEMMA AnsweredCall ==
  ASSUME TypeOK, NEW p \in Proc, NEW v \in 0 .. MaxVal, NEW found \in BOOLEAN,
         Answered(p, v, found)
  PROVE  /\ CallOf(p, {"idle", "open"})
         /\ sure' \in [Proc -> BOOLEAN]
         /\ \A q \in Proc \ {p} : sure'[q] = sure[q]
         /\ call'[p].op = "put" /\ sure'[p] => found /\ call'[p].val = v + 1
  <1>1. CASE call[p].op = "count" /\ v < MaxVal
    <2> DEFINE new == [pc |-> "open", op |-> "put", val |-> v + 1, retry |-> 0]
    <2>1. call' = [call EXCEPT ![p] = new] /\ sure' = [sure EXCEPT ![p] = found]
      BY <1>1 DEF Answered
    <2>2. new \in CallRecord
      BY <1>1, TablesAssumption DEF CallRecord, Labels, Ops, TablesAssumption
    <2>3. call \in [Proc -> CallRecord] /\ sure \in [Proc -> BOOLEAN]
      BY DEF TypeOK, CallRecord, Labels
    <2> QED BY <2>1, <2>2, <2>3 DEF CallOf
  <1>2. CASE ~(call[p].op = "count" /\ v < MaxVal)
    <2>1. Return(p) /\ sure' = sure
      BY <1>2 DEF Answered
    <2>2. CallOf(p, {"idle"}) /\ call'[p].op = "get"
      BY <2>1, ReturnCall
    <2> QED BY <2>1, <2>2 DEF CallOf, TypeOK
  <1> QED BY <1>1, <1>2

LEMMA FailedCall ==
  ASSUME TypeOK, NEW p \in Proc, Failed(p)
  PROVE  /\ CallOf(p, {"idle", "open"})
         /\ sure' \in [Proc -> BOOLEAN]
         /\ \A q \in Proc \ {p} : sure'[q] = sure[q]
         /\ ~(call'[p].op = "put" /\ sure'[p])
  <1>1. 0 \in 0 .. MaxVal
    BY TablesAssumption DEF TablesAssumption
  <1>2. Answered(p, 0, FALSE)
    BY DEF Failed
  <1> QED BY <1>1, <1>2, AnsweredCall

LEMMA DeadCall ==
  ASSUME TypeOK, NEW p \in Proc, call' = [call EXCEPT ![p] = Dead]
  PROVE  CallOf(p, {"dead"})
  <1>1. Dead \in CallRecord /\ Dead.pc = "dead"
    BY TablesAssumption DEF Dead, NoCall, CallRecord, Labels, Ops, TablesAssumption
  <1>2. call \in [Proc -> CallRecord]
    BY DEF TypeOK, CallRecord, Labels
  <1> QED BY <1>1, <1>2 DEF CallOf

LEMMA DiesCall ==
  ASSUME TypeOK, NEW p \in Proc, Dies(p)
  PROVE  CallOf(p, {"dead"}) /\ sure' = sure
  BY DeadCall DEF Dies

LEMMA EndedCall ==
  ASSUME TypeOK, NEW p \in Proc, Ended(p)
  PROVE  CallOf(p, {"idle", "dead"})
  BY ReturnCall, DeadCall DEF Ended, CallOf

\* What every end of a call that leaves the driver has in common.
Left(p) ==
  /\ CallOf(p, {"idle", "open", "dead"})
  /\ sure' \in [Proc -> BOOLEAN]
  /\ \A q \in Proc \ {p} : sure'[q] = sure[q]
  /\ call'[p].pc = "open" => ~(call'[p].op = "put" /\ sure'[p])

LEMMA FailedLeft ==
  ASSUME TypeOK, NEW p \in Proc, Failed(p)
  PROVE  Left(p)
  BY FailedCall DEF Left, CallOf

LEMMA DiesLeft ==
  ASSUME TypeOK, NEW p \in Proc, Dies(p)
  PROVE  Left(p)
  BY DiesCall DEF Left, CallOf, TypeOK

LEMMA FallsOffLeft ==
  ASSUME TypeOK, NEW p \in Proc, FallsOff(p)
  PROVE  Left(p)
  BY FailedLeft, DiesLeft DEF FallsOff


(***************************************************************************)
(* Types                                                                   *)
(***************************************************************************)

\* The last conjuncts of TypeOK: of one process, and of gEnvLock.
Consistent(p) ==
  /\ db[p] # None => tried[p] = 0
  /\ call[p].pc \in InDriver => db[p] # None

Alone(p) == \A q \in Proc : ofd[q] = ofd[p] => q = p

LockOK ==
  /\ envLock # None => \E p \in Proc : ofd[p] = envLock /\ call[p].pc \in Inside
  /\ \A p \in Proc : Alone(p) => (envLock = ofd[p] <=> call[p].pc \in Inside)

FileOK == file \in [File -> FileRecord]
Existing == {f \in File : file[f].kind # "none"}

\* TypeOK in the terms of this module.
LEMMA TypeOKParts ==
  TypeOK <=>
    /\ FileOK
    /\ path \in Existing \union {None}
    /\ ofd \in [Proc -> Proc]
    /\ envLock \in Proc \union {None}
    /\ db \in [Proc -> Existing \union {None}]
    /\ tried \in [Proc -> 0 .. MaxTries]
    /\ call \in [Proc -> CallRecord]
    /\ sure \in [Proc -> BOOLEAN]
    /\ finders \subseteq Proc
    /\ \A p \in Proc : Consistent(p)
    /\ LockOK
  BY DEF TypeOK, FileOK, Existing, CallRecord, FileRecord, Labels, Consistent, InDriver,
         LockOK, Alone, Inside

LEMMA TypeOKPartsNext ==
  TypeOK' <=>
    /\ FileOK'
    /\ path' \in Existing' \union {None}
    /\ ofd' \in [Proc -> Proc]
    /\ envLock' \in Proc \union {None}
    /\ db' \in [Proc -> Existing' \union {None}]
    /\ tried' \in [Proc -> 0 .. MaxTries]
    /\ call' \in [Proc -> CallRecord]
    /\ sure' \in [Proc -> BOOLEAN]
    /\ finders' \subseteq Proc
    /\ \A p \in Proc : Consistent(p)'
    /\ LockOK'
  BY DEF TypeOK, FileOK, Existing, CallRecord, FileRecord, Labels, Consistent, InDriver,
         LockOK, Alone, Inside

\* A process that is in an action keeps the others' part of TypeOK, if it leaves their
\* state alone.
LEMMA OthersConsistent ==
  ASSUME NEW p \in Proc, \A q \in Proc : Consistent(q),
         \A q \in Proc \ {p} : call'[q] = call[q] /\ db'[q] = db[q] /\ tried'[q] = tried[q]
  PROVE  \A q \in Proc \ {p} : Consistent(q)'
  BY DEF Consistent

\* A step of p that neither enters nor leaves recovery
LEMMA QuietLock ==
  ASSUME TypeOK, NEW p \in Proc, NEW pcs, CallOf(p, pcs), UNCHANGED <<ofd, envLock>>,
         call[p].pc \in Inside <=> call'[p].pc \in Inside
  PROVE  LockOK'
  <1>1. LockOK
    BY TypeOKParts
  <1>2. \A q \in Proc : call'[q].pc \in Inside <=> call[q].pc \in Inside
    BY DEF CallOf
  <1> QED BY <1>1, <1>2 DEF LockOK, Alone

\* p enters it: who has an open file alone does not, for p's is another.
LEMMA EnteredLock ==
  ASSUME TypeOK, NEW p \in Proc, NEW pcs, CallOf(p, pcs), ofd' = ofd,
         envLock \in {None, ofd[p]}, envLock' = ofd[p], call'[p].pc \in Inside
  PROVE  LockOK'
  <1>1. LockOK /\ ofd \in [Proc -> Proc]
    BY TypeOKParts
  <1>2. \E q \in Proc : ofd[q] = envLock' /\ call'[q].pc \in Inside
    OBVIOUS
  <1>3. ASSUME NEW q \in Proc, Alone(q)
        PROVE  envLock' = ofd[q] <=> call'[q].pc \in Inside
    <2>1. CASE q = p
      BY <2>1
    <2>2. CASE q # p
      <3>1. ofd[p] # ofd[q]
        BY <1>3, <2>2 DEF Alone
      <3>2. ofd[q] # None
        BY <1>1, TablesAssumption DEF TablesAssumption
      <3>3. call'[q] = call[q] /\ call[q].pc \notin Inside
        BY <1>1, <1>3, <2>2, <3>1, <3>2 DEF LockOK, CallOf
      <3> QED BY <3>1, <3>3
    <2> QED BY <2>1, <2>2
  <1> QED BY <1>2, <1>3 DEF LockOK, Alone

\* p leaves it, and gives up the lock of its open file.
LEMMA LeftLock ==
  ASSUME TypeOK, NEW p \in Proc, NEW pcs, CallOf(p, pcs), ofd' = ofd, Unlock(p),
         call'[p].pc \notin Inside
  PROVE  LockOK'
  <1>1. LockOK /\ ofd \in [Proc -> Proc] /\ None \notin Proc
    BY TypeOKParts, TablesAssumption DEF TablesAssumption
  <1>2. envLock' # ofd[p] /\ (envLock' # None => envLock' = envLock)
    BY <1>1 DEF Unlock
  <1>3. ASSUME envLock' # None
        PROVE  \E q \in Proc : ofd[q] = envLock' /\ call'[q].pc \in Inside
    <2>1. PICK q \in Proc : ofd[q] = envLock /\ call[q].pc \in Inside
      BY <1>1, <1>2, <1>3 DEF LockOK
    <2>2. q # p
      BY <1>2, <1>3, <2>1
    <2> QED BY <1>2, <1>3, <2>1, <2>2 DEF CallOf
  <1>4. ASSUME NEW q \in Proc, Alone(q)
        PROVE  envLock' = ofd[q] <=> call'[q].pc \in Inside
    <2>1. CASE q = p
      BY <1>2, <2>1
    <2>2. CASE q # p
      <3>1. ofd[p] # ofd[q] /\ ofd[q] # None
        BY <1>1, <1>4, <2>2 DEF Alone
      <3>2. envLock' = ofd[q] <=> envLock = ofd[q]
        BY <3>1 DEF Unlock
      <3>3. call'[q] = call[q]
        BY <2>2 DEF CallOf
      <3> QED BY <1>1, <1>4, <3>2, <3>3 DEF LockOK
    <2> QED BY <2>1, <2>2
  <1> QED BY <1>3, <1>4 DEF LockOK, Alone

LEMMA CallType ==
  ASSUME TypeOK, NEW p \in Proc, NEW o \in Ops, NEW v \in 0 .. MaxVal, Call(p, o, v)
  PROVE  TypeOK'
  <1> DEFINE new == [pc |-> "open", op |-> o, val |-> v, retry |-> 0]
  <1>1. new \in CallRecord
    BY TablesAssumption DEF CallRecord, Labels, TablesAssumption
  <1>2. call \in [Proc -> CallRecord] /\ \A q \in Proc : Consistent(q)
    BY TypeOKParts
  <1>3. call' = [call EXCEPT ![p] = new] /\ call[p].pc = "idle"
    BY DEF Call, At
  <1>4. call' \in [Proc -> CallRecord] /\ call'[p].pc = "open"
    BY <1>1, <1>2, <1>3
  <1>5. \A q \in Proc : Consistent(q)'
    BY <1>2, <1>3, <1>4 DEF Call, Consistent, InDriver
  <1>6. CallOf(p, {"open"}) /\ UNCHANGED <<ofd, envLock>>
    BY <1>2, <1>3, <1>4 DEF CallOf, Call
  <1>7. LockOK'
    BY <1>3, <1>4, <1>6, QuietLock DEF Inside
  <1> QED BY <1>4, <1>5, <1>7, TypeOKParts, TypeOKPartsNext DEF Call, FileOK, Existing

\* A step of p is typed if what it makes of its own state is.
LEMMA StepType ==
  ASSUME TypeOK, NEW p \in Proc, NEW pcs, CallOf(p, pcs), sure' \in [Proc -> BOOLEAN],
         FileOK', Existing' = Existing \union {f \in File : path' = f},
         path' \in File \union {None},
         db' \in [Proc -> Existing' \union {None}], \A q \in Proc \ {p} : db'[q] = db[q],
         tried' \in [Proc -> 0 .. MaxTries], \A q \in Proc \ {p} : tried'[q] = tried[q],
         ofd' = ofd, envLock' \in Proc \union {None}, finders' \subseteq Proc,
         Consistent(p)', LockOK'
  PROVE  TypeOK'
  <1>1. \A q \in Proc : Consistent(q)'
    BY TypeOKParts, OthersConsistent DEF CallOf
  <1>2. path' \in Existing' \union {None}
    OBVIOUS
  <1> QED BY <1>1, <1>2, TypeOKParts, TypeOKPartsNext DEF CallOf

\* The same of a step that leaves the files and the path alone
LEMMA StayType ==
  ASSUME TypeOK, NEW p \in Proc, NEW pcs, CallOf(p, pcs), sure' \in [Proc -> BOOLEAN],
         file' = file, path' = path,
         db' \in [Proc -> Existing \union {None}], \A q \in Proc \ {p} : db'[q] = db[q],
         tried' \in [Proc -> 0 .. MaxTries], \A q \in Proc \ {p} : tried'[q] = tried[q],
         ofd' = ofd, envLock' \in Proc \union {None}, finders' \subseteq Proc,
         Consistent(p)', LockOK'
  PROVE  TypeOK'
  <1>1. FileOK /\ path \in Existing \union {None}
    BY TypeOKParts
  <1>2. FileOK' /\ Existing' = Existing
    BY <1>1 DEF FileOK, Existing
  <1>3. path' \in File \union {None}
    BY <1>1 DEF Existing
  <1>4. \A f \in File : path' = f => f \in Existing
    BY <1>1, TablesAssumption DEF TablesAssumption
  <1>5. Existing' = Existing \union {f \in File : path' = f}
    BY <1>2, <1>4
  <1> QED BY <1>2, <1>3, <1>5, StepType

LEMMA UnusedFile ==
  ASSUME NEW f, Unused(f)
  PROVE  f \in File /\ file[f].kind = "none"
  BY DEF Unused

\* A driver opens the file under the path, or makes one.
LEMMA MadeFile ==
  ASSUME TypeOK, NEW f, NEW k \in {"sqlite", "tdb"},
         Unused(f), file' = [file EXCEPT ![f].kind = k], path' = f
  PROVE  /\ f \in File /\ FileOK' /\ Existing' = Existing \union {f}
         /\ \A g \in File : file'[g].val = file[g].val /\ file'[g].corrupt = file[g].corrupt
  <1>1. f \in File /\ file \in [File -> FileRecord]
    BY UnusedFile, TypeOKParts DEF FileOK
  <1>2. file' \in [File -> FileRecord] /\ file'[f].kind = k
    BY <1>1 DEF FileRecord
  <1>3. \A g \in File \ {f} : file'[g] = file[g]
    BY <1>1
  <1>4. file'[f].val = file[f].val /\ file'[f].corrupt = file[f].corrupt
    BY <1>1 DEF FileRecord
  <1>5. Existing' = Existing \union {f}
    BY <1>1, <1>2, <1>3 DEF Existing
  <1> QED BY <1>1, <1>2, <1>3, <1>4, <1>5 DEF FileOK

\* What Open does to a table that is not open.
LEMMA OpenedFile ==
  ASSUME TypeOK, NEW p \in Proc, NEW f \in File, Opened(p, f)
  PROVE  /\ FileOK' /\ path' = f /\ Existing' = Existing \union {f}
         /\ \A g \in File : file'[g].val = file[g].val /\ file'[g].corrupt = file[g].corrupt
         /\ \A g \in Existing : file'[g] = file[g]
         /\ path = f \/ (path = None /\ f \notin Existing)
  <1>1. CASE f = path /\ UNCHANGED <<file, path>>
    <2>1. path \in Existing
      BY <1>1, TypeOKParts, TablesAssumption DEF TablesAssumption
    <2> QED BY <1>1, <2>1, TypeOKParts DEF FileOK, Existing
  <1>2. CASE /\ path = None /\ Unused(f) /\ path' = f
             /\ \E k \in {"sqlite", "tdb"} : file' = [file EXCEPT ![f].kind = k]
    <2>1. PICK k \in {"sqlite", "tdb"} : file' = [file EXCEPT ![f].kind = k]
      BY <1>2
    <2>2. f \notin Existing
      BY <1>2, UnusedFile DEF Existing
    <2>3. \A g \in Existing : file'[g] = file[g]
      BY <2>1, <2>2, TypeOKParts DEF Existing, FileOK
    <2> QED BY <1>2, <2>1, <2>2, <2>3, MadeFile
  <1> QED BY <1>1, <1>2 DEF Opened

LEMMA BodyLabel ==
  ASSUME NEW o
  PROVE  Body(o) \in {"fetch", "delete", "store"}
  BY DEF Body

LEMMA OpenType ==
  ASSUME TypeOK, NEW p \in Proc, Open(p)
  PROVE  TypeOK'
  <1> USE DEF Labels, Inside
  <1>1. Consistent(p) /\ At(p, "open") /\ UNCHANGED <<ofd, envLock, finders>>
    BY TypeOKParts DEF Open
  <1>2. CASE /\ db[p] # None /\ Goto(p, Body(call[p].op))
             /\ UNCHANGED <<file, path, db, tried, sure>>
    <2>1. CallOf(p, {"fetch", "delete", "store"})
      BY <1>2, BodyLabel, GotoCall DEF CallOf
    <2>2. Consistent(p)'
      BY <1>1, <1>2, <2>1 DEF Consistent, CallOf, At
    <2>3. LockOK'
      BY <1>1, <2>1, QuietLock DEF CallOf, At
    <2> QED BY <1>1, <1>2, <2>1, <2>2, <2>3, StayType, TypeOKParts
  <1>3. CASE db[p] = None /\ tried[p] < MaxTries /\ NotOpened(p)
    <2>1. Failed(p) /\ tried' = [tried EXCEPT ![p] = @ + 1] /\ UNCHANGED <<file, path, db>>
      BY <1>3 DEF NotOpened
    <2>2. CallOf(p, {"idle", "open"}) /\ sure' \in [Proc -> BOOLEAN]
      BY <2>1, FailedCall
    <2>3. tried \in [Proc -> 0 .. MaxTries] /\ MaxTries \in Nat
      BY TypeOKParts, TablesAssumption DEF TablesAssumption
    <2>4. tried' \in [Proc -> 0 .. MaxTries] /\ \A q \in Proc \ {p} : tried'[q] = tried[q]
      BY <1>3, <2>1, <2>3
    <2>5. Consistent(p)'
      BY <1>1, <1>3, <2>1, <2>2 DEF Consistent, CallOf, At, InDriver
    <2>6. LockOK'
      BY <1>1, <2>2, QuietLock DEF CallOf, At
    <2> QED BY <1>1, <2>1, <2>2, <2>4, <2>5, <2>6, StayType, TypeOKParts
  <1>4. CASE db[p] = None /\ \E f \in File : Opened(p, f)
    <2>1. PICK f \in File : Opened(p, f)
      BY <1>4
    <2>2. FileOK' /\ path' = f /\ Existing' = Existing \union {f}
      BY <2>1, OpenedFile
    <2>3. /\ db' = [db EXCEPT ![p] = f] /\ tried' = [tried EXCEPT ![p] = 0]
          /\ Goto(p, Body(call[p].op)) /\ sure' = sure
      BY <2>1 DEF Opened
    <2>4. CallOf(p, {"fetch", "delete", "store"})
      BY <2>3, BodyLabel, GotoCall DEF CallOf
    <2>5. /\ db \in [Proc -> Existing \union {None}] /\ tried \in [Proc -> 0 .. MaxTries]
          /\ sure \in [Proc -> BOOLEAN] /\ 0 \in 0 .. MaxTries
      BY TypeOKParts, TablesAssumption DEF TablesAssumption
    <2>6. /\ db' \in [Proc -> Existing' \union {None}] /\ tried' \in [Proc -> 0 .. MaxTries]
          /\ db'[p] = f /\ tried'[p] = 0
          /\ \A q \in Proc \ {p} : db'[q] = db[q] /\ tried'[q] = tried[q]
      BY <2>2, <2>3, <2>5
    <2>7. Consistent(p)'
      BY <1>1, <2>4, <2>6, TablesAssumption DEF Consistent, CallOf, At, TablesAssumption
    <2>8. Existing' = Existing \union {g \in File : path' = g}
      BY <2>2
    <2>9. LockOK'
      BY <1>1, <2>4, QuietLock DEF CallOf, At
    <2> QED BY <1>1, <2>2, <2>3, <2>4, <2>5, <2>6, <2>7, <2>8, <2>9, StepType, TypeOKParts
  <1>5. CASE db[p] = None /\ Failed(p) /\ UNCHANGED <<file, path, db, tried>>
    <2>1. CallOf(p, {"idle", "open"}) /\ sure' \in [Proc -> BOOLEAN]
      BY <1>5, FailedCall
    <2>2. Consistent(p)'
      BY <1>1, <1>5, <2>1 DEF Consistent, CallOf, At, InDriver
    <2>3. LockOK'
      BY <1>1, <2>1, QuietLock DEF CallOf, At
    <2> QED BY <1>1, <1>5, <2>1, <2>2, <2>3, StayType, TypeOKParts
  <1> QED BY <1>2, <1>3, <1>4, <1>5 DEF Open

\* A step of p in a driver that stores nothing: it stays in a label that needs the file,
\* or is done with it.
LEMMA QuietType ==
  ASSUME TypeOK, NEW p \in Proc, NEW pcs, CallOf(p, pcs), sure' \in [Proc -> BOOLEAN],
         UNCHANGED <<file, path, ofd, envLock, tried>>, finders' \subseteq Proc,
         \/ db' = db /\ db[p] # None
         \/ db' = [db EXCEPT ![p] = None] /\ tried[p] = 0 /\ pcs \intersect InDriver = {},
         call[p].pc \notin Inside, call'[p].pc \notin Inside
  PROVE  TypeOK'
  <1>1. Consistent(p) /\ db \in [Proc -> Existing \union {None}]
    BY TypeOKParts
  <1>2. Consistent(p)'
    BY <1>1 DEF Consistent, CallOf
  <1>3. /\ db' \in [Proc -> Existing \union {None}]
        /\ \A q \in Proc \ {p} : db'[q] = db[q]
    BY <1>1
  <1>4. LockOK'
    BY QuietLock
  <1> QED BY <1>2, <1>3, <1>4, StayType, TypeOKParts

LEMMA SqliteErrorType ==
  ASSUME TypeOK, NEW p \in Proc, SqliteError(p), UNCHANGED <<path, ofd, envLock, tried>>,
         call[p].pc \in {"fetch", "store"}
  PROVE  TypeOK'
  <1>1. CallOf(p, {"idle", "open", "dead"}) /\ sure' \in [Proc -> BOOLEAN]
    BY FailedLeft, DiesLeft DEF SqliteError, Left
  <1>2. tried[p] = 0
    BY TypeOKParts DEF Consistent, InDriver
  <1>3. call[p].pc \notin Inside /\ call'[p].pc \notin Inside
    BY <1>1 DEF CallOf, Inside
  <1> QED BY <1>1, <1>2, <1>3, QuietType, TypeOKParts DEF SqliteError, InDriver

LEMMA FindCorruptType ==
  ASSUME TypeOK, NEW p \in Proc, FindCorrupt(p), UNCHANGED <<path, ofd, envLock, tried>>,
         call[p].pc \in {"fetch", "store"}
  PROVE  TypeOK'
  <1>1. CallOf(p, {"lock"})
    BY GotoCall DEF FindCorrupt, Labels
  <1>2. db[p] # None
    BY TypeOKParts DEF Consistent, InDriver
  <1>3. call[p].pc \notin Inside /\ call'[p].pc \notin Inside
    BY <1>1 DEF CallOf, Inside
  <1> QED BY <1>1, <1>2, <1>3, QuietType, TypeOKParts DEF FindCorrupt

LEMMA TdbErrorCall ==
  ASSUME TypeOK, NEW p \in Proc, TdbError(p)
  PROVE  Left(p) \/ (CallOf(p, {"again"}) /\ call'[p].op = call[p].op
                      /\ call'[p].val = call[p].val /\ sure' = sure)
  BY FallsOffLeft, GotoCall DEF TdbError, Labels

LEMMA TdbErrorType ==
  ASSUME TypeOK, NEW p \in Proc, TdbError(p), UNCHANGED <<path, ofd, envLock, tried>>,
         call[p].pc \in {"fetch", "store"}
  PROVE  TypeOK'
  <1>1. CallOf(p, {"idle", "open", "dead", "again"}) /\ sure' \in [Proc -> BOOLEAN]
    BY TdbErrorCall, TypeOKParts DEF Left, CallOf
  <1>2. db[p] # None
    BY TypeOKParts DEF Consistent, InDriver
  <1>3. call[p].pc \notin Inside /\ call'[p].pc \notin Inside
    BY <1>1 DEF CallOf, Inside
  <1> QED BY <1>1, <1>2, <1>3, QuietType, TypeOKParts DEF TdbError

LEMMA AgainType ==
  ASSUME TypeOK, NEW p \in Proc, Again(p)
  PROVE  TypeOK'
  <1>1. call[p].pc = "again" /\ UNCHANGED <<file, path, ofd, envLock, db, tried, sure, finders>>
    BY DEF Again, At
  <1>2. CallOf(p, {"fetch", "delete", "store"})
    BY BodyLabel, GotoCall DEF Again, CallOf, Labels
  <1>3. db[p] # None
    BY <1>1, TypeOKParts DEF Consistent, InDriver
  <1>4. call[p].pc \notin Inside /\ call'[p].pc \notin Inside
    BY <1>1, <1>2 DEF CallOf, Inside
  <1> QED BY <1>1, <1>2, <1>3, <1>4, QuietType, TypeOKParts

LEMMA FetchType ==
  ASSUME TypeOK, NEW p \in Proc, Fetch(p)
  PROVE  TypeOK'
  <1>1. call[p].pc = "fetch" /\ UNCHANGED <<path, ofd, envLock, tried>>
    BY DEF Fetch, At
  <1>2. CASE Answered(p, Value(p), TRUE) /\ UNCHANGED <<file, db, finders>>
    <2>1. db[p] \in File /\ Value(p) \in 0 .. MaxVal /\ db[p] # None
      BY <1>1, TypeOKParts DEF Consistent, InDriver, Value, FileOK, FileRecord, Existing
    <2>2. CallOf(p, {"idle", "open"}) /\ sure' \in [Proc -> BOOLEAN]
      BY <1>2, <2>1, AnsweredCall
    <2>3. call[p].pc \notin Inside /\ call'[p].pc \notin Inside
      BY <1>1, <2>2 DEF CallOf, Inside
    <2> QED BY <1>1, <1>2, <2>1, <2>2, <2>3, QuietType, TypeOKParts
  <1> QED BY <1>1, <1>2, SqliteErrorType, FindCorruptType, TdbErrorType DEF Fetch

\* What a write changes
LEMMA WrittenFile ==
  ASSUME TypeOK, NEW p \in Proc, NEW v \in 0 .. MaxVal, db[p] # None, Written(p, v)
  PROVE  /\ FileOK' /\ Existing' = Existing
         /\ sure' = [q \in Proc |-> FALSE]
         /\ \A f \in File : file'[f].kind = file[f].kind /\ file'[f].corrupt = file[f].corrupt
  <1>1. db[p] \in File /\ file \in [File -> FileRecord]
    BY TypeOKParts DEF FileOK, Existing
  <1>2. file' = [file EXCEPT ![db[p]].val = v]
    BY DEF Written
  <1>3. file' \in [File -> FileRecord]
    BY <1>1, <1>2 DEF FileRecord
  <1>4. \A f \in File : file'[f].kind = file[f].kind /\ file'[f].corrupt = file[f].corrupt
    BY <1>1, <1>2 DEF FileRecord
  <1> QED BY <1>3, <1>4 DEF FileOK, Existing, Written

LEMMA StoreType ==
  ASSUME TypeOK, NEW p \in Proc, Store(p)
  PROVE  TypeOK'
  <1>1. call[p].pc = "store" /\ UNCHANGED <<path, ofd, envLock, tried>>
    BY DEF Store, At
  <1>2. CASE Written(p, call[p].val) /\ Ended(p) /\ UNCHANGED <<db, finders>>
    <2>1. db[p] # None /\ call[p].val \in 0 .. MaxVal
      BY <1>1, TypeOKParts DEF Consistent, InDriver, CallRecord
    <2>2. CallOf(p, {"idle", "dead"})
      BY <1>2, EndedCall
    <2>3. /\ FileOK' /\ Existing' = Existing /\ sure' = [q \in Proc |-> FALSE]
      BY <1>2, <2>1, WrittenFile
    <2>4. Consistent(p)'
      BY <1>1, <1>2, <2>1, <2>2, TypeOKParts DEF Consistent, InDriver, CallOf
    <2>5. Existing' = Existing \union {f \in File : path' = f}
      BY <1>1, <2>3, TypeOKParts, TablesAssumption DEF Existing, TablesAssumption
    <2>6. LockOK'
      BY <1>1, <2>2, QuietLock DEF CallOf, Inside
    <2> QED BY <1>1, <1>2, <2>2, <2>3, <2>4, <2>5, <2>6, StepType, TypeOKParts DEF Existing
  <1> QED BY <1>1, <1>2, SqliteErrorType, FindCorruptType, TdbErrorType DEF Store

LEMMA DeleteType ==
  ASSUME TypeOK, NEW p \in Proc, Delete(p)
  PROVE  TypeOK'
  <1>1. /\ call[p].pc = "delete" /\ UNCHANGED <<path, ofd, envLock, db, tried, finders>>
        /\ Ended(p)
        /\ Written(p, 0) \/ UNCHANGED <<file, sure>>
    BY DEF Delete, At
  <1>2. db[p] # None /\ 0 \in 0 .. MaxVal
    BY <1>1, TypeOKParts, TablesAssumption DEF Consistent, InDriver, TablesAssumption
  <1>3. CallOf(p, {"idle", "dead"})
    BY <1>1, EndedCall
  <1>4. FileOK' /\ Existing' = Existing /\ sure' \in [Proc -> BOOLEAN]
    BY <1>1, <1>2, WrittenFile, TypeOKParts DEF FileOK, Existing
  <1>5. Consistent(p)'
    BY <1>1, <1>2, <1>3, TypeOKParts DEF Consistent, InDriver, CallOf
  <1>6. Existing' = Existing \union {f \in File : path' = f}
    BY <1>1, <1>4, TypeOKParts, TablesAssumption DEF Existing, TablesAssumption
  <1>7. LockOK'
    BY <1>1, <1>3, QuietLock DEF CallOf, Inside
  <1> QED BY <1>1, <1>3, <1>4, <1>5, <1>6, <1>7, StepType, TypeOKParts DEF Existing

LEMMA LockType ==
  ASSUME TypeOK, NEW p \in Proc, Lock(p)
  PROVE  TypeOK'
  <1>1. CallOf(p, {"rename"})
    BY GotoCall DEF Lock, Labels
  <1>2. /\ call[p].pc = "lock" /\ envLock \in {None, ofd[p]} /\ envLock' = ofd[p]
        /\ UNCHANGED <<file, path, ofd, db, tried, sure, finders>>
    BY DEF Lock, At
  <1>3. LockOK'
    BY <1>1, <1>2, EnteredLock DEF CallOf, Inside
  <1>4. Consistent(p)'
    BY <1>1, <1>2, TypeOKParts DEF Consistent, CallOf, InDriver
  <1> QED BY <1>1, <1>2, <1>3, <1>4, StayType, TypeOKParts

LEMMA RenameType ==
  ASSUME TypeOK, NEW p \in Proc, Rename(p)
  PROVE  TypeOK'
  <1>1. CallOf(p, {"reopen"})
    BY GotoCall DEF Rename, Labels
  <1>2. /\ call[p].pc = "rename" /\ path' = None
        /\ UNCHANGED <<file, ofd, envLock, db, tried, sure, finders>>
    BY DEF Rename, At
  <1>3. Consistent(p)'
    BY <1>1, <1>2, TypeOKParts DEF Consistent, CallOf, InDriver
  <1>4. Existing' = Existing \union {f \in File : path' = f}
    BY <1>2, TablesAssumption DEF Existing, TablesAssumption
  <1>5. LockOK'
    BY <1>1, <1>2, QuietLock DEF CallOf, Inside
  <1> QED BY <1>1, <1>2, <1>3, <1>4, <1>5, StepType, TypeOKParts DEF FileOK, Existing

\* Reopen finds a file under the path, or makes one, and the call goes on or ends.
LEMMA ReopenedFile ==
  ASSUME TypeOK, NEW p \in Proc, NEW f \in File, Reopened(p, f)
  PROVE  /\ FileOK' /\ path' = f /\ Existing' = Existing \union {f}
         /\ \A g \in File : file'[g].val = file[g].val /\ file'[g].corrupt = file[g].corrupt
         /\ \A g \in Existing : file'[g] = file[g]
         /\ path = f \/ (path = None /\ f \notin Existing)
         /\ db' = [db EXCEPT ![p] = f]
  <1>1. CASE f = path /\ UNCHANGED <<file, path>>
    <2>1. path \in Existing
      BY <1>1, TypeOKParts, TablesAssumption DEF TablesAssumption
    <2> QED BY <1>1, <2>1, TypeOKParts DEF FileOK, Existing, Reopened
  <1>2. CASE path = None /\ Unused(f) /\ file' = [file EXCEPT ![f].kind = "tdb"] /\ path' = f
    <2>1. f \notin Existing
      BY <1>2, UnusedFile DEF Existing
    <2>2. \A g \in Existing : file'[g] = file[g]
      BY <1>2, <2>1, TypeOKParts DEF Existing, FileOK
    <2> QED BY <1>2, <2>1, <2>2, MadeFile DEF Reopened
  <1> QED BY <1>1, <1>2 DEF Reopened

LEMMA ReopenedCall ==
  ASSUME TypeOK, NEW p \in Proc, NEW f \in File, Reopened(p, f)
  PROVE  /\ CallOf(p, {"fetch", "delete", "store", "idle", "open", "dead"})
         /\ sure' \in [Proc -> BOOLEAN]
         /\ \A q \in Proc \ {p} : sure'[q] = sure[q]
         /\ call'[p].pc \in Storing => ~(call'[p].op = "put" /\ sure'[p])
  <1>1. CASE /\ call[p].retry + 1 < MaxRetry
             /\ call' = [call EXCEPT ![p].retry = @ + 1, ![p].pc = Body(call[p].op)]
             /\ sure' = [sure EXCEPT ![p] = FALSE]
    <2>1. call \in [Proc -> CallRecord] /\ sure \in [Proc -> BOOLEAN]
      BY TypeOKParts
    <2>2. Body(call[p].op) \in Labels /\ call[p].retry + 1 \in 0 .. MaxRetry
      BY <1>1, <2>1, BodyLabel, TablesAssumption DEF CallRecord, Labels, TablesAssumption
    <2>3. call' \in [Proc -> CallRecord] /\ call'[p].pc = Body(call[p].op)
      BY <1>1, <2>1, <2>2 DEF CallRecord
    <2> QED BY <1>1, <2>1, <2>3, BodyLabel DEF CallOf
  <1>2. CASE FallsOff(p)
    BY <1>2, FallsOffLeft DEF Left, CallOf, Storing
  <1> QED BY <1>1, <1>2 DEF Reopened

LEMMA NotReopenedCall ==
  ASSUME TypeOK, NEW p \in Proc, NotReopened(p)
  PROVE  Left(p)
  BY FallsOffLeft, DiesLeft DEF NotReopened

LEMMA ReopenType ==
  ASSUME TypeOK, NEW p \in Proc, Reopen(p)
  PROVE  TypeOK'
  <1>1. call[p].pc = "reopen" /\ Unlock(p) /\ UNCHANGED <<ofd, tried, finders>>
    BY DEF Reopen, At
  <1>2. db[p] # None /\ tried[p] = 0 /\ db \in [Proc -> Existing \union {None}]
    BY <1>1, TypeOKParts DEF Consistent, InDriver
  <1>3. envLock' \in Proc \union {None}
    BY <1>1, TypeOKParts DEF Unlock
  <1>4. CASE \E f \in File : Reopened(p, f)
    <2>1. PICK f \in File : Reopened(p, f)
      BY <1>4
    <2> DEFINE pcs == {"fetch", "delete", "store", "idle", "open", "dead"}
    <2>2. FileOK' /\ path' = f /\ Existing' = Existing \union {f} /\ db' = [db EXCEPT ![p] = f]
      BY <2>1, ReopenedFile
    <2>3. CallOf(p, pcs) /\ sure' \in [Proc -> BOOLEAN]
      BY <2>1, ReopenedCall
    <2>4. db' \in [Proc -> Existing' \union {None}] /\ db'[p] = f
          /\ \A q \in Proc \ {p} : db'[q] = db[q]
      BY <1>2, <2>2
    <2>5. Consistent(p)'
      BY <1>1, <1>2, <2>3, <2>4, TablesAssumption DEF Consistent, CallOf, TablesAssumption
    <2>6. Existing' = Existing \union {g \in File : path' = g}
      BY <2>2
    <2>7. LockOK'
      BY <1>1, <2>3, LeftLock DEF CallOf, Inside
    <2> QED BY <1>1, <1>2, <1>3, <2>2, <2>3, <2>4, <2>5, <2>6, <2>7, StepType, TypeOKParts
  <1>5. CASE NotReopened(p)
    <2>1. CallOf(p, {"idle", "open", "dead"}) /\ sure' \in [Proc -> BOOLEAN]
      BY <1>5, NotReopenedCall DEF Left
    <2>2. UNCHANGED <<file, path>> /\ db' = [db EXCEPT ![p] = None]
      BY <1>5 DEF NotReopened
    <2>3. db' \in [Proc -> Existing \union {None}] /\ \A q \in Proc \ {p} : db'[q] = db[q]
      BY <1>2, <2>2
    <2>4. Consistent(p)'
      BY <1>1, <1>2, <2>1, <2>2 DEF Consistent, CallOf, InDriver
    <2>5. LockOK'
      BY <1>1, <2>1, LeftLock DEF CallOf, Inside
    <2> QED BY <1>1, <1>2, <1>3, <2>1, <2>2, <2>3, <2>4, <2>5, StayType, TypeOKParts
  <1> QED BY <1>4, <1>5 DEF Reopen

\* The end of a page, and another path
LEMMA CloseType ==
  ASSUME TypeOK, NEW p \in Proc, Cleanup(p) \/ SetPath(p)
  PROVE  TypeOK'
  <1>1. /\ call[p].pc = "idle" /\ db' = [db EXCEPT ![p] = None]
        /\ UNCHANGED <<file, path, ofd, envLock, call, sure, finders>>
        /\ tried' = tried \/ tried' = [tried EXCEPT ![p] = 0]
    BY DEF Cleanup, SetPath, At
  <1>2. CallOf(p, {"idle"})
    BY <1>1, TypeOKParts DEF CallOf
  <1>3. 0 \in 0 .. MaxTries
    BY TablesAssumption DEF TablesAssumption
  <1>4. db \in [Proc -> Existing \union {None}] /\ tried \in [Proc -> 0 .. MaxTries] /\ Consistent(p)
    BY TypeOKParts
  <1>5. db' \in [Proc -> Existing \union {None}] /\ \A q \in Proc \ {p} : db'[q] = db[q]
    BY <1>1, <1>4
  <1>6. tried' \in [Proc -> 0 .. MaxTries] /\ \A q \in Proc \ {p} : tried'[q] = tried[q]
    BY <1>1, <1>3, <1>4
  <1>7. Consistent(p)'
    BY <1>1, <1>4 DEF Consistent, InDriver
  <1>8. LockOK'
    BY <1>1, <1>2, QuietLock
  <1> QED BY <1>1, <1>2, <1>5, <1>6, <1>7, <1>8, StayType, TypeOKParts

LEMMA CorruptType ==
  ASSUME TypeOK, NEW f \in File, Corrupt(f)
  PROVE  TypeOK'
  <1>1. /\ file[f].kind = "tdb" /\ file' = [file EXCEPT ![f].corrupt = TRUE]
        /\ UNCHANGED <<path, ofd, envLock, db, tried, call, sure, finders>>
    BY DEF Corrupt
  <1>2. FileOK' /\ Existing' = Existing
    BY <1>1, TypeOKParts DEF FileOK, FileRecord, Existing
  <1>3. (\A p \in Proc : Consistent(p)') /\ LockOK'
    BY <1>1, TypeOKParts DEF Consistent, LockOK, Alone
  <1> QED BY <1>1, <1>2, <1>3, TypeOKParts, TypeOKPartsNext

LEMMA NextType == TypeOK /\ [Next]_vars => TypeOK'
  <1> SUFFICES ASSUME TypeOK, [Next]_vars PROVE TypeOK'
    OBVIOUS
  <1>1. ASSUME NEW p \in Proc, Step(p) PROVE TypeOK'
    BY <1>1, OpenType, FetchType, StoreType, AgainType, DeleteType, LockType, RenameType,
       ReopenType DEF Step
  <1>2. CASE UNCHANGED vars
    BY <1>2 DEF vars, TypeOK
  <1> QED BY <1>1, <1>2, CallType, CloseType, CorruptType DEF Next

LEMMA InitType == Init => TypeOK
  <1> SUFFICES ASSUME Init PROVE TypeOK
    OBVIOUS
  <1>1. NoCall \in CallRecord
    BY TablesAssumption DEF NoCall, CallRecord, Labels, Ops, TablesAssumption
  <1>2. [kind |-> "none", val |-> 0, corrupt |-> FALSE] \in FileRecord /\ 0 \in 0 .. MaxTries
    BY TablesAssumption DEF FileRecord, TablesAssumption
  <1>3. \A p \in Proc : p # None
    BY TablesAssumption DEF TablesAssumption
  <1>4. \A p \in Proc : Consistent(p)
    BY <1>3 DEF Init, Consistent, InDriver, NoCall
  <1>5. ofd \in [Proc -> Proc]
    BY DEF Init, Eldest
  <1>6. LockOK
    BY <1>3, <1>5 DEF Init, LockOK, Inside, NoCall
  <1> QED BY <1>1, <1>2, <1>4, <1>5, <1>6, TypeOKParts DEF Init, FileOK

\* TypeOK: an open table has no attempts against it (dbh.cpp:97), and gEnvLock is held
\* during recovery only and left on every way out of it (dbd_tdb.cpp:106), by processes
\* that share its open file after a fork too.
THEOREM TypeCorrect == Spec => []TypeOK
  BY InitType, NextType, PTL DEF Spec

(***************************************************************************)
(* Counters and recovery                                                   *)
(***************************************************************************)

\* The invariants of one process
Sure(p) ==
  call[p].op = "put" /\ sure[p] /\ call[p].pc \in Storing =>
    /\ db[p] # None
    /\ Corrupted(p) \/ call[p].val = Value(p) + 1

Found(p) ==
  /\ call[p].pc \in Recovering => p \in finders
  /\ call[p].pc \in {"lock", "rename"} => Corrupted(p)

OnPath(p) ==
  finders \subseteq {p} /\ call[p].pc # "reopen" /\ db[p] # None => db[p] = path

\* No file gets well again.
StaysCorrupt == \A f \in File : file[f].corrupt => file'[f].corrupt

\* A value that a counter relies on does not change.
SureKept ==
  \/ \A f \in File : file'[f].val = file[f].val
  \/ \A q \in Proc : ~sure'[q]

\* What the other processes of a step have relied on is still so.
LEMMA OthersInv ==
  ASSUME TypeOK, SureInv, FoundInv, NEW p \in Proc,
         \A q \in Proc \ {p} : call'[q] = call[q] /\ db'[q] = db[q] /\ (sure'[q] => sure[q]),
         StaysCorrupt, SureKept, finders \subseteq finders',
         Sure(p)', Found(p)'
  PROVE  SureInv' /\ FoundInv'
  <1>1. \A q \in Proc \ {p} : Sure(q)'
    <2> SUFFICES ASSUME NEW q \in Proc \ {p},
                        call[q].op = "put" /\ sure'[q] /\ call[q].pc \in Storing
                 PROVE  db[q] # None /\ (file'[db[q]].corrupt \/ call[q].val = file'[db[q]].val + 1)
      BY DEF Sure, Corrupted, Value
    <2>1. db[q] # None /\ (file[db[q]].corrupt \/ call[q].val = file[db[q]].val + 1)
      BY DEF SureInv, Corrupted, Value
    <2>2. db[q] \in File
      BY <2>1, TypeOKParts DEF Existing
    <2> QED BY <2>1, <2>2 DEF StaysCorrupt, SureKept
  <1>2. \A q \in Proc \ {p} : Found(q)'
    <2> SUFFICES ASSUME NEW q \in Proc \ {p}
                 PROVE  /\ call[q].pc \in Recovering => q \in finders'
                        /\ call[q].pc \in {"lock", "rename"} => file'[db[q]].corrupt
      BY DEF Found, Corrupted
    <2>1. call[q].pc \in {"lock", "rename"} => db[q] \in File
      BY TypeOKParts DEF Existing, Consistent, InDriver
    <2> QED BY <2>1 DEF FoundInv, Corrupted, StaysCorrupt
  <1> QED BY <1>1, <1>2 DEF SureInv, FoundInv, Sure, Found

\* A step that leaves the paths and the files' kinds alone leaves the good ones in place.
LEMMA QuietPath ==
  ASSUME TypeOK, PathInv, RecoveryKeepsGood, NEW p \in Proc,
         \A q \in Proc \ {p} : call'[q] = call[q] /\ db'[q] = db[q],
         db'[p] = db[p] \/ db'[p] = None,
         call[p].pc # "reopen", path' = path, finders \subseteq finders',
         StaysCorrupt, \A f \in File : file'[f].kind = file[f].kind
  PROVE  PathInv' /\ RecoveryKeepsGood'
  <1>1. PathInv'
    BY DEF PathInv
  <1>2. RecoveryKeepsGood'
    BY DEF RecoveryKeepsGood, StaysCorrupt
  <1> QED BY <1>1, <1>2

\* A process that leaves the driver relies on nothing.
LEMMA LeftInv ==
  ASSUME NEW p \in Proc, Left(p)
  PROVE  Sure(p)' /\ Found(p)'
  BY DEF Left, CallOf, Sure, Found, Storing, Recovering

\* The rest of IInv
Rest == SureInv /\ FoundInv /\ PathInv /\ RecoveryKeepsGood

LEMMA SameFiles ==
  ASSUME UNCHANGED file
  PROVE  StaysCorrupt /\ SureKept /\ \A f \in File : file'[f].kind = file[f].kind
  BY DEF StaysCorrupt, SureKept

LEMMA CallInv ==
  ASSUME IInv, NEW p \in Proc, NEW o \in Ops, NEW v \in 0 .. MaxVal, Call(p, o, v)
  PROVE  Rest'
  <1>1. /\ call[p].pc = "idle" /\ o # "put"
        /\ call' = [call EXCEPT ![p] = [pc |-> "open", op |-> o, val |-> v, retry |-> 0]]
        /\ UNCHANGED <<file, path, ofd, envLock, db, tried, sure, finders>>
    BY DEF Call, At
  <1>2. call \in [Proc -> CallRecord]
    BY TypeOKParts DEF IInv
  <1>3. call'[p].pc = "open" /\ call'[p].op = o /\ \A q \in Proc \ {p} : call'[q] = call[q]
    BY <1>1, <1>2
  <1>4. Sure(p)' /\ Found(p)'
    BY <1>1, <1>3 DEF Sure, Found, Storing, Recovering
  <1>5. StaysCorrupt /\ SureKept /\ \A f \in File : file'[f].kind = file[f].kind
    BY <1>1, SameFiles
  <1>6. SureInv' /\ FoundInv'
    BY <1>1, <1>3, <1>4, <1>5, OthersInv DEF IInv
  <1>7. PathInv' /\ RecoveryKeepsGood'
    BY <1>1, <1>3, <1>5, QuietPath DEF IInv
  <1> QED BY <1>6, <1>7 DEF Rest

LEMMA OpenInv ==
  ASSUME IInv, NEW p \in Proc, Open(p)
  PROVE  Rest'
  <1>1. call[p].pc = "open" /\ UNCHANGED <<envLock, finders>> /\ TypeOK
    BY DEF Open, At, IInv
  <1>2. CASE /\ db[p] # None /\ Goto(p, Body(call[p].op))
             /\ UNCHANGED <<file, path, db, tried, sure>>
    <2>1. /\ CallOf(p, {"fetch", "delete", "store"})
          /\ call'[p].op = call[p].op /\ call'[p].val = call[p].val
      BY <1>1, <1>2, BodyLabel, GotoCall DEF CallOf, Labels
    <2>2. Sure(p)' /\ Found(p)'
      BY <1>1, <1>2, <2>1 DEF IInv, SureInv, Sure, Found, Storing, CallOf, Corrupted, Value, Recovering
    <2>3. StaysCorrupt /\ SureKept /\ \A f \in File : file'[f].kind = file[f].kind
      BY <1>2, SameFiles
    <2>4. SureInv' /\ FoundInv'
      BY <1>1, <1>2, <2>1, <2>2, <2>3, OthersInv DEF IInv, CallOf
    <2>5. PathInv' /\ RecoveryKeepsGood'
      BY <1>1, <1>2, <2>1, <2>3, QuietPath DEF IInv, CallOf
    <2> QED BY <2>4, <2>5 DEF Rest
  <1>3. CASE Failed(p) /\ UNCHANGED <<file, path, db>>
    <2>1. Left(p)
      BY <1>1, <1>3, FailedLeft
    <2>2. StaysCorrupt /\ SureKept /\ \A f \in File : file'[f].kind = file[f].kind
      BY <1>3, SameFiles
    <2>3. SureInv' /\ FoundInv'
      BY <1>1, <1>3, <2>1, <2>2, LeftInv, OthersInv DEF IInv, Left, CallOf
    <2>4. PathInv' /\ RecoveryKeepsGood'
      BY <1>1, <1>3, <2>1, <2>2, QuietPath DEF IInv, Left, CallOf
    <2> QED BY <2>3, <2>4 DEF Rest
  <1>4. CASE db[p] = None /\ \E f \in File : Opened(p, f)
    <2>1. PICK f \in File : Opened(p, f)
      BY <1>4
    <2>2. /\ path' = f /\ (path = f \/ path = None)
          /\ \A g \in File : file'[g].val = file[g].val /\ file'[g].corrupt = file[g].corrupt
          /\ \A g \in Existing : file'[g] = file[g]
          /\ Existing' = Existing \union {f}
      BY <1>1, <2>1, OpenedFile
    <2>3. db' = [db EXCEPT ![p] = f] /\ Goto(p, Body(call[p].op)) /\ sure' = sure
      BY <2>1 DEF Opened
    <2>4. CallOf(p, {"fetch", "delete", "store"}) /\ call'[p].op = call[p].op
      BY <1>1, <2>3, BodyLabel, GotoCall DEF CallOf, Labels
    <2>5. db \in [Proc -> Existing \union {None}]
      BY <1>1, TypeOKParts
    <2>6. Sure(p)' /\ Found(p)'
      BY <1>1, <1>4, <2>3, <2>4 DEF IInv, SureInv, Sure, Found, Storing, CallOf, Recovering
    <2>7. StaysCorrupt /\ SureKept
      BY <2>2 DEF StaysCorrupt, SureKept
    <2>8. SureInv' /\ FoundInv'
      BY <1>1, <2>3, <2>4, <2>5, <2>6, <2>7, OthersInv DEF IInv, CallOf
    <2>9. PathInv'
      BY <1>1, <2>2, <2>3, <2>4, <2>5 DEF IInv, PathInv, CallOf
    <2>10. RecoveryKeepsGood'
      <3> SUFFICES ASSUME \A q, r \in finders : q = r, NEW g \in File,
                          file'[g].kind # "none" /\ ~file'[g].corrupt
                   PROVE  g = path'
        BY <1>1 DEF RecoveryKeepsGood
      <3>1. g = f \/ g \in Existing
        BY <2>2 DEF Existing
      <3>2. CASE g \in Existing
        BY <2>2, <3>2, TablesAssumption DEF IInv, RecoveryKeepsGood, Existing, TablesAssumption
      <3> QED BY <2>2, <3>1, <3>2
    <2> QED BY <2>8, <2>9, <2>10 DEF Rest
  <1> QED BY <1>2, <1>3, <1>4 DEF Open, NotOpened

\* A step of p that stays in its file or leaves it, and leaves the files alone
LEMMA DriverInv ==
  ASSUME IInv, NEW p \in Proc, NEW pcs, CallOf(p, pcs), call[p].pc # "reopen",
         \A q \in Proc \ {p} : sure'[q] = sure[q],
         UNCHANGED <<file, path>>, finders \subseteq finders',
         db' = db \/ db' = [db EXCEPT ![p] = None],
         Sure(p)', Found(p)'
  PROVE  Rest'
  <1>1. TypeOK /\ db \in [Proc -> Existing \union {None}]
    BY TypeOKParts DEF IInv
  <1>2. (db'[p] = db[p] \/ db'[p] = None) /\ \A q \in Proc \ {p} : db'[q] = db[q]
    BY <1>1
  <1>3. StaysCorrupt /\ SureKept /\ \A f \in File : file'[f].kind = file[f].kind
    BY SameFiles
  <1>4. SureInv' /\ FoundInv'
    BY <1>1, <1>2, <1>3, OthersInv DEF IInv, CallOf
  <1>5. PathInv' /\ RecoveryKeepsGood'
    BY <1>1, <1>2, <1>3, QuietPath DEF IInv, CallOf
  <1> QED BY <1>4, <1>5 DEF Rest

LEMMA SqliteErrorInv ==
  ASSUME IInv, NEW p \in Proc, SqliteError(p), path' = path, call[p].pc \in {"fetch", "store"}
  PROVE  Rest'
  <1>1. Left(p)
    BY FailedLeft, DiesLeft DEF SqliteError, IInv
  <1>2. Sure(p)' /\ Found(p)'
    BY <1>1, LeftInv
  <1> QED BY <1>1, <1>2, DriverInv DEF SqliteError, Left

LEMMA FindCorruptInv ==
  ASSUME IInv, NEW p \in Proc, FindCorrupt(p), path' = path, call[p].pc \in {"fetch", "store"}
  PROVE  Rest'
  <1>1. CallOf(p, {"lock"}) /\ Corrupted(p) /\ finders' = finders \union {p}
        /\ UNCHANGED <<file, db, sure>>
    BY GotoCall DEF FindCorrupt, Labels, IInv
  <1>2. Sure(p)' /\ Found(p)'
    BY <1>1 DEF Sure, Found, Storing, Corrupted, CallOf
  <1> QED BY <1>1, <1>2, DriverInv

LEMMA TdbErrorInv ==
  ASSUME IInv, NEW p \in Proc, TdbError(p), path' = path, call[p].pc \in {"fetch", "store"}
  PROVE  Rest'
  <1>1. TypeOK /\ UNCHANGED <<file, db, finders>>
    BY DEF TdbError, IInv
  <1>2. CASE Left(p)
    <2>1. Sure(p)' /\ Found(p)'
      BY <1>2, LeftInv
    <2> QED BY <1>1, <1>2, <2>1, DriverInv DEF Left
  <1>3. CASE CallOf(p, {"again"}) /\ call'[p].op = call[p].op /\ call'[p].val = call[p].val
             /\ sure' = sure
    <2>1. Sure(p)' /\ Found(p)'
      BY <1>1, <1>3 DEF IInv, SureInv, Sure, Found, Storing, CallOf, Corrupted, Value, Recovering
    <2> QED BY <1>1, <1>3, <2>1, DriverInv
  <1> QED BY <1>1, <1>2, <1>3, TdbErrorCall

LEMMA AgainInv ==
  ASSUME IInv, NEW p \in Proc, Again(p)
  PROVE  Rest'
  <1>1. call[p].pc = "again" /\ UNCHANGED <<file, path, db, sure, finders>> /\ TypeOK
    BY DEF Again, At, IInv
  <1>2. CallOf(p, {"fetch", "delete", "store"}) /\ call'[p].op = call[p].op
        /\ call'[p].val = call[p].val
    BY <1>1, BodyLabel, GotoCall DEF Again, CallOf, Labels
  <1>3. Sure(p)' /\ Found(p)'
    BY <1>1, <1>2 DEF IInv, SureInv, Sure, Found, Storing, CallOf, Corrupted, Value, Recovering
  <1> QED BY <1>1, <1>2, <1>3, DriverInv

LEMMA FetchInv ==
  ASSUME IInv, NEW p \in Proc, Fetch(p)
  PROVE  Rest'
  <1>1. call[p].pc = "fetch" /\ path' = path /\ TypeOK
    BY DEF Fetch, At, IInv
  <1>2. CASE Answered(p, Value(p), TRUE) /\ UNCHANGED <<file, db, finders>>
    <2>1. db[p] \in File /\ db[p] # None /\ Value(p) \in 0 .. MaxVal
      BY <1>1, TypeOKParts DEF Consistent, InDriver, Value, FileOK, FileRecord, Existing
    <2>2. /\ CallOf(p, {"idle", "open"})
          /\ \A q \in Proc \ {p} : sure'[q] = sure[q]
          /\ call'[p].op = "put" /\ sure'[p] => call'[p].val = Value(p) + 1
      BY <1>1, <1>2, <2>1, AnsweredCall
    <2>3. Sure(p)' /\ Found(p)'
      BY <1>2, <2>1, <2>2 DEF Sure, Found, Storing, CallOf, Value, Recovering
    <2> QED BY <1>1, <1>2, <2>2, <2>3, DriverInv
  <1> QED BY <1>1, <1>2, SqliteErrorInv, FindCorruptInv, TdbErrorInv DEF Fetch

\* A write, which ends the call
LEMMA WriteInv ==
  ASSUME IInv, NEW p \in Proc, NEW v \in 0 .. MaxVal, Written(p, v), db[p] # None,
         call[p].pc # "reopen", CallOf(p, {"idle", "dead"}), UNCHANGED <<path, db, finders>>
  PROVE  Rest'
  <1>1. /\ sure' = [q \in Proc |-> FALSE]
        /\ \A f \in File : file'[f].kind = file[f].kind /\ file'[f].corrupt = file[f].corrupt
    BY WrittenFile DEF IInv
  <1>2. Sure(p)' /\ Found(p)'
    BY DEF Sure, Found, Storing, CallOf, Recovering
  <1>3. StaysCorrupt /\ SureKept
    BY <1>1 DEF StaysCorrupt, SureKept
  <1>4. SureInv' /\ FoundInv'
    BY <1>1, <1>2, <1>3, OthersInv DEF IInv, CallOf
  <1>5. PathInv' /\ RecoveryKeepsGood'
    BY <1>1, <1>3, QuietPath DEF IInv, CallOf
  <1> QED BY <1>4, <1>5 DEF Rest

LEMMA StoreInv ==
  ASSUME IInv, NEW p \in Proc, Store(p)
  PROVE  Rest'
  <1>1. call[p].pc = "store" /\ path' = path /\ TypeOK
    BY DEF Store, At, IInv
  <1>2. CASE Written(p, call[p].val) /\ Ended(p) /\ UNCHANGED <<db, finders>>
    <2>1. db[p] # None /\ call[p].val \in 0 .. MaxVal
      BY <1>1, TypeOKParts DEF Consistent, InDriver, CallRecord
    <2>2. CallOf(p, {"idle", "dead"})
      BY <1>1, <1>2, EndedCall
    <2> QED BY <1>1, <1>2, <2>1, <2>2, WriteInv
  <1> QED BY <1>1, <1>2, SqliteErrorInv, FindCorruptInv, TdbErrorInv DEF Store

LEMMA DeleteInv ==
  ASSUME IInv, NEW p \in Proc, Delete(p)
  PROVE  Rest'
  <1>1. /\ call[p].pc = "delete" /\ UNCHANGED <<path, db, finders>> /\ TypeOK
        /\ Ended(p)
        /\ Written(p, 0) \/ UNCHANGED <<file, sure>>
    BY DEF Delete, At, IInv
  <1>2. db[p] # None /\ 0 \in 0 .. MaxVal
    BY <1>1, TypeOKParts, TablesAssumption DEF Consistent, InDriver, TablesAssumption
  <1>3. CallOf(p, {"idle", "dead"})
    BY <1>1, EndedCall
  <1>4. CASE UNCHANGED <<file, sure>>
    <2>1. Sure(p)' /\ Found(p)'
      BY <1>3 DEF Sure, Found, Storing, CallOf, Recovering
    <2> QED BY <1>1, <1>3, <1>4, <2>1, DriverInv
  <1> QED BY <1>1, <1>2, <1>3, <1>4, WriteInv

LEMMA LockInv ==
  ASSUME IInv, NEW p \in Proc, Lock(p)
  PROVE  Rest'
  <1>1. call[p].pc = "lock" /\ UNCHANGED <<file, path, db, sure, finders>>
    BY DEF Lock, At
  <1>2. CallOf(p, {"rename"})
    BY GotoCall DEF Lock, Labels, IInv
  <1>3. Sure(p)' /\ Found(p)'
    BY <1>1, <1>2 DEF Sure, Found, Storing, CallOf, IInv, FoundInv, Corrupted, Recovering
  <1> QED BY <1>1, <1>2, <1>3, DriverInv

\* The one that found the corrupt file renames that file, if no other found it.
LEMMA RenameInv ==
  ASSUME IInv, NEW p \in Proc, Rename(p)
  PROVE  Rest'
  <1>1. call[p].pc = "rename" /\ path' = None /\ UNCHANGED <<file, db, sure, finders>> /\ TypeOK
    BY DEF Rename, At, IInv
  <1>2. CallOf(p, {"reopen"})
    BY GotoCall DEF Rename, Labels, IInv
  <1>3. p \in finders /\ Corrupted(p) /\ db[p] # None /\ db[p] \in File
    BY <1>1, TypeOKParts DEF IInv, FoundInv, Recovering, Consistent, InDriver, Existing
  <1>4. Sure(p)' /\ Found(p)'
    BY <1>1, <1>2, <1>3 DEF Sure, Found, Storing, CallOf
  <1>5. SureInv' /\ FoundInv'
    BY <1>1, <1>2, <1>4, SameFiles, OthersInv DEF IInv, CallOf
  <1>6. PathInv'
    BY <1>1, <1>2, <1>3 DEF PathInv, CallOf
  <1>7. RecoveryKeepsGood'
    <2> SUFFICES ASSUME \A q, r \in finders : q = r, NEW g \in File,
                        file[g].kind # "none" /\ ~file[g].corrupt
                 PROVE  FALSE
      BY <1>1 DEF RecoveryKeepsGood
    <2>1. g = path
      BY DEF IInv, RecoveryKeepsGood
    <2>2. finders \subseteq {p}
      BY <1>3
    <2>3. db[p] = path
      BY <1>1, <1>3, <2>2 DEF IInv, PathInv
    <2> QED BY <1>3, <2>1, <2>3 DEF Corrupted
  <1> QED BY <1>5, <1>6, <1>7 DEF Rest

LEMMA ReopenInv ==
  ASSUME IInv, NEW p \in Proc, Reopen(p)
  PROVE  Rest'
  <1>1. call[p].pc = "reopen" /\ finders' = finders /\ TypeOK
    BY DEF Reopen, At, IInv
  <1>2. p \in finders /\ db \in [Proc -> Existing \union {None}]
    BY <1>1, TypeOKParts DEF IInv, FoundInv, Recovering
  <1>3. CASE \E f \in File : Reopened(p, f)
    <2>1. PICK f \in File : Reopened(p, f)
      BY <1>3
    <2>2. /\ path' = f /\ (path = f \/ path = None)
          /\ \A g \in File : file'[g].val = file[g].val /\ file'[g].corrupt = file[g].corrupt
          /\ \A g \in Existing : file'[g] = file[g]
          /\ Existing' = Existing \union {f}
          /\ db' = [db EXCEPT ![p] = f]
      BY <1>1, <2>1, ReopenedFile
    <2>3. /\ CallOf(p, {"fetch", "delete", "store", "idle", "open", "dead"})
          /\ \A q \in Proc \ {p} : sure'[q] = sure[q]
          /\ call'[p].pc \in Storing => ~(call'[p].op = "put" /\ sure'[p])
      BY <1>1, <2>1, ReopenedCall
    <2>4. Sure(p)' /\ Found(p)'
      BY <2>3 DEF Sure, Found, Storing, CallOf, Recovering
    <2>5. StaysCorrupt /\ SureKept
      BY <2>2 DEF StaysCorrupt, SureKept
    <2>6. SureInv' /\ FoundInv'
      BY <1>1, <1>2, <2>2, <2>3, <2>4, <2>5, OthersInv DEF IInv, CallOf
    <2>7. PathInv'
      BY <1>1, <1>2, <2>2 DEF PathInv
    <2>8. RecoveryKeepsGood'
      <3> SUFFICES ASSUME \A q, r \in finders : q = r, NEW g \in File,
                          file'[g].kind # "none" /\ ~file'[g].corrupt
                   PROVE  g = path'
        BY <1>1 DEF RecoveryKeepsGood
      <3>1. g = f \/ g \in Existing
        BY <2>2 DEF Existing
      <3>2. CASE g \in Existing
        BY <2>2, <3>2, TablesAssumption DEF IInv, RecoveryKeepsGood, Existing, TablesAssumption
      <3> QED BY <2>2, <3>1, <3>2
    <2> QED BY <2>6, <2>7, <2>8 DEF Rest
  <1>4. CASE NotReopened(p)
    <2>1. Left(p)
      BY <1>1, <1>4, NotReopenedCall
    <2>2. UNCHANGED <<file, path>> /\ db' = [db EXCEPT ![p] = None]
      BY <1>4 DEF NotReopened
    <2>3. Sure(p)' /\ Found(p)'
      BY <2>1, LeftInv
    <2>4. SureInv' /\ FoundInv'
      BY <1>1, <1>2, <2>1, <2>2, <2>3, SameFiles, OthersInv DEF IInv, Left, CallOf
    <2>5. PathInv'
      BY <1>1, <1>2, <2>2 DEF PathInv
    <2>6. RecoveryKeepsGood'
      BY <1>1, <2>2 DEF IInv, RecoveryKeepsGood
    <2> QED BY <2>4, <2>5, <2>6 DEF Rest
  <1> QED BY <1>3, <1>4 DEF Reopen

LEMMA CloseInv ==
  ASSUME IInv, NEW p \in Proc, Cleanup(p) \/ SetPath(p)
  PROVE  Rest'
  <1>1. /\ call[p].pc = "idle" /\ db' = [db EXCEPT ![p] = None]
        /\ UNCHANGED <<file, path, call, sure, finders>>
    BY DEF Cleanup, SetPath, At
  <1>2. CallOf(p, {"idle"})
    BY <1>1, TypeOKParts DEF CallOf, IInv
  <1>3. Sure(p)' /\ Found(p)'
    BY <1>1 DEF Sure, Found, Storing, Recovering
  <1> QED BY <1>1, <1>2, <1>3, DriverInv

LEMMA CorruptInv ==
  ASSUME IInv, NEW f \in File, Corrupt(f)
  PROVE  Rest'
  <1>1. /\ file' = [file EXCEPT ![f].corrupt = TRUE] /\ UNCHANGED <<path, db, call, sure, finders>>
        /\ file \in [File -> FileRecord]
    BY TypeOKParts DEF Corrupt, IInv, FileOK
  <1>2. \A g \in File : /\ file'[g].kind = file[g].kind /\ file'[g].val = file[g].val
                        /\ file[g].corrupt => file'[g].corrupt
    BY <1>1 DEF FileRecord
  <1>3. \A p \in Proc : db[p] # None => db[p] \in File
    BY TypeOKParts DEF IInv, Existing
  <1>4. SureInv'
    BY <1>1, <1>2, <1>3 DEF IInv, SureInv, Corrupted, Value
  <1>5. \A p \in Proc : call[p].pc \in {"lock", "rename"} => db[p] # None
    BY TypeOKParts DEF IInv, Consistent, InDriver
  <1>6. FoundInv'
    BY <1>1, <1>2, <1>3, <1>5 DEF IInv, FoundInv, Corrupted
  <1>7. PathInv'
    BY <1>1 DEF IInv, PathInv
  <1>8. RecoveryKeepsGood'
    BY <1>1, <1>2 DEF IInv, RecoveryKeepsGood
  <1> QED BY <1>4, <1>6, <1>7, <1>8 DEF Rest

LEMMA NextInv == IInv /\ [Next]_vars => IInv'
  <1> SUFFICES ASSUME IInv, [Next]_vars PROVE TypeOK' /\ Rest'
    BY DEF IInv, Rest
  <1>1. TypeOK'
    BY NextType DEF IInv
  <1>2. ASSUME NEW p \in Proc, Step(p) PROVE Rest'
    BY <1>2, OpenInv, FetchInv, StoreInv, AgainInv, DeleteInv, LockInv, RenameInv, ReopenInv DEF Step
  <1>3. ASSUME UNCHANGED vars PROVE Rest'
    BY <1>3 DEF vars, IInv, Rest, SureInv, FoundInv, PathInv, RecoveryKeepsGood, Corrupted, Value
  <1>4. Rest'
    BY <1>2, <1>3, CallInv, CloseInv, CorruptInv DEF Next
  <1> QED BY <1>1, <1>4

LEMMA InitInv == Init => IInv
  <1> SUFFICES ASSUME Init PROVE IInv
    OBVIOUS
  <1>1. TypeOK
    BY InitType
  <1>2. SureInv /\ FoundInv /\ PathInv /\ RecoveryKeepsGood
    BY DEF Init, SureInv, FoundInv, PathInv, RecoveryKeepsGood, NoCall, Recovering, Storing
  <1> QED BY <1>1, <1>2 DEF IInv

\* CounterExact: a counter stores one more than the table has, if Get answered it and
\* nobody wrote and nothing was recovered in between (hset.cpp:124).
THEOREM CountersExact == Spec => []CounterExact
  <1>1. IInv => CounterExact
    BY DEF IInv, SureInv, CounterExact, At, Storing
  <1> QED BY <1>1, InitInv, NextInv, PTL DEF Spec

\* RecoveryKeepsGood: recovery takes good files out of the way only after two processes
\* found one corrupt (dbd_tdb.cpp:107).
THEOREM RecoveryIsSafe == Spec => []RecoveryKeepsGood
  <1>1. IInv => RecoveryKeepsGood
    BY DEF IInv
  <1> QED BY <1>1, InitInv, NextInv, PTL DEF Spec

====
