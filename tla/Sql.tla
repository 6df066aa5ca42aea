--------------------------------- MODULE Sql ---------------------------------
(* Connections, statements and transactions of sql.cpp.  A page is a stack of the
   macros that are being expanded; a query outside of a transaction has a connection
   of its own, one inside shares those of the innermost transaction's pool. *)
EXTENDS Naturals, FiniteSets, Sequences

CONSTANTS
  Dsn,       \* data sources
  Conn,      \* connection handles; bound: how many are open at one time
  None,      \* no connection
  MaxDepth,  \* bound: macros nested
  MaxAborts  \* bound: pages that are aborted

ASSUME SqlAssumption ==
  /\ None \notin Conn
  /\ MaxDepth \in Nat
  /\ MaxAborts \in Nat

VARIABLES
  page,    \* the macros being expanded, innermost last
  exc,     \* the exception on its way out, by the sign of its ID
  conn,    \* CDbHandle of each connection
  lost,    \* references of each connection that an abort left behind
  aborts,
  late,    \* kinds of queries whose statement was freed after its connection
  ended    \* what became of the work of the transaction that ended last

vars == <<page, exc, conn, lost, aborts, late, ended>>

IDs == {"positive", "zero", "negative"}

Unused == [state |-> "unused", refs |-> 0, work |-> FALSE]

(***************************************************************************)
(* Macros in progress                                                      *)
(***************************************************************************)

\* EvalTry, or ParseTry of a page whose error handler is set first thing
TryFrame == [kind |-> "try"]

\* EvalSafeExpand: its context has no try, but each macro that it exposes is expanded in
\* the context around it (qObjSafe), which may have.
SafeFrame == [kind |-> "safe"]

\* qObjODBC: myConn, and whether myStmt is open
QueryFrame(c, pooled) == [kind |-> "query", conn |-> c, pooled |-> pooled]

\* CDbPool: myConnMap; ok of EvalSqlTrans; failed: the error of one of its queries
\* has met neither a try nor a safe-expand yet.
TransFrame(pool, ok, failed) ==
  [kind |-> "trans", pool |-> pool, ok |-> ok, failed |-> failed]

NoConns == [d \in Dsn |-> None]

Frames ==
  {TryFrame, SafeFrame}
  \union {QueryFrame(c, p) : c \in Conn, p \in BOOLEAN}
  \union {TransFrame(m, k, f) : m \in [Dsn -> Conn \union {None}], k \in BOOLEAN, f \in BOOLEAN}

Top == page[Len(page)]
Below == SubSeq(page, 1, Len(page) - 1)

\* myTry of the context that a macro throws in: for one exposed to safe-expand that
\* is the context around it.
InTry(s) == \E i \in DOMAIN s : s[i].kind \in {"try", "trans"}

\* The innermost transaction: its pool is the data that "sql" was mapped with.
IsPool(s, i) ==
  /\ i \in DOMAIN s
  /\ s[i].kind = "trans"
  /\ \A j \in DOMAIN s : s[j].kind = "trans" => j <= i

InPool(s) == \E i \in DOMAIN s : s[i].kind = "trans"

PoolOf(s) == CHOOSE i \in DOMAIN s : IsPool(s, i)

Pooled(f) == {f.pool[d] : d \in Dsn} \ {None}

\* The error of s is caught: no transaction waits for it any more.
Met(s) == [i \in DOMAIN s |-> IF s[i].kind = "trans" THEN [s[i] EXCEPT !.failed = FALSE] ELSE s[i]]

Running == exc = "none"

(***************************************************************************)
(* Handles                                                                 *)
(***************************************************************************)

\* CDbHandle::Free, and _Close with the last reference
Freed(h) == IF h.refs = 1 THEN Unused ELSE [h EXCEPT !.refs = @ - 1]

\* ~qObjODBC: the members go in reverse order, the connection before the statement.
Drop(cs, c, pooled) ==
  /\ conn' = [cs EXCEPT ![c] = Freed(@)]
  /\ late' = IF cs[c].refs = 1
             THEN late \union {IF pooled THEN "pooled" ELSE "direct"} ELSE late

\* Variant: thrown wherever it is.
ThrownAnywhere(id, s) == exc' = id

\* ctx->Throw in a macro expanded on top of s
Thrown(id, s) == exc' = IF InTry(s) THEN id ELSE "none"

(***************************************************************************)
(* Queries.  s is the page with the connection c entered into the pool, cs *)
(* the connections with the reference the query has to c.                  *)
(***************************************************************************)

\* Variant: an error is printed wherever it happens.
FailsPrinted(s, cs, c, pooled) ==
  /\ page' = IF pooled THEN [s EXCEPT ![PoolOf(s)].failed = TRUE] ELSE s
  /\ conn' = [cs EXCEPT ![c] = Freed(@)]
  /\ exc' = "none"
  /\ UNCHANGED late

\* There is no connection, or the statement is refused (and freed by SetError).
Fails(s, cs, c, pooled) ==
  /\ page' = IF pooled THEN [s EXCEPT ![PoolOf(s)].failed = TRUE] ELSE s
  /\ conn' = [cs EXCEPT ![c] = Freed(@)]
  /\ Thrown("positive", s)
  /\ UNCHANGED late

\* With autocommit off the work waits for EndTrans.
Worked(cs, c, pooled) == [cs EXCEPT ![c].work = @ \/ pooled]

\* The statement is executed and there is nothing to expand: no row pattern, and the
\* statement is open to the end, or no columns, and Bind closes it.
Plain(s, cs, c, pooled) ==
  /\ cs[c].state = "open"
  /\ page' = s
  /\ \/ Drop(Worked(cs, c, pooled), c, pooled)
     \/ /\ conn' = [Worked(cs, c, pooled) EXCEPT ![c] = Freed(@)]
        /\ UNCHANGED late
  /\ UNCHANGED exc

\* The row pattern is expanded, with any macros in it.
Rows(s, cs, c, pooled) ==
  /\ cs[c].state = "open"
  /\ Len(s) < MaxDepth
  /\ page' = Append(s, QueryFrame(c, pooled))
  /\ conn' = Worked(cs, c, pooled)
  /\ UNCHANGED <<exc, late>>

Execute(s, cs, c, pooled) ==
  Fails(s, cs, c, pooled) \/ Plain(s, cs, c, pooled) \/ Rows(s, cs, c, pooled)

Connected(c, state, refs) ==
  [conn EXCEPT ![c] = [state |-> state, refs |-> refs, work |-> FALSE]]

\* Variant: a connection found in the pool is used without a reference of its own.
FoundUncounted(i, d) == Execute(page, conn, page[i].pool[d], TRUE)

\* CDbPool::Connect, when the pool has the data source
Found(i, d) ==
  Execute(page, [conn EXCEPT ![page[i].pool[d]].refs = @ + 1], page[i].pool[d], TRUE)

\* ... and when it has not: whatever the outcome is kept until the transaction ends.
Connect(i, d, c, state) ==
  Execute([page EXCEPT ![i].pool[d] = c], Connected(c, state, 2), c, TRUE)

EvalSql(d) ==
  /\ Running
  /\ \/ \E i \in DOMAIN page : IsPool(page, i) /\ page[i].pool[d] # None /\ Found(i, d)
     \/ \E c \in Conn, state \in {"open", "dead"} :
          /\ conn[c].state = "unused"
          /\ \/ \E i \in DOMAIN page :
                  IsPool(page, i) /\ page[i].pool[d] = None /\ Connect(i, d, c, state)
             \/ ~InPool(page) /\ Execute(page, Connected(c, state, 1), c, FALSE)
  /\ UNCHANGED <<lost, aborts, ended>>

\* There is no handle for the connection, and it is used all the same: the process dies,
\* the databases undo what waits, and the next process begins.
ConnectDies(d) ==
  /\ Running
  /\ InPool(page) => page[PoolOf(page)].pool[d] = None
  /\ page' = <<>>
  /\ conn' = [c \in Conn |-> Unused]
  /\ lost' = [c \in Conn |-> 0]
  /\ UNCHANGED <<exc, aborts, late, ended>>

\* The rows are used up, or the script says break.
RowsDone ==
  /\ Running
  /\ page # <<>> /\ Top.kind = "query"
  /\ page' = Below
  /\ Drop(conn, Top.conn, Top.pooled)
  /\ UNCHANGED <<exc, lost, aborts, ended>>

\* EvalSql's handler: an ID of zero is taken for no error.
RowsFailed ==
  /\ exc \in IDs
  /\ page # <<>> /\ Top.kind = "query"
  /\ page' = Below
  /\ Drop(conn, Top.conn, Top.pooled)
  /\ IF exc = "zero" THEN exc' = "none" ELSE Thrown(exc, Below)
  /\ UNCHANGED <<lost, aborts, ended>>

\* EvalSql's other handler rethrows an abort before it deletes the query.
RowsAborted ==
  /\ exc = "abort"
  /\ page # <<>> /\ Top.kind = "query"
  /\ page' = Below
  /\ lost' = [lost EXCEPT ![Top.conn] = @ + 1]
  /\ UNCHANGED <<exc, conn, aborts, late, ended>>

(***************************************************************************)
(* Transactions                                                            *)
(***************************************************************************)

BeginTrans ==
  /\ Running
  /\ Len(page) < MaxDepth
  /\ page' = Append(page, TransFrame(NoConns, TRUE, FALSE))
  /\ UNCHANGED <<exc, conn, lost, aborts, late, ended>>

\* The macro "rollback" that EvalSqlTrans maps
Rollback ==
  /\ Running
  /\ \E i \in DOMAIN page : IsPool(page, i) /\ page' = [page EXCEPT ![i].ok = FALSE]
  /\ UNCHANGED <<exc, conn, lost, aborts, late, ended>>

\* Variant: stops at the first connection that refuses, and leaves the others to the
\* destructor of the pool, which rolls back.
EndTransStopping(f, ok) ==
  /\ conn' = [c \in Conn |-> IF c \in Pooled(f) THEN Freed(conn[c]) ELSE conn[c]]
  /\ \E refused \in SUBSET Pooled(f), reached \in SUBSET Pooled(f) :
       LET working == {c \in Pooled(f) \ refused : conn[c].work} IN
       ended' = [ok |-> ok, failed |-> f.failed, refused |-> refused # {},
                 committed |-> ok /\ working \intersect reached # {},
                 undone |-> (~ok /\ working # {}) \/ working \ reached # {}]

\* SQLEndTran for every connection of the pool, then the pool is deleted, which rolls
\* back what is left (nothing, unless SQLEndTran was refused), and with it the
\* references of its map.
EndTrans(f, ok) ==
  /\ conn' = [c \in Conn |-> IF c \in Pooled(f) THEN Freed(conn[c]) ELSE conn[c]]
  /\ \E refused \in SUBSET Pooled(f) :
       LET working == {c \in Pooled(f) \ refused : conn[c].work} IN
       ended' = [ok |-> ok, failed |-> f.failed, refused |-> refused # {},
                 committed |-> ok /\ working # {}, undone |-> ~ok /\ working # {}]

TransDone ==
  /\ Running
  /\ page # <<>> /\ Top.kind = "trans"
  /\ page' = Below
  /\ EndTrans(Top, Top.ok)
  /\ UNCHANGED <<exc, lost, aborts, late>>

\* EvalSqlTrans's handler: only an ID above zero is thrown on.
TransFailed ==
  /\ exc \in IDs
  /\ page # <<>> /\ Top.kind = "trans"
  /\ page' = Below
  /\ EndTrans(Top, FALSE)
  /\ IF exc = "positive" THEN Thrown(exc, Below) ELSE exc' = "none"
  /\ UNCHANGED <<lost, aborts, late>>

\* An abort neither ends the transaction nor frees the pool.
TransAborted ==
  /\ exc = "abort"
  /\ page # <<>> /\ Top.kind = "trans"
  /\ page' = Below
  /\ lost' = [c \in Conn |-> IF c \in Pooled(Top) THEN lost[c] + 1 ELSE lost[c]]
  /\ UNCHANGED <<exc, conn, aborts, late, ended>>

(***************************************************************************)
(* The page around them                                                    *)
(***************************************************************************)

BeginTry ==
  /\ Running
  /\ Len(page) < MaxDepth
  /\ page' = Append(page, TryFrame)
  /\ UNCHANGED <<exc, conn, lost, aborts, late, ended>>

BeginSafe ==
  /\ Running
  /\ Len(page) < MaxDepth
  /\ page' = Append(page, SafeFrame)
  /\ UNCHANGED <<exc, conn, lost, aborts, late, ended>>

\* The text of a try or of a safe-expand is expanded.
TextDone ==
  /\ Running
  /\ page # <<>> /\ Top.kind \in {"try", "safe"}
  /\ page' = Below
  /\ UNCHANGED <<exc, conn, lost, aborts, late, ended>>

\* Outside of a try "throw" prints and nothing changes.
EvalThrow(id) ==
  /\ Running
  /\ InTry(page)
  /\ exc' = id
  /\ UNCHANGED <<page, conn, lost, aborts, late, ended>>

Catch ==
  /\ exc \in IDs
  /\ page # <<>> /\ Top.kind = "try"
  /\ page' = Met(Below)
  /\ exc' = "none"
  /\ UNCHANGED <<conn, lost, aborts, late, ended>>

\* ParseFunc of the context of safe-expand, which counts no try, prints the exception
\* of a macro that has arguments, and the text goes on.
SafeCaught ==
  /\ exc \in IDs
  /\ page # <<>> /\ Top.kind = "safe"
  /\ page' = Met(page)
  /\ exc' = "none"
  /\ UNCHANGED <<conn, lost, aborts, late, ended>>

\* One without arguments is not guarded.
SafePassed ==
  /\ exc \in IDs
  /\ page # <<>> /\ Top.kind = "safe"
  /\ page' = Below
  /\ UNCHANGED <<exc, conn, lost, aborts, late, ended>>

EvalAbort ==
  /\ Running
  /\ aborts < MaxAborts
  /\ exc' = "abort"
  /\ aborts' = aborts + 1
  /\ UNCHANGED <<page, conn, lost, late, ended>>

\* Neither a try nor ParseFunc stops an abort.
TextAborted ==
  /\ exc = "abort"
  /\ page # <<>> /\ Top.kind \in {"try", "safe"}
  /\ page' = Below
  /\ UNCHANGED <<exc, conn, lost, aborts, late, ended>>

\* ParseTry ends the page; the process goes on with the next one.
PageAborted ==
  /\ exc = "abort"
  /\ page = <<>>
  /\ exc' = "none"
  /\ UNCHANGED <<page, conn, lost, aborts, late, ended>>

Init ==
  /\ page = <<>>
  /\ exc = "none"
  /\ conn = [c \in Conn |-> Unused]
  /\ lost = [c \in Conn |-> 0]
  /\ aborts = 0
  /\ late = {}
  /\ ended = [ok |-> TRUE, failed |-> FALSE, refused |-> FALSE,
              committed |-> FALSE, undone |-> FALSE]

Next ==
  \/ \E d \in Dsn : EvalSql(d) \/ ConnectDies(d)
  \/ RowsDone \/ RowsFailed \/ RowsAborted
  \/ BeginTrans \/ Rollback \/ TransDone \/ TransFailed \/ TransAborted
  \/ BeginTry \/ BeginSafe \/ TextDone \/ TextAborted
  \/ Catch \/ SafeCaught \/ SafePassed
  \/ \E id \in IDs : EvalThrow(id)
  \/ EvalAbort \/ PageAborted

Spec == Init /\ [][Next]_vars

(***************************************************************************)
(* Properties                                                              *)
(***************************************************************************)

\* An exception is on its way only where something waits for it (the try that
\* EvalSqlTrans counts, sql.cpp:1136, included), so none leaves the page.
TypeOK ==
  /\ page \in Seq(Frames) /\ Len(page) <= MaxDepth
  /\ exc \in IDs \union {"none", "abort"}
  /\ exc \in IDs => InTry(page)
  /\ conn \in [Conn -> [state : {"unused", "open", "dead"}, refs : Nat, work : BOOLEAN]]
  /\ lost \in [Conn -> Nat]
  /\ aborts \in 0 .. MaxAborts
  /\ late \subseteq {"direct", "pooled"}
  /\ ended \in [ok : BOOLEAN, failed : BOOLEAN, refused : BOOLEAN,
                committed : BOOLEAN, undone : BOOLEAN]

Holds(f, c) ==
  \/ f.kind = "query" /\ f.conn = c
  \/ f.kind = "trans" /\ c \in Pooled(f)

Holders(c) == {i \in DOMAIN page : Holds(page[i], c)}

\* The count of a connection (sql.cpp:100) is that of the queries and pools that have
\* it, and of those an abort left behind (sql.cpp:1146, sql.cpp:1226): on every way out
\* it is closed with the last of them and not before.
RefsExact ==
  \A c \in Conn :
    /\ conn[c].refs = Cardinality(Holders(c)) + lost[c]
    /\ conn[c].state = "unused" <=> conn[c].refs = 0

\* Members are destroyed in an order that frees a statement after its connection
\* (sql.cpp:875); in a transaction the pool still has the connection then, also when
\* queries on one connection are nested.
PooledStmtFirst == "pooled" \notin late

\* A query that fails in a transaction undoes it, however deep in queries and
\* transactions it was (sql.cpp:1142), unless its error is caught on the way: by a try
\* in the transaction, or by a safe-expand in it that prints it (qctx.cpp:255), after
\* either of which the rest of the transaction is committed.
FailureRollsBack == ended.failed => ~ended.committed

\* Unless SQLEndTran is refused, a transaction commits the work on all of its
\* connections or on none, and only if neither the script nor an exception was against
\* it; and no work waits on a connection that no EndTrans will reach (sql.cpp:328), but
\* for aborts.
WorkDecided ==
  /\ ~ended.refused => ~(ended.committed /\ ended.undone)
  /\ ended.committed => ended.ok
  /\ \A c \in Conn :
       conn[c].work => lost[c] > 0 \/ \E i \in DOMAIN page :
                                       page[i].kind = "trans" /\ c \in Pooled(page[i])
=============================================================================
