# A specification of smx

smx is a macro processor written in C++: a page is text with macros in it, and a
program embedded in Apache, behind CGI or FastCGI, or at the command line expands
it. `libsmx` holds the interpreter and its library of macros, `modsmx`, `fcgi` and
`smx` the programs around it. These modules model the parts of it in which the
order of events decides about correctness: locks, shared queues, threads, nested
contexts, exceptions, tables that change under an enumeration, transactions, files
that processes share, caches.

## The system

| Part | Source | State it keeps | Operations | Interacts by |
|---|---|---|---|---|
| Locks | `crit.h`, `crit_unix.h` | owner, count, pthread mutex; open file, `m_spin`, flock | `Wait`, timed `Wait`, `Signal`, `CLock`, `CMutexLock` | shared memory between threads, a lock file between processes |
| Priority queue | `qpriq.h` | array of items, count, allocated length | `insert`, `remove(i)`, `grow` | used by the scheduler only |
| Scheduler | `qsched.h`, `qsched.cpp` | heap of events, map of names, `myGodot`, threads | `schedule-event`, `pause-event`, `resume-event`, `RunThread` | pages call it, its threads expand macros in its own context |
| Interpreter | `qctx.*`, `qctx-comp.*`, `core.cpp`, `qenv.*` | tree of contexts, each with map, try count, handler, safe mode, level | expansion of a body, `set`, `let`, `gset`, `gdefine`, `try`, `throw`, `abort`, `errorhandler`, `safe-mode`, `safe-expand` | C++ calls and exceptions |
| Modules, classes, object cache | `pscache.cpp`, `qobj-cache.h`, `qobj-ctx.*`, `qctx-based.h` | cached objects with references, base chains, parents of class contexts | `module`, `include`, `class`, expansion of a class | swaps the parent of a context while it expands it |
| Maps | `hash.c`, `map.h`, `mapstr.h` | buckets, marks | insert, delete, scan, grow, shrink | every context and pool |
| Strings, streams | `buf_ref.h`, `str.h`, `qstr*` | counted buffers | copy, change | everywhere |
| Persistent tables | `dbh.*`, `dbd_*`, `hset.*`, `tset.*`, `pstable.cpp` | an open driver, attempts made | get, set, delete, scan, counters | files shared by processes, `CMutex` |
| SQL | `sql.cpp`, `sqlgrp.*`, `smx_sqlite.*` | connections, statements, references | connect, query, fetch | pages |
| Mail, sockets, protocols | `qmail.*`, `sock.*`, `qstrsock.h`, `proto.cpp` | connection, state of the dialogue | connect, send, receive, time out | network |
| Apache module | `modsmx.cpp` | environments of process, server, request | initialise, handle, clean up | Apache's processes, `CMutex` |
| Other front ends | `smx.cpp`, `smx-fcgi.cpp`, `cgi.cpp`, `qscgi.*` | the request | read, expand, answer | calls `ParseTry` |
| Threads, pipes | `qthread*`, `qstr-pipe.h` | handle, buffer | run, wait, read, write | started by the scheduler |
| Libraries | `string.cpp`, `math.cpp`, `time.cpp`, `regx.cpp`, `tab*.cpp`, `sha.cpp`, `base64.cpp`, ... | none | functions of text | the interpreter |

`PROJECT.json` lists every part with its files and says what is modelled of it; its
`hazards` list says, line by line, what is hard to test.

What makes each part correct, in short:

- *Locks.* At most one thread inside; a release is never refused; the file lock is held
  exactly while somebody is inside; while somebody waits without a time limit the lock
  is not lost, so that some thread gets in.
- *Queue.* No item lost or doubled, no write past the array, the largest key first.
- *Scheduler.* Every event is owned by one holder and freed once; no name leads to a freed
  event; an event in the queue is eventually fired, replaced or deleted.
- *Interpreter.* A try is in force exactly while it should be; what is printed and what is
  thrown follows from it; variables change where the caller sees them and never in the
  context all pages share; safe mode reaches all that is nested.
- *Modules, classes.* Chains of parents and bases stay acyclic and live; a cached object
  is freed when its last user is gone.
- *Tables.* Processes that share a table do not lose each other's updates; a table that
  failed to open is tried again; recovery destroys nothing.
- *Front ends.* An environment is initialised once before it is used and is cleaned up
  once per request.

## The modules

`Mutex` (with `MCMutex`, `MutexProofs`), `PriQ` (`MCPriQ`, `PriQProofs`), `Sched`
(`MCSched`, `SchedProofs`), `Context` (`MCContext`, `ContextProofs`), `Hash` with its
abstract specification `KeyMap` (`MCHash`, `HashProofs`), `Sql` (`MCSql`, `SqlProofs`),
`Tables` (`MCTables`, `TablesProofs`), `Cache` (`MCCache`, `CacheProofs`).

In every module a definition under the comment "Variant" is what the code would be with
one mistake in it; no action uses it. It is there to show that the properties notice.

### Mutex

`CCrit` on unix is a recursive lock put together from a pthread mutex and two plain
fields, `Owner` and `LCnt`, which a thread reads without the mutex to see whether it
holds the lock already. `CMutex` is a `CCrit` and a flock on a file: the outermost
`Wait` of the process takes the flock, the last `Signal` drops it.

Each read and each write of the two fields is an action: `ReadCount` and `ReadOwner` are
the test at the head of `MthreadMutexLock` (`MthreadMutexTryLock` for a timed wait, which
differs in `TryFail`), `Acquire` the pthread lock, `SetOwner` and `SetCount` the two
stores, `Spin` and `Flock` the rest of `CMutex::Wait`, `Signal` the first half of the
release and `Leave` and `Unlock` the second (`MthreadMutexUnlock`). `FlockTimeout` undoes
a wait that timed out. `Crash` ends a process at any point and the kernel drops its flock
if no other process has the same open file. Of the failures of `flock(2)`, which the code
ignores (`crit_unix.h:308`), only that of a file never opened is modelled; one on an open
file (a signal, no memory for the lock) would let a thread in without the file lock.
`OfdOf` says which processes share an open file: those that forked after the `CMutex` was
built do, and exclude each other no more, so `CrossProcessExclusion` and `FlockNotLeaked`
speak of processes that opened the file themselves.

### PriQ

A binary heap in an array with the largest key at the top. `upheap`, `downheap` and
`grown` are the operators of the same names in the source, written as paths up and
down the tree rather than loops. `remove(i)` moves the last item into slot `i` and
sinks it, and never lifts it, so removal from the middle may leave it in the wrong
place. `RemoveBreaksOneEdge` says how wrong: only the edge above slot `i`. `SmallIsHeap`
says from which size on it can happen: a queue that never held more than five items
is always in order. Six are needed to break it, so 5 is exact.

### Sched

The events on the heap of the pool, the names that lead to them, and the threads.
Every critical section of `myCrit` is an action, and everything between two of them
is one too: a macro goes `Define`, `Delete`, `Insert`, `Kick`; a worker goes `Take`,
`SetGodot`, `Check`, `Fire`, `AfterFire` and then `Finish`, or `Delete`, `Insert`,
`Kick` again, or `PutBack` and the wait. `myGodot` is read and written without the
lock by all workers, as in the code, where every `Schedule` starts one more. `mem`
says of each event object whether it is unused, live or freed; a store into a freed
event is without effect in the model. `First` takes what `PriQ` shows into account:
with more than five events in the queue the event taken need not be the earliest.

### Context

A page is expanded by a stack of activations (`acts`), each the C++ call that expands
one body, innermost last; those of kind call, sub, safe-expand, catch and handler own
a context (`ctxs`), which lives as long as they do. A context copies its parent's try
count, handler and safe mode when it is built (`Child`), and `safe-expand` builds one
that has none of that (`Orphan`). The pointers that `SetParent` sets are never changed
by the macros modelled, so a context carries the set of contexts they lead to
(`chain`); a younger context has a greater number, and `Find` takes the greatest.

The script is any sequence of macros. `Call` is `qObjDef::Eval`, whose compiled body
is run without the try statement of `ParseFunc`; `Sub` and `Block` are the macros that
expand a body in a context of their own or in the caller's; `EvalTry`, `EvalThrow`,
`EvalAbort`, `EvalErrorHandler`, `EvalSafeMode`, `EvalSafeExpand`, `EvalSet`,
`EvalUnset`, `EvalGSet`, `EvalGUndefine`, `EvalLet` are the functions of those names.
An exception on its way is `exc`: "ex" in a body, "guarded" in the try statement
with which `ParseFunc` evaluates `name(...)` when the context counted no try, "abort"
for the page's end. `Unwind` takes it out of one activation, `Rethrow` is
`ParseFunc`'s handler, `Catch` is `EvalTry`'s, `Unhandled` is `ParseTry`'s. A macro
written `%name%` is evaluated without that statement, hence the parameter `guard`.

### Hash and KeyMap

The chained table of `hash.c` as `CMap` drives it. `hash` has the fields of `hash_t`; a
node is its key. `Insert` grows the table first when the high mark is reached (or fails
to: `realloc` may return nothing), `Delete` shrinks it at the low mark. `Grown` splits
each chain by the bit the larger mask exposes; the loop that does it pushes node after
node in front (`Pushed`), which turns their order around. `Shrunk` tacks the upper chains
onto the lower ones, `Linked` puts a new node at the head.

`scan` is one enumeration: the chain and the next node of `hscan_t`, and a history of what
it returned. Its next node may be deleted while it is about to be returned; `CMap::Del`
unlinks nodes and never frees them, so the scan still returns the node and then goes on to
the following chain, as the node's own next is null. `First`, `NextNode`, `Finish` are an
enumeration whose body inserts and deletes; `FreeBegin`, `FreeNode`, `FreeEnd` are
`hash_free_nodes`, which forgets whatever its scan did not return.

`KeyMap` is what a user of a `CMap` relies on: a set of keys and its size. `Hash`
implements it with `keys` the keys that lookup finds and `count` the node count
(`ImplementsMap`). Clearing is a series of deletions there.

### Sql

A page is a stack of queries (`QueryFrame`: a `qObjODBC`), transactions (`TransFrame`: the
`CDbPool` of an `EvalSqlTrans`, and the `ok` that `rollback` clears), tries (`TryFrame`)
and safe-expands (`SafeFrame`). `EvalSql` connects, by itself or through the pool of the
innermost transaction, executes, and either is done (`Plain`), fails (`Fails`) or expands
its row pattern (`Rows`), in which anything may be nested. `RowsDone`, `RowsFailed` and
`RowsAborted` are its three ways out, `TransDone`, `TransFailed` and `TransAborted` those
of a transaction, `TextDone`, `Catch` and `TextAborted` those of a try, `TextDone`,
`SafePassed` and `TextAborted` those of a safe-expand. `conn` is a `CDbHandle` each: its
count, whether it is connected and whether there is uncommitted work.

Two things about members matter. A query frees its connection before its statement
(`Drop`; `late` remembers it), and an exception's number decides who handles it: zero is
taken for no error by `EvalSql`, only a positive one leaves `EvalSqlTrans`. An abort
passes through both before they clean up; what stays behind is counted in `lost`.

A safe-expand has a context in which no try counts, but the macros it exposes are expanded
in the context around it (`qObjSafe`, `core.cpp:146`), so an exception of theirs is thrown
if there is a try or a transaction around the safe-expand (`InTry` does not look at
`SafeFrame`s). It then meets `ParseFunc` of the context without tries, which prints it and
goes on with the text (`SafeCaught`), unless the macro was written `%name%`, which has no
such guard (`SafePassed`). Both a try and a safe-expand so end an error's way to the
transactions below them (`Met`). A page's error handler is a `TryFrame` at the bottom; one
that is set or cleared in the middle of nested contexts is left to `Context`.

A connection that was refused stays in the pool (`dead`) until the transaction
ends, and each further query of it fails again. If there is not even a handle to connect
with, the code uses the null handle (`sql.cpp:296` in a transaction, `sql.cpp:277` outside),
and the process dies (`ConnectDies`): the page and its connections are gone. A data source
that is an SQLite file takes no part in a transaction and is not modelled.

### Tables

One key of one persistent table, and any number of processes that have it open, through
SQLite or TDB, whichever `CDBHash::Open` finds to fit the file. `call` is where in a call
a process is. `Open` counts its failures and gives up after `MaxTries`; `Fetch`, `Store`
and `Delete` are the calls of the drivers, in which an SQLite error closes the table
(`SqliteError`) and a corrupt TDB file is recovered (`FindCorrupt`, then `Lock`, `Rename`,
`Reopen` under `gEnvLock`). Any other error of TDB's, for the disk or for a lock
(`TdbError`), ends the call; after a recovery the loop of `Get` or `Set` makes the call
again instead (`Again`), without counting. `ofd` is the open lock file of `gEnvLock` in
each process, one for all processes forked after it was built (`dbd_tdb.cpp:42`) and
another for each of the rest: `Init` takes any set of processes for the forked ones.
`Lock` excludes other open files only, and the first `Unlock` of those that share one
drops the flock for all. A file is an object of its own, which processes keep open after
it was renamed. `Corrupt` is the environment. `Cleanup` is the end of a page, `SetPath` a
change of path and back.

A counter is a `Get` and a `Set` (`Answered` goes from one to the other); `sure` remembers
whether anything came in between. Some functions of the drivers have no return statement
(`CDBDriverTdb::Get` at its end, `Set` and `Del` of SQLite); what the build makes of it is
either to go on with any result or to crash (`Dies`).

### Cache

One module file and the threads whose pages load it with `module`. `Lookup` and `Open` are
the two halves of `OpenFileFQ`, whose lock is kept between them if there is an entry and
left if there is none. What is found and is of the file's time is used (`Take`); otherwise
the file is read (`Read`), and `MapObj` puts the module in the cache, with the time the
file has by then. `CopyClass` and `CopyPointer` are the two uses of a module, `Release`
the end of `EvalModule`, `EndPage` the end of the page.

A `qObjTimed` and the `qObjClass` it owns have one identity and a count each, `timed`
and `module`. Two kinds of references are not in the counts, as in the code: a page
that has just read a module uses it before it takes one, and `module(file,namespace)`
keeps a plain pointer to the module's context. An object that is free is used again
only when no page points to it, so that a stale pointer is not taken for a good one.
`leaked` counts the references of lookups whose file had vanished.

## The runs

| Run | Checks | Instance and bounds |
|---|---|---|
| `mutex` | `TypeOK`, `SameProcessExclusion`, `CrossProcessExclusion`, `NoRefusedUnlock`, `FlockNotLeaked`, `Progress` | two threads of one process, one of another, each process with its own file, `MaxNest` 2 |
| `priq` | `TypeOK`, `Conserved`, `SmallIsHeap`, `RemoveBreaksOneEdge` | keys 1..4, at most 7 items, array grown on the way |
| `sched` | `TypeOK`, `LiveIffHeld`, `OneHolder`, `NamesLive`, `EventuallyFired` | one name, two event objects, one script, two workers, clock 2..4, three schedules |
| `context_throw` | `TypeOK`, `TryBalanced`, `PrintedOutsideTry`, `SafeModeKept` | no variables, up to 6 activations, nesting limit 2 |
| `context_scope` | `GlobalUntouched`, `LetReplaces`, `GSetSeen` | one variable, two values, up to 3 activations |
| `hash` | `TypeOK`, `Verified`, `ScanSeesAll`, `ScanNoRepeat`, `ClearFreesAll`, `ImplementsMap` | nine keys with hashes 0..8, two chains at first, one change during an enumeration, one failed reallocation |
| `sql` | `TypeOK`, `RefsExact`, `PooledStmtFirst`, `FailureRollsBack`, `WorkDecided` | two data sources, two connections, queries, transactions, tries and safe-expands nested to 4, one abort |
| `tables` | `TypeOK`, `CounterExact`, `RecoveryKeepsGood`, `CallsEnd` | two processes, with one lock file open or one each, three files, one value, two corruptions, 2 attempts, 2 recoveries |
| `cache` | `TypeOK`, `RefsExact`, `FreshUnlessTorn` | two threads, four modules alive, two writes of the file, one lookup that leaks |
| `throw_doc`, `try_doc`, `abort_doc` | `ThrowHaltsTry`, `TryIsLocal`, `AbortStopsHere`, each violated | the same with fewer activations |

The bounds. In `mutex` three threads are what the races need: one holds, one reads stale
fields, one is in another process; nesting 2 tells an inner release from the last one. In
`priq` seven items are one more than the order can be broken with, and the array grows at
least once. In `sched` a name has an old and a new event at one time, and two workers are
what it takes to overwrite `myGodot`; objects are not reused, so the script acts a bounded
number of times. In `context_throw` six activations put a handler inside of a safe-expand
inside of a call inside of a try; the limit of 2 is exceeded on the way. In
`context_scope` contexts for global, session and two nested bodies are all the places a
name can be in. The scope run takes the values to be interchangeable, as no definition
tells one from another.

In `hash` nine keys are what it takes to double a table of two chains twice (with 4 and
with 8 nodes in it) and to halve it again, and one change is enough to resize it, or to
delete the scan's next node, at any point of an enumeration; the proofs hold for any
number of changes. In `sql` four frames are a try or a safe-expand in a transaction in a
query in a transaction; two data sources make a transaction end in two steps. Connections
and data sources are interchangeable. In `tables` the limits of 5 attempts and 4
recoveries are reduced to 2 and 2, the least for which a second attempt and a second
recovery happen; the proofs hold for any. Three files are the first one and a new one for
each corruption. In `cache` two threads and four objects let each thread have an object in
hand while the cache maps a third; two writes are one during the reading and one in the
same second afterwards.

Deadlock is checked in `priq`, `hash`, `sql` and `cache`. The others may stop: the
processes of `mutex` may all have crashed, the clock of `sched` and its script are
bounded, the processes of `tables` may all have died, and a page with an abort out of
`ParseTry` is over.

Fairness. `Mutex`: every thread that lives goes on running and leaves the scopes it opened
(the scope guards `CLock` and `CMutexLock` see to that), and flock and the pthread mutex
serve somebody; `Crash` has none. `Sched`: the clock advances, each worker goes on, and a
macro that was begun is finished; no script has to begin one. `WakeUp` is part of the
worker's fairness because every wait has a time limit (`qsched.cpp:199`,
`qsched.cpp:202`). `Tables`: a process that is in a call goes on when it can (weak
fairness of `Step`); calls need not begin, and files need not become corrupt. Nothing is
assumed of who gets gEnvLock: files become corrupt finitely often, so it is taken finitely
often, and whoever waits for it is served in the end. `Progress` of the run `mutex` says
less, that some thread gets in and not that everybody does. The others state no liveness.

### What the passing runs say of the code

Several properties hold with an exception that the code makes necessary. Each exception is
written into the property, or into a history variable it speaks of, and TLC finds a
violation when it is left out:

- `CallsEnd`: a `Get` that has recovered a TDB file goes on fetching until it finds its
  key, which the new file does not have (`dbd_tdb.cpp:112`); and `Set` as well as `Get`
  makes its call again and again as long as the new file gives an error that is not
  corruption (`dbd_tdb.cpp:151`). Every such round passes `Again`.
- `CounterExact`: a counter starts again at 1 when the read before it failed, and two
  processes that count at the same time lose an update (`hset.cpp:124`), although
  `docs/funcs/counter` calls counters global.
- `RecoveryKeepsGood`: the second of two processes that found a file corrupt renames the
  new file that the first one has made (`dbd_tdb.cpp:107`); `Open` does not take gEnvLock
  at all, and processes that were forked after gEnvLock was built are not excluded by it
  (`TypeOK` says that a process holds it throughout its recovery only of those that share
  their open lock file with nobody).
- `ScanSeesAll`, `ScanNoRepeat`: an enumeration misses keys if the table changes its size
  or its next node is deleted, and repeats keys if the table grows or shrinks twice. One
  shrinkage repeats none: what is tacked onto a chain that the scan has passed is behind
  it, and on a chain that is gone the scan goes to the end of the one it was tacked onto
  and finishes. The next shrinkage tacks nodes it has returned behind the one it is on:
  with sixteen chains and the keys 0, 1, 2, 4, 5, 6, 9 and 13 (their hashes), an
  enumeration that is about to return 9 returns 5 twice if the table is halved twice by
  deletions in its body.
- `FailureRollsBack`, `WorkDecided`: a try inside a transaction that handles an error lets
  the transaction commit, and so does a safe-expand inside it, which prints the error of a
  macro it exposes although the transaction counts as a try (`qctx.cpp:255`); an exception
  with an ID of zero or less rolls back without a word; the results of `SQLEndTran` are
  not looked at; an abort leaves connections and work behind.
- `RefsExact` of `cache`: the page that has just loaded a module can be left with a freed
  one if another page maps the file before it takes its reference (`pscache.cpp:328`).
- `FreshUnlessTorn`: a file written while it was read, or twice in a second, is served in
  its old form until it is written again (`pscache.cpp:55`).

### What the violations show

- `throw_doc`: `docs/funcs/throw` says that an exception in a try halts the block. The
  context of `safe-expand` does not know of the try around it, so a macro that fails in it
  prints and the block goes on.
- `try_doc`: `docs/funcs/try` says that the block has local variables. `EvalTry` expands
  it in the caller's context; only the handler has a context of its own.
- `abort_doc`: `docs/funcs/abort` says that abort stops the page. In the error handler it
  leaves `ParseTry` as a C++ exception that `smx.cpp` and `smx-fcgi.cpp` do not catch.

## The proofs

Each of `MutexProofs`, `PriQProofs`, `SchedProofs`, `ContextProofs`, `HashProofs`,
`SqlProofs`, `TablesProofs` and `CacheProofs` proves every safety property that the runs
of its component check, for all values of the constants that satisfy the component's named
assumption (`MutexAssumption`, `HashAssumption`, ...). `HashProofs` also proves that `Hash`
implements `KeyMap`.

*Mutex.* `SameProcessExclusion` is not inductive: that a thread reads `Owner` and
`LCnt` without the lock and is right has a reason that involves all threads. The
invariant `IInv` adds what the reason needs: the holder of the pthread mutex is at
one of the places behind `Acquire` (`HolderInv`), a thread that is not the holder has
no open scopes (`NestInv`, `StrangerInv`), `Owner` names the holder whenever the
count is positive and nobody is between the two stores (`OwnerInv`), the counts
agree with the scopes (`CountInv`, `SpinInv`), and the flock belongs to a process
whose holder has passed the flock (`FlockInv`).

*PriQ.* The loops of `upheap` and `downheap` are recursive functions from slots, and a
proof has first to show that there are such functions: each is given in closed form (the
slot where the item comes to rest, `RiseTo`, `SinkTo`), and its equations are checked
against it. What the loops compute follows by strong induction (`StrongInd`), which is
derived from the well-foundedness of `<` on sets of numbers. Two facts about the array they
leave carry the rest. It is the old one with its slots permuted, so the bag of items is
kept (`ItemsConserved`). And the edges out of order are none but those the item on the
move was at, so insertion and removal at the root mend what they disturb
(`OnlyMiddleBreaks`), and a removal from the middle leaves one edge broken at most
(`RemoveBreaksOne`). With five items or fewer that edge cannot be broken, as its upper end
is the root or else the parent of the last slot too, whose item is moved
(`SmallStaysHeap`); the scheduler then gets the earliest event (`SmallRemovesLargest`).

*Sched.* `LiveIffHeld`, `OneHolder` and `NamesLive` hold together and not one by one:
that a name stands for a live event needs that whoever frees an event takes its name
out, which needs that the event it has in hand is no other's. `NameInv` adds that the
event a name stands for bears this name.

*Context.* One step may leave an activation and begin another (`Catch`, `Unhandled`),
so the invariant `Good(cs, st)` is said of any contexts and any stack, and lemmas say
that it is kept when an activation is put on top (`PushChild`, `PushOrphan`,
`PushSame`, `PushTry`) or taken off (`Leave`). The invariant `IInv` needs, besides
`TryBalanced`: that contexts are made and destroyed in the order of the activations
(`Stacked`, `Owned`), or else the one dropped by `Leaving` could be another's; and that
what the activations give to their macros is one line of descent (`Linked`), which is
why a `try` or `errorhandler` changes the count of the innermost context only
(`Innermost`): no context that copied the old count is alive. `PrintedOutsideTry` then
follows, as a context with a count of zero has no try above it (`Silent`), with one
more part: that a try statement of `ParseFunc` always has an activation below it to
throw again in (`Guarded`). `LetReplaces` follows from `IInv`: no context but the caller's
own has the caller's among its ancestors (`Innermost`), so a new variable there hides
nothing from others. `GSetSeen` needs in addition that the ancestors of an ancestor are
ancestors, and that the session's context is above every body (`Nested`): the contexts
that `DelObjTop` goes through on its way up from the caller are then all that any body in
progress has below the session's.

*Tables.* `CounterExact` holds because whatever writes a file, recovers it or reads
without an answer clears `sure` (`SureInv`). `RecoveryKeepsGood` needs that a process in
recovery is one that found a corrupt file and has it open until it renames it
(`FoundInv`), and that what it has open is the file under the path as long as it is the
only one that found any (`PathInv`). The part of `TypeOK` about gEnvLock (`LockOK`) is
inductive by itself: a step that neither enters nor leaves the places under the lock keeps
it (`QuietLock`), and entering and leaving are `EnteredLock` and `LeftLock`, where whoever
shares the open file may be inside too.

*Hash.* `IInv` says of the table that every node is on the chain of its hash and there
once (`Shape`): this is what `Verified` needs, and with it that a table has
`InitSize * 2^n` chains (`Sizes`), as a table of another size could shrink below the first.
Growing and shrinking are facts about remainders (`ModSplit`, `ModHalf`): the new chain of
a hash is the old one, or one further by as many chains as there were. Of an enumeration
`IInv` says what is on either side of it. `Ahead`, from which `ScanSeesAll` follows: what
stayed in the table and was not returned is on a later chain, or not before the next node
on its own. `Behind`, from which `ScanNoRepeat` follows: what was returned is on no later
chain, and not after the next node on its own. An insertion puts its node in front of a
chain and so never ahead on the one the scan is on; a deletion moves nothing; a first
shrinkage keeps `Behind` (`BehindShrunk`), but for a scan that stood on an upper chain it
keeps no more than the order on the chain it is now part of, and so a second one breaks
it. No number of changes is in the argument: it covers what `hash` is too small for, such
as keys deleted and added again several times in one enumeration. `Emptied` is the same
for `hash_free_nodes`. For `ImplementsASet` the set of keys is `Stored(hash)`; `FreeEnd` is
a stutter because of `ClearEmpties`.

Two weaknesses of the model came to light in these proofs. `ScanNoRepeat` was stated
without the second shrinkage, which the bounds of `hash` cannot reach; and
`HashAssumption` allowed an odd first size, for which the low mark does not follow the
number of chains (`INIT_SIZE` is a power of two). Three others came to light in reading the
code again beside the models: an earlier `Sql` had no safe-expand, and its
`FailureRollsBack` took a try for the only way in which an error can be stopped; an earlier
`Tables` had none of TDB's errors but corruption, and `CallsEnd` took the loop of `Get` for
the only one without an end; and it took gEnvLock to exclude all processes.

*Sql.* The invariant is in two halves. `Core` is about the stack and the counts. That a
connection's count is exact (`Exact`) is not inductive by itself: when a query on a pooled
connection ends, its pool has to be below it still, and a query outside of pools must be
the only holder (`StackInv`); both speak of positions on a stack of any depth. The number
of holders is a cardinality, and a step that pushes or pops a frame, or enters a
connection in a pool, changes it by one (`ExactBut` is the count in the middle of such a
step). A failure marks the transaction it happened in; as long as there is a mark
(`Failing`) the error is still on its way, so the transaction meets it before it can end
normally. A try or a safe-expand that the error meets first takes the mark off (`Met`), of
all transactions below it, and changes nothing else of them (`MetPage`). `Side` has the
history variables.

*Cache.* `RefsExact` counts pages in sets (`Opens`, `Finds`, `Takes`, `Classes`). A step
changes one page, so each of these numbers changes by one at most (`OneApart`,
`PageCounts`), by what the page counted for before and after (`Counted`). `PagesOK` says
where a page has an object. `FreshUnlessTorn` needs that what a thread has read
undisturbed is in the file still, and that no object is newer than the file (`FreshInv`).

TLC only: the liveness properties `Progress`, `EventuallyFired` and `CallsEnd`, since no
installed prover handles fairness, and the three violations.

## Not modelled, and the plan

Left out for good: text (parsing, formatting, the libraries of functions), digests,
generated build files, calls into extensions. Of the implementation's lines, three
quarters and more are the vendored SQLite and the Perl portability header (`src/sqlite`,
`src/extperl/ppport.h`), which this project takes as they are.

Left out of the modelled parts: the row cursor and its buffers and SQLite as a data source
in `Sql`, enumeration of tables and `tset` in `Tables`, the parents that the expansion of
a class swaps (`qobj-ctx.cpp:28`), base chains and extension libraries in `Cache`, what
nodes point to in `Hash`. On unix the counts of shared objects are not changed atomically
(`qobj.h:103`); `Cache` takes each change as one step, as on Windows.

Planned, in this order:

1. Classes: the parent pointers that class expansion swaps and the base chains
   (`qobj-ctx.h`), with an abstract tree of contexts as their specification.
2. The Apache module: life of the environments, initialisation under `gCrit`.
3. Mail: the SMTP dialogue; `CEvent` and the start of a thread.

Composition: `Sched` uses of `PriQ` what is checked there, and the abstract reading of
`CCrit` that `MutexProofs` proves (one thread inside at a time), rather than their states.
`Tables` uses `CMutex` in the same way, with what `Mutex` says of a lock file that was
opened before a fork: processes with the same open file are not excluded. And `Context`
uses `CMap` as `KeyMap` has it.
