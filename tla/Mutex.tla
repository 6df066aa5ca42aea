------------------------------- MODULE Mutex -------------------------------
(***************************************************************************)
(* CMutex, the machine-wide lock of libsmx on unix (crit_unix.h, crit.h).  *)
(* Two locks are nested: CCrit, a recursive lock made of a pthread mutex   *)
(* and two fields, Owner and LCnt, that a thread reads WITHOUT the mutex   *)
(* to find out whether it already holds it; and flock(2) on a file, taken  *)
(* by the outermost Wait of a process and dropped by its last Signal.      *)
(*                                                                         *)
(* Every read and write of Owner and LCnt is a step of its own.  Only the  *)
(* holder of the pthread mutex touches m_spin.  flock locks belong to an   *)
(* open file description: OfdOf[p] names the one behind p's m_mutex.  Two  *)
(* processes have the same one when one was forked from the other after    *)
(* the CMutex was built, and None stands for an open() that failed.        *)
(***************************************************************************)
EXTENDS Naturals

CONSTANTS
  Procs,    \* processes that map the lock
  Threads,  \* threads of those processes
  ProcOf,   \* the process of each thread
  Files,    \* open file descriptions
  OfdOf,    \* the description behind m_mutex in each process, or None
  None,
  MaxNest   \* bound: how deep a thread nests CMutexLock scopes

ASSUME MutexAssumption ==
  /\ ProcOf \in [Threads -> Procs]
  /\ OfdOf \in [Procs -> Files \cup {None}]
  /\ None \notin Threads \cup Files
  /\ MaxNest \in Nat \ {0}

VARIABLES
  mutex,   \* mutex[p]: the thread that holds the pthread mutex, or None
  Owner,   \* Owner[p]: last thread that recorded itself as owner
  LCnt,    \* LCnt[p]: times the owner has entered the CCrit
  m_spin,  \* m_spin[p]: CMutex scopes open in p
  flk,     \* the description that holds the flock, or None
  nest,    \* nest[t]: Waits of t that returned rWaitOK, not yet signalled
  timed,   \* timed[t]: t's current Wait has a timeout
  pc,      \* pc[t]: where t is inside Wait or Signal; "run" outside
  dead     \* processes that crashed

vars == <<mutex, Owner, LCnt, m_spin, flk, nest, timed, pc, dead>>

Labels == {"run", "count", "owner", "lock", "setowner", "setcount", "spin",
           "flock", "leave", "unlock"}

At(t, l) == pc[t] = l /\ ProcOf[t] \notin dead
Goto(t, l) == pc' = [pc EXCEPT ![t] = l]

\* Owner is not initialised by MthreadMutexCreate: any value will do.
Init ==
  /\ mutex  = [p \in Procs |-> None]
  /\ Owner \in [Procs -> Threads \cup {None}]
  /\ LCnt   = [p \in Procs |-> 0]
  /\ m_spin = [p \in Procs |-> 0]
  /\ flk    = None
  /\ nest   = [t \in Threads |-> 0]
  /\ timed  = [t \in Threads |-> FALSE]
  /\ pc     = [t \in Threads |-> "run"]
  /\ dead   = {}

-----------------------------------------------------------------------------
(* CCrit: MthreadMutexLock and MthreadMutexTryLock                         *)

\* A thread calls CMutex::Wait, with a timeout or without.
Wait(t) ==
  /\ At(t, "run")
  /\ nest[t] < MaxNest
  /\ \E b \in BOOLEAN : timed' = [timed EXCEPT ![t] = b]
  /\ Goto(t, "count")
  /\ UNCHANGED <<mutex, Owner, LCnt, m_spin, flk, nest, dead>>

\* The left operand of "LCnt && pthread_equal(Owner, MySelf)", without the mutex.
ReadCount(t) ==
  /\ At(t, "count")
  /\ Goto(t, IF LCnt[ProcOf[t]] # 0 THEN "owner" ELSE "lock")
  /\ UNCHANGED <<mutex, Owner, LCnt, m_spin, flk, nest, timed, dead>>

\* Slip: the recursive entry forgets to count.
ReadOwnerUncounted(t) ==
  /\ At(t, "owner")
  /\ Goto(t, IF Owner[ProcOf[t]] = t THEN "spin" ELSE "lock")
  /\ UNCHANGED <<mutex, Owner, LCnt, m_spin, flk, nest, timed, dead>>

\* The right operand, still without the mutex: the owner only counts.
ReadOwner(t) ==
  LET p == ProcOf[t] IN
  /\ At(t, "owner")
  /\ \/ /\ Owner[p] = t
        /\ LCnt' = [LCnt EXCEPT ![p] = @ + 1]
        /\ Goto(t, "spin")
     \/ /\ Owner[p] # t
        /\ Goto(t, "lock")
        /\ UNCHANGED LCnt
  /\ UNCHANGED <<mutex, Owner, m_spin, flk, nest, timed, dead>>

\* Slip: LCnt is stored before Owner, which still names the previous holder.
AcquireCountFirst(t) ==
  LET p == ProcOf[t] IN
  /\ At(t, "lock")
  /\ mutex[p] = None
  /\ mutex' = [mutex EXCEPT ![p] = t]
  /\ LCnt' = [LCnt EXCEPT ![p] = 1]
  /\ Goto(t, "setowner")
  /\ UNCHANGED <<Owner, m_spin, flk, nest, timed, dead>>

\* pthread_mutex_lock returns, or pthread_mutex_trylock succeeds.
Acquire(t) ==
  LET p == ProcOf[t] IN
  /\ At(t, "lock")
  /\ mutex[p] = None
  /\ mutex' = [mutex EXCEPT ![p] = t]
  /\ Goto(t, "setowner")
  /\ UNCHANGED <<Owner, LCnt, m_spin, flk, nest, timed, dead>>

\* pthread_mutex_trylock fails: give up at the deadline, else sleep and try again.
TryFail(t) ==
  /\ At(t, "lock")
  /\ timed[t]
  /\ mutex[ProcOf[t]] # None
  /\ \E l \in {"run", "count"} : Goto(t, l)
  /\ UNCHANGED <<mutex, Owner, LCnt, m_spin, flk, nest, timed, dead>>

\* Owner is stored before LCnt.
SetOwner(t) ==
  /\ At(t, "setowner")
  /\ Owner' = [Owner EXCEPT ![ProcOf[t]] = t]
  /\ Goto(t, "setcount")
  /\ UNCHANGED <<mutex, LCnt, m_spin, flk, nest, timed, dead>>

SetCount(t) ==
  /\ At(t, "setcount")
  /\ LCnt' = [LCnt EXCEPT ![ProcOf[t]] = 1]
  /\ Goto(t, "spin")
  /\ UNCHANGED <<mutex, Owner, m_spin, flk, nest, timed, dead>>

-----------------------------------------------------------------------------
(* CMutex::Wait once the CCrit is entered                                  *)

\* Slip: inner scopes are not counted.
SpinOnce(t) ==
  LET p == ProcOf[t] IN
  /\ At(t, "spin")
  /\ \/ /\ m_spin[p] = 0
        /\ m_spin' = [m_spin EXCEPT ![p] = 1]
        /\ Goto(t, "flock")
        /\ UNCHANGED nest
     \/ /\ m_spin[p] # 0
        /\ Goto(t, "run")
        /\ nest' = [nest EXCEPT ![t] = @ + 1]
        /\ UNCHANGED m_spin
  /\ UNCHANGED <<mutex, Owner, LCnt, flk, timed, dead>>

\* The first scope of the process goes on to the flock, the others return.
Spin(t) ==
  LET p == ProcOf[t] IN
  /\ At(t, "spin")
  /\ m_spin' = [m_spin EXCEPT ![p] = @ + 1]
  /\ \/ /\ m_spin[p] = 0
        /\ Goto(t, "flock")
        /\ UNCHANGED nest
     \/ /\ m_spin[p] # 0
        /\ Goto(t, "run")
        /\ nest' = [nest EXCEPT ![t] = @ + 1]
  /\ UNCHANGED <<mutex, Owner, LCnt, flk, timed, dead>>

\* flock(LOCK_EX) is granted to a description that holds it already.
FlockFree(p) == flk \in {None, OfdOf[p]}

\* On a descriptor that was never opened flock fails at once and Wait goes on.  Of the
\* failures that Wait ignores it is the only one modelled.
Flock(t) ==
  LET p == ProcOf[t] IN
  /\ At(t, "flock")
  /\ \/ /\ OfdOf[p] = None
        /\ UNCHANGED flk
     \/ /\ OfdOf[p] # None
        /\ FlockFree(p)
        /\ flk' = OfdOf[p]
  /\ nest' = [nest EXCEPT ![t] = @ + 1]
  /\ Goto(t, "run")
  /\ UNCHANGED <<mutex, Owner, LCnt, m_spin, timed, dead>>

\* EWOULDBLOCK past the deadline: undo the count and leave the CCrit.
FlockTimeout(t) ==
  LET p == ProcOf[t] IN
  /\ At(t, "flock")
  /\ timed[t]
  /\ OfdOf[p] # None
  /\ ~FlockFree(p)
  /\ m_spin' = [m_spin EXCEPT ![p] = @ - 1]
  /\ Goto(t, "leave")
  /\ UNCHANGED <<mutex, Owner, LCnt, flk, nest, timed, dead>>

-----------------------------------------------------------------------------
(* CMutex::Signal and MthreadMutexUnlock                                   *)

\* Slip: every Signal drops the flock, or none does (an off-by-one in the test).
SignalDropping(t, last) ==
  LET p == ProcOf[t] IN
  /\ At(t, "run")
  /\ nest[t] > 0
  /\ m_spin' = [m_spin EXCEPT ![p] = @ - 1]
  /\ flk' = IF m_spin[p] \in last /\ flk = OfdOf[p] THEN None ELSE flk
  /\ nest' = [nest EXCEPT ![t] = @ - 1]
  /\ Goto(t, "leave")
  /\ UNCHANGED <<mutex, Owner, LCnt, timed, dead>>
SignalEvery(t) == SignalDropping(t, Nat)
SignalNever(t) == SignalDropping(t, {0})

Signal(t) ==
  LET p == ProcOf[t] IN
  /\ At(t, "run")
  /\ nest[t] > 0
  /\ m_spin' = [m_spin EXCEPT ![p] = @ - 1]
  /\ flk' = IF m_spin[p] = 1 /\ flk = OfdOf[p] THEN None ELSE flk
  /\ nest' = [nest EXCEPT ![t] = @ - 1]
  /\ Goto(t, "leave")
  /\ UNCHANGED <<mutex, Owner, LCnt, timed, dead>>

\* MTHREAD_ER_MUTEX_UNLOCKED and MTHREAD_ER_MUTEX_NOTOWNER leave the lock as it is.
UnlockRefused(t) == LCnt[ProcOf[t]] = 0 \/ Owner[ProcOf[t]] # t

\* Slip: LCnt is tested before the decrement, and the mutex stays locked.
LeaveTestFirst(t) ==
  LET p == ProcOf[t] IN
  /\ At(t, "leave")
  /\ LCnt' = [LCnt EXCEPT ![p] = IF UnlockRefused(t) THEN @ ELSE @ - 1]
  /\ Goto(t, "run")
  /\ UNCHANGED <<mutex, Owner, m_spin, flk, nest, timed, dead>>

Leave(t) ==
  LET p == ProcOf[t] IN
  /\ At(t, "leave")
  /\ \/ /\ UnlockRefused(t)
        /\ Goto(t, "run")
        /\ UNCHANGED LCnt
     \/ /\ ~UnlockRefused(t)
        /\ LCnt' = [LCnt EXCEPT ![p] = @ - 1]
        /\ Goto(t, IF LCnt[p] = 1 THEN "unlock" ELSE "run")
  /\ UNCHANGED <<mutex, Owner, m_spin, flk, nest, timed, dead>>

Unlock(t) ==
  /\ At(t, "unlock")
  /\ mutex' = [mutex EXCEPT ![ProcOf[t]] = None]
  /\ Goto(t, "run")
  /\ UNCHANGED <<Owner, LCnt, m_spin, flk, nest, timed, dead>>

\* A process ends: the kernel drops the flock with the last descriptor on it.
Crash(p) ==
  /\ p \notin dead
  /\ dead' = dead \cup {p}
  /\ flk' = IF flk = OfdOf[p] /\ \A q \in Procs \ dead' : OfdOf[q] # flk
            THEN None ELSE flk
  /\ UNCHANGED <<mutex, Owner, LCnt, m_spin, nest, timed, pc>>

-----------------------------------------------------------------------------
\* What a thread does without waiting for its caller: everything but Wait.
Step(t) ==
  \/ ReadCount(t) \/ ReadOwner(t) \/ Acquire(t) \/ TryFail(t)
  \/ SetOwner(t) \/ SetCount(t) \/ Spin(t) \/ Flock(t) \/ FlockTimeout(t)
  \/ Signal(t) \/ Leave(t) \/ Unlock(t)

Next ==
  \/ \E t \in Threads : Wait(t) \/ Step(t)
  \/ \E p \in Procs : Crash(p)

Spec == Init /\ [][Next]_vars

\* A running thread keeps executing, and leaves the scopes it opened.
FairSpec == Spec /\ \A t \in Threads : WF_vars(Step(t))

-----------------------------------------------------------------------------
(* Properties                                                              *)

\* Every variable has its type; the two counters never go below zero.
TypeOK ==
  /\ mutex  \in [Procs -> Threads \cup {None}]
  /\ Owner  \in [Procs -> Threads \cup {None}]
  /\ LCnt   \in [Procs -> Nat]
  /\ m_spin \in [Procs -> Nat]
  /\ flk    \in Files \cup {None}
  /\ nest   \in [Threads -> Nat]
  /\ timed  \in [Threads -> BOOLEAN]
  /\ pc     \in [Threads -> Labels]
  /\ dead   \subseteq Procs

\* t is between a Wait that returned rWaitOK and its Signal.
InCS(t) == nest[t] > 0 /\ ProcOf[t] \notin dead

\* No other process has p's open file description, and p has one.
Unshared(p) ==
  /\ OfdOf[p] # None
  /\ \A q \in Procs \ {p} : OfdOf[q] # OfdOf[p]

\* The unsynchronised look at LCnt and Owner never lets a second thread of a
\* process into a scope that another of its threads has open (crit_unix.h:134).
SameProcessExclusion ==
  \A t, u \in Threads :
    t # u /\ InCS(t) /\ InCS(u) => ProcOf[t] # ProcOf[u]

\* Threads of two processes are never both inside, provided each process opened
\* the lock file itself: across fork() flock excludes nothing.
CrossProcessExclusion ==
  \A t, u \in Threads :
    t # u /\ InCS(t) /\ InCS(u)
      => ~(Unshared(ProcOf[t]) /\ Unshared(ProcOf[u]))

\* No thread ever meets the error returns of MthreadMutexUnlock, whose result
\* every caller ignores: a refused unlock would keep the lock for good.
NoRefusedUnlock == \A t \in Threads : At(t, "leave") => ~UnlockRefused(t)

\* The flock of an unshared description is held only on behalf of a live thread
\* inside: not after a timeout, an inner Signal, or the end of the process.
FlockNotLeaked ==
  \A p \in Procs :
    Unshared(p) /\ flk = OfdOf[p]
      => \E t \in Threads : ProcOf[t] = p /\ InCS(t)

\* t is on its way into the lock and will not give up.
Waiting(t) ==
  /\ nest[t] = 0
  /\ ~timed[t]
  /\ pc[t] \in {"count", "owner", "lock", "setowner", "setcount", "spin", "flock"}
  /\ ProcOf[t] \notin dead

\* As long as some live thread waits without a timeout the lock is not lost: some
\* thread gets in, that one or another, or the waiting process ends, whoever times out
\* or crashes.
Progress ==
  \A t \in Threads :
    Waiting(t) ~> (ProcOf[t] \in dead \/ \E u \in Threads : InCS(u))
=============================================================================
