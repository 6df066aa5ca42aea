---------------------------- MODULE MutexProofs ----------------------------
(***************************************************************************)
(* The safety properties of Mutex, for any number of processes, threads    *)
(* and open file descriptions and any nesting of scopes.                   *)
(*                                                                         *)
(* Owner, LCnt, m_spin and the flock are shared; mutex is the one variable *)
(* that decides who may touch them.  The inductive invariant says what the *)
(* others must be, as a function of mutex and of where the holder stands:  *)
(* between two statements of the holder they are out of step with each     *)
(* other, and that is what the properties themselves do not say.           *)
(***************************************************************************)
EXTENDS Mutex, TLAPS

\* Where a thread stands while it holds the pthread mutex with no scope open.
Entering == {"setowner", "setcount", "spin", "flock", "leave", "unlock"}

\* The holder belongs to the process, and has a scope open or is on its way.
HolderInv ==
  /\ \A p \in Procs : mutex[p] # None => ProcOf[mutex[p]] = p
  /\ \A t \in Threads :
       mutex[ProcOf[t]] = t <=> (pc[t] \in Entering \/ nest[t] > 0)

\* Inside a scope a thread never gets as far as pthread_mutex_lock again.
NestInv ==
  \A t \in Threads :
    nest[t] > 0 => pc[t] \in {"run", "count", "owner", "spin", "leave"}

\* Owner names the holder, once it was stored.
OwnerInv ==
  \A t \in Threads :
    mutex[ProcOf[t]] = t /\ pc[t] # "setowner" => Owner[ProcOf[t]] = t

\* A thread without a scope that looks at Owner finds another one.
StrangerInv ==
  \A t \in Threads :
    pc[t] = "owner" /\ nest[t] = 0 => Owner[ProcOf[t]] # t

\* LCnt is zero when the mutex is free and what the holder accounts for otherwise.
CountInv ==
  /\ \A p \in Procs : mutex[p] = None => LCnt[p] = 0
  /\ \A t \in Threads :
       mutex[ProcOf[t]] = t =>
         LCnt[ProcOf[t]] =
           IF pc[t] \in {"setowner", "setcount", "unlock"} THEN 0
           ELSE IF pc[t] \in {"spin", "flock", "leave"} THEN nest[t] + 1
           ELSE nest[t]

\* So is m_spin.
SpinInv ==
  /\ \A p \in Procs : mutex[p] = None => m_spin[p] = 0
  /\ \A t \in Threads :
       mutex[ProcOf[t]] = t =>
         m_spin[ProcOf[t]] = IF pc[t] = "flock" THEN nest[t] + 1 ELSE nest[t]

\* An unshared description holds the flock exactly while a live thread is inside.
FlockInv ==
  \A p \in Procs :
    Unshared(p) =>
      /\ \A t \in Threads : ProcOf[t] = p /\ InCS(t) => flk = OfdOf[p]
      /\ flk = OfdOf[p] =>
           p \notin dead /\ mutex[p] # None /\ nest[mutex[p]] > 0

IInv ==
  /\ TypeOK /\ HolderInv /\ NestInv /\ OwnerInv
  /\ StrangerInv /\ CountInv /\ SpinInv /\ FlockInv

-----------------------------------------------------------------------------
\* In every initial state nobody holds anything.
LEMMA InitInv == Init => IInv
  BY MutexAssumption
  DEF Init, IInv, TypeOK, HolderInv, NestInv, OwnerInv, StrangerInv, CountInv,
      SpinInv, FlockInv, InCS, Entering, Labels, Unshared

\* Entering the CCrit keeps the invariant.
LEMMA EnterStep ==
  ASSUME IInv, NEW t \in Threads,
            Wait(t) \/ ReadCount(t) \/ ReadOwner(t) \/ Acquire(t)
         \/ TryFail(t) \/ SetOwner(t) \/ SetCount(t)
  PROVE  IInv'
<1>. USE MutexAssumption DEF IInv, TypeOK, HolderInv, NestInv, Entering, Labels, At, Goto
<1>1. CASE Wait(t)
  <2>1. TypeOK' /\ HolderInv' /\ NestInv'
    BY <1>1 DEF OwnerInv, StrangerInv, CountInv, SpinInv, Wait
  <2>2. OwnerInv' /\ StrangerInv'
    BY <1>1 DEF OwnerInv, StrangerInv, CountInv, Wait
  <2>3. CountInv' /\ SpinInv'
    BY <1>1 DEF OwnerInv, StrangerInv, CountInv, SpinInv, Wait
  <2>4. FlockInv'
    BY <1>1 DEF CountInv, SpinInv, FlockInv, Unshared, InCS, Wait
  <2>. QED
    BY <2>1, <2>2, <2>3, <2>4
<1>2. CASE ReadCount(t)
  <2>1. TypeOK' /\ HolderInv' /\ NestInv'
    BY <1>2 DEF OwnerInv, StrangerInv, CountInv, SpinInv, ReadCount
  <2>2. OwnerInv' /\ StrangerInv'
    BY <1>2 DEF OwnerInv, StrangerInv, CountInv, ReadCount
  <2>3. CountInv' /\ SpinInv'
    BY <1>2 DEF OwnerInv, StrangerInv, CountInv, SpinInv, ReadCount
  <2>4. FlockInv'
    BY <1>2 DEF CountInv, SpinInv, FlockInv, Unshared, InCS, ReadCount
  <2>. QED
    BY <2>1, <2>2, <2>3, <2>4
<1>3. CASE ReadOwner(t)
  <2>1. TypeOK' /\ HolderInv' /\ NestInv'
    BY <1>3 DEF OwnerInv, StrangerInv, CountInv, SpinInv, ReadOwner
  <2>2. OwnerInv' /\ StrangerInv'
    BY <1>3 DEF OwnerInv, StrangerInv, CountInv, ReadOwner
  <2>3. CountInv' /\ SpinInv'
    BY <1>3 DEF OwnerInv, StrangerInv, CountInv, SpinInv, ReadOwner
  <2>4. FlockInv'
    BY <1>3 DEF CountInv, SpinInv, FlockInv, Unshared, InCS, ReadOwner
  <2>. QED
    BY <2>1, <2>2, <2>3, <2>4
<1>4. CASE Acquire(t)
  <2>1. TypeOK' /\ HolderInv' /\ NestInv'
    BY <1>4 DEF OwnerInv, StrangerInv, CountInv, SpinInv, Acquire
  <2>2. OwnerInv' /\ StrangerInv'
    BY <1>4 DEF OwnerInv, StrangerInv, CountInv, Acquire
  <2>3. CountInv' /\ SpinInv'
    BY <1>4 DEF OwnerInv, StrangerInv, CountInv, SpinInv, Acquire
  <2>4. FlockInv'
    BY <1>4 DEF CountInv, SpinInv, FlockInv, Unshared, InCS, Acquire
  <2>. QED
    BY <2>1, <2>2, <2>3, <2>4
<1>5. CASE TryFail(t)
  <2>1. TypeOK' /\ HolderInv' /\ NestInv'
    BY <1>5 DEF OwnerInv, StrangerInv, CountInv, SpinInv, TryFail
  <2>2. OwnerInv' /\ StrangerInv'
    BY <1>5 DEF OwnerInv, StrangerInv, CountInv, TryFail
  <2>3. CountInv' /\ SpinInv'
    BY <1>5 DEF OwnerInv, StrangerInv, CountInv, SpinInv, TryFail
  <2>4. FlockInv'
    BY <1>5 DEF CountInv, SpinInv, FlockInv, Unshared, InCS, TryFail
  <2>. QED
    BY <2>1, <2>2, <2>3, <2>4
<1>6. CASE SetOwner(t)
  <2>1. TypeOK' /\ HolderInv' /\ NestInv'
    BY <1>6 DEF OwnerInv, StrangerInv, CountInv, SpinInv, SetOwner
  <2>2. OwnerInv' /\ StrangerInv'
    BY <1>6 DEF OwnerInv, StrangerInv, CountInv, SetOwner
  <2>3. CountInv' /\ SpinInv'
    BY <1>6 DEF OwnerInv, StrangerInv, CountInv, SpinInv, SetOwner
  <2>4. FlockInv'
    BY <1>6 DEF CountInv, SpinInv, FlockInv, Unshared, InCS, SetOwner
  <2>. QED
    BY <2>1, <2>2, <2>3, <2>4
<1>7. CASE SetCount(t)
  <2>1. TypeOK' /\ HolderInv' /\ NestInv'
    BY <1>7 DEF OwnerInv, StrangerInv, CountInv, SpinInv, SetCount
  <2>2. OwnerInv' /\ StrangerInv'
    BY <1>7 DEF OwnerInv, StrangerInv, CountInv, SetCount
  <2>3. CountInv' /\ SpinInv'
    BY <1>7 DEF OwnerInv, StrangerInv, CountInv, SpinInv, SetCount
  <2>4. FlockInv'
    BY <1>7 DEF CountInv, SpinInv, FlockInv, Unshared, InCS, SetCount
  <2>. QED
    BY <2>1, <2>2, <2>3, <2>4
<1>. QED
  BY <1>1, <1>2, <1>3, <1>4, <1>5, <1>6, <1>7

\* So do the rest of Wait, and Signal.
LEMMA ScopeStep ==
  ASSUME IInv, NEW t \in Threads,
            Spin(t) \/ Flock(t) \/ FlockTimeout(t) \/ Signal(t)
         \/ Leave(t) \/ Unlock(t)
  PROVE  IInv'
<1>. USE MutexAssumption DEF IInv, TypeOK, HolderInv, NestInv, Entering, Labels, At, Goto
<1>1. CASE Spin(t)
  <2>1. TypeOK' /\ HolderInv' /\ NestInv'
    BY <1>1 DEF OwnerInv, StrangerInv, CountInv, SpinInv, Spin
  <2>2. OwnerInv' /\ StrangerInv'
    BY <1>1 DEF OwnerInv, StrangerInv, CountInv, Spin
  <2>3. CountInv' /\ SpinInv'
    BY <1>1 DEF OwnerInv, StrangerInv, CountInv, SpinInv, Spin
  <2>4. FlockInv'
    BY <1>1 DEF CountInv, SpinInv, FlockInv, Unshared, InCS, Spin
  <2>. QED
    BY <2>1, <2>2, <2>3, <2>4
<1>2. CASE Flock(t)
  <2>1. TypeOK' /\ HolderInv' /\ NestInv'
    BY <1>2 DEF OwnerInv, StrangerInv, CountInv, SpinInv, Flock, FlockFree
  <2>2. OwnerInv' /\ StrangerInv'
    BY <1>2 DEF OwnerInv, StrangerInv, CountInv, Flock, FlockFree
  <2>3. CountInv' /\ SpinInv'
    BY <1>2 DEF OwnerInv, StrangerInv, CountInv, SpinInv, Flock, FlockFree
  <2>4. FlockInv'
    BY <1>2 DEF CountInv, SpinInv, FlockInv, Unshared, InCS, Flock, FlockFree
  <2>. QED
    BY <2>1, <2>2, <2>3, <2>4
<1>3. CASE FlockTimeout(t)
  <2>1. TypeOK' /\ HolderInv' /\ NestInv'
    BY <1>3 DEF OwnerInv, StrangerInv, CountInv, SpinInv, FlockTimeout, FlockFree
  <2>2. OwnerInv' /\ StrangerInv'
    BY <1>3 DEF OwnerInv, StrangerInv, CountInv, FlockTimeout, FlockFree
  <2>3. CountInv' /\ SpinInv'
    BY <1>3 DEF OwnerInv, StrangerInv, CountInv, SpinInv, FlockTimeout, FlockFree
  <2>4. FlockInv'
    BY <1>3 DEF CountInv, SpinInv, FlockInv, Unshared, InCS, FlockTimeout, FlockFree
  <2>. QED
    BY <2>1, <2>2, <2>3, <2>4
<1>4. CASE Signal(t)
  <2>1. TypeOK' /\ HolderInv' /\ NestInv'
    BY <1>4 DEF OwnerInv, StrangerInv, CountInv, SpinInv, Signal
  <2>2. OwnerInv' /\ StrangerInv'
    BY <1>4 DEF OwnerInv, StrangerInv, CountInv, Signal
  <2>3. CountInv' /\ SpinInv'
    BY <1>4 DEF OwnerInv, StrangerInv, CountInv, SpinInv, Signal
  <2>4. FlockInv'
    BY <1>4 DEF CountInv, SpinInv, FlockInv, Unshared, InCS, Signal
  <2>. QED
    BY <2>1, <2>2, <2>3, <2>4
<1>5. CASE Leave(t)
  <2>1. TypeOK' /\ HolderInv' /\ NestInv'
    BY <1>5 DEF OwnerInv, StrangerInv, CountInv, SpinInv, Leave, UnlockRefused
  <2>2. OwnerInv' /\ StrangerInv'
    BY <1>5 DEF OwnerInv, StrangerInv, CountInv, Leave, UnlockRefused
  <2>3. CountInv' /\ SpinInv'
    BY <1>5 DEF OwnerInv, StrangerInv, CountInv, SpinInv, Leave, UnlockRefused
  <2>4. FlockInv'
    BY <1>5 DEF CountInv, SpinInv, FlockInv, Unshared, InCS, Leave, UnlockRefused
  <2>. QED
    BY <2>1, <2>2, <2>3, <2>4
<1>6. CASE Unlock(t)
  <2>1. TypeOK' /\ HolderInv' /\ NestInv'
    BY <1>6 DEF OwnerInv, StrangerInv, CountInv, SpinInv, Unlock
  <2>2. OwnerInv' /\ StrangerInv'
    BY <1>6 DEF OwnerInv, StrangerInv, CountInv, Unlock
  <2>3. CountInv' /\ SpinInv'
    BY <1>6 DEF OwnerInv, StrangerInv, CountInv, SpinInv, Unlock
  <2>4. FlockInv'
    BY <1>6 DEF CountInv, SpinInv, FlockInv, Unshared, InCS, Unlock
  <2>. QED
    BY <2>1, <2>2, <2>3, <2>4
<1>. QED
  BY <1>1, <1>2, <1>3, <1>4, <1>5, <1>6

\* So does the end of a process: the threads of the others are not touched.
LEMMA CrashStep ==
  ASSUME IInv, NEW p \in Procs, Crash(p)
  PROVE  IInv'
  BY MutexAssumption
  DEF IInv, TypeOK, HolderInv, NestInv, OwnerInv, StrangerInv, CountInv, SpinInv,
      FlockInv, InCS, Unshared, Crash

LEMMA NextInv == IInv /\ [Next]_vars => IInv'
<1>. SUFFICES ASSUME IInv, [Next]_vars PROVE IInv'
  OBVIOUS
<1>1. CASE UNCHANGED vars
  BY <1>1 DEF vars, IInv, TypeOK, HolderInv, NestInv, OwnerInv, StrangerInv,
              CountInv, SpinInv, FlockInv, InCS
<1>2. ASSUME NEW t \in Threads, Wait(t) \/ Step(t) PROVE IInv'
  BY <1>2, EnterStep, ScopeStep DEF Step
<1>3. ASSUME NEW p \in Procs, Crash(p) PROVE IInv'
  BY <1>3, CrashStep
<1>. QED
  BY <1>1, <1>2, <1>3 DEF Next

-----------------------------------------------------------------------------
\* The strengthening holds in every reachable state.
THEOREM Invariant == Spec => []IInv
<1>. QED
  BY InitInv, NextInv, PTL DEF Spec

\* Every variable keeps its type; LCnt and m_spin never go below zero in
\* MthreadMutexUnlock and CMutex::Signal.
THEOREM TypeCorrect == Spec => []TypeOK
<1>1. IInv => TypeOK
  BY DEF IInv
<1>. QED
  BY <1>1, Invariant, PTL

\* The unsynchronised test of LCnt and Owner in MthreadMutexLock lets no second
\* thread of a process into an open scope: both would be the holder.
THEOREM SameProcess == Spec => []SameProcessExclusion
<1>1. IInv => SameProcessExclusion
  BY DEF IInv, HolderInv, SameProcessExclusion, InCS
<1>. QED
  BY <1>1, Invariant, PTL

\* Threads of two processes are never both inside when each opened the lock file
\* itself: the flock has one description.
THEOREM CrossProcess == Spec => []CrossProcessExclusion
<1>1. IInv => CrossProcessExclusion
  BY MutexAssumption
  DEF IInv, HolderInv, FlockInv, CrossProcessExclusion, InCS, Unshared
<1>. QED
  BY <1>1, Invariant, PTL

\* MthreadMutexUnlock never returns an error to CMutex, which would not look at it.
THEOREM UnlockAccepted == Spec => []NoRefusedUnlock
<1>1. IInv => NoRefusedUnlock
  BY MutexAssumption
  DEF IInv, TypeOK, HolderInv, OwnerInv, CountInv, NoRefusedUnlock, At,
      UnlockRefused, Entering
<1>. QED
  BY <1>1, Invariant, PTL

\* An unshared description keeps the flock only while a live thread is inside:
\* timeouts, inner Signals and crashes give it back.
THEOREM FlockReleased == Spec => []FlockNotLeaked
<1>1. IInv => FlockNotLeaked
  BY MutexAssumption
  DEF IInv, TypeOK, HolderInv, FlockInv, FlockNotLeaked, InCS, Unshared
<1>. QED
  BY <1>1, Invariant, PTL
=============================================================================
