---------------------------- MODULE MutexProofs ----------------------------
(* What Mutex guarantees, for every set of threads.                        *)
EXTENDS Mutex, TLAPS

(***************************************************************************)
(* Type correctness.  It is inductive: only an exchange or a decrement     *)
(* changes val, and neither brings it above LOCKED_WITH_WAITERS.           *)
(***************************************************************************)

\* Every step of lock() and unlock() keeps val an integer of at most 2 and
\* every thread at a point of the code.
LEMMA TypeIsInductive ==
    TypeOK /\ [Next]_vars => TypeOK'
<1> USE DEF TypeOK, Points, Goto, CmpNSwap,
            UNLOCKED, LOCKED, LOCKED_WITH_WAITERS
<1> SUFFICES ASSUME TypeOK, [Next]_vars PROVE TypeOK'
    OBVIOUS
<1>1. CASE UNCHANGED vars
    BY <1>1 DEF vars
<1>2. ASSUME NEW t \in Threads, LockFast(t) PROVE TypeOK'
    BY <1>2 DEF LockFast
<1>3. ASSUME NEW t \in Threads, SkipMark(t) PROVE TypeOK'
    BY <1>3 DEF SkipMark
<1>4. ASSUME NEW t \in Threads, MarkWaiters(t) PROVE TypeOK'
    BY <1>4 DEF MarkWaiters
<1>5. ASSUME NEW t \in Threads, FutexWait(t) PROVE TypeOK'
    BY <1>5 DEF FutexWait
<1>6. ASSUME NEW t \in Threads, Interrupted(t) PROVE TypeOK'
    BY <1>6 DEF Interrupted
<1>7. ASSUME NEW t \in Threads, Retry(t) PROVE TypeOK'
    BY <1>7 DEF Retry
<1>8. ASSUME NEW t \in Threads, Decrement(t) PROVE TypeOK'
    BY <1>8 DEF Decrement, AtomicDecrement
<1>9. ASSUME NEW t \in Threads, StoreUnlocked(t) PROVE TypeOK'
    BY <1>9 DEF StoreUnlocked
<1>10. ASSUME NEW t \in Threads, FutexWakeOne(t) PROVE TypeOK'
    BY <1>10 DEF FutexWakeOne, At
<1> QED
    BY <1>1, <1>2, <1>3, <1>4, <1>5, <1>6, <1>7, <1>8, <1>9, <1>10
       DEF Next, Step

\* The state of the mutex and of its threads stays well typed.
THEOREM TypeCorrect == Spec => []TypeOK
<1>1. Init => TypeOK
    <2> SUFFICES ASSUME Init PROVE TypeOK
        OBVIOUS
    <2>1. val \in Int /\ val <= LOCKED_WITH_WAITERS
        BY DEF Init, UNLOCKED, LOCKED_WITH_WAITERS
    <2>2. pc \in [Threads -> Points]
        BY DEF Init, Points
    <2>3. c \in [Threads -> Int]
        BY DEF Init, UNLOCKED
    <2> QED
        BY <2>1, <2>2, <2>3 DEF Init, TypeOK
<1> QED
    BY <1>1, TypeIsInductive, PTL DEF Spec

----------------------------------------------------------------------------
(***************************************************************************)
(* Exclusion.  A thread comes past lock() only through an exchange that    *)
(* found val = 0, and while no 0 has been stored over another value, a     *)
(* held mutex is never 0.                                                  *)
(***************************************************************************)

\* The exclusion that lock() gives while no late store has hit another
\* thread's claim survives every step.
LEMMA ExclusionIsInductive ==
    TypeOK /\ ExclusiveUntilOverwritten /\ [Next]_vars
        => ExclusiveUntilOverwritten'
<1> USE DEF TypeOK, Goto, CmpNSwap, At, Holders, ExclusiveUntilOverwritten,
            UNLOCKED, LOCKED, LOCKED_WITH_WAITERS
<1> SUFFICES ASSUME TypeOK, ExclusiveUntilOverwritten, [Next]_vars
             PROVE  ExclusiveUntilOverwritten'
    OBVIOUS
<1>1. CASE UNCHANGED vars
    BY <1>1 DEF vars
<1>2. ASSUME NEW t \in Threads, LockFast(t)
      PROVE ExclusiveUntilOverwritten'
    BY <1>2 DEF LockFast
<1>3. ASSUME NEW t \in Threads, SkipMark(t)
      PROVE ExclusiveUntilOverwritten'
    BY <1>3 DEF SkipMark
<1>4. ASSUME NEW t \in Threads, MarkWaiters(t)
      PROVE ExclusiveUntilOverwritten'
    BY <1>4 DEF MarkWaiters
<1>5. ASSUME NEW t \in Threads, FutexWait(t)
      PROVE ExclusiveUntilOverwritten'
    BY <1>5 DEF FutexWait
<1>6. ASSUME NEW t \in Threads, Interrupted(t)
      PROVE ExclusiveUntilOverwritten'
    BY <1>6 DEF Interrupted
<1>7. ASSUME NEW t \in Threads, Retry(t)
      PROVE ExclusiveUntilOverwritten'
    BY <1>7 DEF Retry
<1>8. ASSUME NEW t \in Threads, Decrement(t)
      PROVE ExclusiveUntilOverwritten'
    BY <1>8 DEF Decrement, AtomicDecrement
<1>9. ASSUME NEW t \in Threads, StoreUnlocked(t)
      PROVE ExclusiveUntilOverwritten'
    BY <1>9 DEF StoreUnlocked
<1>10. ASSUME NEW t \in Threads, FutexWakeOne(t)
       PROVE ExclusiveUntilOverwritten'
    BY <1>10 DEF FutexWakeOne
<1> QED
    BY <1>1, <1>2, <1>3, <1>4, <1>5, <1>6, <1>7, <1>8, <1>9, <1>10
       DEF Next, Step

\* Two threads are past lock() together only after a 0 has been stored over
\* the claim of one of them.
THEOREM Exclusion == Spec => []ExclusiveUntilOverwritten
<1>1. Init => ExclusiveUntilOverwritten
    BY DEF Init, ExclusiveUntilOverwritten, Holders, At
<1> QED
    BY <1>1, TypeCorrect, ExclusionIsInductive, PTL DEF Spec

----------------------------------------------------------------------------
(***************************************************************************)
(* The futex.  A thread sleeps only on val = 2, and the only way from there *)
(* to val = 0 leads through a thread that still has its wake-up to make.   *)
(***************************************************************************)

\* A free mutex with a sleeper keeps somebody else inside lock() or unlock().
LEMMA NoForgottenSleeperIsInductive ==
    TypeOK /\ FreeMutexHasNoForgottenSleeper /\ [Next]_vars
        => FreeMutexHasNoForgottenSleeper'
<1> USE DEF TypeOK, Goto, CmpNSwap, At, FreeMutexHasNoForgottenSleeper,
            UNLOCKED, LOCKED, LOCKED_WITH_WAITERS
<1> SUFFICES ASSUME TypeOK, FreeMutexHasNoForgottenSleeper, [Next]_vars
             PROVE  FreeMutexHasNoForgottenSleeper'
    OBVIOUS
<1>1. CASE UNCHANGED vars
    BY <1>1 DEF vars
<1>2. ASSUME NEW t \in Threads, LockFast(t)
      PROVE FreeMutexHasNoForgottenSleeper'
    BY <1>2 DEF LockFast
<1>3. ASSUME NEW t \in Threads, SkipMark(t)
      PROVE FreeMutexHasNoForgottenSleeper'
    BY <1>3 DEF SkipMark
<1>4. ASSUME NEW t \in Threads, MarkWaiters(t)
      PROVE FreeMutexHasNoForgottenSleeper'
    BY <1>4 DEF MarkWaiters
<1>5. ASSUME NEW t \in Threads, FutexWait(t)
      PROVE FreeMutexHasNoForgottenSleeper'
    BY <1>5 DEF FutexWait
<1>6. ASSUME NEW t \in Threads, Interrupted(t)
      PROVE FreeMutexHasNoForgottenSleeper'
    BY <1>6 DEF Interrupted
<1>7. ASSUME NEW t \in Threads, Retry(t)
      PROVE FreeMutexHasNoForgottenSleeper'
    BY <1>7 DEF Retry
<1>8. ASSUME NEW t \in Threads, Decrement(t)
      PROVE FreeMutexHasNoForgottenSleeper'
    BY <1>8 DEF Decrement, AtomicDecrement
<1>9. ASSUME NEW t \in Threads, StoreUnlocked(t)
      PROVE FreeMutexHasNoForgottenSleeper'
    BY <1>9 DEF StoreUnlocked
<1>10. ASSUME NEW t \in Threads, FutexWakeOne(t)
       PROVE FreeMutexHasNoForgottenSleeper'
    BY <1>10 DEF FutexWakeOne
<1> QED
    BY <1>1, <1>2, <1>3, <1>4, <1>5, <1>6, <1>7, <1>8, <1>9, <1>10
       DEF Next, Step

\* No interleaving of the exchanges, the futex and unlock() leaves a thread
\* asleep on a mutex that is free and that nobody is attending to.
THEOREM NoForgottenSleeper == Spec => []FreeMutexHasNoForgottenSleeper
<1>1. Init => FreeMutexHasNoForgottenSleeper
    BY DEF Init, FreeMutexHasNoForgottenSleeper, At
<1> QED
    BY <1>1, TypeCorrect, NoForgottenSleeperIsInductive, PTL DEF Spec

----------------------------------------------------------------------------
\* A mutex that a contended unlock() has left marked and unowned is never
\* handed to anybody again.
THEOREM OrphanedStays == Spec => OrphanedForGood
<1> USE DEF TypeOK, Goto, CmpNSwap, At, Holders, Orphaned,
            UNLOCKED, LOCKED, LOCKED_WITH_WAITERS
<1>1. ASSUME TypeOK, Orphaned, [Next]_vars PROVE Orphaned'
    <2>1. CASE UNCHANGED vars
        BY <1>1, <2>1 DEF vars
    <2>2. ASSUME NEW t \in Threads, LockFast(t) PROVE Orphaned'
        BY <1>1, <2>2 DEF LockFast
    <2>3. ASSUME NEW t \in Threads, SkipMark(t) PROVE Orphaned'
        BY <1>1, <2>3 DEF SkipMark
    <2>4. ASSUME NEW t \in Threads, MarkWaiters(t) PROVE Orphaned'
        BY <1>1, <2>4 DEF MarkWaiters
    <2>5. ASSUME NEW t \in Threads, FutexWait(t) PROVE Orphaned'
        BY <1>1, <2>5 DEF FutexWait
    <2>6. ASSUME NEW t \in Threads, Interrupted(t) PROVE Orphaned'
        BY <1>1, <2>6 DEF Interrupted
    <2>7. ASSUME NEW t \in Threads, Retry(t) PROVE Orphaned'
        BY <1>1, <2>7 DEF Retry
    <2>8. ASSUME NEW t \in Threads, Decrement(t) \/ StoreUnlocked(t)
          PROVE Orphaned'
        BY <1>1, <2>8 DEF Decrement, AtomicDecrement, StoreUnlocked
    <2>9. ASSUME NEW t \in Threads, FutexWakeOne(t) PROVE Orphaned'
        BY <1>1, <2>9 DEF FutexWakeOne
    <2> QED
        BY <1>1, <2>1, <2>2, <2>3, <2>4, <2>5, <2>6, <2>7, <2>8, <2>9
           DEF Next, Step
<1>2. TypeOK /\ [Next]_vars => [Orphaned => Orphaned']_vars
    BY <1>1
<1> QED
    BY <1>2, TypeCorrect, PTL DEF Spec, OrphanedForGood
=============================================================================
