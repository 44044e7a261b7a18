------------------------------- MODULE Mutex -------------------------------
(***************************************************************************)
(* sc::mutex: a lock kept in one integer, with the futex of the operating  *)
(* system as its waiting room.  An action is one atomic access to val or   *)
(* one system call, so every interleaving the build can produce is there.  *)
(* atomic_decrement returns the value it has just stored, and unlock       *)
(* compares that value, not the old one, with 1.                           *)
(***************************************************************************)
EXTENDS Integers

CONSTANT Threads

ASSUME ThreadsAssumption == Threads # {}

UNLOCKED == 0
LOCKED == 1
LOCKED_WITH_WAITERS == 2

VARIABLES
    val,        \* the mutex
    pc,         \* where each thread is in lock() and unlock()
    c,          \* the local of lock(): the value the last exchange returned
    overwritten \* history: unlock() has stored 0 over a value other than 0

vars == <<val, pc, c, overwritten>>

\* The points of lock() and unlock() at which a thread can be interleaved.
Points == {"idle", "contend", "wait", "asleep", "retry",
           "holds", "store", "wake"}

At(point) == {t \in Threads : pc[t] = point}

Holders == At("holds")

Goto(t, point) == pc' = [pc EXCEPT ![t] = point]

Init ==
    /\ val = UNLOCKED
    /\ pc = [t \in Threads |-> "idle"]
    /\ c = [t \in Threads |-> UNLOCKED]
    /\ overwritten = FALSE

----------------------------------------------------------------------------
\* cmp_n_swap: val takes fresh if it was old; the caller sees what it was.
CmpNSwap(old, fresh) == val' = IF val = old THEN fresh ELSE val

\* The exchange on entry to lock().
LockFast(t) ==
    /\ pc[t] = "idle"
    /\ CmpNSwap(UNLOCKED, LOCKED)
    /\ c' = [c EXCEPT ![t] = val]
    /\ Goto(t, IF val = UNLOCKED THEN "holds" ELSE "contend")
    /\ UNCHANGED overwritten

\* c already says that there are waiters: no exchange, straight to the futex.
SkipMark(t) ==
    /\ pc[t] = "contend"
    /\ c[t] = LOCKED_WITH_WAITERS
    /\ Goto(t, "wait")
    /\ UNCHANGED <<val, c, overwritten>>

\* Announce a waiter; the result is tested and not kept in c.
MarkWaiters(t) ==
    /\ pc[t] = "contend"
    /\ c[t] # LOCKED_WITH_WAITERS
    /\ CmpNSwap(LOCKED, LOCKED_WITH_WAITERS)
    /\ Goto(t, IF val = UNLOCKED THEN "retry" ELSE "wait")
    /\ UNCHANGED <<c, overwritten>>

\* MUTANT of FutexWait: the kernel is not told which value to sleep on.
WaitUnconditionally(t) ==
    /\ pc[t] = "wait"
    /\ Goto(t, "asleep")
    /\ UNCHANGED <<val, c, overwritten>>

\* The kernel compares val again, and puts the thread to sleep only on 2.
FutexWait(t) ==
    /\ pc[t] = "wait"
    /\ Goto(t, IF val = LOCKED_WITH_WAITERS THEN "asleep" ELSE "retry")
    /\ UNCHANGED <<val, c, overwritten>>

\* futex_wait's result is not looked at: a signal wakes the thread too.
Interrupted(t) ==
    /\ pc[t] = "asleep"
    /\ Goto(t, "retry")
    /\ UNCHANGED <<val, c, overwritten>>

\* MUTANT of Retry: whoever comes back from the futex is taken for the owner.
RetryOnce(t) ==
    /\ pc[t] = "retry"
    /\ CmpNSwap(UNLOCKED, LOCKED_WITH_WAITERS)
    /\ c' = [c EXCEPT ![t] = val]
    /\ Goto(t, "holds")
    /\ UNCHANGED overwritten

\* The exchange at the bottom of the loop: the lock is taken as contended.
Retry(t) ==
    /\ pc[t] = "retry"
    /\ CmpNSwap(UNLOCKED, LOCKED_WITH_WAITERS)
    /\ c' = [c EXCEPT ![t] = val]
    /\ Goto(t, IF val = UNLOCKED THEN "holds" ELSE "contend")
    /\ UNCHANGED overwritten

----------------------------------------------------------------------------
\* atomic_decrement: the value it stores is also what it returns.
AtomicDecrement(x) == x - 1

\* unlock(), called by a holder only.
Decrement(t) ==
    /\ pc[t] = "holds"
    /\ val' = AtomicDecrement(val)
    /\ Goto(t, IF AtomicDecrement(val) # 1 THEN "store" ELSE "idle")
    /\ UNCHANGED <<c, overwritten>>

\* The plain store that follows, by a thread that owns nothing any more.
StoreUnlocked(t) ==
    /\ pc[t] = "store"
    /\ val' = UNLOCKED
    /\ overwritten' = (overwritten \/ val # UNLOCKED)
    /\ Goto(t, "wake")
    /\ UNCHANGED c

FutexWakeOne(t) ==
    /\ pc[t] = "wake"
    /\ IF At("asleep") = {}
       THEN Goto(t, "idle")
       ELSE \E s \in At("asleep") :
                pc' = [pc EXCEPT ![t] = "idle", ![s] = "retry"]
    /\ UNCHANGED <<val, c, overwritten>>

----------------------------------------------------------------------------
\* A step of a call that has begun, other than the caller's own decisions.
Step(t) ==
    \/ SkipMark(t)
    \/ MarkWaiters(t)
    \/ FutexWait(t)
    \/ Retry(t)
    \/ StoreUnlocked(t)
    \/ FutexWakeOne(t)

Next ==
    \E t \in Threads :
        \/ LockFast(t)
        \/ Decrement(t)
        \/ Interrupted(t)
        \/ Step(t)

Spec == Init /\ [][Next]_vars

\* The operating system runs every thread that can run.  Nobody promises that
\* a thread asks for the lock, gives it back, or receives a signal.
FairSpec == Spec /\ \A t \in Threads : WF_vars(Step(t))

----------------------------------------------------------------------------
(* Properties.                                                             *)

\* val never exceeds LOCKED_WITH_WAITERS (it may go below 0: two holders may
\* decrement one after the other), and every thread is at a point of the code.
TypeOK ==
    /\ val \in Int
    /\ val <= LOCKED_WITH_WAITERS
    /\ pc \in [Threads -> Points]
    /\ c \in [Threads -> Int]
    /\ overwritten \in BOOLEAN

\* The lock excludes for as long as no unlock() has stored its 0 over the
\* claim of a thread that locked between its decrement and its store: at most
\* one thread is past lock(), and val says that it is.
ExclusiveUntilOverwritten ==
    ~overwritten =>
        /\ \A s, t \in Holders : s = t
        /\ Holders # {} => val \in {LOCKED, LOCKED_WITH_WAITERS}

\* No wake-up is lost on the way to the futex: while the mutex is free and
\* somebody sleeps on it, another thread is still inside lock() or unlock(),
\* or holds the lock, and so will come to wake the sleeper or to take the lock.
FreeMutexHasNoForgottenSleeper ==
    val = UNLOCKED /\ At("asleep") # {} =>
        \E t \in Threads : pc[t] \notin {"idle", "asleep"}

\* val says locked, and nobody has the lock or is about to reset val: what a
\* contended unlock() leaves, as it brings val from 2 to 1 and returns.
Orphaned ==
    /\ val \in {LOCKED, LOCKED_WITH_WAITERS}
    /\ Holders = {}
    /\ At("store") = {}

\* Once orphaned, the mutex stays so: no sequence of lock(), signals and
\* wake-ups gives it to anyone again.
OrphanedForGood == [][Orphaned => Orphaned']_vars

\* A mutex that is free while an awake thread is trying to lock it is taken by
\* some thread: the loop in lock() does not spin past a free mutex.
FreeLockIsTaken ==
    (val = UNLOCKED /\ \E t \in Threads : pc[t] \in {"contend", "wait", "retry"})
        ~> (Holders # {})

\* What the name LOCKED_WITH_WAITERS says (mutex.h:21): the waiters are known
\* to the one who unlocks.  A thread asleep is one that somebody will wake.
SleepersWillBeWoken ==
    At("asleep") # {} => \E t \in Threads : pc[t] \notin {"idle", "asleep"}

=============================================================================
