------------------------------ MODULE Spinlock ------------------------------
(***************************************************************************)
(* The spinning reader-writer lock of crates/utils-sync/src/rw_lock.rs,    *)
(* with the guards of lock_api around it.  Every load, compare-exchange,   *)
(* fetch or store of the two atomics is one step; the branches between     *)
(* them are local.  Threads call the lock Rounds times each, choosing      *)
(* among the operations Ops gives them.                                    *)
(***************************************************************************)
EXTENDS Naturals, FiniteSets

CONSTANTS
    Threads,
    Ops,         \* Ops[t]: the lock operations thread t may call
    Rounds,      \* bound: calls per thread
    UsizeMax     \* usize::MAX

ASSUME UsizeMaxAssumption ==
    /\ IsFiniteSet(Threads)
    /\ UsizeMax \in Nat
    /\ UsizeMax % 2 = 1
    /\ 2 * Cardinality(Threads) + 1 < UsizeMax
ASSUME OpsAssumption ==
    /\ Rounds \in Nat
    /\ Ops \in [Threads -> SUBSET {"lock_shared", "try_lock_shared",
                                   "lock_exclusive", "try_lock_exclusive"}]

VARIABLES
    state,                \* Spinlock::state
    writer_wake_counter,  \* Spinlock::writer_wake_counter
    pc,                   \* pc[t]: the atomic access thread t performs next
    s,                    \* s[t]: the local s of the running call
    w,                    \* w[t]: the local w of lock_exclusive
    left                  \* left[t]: calls thread t has still to make

vars == <<state, writer_wake_counter, pc, s, w, left>>

Labels == {"idle", "lock_shared", "try_lock_shared", "reading", "wake",
           "lock_exclusive", "try_lock_exclusive", "load_wake", "load_state",
           "parked", "reload", "writing", "signal"}

Init ==
    /\ state = 0
    /\ writer_wake_counter = 0
    /\ pc = [t \in Threads |-> "idle"]
    /\ s = [t \in Threads |-> 0]
    /\ w = [t \in Threads |-> 0]
    /\ left = [t \in Threads |-> Rounds]

\* Atomic arithmetic wraps around.
Wrap(n) == n % (UsizeMax + 1)

Goto(t, label) == pc' = [pc EXCEPT ![t] = label]

\* s is updated by a load of state, or by the value a failed exchange returns.
LoadState(t) == s' = [s EXCEPT ![t] = state]

Bump == writer_wake_counter' = Wrap(writer_wake_counter + 1)

----------------------------------------------------------------------------
\* Every acquiring call begins with a relaxed load of state.
Call(t, op) ==
    /\ pc[t] = "idle"
    /\ left[t] > 0
    /\ op \in Ops[t]
    /\ left' = [left EXCEPT ![t] = @ - 1]
    /\ LoadState(t)
    /\ Goto(t, op)
    /\ UNCHANGED <<state, writer_wake_counter, w>>

\* Mutant: the exclusive bit is not looked at.
AcquireSharedAnyway(t) ==
    /\ pc[t] \in {"lock_shared", "try_lock_shared"}
    /\ state = s[t]
    /\ state' = Wrap(s[t] + 2)
    /\ Goto(t, "reading")
    /\ UNCHANGED <<writer_wake_counter, s, w, left>>

\* compare_exchange_weak(s, s + 2): the exclusive bit was clear in s.
AcquireShared(t) ==
    /\ pc[t] \in {"lock_shared", "try_lock_shared"}
    /\ s[t] % 2 = 0
    /\ state = s[t]
    /\ state' = Wrap(s[t] + 2)
    /\ Goto(t, "reading")
    /\ UNCHANGED <<writer_wake_counter, s, w, left>>

\* The exchange failed, or the bit was set and lock_shared spins until state
\* differs from s: s becomes the value seen, and the loop goes round.  A weak
\* exchange may fail although state = s, and then changes nothing.
RetryShared(t) ==
    /\ pc[t] = "lock_shared"
    /\ LoadState(t)
    /\ UNCHANGED <<state, writer_wake_counter, pc, w, left>>

\* The bit was set, or the one exchange failed (spuriously, possibly).
TrySharedFails(t) ==
    /\ pc[t] = "try_lock_shared"
    /\ Goto(t, "idle")
    /\ UNCHANGED <<state, writer_wake_counter, s, w, left>>

\* Mutant: the value after the subtraction is tested instead of the one before.
UnlockSharedTestsNew(t) ==
    /\ pc[t] = "reading"
    /\ state' = Wrap(state + UsizeMax - 1)
    /\ Goto(t, IF state' = 3 THEN "wake" ELSE "idle")
    /\ UNCHANGED <<writer_wake_counter, s, w, left>>

\* Mutant: no release of a reader wakes the writer.
UnlockSharedSilently(t) ==
    /\ pc[t] = "reading"
    /\ state' = Wrap(state + UsizeMax - 1)
    /\ Goto(t, "idle")
    /\ UNCHANGED <<writer_wake_counter, s, w, left>>

\* fetch_sub(2) == 3: the last reader out while a writer is acquiring.
UnlockShared(t) ==
    /\ pc[t] = "reading"
    /\ state' = Wrap(state + UsizeMax - 1)
    /\ Goto(t, IF state = 3 THEN "wake" ELSE "idle")
    /\ UNCHANGED <<writer_wake_counter, s, w, left>>

WakeWriter(t) ==
    /\ pc[t] = "wake"
    /\ Bump
    /\ Goto(t, "idle")
    /\ UNCHANGED <<state, s, w, left>>

----------------------------------------------------------------------------
\* s <= 1: compare_exchange(s, usize::MAX).
AcquireExclusive(t) ==
    /\ pc[t] \in {"lock_exclusive", "try_lock_exclusive"}
    /\ s[t] <= 1
    /\ state = s[t]
    /\ state' = UsizeMax
    /\ Goto(t, "writing")
    /\ UNCHANGED <<writer_wake_counter, s, w, left>>

\* Only readers hold the lock: compare_exchange(s, s + 1) stops new ones.
TakeExclusiveBit(t) ==
    /\ pc[t] = "lock_exclusive"
    /\ s[t] > 1
    /\ s[t] % 2 = 0
    /\ state = s[t]
    /\ state' = s[t] + 1
    /\ Goto(t, "load_wake")
    /\ UNCHANGED <<writer_wake_counter, s, w, left>>

\* Either exchange failed: start over with the value it returned.
RetryExclusive(t) ==
    /\ pc[t] = "lock_exclusive"
    /\ s[t] <= 1 \/ s[t] % 2 = 0
    /\ state # s[t]
    /\ LoadState(t)
    /\ UNCHANGED <<state, writer_wake_counter, pc, w, left>>

\* The wake counter is read after taking the bit, or after finding it taken.
LoadWakeCounter(t) ==
    /\ \/ pc[t] = "load_wake"
       \/ pc[t] = "lock_exclusive" /\ s[t] > 1 /\ s[t] % 2 = 1
    /\ w' = [w EXCEPT ![t] = writer_wake_counter]
    /\ Goto(t, "load_state")
    /\ UNCHANGED <<state, writer_wake_counter, s, left>>

\* The state loaded next decides whether the writer waits.
LoadStateBeforeWait(t) ==
    /\ pc[t] = "load_state"
    /\ LoadState(t)
    /\ Goto(t, IF state >= 2 THEN "parked" ELSE "lock_exclusive")
    /\ UNCHANGED <<state, writer_wake_counter, w, left>>

\* while writer_wake_counter == w { spin_loop() }
SpinParked(t) ==
    /\ pc[t] = "parked"
    /\ Goto(t, IF writer_wake_counter = w[t] THEN "parked" ELSE "reload")
    /\ UNCHANGED <<state, writer_wake_counter, s, w, left>>

Reload(t) ==
    /\ pc[t] = "reload"
    /\ LoadState(t)
    /\ Goto(t, "lock_exclusive")
    /\ UNCHANGED <<state, writer_wake_counter, w, left>>

TryExclusiveFails(t) ==
    /\ pc[t] = "try_lock_exclusive"
    /\ s[t] > 1 \/ state # s[t]
    /\ Goto(t, "idle")
    /\ UNCHANGED <<state, writer_wake_counter, s, w, left>>

\* Mutant: only the exclusive bit is cleared.
UnlockExclusiveBitOnly(t) ==
    /\ pc[t] = "writing"
    /\ state' = state - 1
    /\ Goto(t, "signal")
    /\ UNCHANGED <<writer_wake_counter, s, w, left>>

\* store(0), then fetch_add(1) on the wake counter.
UnlockExclusive(t) ==
    /\ pc[t] = "writing"
    /\ state' = 0
    /\ Goto(t, "signal")
    /\ UNCHANGED <<writer_wake_counter, s, w, left>>

Signal(t) ==
    /\ pc[t] = "signal"
    /\ Bump
    /\ Goto(t, "idle")
    /\ UNCHANGED <<state, s, w, left>>

----------------------------------------------------------------------------
Step(t) ==
    \/ \E op \in Ops[t] : Call(t, op)
    \/ AcquireShared(t) \/ RetryShared(t) \/ TrySharedFails(t)
    \/ UnlockShared(t) \/ WakeWriter(t)
    \/ AcquireExclusive(t) \/ TakeExclusiveBit(t) \/ RetryExclusive(t)
    \/ LoadWakeCounter(t) \/ LoadStateBeforeWait(t) \/ SpinParked(t) \/ Reload(t)
    \/ TryExclusiveFails(t) \/ UnlockExclusive(t) \/ Signal(t)

Finished == \A t \in Threads : pc[t] = "idle" /\ left[t] = 0

\* Every thread has made its calls: the program is over.
Done == Finished /\ UNCHANGED vars

Next == (\E t \in Threads : Step(t)) \/ Done

Spec == Init /\ [][Next]_vars

\* The operating system runs every thread again and again.
FairSpec == Spec /\ \A t \in Threads : WF_vars(Step(t))

----------------------------------------------------------------------------
Readers == {t \in Threads : pc[t] = "reading"}
Writers == {t \in Threads : pc[t] = "writing"}

\* The lock's fields and every thread's locals have the types they are declared with.
TypeOK ==
    /\ state \in 0..UsizeMax
    /\ writer_wake_counter \in 0..UsizeMax
    /\ pc \in [Threads -> Labels]
    /\ s \in [Threads -> 0..UsizeMax]
    /\ w \in [Threads -> 0..UsizeMax]
    /\ left \in [Threads -> 0..Rounds]

\* A thread that holds a write guard holds the lock alone, whatever mixture of
\* blocking and try operations the others are in the middle of.
Exclusion ==
    \A t \in Writers : Readers = {} /\ Writers = {t}

\* The atomic tells exactly who holds the lock: usize::MAX for a writer,
\* otherwise twice the number of readers plus the bit of a writer acquiring.
StateCountsHolders ==
    IF Writers # {} THEN state = UsizeMax
                    ELSE state \div 2 = Cardinality(Readers) /\ state # UsizeMax

\* A writer waits at its wake counter only while the lock is taken or a release
\* is about to bump the counter: once it is free, the wait ends.
ParkedWriterIsWoken ==
    \A t \in Threads :
        (pc[t] = "parked" /\ writer_wake_counter = w[t]) =>
            state >= 2 \/ \E u \in Threads : pc[u] \in {"wake", "signal"}

\* lock_shared and lock_exclusive block until acquired: with every guard
\* dropped in time, every call returns and the threads finish.
EveryCallReturns == <>Finished
=============================================================================
