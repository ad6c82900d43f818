----------------------------- MODULE LockProofs -----------------------------
(***************************************************************************)
(* The locks of utils-sync.  Exclusion of the spinning reader-writer lock, *)
(* for any number of threads, calls and any mixture of operations, and the *)
(* waking of its writer when there is one; ownership of the boxes of the   *)
(* racy lock, for any number of threads, calls and addresses.              *)
(***************************************************************************)
EXTENDS Spinlock, RacyLock, FiniteSetTheorems, TLAPS

\* Exclusion is inductive together with what the atomic says about the holders.
IInv == TypeOK /\ Exclusion /\ StateCountsHolders

----------------------------------------------------------------------------
\* Arithmetic that stays in the range of usize does not wrap.
LEMMA WrapInRange ==
    ASSUME NEW n \in 0..UsizeMax
    PROVE  Wrap(n) = n
BY UsizeMaxAssumption DEF Wrap

\* Adding usize::MAX - 1 is fetch_sub(2) on a value of at least 2.
LEMMA WrapSubTwo ==
    ASSUME NEW n \in 2..UsizeMax
    PROVE  Wrap(n + UsizeMax - 1) = n - 2
BY UsizeMaxAssumption DEF Wrap

\* Wrapping keeps a value in the range of usize.
LEMMA WrapType ==
    ASSUME NEW n \in Nat
    PROVE  Wrap(n) \in 0..UsizeMax
BY UsizeMaxAssumption DEF Wrap

\* The readers are finitely many, at most one per thread.
LEMMA ReadersFinite ==
    /\ IsFiniteSet(Readers)
    /\ Cardinality(Readers) \in Nat
    /\ Cardinality(Readers) <= Cardinality(Threads)
    /\ Cardinality(Threads) \in Nat
<1>1. Readers \subseteq Threads
  BY DEF Readers
<1>2. QED
  BY <1>1, UsizeMaxAssumption, FS_Subset, FS_CardinalityType

----------------------------------------------------------------------------
\* Nobody holds a new lock.
LEMMA InitIInv == Init => IInv
<1> SUFFICES ASSUME Init PROVE IInv
  OBVIOUS
<1>1. TypeOK
  BY UsizeMaxAssumption, OpsAssumption DEF Init, TypeOK, Labels
<1>2. Readers = {} /\ Writers = {}
  BY DEF Init, Readers, Writers
<1>3. Cardinality(Readers) = 0
  BY <1>2, FS_EmptySet
<1> QED
  BY <1>1, <1>2, <1>3, UsizeMaxAssumption
     DEF IInv, Exclusion, StateCountsHolders, Init

\* Every step keeps the types; the atomics wrap.
LEMMA TypeStep ==
    ASSUME TypeOK, NEW t \in Threads, Step(t)
    PROVE  TypeOK'
<1> USE UsizeMaxAssumption DEF TypeOK, Labels, Goto, LoadState
<1>1. CASE \E op \in Ops[t] : Call(t, op)
  <2> PICK op \in Ops[t] : Call(t, op)
    BY <1>1
  <2>1. op \in Labels
    BY OpsAssumption
  <2>2. left[t] - 1 \in 0..Rounds
    BY OpsAssumption DEF Call
  <2> QED
    BY <2>1, <2>2 DEF Call
<1>2. CASE AcquireShared(t)
  <2>1. Wrap(s[t] + 2) \in 0..UsizeMax
    BY WrapType
  <2> QED
    BY <1>2, <2>1 DEF AcquireShared
<1>3. CASE RetryShared(t) \/ TrySharedFails(t)
  BY <1>3 DEF RetryShared, TrySharedFails
<1>4. CASE UnlockShared(t)
  <2>1. Wrap(state + UsizeMax - 1) \in 0..UsizeMax
    BY WrapType
  <2> QED
    BY <1>4, <2>1 DEF UnlockShared
<1>5. CASE WakeWriter(t) \/ Signal(t)
  <2>1. Wrap(writer_wake_counter + 1) \in 0..UsizeMax
    BY WrapType
  <2> QED
    BY <1>5, <2>1 DEF WakeWriter, Signal, Bump
<1>6. CASE AcquireExclusive(t)
  BY <1>6 DEF AcquireExclusive
<1>7. CASE TakeExclusiveBit(t)
  <2>1. s[t] + 1 \in 0..UsizeMax
    BY <1>7 DEF TakeExclusiveBit
  <2> QED
    BY <1>7, <2>1 DEF TakeExclusiveBit
<1>8. CASE RetryExclusive(t) \/ LoadWakeCounter(t) \/ Reload(t)
  BY <1>8 DEF RetryExclusive, LoadWakeCounter, Reload
<1>9. CASE LoadStateBeforeWait(t) \/ SpinParked(t) \/ TryExclusiveFails(t)
  BY <1>9 DEF LoadStateBeforeWait, SpinParked, TryExclusiveFails
<1>10. CASE UnlockExclusive(t)
  BY <1>10 DEF UnlockExclusive
<1> QED
  BY <1>1, <1>2, <1>3, <1>4, <1>5, <1>6, <1>7, <1>8, <1>9, <1>10 DEF Step

\* The invariant speaks of the atomic and of who holds the lock.
LEMMA SameHolders ==
    ASSUME Exclusion, StateCountsHolders,
           state' = state, Readers' = Readers, Writers' = Writers
    PROVE  Exclusion' /\ StateCountsHolders'
BY DEF Exclusion, StateCountsHolders

\* A reader enters only with the exclusive bit clear, so no writer is inside,
\* and one more thread than before fits below usize::MAX.
LEMMA AcquireSharedKeeps ==
    ASSUME IInv, NEW t \in Threads, AcquireShared(t)
    PROVE  Exclusion' /\ StateCountsHolders'
<1>1. pc' = [pc EXCEPT ![t] = "reading"] /\ t \notin Readers /\ t \notin Writers
  BY DEF AcquireShared, Goto, Readers, Writers
<1>2. Readers' = Readers \cup {t} /\ Writers' = Writers
  BY <1>1 DEF Readers, Writers, IInv, TypeOK
<1>3. Cardinality(Readers') = Cardinality(Readers) + 1
  BY <1>1, <1>2, ReadersFinite, FS_AddElement, Zenon
<1>4. Cardinality(Readers') <= Cardinality(Threads)
  <2>1. Readers' \subseteq Threads
    BY DEF Readers
  <2> QED
    BY <2>1, UsizeMaxAssumption, FS_Subset
<1>5. state % 2 = 0 /\ state' = Wrap(state + 2) /\ state \in 0..UsizeMax
  BY DEF AcquireShared, IInv, TypeOK
<1>6. Writers = {} /\ state = 2 * Cardinality(Readers)
  BY <1>5, UsizeMaxAssumption, ReadersFinite DEF IInv, StateCountsHolders
<1>7. state' = 2 * Cardinality(Readers') /\ state' # UsizeMax
  <2>1. state + 2 \in 0..UsizeMax /\ state + 2 < UsizeMax
    BY <1>3, <1>4, <1>6, ReadersFinite, UsizeMaxAssumption
  <2>2. Wrap(state + 2) = state + 2
    BY <2>1, WrapInRange
  <2> QED
    BY <1>3, <1>5, <1>6, <2>1, <2>2, ReadersFinite, UsizeMaxAssumption
<1>8. Cardinality(Readers') \in Nat
  BY <1>3, ReadersFinite
<1> QED
  BY <1>2, <1>6, <1>7, <1>8 DEF Exclusion, StateCountsHolders

\* A reader leaving lowers the count by one and leaves the bit alone.
LEMMA UnlockSharedKeeps ==
    ASSUME IInv, NEW t \in Threads, UnlockShared(t)
    PROVE  Exclusion' /\ StateCountsHolders'
<1>1. t \in Readers /\ Writers = {}
  BY DEF UnlockShared, Readers, IInv, Exclusion
<1>2. Readers' = Readers \ {t} /\ Writers' = Writers
  BY DEF UnlockShared, Goto, Readers, Writers, IInv, TypeOK
<1>3. Cardinality(Readers') = Cardinality(Readers) - 1
  BY <1>1, <1>2, ReadersFinite, FS_RemoveElement
<1>4. Cardinality(Readers') \in Nat
  BY <1>2, ReadersFinite, FS_RemoveElement, FS_CardinalityType
<1>5. state \div 2 = Cardinality(Readers) /\ state # UsizeMax /\ state \in 0..UsizeMax
  BY <1>1 DEF IInv, StateCountsHolders, TypeOK
<1>6. state \in 2..UsizeMax
  BY <1>3, <1>4, <1>5, ReadersFinite, UsizeMaxAssumption
<1>7. state' = state - 2
  BY <1>6, WrapSubTwo DEF UnlockShared
<1>8. state' \div 2 = Cardinality(Readers') /\ state' # UsizeMax
  BY <1>3, <1>5, <1>6, <1>7, ReadersFinite, UsizeMaxAssumption
<1> QED
  BY <1>1, <1>2, <1>8 DEF Exclusion, StateCountsHolders

\* A writer enters from a state of at most one: nobody is inside.
LEMMA AcquireExclusiveKeeps ==
    ASSUME IInv, NEW t \in Threads, AcquireExclusive(t)
    PROVE  Exclusion' /\ StateCountsHolders'
<1>1. state \in 0..1 /\ state' = UsizeMax
  BY DEF AcquireExclusive, IInv, TypeOK
<1>2. UsizeMax > 1
  BY UsizeMaxAssumption, ReadersFinite
<1>3. Writers = {} /\ Cardinality(Readers) = 0
  BY <1>1, <1>2, UsizeMaxAssumption, ReadersFinite DEF IInv, StateCountsHolders
<1>4. Readers = {}
  BY <1>3, ReadersFinite, FS_EmptySet
<1>5. Readers' = Readers /\ Writers' = {t}
  BY <1>3 DEF AcquireExclusive, Goto, Readers, Writers, IInv, TypeOK
<1> QED
  BY <1>1, <1>4, <1>5 DEF Exclusion, StateCountsHolders

\* The exclusive bit is taken over readers only and counts nobody.
LEMMA TakeExclusiveBitKeeps ==
    ASSUME IInv, NEW t \in Threads, TakeExclusiveBit(t)
    PROVE  Exclusion' /\ StateCountsHolders'
<1>1. state % 2 = 0 /\ state' = state + 1 /\ state \in 0..UsizeMax
  BY DEF TakeExclusiveBit, IInv, TypeOK
<1>2. Readers' = Readers /\ Writers' = Writers
  BY DEF TakeExclusiveBit, Goto, Readers, Writers, IInv, TypeOK
<1>3. Writers = {} /\ state = 2 * Cardinality(Readers)
  BY <1>1, UsizeMaxAssumption, ReadersFinite DEF IInv, StateCountsHolders
<1>4. state' \div 2 = Cardinality(Readers) /\ state' # UsizeMax
  BY <1>1, <1>3, ReadersFinite, UsizeMaxAssumption
<1> QED
  BY <1>2, <1>3, <1>4 DEF Exclusion, StateCountsHolders

\* A writer leaving leaves the lock to nobody.
LEMMA UnlockExclusiveKeeps ==
    ASSUME IInv, NEW t \in Threads, UnlockExclusive(t)
    PROVE  Exclusion' /\ StateCountsHolders'
<1>1. t \in Writers
  BY DEF UnlockExclusive, Writers
<1>2. Writers = {t} /\ Readers = {}
  BY <1>1 DEF IInv, Exclusion
<1>3. Writers' = {} /\ Readers' = {}
  BY <1>2 DEF UnlockExclusive, Goto, Readers, Writers, IInv, TypeOK
<1>4. Cardinality(Readers') = 0
  BY <1>3, FS_EmptySet
<1> QED
  BY <1>3, <1>4, UsizeMaxAssumption DEF UnlockExclusive, Exclusion, StateCountsHolders

\* Every other step neither touches state nor lets anybody in or out.
LEMMA OthersKeep ==
    ASSUME IInv, NEW t \in Threads,
           \/ \E op \in Ops[t] : Call(t, op)
           \/ RetryShared(t) \/ TrySharedFails(t) \/ WakeWriter(t) \/ RetryExclusive(t)
           \/ LoadWakeCounter(t) \/ LoadStateBeforeWait(t) \/ SpinParked(t)
           \/ Reload(t) \/ TryExclusiveFails(t) \/ Signal(t)
    PROVE  Exclusion' /\ StateCountsHolders'
<1>1. state' = state /\ Readers' = Readers /\ Writers' = Writers
  BY OpsAssumption
     DEF Call, RetryShared, TrySharedFails, WakeWriter, RetryExclusive, LoadWakeCounter,
         LoadStateBeforeWait, SpinParked, Reload, TryExclusiveFails, Signal, Goto,
         Readers, Writers, IInv, TypeOK
<1> QED
  BY <1>1, SameHolders DEF IInv

\* No step of any thread breaks the invariant.
LEMMA NextIInv == IInv /\ [Next]_vars => IInv'
<1> SUFFICES ASSUME IInv, [Next]_vars PROVE IInv'
  OBVIOUS
<1>1. ASSUME NEW t \in Threads, Step(t) PROVE IInv'
  <2>1. TypeOK'
    BY <1>1, TypeStep DEF IInv
  <2>2. Exclusion' /\ StateCountsHolders'
    BY <1>1, AcquireSharedKeeps, UnlockSharedKeeps, AcquireExclusiveKeeps,
       TakeExclusiveBitKeeps, UnlockExclusiveKeeps, OthersKeep DEF Step
  <2> QED
    BY <2>1, <2>2 DEF IInv
<1>2. CASE UNCHANGED vars
  BY <1>2 DEF vars, IInv, TypeOK, Exclusion, StateCountsHolders, Readers, Writers
<1> QED
  BY <1>1, <1>2 DEF Next, Done

\* A write guard excludes every other guard, for any number of threads calling
\* any of the four acquiring operations any number of times.
THEOREM ExclusionHolds == Spec => []Exclusion
<1>1. Spec => []IInv
  BY InitIInv, NextIInv, PTL DEF Spec
<1> QED
  BY <1>1, PTL DEF IInv

\* The lock word always tells exactly who holds the lock.
THEOREM StateCountsHoldersHolds == Spec => []StateCountsHolders
<1>1. Spec => []IInv
  BY InitIInv, NextIInv, PTL DEF Spec
<1> QED
  BY <1>1, PTL DEF IInv

----------------------------------------------------------------------------
(* With one thread that takes the lock exclusively, a parked writer is     *)
(* woken.  (With two it need not be.)                                      *)

ExclusiveOps == {"lock_exclusive", "try_lock_exclusive"}

\* Labels of lock_exclusive at which the call has set the exclusive bit.
BitLabels == {"load_wake", "load_state", "parked", "reload", "writing"}

\* Readers on their way to bump the counter.
Wakers == {t \in Threads : pc[t] = "wake"}

\* Bumps of the counter since x, the value read last, was the current one.
Bumps(x) == Wrap(writer_wake_counter + UsizeMax + 1 - x)

\* The exclusive bit is the writer's: set while it is acquiring or inside, and
\* when it goes round its loop it knows whether it is.
BitIsWriters(t) ==
    /\ pc[t] \in BitLabels => state % 2 = 1
    /\ pc[t] = "lock_exclusive" => s[t] % 2 = state % 2
    /\ pc[t] \notin BitLabels \cup {"lock_exclusive"} => state % 2 = 0

\* While the writer waits no reader comes in, so each reader inside and each on
\* its way to bump the counter bumps it once at most: it cannot come round to the
\* value the writer has read.
BumpsAreFew(t) ==
    pc[t] \in {"load_state", "parked"} =>
        Bumps(w[t]) + Cardinality(Wakers) + Cardinality(Readers) <= Cardinality(Threads)

\* Others are nowhere in the exclusive operations.
OnlyWriter(t) ==
    \A u \in Threads \ {t} : pc[u] \in {"idle", "lock_shared", "try_lock_shared", "reading", "wake"}

\* The inductive invariant for the one writer t.
WriterInv(t) ==
    /\ IInv
    /\ OnlyWriter(t) /\ BitIsWriters(t) /\ BumpsAreFew(t)
    /\ pc[t] = "parked" /\ writer_wake_counter = w[t] => state >= 2 \/ Wakers # {}

\* The counter has not moved since it was read exactly if it has the value read.
LEMMA BumpsZero ==
    ASSUME TypeOK, NEW x \in 0..UsizeMax
    PROVE  Bumps(x) \in 0..UsizeMax /\ (Bumps(x) = 0 <=> writer_wake_counter = x)
<1>1. writer_wake_counter \in 0..UsizeMax /\ UsizeMax \in Nat
  BY UsizeMaxAssumption DEF TypeOK
<1>2. CASE writer_wake_counter >= x
  <2>1. Bumps(x) = writer_wake_counter - x
    BY <1>1, <1>2 DEF Bumps, Wrap
  <2> QED
    BY <1>1, <1>2, <2>1
<1>3. CASE writer_wake_counter < x
  <2>1. Bumps(x) = writer_wake_counter + UsizeMax + 1 - x
    BY <1>1, <1>3 DEF Bumps, Wrap
  <2> QED
    BY <1>1, <1>3, <2>1
<1> QED
  BY <1>1, <1>2, <1>3

\* A bump is counted, unless it is the one that comes round.
LEMMA BumpsBump ==
    ASSUME TypeOK, NEW x \in 0..UsizeMax, Bump, Bumps(x) < UsizeMax
    PROVE  Bumps(x)' = Bumps(x) + 1
<1> DEFINE c == writer_wake_counter
<1>1. c \in 0..UsizeMax /\ UsizeMax \in Nat /\ c' = Wrap(c + 1)
  BY UsizeMaxAssumption DEF TypeOK, Bump
<1>2. c' = IF c = UsizeMax THEN 0 ELSE c + 1
  BY <1>1 DEF Wrap
<1>3. Bumps(x)' = Wrap(c' + UsizeMax + 1 - x)
  BY DEF Bumps, Wrap
<1>4. CASE c >= x
  <2>1. Bumps(x) = c - x
    BY <1>1, <1>4 DEF Bumps, Wrap
  <2>2. CASE c = UsizeMax
    <3>1. c' = 0 /\ Bumps(x)' = UsizeMax + 1 - x /\ x # 0
      BY <1>1, <1>2, <1>3, <2>1, <2>2 DEF Wrap
    <3> QED
      BY <1>1, <2>1, <2>2, <3>1
  <2>3. CASE c # UsizeMax
    <3>1. c' = c + 1 /\ c' \in 0..UsizeMax /\ c' >= x
      BY <1>1, <1>2, <1>4, <2>3
    <3>2. Bumps(x)' = c' - x
      BY <1>1, <1>3, <3>1 DEF Wrap
    <3> QED
      BY <1>1, <2>1, <3>1, <3>2
  <2> QED
    BY <2>2, <2>3
<1>5. CASE c < x
  <2>1. Bumps(x) = c + UsizeMax + 1 - x /\ c + 1 < x
    BY <1>1, <1>5 DEF Bumps, Wrap
  <2>2. c' = c + 1
    BY <1>1, <1>2, <1>5
  <2>3. Bumps(x)' = c' + UsizeMax + 1 - x
    BY <1>1, <1>3, <2>1, <2>2 DEF Wrap
  <2> QED
    BY <1>1, <2>1, <2>2, <2>3
<1> QED
  BY <1>1, <1>4, <1>5

\* The readers and the wakers are different threads.
LEMMA WakersFinite ==
    /\ IsFiniteSet(Wakers) /\ Cardinality(Wakers) \in Nat
    /\ Cardinality(Wakers) + Cardinality(Readers) <= Cardinality(Threads)
<1>1. Wakers \subseteq Threads /\ Readers \cup Wakers \subseteq Threads /\ Readers \cap Wakers = {}
  BY DEF Readers, Wakers
<1>2. IsFiniteSet(Wakers) /\ Cardinality(Wakers) \in Nat
  BY <1>1, UsizeMaxAssumption, FS_Subset, FS_CardinalityType
<1>3. Cardinality(Readers \cup Wakers) = Cardinality(Readers) + Cardinality(Wakers)
  <2>1. Cardinality(Readers \cap Wakers) = 0
    BY <1>1, FS_EmptySet
  <2>2. Cardinality(Readers \cup Wakers)
          = Cardinality(Readers) + Cardinality(Wakers) - Cardinality(Readers \cap Wakers)
    BY <1>2, ReadersFinite, FS_Union
  <2> QED
    BY <1>2, <2>1, <2>2, ReadersFinite
<1>4. Cardinality(Readers \cup Wakers) <= Cardinality(Threads)
  BY <1>1, UsizeMaxAssumption, FS_Subset
<1> QED
  BY <1>2, <1>3, <1>4, ReadersFinite

\* fetch_sub(2) by a reader: the word is at least 2 and keeps its parity.
LEMMA UnlockSharedState ==
    ASSUME IInv, NEW t \in Threads, UnlockShared(t)
    PROVE  state \in 2..UsizeMax /\ state' = state - 2 /\ state' % 2 = state % 2
<1>1. t \in Readers /\ Writers = {}
  BY DEF UnlockShared, Readers, IInv, Exclusion
<1>2. Cardinality(Readers) >= 1
  <2>1. Cardinality(Readers \ {t}) = Cardinality(Readers) - 1
        /\ Cardinality(Readers \ {t}) \in Nat
    BY <1>1, ReadersFinite, FS_RemoveElement, FS_CardinalityType
  <2> QED
    BY <2>1, ReadersFinite
<1>3. state \div 2 = Cardinality(Readers) /\ state \in 0..UsizeMax
  BY <1>1 DEF IInv, StateCountsHolders, TypeOK
<1>4. state \in 2..UsizeMax
  BY <1>2, <1>3, ReadersFinite, UsizeMaxAssumption
<1>5. state' = state - 2
  BY <1>4, WrapSubTwo DEF UnlockShared
<1> QED
  BY <1>4, <1>5, UsizeMaxAssumption

\* A reader enters over an even word and leaves it even.
LEMMA AcquireSharedState ==
    ASSUME IInv, NEW t \in Threads, AcquireShared(t)
    PROVE  state % 2 = 0 /\ state' % 2 = 0
<1>1. state % 2 = 0 /\ state' = Wrap(state + 2) /\ state \in 0..UsizeMax
  BY DEF AcquireShared, IInv, TypeOK
<1>2. CASE state + 2 <= UsizeMax
  <2>1. state' = state + 2
    BY <1>1, <1>2, WrapInRange, UsizeMaxAssumption
  <2> QED
    BY <1>1, <2>1, UsizeMaxAssumption
<1>3. CASE state + 2 > UsizeMax
  <2>1. state + 2 = UsizeMax + 1
    BY <1>1, <1>3, UsizeMaxAssumption
  <2>2. state' = 0
    BY <1>1, <2>1, UsizeMaxAssumption DEF Wrap
  <2> QED
    BY <1>1, <2>2
<1> QED
  BY <1>1, <1>2, <1>3, UsizeMaxAssumption

\* A step that leaves the atomics, the readers, the wakers and the writer alone.
LEMMA WriterUndisturbed ==
    ASSUME NEW t \in Threads, WriterInv(t), IInv', OnlyWriter(t)',
           state' = state, writer_wake_counter' = writer_wake_counter,
           Readers' = Readers, Wakers' = Wakers,
           pc'[t] = pc[t], s'[t] = s[t], w'[t] = w[t]
    PROVE  WriterInv(t)'
BY DEF WriterInv, BitIsWriters, BumpsAreFew, Bumps, Wrap

\* Steps of the threads that only read.
LEMMA ReaderStep ==
    ASSUME NEW t \in Threads, WriterInv(t), IInv', NEW u \in Threads \ {t}, Step(u),
           Ops[u] \cap ExclusiveOps = {}
    PROVE  WriterInv(t)'
<1> DEFINE shared == {"idle", "lock_shared", "try_lock_shared", "reading", "wake"}
<1>1. /\ TypeOK /\ pc \in [Threads -> Labels] /\ w[t] \in 0..UsizeMax /\ state \in 0..UsizeMax
      /\ IInv /\ pc[u] \in shared
  BY DEF WriterInv, IInv, TypeOK, OnlyWriter
<1>2. CASE \E op \in Ops[u] : Call(u, op)
  <2>1. PICK op \in Ops[u] : Call(u, op)
    BY <1>2
  <2>2. op \in {"lock_shared", "try_lock_shared"}
    BY OpsAssumption DEF ExclusiveOps
  <2>3. Readers' = Readers /\ Wakers' = Wakers /\ OnlyWriter(t)'
    BY <1>1, <2>1, <2>2 DEF Call, Goto, Readers, Wakers, OnlyWriter, WriterInv
  <2> QED
    BY <1>1, <2>1, <2>3, WriterUndisturbed DEF Call, Goto, LoadState, IInv, TypeOK
<1>3. CASE RetryShared(u)
  <2>1. Readers' = Readers /\ Wakers' = Wakers /\ OnlyWriter(t)'
    BY <1>3 DEF RetryShared, Readers, Wakers, OnlyWriter, WriterInv
  <2> QED
    BY <1>1, <1>3, <2>1, WriterUndisturbed DEF RetryShared, LoadState, IInv, TypeOK
<1>4. CASE TrySharedFails(u)
  <2>1. Readers' = Readers /\ Wakers' = Wakers /\ OnlyWriter(t)'
    BY <1>1, <1>4 DEF TrySharedFails, Goto, Readers, Wakers, OnlyWriter, WriterInv
  <2> QED
    BY <1>1, <1>4, <2>1, WriterUndisturbed DEF TrySharedFails, Goto
<1>5. CASE AcquireShared(u)
  <2>1. state % 2 = 0 /\ state' % 2 = 0
    BY <1>1, <1>5, AcquireSharedState
  <2>2. pc'[t] = pc[t] /\ s'[t] = s[t] /\ OnlyWriter(t)'
    BY <1>1, <1>5 DEF AcquireShared, Goto, OnlyWriter, WriterInv
  <2>3. pc[t] \notin BitLabels
    BY <2>1 DEF WriterInv, BitIsWriters
  <2> QED
    BY <2>1, <2>2, <2>3 DEF WriterInv, BitIsWriters, BumpsAreFew, BitLabels
<1>6. CASE UnlockShared(u)
  <2>1. state \in 2..UsizeMax /\ state' = state - 2 /\ state' % 2 = state % 2
    BY <1>1, <1>6, UnlockSharedState
  <2>2. /\ pc'[t] = pc[t] /\ s'[t] = s[t] /\ w'[t] = w[t] /\ OnlyWriter(t)'
        /\ writer_wake_counter' = writer_wake_counter
    BY <1>1, <1>6 DEF UnlockShared, Goto, OnlyWriter, WriterInv
  <2>3. u \in Readers /\ Readers' = Readers \ {u} /\ u \notin Wakers
    BY <1>1, <1>6 DEF UnlockShared, Goto, Readers, Wakers
  <2>4. Wakers' = IF state = 3 THEN Wakers \cup {u} ELSE Wakers
    BY <1>1, <1>6 DEF UnlockShared, Goto, Wakers
  <2>5. Cardinality(Wakers') + Cardinality(Readers') <= Cardinality(Wakers) + Cardinality(Readers)
        /\ Cardinality(Wakers') \in Nat /\ Cardinality(Readers') \in Nat
    <3>1. Cardinality(Readers') = Cardinality(Readers) - 1 /\ Cardinality(Readers') \in Nat
      BY <2>3, ReadersFinite, FS_RemoveElement, FS_CardinalityType
    <3>2. Cardinality(Wakers') \in {Cardinality(Wakers), Cardinality(Wakers) + 1}
      BY <2>3, <2>4, WakersFinite, FS_AddElement, Zenon
    <3> QED
      BY <3>1, <3>2, ReadersFinite, WakersFinite
  <2>6. BumpsAreFew(t)'
    <3>1. Bumps(w[t])' = Bumps(w[t]) /\ Bumps(w[t]) \in 0..UsizeMax
      BY <1>1, <2>2, BumpsZero DEF Bumps, Wrap
    <3> QED
      BY <2>2, <2>5, <3>1, ReadersFinite, WakersFinite, UsizeMaxAssumption
         DEF BumpsAreFew, WriterInv
  <2>7. ASSUME pc'[t] = "parked" PROVE state' >= 2 \/ Wakers' # {}
    <3>1. state % 2 = 1
      BY <2>2, <2>7 DEF WriterInv, BitIsWriters, BitLabels
    <3>2. CASE state = 3
      BY <2>4, <3>2
    <3>3. CASE state # 3
      BY <2>1, <3>1, <3>3, UsizeMaxAssumption
    <3> QED
      BY <3>2, <3>3
  <2>8. BitIsWriters(t)'
    BY <2>1, <2>2 DEF WriterInv, BitIsWriters
  <2> QED
    BY <2>2, <2>6, <2>7, <2>8 DEF WriterInv
<1>7. CASE WakeWriter(u)
  <2>1. /\ pc'[t] = pc[t] /\ s'[t] = s[t] /\ w'[t] = w[t] /\ OnlyWriter(t)' /\ state' = state
        /\ Bump
    BY <1>1, <1>7 DEF WakeWriter, Goto, OnlyWriter, WriterInv
  <2>2. u \in Wakers /\ Readers' = Readers /\ Wakers' = Wakers \ {u}
    BY <1>1, <1>7 DEF WakeWriter, Goto, Readers, Wakers
  <2>3. Cardinality(Wakers') = Cardinality(Wakers) - 1 /\ Cardinality(Wakers') \in Nat
    BY <2>2, WakersFinite, FS_RemoveElement, FS_CardinalityType
  <2>4. BitIsWriters(t)'
    BY <2>1 DEF WriterInv, BitIsWriters
  <2>5. ASSUME pc[t] \in {"load_state", "parked"}
        PROVE  Bumps(w[t])' = Bumps(w[t]) + 1 /\ Bumps(w[t]) \in 0..UsizeMax
    <3>1. Bumps(w[t]) \in 0..UsizeMax
      BY <1>1, BumpsZero
    <3>2. Bumps(w[t]) + Cardinality(Wakers) + Cardinality(Readers) <= Cardinality(Threads)
      BY <2>5 DEF WriterInv, BumpsAreFew
    <3>3. Bumps(w[t]) < UsizeMax
      BY <3>1, <3>2, ReadersFinite, WakersFinite, UsizeMaxAssumption
    <3>4. Bumps(w[t])' = Wrap(writer_wake_counter' + UsizeMax + 1 - w[t])
      BY <2>1 DEF Bumps, Wrap
    <3> QED
      BY <1>1, <2>1, <3>1, <3>3, <3>4, BumpsBump DEF Bumps
  <2>6. BumpsAreFew(t)'
    BY <2>1, <2>2, <2>3, <2>5, ReadersFinite, WakersFinite, UsizeMaxAssumption
       DEF BumpsAreFew, WriterInv
  <2>7. ASSUME pc'[t] = "parked" PROVE writer_wake_counter' # w'[t]
    <3>1. Bumps(w[t])' # 0
      BY <2>1, <2>5, <2>7, UsizeMaxAssumption
    <3>2. TypeOK' /\ w'[t] \in 0..UsizeMax /\ w'[t] = w[t]
      BY <2>1 DEF IInv, TypeOK
    <3> QED
      BY <3>1, <3>2, UsizeMaxAssumption DEF TypeOK, Bumps, Wrap
  <2> QED
    BY <2>1, <2>4, <2>6, <2>7 DEF WriterInv
<1> QED
  <2>1. \/ \E op \in Ops[u] : Call(u, op)
        \/ RetryShared(u) \/ TrySharedFails(u) \/ AcquireShared(u) \/ UnlockShared(u)
        \/ WakeWriter(u)
    BY <1>1 DEF Step, AcquireExclusive, TakeExclusiveBit, RetryExclusive, LoadWakeCounter,
       LoadStateBeforeWait, SpinParked, Reload, TryExclusiveFails, UnlockExclusive, Signal
  <2> QED
    BY <2>1, <1>2, <1>3, <1>4, <1>5, <1>6, <1>7

\* Steps of the writer itself.
LEMMA WriterStep ==
    ASSUME NEW t \in Threads, WriterInv(t), IInv', Step(t)
    PROVE  WriterInv(t)'
<1>1. /\ IInv /\ TypeOK /\ pc \in [Threads -> Labels] /\ s \in [Threads -> 0..UsizeMax]
      /\ w \in [Threads -> 0..UsizeMax] /\ state \in 0..UsizeMax
      /\ OnlyWriter(t) /\ BitIsWriters(t)
  BY DEF WriterInv, IInv, TypeOK
<1>2. OnlyWriter(t)'
  <2>1. \A u \in Threads \ {t} : pc'[u] = pc[u]
    BY <1>1 DEF Step, Call, AcquireShared, RetryShared, TrySharedFails, UnlockShared, WakeWriter,
       AcquireExclusive, TakeExclusiveBit, RetryExclusive, LoadWakeCounter, LoadStateBeforeWait,
       SpinParked, Reload, TryExclusiveFails, UnlockExclusive, Signal, Goto
  <2> QED
    BY <1>1, <2>1 DEF OnlyWriter
<1>3. ASSUME pc'[t] \notin {"load_state", "parked"}, BitIsWriters(t)'
      PROVE  WriterInv(t)'
  BY <1>2, <1>3 DEF WriterInv, BumpsAreFew
<1>4. CASE \E op \in Ops[t] : Call(t, op)
  <2>1. PICK op \in Ops[t] : Call(t, op)
    BY <1>4
  <2>2. /\ pc[t] = "idle" /\ pc'[t] = op /\ s'[t] = state /\ state' = state
        /\ op \in {"lock_shared", "try_lock_shared", "lock_exclusive", "try_lock_exclusive"}
    BY <1>1, <2>1, OpsAssumption, Zenon DEF Call, Goto, LoadState
  <2>3. BitIsWriters(t)'
    BY <1>1, <2>2 DEF BitIsWriters, BitLabels
  <2> QED
    BY <1>3, <2>2, <2>3
<1>5. CASE AcquireShared(t) \/ UnlockShared(t)
  <2>1. state' % 2 = 0
    BY <1>1, <1>5, AcquireSharedState, UnlockSharedState
       DEF UnlockShared, BitIsWriters, BitLabels
  <2>2. pc'[t] \in {"reading", "wake", "idle"}
    BY <1>1, <1>5 DEF AcquireShared, UnlockShared, Goto
  <2> QED
    BY <1>3, <2>1, <2>2 DEF BitIsWriters, BitLabels
<1>6. CASE RetryShared(t) \/ TrySharedFails(t) \/ WakeWriter(t) \/ TryExclusiveFails(t) \/ Signal(t)
  <2>1. /\ pc[t] \in {"lock_shared", "try_lock_shared", "wake", "try_lock_exclusive", "signal"}
        /\ pc'[t] \in {"lock_shared", "idle"} /\ state' = state
    BY <1>1, <1>6 DEF RetryShared, TrySharedFails, WakeWriter, TryExclusiveFails, Signal, Goto
  <2> QED
    BY <1>1, <1>3, <2>1 DEF BitIsWriters, BitLabels
<1>7. CASE AcquireExclusive(t) \/ TakeExclusiveBit(t)
  <2>1. state' % 2 = 1 /\ pc'[t] \in {"writing", "load_wake"}
    BY <1>1, <1>7, UsizeMaxAssumption DEF AcquireExclusive, TakeExclusiveBit, Goto
  <2> QED
    BY <1>3, <2>1 DEF BitIsWriters, BitLabels
<1>8. CASE RetryExclusive(t) \/ Reload(t)
  <2>1. pc'[t] = "lock_exclusive" /\ s'[t] = state /\ state' = state
    BY <1>1, <1>8 DEF RetryExclusive, Reload, Goto, LoadState
  <2> QED
    BY <1>3, <2>1 DEF BitIsWriters, BitLabels
<1>9. CASE LoadWakeCounter(t)
  <2>1. /\ pc'[t] = "load_state" /\ state' = state
        /\ w'[t] = writer_wake_counter /\ writer_wake_counter' = writer_wake_counter
    BY <1>1, <1>9 DEF LoadWakeCounter, Goto
  <2>2. state % 2 = 1
    BY <1>1, <1>9 DEF LoadWakeCounter, BitIsWriters, BitLabels
  <2>3. Bumps(w[t])' = 0
    <3>1. Bumps(w[t])' = Wrap(writer_wake_counter' + UsizeMax + 1 - w'[t])
      BY DEF Bumps, Wrap
    <3>2. writer_wake_counter' + UsizeMax + 1 - w'[t] = UsizeMax + 1
      BY <1>1, <2>1, UsizeMaxAssumption DEF TypeOK
    <3> QED
      BY <3>1, <3>2, UsizeMaxAssumption DEF Wrap
  <2>4. Readers' = Readers /\ Wakers' = Wakers
    BY <1>1, <1>9 DEF LoadWakeCounter, Goto, Readers, Wakers
  <2>5. BumpsAreFew(t)'
    BY <2>3, <2>4, WakersFinite, ReadersFinite DEF BumpsAreFew
  <2> QED
    BY <1>2, <2>1, <2>2, <2>5 DEF WriterInv, BitIsWriters, BitLabels
<1>10. CASE LoadStateBeforeWait(t)
  <2>1. /\ pc[t] = "load_state" /\ pc'[t] = IF state >= 2 THEN "parked" ELSE "lock_exclusive"
        /\ s'[t] = state /\ state' = state /\ w' = w
        /\ writer_wake_counter' = writer_wake_counter
    BY <1>1, <1>10 DEF LoadStateBeforeWait, Goto, LoadState
  <2>2. Readers' = Readers /\ Wakers' = Wakers
    BY <1>1, <1>10 DEF LoadStateBeforeWait, Goto, Readers, Wakers
  <2>3. BitIsWriters(t)'
    BY <1>1, <2>1 DEF BitIsWriters, BitLabels
  <2>4. BumpsAreFew(t)'
    BY <2>1, <2>2 DEF BumpsAreFew, WriterInv, Bumps, Wrap
  <2> QED
    BY <1>2, <2>1, <2>3, <2>4 DEF WriterInv
<1>11. CASE SpinParked(t)
  <2>1. CASE writer_wake_counter = w[t]
    <3>1. UNCHANGED vars
      BY <1>1, <1>11, <2>1 DEF SpinParked, Goto, vars
    <3> QED
      BY <3>1 DEF vars, WriterInv, IInv, TypeOK, Exclusion, StateCountsHolders, Readers, Writers,
         Wakers, OnlyWriter, BitIsWriters, BumpsAreFew, Bumps, Wrap
  <2>2. CASE writer_wake_counter # w[t]
    <3>1. pc[t] = "parked" /\ pc'[t] = "reload" /\ state' = state
      BY <1>1, <1>11, <2>2 DEF SpinParked, Goto
    <3> QED
      BY <1>1, <1>3, <3>1 DEF BitIsWriters, BitLabels
  <2> QED
    BY <2>1, <2>2
<1>12. CASE UnlockExclusive(t)
  <2>1. pc'[t] = "signal" /\ state' % 2 = 0
    BY <1>1, <1>12 DEF UnlockExclusive, Goto
  <2> QED
    BY <1>3, <2>1 DEF BitIsWriters, BitLabels
<1> QED
  BY <1>4, <1>5, <1>6, <1>7, <1>8, <1>9, <1>10, <1>11, <1>12 DEF Step

\* If one thread takes the lock exclusively and the others only read, a writer
\* that waits at its counter while the lock is free is about to be woken, however
\* many readers come and go and however late their bumps are.
THEOREM ParkedWriterIsWokenHolds ==
    ASSUME NEW t \in Threads, \A u \in Threads \ {t} : Ops[u] \cap ExclusiveOps = {}
    PROVE  Spec => []ParkedWriterIsWoken
<1>1. Init => WriterInv(t)
  <2> SUFFICES ASSUME Init PROVE WriterInv(t)
    OBVIOUS
  <2>1. IInv /\ \A u \in Threads : pc[u] = "idle"
    BY InitIInv DEF Init
  <2> QED
    BY <2>1 DEF Init, WriterInv, OnlyWriter, BitIsWriters, BumpsAreFew, BitLabels
<1>2. WriterInv(t) /\ [Next]_vars => WriterInv(t)'
  <2> SUFFICES ASSUME WriterInv(t), [Next]_vars PROVE WriterInv(t)'
    OBVIOUS
  <2>1. IInv'
    BY NextIInv DEF WriterInv
  <2>2. ASSUME NEW u \in Threads, Step(u) PROVE WriterInv(t)'
    BY <2>1, <2>2, ReaderStep, WriterStep
  <2>3. CASE UNCHANGED vars
    BY <2>3 DEF vars, WriterInv, IInv, TypeOK, Exclusion, StateCountsHolders, Readers, Writers,
       Wakers, OnlyWriter, BitIsWriters, BumpsAreFew, Bumps, Wrap
  <2> QED
    BY <2>2, <2>3 DEF Next, Done
<1>3. WriterInv(t) => ParkedWriterIsWoken
  BY DEF WriterInv, OnlyWriter, Wakers, ParkedWriterIsWoken
<1> QED
  BY <1>1, <1>2, <1>3, PTL DEF Spec

----------------------------------------------------------------------------
(* The racy lock                                                           *)

\* OwnedOnce, cell by cell.
Owned ==
    /\ \A t \in InFlight : ptr[t] \in live /\ ptr[t] # inner
    /\ \A t, u \in InFlight : t # u => ptr[t] # ptr[u]
    /\ ~dropped /\ inner # Null => inner \in live
    /\ dropped => inner \notin live
    /\ \A c \in live : c = inner \/ \E t \in InFlight : ptr[t] = c

\* The inductive invariant: a failed exchange returned the published pointer,
\* and a dropped lock has no calls.
RacyInv ==
    /\ RacyTypeOK
    /\ BorrowsAreTheValue
    /\ Owned
    /\ \A t \in Callers : forcing[t] = "lost" => old[t] = inner /\ inner # Null
    /\ \A t \in Callers : forcing[t] = "borrowed" => inner # Null
    /\ dropped => \A t \in Callers : forcing[t] = "idle"

\* A new lock owns nothing.
LEMMA InitRacyInv == NewLock => RacyInv
<1> SUFFICES ASSUME NewLock PROVE RacyInv
  OBVIOUS
<1>1. RacyTypeOK
  <2>1. calls \in [Callers -> 0..Calls]
    BY CallsAssumption DEF NewLock
  <2>2. /\ inner \in Cells \cup {Null}
        /\ live \subseteq Cells
        /\ forcing \in [Callers -> {"idle", "init", "exchange", "lost", "borrowed"}]
        /\ ptr \in [Callers -> Cells \cup {Null}]
        /\ old \in [Callers -> Cells \cup {Null}]
    BY DEF NewLock
  <2>3. dropped \in BOOLEAN
    BY Zenon DEF NewLock
  <2> QED
    BY <2>1, <2>2, <2>3 DEF RacyTypeOK
<1>2. \A t \in Callers : forcing[t] = "idle"
  BY DEF NewLock
<1>3. InFlight = {}
  BY <1>2 DEF InFlight
<1>4. Owned
  BY <1>3 DEF NewLock, Owned
<1> QED
  BY <1>1, <1>2, <1>4 DEF RacyInv, BorrowsAreTheValue

\* A call that finds a value borrows it.
LEMMA LoadKeeps ==
    ASSUME RacyInv, NEW t \in Callers, Load(t)
    PROVE  RacyInv'
<1> USE CellsAssumption, CallsAssumption DEF Load, ForceAt, RacyInv
<1>1. RacyTypeOK'
  <2>1. calls[t] - 1 \in 0..Calls
    BY DEF RacyTypeOK
  <2> QED
    BY <2>1 DEF RacyTypeOK
<1>2. InFlight' = InFlight /\ \A u \in InFlight : u # t
  BY DEF InFlight, RacyTypeOK
<1>3. Owned'
  BY <1>2 DEF Owned, InFlight, RacyTypeOK
<1>4. BorrowsAreTheValue'
  BY DEF BorrowsAreTheValue, Owned, RacyTypeOK
<1> QED
  BY <1>1, <1>3, <1>4 DEF RacyTypeOK

\* A fresh box is nobody else's.
LEMMA AllocateKeeps ==
    ASSUME RacyInv, NEW t \in Callers, Allocate(t)
    PROVE  RacyInv'
<1> USE CellsAssumption DEF ForceAt, RacyInv
<1> PICK c \in Cells \ live : live' = live \cup {c} /\ ptr' = [ptr EXCEPT ![t] = c]
  BY Zenon DEF Allocate
<1>1. forcing' = [forcing EXCEPT ![t] = "exchange"] /\ forcing[t] = "init" /\ inner' = inner
      /\ old' = old /\ calls' = calls /\ dropped' = dropped
  BY DEF Allocate
<1>2. RacyTypeOK'
  BY <1>1 DEF RacyTypeOK
<1>3. InFlight' = InFlight \cup {t} /\ t \notin InFlight
  BY <1>1 DEF InFlight, RacyTypeOK
<1>4. BorrowsAreTheValue'
  BY <1>1 DEF BorrowsAreTheValue, RacyTypeOK
<1>5. ~dropped
  BY <1>1
<1>6. c # inner
  BY <1>5 DEF Owned
<1>7. Owned'
  BY <1>1, <1>3, <1>5, <1>6 DEF Owned, InFlight, RacyTypeOK
<1> QED
  BY <1>1, <1>2, <1>4, <1>7 DEF RacyTypeOK

\* Publishing moves a box from its thread to the lock; losing moves nothing.
LEMMA ExchangeKeeps ==
    ASSUME RacyInv, NEW t \in Callers, Exchange(t)
    PROVE  RacyInv'
<1> USE CellsAssumption DEF ForceAt, RacyInv
<1>1. t \in InFlight /\ ptr[t] \in Cells /\ ~dropped
  BY DEF Exchange, InFlight, Owned, RacyTypeOK
<1>2. CASE inner = Null
  <2>1. inner' = ptr[t] /\ forcing' = [forcing EXCEPT ![t] = "borrowed"] /\ live' = live
        /\ ptr' = ptr /\ old' = old /\ calls' = calls /\ dropped' = dropped
    BY <1>2 DEF Exchange
  <2>2. InFlight' = InFlight \ {t}
    BY <2>1 DEF InFlight, RacyTypeOK
  <2>3. RacyTypeOK'
    BY <1>1, <2>1 DEF RacyTypeOK
  <2>4. BorrowsAreTheValue'
    BY <1>1, <1>2, <2>1 DEF BorrowsAreTheValue, Owned, RacyTypeOK
  <2>5. Owned'
    BY <1>1, <1>2, <2>1, <2>2 DEF Owned, InFlight, RacyTypeOK
  <2> QED
    BY <1>1, <1>2, <2>1, <2>3, <2>4, <2>5 DEF RacyTypeOK
<1>3. CASE inner # Null
  <2>1. old' = [old EXCEPT ![t] = inner] /\ forcing' = [forcing EXCEPT ![t] = "lost"]
        /\ live' = live /\ inner' = inner /\ ptr' = ptr /\ calls' = calls
        /\ dropped' = dropped
    BY <1>3 DEF Exchange
  <2>2. InFlight' = InFlight
    BY <1>1, <2>1 DEF InFlight, RacyTypeOK
  <2>3. RacyTypeOK' /\ BorrowsAreTheValue' /\ Owned'
    BY <2>1, <2>2 DEF RacyTypeOK, BorrowsAreTheValue, Owned, InFlight
  <2> QED
    BY <1>1, <1>3, <2>1, <2>3 DEF RacyTypeOK
<1> QED
  BY <1>2, <1>3, Zenon

\* A loser frees its own box and nobody else's.
LEMMA DropOursKeeps ==
    ASSUME RacyInv, NEW t \in Callers, DropOurs(t)
    PROVE  RacyInv'
<1> USE CellsAssumption DEF DropOurs, ForceAt, RacyInv
<1>1. t \in InFlight /\ ~dropped /\ inner # Null /\ old[t] = inner
  BY DEF InFlight
<1>2. InFlight' = InFlight \ {t}
  BY DEF InFlight, RacyTypeOK
<1>3. RacyTypeOK'
  BY <1>1 DEF RacyTypeOK
<1>4. inner \in live /\ ptr[t] # inner /\ inner' = inner
  BY <1>1 DEF Owned
<1>5. BorrowsAreTheValue'
  BY <1>1, <1>4 DEF BorrowsAreTheValue, RacyTypeOK
<1>6. Owned'
  BY <1>1, <1>2, <1>4 DEF Owned, InFlight, RacyTypeOK
<1> QED
  BY <1>1, <1>3, <1>5, <1>6 DEF RacyTypeOK

\* Ending a borrow, unwinding and stuttering own and free nothing.
LEMMA OtherForcesKeep ==
    ASSUME RacyInv, NEW t \in Callers, InitPanics(t) \/ EndBorrow(t)
    PROVE  RacyInv'
<1> USE CellsAssumption DEF InitPanics, EndBorrow, ForceAt, RacyInv
<1>1. InFlight' = InFlight
  BY DEF InFlight, RacyTypeOK
<1>2. RacyTypeOK' /\ BorrowsAreTheValue'
  BY DEF RacyTypeOK, BorrowsAreTheValue
<1>3. Owned'
  BY <1>1 DEF Owned, InFlight
<1> QED
  BY <1>2, <1>3 DEF RacyTypeOK

\* Dropping the lock frees the published box, the only one left.
LEMMA DropLockKeeps ==
    ASSUME RacyInv, DropLock
    PROVE  RacyInv'
<1> USE CellsAssumption DEF DropLock, RacyInv
<1>1. InFlight = {} /\ InFlight' = {}
  BY DEF InFlight
<1>2. RacyTypeOK' /\ BorrowsAreTheValue'
  BY DEF RacyTypeOK, BorrowsAreTheValue
<1>3. Owned'
  BY <1>1 DEF Owned, RacyTypeOK
<1> QED
  BY <1>2, <1>3

\* No step breaks the invariant.
LEMMA NextRacyInv == RacyInv /\ [RacyNext]_racy_vars => RacyInv'
<1> SUFFICES ASSUME RacyInv, [RacyNext]_racy_vars PROVE RacyInv'
  OBVIOUS
<1>1. ASSUME NEW t \in Callers, ForceStep(t) PROVE RacyInv'
  <2>1. CASE Load(t)
    BY <2>1, LoadKeeps
  <2>2. CASE Allocate(t)
    BY <2>2, AllocateKeeps
  <2>3. CASE Exchange(t)
    BY <2>3, ExchangeKeeps
  <2>4. CASE DropOurs(t)
    BY <2>4, DropOursKeeps
  <2>5. CASE InitPanics(t) \/ EndBorrow(t)
    BY <2>5, OtherForcesKeep
  <2> QED
    BY <1>1, <2>1, <2>2, <2>3, <2>4, <2>5, Zenon DEF ForceStep
<1>2. CASE DropLock
  BY <1>2, DropLockKeeps
<1>3. CASE UNCHANGED racy_vars
  BY <1>3, Zenon DEF racy_vars, RacyInv, RacyTypeOK, BorrowsAreTheValue, Owned, InFlight
<1> QED
  BY <1>1, <1>2, <1>3, Zenon DEF RacyNext, Gone

\* Owned says of each cell what OwnedOnce says of the set of them.
LEMMA OwnedIsOwnedOnce == RacyInv => OwnedOnce
<1> SUFFICES ASSUME RacyInv PROVE OwnedOnce
  OBVIOUS
<1>1. dropped => InFlight = {}
  BY DEF RacyInv, InFlight
<1>2. ASSUME NEW c \in live
      PROVE  c \in {ptr[t] : t \in InFlight} \cup (IF dropped THEN {} ELSE {inner} \ {Null})
  BY <1>2, CellsAssumption DEF RacyInv, Owned, RacyTypeOK
<1>3. {ptr[t] : t \in InFlight} \subseteq live
  BY DEF RacyInv, Owned
<1>4. (IF dropped THEN {} ELSE {inner} \ {Null}) \subseteq live
  BY DEF RacyInv, Owned
<1> QED
  BY <1>2, <1>3, <1>4 DEF RacyInv, Owned, OwnedOnce

\* Every reference handed out by force is to the one published, allocated value.
THEOREM BorrowsAreTheValueHolds == RacySpec => []BorrowsAreTheValue
<1>1. RacySpec => []RacyInv
  BY InitRacyInv, NextRacyInv, PTL DEF RacySpec
<1> QED
  BY <1>1, PTL DEF RacyInv

\* No box leaks and none is freed twice, in every race.
THEOREM OwnedOnceHolds == RacySpec => []OwnedOnce
<1>1. RacySpec => []RacyInv
  BY InitRacyInv, NextRacyInv, PTL DEF RacySpec
<1> QED
  BY <1>1, OwnedIsOwnedOnce, PTL

\* The first published value stays.
THEOREM PublishedOnceHolds == RacySpec => PublishedOnce
<1>1. [RacyNext]_racy_vars => (inner # Null => inner' = inner)
  BY DEF RacyNext, ForceStep, Load, Allocate, InitPanics, Exchange,
         DropOurs, EndBorrow, DropLock, Gone, racy_vars
<1> QED
  BY <1>1, PTL DEF RacySpec, PublishedOnce
=============================================================================
