------------------------------ MODULE RacyLock ------------------------------
(***************************************************************************)
(* The lazily initialised value of crates/utils-sync/src/racy_lock.rs, the *)
(* LazyLock of builds without std: threads race to publish a boxed value   *)
(* through one atomic pointer, and losers drop theirs.  The allocator may  *)
(* hand a freed cell out again.                                            *)
(***************************************************************************)
EXTENDS Naturals, FiniteSets

CONSTANTS
    Callers,    \* the threads that use the lock
    Cells,      \* addresses the allocator can return
    Null,       \* ptr::null_mut()
    Calls       \* bound: calls of force per thread

ASSUME CellsAssumption == Null \notin Cells
ASSUME CallsAssumption == Calls \in Nat

VARIABLES
    inner,      \* RacyLock::inner
    live,       \* allocated cells
    forcing,    \* what thread t does next in force
    ptr,        \* ptr[t]: the local ptr of force, and then the reference it returned
    old,        \* old[t]: the pointer a failed exchange returned
    calls,      \* calls[t]: calls thread t has still to make
    dropped     \* the lock has been dropped

racy_vars == <<inner, live, forcing, ptr, old, calls, dropped>>

NewLock ==
    /\ inner = Null
    /\ live = {}
    /\ forcing = [t \in Callers |-> "idle"]
    /\ ptr = [t \in Callers |-> Null]
    /\ old = [t \in Callers |-> Null]
    /\ calls = [t \in Callers |-> Calls]
    /\ dropped = FALSE

ForceAt(t, label) == forcing' = [forcing EXCEPT ![t] = label]

\* force: load the pointer, and return it unless it is null.
Load(t) ==
    /\ forcing[t] = "idle"
    /\ calls[t] > 0
    /\ ~dropped
    /\ calls' = [calls EXCEPT ![t] = @ - 1]
    /\ ptr' = [ptr EXCEPT ![t] = inner]
    /\ ForceAt(t, IF inner = Null THEN "init" ELSE "borrowed")
    /\ UNCHANGED <<inner, live, old, dropped>>

\* The initialiser returns and its value is boxed.
Allocate(t) ==
    /\ forcing[t] = "init"
    /\ \E c \in Cells \ live :
        /\ live' = live \cup {c}
        /\ ptr' = [ptr EXCEPT ![t] = c]
    /\ ForceAt(t, "exchange")
    /\ UNCHANGED <<inner, old, calls, dropped>>

\* The initialiser panics: force unwinds, and nothing was allocated.
InitPanics(t) ==
    /\ forcing[t] = "init"
    /\ ForceAt(t, "idle")
    /\ UNCHANGED <<inner, live, ptr, old, calls, dropped>>

\* Mutant: a loser spins until the pointer is null again.
ExchangeOrSpin(t) ==
    /\ forcing[t] = "exchange"
    /\ IF inner = Null
         THEN inner' = ptr[t] /\ ForceAt(t, "borrowed")
         ELSE UNCHANGED <<inner, forcing>>
    /\ UNCHANGED <<live, ptr, old, calls, dropped>>

\* compare_exchange(null, ptr)
Exchange(t) ==
    /\ forcing[t] = "exchange"
    /\ IF inner = Null
         THEN inner' = ptr[t] /\ ForceAt(t, "borrowed") /\ UNCHANGED old
         ELSE old' = [old EXCEPT ![t] = inner] /\ ForceAt(t, "lost") /\ UNCHANGED inner
    /\ UNCHANGED <<live, ptr, calls, dropped>>

\* Mutant: the loser returns the box it has just dropped.
DropOursKeepPtr(t) ==
    /\ forcing[t] = "lost"
    /\ live' = live \ {ptr[t]}
    /\ ForceAt(t, "borrowed")
    /\ UNCHANGED <<inner, ptr, old, calls, dropped>>

\* Mutant: the loser forgets its box.
LeakOurs(t) ==
    /\ forcing[t] = "lost"
    /\ ptr' = [ptr EXCEPT ![t] = old[t]]
    /\ ForceAt(t, "borrowed")
    /\ UNCHANGED <<inner, live, old, calls, dropped>>

\* Another thread was first: drop our box and use the pointer that is set.
DropOurs(t) ==
    /\ forcing[t] = "lost"
    /\ live' = live \ {ptr[t]}
    /\ ptr' = [ptr EXCEPT ![t] = old[t]]
    /\ ForceAt(t, "borrowed")
    /\ UNCHANGED <<inner, old, calls, dropped>>

\* The borrow returned by force ends.
EndBorrow(t) ==
    /\ forcing[t] = "borrowed"
    /\ ForceAt(t, "idle")
    /\ UNCHANGED <<inner, live, ptr, old, calls, dropped>>

\* drop takes the lock by exclusive reference: no call or borrow is left.
DropLock ==
    /\ ~dropped
    /\ \A t \in Callers : forcing[t] = "idle"
    /\ dropped' = TRUE
    /\ live' = IF inner # Null THEN live \ {inner} ELSE live
    /\ UNCHANGED <<inner, forcing, ptr, old, calls>>

\* A dropped lock is gone.
Gone == dropped /\ UNCHANGED racy_vars

ForceStep(t) ==
    \/ Load(t) \/ Allocate(t) \/ InitPanics(t) \/ Exchange(t)
    \/ DropOurs(t) \/ EndBorrow(t)

RacyNext == (\E t \in Callers : ForceStep(t)) \/ DropLock \/ Gone

RacySpec == NewLock /\ [][RacyNext]_racy_vars

----------------------------------------------------------------------------
\* Pointers, allocation and program counters have the types the code gives them.
RacyTypeOK ==
    /\ inner \in Cells \cup {Null}
    /\ live \subseteq Cells
    /\ forcing \in [Callers -> {"idle", "init", "exchange", "lost", "borrowed"}]
    /\ ptr \in [Callers -> Cells \cup {Null}]
    /\ old \in [Callers -> Cells \cup {Null}]
    /\ calls \in [Callers -> 0..Calls]
    /\ dropped \in BOOLEAN

\* Every reference force has handed out is to the one published value, and that
\* value is allocated: no thread ever sees another's box, or a freed one.
BorrowsAreTheValue ==
    \A t \in Callers : forcing[t] = "borrowed" => ptr[t] = inner /\ ptr[t] \in live

\* Boxes a thread has allocated and not yet published or dropped.
InFlight == {t \in Callers : forcing[t] \in {"exchange", "lost"}}

\* Nothing leaks and nothing is freed twice: the allocated cells are exactly the
\* published one and one apiece for the threads between allocation and exchange.
OwnedOnce ==
    /\ live = {ptr[t] : t \in InFlight} \cup (IF dropped THEN {} ELSE {inner} \ {Null})
    /\ \A t, u \in InFlight : t # u => ptr[t] # ptr[u]
    /\ ~dropped => inner \notin {ptr[t] : t \in InFlight}

\* The first write wins: once a value is published it is never replaced.
PublishedOnce == [][inner # Null => inner' = inner]_racy_vars

\* There is no blocking: a call whose own thread keeps running returns (or
\* unwinds), even if every other thread stops where it is.
ForceReturns ==
    \A t \in Callers :
        WF_racy_vars(ForceStep(t)) => (forcing[t] \in {"init", "exchange", "lost"} ~>
                                      forcing[t] \in {"borrowed", "idle"})
=============================================================================
