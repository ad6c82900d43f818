----------------------------- MODULE MCSpinlock -----------------------------
(***************************************************************************)
(* Instances of Spinlock: which operations each of the threads calls.      *)
(***************************************************************************)
EXTENDS Spinlock, TLC

CONSTANTS r1, r2, w1, w2

\* Every operation: a single writer, and readers that keep coming.
OneWriterOps ==
    r1 :> {"lock_shared"} @@ r2 :> {"lock_shared", "try_lock_shared"}
    @@ w1 :> {"lock_exclusive", "try_lock_exclusive"}

\* Two writers and one reader, all blocking.
TwoWritersOps ==
    r1 :> {"lock_shared"} @@ w1 :> {"lock_exclusive"} @@ w2 :> {"lock_exclusive"}
=============================================================================
