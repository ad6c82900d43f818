--------------------------- MODULE StreamedHasher ---------------------------
(***************************************************************************)
(* execute_and_build_trace_sync of processor/src/fast/execution_api.rs:    *)
(* the calling thread executes the program and sends every hasher request  *)
(* down a channel, while a Rayon task builds the hasher chiplet from it.   *)
(* An execution is abstracted to the rows its hasher requests take, how it *)
(* ends, and the other row counts of its trace.                            *)
(***************************************************************************)
EXTENDS TraceBudget

CONSTANTS
    Executions,  \* records: requests (rows of each hasher request), ending, rows
    Budgets,     \* values of max_prover_memory_bytes
    Workers,     \* threads that can be in the Rayon pool
    Caller       \* the calling thread, a worker or not

ASSUME ExecutionsAssumption ==
    /\ Budgets \subseteq Nat
    /\ \A e \in Executions :
        /\ e.ending \in {"ok", "error", "panic"}
        /\ e.requests \in Seq(Nat)
        /\ e.rows.core \in Nat /\ e.rows.non_hasher \in Nat /\ e.rows.permutations \in Nat

ASSUME WorkersAssumption == Workers \cap {"none", "queued", "finished"} = {}

VARIABLES
    execution, budget, pool,  \* inputs: the program run, its budget, the pool
    pc,         \* where the caller is
    sent,       \* hasher requests recorded so far
    channel,    \* requests sent and not yet received
    senderAlive, receiverAlive,
    builder,    \* the spawned task: who runs it, or its state
    rows,       \* rows of the hasher being built
    hasher,     \* the slot the builder writes its result to
    foreign,    \* workers busy with tasks of other callers
    result      \* what the caller returns

inputs == <<execution, budget, pool>>
vars == <<execution, budget, pool, pc, sent, channel, senderAlive, receiverAlive,
          builder, rows, hasher, foreign, result>>

Init ==
    /\ execution \in Executions
    /\ budget \in Budgets
    /\ pool \in SUBSET Workers \ {{}}
    /\ pc = "entry"
    /\ sent = 0
    /\ channel = << >>
    /\ senderAlive = FALSE /\ receiverAlive = FALSE
    /\ builder = "none"
    /\ rows = 0
    /\ hasher = None
    /\ foreign \in SUBSET (pool \ {Caller})
    /\ result = None

cap == max_trace_len(budget)

\* The streamed path, or the buffered one when the caller is the only worker.
rayon_has_no_parallel_worker == Cardinality(pool) = 1 /\ Caller \in pool

Enter ==
    /\ pc = "entry"
    /\ IF rayon_has_no_parallel_worker
         THEN pc' = "buffered" /\ UNCHANGED <<senderAlive, receiverAlive, builder>>
         ELSE /\ pc' = "execute"
              /\ senderAlive' = TRUE /\ receiverAlive' = TRUE
              /\ builder' = "queued"
    /\ UNCHANGED <<inputs, sent, channel, rows, hasher, foreign, result>>

\* Rows of the hasher after n of the requests.
hasher_rows(requests) ==
    LET total[n \in 0..Len(requests)] == IF n = 0 THEN 0 ELSE total[n - 1] + requests[n]
    IN  total

\* The buffered path: execute_for_proving_sync, then build_trace_with_budget.
buffered_result(e, b) ==
    IF e.ending # "ok" THEN [kind |-> e.ending, cap |-> None]
    ELSE build_trace_inner(e.rows, hasher_rows(e.requests)[Len(e.requests)], b)

Buffered ==
    /\ pc = "buffered"
    /\ result' = buffered_result(execution, budget)
    /\ pc' = "done"
    /\ UNCHANGED <<inputs, sent, channel, senderAlive, receiverAlive, builder, rows,
                   hasher, foreign>>

----------------------------------------------------------------------------
\* The next hasher request: a send to a closed channel is ignored.
Record ==
    /\ pc = "execute"
    /\ sent < Len(execution.requests)
    /\ sent' = sent + 1
    /\ channel' = IF receiverAlive THEN Append(channel, execution.requests[sent']) ELSE channel
    /\ UNCHANGED <<inputs, pc, senderAlive, receiverAlive, builder, rows, hasher, foreign,
                   result>>

\* Execution fails or unwinds: the tracer is dropped with the scope's body, and
\* its sender with it.  What execution returned is kept until the scope ends.
ExecutionFails ==
    /\ pc = "execute"
    /\ sent = Len(execution.requests)
    /\ execution.ending # "ok"
    /\ senderAlive' = FALSE
    /\ pc' = "wait"
    /\ UNCHANGED <<inputs, sent, channel, receiverAlive, builder, rows, hasher, foreign,
                   result>>

\* Execution succeeds: the tracer, sender included, moves into the witness.
ExecutionSucceeds ==
    /\ pc = "execute"
    /\ sent = Len(execution.requests)
    /\ execution.ending = "ok"
    /\ pc' = "take"
    /\ UNCHANGED <<inputs, sent, channel, senderAlive, receiverAlive, builder, rows, hasher,
                   foreign, result>>

\* Mutant: the sender stays in the witness until the trace is built.
TakeHasherReplayLater ==
    /\ pc = "take"
    /\ pc' = "wait"
    /\ UNCHANGED <<inputs, sent, channel, senderAlive, receiverAlive, builder, rows, hasher,
                   foreign, result>>

\* drop(vm_witness.take_hasher_replay()) ends the stream before the scope waits.
TakeHasherReplay ==
    /\ pc = "take"
    /\ senderAlive' = FALSE
    /\ pc' = "wait"
    /\ UNCHANGED <<inputs, sent, channel, receiverAlive, builder, rows, hasher, foreign,
                   result>>

----------------------------------------------------------------------------
\* A free worker of the pool takes the task; a caller that is a worker takes it
\* only while it waits for the scope.
StartBuilder(w) ==
    /\ builder = "queued"
    /\ w \in pool \ foreign
    /\ w = Caller => pc = "wait"
    /\ builder' = w
    /\ UNCHANGED <<inputs, pc, sent, channel, senderAlive, receiverAlive, rows, hasher,
                   foreign, result>>

\* Mutant: the latest request is taken first.
BuildLatest(w) ==
    /\ builder = w
    /\ channel # << >>
    /\ rows' = rows + channel[Len(channel)]
    /\ channel' = SubSeq(channel, 1, Len(channel) - 1)
    /\ UNCHANGED <<inputs, pc, sent, senderAlive, receiverAlive, builder, hasher, foreign,
                   result>>

\* build_hasher_chiplet: one request, and the row cap after it.  Failing drops
\* the receiver with what is left in the channel.
Build(w) ==
    /\ builder = w
    /\ channel # << >>
    /\ rows' = rows + Head(channel)
    /\ IF rows' > cap
         THEN /\ hasher' = TraceLenExceeded(cap)
              /\ builder' = "finished" /\ receiverAlive' = FALSE /\ channel' = << >>
         ELSE channel' = Tail(channel) /\ UNCHANGED <<hasher, builder, receiverAlive>>
    /\ UNCHANGED <<inputs, pc, sent, senderAlive, foreign, result>>

\* The stream ended: the chiplet is complete.
StreamEnds(w) ==
    /\ builder = w
    /\ channel = << >>
    /\ ~senderAlive
    /\ hasher' = [kind |-> "hasher", cap |-> rows]
    /\ builder' = "finished" /\ receiverAlive' = FALSE
    /\ UNCHANGED <<inputs, pc, sent, channel, senderAlive, rows, foreign, result>>

\* A worker finishes a task of somebody else.
FinishForeign(w) ==
    /\ w \in foreign
    /\ foreign' = foreign \ {w}
    /\ UNCHANGED <<inputs, pc, sent, channel, senderAlive, receiverAlive, builder, rows,
                   hasher, result>>

\* Mutant: the builder's error is looked at first.
ScopeEndsBuilderFirst ==
    /\ pc = "wait"
    /\ builder = "finished"
    /\ result' = IF hasher.kind # "hasher" THEN hasher
                 ELSE IF execution.ending # "ok" THEN [kind |-> execution.ending, cap |-> None]
                 ELSE build_trace_inner(execution.rows, hasher.cap, budget)
    /\ pc' = "done"
    /\ UNCHANGED <<inputs, sent, channel, senderAlive, receiverAlive, builder, rows, hasher,
                   foreign>>

\* in_place_scope returns once its tasks have.  The error of execution comes
\* before the builder's, and the builder's before the rest of the trace.
ScopeEnds ==
    /\ pc = "wait"
    /\ builder = "finished"
    /\ result' = IF execution.ending # "ok" THEN [kind |-> execution.ending, cap |-> None]
                 ELSE IF hasher.kind # "hasher" THEN hasher
                 ELSE build_trace_inner(execution.rows, hasher.cap, budget)
    /\ pc' = "done"
    /\ UNCHANGED <<inputs, sent, channel, senderAlive, receiverAlive, builder, rows, hasher,
                   foreign>>

CallerStep ==
    Enter \/ Buffered \/ Record \/ ExecutionFails \/ ExecutionSucceeds \/ TakeHasherReplay
    \/ ScopeEnds

WorkerStep(w) == StartBuilder(w) \/ Build(w) \/ StreamEnds(w) \/ FinishForeign(w)

\* Nothing is left to do once the caller has returned and the pool is idle.
Next == CallerStep \/ \E w \in Workers : WorkerStep(w)

\* Threads run, and a worker that looks for work again and again finds it.
Spec ==
    /\ Init /\ [][Next]_vars
    /\ WF_vars(CallerStep)
    /\ \A w \in Workers : WF_vars(WorkerStep(w))

----------------------------------------------------------------------------
\* The stream loses, repeats and reorders nothing: while the builder lives, the
\* rows built and the requests waiting are exactly what execution recorded.
StreamIsComplete ==
    receiverAlive =>
        LET built == sent - Len(channel)
        IN  /\ built >= 0
            /\ channel = SubSeq(execution.requests, built + 1, sent)
            /\ rows = hasher_rows(execution.requests)[built]

\* Both paths end alike: the same trace, or a failure of the same kind.  Only the
\* row cap a TraceLenExceeded names may differ, since the streamed builder meets
\* its cap before the core buffer is measured.
SameAsBuffered ==
    pc = "done" =>
        LET expected == buffered_result(execution, budget)
        IN  result.kind = expected.kind
            /\ (expected.kind # "trace_len_exceeded" => result = expected)

\* The permissive cap on a single AIR never turns away a shape the exact budget
\* check would accept.
TierOneIsPermissive ==
    (pc = "done" /\ execution.ending = "ok") =>
        LET total == hasher_rows(execution.requests)[Len(execution.requests)]
        IN  fits(Heights(execution.rows, total), budget) =>
                \/ execution.rows.non_hasher + total <= cap
                \/ \E i \in Airs : Heights(execution.rows, total)[i] > MAX_TRACE_LEN

\* The caller always returns: neither side waits for the other for ever, in
\* whatever way execution or the builder ends and however busy the pool is.
CallReturns == <>(pc = "done")
=============================================================================
