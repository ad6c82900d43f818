------------------------------ MODULE Stepping ------------------------------
(***************************************************************************)
(* Single-stepping a program: step runs the execution loop for one clock   *)
(* cycle and returns a ResumeContext from which the next call goes on.     *)
(*                                                                         *)
(* step is the loop of a processor driven by execute_by_step, whole the    *)
(* loop of a second processor that executes the same program without ever  *)
(* stopping.  Whole is moved to the clock cycle that step stopped at, so   *)
(* that the two can be compared there.                                     *)
(***************************************************************************)
EXTENDS StepExecution

CONSTANT Programs       \* sequence of [forest, entry, inputs, advice]

VARIABLES
    step,               \* the loop that is stepped
    whole,              \* the loop that is not
    start_clk           \* the clock when the current call of step began

vars == <<step, whole, start_clk>>

Step == INSTANCE ExecutionLoop WITH s <- step

Whole == INSTANCE ExecutionLoop WITH s <- whole

get_initial_resume_context(p, stopper) ==
    initial_state(new_processor(p.inputs, p.advice), NoopTracer, stopper,
                  <<StartNode(p.entry)>>, p.forest)

\* Mutant: finished forests are left to the next call.
resume_context_as_is(st) == [st EXCEPT !.status = "running"]

\* The forest and continuation stack of the ResumeContext: forests that have
\* nothing left to execute are left at once.
resume_context_from_flow(st) ==
    LET busy == {i \in DOMAIN st.cs : st.cs[i].kind # "EnterForest"}
        n    == IF busy = {} THEN 0 ELSE CHOOSE i \in busy : \A j \in busy : i >= j
    IN  [st EXCEPT !.cs = SubSeq(@, 1, n),
                   !.forest = IF n < Len(st.cs) THEN st.cs[n + 1].forest ELSE @,
                   !.status = "running"]

\* Inside a call of step.
RunStep == Step!Next /\ UNCHANGED <<whole, start_clk>>

\* The uninterrupted loop catches up, to the same clock or to its end.
CatchUp ==
    /\ step.status # "running"
    /\ step.status = "stopped" => whole.p.clk < step.p.clk
    /\ Whole!Next
    /\ UNCHANGED <<step, start_clk>>

\* The next call of step.
Resume ==
    /\ step.status = "stopped"
    /\ whole.status = "running" => whole.p.clk = step.p.clk
    /\ step' = resume_context_from_flow(step)
    /\ start_clk' = step.p.clk
    /\ UNCHANGED whole

Finished(st) == st.status \notin {"running", "stopped"}

Done == Finished(step) /\ Finished(whole) /\ UNCHANGED vars

Init ==
    /\ \E i \in DOMAIN Programs :
         /\ step = get_initial_resume_context(Programs[i], "StepStopper")
         /\ whole = get_initial_resume_context(Programs[i], "NeverStopper")
    /\ start_clk = 0

Next == RunStep \/ CatchUp \/ Resume \/ Done

Spec == Init /\ [][Next]_vars

FairSpec == Spec /\ WF_vars(Next)

-----------------------------------------------------------------------------
(* Properties.                                                             *)

\* What is left to do, whether the loop keeps its position inside a basic
\* block in a local or on the continuation stack.
Remaining(st) == IF st.cursor = NoContinuation THEN st.cs ELSE Append(st.cs, st.cursor)

\* BreakReason::Stopped asks of every handler: "If execution is stopped here,
\* does the current continuation stack properly encode the next step of
\* execution?"  Wherever StepStopper stops, machine, forest and remaining work
\* are those of the uninterrupted execution at that clock cycle.
StopEncodesNextStep ==
    step.status = "stopped" /\ whole.p.clk = step.p.clk =>
        /\ step.p = whole.p
        /\ whole.status = "running" => /\ Remaining(step) = Remaining(whole)
                                       /\ step.forest = whole.forest

\* execute_by_step ends like execute: the same outputs or the same error.
SteppingEndsLikeExecution ==
    Finished(step) /\ Finished(whole) =>
        step.status = whole.status /\ step.p = whole.p

\* "Executes a single clock cycle": a call of step that stops has executed
\* exactly one, in a basic block, at an EMIT or across a forest boundary alike.
OneCyclePerStep == step.status = "stopped" => step.p.clk = start_clk + 1

\* A ResumeContext never names a forest that has nothing left to execute: a
\* debugger reads the next node in it before it calls step again.
ResumeContextIsCurrent ==
    step.status = "running" /\ step.brk.kind = "none" /\ step.cs # <<>>
        => peek(step.cs).kind # "EnterForest"

\* A call or dyncall enters a context that no earlier step has used, so the
\* callee's memory is empty; a dyncall that waits for its callee's forest has
\* entered it before its clock cycle ends.
ContextsAreFresh ==
    [][FreshContext(step.p, step'.p) /\ FreshContext(whole.p, whole'.p)]_vars

\* Stepping to the end always gets there.
SteppingTerminates == <>(Finished(step) /\ Finished(whole))
=============================================================================
