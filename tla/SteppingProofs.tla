--------------------------- MODULE SteppingProofs ---------------------------
(***************************************************************************)
(* Single-stepping agrees with uninterrupted execution, for every program, *)
(* library, kernel and limit.                                              *)
(*                                                                         *)
(* The inductive invariant says that the stepped loop is ahead of the      *)
(* other one by some number of steps inside the current call of step: the  *)
(* state the other loop is in, then one state per step, up to the stepped  *)
(* loop's own.  Module StepExecutionProofs shows that the two loops take   *)
(* corresponding steps from corresponding states.                          *)
(***************************************************************************)
EXTENDS Stepping, StepExecutionProofs, WellFoundedInduction

\* The forest of the next continuation is left: takes no clock cycle.
Leaves(st, next) ==
    /\ st.brk.kind = "none" /\ Agenda(st) # <<>>
    /\ NextUp(st).kind = "EnterForest"
    /\ next = [Taken(st) EXCEPT !.forest = NextUp(st).forest]

\* A step of a loop, from st to next.
Moves(st, next) ==
    /\ st.status = "running"
    /\ \/ CanAdvance(st) /\ next = Advance(st)
       \/ Leaves(st, next)

----------------------------------------------------------------------------
(* The actions of the two loops                                            *)

\* The agenda is empty exactly when no continuation and no cursor is left.
LEMMA AgendaPending ==
    ASSUME NEW st, IsSeq(st.cs)
    PROVE  Agenda(st) # <<>> <=> (st.cursor # NoContinuation \/ st.cs # <<>>)
BY SeqLast DEF Agenda

\* A step of the stepped loop is the one Advance computes, or leaves a forest.
LEMMA StepMoves ==
    ASSUME IsState(step), Step!Next
    PROVE  Moves(step, step')
<1> DEFINE cont == NextUp(step)
           st   == Taken(step)
           kind == get_node_by_id(step.p, step.forest, cont.node).kind
<1>1. Step!Popped = st /\ Step!Current = cont /\ (Step!Pending <=> Agenda(step) # <<>>)
  BY AgendaPending DEF Step!Popped, Step!Current, Step!Pending, Step!InBlock, Taken, NextUp,
     IsState
<1>2. ASSUME NEW k, Step!At(k)
      PROVE  /\ step.status = "running" /\ step.brk.kind = "none" /\ Agenda(step) # <<>>
             /\ cont.kind = k
  BY <1>1, <1>2 DEF Step!At, Step!Running
<1>3. ASSUME NEW k, Step!At(k), Handled(step, cont), step' = Handler(st, cont)
      PROVE  Moves(step, step')
  BY <1>2, <1>3 DEF Moves, CanAdvance, Advance
<1>4. ASSUME NEW kinds \in SUBSET NodeKinds, Step!AtNode(kinds),
             step' = StartHandler(st, kind, cont.node)
      PROVE  Moves(step, step')
  <2>1. Step!At("StartNode") /\ cont.kind = "StartNode" /\ kind \in NodeKinds
    BY <1>1, <1>2, <1>4 DEF Step!AtNode
  <2>2. Handled(step, cont)
    BY <2>1 DEF Handled
  <2>3. st.p = step.p /\ st.forest = step.forest
    BY DEF Taken, IsState, Fields
  <2>4. step' = Handler(st, cont)
    BY <1>4, <2>1, <2>3 DEF Handler, EndKinds
  <2> QED
    BY <1>3, <2>1, <2>2, <2>4
<1> HIDE DEF cont, st, kind
<1>5. ASSUME NEW kinds, Step!AtNode(kinds)
      PROVE  kind \in kinds
  BY <1>1, <1>5 DEF Step!AtNode, kind
<1>6. CASE Step!StartJoin
  BY <1>1, <1>4, <1>5, <1>6 DEF Step!StartJoin, StartHandler, NodeKinds
<1>7. CASE Step!StartSplit
  BY <1>1, <1>4, <1>5, <1>7 DEF Step!StartSplit, StartHandler, NodeKinds
<1>8. CASE Step!StartLoop
  BY <1>1, <1>4, <1>5, <1>8 DEF Step!StartLoop, StartHandler, NodeKinds
<1>9. CASE Step!StartCall
  BY <1>1, <1>4, <1>5, <1>9 DEF Step!StartCall, StartHandler, NodeKinds
<1>10. CASE Step!StartDyn
  BY <1>1, <1>4, <1>5, <1>10 DEF Step!StartDyn, StartHandler, NodeKinds
<1>11. CASE Step!EnterExternal
  BY <1>1, <1>4, <1>5, <1>11 DEF Step!EnterExternal, StartHandler, NodeKinds
<1>12. CASE Step!StartBasicBlock
  BY <1>1, <1>4, <1>5, <1>12 DEF Step!StartBasicBlock, StartHandler, NodeKinds
<1>13. CASE Step!FinishNode
  BY <1>1, <1>2, <1>3, <1>13 DEF Step!FinishNode, Handled, Handler, EndKinds, OtherKinds
<1>14. CASE Step!FinishLoop
  BY <1>1, <1>2, <1>3, <1>14 DEF Step!FinishLoop, Handled, Handler, EndKinds, OtherKinds
<1>15. CASE Step!FinishCall
  BY <1>1, <1>2, <1>3, <1>15 DEF Step!FinishCall, Handled, Handler, EndKinds, OtherKinds
<1>16. CASE Step!FinishDyn
  BY <1>1, <1>2, <1>3, <1>16 DEF Step!FinishDyn, Handled, Handler, EndKinds, OtherKinds
<1>17. CASE Step!ExecuteOp
  BY <1>1, <1>2, <1>3, <1>17 DEF Step!ExecuteOp, Handled, Handler, EndKinds, OtherKinds
<1>18. CASE Step!StartBatch
  BY <1>1, <1>2, <1>3, <1>18 DEF Step!StartBatch, Handled, Handler, EndKinds, OtherKinds
<1>19. CASE Step!LeaveForest
  BY <1>1, <1>2, <1>19 DEF Step!LeaveForest, Moves, Leaves, cont, st
<1>20. CASE Step!HandleEmit
  BY <1>20 DEF Step!HandleEmit, Step!Broken, Moves, CanAdvance, Advance
<1>21. CASE Step!LoadFromDyn
  BY <1>21 DEF Step!LoadFromDyn, Step!LoadFrom, Step!Broken, Moves, CanAdvance, Advance, Load
<1>22. CASE Step!LoadFromExternal
  BY <1>22 DEF Step!LoadFromExternal, Step!LoadFrom, Step!Broken, Moves, CanAdvance, Advance, Load
<1>23. CASE Step!Return
  BY <1>1, <1>23 DEF Step!Return, Step!Running, Moves, CanAdvance, Advance, return_outputs
<1> QED
  BY <1>6, <1>7, <1>8, <1>9, <1>10, <1>11, <1>12, <1>13, <1>14, <1>15, <1>16,
     <1>17, <1>18, <1>19, <1>20, <1>21, <1>22, <1>23 DEF Step!Next

\* And so is a step of the uninterrupted one.
LEMMA WholeMoves ==
    ASSUME IsState(whole), Whole!Next
    PROVE  Moves(whole, whole')
<1> DEFINE cont == NextUp(whole)
           st   == Taken(whole)
           kind == get_node_by_id(whole.p, whole.forest, cont.node).kind
<1>1. Whole!Popped = st /\ Whole!Current = cont /\ (Whole!Pending <=> Agenda(whole) # <<>>)
  BY AgendaPending DEF Whole!Popped, Whole!Current, Whole!Pending, Whole!InBlock, Taken, NextUp,
     IsState
<1>2. ASSUME NEW k, Whole!At(k)
      PROVE  /\ whole.status = "running" /\ whole.brk.kind = "none" /\ Agenda(whole) # <<>>
             /\ cont.kind = k
  BY <1>1, <1>2 DEF Whole!At, Whole!Running
<1>3. ASSUME NEW k, Whole!At(k), Handled(whole, cont), whole' = Handler(st, cont)
      PROVE  Moves(whole, whole')
  BY <1>2, <1>3 DEF Moves, CanAdvance, Advance
<1>4. ASSUME NEW kinds \in SUBSET NodeKinds, Whole!AtNode(kinds),
             whole' = StartHandler(st, kind, cont.node)
      PROVE  Moves(whole, whole')
  <2>1. Whole!At("StartNode") /\ cont.kind = "StartNode" /\ kind \in NodeKinds
    BY <1>1, <1>2, <1>4 DEF Whole!AtNode
  <2>2. Handled(whole, cont)
    BY <2>1 DEF Handled
  <2>3. st.p = whole.p /\ st.forest = whole.forest
    BY DEF Taken, IsState, Fields
  <2>4. whole' = Handler(st, cont)
    BY <1>4, <2>1, <2>3 DEF Handler, EndKinds
  <2> QED
    BY <1>3, <2>1, <2>2, <2>4
<1> HIDE DEF cont, st, kind
<1>5. ASSUME NEW kinds, Whole!AtNode(kinds)
      PROVE  kind \in kinds
  BY <1>1, <1>5 DEF Whole!AtNode, kind
<1>6. CASE Whole!StartJoin
  BY <1>1, <1>4, <1>5, <1>6 DEF Whole!StartJoin, StartHandler, NodeKinds
<1>7. CASE Whole!StartSplit
  BY <1>1, <1>4, <1>5, <1>7 DEF Whole!StartSplit, StartHandler, NodeKinds
<1>8. CASE Whole!StartLoop
  BY <1>1, <1>4, <1>5, <1>8 DEF Whole!StartLoop, StartHandler, NodeKinds
<1>9. CASE Whole!StartCall
  BY <1>1, <1>4, <1>5, <1>9 DEF Whole!StartCall, StartHandler, NodeKinds
<1>10. CASE Whole!StartDyn
  BY <1>1, <1>4, <1>5, <1>10 DEF Whole!StartDyn, StartHandler, NodeKinds
<1>11. CASE Whole!EnterExternal
  BY <1>1, <1>4, <1>5, <1>11 DEF Whole!EnterExternal, StartHandler, NodeKinds
<1>12. CASE Whole!StartBasicBlock
  BY <1>1, <1>4, <1>5, <1>12 DEF Whole!StartBasicBlock, StartHandler, NodeKinds
<1>13. CASE Whole!FinishNode
  BY <1>1, <1>2, <1>3, <1>13 DEF Whole!FinishNode, Handled, Handler, EndKinds, OtherKinds
<1>14. CASE Whole!FinishLoop
  BY <1>1, <1>2, <1>3, <1>14 DEF Whole!FinishLoop, Handled, Handler, EndKinds, OtherKinds
<1>15. CASE Whole!FinishCall
  BY <1>1, <1>2, <1>3, <1>15 DEF Whole!FinishCall, Handled, Handler, EndKinds, OtherKinds
<1>16. CASE Whole!FinishDyn
  BY <1>1, <1>2, <1>3, <1>16 DEF Whole!FinishDyn, Handled, Handler, EndKinds, OtherKinds
<1>17. CASE Whole!ExecuteOp
  BY <1>1, <1>2, <1>3, <1>17 DEF Whole!ExecuteOp, Handled, Handler, EndKinds, OtherKinds
<1>18. CASE Whole!StartBatch
  BY <1>1, <1>2, <1>3, <1>18 DEF Whole!StartBatch, Handled, Handler, EndKinds, OtherKinds
<1>19. CASE Whole!LeaveForest
  BY <1>1, <1>2, <1>19 DEF Whole!LeaveForest, Moves, Leaves, cont, st
<1>20. CASE Whole!HandleEmit
  BY <1>20 DEF Whole!HandleEmit, Whole!Broken, Moves, CanAdvance, Advance
<1>21. CASE Whole!LoadFromDyn
  BY <1>21 DEF Whole!LoadFromDyn, Whole!LoadFrom, Whole!Broken, Moves, CanAdvance, Advance, Load
<1>22. CASE Whole!LoadFromExternal
  BY <1>22 DEF Whole!LoadFromExternal, Whole!LoadFrom, Whole!Broken, Moves, CanAdvance, Advance, Load
<1>23. CASE Whole!Return
  BY <1>1, <1>23 DEF Whole!Return, Whole!Running, Moves, CanAdvance, Advance, return_outputs
<1> QED
  BY <1>6, <1>7, <1>8, <1>9, <1>10, <1>11, <1>12, <1>13, <1>14, <1>15, <1>16,
     <1>17, <1>18, <1>19, <1>20, <1>21, <1>22, <1>23 DEF Whole!Next

----------------------------------------------------------------------------
(* The inductive invariant                                                 *)

Ends == Errors \cup {"ended"}

\* A loop that StepStopper stopped.
Paused(st) ==
    /\ IsState(st) /\ st.status = "stopped" /\ st.stopper = "StepStopper"
    /\ st.cursor = NoContinuation /\ st.brk = NoBreak

\* b is in the state a is in, but has not yet left the forests that have nothing
\* left to execute and that the ResumeContext a started from has left.
Trails(a, b) ==
    /\ IsState(b) /\ b.stopper = "NeverStopper" /\ b.status = "running"
    /\ b.p = a.p /\ b.brk = a.brk /\ a.brk = NoBreak
    /\ \E n \in 0 .. Len(Agenda(b)) - 1 :
         /\ a.cs = SubSeq(Agenda(b), 1, n)
         /\ a.forest = Agenda(b)[n + 1].forest
         /\ \A i \in n + 1 .. Len(Agenda(b)) : Agenda(b)[i].kind = "EnterForest"

\* The uninterrupted loop b is where the stepped one is when it is in state a.
Matches(a, b) ==
    \/ Between(a) /\ (Twin(a, b) \/ Trails(a, b))
    \/ Paused(a) /\ Twin(a, b)
    \/ IsState(a) /\ a.status \in Ends /\ b = Never(a)

\* A call of step that began at clock clk is in state st, or has ended in it.
InCall(st, clk) ==
    \/ Between(st) /\ st.p.clk = clk
    \/ Paused(st) /\ st.p.clk = clk + 1
    \/ IsState(st) /\ st.status \in Ends

\* path leads from the state the uninterrupted loop is in to that of the stepped
\* one, inside the current call of step.
Ahead(path, n) ==
    /\ n \in Nat \ {0}
    /\ path[n] = step
    /\ Matches(path[1], whole)
    /\ \A i \in 1 .. n - 1 : /\ Between(path[i]) /\ CanAdvance(path[i])
                             /\ path[i].p.clk = start_clk
                             /\ path[i + 1] = Advance(path[i])

\* The inductive invariant.
IInv ==
    /\ start_clk \in Nat
    /\ InCall(step, start_clk)
    /\ \E path, n : Ahead(path, n)

\* A ready loop is the twin of itself under NeverStopper.
LEMMA TwinNever ==
    ASSUME NEW a, Ready(a)
    PROVE  Twin(a, Never(a)) /\ Agenda(a) = a.cs
<1>1. /\ IsState(Never(a)) /\ Never(a).p = a.p /\ Never(a).cs = a.cs
      /\ Never(a).forest = a.forest /\ Never(a).cursor = a.cursor
      /\ Never(a).brk = a.brk /\ Never(a).status = "running"
      /\ Never(a).stopper = "NeverStopper"
  BY NeverState DEF Ready
<1> QED
  BY <1>1 DEF Twin, Agenda, Ready

\* Corresponding handlers leave the loops where they correspond.
LEMMA HandlerEndMatches ==
    ASSUME NEW clk, NEW r, NEW q, HandlerEnd(clk, r, q)
    PROVE  Matches(r, q) /\ InCall(r, clk)
<1>1. CASE IsState(r) /\ r.status \in Ends /\ q = Never(r)
  BY <1>1 DEF Matches, InCall
<1>2. CASE /\ IsState(r) /\ r.status = "running" /\ r.stopper = "StepStopper"
           /\ r.cursor = NoContinuation /\ r.p.clk = clk
           /\ r.brk.kind = "none" =>
                r.brk = NoBreak /\ r.cs # <<>> /\ peek(r.cs).kind # "EnterForest"
           /\ r.brk.kind = "Emit" => r.brk.cont # NoContinuation
           /\ q = Never(r)
  <2>1. Ready(r) /\ Between(r)
    BY <1>2 DEF Ready, Between
  <2> QED
    BY <1>2, <2>1, TwinNever DEF Matches, InCall
<1>3. CASE /\ IsState(r) /\ r.status = "stopped" /\ r.cursor = NoContinuation
           /\ r.stopper = "StepStopper" /\ r.brk = NoBreak /\ r.p.clk = clk + 1
           /\ IsState(q) /\ q.status = "running" /\ q.stopper = "NeverStopper"
           /\ q.brk = NoBreak /\ q.forest = r.forest /\ q.p = r.p
           /\ r.cs = IF q.cursor = NoContinuation THEN q.cs ELSE Append(q.cs, q.cursor)
  <2>1. Paused(r)
    BY <1>3 DEF Paused
  <2>2. Twin(r, q)
    BY <1>3, NoBreakKind DEF Twin, Agenda
  <2> QED
    BY <1>3, <2>1, <2>2 DEF Matches, InCall
<1> QED
  BY <1>1, <1>2, <1>3 DEF HandlerEnd, Ends

\* A step inside a call.
LEMMA BetweenMoves ==
    ASSUME NEW a, NEW next, Between(a), Moves(a, next)
    PROVE  CanAdvance(a) /\ next = Advance(a) /\ InCall(next, a.p.clk)
<1>1. Ready(a) /\ Twin(a, Never(a)) /\ Agenda(a) = a.cs
  BY TwinNever DEF Between
<1>2. ~Leaves(a, next)
  <2>1. NextUp(a) = peek(a.cs)
    BY <1>1 DEF NextUp, Ready
  <2> QED
    BY <1>1, <2>1 DEF Leaves, Between
<1>3. CanAdvance(a) /\ next = Advance(a)
  BY <1>2 DEF Moves
<1>4. HandlerEnd(a.p.clk, Advance(a), Advance(Never(a)))
  BY <1>1, <1>3, AdvanceCorresponds
<1> QED
  BY <1>3, <1>4, HandlerEndMatches

\* What the loop takes up next is the last of what is left to do.
LEMMA AgendaTaken ==
    ASSUME NEW b, IsState(b), Agenda(b) # <<>>
    PROVE  /\ NextUp(b) = peek(Agenda(b)) /\ IsSeq(Agenda(b)) /\ IsSeq(pop(Agenda(b)))
           /\ IsState(Taken(b)) /\ Taken(b).cs = pop(Agenda(b))
           /\ Taken(b).cursor = NoContinuation /\ Taken(b).p = b.p /\ Taken(b).brk = b.brk
           /\ Taken(b).stopper = b.stopper /\ Taken(b).status = b.status
<1>1. IsSeq(b.cs)
  BY DEF IsState
<1>2. /\ NextUp(b) = peek(Agenda(b)) /\ IsSeq(Agenda(b))
      /\ (IF b.cursor # NoContinuation THEN b.cs ELSE pop(b.cs)) = pop(Agenda(b))
  BY <1>1, SeqLast, SeqAppend DEF NextUp, Agenda
<1>3. IsSeq(pop(Agenda(b)))
  BY <1>2, SeqFront
<1>4. Taken(b) = [b EXCEPT !.cursor = NoContinuation, !.cs = pop(Agenda(b))]
  BY <1>2, Zenon DEF Taken, IsState, Fields
<1>5. /\ IsState(Taken(b)) /\ Taken(b).cs = pop(Agenda(b))
      /\ Taken(b).cursor = NoContinuation /\ Taken(b).p = b.p /\ Taken(b).brk = b.brk
      /\ Taken(b).stopper = b.stopper /\ Taken(b).status = b.status
  BY <1>3, <1>4, Zenon DEF IsState, Fields
<1> QED
  BY <1>2, <1>3, <1>5

\* What pop and peek return, and that popping leaves the elements below alone.
LEMMA PopFacts ==
    ASSUME NEW seq, IsSeq(seq), seq # <<>>
    PROVE  /\ Len(seq) \in Nat \ {0} /\ peek(seq) = seq[Len(seq)]
           /\ Len(pop(seq)) = Len(seq) - 1
           /\ \A i \in 1 .. Len(seq) - 1 : pop(seq)[i] = seq[i]
           /\ \A n \in 0 .. Len(seq) - 1 : SubSeq(pop(seq), 1, n) = SubSeq(seq, 1, n)
<1>1. PICK S : seq \in Seq(S)
  BY DEF IsSeq
<1>2. Len(seq) \in Nat \ {0}
  BY <1>1
<1>3. pop(seq) \in Seq(S) /\ Len(pop(seq)) = Len(seq) - 1
      /\ \A i \in 1 .. Len(seq) - 1 : pop(seq)[i] = seq[i]
  <2> DEFINE m == Len(seq) - 1
  <2>1. m \in Nat /\ m <= Len(seq) /\ pop(seq) = SubSeq(seq, 1, m)
    BY <1>2 DEF pop
  <2>2. \A i \in 1 .. m : seq[i] \in S
    BY <1>1, <1>2
  <2> HIDE DEF m
  <2>3. /\ SubSeq(seq, 1, m) \in Seq(S)
        /\ Len(SubSeq(seq, 1, m)) = IF 1 <= m THEN m - 1 + 1 ELSE 0
        /\ \A i \in 1 .. m - 1 + 1 : SubSeq(seq, 1, m)[i] = seq[1 + i - 1]
    BY <2>1, <2>2
  <2>4. Len(pop(seq)) = m
    BY <2>1, <2>3
  <2>5. \A i \in 1 .. m : pop(seq)[i] = seq[i]
    BY <2>1, <2>3
  <2> QED
    BY <2>1, <2>3, <2>4, <2>5 DEF m
<1>4. ASSUME NEW n \in 0 .. Len(seq) - 1
      PROVE  SubSeq(pop(seq), 1, n) = SubSeq(seq, 1, n)
  <2>1. SubSeq(pop(seq), 1, n) = [i \in 1 .. n |-> pop(seq)[i]]
    BY <1>2, <1>3, <1>4
  <2>2. SubSeq(seq, 1, n) = [i \in 1 .. n |-> seq[i]]
    BY <1>1, <1>2, <1>4
  <2> QED
    BY <1>2, <1>3, <2>1, <2>2
<1> QED
  BY <1>2, <1>3, <1>4 DEF peek

\* A loop that trails leaves one forest more, and then trails by fewer or by none.
LEMMA TrailingMoves ==
    ASSUME NEW a, NEW b, NEW next, Trails(a, b), Moves(b, next)
    PROVE  Twin(a, next) \/ Trails(a, next)
<1> DEFINE todo == Agenda(b)
<1>1. PICK n \in 0 .. Len(todo) - 1 :
        /\ a.cs = SubSeq(todo, 1, n)
        /\ a.forest = todo[n + 1].forest
        /\ \A i \in n + 1 .. Len(todo) : todo[i].kind = "EnterForest"
  BY DEF Trails
<1>2. IsState(b) /\ b.brk.kind = "none" /\ a.brk = NoBreak /\ b.brk = a.brk
  BY NoBreakKind DEF Trails
<1>3. todo # <<>>
  <2>1. Len(todo) # 0
    BY <1>1
  <2> QED
    BY <2>1
<1>4. /\ NextUp(b) = peek(todo) /\ IsSeq(todo) /\ IsSeq(pop(todo))
      /\ IsState(Taken(b)) /\ Taken(b).cs = pop(todo)
      /\ Taken(b).cursor = NoContinuation /\ Taken(b).p = b.p /\ Taken(b).brk = b.brk
      /\ Taken(b).stopper = b.stopper /\ Taken(b).status = b.status
  BY <1>2, <1>3, AgendaTaken
<1> HIDE DEF todo
<1>5. /\ Len(todo) \in Nat \ {0} /\ peek(todo) = todo[Len(todo)]
      /\ Len(pop(todo)) = Len(todo) - 1
      /\ \A i \in 1 .. Len(todo) - 1 : pop(todo)[i] = todo[i]
      /\ \A k \in 0 .. Len(todo) - 1 : SubSeq(pop(todo), 1, k) = SubSeq(todo, 1, k)
  BY <1>3, <1>4, PopFacts
<1>6. NextUp(b).kind = "EnterForest"
  BY <1>1, <1>4, <1>5
<1>7. ~CanAdvance(b)
  BY <1>2, <1>3, <1>6 DEF CanAdvance, Handled, EndKinds, OtherKinds, todo
<1>8. next = [Taken(b) EXCEPT !.forest = peek(todo).forest]
  BY <1>4, <1>7 DEF Moves, Leaves
<1>9. /\ IsState(next) /\ next.cs = pop(todo) /\ next.cursor = NoContinuation
      /\ next.p = b.p /\ next.brk = b.brk /\ next.stopper = b.stopper
      /\ next.status = b.status /\ next.forest = peek(todo).forest
  BY <1>4, <1>8 DEF IsState, Fields
<1>10. Agenda(next) = pop(todo)
  BY <1>9 DEF Agenda
<1>11. /\ next.stopper = "NeverStopper" /\ next.status = "running" /\ next.p = a.p
       /\ next.brk = NoBreak
  BY <1>2, <1>9 DEF Trails
<1>12. CASE n = Len(todo) - 1
  <2>1. a.cs = pop(todo) /\ a.forest = next.forest
    BY <1>1, <1>5, <1>9, <1>12 DEF pop
  <2> QED
    BY <1>2, <1>9, <1>10, <1>11, <2>1, NoBreakKind DEF Twin
<1>13. CASE n # Len(todo) - 1
  <2>1. n \in 0 .. Len(pop(todo)) - 1
    BY <1>1, <1>5, <1>13
  <2>2. a.cs = SubSeq(pop(todo), 1, n) /\ a.forest = pop(todo)[n + 1].forest
    BY <1>1, <1>5, <2>1
  <2>3. \A i \in n + 1 .. Len(pop(todo)) : pop(todo)[i].kind = "EnterForest"
    BY <1>1, <1>5, <2>1
  <2> QED
    BY <1>2, <1>9, <1>10, <1>11, <2>1, <2>2, <2>3, Zenon DEF Trails
<1> QED
  BY <1>12, <1>13

\* The uninterrupted loop catches up by one step of the path, or leaves a forest.
LEMMA MatchingMoves ==
    ASSUME NEW a, NEW b, NEW next, Between(a), CanAdvance(a), Matches(a, b), Moves(b, next)
    PROVE  Matches(Advance(a), next) \/ Matches(a, next)
<1>1. a.status = "running"
  BY DEF Between, Ready
<1>2. Twin(a, b) \/ Trails(a, b)
  BY <1>1 DEF Matches, Paused, Ends, Errors
<1>3. CASE Trails(a, b)
  BY <1>3, TrailingMoves DEF Matches
<1>4. CASE Twin(a, b)
  <2>1. ~Leaves(b, next)
    <3>1. SUFFICES ASSUME b.brk.kind = "none", Agenda(b) # <<>>
                   PROVE  NextUp(b).kind # "EnterForest"
      BY DEF Leaves
    <3>2. a.brk = NoBreak /\ a.cs # <<>> /\ peek(a.cs).kind # "EnterForest"
      BY <1>4, <3>1 DEF Twin, Between
    <3>3. NextUp(b) = NextUp(a) /\ NextUp(a) = peek(a.cs)
      BY <1>4, <3>2, TakenTwin, TakenState DEF Between
    <3> QED
      BY <3>2, <3>3
  <2>2. next = Advance(b)
    BY <2>1 DEF Moves
  <2>3. HandlerEnd(a.p.clk, Advance(a), Advance(b))
    BY <1>4, AdvanceCorresponds
  <2> QED
    BY <2>2, <2>3, HandlerEndMatches
<1> QED
  BY <1>2, <1>3, <1>4

\* A set of positions that is not empty has a greatest one.
LEMMA GreatestPosition ==
    ASSUME NEW n \in Nat, NEW S \in SUBSET (1 .. n), S # {}
    PROVE  \E x \in S : \A y \in S : x >= y
<1> DEFINE R == {ss \in Nat \X Nat : ss[1] < ss[2]}
           T == {n - x : x \in S}
<1>1. IsWellFoundedOn(R, Nat)
  BY NatLessThanWellFounded DEF OpToRel
<1>2. \A x, y \in Nat : y < x => <<y, x>> \in R
  OBVIOUS
<1>3. \A x \in S : n - x \in Nat /\ n - x \in T /\ x \in Nat
  OBVIOUS
<1>4. T \subseteq Nat /\ T # {} /\ \A t \in T : \E x \in S : t = n - x
  BY <1>3, Zenon
<1> HIDE DEF R, T
<1>5. PICK t \in T : \A u \in T : ~(<<u, t>> \in R)
  BY <1>1, <1>4, WFMin, Zenon
<1>6. PICK x \in S : t = n - x
  BY <1>4
<1>7. \A y \in S : x >= y
  <2>1. SUFFICES ASSUME NEW y \in S PROVE x >= y
    OBVIOUS
  <2>2. ~(n - y < n - x)
    BY <1>2, <1>3, <1>5, <1>6, Zenon
  <2> QED
    BY <1>3, <2>2
<1> QED
  BY <1>7, Zenon

\* The ResumeContext of a stopped loop: the loop it came from may trail it.
LEMMA Resumed ==
    ASSUME NEW a, NEW b, Paused(a), Twin(a, b)
    PROVE  LET r == resume_context_from_flow(a)
           IN  Between(r) /\ r.p = a.p /\ Matches(r, b)
<1> DEFINE busy == {i \in DOMAIN a.cs : a.cs[i].kind # "EnterForest"}
           n    == IF busy = {} THEN 0 ELSE CHOOSE i \in busy : \A j \in busy : i >= j
           cs   == SubSeq(a.cs, 1, n)
           forest == IF n < Len(a.cs) THEN a.cs[n + 1].forest ELSE a.forest
           r    == [a EXCEPT !.cs = cs, !.forest = forest, !.status = "running"]
<1>1. resume_context_from_flow(a) = r
  BY DEF resume_context_from_flow
<1>2. PICK S : a.cs \in Seq(S)
  BY DEF Paused, IsState, IsSeq
<1>3. Len(a.cs) \in Nat /\ DOMAIN a.cs = 1 .. Len(a.cs)
  BY <1>2
<1>4. /\ n \in 0 .. Len(a.cs)
      /\ n > 0 => a.cs[n].kind # "EnterForest"
      /\ \A i \in n + 1 .. Len(a.cs) : a.cs[i].kind = "EnterForest"
  <2>1. busy \in SUBSET (1 .. Len(a.cs))
    BY <1>3
  <2>2. ASSUME busy # {}
        PROVE  n \in busy /\ \A y \in busy : n >= y
    <3> HIDE DEF busy
    <3>1. \E x \in busy : \A y \in busy : x >= y
      BY <1>3, <2>1, <2>2, GreatestPosition, Zenon
    <3> QED
      BY <2>2, <3>1
  <2>3. busy = {} => n = 0
    OBVIOUS
  <2> HIDE DEF n
  <2>4. \A i \in 1 .. Len(a.cs) : i \notin busy => a.cs[i].kind = "EnterForest"
    BY <1>3
  <2>5. \A i \in busy : a.cs[i].kind # "EnterForest" /\ i \in 1 .. Len(a.cs)
    BY <2>1
  <2> HIDE DEF busy
  <2>6. CASE busy = {}
    BY <1>3, <2>3, <2>4, <2>6
  <2>7. CASE busy # {}
    BY <1>3, <2>2, <2>4, <2>5, <2>7
  <2> QED
    BY <2>6, <2>7
<1> HIDE DEF busy, n
<1>5. cs \in Seq(S) /\ IsSeq(cs) /\ Len(cs) = n /\ (n > 0 => peek(cs) = a.cs[n])
      /\ (n = Len(a.cs) => cs = a.cs)
  <2>1. \A i \in 1 .. n : a.cs[i] \in S
    BY <1>2, <1>3, <1>4
  <2>2. n \in Int /\ 1 \in Int
    BY <1>4
  <2>3. /\ cs \in Seq(S)
        /\ Len(cs) = IF 1 <= n THEN n - 1 + 1 ELSE 0
        /\ \A i \in 1 .. n - 1 + 1 : cs[i] = a.cs[1 + i - 1]
    BY <2>1, <2>2
  <2>4. Len(cs) = n /\ \A i \in 1 .. n : cs[i] = a.cs[i]
    BY <1>4, <2>3
  <2>5. n = Len(a.cs) => cs = a.cs
    BY <1>2
  <2>6. n > 0 => peek(cs) = a.cs[n]
    BY <1>4, <2>4 DEF peek
  <2>7. IsSeq(cs)
    BY <2>3, Zenon DEF IsSeq
  <2> QED
    BY <2>3, <2>4, <2>5, <2>6, <2>7
<1>6. IsState(a) /\ a.stopper = "StepStopper" /\ a.cursor = NoContinuation /\ a.brk = NoBreak
  BY DEF Paused
<1> HIDE DEF cs, forest
<1>7. /\ IsState(r) /\ r.p = a.p /\ r.stopper = "StepStopper" /\ r.cs = cs /\ r.forest = forest
      /\ r.cursor = NoContinuation /\ r.brk = NoBreak /\ r.status = "running"
  BY <1>5, <1>6, Zenon DEF IsState, Fields
<1> HIDE DEF r
<1>8. cs # <<>> => peek(cs).kind # "EnterForest"
  <2>1. cs # <<>> => Len(cs) # 0
    BY <1>5
  <2> QED
    BY <1>4, <1>5, <2>1
<1>9. Between(r)
  BY <1>7, <1>8, NoBreakKind DEF Between, Ready
<1>10. CASE n = Len(a.cs)
  <2>1. r.cs = a.cs /\ r.forest = a.forest
    BY <1>3, <1>5, <1>7, <1>10 DEF forest
  <2>2. Twin(r, b)
    BY <1>6, <1>7, <2>1, NoBreakKind DEF Twin
  <2> QED
    BY <1>1, <1>7, <1>9, <2>2 DEF Matches
<1>11. CASE n # Len(a.cs)
  <2>1. n \in 0 .. Len(Agenda(b)) - 1 /\ Agenda(b) = a.cs
    BY <1>3, <1>4, <1>11 DEF Twin
  <2>2. r.forest = Agenda(b)[n + 1].forest /\ r.cs = SubSeq(Agenda(b), 1, n)
    BY <1>3, <1>7, <2>1 DEF forest, cs
  <2>3. /\ IsState(b) /\ b.stopper = "NeverStopper" /\ b.status = "running"
        /\ b.p = r.p /\ b.brk = r.brk /\ r.brk = NoBreak
    BY <1>6, <1>7 DEF Twin
  <2>4. Trails(r, b)
    BY <1>4, <2>1, <2>2, <2>3 DEF Trails
  <2> QED
    BY <1>1, <1>7, <1>9, <2>4 DEF Matches
<1> QED
  BY <1>10, <1>11

----------------------------------------------------------------------------
(* The theorems                                                            *)

\* Both loops begin in the same state.
LEMMA InitInvariant == Init => IInv
<1>1. SUFFICES ASSUME Init PROVE IInv
  OBVIOUS
<1>2. PICK i \in DOMAIN Programs :
        /\ step = get_initial_resume_context(Programs[i], "StepStopper")
        /\ whole = get_initial_resume_context(Programs[i], "NeverStopper")
  BY <1>1 DEF Init
<1> DEFINE p == new_processor(Programs[i].inputs, Programs[i].advice)
<1>3. IsProcessor(p) /\ p.clk = 0
  BY DEF new_processor, IsProcessor
<1> HIDE DEF p
<1>4. /\ step = initial_state(p, NoopTracer, "StepStopper", <<StartNode(Programs[i].entry)>>,
                              Programs[i].forest)
      /\ whole = initial_state(p, NoopTracer, "NeverStopper", <<StartNode(Programs[i].entry)>>,
                               Programs[i].forest)
  BY <1>2 DEF get_initial_resume_context, p
<1> DEFINE cs == <<StartNode(Programs[i].entry)>>
<1>5. IsSeq(cs) /\ peek(cs) = StartNode(Programs[i].entry)
  BY PairIsSeq, Zenon DEF peek
<1>6. peek(cs).kind = "StartNode"
  BY <1>5 DEF StartNode, Continuation
<1> HIDE DEF cs
<1>7. /\ IsState(step) /\ step.stopper = "StepStopper" /\ step.status = "running"
      /\ step.cursor = NoContinuation /\ step.brk = NoBreak /\ step.cs = cs /\ step.p = p
  BY <1>3, <1>4, <1>5 DEF initial_state, IsState, Fields, cs
<1>8. whole = Never(step)
  BY <1>4 DEF initial_state, Never
<1>9. Between(step)
  BY <1>6, <1>7, NoBreakKind DEF Between, Ready
<1>10. Matches(step, whole)
  BY <1>8, <1>9, TwinNever DEF Matches, Between
<1>11. Ahead([j \in 1 .. 1 |-> step], 1)
  BY <1>10 DEF Ahead
<1>12. start_clk = 0
  BY <1>1 DEF Init
<1> QED
  BY <1>3, <1>7, <1>9, <1>11, <1>12 DEF IInv, InCall

\* A step of the stepped loop makes the path longer by one.
LEMMA RunStepInvariant == IInv /\ RunStep => IInv'
<1>1. SUFFICES ASSUME IInv, RunStep PROVE IInv'
  OBVIOUS
<1>2. PICK path, n : Ahead(path, n)
  BY <1>1 DEF IInv
<1>3. whole' = whole /\ start_clk' = start_clk /\ Step!Next
  BY <1>1 DEF RunStep
<1>4. IsState(step)
  BY <1>1 DEF IInv, InCall, Between, Paused, Ready
<1>5. Moves(step, step')
  BY <1>3, <1>4, StepMoves
<1>6. Between(step) /\ step.p.clk = start_clk
  BY <1>1, <1>5 DEF IInv, InCall, Moves, Paused, Ends, Errors
<1>7. CanAdvance(step) /\ step' = Advance(step) /\ InCall(step', start_clk)
  BY <1>5, <1>6, BetweenMoves
<1>8. PICK longer : longer = [i \in 1 .. n + 1 |-> IF i = n + 1 THEN step' ELSE path[i]]
  BY Zenon
<1>9. n \in Nat \ {0} /\ path[n] = step
  BY <1>2 DEF Ahead
<1>10. longer[n + 1] = step' /\ \A i \in 1 .. n : longer[i] = path[i]
  BY <1>8, <1>9
<1>11. ASSUME NEW i \in 1 .. n
       PROVE  /\ Between(longer[i]) /\ CanAdvance(longer[i])
              /\ longer[i].p.clk = start_clk
              /\ longer[i + 1] = Advance(longer[i])
  <2>1. CASE i = n
    BY <1>6, <1>7, <1>9, <1>10, <2>1
  <2>2. CASE i \in 1 .. n - 1
    BY <1>2, <1>9, <1>10, <2>2 DEF Ahead
  <2> QED
    BY <1>9, <2>1, <2>2
<1>12. Matches(path[1], whole)
  BY <1>2 DEF Ahead
<1>13. Ahead(longer, n + 1)'
  BY <1>3, <1>9, <1>10, <1>11, <1>12 DEF Ahead
<1> QED
  BY <1>1, <1>3, <1>7, <1>13 DEF IInv

\* A step of the other loop makes the path shorter by one, or keeps it.
LEMMA CatchUpInvariant == IInv /\ CatchUp => IInv'
<1>1. SUFFICES ASSUME IInv, CatchUp PROVE IInv'
  OBVIOUS
<1>2. PICK path, n : Ahead(path, n)
  BY <1>1 DEF IInv
<1>3. /\ step' = step /\ start_clk' = start_clk /\ Whole!Next /\ step.status # "running"
      /\ step.status = "stopped" => whole.p.clk < step.p.clk
  BY <1>1 DEF CatchUp
<1>4. n \in Nat \ {0} /\ path[n] = step /\ Matches(path[1], whole)
  BY <1>2 DEF Ahead
<1>5. IsState(whole)
  BY <1>4, NeverState DEF Matches, Twin, Trails
<1>6. Moves(whole, whole')
  BY <1>3, <1>5, WholeMoves
<1>7. n # 1
  <2>1. SUFFICES ASSUME n = 1 PROVE FALSE
    OBVIOUS
  <2>2. Matches(step, whole)
    BY <1>4, <2>1
  <2>3. ~Between(step) /\ whole.status = "running"
    BY <1>3, <1>6 DEF Between, Ready, Moves
  <2>4. CASE Paused(step) /\ Twin(step, whole)
    <3>1. whole.p.clk = step.p.clk /\ step.p.clk \in Nat /\ step.status = "stopped"
      BY <2>4 DEF Paused, Twin, IsState, IsProcessor
    <3> QED
      BY <1>3, <3>1
  <2>5. CASE IsState(step) /\ step.status \in Ends /\ whole = Never(step)
    BY <2>3, <2>5, NeverState DEF Ends, Errors
  <2> QED
    BY <2>2, <2>3, <2>4, <2>5 DEF Matches
<1>8. /\ Between(path[1]) /\ CanAdvance(path[1]) /\ path[2] = Advance(path[1])
  <2>1. 1 \in 1 .. n - 1
    BY <1>4, <1>7
  <2> QED
    BY <1>2, <2>1 DEF Ahead
<1>9. Matches(path[2], whole') \/ Matches(path[1], whole')
  BY <1>4, <1>6, <1>8, MatchingMoves
<1>10. CASE Matches(path[1], whole')
  <2>1. Ahead(path, n)'
    BY <1>2, <1>3, <1>10 DEF Ahead
  <2> QED
    BY <1>1, <1>3, <2>1 DEF IInv
<1>11. CASE Matches(path[2], whole')
  <2> DEFINE rest == [i \in 1 .. n - 1 |-> path[i + 1]]
  <2>1. n - 1 \in Nat \ {0} /\ rest[n - 1] = step /\ rest[1] = path[2]
    BY <1>4, <1>7
  <2>2. ASSUME NEW i \in 1 .. (n - 1) - 1
        PROVE  /\ Between(rest[i]) /\ CanAdvance(rest[i])
               /\ rest[i].p.clk = start_clk
               /\ rest[i + 1] = Advance(rest[i])
    <3>1. i + 1 \in 1 .. n - 1 /\ rest[i] = path[i + 1] /\ rest[i + 1] = path[(i + 1) + 1]
      BY <1>4, <2>2
    <3> QED
      BY <1>2, <3>1 DEF Ahead
  <2> HIDE DEF rest
  <2>3. Ahead(rest, n - 1)'
    BY <1>3, <1>11, <2>1, <2>2 DEF Ahead
  <2> QED
    BY <1>1, <1>3, <2>3 DEF IInv
<1> QED
  BY <1>9, <1>10, <1>11

\* A new call of step begins where the last one stopped.
LEMMA ResumeInvariant == IInv /\ Resume => IInv'
<1>1. SUFFICES ASSUME IInv, Resume PROVE IInv'
  OBVIOUS
<1>2. PICK path, n : Ahead(path, n)
  BY <1>1 DEF IInv
<1>3. /\ step' = resume_context_from_flow(step) /\ start_clk' = step.p.clk /\ whole' = whole
      /\ step.status = "stopped"
      /\ whole.status = "running" => whole.p.clk = step.p.clk
  BY <1>1 DEF Resume
<1>4. n \in Nat \ {0} /\ path[n] = step /\ Matches(path[1], whole)
  BY <1>2 DEF Ahead
<1>5. Paused(step) /\ step.p.clk = start_clk + 1 /\ start_clk \in Nat
  BY <1>1, <1>3 DEF IInv, InCall, Between, Ready, Ends, Errors
<1>6. n = 1
  <2>1. SUFFICES ASSUME n # 1 PROVE FALSE
    OBVIOUS
  <2>2. Between(path[1]) /\ path[1].p.clk = start_clk
    <3>1. 1 \in 1 .. n - 1
      BY <1>4, <2>1
    <3> QED
      BY <1>2, <3>1 DEF Ahead
  <2>3. whole.status = "running" /\ whole.p = path[1].p
    BY <1>4, <2>2 DEF Matches, Between, Ready, Paused, Ends, Errors, Twin, Trails
  <2> QED
    BY <1>3, <1>5, <2>2, <2>3
<1>7. Twin(step, whole)
  BY <1>3, <1>4, <1>6 DEF Matches, Between, Ready, Ends, Errors
<1>8. Between(step') /\ step'.p = step.p /\ Matches(step', whole)
  BY <1>3, <1>5, <1>7, Resumed
<1>9. PICK fresh : fresh[1] = step'
  <2>1. [j \in 1 .. 1 |-> step'][1] = step'
    OBVIOUS
  <2> QED
    BY <2>1, Zenon
<1>10. Ahead(fresh, 1)'
  BY <1>3, <1>8, <1>9 DEF Ahead
<1>11. start_clk' \in Nat /\ InCall(step', start_clk')
  BY <1>3, <1>5, <1>8 DEF InCall
<1> QED
  BY <1>10, <1>11 DEF IInv

\* The stepped loop is ahead of the uninterrupted one by steps of one call.
THEOREM Invariant == Spec => []IInv
<1>1. IInv /\ [Next]_vars => IInv'
  <2>1. SUFFICES ASSUME IInv, [Next]_vars PROVE IInv'
    OBVIOUS
  <2>2. CASE RunStep
    BY <2>1, <2>2, RunStepInvariant
  <2>3. CASE CatchUp
    BY <2>1, <2>3, CatchUpInvariant
  <2>4. CASE Resume
    BY <2>1, <2>4, ResumeInvariant
  <2>5. CASE UNCHANGED vars
    BY <2>1, <2>5 DEF IInv, Ahead, vars
  <2> QED
    BY <2>1, <2>2, <2>3, <2>4, <2>5 DEF Next, Done
<1> QED
  BY <1>1, InitInvariant, PTL DEF Spec

\* A call that has not ended the path lies behind the stepped loop's clock: when
\* the clocks agree, or the uninterrupted loop has finished, it has caught up.
LEMMA CaughtUp ==
    ASSUME IInv, step.status = "stopped" => whole.p.clk = step.p.clk,
           Finished(step) => Finished(whole), step.status # "running"
    PROVE  Matches(step, whole)
<1>1. PICK path, n : Ahead(path, n)
  BY DEF IInv
<1>2. n \in Nat \ {0} /\ path[n] = step /\ Matches(path[1], whole)
  BY <1>1 DEF Ahead
<1>3. n = 1
  <2>1. SUFFICES ASSUME n # 1 PROVE FALSE
    OBVIOUS
  <2>2. Between(path[1]) /\ path[1].p.clk = start_clk
    <3>1. 1 \in 1 .. n - 1
      BY <1>2, <2>1
    <3> QED
      BY <1>1, <3>1 DEF Ahead
  <2>3. whole.status = "running" /\ whole.p = path[1].p
    BY <1>2, <2>2 DEF Matches, Between, Ready, Paused, Ends, Errors, Twin, Trails
  <2>4. Paused(step) /\ step.p.clk = start_clk + 1 /\ start_clk \in Nat
    BY <2>3 DEF IInv, InCall, Between, Ready, Ends, Errors, Finished
  <2> QED
    BY <2>2, <2>3, <2>4 DEF Paused
<1> QED
  BY <1>2, <1>3

\* For every program: wherever StepStopper stops, machine, forest and remaining
\* work are those of the uninterrupted execution at that clock cycle.
THEOREM StopsCorrespond == Spec => []StopEncodesNextStep
<1>1. IInv => StopEncodesNextStep
  <2>1. SUFFICES ASSUME IInv, step.status = "stopped", whole.p.clk = step.p.clk
                 PROVE  /\ step.p = whole.p
                        /\ Remaining(step) = Remaining(whole)
                        /\ step.forest = whole.forest
    BY DEF StopEncodesNextStep
  <2>2. Matches(step, whole)
    BY <2>1, CaughtUp DEF Finished
  <2>3. Paused(step) /\ Twin(step, whole)
    BY <2>1, <2>2 DEF Matches, Between, Ready, Ends, Errors
  <2> QED
    BY <2>3 DEF Paused, Twin, Agenda, Remaining
<1> QED
  BY <1>1, Invariant, PTL

\* For every program, execute_by_step ends with the outputs or the error of execute.
THEOREM EndsCorrespond == Spec => []SteppingEndsLikeExecution
<1>1. IInv => SteppingEndsLikeExecution
  <2>1. SUFFICES ASSUME IInv, Finished(step), Finished(whole)
                 PROVE  step.status = whole.status /\ step.p = whole.p
    BY DEF SteppingEndsLikeExecution
  <2>2. Matches(step, whole)
    BY <2>1, CaughtUp DEF Finished
  <2>3. IsState(step) /\ whole = Never(step)
    BY <2>1, <2>2 DEF Matches, Between, Ready, Paused, Finished
  <2> QED
    BY <2>3, NeverState
<1> QED
  BY <1>1, Invariant, PTL

\* A call of step that stops has executed exactly one clock cycle.
THEOREM StepsAreCycles == Spec => []OneCyclePerStep
<1>1. IInv => OneCyclePerStep
  BY DEF IInv, InCall, OneCyclePerStep, Between, Ready, Ends, Errors
<1> QED
  BY <1>1, Invariant, PTL

\* A ResumeContext names the forest of the continuation that runs next.
THEOREM ResumeContextsAreCurrent == Spec => []ResumeContextIsCurrent
<1>1. IInv => ResumeContextIsCurrent
  BY DEF IInv, InCall, ResumeContextIsCurrent, Between, Paused, Ends, Errors
<1> QED
  BY <1>1, Invariant, PTL

----------------------------------------------------------------------------
(* Context ids                                                             *)

\* A step of a loop enters no context that was used, and keeps the bound.
LEMMA MovesFresh ==
    ASSUME NEW st, NEW next, IsState(st), Bounded(st), Moves(st, next)
    PROVE  FreshContext(st.p, next.p) /\ Bounded(next)
<1>1. st.status = "running"
  BY DEF Moves
<1>2. CASE Leaves(st, next)
  <2>1. next.p = st.p /\ next.brk = st.brk
    BY <1>2, Zenon DEF Leaves, Taken, IsState, Fields
  <2>2. Below(st.p, Horizon(st)) /\ Horizon(next) = Horizon(st)
    BY <1>1, <2>1 DEF Bounded, Horizon
  <2>3. FreshContext(st.p, st.p)
    BY StillFresh
  <2> QED
    BY <2>1, <2>2, <2>3 DEF Bounded
<1>3. CASE CanAdvance(st) /\ next = Advance(st)
  BY <1>1, <1>3, AdvanceFresh
<1> QED
  BY <1>2, <1>3 DEF Moves

\* Both loops are in states of the loop.
LEMMA StatesOfBoth ==
    ASSUME IInv
    PROVE  IsState(step) /\ IsState(whole)
<1>1. IsState(step)
  BY DEF IInv, InCall, Between, Paused, Ready
<1>2. PICK path, n : Ahead(path, n)
  BY DEF IInv
<1>3. Matches(path[1], whole)
  BY <1>2 DEF Ahead
<1> QED
  BY <1>1, <1>3, NeverState DEF Matches, Twin, Trails

\* A stepped loop and an uninterrupted one give every call and dyncall a context
\* that none of their earlier steps used, for every program.
THEOREM ContextsAreFreshHolds == Spec => ContextsAreFresh
<1> DEFINE J == Bounded(step) /\ Bounded(whole)
<1>1. Init => J
  <2>1. SUFFICES ASSUME Init PROVE J
    OBVIOUS
  <2>2. PICK i \in DOMAIN Programs :
          /\ step = get_initial_resume_context(Programs[i], "StepStopper")
          /\ whole = get_initial_resume_context(Programs[i], "NeverStopper")
    BY <2>1 DEF Init
  <2> DEFINE p == new_processor(Programs[i].inputs, Programs[i].advice)
  <2>3. step.p = p /\ whole.p = p /\ step.brk = NoBreak /\ whole.brk = NoBreak
    BY <2>2 DEF get_initial_resume_context, initial_state
  <2>4. p.ctx = 0 /\ p.clk = 0 /\ p.calls = <<>> /\ p.mem = <<>>
    BY DEF new_processor
  <2> HIDE DEF p
  <2>5. Below(p, 0)
    <3>1. IsSeq(<<>>)
      BY PairIsSeq, Zenon
    <3>2. DOMAIN <<>> = {}
      OBVIOUS
    <3>3. IsSeq(p.calls) /\ DOMAIN p.calls = {} /\ DOMAIN p.mem = {}
      BY <2>4, <3>1, <3>2
    <3> QED
      BY <2>4, <3>3 DEF Below
  <2> QED
    BY <2>3, <2>4, <2>5, NoBreakKind DEF Bounded, Horizon
<1>2. ASSUME IInv, J, [Next]_vars
      PROVE  J' /\ FreshContext(step.p, step'.p) /\ FreshContext(whole.p, whole'.p)
  <2>1. IsState(step) /\ IsState(whole)
    BY <1>2, StatesOfBoth
  <2>2. FreshContext(step.p, step.p) /\ FreshContext(whole.p, whole.p)
    BY StillFresh
  <2>3. CASE RunStep
    <3>1. Moves(step, step') /\ whole' = whole
      BY <2>1, <2>3, StepMoves DEF RunStep
    <3> QED
      BY <1>2, <2>1, <2>2, <3>1, MovesFresh DEF Bounded, Horizon
  <2>4. CASE CatchUp
    <3>1. Moves(whole, whole') /\ step' = step
      BY <2>1, <2>4, WholeMoves DEF CatchUp
    <3> QED
      BY <1>2, <2>1, <2>2, <3>1, MovesFresh DEF Bounded, Horizon
  <2>5. CASE Resume
    <3>1. step'.p = step.p /\ step'.brk = step.brk /\ whole' = whole /\ step.status = "stopped"
      BY <2>1, <2>5 DEF Resume, resume_context_from_flow, IsState, Fields
    <3> QED
      BY <1>2, <2>2, <3>1 DEF Bounded, Horizon
  <2>6. CASE UNCHANGED vars
    BY <1>2, <2>2, <2>6 DEF vars, Bounded, Horizon
  <2> QED
    BY <1>2, <2>3, <2>4, <2>5, <2>6 DEF Next, Done
<1> HIDE DEF J
<1>3. Spec => []J
  BY <1>1, <1>2, Invariant, PTL DEF Spec
<1>4. IInv /\ J /\ [Next]_vars
        => [FreshContext(step.p, step'.p) /\ FreshContext(whole.p, whole'.p)]_vars
  BY <1>2
<1> QED
  BY <1>3, <1>4, Invariant, PTL DEF Spec, ContextsAreFresh
=============================================================================
