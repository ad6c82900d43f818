--------------------------- MODULE StepExecution ----------------------------
(* The handlers over FastProcessor with NoopTracer, as execute and step     *)
(* run them.                                                                *)
EXTENDS FastProcessor

CONSTANT kernel

NoopTracer == [err |-> "none"]

start_clock_cycle(t, p, cont, cs, forest) == t

finalize_clock_cycle(t, p, forest) == t

record_memory_read_element(t, value) == t

record_memory_read_word(t, value) == t

record_advice_pop_stack(t, value) == t

record_mast_forest_resolution(t, root, forest) == t

record_external_node_entered(t, id, forest) == t

INSTANCE Execution

-----------------------------------------------------------------------------
(* Terms of the properties.                                                *)

\* The contexts that p is in, will return to, or has memory of.
KnownContexts(p) ==
    {loc[1] : loc \in DOMAIN p.mem} \cup {p.ctx} \cup {p.calls[k].ctx : k \in DOMAIN p.calls}

\* From p to q no call or dyncall enters a context that p knows of.
FreshContext(p, q) ==
    Len(q.calls) > Len(p.calls) /\ q.ctx # 0 => q.ctx \notin KnownContexts(p)
=============================================================================
