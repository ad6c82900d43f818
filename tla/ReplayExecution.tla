-------------------------- MODULE ReplayExecution ---------------------------
(* The execution loop over ReplayProcessor, writing a fragment's rows.      *)
EXTENDS CoreTraceGenerationTracer

CONSTANT kernel

VARIABLE s

INSTANCE Execution

INSTANCE ExecutionLoop
=============================================================================
