--------------------------- MODULE FastExecution ----------------------------
(* The execution loop over FastProcessor, watched by ExecutionTracer.       *)
EXTENDS ExecutionTracer

CONSTANT kernel

VARIABLE s

INSTANCE Execution

INSTANCE ExecutionLoop
=============================================================================
