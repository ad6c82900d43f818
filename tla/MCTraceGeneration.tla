------------------------- MODULE MCTraceGeneration --------------------------
(* TraceGeneration over the sample programs, with fragments that end inside *)
(* basic blocks, calls and forest switches.                                 *)
EXTENDS TraceGeneration, SamplePrograms
=============================================================================
