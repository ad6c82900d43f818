----------------------------- MODULE MCStepping -----------------------------
(* Stepping over the sample programs, with a continuation limit that some   *)
(* of them reach.                                                           *)
EXTENDS Stepping, SamplePrograms
=============================================================================
