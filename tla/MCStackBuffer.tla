---------------------------- MODULE MCStackBuffer ----------------------------
(* StackBuffer for TLC: the base lies one cell above cell 0, so that two   *)
(* drops move the stack back; two cells lie above the initial top, and the *)
(* depth limit lets the buffer grow.                                       *)
EXTENDS StackBuffer
=============================================================================
