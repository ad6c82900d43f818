-------------------------- MODULE MCStreamedHasher --------------------------
(***************************************************************************)
(* An instance of StreamedHasher: executions whose hasher, core and other  *)
(* rows fall on either side of every cap.                                  *)
(***************************************************************************)
EXTENDS StreamedHasher

Rows(fragments, core, nonHasher, permutations) ==
    [fragments |-> fragments, fragment_size |-> 2, core |-> core,
     non_hasher |-> nonHasher, permutations |-> permutations]

SampleExecutions ==
    {[requests |-> r, ending |-> e, rows |-> Rows(1, 2, 1, 1)] :
        r \in {<< >>, <<1, 2>>, <<2, 1, 3>>}, e \in {"ok", "error", "panic"}}
    \cup {[requests |-> <<9, 9>>, ending |-> "ok", rows |-> Rows(9, 9, 1, 1)]}
    \cup {[requests |-> <<4, 3>>, ending |-> "ok", rows |-> Rows(1, 2, 1, 1)]}
    \cup {[requests |-> <<1, 2, 1>>, ending |-> "ok", rows |-> w] :
        w \in {Rows(1, 2, 2, 3), Rows(3, 4, 1, 1), Rows(8, 9, 1, 1), Rows(1, 20, 7, 2)}}

SampleBudgets == {20000, 40000, 60000, 500000}
=============================================================================
