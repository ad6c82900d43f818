-------------------------- MODULE MCAdviceProvider --------------------------
(***************************************************************************)
(* A small advice provider: the limits leave room for a few nodes, entries *)
(* and elements beside the empty subtrees, so every kind of call meets the *)
(* limit, and the mutations repeat and contradict each other.              *)
(***************************************************************************)
EXTENDS AdviceProvider, TLC

CONSTANTS e, x, k1, k2

SampleLeaves == {e, x}
SampleValues == {<<0>>, <<0, 1>>}
SampleLimits == {96, 288, 304}

Stack(n) == [kind |-> "ExtendStack", stack |-> n]
Entries(map) == [kind |-> "ExtendMap", map |-> map]
Nodes(nodes) == [kind |-> "ExtendMerkleStore", nodes |-> nodes]

SampleMutations ==
    {Stack(5), Entries(k1 :> <<0>>), Entries(k1 :> <<0, 1>> @@ k2 :> <<0>>), Nodes({<<x, e>>}),
     Nodes({<<x, e>>, <<<<x, e>>, <<e, e>>>>})}
SampleInputs ==
    {[stack |-> 0, map |-> <<>>, nodes |-> {}],
     [stack |-> 3, map |-> k1 :> <<0>>, nodes |-> {<<e, e>>, <<e, x>>}]}
=============================================================================
