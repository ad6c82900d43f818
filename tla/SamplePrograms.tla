--------------------------- MODULE SamplePrograms ---------------------------
(***************************************************************************)
(* The programs the execution models are run on: a main forest and two     *)
(* libraries of the host.  A program runs a prefix, which fills the stack, *)
(* the memory or nothing, then a body, which is any control node over the  *)
(* leaves, then a cleanup that adds up three elements, which brings most   *)
(* stacks back to their minimum depth and keeps what was computed.         *)
(* Node digests are 100 + id in the main forest, 800 and 900 + id in the   *)
(* libraries; an external node has the digest of what it stands for.       *)
(***************************************************************************)
EXTENDS MastForest, TLC

Ops(names) == [i \in DOMAIN names |-> Op(names[i])]

Main == 1
LibraryA == 2
LibraryB == 3

\* Stores digest at address 5 and leaves the address on the stack, which has
\* grown by one element unless the rest takes it back.
CalleeAt5(id, digest, rest) ==
    Block(id, << <<PushOp(digest), PushOp(5)>>,
                 Ops(<<"mstore", "drop">>) \o <<PushOp(5)>> \o Ops(rest) >>)

Leaves == <<
    Block(101, << <<PushOp(3), PushOp(1)>> >>),
    Block(102, << Ops(<<"drop">>), Ops(<<"swap">>) >>),
    Block(103, << Ops(<<"advpop">>) >>),
    Block(104, << Ops(<<"advpop", "swap">>), Ops(<<"drop">>) >>),
    Block(105, << <<PushOp(9), Op("emit"), Op("drop"), Op("advpop")>> >>),
    Block(106, << Ops(<<"caller", "swap">>) >>),
    Block(107, << Ops(<<"sdepth", "clk", "add">>), Ops(<<"add">>) >>),
    Block(108, << Ops(<<"assert", "dup">>) >>),
    Block(109, << <<PushOp(7), Op("mload"), Op("add")>> >>),
    Node("external", 801, <<>>),
    Node("external", 804, <<>>),
    Node("external", 805, <<>>),            \* resolves to an external node
    Node("external", 806, <<>>),            \* in no library
    Node("dyn", 114, <<>>),
    Node("dyncall", 115, <<>>),
    CalleeAt5(116, 102, <<>>),              \* a procedure of the main forest
    CalleeAt5(117, 901, <<>>),              \* a procedure of library B
    CalleeAt5(118, 807, <<>>),              \* library A is registered for it in vain
    CalleeAt5(119, 102, <<"swap", "drop">>),
    Block(120, << Ops(<<"add", "add">>) >>),
    Block(121, << <<PushOp(1)>> >>),
    Block(122, << Ops(<<"emit", "noop">>) >>) >>

Cleanup == 20

NumLeaves == 22

\* The nodes over other nodes: N(k) is the id of the k-th.
N(k) == NumLeaves + k

One(k, kind, a) == Node(kind, 100 + N(k), <<a>>)

Two(k, kind, a, b) == Node(kind, 100 + N(k), <<a, b>>)

Inners == <<
    One(1, "call", 2), One(2, "call", 4), One(3, "call", 6), One(4, "call", 1),
    One(5, "syscall", 4), One(6, "syscall", 6), One(7, "syscall", 1),
    One(8, "loop", 3), One(9, "loop", 10), One(10, "loop", N(2)), One(11, "loop", 5),
    Two(12, "split", 4, 10), Two(13, "split", N(1), 2), Two(14, "join", 10, 11),
    One(15, "call", N(8)), Two(16, "join", 3, N(13)), One(17, "call", 14), One(18, "call", 9),
    Two(19, "join", N(5), N(18)), One(20, "call", N(19)), One(21, "loop", N(4)),
    Two(22, "join", N(6), N(3)), Two(23, "join", 2, 3), One(24, "call", N(23)),
    One(25, "loop", N(24)), One(26, "loop", 21), One(27, "call", N(6)) >>

NumInners == 27

ASSUME SizesAssumption == Len(Leaves) = NumLeaves /\ Len(Inners) = NumInners

NumBodies == NumLeaves + NumInners

PrefixIds == <<1, 2, 3, 16, 17, 18, 19>>

NumPrograms == 7 * NumBodies

\* Program k runs prefix PrefixIds[i] and body j; its nodes are two joins.
Prefix(k) == PrefixIds[((k - 1) \div NumBodies) + 1]

Body(k) == ((k - 1) % NumBodies) + 1

First(k) == NumBodies + 2 * k - 1

Joins == [n \in 1..(2 * NumPrograms) |->
            LET k == (n + 1) \div 2
            IN  IF n % 2 = 1 THEN Node("join", 100 + First(k), <<Prefix(k), Body(k)>>)
                ELSE Node("join", 101 + First(k), <<First(k), Cleanup>>)]

MainForest == [nodes |-> Leaves \o Inners \o Joins, roots |-> <<2, 4, 6, 10>>]

ForestA ==
    [nodes |-> << Block(801, << Ops(<<"advpop">>) >>),
                  Block(802, << <<PushOp(5)>>, Ops(<<"add">>) >>),
                  Node("external", 901, <<>>),
                  Node("join", 804, <<2, 3>>),
                  Node("external", 805, <<>>) >>,
     roots |-> <<1, 2, 4, 5>>]

ForestB ==
    [nodes |-> << Node("call", 901, <<2>>),
                  Block(902, << Ops(<<"caller">>), Ops(<<"noop">>) >>) >>,
     roots |-> <<1>>]

SampleForests == <<MainForest, ForestA, ForestB>>

SampleLibrary ==
    (801 :> LibraryA) @@ (804 :> LibraryA) @@ (805 :> LibraryA) @@ (807 :> LibraryA)
        @@ (901 :> LibraryB)

SampleEvents == 9 :> <<1, 0>>

SampleKernel == {104, 106}

Program(entry, inputs, advice) ==
    [forest |-> Main, entry |-> entry, inputs |-> inputs, advice |-> advice]

\* After one of the prefixes the advice runs out in a loop that reads it.
GridPrograms == [k \in 1..NumPrograms |->
    Program(First(k) + 1, <<0, 2, 1>>,
            IF Prefix(k) = 17 THEN <<1, 1>> ELSE <<1, 1, 0, 0, 5>>)]

\* Programs whose entrypoint is an external node: without and with a further
\* external node in the procedure it resolves to.
ExternalEntryPrograms ==
    << Program(10, <<0, 2, 1>>, <<1>>), Program(11, <<0, 2, 1>>, <<>>) >>
=============================================================================
