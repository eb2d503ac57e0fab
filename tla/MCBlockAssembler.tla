--------------------------- MODULE MCBlockAssembler ---------------------------
(* A chain with a side branch, and a transaction with two unrelated parents;  *)
(* children may have smaller ids than their parents.                          *)
EXTENDS BlockAssembler

MCTx == 1..4
Graphs == {<<{2}, {}, {1}, {2}>>, <<{3, 4}, {1}, {}, {}>>, <<{}, {1}, {1, 2}, {}>>}
MCPools ==
    {[parents |-> g, size |-> s, sigops |-> o, fee |-> f, delta |-> d, priority |-> p, final |-> n] :
        g \in Graphs, s \in {<<1, 2, 1, 3>>, <<1, 1, 2, 1>>}, o \in {<<0, 1, 0, 0>>, <<2, 1, 0, 1>>},
        f \in [MCTx -> {1, 4}], d \in {<<0, 0, 0, 0>>, <<3, 0, 0, 0>>, <<0, 0, 5, 0>>},
        p \in {<<0, 1, 1, 0>>, <<1, 1, 1, 1>>}, n \in {1..4, {1, 2, 4}}}

=============================================================================
