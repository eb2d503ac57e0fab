------------------------------ MODULE MCTxIndex ------------------------------
(* Two branches from the genesis block, the second the longer one.         *)
(* Transaction x is in a block of each, the others in one block.           *)
EXTENDS TxIndex, TLC

CONSTANTS g, a1, b1, b2, p, r, x

MCBlock  == {g, a1, b1, b2}
MCParent == (a1 :> g) @@ (b1 :> g) @@ (b2 :> b1)
MCBranch == LET below[b \in MCBlock] == {b} \cup IF b = g THEN {} ELSE below[MCParent[b]] IN below
MCHeight == [b \in MCBlock |-> Cardinality(MCBranch[b])]
MCTx     == {p, r, x}
MCTxs    == (g :> {}) @@ (a1 :> {p, x}) @@ (b1 :> {r}) @@ (b2 :> {x})
=============================================================================
