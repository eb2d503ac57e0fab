------------------------- MODULE MCChainstateFlush -------------------------
(* Two branches of two blocks.  Transaction x is in both, at different     *)
(* heights; y spends it on branch A; z is spent in the block that creates  *)
(* it on branch A and one block later on branch B.                         *)
EXTENDS ChainstateFlush, TLC

CONSTANTS g, a1, a2, b1, b2, x, y, z

MCBlock    == {g, a1, a2, b1, b2}
MCParent   == (a1 :> g) @@ (a2 :> a1) @@ (b1 :> g) @@ (b2 :> b1)
MCHeight   == (g :> 0) @@ (a1 :> 1) @@ (a2 :> 2) @@ (b1 :> 1) @@ (b2 :> 2)
MCOutpoint == {x, y, z}
MCCreates  == (g :> {}) @@ (a1 :> {x}) @@ (a2 :> {y, z}) @@ (b1 :> {z}) @@ (b2 :> {x})
MCSpends   == (g :> {}) @@ (a1 :> {}) @@ (a2 :> {x, z}) @@ (b1 :> {}) @@ (b2 :> {z})

MCAncestors[b \in MCBlock] == {b} \cup IF b = g THEN {} ELSE MCAncestors[MCParent[b]]

MCUtxo[b \in MCBlock] ==
    IF b = g THEN [o \in MCOutpoint |-> Spent] ELSE Connected(MCUtxo[MCParent[b]], b)
=============================================================================
