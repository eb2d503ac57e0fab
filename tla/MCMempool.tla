------------------------------ MODULE MCMempool ------------------------------
(* c spends from a and from b, which spends from a; d and b spend the same   *)
(* coin; e is final late and valid under the old rules only.                 *)
EXTENDS Mempool

CONSTANTS a, b, c, d, e

MCTx == {a, b, c, d, e}
MCCoin == {"r1", "r2", "a1", "a2", "b1", "e1"}
MCInputs == (a :> {"r1"}) @@ (b :> {"a1"}) @@ (c :> {"a2", "b1"}) @@ (d :> {"a1", "e1"}) @@ (e :> {"r2"})
MCOutputs == (a :> {"a1", "a2"}) @@ (b :> {"b1"}) @@ (c :> {}) @@ (d :> {}) @@ (e :> {"e1"})
MCFee == (a :> 1) @@ (b :> 3) @@ (c :> 2) @@ (d :> 4) @@ (e :> 1)
MCLock == [t \in MCTx |-> IF t = e THEN 2 ELSE 0]
MCRules == [t \in MCTx |-> IF t = e THEN {FALSE} ELSE BOOLEAN]
MCOrder == <<c, b, d, a, e>>
MCDeltas == {2}
MCNegative == {-3}

=============================================================================
