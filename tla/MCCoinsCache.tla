---------------------------- MODULE MCCoinsCache ----------------------------
(* Two outpoints and three coins, one of them unspendable.                 *)
EXTENDS CoinsCache, TLC

CONSTANTS o1, o2, c1, c2, cu

MCOutpoint    == {o1, o2}
MCCoin        == {c1, c2, cu}
MCUnspendable == {cu}
Symmetry      == Permutations({o1, o2}) \cup Permutations({c1, c2})
=============================================================================
