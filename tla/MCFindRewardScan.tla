-------------------------- MODULE MCFindRewardScan --------------------------
(* All databases of three coins, two of them in one transaction.           *)
EXTENDS FindRewardScan, TLC

Heavy == <<1, 0>>
Light == <<2, 0>>
Twin  == <<2, 1>>

MCKey       == {Heavy, Light, Twin}
MCCursorPos == (Heavy :> 2) @@ (Light :> 1) @@ (Twin :> 3)
MCValue     == (Heavy :> 12000) @@ (Light :> 3000) @@ (Twin :> 3000)
MCScript    == (Heavy :> 1) @@ (Light :> 2) @@ (Twin :> 3)
MCPerCent   == <<100, 50>>

PartialFunctions(S, T) == UNION {[D -> T] : D \in SUBSET S}

MCDatabases == PartialFunctions(MCKey, [height : {1, 2, 4}, active : BOOLEAN])
MCCaches    == PartialFunctions({Heavy, Twin}, {2, 3})
MCHeights   == {5, 6}
=============================================================================
