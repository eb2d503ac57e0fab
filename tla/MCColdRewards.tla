---------------------------- MODULE MCColdRewards ----------------------------
(***************************************************************************)
(* Small instances of ColdRewards: coins of different weight, one of them  *)
(* below the minimum balance, in transactions 1 to 3.                      *)
(***************************************************************************)
EXTENDS ColdRewards, TLC

Heavy == <<1, 0>>
Light == <<2, 0>>
Twin  == <<2, 1>>
Dust  == <<3, 0>>
Far   == <<4, 129>>
FarAsRead == CursorKey(Far)

MCKey       == {Heavy, Light, Twin, Dust}
FarKey      == {Far, FarAsRead}
MCCursorPos == (Heavy :> 2) @@ (Light :> 3) @@ (Twin :> 4) @@ (Dust :> 1)
FarCursorPos == (Far :> 2) @@ (FarAsRead :> 1)
MCValue     == (Heavy :> 12000) @@ (Light :> 3000) @@ (Twin :> 3000) @@ (Dust :> 500)
FarValue    == (Far :> 12000) @@ (FarAsRead :> 0)
MCScript    == (Heavy :> 1) @@ (Light :> 2) @@ (Twin :> 3) @@ (Dust :> 4)
FarScript   == (Far :> 1) @@ (FarAsRead :> 0)
MCPerCent   == <<100, 50>>
MinusOne    == -1

Txs(cr, sp) == [creates |-> cr, spends |-> sp]
MCTxSets ==
    {Txs({}, {}), Txs({Heavy, Light}, {Light}), Txs({Light, Twin, Dust}, {}),
     Txs({}, {Twin, Dust}), Txs({Heavy}, {}), Txs({Twin}, {Heavy})}
FarTxSets == {Txs({}, {}), Txs({Far}, {})}
=============================================================================
