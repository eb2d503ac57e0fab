---------------------------- MODULE RewardsCrash ----------------------------
(***************************************************************************)
(* The chain state of ChainstateFlush together with the rewards database,  *)
(* which is written block by block as the tip moves, not with the flush,   *)
(* and which startup takes as it finds it.                                 *)
(***************************************************************************)
EXTENDS ChainstateFlush

VARIABLE rewarded   \* the blocks whose effects the rewards database holds

\* ConnectBlock (UpdateRewardsDB) and ConnectTip (UpdateWithBlock).
ConnectRewards(b) == ConnectTip(b) /\ rewarded' = rewarded \cup {b}

\* ApplyBlockUndo (UndoBlock), on behalf of DisconnectTip.
DisconnectRewards == DisconnectTip /\ rewarded' = rewarded \ {tip}

\* ApplyBlockUndo on behalf of ReplayBlocks; RollforwardBlock has no such call.
RollbackRewards == RollbackBlock /\ rewarded' = rewarded \ {pos}

RewardsUnchanged ==
    /\ \/ \E b \in Block : AcceptBlock(b) \/ RollforwardBlock(b)
       \/ WriteIndex \/ StartFlush
       \/ \E S \in SUBSET Pending : PartialBatch(S)
       \/ FinalBatch \/ Crash
       \/ StartClean \/ StartReplay \/ FlushReplayed
    /\ UNCHANGED rewarded

RInit == Init /\ rewarded = {}

RNext ==
    \/ \E b \in Block : ConnectRewards(b)
    \/ DisconnectRewards
    \/ RollbackRewards
    \/ RewardsUnchanged

RSpec == RInit /\ [][RNext]_<<vars, rewarded>>

\* A block is applied to, and removed from, the chain state atomically, the
\* rewards database included: the running node's rewards are those of its
\* chain ("Apply the block atomically to the chain state", DisconnectTip).
RewardsMatchTip == mode = "run" => rewarded = Ancestors[tip] \ {Genesis}
=============================================================================
