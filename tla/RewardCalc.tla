----------------------------- MODULE RewardCalc -----------------------------
(***************************************************************************)
(* The arithmetic of the cold reward: what a coin of a given balance earns *)
(* over a number of blocks (devault/rewards_calculation.cpp), and which    *)
(* heights are superblocks (devault/rewards.cpp, IsSuperBlock).  All of it *)
(* is integer arithmetic on amounts counted in the smallest unit.          *)
(***************************************************************************)
EXTENDS Integers, Sequences

CONSTANTS
    nBlocksPerYear,    \* consensus.nBlocksPerYear
    nPerCentPerYear,   \* consensus.nPerCentPerYear, a sequence, one entry a year
    nMinReward,        \* consensus.nMinReward, an amount
    COIN               \* Amount::COIN_PRECISION: smallest units in one coin

ASSUME RewardCalcAssumption ==
    /\ nBlocksPerYear \in Nat \ {0}
    /\ nPerCentPerYear \in Seq(Nat \ {0})
    /\ Len(nPerCentPerYear) > 0
    /\ \A i \in DOMAIN nPerCentPerYear : nPerCentPerYear[i] <= 100 * nBlocksPerYear
    /\ nMinReward \in Nat \ {0}
    /\ COIN \in Nat \ {0}

\* The year a height lies in, as a (1-based) index into nPerCentPerYear; the
\* last percentage stays in force for ever.
YearIndex(height) ==
    IF height \div nBlocksPerYear > Len(nPerCentPerYear) - 1
    THEN Len(nPerCentPerYear)
    ELSE height \div nBlocksPerYear + 1

\* Blocks a balance needs to earn itself once, at the year's percentage.
RewardRateReciprocal(height) ==
    (100 * nBlocksPerYear) \div nPerCentPerYear[YearIndex(height)]

\* Quantised first to the smallest unit per block, then to 1/100 of a coin;
\* a reward below nMinReward is no reward at all.
CalculateReward(height, heightDiff, balance) ==
    LET perBlock == balance \div RewardRateReciprocal(height)
        x100     == (100 * heightDiff * perBlock) \div COIN
        reward   == x100 * (COIN \div 100)
    IN  IF reward < nMinReward THEN 0 ELSE reward

IsSuperBlock(height) == height % (nBlocksPerYear \div 12) = 0
=============================================================================
