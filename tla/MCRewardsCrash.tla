--------------------------- MODULE MCRewardsCrash ---------------------------
EXTENDS RewardsCrash, MCChainstateFlush
=============================================================================
