-------------------------- MODULE RewardSelection --------------------------
(***************************************************************************)
(* What FindReward (devault/rewards.cpp) selects from the rewards database *)
(* and what it purges, as functions of the database's contents.  Module    *)
(* FindRewardScan models the cursor loop that computes them.               *)
(***************************************************************************)
EXTENDS RewardCalc

CONSTANTS
    Key,            \* outpoints: pairs <<transaction, output index>>
    CursorPos,      \* place of each outpoint in the database's byte order
    Value,          \* amount of each output
    Script,         \* scriptPubKey of each output
    nMinBlocks,     \* consensus.nMinRewardBlocks
    nMaxReward,     \* consensus.nMaxReward
    maxreorgdepth,  \* -maxreorgdepth; negative: finalization is disabled
    NoPay           \* no cold reward: a coinbase with a single output

ASSUME RewardSelectionAssumption ==
    /\ Key \subseteq Nat \X Nat
    /\ CursorPos \in [Key -> Nat]
    /\ \A a, b \in Key : CursorPos[a] = CursorPos[b] => a = b
    /\ Value \in [Key -> Nat]
    /\ nMinBlocks \in Nat
    /\ nMaxReward \in Nat
    /\ maxreorgdepth \in Int

-----------------------------------------------------------------------------
(* Outpoints.                                                              *)

\* COutPoint's operator<.
KeyLess(a, b) == a[1] < b[1] \/ (a[1] = b[1] /\ a[2] < b[2])

\* The database stores an outpoint's index as four little-endian bytes, its
\* cursor reads it back as a VARINT of seven bits a byte (CRewardKey).  This
\* is the index read back, for indices below 2^15.
ReadBackIndex(n) ==
    LET b0 == n % 256
    IN  IF b0 < 128 THEN b0 ELSE (b0 - 128 + 1) * 128 + (n \div 256)

\* The outpoint that CRewardsViewDBCursor::GetKey reports for a stored one.
CursorKey(k) == <<k[1], ReadBackIndex(k[2])>>

-----------------------------------------------------------------------------
(* The selection.  A map "last" gives, for every coin that earns rewards,  *)
(* the height of its creation or last payment.                             *)

RewardOf(lastHeight, k, H) == CalculateReward(lastHeight, H - lastHeight, Value[k])

Capped(reward) == IF reward < nMaxReward THEN reward ELSE nMaxReward

\* Payment of coin k at height H (GetPayment's amount).
PaymentOf(last, k, H) == Capped(RewardOf(last[k], k, H))

\* The coins that may be paid at height H.
Candidates(last, H) ==
    {k \in DOMAIN last : /\ H - last[k] > nMinBlocks
                         /\ RewardOf(last[k], k, H) >= nMinReward}

\* Mutant of Better: the younger coin is preferred.
BetterYoungest(last, H, a, b) ==
    \/ last[a] > last[b]
    \/ last[a] = last[b] /\ KeyLess(CursorKey(a), CursorKey(b))

\* FindReward's order of preference: the older coin, then the greater capped
\* reward, then the smaller outpoint as the cursor reads it, then the one
\* the cursor meets first.
Better(last, H, a, b) ==
    \/ last[a] < last[b]
    \/ /\ last[a] = last[b]
       /\ PaymentOf(last, a, H) > PaymentOf(last, b, H)
    \/ /\ last[a] = last[b]
       /\ PaymentOf(last, a, H) = PaymentOf(last, b, H)
       /\ \/ KeyLess(CursorKey(a), CursorKey(b))
          \/ CursorKey(a) = CursorKey(b) /\ CursorPos[a] < CursorPos[b]

Selected(last, H) ==
    CHOOSE k \in Candidates(last, H) :
        \A o \in Candidates(last, H) \ {k} : Better(last, H, k, o)

\* The coinbase output FindReward asks for, or NoPay.
FindPayment(last, H) ==
    IF Candidates(last, H) = {} THEN NoPay
    ELSE LET k == Selected(last, H)
         IN  [value |-> PaymentOf(last, k, H), script |-> Script[k]]

-----------------------------------------------------------------------------
(* The database: a function from stored outpoints to CRewardValue records. *)

Active(d)     == {k \in DOMAIN d : d[k].active}
LastHeight(d) == [k \in Active(d) |-> d[k].height]

\* Inactive entries whose cached height c is more than maxreorgdepth below H:
\* FindReward drops them from the cache and from the database.
Expired(d, c, H) ==
    {k \in DOMAIN d : /\ ~d[k].active
                      /\ CursorKey(k) \in DOMAIN c
                      /\ H - c[CursorKey(k)] > maxreorgdepth}

Purgeable(d, c, H) == {CursorKey(k) : k \in Expired(d, c, H)}

\* d without the keys in K (CRewardsViewDB::Erase, std::map::erase).
Erase(d, K) == [k \in DOMAIN d \ K |-> d[k]]
=============================================================================
