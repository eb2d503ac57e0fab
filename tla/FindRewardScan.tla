--------------------------- MODULE FindRewardScan ---------------------------
(***************************************************************************)
(* The cursor loop of CColdRewards::FindReward (devault/rewards.cpp), one  *)
(* step per database entry.  The cursor is a snapshot of the database in   *)
(* byte order; db0 and cache0 keep what the call started from.             *)
(***************************************************************************)
EXTENDS RewardSelection

CONSTANTS
    Databases,  \* the contents the call may start from
    Caches,     \* and the contents of cachedInactives
    Heights     \* the heights it may be called for

ASSUME FindRewardScanAssumption ==
    /\ Heights \subseteq Nat
    /\ \A d \in Databases : /\ DOMAIN d \subseteq Key
                            /\ \A k \in DOMAIN d : d[k].height \in Nat
    /\ \A c \in Caches : c \in [DOMAIN c -> Int]

VARIABLES
    H,               \* argument Height
    db,              \* the rewards database
    cachedInactives, \* member cachedInactives
    todo,            \* entries the cursor has not reached
    found, minHeight, selAmount,
    sel,             \* the entry whose key is minKey and value sel_reward
    cacheRemovals,
    returned,
    payment,         \* rewardPayment
    db0, cache0

vars == <<H, db, cachedInactives, todo, found, minHeight, selAmount, sel,
          cacheRemovals, returned, payment, db0, cache0>>

Init ==
    /\ H \in Heights
    /\ db0 \in Databases
    /\ cache0 \in Caches
    /\ db = db0
    /\ cachedInactives = cache0
    /\ todo = DOMAIN db
    /\ found = FALSE
    /\ minHeight = H
    /\ selAmount = 0
    /\ sel = NoPay
    /\ cacheRemovals = {}
    /\ returned = FALSE
    /\ payment = NoPay

\* k is the entry under the cursor.
AtCursor(k) == \A o \in todo : CursorPos[k] <= CursorPos[o]

\* An active entry that is not younger than the selected one, and has waited
\* and earns enough.
Eligible(k) ==
    /\ db[k].active
    /\ db[k].height <= minHeight
    /\ H - db[k].height > nMinBlocks
    /\ RewardOf(db[k].height, k, H) >= nMinReward

Amount(k) == Capped(RewardOf(db[k].height, k, H))

\* Mutant of Replaces: a greater amount is enough.
ReplacesByAmount(k) ==
    \/ ~found
    \/ Amount(k) > selAmount
    \/ Amount(k) = selAmount /\ KeyLess(CursorKey(k), CursorKey(sel))

\* The tests that let an eligible entry replace the selected one.
Replaces(k) ==
    \/ db[k].height < minHeight
    \/ Amount(k) > selAmount
    \/ Amount(k) = selAmount /\ KeyLess(CursorKey(k), CursorKey(sel))

VisitReplacing(k) ==
    /\ AtCursor(k)
    /\ Eligible(k)
    /\ Replaces(k)
    /\ found' = TRUE
    /\ selAmount' = Amount(k)
    /\ minHeight' = db[k].height
    /\ sel' = k
    /\ todo' = todo \ {k}
    /\ UNCHANGED <<H, db, cachedInactives, cacheRemovals, returned, payment, db0, cache0>>

VisitOtherActive(k) ==
    /\ AtCursor(k)
    /\ db[k].active
    /\ ~(Eligible(k) /\ Replaces(k))
    /\ found' = (found \/ Eligible(k))
    /\ todo' = todo \ {k}
    /\ UNCHANGED <<H, db, cachedInactives, minHeight, selAmount, sel,
                   cacheRemovals, returned, payment, db0, cache0>>

\* Mutant of OldInactive: one block early.
OldInactiveOneEarly(k) ==
    /\ CursorKey(k) \in DOMAIN cachedInactives
    /\ H - cachedInactives[CursorKey(k)] >= maxreorgdepth

\* The entry was spent so long ago that no reorganisation needs it.
OldInactive(k) ==
    /\ CursorKey(k) \in DOMAIN cachedInactives
    /\ H - cachedInactives[CursorKey(k)] > maxreorgdepth

VisitInactive(k) ==
    LET dropped == IF OldInactive(k) THEN {CursorKey(k)} ELSE {}
    IN  /\ AtCursor(k)
        /\ ~db[k].active
        /\ cachedInactives' = Erase(cachedInactives, dropped)
        /\ cacheRemovals' = cacheRemovals \cup dropped
        /\ todo' = todo \ {k}
        /\ UNCHANGED <<H, db, found, minHeight, selAmount, sel, returned, payment,
                       db0, cache0>>

Return ==
    /\ todo = {}
    /\ ~returned
    /\ returned' = TRUE
    /\ payment' = IF found THEN [value |-> selAmount, script |-> Script[sel]] ELSE NoPay
    /\ db' = Erase(db, cacheRemovals)
    /\ UNCHANGED <<H, cachedInactives, todo, found, minHeight, selAmount, sel,
                   cacheRemovals, db0, cache0>>

Next ==
    \/ \E k \in todo : VisitReplacing(k) \/ VisitOtherActive(k) \/ VisitInactive(k)
    \/ Return

Spec == Init /\ [][Next]_vars

-----------------------------------------------------------------------------

\* The loop computes the selection that COLDREWARDS.md describes and that
\* ColdRewards relies on: the payment goes to the candidate that has waited
\* longest, then earns most, then has the smallest outpoint (FindReward,
\* rewards.cpp:209).
ScanSelects == returned => payment = FindPayment(LastHeight(db0), H)

\* When the call returns, exactly the inactive entries older than the reorg
\* depth have left both the cache and the database (rewards.cpp:280-302).
ScanPurges ==
    returned => /\ db = Erase(db0, Purgeable(db0, cache0, H))
                /\ cachedInactives = Erase(cache0, Purgeable(db0, cache0, H))

-----------------------------------------------------------------------------
(* The inductive invariant: after each entry the selection is the best of  *)
(* the candidates visited so far.                                          *)

Visited == DOMAIN db0 \ todo

VisitedCandidates == Candidates(LastHeight(db0), H) \cap Visited

BestSoFar ==
    /\ found = (VisitedCandidates # {})
    /\ found => /\ sel \in VisitedCandidates
                /\ minHeight = db0[sel].height
                /\ selAmount = PaymentOf(LastHeight(db0), sel, H)
                /\ \A o \in VisitedCandidates \ {sel} : Better(LastHeight(db0), H, sel, o)
    /\ ~found => minHeight = H

PurgedSoFar ==
    LET purged == {CursorKey(k) : k \in Expired(db0, cache0, H) \cap Visited}
    IN  /\ cacheRemovals = purged
        /\ cachedInactives = Erase(cache0, purged)

CursorInOrder == \A v \in Visited, t \in todo : CursorPos[v] < CursorPos[t]

\* The loop keeps the best of the entries visited so far and has purged the
\* expired ones among them (FindReward's while loop).
ScanInv ==
    /\ H \in Heights
    /\ db0 \in Databases
    /\ cache0 \in Caches
    /\ todo \subseteq DOMAIN db0
    /\ returned \in BOOLEAN
    /\ ~returned => db = db0
    /\ returned => todo = {}
    /\ CursorInOrder
    /\ BestSoFar
    /\ PurgedSoFar
    /\ ScanSelects
    /\ ScanPurges
=============================================================================
