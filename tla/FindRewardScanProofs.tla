------------------------ MODULE FindRewardScanProofs ------------------------
(***************************************************************************)
(* The cursor loop of FindReward returns the closed forms of               *)
(* RewardSelection, for every database, cache and height.                  *)
(***************************************************************************)
EXTENDS FindRewardScan, TLAPS

\* The year's index is one of nPerCentPerYear's (CalculateReward's clamp).
LEMMA YearIndexType ==
    ASSUME NEW h \in Nat
    PROVE  YearIndex(h) \in DOMAIN nPerCentPerYear
<1>1. h \div nBlocksPerYear \in Nat
  BY RewardCalcAssumption
<1>2. Len(nPerCentPerYear) \in Nat \ {0} /\ DOMAIN nPerCentPerYear = 1..Len(nPerCentPerYear)
  BY RewardCalcAssumption
<1> QED BY <1>1, <1>2 DEF YearIndex

\* CalculateReward never divides by zero.
LEMMA ReciprocalType ==
    ASSUME NEW h \in Nat
    PROVE  RewardRateReciprocal(h) \in Nat \ {0}
<1> DEFINE p == nPerCentPerYear[YearIndex(h)]
<1>1. p \in Nat \ {0} /\ p <= 100 * nBlocksPerYear
  <2>1. ASSUME NEW i \in DOMAIN nPerCentPerYear
        PROVE  nPerCentPerYear[i] \in Nat \ {0} /\ nPerCentPerYear[i] <= 100 * nBlocksPerYear
    BY RewardCalcAssumption
  <2>2. YearIndex(h) \in DOMAIN nPerCentPerYear
    BY YearIndexType
  <2> QED BY <2>1, <2>2
<1>2. 100 * nBlocksPerYear \in Nat
  BY RewardCalcAssumption
<1> HIDE DEF p
<1>3. ASSUME NEW x \in Nat, p <= x PROVE x \div p \in Nat \ {0}
  BY <1>1, <1>3
<1>4. (100 * nBlocksPerYear) \div p \in Nat \ {0}
  BY <1>1, <1>2, <1>3
<1> QED BY <1>4 DEF RewardRateReciprocal, p

\* A reward is an integer.
LEMMA RewardType ==
    ASSUME NEW h \in Nat, NEW k \in Key, NEW height \in Nat
    PROVE  RewardOf(h, k, height) \in Int
<1> DEFINE perBlock == Value[k] \div RewardRateReciprocal(h)
           x100     == (100 * (height - h) * perBlock) \div COIN
<1>1. perBlock \in Int
  BY ReciprocalType, RewardSelectionAssumption
<1> HIDE DEF perBlock
<1>2. 100 * (height - h) * perBlock \in Int
  BY <1>1
<1>3. x100 \in Int
  BY <1>2, RewardCalcAssumption
<1> HIDE DEF x100
<1>4. COIN \div 100 \in Int
  BY RewardCalcAssumption
<1>5. x100 * (COIN \div 100) \in Int
  BY <1>3, <1>4
<1> QED BY <1>5 DEF RewardOf, CalculateReward, x100, perBlock

\* The loop works on integers and on pairs of naturals.
LEMMA DataTypes ==
    ASSUME NEW d \in Databases, NEW height \in Heights, NEW k \in DOMAIN d
    PROVE  /\ height \in Nat
           /\ k \in Key
           /\ d[k].height \in Nat
           /\ RewardOf(d[k].height, k, height) \in Int
           /\ Capped(RewardOf(d[k].height, k, height)) \in Int
<1>1. height \in Nat /\ k \in Key /\ d[k].height \in Nat
  BY FindRewardScanAssumption
<1>2. RewardOf(d[k].height, k, height) \in Int
  BY <1>1, RewardType
<1> QED BY <1>1, <1>2, RewardSelectionAssumption DEF Capped

\* The outpoints the cursor reports are totally ordered by operator<.
LEMMA KeyLessTotal ==
    ASSUME NEW a \in Key, NEW b \in Key
    PROVE  /\ CursorKey(a) \in Nat \X Nat
           /\ KeyLess(CursorKey(a), CursorKey(b)) \/ KeyLess(CursorKey(b), CursorKey(a))
                \/ CursorKey(a) = CursorKey(b)
<1>1. ASSUME NEW k \in Key PROVE k[1] \in Nat /\ ReadBackIndex(k[2]) \in Nat
  <2>1. k[1] \in Nat /\ k[2] \in Nat
    BY RewardSelectionAssumption
  <2>2. k[2] % 256 \in Nat /\ k[2] \div 256 \in Nat
    BY <2>1
  <2> QED BY <2>1, <2>2 DEF ReadBackIndex
<1>2. a[1] \in Nat /\ ReadBackIndex(a[2]) \in Nat /\ b[1] \in Nat /\ ReadBackIndex(b[2]) \in Nat
  BY <1>1
<1> QED BY <1>2 DEF CursorKey, KeyLess

-----------------------------------------------------------------------------

\* What a candidate of the scanned database is.
LEMMA CandidateFacts ==
    ASSUME NEW d \in Databases, NEW height \in Heights
    PROVE  /\ Candidates(LastHeight(d), height) \subseteq DOMAIN d
           /\ \A k \in DOMAIN d :
                 k \in Candidates(LastHeight(d), height) <=>
                     /\ d[k].active
                     /\ height - d[k].height > nMinBlocks
                     /\ RewardOf(d[k].height, k, height) >= nMinReward
           /\ \A k \in Candidates(LastHeight(d), height) :
                 /\ LastHeight(d)[k] = d[k].height
                 /\ LastHeight(d)[k] \in Nat
                 /\ PaymentOf(LastHeight(d), k, height) = Capped(RewardOf(d[k].height, k, height))
                 /\ PaymentOf(LastHeight(d), k, height) \in Int
                 /\ d[k].height < height
<1>1. Candidates(LastHeight(d), height) \subseteq DOMAIN d
  BY DEF Candidates, LastHeight, Active
<1>2. ASSUME NEW k \in DOMAIN d
      PROVE  k \in Candidates(LastHeight(d), height) <=>
                /\ d[k].active
                /\ height - d[k].height > nMinBlocks
                /\ RewardOf(d[k].height, k, height) >= nMinReward
  BY DEF Candidates, LastHeight, Active
<1>3. ASSUME NEW k \in Candidates(LastHeight(d), height)
      PROVE  /\ LastHeight(d)[k] = d[k].height
             /\ LastHeight(d)[k] \in Nat
             /\ PaymentOf(LastHeight(d), k, height) = Capped(RewardOf(d[k].height, k, height))
             /\ PaymentOf(LastHeight(d), k, height) \in Int
             /\ d[k].height < height
  <2>1. k \in DOMAIN d /\ d[k].active /\ height - d[k].height > nMinBlocks
    BY <1>1, <1>2
  <2>2. LastHeight(d)[k] = d[k].height
    BY <2>1 DEF LastHeight, Active
  <2>3. d[k].height \in Nat /\ height \in Nat /\ nMinBlocks \in Nat
    BY <2>1, DataTypes, RewardSelectionAssumption
  <2>4. PaymentOf(LastHeight(d), k, height) = Capped(RewardOf(d[k].height, k, height))
    BY <2>2 DEF PaymentOf
  <2>5. Capped(RewardOf(d[k].height, k, height)) \in Int
    BY <2>1, DataTypes
  <2> QED BY <2>1, <2>2, <2>3, <2>4, <2>5
<1> QED BY <1>1, <1>2, <1>3

\* The order of preference on candidates is asymmetric and transitive.
LEMMA BetterOrder ==
    ASSUME NEW d \in Databases, NEW height \in Heights,
           NEW a \in Candidates(LastHeight(d), height),
           NEW b \in Candidates(LastHeight(d), height),
           NEW c \in Candidates(LastHeight(d), height)
    PROVE  /\ ~(Better(LastHeight(d), height, a, b) /\ Better(LastHeight(d), height, b, a))
           /\ Better(LastHeight(d), height, a, b) /\ Better(LastHeight(d), height, b, c)
                => Better(LastHeight(d), height, a, c)
<1> DEFINE L == LastHeight(d)
           p(k) == PaymentOf(L, k, height)
<1>1. L[a] \in Nat /\ L[b] \in Nat /\ L[c] \in Nat
  BY CandidateFacts
<1>2. p(a) \in Int /\ p(b) \in Int /\ p(c) \in Int
  BY CandidateFacts
<1>3. a \in Key /\ b \in Key /\ c \in Key
  BY CandidateFacts, DataTypes
<1>4. CursorPos[a] \in Nat /\ CursorPos[b] \in Nat /\ CursorPos[c] \in Nat
  BY <1>3, RewardSelectionAssumption
<1>5. /\ CursorKey(a)[1] \in Nat /\ CursorKey(a)[2] \in Nat
      /\ CursorKey(b)[1] \in Nat /\ CursorKey(b)[2] \in Nat
      /\ CursorKey(c)[1] \in Nat /\ CursorKey(c)[2] \in Nat
  BY <1>3, KeyLessTotal
<1> HIDE DEF L, p
<1>6. ASSUME NEW x, NEW y
      PROVE  Better(L, height, x, y) <=>
               \/ L[x] < L[y]
               \/ L[x] = L[y] /\ p(x) > p(y)
               \/ /\ L[x] = L[y] /\ p(x) = p(y)
                  /\ \/ CursorKey(x)[1] < CursorKey(y)[1]
                     \/ CursorKey(x)[1] = CursorKey(y)[1] /\ CursorKey(x)[2] < CursorKey(y)[2]
                     \/ CursorKey(x) = CursorKey(y) /\ CursorPos[x] < CursorPos[y]
  BY DEF Better, KeyLess, p
<1>7. ~(Better(L, height, a, b) /\ Better(L, height, b, a))
  BY <1>1, <1>2, <1>4, <1>5, <1>6
<1>8. Better(L, height, a, b) /\ Better(L, height, b, c) => Better(L, height, a, c)
  BY <1>1, <1>2, <1>4, <1>5, <1>6
<1> QED BY <1>7, <1>8 DEF L

\* A candidate preferred to all others is the one FindReward's payment is
\* defined by.
LEMMA BestIsSelected ==
    ASSUME NEW d \in Databases, NEW height \in Heights,
           NEW k \in Candidates(LastHeight(d), height),
           \A o \in Candidates(LastHeight(d), height) \ {k} : Better(LastHeight(d), height, k, o)
    PROVE  Selected(LastHeight(d), height) = k
<1> DEFINE C == Candidates(LastHeight(d), height)
           Best(j) == \A o \in C \ {j} : Better(LastHeight(d), height, j, o)
<1>1. ASSUME NEW j \in C, Best(j) PROVE j = k
  <2>1. SUFFICES ASSUME j # k PROVE FALSE
    OBVIOUS
  <2>2. Better(LastHeight(d), height, j, k) /\ Better(LastHeight(d), height, k, j)
    BY <2>1, <1>1
  <2> QED BY <2>2, <1>1, BetterOrder
<1>2. k \in C /\ Best(k)
  OBVIOUS
<1>3. Selected(LastHeight(d), height) = CHOOSE j \in C : Best(j)
  BY DEF Selected
<1> HIDE DEF C, Best
<1> QED BY <1>1, <1>2, <1>3

-----------------------------------------------------------------------------
(* The invariant.                                                          *)

\* Before the loop nothing is visited, selected or purged.
LEMMA InitInv == Init => ScanInv
<1> SUFFICES ASSUME Init PROVE ScanInv
  OBVIOUS
<1>1. /\ H \in Heights /\ db0 \in Databases /\ cache0 \in Caches /\ todo = DOMAIN db0 /\ db = db0
      /\ returned = FALSE /\ found = FALSE /\ minHeight = H
      /\ cacheRemovals = {} /\ cachedInactives = cache0
  BY DEF Init
<1>2. Visited = {}
  BY <1>1 DEF Visited
<1>3. CursorInOrder
  BY <1>2 DEF CursorInOrder
<1>4. BestSoFar
  BY <1>1, <1>2, Zenon DEF BestSoFar, VisitedCandidates
<1>5. PurgedSoFar
  <2>1. {CursorKey(k) : k \in Expired(db0, cache0, H) \cap Visited} = {}
    BY <1>2
  <2>2. cache0 = Erase(cache0, {})
    BY <1>1, FindRewardScanAssumption DEF Erase
  <2> QED BY <1>1, <2>1, <2>2 DEF PurgedSoFar
<1> QED BY <1>1, <1>3, <1>4, <1>5, Zenon DEF ScanInv, ScanSelects, ScanPurges

\* A step on entry k leaves the cursor in order and visits exactly k.
LEMMA VisitOrder ==
    ASSUME ScanInv, NEW k \in todo, AtCursor(k), todo' = todo \ {k},
           UNCHANGED <<H, db0>>
    PROVE  /\ CursorInOrder'
           /\ Visited' = Visited \cup {k}
           /\ k \notin Visited
           /\ k \in DOMAIN db0
           /\ todo' \subseteq DOMAIN db0'
           /\ \A v \in Visited : CursorPos[v] < CursorPos[k]
<1>1. todo \subseteq DOMAIN db0 /\ CursorInOrder /\ db0 \in Databases
  BY DEF ScanInv
<1>2. Visited' = Visited \cup {k} /\ k \notin Visited /\ k \in DOMAIN db0
  BY <1>1 DEF Visited
<1>3. \A v \in Visited : CursorPos[v] < CursorPos[k]
  BY <1>1 DEF CursorInOrder
<1>4. ASSUME NEW t \in todo \ {k} PROVE CursorPos[k] < CursorPos[t]
  <2>1. k \in Key /\ t \in Key
    BY <1>1, FindRewardScanAssumption
  <2>2. CursorPos[k] \in Nat /\ CursorPos[t] \in Nat /\ CursorPos[k] # CursorPos[t]
    BY <2>1, RewardSelectionAssumption
  <2> QED BY <2>2 DEF AtCursor
<1>5. CursorInOrder'
  BY <1>1, <1>2, <1>4 DEF CursorInOrder
<1> QED BY <1>1, <1>2, <1>3, <1>5

\* Visiting an active entry purges nothing.
LEMMA ActivePurgesNothing ==
    ASSUME ScanInv, NEW k \in todo, AtCursor(k), todo' = todo \ {k}, db0[k].active,
           UNCHANGED <<H, db0, cache0, cachedInactives, cacheRemovals>>
    PROVE  PurgedSoFar'
<1>1. Visited' = Visited \cup {k}
  BY VisitOrder
<1>2. k \notin Expired(db0, cache0, H)
  BY DEF Expired
<1>3. Expired(db0, cache0, H)' = Expired(db0, cache0, H)
  BY DEF Expired
<1>4. (Expired(db0, cache0, H) \cap Visited)' = Expired(db0, cache0, H) \cap Visited
  BY <1>1, <1>2, <1>3
<1> QED BY <1>4 DEF ScanInv, PurgedSoFar, Erase

\* Visiting an active entry that replaces the selection: it is the best so far
\* (rewards.cpp:252-275).
LEMMA StepReplacing ==
    ASSUME ScanInv, NEW k \in todo, VisitReplacing(k)
    PROVE  ScanInv'
<1> DEFINE L == LastHeight(db0)
           C == Candidates(L, H)
<1>1. /\ db = db0 /\ ~returned /\ H \in Heights /\ db0 \in Databases /\ cache0 \in Caches
      /\ todo \subseteq DOMAIN db0
  BY DEF ScanInv
<1>2. /\ UNCHANGED <<H, db, cachedInactives, cacheRemovals, returned, payment, db0, cache0>>
      /\ todo' = todo \ {k} /\ found' = TRUE /\ sel' = k
      /\ minHeight' = db0[k].height /\ selAmount' = Amount(k)
      /\ AtCursor(k) /\ Eligible(k) /\ Replaces(k)
  BY <1>1 DEF VisitReplacing
<1>3. /\ CursorInOrder' /\ Visited' = Visited \cup {k} /\ k \in DOMAIN db0
      /\ todo' \subseteq DOMAIN db0'
  BY <1>2, VisitOrder
<1>4. k \in C
  BY <1>1, <1>2, <1>3, CandidateFacts DEF Eligible
<1>5. VisitedCandidates' = VisitedCandidates \cup {k}
  BY <1>2, <1>3, <1>4 DEF VisitedCandidates
<1>6. Amount(k) = PaymentOf(L, k, H)
  BY <1>1, <1>4, CandidateFacts DEF Amount
<1>7. ASSUME NEW o \in VisitedCandidates PROVE Better(L, H, k, o)
  <2>1. found /\ sel \in VisitedCandidates /\ sel \in C /\ o \in C
    BY Zenon DEF ScanInv, BestSoFar, VisitedCandidates
  <2>2. minHeight = L[sel] /\ selAmount = PaymentOf(L, sel, H)
    BY <2>1, <1>1, CandidateFacts DEF ScanInv, BestSoFar
  <2>3. L[k] = db[k].height /\ L[k] \in Nat /\ L[sel] \in Nat
    BY <1>1, <1>4, <2>1, CandidateFacts
  <2>4. PaymentOf(L, k, H) \in Int /\ PaymentOf(L, sel, H) \in Int
    BY <1>1, <1>4, <2>1, CandidateFacts
  <2>5. Better(L, H, k, sel)
    <3>1. L[k] <= L[sel]
      BY <1>2, <2>2, <2>3 DEF Eligible
    <3> HIDE DEF L
    <3>2. CASE L[k] < L[sel]
      BY <3>2 DEF Better
    <3>3. CASE L[k] = L[sel]
      <4>1. Replaces(k)
        BY <1>2
      <4>2. ~(db[k].height < minHeight)
        BY <2>2, <2>3, <3>3
      <4>3. \/ Amount(k) > selAmount
            \/ Amount(k) = selAmount /\ KeyLess(CursorKey(k), CursorKey(sel))
        BY <4>1, <4>2 DEF Replaces
      <4> QED BY <1>6, <2>2, <3>3, <4>3 DEF Better
    <3> QED BY <2>3, <3>1, <3>2, <3>3, SMTT(30)
  <2>6. CASE o = sel
    BY <2>5, <2>6
  <2>7. CASE o # sel
    <3>1. Better(L, H, sel, o)
      BY <2>1, <2>7 DEF ScanInv, BestSoFar
    <3> QED BY <3>1, <2>1, <2>5, <1>1, <1>4, BetterOrder
  <2> QED BY <2>6, <2>7
<1>8. BestSoFar'
  <2>1. (\A o \in VisitedCandidates \ {sel} : Better(LastHeight(db0), H, sel, o))'
    BY <1>2, <1>5, <1>7
  <2>2. selAmount' = PaymentOf(LastHeight(db0), sel, H)'
    BY <1>2, <1>6
  <2>3. sel' \in VisitedCandidates' /\ VisitedCandidates' # {}
    BY <1>2, <1>5
  <2> QED BY <1>2, <2>1, <2>2, <2>3, Zenon DEF BestSoFar
<1>9. PurgedSoFar'
  BY <1>1, <1>2, ActivePurgesNothing, SMTT(30) DEF Eligible
<1> QED BY <1>1, <1>2, <1>3, <1>8, <1>9 DEF ScanInv, ScanSelects, ScanPurges

\* Visiting any other active entry: the selection stays the best so far.
LEMMA StepOtherActive ==
    ASSUME ScanInv, NEW k \in todo, VisitOtherActive(k)
    PROVE  ScanInv'
<1> DEFINE L == LastHeight(db0)
           C == Candidates(L, H)
<1>1. /\ db = db0 /\ ~returned /\ H \in Heights /\ db0 \in Databases /\ cache0 \in Caches
      /\ todo \subseteq DOMAIN db0
  BY DEF ScanInv
<1>2. /\ UNCHANGED <<H, db, cachedInactives, minHeight, selAmount, sel, cacheRemovals,
                      returned, payment, db0, cache0>>
      /\ todo' = todo \ {k} /\ found' = (found \/ Eligible(k))
      /\ AtCursor(k) /\ db0[k].active /\ ~(Eligible(k) /\ Replaces(k))
  BY <1>1 DEF VisitOtherActive
<1>3. /\ CursorInOrder' /\ Visited' = Visited \cup {k} /\ k \in DOMAIN db0
      /\ todo' \subseteq DOMAIN db0'
      /\ \A v \in Visited : CursorPos[v] < CursorPos[k]
  BY <1>2, VisitOrder
<1>4. PurgedSoFar'
  BY <1>1, <1>2, ActivePurgesNothing
<1>5. BestSoFar'
  <2>1. CASE k \notin C
    <3>1. VisitedCandidates' = VisitedCandidates
      BY <1>2, <1>3, <2>1 DEF VisitedCandidates
    <3>2. ~Eligible(k)
      BY <1>1, <1>3, <2>1, CandidateFacts, SMTT(30) DEF Eligible
    <3>3. found' = found
      BY <1>2, <3>2, Zenon DEF ScanInv, BestSoFar
    <3> QED BY <1>2, <3>1, <3>3 DEF ScanInv, BestSoFar
  <2>2. CASE k \in C
    <3>1. L[k] = db[k].height /\ L[k] \in Nat /\ L[k] < H /\ PaymentOf(L, k, H) \in Int
          /\ Amount(k) = PaymentOf(L, k, H) /\ H \in Nat
      BY <1>1, <2>2, CandidateFacts, FindRewardScanAssumption DEF Amount
    <3>2. VisitedCandidates' = VisitedCandidates \cup {k}
      BY <1>2, <1>3, <2>2 DEF VisitedCandidates
    <3>3. Eligible(k) <=> L[k] <= minHeight
      BY <1>1, <1>3, <2>2, <3>1, CandidateFacts, SMTT(30) DEF Eligible
    <3>4. found
      <4>1. SUFFICES ASSUME ~found PROVE FALSE
        BY DEF ScanInv, BestSoFar
      <4>2. L[k] < minHeight
        BY <4>1, <3>1 DEF ScanInv, BestSoFar
      <4>3. L[k] <= minHeight
        BY <4>1, <4>2, <3>1 DEF ScanInv, BestSoFar
      <4> QED BY <4>2, <4>3, <3>1, <3>3, <1>2 DEF Replaces
    <3>5. sel \in C /\ sel \in Visited /\ minHeight = L[sel] /\ selAmount = PaymentOf(L, sel, H)
      BY <1>1, <3>4, CandidateFacts DEF ScanInv, BestSoFar, VisitedCandidates
    <3>6. L[sel] \in Nat /\ PaymentOf(L, sel, H) \in Int /\ CursorPos[sel] < CursorPos[k]
      BY <1>1, <1>3, <3>5, CandidateFacts
    <3>7. k \in Key /\ sel \in Key
      BY <1>1, <1>3, <3>5, CandidateFacts, DataTypes
    <3>8. Better(L, H, sel, k)
      <4> HIDE DEF L, C
      <4>1. CASE ~(L[k] <= minHeight)
        <5>1. L[sel] < L[k]
          BY <4>1, <3>1, <3>5, <3>6
        <5> QED BY <5>1 DEF Better
      <4>2. CASE L[k] <= minHeight
        <5>1. ~Replaces(k)
          BY <4>2, <3>3, <1>2
        <5>2. L[k] = L[sel] /\ PaymentOf(L, k, H) <= PaymentOf(L, sel, H)
          BY <5>1, <4>2, <3>1, <3>5, <3>6 DEF Replaces
        <5>3. CASE PaymentOf(L, k, H) < PaymentOf(L, sel, H)
          BY <5>2, <5>3 DEF Better
        <5>4. CASE PaymentOf(L, k, H) = PaymentOf(L, sel, H)
          <6>1. ~KeyLess(CursorKey(k), CursorKey(sel))
            BY <5>1, <5>4, <3>1, <3>5 DEF Replaces
          <6>2. KeyLess(CursorKey(sel), CursorKey(k)) \/ CursorKey(k) = CursorKey(sel)
            BY <6>1, <3>7, KeyLessTotal
          <6> QED BY <5>2, <5>4, <6>2, <3>6 DEF Better
        <5> QED BY <5>2, <5>3, <5>4, <3>1, <3>6
      <4> QED BY <4>1, <4>2
    <3>9. found' = TRUE
      BY <1>2, <3>4, SMTT(30) DEF ScanInv, BestSoFar
    <3>10. (\A o \in VisitedCandidates \ {sel} : Better(LastHeight(db0), H, sel, o))'
      BY <1>2, <3>2, <3>4, <3>8 DEF ScanInv, BestSoFar
    <3>11. sel' \in VisitedCandidates'
      BY <1>2, <3>2, <3>4 DEF ScanInv, BestSoFar
    <3> QED BY <1>2, <3>2, <3>4, <3>9, <3>10, <3>11 DEF ScanInv, BestSoFar
  <2> QED BY <2>1, <2>2
<1> QED BY <1>1, <1>2, <1>3, <1>4, <1>5 DEF ScanInv, ScanSelects, ScanPurges

\* Visiting an inactive entry: it is purged exactly when it has expired
\* (rewards.cpp:280-290).
LEMMA StepInactive ==
    ASSUME ScanInv, NEW k \in todo, VisitInactive(k)
    PROVE  ScanInv'
<1> DEFINE dropped == IF OldInactive(k) THEN {CursorKey(k)} ELSE {}
           E == Expired(db0, cache0, H)
           P == {CursorKey(j) : j \in E \cap Visited}
<1>1. /\ db = db0 /\ ~returned /\ H \in Heights /\ db0 \in Databases /\ cache0 \in Caches
      /\ todo \subseteq DOMAIN db0
  BY DEF ScanInv
<1>2. /\ UNCHANGED <<H, db, found, minHeight, selAmount, sel, returned, payment, db0, cache0>>
      /\ todo' = todo \ {k} /\ AtCursor(k) /\ ~db0[k].active
      /\ cachedInactives' = Erase(cachedInactives, dropped)
      /\ cacheRemovals' = cacheRemovals \cup dropped
  BY <1>1, SMTT(30) DEF VisitInactive
<1>3. /\ CursorInOrder' /\ Visited' = Visited \cup {k} /\ k \in DOMAIN db0
      /\ todo' \subseteq DOMAIN db0'
  BY <1>2, VisitOrder, SMTT(30)
<1>4. BestSoFar'
  <2>1. k \notin Candidates(LastHeight(db0), H)
    BY <1>1, <1>2, <1>3, CandidateFacts
  <2>2. VisitedCandidates' = VisitedCandidates
    BY <1>2, <1>3, <2>1 DEF VisitedCandidates
  <2> QED BY <1>2, <2>2, SMTT(30) DEF ScanInv, BestSoFar
<1>5. PurgedSoFar'
  <2>1. cacheRemovals = P /\ cachedInactives = Erase(cache0, P)
    BY DEF ScanInv, PurgedSoFar
  <2>2. OldInactive(k) <=> k \in E /\ CursorKey(k) \notin P
    BY <1>2, <1>3, <2>1 DEF OldInactive, Expired, Erase
  <2>3. E' = E
    BY <1>2
  <2>4. {CursorKey(j) : j \in (E \cap Visited)'} = P \cup dropped
    BY <1>3, <2>2, <2>3
  <2>5. Erase(cachedInactives, dropped) = Erase(cache0, P \cup dropped)
    BY <2>1 DEF Erase
  <2> HIDE DEF dropped, P
  <2>6. {CursorKey(j) : j \in E \cap Visited}' = P \cup dropped
    BY <2>4
  <2> QED BY <1>2, <2>1, <2>5, <2>6, SMTT(30) DEF PurgedSoFar
<1> QED BY <1>1, <1>2, <1>3, <1>4, <1>5 DEF ScanInv, ScanSelects, ScanPurges

\* After the loop the payment is that of the selected coin, and the removals
\* are written (rewards.cpp:296-302).
LEMMA StepReturn ==
    ASSUME ScanInv, Return
    PROVE  ScanInv'
<1>1. /\ db = db0 /\ ~returned /\ H \in Heights /\ db0 \in Databases /\ cache0 \in Caches
      /\ todo = {} /\ BestSoFar /\ PurgedSoFar /\ CursorInOrder
  BY DEF ScanInv, Return
<1>2. /\ UNCHANGED <<H, cachedInactives, todo, found, minHeight, selAmount, sel,
                      cacheRemovals, db0, cache0>>
      /\ returned' = TRUE /\ db' = Erase(db0, cacheRemovals)
      /\ payment' = IF found THEN [value |-> selAmount, script |-> Script[sel]] ELSE NoPay
  BY <1>1 DEF Return
<1>3. Visited = DOMAIN db0 /\ VisitedCandidates = Candidates(LastHeight(db0), H)
  BY <1>1, CandidateFacts DEF Visited, VisitedCandidates
<1>4. ScanSelects'
  <2>1. CASE found
    <3>1. Selected(LastHeight(db0), H) = sel /\ selAmount = PaymentOf(LastHeight(db0), sel, H)
          /\ Candidates(LastHeight(db0), H) # {}
      BY <1>1, <1>3, <2>1, BestIsSelected, SMTT(30) DEF BestSoFar
    <3> QED BY <1>2, <2>1, <3>1 DEF ScanSelects, FindPayment
  <2>2. CASE ~found
    <3>1. Candidates(LastHeight(db0), H) = {}
      BY <1>1, <1>3, <2>2, Zenon DEF BestSoFar
    <3> QED BY <1>2, <2>2, <3>1 DEF ScanSelects, FindPayment
  <2> QED BY <2>1, <2>2
<1>5. ScanPurges'
  <2>1. Expired(db0, cache0, H) \cap Visited = Expired(db0, cache0, H)
    BY <1>3 DEF Expired
  <2>2. cacheRemovals = Purgeable(db0, cache0, H) /\ cachedInactives = Erase(cache0, cacheRemovals)
    BY <1>1, <2>1, SMTT(30) DEF PurgedSoFar, Purgeable
  <2> QED BY <1>2, <2>2 DEF ScanPurges
<1>6. CursorInOrder' /\ BestSoFar' /\ PurgedSoFar'
  BY <1>1, <1>2 DEF CursorInOrder, BestSoFar, PurgedSoFar, Visited, VisitedCandidates
<1> QED BY <1>1, <1>2, <1>4, <1>5, <1>6 DEF ScanInv

\* The loop invariant of FindReward holds of every scan.
THEOREM ScanInvariant == Spec => []ScanInv
<1>1. ASSUME ScanInv, [Next]_vars PROVE ScanInv'
  <2>1. CASE UNCHANGED vars
    BY <1>1, <2>1, Zenon DEF vars, ScanInv, CursorInOrder, BestSoFar, PurgedSoFar, ScanSelects,
                      ScanPurges, Visited, VisitedCandidates
  <2>2. CASE Next
    BY <1>1, <2>2, StepReplacing, StepOtherActive, StepInactive, StepReturn DEF Next
  <2> QED BY <1>1, <2>1, <2>2, SMTT(30)
<1> QED BY <1>1, InitInv, PTL DEF Spec

\* The loop selects the coin that RewardSelection defines, for every set of
\* coins, every database and every height (FindReward, rewards.cpp:209).
THEOREM ScanSelectsTheorem == Spec => []ScanSelects
<1>1. ScanInv => ScanSelects
  BY DEF ScanInv
<1> QED BY <1>1, ScanInvariant, PTL

\* The loop purges exactly the expired inactive entries (rewards.cpp:280-302).
THEOREM ScanPurgesTheorem == Spec => []ScanPurges
<1>1. ScanInv => ScanPurges
  BY DEF ScanInv
<1> QED BY <1>1, ScanInvariant, PTL
=============================================================================
