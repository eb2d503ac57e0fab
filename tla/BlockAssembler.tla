---------------------------- MODULE BlockAssembler ----------------------------
(***************************************************************************)
(* BlockAssembler::CreateNewBlock (miner.cpp): the choice of transactions  *)
(* for a new block.  cs_main and the lock of the pool are held, so that    *)
(* the pool stays as it is; the loops are modelled turn by turn.           *)
(* Transactions are numbers, in the order of their ids.                    *)
(***************************************************************************)
EXTENDS Integers, FiniteSets, SequencesExt

CONSTANTS
    Tx,
    Pools,            \* [parents, size, sigops, fee, delta, priority: Tx -> ..., final: SUBSET Tx]
    ReservedSize, ReservedSigOps,           \* for the coinbase
    nMaxGeneratedBlockSize, nBlockPrioritySize,
    Megabyte, SigOpsPerMb,                  \* MAX_BLOCK_SIGOPS_PER_MB
    FreePriority,                           \* AllowFree
    AlmostFull, Full,                       \* 1000 and 100 bytes from the limit
    MAX_LAST_TXS, MAX_CONSECUTIVE_FAILURES,
    blockMinFeeRate,
    Unsigned64                              \* 2^w, the modulus of unsigned products

ASSUME BlockAssemblerAssumption ==
    /\ Tx \subseteq Nat /\ IsFiniteSet(Tx)
    /\ {ReservedSize, ReservedSigOps, nMaxGeneratedBlockSize, nBlockPrioritySize, Megabyte, SigOpsPerMb,
        FreePriority, AlmostFull, Full, MAX_LAST_TXS, MAX_CONSECUTIVE_FAILURES, blockMinFeeRate} \subseteq Nat
    /\ \A p \in Pools : \A t \in Tx : p.parents[t] \subseteq Tx /\ p.size[t] > 0 /\ p.fee[t] >= 0

VARIABLES
    pool,        \* the memory pool, with the ancestors and the ancestor state of its entries
    phase,       \* "priority", "start", "packages", "order", "done"
    vecPriority, \* a heap, as a set
    waitPriMap,
    lastFewTxs,
    entries,     \* of the template, without the coinbase
    mi,          \* what is left of mapTx, by ancestor score
    mapModifiedTx,
    failedTx,
    nConsecutiveFailed

vars == <<pool, phase, vecPriority, waitPriMap, lastFewTxs, entries, mi, mapModifiedTx, failedTx,
          nConsecutiveFailed>>

-----------------------------------------------------------------------------
(* Packages: sizes, signature operations and modified fees.                *)

inBlock == ToSet(entries)

Sum(f, S) == FoldSet(LAMBDA t, acc : acc + f[t], 0, S)

Minus(e, t, fee) == [size |-> e.size - pool.size[t], sigops |-> e.sigops - pool.sigops[t], fees |-> e.fees - fee]

Total(p, S) == [size |-> Sum(p.size, S), sigops |-> Sum(p.sigops, S), fees |-> Sum(p.fee, S) + Sum(p.delta, S)]

GetModifiedFee(t) == pool.fee[t] + pool.delta[t]

\* CalculateMemPoolAncestors
Ancestors(t) == pool.ancestors[t]

Descendants(t) == {u \in Tx : t \in Ancestors(u)}

\* The ancestor state of an entry of the pool.
WithAncestors(t) == pool.with[t]

\* CompareTxMemPoolEntryByAncestorFee
ByAncestorFee(t, u) ==
    LET a == WithAncestors(t)
        b == WithAncestors(u)
    IN  IF a.fees * b.size = a.size * b.fees THEN t < u ELSE a.fees * b.size > a.size * b.fees

\* CompareModifiedEntry: a size is unsigned, and so is its product with fees.
CompareModifiedEntry(t, a, u, b) ==
    LET f1 == (b.size * a.fees) % Unsigned64
        f2 == (a.size * b.fees) % Unsigned64
    IN  IF f1 = f2 THEN t < u ELSE f1 > f2

nBlockSize == ReservedSize + Sum(pool.size, inBlock)

nBlockSigOps == ReservedSigOps + Sum(pool.sigops, inBlock)

GetMaxBlockSigOpsCount(size) == (1 + ((size - 1) \div Megabyte)) * SigOpsPerMb

-----------------------------------------------------------------------------
(* addPriorityTxs                                                          *)

isStillDependent(t) == ~(pool.parents[t] \subseteq inBlock)

\* TestForBlock
TestForBlock(t) ==
    LET size == nBlockSize + pool.size[t]
        most == GetMaxBlockSigOpsCount(size)
    IN  IF size >= nMaxGeneratedBlockSize
        THEN IF nBlockSize > nMaxGeneratedBlockSize - Full \/ lastFewTxs > MAX_LAST_TXS
             THEN "BlockFinished" ELSE "TXCantFit"
        ELSE IF nBlockSigOps + pool.sigops[t] >= most
        THEN IF nBlockSigOps > most - 2 THEN "BlockFinished" ELSE "TXCantFit"
        ELSE IF t \in pool.final THEN "TXFits" ELSE "TXCantFit"

\* The counter of transactions that were tried for the last few bytes.
LastFew(t) ==
    IF nBlockSize + pool.size[t] >= nMaxGeneratedBlockSize /\ nBlockSize > nMaxGeneratedBlockSize - AlmostFull
    THEN lastFewTxs + 1 ELSE lastFewTxs

\* One turn of the loop, with the transaction at the front of the heap.
PriorityTurn(t) ==
    /\ phase = "priority"
    /\ t \in vecPriority /\ \A u \in vecPriority : pool.priority[u] <= pool.priority[t]
    /\ \/ /\ isStillDependent(t)
          /\ vecPriority' = vecPriority \ {t}
          /\ waitPriMap' = waitPriMap \cup {t}
          /\ UNCHANGED <<phase, lastFewTxs, entries>>
       \/ /\ ~isStillDependent(t) /\ TestForBlock(t) = "BlockFinished"
          /\ phase' = "start"
          /\ UNCHANGED <<vecPriority, waitPriMap, lastFewTxs, entries>>
       \/ /\ ~isStillDependent(t) /\ TestForBlock(t) = "TXCantFit"
          /\ vecPriority' = vecPriority \ {t}
          /\ lastFewTxs' = LastFew(t)
          /\ UNCHANGED <<phase, waitPriMap, entries>>
       \/ /\ ~isStillDependent(t) /\ TestForBlock(t) = "TXFits"
          /\ entries' = Append(entries, t)
          /\ IF nBlockSize + pool.size[t] >= nBlockPrioritySize \/ pool.priority[t] <= FreePriority
             THEN phase' = "start" /\ UNCHANGED <<vecPriority, waitPriMap>>
             ELSE LET children == {u \in waitPriMap : t \in pool.parents[u]}
                  IN  /\ vecPriority' = (vecPriority \ {t}) \cup children
                      /\ waitPriMap' = waitPriMap \ children
                      /\ UNCHANGED phase
          /\ UNCHANGED lastFewTxs
    /\ UNCHANGED <<pool, mi, mapModifiedTx, failedTx, nConsecutiveFailed>>

PriorityEnd ==
    /\ phase = "priority" /\ vecPriority = {}
    /\ phase' = "start"
    /\ UNCHANGED <<pool, vecPriority, waitPriMap, lastFewTxs, entries, mi, mapModifiedTx, failedTx,
                   nConsecutiveFailed>>

-----------------------------------------------------------------------------
(* addPackageTxs                                                           *)

Without(map, S) == [t \in DOMAIN map \ S |-> map[t]]

\* Mutant of Modified: an entry that is not there yet is put in as it is in the pool.
ModifiedFresh(map, t, d) ==
    (d :> IF d \in DOMAIN map THEN Minus(map[d], t, pool.fee[t]) ELSE WithAncestors(d)) @@ map

\* For a descendant d of a transaction t that was added: the first modification takes
\* away its modified fee, a later one (update_for_parent_inclusion) its fee.
Modified(map, t, d) ==
    (d :> IF d \in DOMAIN map THEN Minus(map[d], t, pool.fee[t])
          ELSE Minus(WithAncestors(d), t, GetModifiedFee(t))) @@ map

\* Mutant of UpdatePackagesForAdded: the children only.
UpdatePackagesForChildren(added, map) ==
    FoldLeft(LAMBDA acc, t : FoldSet(LAMBDA d, m : Modified(m, t, d), acc,
                                     {u \in Tx \ added : t \in pool.parents[u]}),
             map, SetToSortSeq(added, <))

UpdatePackagesForAdded(added, map) ==
    FoldLeft(LAMBDA acc, t : FoldSet(LAMBDA d, m : Modified(m, t, d), acc, Descendants(t) \ added),
             map, SetToSortSeq(added, <))

StartPackages ==
    /\ phase = "start"
    /\ phase' = "packages"
    /\ mapModifiedTx' = UpdatePackagesForAdded(inBlock, <<>>)
    /\ UNCHANGED <<pool, vecPriority, waitPriMap, lastFewTxs, entries, mi, failedTx, nConsecutiveFailed>>

SkipMapTxEntry(t) == t \in DOMAIN mapModifiedTx \cup inBlock \cup failedTx

Skip ==
    /\ phase = "packages" /\ mi # <<>> /\ SkipMapTxEntry(Head(mi))
    /\ mi' = Tail(mi)
    /\ UNCHANGED <<pool, phase, vecPriority, waitPriMap, lastFewTxs, entries, mapModifiedTx, failedTx,
                   nConsecutiveFailed>>

\* modit, the best entry of mapModifiedTx.
BestModified ==
    CHOOSE t \in DOMAIN mapModifiedTx :
        \A u \in DOMAIN mapModifiedTx \ {t} : CompareModifiedEntry(t, mapModifiedTx[t], u, mapModifiedTx[u])

fUsingModified ==
    \/ mi = <<>>
    \/ /\ DOMAIN mapModifiedTx # {}
       /\ CompareModifiedEntry(BestModified, mapModifiedTx[BestModified], Head(mi), WithAncestors(Head(mi)))

\* The transaction to look at.
iter == IF fUsingModified THEN BestModified ELSE Head(mi)

Package == IF fUsingModified THEN mapModifiedTx[iter] ELSE WithAncestors(iter)

\* A turn of the loop that gets as far as choosing a transaction.
Choosing ==
    /\ phase = "packages"
    /\ mi # <<>> \/ DOMAIN mapModifiedTx # {}
    /\ mi # <<>> => ~SkipMapTxEntry(Head(mi))

TooCheap == Package.fees < blockMinFeeRate * Package.size

TestPackage ==
    LET size == nBlockSize + Package.size
    IN  /\ size < nMaxGeneratedBlockSize
        /\ nBlockSigOps + Package.sigops < GetMaxBlockSigOpsCount(size)

\* Mutant of onlyUnconfirmed: the parents only.
onlyUnconfirmedParents(t) == (pool.parents[t] \ inBlock) \cup {t}

\* onlyUnconfirmed, and the transaction itself.
onlyUnconfirmed(t) == (Ancestors(t) \ inBlock) \cup {t}

TestPackageTransactions(S) == S \subseteq pool.final /\ nBlockSize + Sum(pool.size, S) < nMaxGeneratedBlockSize

\* SortForBlock: by the number of ancestors.
SortForBlock(S) ==
    SetToSortSeq(S, LAMBDA t, u : LET m == Cardinality(Ancestors(t))
                                      n == Cardinality(Ancestors(u))
                                  IN  m < n \/ (m = n /\ t < u))

\* Mutant of Refuse: an entry that failed stays.
RefuseKeeping ==
    /\ mi' = IF fUsingModified THEN mi ELSE Tail(mi)
    /\ failedTx' = IF fUsingModified THEN failedTx \cup {iter} ELSE failedTx
    /\ UNCHANGED mapModifiedTx

\* An entry of mapModifiedTx is erased when it fails; one of mapTx is passed by.
Refuse ==
    /\ mi' = IF fUsingModified THEN mi ELSE Tail(mi)
    /\ mapModifiedTx' = IF fUsingModified THEN Without(mapModifiedTx, {iter}) ELSE mapModifiedTx
    /\ failedTx' = IF fUsingModified THEN failedTx \cup {iter} ELSE failedTx

\* One more failure; counted as far as it makes a difference.
Fail == nConsecutiveFailed' = IF nConsecutiveFailed > MAX_CONSECUTIVE_FAILURES THEN nConsecutiveFailed
                              ELSE nConsecutiveFailed + 1

PackageTurn ==
    /\ Choosing
    /\ LET S == onlyUnconfirmed(iter)
       IN  \/ /\ TooCheap
              /\ phase' = "order"
              /\ UNCHANGED <<entries, mi, mapModifiedTx, failedTx, nConsecutiveFailed>>
           \/ /\ ~TooCheap /\ ~TestPackage
              /\ Refuse /\ Fail
              /\ phase' = IF /\ nConsecutiveFailed' > MAX_CONSECUTIVE_FAILURES
                             /\ nBlockSize > nMaxGeneratedBlockSize - AlmostFull
                          THEN "order" ELSE phase
              /\ UNCHANGED entries
           \/ /\ ~TooCheap /\ TestPackage /\ ~TestPackageTransactions(S)
              /\ Refuse
              /\ UNCHANGED <<phase, entries, nConsecutiveFailed>>
           \/ /\ ~TooCheap /\ TestPackage /\ TestPackageTransactions(S)
              /\ nConsecutiveFailed' = 0
              /\ entries' = entries \o SortForBlock(S)
              /\ mi' = IF fUsingModified THEN mi ELSE Tail(mi)
              /\ mapModifiedTx' = UpdatePackagesForAdded(S, Without(mapModifiedTx, S))
              /\ UNCHANGED <<phase, failedTx>>
    /\ UNCHANGED <<pool, vecPriority, waitPriMap, lastFewTxs>>

PackagesEnd ==
    /\ phase = "packages" /\ mi = <<>> /\ DOMAIN mapModifiedTx = {}
    /\ phase' = "order"
    /\ UNCHANGED <<pool, vecPriority, waitPriMap, lastFewTxs, entries, mi, mapModifiedTx, failedTx,
                   nConsecutiveFailed>>

\* CreateNewBlock, after the loops: the entries are put in the order of their ids.
SortEntries ==
    /\ phase = "order"
    /\ entries' = SortSeq(entries, <)
    /\ phase' = "done"
    /\ UNCHANGED <<pool, vecPriority, waitPriMap, lastFewTxs, mi, mapModifiedTx, failedTx,
                   nConsecutiveFailed>>

-----------------------------------------------------------------------------

\* CTxMemPool keeps the links and the state of the ancestors of every entry.
AncestorsIn(p, t) ==
    LET reach[n \in 0..Cardinality(Tx)] ==
            IF n = 0 THEN p.parents[t]
            ELSE LET R == reach[n - 1] IN R \cup UNION {p.parents[u] : u \in R}
    IN  reach[Cardinality(Tx)]

Init ==
    /\ \E p \in Pools :
          LET ancestors == [t \in Tx |-> AncestorsIn(p, t)]
          IN  pool = [ancestors |-> ancestors, with |-> [t \in Tx |-> Total(p, {t} \cup ancestors[t])]] @@ p
    /\ phase = IF nBlockPrioritySize = 0 THEN "start" ELSE "priority"
    /\ vecPriority = IF nBlockPrioritySize = 0 THEN {} ELSE Tx
    /\ waitPriMap = {} /\ lastFewTxs = 0
    /\ entries = <<>>
    /\ mi = SetToSortSeq(Tx, ByAncestorFee)
    /\ mapModifiedTx = <<>> /\ failedTx = {} /\ nConsecutiveFailed = 0

Next == (\E t \in Tx : PriorityTurn(t)) \/ PriorityEnd \/ StartPackages \/ Skip \/ PackageTurn \/ PackagesEnd
        \/ SortEntries

Spec == Init /\ [][Next]_vars /\ WF_vars(Next)

-----------------------------------------------------------------------------
(* What the block and the bookkeeping must be, turn by turn.               *)

\* What TestBlockValidity, which throws if it fails (miner.cpp:245), has to find in the
\* transactions of the template: nothing spends from outside the block and the chain,
\* everything is final and the limits hold with the coinbase, after every turn; and
\* in the end no two are the same and they ascend by id (ContextualCheckBlock,
\* "tx-ordering").  Until then "children come after parents" (miner.cpp:455).
TemplateValid ==
    /\ \A i \in DOMAIN entries :
          pool.parents[entries[i]] \subseteq IF phase = "done" THEN inBlock ELSE {entries[j] : j \in 1..(i - 1)}
    /\ inBlock \subseteq pool.final
    /\ entries # <<>> => /\ nBlockSize < nMaxGeneratedBlockSize
                         /\ nBlockSigOps < GetMaxBlockSigOpsCount(nBlockSize)
    /\ phase = "done" => \A i, j \in DOMAIN entries : i < j => entries[i] < entries[j]

\* "mapModifiedTx shouldn't contain anything that is inBlock", and presence there
\* "implies that the mapTx ancestor state is stale" (miner.cpp): whoever has lost
\* ancestors to the block is looked at with the modified state, or has failed with it.
StaleTracked ==
    phase = "packages" =>
        /\ DOMAIN mapModifiedTx \cap inBlock = {}
        /\ \A t \in Tx \ inBlock :
              IF Ancestors(t) \cap inBlock = {} THEN t \notin DOMAIN mapModifiedTx
              ELSE t \in DOMAIN mapModifiedTx \cup failedTx

Exact(t) == Total(pool, {t} \cup (Ancestors(t) \ inBlock))

\* StaleTracked holds, and the modified state is that of the ancestors that are still
\* missing (UpdatePackagesForAdded), unless the entry failed once and came back; then
\* size and signature operations are too large, never too small, so that the limits hold.
ModifiedState ==
    /\ StaleTracked
    /\ \A t \in DOMAIN mapModifiedTx :
        /\ mapModifiedTx[t].size >= Exact(t).size /\ mapModifiedTx[t].sigops >= Exact(t).sigops
        /\ t \notin failedTx => mapModifiedTx[t].size = Exact(t).size /\ mapModifiedTx[t].sigops = Exact(t).sigops

\* The candidates whose turn has not come.
Candidates == (ToSet(mi) \cup DOMAIN mapModifiedTx) \ (inBlock \cup failedTx)

HigherRate(a, b) == a.fees * b.size > b.fees * a.size

Best(t) == \A u \in Candidates : ~HigherRate(Exact(u), Exact(t))

Plain == \A t \in Tx : pool.delta[t] = 0

\* "Everything else we might consider has a lower fee rate" (miner.cpp): without
\* prioritised transactions the package that is looked at is the best one left.
BestFirst == Choosing /\ iter \notin failedTx /\ Plain => Best(iter)

\* The same, whatever the user prioritised.
BestFirstPrioritised == Choosing /\ iter \notin failedTx => Best(iter)

\* CreateNewBlock comes to an end.
Terminates == <>(phase = "done")

=============================================================================
