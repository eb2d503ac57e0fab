------------------------------- MODULE Mempool -------------------------------
(***************************************************************************)
(* The memory pool (txmempool.cpp) and the steps of the active chain that  *)
(* change it (validation.cpp).  Everything here happens under cs_main, but *)
(* a reorganisation is many steps, between which the pool is inconsistent: *)
(* transactions that come back from a block do not know their children in  *)
(* the pool until UpdateTransactionsFromBlock.                             *)
(***************************************************************************)
EXTENDS Integers, FiniteSets, SequencesExt

CONSTANTS
    Tx, NoTx, Coin,
    Inputs, Outputs,    \* transaction -> coins
    Fee,
    Lock,               \* the height from which a transaction is final and mature
    Rules,              \* transaction -> the script rules, old or new, it is valid under
    Order,              \* the transactions in the order of their ids
    UpgradeHeight,      \* of the block after which the new rules hold
    LimitAncestorCount, LimitDescendantCount,
    SizeLimit,          \* of the pool, in transactions
    MaxQueued,          \* MAX_DISCONNECTED_TX_POOL_SIZE, in transactions
    Deltas,             \* arguments of prioritisetransaction
    Unsigned64,         \* 2^w, the modulus of the unsigned products of a score
    StartHeight, MaxHeight, MaxDisconnects, MaxRequests, MaxFaults   \* bounds

\* The transactions that t spends from.
Spends == [t \in Tx |-> {u \in Tx : Outputs[u] \cap Inputs[t] # {}}]

ASSUME MempoolAssumption ==
    /\ NoTx \notin Tx
    /\ {Inputs, Outputs} \subseteq [Tx -> SUBSET Coin] /\ \A t \in Tx : Inputs[t] # {}
    /\ \A t, u \in Tx : t # u => Outputs[t] \cap Outputs[u] = {}
    /\ ToSet(Order) = Tx /\ Len(Order) = Cardinality(Tx)
    /\ Fee \in [Tx -> Nat] /\ Lock \in [Tx -> Nat] /\ Rules \in [Tx -> SUBSET BOOLEAN]
    /\ {LimitAncestorCount, LimitDescendantCount, SizeLimit, MaxQueued, UpgradeHeight,
        StartHeight, MaxHeight, MaxDisconnects, MaxRequests, MaxFaults} \subseteq Nat
    /\ Deltas \subseteq Int

VARIABLES
    pool,     \* CTxMemPool: [txs, parents, children, next, fee, anc, desc, deltas, addr]
    chain,    \* blocks, as sets of transactions, from StartHeight on
    queue,    \* disconnectpool.queuedTx, in the order of insertion
    pc,       \* "idle", "chain": inside ActivateBestChainStep or UnwindBlock, "update"
    adding,   \* fAddToMempool
    disconnected,  \* fBlocksDisconnected
    readded,  \* txidsUpdate
    lost,     \* ghost: transactions that updateMempoolForReorg did not put back
    left      \* what remains of the bounds

vars == <<pool, chain, queue, pc, adding, disconnected, readded, lost, left>>

-----------------------------------------------------------------------------
(* Totals of a package: number of transactions and modified fees.          *)

Zero == [count |-> 0, fees |-> 0]

Plus(a, b) == [count |-> a.count + b.count, fees |-> a.fees + b.fees]

Minus(a, b) == [count |-> a.count - b.count, fees |-> a.fees - b.fees]

Own(p, t) == [count |-> 1, fees |-> p.fee[t]]

Total(p, S) == FoldSet(LAMBDA t, acc : Plus(acc, Own(p, t)), Zero, S)

\* The transactions reachable from those of S along the links.
Closure(links, S) ==
    LET reach[n \in 0..Cardinality(Tx)] ==
            IF n = 0 THEN S
            ELSE LET R == reach[n - 1] IN R \cup UNION {links[t] : t \in R}
    IN  reach[Cardinality(Tx)]

\* Without any transaction; prioritisations and the address index are not cleared.
Cleared(p) ==
    [p EXCEPT !.txs = {}, !.parents = [t \in Tx |-> {}], !.children = [t \in Tx |-> {}],
              !.next = [c \in Coin |-> NoTx], !.fee = [t \in Tx |-> 0],
              !.anc = [t \in Tx |-> Zero], !.desc = [t \in Tx |-> Zero]]

-----------------------------------------------------------------------------
(* Adding and removing entries.                                            *)

\* CalculateMemPoolAncestors, of a transaction that is not in the pool, or by the links.
AncestorsByInputs(p, t) == Closure(p.parents, Spends[t] \cap p.txs)

AncestorsByLinks(p, t) == Closure(p.parents, p.parents[t])

\* CalculateDescendants
Descendants(p, S) == Closure(p.children, S)

WithinLimits(p, t) ==
    LET ancestors == AncestorsByInputs(p, t)
    IN  /\ Cardinality(ancestors) + 1 <= LimitAncestorCount
        /\ \A u \in ancestors : p.desc[u].count + 1 <= LimitDescendantCount

\* A transaction that comes in is taken to have no children.
addUnchecked(p, t) ==
    LET ancestors == AncestorsByInputs(p, t)
        parents   == Spends[t] \cap p.txs
        own       == [count |-> 1, fees |-> Fee[t] + p.deltas[t]]
    IN  [p EXCEPT !.txs = @ \cup {t},
                  !.fee[t] = own.fees,
                  !.next = [c \in Coin |-> IF c \in Inputs[t] THEN t ELSE @[c]],
                  !.parents[t] = parents,
                  !.children = [u \in Tx |-> IF u \in parents THEN @[u] \cup {t} ELSE @[u]],
                  !.desc = [u \in Tx |-> IF u = t THEN own
                                         ELSE IF u \in ancestors THEN Plus(@[u], own) ELSE @[u]],
                  !.anc[t] = Plus(own, Total(p, ancestors)),
                  !.addr = @ \cup {t}]

\* Mutant of RemovedState: the ancestors are looked for among the inputs.
RemovedStateByInputs(p, S, updateDescendants) ==
    [p EXCEPT
        !.anc = [u \in Tx |-> IF updateDescendants
                              THEN Minus(@[u], Total(p, {r \in S \ {u} : u \in Descendants(p, {r})}))
                              ELSE @[u]],
        !.desc = [u \in Tx |-> Minus(@[u], Total(p, {r \in S : u \in AncestorsByInputs(p, r)}))],
        !.children = [u \in Tx |-> @[u] \ {r \in S : u \in p.parents[r]}],
        !.parents = [u \in Tx |-> @[u] \ {r \in S : u \in p.children[r]}]]

\* UpdateForRemoveFromMempool: the state of the descendants, if they stay, that of
\* the ancestors, and the links.
RemovedState(p, S, updateDescendants) ==
    [p EXCEPT
        !.anc = [u \in Tx |-> IF updateDescendants
                              THEN Minus(@[u], Total(p, {r \in S \ {u} : u \in Descendants(p, {r})}))
                              ELSE @[u]],
        !.desc = [u \in Tx |-> Minus(@[u], Total(p, {r \in S : u \in AncestorsByLinks(p, r)}))],
        !.children = [u \in Tx |-> @[u] \ {r \in S : u \in p.parents[r]}],
        !.parents = [u \in Tx |-> @[u] \ {r \in S : u \in p.children[r]}]]

\* RemoveStaged, with removeUnchecked.
RemoveStaged(p, S, updateDescendants) ==
    LET spent == UNION {Inputs[t] : t \in S}
    IN  [RemovedState(p, S, updateDescendants) EXCEPT
            !.txs = @ \ S,
            !.next = [c \in Coin |-> IF c \in spent THEN NoTx ELSE @[c]],
            !.fee = [t \in Tx |-> IF t \in S THEN 0 ELSE @[t]],
            !.parents = [t \in Tx |-> IF t \in S THEN {} ELSE @[t]],
            !.children = [t \in Tx |-> IF t \in S THEN {} ELSE @[t]],
            !.anc = [t \in Tx |-> IF t \in S THEN Zero ELSE @[t]],
            !.desc = [t \in Tx |-> IF t \in S THEN Zero ELSE @[t]],
            !.addr = @ \ S]

\* The transactions in the pool that spend from t.
Spenders(p, t) == {p.next[c] : c \in Outputs[t]} \ {NoTx}

\* Mutant of removeRecursive: nothing is removed for a transaction that is not there.
removeRecursivePresent(p, t) == RemoveStaged(p, Descendants(p, {t} \cap p.txs), FALSE)

removeRecursive(p, t) ==
    RemoveStaged(p, Descendants(p, IF t \in p.txs THEN {t} ELSE Spenders(p, t)), FALSE)

ClearPrioritisation(p, t) == [p EXCEPT !.deltas[t] = 0]

removeConflicts(p, t) ==
    FoldSet(LAMBDA c, q : IF q.next[c] \in {NoTx, t} THEN q
                          ELSE removeRecursive(ClearPrioritisation(q, q.next[c]), q.next[c]),
            p, Inputs[t])

-----------------------------------------------------------------------------
(* DisconnectedBlockTransactions                                           *)

Without(q, S) == SelectSeq(q, LAMBDA t : t \notin S)

\* The body of addForBlock: the transaction and then, level by level, its parents
\* are moved to the end.
Queued(q, t) ==
    LET moved[n \in 0..Cardinality(Tx)] ==
            IF n = 0 THEN [seq |-> Append(q, t), parents |-> Spends[t]]
            ELSE LET m == moved[n - 1]
                     S == m.parents \cap ToSet(m.seq)
                 IN  [seq |-> Without(m.seq, S) \o SetToSeq(S), parents |-> UNION {Spends[u] : u \in S}]
    IN  IF Contains(q, t) THEN q ELSE moved[Cardinality(Tx)].seq

\* A block holds its transactions in the order of their ids.
Vtx(S) == SelectSeq(Order, LAMBDA t : t \in S)

Sorted(q, S) == FoldRight(LAMBDA t, acc : Queued(acc, t), Vtx(S), q)

\* The size is kept under control: the earliest entries are dropped.
Excess(q) == IF Len(q) > MaxQueued THEN Len(q) - MaxQueued ELSE 0

Trimmed(q) == SubSeq(q, Excess(q) + 1, Len(q))

\* addForBlock also removes from the pool what spends from an entry that it drops.
addForBlock(p, q, S) ==
    LET all == Sorted(q, S)
    IN  [pool  |-> FoldLeft(LAMBDA acc, t : removeRecursive(acc, t), p, SubSeq(all, 1, Excess(all))),
         queue |-> Trimmed(all)]

\* Mutant of importMempool: the pool goes behind the queue.
importMempoolBehind(p, q) == [pool |-> Cleared(p), queue |-> Trimmed(q \o Sorted(<<>>, p.txs))]

\* importMempool: the whole pool, in topological order, goes in front of the queue.
importMempool(p, q) == [pool |-> Cleared(p), queue |-> Trimmed(Sorted(<<>>, p.txs) \o q)]

\* CTxMemPool::removeForBlock: parents before children.
removeForBlock(p, S) ==
    FoldRight(LAMBDA t, q :
                 LET r == IF t \in q.txs THEN RemoveStaged(q, {t}, TRUE) ELSE q
                 IN  ClearPrioritisation(removeConflicts(r, t), t),
              Sorted(<<>>, S), p)

-----------------------------------------------------------------------------
(* The active chain, as far as the pool depends on it.                     *)

Height == StartHeight + Len(chain)

Confirmed == UNION Range(chain)

\* Whether the new rules hold in the block that follows the one of this height.
Upgraded(height) == height >= UpgradeHeight

\* The coins of pcoinsTip: nobody's in the model, or made by a transaction of the chain.
Exists(c, S) == \A t \in Tx : c \in Outputs[t] => t \in S

HaveCoin(c) == Exists(c, Confirmed) /\ \A t \in Confirmed : c \notin Inputs[t]

\* What ContextualCheckTransaction, CheckSequenceLocks and the maturity ask for.
Final(t) == Lock[t] <= Height + 1

ValidInNext(t) == Final(t) /\ Upgraded(Height) \in Rules[t]

ValidBlock(S) ==
    /\ S \cap Confirmed = {}
    /\ \A t \in S :
          /\ ValidInNext(t)
          /\ \A c \in Inputs[t] : /\ HaveCoin(c) \/ \E u \in S : c \in Outputs[u]
                                  /\ \A u \in S \ {t} : c \notin Inputs[u]

\* AcceptToMemoryPoolWorker, up to what depends on fees and priorities.
Acceptable(p, t) ==
    /\ ValidInNext(t)
    /\ t \notin p.txs
    /\ \A c \in Inputs[t] : /\ p.next[c] = NoTx
                            /\ HaveCoin(c) \/ \E u \in p.txs : c \in Outputs[u]
    /\ WithinLimits(p, t)

-----------------------------------------------------------------------------
(* The limit on the size.                                                  *)

\* A product of a size, which is unsigned, and of fees.
Product(size, fees) == (size * fees) % Unsigned64

\* CompareTxMemPoolEntryByDescendantScore: which of the two scores counts.
UseDescendantScore(p, t) == Product(1, p.desc[t].fees) > Product(p.desc[t].count, p.fee[t])

Score(p, t) == IF UseDescendantScore(p, t) THEN p.desc[t] ELSE Own(p, t)

Lower(a, b) == a.fees * b.count < b.fees * a.count

\* Expire, and TrimToSize: packages of the lowest score go until the rest fits.
LimitSize(p, expired) ==
    LET trim[n \in 0..Cardinality(Tx)] ==
            IF n = 0 THEN RemoveStaged(p, Descendants(p, expired), FALSE)
            ELSE LET q == trim[n - 1]
                 IN  IF Cardinality(q.txs) <= SizeLimit THEN q
                     ELSE LET worst == CHOOSE t \in q.txs : \A u \in q.txs : ~Lower(Score(q, u), Score(q, t))
                          IN  RemoveStaged(q, Descendants(q, {worst}), FALSE)
    IN  trim[Cardinality(Tx)]

\* What has expired: nothing, or one transaction.
Expired(p) == {{}} \cup IF left.faults > 0 THEN {{t} : t \in p.txs} ELSE {}

Spend(fault) == left' = IF fault THEN [left EXCEPT !.faults = @ - 1] ELSE left

-----------------------------------------------------------------------------
(* Requests from outside.                                                  *)

AcceptToMemoryPool(t) ==
    /\ pc = "idle"
    /\ Acceptable(pool, t)
    /\ LET p == addUnchecked(pool, t)
       IN  \E expired \in Expired(p) : pool' = LimitSize(p, expired) /\ Spend(expired # {})
    /\ UNCHANGED <<chain, queue, pc, adding, disconnected, readded, lost>>

Prioritised(p, t, delta) ==
    LET change == [count |-> 0, fees |-> delta]
        above  == IF t \in p.txs THEN {t} \cup AncestorsByLinks(p, t) ELSE {}
        below  == IF t \in p.txs THEN Descendants(p, {t}) ELSE {}
    IN  [p EXCEPT !.deltas[t] = @ + delta,
                  !.fee[t] = IF t \in p.txs THEN @ + delta ELSE @,
                  !.desc = [u \in Tx |-> IF u \in above THEN Plus(@[u], change) ELSE @[u]],
                  !.anc = [u \in Tx |-> IF u \in below THEN Plus(@[u], change) ELSE @[u]]]

PrioritiseTransaction(t, delta) ==
    /\ pc = "idle"
    /\ left.requests > 0
    /\ pool' = Prioritised(pool, t, delta)
    /\ left' = [left EXCEPT !.requests = @ - 1]
    /\ UNCHANGED <<chain, queue, pc, adding, disconnected, readded, lost>>

-----------------------------------------------------------------------------
(* ActivateBestChainStep and UnwindBlock.                                  *)

DisconnectTip ==
    LET S == Last(chain)
        imported == IF Upgraded(Height) = Upgraded(Height - 1) THEN [pool |-> pool, queue |-> queue]
                    ELSE importMempool(pool, queue)
        after == addForBlock(imported.pool, imported.queue, S)
    IN  /\ pc = "idle" \/ (pc = "chain" /\ disconnected)
        /\ chain # <<>>
        /\ left.disconnects > 0
        /\ left' = [left EXCEPT !.disconnects = @ - 1]
        /\ chain' = Front(chain)
        /\ pool' = after.pool
        /\ queue' = after.queue
        /\ pc' = "chain" /\ disconnected' = TRUE
        /\ UNCHANGED <<adding, readded, lost>>

\* Mutant of Leftover: what the block confirms stays in the queue.
LeftoverAll(q, S) == q

\* DisconnectedBlockTransactions::removeForBlock
Leftover(q, S) == Without(q, S)

ConnectTip(S) ==
    LET p == removeForBlock(pool, S)
        q == Leftover(queue, S)
        imported == IF Upgraded(Height + 1) = Upgraded(Height) THEN [pool |-> p, queue |-> q]
                    ELSE importMempool(p, q)
    IN  /\ pc \in {"idle", "chain"}
        /\ Len(chain) < MaxHeight
        /\ ValidBlock(S)
        /\ chain' = Append(chain, S)
        /\ pool' = imported.pool
        /\ queue' = imported.queue
        /\ pc' = "chain"
        /\ UNCHANGED <<adding, disconnected, readded, lost, left>>

\* The step is over: a block was invalid, the goal is reached, or, if ~add, the disk failed.
EndStep(add) ==
    /\ pc = "chain"
    /\ add \/ left.faults > 0
    /\ Spend(~add)
    /\ adding' = add
    /\ pc' = IF disconnected \/ queue # <<>> \/ ~add THEN "update" ELSE "idle"
    /\ disconnected' = FALSE
    /\ UNCHANGED <<pool, chain, queue, readded, lost>>

\* updateMempoolForReorg, one transaction after the other, the earliest first.  The
\* fees may not be enough (fault), although fOverrideMempoolLimit is set.
Reaccept ==
    LET t == Last(queue)
    IN  /\ pc = "update" /\ queue # <<>>
        /\ queue' = Front(queue)
        /\ \/ /\ adding /\ Acceptable(pool, t)
              /\ pool' = addUnchecked(pool, t)
              /\ readded' = Append(readded, t)
              /\ UNCHANGED <<lost, left>>
           \/ /\ adding /\ ~Acceptable(pool, t)
              /\ pool' = removeRecursive(pool, t)
              /\ lost' = lost \cup {t}
              /\ UNCHANGED <<readded, left>>
           \/ /\ (adding /\ left.faults > 0 /\ Spend(TRUE)) \/ (~adding /\ Spend(FALSE))
              /\ pool' = removeRecursive(pool, t)
              /\ UNCHANGED <<readded, lost>>
        /\ UNCHANGED <<chain, pc, adding, disconnected>>

\* UpdateForDescendants: what t has below it outside the set, from what is known of
\* the transactions that come after it.
Below(p, known, t) ==
    LET walk[n \in 0..Cardinality(Tx)] ==
            IF n = 0 THEN [all |-> p.children[t], stage |-> p.children[t]]
            ELSE LET w == walk[n - 1]
                     next == UNION {p.children[u] : u \in w.stage}
                     stage == {u \in next : known[u] = {}} \ w.all
                 IN  [all |-> w.all \cup stage \cup UNION {known[u] : u \in next}, stage |-> stage]
    IN  walk[Cardinality(Tx)].all

\* Mutant of Relinked: the parents of the children in the pool are not updated.
RelinkedOneWay(acc, t, ids) ==
    LET p == [acc.pool EXCEPT !.children[t] = @ \cup (Spenders(acc.pool, t) \ ids)]
        below == Below(p, acc.known, t) \ ids
    IN  [pool |-> [p EXCEPT !.desc[t] = Plus(@, Total(p, below)),
                            !.anc = [u \in Tx |-> IF u \in below THEN Plus(@[u], Own(p, t)) ELSE @[u]]],
         known |-> [acc.known EXCEPT ![t] = below]]

Relinked(acc, t, ids) ==
    LET new == Spenders(acc.pool, t) \ ids
        p == [acc.pool EXCEPT !.children[t] = @ \cup new,
                              !.parents = [u \in Tx |-> IF u \in new THEN @[u] \cup {t} ELSE @[u]]]
        below == Below(p, acc.known, t) \ ids
    IN  [pool |-> [p EXCEPT !.desc[t] = Plus(@, Total(p, below)),
                            !.anc = [u \in Tx |-> IF u \in below THEN Plus(@[u], Own(p, t)) ELSE @[u]]],
         known |-> [acc.known EXCEPT ![t] = below]]

UpdateTransactionsFromBlock(p, ids) ==
    FoldRight(LAMBDA t, acc : Relinked(acc, t, ToSet(ids)), ids,
              [pool |-> p, known |-> [t \in Tx |-> {}]]).pool

removeForReorg(p) == RemoveStaged(p, Descendants(p, {t \in p.txs : ~Final(t)}), FALSE)

FinishUpdate ==
    LET p == removeForReorg(UpdateTransactionsFromBlock(pool, readded))
    IN  /\ pc = "update" /\ queue = <<>>
        /\ \E expired \in Expired(p) : pool' = LimitSize(p, expired) /\ Spend(expired # {})
        /\ pc' = "idle"
        /\ readded' = <<>> /\ lost' = {}
        /\ UNCHANGED <<chain, queue, adding, disconnected>>

-----------------------------------------------------------------------------

Init ==
    /\ pool = Cleared([txs |-> {}, parents |-> <<>>, children |-> <<>>, next |-> <<>>, fee |-> <<>>,
                       anc |-> <<>>, desc |-> <<>>, deltas |-> [t \in Tx |-> 0], addr |-> {}])
    /\ chain = <<>> /\ queue = <<>>
    /\ pc = "idle" /\ adding = TRUE /\ disconnected = FALSE
    /\ readded = <<>> /\ lost = {}
    /\ left = [disconnects |-> MaxDisconnects, requests |-> MaxRequests, faults |-> MaxFaults]

Next ==
    \/ \E t \in Tx : AcceptToMemoryPool(t)
    \/ \E t \in Tx, delta \in Deltas : PrioritiseTransaction(t, delta)
    \/ DisconnectTip
    \/ \E S \in SUBSET Tx : ConnectTip(S)
    \/ \E add \in BOOLEAN : EndStep(add)
    \/ Reaccept \/ FinishUpdate

Spec == Init /\ [][Next]_vars

-----------------------------------------------------------------------------
(* What CTxMemPool::check asserts, and more.                               *)

\* A transaction with its ancestors in the pool, by the inputs.
Package(t) == Closure([u \in Tx |-> Spends[u] \cap pool.txs], {t})

ChildrenByInputs(t) == {u \in pool.txs : t \in Spends[u]}

\* "assert(setParentCheck == GetMemPoolParents(it))", the same of the children, and
\* mapNextTx: outside a reorganisation the links are those of the inputs.
LinksMatchInputs ==
    pc = "idle" =>
        /\ \A t \in pool.txs : pool.parents[t] = Spends[t] \cap pool.txs /\ pool.children[t] = ChildrenByInputs(t)
        /\ \A c \in Coin : pool.next[c] = IF \E t \in pool.txs : c \in Inputs[t]
                                          THEN CHOOSE t \in pool.txs : c \in Inputs[t] ELSE NoTx

\* CTxMemPool::check: outside a reorganisation LinksMatchInputs holds, and the cached
\* state of ancestors and of descendants is that of the packages, modified fees
\* included, whatever additions, blocks, conflicts, prioritisations and
\* reorganisations led there.
PackagesExact ==
    pc = "idle" =>
        /\ LinksMatchInputs
        /\ \A t \in pool.txs :
            /\ pool.fee[t] = Fee[t] + pool.deltas[t]
            /\ pool.anc[t] = Total(pool, Package(t))
            /\ pool.desc[t] = Total(pool, {u \in pool.txs : t \in Package(u)})

\* UpdateAncestorState and UpdateDescendantState assert that no count becomes 0, at
\* every step, also while the pool is inconsistent.
CountsPositive ==
    \A t \in pool.txs : pool.anc[t].count > 0 /\ pool.desc[t].count > 0

\* "assert(pcoins->HaveCoin(txin.prevout))": each input is a coin of the chain or of
\* the pool, no coin is spent twice, and the next block could hold all of the pool.
PoolMinable ==
    pc = "idle" =>
        \A t \in pool.txs :
            /\ ValidInNext(t)
            /\ \A c \in Inputs[t] :
                  /\ HaveCoin(c) \/ \E u \in pool.txs : c \in Outputs[u]
                  /\ \A u \in pool.txs \ {t} : c \notin Inputs[u]

\* "we assume that disconnectpool only contains transactions that are NOT confirmed
\* in the current chain nor already in the mempool" (txmempool.h), and children come
\* before their parents in it.
QueueSound ==
    /\ ToSet(queue) \cap (Confirmed \cup pool.txs) = {}
    /\ IsInjective(queue)
    /\ \A i, j \in DOMAIN queue : queue[i] \in Spends[queue[j]] => j < i

\* updateMempoolForReorg leaves nothing behind that it could have put back.
NothingLeftBehind ==
    pc = "update" /\ queue = <<>> => \A t \in lost : ~Acceptable(pool, t)

\* -limitancestorcount and -limitdescendantcount hold whenever no reorganisation is under way.
ChainLimits ==
    pc = "idle" => \A t \in pool.txs : /\ pool.anc[t].count <= LimitAncestorCount
                                       /\ pool.desc[t].count <= LimitDescendantCount

\* "Returns all mempool deltas for an address" (rpc/misc.cpp): the index has the
\* transactions of the pool.
AddressesOfPool == pc = "idle" => pool.addr = pool.txs

\* "Sort an entry by max(score/size of entry's tx, score/size with all descendants)"
\* (txmempool.h).
ScoreIsMax ==
    \A t \in pool.txs : ~Lower(Score(pool, t), pool.desc[t]) /\ ~Lower(Score(pool, t), Own(pool, t))

=============================================================================
