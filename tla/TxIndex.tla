------------------------------- MODULE TxIndex -------------------------------
(***************************************************************************)
(* The transaction index (index/base.cpp, index/txindex.cpp): the thread   *)
(* that catches up with the active chain, the callbacks that take over     *)
(* from it, the locator that says where to go on after a restart, and the  *)
(* migration from the old database.  The active chain moves underneath,    *)
(* and the validation interface delivers its events late, but in order.    *)
(***************************************************************************)
EXTENDS Integers, FiniteSets, Sequences

CONSTANTS
    Block, Genesis, NoBlock,
    Parent,       \* of every block but the genesis block
    Branch,       \* a block's ancestors, itself included
    Height,
    Tx,
    Txs,          \* transactions of a block
    NoEntry,
    StartTips,    \* tips of the nodes on which the index is enabled or migrated
    MaxEvents,    \* bound: flushes, invalidated blocks, waiting calls, failed reads, shutdowns, crashes
    MaxCrashes    \* bound

ASSUME TxIndexAssumption ==
    /\ Genesis \in Block /\ NoBlock \notin Block /\ Txs[Genesis] = {}
    /\ Parent \in [Block \ {Genesis} -> Block]
    /\ Height \in [Block -> Nat]
    /\ Branch[Genesis] = {Genesis}
    /\ \A b \in Block \ {Genesis} : /\ Height[b] = Height[Parent[b]] + 1
                                    /\ Branch[b] = {b} \cup Branch[Parent[b]]
    /\ Txs \in [Block -> SUBSET Tx] /\ NoEntry \notin Block \X Nat
    /\ {MaxEvents, MaxCrashes} \subseteq Nat /\ StartTips \subseteq Block

\* A branch has a transaction once: a coinbase begins with its height, and what
\* another transaction spends is spent.
ASSUME NoRepeats == \A b \in Block : \A c \in Branch[b] \ {b} : Txs[b] \cap Txs[c] = {}

VARIABLES
    tip,       \* chainActive.Tip()
    signalled, \* the last block of the active chain whose BlockConnected is sent
    known,     \* blocks in mapBlockIndex
    pos,       \* block -> its place in the block files
    disk,      \* what the last flush wrote: [tip, known]
    queue,     \* callbacks of the validation interface, for the index
    entry,     \* database: transaction -> <<block, place>>
    locator,   \* database: the block whose locator was written last
    legacy,    \* the old database: [flag, block, entry]
    pc,        \* of Init and ThreadSync
    batch,     \* Init: [txs, last] to be erased from the old database
    pindex,    \* ThreadSync's block
    best,      \* m_best_block_index
    synced,    \* m_synced
    indexing,  \* BlockConnected: the block whose entries it has written
    interrupt, \* m_interrupt
    asking,    \* a caller of BlockUntilSyncedToCurrentChain has seen that it has to wait
    left,      \* what remains of the bounds
    restarted, \* ghost: whether the node has been started again
    skipped    \* ghost: blocks that the locator may cover without their entries

chain    == <<tip, signalled, known, pos, disk>>
database == <<entry, locator, legacy, skipped>>
memory   == <<pc, batch, pindex, best, synced, indexing>>
vars     == <<chain, queue, database, memory, interrupt, asking, left, restarted>>

-----------------------------------------------------------------------------
(* The active chain.                                                       *)

ActiveChain == IF tip = NoBlock THEN {} ELSE Branch[tip]

Highest(S) == CHOOSE b \in S : \A c \in S : Height[c] <= Height[b]

\* CChain::FindFork and, for a locator without gaps, FindForkInGlobalIndex.
FindFork(b) == Highest(Branch[b] \cap ActiveChain)

Event(type, b) == [type |-> type, block |-> b]

\* Nobody is between ActivateBestChainStep and the last of its signals.
CsMainFree == signalled = tip

\* Init holds cs_main until the migration is over.
Up == pc \in {"sync", "locator", "write", "exited"}

\* ActivateBestChainStep, with a flush of a cache that has grown too large at any
\* of the blocks connected or disconnected: the coins are already those of after the
\* block, while chainActive, of which the locator is taken, is still that of before.
Activate(b) ==
    /\ Up /\ CsMainFree
    /\ IF tip = NoBlock THEN b = Genesis ELSE Height[b] > Height[tip]
    /\ tip' = b
    /\ signalled' = IF tip = NoBlock THEN NoBlock ELSE FindFork(b)
    /\ known' = known \cup Branch[b]
    /\ \/ UNCHANGED <<disk, queue, left>>
       \/ /\ left.events > 0 /\ tip # NoBlock
          /\ left' = [left EXCEPT !.events = @ - 1]
          /\ \/ \E c \in Branch[b] \ ActiveChain :
                   /\ disk' = [tip |-> c, known |-> known']
                   /\ queue' = Append(queue, Event("ChainStateFlushed", Parent[c]))
             \/ \E c \in ActiveChain \ Branch[b] :
                   /\ disk' = [tip |-> Parent[c], known |-> known']
                   /\ queue' = Append(queue, Event("ChainStateFlushed", c))
    /\ UNCHANGED <<pos, database, memory, interrupt, asking, restarted>>

\* ActivateBestChain: the signals of the blocks connected, one by one, with cs_main
\* still held.
Announce ==
    /\ ~CsMainFree
    /\ \E c \in ActiveChain :
          /\ IF signalled = NoBlock THEN c = Genesis ELSE c # Genesis /\ Parent[c] = signalled
          /\ signalled' = c
          /\ queue' = Append(queue, Event("BlockConnected", c))
    /\ UNCHANGED <<tip, known, pos, disk, database, memory, interrupt, asking, left, restarted>>

\* InvalidateBlock of the tip: no event that the index listens to.
Invalidate ==
    /\ Up /\ CsMainFree
    /\ left.events > 0
    /\ tip \notin {NoBlock, Genesis}
    /\ tip' = Parent[tip] /\ signalled' = Parent[tip]
    /\ left' = [left EXCEPT !.events = @ - 1]
    /\ UNCHANGED <<known, pos, disk, queue, database, memory, interrupt, asking, restarted>>

\* FlushStateToDisk
Flush ==
    /\ Up /\ CsMainFree
    /\ left.events > 0 /\ tip # NoBlock
    /\ disk' = [tip |-> tip, known |-> known]
    /\ queue' = Append(queue, Event("ChainStateFlushed", tip))
    /\ left' = [left EXCEPT !.events = @ - 1]
    /\ UNCHANGED <<tip, signalled, known, pos, database, memory, interrupt, asking, restarted>>

-----------------------------------------------------------------------------
(* The database.                                                           *)

\* Mutant of WriteBlock: an entry that exists is kept.
WriteBlockOnce(b) ==
    [t \in Tx |-> IF t \in Txs[b] /\ entry[t] = NoEntry THEN <<b, pos[b]>> ELSE entry[t]]

\* TxIndex::WriteBlock
WriteBlock(b) == [t \in Tx |-> IF t \in Txs[b] THEN <<b, pos[b]>> ELSE entry[t]]

\* BaseIndex::WriteBestBlock: GetLocator takes the tip for a null pointer.
WriteBestBlock(b) == CsMainFree /\ locator' = IF b = NoBlock THEN tip ELSE b

-----------------------------------------------------------------------------
(* Init: the migration, in which anything but a crash has to wait.         *)

\* The legacy flag is unset in two writes, the place first.
WriteLegacyBlock ==
    /\ pc = "init"
    /\ legacy.flag
    /\ legacy' = [legacy EXCEPT !.block = tip]
    /\ pc' = "flag"
    /\ UNCHANGED <<chain, queue, entry, locator, skipped, batch, pindex, best, synced, indexing,
                   interrupt, asking, left, restarted>>

WriteFlag ==
    /\ pc = "flag"
    /\ legacy' = [legacy EXCEPT !.flag = FALSE]
    /\ pc' = "init"
    /\ UNCHANGED <<chain, queue, entry, locator, skipped, batch, pindex, best, synced, indexing,
                   interrupt, asking, left, restarted>>

Remaining == {t \in Tx : legacy.entry[t] # NoEntry}

\* Mutant of MigrateBatch: the marker is written with the first batch.
MigrateBatchMarked(S, last) ==
    /\ pc = "init"
    /\ ~legacy.flag /\ legacy.block # NoBlock
    /\ S \subseteq Remaining
    /\ IF last THEN S = Remaining ELSE S # {}
    /\ entry' = [t \in Tx |-> IF t \in S THEN legacy.entry[t] ELSE entry[t]]
    /\ locator' = legacy.block
    /\ batch' = [txs |-> S, last |-> TRUE]
    /\ pc' = "erase"
    /\ UNCHANGED <<chain, queue, legacy, skipped, pindex, best, synced, indexing, interrupt, asking, left, restarted>>

\* WriteTxIndexMigrationBatches: the new database is written before the old one
\* is; the last batch also moves the locator.
MigrateBatch(S, last) ==
    /\ pc = "init"
    /\ ~legacy.flag /\ legacy.block # NoBlock
    /\ S \subseteq Remaining
    /\ IF last THEN S = Remaining ELSE S # {}
    /\ entry' = [t \in Tx |-> IF t \in S THEN legacy.entry[t] ELSE entry[t]]
    /\ locator' = IF last THEN legacy.block ELSE locator
    /\ batch' = [txs |-> S, last |-> last]
    /\ pc' = "erase"
    /\ UNCHANGED <<chain, queue, legacy, skipped, pindex, best, synced, indexing, interrupt, asking, left, restarted>>

EraseBatch ==
    /\ pc = "erase"
    /\ legacy' = [legacy EXCEPT !.entry = [t \in Tx |-> IF t \in batch.txs THEN NoEntry ELSE @[t]],
                                !.block = IF batch.last THEN NoBlock ELSE @]
    /\ pc' = "init"
    /\ UNCHANGED <<chain, queue, entry, locator, skipped, batch, pindex, best, synced, indexing,
                   interrupt, asking, left, restarted>>

\* BaseIndex::Init and the start of ThreadSync.
StartIndex ==
    LET b == IF locator = NoBlock \/ tip = NoBlock THEN NoBlock ELSE FindFork(locator)
    IN  /\ pc = "init"
        /\ ~legacy.flag /\ legacy.block = NoBlock
        /\ best' = b
        /\ pindex' = b
        /\ synced' = (b = tip)
        /\ pc' = IF b = tip THEN "exited" ELSE "sync"
        /\ UNCHANGED <<chain, queue, database, batch, indexing, interrupt, asking, left, restarted>>

-----------------------------------------------------------------------------
(* ThreadSync                                                              *)

\* Mutant of NextSyncBlock: the fork is not looked for.
NextSyncBlockOnBranch(b) ==
    {c \in ActiveChain : IF b = NoBlock THEN c = Genesis ELSE c # Genesis /\ Parent[c] = b}

\* NextSyncBlock: none or one block.
NextSyncBlock(b) ==
    {c \in ActiveChain : IF b = NoBlock THEN c = Genesis
                         ELSE c # Genesis /\ Parent[c] = FindFork(b)}

SyncInterrupted ==
    /\ pc = "sync"
    /\ interrupt
    /\ WriteBestBlock(pindex)
    /\ skipped' = IF pindex = NoBlock THEN skipped \cup ActiveChain ELSE skipped
    /\ pc' = "exited"
    /\ UNCHANGED <<chain, queue, entry, legacy, batch, pindex, best, synced, indexing,
                   interrupt, asking, left, restarted>>

SyncFinished ==
    /\ pc = "sync"
    /\ ~interrupt
    /\ NextSyncBlock(pindex) = {}
    /\ WriteBestBlock(pindex)
    /\ best' = pindex
    /\ synced' = TRUE
    /\ pc' = "exited"
    /\ UNCHANGED <<chain, queue, entry, legacy, skipped, batch, pindex, indexing, interrupt,
                   asking, left, restarted>>

SyncNext ==
    /\ pc = "sync"
    /\ ~interrupt /\ CsMainFree
    /\ \E b \in NextSyncBlock(pindex) : pindex' = b
    /\ pc' = "locator"
    /\ UNCHANGED <<chain, queue, database, batch, best, synced, indexing, interrupt, asking, left, restarted>>

\* Now and then the locator is written, of the block that comes next.
SyncLocator ==
    /\ pc = "locator"
    /\ WriteBestBlock(pindex) \/ UNCHANGED locator
    /\ pc' = "write"
    /\ UNCHANGED <<chain, queue, entry, legacy, skipped, batch, pindex, best, synced, indexing,
                   interrupt, asking, left, restarted>>

SyncWrite ==
    /\ pc = "write"
    /\ entry' = WriteBlock(pindex)
    /\ skipped' = skipped \ {pindex}
    /\ pc' = "sync"
    /\ UNCHANGED <<chain, queue, locator, legacy, batch, pindex, best, synced, indexing,
                   interrupt, asking, left, restarted>>

\* The block that a stop between its locator and its entries leaves out.
CutShort == {b \in Block : pc = "write" /\ b = pindex /\ b = locator}

\* The block cannot be read or its entries not written: FatalError.
SyncFails ==
    /\ pc = "write"
    /\ left.events > 0
    /\ interrupt' = TRUE
    /\ skipped' = skipped \cup CutShort
    /\ pc' = "exited"
    /\ left' = [left EXCEPT !.events = @ - 1]
    /\ UNCHANGED <<chain, queue, entry, locator, legacy, batch, pindex, best, synced, indexing,
                   asking, restarted>>

-----------------------------------------------------------------------------
(* The callbacks, one at a time.                                           *)

Delivers(type) == indexing = NoBlock /\ queue # <<>> /\ Head(queue).type = type

\* Mutant of Connects: only a child of the best block is taken.
ConnectsToBest(b) == b = Genesis \/ (best # NoBlock /\ Parent[b] = best)

\* The block connects to an ancestor of the best block.
Connects(b) == b = Genesis \/ (best # NoBlock /\ Parent[b] \in Branch[best])

\* BlockConnected: the entries, and then m_best_block_index.
BlockConnected ==
    /\ Delivers("BlockConnected")
    /\ synced /\ Connects(Head(queue).block)
    /\ entry' = WriteBlock(Head(queue).block)
    /\ skipped' = skipped \ {Head(queue).block}
    /\ indexing' = Head(queue).block
    /\ queue' = Tail(queue)
    /\ UNCHANGED <<chain, locator, legacy, pc, batch, pindex, best, synced, interrupt, asking, left, restarted>>

SetBestBlock ==
    /\ indexing # NoBlock
    /\ best' = indexing
    /\ indexing' = NoBlock
    /\ UNCHANGED <<chain, queue, database, pc, batch, pindex, synced, interrupt, asking, left, restarted>>

\* Not in sync yet, or on a stale branch.
BlockIgnored ==
    /\ Delivers("BlockConnected")
    /\ ~(synced /\ Connects(Head(queue).block))
    /\ queue' = Tail(queue)
    /\ UNCHANGED <<chain, database, memory, interrupt, asking, left, restarted>>

\* The entries cannot be written: FatalError.  The genesis block has none.
BlockFails ==
    /\ Delivers("BlockConnected") /\ Head(queue).block # Genesis
    /\ synced /\ Connects(Head(queue).block)
    /\ interrupt' = TRUE
    /\ queue' = Tail(queue)
    /\ UNCHANGED <<chain, database, memory, asking, left, restarted>>

ChainStateFlushed ==
    /\ Delivers("ChainStateFlushed")
    /\ synced => CsMainFree
    /\ locator' = IF synced /\ Head(queue).block \in Branch[best] THEN Head(queue).block ELSE locator
    /\ queue' = Tail(queue)
    /\ UNCHANGED <<chain, entry, legacy, skipped, memory, interrupt, asking, left, restarted>>

\* BlockUntilSyncedToCurrentChain looks at the tip under cs_main, and when it has to
\* wait, queues a callback behind those sent so far.
BlockUntilSynced ==
    /\ Up /\ CsMainFree
    /\ left.events > 0
    /\ ~asking
    /\ synced /\ best # NoBlock /\ tip \notin Branch[best]
    /\ asking' = TRUE
    /\ left' = [left EXCEPT !.events = @ - 1]
    /\ UNCHANGED <<chain, queue, database, memory, interrupt, restarted>>

SyncWithQueue ==
    /\ asking
    /\ queue' = Append(queue, Event("sync", signalled))
    /\ asking' = FALSE
    /\ UNCHANGED <<chain, database, memory, interrupt, left, restarted>>

AnswerQuery ==
    /\ Delivers("sync")
    /\ queue' = Tail(queue)
    /\ UNCHANGED <<chain, database, memory, interrupt, asking, left, restarted>>

-----------------------------------------------------------------------------
(* Stopping, crashing, starting again.                                     *)

Interrupt ==
    /\ Up /\ ~interrupt
    /\ left.events > 0
    /\ interrupt' = TRUE
    /\ left' = [left EXCEPT !.events = @ - 1]
    /\ UNCHANGED <<chain, queue, database, memory, asking, restarted>>

Reborn ==
    /\ pc' = "init"
    /\ queue' = <<>>
    /\ batch' = [txs |-> {}, last |-> FALSE]
    /\ pindex' = NoBlock /\ best' = NoBlock /\ indexing' = NoBlock
    /\ synced' = FALSE /\ interrupt' = FALSE /\ asking' = FALSE
    /\ restarted' = TRUE
    /\ UNCHANGED <<entry, locator, legacy>>

\* Shutdown: the index stops listening, the thread is joined, the state is flushed.
Restart ==
    /\ interrupt /\ pc = "exited" /\ CsMainFree
    /\ disk' = [tip |-> tip, known |-> known]
    /\ Reborn
    /\ UNCHANGED <<tip, signalled, known, pos, left, skipped>>

\* The node is back where the last flush left it.  Blocks that the block index has lost
\* will be stored again, and those that come in another order elsewhere than before.
\* A crash counts as one of the MaxEvents events.
Crash ==
    /\ left.crashes > 0 /\ left.events > 0
    /\ left' = [left EXCEPT !.crashes = @ - 1, !.events = @ - 1]
    /\ tip' = disk.tip /\ signalled' = disk.tip /\ known' = disk.known
    /\ \E moved \in SUBSET (known \ disk.known) :
          /\ pos' = [b \in Block |-> IF b \in moved THEN pos[b] + 1 ELSE pos[b]]
          /\ skipped' = skipped \cup moved \cup CutShort
    /\ Reborn
    /\ UNCHANGED disk

-----------------------------------------------------------------------------

\* A new node, an old one on which the index is enabled, or one to be migrated.
Init ==
    /\ tip \in {NoBlock} \cup StartTips
    /\ signalled = tip
    /\ known = IF tip = NoBlock THEN {} ELSE Branch[tip]
    /\ pos = [b \in Block |-> 0]
    /\ disk = [tip |-> tip, known |-> known]
    /\ queue = <<>>
    /\ entry = [t \in Tx |-> NoEntry]
    /\ locator = NoBlock
    /\ legacy \in {[flag |-> f, block |-> NoBlock,
                    entry |-> [t \in Tx |->
                        IF f /\ \E b \in known : t \in Txs[b]
                        THEN <<CHOOSE b \in known : t \in Txs[b], 0>> ELSE NoEntry]] :
                   f \in {f \in BOOLEAN : tip = NoBlock => ~f}}
    /\ pc = "init"
    /\ batch = [txs |-> {}, last |-> FALSE]
    /\ pindex = NoBlock /\ best = NoBlock /\ indexing = NoBlock
    /\ synced = FALSE /\ interrupt = FALSE /\ asking = FALSE
    /\ left = [events |-> MaxEvents, crashes |-> MaxCrashes]
    /\ restarted = FALSE /\ skipped = {}

Migrate == WriteLegacyBlock \/ WriteFlag \/ EraseBatch
           \/ \E S \in SUBSET Tx, last \in BOOLEAN : MigrateBatch(S, last)

ThreadSync == SyncInterrupted \/ SyncFinished \/ SyncNext \/ SyncLocator \/ SyncWrite

Deliver == BlockConnected \/ SetBestBlock \/ BlockIgnored \/ ChainStateFlushed \/ AnswerQuery

Next ==
    \/ (\E b \in Block : Activate(b)) \/ Announce \/ Invalidate \/ Flush
    \/ Migrate \/ StartIndex
    \/ ThreadSync \/ SyncFails
    \/ Deliver \/ BlockFails
    \/ BlockUntilSynced \/ SyncWithQueue
    \/ Interrupt \/ Restart \/ Crash

Spec == Init /\ [][Next]_vars

\* The threads run: startup and ThreadSync, the one that connects blocks and the
\* scheduler that delivers.
FairSpec ==
    /\ Spec
    /\ WF_vars(Announce)
    /\ WF_vars(Migrate \/ StartIndex)
    /\ WF_vars(ThreadSync)
    /\ WF_vars(Deliver)

-----------------------------------------------------------------------------

Entry == {NoEntry} \cup (Block \X (0..MaxCrashes))

\* The state has its types, and ThreadSync works only while the index is not in sync.
TypeOK ==
    /\ {tip, signalled, locator, pindex, best, indexing} \subseteq Block \cup {NoBlock}
    /\ ActiveChain \subseteq known
    /\ known \subseteq Block /\ disk.known \subseteq known
    /\ entry \in [Tx -> Entry] /\ legacy.entry \in [Tx -> Entry]
    /\ \A i \in DOMAIN queue :
          queue[i] \in [type : {"BlockConnected", "ChainStateFlushed", "sync"}, block : Block]
    /\ pc \in {"sync", "locator", "write"} => ~synced
    /\ indexing # NoBlock => synced

\* The block that the index says it is in sync with, or that ThreadSync has reached.
Reached == IF synced THEN best ELSE pindex

HasReached == synced \/ pc = "sync"

Private(t, b) == \A c \in Block \ {b} : t \notin Txs[c]

\* "The database stores a block locator of the chain the database is synced to"
\* (txindex.cpp): over restarts and crashes, each transaction up to the best block has an
\* entry, and it is the place of its block if no other block contains it.  Excepted are
\* the blocks that the code itself passes over: one whose locator was written when a
\* crash or a failure kept its entries from being written (base.cpp:116-131), those of
\* an active chain that an interrupted thread took for indexed (base.cpp:91-92 with a
\* null pindex), and those stored elsewhere after a crash and not indexed again.
NoHoles ==
    HasReached /\ Reached # NoBlock =>
        \A b \in Branch[Reached] \ skipped, t \in Tx : t \in Txs[b] =>
            /\ entry[t] # NoEntry
            /\ Private(t, b) => entry[t] = <<b, pos[b]>>

\* The same without exception.
NoHolesAtAll ==
    HasReached /\ Reached # NoBlock =>
        \A b \in Branch[Reached], t \in Tx : t \in Txs[b] =>
            /\ entry[t] # NoEntry
            /\ Private(t, b) => entry[t] = <<b, pos[b]>>

\* As long as the node runs, a transaction that two branches contain is found on the
\* branch that the index is in sync with, whatever the order in which ThreadSync and
\* the backlog of callbacks indexed them.
FoundOnBranch ==
    ~restarted /\ HasReached /\ Reached # NoBlock /\ indexing = NoBlock =>
        \A b \in Branch[Reached], t \in Tx : t \in Txs[b] => entry[t] = <<b, pos[b]>>

\* The same, also after a restart.
FoundAfterRestart ==
    HasReached /\ Reached # NoBlock /\ indexing = NoBlock =>
        \A b \in Branch[Reached], t \in Tx : t \in Txs[b] => entry[t] = <<b, pos[b]>>

\* BlockUntilSyncedToCurrentChain "blocks the current thread until the index is caught
\* up" (base.h): when it returns, the index has every block of the active chain whose
\* signal was sent by the time the caller got into the queue.  Blocks that a step is
\* announcing then, with cs_main held again, are not waited for.
AnswersInSync ==
    Delivers("sync") /\ ~interrupt => Head(queue).block \in Branch[best]

\* Whatever the backlog of stale blocks was, once it is gone the index is at the tip.
CaughtUp ==
    CsMainFree /\ synced /\ ~interrupt /\ queue = <<>> /\ indexing = NoBlock /\ tip # NoBlock =>
        best # NoBlock /\ tip \in Branch[best]

\* The callbacks never find the index without a best block, which BlockConnected
\* takes for a fatal error and ChainStateFlushed would dereference.
NeverWithoutBest ==
    synced /\ best = NoBlock /\ indexing = NoBlock /\ queue # <<>> =>
        Head(queue) = Event("BlockConnected", Genesis)

\* Unless the node is told to stop, the index gets in sync and stays there.
GetsInSync == <>[](interrupt \/ (synced /\ (tip # NoBlock => best # NoBlock /\ tip \in Branch[best])))

=============================================================================
