-------------------------- MODULE ChainstateFlush --------------------------
(***************************************************************************)
(* Writing the chain state to disk, crashing at any point of it, and the   *)
(* recovery at startup: FlushStateToDisk, ReplayBlocks (validation.cpp)    *)
(* and CCoinsViewDB::BatchWrite (txdb.cpp).                                *)
(*                                                                         *)
(* The coins of a flush are written in several batches.  While only some   *)
(* of them are on disk the database has no best block but the two heads of *)
(* the transition, from which startup rolls the old branch back and the    *)
(* new one forward over coins that may be of either end.                   *)
(***************************************************************************)
EXTENDS Integers, Sequences

CONSTANTS
    Block, Genesis,
    Parent,      \* of every block but the genesis block
    Height,
    Ancestors,   \* a block's ancestors, itself included
    Outpoint,
    Creates,     \* outputs of a block's transactions
    Spends,      \* inputs of its transactions other than the coinbase
    Spent,       \* no coin
    Utxo,        \* the coins after each block: outpoint -> height, or Spent
    Null,        \* no best block
    MaxCrashes   \* bound

\* The coin of an outpoint, by the height of the block that created it.
CoinMap == [Outpoint -> {Spent} \cup {Height[b] : b \in Block}]

\* The coins after block b, given those before it: all outputs are added
\* before any input is spent.
Connected(coins, b) ==
    [o \in Outpoint |-> IF o \in Spends[b] THEN Spent
                        ELSE IF o \in Creates[b] THEN Height[b] ELSE coins[o]]

\* A block's transactions spend what exists and create what does not.
ASSUME BlockTreeAssumption ==
    /\ Genesis \in Block
    /\ Null \notin Block
    /\ Parent \in [Block \ {Genesis} -> Block]
    /\ Height \in [Block -> Nat]
    /\ Creates \in [Block -> SUBSET Outpoint]
    /\ Spends \in [Block -> SUBSET Outpoint]
    /\ Ancestors \in [Block -> SUBSET Block]
    /\ Ancestors[Genesis] = {Genesis}
    /\ Utxo \in [Block -> CoinMap]
    /\ Utxo[Genesis] = [o \in Outpoint |-> Spent]
    /\ \A b \in Block \ {Genesis} :
          /\ Height[b] = Height[Parent[b]] + 1
          /\ Ancestors[b] = {b} \cup Ancestors[Parent[b]]
          /\ Utxo[b] = Connected(Utxo[Parent[b]], b)
          /\ \A o \in Creates[b] : Utxo[Parent[b]][o] = Spent

ASSUME BoundAssumption == MaxCrashes \in Nat

VARIABLES
    mode,      \* "run", "flush", "down", "replay" or "error"
    tip,       \* chainActive.Tip()
    coins,     \* pcoinsTip; in ReplayBlocks its cache
    stat,      \* block index: 0 unknown, 1 has data, 2 has undo data too
    diskStat,  \* the block index on disk
    db,        \* the coin database
    best,      \* DB_BEST_BLOCK
    heads,     \* DB_HEAD_BLOCKS: <<>> or <<new, old>>
    pos,       \* the block that ReplayBlocks' cache is at
    crashes

vars == <<mode, tip, coins, stat, diskStat, db, best, heads, pos, crashes>>

disk == <<diskStat, db, best, heads>>

-----------------------------------------------------------------------------

\* Mutant of Disconnected: the created outputs are spent first.
DisconnectedOutputsFirst(c, b) ==
    [o \in Outpoint |-> IF o \in Creates[b] \cap Spends[b] THEN Height[b]
                        ELSE IF o \in Creates[b] THEN Spent
                        ELSE IF o \in Spends[b] THEN Utxo[Parent[b]][o] ELSE c[o]]

\* DisconnectBlock: spent coins return from the undo data, then the created
\* outputs are spent.
Disconnected(c, b) ==
    [o \in Outpoint |-> IF o \in Creates[b] THEN Spent
                        ELSE IF o \in Spends[b] THEN Utxo[Parent[b]][o] ELSE c[o]]

\* DISCONNECT_OK: no input overwrites a coin, every output is there to spend.
Clean(c, b) ==
    /\ \A o \in Spends[b] : c[o] = Spent
    /\ \A o \in Creates[b] \ Spends[b] : c[o] = Height[b]

OrGenesis(b) == IF b = Null THEN Genesis ELSE b

\* The block the database is at, or on its way to.
DurableTip == IF heads # <<>> THEN heads[1] ELSE OrGenesis(best)

-----------------------------------------------------------------------------
(* The running node.                                                       *)

AcceptBlock(b) ==
    /\ mode = "run"
    /\ b # Genesis /\ stat[b] = 0 /\ stat[Parent[b]] > 0
    /\ stat' = [stat EXCEPT ![b] = 1]
    /\ UNCHANGED <<mode, tip, coins, disk, pos, crashes>>

\* ConnectBlock writes the undo data and marks the block index entry dirty.
ConnectTip(b) ==
    /\ mode = "run"
    /\ b # Genesis /\ Parent[b] = tip /\ stat[b] > 0
    /\ coins' = Connected(coins, b)
    /\ stat' = [stat EXCEPT ![b] = 2]
    /\ tip' = b
    /\ UNCHANGED <<mode, disk, pos, crashes>>

DisconnectTip ==
    /\ mode = "run"
    /\ tip # Genesis
    /\ IF stat[tip] = 2 /\ Clean(coins, tip)
       THEN /\ coins' = Disconnected(coins, tip)
            /\ tip' = Parent[tip]
            /\ UNCHANGED mode
       ELSE mode' = "error" /\ UNCHANGED <<coins, tip>>
    /\ UNCHANGED <<stat, disk, pos, crashes>>

\* FlushStateToDisk's periodic write of the block index alone.
WriteIndex ==
    /\ mode = "run"
    /\ diskStat' = stat
    /\ UNCHANGED <<mode, tip, coins, stat, db, best, heads, pos, crashes>>

\* Mutant of StartFlush: the coins are written before the block index.
StartFlushCoinsOnly ==
    /\ mode = "run"
    /\ mode' = "flush"
    /\ UNCHANGED <<tip, coins, stat, disk, pos, crashes>>

\* A full flush writes the block index first.
StartFlush ==
    /\ mode = "run"
    /\ mode' = "flush"
    /\ diskStat' = stat
    /\ UNCHANGED <<tip, coins, stat, db, best, heads, pos, crashes>>

-----------------------------------------------------------------------------
(* CCoinsViewDB::BatchWrite, to block tip.                                 *)

OldTip == IF best = Null /\ heads # <<>> THEN heads[2] ELSE best

Pending == {o \in Outpoint : coins[o] # db[o]}

\* Mutant of PartialBatch: no heads written.
PartialBatchUnmarked(S) ==
    /\ mode = "flush"
    /\ db' = [o \in Outpoint |-> IF o \in S THEN coins[o] ELSE db[o]]
    /\ UNCHANGED <<mode, tip, coins, stat, diskStat, best, heads, pos, crashes>>

\* A batch that is not the last one: the coins of S.
PartialBatch(S) ==
    /\ mode = "flush"
    /\ best' = Null
    /\ heads' = <<tip, OldTip>>
    /\ db' = [o \in Outpoint |-> IF o \in S THEN coins[o] ELSE db[o]]
    /\ UNCHANGED <<mode, tip, coins, stat, diskStat, pos, crashes>>

\* Mutant of FinalBatch: the best block is the one before the flush.
FinalBatchOldBest ==
    /\ mode = "flush"
    /\ db' = coins
    /\ best' = OldTip
    /\ heads' = <<>>
    /\ mode' = "run"
    /\ UNCHANGED <<tip, coins, stat, diskStat, pos, crashes>>

\* The last batch; the flush returns, pcoinsTip is empty over the new
\* database and, after ReplayBlocks, LoadChainTip takes its best block.
FinalBatch ==
    /\ mode = "flush"
    /\ db' = coins
    /\ best' = tip
    /\ heads' = <<>>
    /\ mode' = "run"
    /\ UNCHANGED <<tip, coins, stat, diskStat, pos, crashes>>

-----------------------------------------------------------------------------
(* Crash and startup.                                                      *)

Crash ==
    /\ mode # "down" /\ mode # "error"
    /\ crashes < MaxCrashes
    /\ crashes' = crashes + 1
    /\ mode' = "down"
    /\ stat' = diskStat
    /\ tip' = DurableTip
    /\ coins' = db
    /\ pos' = Genesis
    /\ UNCHANGED disk

\* LoadBlockIndex; ReplayBlocks is a no-op when there are no head blocks.
StartClean ==
    /\ mode = "down"
    /\ heads = <<>>
    /\ mode' = IF stat[OrGenesis(best)] > 0 THEN "run" ELSE "error"
    /\ UNCHANGED <<tip, coins, stat, disk, pos, crashes>>

StartReplay ==
    /\ mode = "down"
    /\ heads # <<>>
    /\ mode' = IF stat[heads[1]] > 0 /\ stat[OrGenesis(heads[2])] > 0
               THEN "replay" ELSE "error"
    /\ pos' = OrGenesis(heads[2])
    /\ UNCHANGED <<tip, coins, stat, disk, crashes>>

\* Mutant of RollbackBlock: it does not move to the parent.
RollbackBlockInPlace ==
    /\ mode = "replay"
    /\ pos # Genesis /\ pos \notin Ancestors[tip]
    /\ coins' = Disconnected(coins, pos)
    /\ UNCHANGED <<mode, tip, stat, disk, pos, crashes>>

\* One block of the old branch; DisconnectBlock needs its undo data.
RollbackBlock ==
    /\ mode = "replay"
    /\ pos # Genesis /\ pos \notin Ancestors[tip]
    /\ IF stat[pos] = 2
       THEN /\ coins' = Disconnected(coins, pos)
            /\ pos' = Parent[pos]
            /\ UNCHANGED mode
       ELSE mode' = "error" /\ UNCHANGED <<coins, pos>>
    /\ UNCHANGED <<tip, stat, disk, crashes>>

\* One block of the new branch.
RollforwardBlock(b) ==
    /\ mode = "replay"
    /\ b # Genesis /\ b \in Ancestors[tip] /\ Parent[b] = pos
    /\ IF stat[b] > 0
       THEN /\ coins' = Connected(coins, b)
            /\ pos' = b
            /\ UNCHANGED mode
       ELSE mode' = "error" /\ UNCHANGED <<coins, pos>>
    /\ UNCHANGED <<tip, stat, disk, crashes>>

\* cache.Flush() into the database.
FlushReplayed ==
    /\ mode = "replay"
    /\ pos = tip
    /\ mode' = "flush"
    /\ UNCHANGED <<tip, coins, stat, disk, pos, crashes>>

-----------------------------------------------------------------------------

Init ==
    /\ mode = "run"
    /\ tip = Genesis
    /\ coins = Utxo[Genesis]
    /\ stat = [b \in Block |-> IF b = Genesis THEN 1 ELSE 0]
    /\ diskStat = stat
    /\ db = Utxo[Genesis]
    /\ best = Null
    /\ heads = <<>>
    /\ pos = Genesis
    /\ crashes = 0

Recover == StartClean \/ StartReplay \/ RollbackBlock
           \/ (\E b \in Block : RollforwardBlock(b)) \/ FlushReplayed

Next ==
    \/ \E b \in Block : AcceptBlock(b) \/ ConnectTip(b)
    \/ DisconnectTip
    \/ WriteIndex
    \/ StartFlush
    \/ \E S \in SUBSET Pending : PartialBatch(S)
    \/ FinalBatch
    \/ Crash
    \/ Recover

Spec == Init /\ [][Next]_vars

\* Startup is sequential code, and a flush ends with its last batch.
FairSpec == Spec /\ WF_vars(Recover) /\ WF_vars(FinalBatch)

-----------------------------------------------------------------------------
(* Properties.                                                             *)

\* Every variable has its type (the records of txdb.cpp).
TypeOK ==
    /\ mode \in {"run", "flush", "down", "replay", "error"}
    /\ tip \in Block
    /\ pos \in Block
    /\ stat \in [Block -> 0..2]
    /\ diskStat \in [Block -> 0..2]
    /\ coins \in CoinMap
    /\ db \in CoinMap
    /\ best \in Block \cup {Null}
    /\ heads = <<>> \/ heads \in Block \X (Block \cup {Null})
    /\ crashes \in 0..MaxCrashes

\* Whenever the node runs, after whatever crashes, its coins are those of its
\* tip: replaying over a partly written database is exact (ReplayBlocks,
\* validation.cpp:4693).
CoinsMatchTip == mode \in {"run", "flush"} => coins = Utxo[tip]

\* A database with a best block holds exactly that block's coins; one without
\* holds, for every outpoint, the coin of one of its two heads
\* (CCoinsViewDB::BatchWrite).
DatabaseMatchesHead ==
    /\ heads = <<>> => db = Utxo[OrGenesis(best)]
    /\ heads # <<>> => \A o \in Outpoint :
                          db[o] \in {Utxo[heads[1]][o], Utxo[OrGenesis(heads[2])][o]}

\* Startup never meets a head block without index entry, data or undo data,
\* because the block index is written before the coins (FlushStateToDisk,
\* validation.cpp:2093); and DisconnectTip always finds its block's undo data
\* and a clean disconnection.
RecoveryNeverFails == mode # "error"

\* BatchWrite's assert(old_heads[0] == hashBlock): a flush that continues a
\* transition has the same goal (txdb.cpp:105).
SameGoal == mode = "flush" /\ heads # <<>> => heads[1] = tip

Abstract == INSTANCE AtomicChainstate WITH
    tip     <- IF mode \in {"run", "flush"} THEN tip ELSE DurableTip,
    durable <- DurableTip

\* Batches, crashes and replays together look like a database that is flushed
\* in one step: the flush takes effect with its first batch.
FlushIsAtomic == Abstract!Spec

\* After a crash the node runs again, however far the flush had come.
RecoveryTerminates == (mode = "down") ~> (mode = "run")
=============================================================================
