----------------------- MODULE ChainstateFlushProofs -----------------------
(***************************************************************************)
(* For any tree of blocks and any number of crashes: a partly written coin *)
(* database always holds, outpoint by outpoint, the coin of one end of the *)
(* transition, and replaying keeps that true of the block it is at, until  *)
(* the two ends are the same block.                                        *)
(***************************************************************************)
EXTENDS ChainstateFlush, TLAPS

\* Block b and its ancestors can be connected and disconnected.
HasUndo(st, b) == st[Genesis] > 0 /\ \A c \in Ancestors[b] \ {Genesis} : st[c] = 2

\* Every outpoint of c has the coin it has after a or after b.
Between(c, a, b) == \A o \in Outpoint : c[o] \in {Utxo[a][o], Utxo[b][o]}

\* The coins in memory.
MemoryInv ==
    /\ mode \in {"run", "flush"} => coins = Utxo[tip]
    /\ mode = "down" => coins = db
    /\ mode = "replay" => Between(coins, pos, tip)

\* The coin database.
DiskInv ==
    /\ heads = <<>> => db = Utxo[OrGenesis(best)]
    /\ heads # <<>> => Between(db, heads[1], OrGenesis(heads[2]))

\* The modes and the head blocks.
HeadsInv ==
    /\ mode # "error"
    /\ mode = "run" => heads = <<>>
    /\ heads # <<>> => best = Null
    /\ mode = "flush" /\ heads # <<>> => heads[1] = tip
    /\ mode = "down" => tip = DurableTip
    /\ mode = "replay" => heads # <<>> /\ tip = DurableTip

\* The block index, in memory and on disk.
IndexInv ==
    /\ HasUndo(stat, tip)
    /\ HasUndo(stat, DurableTip)
    /\ HasUndo(diskStat, DurableTip)
    /\ heads # <<>> => HasUndo(diskStat, OrGenesis(heads[2]))
    /\ mode = "flush" => HasUndo(diskStat, tip)
    /\ mode = "down" => stat = diskStat
    /\ mode = "replay" => HasUndo(stat, pos)

IInv == TypeOK /\ MemoryInv /\ DiskInv /\ HeadsInv /\ IndexInv

-----------------------------------------------------------------------------
(* Connecting and disconnecting one block.                                 *)

\* Connecting and disconnecting keep the type of a coin map.
LEMMA CoinMapClosed ==
    ASSUME NEW b \in Block \ {Genesis}, NEW c \in CoinMap
    PROVE  Connected(c, b) \in CoinMap /\ Disconnected(c, b) \in CoinMap
  <1>1. Parent[b] \in Block /\ Utxo[Parent[b]] \in CoinMap
    BY BlockTreeAssumption
  <1>2. QED BY <1>1 DEF CoinMap, Connected, Disconnected

\* On its own parent's coins a block is undone exactly, and cleanly: the
\* result DisconnectTip insists on.
LEMMA DisconnectExact ==
    ASSUME NEW b \in Block \ {Genesis}
    PROVE  Disconnected(Utxo[b], b) = Utxo[Parent[b]] /\ Clean(Utxo[b], b)
  <1>1. /\ Parent[b] \in Block /\ Utxo[Parent[b]] \in CoinMap
        /\ Utxo[b] = Connected(Utxo[Parent[b]], b)
        /\ \A o \in Creates[b] : Utxo[Parent[b]][o] = Spent
        /\ Creates[b] \subseteq Outpoint /\ Spends[b] \subseteq Outpoint
    BY BlockTreeAssumption
  <1>2. \A o \in Outpoint : Disconnected(Utxo[b], b)[o] = Utxo[Parent[b]][o]
    BY <1>1 DEF Disconnected, Connected
  <1>3. Disconnected(Utxo[b], b) = Utxo[Parent[b]]
    BY <1>1, <1>2 DEF Disconnected, CoinMap
  <1>4. Clean(Utxo[b], b)
    BY <1>1 DEF Clean, Connected
  <1>5. QED BY <1>3, <1>4

\* Rolling a block back over coins that are in between two blocks: writing
\* and deleting a coin are idempotent (ReplayBlocks).
LEMMA RollbackBetween ==
    ASSUME NEW b \in Block \ {Genesis}, NEW t \in Block, NEW c, Between(c, b, t)
    PROVE  Between(Disconnected(c, b), Parent[b], t)
  <1>1. /\ Parent[b] \in Block /\ Utxo[Parent[b]] \in CoinMap
        /\ Utxo[b] = Connected(Utxo[Parent[b]], b)
        /\ \A o \in Creates[b] : Utxo[Parent[b]][o] = Spent
    BY BlockTreeAssumption
  <1>2. QED BY <1>1 DEF Between, Disconnected, Connected

\* Rolling a block forward over such coins (RollforwardBlock).
LEMMA RollforwardBetween ==
    ASSUME NEW b \in Block \ {Genesis}, NEW t \in Block, NEW c,
           Between(c, Parent[b], t)
    PROVE  Between(Connected(c, b), b, t)
  <1>1. Utxo[b] = Connected(Utxo[Parent[b]], b)
    BY BlockTreeAssumption
  <1>2. QED BY <1>1 DEF Between, Connected

\* Coins between a block and itself are the coins of that block.
LEMMA BetweenSame ==
    ASSUME NEW b \in Block, NEW c \in CoinMap, Between(c, b, b)
    PROVE  c = Utxo[b]
  <1>1. Utxo[b] \in CoinMap
    BY BlockTreeAssumption
  <1>2. QED BY <1>1 DEF Between, CoinMap

\* A block whose branch has undo data has it itself, and so has its parent's.
LEMMA UndoOfBranch ==
    ASSUME NEW b \in Block, NEW st \in [Block -> 0..2], HasUndo(st, b)
    PROVE  /\ st[b] > 0
           /\ HasUndo(st, Genesis)
           /\ b # Genesis => st[b] = 2 /\ HasUndo(st, Parent[b])
  <1>1. CASE b = Genesis
    BY <1>1, BlockTreeAssumption DEF HasUndo
  <1>2. CASE b # Genesis
    <2>1. Ancestors[b] = {b} \cup Ancestors[Parent[b]]
      BY <1>2, BlockTreeAssumption
    <2>2. QED BY <1>2, <2>1, BlockTreeAssumption DEF HasUndo
  <1>3. QED BY <1>1, <1>2

-----------------------------------------------------------------------------
(* The inductive invariant.                                                *)

\* The database of a fresh node satisfies the invariant.
LEMMA InitInv == Init => IInv
  <1> SUFFICES ASSUME Init PROVE IInv
    OBVIOUS
  <1>1. OrGenesis(best) = Genesis /\ DurableTip = Genesis
    BY DEF Init, OrGenesis, DurableTip
  <1>2. TypeOK
    BY BlockTreeAssumption, BoundAssumption DEF Init, TypeOK
  <1>3. MemoryInv /\ DiskInv /\ HeadsInv
    BY <1>1 DEF Init, MemoryInv, DiskInv, HeadsInv
  <1>4. HasUndo(stat, Genesis)
    <2>1. stat[Genesis] = 1 /\ Ancestors[Genesis] \ {Genesis} = {}
      BY BlockTreeAssumption DEF Init
    <2>2. QED BY <2>1 DEF HasUndo
  <1>5. IndexInv
    <2>1. tip = Genesis /\ heads = <<>> /\ mode = "run" /\ diskStat = stat
      BY DEF Init
    <2>2. QED BY <1>1, <1>4, <2>1 DEF IndexInv
  <1>6. QED BY <1>2, <1>3, <1>5 DEF IInv

\* Steps of the running node: they leave the coin database alone.
LEMMA StepRunning ==
    ASSUME IInv,
           \/ \E b \in Block : AcceptBlock(b) \/ ConnectTip(b)
           \/ DisconnectTip \/ WriteIndex \/ StartFlush
    PROVE  IInv'
  <1> USE DEF IInv, disk
  <1>0. UNCHANGED <<db, best, heads, pos, crashes>> /\ mode = "run" /\ heads = <<>>
    BY DEF AcceptBlock, ConnectTip, DisconnectTip, WriteIndex, StartFlush, HeadsInv
  <1>1. DurableTip' = DurableTip /\ DurableTip \in Block
    BY <1>0, BlockTreeAssumption DEF DurableTip, OrGenesis, TypeOK
  <1>2. DiskInv'
    BY <1>0 DEF DiskInv, Between, OrGenesis
  <1>3. CASE \E b \in Block : AcceptBlock(b)
    <2> PICK b \in Block : AcceptBlock(b)
      BY <1>3
    <2>1. TypeOK'
      BY <1>0 DEF AcceptBlock, TypeOK
    <2>2. MemoryInv' /\ HeadsInv'
      BY <1>0, <1>1 DEF AcceptBlock, MemoryInv, HeadsInv
    <2>3. HasUndo(stat', tip) /\ HasUndo(stat', DurableTip)
      BY <1>1, BlockTreeAssumption DEF AcceptBlock, TypeOK, IndexInv, HasUndo
    <2>4. IndexInv'
      BY <1>0, <1>1, <2>3 DEF AcceptBlock, IndexInv, HasUndo
    <2>5. QED BY <1>2, <2>1, <2>2, <2>4
  <1>4. CASE \E b \in Block : ConnectTip(b)
    <2> PICK b \in Block : ConnectTip(b)
      BY <1>4
    <2>0. b \in Block \ {Genesis} /\ Parent[b] = tip /\ tip' = b /\ coins = Utxo[tip]
      BY <1>0 DEF ConnectTip, MemoryInv
    <2>1. coins' = Utxo[b]
      BY <2>0, BlockTreeAssumption DEF ConnectTip
    <2>2. TypeOK'
      <3>1. coins' \in CoinMap
        BY <2>1, BlockTreeAssumption
      <3>2. stat' \in [Block -> 0..2]
        BY DEF ConnectTip, TypeOK
      <3>3. QED BY <1>0, <2>0, <3>1, <3>2 DEF ConnectTip, TypeOK
    <2>3. MemoryInv' /\ HeadsInv'
      BY <1>0, <1>1, <2>0, <2>1 DEF ConnectTip, MemoryInv, HeadsInv
    <2>4. HasUndo(stat', b) /\ HasUndo(stat', DurableTip)
      BY <1>1, <2>0, BlockTreeAssumption DEF ConnectTip, TypeOK, IndexInv, HasUndo
    <2>5. IndexInv'
      BY <1>0, <1>1, <2>0, <2>4 DEF ConnectTip, IndexInv, HasUndo
    <2>6. QED BY <1>2, <2>2, <2>3, <2>5
  <1>5. CASE DisconnectTip
    <2>0. tip \in Block \ {Genesis} /\ coins = Utxo[tip] /\ stat \in [Block -> 0..2]
      BY <1>0, <1>5 DEF DisconnectTip, MemoryInv, TypeOK
    <2>1. stat[tip] = 2 /\ HasUndo(stat, Parent[tip])
      BY <2>0, UndoOfBranch DEF IndexInv
    <2>2. coins' = Utxo[Parent[tip]] /\ tip' = Parent[tip] /\ mode' = "run"
          /\ UNCHANGED <<stat, diskStat>>
      BY <1>0, <1>5, <2>0, <2>1, DisconnectExact DEF DisconnectTip
    <2>3. TypeOK'
      BY <1>0, <2>0, <2>2, BlockTreeAssumption DEF TypeOK
    <2>4. MemoryInv' /\ HeadsInv'
      BY <1>0, <1>1, <2>2 DEF MemoryInv, HeadsInv
    <2>5. IndexInv'
      BY <1>0, <1>1, <2>1, <2>2 DEF IndexInv, HasUndo
    <2>6. QED BY <1>2, <2>3, <2>4, <2>5
  <1>6. CASE WriteIndex \/ StartFlush
    <2>1. diskStat' = stat /\ UNCHANGED <<tip, coins, stat>> /\ mode' \in {"run", "flush"}
      BY <1>0, <1>6 DEF WriteIndex, StartFlush
    <2>2. TypeOK' /\ MemoryInv' /\ HeadsInv'
      BY <1>0, <1>1, <2>1 DEF TypeOK, MemoryInv, HeadsInv
    <2>3. HasUndo(stat, DurableTip)
      BY DEF IndexInv
    <2>4. IndexInv'
      BY <1>0, <1>1, <2>1, <2>3 DEF IndexInv, HasUndo
    <2>5. QED BY <1>2, <2>2, <2>4
  <1>7. QED BY <1>3, <1>4, <1>5, <1>6

\* Steps of a flush: the coins in memory do not change.
LEMMA StepFlushing ==
    ASSUME IInv, (\E S \in SUBSET Pending : PartialBatch(S)) \/ FinalBatch
    PROVE  IInv'
  <1> USE DEF IInv
  <1>0. /\ mode = "flush" /\ coins = Utxo[tip] /\ tip \in Block
        /\ UNCHANGED <<tip, coins, stat, diskStat, pos, crashes>>
        /\ HasUndo(stat, tip) /\ HasUndo(diskStat, tip)
    BY DEF PartialBatch, FinalBatch, MemoryInv, TypeOK, IndexInv
  <1>1. CASE \E S \in SUBSET Pending : PartialBatch(S)
    <2> PICK S \in SUBSET Pending : PartialBatch(S)
      BY <1>1
    <2>0. /\ mode' = "flush" /\ best' = Null /\ heads' = <<tip, OldTip>>
          /\ db' = [o \in Outpoint |-> IF o \in S THEN coins[o] ELSE db[o]]
      BY <1>0 DEF PartialBatch
    <2>1. OldTip \in Block \cup {Null}
      BY DEF OldTip, TypeOK
    <2>2. heads' # <<>> /\ heads'[1] = tip /\ heads'[2] = OldTip /\ DurableTip' = tip
      BY <2>0 DEF DurableTip
    <2>3. TypeOK'
      <3>1. db' \in CoinMap
        BY <2>0 DEF CoinMap, TypeOK
      <3>2. heads' \in Block \X (Block \cup {Null})
        BY <1>0, <2>0, <2>1
      <3>3. QED BY <1>0, <2>0, <3>1, <3>2 DEF TypeOK
    <2>4. Between(db, tip, OrGenesis(OldTip)) /\ HasUndo(diskStat, OrGenesis(OldTip))
      <3>1. CASE heads = <<>>
        <4>1. OldTip = best /\ DurableTip = OrGenesis(best)
          BY <3>1 DEF OldTip, DurableTip
        <4>2. QED BY <3>1, <4>1 DEF DiskInv, IndexInv, Between
      <3>2. CASE heads # <<>> /\ best = Null
        <4>1. OldTip = heads[2] /\ heads[1] = tip
          BY <1>0, <3>2 DEF OldTip, HeadsInv
        <4>2. QED BY <3>2, <4>1 DEF DiskInv, IndexInv
      <3>3. CASE heads # <<>> /\ best # Null
        BY <3>3 DEF HeadsInv
      <3>4. QED BY <3>1, <3>2, <3>3
    <2>5. DiskInv'
      <3>1. Between(db', tip, OrGenesis(OldTip))
        BY <1>0, <2>0, <2>4 DEF Between
      <3>2. OrGenesis(heads'[2]) = OrGenesis(OldTip)
        BY <2>2
      <3>3. QED BY <2>2, <3>1, <3>2 DEF DiskInv, Between, OrGenesis
    <2>6. MemoryInv' /\ HeadsInv'
      BY <1>0, <2>0, <2>2 DEF MemoryInv, HeadsInv
    <2>7. IndexInv'
      BY <1>0, <2>0, <2>2, <2>4 DEF IndexInv, HasUndo, OrGenesis
    <2>8. QED BY <2>3, <2>5, <2>6, <2>7
  <1>2. CASE FinalBatch
    <2>0. mode' = "run" /\ best' = tip /\ heads' = <<>> /\ db' = coins
      BY <1>2 DEF FinalBatch
    <2>1. DurableTip' = tip /\ OrGenesis(tip) = tip
      BY <1>0, <2>0, BlockTreeAssumption DEF DurableTip, OrGenesis
    <2>2. TypeOK'
      BY <1>0, <2>0 DEF TypeOK
    <2>3. MemoryInv' /\ DiskInv' /\ HeadsInv'
      BY <1>0, <2>0, <2>1 DEF MemoryInv, DiskInv, HeadsInv, OrGenesis
    <2>4. IndexInv'
      BY <1>0, <2>0, <2>1 DEF IndexInv, HasUndo
    <2>5. QED BY <2>2, <2>3, <2>4
  <1>3. QED BY <1>1, <1>2

\* A crash, and the steps of the recovery: they leave the disk alone.
LEMMA StepRecovering ==
    ASSUME IInv, Crash \/ Recover
    PROVE  IInv'
  <1> USE DEF IInv, disk
  <1>0. UNCHANGED <<diskStat, db, best, heads>>
    BY DEF Crash, Recover, StartClean, StartReplay, RollbackBlock, RollforwardBlock,
           FlushReplayed
  <1>1. DurableTip' = DurableTip /\ DurableTip \in Block
    BY <1>0, BlockTreeAssumption DEF DurableTip, OrGenesis, TypeOK
  <1>2. DiskInv'
    BY <1>0 DEF DiskInv, Between, OrGenesis
  <1>3. heads # <<>> => /\ DurableTip = heads[1]
                        /\ OrGenesis(heads[2]) \in Block
    BY BlockTreeAssumption DEF DurableTip, OrGenesis, TypeOK
  <1>4. CASE Crash
    <2>0. /\ mode' = "down" /\ stat' = diskStat /\ tip' = DurableTip /\ coins' = db
          /\ pos' = Genesis /\ crashes' = crashes + 1 /\ crashes < MaxCrashes
      BY <1>4 DEF Crash
    <2>1. TypeOK'
      BY <1>0, <1>1, <2>0, BlockTreeAssumption, BoundAssumption DEF TypeOK
    <2>2. MemoryInv' /\ HeadsInv'
      BY <1>0, <1>1, <2>0 DEF MemoryInv, HeadsInv
    <2>3. IndexInv'
      BY <1>0, <1>1, <2>0 DEF IndexInv, HasUndo, OrGenesis
    <2>4. QED BY <1>2, <2>1, <2>2, <2>3
  <1>5. CASE StartClean
    <2>0. /\ mode = "down" /\ heads = <<>> /\ UNCHANGED <<tip, coins, stat, pos, crashes>>
          /\ tip = OrGenesis(best) /\ tip \in Block /\ stat \in [Block -> 0..2]
      BY <1>5 DEF StartClean, HeadsInv, DurableTip, TypeOK
    <2>1. mode' = "run"
      BY <1>5, <2>0, UndoOfBranch DEF StartClean, IndexInv
    <2>2. TypeOK' /\ MemoryInv' /\ HeadsInv'
      BY <1>0, <2>0, <2>1 DEF TypeOK, MemoryInv, HeadsInv, DiskInv
    <2>3. IndexInv'
      BY <1>0, <1>1, <2>0, <2>1 DEF IndexInv, HasUndo
    <2>4. QED BY <1>2, <2>2, <2>3
  <1>6. CASE StartReplay
    <2>0. /\ mode = "down" /\ heads # <<>> /\ UNCHANGED <<tip, coins, stat, crashes>>
          /\ pos' = OrGenesis(heads[2]) /\ tip = heads[1] /\ stat = diskStat
          /\ coins = db /\ stat \in [Block -> 0..2] /\ tip \in Block
      BY <1>3, <1>6 DEF StartReplay, HeadsInv, IndexInv, MemoryInv, TypeOK
    <2>1. stat[tip] > 0 /\ stat[pos'] > 0 /\ HasUndo(stat, pos')
      BY <1>3, <2>0, UndoOfBranch DEF IndexInv
    <2>2. mode' = "replay"
      BY <1>6, <2>0, <2>1 DEF StartReplay
    <2>3. TypeOK'
      BY <1>0, <1>3, <2>0, <2>2 DEF TypeOK
    <2>4. MemoryInv' /\ HeadsInv'
      BY <1>0, <1>1, <1>3, <2>0, <2>2 DEF MemoryInv, HeadsInv, DiskInv, Between
    <2>5. IndexInv'
      BY <1>0, <1>1, <2>0, <2>1, <2>2 DEF IndexInv, HasUndo, OrGenesis
    <2>6. QED BY <1>2, <2>3, <2>4, <2>5
  <1>7. CASE RollbackBlock
    <2>0. /\ mode = "replay" /\ pos \in Block \ {Genesis} /\ tip \in Block
          /\ UNCHANGED <<tip, stat, crashes>> /\ coins \in CoinMap
          /\ stat \in [Block -> 0..2] /\ Between(coins, pos, tip) /\ HasUndo(stat, pos)
      BY <1>7 DEF RollbackBlock, TypeOK, MemoryInv, IndexInv
    <2>1. stat[pos] = 2 /\ HasUndo(stat, Parent[pos])
      BY <2>0, UndoOfBranch, SMTT(30)
    <2>2. mode' = "replay" /\ coins' = Disconnected(coins, pos) /\ pos' = Parent[pos]
      BY <1>7, <2>0, <2>1 DEF RollbackBlock
    <2>3. TypeOK'
      <3>1. coins' \in CoinMap /\ pos' \in Block
        BY <2>0, <2>2, CoinMapClosed, BlockTreeAssumption, SMTT(30)
      <3>2. QED BY <1>0, <2>0, <2>2, <3>1 DEF TypeOK
    <2>4. Between(coins', pos', tip)
      BY <2>0, <2>2, RollbackBetween
    <2>5. MemoryInv' /\ HeadsInv'
      BY <1>0, <1>1, <2>0, <2>2, <2>4, SMTT(30) DEF MemoryInv, HeadsInv, Between
    <2>6. IndexInv'
      BY <1>0, <1>1, <2>0, <2>1, <2>2 DEF IndexInv, HasUndo, OrGenesis
    <2>7. QED BY <1>2, <2>3, <2>5, <2>6
  <1>8. CASE \E b \in Block : RollforwardBlock(b)
    <2> PICK b \in Block : RollforwardBlock(b)
      BY <1>8, SMTT(30)
    <2>0. /\ mode = "replay" /\ b \in Block \ {Genesis} /\ tip \in Block
          /\ b \in Ancestors[tip] /\ pos = Parent[b]
          /\ UNCHANGED <<tip, stat, crashes>> /\ coins \in CoinMap
          /\ stat \in [Block -> 0..2] /\ Between(coins, pos, tip) /\ HasUndo(stat, pos)
      BY SMTT(30) DEF RollforwardBlock, TypeOK, MemoryInv, IndexInv
    <2>1. stat[b] = 2
      BY <2>0 DEF IndexInv, HasUndo
    <2>2. HasUndo(stat, b)
      BY <2>0, <2>1, BlockTreeAssumption DEF HasUndo
    <2>3. mode' = "replay" /\ coins' = Connected(coins, b) /\ pos' = b
      BY <2>0, <2>1, SMTT(30) DEF RollforwardBlock
    <2>4. TypeOK'
      <3>1. coins' \in CoinMap
        BY <2>0, <2>3, CoinMapClosed
      <3>2. QED BY <1>0, <2>0, <2>3, <3>1 DEF TypeOK
    <2>5. Between(coins', pos', tip)
      BY <2>0, <2>3, RollforwardBetween
    <2>6. MemoryInv' /\ HeadsInv'
      BY <1>0, <1>1, <2>0, <2>3, <2>5, SMTT(30) DEF MemoryInv, HeadsInv, Between
    <2>7. IndexInv'
      BY <1>0, <1>1, <2>0, <2>2, <2>3 DEF IndexInv, HasUndo, OrGenesis
    <2>8. QED BY <1>2, <2>4, <2>6, <2>7
  <1>9. CASE FlushReplayed
    <2>0. /\ mode = "replay" /\ pos = tip /\ mode' = "flush"
          /\ UNCHANGED <<tip, coins, stat, pos, crashes>>
          /\ tip \in Block /\ coins \in CoinMap /\ tip = DurableTip
      BY <1>9 DEF FlushReplayed, TypeOK, HeadsInv
    <2>1. coins = Utxo[tip]
      BY <2>0, BetweenSame DEF MemoryInv
    <2>2. TypeOK' /\ MemoryInv' /\ HeadsInv'
      BY <1>0, <1>1, <1>3, <2>0, <2>1 DEF TypeOK, MemoryInv, HeadsInv
    <2>3. IndexInv'
      BY <1>0, <1>1, <2>0 DEF IndexInv, HasUndo, OrGenesis
    <2>4. QED BY <1>2, <2>2, <2>3
  <1>10. QED BY <1>4, <1>5, <1>6, <1>7, <1>8, <1>9 DEF Recover
-----------------------------------------------------------------------------
(* The theorems.                                                           *)

\* Every step keeps the invariant.
LEMMA NextInv == IInv /\ [Next]_vars => IInv'
  <1> SUFFICES ASSUME IInv, [Next]_vars PROVE IInv'
    OBVIOUS
  <1>1. CASE Next
    BY <1>1, StepRunning, StepFlushing, StepRecovering, SMTT(30) DEF Next
  <1>2. CASE UNCHANGED vars
    BY <1>2 DEF vars, IInv, TypeOK, MemoryInv, DiskInv, HeadsInv, IndexInv, Between,
                HasUndo, DurableTip, OrGenesis
  <1>3. QED BY <1>1, <1>2

\* The inductive invariant holds always.
LEMMA Invariant == Spec => []IInv
  BY InitInv, NextInv, PTL DEF Spec

\* Every variable has its type, for any tree of blocks.
THEOREM TypeCorrect == Spec => []TypeOK
  <1>1. IInv => TypeOK
    BY DEF IInv
  <1>2. QED BY <1>1, Invariant, PTL

\* After any number of crashes in the middle of flushes and of recoveries, the
\* coins the node runs with are exactly those of its tip (ReplayBlocks).
THEOREM RecoveryIsExact == Spec => []CoinsMatchTip
  <1>1. IInv => CoinsMatchTip
    BY DEF IInv, MemoryInv, CoinsMatchTip
  <1>2. QED BY <1>1, Invariant, PTL

\* The database holds its best block's coins, or coins of its two heads.
THEOREM DatabaseIsBetweenHeads == Spec => []DatabaseMatchesHead
  <1>1. IInv => DatabaseMatchesHead
    BY DEF IInv, DiskInv, DatabaseMatchesHead, Between
  <1>2. QED BY <1>1, Invariant, PTL

\* Recovery finds every index entry, block and undo record it needs, and
\* BatchWrite's assertion on the head blocks holds.
THEOREM RecoveryNeverStuck == Spec => [](RecoveryNeverFails /\ SameGoal)
  <1>1. IInv => RecoveryNeverFails /\ SameGoal
    BY DEF IInv, HeadsInv, RecoveryNeverFails, SameGoal
  <1>2. QED BY <1>1, Invariant, PTL

-----------------------------------------------------------------------------
(* The refinement.                                                         *)

\* A fresh node is a fresh atomic database.
LEMMA InitRefines == Init => Abstract!Init
  BY SMTT(30) DEF Init, Abstract!Init, DurableTip, OrGenesis

\* Every step is one of the atomic database, or changes nothing of it: the
\* flush happens with its first batch, the loss of the tip with the crash.
LEMMA NextRefines == IInv /\ IInv' /\ [Next]_vars => [Abstract!Next]_(Abstract!vars)
  <1> SUFFICES ASSUME IInv, IInv', [Next]_vars PROVE [Abstract!Next]_(Abstract!vars)
    OBVIOUS
  <1> DEFINE ATip == IF mode \in {"run", "flush"} THEN tip ELSE DurableTip
  <1>0. SUFFICES \/ ATip' = ATip /\ DurableTip' = DurableTip
                 \/ /\ \/ ATip' \in Block \ {Genesis} /\ Parent[ATip'] = ATip
                       \/ ATip # Genesis /\ ATip' = Parent[ATip]
                    /\ DurableTip' = DurableTip
                 \/ DurableTip' = ATip /\ ATip' = ATip
                 \/ ATip' = DurableTip /\ DurableTip' = DurableTip
    BY DEF Abstract!Next, Abstract!vars, Abstract!Move, Abstract!Flush, Abstract!Crash
  <1>1. CASE UNCHANGED vars
    BY <1>1, SMTT(30) DEF vars, DurableTip, OrGenesis
  <1>2. CASE WriteIndex \/ StartFlush \/ \E b \in Block : AcceptBlock(b)
    BY <1>2, SMTT(30) DEF WriteIndex, StartFlush, AcceptBlock, disk, DurableTip, OrGenesis
  <1>3. CASE \E b \in Block : ConnectTip(b)
    BY <1>3 DEF ConnectTip, disk, DurableTip, OrGenesis
  <1>4. CASE DisconnectTip
    <2>1. mode = "run" /\ DurableTip' = DurableTip
      BY <1>4 DEF DisconnectTip, disk, DurableTip, OrGenesis
    <2>2. mode' = "run" /\ tip # Genesis /\ tip' = Parent[tip]
      BY <1>4, <2>1 DEF DisconnectTip, IInv, HeadsInv
    <2>3. ATip = tip /\ ATip' = Parent[tip]
      BY <2>1, <2>2, SMTT(30)
    <2> HIDE DEF ATip
    <2>4. QED BY <2>1, <2>2, <2>3
  <1>5. CASE \E S \in SUBSET Pending : PartialBatch(S)
    BY <1>5 DEF PartialBatch, DurableTip
  <1>6. CASE FinalBatch
    <2>1. mode = "flush" /\ mode' = "run" /\ tip' = tip /\ heads' = <<>> /\ best' = tip
      BY <1>6 DEF FinalBatch
    <2>2. tip # Null
      BY BlockTreeAssumption DEF IInv, TypeOK
    <2>3. DurableTip' = tip
      BY <2>1, <2>2 DEF DurableTip, OrGenesis
    <2>4. QED BY <2>1, <2>3
  <1>7. CASE Crash
    BY <1>7 DEF Crash, disk, DurableTip, OrGenesis
  <1>8. CASE Recover
    <2>1. DurableTip' = DurableTip /\ tip' = tip /\ mode \in {"down", "replay"}
      BY <1>8 DEF Recover, StartClean, StartReplay, RollbackBlock, RollforwardBlock,
                  FlushReplayed, disk, DurableTip, OrGenesis
    <2>2. tip = DurableTip
      BY <2>1 DEF IInv, HeadsInv
    <2>3. QED BY <2>1, <2>2, SMTT(30)
  <1>9. QED
    BY <1>1, <1>2, <1>3, <1>4, <1>5, <1>6, <1>7, <1>8, Zenon DEF Next

\* Batched flushes, crashes and replays implement a database that is flushed
\* in one step.
THEOREM FlushRefinesAtomic == Spec => FlushIsAtomic
  <1>1. QED
    BY InitRefines, NextRefines, Invariant, PTL DEF Spec, FlushIsAtomic, Abstract!Spec
=============================================================================
