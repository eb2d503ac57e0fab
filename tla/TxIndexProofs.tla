---------------------------- MODULE TxIndexProofs ----------------------------
(****************************************************************************)
(* Proofs about the transaction index, for every block tree, every set of   *)
(* transactions and every number of restarts and crashes.                   *)
(*                                                                          *)
(* Types and Stage say which of start-up, ThreadSync and the callbacks may  *)
(* be at work.  Moved, Truthful and Covered give NoHoles, FirstRun gives    *)
(* FoundOnBranch, and Backlog, about the callbacks that wait in the queue,  *)
(* gives AnswersInSync and CaughtUp.                                        *)
(****************************************************************************)
EXTENDS TxIndex, WellFoundedInduction, FiniteSetTheorems, TLAPS

-----------------------------------------------------------------------------
(* The inductive invariants.                                               *)

Place == Block \cup {NoBlock}

Callback == [type : {"BlockConnected", "ChainStateFlushed", "sync"}, block : Block]

Types ==
    /\ tip \in Place /\ signalled \in Place /\ locator \in Place /\ disk.tip \in Place
    /\ pindex \in Place /\ best \in Place /\ indexing \in Place
    /\ pos \in [Block -> Nat]
    /\ queue \in Seq(Callback)
    /\ entry \in [Tx -> {NoEntry} \cup (Block \X Nat)]
    /\ legacy \in [flag : BOOLEAN, block : Place, entry : [Tx -> {NoEntry} \cup (Block \X Nat)]]
    /\ batch \in [txs : SUBSET Tx, last : BOOLEAN]
    /\ pc \in {"init", "flag", "erase", "sync", "locator", "write", "exited"}
    /\ synced \in BOOLEAN /\ interrupt \in BOOLEAN /\ asking \in BOOLEAN /\ restarted \in BOOLEAN

Starting == pc \in {"init", "flag", "erase"}

\* Only one of start-up, ThreadSync and the callbacks is at work.  An index that is
\* in sync without a best block will be told of the genesis block next.
Stage ==
    /\ Starting => queue = <<>> /\ ~synced /\ indexing = NoBlock /\ CsMainFree
    /\ pc \in {"sync", "locator", "write"} => ~synced
    /\ pc \in {"locator", "write"} => pindex # NoBlock
    /\ indexing # NoBlock => synced
    /\ asking => synced /\ signalled # NoBlock
    /\ signalled = NoBlock => queue = <<>> /\ pindex = NoBlock /\ best = NoBlock /\ indexing = NoBlock
    /\ synced /\ best = NoBlock /\ indexing = NoBlock /\ signalled # NoBlock =>
          queue # <<>> /\ Head(queue) = Event("BlockConnected", Genesis)

\* The migration: what the old database had is there or in the new one.
Moved ==
    /\ legacy.flag => /\ pc \in {"init", "flag"}
                      /\ tip # NoBlock /\ disk.tip = tip
                      /\ \A c \in Branch[tip] : \A t \in Txs[c] : legacy.entry[t] # NoEntry
    /\ pc = "flag" => legacy.flag /\ legacy.block = tip
    /\ ~legacy.flag /\ legacy.block # NoBlock =>
          /\ pc \in {"init", "erase"}
          /\ \A c \in Branch[legacy.block] : \A t \in Txs[c] :
                legacy.entry[t] # NoEntry \/ entry[t] # NoEntry
    /\ pc = "erase" => /\ ~legacy.flag /\ legacy.block # NoBlock
                       /\ \A t \in batch.txs : entry[t] # NoEntry

\* An entry is one of a block with that transaction, and of the place of the block
\* unless the block was stored elsewhere since.
Placed(t, e) ==
    \/ e = NoEntry
    \/ \E c \in Block, n \in Nat : t \in Txs[c] /\ e = <<c, n>> /\ (n = pos[c] \/ c \in skipped)

\* So are those of the old database as long as they are to be moved.
Truthful ==
    \A t \in Tx : /\ Placed(t, entry[t])
                  /\ legacy.flag \/ legacy.block # NoBlock => Placed(t, legacy.entry[t])

\* Every transaction up to a block has an entry, but for the blocks skipped.
Filled(b) ==
    b # NoBlock => \A c \in Branch[b] \ skipped : \A t \in Txs[c] : entry[t] # NoEntry

Covered ==
    /\ Filled(locator) \/ (pc = "write" /\ locator = pindex)
    /\ pc = "sync" => Filled(pindex)
    /\ pc \in {"locator", "write"} /\ pindex # Genesis => Filled(Parent[pindex])
    /\ synced => Filled(best) /\ Filled(indexing)

\* Every transaction up to a block is found in its block.
Found(b) == b # NoBlock => \A c \in Branch[b] : \A t \in Txs[c] : entry[t] = <<c, pos[c]>>

\* The first start: the old database has the active chain, or has handed it over.
FirstStart ==
    /\ locator # NoBlock => locator = tip /\ Found(tip)
    /\ legacy.block # NoBlock => legacy.block = tip
    /\ legacy.flag \/ legacy.block # NoBlock =>
          \A c \in Branch[tip] : \A t \in Txs[c] :
             /\ legacy.entry[t] \in {NoEntry, <<c, pos[c]>>}
             /\ <<c, pos[c]>> \in {legacy.entry[t], entry[t]}
             /\ pc = "erase" /\ t \in batch.txs => entry[t] = <<c, pos[c]>>

\* The block that the callbacks have reached.
Base == IF indexing = NoBlock THEN best ELSE indexing

FirstRun ==
    /\ Starting => FirstStart
    /\ pc = "sync" => Found(pindex)
    /\ pc \in {"locator", "write"} /\ pindex # Genesis => Found(Parent[pindex])
    /\ synced => Found(Base)

Connected(q, j) == q[j].type = "BlockConnected"

\* The last of the blocks connected before place n of the queue.
LastBefore(q, n, j) ==
    /\ j \in 1..(n - 1) /\ Connected(q, j)
    /\ \A k \in (j + 1)..(n - 1) : ~Connected(q, k)

\* A block that BlockConnected takes when the index has reached base.
Joins(b, base) == b = Genesis \/ (base # NoBlock /\ Parent[b] \in Branch[base])

\* The block joins the block connected before.
Follows(q, n, b) == \A j \in 1..(n - 1) : LastBefore(q, n, j) => Joins(b, q[j].block)

\* If the last block connected before is taken, the branch of the index has b.
Reaches(q, n, b) == \A j \in 1..(n - 1) : LastBefore(q, n, j) => b \in Branch[q[j].block]

\* The branch of the index has b, or a block will be taken.
Leads(q, n, b, base) ==
    \/ base # NoBlock /\ b \in Branch[base]
    \/ \E j \in 1..(n - 1) : Connected(q, j) /\ Joins(q[j].block, base)

\* The callbacks of q lead from base to the block t, if the index is in sync, and each
\* query waits behind the blocks that it waits for.
Led(q, t, insync, base) ==
    /\ \A n \in 1..Len(q) :
          /\ Connected(q, n) => Follows(q, n, q[n].block)
          /\ q[n].type = "sync" => /\ insync /\ Reaches(q, n, q[n].block)
                                   /\ Leads(q, n, q[n].block, base)
    /\ t # NoBlock => /\ Reaches(q, Len(q) + 1, t)
                      /\ insync => Leads(q, Len(q) + 1, t, base)

Backlog == ~interrupt => Led(queue, signalled, synced, Base)

-----------------------------------------------------------------------------
(* The block tree, by induction over the parents.                           *)

\* A set of numbers has a least one.
LEMMA LeastNat ==
    ASSUME NEW T \in SUBSET Nat, T # {}
    PROVE  \E n \in T : \A m \in T : n <= m
<1> DEFINE R == OpToRel(<, Nat)
<1>1. IsWellFoundedOn(R, Nat)
  BY NatLessThanWellFounded, Zenon
<1> HIDE DEF R
<1>2. PICK n \in T : \A m \in T : ~(<<m, n>> \in R)
  BY <1>1, WFMin, Zenon
<1>3. ASSUME NEW m \in T
      PROVE  n <= m
  <2>1. m \in Nat /\ n \in Nat /\ <<m, n>> \in Nat \X Nat
    OBVIOUS
  <2>2. ~(<<m, n>>[1] < <<m, n>>[2])
    BY <1>2, <2>1, Zenon DEF R, OpToRel
  <2> QED
    BY <2>1, <2>2
<1> QED
  BY <1>3

\* The tree and its genesis block.
LEMMA Tree ==
    /\ Genesis \in Block /\ NoBlock \notin Block
    /\ Branch[Genesis] = {Genesis} /\ Txs[Genesis] = {}
    /\ \A b \in Block : Height[b] \in Nat /\ Txs[b] \subseteq Tx
    /\ \A b \in Block \ {Genesis} : /\ Parent[b] \in Block
                                    /\ Height[b] = Height[Parent[b]] + 1
                                    /\ Branch[b] = {b} \cup Branch[Parent[b]]
BY TxIndexAssumption

\* A set that holds the genesis block and every block whose parent it holds is
\* the whole tree.
LEMMA TreeInduction ==
    ASSUME NEW S \in SUBSET Block, Genesis \in S,
           \A b \in Block \ {Genesis} : Parent[b] \in S => b \in S
    PROVE  S = Block
<1> DEFINE T == {Height[b] : b \in Block \ S}
<1>1. SUFFICES ASSUME S # Block PROVE FALSE
  BY Zenon
<1>2. PICK x \in Block \ S : TRUE
  BY <1>1, Zenon
<1>3. T \in SUBSET Nat /\ Height[x] \in T
  BY Tree
<1>4. PICK n \in T : \A m \in T : n <= m
  BY <1>3, LeastNat, Zenon
<1>5. PICK b \in Block \ S : Height[b] = n
  BY Zenon
<1>6. b # Genesis /\ Parent[b] \in Block \ S
  BY <1>5, Tree, Zenon
<1>7. Height[Parent[b]] \in T /\ Height[b] = Height[Parent[b]] + 1 /\ Height[Parent[b]] \in Nat
  BY <1>6, Tree
<1> HIDE DEF T
<1> QED
  BY <1>4, <1>5, <1>7

\* The branch of a block reaches from the block to the genesis block, and is finite.
LEMMA BranchInTree ==
    \A b \in Block : /\ Branch[b] \subseteq Block /\ IsFiniteSet(Branch[b])
                     /\ b \in Branch[b] /\ Genesis \in Branch[b]
<1> DEFINE S == {b \in Block : /\ Branch[b] \subseteq Block /\ IsFiniteSet(Branch[b])
                               /\ b \in Branch[b] /\ Genesis \in Branch[b]}
<1>1. Genesis \in S
  <2>1. IsFiniteSet({Genesis})
    BY FS_Singleton, Zenon
  <2> QED
    BY <2>1, Tree, Zenon
<1>2. ASSUME NEW b \in Block \ {Genesis}, Parent[b] \in S
      PROVE  b \in S
  <2>1. Branch[b] = Branch[Parent[b]] \cup {b}
    BY Tree, Zenon
  <2>2. IsFiniteSet(Branch[b])
    BY <1>2, <2>1, FS_AddElement
  <2> QED
    BY <1>2, <2>1, <2>2, Zenon
<1>3. S \in SUBSET Block
  BY Zenon
<1> HIDE DEF S
<1>4. S = Block
  BY <1>1, <1>2, <1>3, TreeInduction, Zenon
<1> QED
  BY <1>4, Zenon DEF S

\* The branch of an ancestor is part of the branch.
LEMMA BranchTransitive ==
    \A c \in Block : \A b \in Branch[c] : Branch[b] \subseteq Branch[c]
<1> DEFINE S == {c \in Block : \A b \in Branch[c] : Branch[b] \subseteq Branch[c]}
<1>1. Genesis \in S
  BY Tree, Zenon
<1>2. \A b \in Block \ {Genesis} : Parent[b] \in S => b \in S
  BY Tree
<1>3. S \in SUBSET Block
  BY Zenon
<1> HIDE DEF S
<1>4. S = Block
  BY <1>1, <1>2, <1>3, TreeInduction, Zenon
<1> QED
  BY <1>4, Zenon DEF S

\* Of two blocks of a branch one is an ancestor of the other.
LEMMA BranchLinear ==
    \A c \in Block : \A a, b \in Branch[c] : a \in Branch[b] \/ b \in Branch[a]
<1> DEFINE S == {c \in Block : \A a, b \in Branch[c] : a \in Branch[b] \/ b \in Branch[a]}
<1>1. Genesis \in S
  BY Tree, Zenon
<1>2. \A b \in Block \ {Genesis} : Parent[b] \in S => b \in S
  BY Tree
<1>3. S \in SUBSET Block
  BY Zenon
<1> HIDE DEF S
<1>4. S = Block
  BY <1>1, <1>2, <1>3, TreeInduction, Zenon
<1> QED
  BY <1>4, Zenon DEF S

\* Heights grow along a branch.
LEMMA BranchLower ==
    \A b \in Block : \A a \in Branch[b] \ {b} : Height[a] < Height[b]
<1> DEFINE S == {b \in Block : \A a \in Branch[b] \ {b} : Height[a] < Height[b]}
<1>1. Genesis \in S
  BY Tree, Zenon
<1>2. ASSUME NEW b \in Block \ {Genesis}, Parent[b] \in S
      PROVE  b \in S
  BY <1>2, Tree, BranchInTree
<1>3. S \in SUBSET Block
  BY Zenon
<1> HIDE DEF S
<1>4. S = Block
  BY <1>1, <1>2, <1>3, TreeInduction, Zenon
<1> QED
  BY <1>4, Zenon DEF S

\* Between a block and one of its ancestors there is a child of the ancestor.
LEMMA ChildTowards ==
    \A b \in Block : \A a \in Branch[b] \ {b} : \E c \in Branch[b] \ {Genesis} : Parent[c] = a
<1> DEFINE S == {b \in Block : \A a \in Branch[b] \ {b} :
                                  \E c \in Branch[b] \ {Genesis} : Parent[c] = a}
<1>1. Genesis \in S
  BY Tree, Zenon
<1>2. ASSUME NEW b \in Block \ {Genesis}, Parent[b] \in S
      PROVE  b \in S
  <2>1. /\ Parent[b] \in Block /\ Branch[b] = {b} \cup Branch[Parent[b]]
        /\ \A a \in Branch[Parent[b]] \ {Parent[b]} :
              \E c \in Branch[Parent[b]] \ {Genesis} : Parent[c] = a
    BY <1>2, Tree, Zenon
  <2>2. ASSUME NEW a \in Branch[b] \ {b}
        PROVE  \E c \in Branch[b] \ {Genesis} : Parent[c] = a
    BY <2>1, <2>2, Zenon
  <2> QED
    BY <2>2, Zenon
<1>3. S \in SUBSET Block
  BY Zenon
<1> HIDE DEF S
<1>4. S = Block
  BY <1>1, <1>2, <1>3, TreeInduction, Zenon
<1> QED
  BY <1>4, Zenon DEF S


\* The block of greatest height of a part of a branch.
LEMMA HighestIs ==
    ASSUME NEW c \in Block, NEW S \in SUBSET Branch[c], S # {}
    PROVE  Highest(S) \in S
<1> DEFINE T == {Height[c] - Height[x] : x \in S}
<1>1. \A x \in S : x \in Block /\ Height[x] \in Nat /\ Height[x] <= Height[c]
  BY BranchInTree, BranchLower, Tree
<1>2. Height[c] \in Nat
  BY Tree, Zenon
<1>3. T \in SUBSET Nat /\ T # {}
  BY <1>1, <1>2
<1>4. PICK n \in T : \A m \in T : n <= m
  BY <1>3, LeastNat, Zenon
<1>5. PICK b \in S : n = Height[c] - Height[b]
  BY Zenon
<1>6. \A x \in S : Height[c] - Height[x] \in T
  BY Zenon
<1> HIDE DEF T
<1>7. \A x \in S : Height[x] <= Height[b]
  BY <1>1, <1>2, <1>4, <1>5, <1>6
<1> QED
  BY <1>7, Zenon DEF Highest

\* FindFork is a block of both branches.
LEMMA ForkIsCommon ==
    ASSUME NEW b \in Block, tip \in Block
    PROVE  FindFork(b) \in Branch[b] /\ FindFork(b) \in Branch[tip] /\ FindFork(b) \in Block
<1>1. ActiveChain = Branch[tip]
  BY Tree, Zenon DEF ActiveChain
<1>2. Branch[b] \cap Branch[tip] \in SUBSET Branch[b] /\ Genesis \in Branch[b] \cap Branch[tip]
  BY BranchInTree, Zenon
<1> QED
  BY <1>1, <1>2, HighestIs, BranchInTree, Zenon DEF FindFork

\* Two blocks of a branch have no transaction in common.
LEMMA OnceOnBranch ==
    ASSUME NEW b \in Block, NEW c \in Branch[b], NEW d \in Branch[b],
           NEW t, t \in Txs[c], t \in Txs[d]
    PROVE  c = d
BY BranchInTree, BranchLinear, NoRepeats, Zenon

-----------------------------------------------------------------------------
(* Types.                                                                  *)

\* ActivateBestChainStep goes back to a block of the active chain, and may announce a
\* flush.
LEMMA ActivateIs ==
    ASSUME Types, NEW b \in Block, Activate(b)
    PROVE  /\ Up /\ signalled = tip /\ tip' = b /\ disk'.tip \in Place
           /\ tip = NoBlock => signalled' = NoBlock /\ queue' = queue
           /\ tip # NoBlock => tip \in Block /\ signalled' \in Block /\ signalled' \in Branch[tip]
           /\ \/ queue' = queue
              \/ \E c \in Block : queue' = Append(queue, Event("ChainStateFlushed", c))
           /\ UNCHANGED <<pos, entry, locator, legacy, skipped, pc, batch, pindex, best, synced,
                          indexing, interrupt, asking, restarted>>
<1>1. /\ Up /\ signalled = tip /\ tip' = b
      /\ signalled' = IF tip = NoBlock THEN NoBlock ELSE FindFork(b)
      /\ UNCHANGED <<pos, entry, locator, legacy, skipped, pc, batch, pindex, best, synced,
                     indexing, interrupt, asking, restarted>>
  BY Zenon DEF Activate, CsMainFree, database, memory
<1>2. tip # NoBlock => tip \in Block /\ signalled' \in Block /\ signalled' \in Branch[tip]
  BY <1>1, ForkIsCommon, Zenon DEF Types, Place
<1>3. /\ \A c \in Branch[b] \ ActiveChain : tip # NoBlock => c \in Block /\ Parent[c] \in Block
      /\ \A c \in ActiveChain \ Branch[b] : c \in Block /\ Parent[c] \in Block
  <2>1. /\ \A c \in Branch[b] : c \in Block
        /\ \A c \in ActiveChain : c \in Block
        /\ Genesis \in Branch[b] /\ (tip # NoBlock => Genesis \in ActiveChain)
    BY BranchInTree, Zenon DEF ActiveChain, Types, Place
  <2> QED
    BY <2>1, Tree, Zenon
<1>4. CASE disk' = disk /\ queue' = queue
  BY <1>1, <1>2, <1>4, Zenon DEF Types
<1>5. ASSUME NEW d \in Block, NEW e \in Block, tip # NoBlock, disk' = [tip |-> d, known |-> known'],
             queue' = Append(queue, Event("ChainStateFlushed", e))
      PROVE  /\ disk'.tip \in Place /\ tip # NoBlock
             /\ \E c \in Block : queue' = Append(queue, Event("ChainStateFlushed", c))
  BY <1>5 DEF Place
<1>6. CASE ~(disk' = disk /\ queue' = queue)
  <2>1. /\ tip # NoBlock
        /\ \/ \E c \in Branch[b] \ ActiveChain :
                 /\ disk' = [tip |-> c, known |-> known']
                 /\ queue' = Append(queue, Event("ChainStateFlushed", Parent[c]))
           \/ \E c \in ActiveChain \ Branch[b] :
                 /\ disk' = [tip |-> Parent[c], known |-> known']
                 /\ queue' = Append(queue, Event("ChainStateFlushed", c))
    BY <1>6, Zenon DEF Activate
  <2>2. /\ disk'.tip \in Place
        /\ \E c \in Block : queue' = Append(queue, Event("ChainStateFlushed", c))
    BY <1>3, <1>5, <2>1, Zenon
  <2> QED
    BY <1>1, <1>2, <2>1, <2>2, Zenon
<1> QED
  BY <1>4, <1>6, Zenon

\* Announce sends the signal of a block that joins the ones announced.
LEMMA AnnounceIs ==
    ASSUME Types, Stage, Announce
    PROVE  /\ ~Starting
           /\ signalled' \in Block /\ Joins(signalled', signalled)
           /\ signalled = NoBlock => signalled' = Genesis
           /\ queue' = Append(queue, Event("BlockConnected", signalled'))
           /\ UNCHANGED <<tip, disk, pos, entry, locator, legacy, skipped, pc, batch, pindex, best,
                          synced, indexing, interrupt, asking, restarted>>
<1>1. PICK c \in ActiveChain :
          /\ IF signalled = NoBlock THEN c = Genesis ELSE c # Genesis /\ Parent[c] = signalled
          /\ signalled' = c
          /\ queue' = Append(queue, Event("BlockConnected", c))
  BY Zenon DEF Announce
<1>2. c \in Block
  BY BranchInTree, Zenon DEF ActiveChain, Types, Place
<1>3. Joins(c, signalled)
  BY <1>1, BranchInTree, Zenon DEF Joins, Types, Place
<1>4. ~Starting
  BY Zenon DEF Announce, Stage
<1> QED
  BY <1>1, <1>2, <1>3, <1>4, Zenon DEF Announce, database, memory

\* WriteBlock writes an entry for each transaction of the block.
LEMMA WriteBlockIs ==
    ASSUME Types, NEW b \in Block
    PROVE  /\ WriteBlock(b) \in [Tx -> {NoEntry} \cup (Block \X Nat)]
           /\ \A t \in Txs[b] : WriteBlock(b)[t] = <<b, pos[b]>>
           /\ \A t \in Tx \ Txs[b] : WriteBlock(b)[t] = entry[t]
<1>1. <<b, pos[b]>> \in Block \X Nat
  BY DEF Types
<1> QED
  BY <1>1, Tree DEF WriteBlock, Types

\* StartIndex begins at a block of the locator's branch and the active chain, or at none.
LEMMA StartIs ==
    ASSUME Types, StartIndex
    PROVE  /\ pindex' = best' /\ best' \in Place
           /\ best' # NoBlock => /\ locator \in Block /\ tip \in Block
                                 /\ best' \in Branch[locator] /\ best' \in Branch[tip]
           /\ synced' = (best' = tip) /\ pc' = IF best' = tip THEN "exited" ELSE "sync"
           /\ pc = "init" /\ ~legacy.flag /\ legacy.block = NoBlock
           /\ UNCHANGED <<tip, signalled, pos, disk, queue, entry, locator, legacy, skipped,
                          batch, indexing, interrupt, asking, restarted>>
<1> DEFINE b == IF locator = NoBlock \/ tip = NoBlock THEN NoBlock ELSE FindFork(locator)
<1>1. b # NoBlock => /\ locator \in Block /\ tip \in Block
                     /\ b \in Branch[locator] /\ b \in Branch[tip] /\ b \in Block
  BY ForkIsCommon, Zenon DEF Types, Place
<1>2. b \in Place
  BY <1>1, Zenon DEF Place
<1>3. /\ best' = b /\ pindex' = b
      /\ synced' = (b = tip) /\ pc' = IF b = tip THEN "exited" ELSE "sync"
      /\ pc = "init" /\ ~legacy.flag /\ legacy.block = NoBlock
      /\ UNCHANGED <<tip, signalled, pos, disk, queue, entry, locator, legacy, skipped,
                     batch, indexing, interrupt, asking, restarted>>
  BY Zenon DEF StartIndex, chain, database
<1> HIDE DEF b
<1> QED
  BY <1>1, <1>2, <1>3, Zenon

\* NextSyncBlock is a child of a block that both branches have, or the genesis block.
LEMMA NextIs ==
    ASSUME Types, NEW b \in NextSyncBlock(pindex)
    PROVE  /\ b \in Block
           /\ b # Genesis => pindex \in Block /\ Parent[b] \in Branch[pindex]
<1>1. tip \in Block /\ b \in Branch[tip]
  BY Zenon DEF NextSyncBlock, ActiveChain, Types, Place
<1>2. b \in Block
  BY <1>1, BranchInTree, Zenon
<1>3. b # Genesis => pindex \in Block /\ Parent[b] = FindFork(pindex)
  BY Zenon DEF NextSyncBlock, Types, Place
<1> QED
  BY <1>1, <1>2, <1>3, ForkIsCommon, Zenon

\* Without a next block the branch of ThreadSync's block has the tip.
LEMMA NoNextIs ==
    ASSUME Types, NextSyncBlock(pindex) = {}, tip # NoBlock
    PROVE  pindex \in Block /\ tip \in Branch[pindex]
<1>1. tip \in Block /\ ActiveChain = Branch[tip] /\ Genesis \in Branch[tip]
  BY BranchInTree, Zenon DEF ActiveChain, Types, Place
<1>2. pindex # NoBlock
  BY <1>1, Zenon DEF NextSyncBlock
<1>3. pindex \in Block
  BY <1>2, Zenon DEF Types, Place
<1>4. FindFork(pindex) = tip
  <2>1. SUFFICES ASSUME FindFork(pindex) # tip PROVE FALSE
    BY Zenon
  <2>2. PICK c \in Branch[tip] \ {Genesis} : Parent[c] = FindFork(pindex)
    BY <1>1, <1>3, <2>1, ForkIsCommon, ChildTowards, Zenon
  <2> QED
    BY <1>1, <1>2, <2>2, Zenon DEF NextSyncBlock
<1> QED
  BY <1>1, <1>3, <1>4, ForkIsCommon, Zenon

\* The first callback of the queue and the rest.
LEMMA HeadIs ==
    ASSUME Types, queue # <<>>
    PROVE  /\ Head(queue) = queue[1] /\ Head(queue) \in Callback /\ Head(queue).block \in Block
           /\ Tail(queue) \in Seq(Callback) /\ Len(queue) \in Nat \ {0}
           /\ Len(Tail(queue)) = Len(queue) - 1
           /\ \A i \in 1..(Len(queue) - 1) : Tail(queue)[i] = queue[i + 1]
<1>1. queue \in Seq(Callback)
  BY Zenon DEF Types
<1>2. Head(queue) = queue[1] /\ Head(queue) \in Callback
  BY <1>1
<1>3. Head(queue).block \in Block
  BY <1>2 DEF Callback
<1> QED
  BY <1>1, <1>2, <1>3

\* Every step keeps the types.
LEMMA TypesStep ==
    ASSUME Types, Stage, Next
    PROVE  Types'
<1>0. \A c \in Block : \A y \in {"BlockConnected", "ChainStateFlushed", "sync"} :
         Event(y, c) \in Callback /\ Append(queue, Event(y, c)) \in Seq(Callback)
  BY DEF Event, Callback, Types
<1>1. ASSUME NEW b \in Block, Activate(b)
      PROVE  Types'
  <2>1. queue' \in Seq(Callback)
    BY <1>0, <1>1, ActivateIs, Zenon DEF Types
  <2>2. tip' \in Place /\ signalled' \in Place
    BY <1>1, ActivateIs, Zenon DEF Place
  <2> QED
    BY <1>1, <2>1, <2>2, ActivateIs, Zenon DEF Types
<1>26. CASE Announce
  <2>1. queue' \in Seq(Callback) /\ signalled' \in Place
    BY <1>0, <1>26, AnnounceIs, Zenon DEF Place
  <2> QED
    BY <1>26, <2>1, AnnounceIs, Zenon DEF Types
<1>2. CASE Invalidate
  <2>1. tip \in Block \ {Genesis}
    BY <1>2, Zenon DEF Types, Place, Invalidate
  <2>2. tip' \in Place /\ signalled' \in Place
    BY <1>2, <2>1, Tree, Zenon DEF Place, Invalidate
  <2> QED
    BY <1>2, <2>2, Zenon DEF Types, Invalidate, database, memory
<1>3. CASE Flush
  <2>1. tip \in Block /\ disk' = [tip |-> tip, known |-> known]
    BY <1>3, Zenon DEF Types, Place, Flush
  <2>2. disk'.tip = tip /\ Event("ChainStateFlushed", tip) \in Callback
    BY <2>1 DEF Event, Callback
  <2>3. queue' \in Seq(Callback)
    BY <1>3, <2>2 DEF Types, Flush
  <2> QED
    BY <1>3, <2>2, <2>3, Zenon DEF Types, Flush, database, memory
<1>4. CASE WriteLegacyBlock
  <2>1. legacy' \in [flag : BOOLEAN, block : Place, entry : [Tx -> {NoEntry} \cup (Block \X Nat)]]
    BY <1>4, SMTT(30) DEF Types, WriteLegacyBlock
  <2> QED
    BY <1>4, <2>1, Zenon DEF Types, WriteLegacyBlock, chain
<1>5. CASE WriteFlag
  <2>1. legacy' \in [flag : BOOLEAN, block : Place, entry : [Tx -> {NoEntry} \cup (Block \X Nat)]]
    BY <1>5, Zenon DEF Types, WriteFlag
  <2> QED
    BY <1>5, <2>1, Zenon DEF Types, WriteFlag, chain
<1>6. CASE EraseBatch
  <2>1. legacy' \in [flag : BOOLEAN, block : Place, entry : [Tx -> {NoEntry} \cup (Block \X Nat)]]
    BY <1>6, Zenon DEF Types, EraseBatch, Place
  <2> QED
    BY <1>6, <2>1, Zenon DEF Types, EraseBatch, chain
<1>7. ASSUME NEW S \in SUBSET Tx, NEW last \in BOOLEAN, MigrateBatch(S, last)
      PROVE  Types'
  <2>1. /\ legacy.block \in Place
        /\ \A t \in Tx : legacy.entry[t] \in {NoEntry} \cup (Block \X Nat)
    BY DEF Types
  <2>2. entry' \in [Tx -> {NoEntry} \cup (Block \X Nat)]
    BY <1>7, <2>1 DEF Types, MigrateBatch
  <2>3. batch' \in [txs : SUBSET Tx, last : BOOLEAN] /\ locator' \in Place
    BY <1>7, <2>1 DEF Types, MigrateBatch
  <2> QED
    BY <1>7, <2>2, <2>3, Zenon DEF Types, MigrateBatch, chain
<1>8. CASE StartIndex
  BY <1>8, StartIs, Zenon DEF Types
<1>9. CASE SyncInterrupted
  BY <1>9, Zenon DEF Types, SyncInterrupted, WriteBestBlock, chain
<1>10. CASE SyncFinished
  BY <1>10, Zenon DEF Types, SyncFinished, WriteBestBlock, chain
<1>11. CASE SyncNext
  <2>1. pindex' \in Place
    BY <1>11, NextIs, Zenon DEF SyncNext, Place
  <2> QED
    BY <1>11, <2>1, Zenon DEF Types, SyncNext, chain, database
<1>12. CASE SyncLocator
  BY <1>12, Zenon DEF Types, SyncLocator, WriteBestBlock, chain
<1>13. CASE SyncWrite
  <2>1. pindex \in Block
    BY <1>13, Zenon DEF Types, Stage, Place, SyncWrite
  <2> QED
    BY <1>13, <2>1, WriteBlockIs, Zenon DEF Types, SyncWrite, chain
<1>14. CASE SyncFails
  BY <1>14, Zenon DEF Types, SyncFails, chain, database
<1>15. CASE BlockConnected
  <2>1. Head(queue).block \in Block /\ Tail(queue) \in Seq(Callback)
    BY <1>15, HeadIs, Zenon DEF BlockConnected, Delivers
  <2>2. /\ entry' \in [Tx -> {NoEntry} \cup (Block \X Nat)]
        /\ indexing' \in Place /\ queue' \in Seq(Callback)
    BY <1>15, <2>1, WriteBlockIs, Zenon DEF Place, BlockConnected
  <2> QED
    BY <1>15, <2>2, Zenon DEF Types, BlockConnected, chain
<1>16. CASE SetBestBlock
  <2>1. best' \in Place /\ indexing' \in Place
    BY <1>16, Zenon DEF Types, Place, SetBestBlock
  <2> QED
    BY <1>16, <2>1, Zenon DEF Types, SetBestBlock, chain, database
<1>17. CASE BlockIgnored
  BY <1>17, HeadIs, Zenon DEF Types, BlockIgnored, Delivers, chain, database, memory
<1>18. CASE ChainStateFlushed
  <2>1. Head(queue).block \in Block /\ Tail(queue) \in Seq(Callback)
    BY <1>18, HeadIs, Zenon DEF ChainStateFlushed, Delivers
  <2>2. locator' \in Place /\ queue' \in Seq(Callback)
    BY <1>18, <2>1, Zenon DEF Types, Place, ChainStateFlushed
  <2> QED
    BY <1>18, <2>2, Zenon DEF Types, ChainStateFlushed, chain, memory
<1>19. CASE AnswerQuery
  BY <1>19, HeadIs, Zenon DEF Types, AnswerQuery, Delivers, chain, database, memory
<1>20. CASE BlockFails
  BY <1>20, HeadIs, Zenon DEF Types, BlockFails, Delivers, chain, database, memory
<1>21. CASE BlockUntilSynced
  BY <1>21, Zenon DEF Types, BlockUntilSynced, chain, database, memory
<1>27. CASE SyncWithQueue
  <2>1. signalled \in Block
    BY <1>27, Zenon DEF SyncWithQueue, Types, Stage, Place
  <2>2. queue' \in Seq(Callback)
    BY <1>0, <1>27, <2>1, Zenon DEF SyncWithQueue
  <2> QED
    BY <1>27, <2>2, Zenon DEF Types, SyncWithQueue, chain, database, memory
<1>22. CASE Interrupt
  BY <1>22, Zenon DEF Types, Interrupt, chain, database, memory
<1>23. ASSUME Reborn, tip' \in Place, signalled' \in Place, pos' \in [Block -> Nat], disk'.tip \in Place
      PROVE  Types'
  <2>1. batch' \in [txs : SUBSET Tx, last : BOOLEAN] /\ queue' \in Seq(Callback)
    BY <1>23 DEF Reborn
  <2> QED
    BY <1>23, <2>1, Zenon DEF Types, Reborn, Place
<1>24. CASE Restart
  <2>1. disk'.tip = tip
    BY <1>24 DEF Restart
  <2> QED
    BY <1>23, <1>24, <2>1, Zenon DEF Types, Restart
<1>25. CASE Crash
  <2>1. pos' \in [Block -> Nat]
    BY <1>25 DEF Types, Crash
  <2> QED
    BY <1>23, <1>25, <2>1, Zenon DEF Types, Crash
<1> QED
  BY <1>1, <1>2, <1>3, <1>4, <1>5, <1>6, <1>7, <1>8, <1>9, <1>10, <1>11, <1>12, <1>13, <1>14,
     <1>15, <1>16, <1>17, <1>18, <1>19, <1>20, <1>21, <1>22, <1>24, <1>25, <1>26, <1>27, Zenon
     DEF Next, Migrate, ThreadSync, Deliver

-----------------------------------------------------------------------------
(* Who is at work.                                                         *)

\* What holds at first.
LEMMA InitTypes ==
    ASSUME Init
    PROVE  Types /\ Stage
<1>1. tip \in Place /\ disk.tip \in Place
  BY TxIndexAssumption DEF Init, Place
<1>2. /\ pos \in [Block -> Nat] /\ queue \in Seq(Callback)
      /\ entry \in [Tx -> {NoEntry} \cup (Block \X Nat)]
      /\ batch \in [txs : SUBSET Tx, last : BOOLEAN]
  BY DEF Init
<1>3. known \subseteq Block
  BY <1>1, BranchInTree, Zenon DEF Init, Place
<1>4. ASSUME NEW f \in BOOLEAN
      PROVE  [t \in Tx |-> IF f /\ \E b \in known : t \in Txs[b]
                           THEN <<CHOOSE b \in known : t \in Txs[b], 0>> ELSE NoEntry]
               \in [Tx -> {NoEntry} \cup (Block \X Nat)]
  <2>1. ASSUME NEW t \in Tx, \E b \in known : t \in Txs[b]
        PROVE  (CHOOSE b \in known : t \in Txs[b]) \in Block
    BY <1>3, <2>1, Zenon
  <2> QED
    BY <2>1
<1>5. legacy \in [flag : BOOLEAN, block : Place, entry : [Tx -> {NoEntry} \cup (Block \X Nat)]]
  <2>1. PICK f \in BOOLEAN :
           legacy = [flag |-> f, block |-> NoBlock,
                     entry |-> [t \in Tx |-> IF f /\ \E b \in known : t \in Txs[b]
                                             THEN <<CHOOSE b \in known : t \in Txs[b], 0>> ELSE NoEntry]]
    BY Zenon DEF Init
  <2> DEFINE e == [t \in Tx |-> IF f /\ \E b \in known : t \in Txs[b]
                                THEN <<CHOOSE b \in known : t \in Txs[b], 0>> ELSE NoEntry]
  <2>2. e \in [Tx -> {NoEntry} \cup (Block \X Nat)]
    BY <1>4, Zenon
  <2> HIDE DEF e
  <2>3. legacy = [flag |-> f, block |-> NoBlock, entry |-> e]
    BY <2>1, Zenon DEF e
  <2> QED
    BY <2>2, <2>3 DEF Place
<1> QED
  BY <1>1, <1>2, <1>5, Zenon DEF Init, Types, Stage, Starting, Place, CsMainFree

\* Every step keeps Stage.
LEMMA StageStep ==
    ASSUME Types, Stage, Next
    PROVE  Stage'
<1>0. queue \in Seq(Callback)
  BY Zenon DEF Types
<1>1. ASSUME NEW b \in Block, Activate(b)
      PROVE  Stage'
  <2>1. ASSUME NEW c, queue # <<>>
        PROVE  Append(queue, c) # <<>> /\ Head(Append(queue, c)) = Head(queue)
    BY <1>0, <2>1
  <2>2. /\ queue # <<>> => queue' # <<>> /\ Head(queue') = Head(queue)
        /\ signalled = NoBlock => signalled' = NoBlock /\ queue' = queue
        /\ signalled # NoBlock => signalled' # NoBlock
        /\ Up /\ UNCHANGED <<pc, pindex, best, synced, indexing, asking>>
    BY <1>1, <2>1, ActivateIs, Tree, Zenon
  <2>3. ~Starting'
    BY <2>2, Zenon DEF Starting, Up
  <2> QED
    BY <2>2, <2>3, Zenon DEF Stage, Starting
<1>24. CASE Announce
  <2> DEFINE e == Event("BlockConnected", signalled')
  <2>1. /\ signalled' # NoBlock /\ queue' = Append(queue, e)
        /\ signalled = NoBlock => e = Event("BlockConnected", Genesis)
        /\ ~Starting /\ UNCHANGED <<pc, pindex, best, synced, indexing, asking>>
    BY <1>24, AnnounceIs, Tree, Zenon
  <2> HIDE DEF e
  <2>2. queue' # <<>> /\ (queue # <<>> => Head(queue') = Head(queue)) /\ (queue = <<>> => Head(queue') = e)
    BY <1>0, <2>1
  <2>3. signalled = NoBlock => Head(queue') = Event("BlockConnected", Genesis)
    BY <2>1, <2>2, Zenon DEF Stage
  <2> QED
    BY <2>1, <2>2, <2>3, Zenon DEF Stage, Starting
<1>2. CASE Invalidate
  <2>1. tip \in Block \ {Genesis}
    BY <1>2, Zenon DEF Types, Place, Invalidate
  <2>2. signalled' = tip' /\ signalled' # NoBlock /\ signalled # NoBlock
    BY <1>2, <2>1, Tree, Zenon DEF Invalidate, CsMainFree
  <2> QED
    BY <1>2, <2>2, Zenon DEF Stage, Starting, Invalidate, memory, CsMainFree
<1>3. ASSUME NEW e, queue' = Append(queue, e), signalled # NoBlock, ~Starting,
             asking' => asking, UNCHANGED <<signalled, pc, pindex, best, synced, indexing>>
      PROVE  Stage'
  <2>1. queue # <<>> => queue' # <<>> /\ Head(queue') = Head(queue)
    BY <1>0, <1>3
  <2>2. ~Starting'
    BY <1>3, Zenon DEF Starting
  <2> QED
    BY <1>3, <2>1, <2>2, Zenon DEF Stage, Starting
<1>4. CASE Flush
  BY <1>3, <1>4, Zenon DEF Flush, memory, CsMainFree, Up, Starting
<1>5. CASE Migrate
  <2>1. Starting /\ Starting' /\ pc' \notin {"sync", "locator", "write"}
    BY <1>5, Zenon DEF Migrate, WriteLegacyBlock, WriteFlag, EraseBatch, MigrateBatch, Starting
  <2>2. UNCHANGED <<tip, signalled, queue, pindex, best, synced, indexing, asking>>
    BY <1>5, Zenon DEF Migrate, WriteLegacyBlock, WriteFlag, EraseBatch, MigrateBatch, chain
  <2> QED
    BY <2>1, <2>2, Zenon DEF Stage, Starting, CsMainFree
<1>6. CASE StartIndex
  <2>1. tip = NoBlock => best' = NoBlock
    BY <1>6, StartIs, Tree, Zenon
  <2>2. signalled = tip /\ ~asking /\ queue = <<>> /\ indexing = NoBlock
    BY <1>6, StartIs, Zenon DEF Stage, Starting, CsMainFree
  <2>3. /\ pc' \in {"sync", "exited"} /\ (pc' = "sync" => ~synced') /\ synced' = (best' = tip)
        /\ pindex' = best' /\ UNCHANGED <<tip, signalled, queue, indexing, asking>>
    BY <1>6, StartIs, Zenon
  <2> QED
    BY <2>1, <2>2, <2>3, Zenon DEF Stage, Starting
<1>7. CASE SyncInterrupted
  BY <1>7, Zenon DEF Stage, Starting, SyncInterrupted, chain
<1>8. CASE SyncFinished
  <2>1. signalled # NoBlock => pindex # NoBlock
    BY <1>8, NoNextIs, Tree, Zenon DEF SyncFinished, WriteBestBlock, CsMainFree
  <2> QED
    BY <1>8, <2>1, Zenon DEF Stage, Starting, SyncFinished, chain
<1>9. CASE SyncNext
  <2>1. pindex' # NoBlock /\ signalled # NoBlock
    BY <1>9, NextIs, Tree, Zenon DEF SyncNext, NextSyncBlock, ActiveChain, CsMainFree
  <2> QED
    BY <1>9, <2>1, Zenon DEF Stage, Starting, SyncNext, chain
<1>10. CASE SyncLocator
  BY <1>10, Zenon DEF Stage, Starting, SyncLocator, chain
<1>11. CASE SyncWrite
  BY <1>11, Zenon DEF Stage, Starting, SyncWrite, chain
<1>12. CASE SyncFails
  BY <1>12, Zenon DEF Stage, Starting, SyncFails, chain
<1>13. CASE BlockConnected
  <2>1. Head(queue).block # NoBlock /\ queue # <<>>
    BY <1>13, HeadIs, Tree, Zenon DEF BlockConnected, Delivers
  <2> QED
    BY <1>13, <2>1, Zenon DEF Stage, Starting, BlockConnected, chain
<1>14. CASE SetBestBlock
  BY <1>14, Zenon DEF Stage, Starting, SetBestBlock, chain
<1>15. ASSUME queue # <<>>, queue' = Tail(queue), indexing = NoBlock,
              ~(synced /\ Head(queue) = Event("BlockConnected", Genesis)),
              UNCHANGED <<signalled, pc, pindex, best, synced, indexing, asking>>
       PROVE  Stage'
  BY <1>15, Zenon DEF Stage, Starting
<1>16. Event("BlockConnected", Genesis).type = "BlockConnected"
       /\ Event("BlockConnected", Genesis).block = Genesis
  BY DEF Event
<1>17. CASE BlockIgnored
  BY <1>15, <1>16, <1>17, Zenon DEF BlockIgnored, Delivers, Connects, chain, memory
<1>18. CASE ChainStateFlushed
  BY <1>15, <1>16, <1>18 DEF ChainStateFlushed, Delivers, chain, memory
<1>19. CASE AnswerQuery
  BY <1>15, <1>16, <1>19 DEF AnswerQuery, Delivers, chain, memory
<1>20. CASE BlockFails
  BY <1>15, <1>16, <1>20, Zenon DEF BlockFails, Delivers, chain, memory
<1>21. CASE BlockUntilSynced
  BY <1>21, Zenon DEF BlockUntilSynced, Stage, Starting, chain, memory, CsMainFree, Up
<1>25. CASE SyncWithQueue
  BY <1>3, <1>25, Zenon DEF SyncWithQueue, chain, memory, Stage
<1>22. CASE Interrupt
  BY <1>22, Zenon DEF Stage, Starting, Interrupt, chain, memory, CsMainFree
<1>23. CASE Restart \/ Crash
  BY <1>23, Zenon DEF Stage, Starting, Restart, Crash, Reborn, CsMainFree
<1> QED
  BY <1>1, <1>2, <1>4, <1>5, <1>6, <1>7, <1>8, <1>9, <1>10, <1>11, <1>12, <1>13, <1>14,
     <1>17, <1>18, <1>19, <1>20, <1>21, <1>22, <1>23, <1>24, <1>25, Zenon DEF Next, ThreadSync, Deliver

-----------------------------------------------------------------------------
(* The migration.                                                          *)

\* What the steps of the migration write.
LEMMA MigrateIs ==
    ASSUME Types, Migrate
    PROVE  /\ UNCHANGED <<tip, signalled, pos, disk, skipped, queue, pindex, best, synced, indexing,
                          interrupt, restarted>>
           /\ \/ WriteLegacyBlock /\ UNCHANGED <<entry, locator>>
                 /\ legacy'.flag /\ legacy'.block = tip /\ legacy'.entry = legacy.entry
              \/ WriteFlag /\ UNCHANGED <<entry, locator>>
                 /\ ~legacy'.flag /\ legacy'.block = legacy.block /\ legacy'.entry = legacy.entry
              \/ /\ pc = "init" /\ pc' = "erase" /\ ~legacy.flag /\ legacy.block # NoBlock
                 /\ \A t \in Tx : \/ t \in batch'.txs /\ legacy.entry[t] # NoEntry
                                     /\ entry'[t] = legacy.entry[t]
                                  \/ t \notin batch'.txs /\ entry'[t] = entry[t]
                 /\ legacy' = legacy
                 /\ \/ locator' = locator
                    \/ /\ locator' = legacy.block
                       /\ \A t \in Tx \ batch'.txs : legacy.entry[t] = NoEntry
              \/ /\ EraseBatch /\ UNCHANGED <<entry, locator>>
                 /\ legacy'.flag = legacy.flag /\ legacy'.block \in {NoBlock, legacy.block}
                 /\ \A t \in Tx : legacy'.entry[t] = IF t \in batch.txs THEN NoEntry ELSE legacy.entry[t]
<1>1. UNCHANGED <<tip, signalled, pos, disk, skipped, queue, pindex, best, synced, indexing,
                          interrupt, restarted>>
  BY Zenon DEF Migrate, WriteLegacyBlock, WriteFlag, EraseBatch, MigrateBatch, chain
<1>2. CASE WriteLegacyBlock
  <2>1. legacy'.flag /\ legacy'.block = tip /\ legacy'.entry = legacy.entry
    BY <1>2 DEF Types, WriteLegacyBlock
  <2> QED
    BY <1>1, <1>2, <2>1, Zenon DEF WriteLegacyBlock
<1>3. CASE WriteFlag
  <2>1. ~legacy'.flag /\ legacy'.block = legacy.block /\ legacy'.entry = legacy.entry
    BY <1>3 DEF Types, WriteFlag
  <2> QED
    BY <1>1, <1>3, <2>1, Zenon DEF WriteFlag
<1>4. CASE EraseBatch
  <2>1. /\ legacy'.flag = legacy.flag /\ legacy'.block \in {NoBlock, legacy.block}
        /\ \A t \in Tx : legacy'.entry[t] = IF t \in batch.txs THEN NoEntry ELSE legacy.entry[t]
    BY <1>4 DEF Types, EraseBatch
  <2> QED
    BY <1>1, <1>4, <2>1, Zenon DEF EraseBatch
<1>5. ASSUME NEW S \in SUBSET Tx, NEW last \in BOOLEAN, MigrateBatch(S, last)
      PROVE  /\ pc = "init" /\ pc' = "erase" /\ ~legacy.flag /\ legacy.block # NoBlock
             /\ \A t \in Tx : \/ t \in batch'.txs /\ legacy.entry[t] # NoEntry
                                 /\ entry'[t] = legacy.entry[t]
                              \/ t \notin batch'.txs /\ entry'[t] = entry[t]
             /\ legacy' = legacy
             /\ \/ locator' = locator
                \/ /\ locator' = legacy.block
                   /\ \A t \in Tx \ batch'.txs : legacy.entry[t] = NoEntry
  <2>1. batch'.txs = S
    BY <1>5 DEF MigrateBatch
  <2> QED
    BY <1>5, <2>1, Zenon DEF MigrateBatch, Remaining
<1> QED
  BY <1>1, <1>2, <1>3, <1>4, <1>5, Zenon DEF Migrate

\* Every step keeps Moved.
LEMMA MovedStep ==
    ASSUME Types, Stage, Moved, Next
    PROVE  Moved'
<1>1. ASSUME ~Starting \/ (~legacy.flag /\ legacy.block = NoBlock), legacy' = legacy,
             pc' \notin {"flag", "erase"}
      PROVE  Moved'
  BY <1>1, Zenon DEF Moved, Starting
<1>2. CASE Migrate
  <2>1. ASSUME WriteLegacyBlock, entry' = entry,
               legacy'.flag /\ legacy'.block = tip /\ legacy'.entry = legacy.entry
        PROVE  Moved'
    BY <1>2, <2>1, MigrateIs, Zenon DEF Moved, WriteLegacyBlock
  <2>2. ASSUME WriteFlag, entry' = entry,
               ~legacy'.flag /\ legacy'.block = legacy.block /\ legacy'.entry = legacy.entry
        PROVE  Moved'
    BY <1>2, <2>2, MigrateIs, Zenon DEF Moved, WriteFlag
  <2>3. ASSUME pc = "init", pc' = "erase", ~legacy.flag, legacy.block # NoBlock,
               \A t \in Tx : \/ t \in batch'.txs /\ legacy.entry[t] # NoEntry
                                /\ entry'[t] = legacy.entry[t]
                             \/ t \notin batch'.txs /\ entry'[t] = entry[t],
               legacy' = legacy
        PROVE  Moved'
    <3>1. batch'.txs \subseteq Tx
      BY TypesStep DEF Types
    <3>2. legacy.block \in Block
      BY <2>3 DEF Types, Place
    <3>3. \A c \in Branch[legacy.block] : \A t \in Txs[c] :
              legacy.entry[t] # NoEntry \/ entry'[t] # NoEntry
      BY <2>3, <3>2, BranchInTree, Tree, Zenon DEF Moved
    <3>4. \A t \in batch'.txs : entry'[t] # NoEntry
      BY <2>3, <3>1, Zenon
    <3> QED
      BY <2>3, <3>3, <3>4, Zenon DEF Moved
  <2>4. ASSUME EraseBatch, entry' = entry,
               legacy'.flag = legacy.flag, legacy'.block \in {NoBlock, legacy.block},
               \A t \in Tx : legacy'.entry[t] = IF t \in batch.txs THEN NoEntry ELSE legacy.entry[t]
        PROVE  Moved'
    <3>1. pc = "erase" /\ pc' = "init"
      BY <2>4, Zenon DEF EraseBatch
    <3>2. ~legacy'.flag /\ legacy.block # NoBlock /\ legacy.block \in Block
      BY <2>4, <3>1 DEF Moved, Types, Place
    <3>3. \A c \in Branch[legacy.block] : \A t \in Txs[c] :
              legacy'.entry[t] # NoEntry \/ entry'[t] # NoEntry
      <4>1. ASSUME NEW c \in Branch[legacy.block], NEW t \in Txs[c]
            PROVE  t \in Tx
        BY <3>2, BranchInTree, Tree, Zenon
      <4>2. \A t \in batch.txs : entry[t] # NoEntry
        BY <3>1, Zenon DEF Moved
      <4>3. \A c \in Branch[legacy.block] : \A t \in Txs[c] :
                legacy.entry[t] # NoEntry \/ entry[t] # NoEntry
        BY <2>4, <3>2, Zenon DEF Moved
      <4> QED
        BY <2>4, <4>1, <4>2, <4>3, Zenon
    <3> QED
      BY <2>4, <3>1, <3>2, <3>3, Zenon DEF Moved
  <2> QED
    BY <1>2, <2>1, <2>2, <2>3, <2>4, MigrateIs, Zenon
<1>3. CASE StartIndex
  BY <1>1, <1>3, StartIs, Zenon
<1>4. CASE (\E b \in Block : Activate(b)) \/ Announce \/ Invalidate \/ Flush \/ BlockUntilSynced
           \/ SyncWithQueue \/ Interrupt
  <2>1. pc' = pc /\ legacy' = legacy
    BY <1>4, Zenon DEF Activate, Announce, Invalidate, Flush, BlockUntilSynced, SyncWithQueue,
       Interrupt, memory, database
  <2>2. ~Starting
    BY <1>4, Zenon DEF Activate, Announce, Invalidate, Flush, BlockUntilSynced, SyncWithQueue,
       Interrupt, Up, Starting, Stage
  <2> QED
    BY <1>1, <2>1, <2>2, Zenon DEF Starting
<1>5. CASE ThreadSync \/ SyncFails
  <2>1. pc \notin {"init", "flag", "erase"} /\ pc' \notin {"init", "flag", "erase"} /\ legacy' = legacy
    BY <1>5, Zenon DEF ThreadSync, SyncFails, SyncInterrupted, SyncFinished, SyncNext, SyncLocator,
       SyncWrite, database
  <2> QED
    BY <1>1, <2>1, Zenon DEF Starting
<1>6. CASE Deliver \/ BlockFails
  <2>1. (queue # <<>> \/ indexing # NoBlock) /\ pc' = pc /\ legacy' = legacy
    BY <1>6, Zenon DEF Deliver, BlockFails, BlockConnected, SetBestBlock, BlockIgnored,
       ChainStateFlushed, AnswerQuery, Delivers, memory, database
  <2> QED
    BY <1>1, <2>1, Zenon DEF Starting, Stage
<1>7. CASE Restart
  BY <1>1, <1>7, Zenon DEF Restart, Reborn, Starting
<1>8. CASE Crash
  BY <1>8, Zenon DEF Crash, Reborn, Moved
<1> QED
  BY <1>2, <1>3, <1>4, <1>5, <1>6, <1>7, <1>8, Zenon DEF Next

-----------------------------------------------------------------------------
(* No holes.                                                               *)

\* An entry is never removed, and a block is no longer skipped when its entries are
\* written.
LEMMA EntriesKept ==
    ASSUME Types, Stage, Next
    PROVE  /\ \A t \in Tx : entry[t] # NoEntry => entry'[t] # NoEntry
           /\ \A c \in Block : c \in skipped /\ c \notin skipped' => \A t \in Txs[c] : entry'[t] # NoEntry
<1> DEFINE Kept == /\ \A t \in Tx : entry[t] # NoEntry => entry'[t] # NoEntry
                   /\ \A c \in Block : c \in skipped /\ c \notin skipped' =>
                                       \A t \in Txs[c] : entry'[t] # NoEntry
<1>1. ASSUME NEW b \in Block, entry' = WriteBlock(b), skipped' = skipped \ {b}
      PROVE  Kept
  <2>1. <<b, pos[b]>> # NoEntry
    BY TxIndexAssumption DEF Types
  <2>2. \A t \in Txs[b] : entry'[t] # NoEntry
    BY <1>1, <2>1, WriteBlockIs, Zenon
  <2>3. \A t \in Tx : entry[t] # NoEntry => entry'[t] # NoEntry
    BY <1>1, <2>2, WriteBlockIs, Zenon
  <2>4. \A c \in Block : c \in skipped /\ c \notin skipped' => c = b
    BY <1>1, Zenon
  <2> QED
    BY <2>2, <2>3, <2>4, Zenon
<1>2. CASE Migrate
  <2>1. (\A t \in Tx : (legacy.entry[t] # NoEntry /\ entry'[t] = legacy.entry[t]) \/ entry'[t] = entry[t])
        \/ entry' = entry
    BY <1>2, MigrateIs, Zenon
  <2>2. skipped' = skipped
    BY <1>2, MigrateIs, Zenon
  <2> QED
    BY <2>1, <2>2, Zenon
<1>3. CASE SyncWrite
  BY <1>1, <1>3, Zenon DEF SyncWrite, Stage, Types, Place
<1>4. CASE BlockConnected
  BY <1>1, <1>4, HeadIs, Zenon DEF BlockConnected, Delivers
<1>5. CASE entry' = entry /\ skipped \subseteq skipped'
  BY <1>5, Zenon
<1>6. (entry' = entry /\ skipped \subseteq skipped') \/ Migrate \/ SyncWrite \/ BlockConnected
  <2>1. CASE SyncInterrupted \/ SyncFails \/ Crash
    BY <2>1, Zenon DEF SyncInterrupted, SyncFails, Crash, Reborn
  <2>2. CASE Restart
    BY <2>2, Zenon DEF Restart, Reborn
  <2> QED
    BY <2>1, <2>2, Zenon DEF Next, Activate, Announce, Invalidate, Flush, StartIndex, ThreadSync,
     SyncFinished, SyncNext, SyncLocator, Deliver, SetBestBlock, BlockIgnored,
     ChainStateFlushed, AnswerQuery, BlockFails, BlockUntilSynced, SyncWithQueue, Interrupt, database
<1> QED
  BY <1>2, <1>3, <1>4, <1>5, <1>6, Zenon

\* Blocks stay where they are stored, unless a crash has lost them.
LEMMA PosKept ==
    ASSUME Types, Next, ~Crash
    PROVE  pos' = pos
<1>1. CASE Migrate
  BY <1>1, MigrateIs, Zenon
<1>2. CASE StartIndex
  BY <1>2, StartIs, Zenon
<1> QED
  BY <1>1, <1>2, Zenon DEF Next, Activate, Announce, Invalidate, Flush, ThreadSync, SyncInterrupted,
     SyncFinished, SyncNext, SyncLocator, SyncWrite, SyncFails, Deliver, BlockConnected,
     SetBestBlock, BlockIgnored, ChainStateFlushed, AnswerQuery, BlockFails, BlockUntilSynced,
     SyncWithQueue, Interrupt, Restart, chain

\* Every step keeps Truthful.
LEMMA TruthfulStep ==
    ASSUME Types, Stage, Moved, Truthful, Next
    PROVE  Truthful'
<1>1. ASSUME NEW t \in Tx, NEW e, Placed(t, e), skipped \subseteq skipped',
             \A c \in Block : pos'[c] = pos[c] \/ c \in skipped'
      PROVE  \A f \in {e} : Placed(t, f)'
  <2>1. CASE e = NoEntry
    BY <2>1, Zenon DEF Placed
  <2>2. ASSUME NEW c \in Block, NEW n \in Nat, t \in Txs[c], e = <<c, n>>, n = pos[c] \/ c \in skipped
        PROVE  \A f \in {e} : Placed(t, f)'
    <3>1. n = pos'[c] \/ c \in skipped'
      BY <1>1, <2>2, Zenon
    <3> QED
      BY <2>2, <3>1, Zenon DEF Placed
  <2> QED
    BY <1>1, <2>1, <2>2, Zenon DEF Placed
<1>2. ASSUME skipped \subseteq skipped', \A c \in Block : pos'[c] = pos[c] \/ c \in skipped',
             UNCHANGED <<entry, legacy>>
      PROVE  Truthful'
  <2>1. ASSUME NEW t \in Tx
        PROVE  /\ Placed(t, entry[t])'
               /\ (legacy.flag \/ legacy.block # NoBlock)' => Placed(t, legacy.entry[t])'
    <3>1. ASSUME NEW e, Placed(t, e)
          PROVE  \A f \in {e} : Placed(t, f)'
      BY <1>1, <1>2, <3>1, Zenon
    <3>2. Placed(t, entry[t])'
      <4>1. \A f \in {entry[t]} : Placed(t, f)'
        BY <3>1, Zenon DEF Truthful
      <4> QED
        BY <1>2, <4>1, Zenon DEF Placed
    <3>3. ASSUME legacy'.flag \/ legacy'.block # NoBlock
          PROVE  Placed(t, legacy.entry[t])'
      <4>1. \A f \in {legacy.entry[t]} : Placed(t, f)'
        BY <1>2, <3>1, <3>3, Zenon DEF Truthful
      <4> QED
        BY <1>2, <4>1, Zenon DEF Placed
    <3> QED
      BY <3>2, <3>3, Zenon
  <2> QED
    BY <2>1, Zenon DEF Truthful
<1>3. ASSUME NEW b \in Block, entry' = WriteBlock(b), skipped' = skipped \ {b}, ~Starting,
             pos' = pos, legacy' = legacy
      PROVE  Truthful'
  <2>1. ~legacy.flag /\ legacy.block = NoBlock
    BY <1>3, Zenon DEF Moved, Starting
  <2>2. ASSUME NEW t \in Tx
        PROVE  Placed(t, entry[t])'
    <3>1. CASE t \in Txs[b]
      <4>1. entry'[t] = <<b, pos'[b]>> /\ pos'[b] \in Nat
        BY <1>3, <3>1, WriteBlockIs DEF Types
      <4> QED
        BY <3>1, <4>1, Zenon DEF Placed
    <3>2. CASE t \notin Txs[b]
      <4>1. entry'[t] = entry[t]
        BY <1>3, <3>2, WriteBlockIs, Zenon
      <4>2. ASSUME NEW c \in Block, NEW n \in Nat, t \in Txs[c], entry[t] = <<c, n>>,
                   n = pos[c] \/ c \in skipped
            PROVE  Placed(t, entry[t])'
        BY <1>3, <3>2, <4>1, <4>2, Zenon DEF Placed
      <4> QED
        BY <4>1, <4>2, Zenon DEF Placed, Truthful
    <3> QED
      BY <3>1, <3>2, Zenon
  <2> QED
    BY <1>3, <2>1, <2>2, Zenon DEF Truthful
<1>4. CASE Migrate
  <2>1. pos' = pos /\ skipped' = skipped
    BY <1>4, MigrateIs, Zenon
  <2>2. (legacy.flag \/ legacy.block # NoBlock)
    BY <1>4, MigrateIs, Zenon DEF Moved, WriteLegacyBlock, WriteFlag, EraseBatch
  <2>3. ASSUME NEW t \in Tx
        PROVE  /\ legacy'.entry[t] \in {NoEntry, legacy.entry[t]}
               /\ entry'[t] \in {entry[t], legacy.entry[t]}
    <3>1. legacy'.entry[t] \in {NoEntry, legacy.entry[t]}
      BY <1>4, MigrateIs, Zenon
    <3>2. entry'[t] \in {entry[t], legacy.entry[t]}
      BY <1>4, MigrateIs, Zenon
    <3> QED
      BY <3>1, <3>2, Zenon
  <2>4. \A t \in Tx : Placed(t, entry[t]) /\ Placed(t, legacy.entry[t]) /\ Placed(t, NoEntry)
    BY <2>2, Zenon DEF Truthful, Placed
  <2>5. \A t \in Tx : Placed(t, entry'[t]) /\ Placed(t, legacy'.entry[t])
    BY <2>3, <2>4, Zenon
  <2>6. ASSUME NEW t \in Tx
        PROVE  Placed(t, entry[t])' /\ Placed(t, legacy.entry[t])'
    <3>1. Placed(t, entry'[t]) /\ Placed(t, legacy'.entry[t])
      BY <2>5, Zenon
    <3>2. Placed(t, entry[t])'
      BY <2>1, <3>1, Zenon DEF Placed
    <3>3. Placed(t, legacy.entry[t])'
      BY <2>1, <3>1, Zenon DEF Placed
    <3> QED
      BY <3>2, <3>3, Zenon
  <2> QED
    BY <2>6, Zenon DEF Truthful
<1>5. CASE SyncWrite
  <2>1. pindex \in Block /\ ~Starting
    BY <1>5, Zenon DEF SyncWrite, Stage, Types, Place, Starting
  <2> QED
    BY <1>3, <1>5, <2>1, Zenon DEF SyncWrite, chain
<1>6. CASE BlockConnected
  <2>1. Head(queue).block \in Block /\ ~Starting
    BY <1>6, HeadIs, Zenon DEF BlockConnected, Delivers, Stage
  <2> QED
    BY <1>3, <1>6, <2>1, Zenon DEF BlockConnected, chain
<1>7. CASE Crash
  <2>1. PICK moved \in SUBSET (known \ disk.known) :
          /\ pos' = [b \in Block |-> IF b \in moved THEN pos[b] + 1 ELSE pos[b]]
          /\ skipped' = skipped \cup moved \cup CutShort
    BY <1>7, Zenon DEF Crash
  <2>2. \A c \in Block : pos'[c] = pos[c] \/ c \in skipped'
    BY <2>1, Zenon
  <2> QED
    BY <1>2, <1>7, <2>1, <2>2, Zenon DEF Crash, Reborn
<1>8. CASE SyncInterrupted \/ SyncFails
  BY <1>2, <1>8, Zenon DEF SyncInterrupted, SyncFails, chain
<1>9. CASE UNCHANGED <<entry, legacy, pos, skipped>>
  BY <1>2, <1>9, Zenon
<1>10. \/ UNCHANGED <<entry, legacy, pos, skipped>>
       \/ Migrate \/ SyncWrite \/ BlockConnected \/ Crash \/ SyncInterrupted \/ SyncFails
  <2>1. UNCHANGED <<entry, legacy, skipped>>
        \/ Migrate \/ SyncWrite \/ BlockConnected \/ Crash \/ SyncInterrupted \/ SyncFails
    BY Zenon DEF Next, Activate, Announce, Invalidate, Flush, StartIndex, ThreadSync,
       SyncFinished, SyncNext, SyncLocator, Deliver, SetBestBlock, BlockIgnored, ChainStateFlushed,
       AnswerQuery, BlockFails, BlockUntilSynced, SyncWithQueue, Interrupt, Restart, Reborn, database
  <2> QED
    BY <2>1, PosKept, Zenon
<1> QED
  BY <1>4, <1>5, <1>6, <1>7, <1>8, <1>9, <1>10, Zenon

\* What is filled stays filled, a block of a filled branch is filled, and a block is
\* when its entries are written and its parent is.
LEMMA FilledIs ==
    ASSUME Types, Stage, Next
    PROVE  /\ \A b \in Place : Filled(b) => Filled(b)'
           /\ \A b \in Block : Filled(b) => \A c \in Branch[b] : Filled(c)
           /\ \A b \in Block : b \in skipped' /\ (b = Genesis \/ Filled(Parent[b])) => Filled(b)'
           /\ \A b \in Block : entry' = WriteBlock(b) /\ (b = Genesis \/ Filled(Parent[b])) => Filled(b)'
<1>1. \A b \in Block : \A c \in Branch[b] : c \in Block /\ Txs[c] \subseteq Tx
  BY BranchInTree, Tree, Zenon
<1>2. ASSUME NEW b \in Place, Filled(b)
      PROVE  Filled(b)'
  <2>1. ASSUME b # NoBlock, NEW c \in Branch[b], c \notin skipped', NEW t \in Txs[c]
        PROVE  entry'[t] # NoEntry
    <3>1. c \in Block /\ t \in Tx
      BY <1>1, <2>1, Zenon DEF Place
    <3> QED
      BY <1>2, <2>1, <3>1, EntriesKept, Zenon DEF Filled
  <2> QED
    BY <2>1, Zenon DEF Filled
<1>3. ASSUME NEW b \in Block, Filled(b), NEW c \in Branch[b]
      PROVE  Filled(c)
  BY <1>3, BranchTransitive, Tree, Zenon DEF Filled
<1>4. ASSUME NEW b \in Block, b \in skipped' \/ \A t \in Txs[b] : entry'[t] # NoEntry,
             b = Genesis \/ Filled(Parent[b])
      PROVE  Filled(b)'
  <2>1. CASE b = Genesis
    BY <1>4, <2>1, Tree, Zenon DEF Filled
  <2>2. CASE b # Genesis
    <3>1. Parent[b] \in Place /\ Parent[b] # NoBlock /\ Branch[b] = {b} \cup Branch[Parent[b]]
      BY <2>2, Tree DEF Place
    <3>2. Filled(Parent[b])'
      BY <1>2, <1>4, <2>2, <3>1, Zenon
    <3> QED
      BY <1>4, <3>1, <3>2, Zenon DEF Filled
  <2> QED
    BY <2>1, <2>2, Zenon
<1>5. ASSUME NEW b \in Block, entry' = WriteBlock(b)
      PROVE  \A t \in Txs[b] : entry'[t] # NoEntry
  <2>1. <<b, pos[b]>> # NoEntry
    BY TxIndexAssumption DEF Types
  <2> QED
    BY <1>5, <2>1, WriteBlockIs, Zenon
<1>6. \A b \in Place : Filled(b) => Filled(b)'
  BY <1>2, Zenon
<1>7. \A b \in Block : Filled(b) => \A c \in Branch[b] : Filled(c)
  BY <1>3, Zenon
<1>8. \A b \in Block : b \in skipped' /\ (b = Genesis \/ Filled(Parent[b])) => Filled(b)'
  BY <1>4, Zenon
<1>9. \A b \in Block : entry' = WriteBlock(b) /\ (b = Genesis \/ Filled(Parent[b])) => Filled(b)'
  BY <1>4, <1>5, Zenon
<1> QED
  BY <1>6, <1>7, <1>8, <1>9, Zenon

\* Every step keeps Covered.
LEMMA CoveredStep ==
    ASSUME Types, Stage, Moved, Covered, Next
    PROVE  Covered'
<1>1. \A b \in Place : Filled(b) => Filled(b)'
  BY FilledIs, Zenon
<1>2. \A b \in Block : Filled(b) => \A c \in Branch[b] : Filled(c)
  BY FilledIs, Zenon
<1>3. \A b \in Block : entry' = WriteBlock(b) /\ (b = Genesis \/ Filled(Parent[b])) => Filled(b)'
  BY FilledIs, Zenon
<1>20. \A b \in Block : b \in skipped' /\ (b = Genesis \/ Filled(Parent[b])) => Filled(b)'
  BY FilledIs, Zenon
<1>4. /\ locator \in Place /\ pindex \in Place /\ best \in Place /\ indexing \in Place
      /\ pindex # NoBlock /\ pindex # Genesis => Parent[pindex] \in Place
      /\ \A c \in Place : \A b \in Branch[c] : c # NoBlock => b \in Place
  BY BranchInTree, Tree, Zenon DEF Types, Place
<1>5. ~Filled(NoBlock) => FALSE
  BY Zenon DEF Filled
<1>6. ASSUME UNCHANGED <<locator, pc, pindex, best, synced, indexing>>
      PROVE  Covered'
  BY <1>1, <1>4, <1>6, Zenon DEF Covered, Stage
<1>7. CASE Migrate
  <2>1. Starting /\ Starting' /\ ~synced /\ ~synced'
    <3>1. pc \in {"init", "flag", "erase"} /\ pc' \in {"init", "flag", "erase"} /\ synced' = synced
      BY <1>7, Zenon DEF Migrate, MigrateBatch, WriteLegacyBlock, WriteFlag, EraseBatch
    <3> QED
      BY <3>1, Zenon DEF Starting, Stage
  <2>2. CASE locator' = locator
    BY <1>1, <1>4, <2>1, <2>2, Zenon DEF Covered, Starting
  <2>3. CASE locator' # locator
    <3>1. /\ ~legacy.flag /\ legacy.block # NoBlock /\ locator' = legacy.block
          /\ \A t \in Tx : legacy.entry[t] # NoEntry => entry'[t] # NoEntry
      BY <1>7, <2>3, MigrateIs, Zenon
    <3>2. legacy.block \in Block
      BY <3>1 DEF Types, Place
    <3>3. \A c \in Branch[legacy.block] : \A t \in Txs[c] : t \in Tx
      BY <3>2, BranchInTree, Tree, Zenon
    <3>4. \A c \in Branch[legacy.block] : \A t \in Txs[c] : legacy.entry[t] # NoEntry \/ entry[t] # NoEntry
      BY <3>1, Zenon DEF Moved
    <3>5. \A b \in {legacy.block} : Filled(b)'
      BY <3>1, <3>3, <3>4, EntriesKept, Zenon DEF Filled
    <3> QED
      BY <2>1, <3>1, <3>5, Zenon DEF Covered, Starting, Filled
  <2> QED
    BY <2>2, <2>3, Zenon
<1>8. CASE StartIndex
  <2>1. Filled(locator) /\ Filled(best')
    BY <1>2, <1>5, <1>8, StartIs, Zenon DEF Covered
  <2>2. best' \in Place /\ indexing' = NoBlock /\ locator' = locator /\ pindex' = best' /\ pc' \in {"sync", "exited"}
    BY <1>8, StartIs, Zenon DEF Stage, Starting
  <2>3. Filled(locator)' /\ \A b \in {best'} : Filled(b)'
    BY <1>1, <1>4, <2>1, <2>2, Zenon
  <2> QED
    BY <2>2, <2>3, Zenon DEF Covered, Filled
<1>9. CASE SyncInterrupted
  <2>1. Filled(pindex) /\ ~synced /\ pc' = "exited" /\ synced' = synced
    BY <1>9, Zenon DEF SyncInterrupted, Covered, Stage
  <2>2. CASE pindex # NoBlock
    <3>1. locator' = pindex
      BY <1>9, <2>2, Zenon DEF SyncInterrupted, WriteBestBlock
    <3>2. Filled(locator)'
      BY <1>1, <1>4, <2>1, <3>1, Zenon DEF Filled
    <3> QED
      BY <2>1, <3>2, Zenon DEF Covered
  <2>3. CASE pindex = NoBlock
    <3>1. locator' = tip /\ ActiveChain \subseteq skipped'
      BY <1>9, <2>3, Zenon DEF SyncInterrupted, WriteBestBlock
    <3>2. Filled(locator)'
      BY <3>1, Zenon DEF Filled, ActiveChain
    <3> QED
      BY <2>1, <3>2, Zenon DEF Covered
  <2> QED
    BY <2>2, <2>3, Zenon
<1>10. CASE SyncFinished
  <2>1. locator' = pindex /\ Filled(pindex) /\ indexing = NoBlock
    BY <1>10, NoNextIs, Tree, Zenon DEF SyncFinished, WriteBestBlock, Covered, Stage
  <2> QED
    BY <1>1, <1>4, <1>10, <2>1, Zenon DEF Covered, SyncFinished, Filled
<1>11. CASE SyncNext
  <2>1. PICK b \in NextSyncBlock(pindex) : pindex' = b
    BY <1>11, Zenon DEF SyncNext
  <2>2. b # Genesis => Filled(Parent[b]) /\ Parent[b] \in Place
    BY <1>2, <1>4, <1>11, <2>1, NextIs, Tree, Zenon DEF SyncNext, Covered
  <2>3. Filled(locator) /\ ~synced /\ locator' = locator /\ synced' = synced /\ pc' = "locator"
    BY <1>11, Zenon DEF SyncNext, Covered, Stage, database
  <2> QED
    BY <1>1, <1>4, <2>1, <2>2, <2>3, Zenon DEF Covered, Filled
<1>12. CASE SyncLocator
  <2>1. locator' = pindex \/ (locator' = locator /\ Filled(locator))
    BY <1>12, Zenon DEF SyncLocator, WriteBestBlock, Covered, Stage
  <2> QED
    BY <1>1, <1>4, <1>12, <2>1, Zenon DEF Covered, SyncLocator, Stage, Filled
<1>13. CASE SyncWrite
  <2>1. pindex \in Block /\ (pindex = Genesis \/ Filled(Parent[pindex])) /\ ~synced
    BY <1>13, Zenon DEF SyncWrite, Covered, Stage, Types, Place
  <2>2. Filled(pindex)'
    <3>1. \A b \in {pindex} : Filled(b)'
      BY <1>3, <1>13, <2>1, Zenon DEF SyncWrite
    <3> QED
      BY <1>13, <3>1, Zenon DEF SyncWrite, Filled
  <2> QED
    BY <1>1, <1>4, <1>13, <2>1, <2>2, Zenon DEF Covered, SyncWrite, Filled
<1>21. ASSUME CutShort \subseteq skipped', locator' = locator
       PROVE  Filled(locator)'
  <2>1. CASE Filled(locator)
    BY <1>1, <1>4, <1>21, <2>1, Zenon DEF Filled
  <2>2. CASE pc = "write" /\ locator = pindex
    <3>1. pindex \in Block /\ (pindex = Genesis \/ Filled(Parent[pindex]))
      BY <2>2, Zenon DEF Covered, Stage, Types, Place
    <3>2. pindex \in skipped'
      BY <1>21, <2>2, <3>1, Zenon DEF CutShort
    <3>3. \A b \in {pindex} : Filled(b)'
      BY <1>20, <3>1, <3>2, Zenon
    <3> QED
      BY <1>21, <2>2, <3>3, Zenon DEF Filled
  <2> QED
    BY <2>1, <2>2, Zenon DEF Covered
<1>14. CASE SyncFails
  <2>1. Filled(locator)' /\ pc' = "exited" /\ ~synced'
    BY <1>14, <1>21, Zenon DEF SyncFails, Stage
  <2> QED
    BY <2>1, Zenon DEF Covered
<1>15. CASE BlockConnected
  <2> DEFINE b == Head(queue).block
  <2>1. b \in Block /\ synced /\ (b = Genesis \/ (best \in Block /\ Parent[b] \in Branch[best]))
    BY <1>15, HeadIs, Zenon DEF BlockConnected, Delivers, Connects, Types, Place
  <2>2. b = Genesis \/ Filled(Parent[b])
    BY <1>2, <2>1, Zenon DEF Covered
  <2>3. \A c \in {b} : Filled(c)'
    BY <1>3, <1>15, <2>1, <2>2, Zenon DEF BlockConnected
  <2>4. indexing' = b /\ UNCHANGED <<locator, pc, pindex, best, synced>>
    BY <1>15, Zenon DEF BlockConnected
  <2> HIDE DEF b
  <2> QED
    BY <1>1, <1>4, <2>1, <2>3, <2>4, Zenon DEF Covered, Stage, Filled
<1>16. CASE SetBestBlock
  BY <1>1, <1>4, <1>5, <1>16, Zenon DEF Covered, SetBestBlock, Stage, database, Filled
<1>17. CASE ChainStateFlushed
  <2>1. CASE locator' = locator
    BY <1>6, <1>17, <2>1, Zenon DEF ChainStateFlushed, memory
  <2>2. CASE locator' # locator
    <3>1. /\ synced /\ Head(queue).block \in Branch[best] /\ locator' = Head(queue).block
          /\ indexing = NoBlock /\ queue # <<>> /\ Head(queue).type = "ChainStateFlushed"
      BY <1>17, <2>2, Zenon DEF ChainStateFlushed, Delivers
    <3>2. best # NoBlock
      BY <3>1 DEF Stage, Event
    <3>3. Filled(Head(queue).block) /\ Head(queue).block \in Place
      BY <1>2, <1>4, <3>1, <3>2, Zenon DEF Covered, Place
    <3>4. Filled(locator)'
      BY <1>1, <3>1, <3>3, Zenon DEF Filled
    <3> QED
      BY <1>1, <1>4, <1>17, <3>1, <3>4, Zenon DEF Covered, Stage, ChainStateFlushed, memory, Filled
  <2> QED
    BY <2>1, <2>2, Zenon
<1>18. CASE Restart \/ Crash
  <2>1. CutShort \subseteq skipped' /\ locator' = locator
    <3>1. CASE Restart
      BY <3>1, Zenon DEF Restart, Reborn, CutShort
    <3>2. CASE Crash
      BY <3>2, Zenon DEF Crash, Reborn
    <3> QED
      BY <1>18, <3>1, <3>2, Zenon
  <2>2. pc' = "init" /\ ~synced'
    BY <1>18, Zenon DEF Restart, Crash, Reborn
  <2> QED
    BY <1>21, <2>1, <2>2, Zenon DEF Covered
<1>19. CASE (\E b \in Block : Activate(b)) \/ Announce \/ Invalidate \/ Flush \/ BlockUntilSynced
            \/ SyncWithQueue \/ Interrupt \/ BlockIgnored \/ AnswerQuery \/ BlockFails
  BY <1>6, <1>19, Zenon DEF Activate, Announce, Invalidate, Flush, BlockUntilSynced, SyncWithQueue,
     Interrupt, BlockIgnored, AnswerQuery, BlockFails, memory, database
<1> QED
  BY <1>7, <1>8, <1>9, <1>10, <1>11, <1>12, <1>13, <1>14, <1>15, <1>16, <1>17, <1>18, <1>19,
     Zenon DEF Next, ThreadSync, Deliver

-----------------------------------------------------------------------------
(* The first run of the node.                                              *)

\* What is found stays found, as long as no other block is written; a block of a branch
\* that is found is found, and a block is when its entries are written and its parent is.
LEMMA FoundIs ==
    ASSUME Types, pos' = pos
    PROVE  /\ \A b \in Place : entry' = entry /\ Found(b) => Found(b)'
           /\ \A b \in Block : Found(b) => \A c \in Branch[b] : Found(c)
           /\ \A b \in Block : entry' = WriteBlock(b) /\ (b = Genesis \/ Found(Parent[b])) => Found(b)'
<1>1. \A b \in Place : entry' = entry /\ Found(b) => Found(b)'
  BY Zenon DEF Found
<1>2. ASSUME NEW b \in Block, Found(b), NEW c \in Branch[b]
      PROVE  Found(c)
  BY <1>2, BranchTransitive, Tree, Zenon DEF Found
<1>3. ASSUME NEW b \in Block, entry' = WriteBlock(b), b = Genesis \/ Found(Parent[b])
      PROVE  Found(b)'
  <2>1. \A t \in Txs[b] : entry'[t] = <<b, pos'[b]>>
    BY <1>3, WriteBlockIs, Zenon
  <2>2. CASE b = Genesis
    BY <2>1, <2>2, Tree, Zenon DEF Found
  <2>3. CASE b # Genesis
    <3>1. Parent[b] \in Block /\ Parent[b] # NoBlock /\ Branch[b] = {b} \cup Branch[Parent[b]]
      BY <2>3, Tree
    <3>2. ASSUME NEW c \in Branch[Parent[b]] \ {b}, NEW t \in Txs[c]
          PROVE  entry'[t] = <<c, pos'[c]>>
      <4>1. c \in Branch[b] \ {b} /\ c \in Block
        BY <3>1, BranchInTree, Zenon
      <4>2. t \notin Txs[b] /\ t \in Tx
        BY <4>1, NoRepeats, Tree, Zenon
      <4>3. entry[t] = <<c, pos[c]>>
        BY <1>3, <2>3, <3>1, Zenon DEF Found
      <4> QED
        BY <1>3, <4>2, <4>3, WriteBlockIs, Zenon
    <3> QED
      BY <2>1, <3>1, <3>2, Zenon DEF Found
  <2> QED
    BY <2>2, <2>3, Zenon
<1> QED
  BY <1>1, <1>2, <1>3, Zenon

\* The migration keeps FirstStart.
LEMMA FirstStartStep ==
    ASSUME Types, Stage, Moved, FirstStart, Migrate
    PROVE  FirstStart'
<1>1. tip' = tip /\ pos' = pos
  BY MigrateIs, Zenon
<1>2. ASSUME entry' = entry, locator' = locator, pc' \in {"init", "flag"},
             legacy'.block \in {tip, legacy.block, NoBlock}, legacy.flag \/ legacy.block # NoBlock,
             \A t \in Tx : \/ legacy'.entry[t] = legacy.entry[t]
                           \/ pc = "erase" /\ t \in batch.txs /\ legacy'.entry[t] = NoEntry,
             tip \in Block
      PROVE  FirstStart'
  <2>1. \A c \in Branch[tip] : \A t \in Txs[c] : t \in Tx
    BY <1>2, BranchInTree, Tree, Zenon
  <2>2. \A c \in Branch[tip] : \A t \in Txs[c] :
             /\ legacy.entry[t] \in {NoEntry, <<c, pos[c]>>}
             /\ <<c, pos[c]>> \in {legacy.entry[t], entry[t]}
             /\ pc = "erase" /\ t \in batch.txs => entry[t] = <<c, pos[c]>>
    BY <1>2, Zenon DEF FirstStart
  <2>3. \A c \in Branch[tip] : \A t \in Txs[c] :
             /\ legacy'.entry[t] \in {NoEntry, <<c, pos[c]>>}
             /\ <<c, pos[c]>> \in {legacy'.entry[t], entry[t]}
    BY <1>2, <2>1, <2>2, Zenon
  <2>4. locator # NoBlock => locator = tip /\ Found(tip)
    BY Zenon DEF FirstStart
  <2>5. Found(tip) => Found(tip)'
    BY <1>1, <1>2, Zenon DEF Found
  <2>6. legacy'.block # NoBlock => legacy'.block = tip
    BY <1>2, Zenon DEF FirstStart
  <2> QED
    BY <1>1, <1>2, <2>3, <2>4, <2>5, <2>6, Zenon DEF FirstStart
<1>3. tip \in Block
  <2>1. legacy.flag \/ legacy.block # NoBlock
    BY MigrateIs, Zenon DEF Moved, WriteLegacyBlock, WriteFlag, EraseBatch
  <2>2. tip # NoBlock
    BY <2>1, Zenon DEF Moved, FirstStart
  <2> QED
    BY <2>2, Zenon DEF Types, Place
<1>4. CASE pc' # "erase"
  <2>1. legacy.flag \/ legacy.block # NoBlock
    BY MigrateIs, Zenon DEF Moved, WriteLegacyBlock, WriteFlag, EraseBatch
  <2>2. pc' \in {"init", "flag"} /\ entry' = entry /\ locator' = locator
        /\ legacy'.block \in {tip, legacy.block, NoBlock}
    BY <1>4, MigrateIs, Zenon DEF WriteLegacyBlock, WriteFlag, EraseBatch
  <2>3. \A t \in Tx : \/ legacy'.entry[t] = legacy.entry[t]
                      \/ pc = "erase" /\ t \in batch.txs /\ legacy'.entry[t] = NoEntry
    BY <1>4, MigrateIs, Zenon DEF EraseBatch
  <2> QED
    BY <1>2, <1>3, <2>1, <2>2, <2>3, Zenon
<1>5. CASE pc' = "erase"
  <2>1. /\ pc = "init" /\ ~legacy.flag /\ legacy.block # NoBlock /\ legacy' = legacy
        /\ \A t \in Tx : \/ t \in batch'.txs /\ legacy.entry[t] # NoEntry
                            /\ entry'[t] = legacy.entry[t]
                         \/ t \notin batch'.txs /\ entry'[t] = entry[t]
        /\ \/ locator' = locator
           \/ /\ locator' = legacy.block
              /\ \A t \in Tx \ batch'.txs : legacy.entry[t] = NoEntry
    BY <1>5, MigrateIs, Zenon DEF WriteLegacyBlock, WriteFlag, EraseBatch
  <2>2. /\ legacy.block = tip
        /\ \A c \in Branch[tip] : \A t \in Txs[c] :
             /\ legacy.entry[t] \in {NoEntry, <<c, pos[c]>>}
             /\ <<c, pos[c]>> \in {legacy.entry[t], entry[t]}
    BY <2>1, Zenon DEF FirstStart
  <2>3. \A c \in Branch[tip] : \A t \in Txs[c] : t \in Tx /\ <<c, pos[c]>> # NoEntry
    <3>1. \A c \in Block : <<c, pos[c]>> # NoEntry
      BY TxIndexAssumption DEF Types
    <3> QED
      BY <1>3, <3>1, BranchInTree, Tree, Zenon
  <2>4. \A c \in Branch[tip] : \A t \in Txs[c] :
             /\ <<c, pos[c]>> \in {legacy.entry[t], entry'[t]}
             /\ t \in batch'.txs => entry'[t] = <<c, pos[c]>>
    BY <2>1, <2>2, <2>3, Zenon
  <2>5. locator' # NoBlock => locator' = tip /\ Found(tip)'
    <3>1. CASE locator' = locator
      <4>1. locator # NoBlock => locator = tip /\ Found(tip)
        BY Zenon DEF FirstStart
      <4>2. Found(tip) => \A c \in Branch[tip] : \A t \in Txs[c] : entry'[t] = <<c, pos[c]>>
        BY <1>3, <2>1, <2>3, <2>4, Tree, Zenon DEF Found
      <4> QED
        BY <1>1, <3>1, <4>1, <4>2, Zenon DEF Found
    <3>2. CASE locator' = legacy.block /\ \A t \in Tx \ batch'.txs : legacy.entry[t] = NoEntry
      <4>1. \A c \in Branch[tip] : \A t \in Txs[c] : entry'[t] = <<c, pos[c]>>
        BY <2>3, <2>4, <3>2, Zenon
      <4> QED
        BY <1>1, <2>2, <3>2, <4>1, Zenon DEF Found
    <3> QED
      BY <2>1, <3>1, <3>2, Zenon
  <2> QED
    <3>1. \A c \in Branch[tip] : \A t \in Txs[c] :
             /\ legacy'.entry[t] \in {NoEntry, <<c, pos'[c]>>}
             /\ <<c, pos'[c]>> \in {legacy'.entry[t], entry'[t]}
             /\ t \in batch'.txs => entry'[t] = <<c, pos'[c]>>
      BY <1>1, <2>1, <2>2, <2>4, Zenon
    <3> QED
      BY <1>1, <2>1, <2>2, <2>5, <3>1, Zenon DEF FirstStart
<1> QED
  BY <1>4, <1>5, Zenon

\* Every step of the first run keeps FirstRun.
LEMMA FirstRunStep ==
    ASSUME Types, Stage, Moved, ~restarted => FirstRun, Next, ~restarted'
    PROVE  FirstRun'
<1>1. FirstRun /\ ~restarted
  <2>1. CASE Migrate
    BY <2>1, MigrateIs
  <2>2. CASE StartIndex
    BY <2>2, StartIs
  <2>3. CASE ~Migrate /\ ~StartIndex
    <3>1. restarted' = restarted \/ restarted' = TRUE
      BY <2>3, Zenon DEF Next, Activate, Announce, Invalidate, Flush, ThreadSync, SyncInterrupted,
         SyncFinished, SyncNext, SyncLocator, SyncWrite, SyncFails, Deliver, BlockConnected,
         SetBestBlock, BlockIgnored, ChainStateFlushed, AnswerQuery, BlockFails, BlockUntilSynced,
         SyncWithQueue, Interrupt, Restart, Crash, Reborn
    <3> QED
      BY <3>1
  <2> QED
    BY <2>1, <2>2, <2>3, Zenon
<1>2. pos' = pos
  BY PosKept, Zenon DEF Crash, Reborn
<1>3. \A b \in Place : entry' = entry /\ Found(b) => Found(b)'
  BY <1>2, FoundIs, Zenon
<1>4. \A b \in Block : Found(b) => \A c \in Branch[b] : Found(c)
  BY <1>2, FoundIs, Zenon
<1>5. \A b \in Block : entry' = WriteBlock(b) /\ (b = Genesis \/ Found(Parent[b])) => Found(b)'
  BY <1>2, FoundIs, Zenon
<1>6. /\ locator \in Place /\ pindex \in Place /\ best \in Place /\ indexing \in Place
      /\ pindex # NoBlock /\ pindex # Genesis => Parent[pindex] \in Place
      /\ \A c \in Place : \A b \in Branch[c] : c # NoBlock => b \in Place
  BY BranchInTree, Tree, Zenon DEF Types, Place
<1>7. Base \in Place
  BY <1>6, Zenon DEF Base
<1>8. ASSUME ~Starting, UNCHANGED <<pc, pindex, best, synced, indexing, entry>>
      PROVE  FirstRun'
  <2>1. ~Starting' /\ Base' = Base
    BY <1>8, Zenon DEF Starting, Base
  <2> QED
    BY <1>1, <1>3, <1>6, <1>7, <1>8, <2>1, Zenon DEF FirstRun, Stage, Found
<1>9. CASE Migrate
  <2>1. Starting /\ Starting' /\ ~synced'
    <3>1. pc \in {"init", "flag", "erase"} /\ pc' \in {"init", "flag", "erase"} /\ synced' = synced
      BY <1>9, Zenon DEF Migrate, MigrateBatch, WriteLegacyBlock, WriteFlag, EraseBatch
    <3> QED
      BY <3>1, Zenon DEF Starting, Stage
  <2>2. FirstStart'
    BY <1>1, <1>9, <2>1, FirstStartStep, Zenon DEF FirstRun
  <2> QED
    BY <2>1, <2>2, Zenon DEF FirstRun, Starting
<1>10. CASE StartIndex
  <2>1. Found(best') /\ best' \in Place
    <3>1. CASE best' = NoBlock
      BY <3>1, Zenon DEF Found, Place
    <3>2. CASE best' # NoBlock
      <4>1. locator \in Block /\ best' \in Branch[locator] /\ pc = "init"
        BY <1>10, <3>2, StartIs, Zenon
      <4>2. Found(locator)
        BY <1>1, <4>1, Tree, Zenon DEF FirstRun, FirstStart, Starting
      <4> QED
        BY <1>4, <1>6, <4>1, <4>2, Tree, Zenon DEF Place
    <3> QED
      BY <3>1, <3>2, Zenon
  <2>2. entry' = entry /\ pindex' = best' /\ indexing' = NoBlock /\ pc' \in {"sync", "exited"}
    BY <1>10, StartIs, Zenon DEF Stage, Starting
  <2>3. \A b \in {best'} : Found(b)'
    BY <1>3, <2>1, <2>2, Zenon
  <2> QED
    BY <2>2, <2>3, Zenon DEF FirstRun, Starting, Base, Found
<1>11. CASE SyncInterrupted
  BY <1>1, <1>3, <1>6, <1>11, Zenon DEF FirstRun, SyncInterrupted, Stage, Starting
<1>12. CASE SyncFinished
  <2>1. Found(pindex)' /\ indexing = NoBlock
    BY <1>1, <1>3, <1>6, <1>12, Zenon DEF FirstRun, SyncFinished, Stage, Found
  <2> QED
    BY <1>12, <2>1, Zenon DEF FirstRun, SyncFinished, Starting, Base, Found
<1>13. CASE SyncNext
  <2>1. PICK b \in NextSyncBlock(pindex) : pindex' = b
    BY <1>13, Zenon DEF SyncNext
  <2>2. b # Genesis => Found(Parent[b]) /\ Parent[b] \in Place
    BY <1>1, <1>4, <1>6, <1>13, <2>1, NextIs, Tree, Zenon DEF SyncNext, FirstRun
  <2>3. ~synced' /\ pc' = "locator" /\ entry' = entry
    BY <1>13, Zenon DEF SyncNext, Stage, database
  <2>4. b # Genesis => \A c \in {Parent[b]} : Found(c)'
    BY <1>3, <2>2, <2>3, Zenon
  <2> QED
    BY <2>1, <2>3, <2>4, Zenon DEF FirstRun, Starting, Found
<1>14. CASE SyncLocator
  BY <1>1, <1>3, <1>6, <1>14, Zenon DEF FirstRun, SyncLocator, Stage, Starting, Found
<1>15. CASE SyncWrite
  <2>1. pindex \in Block /\ (pindex = Genesis \/ Found(Parent[pindex])) /\ ~synced
    BY <1>1, <1>15, Zenon DEF SyncWrite, FirstRun, Stage, Types, Place
  <2>2. \A b \in {pindex} : Found(b)'
    BY <1>5, <1>15, <2>1, Zenon DEF SyncWrite
  <2> QED
    BY <1>15, <2>1, <2>2, Zenon DEF FirstRun, SyncWrite, Starting, Found
<1>16. CASE SyncFails
  BY <1>16, Zenon DEF FirstRun, SyncFails, Stage, Starting
<1>17. CASE BlockConnected
  <2> DEFINE b == Head(queue).block
  <2>1. /\ b \in Block /\ b # NoBlock /\ synced
        /\ b = Genesis \/ (best \in Block /\ Parent[b] \in Branch[best])
    BY <1>17, HeadIs, Tree, Zenon DEF BlockConnected, Delivers, Connects, Types, Place
  <2>2. b = Genesis \/ Found(Parent[b])
    BY <1>1, <1>4, <1>17, <2>1, Zenon DEF FirstRun, Base, BlockConnected, Delivers
  <2>3. \A c \in {b} : Found(c)'
    BY <1>5, <1>17, <2>1, <2>2, Zenon DEF BlockConnected
  <2>4. indexing' = b /\ UNCHANGED <<pc, pindex, best, synced>>
    BY <1>17, Zenon DEF BlockConnected
  <2> HIDE DEF b
  <2>5. Found(Base)'
    BY <2>1, <2>3, <2>4, Zenon DEF Base, Found
  <2> QED
    BY <2>1, <2>4, <2>5, Zenon DEF FirstRun, Stage, Starting
<1>18. CASE SetBestBlock
  <2>1. Base' = Base /\ entry' = entry /\ ~Starting /\ synced /\ UNCHANGED <<pc, pindex, synced>>
    BY <1>18, Zenon DEF Base, SetBestBlock, database, Stage
  <2>2. Found(Base)'
    BY <1>1, <1>3, <1>7, <2>1, Zenon DEF FirstRun, Found
  <2> QED
    BY <2>1, <2>2, Zenon DEF FirstRun, Stage, Starting
<1>19. CASE (\E b \in Block : Activate(b)) \/ Announce \/ Invalidate \/ Flush \/ BlockUntilSynced
            \/ SyncWithQueue \/ Interrupt
  <2>1. ~Starting
    BY <1>19, Zenon DEF Activate, Announce, Invalidate, Flush, BlockUntilSynced, SyncWithQueue,
       Interrupt, Up, Starting, Stage
  <2> QED
    BY <1>8, <1>19, <2>1, Zenon DEF Activate, Announce, Invalidate, Flush, BlockUntilSynced,
       SyncWithQueue, Interrupt, memory, database
<1>20. CASE BlockIgnored \/ AnswerQuery \/ ChainStateFlushed \/ BlockFails
  <2>1. ~Starting
    BY <1>20, Zenon DEF BlockIgnored, AnswerQuery, ChainStateFlushed, BlockFails, Delivers, Stage
  <2> QED
    BY <1>8, <1>20, <2>1, Zenon DEF BlockIgnored, AnswerQuery, ChainStateFlushed, BlockFails,
       memory, database
<1>21. ~(Restart \/ Crash)
  BY Zenon DEF Restart, Crash, Reborn
<1> QED
  BY <1>9, <1>10, <1>11, <1>12, <1>13, <1>14, <1>15, <1>16, <1>17, <1>18, <1>19, <1>20, <1>21,
     Zenon DEF Next, ThreadSync, Deliver

-----------------------------------------------------------------------------
(* The backlog of callbacks.                                               *)

\* A place in the queue depends on what is before it.
LEMMA SamePrefix ==
    ASSUME NEW q, NEW r, NEW n \in Nat, \A i \in 1..(n - 1) : r[i] = q[i], NEW b
    PROVE  /\ Follows(q, n, b) => Follows(r, n, b)
           /\ Reaches(q, n, b) => Reaches(r, n, b)
           /\ \A base : Leads(q, n, b, base) => Leads(r, n, b, base)
<1>1. ASSUME NEW j \in 1..(n - 1), LastBefore(r, n, j)
      PROVE  LastBefore(q, n, j)
  <2>1. \A k \in (j + 1)..(n - 1) : k \in 1..(n - 1)
    OBVIOUS
  <2> QED
    BY <1>1, <2>1, Zenon DEF LastBefore, Connected
<1> QED
  BY <1>1, Zenon DEF Follows, Reaches, Leads, Connected

\* A callback that connects no block changes nothing for the next place.
LEMMA AfterOther ==
    ASSUME NEW r, NEW n \in Nat \ {0}, ~Connected(r, n), NEW b
    PROVE  /\ Reaches(r, n, b) => Reaches(r, n + 1, b)
           /\ \A base : Leads(r, n, b, base) => Leads(r, n + 1, b, base)
<1>1. 1..((n + 1) - 1) = 1..(n - 1) \cup {n} /\ \A j \in 1..(n - 1) : (j + 1)..(n - 1) \subseteq (j + 1)..((n + 1) - 1)
  OBVIOUS
<1>2. ASSUME NEW j \in 1..((n + 1) - 1), LastBefore(r, n + 1, j)
      PROVE  j \in 1..(n - 1) /\ LastBefore(r, n, j)
  <2>1. j # n
    BY <1>2, Zenon DEF LastBefore
  <2> QED
    BY <1>1, <1>2, <2>1 DEF LastBefore
<1> QED
  BY <1>1, <1>2 DEF Reaches, Leads

\* After a callback that connects a block, that block counts.
LEMMA AfterConnected ==
    ASSUME NEW r, NEW n \in Nat \ {0}, Connected(r, n), NEW b
    PROVE  /\ Joins(b, r[n].block) => Follows(r, n + 1, b)
           /\ b \in Branch[r[n].block] => Reaches(r, n + 1, b)
           /\ \A base : Joins(r[n].block, base) => Leads(r, n + 1, b, base)
<1>1. ASSUME NEW j \in 1..((n + 1) - 1), LastBefore(r, n + 1, j)
      PROVE  j = n
  <2>1. j # n => n \in (j + 1)..((n + 1) - 1)
    OBVIOUS
  <2> QED
    BY <1>1, <2>1 DEF LastBefore
<1>2. n \in 1..((n + 1) - 1)
  OBVIOUS
<1> QED
  BY <1>1, <1>2 DEF Follows, Reaches, Leads

\* When the first callback is gone, the places behind it still follow and reach, and
\* they lead if the callback connected no block that joins.
LEMMA AfterTail ==
    ASSUME NEW q, NEW r, NEW n \in Nat \ {0}, \A i \in 1..(n - 1) : r[i] = q[i + 1], NEW b
    PROVE  /\ Follows(q, n + 1, b) => Follows(r, n, b)
           /\ Reaches(q, n + 1, b) => Reaches(r, n, b)
           /\ \A base : /\ Leads(q, n + 1, b, base)
                        /\ ~(Connected(q, 1) /\ Joins(q[1].block, base))
                        => Leads(r, n, b, base)
<1>1. ASSUME NEW j \in 1..(n - 1), LastBefore(r, n, j)
      PROVE  j + 1 \in 1..((n + 1) - 1) /\ LastBefore(q, n + 1, j + 1) /\ q[j + 1] = r[j]
  <2>1. j + 1 \in 1..((n + 1) - 1)
    OBVIOUS
  <2>2. \A k \in (j + 1 + 1)..((n + 1) - 1) : /\ k - 1 \in (j + 1)..(n - 1) /\ k - 1 \in 1..(n - 1)
                                            /\ k - 1 + 1 = k
    OBVIOUS
  <2>3. \A k \in (j + 1 + 1)..((n + 1) - 1) : ~Connected(q, k)
    BY <1>1, <2>2 DEF LastBefore, Connected
  <2> QED
    BY <1>1, <2>1, <2>3 DEF LastBefore, Connected
<1>2. Follows(q, n + 1, b) => Follows(r, n, b)
  BY <1>1 DEF Follows
<1>3. Reaches(q, n + 1, b) => Reaches(r, n, b)
  BY <1>1 DEF Reaches
<1>4. ASSUME NEW base, Leads(q, n + 1, b, base), ~(Connected(q, 1) /\ Joins(q[1].block, base))
      PROVE  Leads(r, n, b, base)
  <2>1. CASE base # NoBlock /\ b \in Branch[base]
    BY <2>1, Zenon DEF Leads
  <2>2. ASSUME NEW j \in 1..((n + 1) - 1), Connected(q, j), Joins(q[j].block, base)
        PROVE  Leads(r, n, b, base)
    <3>1. j # 1
      BY <1>4, <2>2, Zenon
    <3>2. j - 1 \in 1..(n - 1) /\ j - 1 + 1 = j
      BY <3>1
    <3>3. r[j - 1] = q[j]
      BY <3>2, Zenon
    <3> QED
      BY <2>2, <3>2, <3>3, Zenon DEF Leads, Connected
  <2> QED
    BY <1>4, <2>1, <2>2 DEF Leads
<1> QED
  BY <1>2, <1>3, <1>4, Zenon

\* When the first callback connects a block that is taken, the places behind it lead
\* from that block on.
LEMMA AfterTaken ==
    ASSUME NEW q, NEW r, NEW n \in Nat \ {0}, \A i \in 1..(n - 1) : r[i] = q[i + 1],
           NEW b, Connected(q, 1), q[1].block # NoBlock, Reaches(q, n + 1, b),
           \A k \in 2..n : Connected(q, k) => Follows(q, k, q[k].block)
    PROVE  Leads(r, n, b, q[1].block)
<1> DEFINE T == {k \in 2..n : Connected(q, k)}
<1>1. CASE T = {}
  <2>1. 1 \in 1..((n + 1) - 1) /\ (1 + 1)..((n + 1) - 1) = 2..n
    OBVIOUS
  <2>2. LastBefore(q, n + 1, 1)
    BY <1>1, <2>1 DEF LastBefore
  <2> QED
    BY <2>1, <2>2 DEF Reaches, Leads
<1>2. CASE T # {}
  <2>1. T \in SUBSET Nat
    OBVIOUS
  <2>2. PICK k \in T : \A m \in T : k <= m
    BY <1>2, <2>1, LeastNat, Zenon
  <2>3. k \in 2..n /\ Connected(q, k)
    OBVIOUS
  <2>4. \A m \in (1 + 1)..(k - 1) : m \in 2..n /\ ~(k <= m)
    BY <2>3
  <2>5. 1 \in 1..(k - 1) /\ k - 1 \in 1..(n - 1) /\ k - 1 + 1 = k
    BY <2>3
  <2>6. LastBefore(q, k, 1)
    BY <2>2, <2>4, <2>5, Zenon DEF LastBefore
  <2>7. Joins(q[k].block, q[1].block)
    BY <2>3, <2>5, <2>6, Zenon DEF Follows
  <2>8. r[k - 1] = q[k]
    BY <2>5, Zenon
  <2> QED
    BY <2>3, <2>5, <2>7, <2>8, Zenon DEF Leads, Connected
<1> QED
  BY <1>1, <1>2, Zenon

\* Joining and being on a branch pass on to a block whose branch has the block.
LEMMA JoinsOn ==
    ASSUME NEW c \in Block, NEW b \in Branch[c]
    PROVE  /\ \A a \in Block : Joins(a, b) => Joins(a, c)
           /\ \A a \in Branch[b] : a \in Branch[c]
BY BranchInTree, BranchTransitive, Tree, Zenon DEF Joins

\* A callback that connects no block is appended.
LEMMA LedAppend ==
    ASSUME NEW q \in Seq(Callback), NEW t \in Place, NEW insync \in BOOLEAN, NEW base \in Place,
           Led(q, t, insync, base), NEW c \in Callback, c.type # "BlockConnected",
           c.type = "sync" => insync /\ c.block = t
    PROVE  Led(Append(q, c), t, insync, base)
<1> DEFINE r == Append(q, c)
           m == Len(q) + 1
<1>1. /\ m \in Nat \ {0} /\ Len(r) = m /\ r[m] = c /\ 1..m = 1..Len(q) \cup {m}
      /\ \A n \in 1..m : n \in Nat /\ \A i \in 1..(n - 1) : r[i] = q[i]
      /\ \A n \in 1..Len(q) : r[n] = q[n]
  OBVIOUS
<1>2. ~Connected(r, m)
  BY <1>1, Zenon DEF Connected
<1>3. c.block \in Block
  BY DEF Callback
<1>4. c.type = "sync" => t # NoBlock
  BY <1>3, Tree, Zenon
<1> HIDE DEF r, m
<1>5. \A n \in 1..m : \A b : /\ Follows(q, n, b) => Follows(r, n, b)
                             /\ Reaches(q, n, b) => Reaches(r, n, b)
                             /\ Leads(q, n, b, base) => Leads(r, n, b, base)
  BY <1>1, SamePrefix, Zenon
<1>6. /\ t # NoBlock => Reaches(q, m, t) /\ (insync => Leads(q, m, t, base))
      /\ \A n \in 1..Len(q) :
            /\ Connected(q, n) => Follows(q, n, q[n].block)
            /\ q[n].type = "sync" => /\ insync /\ Reaches(q, n, q[n].block)
                                     /\ Leads(q, n, q[n].block, base)
  BY Zenon DEF Led, m
<1>7. t # NoBlock => Reaches(r, m, t) /\ (insync => Leads(r, m, t, base))
  BY <1>1, <1>5, <1>6, Zenon
<1>8. t # NoBlock => Reaches(r, m + 1, t) /\ (insync => Leads(r, m + 1, t, base))
  BY <1>1, <1>2, <1>7, AfterOther, Zenon
<1>9. ASSUME NEW n \in 1..m
      PROVE  /\ Connected(r, n) => Follows(r, n, r[n].block)
             /\ r[n].type = "sync" => /\ insync /\ Reaches(r, n, r[n].block)
                                      /\ Leads(r, n, r[n].block, base)
  <2>1. CASE n = m
    BY <1>1, <1>2, <1>4, <1>7, <2>1, Zenon
  <2>2. CASE n \in 1..Len(q)
    BY <1>1, <1>5, <1>6, <2>2, Zenon DEF Connected
  <2> QED
    BY <1>1, <2>1, <2>2, Zenon
<1>10. Led(r, t, insync, base)
  BY <1>1, <1>8, <1>9, Zenon DEF Led
<1> QED
  BY <1>10, Zenon DEF r

\* The signal of a block that joins those announced is appended.
LEMMA LedConnect ==
    ASSUME NEW q \in Seq(Callback), NEW t \in Place, NEW insync \in BOOLEAN, NEW base \in Place,
           Led(q, t, insync, base), t = NoBlock => q = <<>>,
           NEW c \in Block, Joins(c, t)
    PROVE  Led(Append(q, Event("BlockConnected", c)), c, insync, base)
<1> DEFINE e == Event("BlockConnected", c)
           r == Append(q, e)
           m == Len(q) + 1
<1>0. e \in Callback /\ e.type = "BlockConnected" /\ e.block = c
  BY DEF Event, Callback
<1> HIDE DEF e
<1>1. /\ m \in Nat \ {0} /\ Len(r) = m /\ r[m] = e /\ 1..m = 1..Len(q) \cup {m}
      /\ \A n \in 1..m : n \in Nat /\ \A i \in 1..(n - 1) : r[i] = q[i]
      /\ \A n \in 1..Len(q) : r[n] = q[n] /\ n \in 1..m
      /\ m - 1 = Len(q) /\ (m + 1) - 1 = m /\ m \in 1..m
  BY <1>0
<1>2. Connected(r, m) /\ r[m].block = c /\ r[m].type # "sync"
  BY <1>0, <1>1, Zenon DEF Connected
<1>3. \A j \in 1..Len(q) : q[j].block \in Block /\ q # <<>>
  <2>1. \A j \in 1..Len(q) : q[j] \in Callback /\ q # <<>>
    OBVIOUS
  <2>2. \A d \in Callback : d.block \in Block
    BY DEF Callback
  <2> QED
    BY <2>1, <2>2, Zenon
<1>4. /\ t # NoBlock => Reaches(q, m, t) /\ (insync => Leads(q, m, t, base))
      /\ \A k \in 1..Len(q) :
            /\ Connected(q, k) => Follows(q, k, q[k].block)
            /\ q[k].type = "sync" => /\ insync /\ Reaches(q, k, q[k].block)
                                     /\ Leads(q, k, q[k].block, base)
  BY Zenon DEF Led
<1> HIDE DEF r, m
<1>5. \A k \in 1..m : \A b : /\ Follows(q, k, b) => Follows(r, k, b)
                             /\ Reaches(q, k, b) => Reaches(r, k, b)
                             /\ Leads(q, k, b, base) => Leads(r, k, b, base)
  BY <1>1, SamePrefix, Zenon
<1>6. Follows(r, m, c)
  <2>1. ASSUME NEW j \in 1..(m - 1), LastBefore(q, m, j)
        PROVE  Joins(c, q[j].block)
    <3>1. t \in Branch[q[j].block] /\ t # NoBlock /\ q[j].block \in Block
      BY <1>1, <1>3, <1>4, <2>1, Zenon DEF Reaches
    <3> QED
      BY <3>1, JoinsOn, Zenon
  <2> QED
    BY <1>1, <1>5, <2>1, Zenon DEF Follows
<1>7. ASSUME NEW n \in 1..m
      PROVE  /\ Connected(r, n) => Follows(r, n, r[n].block)
             /\ r[n].type = "sync" => /\ insync /\ Reaches(r, n, r[n].block)
                                      /\ Leads(r, n, r[n].block, base)
  <2>1. CASE n = m
    BY <1>2, <1>6, <2>1, Zenon
  <2>2. CASE n \in 1..Len(q)
    BY <1>1, <1>4, <1>5, <2>2, Zenon DEF Connected
  <2> QED
    BY <1>1, <2>1, <2>2, Zenon
<1>8. Reaches(r, m + 1, c)
  BY <1>1, <1>2, AfterConnected, BranchInTree, Zenon
<1>9. insync => Leads(r, m + 1, c, base)
  <2>1. CASE Joins(c, base)
    BY <1>1, <1>2, <2>1, AfterConnected, Zenon
  <2>2. CASE insync /\ ~Joins(c, base)
    <3>1. t # NoBlock
      BY <2>2, Zenon DEF Joins
    <3>2. ~(base # NoBlock /\ t \in Branch[base])
      BY <2>2, JoinsOn, Zenon DEF Place
    <3>3. PICK j \in 1..(m - 1) : Connected(q, j) /\ Joins(q[j].block, base)
      BY <1>4, <2>2, <3>1, <3>2, Zenon DEF Leads
    <3>4. j \in 1..((m + 1) - 1) /\ r[j] = q[j]
      BY <1>1, Zenon
    <3> QED
      BY <3>3, <3>4, Zenon DEF Leads, Connected
  <2> QED
    BY <2>1, <2>2, Zenon
<1>10. Led(r, c, insync, base)
  BY <1>1, <1>7, <1>8, <1>9, Zenon DEF Led
<1> QED
  BY <1>10, Zenon DEF r, e

\* The active chain goes back to a block of it.
LEMMA LedBack ==
    ASSUME NEW q \in Seq(Callback), NEW t \in Block, NEW insync \in BOOLEAN, NEW base \in Place,
           Led(q, t, insync, base), NEW b \in Branch[t]
    PROVE  Led(q, b, insync, base)
<1>1. ASSUME NEW n, NEW j \in 1..(n - 1), n = Len(q) + 1
      PROVE  q[j].block \in Block
  <2>1. q[j] \in Callback
    BY <1>1
  <2> QED
    BY <2>1 DEF Callback
<1>2. t # NoBlock
  BY Tree, Zenon
<1>3. Reaches(q, Len(q) + 1, t) => Reaches(q, Len(q) + 1, b)
  BY <1>1, JoinsOn, Zenon DEF Reaches
<1>4. Leads(q, Len(q) + 1, t, base) => Leads(q, Len(q) + 1, b, base)
  BY JoinsOn, Zenon DEF Leads, Place
<1> QED
  BY <1>2, <1>3, <1>4, Zenon DEF Led

\* The first callback is delivered, and connects no block that joins.
LEMMA LedTail ==
    ASSUME Types, queue # <<>>, NEW base \in Place, Led(queue, signalled, synced, base),
           synced => ~(Connected(queue, 1) /\ Joins(queue[1].block, base))
    PROVE  Led(Tail(queue), signalled, synced, base)
<1> DEFINE r == Tail(queue)
           l == Len(queue)
<1>1. l \in Nat \ {0} /\ Len(r) = l - 1 /\ \A i \in 1..(l - 1) : r[i] = queue[i + 1]
  BY HeadIs
<1> HIDE DEF r, l
<1>2. \A n \in 1..l : n \in Nat \ {0} /\ \A i \in 1..(n - 1) : r[i] = queue[i + 1]
  BY <1>1
<1>3. \A n \in 1..l : \A b : /\ Follows(queue, n + 1, b) => Follows(r, n, b)
                             /\ Reaches(queue, n + 1, b) => Reaches(r, n, b)
                             /\ synced /\ Leads(queue, n + 1, b, base) => Leads(r, n, b, base)
  BY <1>2, AfterTail, Zenon
<1>4. ASSUME NEW n \in 1..(l - 1)
      PROVE  /\ Connected(r, n) => Follows(r, n, r[n].block)
             /\ r[n].type = "sync" => /\ synced /\ Reaches(r, n, r[n].block)
                                      /\ Leads(r, n, r[n].block, base)
  <2>1. n \in 1..l /\ n + 1 \in 1..l /\ r[n] = queue[n + 1]
    BY <1>1
  <2>2. /\ Connected(queue, n + 1) => Follows(queue, n + 1, queue[n + 1].block)
        /\ queue[n + 1].type = "sync" => /\ synced /\ Reaches(queue, n + 1, queue[n + 1].block)
                                         /\ Leads(queue, n + 1, queue[n + 1].block, base)
    BY <2>1, Zenon DEF Led, l
  <2> QED
    BY <1>3, <2>1, <2>2, Zenon DEF Connected
<1>5. signalled # NoBlock => Reaches(r, l, signalled) /\ (synced => Leads(r, l, signalled, base))
  <2>1. l \in 1..l
    BY <1>1
  <2> QED
    BY <1>3, <2>1, Zenon DEF Led, l
<1>6. (l - 1) + 1 = l
  BY <1>1, SMTT(30)
<1>7. Led(r, signalled, synced, base)
  BY <1>1, <1>4, <1>5, <1>6 DEF Led
<1> QED
  BY <1>7, Zenon DEF r

\* The first callback is delivered, and connects a block that is taken.
LEMMA LedTaken ==
    ASSUME Types, queue # <<>>, NEW base \in Place, Led(queue, signalled, synced, base),
           synced, Connected(queue, 1)
    PROVE  Led(Tail(queue), signalled, synced, queue[1].block)
<1> DEFINE r == Tail(queue)
           l == Len(queue)
<1>1. l \in Nat \ {0} /\ Len(r) = l - 1 /\ \A i \in 1..(l - 1) : r[i] = queue[i + 1]
  BY HeadIs
<1>2. queue[1].block # NoBlock
  BY HeadIs, Tree, Zenon
<1> HIDE DEF r, l
<1>3. \A n \in 1..l : n \in Nat \ {0} /\ (\A i \in 1..(n - 1) : r[i] = queue[i + 1]) /\ 2..n \subseteq 1..l
  BY <1>1
<1>4. \A n \in 1..l : \A b : /\ Follows(queue, n + 1, b) => Follows(r, n, b)
                             /\ Reaches(queue, n + 1, b) => Reaches(r, n, b)
  BY <1>3, AfterTail, Zenon
<1>5. \A k \in 1..l : Connected(queue, k) => Follows(queue, k, queue[k].block)
  BY Zenon DEF Led, l
<1>6. \A n \in 1..l : \A b : Reaches(queue, n + 1, b) => Leads(r, n, b, queue[1].block)
  BY <1>2, <1>3, <1>5, AfterTaken, Zenon
<1>7. ASSUME NEW n \in 1..(l - 1)
      PROVE  /\ Connected(r, n) => Follows(r, n, r[n].block)
             /\ r[n].type = "sync" => /\ Reaches(r, n, r[n].block)
                                      /\ Leads(r, n, r[n].block, queue[1].block)
  <2>1. n \in 1..l /\ n + 1 \in 1..l /\ r[n] = queue[n + 1]
    BY <1>1
  <2>2. queue[n + 1].type = "sync" => Reaches(queue, n + 1, queue[n + 1].block)
    BY <2>1, Zenon DEF Led, l
  <2> QED
    BY <1>4, <1>5, <1>6, <2>1, <2>2, Zenon DEF Connected
<1>8. signalled # NoBlock => Reaches(r, l, signalled) /\ Leads(r, l, signalled, queue[1].block)
  <2>1. l \in 1..l
    BY <1>1
  <2> QED
    BY <1>4, <1>6, <2>1, Zenon DEF Led, l
<1>9. (l - 1) + 1 = l
  BY <1>1, SMTT(30)
<1>10. Led(r, signalled, synced, queue[1].block)
  BY <1>1, <1>7, <1>8, <1>9 DEF Led
<1> QED
  BY <1>10, Zenon DEF r

\* Every step keeps Backlog.
LEMMA BacklogStep ==
    ASSUME Types, Stage, Backlog, Next
    PROVE  Backlog'
<1>1. SUFFICES ASSUME ~interrupt' PROVE Led(queue, signalled, synced, Base)'
  BY Zenon DEF Backlog
<1>2. /\ queue \in Seq(Callback) /\ signalled \in Place /\ synced \in BOOLEAN /\ Base \in Place
      /\ signalled = NoBlock => queue = <<>>
  BY Zenon DEF Types, Base, Stage
<1>3. ASSUME NEW t, NEW insync, NEW base, insync => t = NoBlock \/ (base # NoBlock /\ t \in Branch[base])
      PROVE  Led(<<>>, t, insync, base)
  <2>1. Len(<<>>) = 0 /\ 1..0 = {} /\ 1..((0 + 1) - 1) = {}
    OBVIOUS
  <2> QED
    BY <1>3, <2>1, Zenon DEF Led, Reaches, Leads
<1>4. CASE Restart \/ Crash
  <2>1. queue' = <<>> /\ ~synced'
    BY <1>4, Zenon DEF Restart, Crash, Reborn
  <2> QED
    BY <1>3, <2>1, Zenon
<1>5. CASE StartIndex
  <2>1. /\ queue' = <<>> /\ signalled' = signalled /\ synced' = (best' = signalled)
        /\ Base' = best'
    BY <1>5, StartIs, Zenon DEF Stage, Starting, Base, CsMainFree
  <2>2. signalled # NoBlock => signalled \in Branch[signalled]
    BY <1>2, BranchInTree, Zenon DEF Place
  <2> QED
    BY <1>3, <2>1, <2>2, Zenon
<1>6. CASE interrupt' = interrupt
  <2>1. Led(queue, signalled, synced, Base)
    BY <1>1, <1>6 DEF Backlog
  <2>2. ASSUME UNCHANGED <<queue, signalled, synced, best, indexing>>
        PROVE  Led(queue, signalled, synced, Base)'
    BY <2>1, <2>2, Zenon DEF Base
  <2>16. \A c \in Block : Led(Append(queue, Event("ChainStateFlushed", c)), signalled, synced, Base)
    <3>1. \A c \in Block : Event("ChainStateFlushed", c) \in Callback
                           /\ Event("ChainStateFlushed", c).type = "ChainStateFlushed"
      BY DEF Event, Callback
    <3> QED
      BY <1>2, <2>1, <3>1, LedAppend, SMTT(30)
  <2>3. ASSUME NEW b \in Block, Activate(b)
        PROVE  Led(queue, signalled, synced, Base)'
    <3>1. synced' = synced /\ Base' = Base
      BY <2>3, ActivateIs, Zenon DEF Base
    <3>2. CASE signalled = NoBlock
      BY <2>1, <2>3, <3>1, <3>2, ActivateIs, Zenon
    <3>3. CASE signalled # NoBlock
      <4>1. signalled \in Block /\ signalled' \in Branch[signalled]
        BY <2>3, <3>3, ActivateIs, Zenon
      <4>2. queue' \in Seq(Callback)
        BY TypesStep, Zenon DEF Types
      <4>3. Led(queue', signalled, synced, Base)
        BY <2>1, <2>3, <2>16, ActivateIs, Zenon
      <4>4. Led(queue', signalled', synced, Base)
        BY <1>2, <4>1, <4>2, <4>3, LedBack, Zenon
      <4> QED
        BY <3>1, <4>4, Zenon
    <3> QED
      BY <3>2, <3>3, Zenon
  <2>17. CASE Announce
    <3>1. /\ signalled' \in Block /\ Joins(signalled', signalled)
          /\ queue' = Append(queue, Event("BlockConnected", signalled'))
          /\ synced' = synced /\ Base' = Base
      BY <2>17, AnnounceIs, Zenon DEF Base
    <3>2. Led(queue', signalled', synced, Base)
      BY <1>2, <2>1, <3>1, LedConnect, Zenon
    <3> QED
      BY <3>1, <3>2, Zenon
  <2>4. CASE Invalidate
    <3>1. /\ signalled \in Block /\ signalled' \in Branch[signalled]
          /\ queue' = queue /\ synced' = synced /\ Base' = Base
      <4>1. signalled \in Block \ {Genesis} /\ signalled' = Parent[signalled]
        BY <1>2, <2>4, Zenon DEF Invalidate, Place, CsMainFree
      <4>2. /\ Branch[signalled] = {signalled} \cup Branch[Parent[signalled]]
            /\ Parent[signalled] \in Branch[Parent[signalled]]
        BY <4>1, Tree, BranchInTree, Zenon
      <4> QED
        BY <2>4, <4>1, <4>2, Zenon DEF Invalidate, memory, Base
    <3>2. Led(queue, signalled', synced, Base)
      BY <1>2, <2>1, <3>1, LedBack, Zenon
    <3> QED
      BY <3>1, <3>2, Zenon
  <2>5. CASE Flush
    <3>1. /\ tip \in Block /\ queue' = Append(queue, Event("ChainStateFlushed", tip))
          /\ signalled' = signalled /\ synced' = synced /\ Base' = Base
      BY <2>5, Zenon DEF Flush, memory, Base, Place, Types
    <3> QED
      BY <2>16, <3>1, Zenon
  <2>6. CASE SyncWithQueue
    <3>1. /\ queue' = Append(queue, Event("sync", signalled)) /\ synced
          /\ signalled' = signalled /\ synced' = synced /\ Base' = Base /\ signalled \in Block
      BY <1>2, <2>6, Zenon DEF SyncWithQueue, memory, chain, Base, Stage, Place
    <3>2. Event("sync", signalled) \in Callback /\ Event("sync", signalled).type = "sync"
          /\ Event("sync", signalled).block = signalled
      BY <3>1 DEF Event, Callback
    <3>3. Led(queue', signalled, synced, Base)
      BY <1>2, <2>1, <3>1, <3>2, LedAppend, Zenon
    <3> QED
      BY <3>1, <3>3, Zenon
  <2>7. CASE SyncFinished
    <3>1. /\ ~synced /\ synced' = TRUE /\ queue' = queue /\ signalled' = signalled /\ Base' = pindex
          /\ signalled # NoBlock => pindex # NoBlock /\ signalled \in Branch[pindex]
      BY <2>7, NoNextIs, Tree, Zenon DEF SyncFinished, WriteBestBlock, CsMainFree, Stage, chain, Base
    <3>2. Led(queue, signalled, TRUE, pindex)
      BY <2>1, <3>1, Zenon DEF Led, Leads
    <3> QED
      BY <3>1, <3>2, Zenon
  <2>8. ASSUME queue # <<>>, queue' = Tail(queue), UNCHANGED <<signalled, synced, best, indexing>>,
               synced => ~(Connected(queue, 1) /\ Joins(queue[1].block, Base))
        PROVE  Led(queue, signalled, synced, Base)'
    <3>1. Led(Tail(queue), signalled, synced, Base)
      BY <1>2, <2>1, <2>8, LedTail, Zenon
    <3> QED
      BY <2>8, <3>1, Zenon DEF Base
  <2>9. CASE BlockIgnored
    <3>1. /\ queue # <<>> /\ queue' = Tail(queue) /\ UNCHANGED <<signalled, synced, best, indexing>>
          /\ Base = best /\ ~(synced /\ Connects(queue[1].block))
      BY <2>9, HeadIs, Zenon DEF BlockIgnored, Delivers, chain, memory, Base
    <3> QED
      BY <2>8, <3>1, Zenon DEF Connects, Joins
  <2>10. CASE ChainStateFlushed \/ AnswerQuery
    <3>1. /\ queue # <<>> /\ queue' = Tail(queue) /\ UNCHANGED <<signalled, synced, best, indexing>>
          /\ queue[1].type \in {"ChainStateFlushed", "sync"}
      BY <2>10, HeadIs, Zenon DEF ChainStateFlushed, AnswerQuery, Delivers, chain, memory
    <3>2. ~Connected(queue, 1)
      BY <3>1, Zenon DEF Connected
    <3> QED
      BY <2>8, <3>1, <3>2, Zenon
  <2>11. CASE BlockConnected
    <3>1. /\ queue # <<>> /\ queue' = Tail(queue) /\ signalled' = signalled /\ synced' = synced /\ synced
          /\ indexing' = queue[1].block /\ Connected(queue, 1) /\ queue[1].block \in Block
      BY <2>11, HeadIs, Zenon DEF BlockConnected, Delivers, chain, Connected
    <3>2. Base' = queue[1].block
      BY <3>1, Tree, Zenon DEF Base
    <3>3. Led(Tail(queue), signalled, synced, queue[1].block)
      BY <1>2, <2>1, <3>1, LedTaken, Zenon
    <3> QED
      BY <3>1, <3>2, <3>3, Zenon
  <2>12. CASE SetBestBlock
    <3>1. Base' = Base /\ UNCHANGED <<queue, signalled, synced>>
      BY <2>12, Zenon DEF SetBestBlock, Base, chain
    <3> QED
      BY <2>1, <3>1, Zenon
  <2>13. CASE Migrate
    BY <2>2, <2>13, MigrateIs, Zenon
  <2>14. CASE SyncInterrupted \/ SyncNext \/ SyncLocator \/ SyncWrite \/ BlockUntilSynced
    BY <2>2, <2>14, Zenon DEF SyncInterrupted, SyncNext, SyncLocator, SyncWrite, BlockUntilSynced,
       chain, memory
  <2>15. ~(SyncFails \/ BlockFails \/ Interrupt)
    BY <1>1, Zenon DEF SyncFails, BlockFails, Interrupt
  <2> QED
    BY <1>4, <1>5, <2>3, <2>4, <2>5, <2>6, <2>7, <2>9, <2>10, <2>11, <2>12, <2>13, <2>14, <2>15,
       <2>17, Zenon DEF Next, ThreadSync, Deliver
<1>7. interrupt' = interrupt \/ interrupt' = TRUE \/ Restart \/ Crash \/ StartIndex
  <2>1. CASE Migrate
    BY <2>1, MigrateIs, Zenon
  <2> QED
    BY <2>1, Zenon DEF Next, Activate, Announce, Invalidate, Flush, ThreadSync, SyncInterrupted,
       SyncFinished, SyncNext, SyncLocator, SyncWrite, SyncFails, Deliver, BlockConnected,
       SetBestBlock, BlockIgnored, ChainStateFlushed, AnswerQuery, BlockFails, BlockUntilSynced,
       SyncWithQueue, Interrupt
<1> QED
  BY <1>1, <1>4, <1>5, <1>6, <1>7, Zenon

-----------------------------------------------------------------------------
(* What holds at first, and always.                                        *)

\* The entries that a node to be migrated has.
LEMMA InitLegacy ==
    ASSUME Init
    PROVE  /\ legacy.block = NoBlock /\ (legacy.flag => tip \in Block)
           /\ \A t \in Tx : \/ legacy.entry[t] = NoEntry
                            \/ \E c \in Block : t \in Txs[c] /\ legacy.entry[t] = <<c, 0>>
           /\ legacy.flag => \A c \in Branch[tip] : \A t \in Txs[c] : legacy.entry[t] = <<c, 0>>
<1>1. PICK f \in {f \in BOOLEAN : tip = NoBlock => ~f} :
         legacy = [flag |-> f, block |-> NoBlock,
                   entry |-> [t \in Tx |-> IF f /\ \E b \in known : t \in Txs[b]
                                           THEN <<CHOOSE b \in known : t \in Txs[b], 0>> ELSE NoEntry]]
  BY Zenon DEF Init
<1> DEFINE e == [t \in Tx |-> IF f /\ \E b \in known : t \in Txs[b]
                              THEN <<CHOOSE b \in known : t \in Txs[b], 0>> ELSE NoEntry]
<1>2. \A t \in Tx : e[t] = IF f /\ \E b \in known : t \in Txs[b]
                           THEN <<CHOOSE b \in known : t \in Txs[b], 0>> ELSE NoEntry
  BY Zenon
<1>3. tip \in Place /\ tip # NoBlock => tip \in Block
  BY Zenon DEF Place
<1>4. known = IF tip = NoBlock THEN {} ELSE Branch[tip]
  BY Zenon DEF Init
<1>5. known \subseteq Block /\ tip \in Place
  BY <1>4, InitTypes, BranchInTree, Zenon DEF Types, Place
<1> HIDE DEF e
<1>6. legacy = [flag |-> f, block |-> NoBlock, entry |-> e]
  BY <1>1, Zenon DEF e
<1>7. legacy.flag = f /\ legacy.block = NoBlock /\ legacy.entry = e
  BY <1>6
<1>8. ASSUME NEW t \in Tx
      PROVE  e[t] = NoEntry \/ \E c \in Block : t \in Txs[c] /\ e[t] = <<c, 0>>
  <2>1. ASSUME NEW b \in known, t \in Txs[b]
        PROVE  /\ (CHOOSE c \in known : t \in Txs[c]) \in known
               /\ t \in Txs[CHOOSE c \in known : t \in Txs[c]]
    BY <2>1, Zenon
  <2> QED
    BY <1>2, <1>5, <2>1, Zenon
<1>9. ASSUME f, NEW c \in Branch[tip], NEW t \in Txs[c], tip \in Block
      PROVE  e[t] = <<c, 0>>
  <2>1. t \in Tx /\ known = Branch[tip]
    BY <1>4, <1>9, BranchInTree, Tree, Zenon
  <2>2. /\ (CHOOSE b \in known : t \in Txs[b]) \in Branch[tip]
        /\ t \in Txs[CHOOSE b \in known : t \in Txs[b]]
    BY <2>1, Zenon
  <2>3. (CHOOSE b \in known : t \in Txs[b]) = c
    BY <1>9, <2>2, OnceOnBranch, Zenon
  <2> QED
    BY <1>2, <1>9, <2>1, <2>3, Zenon
<1> QED
  BY <1>1, <1>3, <1>5, <1>7, <1>8, <1>9, Zenon

\* The invariants hold at first.
LEMMA InitInvariants ==
    ASSUME Init
    PROVE  Moved /\ Truthful /\ Covered /\ FirstRun /\ Backlog
<1>1. \A c \in Block : pos[c] = 0 /\ <<c, 0>> # NoEntry
  BY TxIndexAssumption, SMTT(30) DEF Init
<1>2. \A t \in Tx : entry[t] = NoEntry
  BY SMTT(30) DEF Init
<1>3. disk.tip = tip /\ pc = "init" /\ locator = NoBlock /\ ~synced /\ queue = <<>>
  BY DEF Init
<1>4. ASSUME legacy.flag
      PROVE  \A c \in Branch[tip] : \A t \in Txs[c] : c \in Block /\ legacy.entry[t] = <<c, 0>>
  BY <1>4, InitLegacy, BranchInTree, Zenon
<1>5. Moved
  <2>1. legacy.flag => \A c \in Branch[tip] : \A t \in Txs[c] : legacy.entry[t] # NoEntry
    BY <1>1, <1>4, Zenon
  <2>2. legacy.block = NoBlock /\ (legacy.flag => tip # NoBlock)
    BY InitLegacy, Tree, Zenon
  <2> QED
    BY <1>3, <2>1, <2>2, Zenon DEF Moved
<1>6. Truthful
  <2>1. ASSUME NEW t \in Tx
        PROVE  Placed(t, legacy.entry[t])
    <3>1. legacy.entry[t] = NoEntry \/ \E c \in Block : t \in Txs[c] /\ legacy.entry[t] = <<c, 0>>
      BY InitLegacy, Zenon
    <3>2. 0 \in Nat
      OBVIOUS
    <3> QED
      BY <1>1, <3>1, <3>2, Zenon DEF Placed
  <2> QED
    BY <1>2, <2>1, Zenon DEF Truthful, Placed
<1>7. Covered
  BY <1>3, Zenon DEF Covered, Filled
<1>8. FirstRun
  <2>1. legacy.flag => \A c \in Branch[tip] : \A t \in Txs[c] : legacy.entry[t] = <<c, pos[c]>>
    BY <1>1, <1>4, Zenon
  <2>2. FirstStart
    BY <1>3, <2>1, InitLegacy, Zenon DEF FirstStart
  <2> QED
    BY <1>3, <2>2, Zenon DEF FirstRun
<1>9. Backlog
  <2>1. Len(<<>>) = 0 /\ 1..0 = {} /\ 1..((0 + 1) - 1) = {}
    OBVIOUS
  <2> QED
    BY <1>3, <2>1, Zenon DEF Backlog, Led, Reaches
<1> QED
  BY <1>5, <1>6, <1>7, <1>8, <1>9, Zenon

\* A step that changes nothing keeps them.
LEMMA Stutters ==
    ASSUME UNCHANGED vars
    PROVE  /\ Types => Types'
           /\ Stage => Stage'
           /\ Moved => Moved'
           /\ Truthful => Truthful'
           /\ Covered => Covered'
           /\ FirstRun => FirstRun'
           /\ Backlog => Backlog'
           /\ restarted' = restarted
<1>1. /\ UNCHANGED <<tip, signalled, known, pos, disk, queue, entry, locator, legacy, skipped>>
      /\ UNCHANGED <<pc, batch, pindex, best, synced, indexing, interrupt, asking, left, restarted>>
  BY Zenon DEF vars, chain, database, memory
<1>2. (Types => Types') /\ (Stage => Stage') /\ (Moved => Moved')
  BY <1>1, Zenon DEF Types, Stage, Starting, Moved, CsMainFree
<1>3. (Truthful => Truthful') /\ (Covered => Covered')
  BY <1>1, Zenon DEF Truthful, Placed, Covered, Filled
<1>4. FirstRun => FirstRun'
  BY <1>1, Zenon DEF FirstRun, FirstStart, Found, Base, Starting
<1>5. Backlog => Backlog'
  BY <1>1, Zenon DEF Backlog, Led, Base
<1> QED
  BY <1>1, <1>2, <1>3, <1>4, <1>5, Zenon

\* Types, Stage and Moved hold in every behaviour.
LEMMA StageAlways == Spec => [](Types /\ Stage /\ Moved)
<1>1. Init => Types /\ Stage /\ Moved
  BY InitTypes, InitInvariants, Zenon
<1>2. Types /\ Stage /\ Moved /\ [Next]_vars => (Types /\ Stage /\ Moved)'
  BY TypesStep, StageStep, MovedStep, Stutters, Zenon
<1> QED
  BY <1>1, <1>2, PTL DEF Spec

\* Backlog holds in every behaviour.
LEMMA BacklogAlways == Spec => []Backlog
<1>1. Init => Backlog
  BY InitInvariants, Zenon
<1>2. Types /\ Stage /\ Backlog /\ [Next]_vars => Backlog'
  BY BacklogStep, Stutters, Zenon
<1> QED
  BY <1>1, <1>2, StageAlways, PTL DEF Spec

\* The index has no holes: over every sequence of restarts, crashes, interruptions and
\* failed reads and writes, and from every stage of the migration, each transaction up to
\* the block that the index has reached has an entry, and that of its block if no other
\* has it; but for the blocks that the code itself passes over (NoHoles).
THEOREM IndexHasNoHoles == Spec => []NoHoles
<1>1. Init => Truthful /\ Covered
  BY InitInvariants, Zenon
<1>2. Types /\ Stage /\ Moved /\ Truthful /\ Covered /\ [Next]_vars => (Truthful /\ Covered)'
  BY TruthfulStep, CoveredStep, Stutters, Zenon
<1>3. Types /\ Stage /\ Truthful /\ Covered => NoHoles
  <2>1. SUFFICES ASSUME Types, Truthful, Covered, HasReached, Reached # NoBlock,
                        NEW b \in Branch[Reached] \ skipped, NEW t \in Tx, t \in Txs[b]
                 PROVE  /\ entry[t] # NoEntry
                        /\ Private(t, b) => entry[t] = <<b, pos[b]>>
    BY Zenon DEF NoHoles
  <2>2. Filled(Reached)
    BY <2>1, Zenon DEF Covered, HasReached, Reached
  <2>3. entry[t] # NoEntry
    BY <2>1, <2>2, Zenon DEF Filled
  <2>4. PICK c \in Block, n \in Nat : t \in Txs[c] /\ entry[t] = <<c, n>> /\ (n = pos[c] \/ c \in skipped)
    BY <2>1, <2>3, Zenon DEF Truthful, Placed
  <2> QED
    BY <2>3, <2>4, Zenon DEF Private
<1> QED
  BY <1>1, <1>2, <1>3, StageAlways, PTL DEF Spec

\* As long as the node runs, a transaction that two branches contain is found on the
\* branch that the index is in sync with, in whatever order ThreadSync and the callbacks
\* wrote the entries of its blocks.
THEOREM FoundAlwaysOnBranch == Spec => []FoundOnBranch
<1>1. Init => (~restarted => FirstRun)
  BY InitInvariants, Zenon
<1>2. /\ Types /\ Stage /\ Moved /\ (~restarted => FirstRun) /\ [Next]_vars
      => (~restarted => FirstRun)'
  BY FirstRunStep, Stutters, Zenon
<1>3. Types /\ Stage /\ (~restarted => FirstRun) => FoundOnBranch
  <2>1. SUFFICES ASSUME FirstRun, HasReached, Reached # NoBlock, indexing = NoBlock,
                        NEW b \in Branch[Reached], NEW t \in Txs[b]
                 PROVE  entry[t] = <<b, pos[b]>>
    BY Zenon DEF FoundOnBranch
  <2>2. Found(Reached)
    BY <2>1, Zenon DEF FirstRun, HasReached, Reached, Base
  <2> QED
    BY <2>1, <2>2, Zenon DEF Found
<1> QED
  BY <1>1, <1>2, <1>3, StageAlways, PTL DEF Spec

\* BlockUntilSyncedToCurrentChain keeps its promise: when it returns, the branch of the
\* best block of the index has every block of the active chain whose signal was sent when
\* the caller got into the queue, however the chain moved since the caller looked at it.
THEOREM AnswersAlwaysInSync == Spec => []AnswersInSync
<1>1. Types /\ Backlog => AnswersInSync
  <2>1. SUFFICES ASSUME Types, Backlog, Delivers("sync"), ~interrupt
                 PROVE  Head(queue).block \in Branch[best]
    BY Zenon DEF AnswersInSync
  <2>2. Head(queue) = queue[1] /\ 1 \in 1..Len(queue) /\ queue[1].type = "sync" /\ Base = best
    BY <2>1, HeadIs DEF Delivers, Base
  <2>3. Leads(queue, 1, queue[1].block, Base)
    BY <2>1, <2>2, Zenon DEF Backlog, Led
  <2>4. 1..(1 - 1) = {}
    OBVIOUS
  <2> QED
    BY <2>2, <2>3, <2>4, Zenon DEF Leads
<1> QED
  BY <1>1, StageAlways, BacklogAlways, PTL

\* Whatever the backlog of stale blocks was, once it is gone the index is at the tip.
THEOREM AlwaysCatchesUp == Spec => []CaughtUp
<1>1. Types /\ Backlog => CaughtUp
  <2>1. SUFFICES ASSUME Types, Backlog, CsMainFree, synced, ~interrupt, queue = <<>>, indexing = NoBlock,
                        tip # NoBlock
                 PROVE  best # NoBlock /\ tip \in Branch[best]
    BY Zenon DEF CaughtUp
  <2>2. Leads(queue, Len(queue) + 1, tip, Base) /\ Base = best
    BY <2>1, Zenon DEF Backlog, Led, Base, CsMainFree
  <2>3. 1..((Len(queue) + 1) - 1) = {}
    BY <2>1
  <2> QED
    BY <2>2, <2>3, Zenon DEF Leads
<1> QED
  BY <1>1, StageAlways, BacklogAlways, PTL

\* The callbacks never find the index without a best block, which BlockConnected takes
\* for a fatal error and ChainStateFlushed would dereference.
THEOREM BestBlockKnown == Spec => []NeverWithoutBest
<1>1. Stage => NeverWithoutBest
  BY Zenon DEF Stage, NeverWithoutBest
<1> QED
  BY <1>1, StageAlways, PTL

=============================================================================
