------------------------- MODULE ChainThreadsProofs -------------------------
(****************************************************************************)
(* What holds of ChainSelection for any number of threads, every block      *)
(* tree, every set of invalid blocks and every number of calls.             *)
(*                                                                          *)
(* Index and NeverActive, about the entries, the locks and the tip, hold in *)
(* every state.  Innocent adds what holds while no operation of the RPC     *)
(* interface was used and nothing was finalized.  The lemmas are about the  *)
(* block tree, the block index, the threads and the effect of each action.  *)
(****************************************************************************)
EXTENDS ChainSelection, WellFoundedInduction, FiniteSetTheorems, TLAPS

USE SMTT(30)

-----------------------------------------------------------------------------
(* The inductive invariants.                                               *)

\* The block index is closed under parents, and so are the linked entries.
Entries ==
    /\ linked \subseteq data /\ data \subseteq known /\ known \subseteq Block
    /\ unlinked \subseteq data \ linked
    /\ scripts \subseteq linked
    /\ IsFiniteSet(known)
    /\ \A b \in known : Ancestors[b] \subseteq known
    /\ \A b \in linked : Ancestors[b] \subseteq linked

Marks ==
    /\ failed \cup failedParent \cup parked \cup parkedParent \cup gFailed \subseteq known
    /\ candidates \subseteq linked
    /\ tip \in linked
    /\ finalized \in known \cup {None}

Order == seq \in [Block -> Int] /\ nextSeq \in Nat /\ revSeq \in Int

\* Only the owner of cs_main is within an iteration.
Control ==
    /\ csMain \in Thread \cup {None, Aborted}
    /\ pc \in [Thread -> {"idle", "loop", "find", "step"}]
    /\ mostWork \in [Thread -> linked \cup {None}]
    /\ oldTip \in [Thread -> linked \cup {None}]
    /\ calls \in 0 .. MaxCalls
    /\ \A t \in Thread :
          /\ pc[t] \in {"find", "step"} => csMain \in {t, Aborted} /\ oldTip[t] # None
          /\ pc[t] \in {"idle", "find"} => mostWork[t] = None
          /\ pc[t] = "step" => mostWork[t] # None

Index == Entries /\ Marks /\ Order /\ Control

\* A block that ConnectBlock refuses was never active.
NeverActive ==
    /\ Ancestors[tip] \cap Invalid = {}
    /\ \A t \in Thread : oldTip[t] # None => Ancestors[oldTip[t]] \cap Invalid = {}

Refused == Invalid \cup ContextInvalid
Marked == failed \cup failedParent
Parked == parked \cup parkedParent

\* Only blocks arrived so far, and none was deep enough to finalize another.
Early == calls = 0 /\ NothingToFinalize

\* Then a mark is caused by a refused block, no active chain and no target has a
\* parked entry, and what was received above a parked or a missing entry is
\* parked itself.
Blameless ==
    /\ finalized \in {None, Genesis}
    /\ data \cap ContextInvalid = {}
    /\ failed \subseteq Refused
    /\ gFailed \subseteq failed /\ failed \subseteq gFailed \cup ContextInvalid
    /\ \A b \in failedParent : Ancestors[b] \cap failed # {}
    /\ Ancestors[tip] \cap Parked = {}
    /\ \A t \in Thread : mostWork[t] # None => Ancestors[mostWork[t]] \cap Parked = {}
    /\ Parked \subseteq IF ParkDeepReorg THEN data ELSE {}
    /\ ParkDeepReorg => \A x \in data : \A y \in Ancestors[x] :
                           y \in Parked \/ y \notin data => x \in parked

\* A chain without a parked entry that ConnectBlock accepts.
Sound(b) == Ancestors[b] \cap (Parked \cup Refused) = {}

\* A chain that FindMostWorkChain accepts, and that ConnectBlock either accepts
\* or refuses above an entry that was unparked.
Good(c) ==
    /\ Ancestors[c] \cap (Parked \cup gFailed) = {}
    /\ \/ Ancestors[c] \cap Refused = {}
       \/ \E r \in Ancestors[c] \cap released : Ancestors[r] \cap Refused = {}

\* Then every chain that may become active has a candidate as good.
Supplied ==
    /\ NoAbort
    /\ \A b \in linked : Sound(b) => \E c \in candidates : Good(c) /\ ~Worse(c, b)

Innocent == (Early => Blameless) /\ (Early => RefusedAboveReleased \/ Supplied)

-----------------------------------------------------------------------------
(* The block tree.  The facts are proved by induction over the parents, for *)
(* sets of blocks.                                                          *)

\* A set of numbers has a least one.
LEMMA LeastNat ==
    ASSUME NEW T \in SUBSET Nat, T # {}
    PROVE  \E n \in T : \A m \in T : n <= m
<1> DEFINE R == OpToRel(<, Nat)
<1>1. IsWellFoundedOn(R, Nat)
  BY NatLessThanWellFounded, Zenon
<1> HIDE DEF R
<1>2. PICK n \in T : \A m \in T : ~(<<m, n>> \in R)
  BY <1>1, WFMin, Zenon
<1>3. ASSUME NEW m \in T
      PROVE  n <= m
  <2>1. m \in Nat /\ n \in Nat /\ <<m, n>> \in Nat \X Nat
    OBVIOUS
  <2>2. ~(<<m, n>>[1] < <<m, n>>[2])
    BY <1>2, <2>1, Zenon DEF R, OpToRel
  <2> QED
    BY <2>1, <2>2
<1> QED
  BY <1>3

\* A set that holds the genesis block and every block whose parent it holds is
\* the whole tree.
LEMMA TreeInduction ==
    ASSUME NEW S \in SUBSET Block, Genesis \in S,
           \A b \in Block \ {Genesis} : Parent[b] \in S => b \in S
    PROVE  S = Block
<1> DEFINE T == {Height[b] : b \in Block \ S}
<1>1. SUFFICES ASSUME S # Block PROVE FALSE
  BY Zenon
<1>2. T \in SUBSET Nat /\ T # {}
  <2>1. PICK x \in Block \ S : TRUE
    BY <1>1, Zenon
  <2>2. Height[x] \in T
    BY Zenon
  <2> QED
    BY <2>2, TreeAssumption
<1>3. PICK n \in T : \A m \in T : n <= m
  BY <1>2, LeastNat, Zenon
<1>4. PICK b \in Block \ S : Height[b] = n
  BY Zenon
<1>5. b # Genesis /\ Parent[b] \in Block \ S
  BY <1>4, TreeAssumption, Zenon
<1>6. Height[Parent[b]] \in T /\ Height[b] = Height[Parent[b]] + 1 /\ Height[Parent[b]] \in Nat
  BY <1>5, TreeAssumption
<1> HIDE DEF T
<1> QED
  BY <1>3, <1>4, <1>6

\* The chain of a block reaches from the block to the genesis block.
LEMMA AncestorsInTree ==
    \A b \in Block : Ancestors[b] \subseteq Block /\ b \in Ancestors[b] /\ Genesis \in Ancestors[b]
<1> DEFINE S == {b \in Block : /\ Ancestors[b] \subseteq Block
                               /\ b \in Ancestors[b] /\ Genesis \in Ancestors[b]}
<1>1. Genesis \in S
  BY TreeAssumption, Zenon
<1>2. \A b \in Block \ {Genesis} : Parent[b] \in S => b \in S
  BY TreeAssumption
<1>3. S \in SUBSET Block
  BY Zenon
<1> HIDE DEF S
<1>4. S = Block
  BY <1>1, <1>2, <1>3, TreeInduction, Zenon
<1> QED
  BY <1>4, Zenon DEF S

\* The chain of an ancestor is part of the chain.
LEMMA AncestorsTransitive ==
    \A c \in Block : \A b \in Ancestors[c] : Ancestors[b] \subseteq Ancestors[c]
<1> DEFINE S == {c \in Block : \A b \in Ancestors[c] : Ancestors[b] \subseteq Ancestors[c]}
<1>1. Genesis \in S
  BY TreeAssumption, Zenon
<1>2. \A b \in Block \ {Genesis} : Parent[b] \in S => b \in S
  BY TreeAssumption
<1>3. S \in SUBSET Block
  BY Zenon
<1> HIDE DEF S
<1>4. S = Block
  BY <1>1, <1>2, <1>3, TreeInduction, Zenon
<1> QED
  BY <1>4, Zenon DEF S

\* Of two blocks of a chain one is an ancestor of the other.
LEMMA AncestorsLinear ==
    \A c \in Block : \A a, b \in Ancestors[c] : a \in Ancestors[b] \/ b \in Ancestors[a]
<1> DEFINE S == {c \in Block : \A a, b \in Ancestors[c] : a \in Ancestors[b] \/ b \in Ancestors[a]}
<1>1. Genesis \in S
  BY TreeAssumption, Zenon
<1>2. \A b \in Block \ {Genesis} : Parent[b] \in S => b \in S
  BY TreeAssumption
<1>3. S \in SUBSET Block
  BY Zenon
<1> HIDE DEF S
<1>4. S = Block
  BY <1>1, <1>2, <1>3, TreeInduction, Zenon
<1> QED
  BY <1>4, Zenon DEF S

\* Height and work grow along a chain.
LEMMA AncestorsLower ==
    \A b \in Block : \A a \in Ancestors[b] \ {b} : Height[a] < Height[b] /\ Work[a] < Work[b]
<1> DEFINE S == {b \in Block : \A a \in Ancestors[b] \ {b} :
                                  Height[a] < Height[b] /\ Work[a] < Work[b]}
<1>1. Genesis \in S
  BY TreeAssumption, Zenon
<1>2. ASSUME NEW b \in Block \ {Genesis}, Parent[b] \in S
      PROVE  b \in S
  BY <1>2, TreeAssumption, AncestorsInTree
<1>3. S \in SUBSET Block
  BY Zenon
<1> HIDE DEF S
<1>4. S = Block
  BY <1>1, <1>2, <1>3, TreeInduction, Zenon
<1> QED
  BY <1>4, Zenon DEF S

\* pprev is one block further down.
LEMMA ParentFacts ==
    ASSUME NEW b \in Block \ {Genesis}
    PROVE  /\ Parent[b] \in Block
           /\ Parent[b] \in Ancestors[b]
           /\ b \notin Ancestors[Parent[b]]
           /\ Ancestors[b] = {b} \cup Ancestors[Parent[b]]
           /\ Work[Parent[b]] < Work[b]
BY TreeAssumption, AncestorsInTree, AncestorsLower

\* The block of greatest height of a part of a chain.
LEMMA HighestIs ==
    ASSUME NEW c \in Block, NEW S \in SUBSET Ancestors[c], S # {}
    PROVE  Highest(S) \in S /\ \A x \in S : Height[x] <= Height[Highest(S)]
<1> DEFINE T == {Height[c] - Height[x] : x \in S}
<1>1. \A x \in S : x \in Block /\ Height[x] \in Nat /\ Height[x] <= Height[c]
  BY AncestorsInTree, AncestorsLower, TreeAssumption
<1>2. Height[c] \in Nat
  BY TreeAssumption, Zenon
<1>3. T \in SUBSET Nat /\ T # {}
  BY <1>1, <1>2
<1>4. PICK n \in T : \A m \in T : n <= m
  BY <1>3, LeastNat, Zenon
<1>5. PICK b \in S : n = Height[c] - Height[b]
  BY Zenon
<1>6. \A x \in S : Height[c] - Height[x] \in T
  BY Zenon
<1> HIDE DEF T
<1>7. \A x \in S : Height[x] <= Height[b]
  BY <1>1, <1>2, <1>4, <1>5, <1>6
<1> QED
  BY <1>7, Zenon DEF Highest

\* A block of least height.
LEMMA LowestIs ==
    ASSUME NEW S \in SUBSET Block, S # {}
    PROVE  Lowest(S) \in S /\ \A x \in S : Height[Lowest(S)] <= Height[x]
<1> DEFINE T == {Height[x] : x \in S}
<1>1. T \in SUBSET Nat /\ T # {}
  BY TreeAssumption
<1>2. PICK n \in T : \A m \in T : n <= m
  BY <1>1, LeastNat, Zenon
<1>3. PICK b \in S : n = Height[b]
  BY Zenon
<1>4. \A x \in S : Height[x] \in T
  BY Zenon
<1> HIDE DEF T
<1>5. \A x \in S : Height[b] <= Height[x]
  BY <1>2, <1>3, <1>4, Zenon
<1> QED
  BY <1>5, Zenon DEF Lowest

\* LastCommonAncestor is an ancestor of both blocks.
LEMMA CommonAncestor ==
    ASSUME NEW a \in Block, NEW b \in Block
    PROVE  LastCommonAncestor(a, b) \in Ancestors[a] \cap Ancestors[b]
BY AncestorsInTree, HighestIs, Zenon DEF LastCommonAncestor

\* An ancestor's agreement with a third block.
LEMMA ForkBelow ==
    ASSUME NEW c \in Block, NEW b \in Ancestors[c], NEW a \in Block, SameFork(a, c)
    PROVE  SameFork(a, b) /\ SameFork(b, a)
BY AncestorsTransitive, AncestorsLinear, Zenon DEF SameFork

\* The blocks above a block of a chain descend from it.
LEMMA HigherDescends ==
    ASSUME NEW c \in Block, NEW w \in Ancestors[c], NEW x \in Ancestors[c],
           Height[x] >= Height[w]
    PROVE  w \in Ancestors[x]
BY AncestorsInTree, TreeAssumption, AncestorsLower, AncestorsLinear

\* The first block of a branch.
LEMMA FirstOfBranch ==
    ASSUME NEW a \in Block, NEW b \in Block, Ancestors[a] \ Ancestors[b] # {},
           NEW low, low = Lowest(Ancestors[a] \ Ancestors[b])
    PROVE  /\ low \in Ancestors[a] \ Ancestors[b]
           /\ low \in Block \ {Genesis}
           /\ Parent[low] \in Ancestors[a] \cap Ancestors[b]
           /\ \A x \in Ancestors[a] \ Ancestors[b] : low \in Ancestors[x]
<1> DEFINE S == Ancestors[a] \ Ancestors[b]
<1>1. S \in SUBSET Block /\ S # {}
  BY AncestorsInTree, Zenon
<1>2. low \in S /\ \A x \in S : Height[low] <= Height[x]
  BY <1>1, LowestIs, Zenon
<1>3. low \in Block \ {Genesis}
  BY <1>1, <1>2, AncestorsInTree, Zenon
<1>4. Parent[low] \in Ancestors[a] /\ Parent[low] \in Block
  BY <1>2, <1>3, ParentFacts, AncestorsTransitive
<1>5. ~(Height[low] <= Height[Parent[low]])
  BY <1>3, <1>4, TreeAssumption
<1>6. Parent[low] \notin S
  BY <1>2, <1>5, Zenon
<1>7. \A x \in S : low \in Ancestors[x]
  <2> SUFFICES ASSUME NEW x \in S PROVE low \in Ancestors[x]
    BY Zenon
  <2>1. Height[x] \in Nat /\ Height[low] \in Nat
    BY <1>1, <1>2, TreeAssumption, Zenon
  <2>2. Height[x] >= Height[low]
    BY <1>2, <2>1, Zenon
  <2> QED
    BY <1>2, <2>2, HigherDescends, Zenon
<1> QED
  BY <1>2, <1>3, <1>4, <1>6, <1>7, Zenon

-----------------------------------------------------------------------------
(* CBlockIndexWorkComparator is a total order.                             *)

\* The values that are not blocks or threads.
LEMMA Distinct ==
    /\ None \notin Block \cup Thread /\ Aborted \notin Thread \cup {None}
    /\ Genesis \in Block /\ Genesis \notin Invalid \cup ContextInvalid
BY TreeAssumption, Zenon

\* Heights and chain works are numbers.
LEMMA Heights == \A b \in Block : Height[b] \in Nat /\ Work[b] \in Nat
BY TreeAssumption, Zenon

\* CBlockIndexWorkComparator is a strict total order, whatever the sequence
\* numbers are.
LEMMA WorseOrder ==
    ASSUME NEW s \in [Block -> Int]
    PROVE  /\ \A a \in Block : ~WorseIn(s, a, a)
           /\ \A a, b \in Block : a = b \/ WorseIn(s, a, b) \/ WorseIn(s, b, a)
           /\ \A a, b \in Block : WorseIn(s, a, b) => ~WorseIn(s, b, a)
           /\ \A a, b, c \in Block : WorseIn(s, a, b) /\ ~WorseIn(s, c, b) => WorseIn(s, a, c)
           /\ \A a, b, c \in Block : ~WorseIn(s, b, a) /\ WorseIn(s, b, c) => WorseIn(s, a, c)
           /\ \A a, b \in Block : Work[a] < Work[b] => WorseIn(s, a, b)
BY TreeAssumption DEF WorseIn

-----------------------------------------------------------------------------
(* The block index.                                                        *)

\* The invariant gives every variable its type.
LEMMA IndexTypes == Index => TypeOK
BY Zenon DEF Index, Entries, Marks, Order, Control, TypeOK

\* The node that has only the genesis block.
LEMMA IndexInit ==
    ASSUME Init
    PROVE  Index
<1>1. IsFiniteSet({Genesis})
  BY FS_Singleton, Zenon
<1> QED
  BY <1>1, TreeAssumption, OptionAssumption DEF Init, Entries, Marks, Order, Control, Index

\* A header whose parent is known.
LEMMA HeaderKnown ==
    ASSUME Entries, NEW b \in Block \ {Genesis}, HeaderOK(b)
    PROVE  /\ known \cup {b} \subseteq Block
           /\ IsFiniteSet(known \cup {b})
           /\ \A x \in known \cup {b} : Ancestors[x] \subseteq known \cup {b}
<1>1. IsFiniteSet(known \cup {b})
  BY FS_AddElement, Zenon DEF Entries
<1>2. Ancestors[b] \subseteq known \cup {b}
  BY ParentFacts DEF Entries, HeaderOK
<1> QED
  BY <1>1, <1>2, Zenon DEF Entries

\* The entries that ReceivedBlockTransactions links are new, and their parents
\* are linked too.
LEMMA LinkedClosed ==
    ASSUME Entries, NEW b \in Block \ {Genesis}, b \notin data
    PROVE  /\ NowLinked(b) \subseteq unlinked \cup {b}
           /\ NowLinked(b) \cap linked = {}
           /\ \A x \in linked \cup NowLinked(b) : Ancestors[x] \subseteq linked \cup NowLinked(b)
BY ParentFacts, AncestorsInTree, AncestorsLinear, AncestorsTransitive DEF NowLinked, Entries

\* The block that ActivateBestChainStep connects next is linked and its parent
\* is the tip.
LEMMA ConnectingLinked ==
    ASSUME Entries, Control, NEW t \in Thread, NEW b \in Block, Connecting(t, b)
    PROVE  /\ mostWork[t] \in linked /\ mostWork[t] \in Block
           /\ b \in linked /\ b \in Ancestors[mostWork[t]] /\ b \in Block \ {Genesis}
           /\ Parent[b] = tip /\ Ancestors[b] = {b} \cup Ancestors[tip] /\ b \notin Ancestors[tip]
BY ParentFacts, Zenon DEF Connecting, Holds, Control, Entries

\* No step leaves a gap below an entry or below a linked entry.
LEMMA EntriesStep ==
    ASSUME Index, [Next]_vars
    PROVE  Entries'
<1> Entries /\ Control
  BY Zenon DEF Index
<1>1. ASSUME NEW b \in Block \ {Genesis}, ReceiveHeader(b)
      PROVE  Entries'
  BY <1>1, HeaderKnown, Zenon DEF ReceiveHeader, Entries
<1>2. ASSUME NEW t \in Thread, NEW b \in Block \ {Genesis}, IgnoreBlock(t, b) \/ RejectBlock(t, b)
      PROVE  Entries'
  BY <1>2, HeaderKnown DEF IgnoreBlock, RejectBlock, Entries
<1>3. ASSUME NEW t \in Thread, NEW b \in Block \ {Genesis}, AcceptBlock(t, b)
      PROVE  Entries'
  <2> DEFINE L == NowLinked(b)
  <2>1. /\ HeaderOK(b) /\ b \notin data
        /\ linked' = linked \cup L
        /\ unlinked' \subseteq IF L # {} THEN unlinked \ L ELSE unlinked \cup {b}
        /\ known' = known \cup {b} /\ data' = data \cup {b} /\ scripts' = scripts
    BY <1>3, Zenon DEF AcceptBlock
  <2>2. /\ L \subseteq unlinked \cup {b} /\ L \cap linked = {}
        /\ \A x \in linked \cup L : Ancestors[x] \subseteq linked \cup L
    BY <2>1, LinkedClosed, Zenon
  <2>3. /\ known' \subseteq Block /\ IsFiniteSet(known')
        /\ \A x \in known' : Ancestors[x] \subseteq known'
    BY <2>1, HeaderKnown, Zenon
  <2> HIDE DEF L
  <2>4. linked' \subseteq data' /\ data' \subseteq known' /\ scripts' \subseteq linked'
    BY <2>1, <2>2, Zenon DEF Entries
  <2>5. unlinked' \subseteq data' \ linked'
    BY <2>1, <2>2, Zenon DEF Entries
  <2> QED
    BY <2>1, <2>2, <2>3, <2>4, <2>5, Zenon DEF Entries
<1>4. ASSUME NEW t \in Thread, NEW b \in Block, ConnectTip(t, b) \/ FinalizeFails(t, b)
      PROVE  Entries'
  BY <1>4, ConnectingLinked DEF ConnectTip, FinalizeFails, Validated, Entries
<1>5. ASSUME NEW b \in Block \ {Genesis}, NEW x \in Block, RefuseHeader(b, x)
      PROVE  Entries'
  BY <1>5, Zenon DEF RefuseHeader, Entries, index
<1>6. ASSUME NEW t \in Thread, NEW b \in known \ {Genesis}, Operate(t, b)
      PROVE  Entries'
  BY <1>6, Zenon DEF Operate, InvalidateBlock, ParkBlock, ReconsiderBlock,
     UnparkBlockAndChildren, FinalizeBlock, PreciousBlock, ProcessKnownBlock, Entries, index
<1>7. ASSUME NEW t \in Thread,
             \/ Lock(t) \/ NoCandidate(t) \/ FindMostWorkChain(t) \/ AtTarget(t) \/ DisconnectTip(t)
             \/ \E b \in Block : ConnectFails(t, b)
      PROVE  Entries'
  BY <1>7, Zenon DEF Lock, NoCandidate, FindMostWorkChain, AtTarget, DisconnectTip, ConnectFails,
     Entries, index
<1>8. CASE UNCHANGED vars
  BY <1>8, Zenon DEF Entries, vars, index
<1> QED
  BY <1>1, <1>2, <1>3, <1>4, <1>5, <1>6, <1>7, <1>8, Zenon DEF Next, Receive, ActivateBestChain

\* The sequence numbers stay numbers.
LEMMA OrderStep ==
    ASSUME Index, [Next]_vars
    PROVE  Order'
<1> Entries /\ Order
  BY Zenon DEF Index
<1>1. ASSUME NEW t \in Thread, NEW b \in Block \ {Genesis}, AcceptBlock(t, b)
      PROVE  Order'
  <2> DEFINE L == NowLinked(b)
             fresh == {x \in L : seq[x] = 0}
             before(x) == {y \in fresh : \/ Height[y] < Height[x]
                                         \/ Height[y] = Height[x] /\ Rank[y] < Rank[x]}
  <2>1. /\ HeaderOK(b) /\ b \notin data
        /\ seq' = [x \in Block |-> IF x \in fresh THEN nextSeq + Cardinality(before(x)) ELSE seq[x]]
        /\ nextSeq' = nextSeq + Cardinality(fresh)
        /\ revSeq' = revSeq
    BY <1>1, Zenon DEF AcceptBlock, Sequenced
  <2>2. L \subseteq known \cup {b}
    BY <2>1, LinkedClosed, Zenon DEF Entries
  <2>3. IsFiniteSet(known \cup {b})
    BY <2>1, HeaderKnown, Zenon
  <2>4. fresh \subseteq known \cup {b} /\ \A x \in Block : before(x) \subseteq known \cup {b}
    BY <2>2, Zenon
  <2>5. Cardinality(fresh) \in Nat /\ \A x \in Block : Cardinality(before(x)) \in Nat
    BY <2>3, <2>4, FS_Subset, FS_CardinalityType, Zenon
  <2> HIDE DEF fresh, before
  <2> QED
    BY <2>1, <2>5 DEF Order
<1>2. ASSUME NEW t \in Thread, NEW b \in known \ {Genesis}, PreciousBlock(t, b)
      PROVE  Order'
  <2> DEFINE r == IF Work[tip] > lastPrecious THEN -1 ELSE revSeq
  <2>1. seq' = [seq EXCEPT ![b] = r] /\ revSeq' = r - 1 /\ nextSeq' = nextSeq
    BY <1>2, Zenon DEF PreciousBlock
  <2>2. r \in Int /\ b \in Block
    BY DEF Order, Entries
  <2> HIDE DEF r
  <2> QED
    BY <2>1, <2>2 DEF Order
<1>3. CASE UNCHANGED order
  BY <1>3, Zenon DEF Order, order
<1>4. ASSUME NEW b \in Block \ {Genesis}, ReceiveHeader(b) \/ \E x \in Block : RefuseHeader(b, x)
      PROVE  UNCHANGED order
  BY <1>4, Zenon DEF ReceiveHeader, RefuseHeader
<1>5. ASSUME NEW t \in Thread, NEW b \in Block \ {Genesis}, IgnoreBlock(t, b) \/ RejectBlock(t, b)
      PROVE  UNCHANGED order
  BY <1>5, Zenon DEF IgnoreBlock, RejectBlock
<1>6. ASSUME NEW t \in Thread, NEW b \in known \ {Genesis},
             \/ InvalidateBlock(t, b) \/ ParkBlock(t, b) \/ ReconsiderBlock(t, b)
             \/ UnparkBlockAndChildren(t, b) \/ FinalizeBlock(t, b) \/ ProcessKnownBlock(t, b)
      PROVE  UNCHANGED order
  BY <1>6, Zenon DEF InvalidateBlock, ParkBlock, ReconsiderBlock, UnparkBlockAndChildren,
     FinalizeBlock, ProcessKnownBlock
<1>7. ASSUME NEW t \in Thread, ActivateBestChain(t)
      PROVE  UNCHANGED order
  BY <1>7, Zenon DEF ActivateBestChain, Lock, NoCandidate, FindMostWorkChain, AtTarget, DisconnectTip,
     ConnectTip, FinalizeFails, ConnectFails
<1>8. CASE UNCHANGED vars
  BY <1>3, <1>8, Zenon DEF vars
<1> QED
  BY <1>1, <1>2, <1>3, <1>4, <1>5, <1>6, <1>7, <1>8, Zenon DEF Next, Receive, Operate

-----------------------------------------------------------------------------
(* The threads.                                                            *)

\* A call of ActivateBestChain begins.
LEMMA ActivateControl ==
    ASSUME Control, NEW t \in Thread, Free(t), Activate(t),
           linked \subseteq linked', calls' \in 0 .. MaxCalls
    PROVE  Control'
BY Zenon DEF Free, Control, Activate

\* An iteration of ActivateBestChain ends.
LEMMA UnlockControl ==
    ASSUME Control, NEW t \in Thread, csMain = t, NEW where, NEW target, Unlock(t, where, target),
           (where = "idle" /\ target = None) \/ (where = "loop" /\ target \in linked \cup {None}),
           linked' = linked, calls' = calls
    PROVE  Control'
BY Distinct, Zenon DEF Unlock, Control

\* An operation of the RPC interface is one more call, by a thread that is in
\* no other one.
LEMMA OperateCalls ==
    ASSUME NEW t \in Thread, NEW b \in known \ {Genesis}, Operate(t, b)
    PROVE  Free(t) /\ calls < MaxCalls /\ calls' = calls + 1
BY Zenon DEF Operate, InvalidateBlock, ParkBlock, ReconsiderBlock, UnparkBlockAndChildren,
   FinalizeBlock, PreciousBlock, ProcessKnownBlock, Called, Calling

\* Only the owner of cs_main is within an iteration, after every step.
LEMMA ControlStep ==
    ASSUME Index, [Next]_vars
    PROVE  Control'
<1> Entries /\ Marks /\ Control
  BY Zenon DEF Index
<1>1. ASSUME NEW b \in Block \ {Genesis}, ReceiveHeader(b) \/ \E x \in Block : RefuseHeader(b, x)
      PROVE  Control'
  BY <1>1, Distinct, Zenon DEF ReceiveHeader, RefuseHeader, index, thread, Control
<1>2. ASSUME NEW t \in Thread, NEW b \in Block \ {Genesis}, IgnoreBlock(t, b) \/ AcceptBlock(t, b)
      PROVE  Control'
  BY <1>2, ActivateControl, Zenon DEF IgnoreBlock, AcceptBlock, Control
<1>3. ASSUME NEW t \in Thread, NEW b \in Block \ {Genesis}, RejectBlock(t, b)
      PROVE  Control'
  BY <1>3, Zenon DEF RejectBlock, Control, thread
<1>4. ASSUME NEW t \in Thread, NEW b \in known \ {Genesis}, Operate(t, b)
      PROVE  Control'
  <2>2. Free(t) /\ calls' \in 0 .. MaxCalls
    BY <1>4, OperateCalls, OptionAssumption DEF Control
  <2>3. linked' = linked
    BY <1>4, Zenon DEF Operate, InvalidateBlock, ParkBlock, ReconsiderBlock, UnparkBlockAndChildren,
       FinalizeBlock, PreciousBlock, ProcessKnownBlock, index
  <2>4. CASE Activate(t)
    BY <2>2, <2>3, <2>4, ActivateControl, Zenon
  <2>5. CASE csMain' = Aborted /\ UNCHANGED <<pc, mostWork, oldTip>>
    BY <2>2, <2>3, <2>5, Distinct, Zenon DEF Control, Free
  <2> QED
    BY <1>4, <2>4, <2>5, Zenon DEF Operate, InvalidateBlock, ParkBlock, ReconsiderBlock,
       UnparkBlockAndChildren, FinalizeBlock, PreciousBlock, ProcessKnownBlock, Called
<1>5. ASSUME NEW t \in Thread, Lock(t)
      PROVE  Control'
  BY <1>5, Distinct DEF Lock, index, Marks, Entries, Control
<1>6. ASSUME NEW t \in Thread, FindMostWorkChain(t)
      PROVE  Control'
  <2>1. csMain = t /\ pc[t] = "find" /\ UNCHANGED <<linked, csMain, oldTip, calls>>
    BY <1>6, Zenon DEF FindMostWorkChain, Holds, index
  <2>2. \/ UNCHANGED <<mostWork, pc>>
        \/ \E new \in candidates : /\ mostWork' = [mostWork EXCEPT ![t] = new]
                                   /\ pc' = [pc EXCEPT ![t] = "step"]
    BY <1>6, Zenon DEF FindMostWorkChain, LookAt
  <2>3. \A new \in candidates : new \in linked /\ new # None
    BY Distinct, Zenon DEF Marks, Entries
  <2> QED
    BY <2>1, <2>2, <2>3, Zenon DEF Control
<1>7. ASSUME NEW t \in Thread,
             \/ NoCandidate(t) \/ AtTarget(t)
             \/ \E b \in Block : FinalizeFails(t, b) \/ ConnectFails(t, b)
      PROVE  Control'
  BY <1>7, UnlockControl, Zenon DEF NoCandidate, AtTarget, FinalizeFails, ConnectFails, Connecting,
     Holds, index
<1>8. ASSUME NEW t \in Thread, DisconnectTip(t)
      PROVE  Control'
  BY <1>8, Zenon DEF DisconnectTip, thread, index, Control
<1>9. ASSUME NEW t \in Thread, NEW b \in Block, ConnectTip(t, b)
      PROVE  Control'
  BY <1>9, UnlockControl, Zenon DEF ConnectTip, Connecting, Holds, Control, thread
<1>10. CASE UNCHANGED vars
  BY <1>10, Zenon DEF Control, vars, index, thread
<1> QED
  BY <1>1, <1>2, <1>3, <1>4, <1>5, <1>6, <1>7, <1>8, <1>9, <1>10, Zenon DEF Next, Receive,
     ActivateBestChain

-----------------------------------------------------------------------------
(* The marks, the tip and the finalized block.                             *)

\* The tip and the finalized block are entries of the block index.
LEMMA TipInTree ==
    ASSUME Entries, Marks
    PROVE  /\ tip \in Block /\ tip \in linked /\ tip \in known
           /\ Ancestors[tip] \subseteq linked
           /\ finalized # None => finalized \in Block /\ finalized \in known
           /\ candidates \subseteq Block
BY Zenon DEF Entries, Marks

\* UnwindBlock leaves the tip among the linked entries, and the finalized block
\* among the known ones.
LEMMA UnwindMarks ==
    ASSUME Entries, Marks, NEW b \in known \ {Genesis}, NEW f \in known \cup {None}
    PROVE  /\ UnwoundTip(b) \in linked
           /\ UnwoundTip(b) \in Ancestors[tip]
           /\ Unwound(b) \subseteq known
           /\ UnwoundFinal(b, f) \in known \cup {None}
           /\ InvalidChainFound(b, f) \in known \cup {None}
BY ParentFacts, AncestorsInTree, AncestorsTransitive, Zenon DEF Entries, Marks, UnwoundTip,
   UnwoundFinal, InvalidChainFound, Unwound

\* UnwindBlock keeps the marks, the candidates and the tip among the entries.
LEMMA UnwindKeepsMarks ==
    ASSUME Entries, Marks, NEW b \in known \ {Genesis}, NEW f \in known \cup {None},
           NEW cands \in SUBSET linked, Unwind(b, cands, f),
           UNCHANGED <<known, linked>>, parked' \cup parkedParent' \cup gFailed' \subseteq known
    PROVE  Marks'
BY UnwindMarks DEF Unwind, Repopulated, Marks

\* Unparking only takes marks away and adds linked entries.
LEMMA UnparkMarks ==
    ASSUME NEW b, NEW all \in BOOLEAN, NEW inv, NEW s
    PROVE  /\ UnparkedFailed(b, all, inv) \subseteq gFailed
           /\ Unparked(b, all, inv, s) \subseteq candidates \cup linked
           /\ UnparkFlags(b, all) => parked' \subseteq parked /\ parkedParent' \subseteq parkedParent
BY Zenon DEF UnparkedFailed, Unparked, Reconsidered, UnparkFlags

\* The block that a finalized branch takes the place of.
LEMMA FirstAgainst ==
    ASSUME NEW b \in Block, tip \in Block, ~SameFork(b, tip), NEW bad,
           bad = Lowest(Ancestors[tip] \ Ancestors[b])
    PROVE  /\ bad \in Ancestors[tip] \ Ancestors[b] /\ bad \in Block \ {Genesis}
           /\ Parent[bad] \in Ancestors[tip] \cap Ancestors[b]
BY AncestorsInTree, FirstOfBranch DEF SameFork

\* What FindMostWorkChain looks at.
PathTo(new) == Ancestors[new] \ Ancestors[tip]
Enough(new) == ParkDeepReorg /\ Work[new] > RequiredWork(new)
Above(new, w) == {b \in PathTo(new) : Height[b] > Height[w]}

\* It unparks a chain up to an entry of the path.
Released(new, up) ==
    /\ Enough(new) /\ up \in PathTo(new) /\ PathTo(new) \cap Parked \subseteq Ancestors[up]
    /\ parked' = parked \ Ancestors[up]
    /\ parkedParent' \subseteq parkedParent \ (Ancestors[up] \cup Descendants(up))
    /\ gFailed' = UnparkedFailed(up, FALSE, failed' \cup failedParent)

\* It takes the candidate for a target,
Accepted(t, new) ==
    /\ PathTo(new) \cap (failed' \cup failedParent) = {}
    /\ mostWork' = [mostWork EXCEPT ![t] = new] /\ pc' = [pc EXCEPT ![t] = "step"]
    /\ failedParent' = failedParent
    /\ \/ PathTo(new) \cap Parked = {} /\ UNCHANGED <<parking, gFailed, candidates>>
       \/ candidates \subseteq candidates' /\ \E up \in PathTo(new) : Released(new, up)

\* or takes it away, with everything above the highest entry that forbids it.
Rejected(new, w) ==
    /\ w \in failed' \cup failedParent \/ (w \in Parked /\ ~Enough(new))
    /\ \A y \in Above(new, w) : /\ w \in Ancestors[y] /\ y \notin failed' \cup failedParent
                                /\ y \in Parked => Enough(new)
    /\ UNCHANGED <<mostWork, pc>>
    /\ failedParent' = IF w \in failed' \cup failedParent THEN failedParent \cup Above(new, w)
                       ELSE failedParent
    /\ \/ /\ UNCHANGED <<parked, gFailed>>
          /\ candidates' = candidates \ (Above(new, w) \cup {w})
          /\ parkedParent' = IF w \in Parked /\ ~Enough(new) THEN parkedParent \cup Above(new, w)
                             ELSE parkedParent \ Above(new, w)
       \/ /\ candidates \ (Above(new, w) \cup {w}) \subseteq candidates'
          /\ \E up \in PathTo(new) : Released(new, up)

\* FindMostWorkChain accepts the candidate it looks at, or rejects it for a
\* failed or a parked entry on the way to it.
LEMMA LookAtCases ==
    ASSUME Entries, Marks, NEW t \in Thread, NEW new \in candidates, LookAt(t, new)
    PROVE  /\ failed' = IF Conflicts(new) THEN failed \cup {new} ELSE failed
           /\ \A c \in candidates' \ candidates : c \in linked /\ Worse(tip, c)
           /\ Accepted(t, new) \/ \E w \in PathTo(new) : Rejected(new, w)
<1> DEFINE failed1 == IF Conflicts(new) THEN failed \cup {new} ELSE failed
           inv    == failed1 \cup failedParent
           path   == Ancestors[new] \ Ancestors[tip]
           onPark == {b \in path : ParkedChain(b)}
           up     == Highest(onPark)
           enough == ParkDeepReorg /\ Work[new] > RequiredWork(new)
           unpark == /\ enough /\ onPark # {}
                     /\ \A b \in path \cap inv : Height[b] <= Height[up]
           bad    == (path \cap inv) \cup (IF enough THEN {} ELSE onPark)
           cands  == IF unpark THEN Unparked(up, FALSE, inv, seq) ELSE candidates
           worst  == Highest(bad)
           above  == {b \in path : Height[b] > Height[worst]}
           park1  == IF unpark THEN parkedParent \ (Ancestors[up] \cup Descendants(up))
                     ELSE parkedParent
<1>1. /\ failed' = failed1
      /\ parked' = IF unpark THEN parked \ Ancestors[up] ELSE parked
      /\ gFailed' = IF unpark THEN UnparkedFailed(up, FALSE, inv) ELSE gFailed
  BY Zenon DEF LookAt
<1>2. \/ /\ bad = {}
         /\ mostWork' = [mostWork EXCEPT ![t] = new]
         /\ pc' = [pc EXCEPT ![t] = "step"]
         /\ candidates' = cands
         /\ parkedParent' = park1
         /\ UNCHANGED failedParent
      \/ /\ bad # {}
         /\ candidates' = cands \ (above \cup {worst})
         /\ failedParent' = IF worst \in inv THEN failedParent \cup above
                            ELSE failedParent \ above
         /\ parkedParent' = IF worst \in onPark /\ ~enough THEN park1 \cup above
                            ELSE park1 \ above
         /\ UNCHANGED <<mostWork, pc>>
  BY Zenon DEF LookAt
<1>3. new \in Block /\ path \subseteq Ancestors[new] /\ onPark \subseteq path /\ bad \subseteq path
      /\ onPark = path \cap Parked
  BY Zenon DEF Marks, Entries, ParkedChain, Parked
<1>4. \A b \in path : b \in Block /\ Height[b] \in Nat
  BY <1>3, AncestorsInTree, TreeAssumption, Zenon
<1>5. onPark # {} => up \in path /\ onPark \subseteq Ancestors[up]
  <2> SUFFICES ASSUME onPark # {} PROVE up \in path /\ onPark \subseteq Ancestors[up]
    BY Zenon
  <2>1. up \in onPark /\ \A x \in onPark : Height[x] <= Height[up]
    BY <1>3, HighestIs, Zenon
  <2> HIDE DEF up, onPark, path
  <2>2. \A x \in onPark : Height[up] >= Height[x] /\ x \in Ancestors[new] /\ up \in Ancestors[new]
    BY <1>3, <1>4, <2>1, Zenon
  <2> QED
    BY <1>3, <2>1, <2>2, HigherDescends, Zenon
<1>6. bad # {} => worst \in bad /\ \A x \in above : worst \in Ancestors[x] /\ x \notin bad
  <2> SUFFICES ASSUME bad # {} PROVE worst \in bad /\ \A x \in above : worst \in Ancestors[x] /\ x \notin bad
    BY Zenon
  <2>1. worst \in bad /\ \A x \in bad : Height[x] <= Height[worst]
    BY <1>3, HighestIs, Zenon
  <2> HIDE DEF bad, worst, path
  <2>2. \A x \in above : /\ Height[x] >= Height[worst] /\ ~(Height[x] <= Height[worst])
                         /\ x \in Ancestors[new] /\ worst \in Ancestors[new]
    BY <1>3, <1>4, <2>1
  <2> QED
    BY <1>3, <2>1, <2>2, HigherDescends, Zenon
<1>7. PathTo(new) = path /\ (Enough(new) <=> enough) /\ above = Above(new, worst)
  BY Zenon DEF PathTo, Enough, Above
<1>8. candidates \subseteq cands /\ \A c \in cands \ candidates : c \in linked /\ Worse(tip, c)
  BY Zenon DEF Unparked, Reconsidered, Worse
<1>9. unpark => /\ enough /\ up \in path /\ onPark \subseteq Ancestors[up]
                /\ cands = Unparked(up, FALSE, inv, seq)
                /\ park1 = parkedParent \ (Ancestors[up] \cup Descendants(up))
  BY <1>5, Zenon
<1>10. ~unpark => park1 = parkedParent /\ cands = candidates
  BY Zenon
<1>11. bad = {} => path \cap inv = {} /\ (~unpark => onPark = {})
  BY Zenon
<1>12. bad # {} => worst \in inv \/ (worst \in onPark /\ ~enough)
  BY <1>6, Zenon
<1>13. \A x \in path : x \notin bad => x \notin inv /\ (x \in onPark => enough)
  BY Zenon
<1> HIDE DEF failed1, inv, path, onPark, up, enough, unpark, bad, cands, worst, above, park1
<1>14. inv = failed' \cup failedParent
  BY <1>1, Zenon DEF inv
<1>15. ASSUME unpark, parkedParent' \subseteq park1
       PROVE  Released(new, up)
  BY <1>1, <1>3, <1>7, <1>9, <1>14, <1>15, Zenon DEF Released
<1>16. CASE bad = {}
  BY <1>1, <1>2, <1>3, <1>7, <1>8, <1>9, <1>10, <1>11, <1>14, <1>15, <1>16, Zenon DEF Accepted,
     parking, failed1
<1>17. CASE bad # {}
  BY <1>1, <1>2, <1>3, <1>6, <1>7, <1>8, <1>9, <1>10, <1>12, <1>13, <1>14, <1>15, <1>17, Zenon DEF
     above, Rejected, failed1
<1> QED
  BY <1>16, <1>17, Zenon

\* What FindMostWorkChain does to the marks and to the candidates.
LEMMA LookAtMarks ==
    ASSUME Entries, Marks, NEW t \in Thread, NEW new \in candidates, LookAt(t, new)
    PROVE  /\ failed \subseteq failed' /\ failed' \subseteq failed \cup {new}
           /\ failedParent' \subseteq failedParent \cup PathTo(new)
           /\ parked' \subseteq parked
           /\ parkedParent' \subseteq parkedParent \cup PathTo(new)
           /\ gFailed' \subseteq gFailed
           /\ candidates' \subseteq candidates \cup linked
<1>1. \A up : Released(new, up) => /\ parked' \subseteq parked /\ parkedParent' \subseteq parkedParent
                                 /\ gFailed' \subseteq gFailed
  BY Zenon DEF Released, UnparkedFailed
<1>2. CASE Accepted(t, new)
  BY <1>1, <1>2, LookAtCases, Zenon DEF Accepted, parking
<1>3. ASSUME NEW w \in PathTo(new), Rejected(new, w)
      PROVE  /\ failedParent' \subseteq failedParent \cup PathTo(new)
             /\ parked' \subseteq parked
             /\ parkedParent' \subseteq parkedParent \cup PathTo(new)
             /\ gFailed' \subseteq gFailed
  BY <1>1, <1>3, Zenon DEF Rejected, Above
<1> QED
  BY <1>2, <1>3, LookAtCases, Zenon

\* FindBlockToFinalize goes down from the new tip.
LEMMA FinalizeBelow ==
    ASSUME NEW b \in Block, NEW f \in ToFinalize(b)
    PROVE  f = None \/ f \in Ancestors[b]
BY AncestorsTransitive DEF ToFinalize

\* The first block of a branch that is refused.
LEMMA RefusedBranch ==
    ASSUME Entries, Control, NeverActive, NEW t \in Thread, NEW b \in Block, ConnectFails(t, b),
           NEW low, low = Lowest(Ancestors[mostWork[t]] \ Ancestors[oldTip[t]])
    PROVE  /\ oldTip[t] \in Block
           /\ b \in Ancestors[mostWork[t]] \ Ancestors[oldTip[t]]
           /\ low \in Ancestors[mostWork[t]] \ Ancestors[oldTip[t]]
           /\ low \in known \ {Genesis}
           /\ Parent[low] \in Ancestors[mostWork[t]] \cap Ancestors[oldTip[t]]
           /\ \A x \in Ancestors[mostWork[t]] \ Ancestors[oldTip[t]] : low \in Ancestors[x]
<1>1. Connecting(t, b) /\ b \in Invalid /\ pc[t] = "step"
  BY Zenon DEF ConnectFails, Connecting, Holds
<1>2. /\ mostWork[t] \in Block /\ mostWork[t] \in linked /\ b \in Ancestors[mostWork[t]]
      /\ Ancestors[mostWork[t]] \subseteq known
  BY <1>1, ConnectingLinked, Zenon DEF Entries
<1>3. oldTip[t] \in Block /\ Ancestors[oldTip[t]] \cap Invalid = {}
  BY <1>1, Zenon DEF Control, NeverActive, Entries
<1>4. b \in Ancestors[mostWork[t]] \ Ancestors[oldTip[t]]
  BY <1>1, <1>2, <1>3, Zenon
<1> QED
  BY <1>2, <1>3, <1>4, FirstOfBranch

\* Steps that change no mark, no candidate and no chain.
Minor ==
    /\ known \subseteq known'
    /\ UNCHANGED <<data, linked, failed, failedParent, gFailed, parked, parkedParent, seq, candidates,
                   tip, finalized>>
    /\ \A t \in Thread : mostWork'[t] \in {mostWork[t], None}
    /\ NoAbort => NoAbort'

\* What the steps of the node may be.
LEMMA Steps ==
    ASSUME Control, [Next]_vars
    PROVE  \/ Minor
           \/ \E b \in Block \ {Genesis}, x \in Block : RefuseHeader(b, x)
           \/ \E t \in Thread, b \in Block \ {Genesis} : RejectBlock(t, b) \/ AcceptBlock(t, b)
           \/ \E t \in Thread, b \in known \ {Genesis} : Operate(t, b)
           \/ \E t \in Thread : FindMostWorkChain(t) \/ DisconnectTip(t)
           \/ \E t \in Thread, b \in Block : ConnectTip(t, b) \/ ConnectFails(t, b)
<1>1. ASSUME NEW b \in Block \ {Genesis}, ReceiveHeader(b)
      PROVE  Minor
  BY <1>1, Zenon DEF ReceiveHeader, failure, parking, order, thread, Minor, NoAbort
<1>2. ASSUME NEW t \in Thread, NEW b \in Block \ {Genesis}, IgnoreBlock(t, b)
      PROVE  Minor
  BY <1>2, Zenon DEF IgnoreBlock, Activate, failure, parking, order, Minor, NoAbort
<1>3. ASSUME NEW t \in Thread, Lock(t)
      PROVE  Minor
  BY <1>3, Distinct, Zenon DEF Lock, index, failure, parking, order, Minor, NoAbort
<1>4. ASSUME NEW t \in Thread, NoCandidate(t) \/ AtTarget(t) \/ \E b \in Block : FinalizeFails(t, b)
      PROVE  Minor
  BY <1>4, Distinct, Zenon DEF NoCandidate, AtTarget, FinalizeFails, Unlock, index, failure,
     parking, order, Control, Minor, NoAbort
<1>5. CASE UNCHANGED vars
  BY <1>5, Zenon DEF vars, index, failure, parking, order, thread, Minor, NoAbort
<1> QED
  BY <1>1, <1>2, <1>3, <1>4, <1>5, Zenon DEF Next, Receive, ActivateBestChain

\* Every step records what was unparked and whether a target was lost.
LEMMA Recorded ==
    ASSUME [Next]_vars
    PROVE  /\ UNCHANGED vars \/ History
           /\ released' = released \cup (parked \ parked')
<1>1. ASSUME NEW b \in Block \ {Genesis}, ReceiveHeader(b) \/ \E x \in Block : RefuseHeader(b, x)
      PROVE  History
  BY <1>1, Zenon DEF ReceiveHeader, RefuseHeader
<1>2. ASSUME NEW t \in Thread, NEW b \in Block \ {Genesis}, Receive(t, b)
      PROVE  History
  BY <1>2, Zenon DEF Receive, IgnoreBlock, RejectBlock, AcceptBlock
<1>3. ASSUME NEW t \in Thread, NEW b \in known \ {Genesis}, Operate(t, b)
      PROVE  History
  <2>1. CASE InvalidateBlock(t, b) \/ ParkBlock(t, b) \/ ReconsiderBlock(t, b) \/ UnparkBlockAndChildren(t, b)
    BY <2>1, Zenon DEF InvalidateBlock, ParkBlock, ReconsiderBlock, UnparkBlockAndChildren
  <2>2. CASE FinalizeBlock(t, b)
    BY <2>2, Zenon DEF FinalizeBlock
  <2>3. CASE PreciousBlock(t, b) \/ ProcessKnownBlock(t, b)
    BY <2>3, Zenon DEF PreciousBlock, ProcessKnownBlock
  <2> QED
    BY <1>3, <2>1, <2>2, <2>3, Zenon DEF Operate
<1>4. ASSUME NEW t \in Thread, ActivateBestChain(t)
      PROVE  History
  BY <1>4, Zenon DEF ActivateBestChain, Lock, NoCandidate, FindMostWorkChain, AtTarget, DisconnectTip,
     ConnectTip, FinalizeFails, ConnectFails
<1>5. UNCHANGED vars => released' = released \cup (parked \ parked')
  BY Zenon DEF vars, parking
<1>6. UNCHANGED vars \/ History
  BY <1>1, <1>2, <1>3, <1>4, Zenon DEF Next
<1> QED
  BY <1>5, <1>6, Zenon DEF History

\* While a thread is within an iteration, no other step is possible.
LEMMA WithinIteration ==
    ASSUME [Next]_vars, csMain # None
    PROVE  \/ UNCHANGED vars
           \/ \E t \in Thread :
                 \/ FindMostWorkChain(t) \/ DisconnectTip(t)
                 \/ NoCandidate(t) \/ AtTarget(t)
                 \/ \E b \in Block : ConnectTip(t, b) \/ FinalizeFails(t, b) \/ ConnectFails(t, b)
BY OperateCalls, Zenon DEF ReceiveHeader, RefuseHeader, Receive, IgnoreBlock, RejectBlock,
   AcceptBlock, Free, Lock, Next, ActivateBestChain

\* InvalidChainFound goes back to an ancestor.
LEMMA FoundBelow ==
    ASSUME NEW b \in Block \ {Genesis}, NEW f \in Block
    PROVE  InvalidChainFound(b, f) \in Ancestors[f]
BY AncestorsInTree, ParentFacts, AncestorsTransitive, Zenon DEF InvalidChainFound, Finalized

\* Disconnecting stops above the genesis block.
LEMMA DisconnectFacts ==
    ASSUME Entries, Marks, Control, NEW t \in Thread, DisconnectTip(t)
    PROVE  /\ csMain = t /\ pc[t] = "step"
           /\ mostWork[t] \in linked /\ mostWork[t] \in Block
           /\ tip \in Block \ {Genesis} /\ tip \notin Ancestors[mostWork[t]]
           /\ tip' = Parent[tip] /\ Ancestors[tip] = {tip} \cup Ancestors[Parent[tip]]
           /\ tip \notin Ancestors[Parent[tip]] /\ Parent[tip] \in Block
           /\ finalized' = IF finalized = tip THEN Parent[tip] ELSE finalized
           /\ UNCHANGED <<known, data, linked, failed, failedParent, gFailed, parked, parkedParent, seq,
                          candidates, csMain, mostWork>>
BY AncestorsInTree, TipInTree, ParentFacts DEF DisconnectTip, Holds, Control, Entries, index, failure,
   parking, order, thread

\* What connecting a block changes.
LEMMA ConnectFacts ==
    ASSUME Entries, Control, NEW t \in Thread, NEW b \in Block, ConnectTip(t, b)
    PROVE  /\ csMain = t /\ mostWork[t] \in linked /\ mostWork[t] \in Block
           /\ b \in linked /\ b \in Ancestors[mostWork[t]] /\ b \in Block \ {Genesis}
           /\ b \notin Invalid /\ Ancestors[b] = {b} \cup Ancestors[tip] /\ b \notin Ancestors[tip]
           /\ \E f \in ToFinalize(b) : /\ f # None => CanFinalize(f)
                                      /\ finalized' = IF f = None THEN finalized ELSE FinalizedWith(f)
           /\ tip' = b /\ scripts' = Validated(b) /\ candidates' = Pruned(candidates, seq, b)
           /\ \A u \in Thread : mostWork'[u] \in {mostWork[u], None}
           /\ candidates' # {} => csMain' \in {csMain, None}
           /\ UNCHANGED <<known, data, linked, failed, failedParent, gFailed, parked, parkedParent, seq>>
<1>1. Connecting(t, b)
  BY Zenon DEF ConnectTip
<1>2. \A u \in Thread : mostWork'[u] \in {mostWork[u], None}
  BY Zenon DEF ConnectTip, Unlock, thread, Control
<1> QED
  BY <1>1, <1>2, ConnectingLinked, Zenon DEF ConnectTip, Connecting, Holds, Unlock, thread, failure,
     parking, order

\* What refusing a block changes.
LEMMA RefuseFacts ==
    ASSUME Entries, Control, NeverActive, NEW t \in Thread, NEW b \in Block, ConnectFails(t, b)
    PROVE  /\ csMain = t /\ mostWork[t] \in linked /\ b \in Ancestors[mostWork[t]]
           /\ b \in Invalid /\ b \in known \ {Genesis} /\ b \in linked /\ b \notin Ancestors[tip]
           /\ failed' = failed \cup {b} /\ gFailed' = gFailed \cup {b}
           /\ \E low \in known \ {Genesis} :
                 finalized' = InvalidChainFound(low, InvalidChainFound(b, finalized))
           /\ \A u \in Thread : mostWork'[u] \in {mostWork[u], None}
           /\ csMain' = None
           /\ UNCHANGED <<known, data, linked, failedParent, parked, parkedParent, seq, candidates, tip>>
<1>1. Connecting(t, b)
  BY Zenon DEF ConnectFails
<1>2. \A u \in Thread : mostWork'[u] \in {mostWork[u], None}
  BY Zenon DEF ConnectFails, Unlock, Control
<1>3. b \in known
  BY <1>1, ConnectingLinked, Zenon DEF Entries
<1>4. Lowest(Ancestors[mostWork[t]] \ Ancestors[oldTip[t]]) \in known \ {Genesis}
  BY RefusedBranch, Zenon
<1> QED
  BY <1>1, <1>2, <1>3, <1>4, ConnectingLinked, Zenon DEF ConnectFails, InvalidBlockFound, Connecting, Holds,
     Unlock, index, parking, order

\* Marks, candidates, the tip and the finalized block stay entries of the index.
LEMMA MarksStep ==
    ASSUME Index, NeverActive, [Next]_vars
    PROVE  Marks'
<1> Entries /\ Marks /\ Control
  BY Zenon DEF Index
<1>1. CASE Minor
  BY <1>1, Zenon DEF Minor, Marks
<1>2. ASSUME NEW b \in Block \ {Genesis}, NEW x \in Block, RefuseHeader(b, x)
      PROVE  Marks'
  BY <1>2 DEF RefuseHeader, index, parking, Entries, Marks
<1>3. ASSUME NEW t \in Thread, NEW b \in Block \ {Genesis}, RejectBlock(t, b)
      PROVE  Marks'
  BY <1>3, Zenon DEF RejectBlock, parking, Marks
<1>4. ASSUME NEW t \in Thread, NEW b \in Block \ {Genesis}, AcceptBlock(t, b)
      PROVE  Marks'
  BY <1>4, Zenon DEF AcceptBlock, failure, Marks
<1>5. ASSUME NEW t \in Thread, NEW b \in known \ {Genesis}, Operate(t, b)
      PROVE  Marks'
  <2>1. CASE InvalidateBlock(t, b)
    BY <2>1, UnwindKeepsMarks, Zenon DEF InvalidateBlock, index, parking, Marks
  <2>2. CASE ParkBlock(t, b)
    BY <2>2, UnwindMarks DEF ParkBlock, Repopulated, index, failure, Marks
  <2>3. CASE ReconsiderBlock(t, b)
    BY <2>3, CommonAncestor, TipInTree, Zenon DEF ReconsiderBlock, Reconsidered, index, parking,
       Entries, Marks
  <2>4. CASE UnparkBlockAndChildren(t, b)
    BY <2>4, UnparkMarks, Zenon DEF UnparkBlockAndChildren, index, Marks
  <2>5. CASE FinalizeBlock(t, b)
    <3> DEFINE inv   == failed \cup failedParent
               cands == IF ParkedChain(b) THEN Unparked(b, FALSE, inv, seq) ELSE candidates
               fails == IF ParkedChain(b) THEN UnparkedFailed(b, FALSE, inv) ELSE gFailed
               bad   == Lowest(Ancestors[tip] \ Ancestors[b])
    <3>1. cands \subseteq linked /\ fails \subseteq known
      BY UnparkMarks, Zenon DEF Marks
    <3>2. /\ parked' \subseteq known /\ parkedParent' \subseteq known
          /\ UNCHANGED <<known, linked>>
      BY <2>5, UnparkMarks, Zenon DEF FinalizeBlock, index, parking, Marks
    <3>3. FinalizedWith(b) \in known \cup {None}
      BY Zenon DEF Marks, FinalizedWith
    <3>4. CASE SameFork(b, tip)
      BY <2>5, <3>1, <3>2, <3>3, <3>4, Zenon DEF FinalizeBlock, Marks
    <3>5. CASE ~SameFork(b, tip)
      <4>1. Unwind(bad, cands, FinalizedWith(b)) /\ gFailed' = fails \cup {bad}
        BY <2>5, <3>5, Zenon DEF FinalizeBlock
      <4>2. bad \in known \ {Genesis}
        BY <3>5, FirstAgainst, TipInTree, Zenon DEF Entries
      <4> HIDE DEF bad, cands, fails
      <4> QED
        BY <3>1, <3>2, <3>3, <4>1, <4>2, UnwindKeepsMarks, Zenon
    <3> QED
      BY <3>4, <3>5, Zenon
  <2>6. CASE PreciousBlock(t, b)
    BY <2>6, UnparkMarks, Zenon DEF PreciousBlock, index, Reconsidered, Pruned, Marks
  <2>7. CASE ProcessKnownBlock(t, b)
    BY <2>7, Zenon DEF ProcessKnownBlock, Marks, index, failure, parking
  <2> QED
    BY <1>5, <2>1, <2>2, <2>3, <2>4, <2>5, <2>6, <2>7, Zenon DEF Operate
<1>6. ASSUME NEW t \in Thread, FindMostWorkChain(t)
       PROVE  Marks'
  <2>1. PICK new \in candidates : LookAt(t, new)
    BY <1>6, Zenon DEF FindMostWorkChain
  <2>2. UNCHANGED <<known, linked, tip, finalized>>
    BY <1>6, Zenon DEF FindMostWorkChain, index
  <2>3. new \in known /\ Ancestors[new] \subseteq known
    BY Zenon DEF Marks, Entries
  <2> QED
    BY <2>1, <2>2, <2>3, LookAtMarks DEF Marks, PathTo
<1>7. ASSUME NEW t \in Thread, DisconnectTip(t)
       PROVE  Marks'
  BY <1>7, DisconnectFacts, TipInTree, ParentFacts DEF Entries, Marks
<1>8. ASSUME NEW t \in Thread, NEW b \in Block, ConnectTip(t, b)
       PROVE  Marks'
  <2>1. PICK f \in ToFinalize(b) : finalized' = IF f = None THEN finalized ELSE FinalizedWith(f)
    BY <1>8, ConnectFacts, Zenon
  <2>2. finalized' \in known \cup {None}
    BY <2>1, <1>8, ConnectFacts, FinalizeBelow, Zenon DEF FinalizedWith, Entries, Marks
  <2> QED
    BY <1>8, <2>2, ConnectFacts, Zenon DEF Pruned, Marks
<1>9. ASSUME NEW t \in Thread, NEW b \in Block, ConnectFails(t, b)
       PROVE  Marks'
  <2>1. PICK low \in known \ {Genesis} :
             finalized' = InvalidChainFound(low, InvalidChainFound(b, finalized))
    BY <1>9, RefuseFacts, Zenon
  <2>2. b \in known \ {Genesis} /\ finalized' \in known \cup {None}
    BY <1>9, <2>1, RefuseFacts, UnwindMarks, Zenon DEF Marks
  <2> QED
    BY <1>9, <2>2, RefuseFacts DEF Marks
<1> QED
  BY <1>1, <1>2, <1>3, <1>4, <1>5, <1>6, <1>7, <1>8, <1>9, Steps, Zenon

\* The tip moves down, or a block is connected to it.
LEMMA TipMoves ==
    ASSUME Index, [Next]_vars
    PROVE  tip' \in Ancestors[tip] \/ \E t \in Thread, b \in Block : ConnectTip(t, b)
<1> Entries /\ Marks /\ Control
  BY Zenon DEF Index
<1>1. tip \in Block /\ tip \in Ancestors[tip] /\ Ancestors[tip] \subseteq known
  BY TipInTree, AncestorsInTree, Zenon DEF Entries
<1>2. CASE tip' = tip
  BY <1>1, <1>2, Zenon
<1>3. ASSUME NEW t \in Thread, NEW b \in known \ {Genesis}, InvalidateBlock(t, b) \/ ParkBlock(t, b)
      PROVE  tip' \in Ancestors[tip]
  BY <1>3, UnwindMarks DEF InvalidateBlock, ParkBlock, Unwind, Marks
<1>4. ASSUME NEW t \in Thread, NEW b \in known \ {Genesis}, FinalizeBlock(t, b)
      PROVE  tip' \in Ancestors[tip]
  <2> DEFINE bad == Lowest(Ancestors[tip] \ Ancestors[b])
  <2>1. tip' = tip \/ (~SameFork(b, tip) /\ tip' = UnwoundTip(bad))
    BY <1>4, Zenon DEF FinalizeBlock, Unwind
  <2>2. ~SameFork(b, tip) => bad \in known \ {Genesis}
    BY <1>1, FirstAgainst, Zenon DEF Entries
  <2> HIDE DEF bad
  <2> QED
    BY <1>1, <2>1, <2>2, UnwindMarks, Zenon DEF Marks
<1>5. ASSUME NEW t \in Thread, DisconnectTip(t)
      PROVE  tip' \in Ancestors[tip]
  BY <1>5, DisconnectFacts, AncestorsInTree, Zenon
<1>6. ASSUME NEW t \in Thread, NEW b \in known \ {Genesis},
             \/ ReconsiderBlock(t, b) \/ UnparkBlockAndChildren(t, b) \/ PreciousBlock(t, b)
             \/ ProcessKnownBlock(t, b)
      PROVE  tip' = tip
  BY <1>6, Zenon DEF ReconsiderBlock, UnparkBlockAndChildren, PreciousBlock, ProcessKnownBlock
<1>7. ASSUME NEW t \in Thread, NEW b \in Block,
             RejectBlock(t, b) \/ AcceptBlock(t, b) \/ ConnectFails(t, b)
      PROVE  tip' = tip
  BY <1>7, Zenon DEF RejectBlock, AcceptBlock, ConnectFails
<1>8. ASSUME \/ Minor \/ \E t \in Thread : FindMostWorkChain(t)
             \/ \E b \in Block \ {Genesis}, x \in Block : RefuseHeader(b, x)
      PROVE  tip' = tip
  BY <1>8, Zenon DEF Minor, FindMostWorkChain, RefuseHeader
<1> QED
  BY <1>2, <1>3, <1>4, <1>5, <1>6, <1>7, <1>8, Steps, Zenon DEF Operate

\* A block that ConnectBlock refuses does not become active.
LEMMA NeverActiveStep ==
    ASSUME Index, NeverActive, [Next]_vars
    PROVE  NeverActive'
<1> Entries /\ Marks /\ Control
  BY Zenon DEF Index
<1>1. Ancestors[tip'] \cap Invalid = {}
  BY TipInTree, AncestorsTransitive, ConnectFacts, TipMoves DEF NeverActive
<1>2. \A t \in Thread : oldTip'[t] \in {oldTip[t], tip, None}
  <2>1. CASE UNCHANGED oldTip
    BY <2>1, Zenon
  <2>2. ASSUME NEW t \in Thread, Lock(t)
        PROVE  \A u \in Thread : oldTip'[u] \in {oldTip[u], tip, None}
    BY <2>2, Zenon DEF Lock, Control
  <2>3. ASSUME NEW t \in Thread, NEW where, NEW target, Unlock(t, where, target)
        PROVE  \A u \in Thread : oldTip'[u] \in {oldTip[u], tip, None}
    BY <2>3, Zenon DEF Unlock, Control
  <2>4. ASSUME NEW t \in Thread,
               \/ NoCandidate(t) \/ AtTarget(t)
               \/ \E b \in Block : FinalizeFails(t, b) \/ ConnectFails(t, b)
        PROVE  \E where, target : Unlock(t, where, target)
    BY <2>4, Zenon DEF NoCandidate, AtTarget, FinalizeFails, ConnectFails
  <2>5. ASSUME NEW t \in Thread, NEW b \in Block, ConnectTip(t, b)
        PROVE  UNCHANGED oldTip \/ \E where, target : Unlock(t, where, target)
    BY <2>5, Zenon DEF ConnectTip, thread
  <2>6. ASSUME NEW t \in Thread, FindMostWorkChain(t) \/ DisconnectTip(t)
        PROVE  UNCHANGED oldTip
    BY <2>6, Zenon DEF FindMostWorkChain, DisconnectTip, thread
  <2>7. ASSUME NEW b \in Block \ {Genesis}, ReceiveHeader(b) \/ \E x \in Block : RefuseHeader(b, x)
        PROVE  UNCHANGED oldTip
    BY <2>7, Zenon DEF ReceiveHeader, RefuseHeader, thread
  <2>8. ASSUME NEW t \in Thread, NEW b \in Block \ {Genesis}, Receive(t, b)
        PROVE  UNCHANGED oldTip
    BY <2>8, Zenon DEF Receive, IgnoreBlock, RejectBlock, AcceptBlock, Activate, thread
  <2>9. ASSUME NEW t \in Thread, NEW b \in known \ {Genesis}, Operate(t, b)
        PROVE  UNCHANGED oldTip
    BY <2>9, Zenon DEF Operate, InvalidateBlock, ParkBlock, ReconsiderBlock, UnparkBlockAndChildren,
       FinalizeBlock, PreciousBlock, ProcessKnownBlock, Called, Activate
  <2>10. CASE UNCHANGED vars
    BY <2>1, <2>10, Zenon DEF vars, thread
  <2> QED
    BY <2>1, <2>2, <2>3, <2>4, <2>5, <2>6, <2>7, <2>8, <2>9, <2>10, Zenon DEF Next,
       ActivateBestChain
<1> QED
  BY <1>1, <1>2, Zenon DEF NeverActive

-----------------------------------------------------------------------------
(* Finality.                                                               *)

\* Within an iteration of ActivateBestChain the finalized block moves along one
\* branch.
LEMMA OneBranchStep ==
    ASSUME Index, NeverActive, [Next]_vars, csMain # None, finalized # None
    PROVE  finalized' # None /\ SameFork(finalized, finalized')
<1> Entries /\ Marks /\ Control
  BY Zenon DEF Index
<1>1. finalized \in Block /\ finalized \in Ancestors[finalized]
  BY TipInTree, AncestorsInTree, Zenon
<1>2. SUFFICES ASSUME finalized' # finalized
               PROVE  finalized' # None /\ SameFork(finalized, finalized')
  BY <1>1, Zenon DEF SameFork
<1>3. ASSUME finalized' \in Ancestors[finalized]
      PROVE  finalized' # None /\ SameFork(finalized, finalized')
  BY <1>1, <1>3, AncestorsInTree, Distinct, Zenon DEF SameFork
<1>4. ASSUME NEW t \in Thread, DisconnectTip(t)
      PROVE  finalized' \in Ancestors[finalized]
  BY <1>2, <1>4, DisconnectFacts, ParentFacts
<1>5. ASSUME NEW t \in Thread, NEW b \in Block, ConnectTip(t, b)
      PROVE  finalized' # None /\ SameFork(finalized, finalized')
  BY <1>2, <1>5, ConnectFacts, Zenon DEF FinalizedWith, CanFinalize, Conflicts, SameFork
<1>6. ASSUME NEW t \in Thread, NEW b \in Block, ConnectFails(t, b)
      PROVE  finalized' \in Ancestors[finalized]
  <2>1. PICK low \in known \ {Genesis} :
             finalized' = InvalidChainFound(low, InvalidChainFound(b, finalized))
    BY <1>6, RefuseFacts, Zenon
  <2>2. InvalidChainFound(b, finalized) \in Ancestors[finalized]
    BY <1>1, <1>6, RefuseFacts, FoundBelow, Zenon DEF Entries
  <2> QED
    BY <1>1, <2>1, <2>2, FoundBelow, AncestorsInTree, AncestorsTransitive, Zenon DEF Entries
<1>7. ASSUME NEW t \in Thread,
             \/ FindMostWorkChain(t) \/ NoCandidate(t) \/ AtTarget(t)
             \/ \E b \in Block : FinalizeFails(t, b)
      PROVE  FALSE
  BY <1>2, <1>7, Zenon DEF FindMostWorkChain, NoCandidate, AtTarget, FinalizeFails
<1>8. CASE UNCHANGED vars
  BY <1>2, <1>8, Zenon DEF vars
<1> QED
  BY <1>3, <1>4, <1>5, <1>6, <1>7, <1>8, WithinIteration, Zenon

-----------------------------------------------------------------------------
(* Threads that only receive blocks.                                       *)

\* If only blocks have arrived after a step, the same holds before it.
LEMMA EarlyBefore ==
    ASSUME Index, [Next]_vars, Early'
    PROVE  Early /\ \A t \in Thread, b \in known \ {Genesis} : ~Operate(t, b)
<1> calls \in Nat /\ calls' = 0
  BY OptionAssumption DEF Index, Control, Early
<1>1. ASSUME NEW t \in Thread, NEW b \in known \ {Genesis}, Operate(t, b)
      PROVE  FALSE
  BY <1>1, OperateCalls
<1>2. CASE scripts \subseteq scripts' /\ calls' = calls
  BY <1>1, <1>2, Zenon DEF Early, NothingToFinalize
<1>3. ASSUME NEW b \in Block \ {Genesis}, ReceiveHeader(b) \/ \E x \in Block : RefuseHeader(b, x)
      PROVE  scripts \subseteq scripts' /\ calls' = calls
  BY <1>3, Zenon DEF ReceiveHeader, RefuseHeader, index
<1>4. ASSUME NEW t \in Thread, NEW b \in Block \ {Genesis}, Receive(t, b)
      PROVE  scripts \subseteq scripts' /\ calls' = calls
  BY <1>4, Zenon DEF Receive, IgnoreBlock, RejectBlock, AcceptBlock
<1>5. ASSUME NEW t \in Thread, ActivateBestChain(t)
      PROVE  scripts \subseteq scripts' /\ calls' = calls
  BY <1>5, Zenon DEF ActivateBestChain, Lock, NoCandidate, FindMostWorkChain, AtTarget, DisconnectTip,
     ConnectTip, FinalizeFails, ConnectFails, Validated, index
<1>6. CASE UNCHANGED vars
  BY <1>2, <1>6, Zenon DEF vars, index
<1> QED
  BY <1>1, <1>2, <1>3, <1>4, <1>5, <1>6, Zenon DEF Next

\* Blocks that were connected are not refused, and a mark has a cause.
LEMMA ActiveSound ==
    ASSUME Index, NeverActive, Blameless
    PROVE  /\ Ancestors[tip] \cap Refused = {}
           /\ \A w \in Marked : Ancestors[w] \cap Refused # {}
           /\ Ancestors[tip] \cap Marked = {}
BY TipInTree, AncestorsInTree, AncestorsTransitive DEF Index, Entries, NeverActive, Blameless,
   Refused, Marks, Marked

\* Nothing but the genesis block is deep enough.
LEMMA FinalizesGenesis ==
    ASSUME NEW b \in Block, Height[b] <= MaxReorgDepth, NEW f \in ToFinalize(b)
    PROVE  f \in {None, Genesis}
<1> DEFINE deep == {x \in Ancestors[b] : Height[x] = Height[b] - MaxReorgDepth}
           upto == UNION {Ancestors[x] : x \in deep}
<1>1. deep \subseteq {Genesis}
  BY AncestorsInTree, TreeAssumption, OptionAssumption, AncestorsLower, SMTT(30)
<1>2. upto \subseteq {Genesis}
  BY <1>1, TreeAssumption
<1>3. f = None \/ f \in deep \/ f \in upto
  BY Zenon DEF ToFinalize
<1> QED
  BY <1>1, <1>2, <1>3, Zenon

\* FindMostWorkChain looks at a candidate that does not conflict.
LEMMA EarlyLook ==
    ASSUME Index, NeverActive, Blameless, NEW t \in Thread, FindMostWorkChain(t)
    PROVE  /\ UNCHANGED <<data, linked, seq, tip, finalized, csMain, failed, gFailed>>
           /\ \E new \in candidates :
                 /\ new \in Block /\ new \in linked /\ Ancestors[new] \subseteq data
                 /\ Accepted(t, new) \/ \E w \in PathTo(new) : Rejected(new, w)
<1> Entries /\ Marks
  BY Zenon DEF Index
<1>1. PICK new \in candidates : LookAt(t, new)
  BY Zenon DEF FindMostWorkChain
<1>2. new \in Block /\ new \in linked /\ Ancestors[new] \subseteq data
  BY Zenon DEF Entries, Marks
<1>3. ~Conflicts(new)
  BY <1>2, AncestorsInTree, Zenon DEF Blameless, Conflicts, SameFork
<1>4. failed' = failed
  BY <1>1, <1>3, LookAtCases, Zenon
<1>5. \A up : Released(new, up) => gFailed' = gFailed
  BY <1>4, Zenon DEF Released, UnparkedFailed, Forgiven, Blameless
<1> QED
  BY <1>1, <1>2, <1>4, <1>5, LookAtCases, Zenon DEF FindMostWorkChain, index, order, Accepted, Rejected

\* As long as only blocks arrive, a mark has a refused block as its cause.
LEMMA BlamelessStep ==
    ASSUME Index, NeverActive, Blameless, [Next]_vars, Early'
    PROVE  Blameless'
<1> Entries /\ Marks /\ Control
  BY Zenon DEF Index
<1>1. tip \in Block /\ Ancestors[tip] \subseteq data
  BY TipInTree, Zenon DEF Entries
<1>2. \A u \in Thread : mostWork[u] # None => mostWork[u] \in Block /\ Ancestors[mostWork[u]] \subseteq data
  BY Zenon DEF Control, Entries
<1>3. CASE Minor
  BY <1>3, Zenon DEF Minor, Blameless, Parked
<1>4. ASSUME NEW b \in Block \ {Genesis}, NEW x \in Block, RefuseHeader(b, x)
      PROVE  Blameless'
  BY <1>4, AncestorsLinear, Zenon DEF RefuseHeader, index, parking, FailedBelow, Blameless,
     Entries, Parked
<1>5. ASSUME NEW t \in Thread, NEW b \in Block \ {Genesis}, RejectBlock(t, b)
      PROVE  Blameless'
  BY <1>5, Zenon DEF RejectBlock, parking, thread, Blameless, Parked, Refused
<1>6. ASSUME NEW t \in Thread, NEW b \in Block \ {Genesis}, AcceptBlock(t, b)
      PROVE  Blameless'
  <2> DEFINE fork == LastCommonAncestor(b, tip)
  <2>1. /\ b \notin data /\ b \notin ContextInvalid /\ data' = data \cup {b}
        /\ parked' = IF ParkDeepReorg /\ Height[fork] + 1 < Height[b] THEN parked \cup {b} ELSE parked
        /\ UNCHANGED <<failed, failedParent, gFailed, parkedParent, tip, finalized, mostWork>>
    BY <1>6, Zenon DEF AcceptBlock, Activate, failure
  <2>2. fork \in Ancestors[b] /\ fork \in Ancestors[tip]
    BY <1>1, CommonAncestor, Zenon
  <2> HIDE DEF fork
  <2>3. /\ b \notin Ancestors[tip]
        /\ \A u \in Thread : mostWork[u] # None => b \notin Ancestors[mostWork[u]]
        /\ Parked' \subseteq Parked \cup {b} /\ Parked \subseteq Parked'
        /\ Parked' \subseteq IF ParkDeepReorg THEN data' ELSE {}
    BY <1>1, <1>2, <2>1, Zenon DEF Parked, Blameless
  <2>4. ASSUME ParkDeepReorg, NEW y \in Ancestors[b] \ {b}, y \in Parked \/ y \notin data
        PROVE  b \in parked'
    <3>1. y \notin Ancestors[fork]
      BY <1>1, <2>2, <2>4, AncestorsTransitive, Zenon DEF Blameless
    <3>2. y \in Block /\ fork \in Ancestors[y] \ {y}
      BY <2>2, <3>1, AncestorsInTree, AncestorsLinear, Zenon
    <3> QED
      BY <2>1, <2>2, <2>4, <3>2, AncestorsLower, Heights, AncestorsInTree, SMTT(30)
  <2>5. ASSUME ParkDeepReorg, NEW x \in data', NEW y \in Ancestors[x], y \in Parked' \/ y \notin data'
        PROVE  x \in parked'
    BY <2>1, <2>3, <2>4, <2>5 DEF Blameless, Parked
  <2> QED
    BY <2>1, <2>3, <2>5, Zenon DEF Blameless
<1>7. ASSUME NEW t \in Thread, FindMostWorkChain(t)
      PROVE  Blameless'
  <2>1. PICK new \in candidates :
             /\ new \in Block /\ new \in linked /\ Ancestors[new] \subseteq data
             /\ Accepted(t, new) \/ \E w \in PathTo(new) : Rejected(new, w)
    BY <1>7, EarlyLook, Zenon
  <2>2. UNCHANGED <<data, tip, finalized, failed, gFailed>>
    BY <1>7, EarlyLook, Zenon
  <2>3. ASSUME parked' = parked, parkedParent' \subseteq parkedParent
        PROVE  /\ Parked' \subseteq Parked
               /\ ParkDeepReorg => \A x \in data : \A y \in Ancestors[x] :
                           y \in Parked' \/ y \notin data => x \in parked'
    BY <2>3, Zenon DEF Blameless, Parked
  <2>4. ASSUME NEW up \in PathTo(new), Released(new, up)
        PROVE  /\ Parked' \subseteq Parked
               /\ Ancestors[new] \cap Parked' = {}
               /\ ParkDeepReorg => \A x \in data : \A y \in Ancestors[x] :
                           y \in Parked' \/ y \notin data => x \in parked'
    BY <2>1, <2>4, AncestorsInTree, AncestorsTransitive, Zenon DEF Released, Parked, PathTo,
       Blameless
  <2>5. CASE Accepted(t, new)
    BY <2>1, <2>2, <2>3, <2>4, <2>5, Zenon DEF Accepted, parking, PathTo, Blameless, Control
  <2>6. ASSUME NEW w \in PathTo(new), Rejected(new, w)
        PROVE  Blameless'
    <3> DEFINE above == Above(new, w)
    <3>1. /\ \A y \in above : w \in Ancestors[y] /\ y \in PathTo(new)
          /\ mostWork' = mostWork
          /\ failedParent' = IF w \in failed \cup failedParent THEN failedParent \cup above
                             ELSE failedParent
          /\ \/ /\ UNCHANGED parked
                /\ parkedParent' = IF w \in Parked /\ ~Enough(new) THEN parkedParent \cup above
                                   ELSE parkedParent \ above
             \/ \E up \in PathTo(new) : Released(new, up)
      BY <2>2, <2>6, Zenon DEF Rejected, Above
    <3> HIDE DEF above
    <3>2. \A y \in above : y \in Block /\ Ancestors[w] \subseteq Ancestors[y]
      BY <2>1, <3>1, AncestorsInTree, AncestorsTransitive, Zenon DEF PathTo
    <3>3. w \in failed \cup failedParent => Ancestors[w] \cap failed # {}
      BY <2>1, AncestorsInTree, Zenon DEF PathTo, Blameless
    <3>4. \A y \in failedParent' : Ancestors[y] \cap failed' # {}
      BY <2>2, <3>1, <3>2, <3>3, Zenon DEF Blameless
    <3>5. CASE Parked' \subseteq Parked /\ (ParkDeepReorg => \A x \in data : \A y \in Ancestors[x] :
                           y \in Parked' \/ y \notin data => x \in parked')
      BY <2>1, <2>2, <3>1, <3>4, <3>5, Zenon DEF Blameless
    <3>6. CASE w \in Parked /\ parked' = parked /\ parkedParent' = parkedParent \cup above
      BY <1>2, <2>1, <2>2, <3>1, <3>4, <3>6, AncestorsTransitive, Zenon DEF Parked, Blameless,
         PathTo, Entries
    <3> QED
      BY <2>3, <2>4, <3>1, <3>5, <3>6, Zenon
  <2> QED
    BY <2>1, <2>5, <2>6, Zenon
<1>8. ASSUME NEW t \in Thread, DisconnectTip(t)
      PROVE  Blameless'
  BY <1>8, DisconnectFacts, Distinct, Zenon DEF Blameless, Parked
<1>9. ASSUME NEW t \in Thread, NEW b \in Block, ConnectTip(t, b)
      PROVE  Blameless'
  <2>1. /\ b \in linked /\ b \notin Invalid /\ b \in Ancestors[mostWork[t]] /\ mostWork[t] # None
        /\ Ancestors[b] = {b} \cup Ancestors[tip] /\ tip' = b /\ scripts' = Validated(b)
        /\ \A u \in Thread : mostWork'[u] \in {mostWork[u], None}
        /\ UNCHANGED <<data, failed, failedParent, gFailed, parked, parkedParent>>
        /\ \E f \in ToFinalize(b) : finalized' = IF f = None THEN finalized ELSE FinalizedWith(f)
    BY <1>9, ConnectFacts, Distinct
  <2>2. b \notin Refused /\ b \notin Parked
    BY <2>1, Zenon DEF Blameless, Refused, Entries
  <2>3. b \in scripts'
    BY <2>1, <2>2, ActiveSound DEF Validated, IsInvalid, Marked
  <2>4. \A f \in ToFinalize(b) : f \in {None, Genesis}
    BY <2>3, FinalizesGenesis, Zenon DEF Early, NothingToFinalize
  <2>5. finalized' \in {None, Genesis}
    BY <2>1, <2>4, Zenon DEF FinalizedWith, Blameless
  <2> QED
    BY <2>1, <2>2, <2>5, SMTT(30) DEF Blameless, Parked
<1>10. ASSUME NEW t \in Thread, NEW b \in Block, ConnectFails(t, b)
      PROVE  Blameless'
  <2>1. finalized' = finalized
    BY <1>10, RefuseFacts, TreeAssumption, Zenon DEF Blameless, InvalidChainFound, Finalized
  <2> QED
    BY <1>10, <2>1, RefuseFacts DEF Blameless, Parked, Refused
<1> QED
  BY <1>3, <1>4, <1>5, <1>6, <1>7, <1>8, <1>9, <1>10, EarlyBefore, Steps, Zenon

\* What is linked above a marked entry is above a refused one.
LEMMA MarkedRefused ==
    ASSUME Index, Blameless, NEW w \in Marked, Ancestors[w] \subseteq data
    PROVE  Ancestors[w] \cap gFailed # {} /\ Ancestors[w] \cap Refused # {}
<1>1. w \in Block /\ w \in Ancestors[w]
  BY AncestorsInTree, Zenon DEF Index, Entries, Marks, Marked
<1>2. Ancestors[w] \cap failed # {}
  BY <1>1, Zenon DEF Blameless, Marked
<1> QED
  BY <1>2, Zenon DEF Blameless

\* The reason to except lasts.
LEMMA RefusedLasts ==
    ASSUME [Next]_vars, gFailed \subseteq gFailed', RefusedAboveReleased
    PROVE  RefusedAboveReleased'
BY Recorded, Zenon DEF RefusedAboveReleased

\* As long as only blocks arrive, every chain that may become active keeps a
\* candidate as good, so that PruneBlockIndexCandidates leaves one.
LEMMA SuppliedStep ==
    ASSUME Index, NeverActive, Blameless, RefusedAboveReleased \/ Supplied, [Next]_vars, Early',
           ~RefusedAboveReleased'
    PROVE  Supplied'
<1> Entries /\ Marks /\ Order /\ Control
  BY Zenon DEF Index
<1>1. Blameless'
  BY BlamelessStep, Zenon
<1>2. tip \in Block /\ tip \in linked /\ Sound(tip)
  BY TipInTree, ActiveSound, Zenon DEF Sound, Blameless
<1>3. linked \subseteq Block /\ candidates \subseteq Block
  BY TipInTree, Zenon DEF Entries
<1>4. gFailed \subseteq gFailed' => Supplied
  BY RefusedLasts, Zenon
<1>5. released \subseteq released' /\ parked \ parked' \subseteq released'
  BY Recorded, Zenon
<1>6. ASSUME NEW c, Good(c), Ancestors[c] \cap (Parked' \ Parked) = {}, gFailed' = gFailed
      PROVE  Good(c)'
  BY <1>5, <1>6, Zenon DEF Good
<1>7. CASE UNCHANGED <<linked, gFailed, parked, parkedParent, seq, candidates>> /\ NoAbort'
  <2>1. Parked' = Parked /\ Supplied
    BY <1>4, <1>7, Zenon DEF Parked
  <2> QED
    BY <1>6, <1>7, <2>1, Zenon DEF Supplied, Sound, Worse
<1>8. CASE Minor
  BY <1>4, <1>7, <1>8, Zenon DEF Minor, Supplied
<1>9. ASSUME NEW b \in Block \ {Genesis}, NEW x \in Block, RefuseHeader(b, x)
      PROVE  Supplied'
  BY <1>7, <1>9, Distinct, Zenon DEF RefuseHeader, index, parking, order, FailedBelow, Blameless, NoAbort
<1>10. ASSUME NEW t \in Thread, NEW b \in Block \ {Genesis}, RejectBlock(t, b)
       PROVE  Supplied'
  BY <1>7, <1>10, Distinct, Zenon DEF RejectBlock, Free, parking, order, thread, NoAbort
<1>11. ASSUME NEW t \in Thread, NEW b \in Block \ {Genesis}, AcceptBlock(t, b)
       PROVE  Supplied'
  <2> DEFINE L == NowLinked(b)
  <2>1. /\ b \notin data /\ data' = data \cup {b} /\ csMain' = None
        /\ linked' = linked \cup L
        /\ candidates' = candidates \cup {x \in L : ~WorseIn(seq', x, tip)}
        /\ parked' \subseteq parked \cup {b} /\ parked \subseteq parked'
        /\ UNCHANGED <<gFailed, parkedParent>>
    BY <1>11, Zenon DEF AcceptBlock, Free, Activate, failure
  <2>2. seq' = Sequenced(L)
    BY <1>11, Zenon DEF AcceptBlock
  <2>3. L \cap linked = {} /\ L \subseteq Block
    BY <2>1, LinkedClosed, Zenon DEF Entries
  <2>4. \A x \in linked : seq'[x] = seq[x]
    BY <1>3, <2>2, <2>3, Zenon DEF Sequenced
  <2>5. seq' \in [Block -> Int]
    BY OrderStep, Zenon DEF Order
  <2> HIDE DEF L
  <2>6. \A x, y \in linked : WorseIn(seq', x, y) <=> Worse(x, y)
    BY <2>4, Zenon DEF Worse, WorseIn
  <2>7. Supplied
    BY <1>4, <2>1, Zenon
  <2>8. \A x \in linked : b \notin Ancestors[x]
    BY <2>1, Zenon DEF Entries
  <2>9. Parked' \subseteq Parked \cup {b} /\ Parked \subseteq Parked'
    BY <2>1, Zenon DEF Parked
  <2>10. \A x \in linked : Good(x) => Good(x)'
    BY <1>6, <2>1, <2>8, <2>9, Zenon
  <2>11. \A x : Sound(x)' => Sound(x)
    BY <2>9, Zenon DEF Sound
  <2>12. ASSUME NEW x \in linked', Sound(x)'
         PROVE  \E c \in candidates' : Good(c)' /\ ~Worse(c, x)'
    <3>1. CASE x \in linked
      <4>1. PICK c \in candidates : Good(c) /\ ~Worse(c, x)
        BY <2>7, <2>11, <2>12, <3>1, Zenon DEF Supplied
      <4>2. c \in linked
        BY Zenon DEF Marks
      <4> QED
        BY <2>1, <2>6, <2>10, <3>1, <4>1, <4>2, Zenon DEF Worse
    <3>2. CASE x \in L /\ ~WorseIn(seq', x, tip)
      <4>1. Good(x)'
        BY <1>1, <2>12, Zenon DEF Sound, Good, Blameless
      <4> QED
        BY <2>1, <2>3, <2>5, <3>2, <4>1, WorseOrder, Zenon DEF Worse
    <3>3. CASE x \in L /\ WorseIn(seq', x, tip)
      <4>1. PICK c \in candidates : Good(c) /\ ~Worse(c, tip)
        BY <1>2, <2>7, Zenon DEF Supplied
      <4>2. c \in linked /\ c \in Block /\ x \in Block
        BY <1>3, <2>3, <3>3, Zenon DEF Marks
      <4>3. ~WorseIn(seq', c, tip)
        BY <1>2, <2>6, <4>1, <4>2, Zenon
      <4>4. ~WorseIn(seq', c, x)
        BY <1>2, <2>5, <3>3, <4>2, <4>3, WorseOrder, Zenon
      <4> QED
        BY <2>1, <2>10, <4>1, <4>2, <4>4, Zenon DEF Worse
    <3> QED
      BY <2>1, <2>12, <3>1, <3>2, <3>3, Zenon
  <2>13. NoAbort'
    BY <2>1, Distinct, Zenon DEF NoAbort
  <2> QED
    BY <2>12, <2>13, Zenon DEF Supplied
<1>12. ASSUME NEW t \in Thread, FindMostWorkChain(t)
       PROVE  Supplied'
  <2>1. PICK new \in candidates :
             /\ new \in Block /\ new \in linked /\ Ancestors[new] \subseteq data
             /\ Accepted(t, new) \/ \E w \in PathTo(new) : Rejected(new, w)
    BY <1>12, EarlyLook, Zenon
  <2>2. UNCHANGED <<data, linked, seq, csMain, failed, gFailed, tip>>
    BY <1>12, EarlyLook, Zenon
  <2>3. Supplied
    BY <1>4, <2>2, Zenon
  <2>4. NoAbort'
    BY <2>2, <2>3, Zenon DEF NoAbort, Supplied
  <2>5. \A x, y : Worse(x, y)' <=> Worse(x, y)
    BY <2>2, Zenon DEF Worse
  <2>6. ASSUME \A x \in linked : Sound(x)' => \E c \in candidates' : Good(c)' /\ ~Worse(c, x)
        PROVE  Supplied'
    BY <2>2, <2>4, <2>5, <2>6, Zenon DEF Supplied
  \* What unparking makes sound is on the way to the target.
  <2>7. ASSUME NEW up \in PathTo(new), Released(new, up), NEW x \in linked, Sound(x)', ~Sound(x)
        PROVE  /\ x \in Ancestors[new] /\ x \in released'
               /\ x = new \/ ~Worse(new, x)
    <3>1. /\ parked' = parked \ Ancestors[up] /\ ParkDeepReorg /\ up \in Ancestors[new]
      BY <2>7, Zenon DEF Released, Enough, PathTo
    <3>2. PICK y \in Ancestors[x] : y \in Parked
      BY <2>7, Zenon DEF Sound
    <3>3. x \in data /\ x \in Ancestors[x] /\ x \in Block
      BY <1>3, AncestorsInTree, Zenon DEF Entries
    <3>4. x \in parked /\ x \notin parked'
      BY <2>7, <3>1, <3>2, <3>3, Zenon DEF Blameless, Sound, Parked
    <3>5. x \in Ancestors[new]
      BY <2>1, <3>1, <3>4, AncestorsTransitive, Zenon
    <3>6. x = new \/ Work[x] < Work[new]
      BY <2>1, <3>5, AncestorsLower, Zenon
    <3>7. ~Worse(new, x)
      BY <2>1, <3>3, <3>6, WorseOrder, Zenon DEF Order, Worse
    <3> QED
      BY <1>5, <3>4, <3>5, <3>7, Zenon
  <2>8. CASE Accepted(t, new)
    <3>1. /\ mostWork'[t] = new /\ new # None
          /\ PathTo(new) \cap (failed \cup failedParent) = {}
      BY <2>1, <2>2, <2>8, Distinct, Zenon DEF Accepted, Control
    <3>2. CASE UNCHANGED <<parking, candidates>>
      BY <1>7, <2>2, <2>4, <3>2, Zenon DEF parking
    <3>3. ASSUME candidates \subseteq candidates', NEW up \in PathTo(new), Released(new, up)
          PROVE  Supplied'
      <4>1. Parked' \subseteq Parked
        BY <3>3, Zenon DEF Released, Parked
      <4>2. Ancestors[new] \cap (Parked' \cup gFailed') = {}
        <5>1. Ancestors[new] \cap Parked' = {}
          BY <1>1, <3>1, Zenon DEF Blameless
        <5>2. Ancestors[tip] \cap gFailed = {}
          BY ActiveSound, Zenon DEF Blameless
        <5> QED
          BY <2>2, <3>1, <5>1, <5>2, Zenon DEF PathTo, Blameless
      <4>3. ASSUME NEW x \in linked, Sound(x)', ~Sound(x)
            PROVE  Good(new)' /\ ~Worse(new, x)
        <5>1. x \in Ancestors[new] /\ x \in released' /\ ~Worse(new, x)
          BY <1>3, <2>1, <2>7, <3>3, <4>3, WorseOrder, Zenon DEF Order, Worse
        <5>2. Ancestors[x] \cap Refused = {}
          BY <4>3, Zenon DEF Sound
        <5> QED
          BY <4>2, <5>1, <5>2, Zenon DEF Good
      <4>4. ASSUME NEW x \in linked, Sound(x)'
            PROVE  \E c \in candidates' : Good(c)' /\ ~Worse(c, x)
        BY <1>6, <2>2, <2>3, <3>3, <4>1, <4>3, <4>4, Zenon DEF Supplied
      <4> QED
        BY <2>6, <4>4, Zenon
    <3> QED
      BY <2>8, <3>2, <3>3, Zenon DEF Accepted
  <2>9. ASSUME NEW w \in PathTo(new), Rejected(new, w)
        PROVE  Supplied'
    <3> DEFINE above == Above(new, w)
    <3>1. /\ w \in Marked \/ (w \in Parked /\ ~Enough(new))
          /\ \A y \in above : w \in Ancestors[y] /\ y \in Ancestors[new]
      BY <2>2, <2>9, Zenon DEF Rejected, Marked, Above, PathTo
    <3>2. \/ /\ UNCHANGED parked
             /\ candidates' = candidates \ (above \cup {w})
             /\ parkedParent' = IF w \in Parked /\ ~Enough(new) THEN parkedParent \cup above
                                ELSE parkedParent \ above
          \/ /\ candidates \ (above \cup {w}) \subseteq candidates'
             /\ \E up \in PathTo(new) : Released(new, up)
      BY <2>9, Zenon DEF Rejected
    <3> HIDE DEF above
    <3>3. /\ w \in Block /\ w \in Ancestors[w] /\ w \in Ancestors[new]
          /\ Ancestors[w] \subseteq Ancestors[new] /\ Ancestors[w] \subseteq data
      BY <2>1, AncestorsInTree, AncestorsTransitive, Zenon DEF PathTo
    <3>4. w \in Marked => Ancestors[w] \cap gFailed # {} /\ Ancestors[w] \cap Refused # {}
      BY <3>3, MarkedRefused, Zenon
    <3>5. ASSUME NEW c \in candidates, Good(c)
          PROVE  w \notin Ancestors[c]
      <4>1. Ancestors[c] \cap (Parked \cup gFailed) = {}
        BY <3>5, Zenon DEF Good
      <4> QED
        BY <1>3, <3>1, <3>4, <4>1, AncestorsTransitive, Zenon
    <3>6. ASSUME NEW c \in candidates, Good(c)
          PROVE  c \in candidates' /\ Ancestors[c] \cap above = {}
      <4>1. w \notin Ancestors[c] /\ c \in Block /\ c \in Ancestors[c]
        BY <1>3, <3>5, <3>6, AncestorsInTree, Zenon
      <4>2. Ancestors[c] \cap above = {}
        BY <3>1, <4>1, AncestorsTransitive, Zenon
      <4> QED
        BY <3>2, <3>3, <4>1, <4>2, Zenon
    <3>7. Parked' \subseteq Parked \cup above
      BY <3>2, Zenon DEF Parked, Released
    <3>8. \A c \in candidates : Good(c) => Good(c)'
      BY <1>6, <2>2, <3>6, <3>7, Zenon
    <3>9. ASSUME NEW x \in linked, Sound(x)', ~Sound(x)
          PROVE  FALSE
      <4>0. x \in Block /\ Ancestors[x] \cap Refused = {} /\ Ancestors[x] \cap Parked # {}
        BY <1>3, <3>9, Zenon DEF Sound
      <4>1. CASE UNCHANGED parked /\ parkedParent' = parkedParent \ above /\ w \in Marked
        <5>1. PICK y \in Ancestors[x] : y \in above
          BY <3>9, <4>0, <4>1, Zenon DEF Sound, Parked
        <5>2. Ancestors[w] \subseteq Ancestors[x]
          BY <2>1, <3>1, <4>0, <5>1, AncestorsInTree, AncestorsTransitive, Zenon
        <5> QED
          BY <3>4, <4>0, <4>1, <5>2, Zenon
      <4>2. CASE UNCHANGED parked /\ parkedParent' = parkedParent \cup above
        BY <3>9, <4>0, <4>2, Zenon DEF Sound, Parked
      <4>3. ASSUME NEW up \in PathTo(new), Released(new, up)
            PROVE  FALSE
        <5>1. x \in Ancestors[new] /\ x \in released'
          BY <2>7, <3>9, <4>3, Zenon
        <5>2. w \in Marked
          BY <3>1, <4>3, Zenon DEF Released
        <5>3. PICK y \in Ancestors[w] : y \in gFailed
          BY <3>4, <5>2, Zenon
        <5>4. y \in Refused /\ y \in Ancestors[new]
          BY <3>3, <5>3, Zenon DEF Blameless
        <5>5. x \in Ancestors[y] \ {y}
          <6>1. y \notin Ancestors[x]
            BY <4>0, <5>4, Zenon
          <6>2. x \in Ancestors[y]
            BY <2>1, <5>1, <5>4, <6>1, AncestorsLinear, Zenon
          <6>3. x # y
            BY <4>0, <6>1, AncestorsInTree, Zenon
          <6> QED
            BY <6>2, <6>3, Zenon
        <5> QED
          BY <2>2, <5>1, <5>3, <5>5, Zenon DEF RefusedAboveReleased
      <4> QED
        BY <3>1, <3>2, <4>1, <4>2, <4>3, Zenon
    <3>10. ASSUME NEW x \in linked, Sound(x)'
           PROVE  \E c \in candidates' : Good(c)' /\ ~Worse(c, x)
      BY <2>3, <3>6, <3>8, <3>9, <3>10, Zenon DEF Supplied
    <3> QED
      BY <2>6, <3>10, Zenon
  <2> QED
    BY <2>1, <2>8, <2>9, Zenon
<1>13. ASSUME NEW t \in Thread, NEW b \in Block, ConnectTip(t, b)
       PROVE  Supplied'
  <2>1. /\ b \notin Invalid /\ tip' = b /\ csMain = t
        /\ candidates' = Pruned(candidates, seq, b)
        /\ candidates' # {} => csMain' \in {csMain, None}
        /\ UNCHANGED <<data, linked, gFailed, parked, parkedParent, seq>>
    BY <1>13, ConnectFacts, Zenon
  <2>2. b \in linked /\ Ancestors[b] = {b} \cup Ancestors[tip]
    BY <1>13, ConnectFacts, Zenon
  <2>3. Ancestors[b] \cap Parked = {}
    BY <1>1, <2>1, Zenon DEF Blameless, Parked
  <2>4. Ancestors[b] \cap Refused = {}
    BY <2>1, <2>2, ActiveSound, Zenon DEF Blameless, Refused, Entries
  <2>5. Supplied /\ Sound(b)
    BY <1>4, <2>1, <2>3, <2>4, Zenon DEF Sound
  <2>6. PICK d \in candidates : Good(d) /\ ~Worse(d, b)
    BY <2>2, <2>5, Zenon DEF Supplied
  <2>7. d \in candidates'
    BY <2>1, <2>6, Zenon DEF Pruned, Worse
  <2>8. csMain' # Aborted
    BY <2>1, <2>7, Distinct, Zenon
  <2>9. ASSUME NEW x \in linked, Sound(x)
        PROVE  \E c \in candidates' : Good(c) /\ ~Worse(c, x)
    <3>1. PICK c \in candidates : Good(c) /\ ~Worse(c, x)
      BY <2>5, <2>9, Zenon DEF Supplied
    <3>2. CASE ~Worse(c, b)
      BY <2>1, <3>1, <3>2, Zenon DEF Pruned, Worse
    <3>3. CASE Worse(c, b)
      BY <1>3, <2>6, <2>7, <3>1, <3>3, WorseOrder, Zenon DEF Order, Worse
    <3> QED
      BY <3>2, <3>3, Zenon
  <2>10. \A x, y : (Worse(x, y)' <=> Worse(x, y)) /\ (Sound(x)' <=> Sound(x))
    BY <2>1, Zenon DEF Worse, Sound, Parked
  <2>11. \A c : Good(c) => Good(c)'
    BY <1>6, <2>1, Zenon DEF Parked
  <2> QED
    BY <2>1, <2>5, <2>8, <2>9, <2>10, <2>11, Zenon DEF Supplied, NoAbort
<1>14. ASSUME NEW t \in Thread, NEW b \in Block, ConnectFails(t, b)
       PROVE  Supplied'
  <2>1. /\ UNCHANGED <<data, linked, parked, parkedParent, seq, candidates>>
        /\ gFailed' = gFailed \cup {b} /\ csMain' = None /\ b \in Invalid
    BY <1>14, RefuseFacts, Zenon
  <2>2. Supplied /\ NoAbort'
    BY <1>4, <2>1, Distinct, Zenon DEF NoAbort
  <2>3. ASSUME NEW c \in candidates, Good(c)
        PROVE  Good(c)'
    <3>1. /\ Ancestors[c] \cap (Parked' \cup gFailed) = {} /\ c \in Block
          /\ \/ Ancestors[c] \cap Refused = {}
             \/ \E r \in Ancestors[c] \cap released' : Ancestors[r] \cap Refused = {}
      BY <1>3, <1>5, <2>1, <2>3, Zenon DEF Good, Parked
    <3>2. CASE b \in Ancestors[c]
      <4>1. b \in Refused
        BY <2>1, Zenon DEF Refused
      <4>2. PICK r \in Ancestors[c] \cap released' : Ancestors[r] \cap Refused = {}
        BY <3>1, <3>2, <4>1, Zenon
      <4>3. r \in Ancestors[b] /\ r # b
        <5>1. b \notin Ancestors[r] /\ r \in Block
          BY <3>1, <4>1, <4>2, AncestorsInTree, Zenon
        <5>2. r \in Ancestors[b]
          BY <3>1, <3>2, <4>2, <5>1, AncestorsLinear, Zenon
        <5> QED
          BY <5>1, <5>2, AncestorsInTree, Zenon
      <4> QED
        BY <2>1, <4>2, <4>3, Zenon DEF RefusedAboveReleased
    <3>3. CASE b \notin Ancestors[c]
      BY <2>1, <3>1, <3>3, Zenon DEF Good
    <3> QED
      BY <3>2, <3>3, Zenon
  <2> QED
    BY <2>1, <2>2, <2>3, Zenon DEF Supplied, Sound, Parked, Worse
<1>15. ASSUME NEW t \in Thread, DisconnectTip(t)
       PROVE  Supplied'
  <2>1. UNCHANGED <<linked, gFailed, parked, parkedParent, seq, candidates, csMain>>
    BY <1>15, DisconnectFacts, Zenon
  <2> QED
    BY <1>4, <1>7, <2>1, Zenon DEF Supplied, NoAbort
<1> QED
  BY <1>8, <1>9, <1>10, <1>11, <1>12, <1>13, <1>14, <1>15, EarlyBefore, Steps, Zenon

\* The node that has only the genesis block is innocent.
LEMMA InnocentInit ==
    ASSUME Init
    PROVE  Innocent
<1>1. Ancestors[Genesis] = {Genesis}
  BY TreeAssumption
<1>2. Blameless
  BY <1>1, Distinct, Zenon DEF Init, Blameless, Parked
<1>3. ~Worse(Genesis, Genesis)
  BY Distinct, IndexInit, WorseOrder DEF Index, Order, Worse
<1>4. Good(Genesis)
  <2>1. Genesis \notin Refused /\ Parked = {} /\ gFailed = {}
    BY TreeAssumption, Zenon DEF Init, Parked, Refused
  <2> QED
    BY <1>1, <2>1, Zenon DEF Good
<1>5. Supplied
  BY <1>3, <1>4, Distinct, Zenon DEF Init, Supplied, NoAbort
<1> QED
  BY <1>2, <1>5, Zenon DEF Innocent

\* Every step preserves Innocent.
LEMMA InnocentStep ==
    ASSUME Index, NeverActive, Innocent, [Next]_vars
    PROVE  Innocent'
BY EarlyBefore, BlamelessStep, SuppliedStep, Zenon DEF Innocent

-----------------------------------------------------------------------------
(* The theorems.                                                           *)

\* The block index, the locks and the tip, in every reachable state.
LEMMA BaseInvariant == Spec => [](Index /\ NeverActive)
<1>1. Init => NeverActive
  BY TreeAssumption DEF Init, NeverActive
<1>2. Init => Index
  BY IndexInit, Zenon
<1>3. Index /\ NeverActive /\ [Next]_vars => Index' /\ NeverActive'
  BY EntriesStep, MarksStep, OrderStep, ControlStep, NeverActiveStep, Zenon DEF Index
<1> QED
  BY <1>1, <1>2, <1>3, PTL DEF Spec

\* nChainTx is set only when the transactions of all ancestors have arrived,
\* whatever the order in which blocks arrive and threads run.
THEOREM LinkedAlwaysSound == Spec => [](TypeOK /\ LinkedSound)
<1>1. Index => LinkedSound
  BY Zenon DEF Index, Entries, LinkedSound
<1> QED
  BY <1>1, IndexTypes, BaseInvariant, PTL

\* ActivateBestChain moves the finalized block along one branch and never takes
\* the finalization back altogether, however many threads are in it.
THEOREM OneBranch == Spec => FinalizedOnOneBranch
<1>1. Index /\ NeverActive /\ [Next]_vars
      => [csMain # None /\ finalized # None
            => finalized' # None /\ SameFork(finalized, finalized')]_vars
  BY OneBranchStep, Zenon
<1> QED
  BY <1>1, BaseInvariant, PTL DEF Spec, FinalizedOnOneBranch

\* As long as only blocks arrive and nothing is finalized, for every interleaving
\* of the threads, the active chain is valid, and no assertion fails, unless
\* ConnectBlock has refused a block above one that FindMostWorkChain had unparked.
THEOREM ThreadsAlwaysSafe == Spec => []ThreadsSafe
<1>1. Index /\ NeverActive /\ Innocent => ThreadsSafe
  BY ActiveSound, Zenon DEF ThreadsSafe, Early, Innocent, ActiveChainValid, Marked, Supplied
<1>2. Init => Innocent
  BY InnocentInit, Zenon
<1>3. Index /\ NeverActive /\ Innocent /\ [Next]_vars => Innocent'
  BY InnocentStep, Zenon
<1>4. Spec => []Innocent
  BY <1>2, <1>3, BaseInvariant, PTL DEF Spec
<1> QED
  BY <1>1, <1>4, BaseInvariant, PTL

=============================================================================
