------------------------ MODULE ChainSelectionProofs ------------------------
(***************************************************************************)
(* What the operations and ActivateBestChain do to the active chain and to *)
(* the finalized block, for any number of threads, every block tree, every *)
(* set of invalid blocks and every number of calls, on top of              *)
(* ChainThreadsProofs.                                                     *)
(***************************************************************************)
EXTENDS ChainThreadsProofs

USE SMTT(30)

-----------------------------------------------------------------------------
(* A thread is on its way to a target that nothing has forbidden since,    *)
(* unless that happened while it waited for cs_main.                       *)

\* No candidate has less work than the tip.
NoneLower == \A c \in candidates : Work[c] >= Work[tip]

\* No thread goes for a target that it should not reach.
Aimed == \A t \in Thread : ~Lost(t)

Guarded == NoneLower /\ (~overtaken => ActiveChainValid /\ FinalizedCompatible /\ Aimed)

\* The record only grows, and has every target that a waiting thread loses.
LEMMA StillAimed ==
    ASSUME [Next]_vars, ~overtaken'
    PROVE  /\ ~overtaken
           /\ UNCHANGED vars \/ \A u \in Thread : pc[u] = "loop" => ~Lost(u)'
<1>1. CASE UNCHANGED vars
  BY <1>1, Zenon DEF vars
<1>2. CASE History
  BY <1>2, Zenon DEF History
<1> QED
  BY <1>1, <1>2, Recorded, Zenon

\* Blocks below two blocks of one fork are of one fork.
LEMMA ForkBelowBoth ==
    ASSUME NEW a \in Block, NEW c \in Block, SameFork(a, c),
           NEW x \in Ancestors[a], NEW y \in Ancestors[c]
    PROVE  SameFork(x, y)
<1>1. x \in Block /\ y \in Block
  BY AncestorsInTree, Zenon
<1>2. SameFork(y, a)
  BY ForkBelow, Zenon
<1> QED
  BY <1>1, <1>2, ForkBelow, Zenon

\* UnwindBlock takes the tip and the finalized block down, and what it marks is
\* above the new tip.
LEMMA UnwindFacts ==
    ASSUME Entries, Marks, NEW b \in known \ {Genesis}
    PROVE  /\ UnwoundTip(b) \in Ancestors[tip]
           /\ b \notin Ancestors[UnwoundTip(b)]
           /\ Ancestors[UnwoundTip(b)] \cap Unwound(b) = {}
           /\ \A f \in Block : /\ UnwoundFinal(b, f) \in Ancestors[f]
                               /\ InvalidChainFound(b, UnwoundFinal(b, f)) \in Ancestors[f]
           /\ UnwoundFinal(b, None) = None
           /\ InvalidChainFound(b, None) = None
<1>1. b \in Block \ {Genesis} /\ tip \in Block /\ None \notin Block
  BY TipInTree, Distinct, Zenon DEF Entries
<1>2. UnwoundTip(b) \in Ancestors[tip] /\ UnwoundTip(b) \in Block
  BY <1>1, ParentFacts, AncestorsInTree, AncestorsTransitive, Zenon DEF UnwoundTip
<1>3. b \notin Ancestors[UnwoundTip(b)]
  BY <1>1, ParentFacts, Zenon DEF UnwoundTip
<1>4. Ancestors[UnwoundTip(b)] \cap Unwound(b) = {}
  BY <1>2, <1>3, AncestorsTransitive, Zenon DEF Unwound, Descendants
<1>5. ASSUME NEW f \in Block
      PROVE  /\ UnwoundFinal(b, f) \in Ancestors[f]
             /\ InvalidChainFound(b, UnwoundFinal(b, f)) \in Ancestors[f]
  <2>1. UnwoundFinal(b, f) \in Ancestors[f]
    BY <1>1, ParentFacts, AncestorsInTree, AncestorsTransitive, Zenon
       DEF UnwoundFinal, Unwound, Descendants
  <2>2. UnwoundFinal(b, f) \in Block
    BY <2>1, AncestorsInTree, Zenon
  <2> QED
    BY <1>1, <2>1, <2>2, FoundBelow, AncestorsTransitive, Zenon
<1>6. UnwoundFinal(b, None) = None /\ InvalidChainFound(b, None) = None
  BY <1>1, Zenon DEF UnwoundFinal, Unwound, Descendants, InvalidChainFound, Finalized, Entries
<1> QED
  BY <1>2, <1>3, <1>4, <1>5, <1>6, Zenon

\* An entry that does not sort before another one has no less work.
LEMMA NotWorseWork ==
    ASSUME NEW s, NEW a \in Block, NEW b \in Block
    PROVE  /\ ~WorseIn(s, a, b) => Work[a] >= Work[b]
           /\ WorseIn(s, b, a) => Work[a] >= Work[b]
BY Heights DEF WorseIn

\* The candidates that unparking adds have no less work than the tip.
LEMMA UnparkedWork ==
    ASSUME Entries, Marks, NEW changed, NEW inv, NEW s
    PROVE  \A c \in Reconsidered(changed, inv, s) : Work[c] >= Work[tip]
BY TipInTree, NotWorseWork, Zenon DEF Reconsidered, Entries

\* UnwindBlock adds candidates that have no less work than the new tip.
LEMMA UnwoundWork ==
    ASSUME Entries, Marks, NEW b \in known \ {Genesis}, NEW inv,
           NEW cands, \A c \in cands : c \in Block /\ Work[c] >= Work[tip]
    PROVE  \A c \in cands \cup Repopulated(b, inv) : Work[c] >= Work[UnwoundTip(b)]
<1> DEFINE new == UnwoundTip(b)
<1>1. new \in Ancestors[tip] /\ new \in Block /\ tip \in Block
  BY UnwindFacts, TipInTree, AncestorsInTree, Zenon
<1> HIDE DEF new
<1>2. Work[new] \in Nat /\ Work[tip] \in Nat
  BY <1>1, Heights, Zenon
<1>3. Work[tip] >= Work[new]
  <2>1. CASE new = tip
    BY <1>2, <2>1
  <2>2. CASE new # tip
    <3>1. Work[new] < Work[tip]
      BY <1>1, <2>2, AncestorsLower, Zenon
    <3> QED
      BY <1>2, <3>1
  <2> QED
    BY <2>1, <2>2
<1>4. ASSUME NEW c \in cands
      PROVE  Work[c] >= Work[new]
  <2>1. Work[c] \in Nat /\ Work[c] >= Work[tip]
    BY Heights, Zenon
  <2> QED
    BY <1>2, <1>3, <2>1
<1>5. ASSUME NEW c \in Repopulated(b, inv)
      PROVE  Work[c] >= Work[new]
  BY <1>1, <1>5, NotWorseWork, Zenon DEF Repopulated, Worse, Entries, new
<1> QED
  BY <1>4, <1>5, Zenon DEF new

\* No step adds a candidate that has less work than the tip, and connecting a
\* block prunes them.
LEMMA NoneLowerStep ==
    ASSUME Index, NeverActive, NoneLower, [Next]_vars
    PROVE  NoneLower'
<1> Entries /\ Marks /\ Order /\ Control
  BY Zenon DEF Index
<1>1. tip \in Block /\ candidates \subseteq Block /\ linked \subseteq Block /\ known \subseteq Block
  BY TipInTree, Zenon DEF Entries
<1>2. CASE candidates' \subseteq candidates /\ tip' = tip
  BY <1>2, Zenon DEF NoneLower
<1>3. ASSUME NEW t \in Thread, NEW b \in Block \ {Genesis}, AcceptBlock(t, b)
      PROVE  NoneLower'
  <2>1. /\ candidates' = candidates \cup {x \in NowLinked(b) : ~WorseIn(seq', x, tip)}
        /\ tip' = tip /\ b \notin data
    BY <1>3, Zenon DEF AcceptBlock
  <2>2. NowLinked(b) \subseteq Block
    BY <2>1, LinkedClosed, Zenon DEF Entries
  <2> QED
    BY <1>1, <2>1, <2>2, NotWorseWork, Zenon DEF NoneLower
<1>4. ASSUME NEW t \in Thread, NEW b \in known \ {Genesis}, Operate(t, b)
      PROVE  NoneLower'
  <2>1. \A inv, all, s : \A c \in Unparked(b, all, inv, s) : c \in Block /\ Work[c] >= Work[tip]
    BY <1>1, UnparkedWork, Zenon DEF Unparked, NoneLower, Reconsidered
  <2>2. \A inv : \A c \in candidates \cup Repopulated(b, inv) : Work[c] >= Work[UnwoundTip(b)]
    BY <1>1, UnwoundWork, Zenon DEF NoneLower
  <2>3. CASE InvalidateBlock(t, b)
    <3>1. /\ tip' = UnwoundTip(b)
          /\ candidates' = candidates \cup Repopulated(b, failed' \cup failedParent')
      BY <2>3, Zenon DEF InvalidateBlock, Unwind
    <3> QED
      BY <2>2, <3>1, Zenon DEF NoneLower
  <2>4. CASE ParkBlock(t, b)
    <3>1. /\ tip' = UnwoundTip(b)
          /\ candidates' = candidates \cup Repopulated(b, failed \cup failedParent)
      BY <2>4, Zenon DEF ParkBlock
    <3> QED
      BY <2>2, <3>1, Zenon DEF NoneLower
  <2>5. CASE ReconsiderBlock(t, b)
    BY <2>5, UnparkedWork, Zenon DEF ReconsiderBlock, NoneLower
  <2>6. CASE UnparkBlockAndChildren(t, b)
    BY <2>1, <2>6, Zenon DEF UnparkBlockAndChildren, NoneLower
  <2>7. CASE FinalizeBlock(t, b)
    <3>1. PICK cands : /\ cands \in {candidates, Unparked(b, FALSE, failed \cup failedParent, seq)}
                       /\ \/ candidates' = cands /\ tip' = tip
                          \/ /\ ~SameFork(b, tip)
                             /\ Unwind(Lowest(Ancestors[tip] \ Ancestors[b]), cands, FinalizedWith(b))
      BY <2>7, Zenon DEF FinalizeBlock
    <3>2. \A c \in cands : c \in Block /\ Work[c] >= Work[tip]
      BY <1>1, <2>1, <3>1, Zenon DEF NoneLower
    <3>3. CASE candidates' = cands /\ tip' = tip
      BY <3>2, <3>3, Zenon DEF NoneLower
    <3>4. ASSUME ~SameFork(b, tip)
          PROVE  Lowest(Ancestors[tip] \ Ancestors[b]) \in known \ {Genesis}
      BY <1>1, <3>4, FirstAgainst, TipInTree, Zenon DEF Entries
    <3>5. CASE ~SameFork(b, tip) /\ Unwind(Lowest(Ancestors[tip] \ Ancestors[b]), cands, FinalizedWith(b))
      <4> DEFINE low == Lowest(Ancestors[tip] \ Ancestors[b])
      <4>1. low \in known \ {Genesis}
        BY <3>4, <3>5, Zenon
      <4>2. /\ tip' = UnwoundTip(low)
            /\ candidates' = cands \cup Repopulated(low, failed' \cup failedParent')
        BY <3>5, Zenon DEF Unwind
      <4> HIDE DEF low
      <4>3. \A c \in cands \cup Repopulated(low, failed' \cup failedParent') :
               Work[c] >= Work[UnwoundTip(low)]
        BY <3>2, <4>1, UnwoundWork, Zenon
      <4> QED
        BY <4>2, <4>3, Zenon DEF NoneLower
    <3> QED
      BY <3>1, <3>3, <3>5, Zenon
  <2>8. CASE PreciousBlock(t, b)
    <3>1. PICK s : /\ \/ candidates' \subseteq candidates \cup
                                Reconsidered(UnparkChanges(b, FALSE), failed \cup failedParent, s)
                      \/ /\ b \in linked
                         /\ candidates' = Pruned((candidates \ {b})
                                \cup Reconsidered(UnparkChanges(b, FALSE), failed \cup failedParent, s)
                                \cup {b}, s, tip)
                   /\ tip' = tip
      BY <2>8, Zenon DEF PreciousBlock
    <3>2. \A c \in candidates \cup Reconsidered(UnparkChanges(b, FALSE), failed \cup failedParent, s) :
             c \in Block /\ Work[c] >= Work[tip]
      BY <1>1, UnparkedWork, Zenon DEF NoneLower, Reconsidered
    <3>3. ASSUME b \in linked,
                 NEW c \in Pruned((candidates \ {b})
                             \cup Reconsidered(UnparkChanges(b, FALSE), failed \cup failedParent, s)
                             \cup {b}, s, tip)
          PROVE  Work[c] >= Work[tip]
      <4>1. c \in Block /\ ~WorseIn(s, c, tip)
        BY <1>1, <3>2, <3>3, Zenon DEF Pruned
      <4> QED
        BY <1>1, <4>1, NotWorseWork, Zenon
    <3> QED
      BY <3>1, <3>2, <3>3, Zenon DEF NoneLower
  <2>9. CASE ProcessKnownBlock(t, b)
    BY <1>2, <2>9, Zenon DEF ProcessKnownBlock
  <2> QED
    BY <1>4, <2>3, <2>4, <2>5, <2>6, <2>7, <2>8, <2>9, Zenon DEF Operate
<1>5. ASSUME NEW t \in Thread, FindMostWorkChain(t)
      PROVE  NoneLower'
  <2>1. PICK new \in candidates : LookAt(t, new) /\ tip' = tip
    BY <1>5, Zenon DEF FindMostWorkChain
  <2> QED
    BY <1>1, <2>1, LookAtCases, NotWorseWork, Zenon DEF NoneLower, Worse
<1>6. ASSUME NEW t \in Thread, DisconnectTip(t)
      PROVE  NoneLower'
  <2>1. /\ candidates' = candidates /\ tip' = Parent[tip] /\ tip \in Block \ {Genesis}
        /\ Parent[tip] \in Block
    BY <1>6, DisconnectFacts, Zenon
  <2>2. Work[Parent[tip]] < Work[tip] /\ Work[tip] \in Nat /\ Work[Parent[tip]] \in Nat
    BY <2>1, ParentFacts, Heights, Zenon
  <2>3. ASSUME NEW c \in candidates
        PROVE  Work[c] >= Work[Parent[tip]]
    <3>1. Work[c] \in Nat /\ Work[c] >= Work[tip]
      BY <1>1, Heights, Zenon DEF NoneLower
    <3> QED
      BY <2>2, <3>1
  <2> QED
    BY <2>1, <2>3, Zenon DEF NoneLower
<1>7. ASSUME NEW t \in Thread, NEW b \in Block, ConnectTip(t, b)
      PROVE  NoneLower'
  BY <1>1, <1>7, ConnectFacts, NotWorseWork, Zenon DEF NoneLower, Pruned
<1>8. ASSUME NEW t \in Thread, NEW b \in Block, ConnectFails(t, b)
      PROVE  candidates' \subseteq candidates /\ tip' = tip
  BY <1>8, RefuseFacts, Zenon
<1>9. ASSUME NEW b \in Block \ {Genesis},
             (\E x \in Block : RefuseHeader(b, x)) \/ (\E t \in Thread : RejectBlock(t, b))
      PROVE  candidates' \subseteq candidates /\ tip' = tip
  BY <1>9, Zenon DEF RefuseHeader, RejectBlock
<1>10. CASE Minor
  BY <1>2, <1>10, Zenon DEF Minor
<1> QED
  BY <1>2, <1>3, <1>4, <1>5, <1>6, <1>7, <1>8, <1>9, <1>10, Steps, Zenon

\* The operations keep the active chain valid and on the finalized side: what
\* they mark they disconnect, and the finalized block follows.
LEMMA OperateValid ==
    ASSUME Index, ActiveChainValid, FinalizedCompatible,
           NEW t \in Thread, NEW b \in known \ {Genesis}, Operate(t, b)
    PROVE  ActiveChainValid' /\ FinalizedCompatible'
<1> Entries /\ Marks
  BY Zenon DEF Index
<1>1. /\ tip \in Block /\ b \in Block \ {Genesis} /\ (finalized # None => finalized \in Block)
      /\ tip \in Ancestors[tip]
  BY TipInTree, AncestorsInTree, Zenon DEF Entries
<1>2. ASSUME tip' \in Ancestors[tip],
             finalized' = None \/ (finalized # None /\ finalized' \in Ancestors[finalized])
      PROVE  FinalizedCompatible'
  BY <1>1, <1>2, ForkBelowBoth, Zenon DEF FinalizedCompatible
<1>3. ASSUME NEW low \in known \ {Genesis}, tip' = UnwoundTip(low),
             failed' \subseteq failed \cup {low},
             failedParent' \subseteq failedParent \cup Unwound(low)
      PROVE  ActiveChainValid'
  <2>1. /\ tip' \in Ancestors[tip] /\ low \notin Ancestors[tip']
        /\ Ancestors[tip'] \cap Unwound(low) = {}
    BY <1>3, UnwindFacts, Zenon
  <2>2. Ancestors[tip'] \subseteq Ancestors[tip]
    BY <1>1, <2>1, AncestorsTransitive, Zenon
  <2> QED
    BY <1>3, <2>1, <2>2, Zenon DEF ActiveChainValid
<1>4. CASE InvalidateBlock(t, b)
  <2>1. Unwind(b, candidates, finalized)
    BY <1>4, Zenon DEF InvalidateBlock
  <2>2. ActiveChainValid'
    BY <1>3, <2>1, Zenon DEF Unwind
  <2>3. tip' \in Ancestors[tip]
    BY <2>1, UnwindFacts, Zenon DEF Unwind
  <2>4. finalized' = None \/ (finalized # None /\ finalized' \in Ancestors[finalized])
    BY <1>1, <2>1, UnwindFacts, Zenon DEF Unwind
  <2> QED
    BY <1>2, <2>2, <2>3, <2>4, Zenon
<1>5. CASE ParkBlock(t, b)
  <2>1. /\ tip' = UnwoundTip(b) /\ finalized' = UnwoundFinal(b, finalized)
        /\ UNCHANGED <<failed, failedParent>>
    BY <1>5, Zenon DEF ParkBlock, failure
  <2>2. ActiveChainValid'
    BY <1>3, <2>1, Zenon
  <2>3. tip' \in Ancestors[tip]
    BY <2>1, UnwindFacts, Zenon
  <2>4. finalized' = None \/ (finalized # None /\ finalized' \in Ancestors[finalized])
    BY <1>1, <2>1, UnwindFacts, Zenon
  <2> QED
    BY <1>2, <2>2, <2>3, <2>4, Zenon
<1>6. CASE ReconsiderBlock(t, b)
  <2>1. /\ tip' = tip /\ failed' \subseteq failed /\ failedParent' \subseteq failedParent
        /\ finalized' = IF finalized = None THEN None ELSE LastCommonAncestor(b, finalized)
    BY <1>6, Zenon DEF ReconsiderBlock
  <2>2. finalized' = None \/ (finalized # None /\ finalized' \in Ancestors[finalized])
    BY <1>1, <2>1, CommonAncestor, Zenon
  <2>3. ActiveChainValid'
    BY <2>1, Zenon DEF ActiveChainValid
  <2> QED
    BY <1>1, <1>2, <2>1, <2>2, <2>3, Zenon
<1>7. CASE FinalizeBlock(t, b)
  <2> DEFINE bad == Lowest(Ancestors[tip] \ Ancestors[b])
  <2>1. CASE SameFork(b, tip)
    <3>1. finalized' = FinalizedWith(b) /\ UNCHANGED <<failed, failedParent, tip>>
      BY <1>7, <2>1, Zenon DEF FinalizeBlock
    <3> QED
      BY <2>1, <3>1, Zenon DEF FinalizedWith, Finalized, ActiveChainValid, FinalizedCompatible
  <2>2. CASE ~SameFork(b, tip)
    <3>1. PICK cands : Unwind(bad, cands, FinalizedWith(b))
      BY <1>7, <2>2, Zenon DEF FinalizeBlock
    <3>2. /\ bad \in known \ {Genesis} /\ bad \in Ancestors[tip] /\ bad \notin Ancestors[b]
          /\ Parent[bad] \in Ancestors[b]
      BY <1>1, <2>2, FirstAgainst, TipInTree, Zenon DEF Entries
    <3> HIDE DEF bad
    <3>3. ~Finalized(b, finalized)
      BY <1>1, <2>2, ForkBelowBoth, Zenon DEF Finalized, FinalizedCompatible
    <3>4. FinalizedWith(b) = b
      BY <3>3, Zenon DEF FinalizedWith
    <3>5. ActiveChainValid'
      BY <1>3, <3>1, <3>2, Zenon DEF Unwind
    <3>6. tip' \in Ancestors[b] /\ finalized' \in Ancestors[b]
      BY <1>1, <3>1, <3>2, <3>4, UnwindFacts, Zenon DEF Unwind, UnwoundTip
    <3>7. SameFork(finalized', tip')
      BY <1>1, <3>6, AncestorsLinear, Zenon DEF SameFork
    <3> QED
      BY <3>5, <3>7, Zenon DEF FinalizedCompatible
  <2> QED
    BY <2>1, <2>2, Zenon
<1>8. CASE UnparkBlockAndChildren(t, b) \/ PreciousBlock(t, b) \/ ProcessKnownBlock(t, b)
  <2>1. UNCHANGED <<tip, finalized, failed, failedParent>>
    BY <1>8, Zenon DEF UnparkBlockAndChildren, PreciousBlock, ProcessKnownBlock, failure
  <2> QED
    BY <2>1, Zenon DEF ActiveChainValid, FinalizedCompatible, SameFork
<1> QED
  BY <1>4, <1>5, <1>6, <1>7, <1>8, Zenon DEF Operate

\* What is left to connect for a target that is not lost has no mark that
\* ConnectBlock would not set, and the target keeps the finalized block.
LEMMA KeepsTarget ==
    ASSUME NEW t \in Thread, mostWork[t] # None, ~Lost(t)
    PROVE  /\ \A b \in Ancestors[mostWork[t]] \ Ancestors[tip] :
                 b \in Marked => Ancestors[b] \cap Invalid # {}
           /\ finalized # None => SameFork(finalized, mostWork[t])
           /\ finalized # None /\ finalized \in Ancestors[tip] => finalized \in Ancestors[mostWork[t]]
BY Zenon DEF Lost, IsInvalid, Marked, Conflicts, SameFork

\* The converse, for the state after a step.
LEMMA TargetKept ==
    ASSUME NEW t \in Thread,
           mostWork'[t] # None => /\ \A b \in Ancestors[mostWork'[t]] \ Ancestors[tip'] :
                                        b \in Marked' => Ancestors[b] \cap Invalid # {}
                                  /\ finalized' # None => SameFork(finalized', mostWork'[t])
                                  /\ finalized' # None /\ finalized' \in Ancestors[tip']
                                        => finalized' \in Ancestors[mostWork'[t]]
    PROVE  ~Lost(t)'
BY Zenon DEF Lost, IsInvalid, Marked, Conflicts, SameFork

\* Every step keeps the active chain valid and compatible with the finalized
\* block, and the targets as they should be, until a target is lost.
LEMMA GuardedStep ==
    ASSUME Index, NeverActive, Guarded, [Next]_vars, ~overtaken'
    PROVE  ActiveChainValid' /\ FinalizedCompatible' /\ Aimed'
<1> Entries /\ Marks /\ Control
  BY Zenon DEF Index
<1> ~overtaken /\ ActiveChainValid /\ FinalizedCompatible /\ NoneLower /\ Aimed
  BY StillAimed, Zenon DEF Guarded
<1>1. /\ tip \in Block /\ (finalized # None => finalized \in Block)
      /\ candidates \subseteq Block /\ Ancestors[tip] \subseteq linked
  BY TipInTree, Zenon
<1>2. UNCHANGED vars \/ \A u \in Thread : pc[u] = "loop" => ~Lost(u)'
  BY StillAimed, Zenon
<1>3. ASSUME csMain = None, \A u \in Thread : mostWork'[u] \in {mostWork[u], None}
      PROVE  UNCHANGED vars \/ Aimed'
  <2>1. \A u \in Thread : pc[u] \in {"idle", "loop"} /\ (pc[u] = "idle" => mostWork'[u] = None)
    BY <1>3, Distinct, Zenon DEF Control
  <2> QED
    BY <1>2, <2>1, Zenon DEF Aimed, Lost
<1>4. ASSUME NEW t \in Thread, csMain = t, ~Lost(t)', \A u \in Thread \ {t} : mostWork'[u] = mostWork[u]
      PROVE  UNCHANGED vars \/ Aimed'
  <2>1. \A u \in Thread \ {t} : pc[u] \in {"idle", "loop"} /\ (pc[u] = "idle" => mostWork'[u] = None)
    BY <1>4, Distinct, Zenon DEF Control
  <2> QED
    BY <1>2, <1>4, <2>1, Zenon DEF Aimed, Lost
<1>5. CASE Minor
  <2>1. UNCHANGED <<failed, failedParent, tip, finalized>>
    BY <1>5, Zenon DEF Minor
  <2>2. ActiveChainValid' /\ FinalizedCompatible'
    BY <2>1, Zenon DEF ActiveChainValid, FinalizedCompatible, SameFork
  <2>3. \A u \in Thread : mostWork'[u] \in {mostWork[u], None}
    BY <1>5, Zenon DEF Minor
  <2>4. Aimed'
    BY <2>1, <2>3, Zenon DEF Aimed, Lost, IsInvalid, Conflicts, SameFork
  <2> QED
    BY <2>2, <2>4, Zenon
<1>6. CASE UNCHANGED vars
  BY <1>5, <1>6, Zenon DEF vars, index, failure, parking, order, thread, Minor, NoAbort
<1>7. ASSUME NEW b \in Block \ {Genesis}, NEW x \in Block, RefuseHeader(b, x)
      PROVE  ActiveChainValid' /\ FinalizedCompatible' /\ Aimed'
  <2>1. /\ csMain = None /\ UNCHANGED <<failed, tip, finalized, mostWork>>
        /\ Parent[b] \in Block /\ x \in Ancestors[Parent[b]]
        /\ \/ failedParent' = failedParent
           \/ x \in failed /\ failedParent' = failedParent \cup (Ancestors[Parent[b]] \ Ancestors[x])
    BY <1>7, ParentFacts, Zenon DEF RefuseHeader, FailedBelow
  <2>2. \A y \in Marked' \ Marked : x \in failed /\ x \in Ancestors[y] /\ y \in Block
    BY <2>1, AncestorsLinear, AncestorsInTree, Zenon DEF Marked
  <2>3. ActiveChainValid'
    BY <1>1, <2>1, <2>2, AncestorsTransitive, Zenon DEF ActiveChainValid, Marked
  <2> QED
    BY <1>3, <1>6, <2>1, <2>3, Zenon DEF FinalizedCompatible, SameFork
<1>8. ASSUME NEW t \in Thread, NEW b \in Block \ {Genesis}, RejectBlock(t, b) \/ AcceptBlock(t, b)
      PROVE  ActiveChainValid' /\ FinalizedCompatible' /\ Aimed'
  <2>1. /\ Free(t) /\ UNCHANGED <<failedParent, tip, finalized, mostWork>>
        /\ b \notin data /\ failed' \subseteq failed \cup {b}
    BY <1>8, Zenon DEF RejectBlock, AcceptBlock, Activate, failure, thread
  <2>2. ActiveChainValid' /\ FinalizedCompatible'
    BY <1>1, <2>1, Zenon DEF ActiveChainValid, FinalizedCompatible, SameFork, Entries
  <2> QED
    BY <1>3, <1>6, <2>1, <2>2, Zenon DEF Free
<1>9. ASSUME NEW t \in Thread, NEW b \in known \ {Genesis}, Operate(t, b)
      PROVE  ActiveChainValid' /\ FinalizedCompatible' /\ Aimed'
  <2>1. Free(t) /\ mostWork' = mostWork
    BY <1>9, Zenon DEF Operate, InvalidateBlock, ParkBlock, ReconsiderBlock, UnparkBlockAndChildren,
       FinalizeBlock, PreciousBlock, ProcessKnownBlock, Called, Calling, Activate
  <2> QED
    BY <1>3, <1>6, <1>9, <2>1, OperateValid, Zenon DEF Free
<1>10. ASSUME NEW t \in Thread, FindMostWorkChain(t)
       PROVE  ActiveChainValid' /\ FinalizedCompatible' /\ Aimed'
  <2>1. PICK new \in candidates : LookAt(t, new) /\ UNCHANGED <<tip, finalized>>
    BY <1>10, Zenon DEF FindMostWorkChain
  <2>2. csMain = t /\ mostWork[t] = None
    BY <1>10, Zenon DEF FindMostWorkChain, Holds, Control
  <2>3. new \in Block /\ new \in Ancestors[new]
    BY <1>1, AncestorsInTree, Zenon
  <2>4. Conflicts(new) => new \notin Ancestors[tip]
    BY <1>1, <2>3, ForkBelow, Zenon DEF Conflicts, FinalizedCompatible
  <2>5. /\ failed' = IF Conflicts(new) THEN failed \cup {new} ELSE failed
        /\ failedParent' \subseteq failedParent \cup PathTo(new)
    BY <2>1, LookAtCases, LookAtMarks, Zenon
  <2>6. ActiveChainValid' /\ FinalizedCompatible'
    BY <2>1, <2>4, <2>5, Zenon DEF ActiveChainValid, FinalizedCompatible, SameFork, PathTo
  <2>7. CASE Accepted(t, new)
    <3>1. /\ mostWork' = [mostWork EXCEPT ![t] = new] /\ failedParent' = failedParent
          /\ PathTo(new) \cap (failed' \cup failedParent) = {}
      BY <2>7, Zenon DEF Accepted
    <3>2. ~Conflicts(new)
      BY <2>3, <2>4, <2>5, <3>1, Zenon DEF PathTo
    <3>3. finalized # None => SameFork(finalized, new)
      BY <3>2, Zenon DEF Conflicts, SameFork
    <3>4. ASSUME finalized # None, finalized \in Ancestors[tip], finalized \notin Ancestors[new]
          PROVE  FALSE
      <4>1. new \in Ancestors[finalized] \ {finalized} /\ finalized \in Block
        BY <1>1, <3>3, <3>4, AncestorsInTree, Zenon DEF SameFork
      <4>2. new \in Ancestors[tip] \ {tip}
        <5>1. new \in Ancestors[tip]
          BY <1>1, <3>4, <4>1, AncestorsTransitive, Zenon
        <5>2. new # tip
          BY <1>1, <3>4, <4>1, AncestorsLower, Heights, SMTT(30)
        <5> QED
          BY <5>1, <5>2
      <4>3. Work[new] < Work[tip] /\ Work[new] \in Nat /\ Work[tip] \in Nat /\ Work[new] >= Work[tip]
        BY <1>1, <2>3, <4>2, AncestorsLower, Heights, Zenon DEF NoneLower
      <4> QED
        BY <4>3
    <3>5. mostWork'[t] = new /\ \A u \in Thread \ {t} : mostWork'[u] = mostWork[u]
      BY <3>1, Zenon DEF Control
    <3>6. ~Lost(t)'
      BY <2>1, <3>1, <3>3, <3>4, <3>5, TargetKept, Zenon DEF PathTo, Marked
    <3> QED
      BY <1>4, <1>6, <2>2, <2>6, <3>5, <3>6, Zenon
  <2>8. ASSUME NEW w \in PathTo(new), Rejected(new, w)
        PROVE  ActiveChainValid' /\ FinalizedCompatible' /\ Aimed'
    <3>1. mostWork' = mostWork
      BY <2>8, Zenon DEF Rejected
    <3>2. ~Lost(t)'
      BY <2>2, <3>1, TargetKept, Zenon
    <3> QED
      BY <1>4, <1>6, <2>2, <2>6, <3>1, <3>2, Zenon
  <2> QED
    BY <2>1, <2>7, <2>8, LookAtCases, Zenon
<1>11. ASSUME NEW t \in Thread, DisconnectTip(t)
       PROVE  ActiveChainValid' /\ FinalizedCompatible' /\ Aimed'
  <2>1. /\ tip \in Block \ {Genesis} /\ tip \notin Ancestors[mostWork[t]] /\ mostWork[t] \in Block
        /\ tip' = Parent[tip] /\ Ancestors[tip] = {tip} \cup Ancestors[tip'] /\ tip' \in Block
        /\ finalized' = IF finalized = tip THEN Parent[tip] ELSE finalized
        /\ UNCHANGED <<failed, failedParent, mostWork>> /\ csMain = t
    BY <1>11, DisconnectFacts, Zenon
  <2>2. mostWork[t] # None /\ ~Lost(t)
    BY <2>1, Distinct, Zenon DEF Aimed
  <2>3. tip \in Ancestors[tip] /\ tip' \in Ancestors[tip]
    BY <2>1, AncestorsInTree, Zenon
  <2>4. finalized' = finalized /\ (finalized # None => finalized # tip)
    BY <2>1, <2>2, <2>3, Distinct, KeepsTarget, Zenon
  <2>5. ActiveChainValid' /\ FinalizedCompatible'
    <3>1. ActiveChainValid'
      BY <2>1, Zenon DEF ActiveChainValid
    <3>2. finalized # None => SameFork(finalized, tip')
      BY <1>1, <2>3, ForkBelow, Zenon DEF FinalizedCompatible
    <3> QED
      BY <2>4, <3>1, <3>2, Zenon DEF FinalizedCompatible, SameFork
  <2>6. Ancestors[mostWork[t]] \ Ancestors[tip'] = Ancestors[mostWork[t]] \ Ancestors[tip]
    BY <2>1, Zenon
  <2>7. ~Lost(t)'
    <3>1. \A b \in Ancestors[mostWork'[t]] \ Ancestors[tip'] : b \in Marked' => Ancestors[b] \cap Invalid # {}
      BY <2>1, <2>2, <2>6, KeepsTarget, Zenon DEF Marked
    <3>2. finalized' # None => SameFork(finalized', mostWork'[t])
      BY <2>1, <2>2, <2>4, KeepsTarget, Zenon
    <3>3. finalized' # None /\ finalized' \in Ancestors[tip'] => finalized' \in Ancestors[mostWork'[t]]
      BY <2>1, <2>2, <2>4, KeepsTarget, Zenon
    <3> QED
      BY <3>1, <3>2, <3>3, TargetKept, Zenon
  <2> QED
    BY <1>4, <1>6, <2>1, <2>5, <2>7, Zenon
<1>12. ASSUME NEW t \in Thread, NEW b \in Block, ConnectTip(t, b)
       PROVE  ActiveChainValid' /\ FinalizedCompatible' /\ Aimed'
  <2>1. /\ mostWork[t] \in Block /\ b \in Ancestors[mostWork[t]] /\ b \notin Invalid /\ csMain = t
        /\ Ancestors[b] = {b} \cup Ancestors[tip] /\ b \notin Ancestors[tip] /\ tip' = b
        /\ \A u \in Thread : mostWork'[u] \in {mostWork[u], None}
        /\ UNCHANGED <<failed, failedParent>>
    BY <1>12, ConnectFacts, Zenon
  <2>2. PICK f \in ToFinalize(b) : finalized' = IF f = None THEN finalized ELSE FinalizedWith(f)
    BY <1>12, ConnectFacts, Zenon
  <2>3. mostWork[t] # None /\ ~Lost(t)
    BY <2>1, Distinct, Zenon DEF Aimed
  <2>4. finalized # None => SameFork(finalized, mostWork[t])
    BY <2>3, KeepsTarget, Zenon
  <2>5. b \notin Marked
    <3>1. Ancestors[b] \cap Invalid = {}
      BY <2>1, Zenon DEF NeverActive
    <3> QED
      BY <2>1, <2>3, <3>1, KeepsTarget, Zenon
  <2>6. ActiveChainValid'
    BY <2>1, <2>5, Zenon DEF ActiveChainValid, Marked
  <2>7. Ancestors[b] \subseteq Ancestors[mostWork[t]]
    BY <2>1, AncestorsTransitive, Zenon
  <2>8. finalized # None => SameFork(finalized, b)
    BY <1>1, <2>1, <2>4, ForkBelow, Zenon
  <2>9. finalized' = finalized \/ finalized' \in Ancestors[b]
    BY <2>2, FinalizeBelow, Zenon DEF FinalizedWith
  <2>10. FinalizedCompatible'
    BY <2>1, <2>8, <2>9, Zenon DEF FinalizedCompatible, SameFork
  <2>11. ~Lost(t)'
    <3> SUFFICES ASSUME mostWork'[t] # None
                 PROVE  ~Lost(t)'
      BY Zenon DEF Lost
    <3>1. mostWork'[t] = mostWork[t]
      BY <2>1, Zenon
    <3>2. \A x \in Ancestors[mostWork'[t]] \ Ancestors[tip'] : x \in Marked' => Ancestors[x] \cap Invalid # {}
      BY <2>1, <2>3, <3>1, KeepsTarget, Zenon DEF Marked
    <3>3. finalized' # None => SameFork(finalized', mostWork'[t])
      BY <2>4, <2>7, <2>9, <3>1, Zenon DEF SameFork
    <3>4. finalized' \in Ancestors[tip'] => finalized' \in Ancestors[mostWork'[t]]
      BY <2>1, <2>7, <3>1, Zenon
    <3> QED
      BY <3>2, <3>3, <3>4, TargetKept, Zenon
  <2>12. \A u \in Thread \ {t} : mostWork'[u] = mostWork[u]
    BY <1>12, Zenon DEF ConnectTip, Unlock, thread, Control
  <2> QED
    BY <1>4, <1>6, <2>1, <2>6, <2>10, <2>11, <2>12, Zenon
<1>13. ASSUME NEW t \in Thread, NEW b \in Block, ConnectFails(t, b)
       PROVE  ActiveChainValid' /\ FinalizedCompatible' /\ Aimed'
  <2>1. /\ b \in known \ {Genesis} /\ b \notin Ancestors[tip] /\ failed' = failed \cup {b}
        /\ UNCHANGED <<failedParent, tip>> /\ csMain = t
    BY <1>13, RefuseFacts, Zenon
  <2>2. PICK low \in known \ {Genesis} :
             finalized' = InvalidChainFound(low, InvalidChainFound(b, finalized))
    BY <1>13, RefuseFacts, Zenon
  <2>3. ActiveChainValid'
    BY <2>1, Zenon DEF ActiveChainValid
  <2>4. FinalizedCompatible'
    <3>1. CASE finalized = None
      BY <2>2, <3>1, Zenon DEF InvalidChainFound, Finalized, FinalizedCompatible
    <3>2. CASE finalized # None
      <4>1. InvalidChainFound(b, finalized) \in Ancestors[finalized]
        BY <1>1, <2>1, <3>2, FoundBelow, Zenon DEF Entries
      <4>2. finalized' \in Ancestors[finalized]
        BY <1>1, <2>2, <3>2, <4>1, FoundBelow, AncestorsInTree, AncestorsTransitive, Zenon
           DEF Entries
      <4>3. SameFork(finalized', tip)
        BY <1>1, <3>2, <4>2, ForkBelowBoth, AncestorsInTree, Zenon DEF FinalizedCompatible
      <4> QED
        BY <2>1, <4>3, Zenon DEF FinalizedCompatible, SameFork
    <3> QED
      BY <3>1, <3>2, Zenon
  <2>5. mostWork'[t] = None /\ \A u \in Thread \ {t} : mostWork'[u] = mostWork[u]
    BY <1>13, Zenon DEF ConnectFails, Unlock, Control
  <2>6. ~Lost(t)'
    BY <2>5, Zenon DEF Lost
  <2> QED
    BY <1>4, <1>6, <2>1, <2>3, <2>4, <2>5, <2>6, Zenon
<1> QED
  BY <1>5, <1>7, <1>8, <1>9, <1>10, <1>11, <1>12, <1>13, Steps, Zenon

\* Guarded holds in every reachable state.
LEMMA AlwaysGuarded == Spec => []Guarded
<1>1. Init => Guarded
  <2> SUFFICES ASSUME Init
               PROVE  Guarded
    OBVIOUS
  <2>1. /\ failed = {} /\ failedParent = {} /\ candidates = {tip} /\ finalized = None
        /\ \A t \in Thread : mostWork[t] = None
    BY Zenon DEF Init
  <2>2. Work[tip] >= Work[tip]
    BY Heights, TreeAssumption DEF Init
  <2> QED
    BY <2>1, <2>2, Zenon DEF Guarded, ActiveChainValid, FinalizedCompatible, NoneLower, Aimed, Lost
<1>2. Index /\ NeverActive /\ Guarded /\ [Next]_vars => Guarded'
  <2>1. ASSUME Index, NeverActive, Guarded, [Next]_vars
        PROVE  Guarded'
    BY <2>1, NoneLowerStep, GuardedStep, Zenon DEF Guarded
  <2> QED
    BY <2>1, Zenon
<1> QED
  BY <1>1, <1>2, BaseInvariant, PTL DEF Spec

\* No block of the active chain is marked invalid, and the finalized block is
\* on the active chain or builds on it, for every interleaving of the threads
\* and the operations, until a thread that waits for cs_main loses its target.
THEOREM ActiveAlwaysValid == Spec => []ValidUnlessOvertaken
<1>1. Guarded => ValidUnlessOvertaken
  BY Zenon DEF Guarded, ValidUnlessOvertaken
<1> QED
  BY <1>1, AlwaysGuarded, PTL

\* ActivateBestChain never reorganizes a finalized block of the active chain
\* away, for any number of threads, until a waiting thread loses its target:
\* DisconnectTip stops above it.
THEOREM FinalityKept == Spec => FinalityHolds
<1>1. ASSUME Index, Guarded, [Next]_vars, csMain # None, finalized # None, finalized \in Ancestors[tip],
             ~overtaken
      PROVE  finalized \in Ancestors[tip']
  <2> Entries /\ Marks /\ Control /\ Aimed
    BY <1>1, Zenon DEF Index, Guarded
  <2>1. ASSUME NEW t \in Thread, DisconnectTip(t)
        PROVE  finalized \in Ancestors[tip']
    <3>1. /\ tip \notin Ancestors[mostWork[t]] /\ mostWork[t] \in Block
          /\ Ancestors[tip] = {tip} \cup Ancestors[tip']
      BY <2>1, DisconnectFacts, Zenon
    <3>2. finalized \in Ancestors[mostWork[t]]
      BY <1>1, <3>1, Distinct, KeepsTarget, Zenon DEF Aimed
    <3> QED
      BY <1>1, <3>1, <3>2, Zenon
  <2>2. ASSUME NEW t \in Thread, NEW b \in Block, ConnectTip(t, b)
        PROVE  finalized \in Ancestors[tip']
    BY <1>1, <2>2, ConnectFacts, Zenon
  <2>3. ASSUME NEW t \in Thread,
               \/ FindMostWorkChain(t) \/ NoCandidate(t) \/ AtTarget(t)
               \/ \E b \in Block : FinalizeFails(t, b) \/ ConnectFails(t, b)
        PROVE  tip' = tip
    BY <2>3, Zenon DEF FindMostWorkChain, NoCandidate, AtTarget, FinalizeFails, ConnectFails
  <2>4. CASE UNCHANGED vars
    BY <1>1, <2>4, Zenon DEF vars
  <2> QED
    BY <1>1, <2>1, <2>2, <2>3, <2>4, WithinIteration, Zenon
<1>2. Index /\ Guarded /\ [Next]_vars
      => [csMain # None /\ finalized # None /\ finalized \in Ancestors[tip]
            => finalized \in Ancestors[tip'] \/ overtaken]_vars
  BY <1>1, Zenon
<1> QED
  BY <1>2, AlwaysGuarded, BaseInvariant, PTL DEF Spec, FinalityHolds

\* It takes two threads: with one no target is ever lost, because the operations
\* find the thread at rest, and a refused header marks nothing above a block
\* that is neither active nor on the way to the target.
THEOREM AloneNotOvertaken ==
    ASSUME \A t, u \in Thread : t = u
    PROVE  Spec => []~overtaken
<1>1. ASSUME Index, NeverActive, Guarded, ~overtaken, [Next]_vars
      PROVE  ~overtaken'
  <2> Entries /\ Marks /\ Control /\ ActiveChainValid /\ Aimed
    BY <1>1, Zenon DEF Index, Guarded
  <2>1. CASE UNCHANGED vars
    BY <1>1, <2>1, Zenon DEF vars
  <2>2. ASSUME NEW t \in Thread, pc[t] = "loop", Lost(t)'
        PROVE  FALSE
    <3>1. \A u \in Thread : pc[u] = "loop"
      BY <2>2, Zenon
    <3>2. ASSUME UNCHANGED <<failed, failedParent, tip, finalized>>, mostWork'[t] \in {mostWork[t], None}
          PROVE  FALSE
      BY <2>2, <3>2, Zenon DEF Aimed, Lost, IsInvalid, Conflicts, SameFork
    <3>3. CASE Minor
      BY <3>2, <3>3, Zenon DEF Minor
    <3>4. ASSUME NEW b \in Block \ {Genesis}, NEW x \in Block, RefuseHeader(b, x)
          PROVE  FALSE
      <4>1. /\ UNCHANGED <<failed, tip, finalized, mostWork>>
            /\ Parent[b] \in Block /\ x \in Ancestors[Parent[b]]
            /\ \/ failedParent' = failedParent
               \/ x \in failed /\ failedParent' = failedParent \cup (Ancestors[Parent[b]] \ Ancestors[x])
        BY <3>4, ParentFacts, Zenon DEF RefuseHeader, FailedBelow
      <4>2. \A y \in Marked' \ Marked : x \in failed /\ x \in Ancestors[y] /\ y \in Block
        BY <4>1, AncestorsLinear, AncestorsInTree, Zenon DEF Marked
      <4>3. mostWork[t] # None /\ ~Lost(t) /\ mostWork[t] \in Block
        BY <2>2, <4>1, Zenon DEF Lost, Aimed, Control, Entries
      <4>4. ASSUME NEW y \in Ancestors[mostWork[t]] \ Ancestors[tip], y \in Marked'
            PROVE  Ancestors[y] \cap Invalid # {}
        <5>1. CASE y \in Marked
          BY <4>3, <4>4, <5>1, KeepsTarget, Zenon
        <5>2. CASE y \notin Marked
          <6>1. x \in failed /\ x \in Ancestors[y] /\ y \in Block
            BY <4>2, <4>4, <5>2, Zenon
          <6>2. x \in Ancestors[mostWork[t]] \ Ancestors[tip]
            BY <4>3, <4>4, <6>1, AncestorsTransitive, Zenon DEF ActiveChainValid
          <6>3. Ancestors[x] \cap Invalid # {}
            BY <4>3, <6>1, <6>2, KeepsTarget, Zenon DEF Marked
          <6> QED
            BY <6>1, <6>3, AncestorsTransitive, Zenon
        <5> QED
          BY <5>1, <5>2, Zenon
      <4>5. ~Lost(t)'
        BY <4>1, <4>3, <4>4, KeepsTarget, TargetKept, Zenon
      <4> QED
        BY <2>2, <4>5, Zenon
    <3>5. ASSUME NEW u \in Thread, NEW b \in Block \ {Genesis}, RejectBlock(u, b) \/ AcceptBlock(u, b)
          PROVE  FALSE
      BY <3>1, <3>5, Zenon DEF RejectBlock, AcceptBlock, Free
    <3>6. ASSUME NEW u \in Thread, NEW b \in known \ {Genesis}, Operate(u, b)
          PROVE  FALSE
      BY <3>1, <3>6, Zenon DEF Operate, InvalidateBlock, ParkBlock, ReconsiderBlock,
         UnparkBlockAndChildren, FinalizeBlock, PreciousBlock, ProcessKnownBlock, Called, Calling, Free
    <3>7. ASSUME NEW u \in Thread, FindMostWorkChain(u) \/ DisconnectTip(u)
          PROVE  FALSE
      BY <3>1, <3>7, Zenon DEF FindMostWorkChain, DisconnectTip, Holds
    <3>8. ASSUME NEW u \in Thread, NEW b \in Block, ConnectTip(u, b) \/ ConnectFails(u, b)
          PROVE  FALSE
      BY <3>1, <3>8, Zenon DEF ConnectTip, ConnectFails, Connecting, Holds
    <3> QED
      BY <1>1, <3>3, <3>4, <3>5, <3>6, <3>7, <3>8, Steps, Zenon
  <2> QED
    BY <1>1, <2>1, <2>2, Recorded, Zenon DEF History
<1>2. Index /\ NeverActive /\ Guarded /\ ~overtaken /\ [Next]_vars => ~overtaken'
  BY <1>1, Zenon
<1>3. Init => ~overtaken
  BY Zenon DEF Init
<1> QED
  BY <1>2, <1>3, AlwaysGuarded, BaseInvariant, PTL DEF Spec

=============================================================================
