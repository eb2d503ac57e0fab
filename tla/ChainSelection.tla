--------------------------- MODULE ChainSelection ---------------------------
(***************************************************************************)
(* Choosing the active chain (validation.cpp): the block index, the set of *)
(* candidates for the best tip, ActivateBestChain, and the operations that *)
(* accept, invalidate, park, finalize and prefer blocks.                   *)
(*                                                                         *)
(* Every operation holds cs_main while it changes the index and then calls *)
(* ActivateBestChain, which takes cs_main once per iteration and keeps its *)
(* target, pindexMostWork, across iterations.  The steps of an iteration   *)
(* are actions of the thread that holds the lock.  Nothing is pruned and   *)
(* the node is not restarted.                                              *)
(***************************************************************************)
EXTENDS Integers, FiniteSets

CONSTANTS
    Block, Genesis,
    Parent,         \* of every block but the genesis block
    Height,
    Ancestors,      \* a block's ancestors, itself included
    Work,           \* nChainWork, in halves of a block's proof of work
    Rank,           \* the order of the index entries' addresses
    Invalid,        \* blocks that ConnectBlock refuses
    ContextInvalid, \* blocks that ContextualCheckBlock refuses
    Thread,         \* threads that run operations
    Call,           \* operations of the RPC interface that are used
    ClearAbove,     \* marks are also cleared from a block above the lowest mark
    MaxReorgDepth,  \* -maxreorgdepth
    NoDelay,        \* -finalizationdelay is 0
    ParkDeepReorg,  \* -parkdeepreorg
    None,           \* nullptr
    Aborted,        \* in place of the owner of cs_main: an assertion has failed
    MaxCalls        \* bound on the operations that may be repeated

ASSUME TreeAssumption ==
    /\ Genesis \in Block \ (Invalid \cup ContextInvalid)
    /\ None \notin Block \cup Thread /\ Aborted \notin Thread \cup {None}
    /\ Parent \in [Block \ {Genesis} -> Block]
    /\ Height \in [Block -> Nat]
    /\ Work \in [Block -> Nat]
    /\ Rank \in [Block -> Nat] /\ \A a, b \in Block : Rank[a] = Rank[b] => a = b
    /\ Ancestors[Genesis] = {Genesis}
    /\ \A b \in Block \ {Genesis} : /\ Height[b] = Height[Parent[b]] + 1
                                    /\ Work[b] > Work[Parent[b]]
                                    /\ Ancestors[b] = {b} \cup Ancestors[Parent[b]]

ASSUME OptionAssumption ==
    /\ MaxReorgDepth \in Int /\ MaxCalls \in Nat
    /\ ClearAbove \in BOOLEAN /\ NoDelay \in BOOLEAN /\ ParkDeepReorg \in BOOLEAN
    /\ Call \subseteq {"invalidate", "park", "reconsider", "unpark", "finalize",
                       "precious", "known"}

VARIABLES
    known,         \* mapBlockIndex
    data,          \* entries with BLOCK_HAVE_DATA
    linked,        \* entries with nChainTx set: all ancestors have data
    unlinked,      \* mapBlocksUnlinked, by child
    scripts,       \* entries of validity SCRIPTS
    failed, failedParent, parked, parkedParent,  \* the flags of nStatus
    gFailed,       \* g_failed_blocks
    seq,           \* nSequenceId
    nextSeq,       \* nBlockSequenceId
    revSeq,        \* nBlockReverseSequenceId
    lastPrecious,  \* nLastPreciousChainwork
    candidates,    \* setBlockIndexCandidates
    tip,           \* chainActive.Tip()
    finalized,     \* pindexFinalized
    csMain,        \* the thread in an iteration of ActivateBestChain, None or Aborted
    pc,            \* "idle", "loop", "find" or "step"
    mostWork,      \* pindexMostWork of each thread
    oldTip,        \* pindexOldTip of the iteration
    calls,
    released,      \* history: the blocks that were unparked
    overtaken      \* history: the target of a waiting thread has been lost

index   == <<known, data, linked, unlinked, scripts>>
failure == <<failed, failedParent, gFailed>>
parking == <<parked, parkedParent>>
order   == <<seq, nextSeq, revSeq, lastPrecious>>
thread  == <<csMain, pc, mostWork, oldTip>>
vars    == <<index, failure, parking, order, candidates, tip, finalized, thread, calls,
             released, overtaken>>

-----------------------------------------------------------------------------
(* The block tree.                                                         *)

Highest(S) == CHOOSE b \in S : \A c \in S : Height[c] <= Height[b]
Lowest(S)  == CHOOSE b \in S : \A c \in S : Height[b] <= Height[c]

LastCommonAncestor(a, b) == Highest(Ancestors[a] \cap Ancestors[b])
SameFork(a, b) == a \in Ancestors[b] \/ b \in Ancestors[a]

\* CBlockIndexWorkComparator: a sorts before b.
WorseIn(s, a, b) ==
    \/ Work[a] < Work[b]
    \/ Work[a] = Work[b] /\ s[a] > s[b]
    \/ Work[a] = Work[b] /\ s[a] = s[b] /\ Rank[a] > Rank[b]

Worse(a, b) == WorseIn(seq, a, b)

Descendants(b) == {x \in known : b \in Ancestors[x]}
IsInvalid(b) == b \in failed \cup failedParent

Finalized(b, f) == f # None /\ b \in Ancestors[f]

\* InvalidChainFound moves the finalization point back below an invalid block.
InvalidChainFound(b, f) == IF Finalized(b, f) THEN Parent[b] ELSE f

\* Mutant: looks at the height only.
ConflictsByHeight(b) == finalized # None /\ Height[b] < Height[finalized]

\* The block would replace the finalized one.
Conflicts(b) == finalized # None /\ ~SameFork(b, finalized)

\* Mutant: an invalid block, or one against the finalized block, may be finalized.
CanFinalizeUnchecked(b) == TRUE

\* FinalizeBlockInternal succeeds.
CanFinalize(b) == ~IsInvalid(b) /\ ~Conflicts(b)
FinalizedWith(b) == IF Finalized(b, finalized) THEN finalized ELSE b

\* Mutant: cleared entries do not become candidates again.
ReconsideredNone(changed, inv, s) == {}

\* UpdateFlagsForBlock: entries whose flags changed are candidates again.
Reconsidered(changed, inv, s) == {x \in changed \cap linked : x \notin inv /\ WorseIn(s, tip, x)}

\* Entries that UpdateFlags takes out of g_failed_blocks.
Forgiven(changed, inv) == {x \in changed \cap data : x \notin inv}

-----------------------------------------------------------------------------
(* What the properties refer to: neither variable influences a step.       *)

\* The target of a thread has a block to connect that was marked though
\* ConnectBlock would accept its chain, or is against the finalized block.
Lost(t) ==
    /\ mostWork[t] # None
    /\ \/ \E b \in Ancestors[mostWork[t]] \ Ancestors[tip] :
             IsInvalid(b) /\ Ancestors[b] \cap Invalid = {}
       \/ Conflicts(mostWork[t])
       \/ finalized # None /\ finalized \in Ancestors[tip] \ Ancestors[mostWork[t]]

\* A target is lost while its thread waits for cs_main.
History ==
    /\ released' = released \cup (parked \ parked')
    /\ overtaken' = (overtaken \/ \E t \in Thread : pc[t] = "loop" /\ Lost(t)')

-----------------------------------------------------------------------------
(* Unparking (UnparkBlockImpl).  all says whether the descendants' own     *)
(* parked flags are cleared too, inv is the set of invalid entries.        *)

ParkedChain(b) == b \in parked \cup parkedParent
ParkedBelow(b) == \E x \in Ancestors[b] \ {b} : ParkedChain(x)

UnparkChanges(b, all) ==
    {x \in Descendants(b) : x \in parkedParent \/ (x \in parked /\ (all \/ x = b))}

UnparkFlags(b, all) ==
    /\ parked' = parked \ (Ancestors[b] \cup IF all THEN Descendants(b) ELSE {})
    /\ parkedParent' = parkedParent \ (Ancestors[b] \cup Descendants(b))

UnparkedFailed(b, all, inv) ==
    gFailed \ Forgiven(UnparkChanges(b, all) \cup {x \in Ancestors[b] : ParkedChain(x)}, inv)

Unparked(b, all, inv, s) == candidates \cup Reconsidered(UnparkChanges(b, all), inv, s)

-----------------------------------------------------------------------------
(* Receiving headers and blocks.                                           *)

Free(t) == pc[t] = "idle" /\ csMain = None

\* The operation is followed by ActivateBestChain.
Activate(t) ==
    /\ pc' = [pc EXCEPT ![t] = "loop"]
    /\ UNCHANGED <<csMain, mostWork, oldTip>>

\* The failed blocks that AcceptBlockHeader finds below a new header.
FailedBelow(b) ==
    IF Parent[b] \in scripts /\ ~IsInvalid(Parent[b]) THEN {}
    ELSE {x \in gFailed : x \in Ancestors[Parent[b]]}

\* AcceptBlockHeader succeeds.
HeaderOK(b) ==
    IF b \in known THEN ~IsInvalid(b)
    ELSE Parent[b] \in known /\ ~IsInvalid(Parent[b]) /\ FailedBelow(b) = {}

ReceiveHeader(b) ==
    /\ csMain = None
    /\ b \notin known /\ HeaderOK(b)
    /\ known' = known \cup {b}
    /\ UNCHANGED <<data, linked, unlinked, scripts, failure, parking, order, candidates,
                   tip, finalized, thread, calls>>
    /\ History

\* The header is refused, and the entries between it and the failed block are
\* marked.  The failed block is asserted to have its flag.
RefuseHeader(b, x) ==
    /\ csMain = None
    /\ b \notin known /\ Parent[b] \in known /\ ~IsInvalid(Parent[b])
    /\ x \in FailedBelow(b)
    /\ \/ /\ x \in failed
          /\ failedParent' = failedParent \cup (Ancestors[Parent[b]] \ Ancestors[x])
          /\ UNCHANGED csMain
       \/ /\ x \notin failed
          /\ csMain' = Aborted
          /\ UNCHANGED failedParent
    /\ UNCHANGED <<index, failed, gFailed, parking, order, candidates, tip, finalized,
                   pc, mostWork, oldTip, calls>>
    /\ History

\* A block that is not requested and has less work than the tip only leaves
\* its header.
IgnoreBlock(t, b) ==
    /\ Free(t)
    /\ b \notin known /\ HeaderOK(b)
    /\ Work[b] < Work[tip]
    /\ known' = known \cup {b}
    /\ Activate(t)
    /\ UNCHANGED <<data, linked, unlinked, scripts, failure, parking, order, candidates,
                   tip, finalized, calls>>
    /\ History

RejectBlock(t, b) ==
    /\ Free(t)
    /\ HeaderOK(b) /\ b \notin data /\ b \in ContextInvalid
    /\ known' = known \cup {b}
    /\ failed' = failed \cup {b}
    /\ UNCHANGED <<data, linked, unlinked, scripts, failedParent, gFailed, parking, order,
                   candidates, tip, finalized, thread, calls>>
    /\ History

\* ReceivedBlockTransactions links the entries that only waited for b.
NowLinked(b) ==
    IF Parent[b] \notin linked THEN {}
    ELSE {x \in unlinked \cup {b} :
             b \in Ancestors[x] /\ Ancestors[x] \ Ancestors[b] \subseteq unlinked}

\* Sequence numbers in breadth-first order, to the entries that have none.
Sequenced(L) ==
    LET fresh == {x \in L : seq[x] = 0}
        before(x) == {y \in fresh : \/ Height[y] < Height[x]
                                    \/ Height[y] = Height[x] /\ Rank[y] < Rank[x]}
    IN [x \in Block |-> IF x \in fresh THEN nextSeq + Cardinality(before(x)) ELSE seq[x]]

AcceptBlock(t, b) ==
    /\ Free(t)
    /\ HeaderOK(b) /\ b \notin data /\ b \notin ContextInvalid
    /\ LET L == NowLinked(b) IN
       /\ linked' = linked \cup L
       /\ unlinked' = IF L # {} THEN unlinked \ L
                      ELSE IF IsInvalid(Parent[b]) THEN unlinked ELSE unlinked \cup {b}
       /\ seq' = Sequenced(L)
       /\ nextSeq' = nextSeq + Cardinality({x \in L : seq[x] = 0})
       /\ candidates' = candidates \cup {x \in L : ~WorseIn(seq', x, tip)}
    /\ known' = known \cup {b}
    /\ data' = data \cup {b}
    /\ parked' = IF ParkDeepReorg /\ Height[LastCommonAncestor(b, tip)] + 1 < Height[b]
                 THEN parked \cup {b} ELSE parked
    /\ Activate(t)
    /\ UNCHANGED <<scripts, failure, parkedParent, revSeq, lastPrecious, tip, finalized, calls>>
    /\ History

-----------------------------------------------------------------------------
(* The operations of the RPC interface.                                    *)

Calling(t, c) ==
    /\ Free(t)
    /\ c \in Call
    /\ calls < MaxCalls /\ calls' = calls + 1

Called(t, c) == Calling(t, c) /\ Activate(t)

\* The blocks that UnwindBlock disconnects.
Unwound(b) == Ancestors[tip] \cap Descendants(b)

\* Mutant: disconnects one block only.
UnwoundTipOne(b) == IF b \in Ancestors[tip] THEN Parent[tip] ELSE tip

UnwoundTip(b) == IF b \in Ancestors[tip] THEN Parent[b] ELSE tip

\* DisconnectTip takes the finalization point along.
UnwoundFinal(b, f) == IF f \in Unwound(b) THEN Parent[b] ELSE f

\* The candidates that UnwindBlock adds, given the invalid entries.
Repopulated(b, inv) == {x \in linked \ inv : ~Worse(x, UnwoundTip(b))}

\* UnwindBlock with invalidate, over given candidates and finalization point.
Unwind(b, cands, f) ==
    /\ tip' = UnwoundTip(b)
    /\ failed' = failed \cup {b}
    /\ failedParent' = failedParent \cup (Unwound(b) \ {b})
    /\ candidates' = cands \cup Repopulated(b, failed' \cup failedParent')
    /\ finalized' = InvalidChainFound(b, UnwoundFinal(b, f))

InvalidateBlock(t, b) ==
    /\ Called(t, "invalidate")
    /\ Unwind(b, candidates, finalized)
    /\ gFailed' = gFailed \cup {b}
    /\ UNCHANGED <<index, parking, order>>
    /\ History

ParkBlock(t, b) ==
    /\ Called(t, "park")
    /\ tip' = UnwoundTip(b)
    /\ parked' = parked \cup {b}
    /\ parkedParent' = parkedParent \cup (Unwound(b) \ {b})
    /\ candidates' = candidates \cup Repopulated(b, failed \cup failedParent)
    /\ finalized' = UnwoundFinal(b, finalized)
    /\ UNCHANGED <<index, failure, order>>
    /\ History

\* ResetBlockFailureFlags.
ReconsiderBlock(t, b) ==
    /\ Called(t, "reconsider")
    /\ ClearAbove \/ ~\E x \in Ancestors[b] \ {b} : IsInvalid(x)
    /\ LET cleared == Descendants(b) \cup Ancestors[b]
           changed == {x \in cleared : IsInvalid(x)}
       IN /\ failed' = failed \ cleared
          /\ failedParent' = failedParent \ cleared
          /\ gFailed' = gFailed \ Forgiven(changed, {})
          /\ candidates' = candidates \cup Reconsidered(changed \cap Descendants(b), {}, seq)
    /\ finalized' = IF finalized = None THEN None ELSE LastCommonAncestor(b, finalized)
    /\ UNCHANGED <<index, parking, order, tip>>
    /\ History

UnparkBlockAndChildren(t, b) ==
    /\ Called(t, "unpark")
    /\ ClearAbove \/ ~ParkedBelow(b)
    /\ UnparkFlags(b, TRUE)
    /\ gFailed' = UnparkedFailed(b, TRUE, failed \cup failedParent)
    /\ candidates' = Unparked(b, TRUE, failed \cup failedParent, seq)
    /\ UNCHANGED <<index, failed, failedParent, order, tip, finalized>>
    /\ History

\* FinalizeBlockAndInvalidate: the block is unparked if it has a parked flag,
\* and if it is not of the tip's branch, the active branch is invalidated.
FinalizeBlock(t, b) ==
    /\ Called(t, "finalize")
    /\ CanFinalize(b)
    /\ ClearAbove \/ ~ParkedBelow(b)
    /\ LET inv   == failed \cup failedParent
           cands == IF ParkedChain(b) THEN Unparked(b, FALSE, inv, seq) ELSE candidates
           fails == IF ParkedChain(b) THEN UnparkedFailed(b, FALSE, inv) ELSE gFailed
           bad   == Lowest(Ancestors[tip] \ Ancestors[b])
       IN \/ /\ SameFork(b, tip)
             /\ finalized' = FinalizedWith(b)
             /\ candidates' = cands
             /\ gFailed' = fails
             /\ UNCHANGED <<failed, failedParent, tip>>
          \/ /\ ~SameFork(b, tip)
             /\ Unwind(bad, cands, FinalizedWith(b))
             /\ gFailed' = fails \cup {bad}
    /\ IF ParkedChain(b) THEN UnparkFlags(b, FALSE) ELSE UNCHANGED parking
    /\ UNCHANGED <<index, order>>
    /\ History

\* Mutant: the tip itself is deleted too.
PrunedWithTip(S, s, newTip) == {x \in S : WorseIn(s, newTip, x)}

\* PruneBlockIndexCandidates.
Pruned(S, s, newTip) == {x \in S : ~WorseIn(s, x, newTip)}

\* Pruning asserts that a candidate is left.
PreciousBlock(t, b) ==
    /\ Calling(t, "precious")
    /\ Work[b] >= Work[tip]
    /\ ClearAbove \/ ~ParkedBelow(b)
    /\ LET r == IF Work[tip] > lastPrecious THEN -1 ELSE revSeq
           s == [seq EXCEPT ![b] = r]
           inv == failed \cup failedParent
           cands == (candidates \ {b}) \cup Reconsidered(UnparkChanges(b, FALSE), inv, s)
           prune == b \in linked /\ b \notin inv
       IN /\ seq' = s
          /\ revSeq' = r - 1
          /\ candidates' = IF prune THEN Pruned(cands \cup {b}, s, tip) ELSE cands
          /\ IF prune /\ candidates' = {}
             THEN csMain' = Aborted /\ UNCHANGED <<pc, mostWork, oldTip>>
             ELSE Activate(t)
    /\ lastPrecious' = Work[tip]
    /\ UnparkFlags(b, FALSE)
    /\ gFailed' = UnparkedFailed(b, FALSE, failed \cup failedParent)
    /\ UNCHANGED <<index, failed, failedParent, nextSeq, tip, finalized>>
    /\ History

\* A block that is known already only calls ActivateBestChain.
ProcessKnownBlock(t, b) ==
    /\ Called(t, "known")
    /\ ~IsInvalid(b)
    /\ UNCHANGED <<index, failure, parking, order, candidates, tip, finalized>>
    /\ History

-----------------------------------------------------------------------------
(* ActivateBestChain.                                                      *)

\* One iteration: a thread that has a target keeps it.
Lock(t) ==
    /\ pc[t] = "loop" /\ csMain = None
    /\ csMain' = t
    /\ oldTip' = [oldTip EXCEPT ![t] = tip]
    /\ pc' = [pc EXCEPT ![t] = IF mostWork[t] = None THEN "find" ELSE "step"]
    /\ UNCHANGED <<index, failure, parking, order, candidates, tip, finalized, mostWork, calls>>
    /\ History

Holds(t, where) == csMain = t /\ pc[t] = where

\* Releases cs_main with a target, None to look for another.
Unlock(t, where, target) ==
    /\ csMain' = None
    /\ pc' = [pc EXCEPT ![t] = where]
    /\ mostWork' = [mostWork EXCEPT ![t] = target]
    /\ oldTip' = [oldTip EXCEPT ![t] = None]

\* The work that unparks the candidate's chain.
RequiredWork(new) ==
    LET fork  == LastCommonAncestor(new, tip)
        depth == Height[tip] - Height[fork]
        extra == Work[IF depth \in {2, 3} THEN Parent[tip] ELSE tip] - Work[fork]
    IN Work[tip] + IF depth \in 1 .. 3 THEN extra \div 2 ELSE extra

NoCandidate(t) ==
    /\ Holds(t, "find") /\ candidates = {}
    /\ Unlock(t, "idle", None)
    /\ UNCHANGED <<index, failure, parking, order, candidates, tip, finalized, calls>>
    /\ History

\* FindMostWorkChain looks at its best candidate, from the top of its branch
\* down to the active chain.
LookAt(t, new) ==
    LET failed1 == IF Conflicts(new) THEN failed \cup {new} ELSE failed
        inv    == failed1 \cup failedParent
        path   == Ancestors[new] \ Ancestors[tip]
        onPark == {b \in path : ParkedChain(b)}
        up     == Highest(onPark)
        enough == ParkDeepReorg /\ Work[new] > RequiredWork(new)
        unpark == /\ enough /\ onPark # {}
                  /\ \A b \in path \cap inv : Height[b] <= Height[up]
        bad    == (path \cap inv) \cup (IF enough THEN {} ELSE onPark)
        cands  == IF unpark THEN Unparked(up, FALSE, inv, seq) ELSE candidates
        worst  == Highest(bad)
        above  == {b \in path : Height[b] > Height[worst]}
        park1  == IF unpark THEN parkedParent \ (Ancestors[up] \cup Descendants(up))
                  ELSE parkedParent
    IN /\ failed' = failed1
       /\ parked' = IF unpark THEN parked \ Ancestors[up] ELSE parked
       /\ gFailed' = IF unpark THEN UnparkedFailed(up, FALSE, inv) ELSE gFailed
       /\ \/ /\ bad = {}
             /\ mostWork' = [mostWork EXCEPT ![t] = new]
             /\ pc' = [pc EXCEPT ![t] = "step"]
             /\ candidates' = cands
             /\ parkedParent' = park1
             /\ UNCHANGED failedParent
          \/ /\ bad # {}
             /\ candidates' = cands \ (above \cup {worst})
             /\ failedParent' = IF worst \in inv THEN failedParent \cup above
                                ELSE failedParent \ above
             /\ parkedParent' = IF worst \in onPark /\ ~enough THEN park1 \cup above
                                ELSE park1 \ above
             /\ UNCHANGED <<mostWork, pc>>

FindMostWorkChain(t) ==
    /\ Holds(t, "find")
    /\ \E new \in candidates : /\ \A c \in candidates \ {new} : Worse(c, new)
                               /\ LookAt(t, new)
    /\ UNCHANGED <<index, order, tip, finalized, csMain, oldTip, calls>>
    /\ History

\* Nothing to do, or a target that disconnecting has reached.
AtTarget(t) ==
    /\ Holds(t, "step") /\ tip = mostWork[t]
    /\ Unlock(t, "idle", None)
    /\ UNCHANGED <<index, failure, parking, order, candidates, tip, finalized, calls>>
    /\ History

DisconnectTip(t) ==
    /\ Holds(t, "step") /\ tip \notin Ancestors[mostWork[t]]
    /\ tip' = Parent[tip]
    /\ finalized' = IF finalized = tip THEN Parent[tip] ELSE finalized
    /\ UNCHANGED <<index, failure, parking, order, candidates, thread, calls>>
    /\ History

\* The block that ConnectTip connects.
Connecting(t, b) ==
    /\ Holds(t, "step")
    /\ b \in Ancestors[mostWork[t]] \ {Genesis} /\ Parent[b] = tip

\* FindBlockToFinalize: the block at the maximal depth below the new tip or,
\* while its delay has not expired, one of its ancestors.
ToFinalize(b) ==
    LET deep == {x \in Ancestors[b] : Height[x] = Height[b] - MaxReorgDepth}
        upto == UNION {Ancestors[x] : x \in deep}
        old  == IF finalized \in upto THEN Ancestors[finalized] ELSE {}
    IN IF NoDelay THEN IF deep \ old = {} THEN {None} ELSE deep
       ELSE {None} \cup (upto \ old)

Validated(b) == IF IsInvalid(b) THEN scripts ELSE scripts \cup {b}

\* Mutant: the refused block is not marked.
InvalidBlockFoundUnmarked(b) == failed

InvalidBlockFound(b) == failed \cup {b}

\* The lock is released when the tip has more work than before.  Some
\* candidate is asserted to be left.
ConnectTip(t, b) ==
    /\ Connecting(t, b) /\ b \notin Invalid
    /\ \E f \in ToFinalize(b) :
          /\ f # None => CanFinalize(f)
          /\ finalized' = IF f = None THEN finalized ELSE FinalizedWith(f)
    /\ scripts' = Validated(b)
    /\ tip' = b
    /\ candidates' = Pruned(candidates, seq, b)
    /\ \/ /\ candidates' = {}
          /\ csMain' = Aborted
          /\ UNCHANGED <<pc, mostWork, oldTip>>
       \/ /\ candidates' # {} /\ b = mostWork[t]
          /\ Unlock(t, "idle", None)
       \/ /\ candidates' # {} /\ b # mostWork[t] /\ Work[b] > Work[oldTip[t]]
          /\ Unlock(t, "loop", mostWork[t])
       \/ /\ candidates' # {} /\ b # mostWork[t] /\ Work[b] <= Work[oldTip[t]]
          /\ UNCHANGED thread
    /\ UNCHANGED <<known, data, linked, unlinked, failure, parking, order, calls>>
    /\ History

\* FinalizeBlockInternal fails: the block is not marked, and another target is
\* looked for.
FinalizeFails(t, b) ==
    /\ Connecting(t, b) /\ b \notin Invalid
    /\ \E f \in ToFinalize(b) : f # None /\ ~CanFinalize(f)
    /\ scripts' = Validated(b)
    /\ Unlock(t, "loop", None)
    /\ UNCHANGED <<known, data, linked, unlinked, failure, parking, order, candidates, tip,
                   finalized, calls>>
    /\ History

\* The second InvalidChainFound is for the first block of the new branch.
ConnectFails(t, b) ==
    /\ Connecting(t, b) /\ b \in Invalid
    /\ failed' = InvalidBlockFound(b)
    /\ gFailed' = gFailed \cup {b}
    /\ finalized' = InvalidChainFound(Lowest(Ancestors[mostWork[t]] \ Ancestors[oldTip[t]]),
                                      InvalidChainFound(b, finalized))
    /\ Unlock(t, "loop", None)
    /\ UNCHANGED <<index, failedParent, parking, order, candidates, tip, calls>>
    /\ History

ActivateBestChain(t) ==
    \/ Lock(t)
    \/ NoCandidate(t)
    \/ FindMostWorkChain(t)
    \/ AtTarget(t)
    \/ DisconnectTip(t)
    \/ \E b \in Block : ConnectTip(t, b) \/ FinalizeFails(t, b) \/ ConnectFails(t, b)

-----------------------------------------------------------------------------

Init ==
    /\ known = {Genesis} /\ data = {Genesis} /\ linked = {Genesis} /\ unlinked = {}
    /\ scripts = {Genesis}
    /\ failed = {} /\ failedParent = {} /\ gFailed = {}
    /\ parked = {} /\ parkedParent = {}
    /\ seq = [b \in Block |-> IF b = Genesis THEN 1 ELSE 0] /\ nextSeq = 2
    /\ revSeq = -1 /\ lastPrecious = 0
    /\ candidates = {Genesis} /\ tip = Genesis /\ finalized = None
    /\ csMain = None
    /\ pc = [t \in Thread |-> "idle"]
    /\ mostWork = [t \in Thread |-> None]
    /\ oldTip = [t \in Thread |-> None]
    /\ calls = 0
    /\ released = {} /\ overtaken = FALSE

Receive(t, b) == IgnoreBlock(t, b) \/ RejectBlock(t, b) \/ AcceptBlock(t, b)

Operate(t, b) ==
    \/ InvalidateBlock(t, b) \/ ParkBlock(t, b)
    \/ ReconsiderBlock(t, b) \/ UnparkBlockAndChildren(t, b)
    \/ FinalizeBlock(t, b) \/ PreciousBlock(t, b)
    \/ ProcessKnownBlock(t, b)

Next ==
    \/ \E b \in Block \ {Genesis} : ReceiveHeader(b) \/ \E x \in Block : RefuseHeader(b, x)
    \/ \E t \in Thread, b \in Block \ {Genesis} : Receive(t, b)
    \/ \E t \in Thread, b \in known \ {Genesis} : Operate(t, b)
    \/ \E t \in Thread : ActivateBestChain(t)

Spec == Init /\ [][Next]_vars

\* A thread that runs ActivateBestChain goes on.
FairSpec == Spec /\ \A t \in Thread : WF_vars(ActivateBestChain(t))

-----------------------------------------------------------------------------

\* Every entry with transactions, on the way to its parents or linked to them,
\* is in the block index; candidates, the tip and the targets of the threads
\* are linked entries; the finalized block is known.
TypeOK ==
    /\ linked \subseteq data /\ data \subseteq known /\ known \subseteq Block
    /\ unlinked \subseteq data \ linked
    /\ scripts \subseteq linked
    /\ failed \cup failedParent \cup parked \cup parkedParent \cup gFailed \subseteq known
    /\ candidates \subseteq linked
    /\ seq \in [Block -> Int]
    /\ tip \in linked
    /\ finalized \in known \cup {None}
    /\ csMain \in Thread \cup {None, Aborted}
    /\ pc \in [Thread -> {"idle", "loop", "find", "step"}]
    /\ mostWork \in [Thread -> linked \cup {None}]
    /\ oldTip \in [Thread -> linked \cup {None}]
    /\ calls \in 0 .. MaxCalls

Quiet == \A t \in Thread : pc[t] = "idle"

\* No block of the active chain is marked invalid: UnwindBlock disconnects
\* what it marks, and ActivateBestChain connects nothing that is marked.
ActiveChainValid == Ancestors[tip] \cap (failed \cup failedParent) = {}

\* The finalized block is on the active chain or builds on it, through
\* finalizeblock, automatic finalization, invalidation and reconsideration.
FinalizedCompatible == finalized # None => SameFork(finalized, tip)

\* A chain that nothing forbids: no block of it is marked, and it agrees with
\* the finalized block.
Usable(b) ==
    /\ \A x \in Ancestors[b] : ~IsInvalid(x) /\ ~ParkedChain(x)
    /\ ~Conflicts(b)

\* When no operation is under way, ActivateBestChain has left the node on the
\* best usable chain, whatever marks were set and cleared before.
TipIsBest == Quiet => \A b \in linked : Usable(b) => ~Worse(tip, b)

\* When no operation is under way, the tip is a candidate, so that the node can
\* come back to it, and PruneBlockIndexCandidates has left no worse one.
CandidatesSane == Quiet => /\ tip \in candidates
                           /\ \A b \in candidates : ~Worse(b, tip)

\* However the iterations of the threads and the operations interleave, the
\* active chain is valid and compatible with the finalized block, unless a
\* block on the way to the target of a thread was marked, or one against it
\* finalized, while the thread was between two iterations: it does not look at
\* its target again.
ValidUnlessOvertaken == overtaken \/ (ActiveChainValid /\ FinalizedCompatible)

\* ActivateBestChain never reorganizes a finalized block of the active chain
\* away, with the same exception.
FinalityHolds ==
    [][csMain # None /\ finalized # None /\ finalized \in Ancestors[tip]
         => finalized \in Ancestors[tip'] \/ overtaken]_vars

\* ActivateBestChain moves the finalized block along one branch only, and
\* never takes the finalization back altogether.
FinalizedOnOneBranch ==
    [][csMain # None /\ finalized # None
         => finalized' # None /\ SameFork(finalized, finalized')]_vars

\* nChainTx is set only when the transactions of all ancestors have arrived, in
\* whatever order ReceivedBlockTransactions got them.
LinkedSound == \A b \in linked : Ancestors[b] \subseteq data

\* No assertion of PruneBlockIndexCandidates or AcceptBlockHeader fails.
NoAbort == csMain # Aborted

\* No chain was ever active that was long enough for FindBlockToFinalize.
NothingToFinalize == \A b \in scripts : Height[b] <= MaxReorgDepth

\* A block was refused above one that had been parked and unparked again.
RefusedAboveReleased == \E b \in gFailed : (Ancestors[b] \ {b}) \cap released # {}

\* However the iterations of the threads interleave, as long as only blocks
\* arrive, no operation of the RPC interface is used and nothing is finalized:
\* the active chain is valid, and no assertion fails, unless ConnectBlock has
\* refused a block above one that FindMostWorkChain had unparked.
ThreadsSafe ==
    calls = 0 /\ NothingToFinalize =>
        ActiveChainValid /\ (NoAbort \/ RefusedAboveReleased)

\* Under the same conditions the threads return from ActivateBestChain, and the
\* node comes to rest: neither keeps the other one busy for ever.
ThreadsReturn == []<>(Quiet \/ calls > 0 \/ ~NothingToFinalize)

=============================================================================
