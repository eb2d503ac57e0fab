-------------------------- MODULE MCChainSelection --------------------------
(* Two branches a1 - a2 - a3 and b1 - b2 - b3 - b4, and c2 beside a2.  Every *)
(* configuration names the blocks it uses.                                 *)
EXTENDS ChainSelection, TLC

CONSTANTS g, a1, a2, a3, b1, b2, b3, b4, c2

Below == (a1 :> g) @@ (a2 :> a1) @@ (a3 :> a2) @@ (c2 :> a1)
         @@ (b1 :> g) @@ (b2 :> b1) @@ (b3 :> b2) @@ (b4 :> b3)

MCParent == [b \in Block \ {g} |-> Below[b]]

MCHeight[b \in Block] == IF b = g THEN 0 ELSE 1 + MCHeight[Below[b]]

MCAncestors[b \in Block] == {b} \cup IF b = g THEN {} ELSE MCAncestors[Below[b]]

MCRank == [b \in Block |-> CASE b = g -> 0 [] b = a1 -> 1 [] b = b1 -> 2 [] b = a2 -> 3
                             [] b = b2 -> 4 [] b = c2 -> 5 [] b = a3 -> 6 [] b = b3 -> 7
                             [] b = b4 -> 8]

\* The same proof of work for every block, and half as much again for b2.
MCWork == [b \in Block |-> 2 * (MCHeight[b] + 1)]
MCMixedWork == [b \in Block |-> MCWork[b] + IF b \in {b2, b3, b4} THEN 1 ELSE 0]

-----------------------------------------------------------------------------
(* Further properties, for the configurations that README.md lists.        *)

\* setBlockIndexCandidates never loses the way to the best usable chain: for
\* every usable entry there is a usable candidate as good.
BestIsCandidate ==
    csMain = None => \A b \in linked :
        Usable(b) => \E c \in candidates : Usable(c) /\ ~Worse(c, b)

\* Every call of ActivateBestChain returns.
ActivationReturns == \A t \in Thread : pc[t] = "loop" ~> pc[t] = "idle" \/ ~NoAbort

\* The branch that a thread begins to replace, and its length.
Replaced(t) == Height[tip] - Height[LastCommonAncestor(tip, mostWork[t])]
Replacing(t) == csMain = t /\ tip = oldTip[t] /\ Height[tip'] < Height[tip]

\* With -parkdeepreorg, two or more blocks are replaced only by a chain that is
\* ahead by more than half a block of work, unless an operator intervenes or the
\* node returns to a chain that it left for one that turned out invalid.
DeepReorgsPay ==
    [][\A t \in Thread :
          calls = 0 /\ Replacing(t) /\ Replaced(t) >= 2 /\ mostWork[t] \notin scripts
          => Work[mostWork[t]] > Work[tip] + 1]_vars

\* Parking never holds off a chain with twice the work of the active one since
\* their fork: when no operation is under way, every such chain is invalid or
\* against the finalized block, unless an operator intervened.
EnoughWorkWins ==
    Quiet /\ calls = 0 => \A b \in linked :
        \/ \E x \in Ancestors[b] : IsInvalid(x)
        \/ Conflicts(b)
        \/ Work[b] <= 2 * Work[tip] - Work[LastCommonAncestor(b, tip)]

\* Up to a depth of three, half a block of work is enough for a parked chain:
\* FindMostWorkChain gives up none that has more.
PenaltyIsHalfABlock ==
    [][\A b \in candidates \ candidates' :
          (csMain # None /\ tip' = tip /\ ~IsInvalid(b)
             /\ Height[tip] - Height[LastCommonAncestor(b, tip)] <= 3)
          => Work[b] <= Work[tip] + 1]_vars

\* An entry marked for a failed ancestor has one (CheckBlockIndex).
MarksHaveCause == \A b \in failedParent : \E x \in Ancestors[b] : x \in failed

\* ActivateBestChain leaves a block parked that was connected before, unless
\* its chain grows.
ParkedStays == [][csMain # None => parked \cap scripts \subseteq parked']_vars

\* An entry that waits for an ancestor's transactions, with no failed ancestor,
\* is in mapBlocksUnlinked (CheckBlockIndex).
UnlinkedComplete ==
    \A b \in data \ linked : Ancestors[b] \cap failed = {} => b \in unlinked

=============================================================================
