SPECIFICATION Spec
CONSTANTS
    g = g  a1 = a1  a2 = a2  a3 = a3  b1 = b1  b2 = b2  b3 = b3  b4 = b4  c2 = c2
    Genesis = g
    Block = {g, a1, a2, b1, b2, c2}
    Parent <- MCParent
    Height <- MCHeight
    Ancestors <- MCAncestors
    Work <- MCMixedWork
    Rank <- MCRank
    Invalid = {b2}
    ContextInvalid = {c2}
    Thread = {t1}
    Call = {"invalidate", "park", "reconsider", "unpark", "finalize", "precious", "known"}
    ClearAbove = FALSE
    MaxReorgDepth = 1
    NoDelay = FALSE
    ParkDeepReorg = FALSE
    None = None
    Aborted = Aborted
    MaxCalls = 2
INVARIANTS ActiveChainValid TipIsBest CandidatesSane
PROPERTIES FinalityHolds
CHECK_DEADLOCK FALSE
