SPECIFICATION FairSpec
CONSTANTS
    g = g  a1 = a1  a2 = a2  a3 = a3  b1 = b1  b2 = b2  b3 = b3  b4 = b4  c2 = c2
    Genesis = g
    Block = {g, a1, a2, a3, b1, b2}
    Parent <- MCParent
    Height <- MCHeight
    Ancestors <- MCAncestors
    Work <- MCWork
    Rank <- MCRank
    Invalid = {b2}
    ContextInvalid = {}
    Thread = {t1, t2}
    Call = {"finalize"}
    ClearAbove = FALSE
    MaxReorgDepth = 2
    NoDelay = TRUE
    ParkDeepReorg = TRUE
    None = None
    Aborted = Aborted
    MaxCalls = 1
INVARIANTS ThreadsSafe ValidUnlessOvertaken
PROPERTIES FinalizedOnOneBranch ThreadsReturn
CHECK_DEADLOCK FALSE
