SPECIFICATION FairSpec
CONSTANTS
    g = g
    a1 = a1
    a2 = a2
    b1 = b1
    b2 = b2
    x = x
    y = y
    z = z
    Block <- MCBlock
    Genesis = g
    Parent <- MCParent
    Height <- MCHeight
    Ancestors <- MCAncestors
    Outpoint <- MCOutpoint
    Creates <- MCCreates
    Spends <- MCSpends
    Utxo <- MCUtxo
    Spent = Spent
    Null = Null
    MaxCrashes = 2
INVARIANTS CoinsMatchTip DatabaseMatchesHead RecoveryNeverFails
PROPERTIES FlushIsAtomic RecoveryTerminates
