SPECIFICATION Spec
CONSTANTS
    o1 = o1
    o2 = o2
    c1 = c1
    c2 = c2
    cu = cu
    Outpoint <- MCOutpoint
    Coin <- MCCoin
    Unspendable <- MCUnspendable
    Spent = Spent
INVARIANTS FlagsSound
PROPERTY ImplementsUtxoViews
