----------------------------- MODULE UtxoViews -----------------------------
(***************************************************************************)
(* What the coins views promise (coins.h): a set of unspent coins, and a   *)
(* working copy of it that a block is applied to and that is then either   *)
(* taken over as a whole or thrown away.                                   *)
(***************************************************************************)

CONSTANTS
    Outpoint,
    Coin,
    Spent    \* the empty coin

VARIABLES
    tipCoins,   \* the coins of the active chain's tip
    viewCoins   \* the coins as the block in progress sees them

vars == <<tipCoins, viewCoins>>

Init ==
    /\ tipCoins = [o \in Outpoint |-> Spent]
    /\ viewCoins = tipCoins

Add(o, c) ==
    /\ viewCoins' = [viewCoins EXCEPT ![o] = c]
    /\ UNCHANGED tipCoins

Spend(o) ==
    /\ viewCoins' = [viewCoins EXCEPT ![o] = Spent]
    /\ UNCHANGED tipCoins

Commit ==
    /\ tipCoins' = viewCoins
    /\ UNCHANGED viewCoins

Discard ==
    /\ viewCoins' = tipCoins
    /\ UNCHANGED tipCoins

Next ==
    \/ \E o \in Outpoint, c \in Coin : Add(o, c)
    \/ \E o \in Outpoint : Spend(o)
    \/ Commit
    \/ Discard

Spec == Init /\ [][Next]_vars
=============================================================================
