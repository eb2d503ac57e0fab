-------------------------- MODULE AtomicChainstate --------------------------
(***************************************************************************)
(* What the coin database promises: it is at some block of the chain, a    *)
(* flush takes it to the current tip in one step, and a crash takes the    *)
(* node back to the block of the last flush.                               *)
(***************************************************************************)

CONSTANTS Block, Genesis, Parent

VARIABLES
    tip,      \* the node's tip
    durable   \* the block the database is at

vars == <<tip, durable>>

Init == tip = Genesis /\ durable = Genesis

Move ==
    /\ \/ tip' \in Block \ {Genesis} /\ Parent[tip'] = tip
       \/ tip # Genesis /\ tip' = Parent[tip]
    /\ UNCHANGED durable

Flush == durable' = tip /\ UNCHANGED tip

Crash == tip' = durable /\ UNCHANGED durable

Next == Move \/ Flush \/ Crash

Spec == Init /\ [][Next]_vars
=============================================================================
