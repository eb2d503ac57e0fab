----------------------------- MODULE CoinsCache -----------------------------
(***************************************************************************)
(* The stack of coins views (coins.cpp, txdb.cpp): the coin database, the  *)
(* cache pcoinsTip over it, and the cache over pcoinsTip that a block is   *)
(* connected or disconnected in.  A cache entry carries the flags DIRTY    *)
(* and FRESH, which decide what a flush writes and which entries may be    *)
(* dropped without writing anything.                                       *)
(***************************************************************************)

CONSTANTS
    Outpoint,
    Coin,        \* unspent coins
    Unspendable, \* those whose script is unspendable
    Spent        \* the cleared coin

ASSUME CoinsCacheAssumption ==
    /\ Spent \notin Coin
    /\ Unspendable \subseteq Coin

VARIABLES
    db,       \* CCoinsViewDB: outpoint -> coin, Spent when it has no record
    tip,      \* pcoinsTip's cacheCoins
    view,     \* cacheCoins of the view in progress
    threw     \* a std::logic_error was thrown

vars == <<db, tip, view, threw>>

\* CCoinsCacheEntry; "in" says whether the map holds the entry at all.
Entry == [in : BOOLEAN, coin : Coin \cup {Spent}, dirty : BOOLEAN, fresh : BOOLEAN]

Cached(c, d, f) == [in |-> TRUE, coin |-> c, dirty |-> d, fresh |-> f]
Absent == [in |-> FALSE, coin |-> Spent, dirty |-> FALSE, fresh |-> FALSE]
Empty  == [o \in Outpoint |-> Absent]

-----------------------------------------------------------------------------
(* Reading.                                                                *)

\* FetchCoin: the entry of a cache after looking an outpoint up, where "base"
\* is what the base's GetCoin answers.  A spent coin in the base makes the
\* entry FRESH.
Fetch(entry, base) ==
    IF entry.in \/ ~base.in THEN entry
    ELSE Cached(base.coin, FALSE, base.coin = Spent)

DbEntry(o)   == [in |-> db[o] # Spent, coin |-> db[o], dirty |-> FALSE, fresh |-> FALSE]
TipFetch(o)  == Fetch(tip[o], DbEntry(o))
ViewFetch(o) == Fetch(view[o], TipFetch(o))

\* pcoinsTip after a lookup in the view: the view asks only what it lacks.
TipAfterView(o) == IF view[o].in THEN tip ELSE [tip EXCEPT ![o] = TipFetch(o)]

\* The coin that each view shows.
TipCoin(o)  == TipFetch(o).coin
ViewCoin(o) == ViewFetch(o).coin

-----------------------------------------------------------------------------
(* The operations.                                                         *)

AccessTip(o) ==
    /\ tip' = [tip EXCEPT ![o] = TipFetch(o)]
    /\ UNCHANGED <<db, view, threw>>

AccessView(o) ==
    /\ view' = [view EXCEPT ![o] = ViewFetch(o)]
    /\ tip' = TipAfterView(o)
    /\ UNCHANGED <<db, threw>>

\* AddCoin's entry.  It is FRESH when no other version can be unspent in the
\* base: the caller excludes an overwrite and the entry is not dirty.
Added(entry, c, overwrite) ==
    Cached(c, TRUE, entry.fresh \/ (~overwrite /\ ~entry.dirty))

AddCoin(o, c, overwrite) ==
    /\ ~overwrite => ViewCoin(o) = Spent
    /\ IF c \in Unspendable THEN UNCHANGED <<view, threw>>
       ELSE IF ~overwrite /\ view[o].coin # Spent
       THEN threw' = TRUE /\ UNCHANGED view
       ELSE /\ view' = [view EXCEPT ![o] = Added(view[o], c, overwrite)]
            /\ UNCHANGED threw
    /\ UNCHANGED <<db, tip>>

SpentEntry(entry) ==
    IF ~entry.in \/ entry.fresh THEN Absent ELSE Cached(Spent, TRUE, FALSE)

SpendCoin(o) ==
    /\ view' = [view EXCEPT ![o] = SpentEntry(ViewFetch(o))]
    /\ tip' = TipAfterView(o)
    /\ UNCHANGED <<db, threw>>

\* Mutants of Written: the child's FRESH flag replaces the parent's; a spent
\* coin is erased from the parent without a trace.
WrittenCopyingFresh(child, parent) ==
    IF ~child.in \/ ~child.dirty THEN parent
    ELSE IF child.coin = Spent /\ (child.fresh \/ parent.fresh) THEN Absent
    ELSE Cached(child.coin, TRUE, child.fresh)

WrittenErasingSpent(child, parent) ==
    IF ~child.in \/ ~child.dirty THEN parent
    ELSE IF child.coin = Spent THEN Absent
    ELSE Cached(child.coin, TRUE, IF parent.in THEN parent.fresh ELSE child.fresh)

\* BatchWrite of one entry of the view into pcoinsTip.
Written(child, parent) ==
    IF ~child.in \/ ~child.dirty THEN parent
    ELSE IF ~parent.in
    THEN IF child.fresh /\ child.coin = Spent THEN Absent
         ELSE Cached(child.coin, TRUE, child.fresh)
    ELSE IF parent.fresh /\ child.coin = Spent THEN Absent
         ELSE Cached(child.coin, TRUE, parent.fresh)

\* The FRESH flag says the base has no unspent version, but it has one.
Misapplied(child, parent) ==
    /\ child.in /\ child.dirty /\ child.fresh
    /\ parent.in /\ parent.coin # Spent

Flush ==
    /\ IF \E o \in Outpoint : Misapplied(view[o], tip[o])
       THEN threw' = TRUE /\ UNCHANGED <<tip, view>>
       ELSE /\ tip' = [o \in Outpoint |-> Written(view[o], tip[o])]
            /\ view' = Empty
            /\ UNCHANGED threw
    /\ UNCHANGED db

\* The view goes out of scope without a flush: ConnectBlock failed, or the
\* block was only checked.
Discard ==
    /\ view' = Empty
    /\ UNCHANGED <<db, tip, threw>>

\* pcoinsTip->Flush(), with no view on top; CCoinsViewDB::BatchWrite.
FlushTip ==
    /\ view = Empty
    /\ db' = [o \in Outpoint |-> IF tip[o].in /\ tip[o].dirty THEN tip[o].coin ELSE db[o]]
    /\ tip' = Empty
    /\ UNCHANGED <<view, threw>>

Uncache(o) ==
    /\ tip[o].in /\ ~tip[o].dirty /\ ~tip[o].fresh
    /\ tip' = [tip EXCEPT ![o] = Absent]
    /\ UNCHANGED <<db, view, threw>>

Init ==
    /\ db = [o \in Outpoint |-> Spent]
    /\ tip = Empty
    /\ view = Empty
    /\ threw = FALSE

Next ==
    \/ \E o \in Outpoint :
          \/ AccessTip(o) \/ AccessView(o) \/ SpendCoin(o) \/ Uncache(o)
          \/ \E c \in Coin, overwrite \in BOOLEAN : AddCoin(o, c, overwrite)
    \/ Flush
    \/ Discard
    \/ FlushTip

Spec == Init /\ [][Next]_vars

-----------------------------------------------------------------------------
(* Properties.                                                             *)

\* Every map holds coins and entries (CCoinsMap, CCoinsCacheEntry).
TypeOK ==
    /\ db \in [Outpoint -> Coin \cup {Spent}]
    /\ tip \in [Outpoint -> Entry]
    /\ view \in [Outpoint -> Entry]
    /\ threw \in BOOLEAN

\* An entry of a cache against the coin its base shows: a FRESH entry has no
\* unspent version below, an unmodified one is the base's coin.
Sound(entry, baseCoin) ==
    /\ entry.fresh => baseCoin = Spent
    /\ entry.in /\ ~entry.dirty => entry.coin = baseCoin
    /\ ~entry.in => entry = Absent

\* Every cache entry is sound against the view below it: the inductive
\* invariant behind the flags (coins.h:99-109).
FlagsSound ==
    \A o \in Outpoint : Sound(tip[o], db[o]) /\ Sound(view[o], TipCoin(o))

\* Neither of the logic errors that AddCoin and BatchWrite throw can happen,
\* as long as callers exclude an overwrite only when the coin is spent
\* (coins.cpp:120, coins.cpp:225).
NoLogicError == ~threw

Abstract == INSTANCE UtxoViews WITH
    tipCoins  <- [o \in Outpoint |-> TipCoin(o)],
    viewCoins <- [o \in Outpoint |-> ViewCoin(o)]

\* The caches together implement a plain set of coins with a working copy:
\* lookups, uncaching and flushing pcoinsTip change no coin, a flush of the
\* view takes over exactly its coins, dropping it changes nothing.
ImplementsUtxoViews == Abstract!Spec
=============================================================================
