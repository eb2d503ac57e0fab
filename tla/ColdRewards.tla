---------------------------- MODULE ColdRewards ----------------------------
(***************************************************************************)
(* The cold-rewards database (devault/rewards.cpp, devault/rewardsview.h)  *)
(* of one node, driven by the block connections and disconnections of      *)
(* validation.cpp and by the block template builder of miner.cpp.          *)
(*                                                                         *)
(* Every non-superblock pays one cold reward, to the unspent output that   *)
(* has waited longest.  Whether a block is valid therefore depends on the  *)
(* database, so the databases of two nodes on the same chain must select   *)
(* the same coin.  "ledger" is the reference: for every height of the      *)
(* active chain, the unspent coins that earn rewards and the height at     *)
(* which each was created or last paid, computed from the blocks alone.    *)
(* "strayed" keeps the coins whose entry the code is known to leave wrong. *)
(***************************************************************************)
EXTENDS RewardSelection, FiniteSets

CONSTANTS
    nMinBalance,     \* consensus.nMinRewardBalance
    PayCountModulus, \* 2^32: payCount is a uint32_t
    TxSets,          \* bound: the transactions a block may hold
    MaxHeight,       \* bound: length of the chain
    ReorgDepth       \* environment: the deepest reorganisation

VARIABLES
    chain,           \* the active chain without genesis: a sequence of blocks
    db,              \* the rewards database: outpoint -> CRewardValue
    cachedInactives, \* outpoint -> height at which it was spent
    peak,            \* the greatest height the chain has had
    ledger,          \* reference: ledger[h+1] is the map after h blocks
    strayed          \* ghost: coins whose entry cannot be relied on

vars == <<chain, db, cachedInactives, peak, ledger, strayed>>

-----------------------------------------------------------------------------
(* Data.                                                                   *)

Payment == [value : Nat, script : {Script[k] : k \in Key}] \cup {NoPay}

\* CRewardValue without its output, which the outpoint determines.
NewReward(h) == [height |-> h, OldHeight |-> h, payCount |-> 0, active |-> TRUE]
NullReward   == [height |-> 0, OldHeight |-> 0, payCount |-> 0, active |-> FALSE]

GetReward(d, k) == IF k \in DOMAIN d THEN d[k] ELSE NullReward

\* d with the entries of e written over it.
Write(d, e) == [k \in DOMAIN d \cup DOMAIN e |->
                    IF k \in DOMAIN e THEN e[k] ELSE d[k]]

PutReward(d, k, r) == Write(d, [x \in {k} |-> r])

Height == Len(chain)

-----------------------------------------------------------------------------
(* CColdRewards.                                                           *)

\* Mutant of UpdateRewardsDB: the height does not move.
UpdateRewardsDBCountOnly(d, k, H) ==
    PutReward(d, k, [GetReward(d, k) EXCEPT !.payCount = (@ + 1) % PayCountModulus])

\* The paid coin's height becomes the block's, its previous one is kept.
UpdateRewardsDB(d, k, H) ==
    LET r == GetReward(d, k) IN
    PutReward(d, k, [r EXCEPT !.OldHeight = r.height, !.height = H,
                              !.payCount = (@ + 1) % PayCountModulus])

\* A connected block: outputs of at least nMinBalance enter, unless spent in
\* the same block; spent coins of the database become inactive and enter the
\* cache, where an older entry stays (std::map::insert).
UpdateWithBlock(d, b, H) ==
    LET added == {k \in b.creates : Value[k] >= nMinBalance} \ b.spends
        spent == b.spends \cap DOMAIN d
    IN  Write(Write(d, [k \in added |-> NewReward(H)]),
              [k \in spent |-> [d[k] EXCEPT !.active = FALSE]])

CacheWithBlock(d, c, b, H) ==
    Write([k \in b.spends \cap DOMAIN d |-> H], c)

\* The entry that RestoreRewardAtHeight takes for that of the paid coin: the first
\* one of that height.
AtHeight(d, H) == {k \in DOMAIN d : d[k].height = H}
Bingo(d, H) == {j \in AtHeight(d, H) : \A o \in AtHeight(d, H) : CursorPos[j] <= CursorPos[o]}

RestoreRewardAtHeight(d, H) ==
    IF AtHeight(d, H) = {} THEN d
    ELSE LET k == CHOOSE j \in Bingo(d, H) : TRUE
             r == d[k]
         IN  PutReward(d, CursorKey(k),
                       [r EXCEPT !.height = r.OldHeight,
                                 !.payCount = (@ - 1) % PayCountModulus])

\* UndoBlock's treatment of an entry that the block spent.
Unspend(r, H) ==
    LET h1 == IF r.active THEN r.OldHeight ELSE r.height
    IN  [r EXCEPT !.active = TRUE,
                  !.height = IF h1 >= H THEN r.OldHeight ELSE h1]


\* The updates are read before the reward is restored and written after it.
UndoBlock(d, b, H) ==
    LET updates  == [k \in b.spends \cap DOMAIN d |-> Unspend(d[k], H)]
        restored == IF b.pay # NoPay /\ ~IsSuperBlock(H)
                    THEN RestoreRewardAtHeight(d, H) ELSE d
        removals == b.creates \cap DOMAIN restored
    IN  Erase(Write(restored, updates), removals)

\* GetInActivesFromDB, at startup.
GetInActivesFromDB(d, H) ==
    [k \in {CursorKey(j) : j \in {i \in DOMAIN d : ~d[i].active}} |-> H]

-----------------------------------------------------------------------------
(* The reference: what the blocks alone determine.                         *)

Last == ledger[Len(ledger)]

LedgerNext(last, b, H) ==
    LET added == {k \in b.creates : Value[k] >= nMinBalance}
    IN  [k \in (DOMAIN last \cup added) \ b.spends |->
            IF k \in added \cup b.paid THEN H ELSE last[k]]

\* Two things make a coin's entry unreliable until the coin is created anew.  Its
\* payment is undone, but RestoreRewardAtHeight rewinds another entry of the same
\* height (a coin spent in that very block is put right by UndoBlock).
StrayedByUndo(d, b, H) == IF Bingo(d, H) \subseteq b.paid THEN {} ELSE b.paid \ b.spends

\* It is spent while cachedInactives still holds the height of an earlier spend that
\* was undone, and FindReward will purge it by that height.
StrayedBySpend(d, c, b, H) == {k \in b.spends \cap DOMAIN d \cap DOMAIN c : c[k] < H}

-----------------------------------------------------------------------------
(* The node.                                                               *)

Created == UNION {chain[i].creates : i \in 1..Height}
Spent   == UNION {chain[i].spends : i \in 1..Height}

\* Transactions that ConnectBlock's checks accept on the active chain.
ValidTxs(t) ==
    /\ t.creates \cap Created = {}
    /\ t.spends \subseteq (Created \ Spent) \cup t.creates

\* The database after FindReward's purge for the next height, as Validate
\* and FillPayments leave it.
ScannedDb == Erase(db, Purgeable(db, cachedInactives, Height + 1))
ScannedCache == Erase(cachedInactives, Purgeable(db, cachedInactives, Height + 1))

\* ConnectTip of a block that Validate accepts: ConnectBlock validates the
\* coinbase and moves the paid coin's height, then UpdateWithBlock runs.
ConnectTip(t) ==
    LET H     == Height + 1
        super == IsSuperBlock(H)
        pay   == IF super THEN NoPay ELSE FindPayment(LastHeight(db), H)
        d1    == IF super THEN db ELSE ScannedDb
        c1    == IF super THEN cachedInactives ELSE ScannedCache
        paid  == IF pay = NoPay THEN {} ELSE {Selected(LastHeight(db), H)}
        d2    == IF pay = NoPay THEN d1
                 ELSE UpdateRewardsDB(d1, CursorKey(Selected(LastHeight(db), H)), H)
        b     == [creates |-> t.creates, spends |-> t.spends, pay |-> pay, paid |-> paid]
    IN  /\ H <= MaxHeight
        /\ ValidTxs(t)
        /\ chain' = Append(chain, b)
        /\ db' = UpdateWithBlock(d2, b, H)
        /\ cachedInactives' = CacheWithBlock(d2, c1, b, H)
        /\ peak' = IF H > peak THEN H ELSE peak
        /\ ledger' = Append(ledger, LedgerNext(Last, b, H))
        /\ strayed' = (strayed \ b.creates) \cup StrayedBySpend(d2, c1, b, H)

\* A scan that connects nothing: Validate of a block whose coinbase does not
\* match (ConnectBlock fails), FillPayments and TestBlockValidity of a block
\* template (CreateNewBlock).  The purge is kept.
ScanOnly ==
    /\ ~IsSuperBlock(Height + 1)
    /\ Height < MaxHeight
    /\ db' = ScannedDb
    /\ cachedInactives' = ScannedCache
    /\ UNCHANGED <<chain, peak, ledger, strayed>>

\* DisconnectTip: ApplyBlockUndo calls UndoBlock; the cache is not touched.
DisconnectTip ==
    /\ Height > 0
    /\ Height > peak - ReorgDepth
    /\ db' = UndoBlock(db, chain[Height], Height)
    /\ chain' = SubSeq(chain, 1, Height - 1)
    /\ ledger' = SubSeq(ledger, 1, Height)
    /\ strayed' = strayed \cup StrayedByUndo(db, chain[Height], Height)
    /\ UNCHANGED <<cachedInactives, peak>>

\* A clean shutdown and start: the database stays, the cache is rebuilt.
Restart ==
    /\ cachedInactives' = GetInActivesFromDB(db, Height)
    /\ UNCHANGED <<chain, db, peak, ledger, strayed>>

Init ==
    /\ chain = <<>>
    /\ db = <<>>
    /\ cachedInactives = <<>>
    /\ peak = 0
    /\ ledger = << <<>> >>
    /\ strayed = {}

Next ==
    \/ \E t \in TxSets : ConnectTip(t)
    \/ ScanOnly
    \/ DisconnectTip
    \/ Restart

Spec == Init /\ [][Next]_vars

-----------------------------------------------------------------------------
(* Properties.                                                             *)

\* Every variable has its type; heights never exceed the bound.
TypeOK ==
    /\ chain \in Seq([creates : SUBSET Key, spends : SUBSET Key, pay : Payment, paid : SUBSET Key])
    /\ \A k \in DOMAIN db : db[k] \in [height : 0..MaxHeight, OldHeight : 0..MaxHeight,
                                       payCount : 0..(PayCountModulus - 1), active : BOOLEAN]
    /\ \A k \in DOMAIN cachedInactives : cachedInactives[k] \in 0..MaxHeight
    /\ peak \in Height..MaxHeight
    /\ Len(ledger) = Height + 1
    /\ strayed \subseteq Key


\* The same without exception (RestoreRewardAtHeight and UndoBlock undo what
\* UpdateRewardsDB and UpdateWithBlock did).
DbIsExact == LastHeight(db) = Last

\* A coin is not paid twice within nMinBlocks blocks (COLDREWARDS.md: "Rewards
\* occur no more frequently than this"; FindReward, UpdateRewardsDB).  The
\* instances give every coin a script of its own.
PaymentsSpaced ==
    \A i, j \in 1..Height :
        /\ i < j
        /\ chain[i].pay # NoPay /\ chain[j].pay # NoPay
        /\ chain[i].pay.script = chain[j].pay.script
        => j - i > nMinBlocks

\* The blocks since coin k was created or paid that could have paid it.
MissedBlocks(k) ==
    {h \in 1..Height : ~IsSuperBlock(h) /\ k \in Candidates([j \in {k} |-> Last[k]], h)}

\* No coin starves: a coin that has become payable is passed over in at most
\* as many blocks as there are other coins that earn rewards, because
\* FindReward takes the coin that has waited longest (rewards.cpp:252).  A coin that
\* strayed may be passed over for longer; it does not delay the others.
NoStarvation ==
    \A k \in DOMAIN Last \ strayed :
        Cardinality(MissedBlocks(k)) < Cardinality({j \in Key : Value[j] >= nMinBalance})
=============================================================================
