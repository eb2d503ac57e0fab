-------------------------- MODULE CoinsCacheProofs --------------------------
(***************************************************************************)
(* The coins caches are sound and implement UtxoViews, for any sets of     *)
(* outpoints and coins.  Each operation is first treated for the records   *)
(* of one outpoint - its coin d in the database, its entry t in pcoinsTip  *)
(* and its entry v in the view - and then lifted to the maps.              *)
(***************************************************************************)
EXTENDS CoinsCache, TLAPS

CacheInv == TypeOK /\ FlagsSound /\ NoLogicError

-----------------------------------------------------------------------------
(* One outpoint.                                                           *)

\* What pcoinsTip and the view show.
TipShows(d, t)     == IF t.in THEN t.coin ELSE d
ViewShows(d, t, v) == IF v.in THEN v.coin ELSE TipShows(d, t)

Record(d) == [in |-> d # Spent, coin |-> d, dirty |-> FALSE, fresh |-> FALSE]

Good(d, t, v) ==
    /\ d \in Coin \cup {Spent}
    /\ t \in Entry
    /\ v \in Entry
    /\ Sound(t, d)
    /\ Sound(v, TipShows(d, t))

\* A lookup yields a sound entry, and the base's coin where the cache had no
\* entry (FetchCoin).
LEMMA FetchSound ==
    ASSUME NEW e \in Entry, NEW b \in Entry, Sound(e, b.coin), ~b.in => b.coin = Spent
    PROVE  /\ Fetch(e, b) \in Entry
           /\ Sound(Fetch(e, b), b.coin)
           /\ e.in => Fetch(e, b).coin = e.coin
           /\ ~e.in => Fetch(e, b).coin = b.coin
           /\ ~Fetch(e, b).in => Fetch(e, b).coin = Spent
  <1>1. CASE e.in \/ ~b.in
    <2>1. Fetch(e, b) = e
      BY <1>1, Zenon DEF Fetch
    <2> QED BY <1>1, <2>1 DEF Sound, Absent
  <1>2. CASE ~(e.in \/ ~b.in) /\ b.coin = Spent
    <2>1. Fetch(e, b) = Cached(Spent, FALSE, TRUE)
      BY <1>2, Zenon DEF Fetch
    <2> QED BY <1>2, <2>1 DEF Sound, Cached, Entry
  <1>3. CASE ~(e.in \/ ~b.in) /\ b.coin # Spent
    <2>1. Fetch(e, b) = Cached(b.coin, FALSE, FALSE)
      BY <1>3, Zenon DEF Fetch
    <2> QED BY <1>3, <2>1 DEF Sound, Cached, Entry
  <1> QED BY <1>1, <1>2, <1>3

\* The database's record as the base of a lookup.
LEMMA RecordIsEntry ==
    ASSUME NEW d \in Coin \cup {Spent}
    PROVE  Record(d) \in Entry /\ Record(d).coin = d /\ (~Record(d).in => d = Spent)
  BY Zenon DEF Record, Entry

\* A lookup in pcoinsTip shows the same coins afterwards.
LEMMA TipLookup ==
    ASSUME NEW d, NEW t, NEW v, Good(d, t, v)
    PROVE  LET t2 == Fetch(t, Record(d))
           IN  /\ t2 \in Entry
               /\ Sound(t2, d)
               /\ t2.coin = TipShows(d, t)
               /\ TipShows(d, t2) = TipShows(d, t)
               /\ Good(d, t2, v)
               /\ ~t2.in => t2.coin = Spent
  <1> DEFINE t2 == Fetch(t, Record(d))
  <1>1. /\ Record(d) \in Entry /\ Record(d).coin = d /\ (~Record(d).in => d = Spent)
        /\ t \in Entry /\ Sound(t, d)
    BY RecordIsEntry DEF Good
  <1>2. Sound(t, Record(d).coin) /\ (~Record(d).in => Record(d).coin = Spent)
    BY <1>1
  <1>3. /\ t2 \in Entry /\ Sound(t2, Record(d).coin)
        /\ t.in => t2.coin = t.coin
        /\ ~t.in => t2.coin = Record(d).coin
        /\ ~t2.in => t2.coin = Spent
    BY <1>1, <1>2, FetchSound
  <1>4. t2.coin = TipShows(d, t) /\ Sound(t2, d)
    BY <1>1, <1>3 DEF TipShows
  <1>5. t2.in => TipShows(d, t2) = t2.coin
    BY DEF TipShows
  <1>6. ~t2.in => ~Record(d).in /\ ~t.in
    BY <1>1, <1>3 DEF Fetch, Cached
  <1>7. ~t2.in => TipShows(d, t2) = d /\ TipShows(d, t) = d
    BY <1>6 DEF TipShows
  <1>8. TipShows(d, t2) = TipShows(d, t)
    BY <1>4, <1>5, <1>7
  <1>9. Good(d, t2, v)
    BY <1>3, <1>4, <1>8 DEF Good
  <1> HIDE DEF t2
  <1> QED BY <1>3, <1>4, <1>8, <1>9 DEF t2

\* The entries of pcoinsTip and of the view after a lookup in the view.
TipAfter(d, t, v)  == IF v.in THEN t ELSE Fetch(t, Record(d))
ViewAfter(d, t, v) == Fetch(v, Fetch(t, Record(d)))

\* A lookup in the view shows the same coins afterwards, in both.
LEMMA ViewLookup ==
    ASSUME NEW d, NEW t, NEW v, Good(d, t, v)
    PROVE  LET v2 == ViewAfter(d, t, v)
               t2 == TipAfter(d, t, v)
           IN  /\ v2.coin = ViewShows(d, t, v)
               /\ Sound(v2, TipShows(d, t))
               /\ v2 \in Entry
               /\ ~v2.in => v2.coin = Spent
               /\ TipShows(d, t2) = TipShows(d, t)
               /\ ViewShows(d, t2, v2) = ViewShows(d, t, v)
               /\ Good(d, t2, v2)
  <1> DEFINE f  == Fetch(t, Record(d))
             v2 == Fetch(v, f)
             t2 == IF v.in THEN t ELSE f
  <1>1. /\ f \in Entry /\ Sound(f, d) /\ f.coin = TipShows(d, t)
        /\ TipShows(d, f) = TipShows(d, t) /\ Good(d, f, v)
        /\ ~f.in => f.coin = Spent
    BY TipLookup
  <1>2. v \in Entry /\ Sound(v, f.coin)
    BY <1>1 DEF Good
  <1> HIDE DEF f
  <1>3. /\ v2 \in Entry /\ Sound(v2, f.coin)
        /\ v.in => v2.coin = v.coin
        /\ ~v.in => v2.coin = f.coin
        /\ ~v2.in => v2.coin = Spent
    BY <1>1, <1>2, FetchSound
  <1>4. v2.coin = ViewShows(d, t, v) /\ Sound(v2, TipShows(d, t))
    BY <1>1, <1>3 DEF ViewShows
  <1>5. TipShows(d, t2) = TipShows(d, t) /\ Good(d, t2, v)
    BY <1>1
  <1>6. ~v2.in => ~v.in /\ ~f.in
    BY <1>1, <1>2, <1>3 DEF Fetch, Cached
  <1>7. ViewShows(d, t2, v2) = ViewShows(d, t, v)
    <2>1. CASE v2.in
      BY <2>1, <1>4 DEF ViewShows
    <2>2. CASE ~v2.in
      BY <2>2, <1>5, <1>6 DEF ViewShows
    <2> QED BY <2>1, <2>2
  <1>8. Sound(v2, TipShows(d, t2))
    BY <1>4, <1>5
  <1> HIDE DEF v2, t2
  <1>9. Good(d, t2, v2)
    BY <1>3, <1>5, <1>8 DEF Good
  <1>10. ViewAfter(d, t, v) = v2 /\ TipAfter(d, t, v) = t2
    BY DEF ViewAfter, TipAfter, v2, t2, f
  <1> QED BY <1>3, <1>4, <1>5, <1>7, <1>9, <1>10

\* AddCoin shows the added coin; the entry it replaces is spent when the
\* caller excludes an overwrite.
LEMMA EntryAdded ==
    ASSUME NEW d, NEW t, NEW v, Good(d, t, v), NEW c \in Coin, NEW ow \in BOOLEAN,
           ~ow => ViewShows(d, t, v) = Spent
    PROVE  /\ ~ow => v.coin = Spent
           /\ Good(d, t, Added(v, c, ow))
           /\ ViewShows(d, t, Added(v, c, ow)) = c
  <1>1. ~ow => v.coin = Spent
    BY DEF Good, Sound, ViewShows, Absent
  <1>2. CASE v.fresh \/ (~ow /\ ~v.dirty)
    <2>1. Added(v, c, ow) = Cached(c, TRUE, TRUE)
      BY <1>2, Zenon DEF Added, Good, Entry, Cached
    <2>2. TipShows(d, t) = Spent
      <3>1. CASE v.fresh
        BY <3>1 DEF Good, Sound
      <3>2. CASE ~ow /\ ~v.dirty
        BY <3>2, <1>1 DEF Good, Sound, ViewShows
      <3> QED BY <3>1, <3>2, <1>2
    <2> QED BY <1>1, <2>1, <2>2 DEF Good, Sound, Entry, Cached, ViewShows
  <1>3. CASE ~(v.fresh \/ (~ow /\ ~v.dirty))
    <2>1. Added(v, c, ow) = Cached(c, TRUE, FALSE)
      BY <1>3, Zenon DEF Added, Good, Entry, Cached
    <2> QED BY <1>1, <2>1 DEF Good, Sound, Entry, Cached, ViewShows
  <1> QED BY <1>2, <1>3

\* SpendCoin leaves the coin spent in the view and unchanged below it.
LEMMA EntrySpent ==
    ASSUME NEW d, NEW t, NEW v, Good(d, t, v)
    PROVE  LET v2 == SpentEntry(ViewAfter(d, t, v))
               t2 == TipAfter(d, t, v)
           IN  /\ Good(d, t2, v2)
               /\ TipShows(d, t2) = TipShows(d, t)
               /\ ViewShows(d, t2, v2) = Spent
  <1> DEFINE e  == ViewAfter(d, t, v)
             t2 == TipAfter(d, t, v)
             v2 == SpentEntry(e)
  <1>1. /\ e \in Entry /\ Sound(e, TipShows(d, t)) /\ (~e.in => e.coin = Spent)
        /\ TipShows(d, t2) = TipShows(d, t) /\ Good(d, t2, e)
        /\ ViewShows(d, t2, e) = e.coin
    BY ViewLookup, SMTT(30)
  <1> HIDE DEF e, t2
  <1>2. Good(d, t2, v2) /\ ViewShows(d, t2, v2) = Spent
    <2>1. CASE ~e.in \/ e.fresh
      <3>1. v2 = Absent
        BY <2>1, Zenon DEF SpentEntry
      <3>2. TipShows(d, t2) = Spent
        BY <1>1, <2>1 DEF Sound, ViewShows
      <3> QED BY <1>1, <3>1, <3>2 DEF Good, Sound, Absent, Entry, ViewShows
    <2>2. CASE ~(~e.in \/ e.fresh)
      <3>1. v2 = Cached(Spent, TRUE, FALSE)
        BY <2>2 DEF SpentEntry
      <3> QED BY <1>1, <3>1 DEF Good, Sound, Cached, Entry, ViewShows
    <2> QED BY <2>1, <2>2
  <1> QED BY <1>1, <1>2 DEF e, t2

\* BatchWrite of an entry: its FRESH flag is not misapplied, and pcoinsTip
\* shows afterwards what the view showed.
LEMMA EntryWritten ==
    ASSUME NEW d, NEW t, NEW v, Good(d, t, v)
    PROVE  /\ ~Misapplied(v, t)
           /\ Good(d, Written(v, t), Absent)
           /\ TipShows(d, Written(v, t)) = ViewShows(d, t, v)
           /\ ViewShows(d, Written(v, t), Absent) = ViewShows(d, t, v)
  <1>1. ~Misapplied(v, t)
    BY DEF Misapplied, Good, Sound, TipShows
  <1>2. Good(d, Written(v, t), Absent) /\ TipShows(d, Written(v, t)) = ViewShows(d, t, v)
    <2>1. CASE ~v.in \/ ~v.dirty
      BY <2>1, Zenon DEF Good, Sound, Written, TipShows, ViewShows, Absent, Entry
    <2>2. CASE v.in /\ v.dirty /\ ~t.in /\ v.fresh
      BY <2>2 DEF Good, Sound, Written, TipShows, ViewShows, Absent, Entry, Cached
    <2>3. CASE v.in /\ v.dirty /\ ~t.in /\ ~v.fresh
      BY <2>3 DEF Good, Sound, Written, TipShows, ViewShows, Absent, Entry, Cached
    <2>4. CASE v.in /\ v.dirty /\ t.in /\ t.fresh
      BY <2>4 DEF Good, Sound, Written, TipShows, ViewShows, Absent, Entry, Cached
    <2>5. CASE v.in /\ v.dirty /\ t.in /\ ~t.fresh
      BY <2>5 DEF Good, Sound, Written, TipShows, ViewShows, Absent, Entry, Cached
    <2> QED BY <2>1, <2>2, <2>3, <2>4, <2>5
  <1> QED BY <1>1, <1>2 DEF ViewShows, Absent

\* Dropping the view's entry, an unmodified entry of pcoinsTip, or all of
\* pcoinsTip once it is written, changes no coin below.
LEMMA EntryDropped ==
    ASSUME NEW d, NEW t, NEW v, Good(d, t, v)
    PROVE  /\ Good(d, t, Absent)
           /\ ViewShows(d, t, Absent) = TipShows(d, t)
           /\ ~t.dirty => Good(d, Absent, v) /\ TipShows(d, Absent) = TipShows(d, t)
           /\ LET d2 == IF t.in /\ t.dirty THEN t.coin ELSE d
              IN  Good(d2, Absent, Absent) /\ TipShows(d2, Absent) = TipShows(d, t)
  <1>1. Good(d, t, Absent) /\ ViewShows(d, t, Absent) = TipShows(d, t)
    BY DEF Good, Sound, Absent, Entry, ViewShows
  <1>2. ~t.dirty => Good(d, Absent, v) /\ TipShows(d, Absent) = TipShows(d, t)
    BY DEF Good, Sound, Absent, Entry, TipShows
  <1>3. LET d2 == IF t.in /\ t.dirty THEN t.coin ELSE d
        IN  Good(d2, Absent, Absent) /\ TipShows(d2, Absent) = TipShows(d, t)
    BY DEF Good, Sound, Absent, Entry, TipShows
  <1> QED BY <1>1, <1>2, <1>3

-----------------------------------------------------------------------------
(* The maps.                                                               *)

AllGood == \A o \in Outpoint : Good(db[o], tip[o], view[o])

MapsOK ==
    /\ db = [o \in Outpoint |-> db[o]]
    /\ tip = [o \in Outpoint |-> tip[o]]
    /\ view = [o \in Outpoint |-> view[o]]
    /\ threw = FALSE

\* The invariant, outpoint by outpoint.
LEMMA InvIsGood ==
    /\ CacheInv <=> MapsOK /\ AllGood
    /\ CacheInv => \A o \in Outpoint :
                      /\ DbEntry(o) = Record(db[o])
                      /\ TipCoin(o) = TipShows(db[o], tip[o])
                      /\ ViewCoin(o) = ViewShows(db[o], tip[o], view[o])
  <1>1. ASSUME NEW o \in Outpoint
        PROVE  DbEntry(o) = Record(db[o])
    BY DEF DbEntry, Record
  <1>2. ASSUME NEW o \in Outpoint, Good(db[o], tip[o], view[o])
        PROVE  /\ TipCoin(o) = TipShows(db[o], tip[o])
               /\ ViewCoin(o) = ViewShows(db[o], tip[o], view[o])
    <2>1. /\ TipFetch(o) = Fetch(tip[o], Record(db[o]))
          /\ ViewFetch(o) = Fetch(view[o], Fetch(tip[o], Record(db[o])))
      BY <1>1 DEF TipFetch, ViewFetch
    <2>2. Fetch(tip[o], Record(db[o])).coin = TipShows(db[o], tip[o])
      BY <1>2, TipLookup
    <2>3. Fetch(view[o], Fetch(tip[o], Record(db[o]))).coin = ViewShows(db[o], tip[o], view[o])
      BY <1>2, ViewLookup, SMTT(30) DEF ViewAfter
    <2> QED BY <2>1, <2>2, <2>3 DEF TipCoin, ViewCoin
  <1>3. ASSUME NEW o \in Outpoint, db[o] \in Coin \cup {Spent}, tip[o] \in Entry, Sound(tip[o], db[o])
        PROVE  TipCoin(o) = TipShows(db[o], tip[o])
    <2>1. Good(db[o], tip[o], Absent)
      BY <1>3 DEF Good, Sound, Absent, Entry
    <2> QED BY <1>1, <2>1, TipLookup DEF TipCoin, TipFetch
  <1>4. ASSUME CacheInv PROVE MapsOK /\ AllGood
    <2>1. MapsOK
      BY <1>4 DEF CacheInv, TypeOK, MapsOK, NoLogicError
    <2>2. ASSUME NEW o \in Outpoint PROVE Good(db[o], tip[o], view[o])
      <3>1. /\ db[o] \in Coin \cup {Spent} /\ tip[o] \in Entry /\ view[o] \in Entry
            /\ Sound(tip[o], db[o]) /\ Sound(view[o], TipCoin(o))
        BY <1>4 DEF CacheInv, TypeOK, FlagsSound
      <3> QED BY <3>1, <1>3 DEF Good
    <2> QED BY <2>1, <2>2 DEF AllGood
  <1>5. ASSUME MapsOK, AllGood PROVE CacheInv
    <2>1. ASSUME NEW o \in Outpoint
          PROVE  /\ db[o] \in Coin \cup {Spent} /\ tip[o] \in Entry /\ view[o] \in Entry
                 /\ Sound(tip[o], db[o]) /\ Sound(view[o], TipCoin(o))
      BY <1>5, <1>2 DEF AllGood, Good
    <2>2. TypeOK
      BY <1>5, <2>1, Zenon DEF TypeOK, MapsOK
    <2>3. FlagsSound
      BY <2>1 DEF FlagsSound
    <2> QED BY <1>5, <2>2, <2>3 DEF CacheInv, NoLogicError, MapsOK
  <1> QED BY <1>1, <1>2, <1>4, <1>5 DEF AllGood

TipCoins  == [o \in Outpoint |-> TipShows(db[o], tip[o])]
ViewCoins == [o \in Outpoint |-> ViewShows(db[o], tip[o], view[o])]

\* A lookup in pcoinsTip leaves all coins as they are.
LEMMA StepAccessTip ==
    ASSUME MapsOK, AllGood, NEW o \in Outpoint, AccessTip(o)
    PROVE  MapsOK' /\ AllGood' /\ TipCoins' = TipCoins /\ ViewCoins' = ViewCoins
  <1>1. DbEntry(o) = Record(db[o])
    BY DEF DbEntry, Record
  <1>2. /\ db' = db /\ view' = view /\ threw' = threw
        /\ tip' = [tip EXCEPT ![o] = Fetch(tip[o], Record(db[o]))]
    BY <1>1 DEF AccessTip, TipFetch
  <1>3. MapsOK'
    BY <1>2 DEF MapsOK
  <1>4. ASSUME NEW p \in Outpoint
        PROVE  /\ Good(db[p], tip'[p], view[p])
               /\ TipShows(db[p], tip'[p]) = TipShows(db[p], tip[p])
               /\ ViewShows(db[p], tip'[p], view[p]) = ViewShows(db[p], tip[p], view[p])
    <2>1. Good(db[p], tip[p], view[p])
      BY DEF AllGood
    <2>2. CASE p = o
      <3>1. tip'[p] = Fetch(tip[p], Record(db[p]))
        BY <1>2, <2>2 DEF MapsOK
      <3>2. Good(db[p], tip'[p], view[p]) /\ TipShows(db[p], tip'[p]) = TipShows(db[p], tip[p])
        BY <2>1, <3>1, TipLookup
      <3> QED BY <3>2 DEF ViewShows
    <2>3. CASE p # o
      BY <1>2, <2>1, <2>3 DEF MapsOK
    <2> QED BY <2>2, <2>3
  <1> QED BY <1>2, <1>3, <1>4 DEF AllGood, TipCoins, ViewCoins

\* So does a lookup in the view, which may also fill pcoinsTip.
LEMMA StepAccessView ==
    ASSUME MapsOK, AllGood, NEW o \in Outpoint, AccessView(o)
    PROVE  MapsOK' /\ AllGood' /\ TipCoins' = TipCoins /\ ViewCoins' = ViewCoins
  <1> DEFINE t2 == TipAfter(db[o], tip[o], view[o])
             v2 == ViewAfter(db[o], tip[o], view[o])
  <1>1. DbEntry(o) = Record(db[o])
    BY DEF DbEntry, Record
  <1>2. /\ db' = db /\ threw' = threw
        /\ view' = [view EXCEPT ![o] = v2]
        /\ tip' = [tip EXCEPT ![o] = t2]
    BY <1>1, Zenon DEF AccessView, TipFetch, ViewFetch, TipAfterView, MapsOK, TipAfter, ViewAfter
  <1>3. Good(db[o], tip[o], view[o])
    BY DEF AllGood
  <1>4. /\ Good(db[o], t2, v2)
        /\ TipShows(db[o], t2) = TipShows(db[o], tip[o])
        /\ ViewShows(db[o], t2, v2) = ViewShows(db[o], tip[o], view[o])
    BY <1>3, ViewLookup, SMTT(30)
  <1> HIDE DEF t2, v2
  <1>5. MapsOK'
    BY <1>2, Zenon DEF MapsOK
  <1>6. ASSUME NEW p \in Outpoint
        PROVE  /\ Good(db[p], tip'[p], view'[p])
               /\ TipShows(db[p], tip'[p]) = TipShows(db[p], tip[p])
               /\ ViewShows(db[p], tip'[p], view'[p]) = ViewShows(db[p], tip[p], view[p])
    <2>1. CASE p = o
      BY <1>2, <1>4, <2>1 DEF MapsOK
    <2>2. CASE p # o
      BY <1>2, <2>2, Zenon DEF MapsOK, AllGood
    <2> QED BY <2>1, <2>2
  <1> QED BY <1>2, <1>5, <1>6 DEF AllGood, TipCoins, ViewCoins

\* AddCoin adds one coin to the view, or nothing if it is unspendable, and
\* does not throw.
LEMMA StepAddCoin ==
    ASSUME MapsOK, AllGood, NEW o \in Outpoint, NEW c \in Coin, NEW ow \in BOOLEAN,
           AddCoin(o, c, ow), ViewCoin(o) = ViewShows(db[o], tip[o], view[o])
    PROVE  /\ MapsOK' /\ AllGood' /\ TipCoins' = TipCoins
           /\ \/ ViewCoins' = ViewCoins
              \/ ViewCoins' = [ViewCoins EXCEPT ![o] = c]
  <1>1. CASE c \in Unspendable
    BY <1>1 DEF AddCoin, MapsOK, AllGood, TipCoins, ViewCoins
  <1>2. CASE c \notin Unspendable
    <2>1. Good(db[o], tip[o], view[o]) /\ (~ow => ViewShows(db[o], tip[o], view[o]) = Spent)
      BY DEF AllGood, AddCoin
    <2>2. /\ ~ow => view[o].coin = Spent
          /\ Good(db[o], tip[o], Added(view[o], c, ow))
          /\ ViewShows(db[o], tip[o], Added(view[o], c, ow)) = c
      BY <2>1, EntryAdded
    <2>3. /\ db' = db /\ tip' = tip /\ threw' = threw
          /\ view' = [view EXCEPT ![o] = Added(view[o], c, ow)]
      BY <1>2, <2>2 DEF AddCoin
    <2>4. MapsOK'
      BY <2>3 DEF MapsOK
    <2>5. ASSUME NEW p \in Outpoint
          PROVE  /\ Good(db[p], tip[p], view'[p])
                 /\ ViewShows(db[p], tip[p], view'[p]) =
                        IF p = o THEN c ELSE ViewShows(db[p], tip[p], view[p])
      <3>1. CASE p = o
        BY <2>2, <2>3, <3>1 DEF MapsOK
      <3>2. CASE p # o
        BY <2>3, <3>2 DEF MapsOK, AllGood
      <3> QED BY <3>1, <3>2
    <2> QED BY <2>3, <2>4, <2>5, Zenon DEF AllGood, TipCoins, ViewCoins
  <1> QED BY <1>1, <1>2

\* SpendCoin spends one coin of the view.
LEMMA StepSpendCoin ==
    ASSUME MapsOK, AllGood, NEW o \in Outpoint, SpendCoin(o)
    PROVE  /\ MapsOK' /\ AllGood' /\ TipCoins' = TipCoins
           /\ ViewCoins' = [ViewCoins EXCEPT ![o] = Spent]
  <1> DEFINE t2 == TipAfter(db[o], tip[o], view[o])
             v2 == SpentEntry(ViewAfter(db[o], tip[o], view[o]))
  <1>1. DbEntry(o) = Record(db[o])
    BY DEF DbEntry, Record
  <1>2. /\ db' = db /\ threw' = threw
        /\ view' = [view EXCEPT ![o] = v2]
        /\ tip' = [tip EXCEPT ![o] = t2]
    BY <1>1, Zenon DEF SpendCoin, TipFetch, ViewFetch, TipAfterView, MapsOK, TipAfter, ViewAfter
  <1>3. Good(db[o], tip[o], view[o])
    BY DEF AllGood
  <1>4. /\ Good(db[o], t2, v2)
        /\ TipShows(db[o], t2) = TipShows(db[o], tip[o])
        /\ ViewShows(db[o], t2, v2) = Spent
    BY <1>3, EntrySpent, SMTT(30)
  <1> HIDE DEF t2, v2
  <1>5. MapsOK'
    BY <1>2, Zenon DEF MapsOK
  <1>6. ASSUME NEW p \in Outpoint
        PROVE  /\ Good(db[p], tip'[p], view'[p])
               /\ TipShows(db[p], tip'[p]) = TipShows(db[p], tip[p])
               /\ ViewShows(db[p], tip'[p], view'[p]) =
                      IF p = o THEN Spent ELSE ViewShows(db[p], tip[p], view[p])
    <2>1. CASE p = o
      BY <1>2, <1>4, <2>1 DEF MapsOK
    <2>2. CASE p # o
      BY <1>2, <2>2, Zenon DEF MapsOK, AllGood
    <2> QED BY <2>1, <2>2
  <1> QED BY <1>2, <1>5, <1>6, Zenon DEF AllGood, TipCoins, ViewCoins

\* Flush does not throw; pcoinsTip takes over the view's coins.
LEMMA StepFlush ==
    ASSUME MapsOK, AllGood, Flush
    PROVE  MapsOK' /\ AllGood' /\ TipCoins' = ViewCoins /\ ViewCoins' = ViewCoins
  <1>1. ASSUME NEW o \in Outpoint
        PROVE  /\ ~Misapplied(view[o], tip[o])
               /\ Good(db[o], Written(view[o], tip[o]), Absent)
               /\ TipShows(db[o], Written(view[o], tip[o])) = ViewShows(db[o], tip[o], view[o])
               /\ ViewShows(db[o], Written(view[o], tip[o]), Absent) = ViewShows(db[o], tip[o], view[o])
    BY EntryWritten DEF AllGood
  <1>2. /\ db' = db /\ threw' = threw
        /\ tip' = [o \in Outpoint |-> Written(view[o], tip[o])]
        /\ view' = [o \in Outpoint |-> Absent]
    BY <1>1 DEF Flush, Empty
  <1> QED BY <1>1, <1>2 DEF MapsOK, AllGood, TipCoins, ViewCoins

\* Dropping the view returns it to pcoinsTip's coins.
LEMMA StepDiscard ==
    ASSUME MapsOK, AllGood, Discard
    PROVE  MapsOK' /\ AllGood' /\ TipCoins' = TipCoins /\ ViewCoins' = TipCoins
  <1>1. ASSUME NEW o \in Outpoint
        PROVE  Good(db[o], tip[o], Absent) /\ ViewShows(db[o], tip[o], Absent) = TipShows(db[o], tip[o])
    BY EntryDropped DEF AllGood
  <1>2. db' = db /\ threw' = threw /\ tip' = tip /\ view' = [o \in Outpoint |-> Absent]
    BY DEF Discard, Empty
  <1> QED BY <1>1, <1>2 DEF MapsOK, AllGood, TipCoins, ViewCoins

\* Writing pcoinsTip to the database changes no coin.
LEMMA StepFlushTip ==
    ASSUME MapsOK, AllGood, FlushTip
    PROVE  MapsOK' /\ AllGood' /\ TipCoins' = TipCoins /\ ViewCoins' = ViewCoins
  <1> DEFINE d2(o) == IF tip[o].in /\ tip[o].dirty THEN tip[o].coin ELSE db[o]
  <1>1. ASSUME NEW o \in Outpoint
        PROVE  /\ Good(d2(o), Absent, Absent)
               /\ TipShows(d2(o), Absent) = TipShows(db[o], tip[o])
    BY EntryDropped DEF AllGood
  <1>2. /\ threw' = threw /\ view = [o \in Outpoint |-> Absent] /\ view' = view
        /\ db' = [o \in Outpoint |-> d2(o)]
        /\ tip' = [o \in Outpoint |-> Absent]
    BY DEF FlushTip, Empty
  <1> HIDE DEF d2
  <1>3. ASSUME NEW o \in Outpoint
        PROVE  /\ ViewShows(d2(o), Absent, Absent) = TipShows(d2(o), Absent)
               /\ ViewShows(db[o], tip[o], view[o]) = TipShows(db[o], tip[o])
    BY <1>2 DEF ViewShows, Absent
  <1> QED BY <1>1, <1>2, <1>3 DEF MapsOK, AllGood, TipCoins, ViewCoins

\* Uncache drops an unmodified entry and changes no coin.
LEMMA StepUncache ==
    ASSUME MapsOK, AllGood, NEW o \in Outpoint, Uncache(o)
    PROVE  MapsOK' /\ AllGood' /\ TipCoins' = TipCoins /\ ViewCoins' = ViewCoins
  <1>1. /\ db' = db /\ view' = view /\ threw' = threw
        /\ tip' = [tip EXCEPT ![o] = Absent]
        /\ ~tip[o].dirty
    BY DEF Uncache
  <1>2. ASSUME NEW p \in Outpoint
        PROVE  /\ Good(db[p], tip'[p], view[p])
               /\ TipShows(db[p], tip'[p]) = TipShows(db[p], tip[p])
    <2>1. CASE p = o
      BY <1>1, <2>1, EntryDropped DEF MapsOK, AllGood
    <2>2. CASE p # o
      BY <1>1, <2>2 DEF MapsOK, AllGood
    <2> QED BY <2>1, <2>2
  <1>3. ASSUME NEW p \in Outpoint
        PROVE  ViewShows(db[p], tip'[p], view[p]) = ViewShows(db[p], tip[p], view[p])
    BY <1>2, SMTT(30) DEF ViewShows
  <1> QED BY <1>1, <1>2, <1>3 DEF MapsOK, AllGood, TipCoins, ViewCoins

-----------------------------------------------------------------------------
(* The theorems.                                                           *)

\* Every step keeps the invariant and is a step of UtxoViews or changes none
\* of its coins.
LEMMA StepRefines ==
    ASSUME MapsOK, AllGood, \A o \in Outpoint : ViewCoin(o) = ViewShows(db[o], tip[o], view[o]),
           [Next]_vars
    PROVE  /\ MapsOK' /\ AllGood'
           /\ \/ TipCoins' = TipCoins /\ ViewCoins' = ViewCoins
              \/ \E o \in Outpoint, c \in Coin :
                    TipCoins' = TipCoins /\ ViewCoins' = [ViewCoins EXCEPT ![o] = c]
              \/ \E o \in Outpoint :
                    TipCoins' = TipCoins /\ ViewCoins' = [ViewCoins EXCEPT ![o] = Spent]
              \/ TipCoins' = ViewCoins /\ ViewCoins' = ViewCoins
              \/ ViewCoins' = TipCoins /\ TipCoins' = TipCoins
  <1>1. CASE UNCHANGED vars
    BY <1>1 DEF vars, MapsOK, AllGood, TipCoins, ViewCoins
  <1>2. CASE \E o \in Outpoint : AccessTip(o)
    BY <1>2, StepAccessTip
  <1>3. CASE \E o \in Outpoint : AccessView(o)
    BY <1>3, StepAccessView
  <1>4. CASE \E o \in Outpoint : SpendCoin(o)
    BY <1>4, StepSpendCoin
  <1>5. CASE \E o \in Outpoint : Uncache(o)
    BY <1>5, StepUncache
  <1>6. CASE \E o \in Outpoint, c \in Coin, ow \in BOOLEAN : AddCoin(o, c, ow)
    <2>1. PICK o \in Outpoint, c \in Coin, ow \in BOOLEAN : AddCoin(o, c, ow)
      BY <1>6
    <2>2. /\ MapsOK' /\ AllGood' /\ TipCoins' = TipCoins
          /\ \/ ViewCoins' = ViewCoins
             \/ ViewCoins' = [ViewCoins EXCEPT ![o] = c]
      <3>1. ViewCoin(o) = ViewShows(db[o], tip[o], view[o])
        OBVIOUS
      <3> QED BY <2>1, <3>1, StepAddCoin
    <2> QED BY <2>2
  <1>7. CASE Flush
    BY <1>7, StepFlush
  <1>8. CASE Discard
    BY <1>8, StepDiscard
  <1>9. CASE FlushTip
    BY <1>9, StepFlushTip
  <1> QED BY <1>1, <1>2, <1>3, <1>4, <1>5, <1>6, <1>7, <1>8, <1>9 DEF Next

\* The caches start empty over an empty database.
LEMMA InitGood == Init => MapsOK /\ AllGood
  <1> SUFFICES ASSUME Init PROVE MapsOK /\ AllGood
    OBVIOUS
  <1>1. MapsOK
    BY DEF Init, MapsOK, Empty
  <1>2. ASSUME NEW o \in Outpoint PROVE Good(db[o], tip[o], view[o])
    BY DEF Init, Empty, Good, Sound, Absent, Entry
  <1> QED BY <1>1, <1>2 DEF AllGood

\* The type invariant, the meaning of the flags and the absence of a logic
\* error hold in every reachable state (AddCoin, BatchWrite, FetchCoin).
THEOREM CacheInvariant == Spec => [](TypeOK /\ FlagsSound /\ NoLogicError)
  <1>1. Init => CacheInv
    BY InitGood, InvIsGood
  <1>2. CacheInv /\ [Next]_vars => MapsOK' /\ AllGood'
    <2> SUFFICES ASSUME CacheInv, [Next]_vars PROVE MapsOK' /\ AllGood'
      OBVIOUS
    <2>1. /\ MapsOK /\ AllGood
          /\ \A o \in Outpoint : ViewCoin(o) = ViewShows(db[o], tip[o], view[o])
      BY InvIsGood
    <2> QED BY <2>1, StepRefines
  <1>3. MapsOK /\ AllGood => CacheInv
    BY InvIsGood
  <1>4. CacheInv /\ [Next]_vars => CacheInv'
    BY <1>2, <1>3, PTL
  <1> QED BY <1>1, <1>4, PTL DEF Spec, CacheInv

\* A cache never throws the logic errors of coins.cpp:120 and coins.cpp:225.
THEOREM NoLogicErrorTheorem == Spec => []NoLogicError
  BY CacheInvariant, PTL

\* The stack of caches implements a plain set of coins with a working copy.
THEOREM CacheRefinement == Spec => ImplementsUtxoViews
  <1> DEFINE Coins == /\ [o \in Outpoint |-> TipCoin(o)] = TipCoins
                      /\ [o \in Outpoint |-> ViewCoin(o)] = ViewCoins
  <1>1. CacheInv => Coins
    BY InvIsGood DEF TipCoins, ViewCoins
  <1>2. Init => Abstract!Init
    <2> SUFFICES ASSUME Init PROVE Abstract!Init
      OBVIOUS
    <2>1. Coins
      BY <1>1, InitGood, InvIsGood
    <2>2. /\ TipCoins = [o \in Outpoint |-> Spent]
          /\ ViewCoins = TipCoins
      BY DEF Init, Empty, Absent, TipCoins, ViewCoins, TipShows, ViewShows
    <2> QED BY <2>1, <2>2 DEF Abstract!Init
  <1>3. CacheInv /\ CacheInv' /\ [Next]_vars => [Abstract!Next]_(Abstract!vars)
    <2> SUFFICES ASSUME CacheInv, Coins', [Next]_vars
                 PROVE  [Abstract!Next]_(Abstract!vars)
      BY <1>1, PTL
    <2>1. /\ MapsOK /\ AllGood /\ Coins
          /\ \A o \in Outpoint : ViewCoin(o) = ViewShows(db[o], tip[o], view[o])
      BY <1>1, InvIsGood
    <2>2. \/ TipCoins' = TipCoins /\ ViewCoins' = ViewCoins
          \/ \E o \in Outpoint, c \in Coin :
                TipCoins' = TipCoins /\ ViewCoins' = [ViewCoins EXCEPT ![o] = c]
          \/ \E o \in Outpoint :
                TipCoins' = TipCoins /\ ViewCoins' = [ViewCoins EXCEPT ![o] = Spent]
          \/ TipCoins' = ViewCoins /\ ViewCoins' = ViewCoins
          \/ ViewCoins' = TipCoins /\ TipCoins' = TipCoins
      BY <2>1, StepRefines
    <2> QED BY <2>1, <2>2, Zenon
            DEF Abstract!Next, Abstract!vars, Abstract!Add, Abstract!Spend,
                Abstract!Commit, Abstract!Discard
  <1> QED BY <1>2, <1>3, CacheInvariant, PTL DEF Spec, CacheInv, ImplementsUtxoViews, Abstract!Spec
=============================================================================
