-------------------------- MODULE CheckQueueProofs --------------------------
(***************************************************************************)
(* For any number of workers, batch size and sequence of blocks: the       *)
(* counters of the queue are exact, and Wait returns only when every check *)
(* of the block is done, with the conjunction of their outcomes.           *)
(***************************************************************************)
EXTENDS CheckQueue, FiniteSetTheorems, TLAPS

Batch == {s \in Seq(BOOLEAN) : Len(s) <= nBatchSize}

Types ==
    /\ queue \in Seq(BOOLEAN)
    /\ nTodo \in Nat /\ nIdle \in Nat /\ nTotal \in Nat
    /\ fAllOk \in BOOLEAN /\ fQuit \in BOOLEAN /\ result \in BOOLEAN
    /\ expected \in BOOLEAN
    /\ pc \in [Thread -> {"out", "enter", "work", "done", "wait", "ready"}]
    /\ batch \in [Thread -> Batch]
    /\ fOk \in [Thread -> BOOLEAN]
    /\ phase \in {"idle", "add", "loop"}

\* Who has a batch, and where the master is.
Control ==
    /\ \A t \in Thread : batch[t] # <<>> <=> pc[t] \in {"work", "done"}
    /\ pc[Master] = "out" <=> phase # "loop"

\* The outcomes: as long as no failure is recorded, the checks that are queued,
\* taken or executed are all that is missing from the status of the block.
Status ==
    /\ phase # "idle" =>
          (expected <=> fAllOk /\ AllTrue(queue) /\ \A t \in Thread : AllTrue(batch[t]))
    /\ fAllOk => \A t \in Thread : /\ pc[t] = "work" => fOk[t]
                                   /\ pc[t] = "done" => (fOk[t] <=> AllTrue(batch[t]))

\* Between two blocks.
AtRest == phase = "idle" => fAllOk /\ WaitIsComplete

IInv == Types /\ CountersExact /\ Control /\ Status /\ AtRest

-----------------------------------------------------------------------------
(* The checks that are held, and the sizes of batches.                     *)

\* A thread with its first n places.
LEMMA OneThread ==
    ASSUME NEW t, NEW n \in Nat
    PROVE  IsFiniteSet({t} \X (1..n)) /\ Cardinality({t} \X (1..n)) = n
  <1>1. IsFiniteSet(1..n) /\ Cardinality(1..n) = n
    BY FS_Interval
  <1>2. IsFiniteSet({t}) /\ Cardinality({t}) = 1
    BY FS_Singleton, Zenon
  <1>3. /\ IsFiniteSet({t} \X (1..n))
        /\ Cardinality({t} \X (1..n)) = Cardinality({t}) * Cardinality(1..n)
    BY <1>1, <1>2, FS_Product, Zenon
  <1>4. QED BY <1>1, <1>2, <1>3

\* Disjoint finite sets.
LEMMA DisjointUnion ==
    ASSUME NEW S, NEW T, IsFiniteSet(S), IsFiniteSet(T), S \cap T = {}
    PROVE  Cardinality(S \cup T) = Cardinality(S) + Cardinality(T)
  <1>1. Cardinality(S \cup T) = Cardinality(S) + Cardinality(T) - Cardinality(S \cap T)
    BY FS_Union, Zenon
  <1>2. Cardinality(S) \in Nat /\ Cardinality(T) \in Nat
    BY FS_CardinalityType, Zenon
  <1>3. QED BY <1>1, <1>2, FS_EmptySet

HeldIn(b) == {x \in Thread \X (1..nBatchSize) : x[2] <= Len(b[x[1]])}

\* There are finitely many threads and places in a batch.
LEMMA FinitePairs == IsFiniteSet(Thread) /\ IsFiniteSet(Thread \X (1..nBatchSize))
  <1>1. IsFiniteSet(Thread)
    BY CheckQueueAssumption, FS_AddElement, Zenon DEF Thread
  <1>2. IsFiniteSet(1..nBatchSize)
    BY CheckQueueAssumption, FS_Interval
  <1>3. QED BY <1>1, <1>2, FS_Product, Zenon

\* Replacing one thread's batch changes the number of checks held by the
\* difference of the two sizes.
LEMMA HeldUpdate ==
    ASSUME NEW b \in [Thread -> Batch], NEW t \in Thread, NEW s \in Batch,
           NEW c, c = [b EXCEPT ![t] = s]
    PROVE  /\ IsFiniteSet(HeldIn(b))
           /\ Cardinality(HeldIn(b)) \in Nat /\ Len(b[t]) \in Nat
           /\ Cardinality(HeldIn(c)) = Cardinality(HeldIn(b)) - Len(b[t]) + Len(s)
           /\ Cardinality(HeldIn(b)) >= Len(b[t])
  <1> DEFINE Rest == {x \in HeldIn(b) : x[1] # t}
             Mine(x) == {t} \X (1..Len(x))
  <1>1. IsFiniteSet(Thread \X (1..nBatchSize))
    BY FinitePairs, Zenon
  <1>2. IsFiniteSet(HeldIn(b)) /\ IsFiniteSet(Rest)
    BY <1>1, FS_Subset, Zenon DEF HeldIn
  <1>3. /\ Len(s) \in Nat /\ Len(s) <= nBatchSize
        /\ Len(b[t]) \in Nat /\ Len(b[t]) <= nBatchSize
    BY DEF Batch
  <1>4. /\ IsFiniteSet(Mine(b[t])) /\ Cardinality(Mine(b[t])) = Len(b[t])
        /\ IsFiniteSet(Mine(s)) /\ Cardinality(Mine(s)) = Len(s)
    BY <1>3, OneThread, Zenon
  <1>5. HeldIn(b) = Rest \cup Mine(b[t]) /\ Rest \cap Mine(b[t]) = {}
    BY <1>3, CheckQueueAssumption DEF HeldIn
  <1>6. HeldIn(c) = Rest \cup Mine(s) /\ Rest \cap Mine(s) = {}
    BY <1>3, CheckQueueAssumption DEF HeldIn
  <1>7. Cardinality(Rest) \in Nat /\ Cardinality(HeldIn(b)) \in Nat
    BY <1>2, FS_CardinalityType, Zenon
  <1>8. Cardinality(HeldIn(b)) = Cardinality(Rest) + Cardinality(Mine(b[t]))
    BY <1>2, <1>4, <1>5, DisjointUnion, Zenon
  <1>9. Cardinality(HeldIn(c)) = Cardinality(Rest) + Cardinality(Mine(s))
    BY <1>2, <1>4, <1>6, DisjointUnion, Zenon
  <1>10. QED BY <1>2, <1>3, <1>4, <1>7, <1>8, <1>9

\* When nothing is held, every batch is empty.
LEMMA HeldNone ==
    ASSUME NEW b \in [Thread -> Batch], Cardinality(HeldIn(b)) = 0, NEW t \in Thread
    PROVE  b[t] = <<>>
  <1>1. IsFiniteSet(Thread \X (1..nBatchSize))
    BY FinitePairs, Zenon
  <1>2. HeldIn(b) = {}
    BY <1>1, FS_Subset, FS_EmptySet, Zenon DEF HeldIn
  <1>3. SUFFICES ASSUME Len(b[t]) > 0 PROVE FALSE
    BY DEF Batch
  <1>4. <<t, 1>> \in HeldIn(b)
    BY <1>3, CheckQueueAssumption DEF HeldIn, Batch
  <1>5. QED BY <1>2, <1>4

\* A batch is at least one check and at most the queue.
LEMMA BatchSizeBounds ==
    ASSUME queue \in Seq(BOOLEAN), queue # <<>>, NEW total \in Nat, NEW idle \in Nat
    PROVE  /\ BatchSize(total, idle) \in 1..Len(queue)
           /\ BatchSize(total, idle) <= nBatchSize
  <1> DEFINE n == Len(queue)
             k == total + idle + 1
             share == n \div k
  <1>1. n \in Nat /\ n >= 1 /\ k \in Nat /\ k >= 1
    OBVIOUS
  <1>2. share \in Nat /\ share <= n
    BY <1>1, Z3, Zenon
  <1>3. QED BY <1>1, <1>2, CheckQueueAssumption DEF BatchSize

-----------------------------------------------------------------------------
(* The head of the inner loop.                                             *)

States == {"out", "enter", "work", "done", "wait", "ready"}

Sleeping(p, S) == {u \in S : p[u] \in {"wait", "ready"}}
Inside(p, S)   == {u \in S : p[u] \notin {"out", "enter"}}

\* What Enter, CleanUp and WakeUp have established when thread t comes to choose:
\* its own batch is accounted for, all else is as the invariant says.
Resumed(t, todo, allOk, total, idle, p) ==
    /\ todo \in Nat /\ total \in Nat /\ idle \in Nat /\ allOk \in BOOLEAN
    /\ p \in [Thread -> States]
    /\ todo + Len(batch[t]) = Len(queue) + Cardinality(Held)
    /\ idle = Cardinality(Sleeping(p, Thread \ {t}))
    /\ total = Cardinality(Inside(p, Thread \ {t})) + 1
    /\ \A u \in Thread \ {t} : batch[u] # <<>> <=> p[u] \in {"work", "done"}
    /\ IF t = Master THEN phase = "loop" ELSE p[Master] = "out" <=> phase # "loop"
    /\ phase # "idle" =>
          (expected <=> allOk /\ AllTrue(queue) /\ \A u \in Thread \ {t} : AllTrue(batch[u]))
    /\ allOk => \A u \in Thread \ {t} : /\ p[u] = "work" => fOk[u]
                                        /\ p[u] = "done" => (fOk[u] <=> AllTrue(batch[u]))
    /\ phase = "idle" => allOk /\ WaitIsComplete

\* The counters of a set of threads that one thread joins or leaves.
LEMMA CountOne ==
    ASSUME NEW p \in [Thread -> States], NEW t \in Thread, NEW x \in States
    PROVE  LET q == [p EXCEPT ![t] = x] IN
           /\ Cardinality(Sleeping(p, Thread \ {t})) \in Nat
           /\ Cardinality(Inside(p, Thread \ {t})) \in Nat
           /\ Cardinality(Sleeping(q, Thread)) = Cardinality(Sleeping(p, Thread \ {t}))
                                                  + IF x \in {"wait", "ready"} THEN 1 ELSE 0
           /\ Cardinality(Inside(q, Thread)) = Cardinality(Inside(p, Thread \ {t}))
                                                  + IF x \in {"out", "enter"} THEN 0 ELSE 1
  <1> DEFINE S == Sleeping(p, Thread \ {t})
             I == Inside(p, Thread \ {t})
             q == [p EXCEPT ![t] = x]
  <1>1. IsFiniteSet(S) /\ IsFiniteSet(I)
    BY FinitePairs, FS_Subset, Zenon DEF Sleeping, Inside
  <1>2. Cardinality(S) \in Nat /\ Cardinality(I) \in Nat
    BY <1>1, FS_CardinalityType, Zenon
  <1>3. t \notin S /\ t \notin I
    BY Zenon DEF Sleeping, Inside
  <1>4. Sleeping(q, Thread) = IF x \in {"wait", "ready"} THEN S \cup {t} ELSE S
    BY Zenon DEF Sleeping
  <1>5. Inside(q, Thread) = IF x \in {"out", "enter"} THEN I ELSE I \cup {t}
    BY Zenon DEF Inside
  <1>6. Cardinality(S \cup {t}) = Cardinality(S) + 1
    BY <1>1, <1>3, FS_AddElement, Zenon
  <1>7. Cardinality(I \cup {t}) = Cardinality(I) + 1
    BY <1>1, <1>3, FS_AddElement, Zenon
  <1>8. QED BY <1>2, <1>4, <1>5, <1>6, <1>7

\* The same read backwards, for a thread that the state says where it is.
LEMMA CountWithout ==
    ASSUME Types, CountersExact, NEW t \in Thread
    PROVE  /\ Cardinality(Sleeping(pc, Thread \ {t})) \in Nat
           /\ Cardinality(Inside(pc, Thread \ {t})) \in Nat
           /\ nIdle = Cardinality(Sleeping(pc, Thread \ {t}))
                                                  + IF pc[t] \in {"wait", "ready"} THEN 1 ELSE 0
           /\ nTotal = Cardinality(Inside(pc, Thread \ {t}))
                                                  + IF pc[t] \in {"out", "enter"} THEN 0 ELSE 1
  <1>1. pc \in [Thread -> States] /\ pc[t] \in States /\ pc = [pc EXCEPT ![t] = pc[t]]
    BY Zenon DEF Types, States
  <1>2. nIdle = Cardinality(Sleeping(pc, Thread)) /\ nTotal = Cardinality(Inside(pc, Thread))
    BY Zenon DEF CountersExact, Sleeping, Inside
  <1>3. QED BY <1>1, <1>2, CountOne

\* The parts of a sequence of outcomes.
LEMMA Parts ==
    ASSUME queue \in Seq(BOOLEAN), NEW n \in 1..Len(queue), n <= nBatchSize
    PROVE  LET taken == [i \in 1..n |-> queue[Len(queue) - i + 1]]
               rest  == SubSeq(queue, 1, Len(queue) - n)
           IN  /\ taken \in Batch /\ Len(taken) = n /\ taken # <<>>
               /\ rest \in Seq(BOOLEAN) /\ Len(rest) = Len(queue) - n
               /\ AllTrue(queue) <=> AllTrue(taken) /\ AllTrue(rest)
  <1> DEFINE m == Len(queue)
             taken == [i \in 1..n |-> queue[m - i + 1]]
             rest == SubSeq(queue, 1, m - n)
  <1>1. m \in Nat /\ n \in Nat /\ 1 <= n /\ n <= m
    OBVIOUS
  <1>4. /\ taken \in [1..n -> BOOLEAN]
    BY <1>1
  <1>5. taken \in Seq(BOOLEAN) /\ Len(taken) = n
    BY <1>1, <1>4
  <1>6. /\ rest \in Seq(BOOLEAN) /\ Len(rest) = m - n
        /\ \A i \in 1..(m - n) : rest[i] = queue[i]
    BY <1>1
  <1>7. \A i \in 1..n : taken[i] = queue[m - i + 1]
    BY Zenon
  <1>8. DOMAIN queue = 1..m /\ DOMAIN taken = 1..n /\ DOMAIN rest = 1..(m - n)
    BY <1>1, <1>6
  <1>9. AllTrue(queue) <=> AllTrue(taken) /\ AllTrue(rest)
    <2>1. ASSUME AllTrue(queue), NEW i \in 1..n PROVE taken[i]
      <3>1. m - i + 1 \in 1..m
        BY <1>1
      <3>2. queue[m - i + 1]
        BY <1>8, <2>1, <3>1, Zenon DEF AllTrue
      <3>3. QED BY <1>7, <3>2
    <2>2. ASSUME AllTrue(queue), NEW i \in 1..(m - n) PROVE rest[i]
      <3>1. i \in 1..m
        BY <1>1
      <3>2. queue[i]
        BY <1>8, <2>2, <3>1, Zenon DEF AllTrue
      <3>3. QED BY <1>6, <3>2
    <2>3. ASSUME AllTrue(taken), AllTrue(rest), NEW i \in 1..m PROVE queue[i]
      <3>1. CASE i <= m - n
        <4>1. i \in 1..(m - n)
          BY <1>1, <3>1
        <4>2. rest[i]
          BY <1>8, <2>3, <4>1, Zenon DEF AllTrue
        <4>3. QED BY <1>6, <4>1, <4>2
      <3>2. CASE i > m - n
        <4>1. m - i + 1 \in 1..n /\ m - (m - i + 1) + 1 = i
          BY <1>1, <3>2
        <4>2. taken[m - i + 1]
          BY <1>8, <2>3, <4>1, Zenon DEF AllTrue
        <4>3. QED BY <1>7, <4>1, <4>2
      <3>3. QED BY <1>1, <3>1, <3>2
    <2>4. QED BY <1>8, <2>1, <2>2, <2>3, Zenon DEF AllTrue
  <1>10. taken # <<>>
    BY <1>1, <1>5
  <1>11. QED BY <1>1, <1>5, <1>6, <1>9, <1>10 DEF Batch

\* Each of the three ways on from the head of the loop keeps the invariant.
LEMMA ProceedInv ==
    ASSUME Types, NEW t \in Thread, NEW todo, NEW allOk, NEW total, NEW idle, NEW p,
           Resumed(t, todo, allOk, total, idle, p),
           Proceed(t, todo, allOk, total, idle, p)
    PROVE  IInv'
  <1> DEFINE S == Cardinality(Sleeping(p, Thread \ {t}))
             I == Cardinality(Inside(p, Thread \ {t}))
  <1>0. Held = HeldIn(batch) /\ Held' = HeldIn(batch')
    BY Zenon DEF Held, HeldIn
  <1>1. /\ todo \in Nat /\ total = I + 1 /\ idle = S /\ S \in Nat /\ I \in Nat
        /\ allOk \in BOOLEAN /\ p \in [Thread -> States]
        /\ todo + Len(batch[t]) = Len(queue) + Cardinality(Held)
    BY CountOne, Zenon DEF Resumed, States
  <1>2. nTodo' = todo /\ UNCHANGED <<fQuit, notified>>
    BY Zenon DEF Proceed
  <1>3. ASSUME NEW x \in States, pc' = [p EXCEPT ![t] = x]
        PROVE  /\ Cardinality(Sleeping(pc', Thread)) = S + IF x \in {"wait", "ready"} THEN 1 ELSE 0
               /\ Cardinality(Inside(pc', Thread)) = I + IF x \in {"out", "enter"} THEN 0 ELSE 1
    <2>1. p \in [Thread -> States]
      BY <1>1, Zenon
    <2>2. QED BY <1>3, <2>1, CountOne, Zenon
  <1>4. ASSUME nIdle' = Cardinality(Sleeping(pc', Thread)),
               nTotal' = Cardinality(Inside(pc', Thread)),
               nTodo' = Len(queue') + Cardinality(Held')
        PROVE  CountersExact'
    BY <1>4, Zenon DEF CountersExact, Sleeping, Inside
  <1>5. CASE Take(t, allOk, total, idle, p)
    <2> DEFINE n == BatchSize(total, idle)
               taken == [i \in 1..n |-> queue[Len(queue) - i + 1]]
    <2>1. n \in 1..Len(queue) /\ n <= nBatchSize
      <3>1. queue \in Seq(BOOLEAN) /\ queue # <<>>
        BY <1>5, Zenon DEF Take, Types
      <3>2. total \in Nat /\ idle \in Nat
        BY <1>1
      <3>3. QED BY <3>1, <3>2, BatchSizeBounds
    <2>2. /\ batch' = [batch EXCEPT ![t] = taken]
          /\ taken \in Batch /\ Len(taken) = n /\ taken # <<>>
          /\ queue' \in Seq(BOOLEAN) /\ Len(queue') = Len(queue) - n
          /\ AllTrue(queue) <=> AllTrue(taken) /\ AllTrue(queue')
      BY <1>5, <2>1, Parts, Zenon DEF Take, Types
    <2>3. /\ pc' = [p EXCEPT ![t] = "work"] /\ fOk' = [fOk EXCEPT ![t] = allOk]
          /\ nTotal' = total /\ nIdle' = idle /\ fAllOk' = allOk
          /\ UNCHANGED master
      BY <1>5, Zenon DEF Take
    <2> HIDE DEF taken
    <2>4. Types'
      BY <1>1, <1>2, <2>2, <2>3 DEF Types, States, master
    <2>5. CountersExact'
      <3>1. Cardinality(Held') = Cardinality(Held) - Len(batch[t]) + n
        <4>1. batch \in [Thread -> Batch]
          BY Zenon DEF Types
        <4>2. QED BY <1>0, <2>2, <4>1, HeldUpdate, Zenon
      <3>2. nTodo' = Len(queue') + Cardinality(Held')
        <4>1. Cardinality(Held) \in Nat /\ Len(batch[t]) \in Nat /\ Len(queue) \in Nat
          BY <1>0, <2>2, HeldUpdate DEF Types
        <4>2. nTodo' + Len(batch[t]) = Len(queue) + Cardinality(Held)
          BY <1>1, <1>2, Zenon
        <4>3. n \in Nat /\ nTodo' \in Nat
          BY <1>1, <1>2, <2>1
        <4>4. Len(queue') = Len(queue) - n
          BY <2>2, Zenon
        <4> HIDE DEF n
        <4>5. QED BY <3>1, <4>1, <4>2, <4>3, <4>4
      <3>3. QED BY <1>1, <1>3, <1>4, <2>3, <3>2 DEF States
    <2>6. Control'
      BY <1>1, <2>2, <2>3 DEF Control, Resumed, Types, States, master
    <2>7. phase # "idle"
      BY <1>5, Zenon DEF Resumed, WaitIsComplete, Take
    <2>8. Status'
      <3>1. \A u \in Thread : AllTrue(batch'[u]) <=> IF u = t THEN AllTrue(taken) ELSE AllTrue(batch[u])
        BY <2>2, Zenon DEF Types
      <3>2. expected' <=> fAllOk' /\ AllTrue(queue') /\ \A u \in Thread : AllTrue(batch'[u])
        BY <2>2, <2>3, <2>7, <3>1, Zenon DEF Resumed, master
      <3>3. ASSUME fAllOk', NEW u \in Thread
            PROVE  /\ pc'[u] = "work" => fOk'[u]
                   /\ pc'[u] = "done" => (fOk'[u] <=> AllTrue(batch'[u]))
        BY <1>1, <2>2, <2>3, <3>3, Zenon DEF Resumed, Types
      <3>4. QED BY <2>3, <3>2, <3>3 DEF Status
    <2>9. QED BY <2>3, <2>4, <2>5, <2>6, <2>7, <2>8 DEF IInv, AtRest, master
  <1>6. ASSUME batch' = [batch EXCEPT ![t] = <<>>], queue = <<>>, UNCHANGED queue
        PROVE  /\ Cardinality(Held') = todo
               /\ todo = 0 => \A u \in Thread : batch'[u] = <<>>
               /\ batch' \in [Thread -> Batch]
    <2>1. <<>> \in Batch /\ Len(<<>>) = 0
      BY CheckQueueAssumption DEF Batch
    <2>2. batch' \in [Thread -> Batch]
      BY <1>6, <2>1, Zenon DEF Types
    <2>3. Cardinality(Held') = Cardinality(Held) - Len(batch[t]) + 0
      BY <1>0, <1>6, <2>1, HeldUpdate, Zenon DEF Types
    <2>4. Cardinality(Held') = todo
      BY <1>1, <1>6, <2>1, <2>3, <1>0, HeldUpdate DEF Types
    <2>5. todo = 0 => \A u \in Thread : batch'[u] = <<>>
      BY <2>2, <2>4, <1>0, HeldNone, Zenon
    <2>6. QED BY <2>2, <2>4, <2>5
  <1>7. CASE Leave(t, todo, allOk, total, idle, p)
    <2>1. /\ queue = <<>> /\ Finished(t, todo) /\ UNCHANGED <<queue, fOk, round, expected>>
          /\ batch' = [batch EXCEPT ![t] = <<>>] /\ pc' = [p EXCEPT ![t] = "out"]
          /\ nTotal' = total - 1 /\ nIdle' = idle
      BY <1>7, Zenon DEF Leave
    <2>2. todo = 0
      BY <2>1, Zenon DEF Finished
    <2>3. \A u \in Thread : batch'[u] = <<>> /\ AllTrue(batch'[u])
      BY <1>6, <2>1, <2>2 DEF AllTrue
    <2>4. /\ t = Master => result' = allOk /\ phase' = "idle" /\ fAllOk' = TRUE
          /\ t # Master => UNCHANGED <<result, phase>> /\ fAllOk' = allOk
      BY <1>1, <1>7, Zenon DEF Leave
    <2>5. Types'
      <3>1. pc' \in [Thread -> States] /\ nTotal' \in Nat /\ nIdle' \in Nat /\ nTodo' \in Nat
        BY <1>1, <1>2, <2>1 DEF States
      <3>2. /\ fAllOk' \in BOOLEAN /\ result' \in BOOLEAN
            /\ phase' \in {"idle", "add", "loop"}
        BY <1>1, <2>4, Zenon DEF Types
      <3>3. batch' \in [Thread -> Batch]
        BY <1>6, <2>1, Zenon
      <3>4. QED BY <1>2, <2>1, <3>1, <3>2, <3>3 DEF Types, States
    <2>6. CountersExact'
      BY <1>1, <1>2, <1>3, <1>4, <1>6, <2>1 DEF States
    <2>7. \A u \in Thread : pc'[u] \notin {"work", "done"}
      <3>1. ASSUME NEW u \in Thread, u # t PROVE batch'[u] = batch[u] /\ pc'[u] = p[u]
        BY <1>1, <2>1, <3>1, Zenon DEF Types
      <3>2. QED BY <1>1, <2>1, <2>3, <3>1 DEF Resumed
    <2>8. Control'
      <3>1. Master \in Thread
        BY Zenon DEF Thread
      <3>2. pc'[Master] = "out" <=> phase' # "loop"
        BY <1>1, <2>1, <2>4, <3>1, Zenon DEF Resumed
      <3>3. QED BY <2>3, <2>7, <3>2 DEF Control
    <2>9. AllTrue(queue) /\ AllTrue(queue')
      BY <2>1 DEF AllTrue
    <2>10. \A u \in Thread \ {t} : AllTrue(batch[u])
      BY <2>1, <2>3, Zenon DEF Types
    <2>11. phase # "idle" => (expected <=> allOk)
      BY <2>9, <2>10, Zenon DEF Resumed
    <2>12. Status'
      BY <1>1, <2>1, <2>3, <2>4, <2>7, <2>9, <2>11 DEF Status, Types
    <2>13. AtRest'
      <3>1. CASE t = Master
        BY <1>1, <2>1, <2>3, <2>4, <2>11, <3>1, Zenon DEF AtRest, WaitIsComplete, Resumed, Types
      <3>2. CASE t # Master
        BY <1>1, <2>1, <2>3, <2>4, <3>2 DEF AtRest, WaitIsComplete, Resumed
      <3>3. QED BY <3>1, <3>2
    <2>14. QED BY <2>5, <2>6, <2>8, <2>12, <2>13 DEF IInv
  <1>8. CASE Sleep(t, todo, allOk, total, idle, p)
    <2>1. /\ queue = <<>> /\ UNCHANGED <<queue, fOk, master>>
          /\ batch' = [batch EXCEPT ![t] = <<>>] /\ pc' = [p EXCEPT ![t] = "wait"]
          /\ nTotal' = total /\ nIdle' = idle + 1 /\ fAllOk' = allOk
      BY <1>8, Zenon DEF Sleep
    <2>2. AllTrue(batch'[t]) /\ batch'[t] = <<>> /\ pc'[t] = "wait"
      BY <1>1, <2>1 DEF AllTrue, Types
    <2>3. \A u \in Thread \ {t} : batch'[u] = batch[u] /\ pc'[u] = p[u]
      BY <1>1, <2>1, Zenon DEF Types
    <2>4. Types'
      BY <1>1, <1>2, <1>6, <2>1 DEF Types, States, master
    <2>5. CountersExact'
      BY <1>1, <1>2, <1>3, <1>4, <1>6, <2>1 DEF States
    <2>6. Control'
      BY <2>1, <2>2, <2>3, Zenon DEF Control, Resumed, Thread, master
    <2>7. Status'
      <3>1. (\A u \in Thread : AllTrue(batch'[u])) <=> \A u \in Thread \ {t} : AllTrue(batch[u])
        BY <2>2, <2>3, Zenon
      <3>2. phase' # "idle" =>
                (expected' <=> fAllOk' /\ AllTrue(queue') /\ \A u \in Thread : AllTrue(batch'[u]))
        BY <2>1, <3>1, Zenon DEF Resumed, master
      <3>3. ASSUME fAllOk', NEW u \in Thread
            PROVE  /\ pc'[u] = "work" => fOk'[u]
                   /\ pc'[u] = "done" => (fOk'[u] <=> AllTrue(batch'[u]))
        <4>1. CASE u = t BY <2>2, <4>1
        <4>2. CASE u # t BY <2>1, <2>3, <3>3, <4>2 DEF Resumed
        <4>3. QED BY <4>1, <4>2
      <3>4. QED BY <3>2, <3>3 DEF Status
    <2>8. AtRest'
      BY <2>1, <2>2, <2>3, Zenon DEF AtRest, WaitIsComplete, Resumed, master
    <2>9. QED BY <2>4, <2>5, <2>6, <2>7, <2>8 DEF IInv
  <1>9. QED BY <1>5, <1>7, <1>8 DEF Proceed

-----------------------------------------------------------------------------
(* The steps.                                                              *)

\* Between p and q threads were notified, or went on waiting.
Notifies(p, q) ==
    /\ q \in [Thread -> States]
    /\ \A u \in Thread : q[u] = p[u] \/ {p[u], q[u]} \subseteq {"wait", "ready"}

\* A notification changes no counter.
LEMMA NotifiesCounts ==
    ASSUME NEW p, NEW q, Notifies(p, q), NEW T \in SUBSET Thread
    PROVE  Sleeping(q, T) = Sleeping(p, T) /\ Inside(q, T) = Inside(p, T)
  BY Zenon DEF Notifies, Sleeping, Inside

\* The notifications of the code.
LEMMA CodeNotifies ==
    ASSUME NEW p \in [Thread -> States]
    PROVE  /\ Notifies(p, p) /\ Notifies(p, NotifyWorkers(p)) /\ Notifies(p, NotifyMaster(p))
           /\ Notifies(p, NotifyMaster(NotifyWorkers(p)))
           /\ \A q \in NotifyOne(p) : Notifies(p, q)
  <1>1. Notifies(p, p) /\ Notifies(p, NotifyWorkers(p))
    BY Zenon DEF Notifies, NotifyWorkers, States
  <1>2. Notifies(p, NotifyMaster(p)) /\ \A q \in NotifyOne(p) : Notifies(p, q)
    BY Zenon DEF Notifies, NotifyMaster, NotifyOne, States, Thread
  <1>3. Notifies(p, NotifyMaster(NotifyWorkers(p)))
    BY Zenon DEF Notifies, NotifyMaster, NotifyWorkers, States, Thread
  <1>4. QED BY <1>1, <1>2, <1>3

\* A step that leaves the queue, the batches and who waits and who is in Loop
\* as they are leaves the counters exact if it leaves them alone.
LEMMA SameCounts ==
    ASSUME CountersExact, UNCHANGED <<queue, batch, nTodo, nIdle, nTotal>>,
           Sleeping(pc', Thread) = Sleeping(pc, Thread), Inside(pc', Thread) = Inside(pc, Thread)
    PROVE  CountersExact'
  <1>1. Held' = Held
    BY Zenon DEF Held
  <1>2. nIdle = Cardinality(Sleeping(pc, Thread)) /\ nTotal = Cardinality(Inside(pc, Thread))
    BY Zenon DEF CountersExact, Sleeping, Inside
  <1>3. nIdle' = Cardinality(Sleeping(pc', Thread)) /\ nTotal' = Cardinality(Inside(pc', Thread))
    BY <1>2, Zenon
  <1>4. nTodo' = Len(queue') + Cardinality(Held')
    BY <1>1, Zenon DEF CountersExact
  <1>5. QED BY <1>3, <1>4 DEF CountersExact, Sleeping, Inside

\* A step that only notifies.
LEMMA NotificationInv ==
    ASSUME IInv, Notifies(pc, pc'), fQuit' \in BOOLEAN,
           UNCHANGED <<queue, nTodo, nIdle, nTotal, fAllOk, batch, fOk, master>>
    PROVE  IInv'
  <1>1. Types'
    BY Zenon DEF IInv, Types, Notifies, States, master
  <1>2. CountersExact'
    <2>1. Sleeping(pc', Thread) = Sleeping(pc, Thread) /\ Inside(pc', Thread) = Inside(pc, Thread)
      BY NotifiesCounts, Zenon
    <2>2. QED BY <2>1, SameCounts DEF IInv
  <1>3. Control'
    BY Zenon DEF IInv, Control, Notifies, master, Thread
  <1>4. Status'
    BY Zenon DEF IInv, Status, Notifies, master
  <1>5. AtRest'
    BY Zenon DEF IInv, AtRest, WaitIsComplete, master
  <1>6. QED BY <1>1, <1>2, <1>3, <1>4, <1>5 DEF IInv

\* A thread enters Loop.
LEMMA EnterInv ==
    ASSUME IInv, NEW t \in Thread, Enter(t)
    PROVE  IInv'
  <1>1. pc[t] = "enter" /\ Proceed(t, nTodo, fAllOk, nTotal + 1, nIdle, pc)
    BY Zenon DEF Enter
  <1>2. batch[t] = <<>>
    BY <1>1, Zenon DEF IInv, Control
  <1>3. Resumed(t, nTodo, fAllOk, nTotal + 1, nIdle, pc)
    <2>1. nIdle = Cardinality(Sleeping(pc, Thread \ {t})) /\ nTotal = Cardinality(Inside(pc, Thread \ {t}))
      BY <1>1, CountWithout DEF IInv
    <2>2. nTodo + Len(batch[t]) = Len(queue) + Cardinality(Held)
      BY <1>2 DEF IInv, Types, CountersExact
    <2>3. /\ nTodo \in Nat /\ nTotal + 1 \in Nat /\ nIdle \in Nat /\ fAllOk \in BOOLEAN
          /\ pc \in [Thread -> States]
      BY DEF IInv, Types, States
    <2>4. IF t = Master THEN phase = "loop" ELSE pc[Master] = "out" <=> phase # "loop"
      BY <1>1, Zenon DEF IInv, Control
    <2>5. AllTrue(batch[t])
      BY <1>2 DEF AllTrue
    <2>6. phase # "idle" =>
             (expected <=> fAllOk /\ AllTrue(queue) /\ \A u \in Thread \ {t} : AllTrue(batch[u]))
      BY <2>5, Zenon DEF IInv, Status
    <2>7. QED BY <2>1, <2>2, <2>3, <2>4, <2>6 DEF Resumed, IInv, Control, Status, AtRest
  <1>4. QED BY <1>1, <1>3, ProceedInv DEF IInv

\* A thread wakes up from its wait.
LEMMA WakeUpInv ==
    ASSUME IInv, NEW t \in Thread, WakeUp(t)
    PROVE  IInv'
  <1>1. pc[t] = "ready" /\ Proceed(t, nTodo, fAllOk, nTotal, nIdle - 1, pc)
    BY Zenon DEF WakeUp
  <1>2. batch[t] = <<>>
    BY <1>1, Zenon DEF IInv, Control
  <1>3. Resumed(t, nTodo, fAllOk, nTotal, nIdle - 1, pc)
    <2>1. /\ nIdle - 1 = Cardinality(Sleeping(pc, Thread \ {t})) /\ nIdle - 1 \in Nat
          /\ nTotal = Cardinality(Inside(pc, Thread \ {t})) + 1
      BY <1>1, CountWithout DEF IInv
    <2>2. nTodo + Len(batch[t]) = Len(queue) + Cardinality(Held)
      BY <1>2 DEF IInv, Types, CountersExact
    <2>3. /\ nTodo \in Nat /\ nTotal \in Nat /\ fAllOk \in BOOLEAN
          /\ pc \in [Thread -> States]
      BY Zenon DEF IInv, Types, States
    <2>4. IF t = Master THEN phase = "loop" ELSE pc[Master] = "out" <=> phase # "loop"
      BY <1>1, Zenon DEF IInv, Control
    <2>5. AllTrue(batch[t])
      BY <1>2 DEF AllTrue
    <2>6. phase # "idle" =>
             (expected <=> fAllOk /\ AllTrue(queue) /\ \A u \in Thread \ {t} : AllTrue(batch[u]))
      BY <2>5, Zenon DEF IInv, Status
    <2>7. QED BY <2>1, <2>2, <2>3, <2>4, <2>6 DEF Resumed, IInv, Control, Status, AtRest
  <1>4. QED BY <1>1, <1>3, ProceedInv DEF IInv

\* A thread accounts for the batch it has run.
LEMMA CleanUpInv ==
    ASSUME IInv, NEW t \in Thread, CleanUp(t)
    PROVE  IInv'
  <1> DEFINE todo == nTodo - Len(batch[t])
             allOk == fAllOk /\ fOk[t]
             p == IF todo = 0 /\ t # Master THEN NotifyMaster(pc) ELSE pc
  <1>1. pc[t] = "done" /\ Proceed(t, todo, allOk, nTotal, nIdle, p)
    BY Zenon DEF CleanUp
  <1>2. Types /\ pc \in [Thread -> States] /\ fAllOk \in BOOLEAN /\ fOk[t] \in BOOLEAN
    BY Zenon DEF IInv, Types, States
  <1>3. Notifies(pc, p) /\ p \in [Thread -> States]
    BY <1>2, CodeNotifies, Zenon DEF Notifies
  <1>4. phase # "idle"
    BY <1>1, Zenon DEF IInv, Control, AtRest, WaitIsComplete
  <1>5. todo \in Nat /\ todo + Len(batch[t]) = Len(queue) + Cardinality(Held)
    <2>1. Held = HeldIn(batch) /\ batch \in [Thread -> Batch] /\ batch[t] \in Batch
          /\ batch = [batch EXCEPT ![t] = batch[t]]
      BY Zenon DEF Held, HeldIn, IInv, Types
    <2>2. Cardinality(Held) \in Nat /\ Len(batch[t]) \in Nat /\ Cardinality(Held) >= Len(batch[t])
      BY <2>1, HeldUpdate, Zenon
    <2>3. nTodo = Len(queue) + Cardinality(Held) /\ Len(queue) \in Nat
      BY DEF IInv, Types, CountersExact
    <2>4. QED BY <2>2, <2>3
  <1>6. nIdle = Cardinality(Sleeping(p, Thread \ {t})) /\ nTotal = Cardinality(Inside(p, Thread \ {t})) + 1
    <2>1. /\ nIdle = Cardinality(Sleeping(pc, Thread \ {t}))
          /\ nTotal = Cardinality(Inside(pc, Thread \ {t})) + 1
      <3>1. pc[t] = "done" /\ Types /\ CountersExact
        BY <1>1, Zenon DEF IInv
      <3> HIDE DEF p, todo, allOk
      <3>2. QED BY <3>1, CountWithout
    <2>2. QED BY <1>3, <2>1, NotifiesCounts
  <1> HIDE DEF p, todo
  <1>7. nTotal \in Nat /\ nIdle \in Nat /\ allOk \in BOOLEAN
    BY <1>2, Zenon DEF Types
  <1>8. \A u \in Thread \ {t} : batch[u] # <<>> <=> p[u] \in {"work", "done"}
    BY <1>3, Zenon DEF IInv, Control, Notifies
  <1>9. IF t = Master THEN phase = "loop" ELSE p[Master] = "out" <=> phase # "loop"
    BY <1>1, <1>3, Zenon DEF IInv, Control, Notifies, Thread
  <1>10. expected <=> allOk /\ AllTrue(queue) /\ \A u \in Thread \ {t} : AllTrue(batch[u])
    <2>1. fAllOk => (fOk[t] <=> AllTrue(batch[t]))
      BY <1>1, Zenon DEF IInv, Status
    <2>2. expected <=> fAllOk /\ AllTrue(queue) /\ \A u \in Thread : AllTrue(batch[u])
      BY <1>4, Zenon DEF IInv, Status
    <2>3. QED BY <2>1, <2>2
  <1>11. allOk => \A u \in Thread \ {t} : /\ p[u] = "work" => fOk[u]
                                          /\ p[u] = "done" => (fOk[u] <=> AllTrue(batch[u]))
    BY <1>3, Zenon DEF IInv, Status, Notifies
  <1>12. Resumed(t, todo, allOk, nTotal, nIdle, p)
    BY <1>3, <1>4, <1>5, <1>6, <1>7, <1>8, <1>9, <1>10, <1>11, Zenon DEF Resumed
  <1>13. QED BY <1>1, <1>2, <1>12, ProceedInv

\* A thread runs its batch.
LEMMA ExecuteInv ==
    ASSUME IInv, NEW t \in Thread, Execute(t)
    PROVE  IInv'
  <1>1. /\ pc[t] = "work" /\ pc' = [pc EXCEPT ![t] = "done"]
        /\ fOk' = [fOk EXCEPT ![t] = fOk[t] /\ AllTrue(batch[t])]
        /\ UNCHANGED <<queue, nTodo, nIdle, nTotal, fAllOk, fQuit, batch, master, notified>>
    BY Zenon DEF Execute
  <1>2. AllTrue(batch[t]) \in BOOLEAN
    BY Zenon DEF AllTrue
  <1>3. Types'
    <2>1. fOk' \in [Thread -> BOOLEAN]
      BY <1>1, <1>2, Zenon DEF IInv, Types
    <2>2. QED BY <1>1, <2>1 DEF IInv, Types, master
  <1>4. CountersExact'
    <2>1. Sleeping(pc', Thread) = Sleeping(pc, Thread) /\ Inside(pc', Thread) = Inside(pc, Thread)
      BY <1>1, Zenon DEF IInv, Types, Sleeping, Inside
    <2>2. QED BY <1>1, <2>1, SameCounts DEF IInv
  <1>5. Control'
    BY <1>1, Zenon DEF IInv, Types, Control, master, Thread
  <1>6. Status'
    <2>1. ASSUME fAllOk', NEW u \in Thread
          PROVE  /\ pc'[u] = "work" => fOk'[u]
                 /\ pc'[u] = "done" => (fOk'[u] <=> AllTrue(batch'[u]))
      <3>1. CASE u = t
        <4>1. fAllOk /\ pc'[t] = "done" /\ fOk'[t] = (fOk[t] /\ AllTrue(batch[t])) /\ batch'[t] = batch[t]
          BY <1>1, <2>1, Zenon DEF IInv, Types
        <4>2. fOk[t]
          BY <1>1, <4>1, Zenon DEF IInv, Status
        <4>3. QED BY <3>1, <4>1, <4>2, Zenon
      <3>2. CASE u # t
        BY <1>1, <2>1, <3>2, Zenon DEF IInv, Types, Status
      <3>3. QED BY <3>1, <3>2
    <2>2. phase' # "idle" =>
             (expected' <=> fAllOk' /\ AllTrue(queue') /\ \A u \in Thread : AllTrue(batch'[u]))
      BY <1>1, Zenon DEF IInv, Status, master
    <2>3. QED BY <2>1, <2>2 DEF Status
  <1>7. AtRest'
    BY <1>1, Zenon DEF IInv, AtRest, WaitIsComplete, master
  <1>8. QED BY <1>3, <1>4, <1>5, <1>6, <1>7 DEF IInv

\* The master begins a block.
LEMMA BeginInv ==
    ASSUME IInv, Begin
    PROVE  IInv'
  <1>1. /\ phase = "idle" /\ phase' = "add" /\ expected' = TRUE
        /\ UNCHANGED <<queue, nTodo, nIdle, nTotal, fAllOk, fQuit, pc, batch, fOk, result>>
    BY Zenon DEF Begin
  <1>2. fAllOk /\ queue = <<>> /\ \A t \in Thread : batch[t] = <<>>
    BY <1>1, Zenon DEF IInv, AtRest, WaitIsComplete
  <1>3. Types'
    BY <1>1, Zenon DEF IInv, Types
  <1>4. CountersExact'
    BY <1>1, SameCounts, Zenon DEF IInv
  <1>5. Control'
    BY <1>1, Zenon DEF IInv, Control
  <1>6. Status'
    <2>1. AllTrue(queue') /\ \A t \in Thread : AllTrue(batch'[t])
      BY <1>1, <1>2 DEF AllTrue
    <2>2. QED BY <1>1, <1>2, <2>1 DEF IInv, Status
  <1>7. AtRest'
    BY <1>1, Zenon DEF AtRest
  <1>8. QED BY <1>3, <1>4, <1>5, <1>6, <1>7 DEF IInv

\* The master calls Wait.
LEMMA WaitInv ==
    ASSUME IInv, Wait
    PROVE  IInv'
  <1>1. /\ phase = "add" /\ phase' = "loop" /\ pc' = [pc EXCEPT ![Master] = "enter"]
        /\ UNCHANGED <<queue, nTodo, nIdle, nTotal, fAllOk, fQuit, batch, fOk, result, expected>>
    BY Zenon DEF Wait
  <1>2. pc[Master] = "out" /\ Master \in Thread
    BY <1>1, Zenon DEF IInv, Control, Thread
  <1>3. Types'
    <2>1. pc' \in [Thread -> States]
      BY <1>1, <1>2, Zenon DEF IInv, Types, States
    <2>2. QED BY <1>1, <2>1 DEF IInv, Types, States
  <1>4. CountersExact'
    <2>1. Sleeping(pc', Thread) = Sleeping(pc, Thread) /\ Inside(pc', Thread) = Inside(pc, Thread)
      BY <1>1, <1>2, Zenon DEF IInv, Types, Sleeping, Inside
    <2>2. QED BY <1>1, <2>1, SameCounts DEF IInv
  <1>5. Control'
    BY <1>1, <1>2, Zenon DEF IInv, Types, Control
  <1>6. Status'
    <2>1. \A u \in Thread : /\ pc'[u] = "work" <=> pc[u] = "work"
                            /\ pc'[u] = "done" <=> pc[u] = "done"
      BY <1>1, <1>2, Zenon DEF IInv, Types
    <2>2. QED BY <1>1, <2>1 DEF IInv, Status
  <1>7. AtRest'
    BY <1>1, Zenon DEF AtRest
  <1>8. QED BY <1>3, <1>4, <1>5, <1>6, <1>7 DEF IInv

\* The master adds checks.
LEMMA AddInv ==
    ASSUME IInv, NEW checks \in Checks, Add(checks)
    PROVE  IInv'
  <1>1. /\ phase = "add" /\ queue' = queue \o checks /\ nTodo' = nTodo + Len(checks)
        /\ expected' = (expected /\ AllTrue(checks))
        /\ UNCHANGED <<nIdle, nTotal, fAllOk, fQuit, batch, fOk, phase, result>>
    BY Zenon DEF Add
  <1>2. checks \in Seq(BOOLEAN) /\ Len(checks) \in Nat
    BY DEF Checks
  <1>3. /\ queue \in Seq(BOOLEAN) /\ queue' \in Seq(BOOLEAN)
        /\ Len(queue') = Len(queue) + Len(checks)
    BY <1>1, <1>2 DEF IInv, Types
  <1>4. AllTrue(queue') <=> AllTrue(queue) /\ AllTrue(checks)
    <2>1. ASSUME AllTrue(queue), AllTrue(checks), NEW i \in DOMAIN queue'
          PROVE  queue'[i]
      <3>1. CASE i <= Len(queue)
        BY <1>1, <1>2, <1>3, <2>1, <3>1 DEF AllTrue
      <3>2. CASE i > Len(queue)
        <4>1. i - Len(queue) \in DOMAIN checks /\ queue'[i] = checks[i - Len(queue)]
          BY <1>1, <1>2, <1>3, <3>2
        <4>2. QED BY <2>1, <4>1 DEF AllTrue
      <3>3. QED BY <1>3, <3>1, <3>2
    <2>2. ASSUME AllTrue(queue'), NEW i \in DOMAIN queue
          PROVE  queue[i]
      BY <1>1, <1>2, <1>3, <2>2 DEF AllTrue
    <2>3. ASSUME AllTrue(queue'), NEW i \in DOMAIN checks
          PROVE  checks[i]
      <3>1. i + Len(queue) \in DOMAIN queue' /\ queue'[i + Len(queue)] = checks[i]
        BY <1>1, <1>2, <1>3
      <3>2. QED BY <2>3, <3>1 DEF AllTrue
    <2>4. QED BY <2>1, <2>2, <2>3 DEF AllTrue
  <1>5. pc \in [Thread -> States] /\ Notifies(pc, pc')
    <2>1. pc \in [Thread -> States]
      BY Zenon DEF IInv, Types, States
    <2>2. QED BY <2>1, CodeNotifies DEF Add
  <1>6. Types'
    <2>1. nTodo' \in Nat /\ expected' \in BOOLEAN
      BY <1>1, <1>2 DEF IInv, Types, AllTrue
    <2>2. QED BY <1>1, <1>3, <1>5, <2>1 DEF IInv, Types, Notifies, States
  <1>7. CountersExact'
    <2>1. Sleeping(pc', Thread) = Sleeping(pc, Thread) /\ Inside(pc', Thread) = Inside(pc, Thread)
      BY <1>5, NotifiesCounts, Zenon
    <2>2. nTodo' = Len(queue') + Cardinality(Held')
      <3>1. Held' = HeldIn(batch) /\ Held = HeldIn(batch)
        BY <1>1, Zenon DEF Held, HeldIn
      <3>2. Cardinality(HeldIn(batch)) \in Nat
        BY FinitePairs, FS_Subset, FS_CardinalityType, Zenon DEF HeldIn
      <3>3. nTodo = Len(queue) + Cardinality(Held) /\ Len(queue) \in Nat
        BY <1>3 DEF IInv, CountersExact
      <3>4. QED BY <1>1, <1>2, <1>3, <3>1, <3>2, <3>3
    <2>3. nIdle' = Cardinality(Sleeping(pc', Thread)) /\ nTotal' = Cardinality(Inside(pc', Thread))
      <3>1. nIdle = Cardinality(Sleeping(pc, Thread)) /\ nTotal = Cardinality(Inside(pc, Thread))
        BY Zenon DEF IInv, CountersExact, Sleeping, Inside
      <3>2. QED BY <1>1, <2>1, <3>1
    <2>4. QED BY <2>2, <2>3 DEF CountersExact, Sleeping, Inside
  <1>8. Control'
    BY <1>1, <1>5, Zenon DEF IInv, Control, Notifies, Thread
  <1>9. Status'
    <2>1. fAllOk => \A u \in Thread : /\ pc'[u] = "work" => fOk[u]
                                      /\ pc'[u] = "done" => (fOk[u] <=> AllTrue(batch[u]))
      BY <1>5, Zenon DEF IInv, Status, Notifies
    <2>2. expected <=> fAllOk /\ AllTrue(queue) /\ \A u \in Thread : AllTrue(batch[u])
      BY <1>1, Zenon DEF IInv, Status
    <2>3. expected' <=> fAllOk /\ AllTrue(queue') /\ \A u \in Thread : AllTrue(batch[u])
      <3>1. expected' = (expected /\ AllTrue(checks))
        BY <1>1, Zenon
      <3>2. QED BY <1>4, <2>2, <3>1, Zenon
    <2>4. QED BY <1>1, <2>1, <2>3 DEF Status
  <1>10. AtRest'
    BY <1>1, Zenon DEF AtRest
  <1>11. QED BY <1>6, <1>7, <1>8, <1>9, <1>10 DEF IInv

\* The queue as it is constructed.
LEMMA InitInv == Init => IInv
  <1> SUFFICES ASSUME Init PROVE IInv
    BY Zenon
  <1>1. Types
    <2>1. batch \in [Thread -> Batch]
      BY CheckQueueAssumption DEF Init, Batch
    <2>2. pc \in [Thread -> States] /\ fOk \in [Thread -> BOOLEAN]
      BY Zenon DEF Init, States
    <2>3. queue \in Seq(BOOLEAN)
      BY DEF Init
    <2>4. nTodo \in Nat /\ nIdle \in Nat /\ nTotal \in Nat /\ phase \in {"idle", "add", "loop"}
      BY Zenon DEF Init
    <2>5. fAllOk \in BOOLEAN /\ fQuit \in BOOLEAN /\ result \in BOOLEAN /\ expected \in BOOLEAN
      BY Zenon DEF Init
    <2>6. QED BY <2>1, <2>2, <2>3, <2>4, <2>5 DEF Types, States
  <1>2. CountersExact
    <2>1. Len(queue) = 0 /\ Held = {}
      BY DEF Init, Held
    <2>2. Sleeping(pc, Thread) = {} /\ Inside(pc, Thread) = {}
      BY Zenon DEF Init, Sleeping, Inside
    <2>3. Cardinality({}) = 0
      BY FS_EmptySet, Zenon
    <2>4. nTodo = 0 /\ nIdle = 0 /\ nTotal = 0
      BY Zenon DEF Init
    <2>5. nIdle = Cardinality(Sleeping(pc, Thread)) /\ nTotal = Cardinality(Inside(pc, Thread))
      BY <2>2, <2>3, <2>4, Zenon
    <2>6. nTodo = Len(queue) + Cardinality(Held)
      BY <2>1, <2>3, <2>4
    <2>7. QED BY <2>5, <2>6 DEF CountersExact, Sleeping, Inside
  <1>3. Control
    BY CheckQueueAssumption, Zenon DEF Init, Control, Thread
  <1>4. Status /\ AtRest
    BY Zenon DEF Init, Status, AtRest, WaitIsComplete
  <1>5. QED BY <1>1, <1>2, <1>3, <1>4 DEF IInv

\* Every step of a thread, of the master or of the shutdown preserves IInv.
LEMMA NextInv == IInv /\ [Next]_vars => IInv'
  <1> SUFFICES ASSUME IInv, [Next]_vars PROVE IInv'
    BY Zenon
  <1>1. pc \in [Thread -> States] /\ fQuit \in BOOLEAN
    BY Zenon DEF IInv, Types, States
  <1>2. CASE \E t \in Thread : Step(t)
    <2>1. PICK t \in Thread : Step(t)
      BY <1>2, Zenon
    <2>2. CASE WaitAgain(t)
      <3>1. Notifies(pc, pc')
        BY <1>1, <2>2, Zenon DEF WaitAgain, Notifies, States
      <3>2. QED BY <1>1, <2>2, <3>1, NotificationInv DEF WaitAgain
    <2>3. QED BY <2>1, <2>2, EnterInv, ExecuteInv, CleanUpInv, WakeUpInv DEF Step
  <1>3. CASE \E t \in Thread : SpuriousWakeUp(t)
    <2>1. PICK t \in Thread : SpuriousWakeUp(t)
      BY <1>3, Zenon
    <2>2. Notifies(pc, pc')
      BY <1>1, <2>1, Zenon DEF SpuriousWakeUp, Notifies, States
    <2>3. QED BY <1>1, <2>1, <2>2, NotificationInv DEF SpuriousWakeUp
  <1>4. CASE Begin
    BY <1>4, BeginInv, Zenon
  <1>5. CASE \E checks \in Checks : Add(checks)
    BY <1>5, AddInv, Zenon
  <1>6. CASE Wait
    BY <1>6, WaitInv, Zenon
  <1>7. CASE SetQuit
    <2>1. Notifies(pc, pc')
      BY <1>1, <1>7, Zenon DEF SetQuit, Notifies
    <2>2. QED BY <1>7, <2>1, NotificationInv DEF SetQuit
  <1>8. CASE NotifyQuit
    <2>1. Notifies(pc, pc')
      BY <1>1, <1>8, CodeNotifies, Zenon DEF NotifyQuit
    <2>2. QED BY <1>1, <1>8, <2>1, NotificationInv DEF NotifyQuit
  <1>9. CASE UNCHANGED vars
    <2>1. Notifies(pc, pc')
      BY <1>1, <1>9, Zenon DEF vars, Notifies
    <2>2. QED BY <1>1, <1>9, <2>1, NotificationInv DEF vars, master
  <1>10. QED BY <1>2, <1>3, <1>4, <1>5, <1>6, <1>7, <1>8, <1>9 DEF Next

\* The counters mean what their comments say, for any number of threads.
THEOREM CountersAlwaysExact == Spec => []CountersExact
  <1>1. IInv => CountersExact
    BY Zenon DEF IInv
  <1>2. QED BY <1>1, InitInv, NextInv, PTL DEF Spec

\* Wait leaves no check behind and returns the conjunction of their outcomes,
\* for any number of threads, blocks and checks, under every interleaving,
\* spurious wake-up and shutdown.
THEOREM WaitAlwaysComplete == Spec => []WaitIsComplete
  <1>1. IInv => WaitIsComplete
    BY Zenon DEF IInv, AtRest, WaitIsComplete
  <1>2. QED BY <1>1, InitInv, NextInv, PTL DEF Spec
=============================================================================
