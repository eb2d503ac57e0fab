------------------------ MODULE SchedulerClientProofs ------------------------
(***************************************************************************)
(* For any number of threads and producers: the callbacks run one at a     *)
(* time, in order and each once, and the shutdown misses none of them.     *)
(***************************************************************************)
EXTENDS SchedulerClient, FiniteSetTheorems, TLAPS

Everyone == Thread \cup Producer \cup {Main}

Task == [f : {"Repeat", "ProcessQueue"}, time : Nat]

Types ==
    /\ pc \in [Everyone -> Pc]
    /\ taskQueue \in Seq(Task)
    /\ now \in Nat /\ running \in BOOLEAN
    /\ pending \in Seq(Nat) /\ done \in Seq(Nat) /\ added \in Nat
    /\ callback \in [Executor -> Nat \cup {NoCallback}]

\* The flag excludes: one executor at most is between the two ends of ProcessQueue.
Serial ==
    /\ running <=> \E x \in Executor : pc[x] \in {"callback", "finish"}
    /\ \A x, y \in Executor :
          pc[x] \in {"callback", "finish"} /\ pc[y] \in {"callback", "finish"} => x = y
    /\ \A x \in Executor : callback[x] = IF pc[x] = "callback" THEN Len(done) + 1 ELSE NoCallback

InFlight == IF \E x \in Executor : pc[x] = "callback" THEN 1 ELSE 0

\* The callbacks that have run, the one that runs and those that wait are the
\* callbacks that were added, in the order of their addition.
Ordered ==
    /\ \A i \in DOMAIN done : done[i] = i
    /\ \A i \in DOMAIN pending : pending[i] = Len(done) + InFlight + i
    /\ added = Len(done) + InFlight + Len(pending)

\* What the shutdown has done already.
Joined ==
    /\ added <= MaxCallbacks + (IF pc[Main] \in {"up", "interrupted", "stop", "join", "join_late"} THEN 0 ELSE 1)
    /\ pc[Main] \notin {"up", "interrupted", "stop", "join"} => \A t \in Thread : pc[t] = "exited"
    /\ pc[Main] = "down" => pending = <<>>

Servicing(p) == {t \in Thread : p[t] \notin {"start", "exited"}}

IInv == Types /\ Serial /\ Ordered /\ Joined /\ nThreadsServicingQueue = Cardinality(Servicing(pc))

-----------------------------------------------------------------------------
(* Steps of the scheduler: a thread moves and the client is left alone.    *)

Counts(s) == IF s \in {"start", "exited"} THEN 0 ELSE 1

\* One thread moves.
LEMMA ServicingOne ==
    ASSUME NEW p \in [Everyone -> Pc], NEW t \in Thread, NEW b \in Pc,
           NEW q, q = [p EXCEPT ![t] = b]
    PROVE  /\ Cardinality(Servicing(p)) \in Int
           /\ Cardinality(Servicing(q)) = Cardinality(Servicing(p)) + Counts(b) - Counts(p[t])
  <1> DEFINE R == {u \in Thread \ {t} : p[u] \notin {"start", "exited"}}
  <1>1. IsFiniteSet(R) /\ t \notin R /\ Cardinality(R) \in Nat
    BY SchedulerAssumption, FS_Subset, FS_CardinalityType, Zenon
  <1>2. Cardinality(R \cup {t}) = Cardinality(R) + 1
    BY <1>1, FS_AddElement, Zenon
  <1>3. Servicing(p) = IF p[t] \in {"start", "exited"} THEN R ELSE R \cup {t}
    BY Zenon DEF Servicing
  <1>4. Servicing(q) = IF b \in {"start", "exited"} THEN R ELSE R \cup {t}
    BY Zenon DEF Servicing, Everyone
  <1> HIDE DEF R
  <1>5. Cardinality(Servicing(p)) = Cardinality(R) + Counts(p[t])
    BY <1>1, <1>2, <1>3 DEF Counts
  <1>6. Cardinality(Servicing(q)) = Cardinality(R) + Counts(b)
    BY <1>1, <1>2, <1>4 DEF Counts
  <1>7. QED BY <1>1, <1>5, <1>6 DEF Counts

\* The counter is a number.
LEMMA CountType == ASSUME IInv PROVE nThreadsServicingQueue \in Int
  <1>1. IsFiniteSet(Servicing(pc))
    BY SchedulerAssumption, FS_Subset, Zenon DEF Servicing
  <1>2. Cardinality(Servicing(pc)) \in Nat
    BY <1>1, FS_CardinalityType, Zenon
  <1>3. QED BY <1>2 DEF IInv

\* A step that leaves the callbacks alone.
LEMMA StepInv ==
    ASSUME IInv, NEW x \in Everyone, NEW b \in Pc, pc' = [pc EXCEPT ![x] = b],
           taskQueue' \in Seq(Task), now' \in Nat,
           UNCHANGED <<pending, running, callback, added, done>>,
           pc[x] \notin {"callback", "finish"}, b \notin {"callback", "finish"},
           x \in Thread => pc[x] # "exited",
           x = Main => Joined',
           nThreadsServicingQueue' =
               IF x \in Thread THEN nThreadsServicingQueue + Counts(b) - Counts(pc[x])
                               ELSE nThreadsServicingQueue
    PROVE  IInv'
  <1>1. Types'
    BY Zenon DEF IInv, Types
  <1>2. \A y \in Executor : /\ pc'[y] = "callback" <=> pc[y] = "callback"
                            /\ pc'[y] = "finish" <=> pc[y] = "finish"
    BY Zenon DEF IInv, Types, Executor, Everyone
  <1>3. Serial'
    BY <1>2, Zenon DEF IInv, Serial
  <1>4. Ordered'
    <2>1. InFlight' = InFlight
      BY <1>2, Zenon DEF InFlight
    <2>2. QED BY <2>1 DEF IInv, Ordered
  <1>5. Joined'
    <2>1. SUFFICES ASSUME x # Main PROVE Joined'
      BY Zenon
    <2>2. pc'[Main] = pc[Main]
      BY <2>1, Zenon DEF IInv, Types, Everyone
    <2>3. \A u \in Thread : pc[u] = "exited" => pc'[u] = "exited"
      BY Zenon DEF IInv, Types, Everyone
    <2>4. QED BY <2>2, <2>3 DEF IInv, Joined
  <1>6. nThreadsServicingQueue' = Cardinality(Servicing(pc'))
    <2>1. pc \in [Everyone -> Pc] /\ nThreadsServicingQueue = Cardinality(Servicing(pc))
      BY Zenon DEF IInv, Types
    <2>2. CASE x \in Thread
      <3>1. Cardinality(Servicing(pc')) = Cardinality(Servicing(pc)) + Counts(b) - Counts(pc[x])
        BY <2>1, <2>2, ServicingOne, Zenon
      <3>2. QED BY <2>1, <2>2, <3>1
    <2>3. CASE x \notin Thread
      <3>1. Servicing(pc') = Servicing(pc)
        BY <2>1, <2>3, Zenon DEF Servicing, Everyone
      <3>2. QED BY <2>1, <2>3, <3>1
    <2>4. QED BY <2>2, <2>3
  <1>7. QED BY <1>1, <1>3, <1>4, <1>5, <1>6 DEF IInv

\* The parts of a concatenation.
LEMMA Concat ==
    ASSUME NEW S, NEW a \in Seq(S), NEW b \in Seq(S)
    PROVE  /\ a \o b \in Seq(S) /\ Len(a \o b) = Len(a) + Len(b)
           /\ \A i \in 1..Len(a) : (a \o b)[i] = a[i]
           /\ \A i \in 1..Len(b) : (a \o b)[Len(a) + i] = b[i]
  OBVIOUS

\* What is left of a sequence when its first elements are taken away.
LEMMA Suffix ==
    ASSUME NEW S, NEW q \in Seq(S), NEW n \in Nat, NEW len \in Nat, len = Len(q), n <= len
    PROVE  /\ SubSeq(q, n + 1, len) \in Seq(S) /\ Len(SubSeq(q, n + 1, len)) = len - n
           /\ \A i \in 1..(len - n) : SubSeq(q, n + 1, len)[i] = q[n + i]
  <1>1. DOMAIN q = 1..len /\ \A i \in 1..len : q[i] \in S
    OBVIOUS
  <1>2. CASE n = len
    BY <1>2, SMTT(30)
  <1>3. CASE n < len
    BY <1>1, <1>3, SMTT(30)
  <1>4. QED BY <1>2, <1>3, SMTT(30)

\* Where a task is inserted, and that nothing is lost by it.
LEMMA InsertedTask ==
    ASSUME NEW q \in Seq(Task), NEW task \in Task
    PROVE  /\ Inserted(q, task) \in Seq(Task)
           /\ \E j \in DOMAIN Inserted(q, task) : Inserted(q, task)[j] = task
           /\ \A i \in DOMAIN q : \E j \in DOMAIN Inserted(q, task) : Inserted(q, task)[j] = q[i]
  <1> DEFINE S == {i \in DOMAIN q : q[i].time <= task.time}
             n == Cardinality(S)
             front == SubSeq(q, 1, n)
             back == SubSeq(q, n + 1, Len(q))
             mid == <<task>>
             fm == front \o mid
             r == fm \o back
  <1>1. Len(q) \in Nat /\ DOMAIN q = 1..Len(q)
    OBVIOUS
  <1>2. IsFiniteSet(1..Len(q)) /\ Cardinality(1..Len(q)) = Len(q)
    BY <1>1, FS_Interval, SMTT(30)
  <1>3. S \subseteq 1..Len(q)
    BY <1>1, Zenon
  <1>4. n \in Nat /\ n <= Len(q)
    <2>1. IsFiniteSet(S) /\ Cardinality(S) <= Cardinality(1..Len(q))
      BY <1>2, <1>3, FS_Subset, Zenon
    <2>2. Cardinality(S) \in Nat
      BY <2>1, FS_CardinalityType, Zenon
    <2>3. QED BY <1>2, <2>1, <2>2
  <1>5. Inserted(q, task) = r
    BY Zenon DEF Inserted
  <1> HIDE DEF n, S
  <1>6. /\ front \in Seq(Task) /\ Len(front) = n
        /\ \A i \in 1..n : front[i] = q[i]
    BY <1>1, <1>4, SMTT(30)
  <1>7. /\ back \in Seq(Task) /\ Len(back) = Len(q) - n
        /\ \A i \in 1..(Len(q) - n) : back[i] = q[n + i]
    BY <1>1, <1>4, Suffix, Zenon
  <1>8. mid \in Seq(Task) /\ Len(mid) = 1 /\ mid[1] = task
    OBVIOUS
  <1> HIDE DEF front, back, mid
  <1>9. /\ fm \in Seq(Task) /\ Len(fm) = n + 1
        /\ fm[n + 1] = task
        /\ \A i \in 1..n : fm[i] = q[i]
    <2>1. fm \in Seq(Task) /\ Len(fm) = Len(front) + Len(mid)
      BY <1>6, <1>8, Concat, Zenon
    <2>2. \A i \in 1..Len(front) : fm[i] = front[i]
      BY <1>6, <1>8, Concat, Zenon
    <2>3. fm[Len(front) + 1] = mid[1]
      <3>1. 1 \in 1..Len(mid)
        BY <1>8
      <3>2. QED BY <1>6, <1>8, <3>1, Concat
    <2> HIDE DEF fm
    <2>4. QED BY <1>4, <1>6, <1>8, <2>1, <2>2, <2>3
  <1>10. /\ r \in Seq(Task) /\ Len(r) = Len(q) + 1
         /\ r[n + 1] = task
         /\ \A i \in 1..n : r[i] = q[i]
         /\ \A i \in 1..(Len(q) - n) : r[n + 1 + i] = q[n + i]
    <2> HIDE DEF fm
    <2>1. r \in Seq(Task) /\ Len(r) = n + 1 + (Len(q) - n)
      <3>1. fm \in Seq(Task) /\ back \in Seq(Task)
        BY <1>7, <1>9, Zenon
      <3>2. r \in Seq(Task) /\ Len(r) = Len(fm) + Len(back)
        BY <3>1, Concat, Zenon
      <3>3. QED BY <1>7, <1>9, <3>2
    <2>2. \A i \in 1..(n + 1) : r[i] = fm[i]
      BY <1>7, <1>9, Concat
    <2>3. \A i \in 1..(Len(q) - n) : r[n + 1 + i] = back[i]
      BY <1>7, <1>9, Concat
    <2> HIDE DEF r
    <2>4. \A i \in 1..n : r[i] = q[i]
      BY <1>4, <1>9, <2>2
    <2>5. r[n + 1] = task
      BY <1>4, <1>9, <2>2
    <2>6. n + 1 + (Len(q) - n) = Len(q) + 1
      BY <1>1, <1>4
    <2>7. QED BY <1>7, <2>1, <2>3, <2>4, <2>5, <2>6
  <1> HIDE DEF r
  <1>11. \E j \in DOMAIN r : r[j] = task
    BY <1>1, <1>4, <1>10
  <1>12. ASSUME NEW i \in DOMAIN q PROVE \E j \in DOMAIN r : r[j] = q[i]
    <2>1. i \in Nat /\ 1 <= i /\ i <= Len(q) /\ DOMAIN r = 1..(Len(q) + 1)
      BY <1>1, <1>10
    <2>2. CASE i <= n
      BY <1>4, <1>10, <2>1, <2>2
    <2>3. CASE i > n
      <3>1. i - n \in 1..(Len(q) - n) /\ n + (i - n) = i /\ n + 1 + (i - n) \in 1..(Len(q) + 1)
        BY <1>1, <1>4, <2>1, <2>3
      <3>2. r[n + 1 + (i - n)] = q[i]
        BY <1>10, <3>1, Zenon
      <3>3. QED BY <2>1, <3>1, <3>2
    <2>4. QED BY <1>4, <2>1, <2>2, <2>3
  <1>13. QED BY <1>5, <1>10, <1>11, <1>12

\* The three ways on from the head of the loop of serviceQueue.
LEMMA ProceedInv ==
    ASSUME IInv, NEW t \in Thread, NEW n, Proceed(t, n),
           pc[t] \notin {"callback", "finish", "exited"},
           n = nThreadsServicingQueue + 1 - Counts(pc[t])
    PROVE  IInv'
  <1> DEFINE b == IF ShouldStop THEN "exited" ELSE IF taskQueue = <<>> THEN "wait" ELSE "wait_until"
  <1>0. b \in Pc
    BY Zenon DEF Pc
  <1>1. /\ pc' = [pc EXCEPT ![t] = b] /\ b \notin {"callback", "finish"}
        /\ nThreadsServicingQueue' = IF ShouldStop THEN n - 1 ELSE n
        /\ UNCHANGED <<now, taskQueue, pending, running, callback, added, done>>
    BY Zenon DEF Proceed, client
  <1>2. Counts(b) = IF ShouldStop THEN 0 ELSE 1
    BY Zenon DEF Counts
  <1>3. nThreadsServicingQueue \in Int
    BY CountType, Zenon
  <1>4. nThreadsServicingQueue' = nThreadsServicingQueue + Counts(b) - Counts(pc[t])
    BY <1>1, <1>2, <1>3 DEF Counts
  <1>5. taskQueue' \in Seq(Task) /\ now' \in Nat
    BY <1>1, Zenon DEF IInv, Types
  <1>6. t \in Everyone /\ t # Main /\ t \notin Producer
    BY SchedulerAssumption, Zenon DEF Everyone
  <1> HIDE DEF b
  <1>7. QED BY <1>0, <1>1, <1>4, <1>5, <1>6, StepInv, Zenon

\* The steps of serviceQueue and of Repeat.
LEMMA ServiceInv ==
    ASSUME IInv, NEW t \in Thread,
           Enter(t) \/ Return(t) \/ WakeUp(t) \/ Timeout(t) \/ TimeoutInVain(t) \/ Repeat(t)
    PROVE  IInv'
  <1>1. nThreadsServicingQueue \in Int
    BY CountType, Zenon
  <1>2. t \in Everyone /\ t # Main /\ t \notin Producer
    BY SchedulerAssumption, Zenon DEF Everyone
  <1>3. CASE Enter(t)
    BY <1>1, <1>3, ProceedInv DEF Enter, Counts
  <1>4. CASE Return(t)
    BY <1>1, <1>4, ProceedInv DEF Return, Counts
  <1>5. CASE WakeUp(t)
    BY <1>1, <1>5, ProceedInv DEF WakeUp, Counts
  <1>6. CASE TimeoutInVain(t)
    BY <1>1, <1>6, ProceedInv DEF TimeoutInVain, Counts
  <1>7. CASE Timeout(t)
    <2> DEFINE b == Head(taskQueue).f
    <2>1. b \in {"Repeat", "ProcessQueue"} /\ taskQueue' \in Seq(Task) /\ now' \in Nat
      <3>1. taskQueue \in Seq(Task) /\ taskQueue # <<>> /\ now \in Nat
        BY <1>7, Zenon DEF Timeout, IInv, Types
      <3>2. Head(taskQueue) \in Task /\ Tail(taskQueue) \in Seq(Task)
        BY <3>1
      <3>3. QED BY <1>7, <3>1, <3>2 DEF Timeout, Task
    <2>2. /\ pc[t] = "wait_until" /\ pc' = [pc EXCEPT ![t] = b]
          /\ UNCHANGED <<pending, running, callback, added, done, nThreadsServicingQueue>>
      BY <1>7, Zenon DEF Timeout, client
    <2>3. nThreadsServicingQueue' = nThreadsServicingQueue + Counts(b) - Counts(pc[t])
      BY <1>1, <2>1, <2>2 DEF Counts
    <2> HIDE DEF b
    <2>4. b \in Pc /\ b \notin {"callback", "finish"}
      BY <2>1, Zenon DEF Pc
    <2>5. QED BY <1>2, <2>1, <2>2, <2>3, <2>4, StepInv, Zenon
  <1>8. CASE Repeat(t)
    <2>1. PICK b \in {"notify", "return"} :
             /\ pc[t] = "Repeat" /\ pc' = [pc EXCEPT ![t] = b]
             /\ taskQueue' \in {taskQueue, Inserted(taskQueue, [f |-> "Repeat", time |-> now + Period])}
             /\ UNCHANGED <<now, pending, running, callback, added, done, nThreadsServicingQueue>>
      BY <1>8, Zenon DEF Repeat, Insert, client, service
    <2>2. taskQueue' \in Seq(Task) /\ now' \in Nat
      <3>1. [f |-> "Repeat", time |-> now + Period] \in Task
        BY SchedulerAssumption DEF IInv, Types, Task
      <3>2. QED BY <2>1, <3>1, InsertedTask, Zenon DEF IInv, Types
    <2>3. nThreadsServicingQueue' = nThreadsServicingQueue + Counts(b) - Counts(pc[t])
      BY <1>1, <2>1 DEF Counts
    <2>4. b \in Pc /\ b \notin {"callback", "finish"}
      BY Zenon DEF Pc
    <2>5. QED BY <1>2, <2>1, <2>2, <2>3, <2>4, StepInv, Zenon
  <1>9. QED BY <1>3, <1>4, <1>5, <1>6, <1>7, <1>8

\* The steps of the client that neither add, take nor run a callback.
LEMMA ClientInv ==
    ASSUME IInv, NEW x \in Everyone, ClientStep(x) \/ ProcessNothing(x)
    PROVE  IInv'
  <1>1. PICK b \in {"return", "schedule", "notify"} :
           /\ pc[x] \in {"MaybeSchedule", "schedule", "notify", "ProcessQueue"}
           /\ pc' = [pc EXCEPT ![x] = b]
           /\ taskQueue' \in {taskQueue, Inserted(taskQueue, [f |-> "ProcessQueue", time |-> now])}
           /\ UNCHANGED <<now, pending, running, callback, added, done, nThreadsServicingQueue>>
    <2>1. CASE MaybeSchedule(x) BY <2>1, Zenon DEF MaybeSchedule, service, client
    <2>2. CASE Schedule(x) BY <2>2 DEF Schedule, Insert, client
    <2>3. CASE NotifyScheduled(x) BY <2>3 DEF NotifyScheduled, Notify, client
    <2>4. CASE ProcessNothing(x) BY <2>4 DEF ProcessNothing, service, client
    <2>5. QED BY <2>1, <2>2, <2>3, <2>4 DEF ClientStep
  <1>2. taskQueue' \in Seq(Task) /\ now' \in Nat
    <2>1. [f |-> "ProcessQueue", time |-> now] \in Task
      BY Zenon DEF IInv, Types, Task
    <2>2. QED BY <1>1, <2>1, InsertedTask, Zenon DEF IInv, Types
  <1>3. b \in Pc /\ b \notin {"callback", "finish"}
    BY Zenon DEF Pc
  <1>4. nThreadsServicingQueue' = IF x \in Thread THEN nThreadsServicingQueue + Counts(b) - Counts(pc[x])
                                                  ELSE nThreadsServicingQueue
    <2>1. nThreadsServicingQueue \in Int
      BY CountType, Zenon
    <2>2. QED BY <1>1, <2>1 DEF Counts
  <1>5. x = Main => Joined'
    <2>1. SUFFICES ASSUME x = Main PROVE Joined'
      BY Zenon
    <2>2. pc'[Main] = b
      BY <1>1, <2>1, Zenon DEF IInv, Types
    <2>3. \A y \in Thread \cup Producer : pc'[y] = pc[y]
      BY <1>1, <2>1, SchedulerAssumption, Zenon DEF IInv, Types, Everyone
    <2>4. QED BY <1>1, <2>1, <2>2, <2>3 DEF IInv, Joined
  <1>6. QED BY <1>1, <1>2, <1>3, <1>4, <1>5, StepInv, Zenon

-----------------------------------------------------------------------------
(* Steps of the client: a callback is taken, run, accounted for or added.  *)

\* An executor moves between states in which it is counted as servicing.
LEMMA ExecutorMoves ==
    ASSUME IInv, NEW x \in Executor, NEW b \in Pc, pc' = [pc EXCEPT ![x] = b],
           pc[x] \in {"ProcessQueue", "callback", "finish"},
           b \in {"callback", "finish", "MaybeSchedule"},
           UNCHANGED <<added, nThreadsServicingQueue>>, pending' = pending \/ pending # <<>>
    PROVE  /\ pc' \in [Everyone -> Pc] /\ x \in Everyone
           /\ pc'[x] = b /\ \A y \in Executor : y # x => pc'[y] = pc[y]
           /\ Joined' /\ nThreadsServicingQueue' = Cardinality(Servicing(pc'))
  <1>1. x \in Everyone /\ pc \in [Everyone -> Pc] /\ Executor \subseteq Everyone
    BY Zenon DEF IInv, Types, Executor, Everyone
  <1>2. /\ pc' \in [Everyone -> Pc] /\ pc'[x] = b
        /\ \A y \in Everyone : y # x => pc'[y] = pc[y]
    BY <1>1, Zenon
  <1>3. Joined'
    <2>1. \A u \in Thread : pc[u] = "exited" => pc'[u] = "exited"
      BY <1>2, Zenon DEF Everyone
    <2>2. \A u \in Producer : pc[u] = "idle" => pc'[u] = "idle"
      BY <1>2, Zenon DEF Everyone
    <2>3. CASE x = Main
      BY <1>2, <2>1, <2>2, <2>3, Zenon DEF IInv, Joined
    <2>4. CASE x # Main
      <3>1. pc'[Main] = pc[Main]
        BY <1>2, <2>4, Zenon DEF Everyone
      <3>2. QED BY <2>1, <2>2, <3>1 DEF IInv, Joined
    <2>5. QED BY <2>3, <2>4
  <1>4. Servicing(pc') = Servicing(pc)
    BY <1>2, Zenon DEF Servicing, Everyone
  <1>5. QED BY <1>1, <1>2, <1>3, <1>4 DEF IInv

\* ProcessQueue takes a callback.
LEMMA ProcessQueueInv ==
    ASSUME IInv, NEW x \in Executor, ProcessQueue(x)
    PROVE  IInv'
  <1>1. /\ pc[x] = "ProcessQueue" /\ ~running /\ pending # <<>> /\ running'
        /\ callback' = [callback EXCEPT ![x] = Head(pending)] /\ pending' = Tail(pending)
        /\ pc' = [pc EXCEPT ![x] = "callback"]
        /\ UNCHANGED <<now, taskQueue, nThreadsServicingQueue, added, done>>
    BY Zenon DEF ProcessQueue, service
  <1>2. /\ pending \in Seq(Nat) /\ done \in Seq(Nat) /\ Len(done) \in Nat
        /\ callback \in [Executor -> Nat \cup {NoCallback}]
    BY DEF IInv, Types
  <1>3. /\ pc' \in [Everyone -> Pc] /\ pc'[x] = "callback"
        /\ \A y \in Executor : y # x => pc'[y] = pc[y]
        /\ Joined' /\ nThreadsServicingQueue' = Cardinality(Servicing(pc'))
    <2>1. "callback" \in Pc
      BY Zenon DEF Pc
    <2>2. QED BY <1>1, <2>1, ExecutorMoves, Zenon
  <1>4. \A y \in Executor : pc[y] \notin {"callback", "finish"}
    BY <1>1, Zenon DEF IInv, Serial
  <1>5. InFlight = 0 /\ InFlight' = 1
    BY <1>3, <1>4, Zenon DEF InFlight
  <1>6. /\ Head(pending) = pending[1] /\ Head(pending) \in Nat
        /\ pending' \in Seq(Nat) /\ Len(pending) \in Nat /\ Len(pending) >= 1
        /\ Len(pending') = Len(pending) - 1
        /\ \A i \in 1..(Len(pending) - 1) : pending'[i] = pending[i + 1]
    BY <1>1, <1>2
  <1>7. /\ \A i \in 1..Len(pending) : pending[i] = Len(done) + i
        /\ added = Len(done) + Len(pending)
    <2>1. /\ \A i \in DOMAIN pending : pending[i] = Len(done) + 0 + i
          /\ added = Len(done) + 0 + Len(pending)
      BY <1>5, Zenon DEF IInv, Ordered
    <2>2. DOMAIN pending = 1..Len(pending) /\ Len(pending) \in Nat
      BY <1>2
    <2>3. QED BY <1>2, <2>1, <2>2
  <1>8. Head(pending) = Len(done) + 1
    BY <1>6, <1>7
  <1>9. Types'
    BY <1>1, <1>2, <1>3, <1>6, Zenon DEF IInv, Types
  <1>10. Serial'
    <2>1. running' <=> \E y \in Executor : pc'[y] \in {"callback", "finish"}
      BY <1>1, <1>3, Zenon
    <2>2. \A y \in Executor : callback'[y] = IF pc'[y] = "callback" THEN Len(done') + 1 ELSE NoCallback
      BY <1>1, <1>2, <1>3, <1>4, <1>8, Zenon DEF IInv, Serial
    <2>3. \A y, z \in Executor :
             pc'[y] \in {"callback", "finish"} /\ pc'[z] \in {"callback", "finish"} => y = z
      BY <1>3, <1>4, Zenon
    <2>4. QED BY <2>1, <2>2, <2>3 DEF Serial
  <1>11. Ordered'
    <2>1. ASSUME NEW i \in 1..Len(pending') PROVE pending'[i] = Len(done) + 1 + i
      <3>1. i \in Nat /\ i \in 1..(Len(pending) - 1) /\ i + 1 \in 1..Len(pending)
        BY <1>6
      <3>2. pending'[i] = pending[i + 1] /\ pending[i + 1] = Len(done) + (i + 1)
        BY <1>6, <1>7, <3>1, Zenon
      <3>3. QED BY <1>2, <3>1, <3>2
    <2>2. added' = Len(done) + 1 + Len(pending')
      BY <1>1, <1>2, <1>6, <1>7
    <2>3. QED BY <1>1, <1>5, <1>6, <2>1, <2>2 DEF IInv, Ordered
  <1>12. QED BY <1>3, <1>9, <1>10, <1>11 DEF IInv

\* A callback runs.
LEMMA RunCallbackInv ==
    ASSUME IInv, NEW x \in Executor, RunCallback(x)
    PROVE  IInv'
  <1>1. /\ pc[x] = "callback" /\ done' = Append(done, callback[x])
        /\ callback' = [callback EXCEPT ![x] = NoCallback]
        /\ pc' = [pc EXCEPT ![x] = "finish"]
        /\ UNCHANGED <<now, taskQueue, nThreadsServicingQueue, pending, running, added>>
    BY Zenon DEF RunCallback, service
  <1>2. /\ pending \in Seq(Nat) /\ done \in Seq(Nat) /\ Len(done) \in Nat
        /\ callback \in [Executor -> Nat \cup {NoCallback}] /\ Len(pending) \in Nat
    BY DEF IInv, Types
  <1>3. /\ pc' \in [Everyone -> Pc] /\ pc'[x] = "finish"
        /\ \A y \in Executor : y # x => pc'[y] = pc[y]
        /\ Joined' /\ nThreadsServicingQueue' = Cardinality(Servicing(pc'))
    <2>1. "finish" \in Pc
      BY Zenon DEF Pc
    <2>2. QED BY <1>1, <2>1, ExecutorMoves, Zenon
  <1>4. callback[x] = Len(done) + 1
    BY <1>1, Zenon DEF IInv, Serial
  <1>5. \A y \in Executor : y # x => pc[y] \notin {"callback", "finish"}
    BY <1>1, Zenon DEF IInv, Serial
  <1>6. InFlight = 1 /\ InFlight' = 0
    BY <1>1, <1>3, <1>5, Zenon DEF InFlight
  <1>7. /\ done' \in Seq(Nat) /\ Len(done') = Len(done) + 1
        /\ \A i \in 1..Len(done) : done'[i] = done[i]
        /\ done'[Len(done) + 1] = Len(done) + 1
    BY <1>1, <1>2, <1>4
  <1>8. Types'
    BY <1>1, <1>2, <1>3, <1>7, Zenon DEF IInv, Types
  <1>9. Serial'
    <2>1. running' <=> \E y \in Executor : pc'[y] \in {"callback", "finish"}
      BY <1>1, <1>3, Zenon DEF IInv, Serial
    <2>2. \A y \in Executor : callback'[y] = IF pc'[y] = "callback" THEN Len(done') + 1 ELSE NoCallback
      BY <1>1, <1>2, <1>3, <1>5, Zenon DEF IInv, Serial
    <2>3. \A y, z \in Executor :
             pc'[y] \in {"callback", "finish"} /\ pc'[z] \in {"callback", "finish"} => y = z
      BY <1>3, <1>5, Zenon
    <2>4. QED BY <2>1, <2>2, <2>3 DEF Serial
  <1>10. Ordered'
    <2>1. ASSUME NEW i \in DOMAIN done' PROVE done'[i] = i
      <3>1. \A j \in 1..Len(done) : done[j] = j
        BY <1>2 DEF IInv, Ordered
      <3>2. i \in 1..Len(done) \/ i = Len(done) + 1
        BY <1>2, <1>7
      <3>3. QED BY <1>7, <3>1, <3>2
    <2>2. \A i \in DOMAIN pending : pending[i] = Len(done) + 1 + i
      BY <1>6, Zenon DEF IInv, Ordered
    <2>3. added = Len(done) + 1 + Len(pending)
      BY <1>6, Zenon DEF IInv, Ordered
    <2>4. \A i \in DOMAIN pending' : pending'[i] = Len(done') + 0 + i
      BY <1>1, <1>2, <1>7, <2>2
    <2>5. added' = Len(done') + 0 + Len(pending')
      BY <1>1, <1>2, <1>7, <2>3
    <2>6. QED BY <1>6, <2>1, <2>4, <2>5 DEF Ordered
  <1>11. QED BY <1>3, <1>8, <1>9, <1>10 DEF IInv

\* RAIICallbacksRunning ends the callback.
LEMMA FinishInv ==
    ASSUME IInv, NEW x \in Executor, Finish(x)
    PROVE  IInv'
  <1>1. /\ pc[x] = "finish" /\ running' = FALSE
        /\ pc' = [pc EXCEPT ![x] = "MaybeSchedule"]
        /\ UNCHANGED <<now, taskQueue, nThreadsServicingQueue, pending, callback, added, done>>
    BY Zenon DEF Finish, service
  <1>2. /\ pc' \in [Everyone -> Pc] /\ pc'[x] = "MaybeSchedule"
        /\ \A y \in Executor : y # x => pc'[y] = pc[y]
        /\ Joined' /\ nThreadsServicingQueue' = Cardinality(Servicing(pc'))
    <2>1. "MaybeSchedule" \in Pc
      BY Zenon DEF Pc
    <2>2. QED BY <1>1, <2>1, ExecutorMoves, Zenon
  <1>3. \A y \in Executor : y # x => pc[y] \notin {"callback", "finish"}
    BY <1>1, Zenon DEF IInv, Serial
  <1>4. InFlight = 0 /\ InFlight' = 0
    BY <1>1, <1>2, <1>3, Zenon DEF InFlight
  <1>5. Types'
    BY <1>1, <1>2, Zenon DEF IInv, Types
  <1>6. Serial'
    BY <1>1, <1>2, <1>3, Zenon DEF IInv, Serial
  <1>7. Ordered'
    BY <1>1, <1>4, Zenon DEF IInv, Ordered
  <1>8. QED BY <1>2, <1>5, <1>6, <1>7 DEF IInv

\* A callback is added by a producer, or by the thread that shuts down.
LEMMA AddInv ==
    ASSUME IInv, NEW x \in Producer \cup {Main}, NEW sync, Add(x, sync), Joined',
           pc[x] \notin {"callback", "finish"}
    PROVE  IInv'
  <1>1. /\ added' = added + 1 /\ pending' = Append(pending, added + 1)
        /\ pc' = [pc EXCEPT ![x] = "MaybeSchedule"]
        /\ UNCHANGED <<now, taskQueue, nThreadsServicingQueue, running, callback, done>>
    BY Zenon DEF Add, service
  <1>2. /\ x \in Everyone /\ x \notin Thread /\ "MaybeSchedule" \in Pc /\ Executor \subseteq Everyone
        /\ pc \in [Everyone -> Pc] /\ Thread \subseteq Everyone
    BY SchedulerAssumption, Zenon DEF Everyone, Executor, Pc, IInv, Types
  <1>3. /\ pc' \in [Everyone -> Pc] /\ pc'[x] = "MaybeSchedule"
        /\ \A y \in Everyone : y # x => pc'[y] = pc[y]
    BY <1>1, <1>2, Zenon
  <1>4. \A y \in Executor : /\ pc'[y] = "callback" <=> pc[y] = "callback"
                            /\ pc'[y] = "finish" <=> pc[y] = "finish"
    BY <1>2, <1>3, Zenon
  <1>5. /\ pending \in Seq(Nat) /\ done \in Seq(Nat) /\ Len(done) \in Nat /\ added \in Nat
        /\ Len(pending) \in Nat /\ InFlight \in Nat
    BY DEF IInv, Types, InFlight
  <1>6. /\ pending' \in Seq(Nat) /\ Len(pending') = Len(pending) + 1
        /\ \A i \in 1..Len(pending) : pending'[i] = pending[i]
        /\ pending'[Len(pending) + 1] = added + 1
    BY <1>1, <1>5
  <1>7. Types'
    BY <1>1, <1>3, <1>5, <1>6 DEF IInv, Types
  <1>8. Serial'
    BY <1>1, <1>4, Zenon DEF IInv, Serial
  <1>9. Ordered'
    <2>1. InFlight' = InFlight
      BY <1>4, Zenon DEF InFlight
    <2>2. /\ \A i \in 1..Len(pending) : pending[i] = Len(done) + InFlight + i
          /\ added = Len(done) + InFlight + Len(pending)
      BY <1>5 DEF IInv, Ordered
    <2>3. \A i \in DOMAIN pending' : pending'[i] = Len(done) + InFlight + i
      <3>1. ASSUME NEW i \in DOMAIN pending' PROVE pending'[i] = Len(done) + InFlight + i
        <4>1. i \in 1..Len(pending) \/ i = Len(pending) + 1
          BY <1>5, <1>6
        <4>2. CASE i \in 1..Len(pending)
          BY <1>6, <2>2, <4>2, Zenon
        <4>3. CASE i = Len(pending) + 1
          BY <1>5, <1>6, <2>2, <4>3
        <4>4. QED BY <4>1, <4>2, <4>3
      <3>2. QED BY <3>1
    <2>4. added' = Len(done) + InFlight + Len(pending')
      BY <1>1, <1>5, <1>6, <2>2
    <2>5. QED BY <1>1, <2>1, <2>3, <2>4 DEF IInv, Ordered
  <1>10. nThreadsServicingQueue' = Cardinality(Servicing(pc'))
    <2>1. Servicing(pc') = Servicing(pc)
      BY <1>2, <1>3, Zenon DEF Servicing
    <2>2. QED BY <1>1, <2>1 DEF IInv
  <1>11. QED BY <1>7, <1>8, <1>9, <1>10 DEF IInv

\* The steps of the producers.
LEMMA ProducerInv ==
    ASSUME IInv, NEW p \in Producer, Produce(p) \/ ProducerStep(p)
    PROVE  IInv'
  <1>1. p \in Everyone /\ p # Main /\ p \notin Thread /\ Main \in Everyone
    BY SchedulerAssumption, Zenon DEF Everyone
  <1>2. CASE ClientStep(p)
    BY <1>1, <1>2, ClientInv, Zenon
  <1>3. CASE Resume(p)
    <2>1. "idle" \in Pc
      BY Zenon DEF Pc
    <2>2. /\ pc[p] = "return" /\ pc' = [pc EXCEPT ![p] = "idle"]
          /\ UNCHANGED <<now, taskQueue, pending, running, callback, added, done, nThreadsServicingQueue>>
      BY <1>3, Zenon DEF Resume, service
    <2>3. taskQueue' \in Seq(Task) /\ now' \in Nat
      BY <2>2, Zenon DEF IInv, Types
    <2>4. QED BY <1>1, <2>1, <2>2, <2>3, StepInv, Zenon
  <1>4. CASE Produce(p)
    <2>1. PICK sync \in BOOLEAN : Add(p, sync)
      BY <1>4, Zenon DEF Produce
    <2>2. /\ pc[p] = "idle" /\ added < MaxCallbacks
          /\ pc[Main] \in {"up", "interrupted", "stop", "join", "join_late"}
          /\ added' = added + 1 /\ pc' = [pc EXCEPT ![p] = "MaybeSchedule"]
      BY <1>4, <2>1, Zenon DEF Produce, AtWork, Add
    <2>3. pc'[Main] = pc[Main]
      BY <1>1, <2>2, Zenon DEF IInv, Types
    <2>4. \A t \in Thread : pc'[t] = pc[t]
      BY <1>1, <2>2, Zenon DEF IInv, Types, Everyone
    <2>5. Joined'
      BY <2>2, <2>3, <2>4, SchedulerAssumption DEF IInv, Types, Joined
    <2>6. QED BY <2>1, <2>2, <2>5, AddInv
  <1>5. QED BY <1>2, <1>3, <1>4 DEF ProducerStep

\* The steps of the shutdown.
LEMMA ShutdownInv ==
    ASSUME IInv, Interrupt \/ MainStep
    PROVE  IInv'
  <1>1. /\ Main \in Everyone /\ Main \in Executor /\ Main \notin Thread /\ Main \notin Producer
        /\ pc \in [Everyone -> Pc] /\ Thread \cup Producer \subseteq Everyone
    BY SchedulerAssumption, Zenon DEF Everyone, Executor, IInv, Types
  <1>2. CASE Process(Main)
    BY <1>1, <1>2, ProcessQueueInv, RunCallbackInv, FinishInv, ClientInv, Zenon DEF Process
  <1>3. CASE JoinLate
    <2>1. /\ pc[Main] = "join_late" /\ Add(Main, FALSE)
          /\ added' = added + 1 /\ pc' = [pc EXCEPT ![Main] = "MaybeSchedule"]
      BY <1>3, Zenon DEF JoinLate, Add
    <2>2. pc'[Main] = "MaybeSchedule" /\ \A y \in Thread \cup Producer : pc'[y] = pc[y]
      BY <1>1, <2>1, Zenon
    <2>3. Joined'
      BY <2>1, <2>2, SchedulerAssumption DEF IInv, Types, Joined
    <2>4. QED BY <2>1, <2>3, AddInv, Zenon
  <1>4. ASSUME NEW b \in {"interrupted", "stop", "join", "join_late", "down", "ProcessQueue"},
               MainGoes(b), pc[Main] \in {"up", "interrupted", "stop", "join", "return"},
               UNCHANGED <<now, taskQueue, nThreadsServicingQueue, client>>,
               Joined'
        PROVE  IInv'
    <2>1. b \in Pc /\ b \notin {"callback", "finish"}
      BY Zenon DEF Pc
    <2>2. /\ pc' = [pc EXCEPT ![Main] = b]
          /\ UNCHANGED <<pending, running, callback, added, done, nThreadsServicingQueue>>
      BY <1>4, Zenon DEF MainGoes, client
    <2>3. taskQueue' \in Seq(Task) /\ now' \in Nat
      BY <1>4, Zenon DEF IInv, Types
    <2>4. QED BY <1>1, <1>4, <2>1, <2>2, <2>3, StepInv, Zenon
  <1>5. ASSUME NEW b \in Pc, MainGoes(b)
        PROVE  pc'[Main] = b /\ \A y \in Thread \cup Producer : pc'[y] = pc[y]
    BY <1>1, <1>5, Zenon DEF MainGoes
  <1>6. CASE Interrupt
    <2>1. pc[Main] = "up" /\ MainGoes("interrupted") /\ UNCHANGED <<now, taskQueue, nThreadsServicingQueue, client>>
      BY <1>6, Zenon DEF Interrupt
    <2>2. pc'[Main] = "interrupted"
      BY <1>5, <2>1, Zenon DEF Pc
    <2>3. Joined'
      BY <2>1, <2>2, Zenon DEF IInv, Joined, client
    <2>4. QED BY <1>4, <2>1, <2>3
  <1>7. CASE JoinProducers
    <2>1. /\ pc[Main] = "interrupted" /\ MainGoes("stop")
          /\ UNCHANGED <<now, taskQueue, nThreadsServicingQueue, client>>
      BY <1>7, Zenon DEF JoinProducers, service, client
    <2>2. pc'[Main] = "stop" /\ \A y \in Thread \cup Producer : pc'[y] = pc[y]
      BY <1>5, <2>1, Zenon DEF Pc
    <2>3. Joined'
      BY <2>1, <2>2, Zenon DEF IInv, Joined, client
    <2>4. QED BY <1>4, <2>1, <2>3
  <1>8. CASE Stop
    <2>1. pc[Main] = "stop" /\ MainGoes("join") /\ UNCHANGED <<now, taskQueue, nThreadsServicingQueue, client>>
      BY <1>8, Zenon DEF Stop
    <2>2. pc'[Main] = "join" /\ \A y \in Thread \cup Producer : pc'[y] = pc[y]
      BY <1>5, <2>1, Zenon DEF Pc
    <2>3. Joined'
      BY <2>1, <2>2, Zenon DEF IInv, Joined, client
    <2>4. QED BY <1>4, <2>1, <2>3
  <1>9. CASE EmptyQueue
    <2>1. PICK b \in {"down", "ProcessQueue"} :
             /\ pc[Main] = "return" /\ MainGoes(b) /\ (b = "down" => pending = <<>>)
             /\ UNCHANGED <<now, taskQueue, nThreadsServicingQueue, client>>
      BY <1>9, Zenon DEF EmptyQueue, service, client
    <2>2. pc'[Main] = b /\ \A y \in Thread \cup Producer : pc'[y] = pc[y]
      BY <1>5, <2>1, Zenon DEF Pc
    <2>3. Joined'
      BY <2>1, <2>2, Zenon DEF IInv, Joined, client
    <2>4. QED BY <1>4, <2>1, <2>3
  <1>10. CASE JoinThreads
    <2>1. /\ pc[Main] = "join" /\ MainGoes("join_late") /\ \A t \in Thread : pc[t] = "exited"
          /\ UNCHANGED <<now, taskQueue, nThreadsServicingQueue, client>>
      BY <1>10, Zenon DEF JoinThreads, service, client
    <2>2. pc'[Main] = "join_late" /\ \A y \in Thread \cup Producer : pc'[y] = pc[y]
      BY <1>5, <2>1, Zenon DEF Pc
    <2>3. Joined'
      BY <2>1, <2>2, Zenon DEF IInv, Joined, client
    <2>4. QED BY <1>4, <2>1, <2>3
  <1>11. QED BY <1>2, <1>3, <1>6, <1>7, <1>8, <1>9, <1>10 DEF MainStep

-----------------------------------------------------------------------------
(* The invariant.                                                          *)

\* The scheduler as it is constructed.
LEMMA InitInv == Init => IInv
  <1> SUFFICES ASSUME Init PROVE IInv
    BY Zenon
  <1>1. Types
    <2>1. pc \in [Everyone -> Pc]
      BY Zenon DEF Init, Everyone, Pc
    <2>2. taskQueue \in Seq(Task)
      BY SchedulerAssumption DEF Init, Task
    <2>3. now \in Nat /\ added \in Nat /\ callback \in [Executor -> Nat \cup {NoCallback}]
      BY Zenon DEF Init
    <2>4. pending \in Seq(Nat) /\ done \in Seq(Nat)
      BY DEF Init
    <2>5. running \in BOOLEAN
      BY Zenon DEF Init
    <2>6. QED BY <2>1, <2>2, <2>3, <2>4, <2>5 DEF Types
  <1>2. /\ \A x \in Executor : pc[x] \in {"start", "up"}
        /\ pc[Main] = "up"
    BY SchedulerAssumption, Zenon DEF Init, Executor
  <1>3. Serial
    BY <1>2, Zenon DEF Init, Serial
  <1>4. Ordered
    <2>1. InFlight = 0
      BY <1>2, Zenon DEF InFlight
    <2>2. added = 0 /\ Len(done) = 0 /\ Len(pending) = 0 /\ DOMAIN done = {} /\ DOMAIN pending = {}
      BY DEF Init
    <2>3. QED BY <2>1, <2>2 DEF Ordered
  <1>5. Joined
    BY <1>2, SchedulerAssumption DEF Init, Joined
  <1>6. nThreadsServicingQueue = Cardinality(Servicing(pc))
    <2>1. Servicing(pc) = {}
      BY Zenon DEF Init, Servicing
    <2>2. nThreadsServicingQueue = 0
      BY Zenon DEF Init
    <2>3. QED BY <2>1, <2>2, FS_EmptySet
  <1>7. QED BY <1>1, <1>3, <1>4, <1>5, <1>6 DEF IInv

\* Every step of a thread, a producer, the clock or the shutdown preserves IInv.
LEMMA NextInv == IInv /\ [Next]_vars => IInv'
  <1> SUFFICES ASSUME IInv, [Next]_vars PROVE IInv'
    BY Zenon
  <1>1. ASSUME NEW t \in Thread, ThreadStep(t) PROVE IInv'
    <2>1. t \in Everyone /\ t \in Executor
      BY Zenon DEF Everyone, Executor
    <2>2. CASE Process(t)
      BY <2>1, <2>2, ProcessQueueInv, RunCallbackInv, FinishInv, ClientInv, Zenon DEF Process
    <2>3. QED BY <1>1, <2>2, ServiceInv DEF ThreadStep
  <1>2. ASSUME UNCHANGED <<pc, taskQueue, pending, running, callback, added, done, nThreadsServicingQueue>>,
               now' \in Nat
        PROVE  IInv'
    <2>1. Types' /\ Serial' /\ Joined'
      BY <1>2, Zenon DEF IInv, Types, Serial, Joined
    <2>2. Ordered'
      BY <1>2, Zenon DEF IInv, Ordered, InFlight
    <2>3. QED BY <1>2, <2>1, <2>2 DEF IInv, Servicing
  <1>3. now \in Nat
    BY Zenon DEF IInv, Types
  <1>4. CASE \E t \in Thread : SpuriousWakeUp(t)
    BY <1>2, <1>3, <1>4, Zenon DEF SpuriousWakeUp, client
  <1>5. CASE StopDraining
    BY <1>2, <1>3, <1>5, Zenon DEF StopDraining, client
  <1>6. CASE Tick
    BY <1>2, <1>3, <1>6 DEF Tick, service, client
  <1>7. CASE UNCHANGED vars
    BY <1>2, <1>3, <1>7, Zenon DEF vars
  <1>8. CASE \E p \in Producer : Produce(p) \/ ProducerStep(p)
    BY <1>8, ProducerInv, Zenon
  <1>9. CASE Interrupt \/ MainStep
    BY <1>9, ShutdownInv, Zenon
  <1>10. QED BY <1>1, <1>4, <1>5, <1>6, <1>7, <1>8, <1>9 DEF Next

\* IInv holds in every reachable state.
LEMMA AlwaysIInv == Spec => []IInv
  BY InitInv, NextInv, PTL DEF Spec

\* The shutdown ends only when every callback has run, the one of its own flush
\* included, for any number of threads, producers and callbacks.
THEOREM ShutdownMissesNothing == Spec => []NothingMissed
  <1>1. IInv => NothingMissed
    <2> SUFFICES ASSUME IInv, pc[Main] = "down" PROVE done = [i \in 1..added |-> i]
      BY Zenon DEF NothingMissed
    <2>1. pending = <<>> /\ \A t \in Thread : pc[t] = "exited"
      BY Zenon DEF IInv, Joined
    <2>2. InFlight = 0
      BY <2>1, Zenon DEF InFlight, Executor
    <2>3. done \in Seq(Nat) /\ added = Len(done) + 0 + 0
      BY <2>1, <2>2, Zenon DEF IInv, Types, Ordered
    <2>4. \A i \in DOMAIN done : done[i] = i
      BY Zenon DEF IInv, Ordered
    <2>5. QED BY <2>3, <2>4
  <1>2. QED BY <1>1, AlwaysIInv, PTL

\* While the main thread empties the queue, and after it has, the scheduler's own
\* threads have been joined and none of them services the queue.
ServicingAsserted ==
    pc[Main] \in {"ProcessQueue", "callback", "finish", "down"} => nThreadsServicingQueue = 0

\* The assertions on nThreadsServicingQueue in EmptyQueue and in the
\* destructor of CScheduler hold in every execution.
THEOREM AssertionsHold == Spec => []ServicingAsserted
  <1>1. IInv => ServicingAsserted
    <2> SUFFICES ASSUME IInv, pc[Main] \in {"ProcessQueue", "callback", "finish", "down"}
                 PROVE  nThreadsServicingQueue = 0
      BY Zenon DEF ServicingAsserted
    <2>1. \A t \in Thread : pc[t] = "exited"
      BY Zenon DEF IInv, Joined
    <2>2. Servicing(pc) = {}
      BY <2>1, Zenon DEF Servicing
    <2>3. QED BY <2>2, FS_EmptySet DEF IInv
  <1>2. QED BY <1>1, AlwaysIInv, PTL

-----------------------------------------------------------------------------
(* The steps of the client are those of CallbackQueue.                     *)

CurrentOf(c) == LET busy == {x \in Executor : c[x] # NoCallback}
                IN  IF busy = {} THEN NoCallback ELSE c[CHOOSE x \in busy : TRUE]

\* No executor has a callback.
LEMMA CurrentNone ==
    ASSUME NEW c, \A x \in Executor : c[x] = NoCallback
    PROVE  CurrentOf(c) = NoCallback
  BY Zenon DEF CurrentOf

\* One executor has a callback.
LEMMA CurrentOne ==
    ASSUME NEW c, NEW x \in Executor, c[x] # NoCallback,
           \A y \in Executor : y # x => c[y] = NoCallback
    PROVE  CurrentOf(c) = c[x]
  <1> DEFINE busy == {y \in Executor : c[y] # NoCallback}
  <1>1. busy = {x}
    BY Zenon
  <1>2. (CHOOSE y \in busy : TRUE) = x
    BY <1>1, Zenon
  <1>3. QED BY <1>1, <1>2 DEF CurrentOf

\* What a step may do to the callbacks.
LEMMA ClientEffect ==
    ASSUME IInv, [Next]_vars
    PROVE  \/ UNCHANGED <<pending, callback, done>>
           \/ \E x \in Executor : ProcessQueue(x) \/ RunCallback(x)
           \/ /\ added <= MaxCallbacks /\ pending' = Append(pending, added + 1)
              /\ UNCHANGED <<callback, done>>
  <1> DEFINE Same == UNCHANGED <<pending, callback, done>>
             Taken == \E x \in Executor : ProcessQueue(x) \/ RunCallback(x)
             More == added <= MaxCallbacks /\ pending' = Append(pending, added + 1)
                     /\ UNCHANGED <<callback, done>>
  <1> SUFFICES Same \/ Taken \/ More
    BY Zenon
  <1>1. ASSUME NEW x, ClientStep(x) PROVE Same
    BY <1>1, Zenon DEF ClientStep, MaybeSchedule, Schedule, Insert, NotifyScheduled, Notify,
       client
  <1>2. ASSUME NEW x \in Executor, Process(x)
        PROVE  Same \/ ProcessQueue(x) \/ RunCallback(x)
    BY <1>1, <1>2, Zenon DEF Process, ProcessNothing, Finish, client
  <1>3. ASSUME NEW t \in Thread, ThreadStep(t) \/ SpuriousWakeUp(t)
        PROVE  Same \/ Process(t)
    <2>1. ASSUME NEW n, Proceed(t, n) PROVE Same
      BY <2>1, Zenon DEF Proceed, client
    <2>2. CASE Enter(t) \/ Return(t) \/ WakeUp(t) \/ TimeoutInVain(t)
      BY <2>1, <2>2, Zenon DEF Enter, Return, WakeUp, TimeoutInVain
    <2>3. CASE Timeout(t) \/ Repeat(t) \/ SpuriousWakeUp(t)
      BY <2>3, Zenon DEF Timeout, Repeat, SpuriousWakeUp, Insert, client
    <2>4. QED BY <1>3, <2>2, <2>3 DEF ThreadStep
  <1>4. ASSUME NEW p \in Producer, Produce(p) \/ ProducerStep(p)
        PROVE  Same \/ More
    <2>1. CASE ProducerStep(p)
      BY <1>1, <2>1, Zenon DEF ProducerStep, Resume
    <2>2. CASE Produce(p)
      <3>1. added <= MaxCallbacks
        BY <2>2, SchedulerAssumption DEF Produce, IInv, Types
      <3>2. QED BY <2>2, <3>1 DEF Produce, Add
    <2>3. QED BY <1>4, <2>1, <2>2
  <1>5. ASSUME Interrupt \/ MainStep
        PROVE  Same \/ Process(Main) \/ More
    <2>1. CASE JoinLate
      <3>1. added <= MaxCallbacks
        BY <2>1, SchedulerAssumption DEF JoinLate, IInv, Types, Joined
      <3>2. QED BY <2>1, <3>1 DEF JoinLate, Add
    <2>2. CASE Interrupt \/ JoinProducers \/ Stop \/ JoinThreads \/ EmptyQueue
      BY <2>2, Zenon DEF Interrupt, JoinProducers, Stop, JoinThreads, EmptyQueue, client
    <2>3. QED BY <1>5, <2>1, <2>2 DEF MainStep
  <1>6. ASSUME StopDraining \/ Tick \/ UNCHANGED vars PROVE Same
    BY <1>6, Zenon DEF StopDraining, Tick, vars, client
  <1>7. Main \in Executor /\ Thread \subseteq Executor
    BY Zenon DEF Executor
  <1>8. \A x \in Executor : Process(x) => Same \/ Taken
    BY <1>2, Zenon
  <1> HIDE DEF Same, Taken, More
  <1>9. CASE \E t \in Thread : ThreadStep(t) \/ SpuriousWakeUp(t)
    <2>1. PICK t \in Thread : ThreadStep(t) \/ SpuriousWakeUp(t)
      BY <1>9, Zenon
    <2>2. Same \/ Process(t)
      BY <1>3, <2>1, Zenon
    <2>3. QED BY <1>7, <1>8, <2>2
  <1>10. CASE \E p \in Producer : Produce(p) \/ ProducerStep(p)
    BY <1>4, <1>10, Zenon
  <1>11. CASE Interrupt \/ MainStep
    BY <1>5, <1>7, <1>8, <1>11, Zenon
  <1>12. QED BY <1>6, <1>9, <1>10, <1>11 DEF Next

\* A step of the system is one of CallbackQueue, or leaves its state as it is.
LEMMA StepRefines == IInv /\ [Next]_vars => [Abstract!Next]_(Abstract!vars)
  <1> SUFFICES ASSUME IInv, [Next]_vars PROVE [Abstract!Next]_(Abstract!vars)
    BY Zenon
  <1>1. current = CurrentOf(callback) /\ current' = CurrentOf(callback')
    BY Zenon DEF current, CurrentOf
  <1>2. /\ callback \in [Executor -> Nat \cup {NoCallback}] /\ Len(done) \in Nat /\ added \in Nat
        /\ pending \in Seq(Nat) /\ Len(pending) \in Nat /\ MaxCallbacks \in Nat
    BY SchedulerAssumption DEF IInv, Types
  <1>3. ASSUME NEW n \in Nat, n + 1 <= added PROVE n + 1 # NoCallback
    <2>1. added <= MaxCallbacks + 1
      BY <1>2 DEF IInv, Joined
    <2>2. n + 1 \in 1..(MaxCallbacks + 1)
      BY <1>2, <1>3, <2>1
    <2>3. QED BY <2>2, SchedulerAssumption
  <1>4. CASE UNCHANGED <<pending, callback, done>>
    BY <1>1, <1>4, Zenon DEF Abstract!vars
  <1>5. ASSUME NEW x \in Executor, ProcessQueue(x) PROVE Abstract!Begin
    <2>1. /\ ~running /\ pending # <<>> /\ pending' = Tail(pending) /\ done' = done
          /\ callback' = [callback EXCEPT ![x] = Head(pending)]
      BY <1>5, Zenon DEF ProcessQueue
    <2>2. \A y \in Executor : pc[y] # "callback" /\ callback[y] = NoCallback
      BY <2>1, Zenon DEF IInv, Serial
    <2>3. current = NoCallback
      BY <1>1, <2>2, CurrentNone, Zenon
    <2>4. Head(pending) # NoCallback
      <3>1. InFlight = 0
        BY <2>2, Zenon DEF InFlight
      <3>2. 1 \in DOMAIN pending /\ Head(pending) = pending[1] /\ Len(pending) >= 1
        BY <1>2, <2>1
      <3>3. pending[1] = Len(done) + 0 + 1 /\ added = Len(done) + 0 + Len(pending)
        BY <3>1, <3>2, Zenon DEF IInv, Ordered
      <3>4. QED BY <1>2, <1>3, <3>2, <3>3
    <2>5. callback'[x] = Head(pending) /\ \A y \in Executor : y # x => callback'[y] = NoCallback
      BY <1>2, <2>1, <2>2, Zenon
    <2>6. current' = Head(pending)
      BY <1>1, <2>4, <2>5, CurrentOne, Zenon
    <2>7. QED BY <2>1, <2>3, <2>6 DEF Abstract!Begin
  <1>6. ASSUME NEW x \in Executor, RunCallback(x) PROVE Abstract!End
    <2>1. /\ pc[x] = "callback" /\ done' = Append(done, callback[x]) /\ pending' = pending
          /\ callback' = [callback EXCEPT ![x] = NoCallback]
      BY <1>6, Zenon DEF RunCallback
    <2>2. \A y \in Executor : y # x => callback[y] = NoCallback
      BY <2>1, Zenon DEF IInv, Serial
    <2>3. callback[x] # NoCallback
      <3>1. InFlight = 1
        BY <2>1, Zenon DEF InFlight
      <3>2. callback[x] = Len(done) + 1 /\ added = Len(done) + 1 + Len(pending)
        BY <2>1, <3>1, Zenon DEF IInv, Serial, Ordered
      <3>3. QED BY <1>2, <1>3, <3>2
    <2>4. current = callback[x]
      BY <1>1, <2>2, <2>3, CurrentOne, Zenon
    <2>5. \A y \in Executor : callback'[y] = NoCallback
      BY <1>2, <2>1, <2>2, Zenon
    <2>6. current' = NoCallback
      BY <1>1, <2>5, CurrentNone, Zenon
    <2>7. QED BY <2>1, <2>3, <2>4, <2>6 DEF Abstract!End
  <1>7. CASE added <= MaxCallbacks /\ pending' = Append(pending, added + 1) /\ UNCHANGED <<callback, done>>
    <2>1. added + 1 \in 1..(MaxCallbacks + 1)
      BY <1>2, <1>7
    <2>2. Abstract!Add(added + 1)
      BY <1>1, <1>7, Zenon DEF Abstract!Add
    <2>3. QED BY <2>1, <2>2 DEF Abstract!Next
  <1>8. QED BY <1>4, <1>5, <1>6, <1>7, ClientEffect DEF Abstract!Next

\* "Callbacks are executed serially", in the order of their addition and each once:
\* for any number of threads and producers, the safety part of ImplementsCallbackQueue.
THEOREM RefinesCallbackQueue == Spec => Abstract!Safety
  <1>1. Init => Abstract!Init
    <2> SUFFICES ASSUME Init PROVE Abstract!Init
      BY Zenon
    <2>1. \A x \in Executor : callback[x] = NoCallback
      BY Zenon DEF Init
    <2>2. current = NoCallback
      BY <2>1, CurrentNone, Zenon DEF current, CurrentOf
    <2>3. QED BY <2>2 DEF Init, Abstract!Init
  <1>2. QED BY <1>1, StepRefines, AlwaysIInv, PTL DEF Spec, Abstract!Safety

-----------------------------------------------------------------------------
(* Nothing is stranded.                                                    *)

Scheduled(q) == \E i \in DOMAIN q : q[i].f = "ProcessQueue"

OnTheWay(p) == \E x \in Everyone : p[x] \in {"ProcessQueue", "MaybeSchedule", "schedule"}

Awaited == pending # <<>> /\ ~running /\ ~stopRequested

\* Insertion keeps a scheduled ProcessQueue, and only running it takes it away.
LEMMA ScheduledKept ==
    ASSUME NEW q \in Seq(Task), NEW task \in Task
    PROVE  /\ Scheduled(q) => Scheduled(Inserted(q, task))
           /\ task.f = "ProcessQueue" => Scheduled(Inserted(q, task))
           /\ q # <<>> /\ Scheduled(q) => Scheduled(Tail(q)) \/ Head(q).f = "ProcessQueue"
  <1> DEFINE r == Inserted(q, task)
  <1>0. /\ \E j \in DOMAIN r : r[j] = task
        /\ \A i \in DOMAIN q : \E j \in DOMAIN r : r[j] = q[i]
    BY InsertedTask, Zenon
  <1> HIDE DEF r
  <1>1. Scheduled(q) => Scheduled(r)
    BY <1>0, Zenon DEF Scheduled
  <1>2. task.f = "ProcessQueue" => Scheduled(r)
    BY <1>0, Zenon DEF Scheduled
  <1>3. ASSUME q # <<>>, NEW i \in DOMAIN q, q[i].f = "ProcessQueue", Head(q).f # "ProcessQueue"
        PROVE  Scheduled(Tail(q))
    <2>1. Len(q) \in Nat /\ i \in 1..Len(q) /\ Head(q) = q[1] /\ Len(Tail(q)) = Len(q) - 1
          /\ \A j \in 1..(Len(q) - 1) : Tail(q)[j] = q[j + 1]
      BY <1>3
    <2>2. i # 1
      BY <1>3, <2>1, Zenon
    <2>3. i - 1 \in 1..(Len(q) - 1) /\ (i - 1) + 1 = i
      BY <2>1, <2>2
    <2>4. i - 1 \in DOMAIN Tail(q) /\ Tail(q)[i - 1] = q[i]
      BY <1>3, <2>1, <2>3
    <2>5. QED BY <1>3, <2>4 DEF Scheduled
  <1>4. q # <<>> /\ Scheduled(q) => Scheduled(Tail(q)) \/ Head(q).f = "ProcessQueue"
    BY <1>3, Zenon DEF Scheduled
  <1>5. QED BY <1>1, <1>2, <1>4 DEF r

\* Whoever is awaited before a step is awaited after it, unless the step is the
\* end of a callback or an addition, and then its own actor is on the way.
LEMMA NextStranded ==
    ASSUME IInv, NeverStranded, [Next]_vars
    PROVE  NeverStranded'
  <1> DEFINE G == Scheduled(taskQueue') \/ OnTheWay(pc')
             Others(x) == \A y \in Everyone : y # x => pc'[y] = pc[y]
  <1>1. pc \in [Everyone -> Pc] /\ taskQueue \in Seq(Task) /\ now \in Nat /\ DOMAIN pc = Everyone
    BY Zenon DEF IInv, Types
  <1>2. DOMAIN pc' = Everyone
    BY NextInv, Zenon DEF IInv, Types
  <1>3. Awaited => Scheduled(taskQueue) \/ OnTheWay(pc)
    BY <1>1, Zenon DEF NeverStranded, Awaited, Scheduled, OnTheWay
  <1>4. SUFFICES ASSUME Awaited' PROVE G
    BY <1>2, Zenon DEF NeverStranded, Awaited, Scheduled, OnTheWay
  <1> HIDE DEF G
  <1>5. pending' # <<>> /\ ~running' /\ ~stopRequested'
    BY <1>4, Zenon DEF Awaited
  \* The step neither adds a callback nor ends one, and its actor was not on the way.
  <1>6. ASSUME UNCHANGED <<pending, running, stopRequested, taskQueue>>,
               NEW x \in Everyone, Others(x),
               pc[x] \notin {"ProcessQueue", "MaybeSchedule", "schedule"}
        PROVE  G
    <2>1. Scheduled(taskQueue) \/ OnTheWay(pc)
      BY <1>3, <1>5, <1>6, Zenon DEF Awaited
    <2>2. OnTheWay(pc) => OnTheWay(pc')
      BY <1>6, Zenon DEF OnTheWay
    <2>3. QED BY <1>6, <2>1, <2>2 DEF G
  <1>7. ASSUME NEW x \in Everyone, pc'[x] \in {"ProcessQueue", "MaybeSchedule", "schedule"}
        PROVE  G
    BY <1>7, Zenon DEF G, OnTheWay
  <1>8. ASSUME UNCHANGED <<pending, running, stopRequested, taskQueue, pc>> PROVE G
    BY <1>3, <1>5, <1>8, Zenon DEF Awaited, G
  <1>9. ASSUME NEW x \in Everyone, NEW f \in {"Repeat", "ProcessQueue"}, NEW time \in Nat,
               Insert(x, f, time, "notify"),
               f = "ProcessQueue" \/ pc[x] \notin {"ProcessQueue", "MaybeSchedule", "schedule"}
        PROVE  G
    <2>1. /\ taskQueue' = Inserted(taskQueue, [f |-> f, time |-> time])
          /\ pc' = [pc EXCEPT ![x] = "notify"]
          /\ UNCHANGED <<pending, running, stopRequested>>
      BY <1>9, Zenon DEF Insert, client
    <2>2. [f |-> f, time |-> time] \in Task /\ [f |-> f, time |-> time].f = f /\ "notify" \in Pc
      BY Zenon DEF Task, Pc
    <2>3. CASE f = "ProcessQueue"
      BY <1>1, <2>1, <2>2, <2>3, ScheduledKept, Zenon DEF G
    <2>4. CASE pc[x] \notin {"ProcessQueue", "MaybeSchedule", "schedule"}
      <3>1. Scheduled(taskQueue) \/ OnTheWay(pc)
        BY <1>3, <1>5, <2>1, Zenon DEF Awaited
      <3>2. OnTheWay(pc) => OnTheWay(pc')
        BY <1>1, <2>1, <2>4, Zenon DEF OnTheWay
      <3>3. QED BY <1>1, <2>1, <2>2, <3>1, <3>2, ScheduledKept DEF G
    <2>5. QED BY <1>9, <2>3, <2>4
  <1>10. ASSUME NEW x \in Everyone, ClientStep(x) PROVE G
    <2>1. CASE MaybeSchedule(x)
      <3>1. pending # <<>> /\ ~running
        BY <1>5, <2>1, Zenon DEF MaybeSchedule, client
      <3>2. pc'[x] = "schedule"
        BY <1>1, <2>1, <3>1, Zenon DEF MaybeSchedule
      <3>3. QED BY <1>7, <3>2
    <2>2. CASE Schedule(x)
      BY <1>1, <1>9, <2>2, Zenon DEF Schedule
    <2>3. CASE NotifyScheduled(x)
      <3>1. /\ pc[x] = "notify" /\ Others(x)
            /\ UNCHANGED <<pending, running, stopRequested, taskQueue>>
        BY <1>1, <2>3, Zenon DEF NotifyScheduled, Notify, client
      <3>2. QED BY <1>6, <3>1
    <2>4. QED BY <1>10, <2>1, <2>2, <2>3 DEF ClientStep
  <1>11. ASSUME NEW x \in Executor, Process(x) PROVE G
    <2>1. x \in Everyone
      BY Zenon DEF Executor, Everyone
    <2>2. CASE ProcessQueue(x)
      BY <1>5, <2>2, Zenon DEF ProcessQueue
    <2>3. CASE ProcessNothing(x)
      BY <1>5, <2>3, Zenon DEF ProcessNothing, client
    <2>4. CASE RunCallback(x)
      <3>1. running
        BY <2>4, Zenon DEF RunCallback, IInv, Serial
      <3>2. QED BY <1>5, <2>4, <3>1 DEF RunCallback
    <2>5. CASE Finish(x)
      <3>1. pc'[x] = "MaybeSchedule"
        BY <1>1, <2>1, <2>5, Zenon DEF Finish
      <3>2. QED BY <1>7, <2>1, <3>1
    <2>6. QED BY <1>10, <1>11, <2>1, <2>2, <2>3, <2>4, <2>5 DEF Process
  <1>12. ASSUME NEW t \in Thread, NEW n, Proceed(t, n),
                pc[t] \notin {"ProcessQueue", "MaybeSchedule", "schedule"}
         PROVE  G
    <2>1. Others(t) /\ UNCHANGED <<pending, running, stopRequested, taskQueue>>
      BY <1>1, <1>12, Zenon DEF Proceed, client
    <2>2. t \in Everyone
      BY Zenon DEF Everyone
    <2>3. QED BY <1>6, <1>12, <2>1, <2>2
  <1>13. ASSUME NEW t \in Thread, Timeout(t) PROVE G
    <2>1. /\ pc[t] = "wait_until" /\ taskQueue # <<>> /\ taskQueue' = Tail(taskQueue)
          /\ pc' = [pc EXCEPT ![t] = Head(taskQueue).f]
          /\ UNCHANGED <<pending, running, stopRequested>>
      BY <1>13, Zenon DEF Timeout, client
    <2>2. t \in Everyone
      BY Zenon DEF Everyone
    <2> DEFINE first == Head(taskQueue)
    <2>0. first \in Task
      BY <1>1, <2>1
    <2> HIDE DEF first
    <2>9. first.f \in {"Repeat", "ProcessQueue"} /\ pc'[t] = first.f /\ Others(t)
      BY <1>1, <2>0, <2>1, <2>2, Zenon DEF Task, first
    <2>3. CASE first.f = "ProcessQueue"
      BY <1>7, <2>2, <2>3, <2>9, Zenon
    <2>4. CASE first.f = "Repeat"
      <3>1. Scheduled(taskQueue) \/ OnTheWay(pc)
        BY <1>3, <1>5, <2>1, Zenon DEF Awaited
      <3>2. Scheduled(taskQueue) => Scheduled(taskQueue')
        BY <1>1, <2>0, <2>1, <2>4, ScheduledKept, Zenon DEF first
      <3>3. OnTheWay(pc) => OnTheWay(pc')
        BY <2>1, <2>9, Zenon DEF OnTheWay
      <3>4. QED BY <3>1, <3>2, <3>3 DEF G
    <2>5. QED BY <2>3, <2>4, <2>9
  <1>14. ASSUME NEW t \in Thread, Repeat(t) PROVE G
    <2>1. t \in Everyone /\ pc[t] = "Repeat" /\ now + Period \in Nat
      BY <1>1, <1>14, SchedulerAssumption DEF Everyone, Repeat
    <2>2. CASE Insert(t, "Repeat", now + Period, "notify")
      BY <1>9, <2>1, <2>2, Zenon
    <2>3. CASE pc' = [pc EXCEPT ![t] = "return"] /\ UNCHANGED <<now, service, client>>
      <3>1. Others(t) /\ UNCHANGED <<pending, running, stopRequested, taskQueue>>
        BY <1>1, <2>3, Zenon DEF service, client
      <3>2. QED BY <1>6, <2>1, <3>1
    <2>4. QED BY <1>14, <2>2, <2>3 DEF Repeat
  <1>15. CASE \E t \in Thread : ThreadStep(t) \/ SpuriousWakeUp(t)
    <2>1. PICK t \in Thread : ThreadStep(t) \/ SpuriousWakeUp(t)
      BY <1>15, Zenon
    <2>2. t \in Executor
      BY Zenon DEF Executor
    <2>3. CASE SpuriousWakeUp(t)
      BY <1>8, <2>3, Zenon DEF SpuriousWakeUp, client
    <2>4. CASE Enter(t) \/ Return(t) \/ WakeUp(t) \/ TimeoutInVain(t)
      BY <1>12, <2>4, Zenon DEF Enter, Return, WakeUp, TimeoutInVain
    <2>5. QED BY <1>11, <1>13, <1>14, <2>1, <2>2, <2>3, <2>4 DEF ThreadStep
  <1>16. CASE \E p \in Producer : Produce(p) \/ ProducerStep(p)
    <2>1. PICK p \in Producer : Produce(p) \/ ProducerStep(p)
      BY <1>16, Zenon
    <2>2. p \in Everyone
      BY Zenon DEF Everyone
    <2>3. CASE Produce(p)
      <3>1. pc'[p] = "MaybeSchedule"
        BY <1>1, <2>2, <2>3, Zenon DEF Produce, Add
      <3>2. QED BY <1>7, <2>2, <3>1
    <2>4. CASE Resume(p)
      <3>1. pc[p] = "return" /\ Others(p) /\ UNCHANGED <<pending, running, stopRequested, taskQueue>>
        BY <1>1, <2>4, Zenon DEF Resume, service
      <3>2. QED BY <1>6, <2>2, <3>1
    <2>5. QED BY <1>10, <2>1, <2>2, <2>3, <2>4 DEF ProducerStep
  <1>17. CASE Interrupt \/ MainStep
    <2>1. Main \in Everyone /\ Main \in Executor
      BY Zenon DEF Everyone, Executor
    <2>2. CASE JoinLate
      <3>1. pc'[Main] = "MaybeSchedule"
        BY <1>1, <2>1, <2>2, Zenon DEF JoinLate, Add
      <3>2. QED BY <1>7, <2>1, <3>1
    <2>3. CASE Interrupt \/ Stop
      BY <1>5, <2>3, Zenon DEF Interrupt, Stop
    <2>4. CASE JoinProducers \/ JoinThreads
      <3>1. /\ pc[Main] \in {"interrupted", "join"}
            /\ Others(Main) /\ UNCHANGED <<pending, running, stopRequested, taskQueue>>
        BY <1>1, <2>4, Zenon DEF JoinProducers, JoinThreads, MainGoes, service, client
      <3>2. QED BY <1>6, <2>1, <3>1
    <2>5. CASE EmptyQueue
      <3>1. pending # <<>>
        BY <1>5, <2>5, Zenon DEF EmptyQueue, client
      <3>2. pc'[Main] = "ProcessQueue"
        BY <1>1, <2>1, <2>5, <3>1, Zenon DEF EmptyQueue, MainGoes
      <3>3. QED BY <1>7, <2>1, <3>2
    <2>6. QED BY <1>11, <1>17, <2>1, <2>2, <2>3, <2>4, <2>5 DEF MainStep
  <1>18. CASE StopDraining \/ Tick \/ UNCHANGED vars
    BY <1>8, <1>18, Zenon DEF StopDraining, Tick, vars, service, client
  <1>19. QED BY <1>15, <1>16, <1>17, <1>18 DEF Next

\* As long as the scheduler is not stopped, callbacks that are pending while none runs
\* have somebody on the way to process them, for any number of threads and producers.
THEOREM NothingStranded == Spec => []NeverStranded
  <1>1. Init => NeverStranded
    BY Zenon DEF Init, NeverStranded
  <1>2. QED BY <1>1, NextStranded, AlwaysIInv, PTL DEF Spec
=============================================================================
