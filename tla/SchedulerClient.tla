--------------------------- MODULE SchedulerClient ---------------------------
(***************************************************************************)
(* CScheduler and, on top of it, SingleThreadedSchedulerClient             *)
(* (scheduler.cpp), through which validationinterface.cpp delivers its     *)
(* notifications, with the steps of Shutdown (init.cpp) that concern them. *)
(* A step is a critical section of newTaskMutex or of                      *)
(* m_cs_callbacks_pending, a notification, or a callback.                  *)
(***************************************************************************)
EXTENDS Integers, Sequences, FiniteSets

CONSTANTS
    Thread,        \* threads in serviceQueue
    Producer,      \* threads that add callbacks
    Main,          \* the thread that shuts down
    Period,        \* of the function given to scheduleEvery
    MaxCallbacks,  \* bound: callbacks added while the node runs
    MaxTime,       \* bound: ticks of the clock
    Draining,      \* whether stop(drain = true) is called
    NoCallback

ASSUME SchedulerAssumption ==
    /\ Main \notin Thread \cup Producer /\ Thread \cap Producer = {}
    /\ {Period, MaxCallbacks, MaxTime} \subseteq Nat
    /\ Draining \in BOOLEAN
    /\ NoCallback \notin 1..(MaxCallbacks + 1)
    /\ IsFiniteSet(Thread)

VARIABLES
    now,
    taskQueue,      \* tasks in the order of their time: [f, time]
    stopRequested, stopWhenEmpty, nThreadsServicingQueue,
    pending,        \* m_callbacks_pending
    running,        \* m_are_callbacks_running
    pc,
    deadline,       \* thread -> the time it waits until
    callback,       \* thread or Main -> the callback it has taken
    awaits,         \* producer -> the callback whose promise it waits for
    late,           \* producers that are joined after the scheduler: import_thread, if it runs
    woken,          \* threads that newTaskScheduled has notified
    added, done,    \* callbacks added and callbacks run
    early           \* ghost: whether a task was begun before its time

vars == <<now, taskQueue, stopRequested, stopWhenEmpty, nThreadsServicingQueue, pending,
          running, pc, deadline, callback, awaits, late, woken, added, done, early>>

service == <<taskQueue, stopRequested, stopWhenEmpty, nThreadsServicingQueue, deadline, woken, early>>
client  == <<pending, running, callback, awaits, late, added, done>>

-----------------------------------------------------------------------------
(* CScheduler                                                              *)

\* Mutant of ShouldStop: whoever stops waits for the queue to be empty.
ShouldStopWhenEmpty == (stopRequested \/ stopWhenEmpty) /\ taskQueue = <<>>

ShouldStop == stopRequested \/ (stopWhenEmpty /\ taskQueue = <<>>)

\* std::multimap::insert: behind the tasks of the same time.
Inserted(q, task) ==
    LET n == Cardinality({i \in DOMAIN q : q[i].time <= task.time})
    IN  SubSeq(q, 1, n) \o <<task>> \o SubSeq(q, n + 1, Len(q))

Waiting == {t \in Thread : pc[t] \in {"wait", "wait_until"}} \ woken

\* newTaskScheduled.notify_one, given the threads already woken.
NotifyOne == IF Waiting = {} THEN {woken} ELSE {woken \cup {t} : t \in Waiting}

NotifyAll == woken' = woken \cup Waiting

\* schedule: the insertion, and after the mutex is released the notification.
Insert(x, f, time, after) ==
    /\ taskQueue' = Inserted(taskQueue, [f |-> f, time |-> time])
    /\ pc' = [pc EXCEPT ![x] = after]
    /\ UNCHANGED <<now, stopRequested, stopWhenEmpty, nThreadsServicingQueue, deadline, woken,
                   early, client>>

Notify(x, after) ==
    /\ woken' \in NotifyOne
    /\ pc' = [pc EXCEPT ![x] = after]
    /\ UNCHANGED <<now, taskQueue, stopRequested, stopWhenEmpty, nThreadsServicingQueue,
                   deadline, early, client>>

\* The head of serviceQueue's loop, with the mutex: leave, wait for a task, or
\* wait for the time of the first one.
Proceed(t, n) ==
    /\ pc' = [pc EXCEPT ![t] = IF ShouldStop THEN "exited"
                               ELSE IF taskQueue = <<>> THEN "wait" ELSE "wait_until"]
    /\ nThreadsServicingQueue' = IF ShouldStop THEN n - 1 ELSE n
    /\ woken' \in {w \ {t} : w \in IF ShouldStop THEN NotifyOne ELSE {woken}}
    /\ deadline' = [deadline EXCEPT ![t] = IF ShouldStop \/ taskQueue = <<>> THEN 0
                                           ELSE Head(taskQueue).time]
    /\ UNCHANGED <<now, taskQueue, stopRequested, stopWhenEmpty, early, client>>

Enter(t) ==
    /\ pc[t] = "start"
    /\ Proceed(t, nThreadsServicingQueue + 1)

Return(t) ==
    /\ pc[t] = "return"
    /\ Proceed(t, nThreadsServicingQueue)

\* wait or wait_until returns because of a notification, before the time.
WakeUp(t) ==
    /\ t \in woken
    /\ pc[t] = "wait" \/ (pc[t] = "wait_until" /\ now < deadline[t])
    /\ Proceed(t, nThreadsServicingQueue)

SpuriousWakeUp(t) ==
    /\ t \in Waiting
    /\ woken' = woken \cup {t}
    /\ UNCHANGED <<now, taskQueue, stopRequested, stopWhenEmpty, nThreadsServicingQueue, pc,
                   deadline, early, client>>

\* wait_until returns because of the time, and there is a task to run.
Timeout(t) ==
    /\ pc[t] = "wait_until"
    /\ now >= deadline[t]
    /\ ~ShouldStop /\ taskQueue # <<>>
    /\ taskQueue' = Tail(taskQueue)
    /\ early' = (early \/ Head(taskQueue).time > now)
    /\ pc' = [pc EXCEPT ![t] = Head(taskQueue).f]
    /\ woken' = woken \ {t}
    /\ deadline' = [deadline EXCEPT ![t] = 0]
    /\ UNCHANGED <<now, stopRequested, stopWhenEmpty, nThreadsServicingQueue, client>>

\* It returns because of the time, but another thread has taken the task.
TimeoutInVain(t) ==
    /\ pc[t] = "wait_until"
    /\ now >= deadline[t]
    /\ ShouldStop \/ taskQueue = <<>>
    /\ Proceed(t, nThreadsServicingQueue)

\* Repeat: the predicate of scheduleEvery is called, and asks for another call or not.
Repeat(t) ==
    /\ pc[t] = "Repeat"
    /\ \/ Insert(t, "Repeat", now + Period, "notify")
       \/ /\ pc' = [pc EXCEPT ![t] = "return"]
          /\ UNCHANGED <<now, service, client>>

Tick ==
    /\ now < MaxTime
    /\ now' = now + 1
    /\ UNCHANGED <<service, pc, client>>

-----------------------------------------------------------------------------
(* SingleThreadedSchedulerClient.  The caller x is a thread, a producer    *)
(* or, in EmptyQueue, the thread that shuts down.                          *)

Executor == Thread \cup {Main}

\* Mutant of ProcessQueue: the flag is not looked at.
ProcessQueueUnguarded(x) ==
    /\ pc[x] = "ProcessQueue"
    /\ pending # <<>>
    /\ running' = TRUE
    /\ callback' = [callback EXCEPT ![x] = Head(pending)]
    /\ pending' = Tail(pending)
    /\ pc' = [pc EXCEPT ![x] = "callback"]
    /\ UNCHANGED <<now, service, awaits, late, added, done>>

ProcessQueue(x) ==
    /\ pc[x] = "ProcessQueue"
    /\ ~running /\ pending # <<>>
    /\ running' = TRUE
    /\ callback' = [callback EXCEPT ![x] = Head(pending)]
    /\ pending' = Tail(pending)
    /\ pc' = [pc EXCEPT ![x] = "callback"]
    /\ UNCHANGED <<now, service, awaits, late, added, done>>

ProcessNothing(x) ==
    /\ pc[x] = "ProcessQueue"
    /\ running \/ pending = <<>>
    /\ pc' = [pc EXCEPT ![x] = "return"]
    /\ UNCHANGED <<now, service, client>>

RunCallback(x) ==
    /\ pc[x] = "callback"
    /\ done' = Append(done, callback[x])
    /\ callback' = [callback EXCEPT ![x] = NoCallback]
    /\ pc' = [pc EXCEPT ![x] = "finish"]
    /\ UNCHANGED <<now, service, pending, running, awaits, late, added>>

\* ~RAIICallbacksRunning
Finish(x) ==
    /\ pc[x] = "finish"
    /\ running' = FALSE
    /\ pc' = [pc EXCEPT ![x] = "MaybeSchedule"]
    /\ UNCHANGED <<now, service, pending, callback, awaits, late, added, done>>

\* Mutant of MaybeSchedule: a queue of one is taken care of by whoever added to it.
MaybeScheduleLazily(x) ==
    /\ pc[x] = "MaybeSchedule"
    /\ pc' = [pc EXCEPT ![x] = IF running \/ Len(pending) < 2 THEN "return" ELSE "schedule"]
    /\ UNCHANGED <<now, service, client>>

MaybeSchedule(x) ==
    /\ pc[x] = "MaybeSchedule"
    /\ pc' = [pc EXCEPT ![x] = IF running \/ pending = <<>> THEN "return" ELSE "schedule"]
    /\ UNCHANGED <<now, service, client>>

Schedule(x) ==
    /\ pc[x] = "schedule"
    /\ Insert(x, "ProcessQueue", now, "notify")

NotifyScheduled(x) ==
    /\ pc[x] = "notify"
    /\ Notify(x, "return")

\* AddToProcessQueue and, with sync, SyncWithValidationInterfaceQueue.
Add(x, sync) ==
    /\ added' = added + 1
    /\ pending' = Append(pending, added + 1)
    /\ awaits' = IF sync THEN [awaits EXCEPT ![x] = added + 1] ELSE awaits
    /\ pc' = [pc EXCEPT ![x] = "MaybeSchedule"]
    /\ UNCHANGED <<now, service, running, callback, late, done>>

\* A producer is at work until Shutdown has joined it.
AtWork(p) ==
    pc[Main] \in {"up", "interrupted"} \cup IF p \in late THEN {"stop", "join", "join_late"} ELSE {}

Produce(p) ==
    /\ pc[p] = "idle"
    /\ added < MaxCallbacks
    /\ AtWork(p) /\ ~stopWhenEmpty
    /\ \E sync \in BOOLEAN : Add(p, sync)

\* The producer's call returns: once its callback has run, if it waits for one.
Resume(p) ==
    /\ pc[p] = "return"
    /\ awaits[p] = NoCallback \/ \E i \in DOMAIN done : done[i] = awaits[p]
    /\ awaits' = [awaits EXCEPT ![p] = NoCallback]
    /\ pc' = [pc EXCEPT ![p] = "idle"]
    /\ UNCHANGED <<now, service, pending, running, callback, late, added, done>>

-----------------------------------------------------------------------------
(* The end: Interrupt and Shutdown.                                        *)

MainGoes(to) == pc' = [pc EXCEPT ![Main] = to]

\* stop(drain = true), once everything is scheduled.
StopDraining ==
    /\ Draining
    /\ pc[Main] = "up" /\ ~stopWhenEmpty
    /\ \A p \in Producer : pc[p] = "idle"
    /\ stopWhenEmpty' = TRUE
    /\ NotifyAll
    /\ UNCHANGED <<now, taskQueue, stopRequested, nThreadsServicingQueue, deadline, early, pc, client>>

\* CScheduler::interrupt; the notification follows on the critical section, and whoever
\* comes to wait in between has seen the flag.
Interrupt ==
    /\ pc[Main] = "up"
    /\ stopRequested' = TRUE
    /\ NotifyAll
    /\ MainGoes("interrupted")
    /\ UNCHANGED <<now, taskQueue, stopWhenEmpty, nThreadsServicingQueue, deadline, early, client>>

\* StopHTTPServer and CConnman::Stop join the threads that add callbacks, but for the
\* one that imports blocks.
JoinProducers ==
    /\ pc[Main] = "interrupted"
    /\ \A p \in Producer \ late : pc[p] = "idle"
    /\ MainGoes("stop")
    /\ UNCHANGED <<now, service, client>>

Stop ==
    /\ pc[Main] = "stop"
    /\ stopRequested' = TRUE
    /\ NotifyAll
    /\ MainGoes("join")
    /\ UNCHANGED <<now, taskQueue, stopWhenEmpty, nThreadsServicingQueue, deadline, early, client>>

JoinThreads ==
    /\ pc[Main] = "join"
    /\ \A t \in Thread : pc[t] = "exited"
    /\ MainGoes("join_late")
    /\ UNCHANGED <<now, service, client>>

\* The last thread is joined; FlushStateToDisk then adds ChainStateFlushed.
JoinLate ==
    /\ pc[Main] = "join_late"
    /\ \A p \in late : pc[p] = "idle"
    /\ Add(Main, FALSE)

\* Mutant of EmptyQueue: one callback is enough.
EmptyQueueOnce ==
    /\ pc[Main] = "return"
    /\ MainGoes(IF callback[Main] = NoCallback /\ done # <<>> THEN "down" ELSE "ProcessQueue")
    /\ UNCHANGED <<now, service, client>>

\* FlushBackgroundCallbacks: ProcessQueue until nothing is pending.
EmptyQueue ==
    /\ pc[Main] = "return"
    /\ MainGoes(IF pending = <<>> THEN "down" ELSE "ProcessQueue")
    /\ UNCHANGED <<now, service, client>>

-----------------------------------------------------------------------------

Init ==
    /\ now = 0
    /\ taskQueue = <<[f |-> "Repeat", time |-> Period]>>
    /\ stopRequested = FALSE /\ stopWhenEmpty = FALSE
    /\ nThreadsServicingQueue = 0
    /\ pending = <<>> /\ running = FALSE
    /\ pc = [x \in Thread \cup Producer \cup {Main} |->
                IF x \in Thread THEN "start" ELSE IF x = Main THEN "up" ELSE "idle"]
    /\ deadline = [t \in Thread |-> 0]
    /\ callback = [x \in Executor |-> NoCallback]
    /\ awaits = [p \in Producer |-> NoCallback]
    /\ late \in SUBSET Producer
    /\ woken = {}
    /\ added = 0 /\ done = <<>>
    /\ early = FALSE

ClientStep(x) == MaybeSchedule(x) \/ Schedule(x) \/ NotifyScheduled(x)

Process(x) == ProcessQueue(x) \/ ProcessNothing(x) \/ RunCallback(x) \/ Finish(x) \/ ClientStep(x)

ThreadStep(t) ==
    \/ Enter(t) \/ Return(t) \/ WakeUp(t) \/ Timeout(t) \/ TimeoutInVain(t)
    \/ Repeat(t)
    \/ Process(t)

ProducerStep(p) == ClientStep(p) \/ Resume(p)

MainStep == JoinProducers \/ Stop \/ JoinThreads \/ JoinLate \/ EmptyQueue \/ Process(Main)

Next ==
    \/ \E t \in Thread : ThreadStep(t) \/ SpuriousWakeUp(t)
    \/ \E p \in Producer : Produce(p) \/ ProducerStep(p)
    \/ StopDraining \/ Interrupt \/ MainStep
    \/ Tick

Spec == Init /\ [][Next]_vars

\* Threads are scheduled, time goes on, and a shutdown that has begun goes on.
FairSpec ==
    /\ Spec
    /\ \A t \in Thread : WF_vars(ThreadStep(t))
    /\ \A p \in Producer : WF_vars(ProducerStep(p))
    /\ WF_vars(MainStep)
    /\ WF_vars(Tick)

-----------------------------------------------------------------------------

Pc == {"start", "wait", "wait_until", "Repeat", "ProcessQueue", "callback", "finish",
       "MaybeSchedule", "schedule", "notify", "return", "exited", "idle",
       "up", "interrupted", "stop", "join", "join_late", "down"}

\* The state has its types, the counter is that of the threads in serviceQueue
\* (asserted to be 0 by EmptyQueue and by ~CScheduler), and the flag is set exactly
\* while somebody is between taking a callback and the end of ProcessQueue.
TypeOK ==
    /\ now \in 0..MaxTime
    /\ \A i \in DOMAIN taskQueue : taskQueue[i] \in [f : {"Repeat", "ProcessQueue"}, time : Nat]
    /\ {stopRequested, stopWhenEmpty, running, early} \subseteq BOOLEAN
    /\ pc \in [Thread \cup Producer \cup {Main} -> Pc]
    /\ nThreadsServicingQueue = Cardinality({t \in Thread : pc[t] \notin {"start", "exited"}})
    /\ woken \subseteq Thread
    /\ pc[Main] \in {"ProcessQueue", "callback", "down"} => nThreadsServicingQueue = 0
    /\ running <=> \E x \in Executor : pc[x] \in {"callback", "finish"}

current == LET busy == {x \in Executor : callback[x] # NoCallback}
           IN  IF busy = {} THEN NoCallback ELSE callback[CHOOSE x \in busy : TRUE]

Abstract == INSTANCE CallbackQueue WITH Callback <- 1..(MaxCallbacks + 1), queue <- pending

\* A producer waits for a callback that nobody will run any more: the threads have
\* left serviceQueue, and the main thread is to join the producer before it empties
\* the queue.
Hung ==
    /\ \A t \in Thread : pc[t] = "exited"
    /\ \E p \in Producer : awaits[p] \in {pending[i] : i \in DOMAIN pending}

\* "Callbacks are executed serially", in the order in which they were added, each
\* once (scheduler.h), whatever the number of threads; and each is executed, unless
\* the shutdown hangs.
ImplementsCallbackQueue == Abstract!Safety /\ (Abstract!Fairness \/ <>Hung)

\* As long as the scheduler is not stopped, callbacks that are pending while none
\* runs have somebody on the way to process them.
NeverStranded ==
    pending # <<>> /\ ~running /\ ~stopRequested =>
        \/ \E i \in DOMAIN taskQueue : taskQueue[i].f = "ProcessQueue"
        \/ \E x \in DOMAIN pc : pc[x] \in {"ProcessQueue", "MaybeSchedule", "schedule"}

\* Shutdown ends only when every callback has run, that of its own flush included
\* ("a ChainStateFlushed callback, which we should avoid missing", init.cpp).
NothingMissed == pc[Main] = "down" => done = [i \in 1..added |-> i]

\* SyncWithValidationInterfaceQueue returns, unless the scheduler is interrupted while
\* the caller waits or before it does (validationinterface.cpp:155-161).
SyncReturns == \A p \in Producer : awaits[p] # NoCallback ~> awaits[p] = NoCallback \/ stopRequested

\* A shutdown that has begun ends, whatever the threads are doing when Interrupt comes,
\* but for one case: Interrupt has sent the scheduler's threads away (init.cpp:167)
\* from a producer that waits for its callback, before it or after it, and whom
\* Shutdown then joins in vain.
ShutdownEnds == pc[Main] = "interrupted" ~> pc[Main] = "down" \/ Hung

\* The same without exception (Interrupt and Shutdown, init.cpp).
ShutdownAlwaysEnds == pc[Main] = "interrupted" ~> pc[Main] = "down"

\* "Call func at/after time t" (scheduler.h): no task is begun before its time.
NeverEarly == ~early

=============================================================================
