----------------------------- MODULE CheckQueue -----------------------------
(***************************************************************************)
(* CCheckQueue (checkqueue.h): the script checks of a block are queued by  *)
(* the thread that connects it, the master, and run by worker threads and, *)
(* once it waits, by the master itself.  A step is a critical section of   *)
(* the queue's mutex, or the work done between two of them.                *)
(***************************************************************************)
EXTENDS Integers, Sequences, FiniteSets

CONSTANTS
    Worker, Master,
    nBatchSize,
    MaxAdd,        \* bound: checks in one call of Add
    MaxChecks,     \* bound: unfinished checks
    MaxRounds      \* bound: blocks

ASSUME CheckQueueAssumption ==
    /\ Master \notin Worker /\ IsFiniteSet(Worker)
    /\ {nBatchSize, MaxAdd, MaxChecks} \subseteq Nat \ {0}

Thread == Worker \cup {Master}

VARIABLES
    queue,    \* outcomes of the queued checks, the last one on top
    nTodo, nIdle, nTotal, fAllOk, fQuit,
    pc,       \* thread -> "out", "enter", "work", "done", "wait" or "ready" (notified)
    batch,    \* thread -> vChecks
    fOk,      \* thread -> fOk
    round,    \* blocks begun
    phase,    \* the master: "idle", "add" or "loop"
    result,   \* what its last Wait returned
    expected, \* ghost: whether all checks of the round succeed
    notified  \* whether Interrupt has come to its notify_all

vars == <<queue, nTodo, nIdle, nTotal, fAllOk, fQuit, pc, batch, fOk, round, phase,
          result, expected, notified>>

master == <<round, phase, result, expected>>

-----------------------------------------------------------------------------

AllTrue(s) == \A i \in DOMAIN s : s[i]

\* notify_all on condWorker; the predicate is evaluated by the woken thread.
NotifyWorkers(p) == [t \in Thread |-> IF t \in Worker /\ p[t] = "wait" THEN "ready" ELSE p[t]]

\* notify_one or notify_all on condMaster.
NotifyMaster(p) == IF p[Master] = "wait" THEN [p EXCEPT ![Master] = "ready"] ELSE p

\* notify_one on condWorker.
NotifyOne(p) ==
    LET waiting == {w \in Worker : p[w] = "wait"}
    IN  IF waiting = {} THEN {p} ELSE {[p EXCEPT ![w] = "ready"] : w \in waiting}

\* The condition to leave Loop; its negation, with an empty queue, is waited on.
Finished(t, todo) == (t = Master \/ fQuit) /\ todo = 0

\* The number of checks to take.
BatchSize(total, idle) ==
    LET share == Len(queue) \div (total + idle + 1)
        most  == IF share < nBatchSize THEN share ELSE nBatchSize
    IN  IF most > 1 THEN most ELSE 1

-----------------------------------------------------------------------------
(* Loop.  The three ways on from the head of the inner while, with the     *)
(* counters as the clean-up, or the return from wait, has left them.       *)

Take(t, allOk, total, idle, p) ==
    LET n == BatchSize(total, idle)
    IN  /\ queue # <<>>
        /\ batch' = [batch EXCEPT ![t] = [i \in 1..n |-> queue[Len(queue) - i + 1]]]
        /\ queue' = SubSeq(queue, 1, Len(queue) - n)
        /\ fOk' = [fOk EXCEPT ![t] = allOk]
        /\ pc' = [p EXCEPT ![t] = "work"]
        /\ nTotal' = total /\ nIdle' = idle /\ fAllOk' = allOk
        /\ UNCHANGED master

\* Mutant of Leave: the status is not reset for the next block.
LeaveKeepingStatus(t, todo, allOk, total, idle, p) ==
    /\ queue = <<>> /\ Finished(t, todo)
    /\ nTotal' = total - 1 /\ nIdle' = idle
    /\ fAllOk' = allOk
    /\ IF t = Master THEN result' = allOk /\ phase' = "idle" ELSE UNCHANGED <<result, phase>>
    /\ pc' = [p EXCEPT ![t] = "out"]
    /\ batch' = [batch EXCEPT ![t] = <<>>]
    /\ UNCHANGED <<queue, fOk, round, expected>>

Leave(t, todo, allOk, total, idle, p) ==
    /\ queue = <<>> /\ Finished(t, todo)
    /\ nTotal' = total - 1 /\ nIdle' = idle
    /\ fAllOk' = (t = Master \/ allOk)
    /\ IF t = Master THEN result' = allOk /\ phase' = "idle" ELSE UNCHANGED <<result, phase>>
    /\ pc' = [p EXCEPT ![t] = "out"]
    /\ batch' = [batch EXCEPT ![t] = <<>>]
    /\ UNCHANGED <<queue, fOk, round, expected>>

Sleep(t, todo, allOk, total, idle, p) ==
    /\ queue = <<>> /\ ~Finished(t, todo)
    /\ nIdle' = idle + 1
    /\ nTotal' = total /\ fAllOk' = allOk
    /\ pc' = [p EXCEPT ![t] = "wait"]
    /\ batch' = [batch EXCEPT ![t] = <<>>]
    /\ UNCHANGED <<queue, fOk, master>>

Proceed(t, todo, allOk, total, idle, p) ==
    /\ nTodo' = todo
    /\ \/ Take(t, allOk, total, idle, p)
       \/ Leave(t, todo, allOk, total, idle, p)
       \/ Sleep(t, todo, allOk, total, idle, p)
    /\ UNCHANGED <<fQuit, notified>>

\* The first iteration.
Enter(t) ==
    /\ pc[t] = "enter"
    /\ Proceed(t, nTodo, fAllOk, nTotal + 1, nIdle, pc)

\* Mutant of CleanUp: the master is not told of the last check.
CleanUpSilently(t) ==
    /\ pc[t] = "done"
    /\ Proceed(t, nTodo - Len(batch[t]), fAllOk /\ fOk[t], nTotal, nIdle, pc)

\* A later iteration, after the batch is executed.
CleanUp(t) ==
    LET todo == nTodo - Len(batch[t])
    IN  /\ pc[t] = "done"
        /\ Proceed(t, todo, fAllOk /\ fOk[t], nTotal, nIdle,
                   IF todo = 0 /\ t # Master THEN NotifyMaster(pc) ELSE pc)

\* A notified thread has the mutex again and its predicate holds.
WakeUp(t) ==
    /\ pc[t] = "ready"
    /\ queue # <<>> \/ Finished(t, nTodo)
    /\ Proceed(t, nTodo, fAllOk, nTotal, nIdle - 1, pc)

\* Its predicate does not hold: cond.wait goes on waiting.
WaitAgain(t) ==
    /\ pc[t] = "ready"
    /\ queue = <<>> /\ ~Finished(t, nTodo)
    /\ pc' = [pc EXCEPT ![t] = "wait"]
    /\ UNCHANGED <<queue, nTodo, nIdle, nTotal, fAllOk, fQuit, batch, fOk, master, notified>>

\* Outside the mutex: the checks, until one fails.
Execute(t) ==
    /\ pc[t] = "work"
    /\ fOk' = [fOk EXCEPT ![t] = fOk[t] /\ AllTrue(batch[t])]
    /\ pc' = [pc EXCEPT ![t] = "done"]
    /\ UNCHANGED <<queue, nTodo, nIdle, nTotal, fAllOk, fQuit, batch, master, notified>>

SpuriousWakeUp(t) ==
    /\ pc[t] = "wait"
    /\ pc' = [pc EXCEPT ![t] = "ready"]
    /\ UNCHANGED <<queue, nTodo, nIdle, nTotal, fAllOk, fQuit, batch, fOk, master, notified>>

-----------------------------------------------------------------------------
(* The master, and the shutdown.                                           *)

\* ConnectBlock creates its CCheckQueueControl.
Begin ==
    /\ phase = "idle"
    /\ round < MaxRounds
    /\ phase' = "add" /\ round' = round + 1 /\ expected' = TRUE
    /\ UNCHANGED <<queue, nTodo, nIdle, nTotal, fAllOk, fQuit, pc, batch, fOk, result, notified>>

Add(checks) ==
    /\ phase = "add"
    /\ queue' = queue \o checks
    /\ nTodo' = nTodo + Len(checks)
    /\ nTodo' <= MaxChecks
    /\ pc' \in IF Len(checks) = 1 THEN NotifyOne(pc) ELSE {NotifyWorkers(pc)}
    /\ expected' = (expected /\ AllTrue(checks))
    /\ UNCHANGED <<nIdle, nTotal, fAllOk, fQuit, batch, fOk, round, phase, result, notified>>

\* CCheckQueueControl::Wait, or its destructor.
Wait ==
    /\ phase = "add"
    /\ phase' = "loop"
    /\ pc' = [pc EXCEPT ![Master] = "enter"]
    /\ UNCHANGED <<queue, nTodo, nIdle, nTotal, fAllOk, fQuit, batch, fOk, round, result,
                   expected, notified>>

\* InterruptThreadScriptCheck comes at any time: the threads that connect blocks
\* are joined later.
SetQuit ==
    /\ ~fQuit
    /\ fQuit' = TRUE
    /\ UNCHANGED <<queue, nTodo, nIdle, nTotal, fAllOk, pc, batch, fOk, master, notified>>

\* Mutant of NotifyQuit: only the master is notified.
NotifyQuitMaster ==
    /\ fQuit /\ ~notified
    /\ notified' = TRUE
    /\ pc' = NotifyMaster(pc)
    /\ UNCHANGED <<queue, nTodo, nIdle, nTotal, fAllOk, fQuit, batch, fOk, master>>

NotifyQuit ==
    /\ fQuit /\ ~notified
    /\ notified' = TRUE
    /\ pc' = NotifyMaster(NotifyWorkers(pc))
    /\ UNCHANGED <<queue, nTodo, nIdle, nTotal, fAllOk, fQuit, batch, fOk, master>>

-----------------------------------------------------------------------------

Init ==
    /\ queue = <<>>
    /\ nTodo = 0 /\ nIdle = 0 /\ nTotal = 0
    /\ fAllOk = TRUE /\ fQuit = FALSE
    /\ pc = [t \in Thread |-> IF t = Master THEN "out" ELSE "enter"]
    /\ batch = [t \in Thread |-> <<>>]
    /\ fOk = [t \in Thread |-> TRUE]
    /\ round = 0 /\ phase = "idle" /\ result = TRUE /\ expected = TRUE
    /\ notified = FALSE

Step(t) == Enter(t) \/ Execute(t) \/ CleanUp(t) \/ WakeUp(t) \/ WaitAgain(t)

Checks == UNION {[1..n -> BOOLEAN] : n \in 1..MaxAdd}

Next ==
    \/ \E t \in Thread : Step(t) \/ SpuriousWakeUp(t)
    \/ Begin
    \/ \E checks \in Checks : Add(checks)
    \/ Wait
    \/ SetQuit
    \/ NotifyQuit

Spec == Init /\ [][Next]_vars

\* Every thread is scheduled; the master ends its block; a shutdown that has
\* begun goes on.  No wake-up is spurious for the sake of progress.
FairSpec ==
    /\ Spec
    /\ \A t \in Thread : WF_vars(Step(t))
    /\ WF_vars(Wait) /\ WF_vars(NotifyQuit)

-----------------------------------------------------------------------------
(* Properties.                                                             *)

\* Every variable has its type; no counter goes below zero (checkqueue.h:43-63).
TypeOK ==
    /\ queue \in UNION {[1..n -> BOOLEAN] : n \in 0..MaxChecks}
    /\ nTodo \in 0..MaxChecks
    /\ nIdle \in 0..Cardinality(Thread) /\ nTotal \in 0..Cardinality(Thread)
    /\ {fAllOk, fQuit, result, expected, notified} \subseteq BOOLEAN
    /\ pc \in [Thread -> {"out", "enter", "work", "done", "wait", "ready"}]
    /\ batch \in [Thread -> UNION {[1..n -> BOOLEAN] : n \in 0..nBatchSize}]
    /\ fOk \in [Thread -> BOOLEAN]
    /\ round \in 0..MaxRounds /\ phase \in {"idle", "add", "loop"}

\* The checks that threads have taken and not yet accounted for, as <<thread, number>>.
Held == {x \in Thread \X (1..nBatchSize) : x[2] <= Len(batch[x[1]])}

\* The counters are what their comments say, between any two critical
\* sections: unfinished checks, queued or in a batch; idle threads; threads in
\* Loop (checkqueue.h:43-60).
CountersExact ==
    /\ nTodo = Len(queue) + Cardinality(Held)
    /\ nIdle = Cardinality({t \in Thread : pc[t] \in {"wait", "ready"}})
    /\ nTotal = Cardinality({t \in Thread : pc[t] \notin {"out", "enter"}})

\* When Wait has returned, no check is left with anyone, and its result is
\* whether all checks of this block succeeded, whatever those of the blocks
\* before it did and whoever ran them (checkqueue.h:158-160).
WaitIsComplete ==
    phase = "idle" => /\ queue = <<>> /\ \A t \in Thread : batch[t] = <<>>
                      /\ result = expected

\* Wait returns, for the block that is connected when Interrupt comes and for those
\* connected after it too, when the workers may have left and the master has all the
\* checks to itself: no notification to the master is lost (checkqueue.h:80-84).
WaitReturns == phase = "loop" ~> phase = "idle"

\* After Interrupt, with no check unfinished, a worker that is awake or is still to be
\* notified leaves Loop, unless new checks come first.  It says nothing of a worker
\* that goes to sleep after the notification, while checks are unfinished: nobody
\* wakes that one (checkqueue.h:80-84, 102), see WorkersStop.
WorkersLeave ==
    \A w \in Worker :
        fQuit /\ nTodo = 0 /\ (~notified \/ pc[w] # "wait") ~> pc[w] = "out" \/ nTodo > 0

\* Interrupt stops the worker threads, which Shutdown joins ("stop the
\* CScheduler/checkqueue threadGroup", init.cpp:215-219), whenever it comes.
WorkersStop == notified ~> \A w \in Worker : pc[w] = "out"
=============================================================================
