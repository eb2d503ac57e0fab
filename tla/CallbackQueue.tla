---------------------------- MODULE CallbackQueue ----------------------------
(***************************************************************************)
(* What SingleThreadedSchedulerClient promises (scheduler.h): callbacks    *)
(* run one at a time, in the order in which they were added, each once,    *)
(* and every callback that was added finally runs.                         *)
(***************************************************************************)
EXTENDS Naturals, Sequences

CONSTANTS Callback, NoCallback

VARIABLES
    queue,    \* callbacks that wait
    current,  \* the callback that runs, or NoCallback
    done      \* callbacks that have run, in order

vars == <<queue, current, done>>

Init ==
    /\ queue = <<>>
    /\ current = NoCallback
    /\ done = <<>>

Add(c) ==
    /\ queue' = Append(queue, c)
    /\ UNCHANGED <<current, done>>

Begin ==
    /\ current = NoCallback
    /\ queue # <<>>
    /\ current' = Head(queue)
    /\ queue' = Tail(queue)
    /\ UNCHANGED done

End ==
    /\ current # NoCallback
    /\ done' = Append(done, current)
    /\ current' = NoCallback
    /\ UNCHANGED queue

Next == (\E c \in Callback : Add(c)) \/ Begin \/ End

Safety == Init /\ [][Next]_vars

Fairness == WF_vars(Begin) /\ WF_vars(End)

Spec == Safety /\ Fairness

=============================================================================
