--------------------------- MODULE SerialExecutor ---------------------------
(***************************************************************************)
(* What the per-tenant provisioning queue promises to the services that    *)
(* submit work to it: tasks run one at a time and in the order in which    *)
(* they were accepted.  Waiting tasks may be dropped, all together, but    *)
(* only while nothing runs.                                                *)
(***************************************************************************)
EXTENDS Sequences

CONSTANTS Tasks, None

VARIABLES waiting,    \* accepted tasks that have not started, oldest first
          running,    \* the task that runs, or None
          completed   \* tasks that have run

vars == <<waiting, running, completed>>

Init ==
    /\ waiting = <<>>
    /\ running = None
    /\ completed = {}

Accept(t) ==
    /\ waiting' = Append(waiting, t)
    /\ UNCHANGED <<running, completed>>

Start ==
    /\ running = None
    /\ waiting # <<>>
    /\ running' = Head(waiting)
    /\ waiting' = Tail(waiting)
    /\ UNCHANGED completed

Finish ==
    /\ running # None
    /\ completed' = completed \union {running}
    /\ running' = None
    /\ UNCHANGED waiting

DropWaiting ==
    /\ running = None
    /\ waiting' = <<>>
    /\ UNCHANGED <<running, completed>>

Next == (\E t \in Tasks : Accept(t)) \/ Start \/ Finish \/ DropWaiting

Spec == Init /\ [][Next]_vars
=============================================================================
