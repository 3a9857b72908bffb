--------------------------- MODULE ProvisionQueue ---------------------------
(***************************************************************************)
(* The provisioning queue of one tenant: the services' signalProvision     *)
(* (internal/core/provision.go) on one side, the entity workflow           *)
(* TenantProvisionWorkflow (internal/workflow/provision.go) on the other,  *)
(* and between them the Temporal server, modelled from how both use it.    *)
(*                                                                         *)
(* A task is one call of signalProvision.  Tasks of resources without a    *)
(* tenant (Direct) are started directly.  Unregistered tasks name a        *)
(* workflow type that cmd/worker does not register: the server starts the  *)
(* execution, and every workflow task of it fails and is retried, so it    *)
(* never closes (no execution timeout is set on child workflows).          *)
(***************************************************************************)
EXTENDS Naturals, FiniteSets, Sequences

CONSTANTS Tasks,          \* the calls of signalProvision
          Direct,         \* those with an empty tenant ID
          Unregistered,   \* those whose WorkflowName no worker registers
          MaxOps,         \* maxOpsBeforeContinueAsNew
          NoTask

ASSUME QueueAssumption ==
    /\ Direct \subseteq Tasks
    /\ Unregistered \subseteq Tasks
    /\ MaxOps \in Nat \ {0}
    /\ NoTask \notin Tasks

VARIABLES
    caller,     \* per task: how far the service call has got
    run,        \* the open run of workflow "tenant-<id>", or "closed"
    buffer,     \* signals delivered to the run and not received by it
    awaited,    \* the child the run waits for in ExecuteChildWorkflow.Get
    opsCount,   \* the run's local counter
    execs,      \* open executions of task workflows, on the server
    signals,    \* history: how many signals the server has accepted
    pos,        \* history: a queued task's place among them (0: none)
    started,    \* history: queued tasks in the order they were started
    finished,   \* history: tasks whose workflow has closed
    returned,   \* history: how many children a run has seen the end of
    lost        \* history: signals dropped with the run that held them

vars == <<caller, run, buffer, awaited, opsCount, execs, signals,
          pos, started, finished, returned, lost>>

server == <<run, buffer, awaited, opsCount, execs, signals,
            pos, started, finished, returned, lost>>

CallerStates == {"idle", "written", "ok", "error"}

Queued == Tasks \ Direct

Accepted == {t \in Queued : pos[t] > 0}

InBuffer == {buffer[i] : i \in DOMAIN buffer}

Started == {started[i] : i \in DOMAIN started}

TypeOK ==
    /\ caller \in [Tasks -> CallerStates]
    /\ run \in {"closed", "receiving", "awaiting"}
    /\ buffer \in Seq(Queued)
    /\ awaited \in Queued \union {NoTask}
    /\ opsCount \in 0..MaxOps
    /\ execs \subseteq Tasks
    /\ signals \in Nat
    /\ pos \in [Tasks -> Nat]
    /\ started \in Seq(Queued)
    /\ finished \subseteq Tasks
    /\ returned \in Nat
    /\ lost \subseteq Queued

Init ==
    /\ caller = [t \in Tasks |-> "idle"]
    /\ run = "closed"
    /\ buffer = <<>>
    /\ awaited = NoTask
    /\ opsCount = 0
    /\ execs = {}
    /\ signals = 0
    /\ pos = [t \in Tasks |-> 0]
    /\ started = <<>>
    /\ finished = {}
    /\ returned = 0
    /\ lost = {}

(***************************************************************************)
(* Plausible mistakes in this code, each the mutant of the action named.   *)
(***************************************************************************)
\* BatchFull, off by one.
BatchOverfull == opsCount > MaxOps

\* ChildReturned, of a run that does not wait for its child.
ChildReturnedEarly ==
    /\ run = "awaiting"
    /\ run' = "receiving"
    /\ awaited' = NoTask
    /\ opsCount' = opsCount + 1
    /\ returned' = returned + 1
    /\ UNCHANGED <<caller, buffer, execs, signals, pos, started, finished, lost>>

\* ChildReturned, of a run that counts the operation twice.
ChildReturnedTwice ==
    /\ run = "awaiting"
    /\ awaited \notin execs
    /\ run' = "receiving"
    /\ awaited' = NoTask
    /\ opsCount' = IF opsCount + 2 > MaxOps THEN MaxOps ELSE opsCount + 2
    /\ returned' = returned + 1
    /\ UNCHANGED <<caller, buffer, execs, signals, pos, started, finished, lost>>

\* Receive, of a run that takes the newest signal first.
ReceiveNewest ==
    LET last == buffer[Len(buffer)] IN
    /\ run = "receiving"
    /\ opsCount < MaxOps
    /\ buffer # <<>>
    /\ run' = "awaiting"
    /\ awaited' = last
    /\ buffer' = SubSeq(buffer, 1, Len(buffer) - 1)
    /\ execs' = execs \union {last}
    /\ started' = Append(started, last)
    /\ UNCHANGED <<caller, opsCount, signals, pos, finished, returned, lost>>

\* IdleTimeout, of a run that closes on a timer alone.
IdleTimeoutUnchecked ==
    /\ run = "receiving"
    /\ opsCount < MaxOps
    /\ run' = "closed"
    /\ UNCHANGED <<caller, buffer, awaited, opsCount, execs, signals,
                   pos, started, finished, returned, lost>>

\* ChildReturned, of a run that fails with its child ("return err").
ChildReturnedFatal ==
    /\ run = "awaiting"
    /\ awaited \notin execs
    /\ run' = "closed"
    /\ awaited' = NoTask
    /\ opsCount' = opsCount + 1
    /\ returned' = returned + 1
    /\ UNCHANGED <<caller, buffer, execs, signals, pos, started, finished, lost>>

(***************************************************************************)
(* The service side.  Every mutating service method writes the row's       *)
(* transitional status and commits, then calls signalProvision.            *)
(***************************************************************************)
WriteRow(t) ==
    /\ caller[t] = "idle"
    /\ caller' = [caller EXCEPT ![t] = "written"]
    /\ UNCHANGED server

\* SignalWithStartWorkflow: the signal joins the open run's buffer; when no
\* run is open the server starts one, with a fresh opsCount.  The reply may
\* be lost, and the caller then reports an error for a task that will run.
SignalWithStart(t) ==
    /\ caller[t] = "written"
    /\ t \notin Direct
    /\ buffer' = Append(buffer, t)
    /\ pos' = [pos EXCEPT ![t] = signals + 1]
    /\ signals' = signals + 1
    /\ \/ run = "closed" /\ run' = "receiving" /\ opsCount' = 0
       \/ run # "closed" /\ UNCHANGED <<run, opsCount>>
    /\ \E reply \in {"ok", "error"} : caller' = [caller EXCEPT ![t] = reply]
    /\ UNCHANGED <<awaited, execs, started, finished, returned, lost>>

\* ExecuteWorkflow, for a resource without a tenant: no serialization.
StartDirect(t) ==
    /\ caller[t] = "written"
    /\ t \in Direct
    /\ execs' = execs \union {t}
    /\ \E reply \in {"ok", "error"} : caller' = [caller EXCEPT ![t] = reply]
    /\ UNCHANGED <<run, buffer, awaited, opsCount, signals,
                   pos, started, finished, returned, lost>>

\* The request never reached the server, or the API process died after its
\* write: the row stays as written and nothing will work on it.
SignalFails(t) ==
    /\ caller[t] = "written"
    /\ caller' = [caller EXCEPT ![t] = "error"]
    /\ UNCHANGED server

(***************************************************************************)
(* The entity workflow: one loop iteration is Receive (or IdleTimeout, or  *)
(* ContinueAsNew), the child's execution, and ChildReturned.               *)
(***************************************************************************)
BatchFull == opsCount >= MaxOps

\* A run that reached the batch size ends and is continued by a new run.
\* The channel is not drained: what it holds belongs to the run that ended.
ContinueAsNew ==
    /\ run = "receiving"
    /\ BatchFull
    /\ opsCount' = 0
    /\ lost' = lost \union InBuffer
    /\ buffer' = <<>>
    /\ UNCHANGED <<caller, run, awaited, execs, signals, pos,
                   started, finished, returned>>

Receive ==
    /\ run = "receiving"
    /\ ~BatchFull
    /\ buffer # <<>>
    /\ run' = "awaiting"
    /\ awaited' = Head(buffer)
    /\ buffer' = Tail(buffer)
    /\ execs' = execs \union {Head(buffer)}
    /\ started' = Append(started, Head(buffer))
    /\ UNCHANGED <<caller, opsCount, signals, pos, finished, returned, lost>>

\* ReceiveWithTimeout gives up only when the channel is empty: a signal that
\* arrives with the timer wins, and the server refuses to close a run that
\* has a signal its worker has not seen.
IdleTimeout ==
    /\ run = "receiving"
    /\ ~BatchFull
    /\ buffer = <<>>
    /\ run' = "closed"
    /\ UNCHANGED <<caller, buffer, awaited, opsCount, execs, signals,
                   pos, started, finished, returned, lost>>

\* A task's workflow closes, with or without an error.
ExecutionCloses(t) ==
    /\ t \in execs \ Unregistered
    /\ execs' = execs \ {t}
    /\ finished' = finished \union {t}
    /\ UNCHANGED <<caller, run, buffer, awaited, opsCount, signals,
                   pos, started, returned, lost>>

\* Get returns; an error of the child is logged and otherwise ignored.
ChildReturned ==
    /\ run = "awaiting"
    /\ awaited \notin execs
    /\ run' = "receiving"
    /\ awaited' = NoTask
    /\ opsCount' = opsCount + 1
    /\ returned' = returned + 1
    /\ UNCHANGED <<caller, buffer, execs, signals, pos, started, finished, lost>>

TenantProvisionWorkflow == ContinueAsNew \/ Receive \/ IdleTimeout \/ ChildReturned

Next ==
    \/ \E t \in Tasks :
         \/ WriteRow(t)
         \/ SignalWithStart(t)
         \/ StartDirect(t)
         \/ SignalFails(t)
         \/ ExecutionCloses(t)
    \/ TenantProvisionWorkflow

Spec == Init /\ [][Next]_vars

\* Temporal keeps offering workflow tasks to the workers until the worker
\* answers, and every registered workflow of the code runs to its end: all
\* its activities have timeouts.  The callers owe nothing.
Fairness ==
    /\ WF_vars(ContinueAsNew)
    /\ WF_vars(Receive)
    /\ WF_vars(ChildReturned)
    /\ \A t \in Tasks : WF_vars(ExecutionCloses(t))

FairSpec == Spec /\ Fairness

-----------------------------------------------------------------------------
(***************************************************************************)
(* Properties.                                                             *)
(***************************************************************************)

\* Two task workflows of one tenant never run at the same time, whatever the
\* order of signals, idle timeouts and continuations ("one at a time").
OneAtATime == \A t, u \in execs \ Direct : t = u

\* Tasks start in the order in which Temporal accepted their signals, also
\* across runs: a continued or restarted run never overtakes an older task.
StartedInOrder ==
    \A i, j \in DOMAIN started : i < j => pos[started[i]] < pos[started[j]]

\* Dropping a signal takes a full batch: as long as fewer children than
\* maxOpsBeforeContinueAsNew have returned, no run ever drops a signal.
LossNeedsFullBatch == lost # {} => returned >= MaxOps

\* A task in the channel always has an open run to receive it: the idle
\* timeout never closes a run under a waiting task.
WaitingHasRun == (buffer # <<>> \/ awaited # NoTask) => run # "closed"

\* Every accepted task is executed to its end ("receives ProvisionTask signals
\* and executes each as a child workflow").
EveryAcceptedTaskRuns == \A t \in Queued : (t \in Accepted) ~> (t \in finished)

\* What does hold: a task is executed unless a continuation drops it; failing
\* children, idle timeouts and restarts of the run do not hold up the queue.
RunsUnlessDropped == \A t \in Queued : (t \in Accepted) ~> (t \in finished \union lost)

\* The queue as the services see it.
Executor ==
    INSTANCE SerialExecutor WITH
        Tasks <- Queued, None <- NoTask,
        waiting <- buffer,
        running <- IF awaited \in execs THEN awaited ELSE NoTask,
        completed <- finished \ Direct

\* Including continuations, the queue is a serial executor that may drop what
\* waits between two tasks, and can do nothing else.
ImplementsExecutor == Executor!Spec

=============================================================================
