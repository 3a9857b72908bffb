------------------------ MODULE ProvisionQueueProofs ------------------------
(***************************************************************************)
(* ProvisionQueue for every set of tasks and every batch size: typing, one *)
(* task at a time, first in first out, loss only with a full batch, a run  *)
(* for every waiting task, and the refinement of SerialExecutor.           *)
(***************************************************************************)
EXTENDS ProvisionQueue, TLAPS

(***************************************************************************)
(* The inductive invariant.  The run's control state determines which      *)
(* executions of the tenant can be open and bounds its counter; the        *)
(* channel holds, in order, tasks accepted after everything started.       *)
(***************************************************************************)
ControlInv ==
    /\ run = "awaiting" <=> awaited # NoTask
    /\ run = "awaiting" => opsCount < MaxOps
    /\ buffer # <<>> => run # "closed"
    /\ execs \ Direct \subseteq {awaited}

OrderInv ==
    /\ \A t \in Tasks : pos[t] <= signals
    /\ \A i, j \in DOMAIN buffer : i < j => pos[buffer[i]] < pos[buffer[j]]
    /\ \A i \in DOMAIN started, j \in DOMAIN buffer : pos[started[i]] < pos[buffer[j]]
    /\ \A t \in Tasks : caller[t] \in {"idle", "written"} => pos[t] = 0
    /\ \A i \in DOMAIN buffer : pos[buffer[i]] > 0
    /\ \A i \in DOMAIN started : pos[started[i]] > 0
    /\ StartedInOrder

LossInv ==
    /\ opsCount <= returned
    /\ LossNeedsFullBatch

QueueInv == TypeOK /\ ControlInv /\ OrderInv /\ LossInv

LEMMA TypeStep == TypeOK /\ ControlInv /\ [Next]_vars => TypeOK'
<1> USE QueueAssumption DEF TypeOK, CallerStates, Queued
<1> SUFFICES ASSUME TypeOK, ControlInv, [Next]_vars PROVE TypeOK'
  OBVIOUS
<1>1. ASSUME NEW t \in Tasks, WriteRow(t) PROVE TypeOK'
  BY <1>1 DEF WriteRow, server
<1>2. ASSUME NEW t \in Tasks, SignalWithStart(t) PROVE TypeOK'
  BY <1>2 DEF SignalWithStart
<1>3. ASSUME NEW t \in Tasks, StartDirect(t) PROVE TypeOK'
  BY <1>3 DEF StartDirect
<1>4. ASSUME NEW t \in Tasks, SignalFails(t) PROVE TypeOK'
  BY <1>4 DEF SignalFails, server
<1>5. ASSUME NEW t \in Tasks, ExecutionCloses(t) PROVE TypeOK'
  BY <1>5 DEF ExecutionCloses
<1>6. CASE ContinueAsNew
  <2>1. InBuffer \subseteq Queued
    BY DEF InBuffer
  <2>. QED
    BY <1>6, <2>1 DEF ContinueAsNew, BatchFull
<1>7. CASE Receive
  <2>1. Head(buffer) \in Queued /\ Tail(buffer) \in Seq(Queued)
    BY <1>7 DEF Receive, BatchFull
  <2>. QED
    BY <1>7, <2>1 DEF Receive, BatchFull
<1>8. CASE IdleTimeout
  BY <1>8 DEF IdleTimeout, BatchFull
<1>9. CASE ChildReturned
  BY <1>9 DEF ChildReturned, ControlInv
<1>10. CASE UNCHANGED vars
  BY <1>10 DEF vars
<1>. QED
  BY <1>1, <1>2, <1>3, <1>4, <1>5, <1>6, <1>7, <1>8, <1>9, <1>10
     DEF Next, TenantProvisionWorkflow

LEMMA ControlStep == TypeOK /\ ControlInv /\ [Next]_vars => ControlInv'
<1> USE QueueAssumption DEF ControlInv, TypeOK, Queued
<1> SUFFICES ASSUME TypeOK, ControlInv, [Next]_vars PROVE ControlInv'
  OBVIOUS
<1>1. ASSUME NEW t \in Tasks, WriteRow(t) PROVE ControlInv'
  BY <1>1 DEF WriteRow, server
<1>2. ASSUME NEW t \in Tasks, SignalWithStart(t) PROVE ControlInv'
  BY <1>2 DEF SignalWithStart
<1>3. ASSUME NEW t \in Tasks, StartDirect(t) PROVE ControlInv'
  BY <1>3 DEF StartDirect
<1>4. ASSUME NEW t \in Tasks, SignalFails(t) PROVE ControlInv'
  BY <1>4 DEF SignalFails, server
<1>5. ASSUME NEW t \in Tasks, ExecutionCloses(t) PROVE ControlInv'
  BY <1>5 DEF ExecutionCloses
<1>6. CASE ContinueAsNew
  BY <1>6 DEF ContinueAsNew, BatchFull
<1>7. CASE Receive
  <2>1. Head(buffer) \in Queued
    BY <1>7 DEF Receive, BatchFull
  <2>. QED
    BY <1>7, <2>1 DEF Receive, BatchFull
<1>8. CASE IdleTimeout
  BY <1>8 DEF IdleTimeout, BatchFull
<1>9. CASE ChildReturned
  BY <1>9 DEF ChildReturned
<1>10. CASE UNCHANGED vars
  BY <1>10 DEF vars
<1>. QED
  BY <1>1, <1>2, <1>3, <1>4, <1>5, <1>6, <1>7, <1>8, <1>9, <1>10
     DEF Next, TenantProvisionWorkflow

LEMMA OrderStep == TypeOK /\ OrderInv /\ [Next]_vars => OrderInv'
<1> USE QueueAssumption
<1> SUFFICES ASSUME TypeOK, OrderInv, [Next]_vars PROVE OrderInv'
  OBVIOUS
<1>1. ASSUME NEW t \in Tasks, WriteRow(t) PROVE OrderInv'
  BY <1>1 DEF WriteRow, server, TypeOK, OrderInv, StartedInOrder
<1>2. ASSUME NEW t \in Tasks, SignalWithStart(t) PROVE OrderInv'
  <2>1. pos[t] = 0 /\ t \in Queued
    BY <1>2 DEF SignalWithStart, OrderInv, Queued
  <2>2. /\ \A i \in DOMAIN buffer : buffer[i] # t /\ buffer[i] \in Tasks
        /\ \A i \in DOMAIN started : started[i] # t /\ started[i] \in Tasks
    BY <2>1 DEF OrderInv, TypeOK, Queued
  <2>3. /\ \A u \in Tasks : pos'[u] = IF u = t THEN signals + 1 ELSE pos[u]
        /\ \A u \in Tasks : pos[u] \in Nat /\ pos[u] <= signals
        /\ signals \in Nat /\ signals' = signals + 1
    BY <1>2 DEF SignalWithStart, TypeOK, OrderInv
  <2>4. /\ DOMAIN buffer' = 1..Len(buffer) + 1
        /\ DOMAIN buffer = 1..Len(buffer)
        /\ Len(buffer) \in Nat
        /\ \A i \in DOMAIN buffer : buffer'[i] = buffer[i]
        /\ buffer'[Len(buffer) + 1] = t
    BY <1>2, <2>1 DEF SignalWithStart, TypeOK
  <2>5. started' = started
    BY <1>2 DEF SignalWithStart
  <2>6. \A u \in Tasks : pos'[u] <= signals'
    BY <2>3
  <2>7. \A i, j \in DOMAIN buffer' : i < j => pos'[buffer'[i]] < pos'[buffer'[j]]
    BY <2>1, <2>2, <2>3, <2>4 DEF OrderInv
  <2>8. \A i \in DOMAIN started', j \in DOMAIN buffer' :
            pos'[started'[i]] < pos'[buffer'[j]]
    BY <2>1, <2>2, <2>3, <2>4, <2>5 DEF OrderInv
  <2>9. \A u \in Tasks : caller'[u] \in {"idle", "written"} => pos'[u] = 0
    BY <1>2, <2>3 DEF SignalWithStart, TypeOK, OrderInv
  <2>10. /\ \A i \in DOMAIN buffer' : pos'[buffer'[i]] > 0
         /\ \A i \in DOMAIN started' : pos'[started'[i]] > 0
    BY <2>1, <2>2, <2>3, <2>4, <2>5 DEF OrderInv
  <2>11. StartedInOrder'
    BY <2>2, <2>3, <2>5 DEF OrderInv, StartedInOrder
  <2>. QED
    BY <2>6, <2>7, <2>8, <2>9, <2>10, <2>11 DEF OrderInv
<1>3. ASSUME NEW t \in Tasks, StartDirect(t) PROVE OrderInv'
  BY <1>3 DEF StartDirect, TypeOK, OrderInv, StartedInOrder
<1>4. ASSUME NEW t \in Tasks, SignalFails(t) PROVE OrderInv'
  BY <1>4 DEF SignalFails, server, TypeOK, OrderInv, StartedInOrder
<1>5. ASSUME NEW t \in Tasks, ExecutionCloses(t) PROVE OrderInv'
  BY <1>5 DEF ExecutionCloses, TypeOK, OrderInv, StartedInOrder
<1>6. CASE ContinueAsNew
  BY <1>6 DEF ContinueAsNew, BatchFull, TypeOK, OrderInv, StartedInOrder
<1>7. CASE Receive
  <2>1. /\ buffer # <<>> /\ buffer \in Seq(Queued) /\ started \in Seq(Queued)
        /\ buffer' = Tail(buffer) /\ started' = Append(started, Head(buffer))
        /\ pos' = pos /\ caller' = caller /\ signals' = signals
    BY <1>7 DEF Receive, BatchFull, TypeOK
  <2>2. /\ Len(buffer) \in Nat \ {0} /\ DOMAIN buffer = 1..Len(buffer)
        /\ DOMAIN buffer' = 1..Len(buffer) - 1
        /\ \A i \in DOMAIN buffer' : i + 1 \in DOMAIN buffer /\ buffer'[i] = buffer[i + 1]
        /\ Head(buffer) = buffer[1] /\ 1 \in DOMAIN buffer
    BY <2>1
  <2>3. /\ Len(started) \in Nat /\ DOMAIN started = 1..Len(started)
        /\ DOMAIN started' = 1..Len(started) + 1
        /\ \A i \in DOMAIN started : started'[i] = started[i]
        /\ started'[Len(started) + 1] = buffer[1]
    BY <2>1, <2>2
  <2>4. \A i, j \in DOMAIN buffer' : i < j => pos'[buffer'[i]] < pos'[buffer'[j]]
    BY <2>1, <2>2 DEF OrderInv
  <2>5. \A i \in DOMAIN started', j \in DOMAIN buffer' :
            pos'[started'[i]] < pos'[buffer'[j]]
    BY <2>1, <2>2, <2>3 DEF OrderInv
  <2>6. /\ \A i \in DOMAIN buffer' : pos'[buffer'[i]] > 0
        /\ \A i \in DOMAIN started' : pos'[started'[i]] > 0
    BY <2>1, <2>2, <2>3 DEF OrderInv
  <2>7. StartedInOrder'
    BY <2>1, <2>2, <2>3 DEF OrderInv, StartedInOrder
  <2>. QED
    BY <2>1, <2>4, <2>5, <2>6, <2>7 DEF OrderInv
<1>8. CASE IdleTimeout
  BY <1>8 DEF IdleTimeout, BatchFull, TypeOK, OrderInv, StartedInOrder
<1>9. CASE ChildReturned
  BY <1>9 DEF ChildReturned, TypeOK, OrderInv, StartedInOrder
<1>10. CASE UNCHANGED vars
  BY <1>10 DEF vars, TypeOK, OrderInv, StartedInOrder
<1>. QED
  BY <1>1, <1>2, <1>3, <1>4, <1>5, <1>6, <1>7, <1>8, <1>9, <1>10
     DEF Next, TenantProvisionWorkflow

LEMMA LossStep == TypeOK /\ LossInv /\ [Next]_vars => LossInv'
<1> USE QueueAssumption DEF LossInv, LossNeedsFullBatch, TypeOK
<1> SUFFICES ASSUME TypeOK, LossInv, [Next]_vars PROVE LossInv'
  OBVIOUS
<1>1. ASSUME NEW t \in Tasks, WriteRow(t) PROVE LossInv'
  BY <1>1 DEF WriteRow, server
<1>2. ASSUME NEW t \in Tasks, SignalWithStart(t) PROVE LossInv'
  BY <1>2 DEF SignalWithStart
<1>3. ASSUME NEW t \in Tasks, StartDirect(t) PROVE LossInv'
  BY <1>3 DEF StartDirect
<1>4. ASSUME NEW t \in Tasks, SignalFails(t) PROVE LossInv'
  BY <1>4 DEF SignalFails, server
<1>5. ASSUME NEW t \in Tasks, ExecutionCloses(t) PROVE LossInv'
  BY <1>5 DEF ExecutionCloses
<1>6. CASE ContinueAsNew
  BY <1>6 DEF ContinueAsNew, BatchFull
<1>7. CASE Receive
  BY <1>7 DEF Receive, BatchFull
<1>8. CASE IdleTimeout
  BY <1>8 DEF IdleTimeout, BatchFull
<1>9. CASE ChildReturned
  BY <1>9 DEF ChildReturned
<1>10. CASE UNCHANGED vars
  BY <1>10 DEF vars
<1>. QED
  BY <1>1, <1>2, <1>3, <1>4, <1>5, <1>6, <1>7, <1>8, <1>9, <1>10
     DEF Next, TenantProvisionWorkflow

LEMMA QueueInvariant == Spec => []QueueInv
<1>1. Init => QueueInv
  BY QueueAssumption DEF Init, QueueInv, TypeOK, CallerStates, ControlInv,
     OrderInv, StartedInOrder, LossInv, LossNeedsFullBatch, Queued
<1>2. QueueInv /\ [Next]_vars => QueueInv'
  BY TypeStep, ControlStep, OrderStep, LossStep DEF QueueInv
<1>. QED
  BY <1>1, <1>2, PTL DEF Spec

\* The state type is an invariant of the queue; in particular the counter of
\* the entity workflow never passes maxOpsBeforeContinueAsNew, which holds
\* only because a run tests it before it receives.
THEOREM Typing == Spec => []TypeOK
  BY QueueInvariant, PTL DEF QueueInv

\* At most one task workflow of a tenant is open, for any number of callers,
\* timeouts and continuations: signalProvision serializes.
THEOREM Serialization == Spec => []OneAtATime
<1>1. QueueInv => OneAtATime
  BY DEF QueueInv, ControlInv, OneAtATime
<1>. QED
  BY <1>1, QueueInvariant, PTL

\* Task workflows start in the order in which their signals were accepted.
THEOREM FirstInFirstOut == Spec => []StartedInOrder
<1>1. QueueInv => StartedInOrder
  BY DEF QueueInv, OrderInv
<1>. QED
  BY <1>1, QueueInvariant, PTL

\* No signal is dropped before maxOpsBeforeContinueAsNew children returned.
THEOREM LossBound == Spec => []LossNeedsFullBatch
<1>1. QueueInv => LossNeedsFullBatch
  BY DEF QueueInv, LossInv
<1>. QED
  BY <1>1, QueueInvariant, PTL

\* A run is open whenever a task waits or runs: the idle timeout is safe.
THEOREM RunForWaiting == Spec => []WaitingHasRun
<1>1. QueueInv => WaitingHasRun
  BY DEF QueueInv, ControlInv, WaitingHasRun
<1>. QED
  BY <1>1, QueueInvariant, PTL

\* Every step of the queue is a step of the serial executor or leaves it
\* unchanged: nothing but Accept, Start, Finish and DropWaiting happens.
THEOREM Refinement == Spec => ImplementsExecutor
<1> USE QueueAssumption
<1>1. Init => Executor!Init
  BY DEF Init, Executor!Init
<1>2. QueueInv /\ [Next]_vars => [Executor!Next]_(Executor!vars)
  <2> SUFFICES ASSUME QueueInv, [Next]_vars
               PROVE  [Executor!Next]_(Executor!vars)
    OBVIOUS
  <2> USE DEF QueueInv, TypeOK, ControlInv, Queued
  <2>1. ASSUME NEW t \in Tasks, WriteRow(t) PROVE UNCHANGED Executor!vars
    BY <2>1 DEF WriteRow, server, Executor!vars
  <2>2. ASSUME NEW t \in Tasks, SignalWithStart(t) PROVE Executor!Next
    BY <2>2 DEF SignalWithStart, Executor!Next, Executor!Accept
  <2>3. ASSUME NEW t \in Tasks, StartDirect(t) PROVE UNCHANGED Executor!vars
    BY <2>3 DEF StartDirect, Executor!vars
  <2>4. ASSUME NEW t \in Tasks, SignalFails(t) PROVE UNCHANGED Executor!vars
    BY <2>4 DEF SignalFails, server, Executor!vars
  <2>5. ASSUME NEW t \in Tasks, ExecutionCloses(t)
        PROVE  Executor!Next \/ UNCHANGED Executor!vars
    <3>1. CASE t = awaited
      BY <2>5, <3>1 DEF ExecutionCloses, Executor!Next, Executor!Finish
    <3>2. CASE t # awaited
      <4>1. t \in Direct
        BY <2>5, <3>2 DEF ExecutionCloses
      <4>. QED
        BY <2>5, <3>2, <4>1 DEF ExecutionCloses, Executor!vars
    <3>. QED
      BY <3>1, <3>2
  <2>6. CASE ContinueAsNew
    BY <2>6 DEF ContinueAsNew, BatchFull, Executor!Next, Executor!DropWaiting
  <2>7. CASE Receive
    <3>1. Head(buffer) \in Queued /\ Head(buffer) # NoTask
      BY <2>7 DEF Receive, BatchFull
    <3>2. awaited \notin execs
      BY <2>7 DEF Receive, BatchFull
    <3>. QED
      BY <2>7, <3>1, <3>2 DEF Receive, BatchFull, Executor!Next, Executor!Start
  <2>8. CASE IdleTimeout
    BY <2>8 DEF IdleTimeout, BatchFull, Executor!vars
  <2>9. CASE ChildReturned
    BY <2>9 DEF ChildReturned, Executor!vars
  <2>10. CASE UNCHANGED vars
    BY <2>10 DEF vars, Executor!vars
  <2>. QED
    BY <2>1, <2>2, <2>3, <2>4, <2>5, <2>6, <2>7, <2>8, <2>9, <2>10
       DEF Next, TenantProvisionWorkflow
<1>. QED
  BY <1>1, <1>2, QueueInvariant, PTL DEF Spec, ImplementsExecutor, Executor!Spec
=============================================================================
