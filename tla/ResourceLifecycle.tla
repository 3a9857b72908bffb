-------------------------- MODULE ResourceLifecycle --------------------------
(***************************************************************************)
(* The life of one resource: concurrent API requests on its row in the     *)
(* core database, the tenant's queue (a FIFO, see ProvisionQueue), the     *)
(* workflow that is running, and the nodes it provisions.                  *)
(*                                                                         *)
(* What the services and the workflows of each kind do is data, given by   *)
(* ResourceCatalog; this module executes it one activity at a time.        *)
(***************************************************************************)
EXTENDS Naturals, FiniteSets, Sequences, ResourceCatalog

CONSTANTS Kinds,       \* the kinds of resource to explore
          Nodes,       \* the nodes of the tenant's shard
          Primary,     \* the one that hosts what has a single place
          Callers,     \* API requests in progress at the same time
          MaxCalls,    \* bound: API requests altogether
          MaxFaults,   \* bound: lost signals and failed status writes
          Parents      \* kinds whose rows other tables reference, ON DELETE
                       \* RESTRICT (by default)

ASSUME LifecycleAssumption ==
    /\ Kinds \subseteq Kind
    /\ IsFiniteSet(Nodes) /\ Primary \in Nodes
    /\ Callers \subseteq Nat
    /\ MaxCalls \in Nat /\ MaxFaults \in Nat
    /\ Parents \subseteq Kind

VARIABLES
    kind,      \* the resource's kind
    row,       \* its row: status, version of the configuration, enabled flag
    node,      \* per node: the version configured (0: none), timer or process on
    queue,     \* tasks signalled to the tenant's queue
    wf,        \* the workflow in progress
    caller,    \* per caller: the request in progress
    children,  \* rows of other tables reference the row
    refused,   \* history: a child row has refused the row's DELETE
    calls,     \* history: requests so far; each has its own version number
    faults     \* history: lost signals and failed status writes so far

vars == <<kind, row, node, queue, wf, caller, children, refused, calls, faults>>

Absent == [status |-> "absent", cfg |-> 0, on |-> FALSE]
Nothing == [cfg |-> 0, on |-> FALSE]
Idle == [op |-> "none", pc |-> 0, snap |-> Nothing, todo |-> {}, bad |-> FALSE]
NoCall == [pc |-> "idle", op |-> "none", saw |-> Absent, cfg |-> 0]

Ops == ServiceOf[kind].ops
Toggled == kind \in {"cron_job", "daemon"}

Targets ==
    CASE ServiceOf[kind].where = "all"  -> Nodes
      [] ServiceOf[kind].where = "one"  -> {Primary}
      [] ServiceOf[kind].where = "none" -> {}

\* The workflow behind a task name.
Program(op) == IF op = "create" THEN ServiceOf[kind].create ELSE Ops[op].run

Versions == 0..(MaxCalls + 1)

Rows == {Absent} \union [status : Statuses, cfg : Versions, on : BOOLEAN]

Provisioned == [cfg : Versions, on : BOOLEAN]

OpNames == {"none", "create", "update", "delete", "retry", "enable", "disable", "restore"}

TypeOK ==
    /\ kind \in Kinds
    /\ row \in Rows
    /\ node \in [Nodes -> Provisioned]
    /\ queue \in Seq([op : OpNames, cfg : Versions])
    /\ wf \in [op : OpNames, pc : 0..20, snap : Provisioned, todo : SUBSET Nodes, bad : BOOLEAN]
    /\ caller \in [Callers -> [pc : {"idle", "read", "written"}, op : OpNames,
                               saw : Rows, cfg : Versions]]
    /\ children \in BOOLEAN /\ refused \in BOOLEAN
    /\ calls \in 0..MaxCalls
    /\ faults \in 0..MaxFaults

\* The create request has committed its INSERT and its signal was accepted;
\* subscriptions are created active, without a workflow.
Init ==
    /\ kind \in Kinds
    /\ row = [status |-> IF ServiceOf[kind].create = <<>> THEN "active" ELSE "pending",
              cfg |-> 1, on |-> ServiceOf[kind].on]
    /\ queue = IF ServiceOf[kind].create = <<>> THEN <<>>
               ELSE <<[op |-> "create", cfg |-> 1]>>
    /\ node = [n \in Nodes |-> Nothing]
    /\ wf = Idle
    /\ caller = [c \in Callers |-> NoCall]
    /\ children \in BOOLEAN /\ (children => kind \in Parents)
    /\ refused = FALSE
    /\ calls = 0
    /\ faults = 0

(***************************************************************************)
(* Plausible mistakes, each the mutant of the definition named.            *)
(***************************************************************************)
\* setResourceFailed, of a helper that only raises the incident.
setResourceFailedIncidentOnly(r) == r

\* setResourceFailed, of a failed removal that is taken for done.
setResourceFailedGone(r) ==
    IF r.status = "deleting" THEN Absent
    ELSE IF r = Absent THEN r ELSE [r EXCEPT !.status = "failed"]

(***************************************************************************)
(* API requests.                                                           *)
(***************************************************************************)
\* Callers are interchangeable: a request is given to the first one idle.
FirstIdle(c) ==
    /\ caller[c].pc = "idle"
    /\ \A d \in Callers : caller[d].pc = "idle" => c <= d

\* The handler or the service reads the row; a missing row or an unfit status
\* ends the request with an error.
ReadRow(c, o) ==
    /\ FirstIdle(c)
    /\ calls < MaxCalls
    /\ Ops[o].reads
    /\ row.status \in Ops[o].needs
    /\ calls' = calls + 1
    /\ caller' = [caller EXCEPT ![c] = [pc |-> "read", op |-> o, saw |-> row, cfg |-> calls + 2]]
    /\ UNCHANGED <<kind, children, refused, row, node, queue, wf, faults>>

\* The row after o's UPDATE, which affects nothing when the row has gone.
rowWritten(o, saw, cfg) ==
    IF row = Absent THEN row
    ELSE [status |-> CASE Ops[o].writes = "keep"  -> row.status
                       [] Ops[o].writes = "stale" -> saw.status
                       [] OTHER -> Ops[o].writes,
          cfg |-> IF Ops[o].cfg THEN cfg ELSE row.cfg,
          on |-> IF Ops[o].on = "keep" THEN row.on ELSE Ops[o].on = "on"]

\* The version that a task carries along: the one written, or read.
carried(o, saw, cfg) ==
    IF Ops[o].cfg THEN cfg ELSE IF Ops[o].reads THEN saw.cfg ELSE row.cfg

Written(c, o, saw, cfg) ==
    /\ row' = rowWritten(o, saw, cfg)
    /\ caller' = [caller EXCEPT ![c] =
                    IF Ops[o].run = <<>> THEN NoCall
                    ELSE [pc |-> "written", op |-> o, saw |-> Absent,
                          cfg |-> carried(o, saw, cfg)]]
    /\ UNCHANGED <<kind, children, refused, node, queue, wf, faults>>

WriteReadRow(c) ==
    /\ caller[c].pc = "read"
    /\ Written(c, caller[c].op, caller[c].saw, caller[c].cfg)
    /\ UNCHANGED calls

\* A request that starts with its write; a missing row makes it fail, at the
\* UPDATE ... RETURNING or at the query for the tenant.
WriteRow(c, o) ==
    /\ FirstIdle(c)
    /\ calls < MaxCalls
    /\ ~Ops[o].reads
    /\ row # Absent
    /\ calls' = calls + 1
    /\ Written(c, o, Absent, calls + 2)

\* The tenant is looked up where the service has to, and the task is queued.
SignalTask(c) ==
    /\ caller[c].pc = "written"
    /\ queue' = IF Ops[caller[c].op].tenant = "resolved" /\ row = Absent
                THEN queue
                ELSE Append(queue, [op |-> caller[c].op, cfg |-> caller[c].cfg])
    /\ caller' = [caller EXCEPT ![c] = NoCall]
    /\ UNCHANGED <<kind, children, refused, row, node, wf, calls, faults>>

\* The signal fails or the API process dies: the write stays.
SignalLost(c) ==
    /\ caller[c].pc = "written"
    /\ faults < MaxFaults
    /\ faults' = faults + 1
    /\ caller' = [caller EXCEPT ![c] = NoCall]
    /\ UNCHANGED <<kind, children, refused, row, node, queue, wf, calls>>

(***************************************************************************)
(* The workflow in progress.                                               *)
(***************************************************************************)
Step1 == Program(wf.op)[wf.pc]

\* Workflow w moved on to step pc, or ended.
at(w, pc) ==
    IF pc > Len(Program(w.op)) THEN Idle
    ELSE [w EXCEPT !.pc = pc, !.todo = Targets]

StartTask ==
    /\ wf = Idle
    /\ queue # <<>>
    /\ queue' = Tail(queue)
    /\ wf' = at([Idle EXCEPT !.op = Head(queue).op,
                             !.snap.cfg = Head(queue).cfg], 1)
    /\ UNCHANGED <<kind, children, refused, row, node, caller, calls, faults>>

Running(do) == wf # Idle /\ Step1.do \in do

\* UpdateResourceStatus: "deleted" deletes the row, which a referencing row
\* prevents; an UPDATE or DELETE of a missing row is no error.
updatedRow(s) ==
    IF row = Absent \/ s = "deleted" THEN Absent ELSE [row EXCEPT !.status = s]

setResourceFailed(r) == IF r = Absent THEN r ELSE [r EXCEPT !.status = "failed"]

\* The step has failed: its error policy decides.  When the workflow reports
\* the failure, that status write may fail too, and the row stays as it is.
StepFails ==
    \/ /\ Step1.err \in {"note", "ignore"}
       /\ wf' = at([wf EXCEPT !.bad = @ \/ Step1.err = "note"], wf.pc + 1)
       /\ UNCHANGED <<row, faults>>
    \/ /\ Step1.err = "return"
       /\ wf' = Idle
       /\ UNCHANGED <<row, faults>>
    \/ /\ Step1.err = "fail"
       /\ wf' = Idle
       /\ \/ row' = setResourceFailed(row) /\ UNCHANGED faults
          \/ faults < MaxFaults /\ faults' = faults + 1 /\ UNCHANGED row

Advance == wf' = at(wf, wf.pc + 1)

WriteStatus ==
    /\ Running({"status"})
    /\ ~(Step1.arg = "deleted" /\ row # Absent /\ children)
    /\ row' = updatedRow(Step1.arg)
    /\ Advance
    /\ UNCHANGED <<kind, children, refused, node, queue, caller, calls, faults>>

\* The foreign key of a child row refuses the DELETE, at every attempt.
DeleteRefused ==
    /\ Running({"status"})
    /\ Step1.arg = "deleted" /\ row # Absent /\ children
    /\ StepFails
    /\ refused' = TRUE
    /\ UNCHANGED <<kind, children, node, queue, caller, calls>>

\* All attempts of a status write fail (core database unavailable).
WriteStatusFails ==
    /\ Running({"status"})
    /\ faults < MaxFaults
    /\ faults' = faults + 1
    /\ wf' = Idle
    /\ UNCHANGED <<kind, children, refused, row, node, queue, caller, calls>>

ReadContext ==
    /\ Running({"read"})
    /\ row # Absent
    /\ wf' = at([wf EXCEPT !.snap = [cfg |-> row.cfg, on |-> row.on]], wf.pc + 1)
    /\ UNCHANGED <<kind, children, refused, row, node, queue, caller, calls, faults>>

\* The row has gone, or its context is incomplete (no shard, no nodes).
ReadContextFails ==
    /\ Running({"read"})
    /\ StepFails
    /\ UNCHANGED <<kind, children, refused, node, queue, caller, calls>>

\* What a node activity does to the node's state x, for snapshot s.
applied(change, s, x) ==
    CASE change = "put" -> [x EXCEPT !.cfg = s.cfg]
      [] change = "putIfPresent" -> IF x.cfg = 0 THEN x ELSE [x EXCEPT !.cfg = s.cfg]
      [] change = "drop" -> Nothing
      [] change = "putAndStart" -> [cfg |-> s.cfg, on |-> TRUE]
      [] change = "start" -> [x EXCEPT !.on = TRUE]
      [] change = "stop" -> [x EXCEPT !.on = FALSE]
      [] change = "startOrStop" -> [x EXCEPT !.on = s.on]
      [] change = "startIfEnabled" -> [x EXCEPT !.on = @ \/ s.on]
      [] change = "use" -> x

NodeActivity(n) ==
    /\ Running({"nodes", "all"})
    /\ n \in wf.todo
    /\ Step1.arg = "use" => node[n].cfg # 0
    /\ node' = [node EXCEPT ![n] = applied(Step1.arg, wf.snap, @)]
    /\ wf' = IF wf.todo = {n} THEN at(wf, wf.pc + 1)
             ELSE [wf EXCEPT !.todo = @ \ {n}]
    /\ UNCHANGED <<kind, children, refused, row, queue, caller, calls, faults>>

\* The activity fails for good, before or after (a timeout, a lost answer)
\* its effect.  fanOutNodes and the other collecting loops go on.
NodeActivityFails(n) ==
    /\ Running({"nodes", "all"})
    /\ n \in wf.todo
    /\ Step1.arg = "startIfEnabled" => wf.snap.on
    /\ \/ UNCHANGED node
       \/ node' = [node EXCEPT ![n] = applied(Step1.arg, wf.snap, @)]
    /\ \/ /\ Step1.do = "all" /\ wf.todo # {n}
          /\ wf' = [wf EXCEPT !.todo = @ \ {n}, !.bad = TRUE]
          /\ UNCHANGED <<row, faults>>
       \/ /\ Step1.do = "all" => wf.todo = {n}
          /\ StepFails
    /\ UNCHANGED <<kind, children, refused, queue, caller, calls>>

SideEffect ==
    /\ Running({"side"})
    /\ Advance
    /\ UNCHANGED <<kind, children, refused, row, node, queue, caller, calls, faults>>

SideEffectFails ==
    /\ Running({"side"})
    /\ StepFails
    /\ UNCHANGED <<kind, children, refused, node, queue, caller, calls>>

CheckErrors ==
    /\ Running({"gate"})
    /\ \/ ~wf.bad /\ Advance /\ UNCHANGED <<row, faults>>
       \/ wf.bad /\ StepFails
    /\ UNCHANGED <<kind, children, refused, node, queue, caller, calls>>

Worker ==
    \/ StartTask \/ WriteStatus \/ DeleteRefused \/ WriteStatusFails
    \/ ReadContext \/ ReadContextFails
    \/ SideEffect \/ SideEffectFails \/ CheckErrors
    \/ \E n \in Nodes : NodeActivity(n) \/ NodeActivityFails(n)

\* The last child is deleted by requests of its own.
ChildrenGone ==
    /\ children
    /\ children' = FALSE
    /\ UNCHANGED <<kind, refused, row, node, queue, wf, caller, calls, faults>>

Request(c) ==
    \/ \E o \in DOMAIN Ops : ReadRow(c, o) \/ WriteRow(c, o)
    \/ WriteReadRow(c) \/ SignalTask(c) \/ SignalLost(c)

Next == Worker \/ ChildrenGone \/ \E c \in Callers : Request(c)

Spec == Init /\ [][Next]_vars

\* Something goes on by itself: Temporal drives every workflow to its end, all
\* activities having timeouts and bounded retries, unless its step waits for
\* nodes there are none of; a request under way goes on to write its row and
\* to signal.  Requests being finitely many, every behaviour in which nothing
\* is put off for ever comes to a state where nothing is due.  (For Worker,
\* WriteReadRow, SignalTask and SignalLost this is that one of them is enabled.)
Due ==
    \/ wf = Idle /\ queue # <<>>
    \/ wf # Idle /\ (Step1.do \in {"nodes", "all"} => wf.todo # {})
    \/ \E c \in Callers : caller[c].pc # "idle"

-----------------------------------------------------------------------------
(***************************************************************************)
(* Properties.                                                             *)
(***************************************************************************)
Quiet == wf = Idle /\ queue = <<>> /\ \A c \in Callers : caller[c] = NoCall

\* The database says that the resource is settled: it is gone, in service, or
\* failed and can be retried.
Settled == row.status \in {"absent", "active", "failed"}

\* A resource in transition settles: when nothing can go on by itself, because
\* all is done or because a workflow waits for what will not come, the status
\* has settled, whatever the interleaving of requests and failing activities.
\* No resource is left pending, provisioning or deleting with nobody at work.
\* (Zones: Update writes a stale status back and queues nothing.)
SettledWhenQuiet ==
    ~Due /\ faults = 0 /\ ~refused /\ kind # "zone" => Settled

\* A quiet resource that is reported active is configured on every target
\* with the row's current version, although requests change the row while
\* older workflows run, and any node activity may have failed on the way.
\* (Not so where an Update or a toggle may end active without the version:
\* FQDNs queue nothing, buckets and records ignore that nothing was changed,
\* enabling or disabling hides an earlier failure.)
ActiveIsApplied ==
    Quiet /\ faults = 0 /\ row.status = "active"
      /\ kind \notin {"fqdn", "s3_bucket", "zone", "zone_record", "cron_job", "daemon"}
    => \A n \in Targets : node[n].cfg = row.cfg

\* Once the row is gone nothing is left on any node that nobody would know
\* of, whatever failed before; lost signals and a failing database included.
\* (SSH keys and email forwards delete the row first; a record's retry that
\* was queued behind its deletion writes the record again.)
GoneIsRemoved ==
    row = Absent /\ wf = Idle /\ kind \notin {"ssh_key", "email_forward", "zone_record"}
    => \A n \in Nodes : node[n] = Nothing

\* A deletion that has run to its end leaves no row in "deleting", child rows
\* or not ("Delete webroot and cascade to FQDNs").
DeletionSettles == Quiet /\ faults = 0 => row.status # "deleting"

\* An active cron job or daemon has its timers or processes running exactly
\* when it is enabled ("Disable (stop) daemon").
ActiveRunsAsEnabled ==
    Quiet /\ faults = 0 /\ Toggled /\ row.status = "active" =>
        \A n \in Targets : node[n].on = row.on

=============================================================================
