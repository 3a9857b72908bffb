--------------------------- MODULE TenantLifecycle ---------------------------
(***************************************************************************)
(* The life of one tenant: TenantService (internal/core/tenant.go) and its *)
(* HTTP handlers, the six workflows behind it (internal/workflow/tenant.go *)
(* and migrate_tenant.go), and what the node agents keep of the tenant:    *)
(* its Linux account on every node of its web shard, and its directory on  *)
(* the CephFS that all web nodes of the cluster mount.                     *)
(*                                                                         *)
(* Workflows run one at a time, in the order of the tenant's queue (see    *)
(* ProvisionQueue); the workflows of the tenant's own resources share it   *)
(* and are single steps here (see ResourceLifecycle).                      *)
(***************************************************************************)
EXTENDS Naturals, FiniteSets, Sequences

CONSTANTS Shards,      \* web shards of the cluster
          NodesOf,     \* the nodes of each
          Home,        \* the shard the tenant is created on
          Targets,     \* shards that migrate requests name
          Web,         \* its webroots
          CrossShard,  \* its databases, zones, Valkey instances and buckets
          Zones,       \* the zones among them
          Callers,     \* API requests in progress at the same time
          MaxEvents,   \* bound: API requests and faults altogether
          MaxMoves,    \* bound: migrations among the requests
          MaxFaults    \* bound: lost signals, failed reads and status writes

ASSUME TenantAssumption ==
    /\ Home \in Shards /\ Targets \subseteq Shards
    /\ DOMAIN NodesOf = Shards
    /\ \A s \in Shards : IsFiniteSet(NodesOf[s])
    /\ Zones \subseteq CrossShard /\ Web \intersect CrossShard = {}
    /\ MaxEvents \in Nat /\ MaxMoves \in Nat /\ MaxFaults \in Nat

VARIABLES
    row,       \* the tenant's row: status, shard, version of the access settings
    child,     \* per resource of the tenant: the status of its row
    acct,      \* per node: the account, whether locked, its access groups
    files,     \* the tenant's directory on CephFS exists
    queue,     \* tasks signalled to the tenant's queue
    wf,        \* the workflow in progress
    caller,    \* per caller: the request in progress
    edit,      \* per resource: the request on it in progress, the status it has loaded
    calls,     \* history: requests so far
    moves,     \* history: migrations requested so far
    restored,  \* history: the last workflow to end well was an unsuspension
    hitch,     \* history: an activity or a workflow has failed
    circular,  \* history: a migration has gone to nodes that it was to leave
    faults,    \* history: lost signals, failed reads and status writes so far
    relapsed   \* history: zones that a status written back has suspended again

vars == <<row, child, acct, files, queue, wf, caller, calls, moves, restored, hitch, circular, faults, edit, relapsed>>

Children == Web \union CrossShard
Nodes == UNION {NodesOf[s] : s \in Shards}

Statuses == {"absent", "pending", "provisioning", "active", "suspended", "failed", "deleting"}
Versions == 0..(MaxEvents + 1)

NoAccount == [present |-> FALSE, locked |-> FALSE, access |-> 0]
NoCall == [pc |-> "idle", op |-> "none", target |-> Home, saw |-> [status |-> "absent", shard |-> Home, access |-> 0]]
Idle == [op |-> "none", pc |-> 0, shard |-> Home, access |-> 0, target |-> Home,
         at |-> [n \in Nodes |-> 0], list |-> {}, bad |-> FALSE]

Rows == [status : Statuses, shard : Shards, access : Versions]
Ops == {"create", "update", "suspend", "unsuspend", "delete", "migrate"}
Tasks == [op : Ops, target : Shards] \union [op : {"child_update", "child_delete"}, child : Children]
Runs == [op : Ops \union {"none"}, pc : Nat, shard : Shards, access : Versions, target : Shards,
         at : [Nodes -> Nat], list : SUBSET Children, bad : BOOLEAN]
Calls == [pc : {"idle", "read", "written"}, op : Ops \union {"none", "retry"}, target : Shards, saw : Rows]
Accounts == [present : BOOLEAN, locked : BOOLEAN, access : Versions]

\* The create request has committed the tenant and its nested resources; the
\* error of a signal that fails then is dropped.
Init ==
    /\ row = [status |-> "pending", shard |-> Home, access |-> 1]
    /\ child = [c \in Children |-> "pending"]
    /\ acct = [n \in Nodes |-> NoAccount]
    /\ files = FALSE
    /\ \/ queue = <<[op |-> "create", target |-> Home]>> /\ faults = 0
       \/ queue = <<>> /\ faults = 1 /\ MaxFaults > 0
    /\ wf = Idle
    /\ caller = [c \in Callers |-> NoCall]
    /\ calls = 0 /\ moves = 0
    /\ restored = FALSE /\ hitch = FALSE /\ circular = FALSE
    /\ edit = [c \in Children |-> "none"] /\ relapsed = {}

(***************************************************************************)
(* The workflows, as sequences of steps.                                   *)
(***************************************************************************)
CreateTenantWorkflow ==
    <<"provisioning", "lookup", "nodes", "active", "list", "children">>

UpdateTenantWorkflow == <<"provisioning", "lookup", "nodes", "active">>

SuspendTenantWorkflow == <<"lookup", "nodes", "suspended", "list", "children">>

UnsuspendTenantWorkflow ==
    <<"provisioning", "lookup", "nodes", "unsuspended", "list", "children">>

DeleteTenantWorkflow ==
    <<"deleting", "lookup", "list", "children", "members", "nodes", "desired", "converge", "rows">>

MigrateTenantWorkflow ==
    <<"provisioning", "lookup", "nodes", "webroots", "move", "members", "leave", "active">>

Program(op) ==
    CASE op = "create"    -> CreateTenantWorkflow
      [] op = "update"    -> UpdateTenantWorkflow
      [] op = "suspend"   -> SuspendTenantWorkflow
      [] op = "unsuspend" -> UnsuspendTenantWorkflow
      [] op = "delete"    -> DeleteTenantWorkflow
      [] op = "migrate"   -> MigrateTenantWorkflow

Step == Program(wf.op)[wf.pc]
Running(step) == wf # Idle /\ Step = step

\* What each node is told in the steps nodes, converge and leave.
Activities(op, step) ==
    CASE step = "leave"    -> <<"DeleteTenant">>
      [] step = "converge" -> <<"CreateTenant", "SyncSSHConfig">>
      [] step = "nodes" ->
            CASE op = "create"    -> <<"CreateTenant", "SyncSSHConfig", "ConfigureTenantAddresses">>
              [] op = "update"    -> <<"UpdateTenant", "SyncSSHConfig">>
              [] op = "suspend"   -> <<"SuspendTenant">>
              [] op = "unsuspend" -> <<"UnsuspendTenant">>
              [] op = "delete"    -> <<"RemoveTenantAddresses", "RemoveSSHConfig", "DeleteTenant">>
              [] op = "migrate"   -> <<"CreateTenant">>

NodeSteps == {"nodes", "converge", "leave"}

\* Workflow w at step pc, or ended.
at(w, pc) ==
    IF pc > Len(Program(w.op)) THEN Idle
    ELSE LET step == Program(w.op)[pc]
             told == IF w.op = "migrate" /\ step = "nodes" THEN NodesOf[w.target]
                     ELSE NodesOf[w.shard]
         IN  [w EXCEPT !.pc = pc,
                       !.at = [n \in Nodes |-> IF step \in NodeSteps /\ n \in told THEN 1 ELSE 0]]

Advance == wf' = at(wf, wf.pc + 1)

(***************************************************************************)
(* Plausible mistakes, each the mutant of the definition named.            *)
(***************************************************************************)
\* failed, of a helper that only raises the incident.
failedIncidentOnly(r) == r

\* NodesDone, of a fan-out whose errors are dropped.
NodesDoneUnchecked ==
    /\ wf # Idle /\ Step \in NodeSteps
    /\ \A n \in Nodes : wf.at[n] = 0
    /\ Advance
    /\ UNCHANGED <<row, child, acct, files, queue, caller, calls, moves, restored, hitch, faults, circular, edit, relapsed>>

\* NeedsAccount, of group changes that are skipped for a missing user.
NeedsAccountLoosely == {"SuspendTenant", "UnsuspendTenant"}

\* Listed, of an unsuspension that restores what is active.
ListedActive ==
    CASE wf.op = "create"  -> {c \in Children : child[c] = "pending"}
      [] wf.op = "delete"  -> {c \in CrossShard : child[c] # "absent"}
      [] OTHER -> {c \in Children : child[c] = "active"}

MayCall == calls + faults < MaxEvents
MayFault == faults < MaxFaults /\ MayCall

(***************************************************************************)
(* API requests.                                                           *)
(***************************************************************************)
Signalled(c, op, target) ==
    caller' = [caller EXCEPT ![c] = [NoCall EXCEPT !.pc = "written", !.op = op, !.target = target]]

\* Handler Tenant.Update reads the whole row, and writes it back.
ReadForUpdate(c) ==
    /\ caller[c].pc = "idle" /\ MayCall
    /\ row.status # "absent"
    /\ calls' = calls + 1
    /\ caller' = [caller EXCEPT ![c] = [NoCall EXCEPT !.pc = "read", !.op = "update", !.saw = row,
                                                      !.saw.access = calls + 2]]
    /\ UNCHANGED <<row, child, acct, files, queue, wf, moves, restored, hitch, faults, circular, edit, relapsed>>

Update(c) ==
    /\ caller[c].pc = "read" /\ caller[c].op = "update"
    /\ row' = IF row.status = "absent" THEN row ELSE caller[c].saw
    /\ Signalled(c, "update", Home)
    /\ UNCHANGED <<child, acct, files, queue, wf, calls, moves, restored, hitch, faults, circular, edit, relapsed>>

ReadForRetry(c) ==
    /\ caller[c].pc = "idle" /\ MayCall
    /\ row.status = "failed"
    /\ calls' = calls + 1
    /\ caller' = [caller EXCEPT ![c] = [NoCall EXCEPT !.pc = "read", !.op = "retry"]]
    /\ UNCHANGED <<row, child, acct, files, queue, wf, moves, restored, hitch, faults, circular, edit, relapsed>>

\* UPDATE tenants SET status, which affects nothing when the row has gone.
statusSet(status) == IF row.status = "absent" THEN row ELSE [row EXCEPT !.status = status]

Retry(c) ==
    /\ caller[c].pc = "read" /\ caller[c].op = "retry"
    /\ row' = statusSet("provisioning")
    /\ Signalled(c, "create", Home)
    /\ UNCHANGED <<child, acct, files, queue, wf, calls, moves, restored, hitch, faults, circular, edit, relapsed>>

\* Delete, Suspend, Unsuspend and Migrate start with their write; the handler
\* has looked the tenant up before.
Write(c, op, target, status) ==
    /\ caller[c].pc = "idle" /\ MayCall
    /\ row.status # "absent"
    /\ calls' = calls + 1
    /\ row' = statusSet(status)
    /\ Signalled(c, op, target)
    /\ UNCHANGED <<child, acct, files, queue, wf, restored, hitch, faults, circular, edit, relapsed>>

Delete(c) == Write(c, "delete", Home, "deleting") /\ UNCHANGED moves
Suspend(c) == Write(c, "suspend", Home, "suspended") /\ UNCHANGED moves
Unsuspend(c) == Write(c, "unsuspend", Home, "pending") /\ UNCHANGED moves

Migrate(c, target) ==
    /\ moves < MaxMoves
    /\ moves' = moves + 1
    /\ Write(c, "migrate", target, "provisioning")

SignalTask(c) ==
    /\ caller[c].pc = "written"
    /\ queue' = Append(queue, [op |-> caller[c].op, target |-> caller[c].target])
    /\ caller' = [caller EXCEPT ![c] = NoCall]
    /\ UNCHANGED <<row, child, acct, files, wf, calls, moves, restored, hitch, faults, circular, edit, relapsed>>

\* The signal fails or the API process dies: the write stays.
SignalLost(c) ==
    /\ caller[c].pc = "written"
    /\ MayFault
    /\ faults' = faults + 1
    /\ caller' = [caller EXCEPT ![c] = NoCall]
    /\ UNCHANGED <<row, child, acct, files, queue, wf, calls, moves, restored, hitch, circular, edit, relapsed>>

\* Requests on a resource of the tenant, one at a time each.  The PUT of a
\* webroot or a zone loads the row and writes all of it back, status included;
\* a webroot's has a task queued, a zone's has not.  (The PATCH of a bucket
\* leaves the status alone, its workflow too.)
LoadChild(c) ==
    /\ c \in Web \union Zones
    /\ edit[c] = "none" /\ MayCall
    /\ child[c] # "absent"
    /\ calls' = calls + 1
    /\ edit' = [edit EXCEPT ![c] = child[c]]
    /\ UNCHANGED <<row, child, acct, files, queue, wf, caller, moves, restored, hitch, faults, circular, relapsed>>

PutChild(c) ==
    /\ edit[c] \in Statuses
    /\ child' = IF child[c] = "absent" THEN child ELSE [child EXCEPT ![c] = edit[c]]
    /\ edit' = [edit EXCEPT ![c] = IF c \in Zones THEN "none" ELSE "update"]
    /\ relapsed' = CASE edit[c] # "suspended" -> relapsed \ {c}
                     [] c \in Zones /\ child[c] \notin {"absent", "suspended"} -> relapsed \union {c}
                     [] OTHER -> relapsed
    /\ UNCHANGED <<row, acct, files, queue, wf, caller, calls, moves, restored, hitch, faults, circular>>

DeleteChild(c) ==
    /\ edit[c] = "none" /\ MayCall
    /\ child[c] # "absent"
    /\ calls' = calls + 1
    /\ child' = [child EXCEPT ![c] = "deleting"]
    /\ edit' = [edit EXCEPT ![c] = "delete"]
    /\ UNCHANGED <<row, acct, files, queue, wf, caller, moves, restored, hitch, faults, circular, relapsed>>

SignalChild(c) ==
    /\ edit[c] \in {"update", "delete"}
    /\ queue' = Append(queue, [op |-> IF edit[c] = "update" THEN "child_update" ELSE "child_delete",
                               child |-> c])
    /\ edit' = [edit EXCEPT ![c] = "none"]
    /\ UNCHANGED <<row, child, acct, files, wf, caller, calls, moves, restored, hitch, faults, circular, relapsed>>

SignalChildLost(c) ==
    /\ edit[c] \in {"update", "delete"}
    /\ MayFault
    /\ faults' = faults + 1
    /\ edit' = [edit EXCEPT ![c] = "none"]
    /\ UNCHANGED <<row, child, acct, files, queue, wf, caller, calls, moves, restored, hitch, circular, relapsed>>

(***************************************************************************)
(* The workflow in progress.                                               *)
(***************************************************************************)
StartTask ==
    /\ wf = Idle
    /\ queue # <<>> /\ Head(queue).op \in Ops
    /\ queue' = Tail(queue)
    /\ wf' = at([Idle EXCEPT !.op = Head(queue).op, !.target = Head(queue).target], 1)
    /\ restored' = FALSE
    /\ UNCHANGED <<row, child, acct, files, caller, calls, moves, hitch, faults, circular, edit, relapsed>>

\* A workflow of one of the resources, as a whole.
childAfter(c, ends) ==
    IF child[c] = "absent" THEN UNCHANGED child
    ELSE \E s \in ends : child' = [child EXCEPT ![c] = s]

RunChildTask ==
    /\ wf = Idle
    /\ queue # <<>> /\ Head(queue).op \notin Ops
    /\ queue' = Tail(queue)
    /\ childAfter(Head(queue).child,
                  {"failed", IF Head(queue).op = "child_delete" THEN "absent" ELSE "active"})
    /\ relapsed' = relapsed \ {Head(queue).child}
    /\ UNCHANGED <<row, acct, files, wf, caller, calls, moves, restored, hitch, faults, circular, edit>>

\* setResourceFailed
failed(r) == IF r.status = "absent" THEN r ELSE [r EXCEPT !.status = "failed"]

\* The workflow reports the failure and ends; its report may fail too.
Fail ==
    /\ wf' = Idle
    /\ hitch' = TRUE
    /\ \/ row' = failed(row) /\ UNCHANGED faults
       \/ MayFault /\ faults' = faults + 1 /\ UNCHANGED row

WriteStatus ==
    /\ wf # Idle /\ Step \in {"provisioning", "active", "deleting", "suspended", "unsuspended"}
    /\ row' = statusSet(IF Step = "unsuspended" THEN "active" ELSE Step)
    /\ Advance
    /\ UNCHANGED <<child, acct, files, queue, caller, calls, moves, restored, hitch, faults, circular, edit, relapsed>>

\* All attempts fail: Suspend and Unsuspend go on, the others return.
WriteStatusFails ==
    /\ wf # Idle /\ Step \in {"provisioning", "active", "deleting", "suspended", "unsuspended"}
    /\ MayFault
    /\ faults' = faults + 1
    /\ IF Step \in {"suspended", "unsuspended"} THEN Advance ELSE wf' = Idle
    /\ UNCHANGED <<row, child, acct, files, queue, caller, calls, moves, restored, hitch, circular, edit, relapsed>>

\* GetTenantByID, then ListNodesByShard (and GetShardByID for a migration)
Lookup ==
    /\ Running("lookup")
    /\ row.status # "absent"
    /\ wf' = at([wf EXCEPT !.shard = row.shard, !.access = row.access], wf.pc + 1)
    /\ circular' = (circular \/ (wf.op = "migrate" /\ NodesOf[wf.target] \intersect NodesOf[row.shard] # {}))
    /\ UNCHANGED <<row, child, acct, files, queue, caller, calls, moves, restored, hitch, faults, edit, relapsed>>

LookupFails ==
    /\ Running("lookup")
    /\ Fail
    /\ UNCHANGED <<child, acct, files, queue, caller, calls, moves, restored, circular, edit, relapsed>>

\* SuspendTenantWorkflow returns the first lookup's error without a report.
SuspendLookupFails ==
    /\ Running("lookup") /\ wf.op = "suspend"
    /\ MayFault
    /\ faults' = faults + 1
    /\ wf' = Idle
    /\ UNCHANGED <<row, child, acct, files, queue, caller, calls, moves, restored, hitch, circular, edit, relapsed>>

\* ListNodesByShard for the shard that a deletion empties or a migration leaves
ListMembers ==
    /\ Running("members")
    /\ \/ Advance /\ UNCHANGED <<row, hitch, faults>>
       \/ Fail
    /\ UNCHANGED <<child, acct, files, queue, caller, calls, moves, restored, circular, edit, relapsed>>

\* Group changes and usermod fail without the user; RemoveConfig ignores it.
NeedsAccount == {"SyncSSHConfig", "SuspendTenant", "UnsuspendTenant"}

userdel(x) == NoAccount

\* The account x after activity a, with the access settings of version v.
effect(a, v, x) ==
    CASE a = "CreateTenant"    -> [x EXCEPT !.present = TRUE]
      [] a = "SyncSSHConfig"   -> IF x.present THEN [x EXCEPT !.access = v] ELSE x
      [] a = "RemoveSSHConfig" -> [x EXCEPT !.access = 0]
      [] a = "SuspendTenant"   -> [x EXCEPT !.locked = TRUE]
      [] a = "UnsuspendTenant" -> [x EXCEPT !.locked = FALSE]
      [] a = "DeleteTenant"    -> userdel(x)
      [] OTHER -> x

\* The tenant's directory after activity a.
tree(a) ==
    CASE a = "CreateTenant" -> TRUE
      [] a = "DeleteTenant" -> FALSE
      [] OTHER -> files

Doing(n) == Activities(wf.op, Step)[wf.at[n]]

\* The next activity of node n, or none.
following(n) ==
    IF wf.at[n] < Len(Activities(wf.op, Step)) THEN wf.at[n] + 1 ELSE 0

NodeActivity(n) ==
    /\ wf # Idle /\ wf.at[n] # 0
    /\ Doing(n) \in NeedsAccount => acct[n].present
    /\ acct' = [acct EXCEPT ![n] = effect(Doing(n), wf.access, @)]
    /\ files' = tree(Doing(n))
    /\ wf' = [wf EXCEPT !.at[n] = following(n)]
    /\ UNCHANGED <<row, child, queue, caller, calls, moves, restored, hitch, faults, circular, edit, relapsed>>

\* What is left of the account when an activity fails: nothing was done, all
\* of it (the answer is lost), or SyncConfig left the groups and joined none.
leftBy(a, v, x) ==
    {x} \union (IF a \in NeedsAccount /\ ~x.present THEN {}
                ELSE {effect(a, v, x)} \union
                     (IF a = "SyncSSHConfig" THEN {[x EXCEPT !.access = 0]} ELSE {}))

\* After an error the deletion goes on with the node, the others skip the rest
\* of it, and a migration, which takes one node after the other, stops.
NodeActivityFails(n) ==
    /\ wf # Idle /\ wf.at[n] # 0
    /\ \E x \in leftBy(Doing(n), wf.access, acct[n]) : acct' = [acct EXCEPT ![n] = x]
    /\ files' \in {files, tree(Doing(n))}
    /\ wf' = [wf EXCEPT !.bad = TRUE,
                        !.at = CASE wf.op = "delete" /\ Step = "nodes" -> [@ EXCEPT ![n] = following(n)]
                                 [] wf.op = "migrate" /\ Step = "nodes" -> [m \in Nodes |-> 0]
                                 [] OTHER -> [@ EXCEPT ![n] = 0]]
    /\ hitch' = TRUE
    /\ UNCHANGED <<row, child, queue, caller, calls, moves, restored, faults, circular, edit, relapsed>>

\* Errors of the convergence and of leaving the old shard are only logged.
NodesDone ==
    /\ wf # Idle /\ Step \in NodeSteps
    /\ \A n \in Nodes : wf.at[n] = 0
    /\ IF Step = "nodes" /\ wf.bad THEN Fail ELSE Advance /\ UNCHANGED <<row, hitch, faults>>
    /\ UNCHANGED <<child, acct, files, queue, caller, calls, moves, restored, circular, edit, relapsed>>

\* The shard's desired state has this tenant only if its row says active.
GetShardDesiredState ==
    /\ Running("desired")
    /\ wf' = [at(wf, wf.pc + 1) EXCEPT
                !.access = row.access,
                !.at = [n \in Nodes |-> IF n \in NodesOf[wf.shard] /\ row.shard = wf.shard
                                            /\ row.status = "active" THEN 1 ELSE 0]]
    /\ UNCHANGED <<row, child, acct, files, queue, caller, calls, moves, restored, hitch, faults, circular, edit, relapsed>>

\* The resources that the workflow goes on to: pending ones are created,
\* active ones suspended, suspended ones restored, those elsewhere deleted.
Listed ==
    CASE wf.op = "create"    -> {c \in Children : child[c] = "pending"}
      [] wf.op = "suspend"   -> {c \in Children : child[c] = "active"}
      [] wf.op = "unsuspend" -> {c \in Children : child[c] = "suspended"}
      [] wf.op = "delete"    -> {c \in CrossShard : child[c] # "absent"}

ListChildren ==
    /\ Running("list")
    /\ wf' = at([wf EXCEPT !.list = Listed], wf.pc + 1)
    /\ UNCHANGED <<row, child, acct, files, queue, caller, calls, moves, restored, hitch, faults, circular, edit, relapsed>>

\* A list that cannot be read is taken for empty.
ListChildrenFails ==
    /\ Running("list")
    /\ MayFault
    /\ faults' = faults + 1
    /\ \E some \in SUBSET Listed : wf' = at([wf EXCEPT !.list = some], wf.pc + 1)
    /\ UNCHANGED <<row, child, acct, files, queue, caller, calls, moves, restored, hitch, circular, edit, relapsed>>

\* SuspendResource, UnsuspendResource, or a child workflow
ChildStep(c) ==
    /\ Running("children")
    /\ c \in wf.list
    /\ childAfter(c, CASE wf.op = "create"    -> {"active", "failed"}
                       [] wf.op = "suspend"   -> {"suspended"}
                       [] wf.op = "unsuspend" -> {"active"}
                       [] wf.op = "delete"    -> {"absent", "failed"})
    /\ wf' = [wf EXCEPT !.list = @ \ {c}]
    /\ relapsed' = relapsed \ {c}
    /\ UNCHANGED <<row, acct, files, queue, caller, calls, moves, restored, hitch, faults, circular, edit>>

\* The status of a resource cannot be written; the error is ignored.
ChildStepFails(c) ==
    /\ Running("children") /\ wf.op \in {"suspend", "unsuspend"}
    /\ c \in wf.list
    /\ MayFault
    /\ faults' = faults + 1
    /\ wf' = [wf EXCEPT !.list = @ \ {c}]
    /\ UNCHANGED <<row, child, acct, files, queue, caller, calls, moves, restored, hitch, circular, edit, relapsed>>

ChildrenDone ==
    /\ Running("children")
    /\ wf.list = {}
    /\ Advance
    /\ restored' = (wf.op = "unsuspend")
    /\ UNCHANGED <<row, child, acct, files, queue, caller, calls, moves, hitch, faults, circular, edit, relapsed>>

\* CreateWebroot and SetLBMapEntry of a migration
MigrateWebroots ==
    /\ Running("webroots")
    /\ \/ Advance /\ UNCHANGED <<row, hitch, faults>>
       \/ Fail
    /\ UNCHANGED <<child, acct, files, queue, caller, calls, moves, restored, circular, edit, relapsed>>

UpdateTenantShardID ==
    /\ Running("move")
    /\ \/ row' = [row EXCEPT !.shard = wf.target] /\ Advance /\ UNCHANGED <<hitch, faults>>
       \/ Fail
    /\ UNCHANGED <<child, acct, files, queue, caller, calls, moves, restored, circular, edit, relapsed>>

\* The columns by which DeleteTenantDBRows selects rows of tables that have no
\* tenant_id, and the ones that the migrations give these tables.
Selected ==
    {<<"email_autoreplies", "account_id">>, <<"email_forwards", "account_id">>,
     <<"email_aliases", "account_id">>, <<"email_accounts", "fqdn_id">>,
     <<"certificates", "fqdn_id">>, <<"database_users", "database_id">>,
     <<"valkey_users", "valkey_instance_id">>, <<"s3_access_keys", "bucket_id">>,
     <<"zone_records", "zone_id">>}

Columns ==
    {<<"email_autoreplies", "email_account_id">>, <<"email_forwards", "email_account_id">>,
     <<"email_aliases", "email_account_id">>, <<"email_accounts", "fqdn_id">>,
     <<"certificates", "fqdn_id">>, <<"database_users", "database_id">>,
     <<"valkey_users", "valkey_instance_id">>, <<"s3_access_keys", "s3_bucket_id">>,
     <<"zone_records", "zone_id">>}

\* One transaction, which a statement that names no column rolls back.
DeleteTenantDBRows ==
    /\ Running("rows")
    /\ IF Selected \subseteq Columns
       THEN /\ row' = [row EXCEPT !.status = "absent"]
            /\ child' = [c \in Children |-> "absent"]
            /\ Advance /\ UNCHANGED <<hitch, faults>>
       ELSE Fail /\ UNCHANGED child
    /\ UNCHANGED <<acct, files, queue, caller, calls, moves, restored, circular, edit, relapsed>>

Worker ==
    \/ StartTask \/ RunChildTask \/ WriteStatus \/ WriteStatusFails
    \/ Lookup \/ LookupFails \/ SuspendLookupFails \/ ListMembers
    \/ \E n \in Nodes : NodeActivity(n) \/ NodeActivityFails(n)
    \/ NodesDone \/ GetShardDesiredState
    \/ ListChildren \/ ListChildrenFails \/ ChildrenDone
    \/ \E c \in Children : ChildStep(c) \/ ChildStepFails(c)
    \/ MigrateWebroots \/ UpdateTenantShardID \/ DeleteTenantDBRows

Request(c) ==
    \/ ReadForUpdate(c) \/ Update(c) \/ ReadForRetry(c) \/ Retry(c)
    \/ Delete(c) \/ Suspend(c) \/ Unsuspend(c) \/ \E s \in Targets : Migrate(c, s)
    \/ SignalTask(c) \/ SignalLost(c)

Next ==
    \/ Worker
    \/ \E c \in Callers : Request(c)
    \/ \E c \in Children : LoadChild(c) \/ PutChild(c) \/ DeleteChild(c) \/ SignalChild(c) \/ SignalChildLost(c)

Spec == Init /\ [][Next]_vars

-----------------------------------------------------------------------------
(***************************************************************************)
(* Properties.                                                             *)
(***************************************************************************)
RunOK ==
    /\ wf \in Runs
    /\ wf # Idle =>
          /\ wf.op \in Ops
          /\ wf.pc \in 1..Len(Program(wf.op))
          /\ \A n \in Nodes : wf.at[n] # 0 =>
                Step \in NodeSteps /\ wf.at[n] \in 1..Len(Activities(wf.op, Step))

TypeOK ==
    /\ row \in Rows
    /\ child \in [Children -> Statuses]
    /\ acct \in [Nodes -> Accounts]
    /\ \A n \in Nodes : ~acct[n].present => acct[n] = NoAccount
    /\ files \in BOOLEAN
    /\ queue \in Seq(Tasks)
    /\ RunOK
    /\ caller \in [Callers -> Calls]
    /\ \A c \in Callers : caller[c].pc = "written" => caller[c].op \in Ops
    /\ calls \in 0..MaxEvents /\ moves \in 0..MaxMoves /\ faults \in 0..MaxFaults
    /\ restored \in BOOLEAN /\ hitch \in BOOLEAN /\ circular \in BOOLEAN
    /\ edit \in [Children -> Statuses \union {"none", "update", "delete"}] /\ relapsed \subseteq Zones

Quiet == /\ wf = Idle /\ queue = <<>> /\ \A c \in Callers : caller[c] = NoCall
         /\ \A c \in Children : edit[c] = "none"

\* When the queue has drained and no request is in progress, the tenant's
\* status has settled, although every request writes the row by itself and
\* Update writes a status back that may be stale.
SettledWhenQuiet ==
    Quiet /\ faults = 0 => row.status \in {"absent", "active", "suspended", "failed"}

\* A quiet tenant that is reported suspended cannot log in on any node of its
\* shard, whatever was requested at the same time and whichever nodes failed.
SuspendedIsLocked ==
    Quiet /\ faults = 0 /\ row.status = "suspended" =>
        \A n \in NodesOf[row.shard] : acct[n].present => acct[n].locked

\* A quiet tenant that is reported active or suspended has its account on all
\* nodes of the shard its row names: neither a deletion that has emptied the
\* nodes, nor an Update that writes the old shard back after a migration,
\* nor one migration after the other passes for success. (A migration to the
\* shard that the tenant is on does: it leaves the nodes it has moved to.)
InServiceIsPresent ==
    Quiet /\ faults = 0 /\ ~circular /\ row.status \in {"active", "suspended"} =>
        \A n \in NodesOf[row.shard] : acct[n].present

\* As long as nothing has failed, an active tenant that was not
\* migrated has the row's access settings on all nodes, however its requests
\* interleave (a migration does not set them, and unsuspending hides that an
\* earlier update has failed).
ActiveHasAccess ==
    Quiet /\ faults = 0 /\ ~hitch /\ moves = 0 /\ row.status = "active" =>
        \A n \in NodesOf[row.shard] : acct[n].access = row.access

\* Both together: what the row of a quiet tenant says of its accounts is so on
\* every node of the shard it names.
AccountsMatchRow == InServiceIsPresent /\ ActiveHasAccess

\* An unsuspension that has run to its end, with nothing queued behind it,
\* leaves no resource of the tenant suspended, although requests on them write
\* back a status that they loaded before.  Only the PUT of a zone suspends it
\* again, having nothing queued behind it; the next unsuspension restores it.
UnsuspendRestores ==
    Quiet /\ faults = 0 /\ restored =>
        \A c \in Children : child[c] = "suspended" => c \in relapsed

\* The tenant's files go only when the tenant is deleted ("moves a tenant from
\* its current shard to a target shard within the same cluster").
FilesKept == [][files /\ ~files' => wf.op = "delete"]_vars

\* A deletion that has emptied the nodes takes the tenant out of the database
\* when it ends ("bulk-deletes all remaining child rows and the tenant itself
\* in a single transaction").
DeletionCompletes == [][Running("rows") /\ wf' = Idle => row'.status = "absent"]_vars

=============================================================================
