----------------------------- MODULE ApiServer -----------------------------
(* The API server: requests on one row of one kind, each a program of         *)
(* ApiHandlers, interleaved with one another, with the worker that runs the   *)
(* tasks they queue and with the disappearance of what the row hangs on.      *)
(*                                                                            *)
(* A row is its ID and its status. The other columns matter in one respect    *)
(* only, which statements write them, so they are left out. A request holds   *)
(* the copies of the status of the row and of its parent that its handler     *)
(* has loaded, and what it has changed so far. Of a kind without a unique key *)
(* a second INSERT makes a row of its own, which is another instance of this  *)
(* specification; here it conflicts.                                          *)
EXTENDS ApiHandlers, Naturals, FiniteSets, TLC

CONSTANTS
    Requests,     \* the requests served, each once
    MaxFaults     \* the failures of Temporal, of workflows and of their writes

ASSUME FaultsAssumption == MaxFaults \in Nat

VARIABLES
    kind,         \* the kind of the row
    row,          \* the row in the core database, or NoRow
    parent,       \* the status of what the row hangs on, or "gone"
    req,          \* the requests
    tasks,        \* the tasks waiting in the queue
    running,      \* the task whose workflow runs, or NoTask
    nextId,       \* the next ID platform.NewID returns
    faults,       \* the failures so far
    troubled,     \* history: a task was lost, or a stale status written back
    doomed,       \* history: the rows whose deletion was accepted
    spared,       \* history: the rows that a workflow failed to delete
    stuck         \* history: the rows a failed workflow left waiting for work

history == <<troubled, doomed, spared, stuck>>
vars == <<kind, row, parent, req, tasks, running, nextId, faults, history>>

Kinds == DOMAIN Routes
NoRow == [id |-> 0, status |-> "none"]
NoTask == [op |-> "none", id |-> 0]
Idle == [op |-> "none", pc |-> 0, id |-> 0, status |-> "none", parent |-> "none",
         mark |-> "none", answer |-> 0]

(* The kinds that hang on no other row, and those that go with the row they   *)
(* hang on (ON DELETE CASCADE); the others keep it (a foreign key).           *)
Roots == {"api_key", "region", "brand"}
Cascading == {"lb_address", "zone_record", "database_user", "valkey_user",
              "s3_access_key", "env_var"}

(* The task of an environment variable updates the webroot, not the row.      *)
OfParent == {"env_var"}

Program(k, op) == Auth \o Routes[k][op]
Step(r) == Program(kind, req[r].op)[req[r].pc]
Active(r) == req[r].op # "none" /\ req[r].answer = 0
Mine(r) == row.id # 0 /\ row.id = req[r].id

(* The request goes on with the next step of its handler, as the record q.    *)
Advance(r, q) == req' = [req EXCEPT ![r] = [q EXCEPT !.pc = @ + 1]]

(* WriteError, WriteServiceError, WriteJSON: the handler answers and returns. *)
Answer(r, code) == req' = [req EXCEPT ![r].answer = code]

(* The codes of the checks that depend on the request alone.                  *)
Refusals ==
    [auth |-> {401, 403}, input |-> {400}, brand |-> {403}, managed |-> {403},
     parse |-> {500}, nested |-> {500}, nestedInput |-> {400},
     nestedTx |-> {400, 409, 500}, link |-> {400, 409}]

(* WriteServiceError: the code of a failed foreign key, a violated unique key *)
(* and a row that is not there.                                               *)
WriteServiceError == [foreignKey |-> 400, unique |-> 409, noRows |-> 404, other |-> 500]

UnchangedByChecks == UNCHANGED <<kind, row, parent, tasks, running, nextId, faults,
                                 history>>

-----------------------------------------------------------------------------
(* Requests.                                                                  *)

(* A request arrives. It names the row there is, or one that is gone.         *)
Arrive(r) ==
    /\ req[r].op = "none"
    /\ \E op \in DOMAIN Routes[kind] :
          req' = [req EXCEPT ![r] = [Idle EXCEPT !.op = op, !.pc = 1,
                     !.id = IF op \in {"create", "set", "put"} THEN 0 ELSE row.id]]
    /\ UnchangedByChecks

(* A check on the request alone: it may pass or fail.                         *)
Check(r) ==
    /\ Active(r) /\ Step(r) \in DOMAIN Refusals
    /\ \/ Advance(r, IF Step(r) = "link" THEN [req[r] EXCEPT !.mark = "wrote"] ELSE req[r])
       \/ \E code \in Refusals[Step(r)] : Answer(r, code)
    /\ UnchangedByChecks

(* GetByID and the like: the handler's copy of the row.                       *)
Load(r) ==
    /\ Active(r) /\ Step(r) \in {"get", "reload", "find", "resolve"}
    /\ IF Mine(r) \/ (Step(r) = "find" /\ row # NoRow)
       THEN Advance(r, [req[r] EXCEPT !.id = row.id, !.status = row.status])
       ELSE Answer(r, WriteServiceError.noRows)
    /\ UnchangedByChecks

(* checkTenantBrand: the tenant is gone, or of a brand the key has no access to. *)
checkTenantBrand(r) ==
    /\ Active(r) /\ Step(r) = "tenant"
    /\ \/ parent # "gone" /\ Advance(r, req[r])
       \/ parent # "gone" /\ Answer(r, 403)
       \/ parent = "gone" /\ Answer(r, 404)
    /\ UnchangedByChecks

(* The rows this one hangs on. The copy loaded by "parent" is what            *)
(* "parentActive" looks at.                                                   *)
CheckParent(r) ==
    /\ Active(r)
    /\ \/ /\ Step(r) \in {"parent", "read", "lookup", "parentInput"}
          /\ IF parent # "gone" THEN Advance(r, [req[r] EXCEPT !.parent = parent])
             ELSE Answer(r, CASE Step(r) \in {"parent", "read"} -> 404
                              [] Step(r) = "parentInput" -> 400
                              [] OTHER -> 500)
       \/ /\ Step(r) = "parentActive"
          /\ IF req[r].parent = "active" THEN Advance(r, req[r]) ELSE Answer(r, 400)
    /\ UnchangedByChecks

(* INSERT. The foreign key and the unique key are the only guards of a        *)
(* creation that hold when it takes place.                                    *)
Insert(r) ==
    /\ Active(r) /\ Step(r) \in {"insert", "insertActive", "upsert"}
    /\ CASE parent = "gone" ->
              Answer(r, WriteServiceError.foreignKey) /\ UNCHANGED <<row, nextId>>
         [] parent # "gone" /\ row # NoRow /\ Step(r) # "upsert" ->
              Answer(r, WriteServiceError.unique) /\ UNCHANGED <<row, nextId>>
         [] parent # "gone" /\ row # NoRow /\ Step(r) = "upsert" ->
              /\ row' = [row EXCEPT !.status = "pending"]
              /\ Advance(r, [req[r] EXCEPT !.id = row.id, !.mark = "wrote"])
              /\ UNCHANGED nextId
         [] OTHER ->
              /\ row' = [id |-> nextId,
                         status |-> IF Step(r) = "insertActive" THEN "active" ELSE "pending"]
              /\ nextId' = nextId + 1
              /\ Advance(r, [req[r] EXCEPT !.id = nextId, !.mark = "wrote"])
    /\ UNCHANGED <<kind, parent, tasks, running, faults, history>>

(* The handler queues work after this step.                                   *)
WillSignal(r) == \E i \in req[r].pc .. Len(Program(kind, req[r].op)) :
                    Program(kind, req[r].op)[i] = "signal"

(* A save that inserts the row it does not find (INSERT ... ON CONFLICT).     *)
UpdateAsUpsert(r) ==
    /\ Active(r) /\ Step(r) \in {"write", "writeAll", "write!"}
    /\ LET status == IF Step(r) = "writeAll" THEN req[r].status ELSE row.status IN
       row' = IF Mine(r) THEN [row EXCEPT !.status = status]
              ELSE IF row = NoRow /\ req[r].id # 0 THEN [id |-> req[r].id, status |-> "active"]
              ELSE row
    /\ Advance(r, IF Mine(r) THEN [req[r] EXCEPT !.mark = "wrote"] ELSE req[r])
    /\ UNCHANGED <<kind, parent, tasks, running, nextId, faults, history>>

(* UPDATE ... WHERE id: no row, no effect. writeAll writes the status that    *)
(* the handler has loaded.                                                    *)
Update(r) ==
    /\ Active(r) /\ Step(r) \in {"write", "writeAll", "write!"}
    /\ IF ~Mine(r) /\ Step(r) = "write!"
       THEN Answer(r, 404) /\ UNCHANGED <<row, troubled>>
       ELSE LET status == IF Step(r) = "writeAll" THEN req[r].status ELSE row.status IN
            /\ row' = IF Mine(r) THEN [row EXCEPT !.status = status] ELSE row
            /\ troubled' = (troubled \/ (Mine(r) /\ status # row.status /\ ~WillSignal(r)))
            /\ Advance(r, IF Mine(r) THEN [req[r] EXCEPT !.mark = "wrote"] ELSE req[r])
    /\ UNCHANGED <<kind, parent, tasks, running, nextId, faults, doomed, spared, stuck>>

(* UPDATE ... SET status. *)
Marks == {"deleting", "provisioning", "pending", "suspended", "active", "auto_disabled"}

SetStatus(r) ==
    /\ Active(r)
    /\ \/ /\ Step(r) \in Marks
          /\ row' = IF Mine(r) THEN [row EXCEPT !.status = Step(r)] ELSE row
          /\ Advance(r, IF Mine(r) THEN [req[r] EXCEPT !.mark = "wrote"] ELSE req[r])
       \/ /\ Step(r) = "deleting!" /\ Mine(r)
          /\ row' = [row EXCEPT !.status = "deleting"]
          /\ Advance(r, [req[r] EXCEPT !.mark = "wrote"])
       \/ /\ Step(r) = "deleting!" /\ ~Mine(r)
          /\ Answer(r, WriteServiceError.noRows)
          /\ UNCHANGED row
    /\ UNCHANGED <<kind, parent, tasks, running, nextId, faults, history>>

(* The status an operation starts from, read in a statement of its own.       *)
From ==
    [failed |-> {"failed"}, active |-> {"active"},
     activeOrDisabled |-> {"active", "auto_disabled"},
     failedOrDisabled |-> {"failed", "auto_disabled"}]
Guards ==
    [g \in {"failed?", "active?", "activeOrDisabled?", "failedOrDisabled?"} |->
        CASE g = "failed?" -> From.failed
          [] g = "active?" -> From.active
          [] g = "activeOrDisabled?" -> From.activeOrDisabled
          [] g = "failedOrDisabled?" -> From.failedOrDisabled]

Guard(r) ==
    /\ Active(r)
    /\ \/ /\ Step(r) \in DOMAIN Guards
          /\ CASE ~Mine(r) -> Answer(r, WriteServiceError.noRows)
               [] Mine(r) /\ row.status \notin Guards[Step(r)] ->
                     Answer(r, WriteServiceError.other)
               [] OTHER -> Advance(r, req[r])
       \/ /\ Step(r) = "ifFailed"
          /\ CASE ~Mine(r) -> Answer(r, WriteServiceError.noRows)
               [] Mine(r) /\ row.status = "failed" -> Advance(r, req[r])
               [] OTHER -> Answer(r, 202)
       \/ /\ Step(r) = "exists"
          /\ IF Mine(r) THEN Advance(r, req[r]) ELSE Answer(r, WriteServiceError.other)
    /\ UnchangedByChecks

(* ReportCronOutcome: below the limit of failures nothing more happens.       *)
Count(r) ==
    /\ Active(r) /\ Step(r) = "count"
    /\ \/ Mine(r) /\ Advance(r, req[r])
       \/ Mine(r) /\ Answer(r, 200)
       \/ ~Mine(r) /\ Answer(r, 200)
       \/ ~Mine(r) /\ Answer(r, WriteServiceError.noRows)
    /\ UnchangedByChecks

(* DELETE. The tasks of a row that is gone stay in the queue.                 *)
Delete(r) ==
    /\ Active(r) /\ Step(r) \in {"delete", "delete!", "clear", "clear!", "unlink"}
    /\ LET mine == IF Step(r) \in {"clear", "clear!"} THEN row # NoRow ELSE Mine(r)
       IN  CASE Step(r) = "unlink" ->
                  Advance(r, [req[r] EXCEPT !.mark = "wrote"]) /\ UNCHANGED row
             [] Step(r) # "unlink" /\ mine ->
                  \/ row' = NoRow /\ Advance(r, [req[r] EXCEPT !.mark = "removed"])
                  \/ /\ Step(r) = "delete"
                     /\ Answer(r, WriteServiceError.foreignKey)
                     /\ UNCHANGED row
             [] Step(r) \in {"delete", "clear"} /\ ~mine ->
                  Advance(r, req[r]) /\ UNCHANGED row
             [] OTHER -> Answer(r, WriteServiceError.other) /\ UNCHANGED row
    /\ UNCHANGED <<kind, parent, tasks, running, nextId, faults, history>>

(* signalProvision: the task joins the queue, or Temporal does not answer.    *)
signalProvision(r) ==
    /\ Active(r) /\ Step(r) \in {"signal", "signal?"}
    /\ \/ /\ tasks' = Append(tasks, [op |-> req[r].op, id |-> req[r].id])
          /\ Advance(r, req[r])
          /\ UNCHANGED <<faults, troubled>>
       \/ /\ faults < MaxFaults
          /\ faults' = faults + 1
          /\ troubled' = TRUE
          /\ IF Step(r) = "signal" THEN Answer(r, WriteServiceError.other)
             ELSE Advance(r, req[r])
          /\ UNCHANGED tasks
    /\ UNCHANGED <<kind, row, parent, running, nextId, doomed, spared, stuck>>

Codes ==
    [c \in {"200", "201", "202", "204"} |->
        CASE c = "200" -> 200 [] c = "201" -> 201 [] c = "202" -> 202 [] c = "204" -> 204]

Respond(r) ==
    /\ Active(r) /\ Step(r) \in DOMAIN Codes
    /\ Answer(r, Codes[Step(r)])
    /\ doomed' = IF req[r].op = "delete" THEN doomed \union {req[r].id} ELSE doomed
    /\ UNCHANGED <<kind, row, parent, tasks, running, nextId, faults, troubled, spared, stuck>>

-----------------------------------------------------------------------------
(* The worker.                                                                *)

(* FQDNService.Retry names a workflow that no worker registers.               *)
Registered(t) == ~(kind = "fqdn" /\ t.op = "retry")

(* SyncEgressRulesWorkflow takes the rules of the tenant as it finds them,    *)
(* whatever the request was about.                                            *)
Synced == {"egress_rule"}

(* The task's workflow works on the row.                                      *)
Concerns(t) == /\ kind \notin OfParent /\ row # NoRow
               /\ kind \in Synced \/ row.id = t.id

(* UpdateS3BucketWorkflow writes no status. The deletions of a backup and of  *)
(* an SSH key and the suspension of a tenant write the last one only.         *)
WritesStatus(t) == <<kind, t.op>> # <<"s3_bucket", "update">>
Announces(t) ==
    /\ Registered(t) /\ WritesStatus(t)
    /\ <<kind, t.op>> \notin {<<"backup", "delete">>, <<"ssh_key", "delete">>,
                             <<"tenant", "suspend">>}

(* DeleteSubscriptionWorkflow reports no failure, and that of a sync of the   *)
(* egress rules is written to a rule with the ID of the tenant.               *)
ReportsFailure(t) == WritesStatus(t) /\ kind \notin {"subscription"} \cup Synced

(* SetTenantEgressRulesProvisioning and FinalizeTenantEgressRules.            *)
SetTenantEgressRulesProvisioning ==
    IF row.status \in {"pending", "deleting", "failed"}
    THEN [row EXCEPT !.status = "provisioning"] ELSE row
FinalizeTenantEgressRules ==
    CASE row.status = "provisioning" -> [row EXCEPT !.status = "active"]
      [] row.status = "deleting" -> NoRow
      [] OTHER -> row

(* What a workflow writes first and last.                                     *)
First(t) == IF kind \in Synced THEN SetTenantEgressRulesProvisioning
            ELSE [row EXCEPT !.status = IF t.op = "delete" THEN "deleting" ELSE "provisioning"]
Last(t) == IF kind \in Synced THEN FinalizeTenantEgressRules
           ELSE IF t.op = "delete" THEN NoRow
           ELSE [row EXCEPT !.status = IF t.op = "suspend" THEN "suspended" ELSE "active"]

Settled == {"active", "failed", "suspended", "auto_disabled"}

(* A failed workflow leaves the row waiting, or a later one settles it.       *)
Sticks == stuck' = IF row.status \in Settled THEN stuck ELSE stuck \cup {row.id}
Settles == stuck' = stuck \ {row.id}

(* The deletion of this row has ended without removing it.                    *)
Spares(t) == spared' = IF t.op = "delete" THEN spared \union {t.id} ELSE spared

(* A workflow starts with the row it loads: without it, it fails at once.     *)
Begin ==
    /\ running = NoTask /\ tasks # <<>>
    /\ tasks' = Tail(tasks)
    /\ running' = IF kind \in OfParent \cup Synced \/ Concerns(Head(tasks))
                  THEN Head(tasks) ELSE NoTask
    /\ row' = IF Concerns(Head(tasks)) /\ Announces(Head(tasks)) THEN First(Head(tasks)) ELSE row
    /\ UNCHANGED <<kind, parent, req, nextId, faults, history>>

(* The first UpdateResourceStatus fails and the workflow returns.             *)
BeginFails ==
    /\ running = NoTask /\ tasks # <<>> /\ faults < MaxFaults
    /\ Concerns(Head(tasks)) /\ Announces(Head(tasks))
    /\ tasks' = Tail(tasks)
    /\ faults' = faults + 1
    /\ Sticks /\ Spares(Head(tasks))
    /\ UNCHANGED <<kind, row, parent, req, running, nextId, troubled, doomed>>

(* The workflow ends: its last UpdateResourceStatus writes whatever the row   *)
(* is by then.                                                                *)
Finish ==
    /\ running # NoTask /\ Registered(running)
    /\ running' = NoTask
    /\ IF Concerns(running) /\ WritesStatus(running)
       THEN /\ row' = Last(running)
            /\ IF row' = NoRow THEN UNCHANGED spared ELSE Spares(running)
            /\ IF row'.status \in Settled THEN Settles ELSE UNCHANGED stuck
       ELSE UNCHANGED <<row, spared, stuck>>
    /\ UNCHANGED <<kind, parent, req, tasks, nextId, faults, troubled, doomed>>

(* The workflow fails. setResourceFailed marks the row, and the tenant may    *)
(* delete once more; but the row stays as it is when that write fails too,    *)
(* when the last UpdateResourceStatus is what failed, a DELETE that a foreign *)
(* key refuses for one, and with a workflow that reports no failure.          *)
Fail ==
    /\ running # NoTask /\ Registered(running) /\ faults < MaxFaults
    /\ faults' = faults + 1
    /\ running' = NoTask
    /\ \/ /\ Concerns(running) /\ ReportsFailure(running)
          /\ row' = [row EXCEPT !.status = "failed"]
          /\ Settles
       \/ /\ UNCHANGED row
          /\ IF Concerns(running) /\ WritesStatus(running) THEN Sticks ELSE UNCHANGED stuck
    /\ Spares(running)
    /\ UNCHANGED <<kind, parent, req, tasks, nextId, troubled, doomed>>

(* What the row hangs on is deleted by a workflow of its own.                 *)
ParentGone ==
    /\ parent # "gone" /\ kind \notin Roots
    /\ kind \notin Cascading => row = NoRow
    /\ parent' = "gone" /\ row' = NoRow
    /\ UNCHANGED <<kind, req, tasks, running, nextId, faults, history>>

-----------------------------------------------------------------------------
(* The row exists or not, provisioned, failed, or with its first task lost.   *)
Init ==
    /\ kind \in Kinds
    /\ row \in {NoRow} \union [id : {1}, status : {"active", "failed", "pending"}]
    /\ parent \in {"active", "pending"}
    /\ req = [r \in Requests |-> Idle]
    /\ tasks = <<>> /\ running = NoTask
    /\ nextId = 2 /\ faults = 0
    /\ troubled = (row.status = "pending")
    /\ doomed = {} /\ spared = {} /\ stuck = {}

Serve(r) ==
    \/ Arrive(r) \/ Check(r) \/ Load(r) \/ checkTenantBrand(r) \/ CheckParent(r)
    \/ Insert(r) \/ Update(r) \/ SetStatus(r) \/ Guard(r) \/ Count(r) \/ Delete(r)
    \/ signalProvision(r) \/ Respond(r)

Next == (\E r \in Requests : Serve(r)) \/ Begin \/ BeginFails \/ Finish \/ Fail \/ ParentGone

Spec == Init /\ [][Next]_vars

-----------------------------------------------------------------------------
(* Properties.                                                                *)

TypeOK ==
    /\ kind \in Kinds
    /\ row \in [id : Nat, status : Marks \union {"none", "failed"}]
    /\ parent \in {"active", "pending", "gone"}
    /\ \A r \in Requests : req[r].mark \in {"none", "wrote", "removed"}
    /\ nextId \in Nat /\ faults \in 0 .. MaxFaults
    /\ troubled \in BOOLEAN /\ doomed \union spared \union stuck \subseteq Nat

(* The operations whose handler or service refuses after its first write:     *)
(* the users nested in a new database are validated once the database has     *)
(* been created, and the rows that link a node to its shards, a brand to its  *)
(* clusters and a webroot to its variables are inserted after the old ones    *)
(* have been deleted, outside of a transaction.                               *)
NotAtomic ==
    {<<"database", "create">>, <<"node", "create">>, <<"node", "update">>,
     <<"brand", "setClusters">>, <<"env_var", "set">>}

Refused(r) == req[r].answer \in 400 .. 499

(* A request that the server answers with 4xx has left nothing behind, and    *)
(* has removed nothing but what went with the row's parent anyway: the checks *)
(* of the handlers and services precede their writes, and a statement         *)
(* that finds no row after a write finds none because the row is gone, with   *)
(* every interleaving of two requests and the worker (the handlers, and       *)
(* WriteServiceError in internal/api/response/response.go).                   *)
RefusedHasNoEffect ==
    \A r \in Requests :
       (Refused(r) /\ <<kind, req[r].op>> \notin NotAtomic) =>
          /\ req[r].mark = "removed" => parent = "gone"
          /\ req[r].mark = "wrote" => row.id # req[r].id

AtRest == /\ \A r \in Requests : ~Active(r)
          /\ tasks = <<>> /\ running = NoTask

(* The kinds for which some handler queues work.                              *)
Tasked == {k \in Kinds : \E op \in DOMAIN Routes[k] :
              \E i \in DOMAIN Routes[k][op] : Routes[k][op][i] = "signal"}

(* Once the requests are answered and the queue is empty, no row is left in a *)
(* status that promises more work, whatever the order in which two handlers   *)
(* and the workflows wrote it: every handler that writes such a status queues *)
(* a task after it, and the last workflow settles it. Excused are a lost      *)
(* signal; the PUTs of a zone and of a shard, which write back the status     *)
(* they have loaded and queue nothing; and the row (it alone, and only until  *)
(* a later workflow settles it) that a failed workflow leaves as it was: the  *)
(* first or the last status write failed, the final DELETE was refused, the   *)
(* report of the failure was lost, or the workflow makes none.                *)
AcceptedTakesEffect ==
    (AtRest /\ ~troubled /\ kind \in Tasked /\ row # NoRow /\ row.id \notin stuck)
        => row.status \in Settled

(* A row whose deletion was accepted is gone once the queue is empty, unless  *)
(* the deletion's workflow failed, or was a sync of egress rules that found   *)
(* the rule to be provisioned and ended with it, and no request that          *)
(* overlapped it brings it back (the Delete services, and the UPDATEs of the  *)
(* others).                                                                   *)
DeleteRemoves == (AtRest /\ ~troubled /\ row # NoRow) => row.id \notin doomed \ spared
=============================================================================
