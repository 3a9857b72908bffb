# A TLA+ verification project for the hosting platform

The platform sells shared web hosting: an HTTP API writes what customers want
into a PostgreSQL database, Temporal workflows carry it out on the nodes of a
cluster, and schedules watch over the machines. This directory models the parts
of it where several actors work on the same state, checks them with TLC on small
instances, and proves the central facts with TLAPS for instances of any size.
Paths below are relative to the repository, those of Go files to `internal/`.

## 1. Inventory

| Component | State | Operations | Talks to | What is hard | What makes it correct |
|---|---|---|---|---|---|
| HTTP API (`api/`, `core/*.go`) | a row per resource | handlers and services, statement by statement | queue, all tables | two requests and the worker write one row; nothing is a transaction | a refused request has no effect, an accepted one takes effect |
| Provisioning queue (`core/provision.go`, `workflow/provision.go`) | one entity workflow per tenant: its signal channel, its child, a counter | `signalProvision`; receive, execute the child, idle timeout, continue-as-new | every service, Temporal | signals against timeouts and continuations | one task at a time, in order, none lost |
| Resource workflows (`workflow/*.go`) | status and configuration of a row, configuration on nodes, in DNS, mail and S3 servers | create, update, delete, retry, enable, disable, restore | queue, node agents | requests change the row while older tasks run; nodes fail one by one | the status settles, and tells the truth about the nodes |
| Egress rules (`core/tenant_egress_rule.go`, `workflow/tenant_egress_rule.go`) | rows, an nftables chain per node | create, delete; sync of the whole set | queue, agents | rules change between the statements of a sync | an active rule is enforced, a deleted one is not |
| Tenants (`core/tenant.go`, `workflow/tenant.go`, `workflow/migrate_tenant.go`) | row, rows of its resources, account per node, directory on CephFS | create, update, suspend, unsuspend, migrate, delete, retry | queue, agents, all resources | requests write the status at once, their workflows come later; many phases, each can fail | a suspended tenant is locked out, one in service is present |
| Node agent (`agent/`, `activity/node_local.go`) | files, users, units, chains of one machine | one per activity | Temporal | activities run at least once and stop anywhere | what reported success is complete; every operation can be repeated |
| Shard convergence (`workflow/converge_shard.go`) | a snapshot of the desired state, the shard's status | converge, the monitor of stuck shards | all resources, agents | a snapshot is applied while the rows change; errors are collected | nodes end up as the rows say, nothing in service is disturbed |
| Automatic DNS records (`activity/dns.go`, `activity/powerdns_db.go`, `workflow/zone*.go`, `workflow/fqdn.go`) | `zone_records`, PowerDNS tables | bind, unbind, mail accounts, custom records, zones | queues of one or two tenants | automatic and custom records share name and type | DNS serves what exists and nothing else |
| Database and Valkey migrations (`workflow/migrate_*.go`) | row, dump files, two shards | migrate, retry | agents, clients that keep writing | clean-up after the switch, hidden errors of a pipeline | no data lost |
| Certificates, ACME (`activity/acme.go`, `workflow/*cert*.go`) | rows, orders, installed files | issue, upload, renew, clean up | queue, daily crons | a renewal beside the queue; a switch in several steps | the active certificate is the one installed, and replaced in time |
| Incidents (`core/incident.go`, `activity/incident.go`, `activity/agent.go`, `workflow/incident_*.go`) | rows, the agent's batch | report, auto-resolve, claim, investigate, escalate, operator requests | monitors, API, LLM agent | unconditional writes by independent crons and people | nothing neglected, nobody overruled, problems reported and closed |
| Monitors and schedules (`workflow/*_monitor.go`, `cmd/worker`) | - | periodic checks | incidents | thresholds, overlap | problems become incidents |
| OIDC provider (`core/oidc.go`) | codes, sessions | authorize, exchange | control panel | check and use are two statements | a code is used once |
| Control panel, command-line tools, web interfaces, deployment | - | - | - | sequential clients | not modelled |

`PROJECT.json` lists all components with their sources and, for those that are
not modelled, the reason; its "hazards" name the lines where each difficulty
bites and the properties that watch it.

### How the parts interact

A request writes a row (`pending`, `provisioning`, `deleting`, ...), commits, and
calls `signalProvision`. That signals the workflow `tenant-<id>`, starting it if
it is closed; it executes the tasks of the tenant one after the other as child
workflows. Each child reads the row again, calls activities on the nodes of the
shard, and writes `active`, `failed`, or deletes the row. Nothing else protects
the row: requests run at any time, several at once, and compare no version. The
modules are cut along this line:

* `ApiServer` interleaves the statements of two requests with the worker, and
  takes of a workflow its first and its last status write, either of which may
  fail;
* `ProvisionQueue` shows what the queue gives (`SerialExecutor`);
* `ResourceLifecycle`, `EgressRules`, `TenantLifecycle`, `AutoDNS`, `Migrations`
  and `Certificates` take a FIFO executor for granted, keep the requests (and the
  crons) concurrent and step through the workflows activity by activity;
* `NodeAgent` takes one activity apart, command by command;
* `ConvergeShard` runs the programs of `NodeLocal` on all nodes of a shard beside
  the workflows of its resources.

What the queue does not give, that a signal is never dropped, is the business of
the queue's own run; in the other modules a dropped signal is a counted fault.

## 2. Modules

| Module | Models |
|---|---|
| `SerialExecutor` | abstract: accepted tasks run one at a time in order; waiting ones may be dropped together, while nothing runs |
| `ProvisionQueue` | `signalProvision`, `TenantProvisionWorkflow`, and the Temporal server between them |
| `ResourceCatalog` | 21 kinds of resource: what each service method reads, writes and signals, and each workflow as a sequence of steps with their error policies |
| `ResourceLifecycle` | the machine that executes the catalog: requests, queue, workflow, nodes |
| `EgressRules` | Create, Delete, Signal, and `SyncEgressRulesWorkflow` statement by statement and node by node |
| `TenantLifecycle` | the requests on a tenant and its six workflows, accounts on nodes, the shared directory |
| `Incidents` | the incidents table and its writers |
| `AgentManagers` | the managers of `agent/` and `agent/runtime/` as programs of commands on the facts of a node |
| `NodeLocal` | the activities of `activity/node_local.go`, made of the managers' programs |
| `NodeAgent` | the machine that executes them: failing commands, stops of the agent, Temporal's retries |
| `ConvergeShard` | `ConvergeShardWorkflow` for the six roles, a second converge, a provisioning workflow beside it, the monitor of stuck shards |
| `AutoDNS` | zones, FQDNs, mail accounts and custom records with the automatic records, against the tables of PowerDNS |
| `Migrations` | `MigrateDatabaseWorkflow`, `MigrateValkeyInstanceWorkflow`, clients that write |
| `Certificates` | issue, upload, renewal, clean-up, and the files on the nodes |
| `ApiServices` | the services of `core/` for 31 kinds of row as sequences of statements |
| `ApiHandlers` | the handlers of `api/handler/` in front of them, and the routes |
| `ApiServer` | what a statement does: the machine that interleaves the requests |
| `*Proofs` | theorems about the module named |
| `MC*` | the constants of the runs; `Certificates` needs none |

Correspondence of state and code:

* **ProvisionQueue.** `caller[t]` is the progress of one `signalProvision` call;
  `run`, `buffer`, `awaited` and `opsCount` are the open run, its signal channel,
  the child in `Get` and the local of that name. `Receive`, `IdleTimeout`,
  `ChildReturned` and `ContinueAsNew` are the branches of the loop. `started`,
  `finished`, `pos`, `returned`, `lost` are history. A continued run starts with
  an empty channel: Temporal hands buffered signals to the next run only if the
  workflow drains them.
* **ResourceLifecycle.** A request is `ReadRow`/`WriteReadRow` (handlers that
  read, patch and write back) or `WriteRow` (a single statement), then
  `SignalTask`. A workflow is a program of the catalog; `Running(do)` selects the
  action for its current step. A configuration is a version number, so that
  "configured with the current version" can be said. Node activities fail before
  or after their effect. `Absent` is the deleted row; an `UPDATE` of it changes
  nothing, as in SQL. Requests are taken by the first idle caller: callers are
  interchangeable, and they are numbers so that the choice is deterministic.
* **EgressRules.** `pc` is the position in the workflow; `Mark`, `Lookup`,
  `Apply(n)`, `Finalize`, `Purge` are its activities, the last two the two
  statements of `FinalizeTenantEgressRules`, which has no transaction. A failing
  node may be left with the old, the new or an empty chain (flush and fill are two
  commands). With no rule left the agent calls `removeEgressChain`, which ignores
  every error of `nft` and returns nil: the node reports success with the chain
  flushed or as it was (`unflushed`).
* **TenantLifecycle.** The six workflows are sequences of named phases;
  `wf.at[n]` is the progress on node `n`, since nodes are worked on in parallel.
  The resources of the tenant are a status each: their own workflows share the
  queue and are single steps here. A request on one is `LoadChild`, `PutChild` and
  `SignalChild`: the handler reads the row, the service writes the whole of it back
  and then signals, and other requests and the cascade come in between. The PUT of
  a member of `Zones` ends with the write: it queues nothing.
* **Incidents.** Rows carry status, dedupe key, assignee and whether the severity
  is watched by the escalation policy. `Observe`/`Select`/`Insert` are a monitor
  and `CreateIncident`, with the unique index `idx_incidents_dedupe_open` in
  `Write`; `ListUnassignedOpenIncidents`, `StartGroup`, `ClaimIncidentForAgent`,
  `Investigate`, `InvestigationEnds` are the agent's queue; `FindStaleIncidents`
  and `EscalateStale` the escalation cron; `Operator` any request of the API.
* **AgentManagers, NodeLocal, NodeAgent.** A node is a set of facts `<<kind, owner>>`:
  a user, a directory, a unit file, a running server, a site nginx has loaded. A
  command names the facts it needs, those it may not find, what it adds and removes,
  and what becomes of its error: returned and retried, turned into a final one by
  `asNonRetryable`, or dropped. What a command writes (a pool file, a chain, an ACL)
  is one fact per version that somebody can tell apart; a PHP pool belongs to the
  tenant and to a PHP version, 8.5 where the caller gives none, as `DeleteWebroot`
  does. `job` is the attempt in progress: an attempt starts from the first command,
  since an activity keeps nothing between attempts.
* **ConvergeShard.** `flow[f].todo` is what is left of a workflow. A read replaces
  itself by the phases for the rows it returned, so that later phases apply what
  was true at the read. `node[n]` is what a node holds on its own, `store` what
  the nodes share on CephFS. `addressed` says whether the database primary's
  `ip_address`, a nullable column, is set: without it replicas are made read-only
  and replicate from nobody. `Unwanted` are the remains that a converge of the role
  takes away: on a web node sites, pool files, orphaned daemons and the processes of
  a disabled one, `read_only` on a primary, peers of a gateway. Stale entries of a
  load balancer's map and stale Valkey instances are not among them, since nothing in
  the code removes them.
* **AutoDNS.** `auto` are the rows of `zone_records` managed by the platform,
  `records` the table of PowerDNS; an activity is one step. Deletion by name and
  type, the lack of a key and the override flag are those of the statements.
  `AutoDeleteDNSRecords` and `AutoDeleteEmailDNSRecords` take the set of single
  deletions that fail, which the code does not report. A request is its statement
  (`Request`) and, later, its signal (`Signal`), which may be lost; every tenant
  has a queue of its own.
* **Migrations.** `data[r][s]` are the writes kept on the first node of shard `s`,
  `dump[r][s]` the dump file as seen from there; `layout[s]` the shards that see
  the file written on `s`. `users[r]` are the shards on which the users are known:
  creating a Valkey instance over itself rewrites its ACL file with the default
  user alone. A pipeline's first command can fail unnoticed.
* **Certificates.** `run["queue"]` is the tenant's workflow and `run["cron"]` the
  renewal, which the queue does not order; `files[n]` the chain and the key on node
  `n`, which `InstallCertificate` writes one after the other (`written` says which of
  them a workflow has got to). That is all an installation does: no activity of
  these workflows reloads nginx or generates the site anew, so the module says
  nothing about the certificate that a node presents.
  The age of a certificate goes through the thresholds the queries compare with.
* **ApiServices, ApiHandlers, ApiServer.** A handler is a sequence of words, one
  per check, statement or signal, in the order of the code; `ApiServer` has one
  action per sort of word. `row` is the row in the database, `req[q]` the
  request with what its handler has loaded and changed so far, `tasks` and
  `running` the tenant's queue. A kind without a unique key gets a second row by a
  second INSERT; that row is another instance of the specification, so here the
  INSERT conflicts. What hangs on a deleted row is assumed to be gone, and what it
  hangs on can go first only where the schema cascades or there is no row.
  A workflow is `Begin`, its first status write, and `Finish` or `Fail`. `Fail`
  writes `failed`, or leaves the row as it is: the last write or the report is lost,
  the DELETE is refused by a foreign key, or the workflow reports no failure
  (subscriptions, the update of an S3 bucket). The sync of egress rules works on the
  rules as it finds them, whatever the task was about.
  `NotAtomic` names the handlers with several writes whose later ones can fail.

Some variables are histories that say which promises are off: `hurt`, `kept`,
`muted`, `crossed` (`AutoDNS`), `swallowed`, `taken` (`NodeAgent`), `excused`, `risky`,
`unread`, `stripped` (`Migrations`), `overlap`, `troubled` (`Certificates`), `lost`,
`mixed` (`ConvergeShard`), `troubled`, `doomed`, `spared`, `stuck` (`ApiServer`),
`circular`, `hitch`, `relapsed` (`TenantLifecycle`), `unflushed` (`EgressRules`). Each
records an event that the code itself does not recover from (an activity that used up
its retries, a dropped error, a stale write), and is cleared when a later step mends
it; the
properties name the ones they excuse, and no history appears in a guard, except
that `mixed` bounds the faults of `ConvergeShard` (section 3).

Definitions named after a mistake (`ReceiveNewest`, `AutoResolveUnescalated`, ...)
are not used by any specification. They are variants of the definition their
comment names, kept to show that the properties notice such a mistake.

## 3. Runs

| Run | Instance | Shows |
|---|---|---|
| `queue` | 4 queued tasks, 1 direct, batches of 2 | `OneAtATime`, `StartedInOrder`, `WaitingHasRun`; signals are dropped only by a full batch (`LossNeedsFullBatch`) and run otherwise (`RunsUnlessDropped`); the queue implements `SerialExecutor` |
| `api` | each of 31 kinds, 2 requests out of all its routes, 2 faults (a lost signal, a failed workflow, a failed status write, a refused DELETE) | `RefusedHasNoEffect`: a 4xx has left nothing behind; `AcceptedTakesEffect`: no row stays in a status that promises work, but one that a workflow left so when it failed without a report; `DeleteRemoves`: nothing brings back a deleted row |
| `lifecycle` | every kind, 2 nodes, 3 requests, 2 at a time, 1 fault | `SettledWhenQuiet`, `ActiveIsApplied`, `GoneIsRemoved`, each with the kinds it excepts and why |
| `egress` | 3 rules, 2 nodes, up to 3 syncs due | `ActiveIsEnforced`; `ChainsMatchRows`: rows and chains agree, but where a tenant's last rules were removed with the errors ignored |
| `tenant` | a shard of 1 node and one of 2, a zone, 3 events (requests, also on the zone, 1 fault, 2 migrations, also to the own shard) | `SettledWhenQuiet`, `SuspendedIsLocked`, `AccountsMatchRow` (an account in service is there, an active one has access), `UnsuspendRestores` (nothing stays suspended but a zone whose PUT wrote that back) |
| `agent` | 9 families of resources (2 webroots of one tenant, 2 PHP versions), 4 operations, 2 attempts each, 2 failed commands or stops | `CreatedIsComplete` (but for the pool of PHP 8.5 that another webroot's deletion takes), `DeletedLeavesNothing`, `UndisturbedSucceeds` (whatever was left behind, an undisturbed attempt does not fail) |
| `converge` | 6 roles, a node up to date and one that has just joined, a primary with and without an address, 2 workflows, 1 fault | `OthersConverge` (a failing node does not hold up the others), `ActiveIsConverged`, `InServiceStays` (no step of a converge, failing ones and overlapping workflows included, takes away what is in service, but what `Exposed` and `Replaced` list), `StuckIsNoticed` |
| `dns` | a zone and one nested in it, an FQDN and a mail account of another tenant, load balancers with A and AAAA, custom A and TXT records, 4 operations, 2 at a time, 1 fault | `UnboundIsUnserved`, `AutoServedUnlessOverridden`, each but for the records that section 6 describes (`kept`, `muted`, `crossed`) |
| `dns_override` | 3 operations | **violated**: `CustomIsServed` |
| `migrations` | a database and a Valkey instance, 2 shards with a common dump directory or their own, 2 migrations, 1 fault, 2 client writes | `DataSurvives`: the row's shard has the resource, its users and every write made outside a migration, at every moment, but for an import without a dump (`unread`) and a Valkey instance created over itself (`stripped`) |
| `certs` | 4 certificates, 1 node, one upload, bind, ageing and fault | `ActiveIsInstalled`: chain and key of the active certificate are the files of the nodes; `ExpiringIsRenewed` |
| `incidents` | 2 incidents, 2 keys of one type, one cron, 2 events | `InvestigatedOnce`, `GroupPaced`, `HumanKeepsIncident`, `NeglectEnds`, `RecoveredIsClosed`, `IllIsReported` |

Each module with state has a type invariant; the runs `queue`, `egress` and `incidents`
check it, and the proofs build on it.

### Configurations with counterexamples

Disagreements between the code and its own documents or comments. The first is a
run; the others are kept as configurations, to be run with
`tlc -config <file> <module>`, and should pass once the code is mended.

| Configuration | Module | Violated | What happens |
|---|---|---|---|
| `DNSOverride.cfg` | `MCAutoDNS` | `CustomIsServed` | "custom records take priority over auto records" (`activity/dns.go:280`), but `CreateZoneRecordWorkflow` writes the custom record and then runs `DeactivateAutoRecords`, which deletes by name and type: the new record goes with the old ones (`workflow/zone_record.go:66`) |
| `QueueContinueLoses.cfg` | `MCProvisionQueue` | `EveryAcceptedTaskRuns` | the queue continues as new after 100 tasks without draining its channel (`workflow/provision.go:26`); the comment at `:13` says that it receives the signals and executes each |
| `LifecycleChildren.cfg` | `MCResourceLifecycle` | `DeletionSettles` | a webroot with FQDNs is removed from the nodes, then its `DELETE` meets a foreign key: the row stays `deleting`, which Retry refuses (`workflow/webroot.go:295`); `docs/webroots.md:30` promises a cascade |
| `LifecycleDaemon.cfg` | `MCResourceLifecycle` | `ActiveRunsAsEnabled` | updating or retrying a disabled daemon starts it (`workflow/daemon.go:185`, `docs/daemons.md:22`) |
| `EgressDelete.cfg` | `MCEgressRules` | `DeletedIsGone` | a sync begins by setting the tenant's `deleting` rules to `provisioning`, so that they are applied and become active again (`activity/core_db_queries.go:1040`; `:1071` says that they are hard-deleted) |
| `TenantDelete.cfg` | `MCTenantLifecycle` | `DeletionCompletes` | `DeleteTenantDBRows` names columns that do not exist (`activity/core_db.go:101-103`, `:127`, migrations `00026`, `00033`): the transaction fails after the nodes have been emptied (`workflow/tenant.go:509`) |
| `TenantMigrate.cfg` | `MCTenantLifecycle` | `FilesKept` | the clean-up of the source nodes removes the tenant's directory on the CephFS that the target nodes share (`workflow/migrate_tenant.go:200`, `agent/tenant.go:380`, `docs/webroots.md:173`) |
| `ConvergeStale.cfg` | `MCConvergeShard` | `QuietIsConverged` | a converge applies what it read at its start: a webroot deleted meanwhile comes back, one created meanwhile loses its site (`workflow/converge_shard.go:135`, `docs/convergence.md:72`) |
| `MigrationsLocal.cfg` | `MCMigrations` | `MovedHasData` | without a shared dump directory the import reads a file that is not there; `gunzip \| mysql` hides it, the migration succeeds empty and drops the source (`docs/databases.md:125`, `docs/backups.md:113`) |

### Bounds, and why they are enough

* `MaxOps = 2` in the queue, for 100: a batch fills twice with four tasks, so that
  signals meet a full batch, a fresh one and a closed run. The proofs hold for
  every value.
* Lifecycle (`MaxCalls`, `MaxFaults`): two requests at a time, three altogether: one
  to bring a resource into the state of interest and two that race. Two nodes: one can
  succeed and the other fail. One fault (a lost signal, a failed status write): a
  second one only repeats an excuse that the properties already allow.
* Tenants (`MaxMoves`): two migrations, there and back, or twice to one shard, which
  sets `circular` (section 6). The tenant starts on the shard of one node and can
  move to the one of two, where one node can fail alone. The other way round the
  instance passes too (5.1 million distinct states against 2.0), and so it does with
  a webroot beside the zone (10.3 million); neither is run each time. The one
  resource is a zone, because its PUT is the only one that queues nothing.
* Api: the row starts absent, active, failed or with its first task lost, so two
  requests are enough for a race; two faults, so that a failed workflow can be
  followed by a lost retry. The two requests are interchangeable (symmetry).
* Three rules and three syncs: one rule each that is applied, added and removed
  while a sync is under way with another queued behind it.
* Agent: the four operations are create, update or a second resource, delete,
  create again; two attempts, so that one starts on the remains of the other; two
  faults, so that a repeated attempt is interrupted too. A behaviour is about one
  family, on one node, so that nothing is shown about operations on a tenant and on
  its webroots together: suspending a tenant or deleting it acts on the facts of its
  webroots. Two webroots share the tenant's pools, which is why there are two.
* Converge (`MaxStarts`, `Turbulent`): every role meets a fault, and every role meets
  an overlap of two workflows; both in one behaviour only for the roles in
  `Turbulent`, whose programs are short. (The web role alone with both passes:
  734 thousand states.)
* DNS (`MaxOps`, `MaxOpen`): a behaviour starts from an empty database, a zone, a zone
  with an FQDN, or both with a mail account, so that four operations can remove,
  override, nest and restore; two requests may stand between their statement and
  their signal.
* Migrations: two, there and back, the second one over what the first has left, with
  a directory all nodes share and with one for each: `docs/backups.md:113` and
  `docs/databases.md:125` place the files of database shards on local disks.
* Certificates: four IDs, since the bind, the upload and two renewals take one each.
  One node, whose two files can differ; `ActiveIsInstalled` alone also passes with
  two (1.5 million states), which the liveness property makes too slow.
* `CHECK_DEADLOCK FALSE` where the system may stop: no more requests are due.
  `incidents` checks deadlock, since its crons go on for ever.
* Two incidents and two events: two of one group (leader and follower) or one
  after the other with one key, with two out of a request, a report through the
  API and a fault in between.
* Symmetry is used in `egress`, `tenant`, `agent` and `api` (rules, nodes of one shard,
  callers, webroots, requests), which check invariants only.

### Fairness

Temporal offers a workflow task until a worker answers, and all activities of the
registered workflows have timeouts and bounded retries, so an open workflow moves
(weak fairness of the workers' steps in `queue`, `converge` and `certs`). Callers
owe nothing: no request is ever forced. In `Incidents`, `ConvergeShard` and
`Certificates`, schedules keep firing and skip a run while the last is open (weak
fairness of the crons); strong fairness of `FindStaleIncidents` for an incident
says that one which stays neglected is past its threshold at some sweep.
Problems, requests and faults are not fair.

In `lifecycle` the requests are finitely many and every workflow is a finite
sequence, so that "a status in transition ends" is stated as an invariant:
wherever none of the steps the system owes is possible, the status has settled.
`Due` says when one is: a task can be started, the workflow can take its next step
(which on nodes needs a node left to do), or a request is under way. It is the
ENABLED condition of the worker's and the callers' steps written out (TLC finds the
two equal in every state of the run), so that the property can be proved too. A
queue that is stuck counts as quiet, which "the queue is empty" would leave out.

## 4. Proofs

| Module | Theorems | Rests on |
|---|---|---|
| `ProvisionQueueProofs` | `Typing`, `Serialization`, `FirstInFirstOut`, `LossBound`, `RunForWaiting`, `Refinement` | `QueueAssumption` |
| `EgressRulesProofs` | `Typing`, `Enforcement`, `Matching` | `EgressAssumption` |
| `IncidentsProofs` | `TypeCorrect`, `AgentInvestigatesOnce`, `GroupsArePaced`, `OperatorsKeepTheirs` | `IncidentAssumption` |
| `ResourceLifecycleProofs` | `Typing`, `Removal`, `Applied`, `Settling` | `LifecycleAssumption`; `Applied`: `"backup" \notin Parents` |
| `TenantLifecycleProofs` | `Typing`, `Settles`, `Locks`, `Restores`, `Access`, `Matching` | `TenantAssumption` |
| `MigrationsProofs` | `Typing`, `Survival` | `MigrationConstants` |
| `CertificatesProofs` | `Typing`, `Installation` | `CertConstants` |
| `ApiServerProofs` | `Typing`, `Refusal`, `Acceptance`, `Deletion` | `FaultsAssumption` |

They hold for every number of tasks, rules, nodes, keys, incidents, requests,
migrations, certificates and failures; the assumptions only say what sort of value a
constant is. One theorem has a hypothesis on a constant, `"backup" \notin Parents`: no
table of the schema references a backup, and the runs use the parents the schema has.

* **Queue.** `QueueInv = TypeOK /\ ControlInv /\ OrderInv /\ LossInv`. That one task
  runs at a time is not inductive: it needs that the only open execution is the
  one the run waits for (`ControlInv`). Order needs the places of buffered tasks
  to increase and to lie above all started ones, also after a drop (`OrderInv`).
  `LossInv` counts the children that have returned. `Refinement` maps the buffer
  to `waiting` and the open execution to `running`; `ContinueAsNew` is
  `DropWaiting`.
* **Egress.** `ActiveIsEnforced` speaks of active rules, the sync of provisioning
  ones. `EgressInv` adds that whatever is provisioning or active after the lookup was
  read (`ReadCovers`), that nodes heard from hold what was read (`HeardHolds`, but for
  a node in `unflushed` when it has read no rule), that a failing node spoils the sync
  it belongs to (`BadSpoils`), and that with no request or sync outstanding the one in
  progress has seen every rule (`NothingMissed`).
* **Incidents.** `IncidentInv` ties `tries` to the assignment: an unassigned incident
  was never investigated and is not claimed, and a claimed one not investigated yet
  (`OncePerClaim`); assignments are never cleared, so that the claim's condition
  fails for ever after. `RowsKnown` says that only rows are worked on, `Led` that the
  leader belongs to its group and that a group without one is untouched. The step
  lemma proves `Preserved`, the invariant's next state together with the action
  property `OperatorsKeepTheirs`.
* **Resources.** The machine executes 21 catalogs of programs. The proofs do not
  unfold them step by step: they use five shapes of a program. `Reads`: the row is
  read before any node changes. `Guarded`: an error of a node ends the workflow, at
  once or at the gate after all nodes were tried. `Erases`: the nodes are cleared
  before the row goes. `Provisions`: the row leaves the active status, is read, the
  nodes are configured, the row is active again. `Withdraws`: the row leaves the
  active status and does not come back. One lemma per kind shows which shapes its
  workflows have; the step lemmas argue from the shapes alone. `GoneIsRemoved` needs
  `RemovedInv`: the error of a node is remembered until the gate (`ErrorsStop`), an
  erasing workflow has cleared the nodes behind it (`Clearing`), and a workflow that
  meets an absent row has not passed its read (`Removed`, the case of a task queued
  behind the deletion). `ActiveIsApplied` needs `AppliedInv`: a provisioning workflow
  has put its own snapshot on the nodes behind it (`Configuring`), and unless a later
  task waits, that snapshot is the row's version and an active row is fresh
  (`UpdatedInv`): the request that outdates a snapshot has always queued a task behind
  it. Backups and SSH keys are argued apart (`StillInv`), because their deletion does
  not begin with a status: they have one version only, and what is on the nodes is
  right or the row is not active. It would not be so for a backup that a row referred
  to, whose deletion would clear the node and stop at the row; hence the hypothesis.
  `SettledWhenQuiet` adds a sixth shape, `Settles`: behind its first step or from the
  start, a workflow ends at a last status write or where an error marks the row as
  failed, and no error in between makes it return without. Every operation of every
  kind queues such a workflow or leaves the status alone (`Concludes`). `SettlingInv`
  then says that behind a row in transition stands a request that has written and will
  signal, a queued task, or a workflow with its settling step ahead (`Attended`), and
  that a workflow at its nodes has one left (`NodesDue`): this rules out the stuck
  workflow.
* **API.** The 31 kinds have 115 routes. `Fits` is what the proofs need of one:
  it ends with a reply; after a write come only words that refuse because the row is
  gone (`Atomic`); a word that leaves a status promising work is followed by the
  signal, at most two harmless words later (`Follows`); a deletion removes the row
  or signals before it replies (`Removing`). One lemma per kind establishes it, and
  `EveryRouteFits` collects them; from there on the routes are not looked at.
  `Typed /\ Sound` keeps requests inside their route and IDs below the next one.
  `RefusalInv` (`Harmless`) says what a handler that has written may still have
  ahead of it. `WorkInv`: a row whose status promises work is awaited, by a request
  on its way to the signal (`Near`), a queued task or the running one; a row that
  another request moves to such a status in between is awaited by that request.
  When a workflow ends, the row it leaves is settled, awaited by a later task, or
  stuck (`EndWaits`).
  `DelInv`: a doomed row is gone, spared, or has its deletion queued or running, and
  a handler between removal and reply keeps this true.
* **Tenants.** Whenever the queue is not empty the row is ahead of the nodes, so three
  of the invariants speak of a calm tenant (`Calm`): nothing queued or about to be
  queued, no lost signal or status write, the last task running or done. `SettledInv`
  says that the last word of the workflow under way has been said once its final
  status is written. `LockedInv`: a suspension knows the row's shard, and every node
  it has finished with is locked unless it is bound to fail. `PresentInv`: a workflow
  that leaves the tenant where it is has found or made the account on every node it
  has finished with; a migration makes the accounts on its target before the row
  names it, and deletes none of these. The other two do not need calm: `RestoredInv`
  says that what is still suspended during an unsuspension is on its list, has
  relapsed or has the task of an update ahead of it, `AccessInv`
  that only a migration changes the shard and that the settings read by the last
  create or update are the row's. `Access` and `PresentInv` give `Matching`. Twelve
  kinds of step (`Kinds`) stand between the actions and the invariants.
* **Migrations.** `DataSurvives` is about the shard the row names, and the last step
  of a migration erases the other one. `Moving` follows the data: the row names the
  source up to the switch, the dump that the target sees, if it does, holds every
  acknowledged write before the import, the target holds them and the users before
  the switch, whatever the layout.
* **Certificates.** Between the installation and the activation the nodes have the
  files of a certificate that is not the active one. `SwitchInv` says which: files
  and rows disagree only while a workflow is inside the switch, the files that are
  written are then that workflow's, and two switches do not overlap unless the state
  is excused for it.

The attempts found no invariant of the runs to be false. `AccountsMatchRow` had been
checked for one migration only; what its proof needs is that no migration goes to
nodes that it leaves, and with this condition (`circular`) it holds for any number.
`CASE` arms that overlapped (`ApiServer.Insert`) are now exclusive, and an argument
that is absent in the catalog is `"none"`.

Only model-checked: the liveness properties (`RunsUnlessDropped`, `NeglectEnds`,
`RecoveredIsClosed`, `IllIsReported`, `StuckIsNoticed`, `ExpiringIsRenewed`), fairness
being outside the prover's reach; and the properties of `NodeAgent`, `ConvergeShard` and
`AutoDNS`. No proof of these has been attempted. For `NodeAgent` and `ConvergeShard` it
needs shapes for the programs of commands and phases, as for the workflows and routes
above; those of the node agent are the larger catalog, and what a list of phases does
in general would be an induction over data, which the provers cannot do.

## 5. Not modelled, and why

Requests that change nothing (GET, lists, search, dashboard, audit log), the
control panel, the command-line tools, metrics, and the web interfaces: readers
or clients of the modelled system. The OIDC provider, platform configuration,
the node agent's drift check and the arithmetic of addresses are not modelled
yet. Encryption, the ACME protocol, SSH certificates, HAProxy's and Stalwart's
protocols are external: a call that succeeds or fails.
`workflow/service_hostname.go` is left out: nothing starts it. Generated code
(`proto/`) and the schema have no behaviour of their own; the constraints that
operations meet (unique indexes, foreign keys, cascades) are in the modules.

In the modelled parts: in `TenantLifecycle` the text of suspension reasons,
quotas, addresses and SSH keys of a tenant on its nodes, and `RetryFailed`;
timeline events, webhooks and severity changes of incidents; the contents of
rows in `ApiServer` (only their status and existence) and of files in
`NodeLocal`; effects of an activity that come after it was reported failed (they
happen at the time of the error, or not); `EgressRules` has no Retry, since no
rule ever becomes `failed`.

## 6. Disagreements seen while modelling, without a configuration of their own

*Egress.* `removeEgressChain` ignores every error of `nft`, and does not remove the
jump, so that its `delete chain` is always refused (`agent/tenant_ula.go:430-439`): a
node on which the flush failed goes on enforcing the last rules with success reported.

*Queue.* `FQDNService.Retry` and `TenantService.RetryFailed` signal
`CreateFQDNWorkflow` (`core/fqdn.go:183`, `core/tenant.go:493`), a name that
`cmd/worker/main.go:116-196` does not register: the child never closes and the
tenant's queue stops. The constant `Unregistered` stands for such tasks.

*API.* The PUTs of a zone and of a shard write back the status the handler loaded
and queue nothing (`core/zone.go:141`, `core/shard.go:92`): a status that a
workflow wrote in between is undone, and a zone loaded while its tenant was suspended
is suspended again behind the unsuspension (`relapsed`). A workflow whose first or last
status write fails, or whose final DELETE is refused, returns without
`setResourceFailed` (`workflow/webroot.go:295`): the row stays `provisioning` or
`deleting`, which Retry refuses (`stuck`). PUTs of webroots, cron jobs, daemons,
tenants, clusters, nodes and brands load and write the whole row too, so that of
two that overlap one is lost, although "only provided fields are changed"
(`api/handler/shard.go:140`, `node.go:148`, `cluster.go:143`, `region.go:121`,
`brand.go:132`, `database_user.go:151`). Two requests can each create a key for
one tenant (`core/webroot_env_var.go:226-262`, `docs/env-vars-secrets.md:130`);
what was encrypted with the one that was overwritten cannot be read. The users
nested in a new database are validated against its generated ID after it has been
created, so that the answer is 400 and the database stays. `BulkSet`, a brand's
`SetClusters`, a node's Update and the platform configuration's delete and insert
outside of a transaction (`NotAtomic`). An autoreply's upsert behind its deletion
is deleted with it. `RetryFailed` leaves out daemons, S3 keys and WireGuard peers.
Accounts nested in an FQDN get a task of their own and a child of the FQDN's bind.
Clusters are created `pending` and nothing changes that.

*Resources.* Deleting a subscription does not cascade (`workflow/subscription.go:36`,
`docs/subscriptions.md:45`). `UpdateS3BucketWorkflow` sets no status on an error
(`workflow/s3_bucket.go:165`, `docs/s3-storage.md:64`). Updating a DNS record that
was never written ends `active` (`activity/powerdns_db.go:101`, `docs/dns.md:66`).
An FQDN's Update starts nothing (`core/fqdn.go:137`). Rows of
email forwards and SSH keys are deleted before the sync that removes them
(`workflow/email_forward.go:109`, `workflow/ssh_key.go:126`). A record's retry that
waits behind its deletion writes the record again. A cron job's retry after a
failed disable leaves its timers on (`core/cron_job.go:197`); `auto_disabled` is
overwritten by `DisableCronJobWorkflow` (`core/cron_job.go:222`,
`docs/cron-jobs.md:103`). Failed egress syncs are recorded
under the tenant's ID, so that no rule becomes `failed`.

*Tenants.* `MigrateTenantWorkflow` does not check that target and source differ: the
second of two queued migrations to one shard deletes the accounts it has just
created and reports the tenant active (`AccountsMatchRow` without `~circular` shows
it); it unlocks a suspended tenant and syncs neither SSH keys
nor addresses. Update of a suspended tenant, and Retry after a failed suspension,
end `active` with accounts locked and resources suspended. The final statement of
Unsuspend clears the reason a concurrent Suspend wrote. The cascade of
`docs/tenants.md` lists subscriptions, the code does not. `wireguard_peers`
reference tenants and are not deleted by `DeleteTenantDBRows`. When CreateTenant
fails and an Update, not a Retry, makes the tenant active, its nested resources
stay `pending`; top-level nested FQDNs are never provisioned. The error of the
create signal is dropped (`api/handler/tenant.go:460`).

*DNS.* When the zone belongs to one tenant and the FQDN to another, their queues are
not ordered and an unbound FQDN can stay served (`crossed`). The deletions of single
records in `AutoDeleteDNSRecords` and `AutoDeleteEmailDNSRecords` drop their errors
(`activity/dns.go:100`, `:111-112`, `:237`, `:250`), and look in the zone that is
found for the name at that time: records in an outer zone, or in one that is not
active, stay served with success reported (`kept`). A custom A record also suppresses
the automatic AAAA, and only the A comes back; the automatic record of one zone does
not come back when the custom one went with another zone (`muted`). The properties of
the run name these records and no others. `RetroactiveAutoRecords` runs before the
zone is active, so that mail records of existing accounts are never added. Deleting
one custom record removes those that share its name and type, and so does an automatic
deletion; an update rewrites all of them. An FQDN with certificates or mail accounts
cannot be deleted (foreign keys).

*Migrations.* A migration to the shard the resource is on drops its data (`excused`).
Writes made between dump and switch are lost (`risky`). A failed `mysqldump` is hidden by
its pipeline, and so is the absence of the file on a target that does not share the
directory (`unread`). A Valkey instance cannot move between such nodes. Creating one over
itself, by Retry, rewrites its ACL file without its users (`agent/valkey.go:93`, `:108`,
`:119`), and `CreateValkeyInstanceWorkflow` creates only pending ones (`stripped`).

*Certificates.* Installing a certificate writes two files and reloads nothing, and
nothing generates the site anew (`agent/nginx.go:376-407`, `activity/node_local.go:606`):
nginx presents the old certificate, or the site stays without TLS, until something else
makes it reload or the site is configured again, although the comment at
`agent/nginx.go:240-243` says that the "config will be regenerated once the certificate is
installed". The Retry of a failed Let's Encrypt certificate runs the workflow for
uploaded ones. A failed `ActivateCertificate` leaves no active certificate, the
others having been deactivated. The renewal runs outside the queue and can
overlap an upload: the chain of one can end up beside the key of the other
(`overlap`, `troubled`). `CleanupExpiredCerts` deletes rows that are still active;
uploaded certificates have no `expires_at` and are never found by it.

*Convergence.* `convergeLBShard` only adds to the map: entries of FQDNs that are gone
stay (`workflow/converge_shard.go:115-126`). A replica whose primary has no address is
made read-only and never replicates, with success reported (`:722`). An activity that
fails half-way can leave out what it was to replace: a tenant's SSH group, a MySQL user,
replication (`Replaced`). A gateway shard without peers returns before the collected errors
(`workflow/converge_shard.go`, `convergeGatewayShard`; `ActiveIsConverged` excepts
it). A tenant that cannot be read loses its peers. Creating a Valkey instance again
rewrites its ACL file without the users. Retry sets the shard active before it
converges. Every converge starts disabled daemons. `docs/convergence.md` has
databases created on every node, the code on the primary. The monitor leaves out
the roles lb and gateway.

*Node agent.* `DeleteWebroot` goes through all runtimes without a PHP version
(`activity/node_local.go:310`: "only one will match"). The pools are the tenant's, so
that deleting any webroot stops the PHP 8.5 webroots of the tenant (`taken`), and the
pool of another version is left behind (`agent/runtime/php.go:154-168`). The nodes of
a shard delete a webroot's directory, which they share, in parallel, and
`DeleteTenantWorkflow` removes the tenant's tree before the sites
(`workflow/webroot.go:280-287`, `workflow/tenant.go:617-660`), so that nginx serves
directories that are gone. `DeleteUser` takes a stopped Valkey for success. A unit
written before a crash is started and not enabled by the next attempt.
`ensureInterface` checks existence only. `removeForwardRules` matches by substring;
`SyncPeers` leaves the routes of removed peers. `EnsureTable` keeps its first error
for good. A certificate and its key are written one after the other, so that a crash
in between makes nginx refuse the node's configuration (`UndisturbedSucceeds` excepts
it). The port nginx proxies to and the port the Node runtime listens on are computed
by different formulas. `DeleteBackupFile` and `CleanupMigrateFile` fail when repeated.
Reloading Python or Ruby after a change of runtime fails, there being no service to
reload.

*Addressing.* Shard and peer indexes are the maximum plus one, read and inserted in two
statements (`core/wireguard_peer.go:47`). The peers of two tenants of a cluster can
have one address, and tenants' ULA and transit indexes can collide
(`docs/network-access-control.md:85`).

*Incidents.* `EscalateIncident` reopens a resolved incident
(`activity/incident.go:117`); `RecoveredIsClosed` shows that the health cron closes it
again. `cert_expiring` incidents have nobody to do so
(`workflow/cert_expiry_monitor.go:53`, `docs/incident-management.md:122`). An open
incident that is assigned, for instance reopened after the agent, is watched by no
policy. Documents key disk pressure by node, the code by node and path.

## 7. Plan

Done: the queue with its refinement; the lifecycle of every kind of resource; egress
rules; tenants; incidents; migrations; certificates; the API's handlers and services,
all with proofs of their safety; the node agent; convergence; automatic DNS records.

Next, in this order:

1. Proofs: `UnboundIsUnserved` and `AutoServedUnlessOverridden` of `AutoDNS`;
   `ConvergeShard`, by shapes of the phase lists as in `ResourceLifecycleProofs`.
2. An abstract specification of an eventually consistent replica set (rows against
   nodes) that convergence, egress rules and SSH keys implement.
3. SSH key fan-out and the auto-disabling of cron jobs as modules of their own.
4. The node agent on several nodes that share their directories, with a tenant's
   suspension and deletion beside the operations on its webroots.
5. The remaining monitors: certificate expiry, replication, the drift check.
6. OIDC codes and sessions; WireGuard indexes and ULA addresses (pure operators
   against a reference).
