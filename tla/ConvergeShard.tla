---------------------------- MODULE ConvergeShard ----------------------------
(***************************************************************************)
(* ConvergeShardWorkflow (internal/workflow/converge_shard.go) pushes what *)
(* the core database wants of a shard to every node of it.  The workflow   *)
(* is a sequence of phases: reads of the database, activities fanned out   *)
(* to the nodes, writes of the shard's status.  A read expands into the    *)
(* phases that depend on what it returns, so that what a later phase       *)
(* applies may be older than the database.                                 *)
(*                                                                         *)
(* An activity is a program of NodeLocal, run at once here (NodeAgent      *)
(* takes it apart); a failed one has run up to any of its commands.  Two   *)
(* converges of a shard can run at a time, the one the API starts and the  *)
(* one of a tenant's deletion, and beside them the provisioning workflow   *)
(* of a resource of the shard.  A behaviour is about a shard of one role.  *)
(***************************************************************************)
EXTENDS NodeLocal, FiniteSets

CONSTANTS
    Nodes,          \* the nodes of the shard
    Primary,        \* the node of a database shard that takes the writes
    Joined,         \* the nodes that have just joined the shard
    Addressed,      \* whether nodes.ip_address of the primary is set: values looked at
    Roles,          \* the roles looked at
    Runtime,        \* the runtime of the webroots
    MaxStarts,      \* bound: workflows started
    MaxFaults,      \* bound: failed reads, writes and activities
    Turbulent       \* bound: roles with both faults and overlaps in a behaviour

ASSUME ShardAssumption == Primary \in Nodes /\ Joined \subseteq Nodes

VARIABLES
    role,       \* the shard's role
    addressed,  \* the primary's row has an IP address (the column may be null)
    status,     \* shards.status
    rows,       \* the status of the shard's resources
    node,       \* what each node holds on its own
    store,      \* what the nodes of a web shard share (CephFS)
    flow,       \* the workflows
    ended,      \* how the converge that ended last fared
    mixed,      \* two workflows have been at work at a time
    incident,   \* an open convergence_stuck incident
    lost,       \* a write of the shard's status was lost
    starts, faults

vars == <<role, addressed, status, rows, node, store, flow, ended, mixed, incident, lost, starts, faults>>

Tenant == "t"
Elsewhere == {"peer"}       \* the nodes of the cluster's other shards
Resources(r) ==
    CASE r = "web" -> {Tenant, "w1", "w2", "cron", "daemon"}
      [] r = "database" -> {"db", "dbuser"}
      [] r = "valkey" -> {"valkey", "vuser"}
      [] r = "lb" -> {"f1", "f2"}
      [] r = "gateway" -> {"p1", "p2"}
      [] OTHER -> {}

\* The resource that provisioning workflows create and delete meanwhile.
Moving(r) ==
    CASE r = "web" -> {"w2"} [] r = "database" -> {"dbuser"} [] r = "valkey" -> {"vuser"}
      [] r = "lb" -> {"f2"} [] r = "gateway" -> {"p2"} [] OTHER -> {}

Active == {r \in DOMAIN rows : rows[r] = "active"}
Webroots(rs) == rs \cap {"w1", "w2"}

\* On CephFS: the tenant's tree and its webroots' files.
SharedKinds == {"chroot", "dirs", "owned", "authkeys", "webdir", "env"}
Holds(n) == node[n] \cup store

-----------------------------------------------------------------------------
(* Phases and activities.                                                  *)

Act(op, r, arg) == [op |-> op, r |-> r, arg |-> arg]
Do(op, r) == Act(op, r, {})

\* fanOutNodes: the activities of the list one after another on every node,
\* the nodes in parallel.  An error ends the list of its node only.
Fan(ns, acts) == [do |-> "fan", r |-> "", on |-> ns, acts |-> acts]
OnPrimary(act) == Fan({Primary}, <<act>>)

Read(what, r) == [do |-> what, r |-> r, on |-> {}, acts |-> <<>>]
SetStatus(v) == Read("status", v)
Settle == Read("settle", "")

PhasesFor(rs, P(_)) == FlattenSeq([i \in 1..Cardinality(rs) |-> P(SetToSeq(rs)[i])])

\* A for loop over the nodes: one node after another.
EachNode(act) == PhasesFor(Nodes, LAMBDA n : <<Fan({n}, <<act>>)>>)

\* ConvergeShardWorkflow up to the phases of the role.
ConvergeShardWorkflow == <<Read("shard", ""), SetStatus("converging"), Read("nodes", "")>>

ByRole ==
    CASE role = "web" -> <<Read("desired", "")>>
      [] role = "database" -> <<Read("primary", ""), OnPrimary(Do("ReadWrite", "mysql")),
                                Read("databases", "")>>
      [] role = "valkey" -> <<Read("instances", "")>>
      [] role = "lb" -> <<Read("mappings", "")>>
      [] role = "gateway" -> <<Read("pubkey", ""), Read("peers", "")>>
      [] OTHER -> <<>>

\* Routes to the other nodes of the shard and to those of the other shards,
\* which are listed first.
RoutePhases ==
    <<Read("services", "")>>
    \o PhasesFor(Nodes, LAMBDA n :
          <<Fan({n}, <<Act("ConfigureULARoutesV2", "", (Nodes \ {n}) \cup Elsewhere)>>)>>)

\* The listing failed: no routes to other shards, none at all where there
\* are no others.
WithoutServices(todo) ==
    LET cut(p) == IF p.do = "fan" /\ p.acts[1].op = "ConfigureULARoutesV2"
                  THEN [p EXCEPT !.acts[1].arg = @ \ Elsewhere] ELSE p
        kept(p) == ~(p.do = "fan" /\ p.acts[1].op = "ConfigureULARoutesV2" /\ p.acts[1].arg = {})
    IN  SelectSeq([i \in DOMAIN todo |-> cut(todo[i])], kept)

-----------------------------------------------------------------------------
(* convergeWebShard.  s is the snapshot GetShardDesiredState returned.     *)

\* A plausible mistake: a disabled daemon's configuration is an orphan.
CleanPhaseEager(s) ==
    Fan(Nodes, <<Act("CleanOrphanedConfigs", "", Webroots(s)),
                 Act("CleanOrphanedFPMPools", "", IF Webroots(s) = {} THEN {} ELSE {Tenant}),
                 Act("CleanOrphanedDaemonConfigs", "", {})>>)

CleanPhase(s) ==
    Fan(Nodes, <<Act("CleanOrphanedConfigs", "", Webroots(s)),
                 Act("CleanOrphanedFPMPools", "", IF Webroots(s) = {} THEN {} ELSE {Tenant}),
                 Act("CleanOrphanedDaemonConfigs", "", s \cap {"daemon"})>>)

TenantPhases(s) ==
    IF s = {} THEN <<>> ELSE
    <<Fan(Nodes, <<Do("CreateTenant", Tenant), Do("SyncSSHConfig", Tenant)>>),
      Fan(Nodes, <<Do("ConfigureTenantAddresses", Tenant)>>)>>

WebrootPhases(s) == PhasesFor(Webroots(s), LAMBDA w : <<Fan(Nodes, <<Do("CreateWebroot", w)>>)>>)

\* The cron job is enabled: its units everywhere, then its timer everywhere.
CronPhases(s) ==
    PhasesFor(s \cap {"cron"}, LAMBDA c : <<Fan(Nodes, <<Do("CreateCronJobUnits", c)>>),
                                            Fan(Nodes, <<Do("EnableCronJobTimer", c)>>)>>)

\* The daemon is disabled: created, which starts it, then stopped.
DaemonPhases(s) ==
    PhasesFor(s \cap {"daemon"}, LAMBDA d : <<Fan(Nodes, <<Do("CreateDaemonConfig", d)>>),
                                              Fan(Nodes, <<Do("DisableDaemon", d)>>)>>)

ReloadPhase == Fan(Nodes, <<Do("ReloadNginx", ""), Do("ReloadPHPFPM", "")>>)

\* The cron job and the daemon belong to w1.
GetShardDesiredState ==
    IF Tenant \notin Active THEN {}
    ELSE Active \ (IF "w1" \in Active THEN {} ELSE {"cron", "daemon"})

convergeWebShard(s) ==
    <<CleanPhase(s)>> \o TenantPhases(s) \o RoutePhases \o WebrootPhases(s)
    \o CronPhases(s) \o DaemonPhases(s) \o <<ReloadPhase>>

-----------------------------------------------------------------------------
(* The other roles.                                                        *)

\* convergeDatabaseShard after ListDatabasesByShard.
convergeDatabaseShard(s) ==
    PhasesFor(s \cap {"db"}, LAMBDA b : <<OnPrimary(Do("CreateDatabase", b)), Read("users", b)>>)
    \o (IF s \cap {"db"} = {} THEN <<>> ELSE <<Read("tenant", "")>>)
    \o RoutePhases
    \o PhasesFor(Nodes \ {Primary}, LAMBDA n : <<Fan({n}, <<Do("ReadOnly", "mysql")>>),
                                                 Read("replication", n)>>)

\* A replica that does not replicate.  Without the primary's address it is
\* left as it is, and no error is collected.
ReplicationPhases(n) ==
    IF addressed THEN <<Fan({n}, <<Do("ConfigureReplication", "mysql")>>)>> ELSE <<>>

convergeValkeyShard(s) ==
    (IF s \cap {"valkey"} = {} THEN <<>> ELSE <<Read("tenant", "")>>)
    \o RoutePhases
    \o PhasesFor(s \cap {"valkey"}, LAMBDA i : EachNode(Do("CreateValkeyInstance", i))
                                               \o <<Read("users", i)>>)

convergeLBShard(s) == PhasesFor(s, LAMBDA f : EachNode(Do("SetLBMapEntry", f)))

\* After ListWireGuardPeersByCluster found peers: the services' nodes, the
\* peers' tenant, then the peers that are active, and routes to the services.
convergeGatewayShard(s) ==
    <<Read("services", ""), Read("owner", ""), Fan(Nodes, <<Act("SyncWireGuardPeers", "", s)>>),
      Fan(Nodes, <<Act("ConfigureULARoutesV2", "", Elsewhere)>>)>>

\* The peers of a tenant that could not be read are left out.
WithoutOwner(todo) == [todo EXCEPT ![1].acts[1].arg = {}]

UserPhases(parent, us) ==
    IF parent = "db" THEN PhasesFor(us, LAMBDA u : <<OnPrimary(Do("CreateDatabaseUser", u))>>)
    ELSE PhasesFor(us, LAMBDA u : EachNode(Do("CreateValkeyUser", u)))

-----------------------------------------------------------------------------
(* A provisioning workflow of a resource of this shard, by what it does to *)
(* the row and the nodes; ResourceLifecycle is about all of them.          *)

CreateOp(r) ==
    CASE r = "w2" -> "CreateWebroot" [] r = "dbuser" -> "CreateDatabaseUser"
      [] r = "vuser" -> "CreateValkeyUser" [] r = "f2" -> "SetLBMapEntry"
      [] r = "p2" -> "ConfigureWireGuardPeer"

DeleteOp(r) ==
    CASE r = "w2" -> "DeleteWebroot" [] r = "dbuser" -> "DeleteDatabaseUser"
      [] r = "vuser" -> "DeleteValkeyUser" [] r = "f2" -> "DeleteLBMapEntry"
      [] r = "p2" -> "RemoveWireGuardPeer"

Row(r, v) == [do |-> "row", r |-> r, on |-> {}, acts |-> <<>>, v |-> v]

Provision(r, op, doing, done) ==
    <<Row(r, doing), Fan(IF role = "database" THEN {Primary} ELSE Nodes, <<Do(op, r)>>), Row(r, done)>>

-----------------------------------------------------------------------------
(* Activities.                                                             *)

\* SetLBMapEntry, DeleteLBMapEntry: HAProxy's map at run time, then the file
\* it is loaded from at a restart (logged).
SetLBMapEntry(f) == <<Put(Of({"lbmap"}, f)), Quiet(Put(Of({"lbfile"}, f)))>>
DeleteLBMapEntry(f) == <<Drop(Of({"lbmap"}, f)), Quiet(Drop(Of({"lbfile"}, f)))>>

Program(a, n) ==
    LET M == Holds(n)
        users == {"vuser"}
        served == IF \E x \in M : x[1] = "site" THEN {Tenant} ELSE {}
    IN  CASE a.op = "CleanOrphanedConfigs" -> CleanOrphanedConfigs(a.arg, M)
          [] a.op = "CleanOrphanedFPMPools" -> CleanOrphanedFPMPools(a.arg, M)
          [] a.op = "CleanOrphanedDaemonConfigs" ->
               CleanOrphanedDaemonConfigs(a.arg, M)
               \o (IF \E f \in M : f[1] = "daemonconf" /\ f[2] \notin a.arg
                   THEN RestartSupervisord ELSE <<>>)
          [] a.op = "CreateTenant" -> CreateTenant(a.r, "stale", M)
          [] a.op = "SyncSSHConfig" -> SyncSSHConfig(a.r, "hosting-sftp", M)
          [] a.op = "ConfigureTenantAddresses" -> ConfigureTenantAddresses(a.r)
          [] a.op = "ConfigureServiceTenantAddr" -> ConfigureServiceTenantAddr(a.r)
          [] a.op = "ConfigureULARoutesV2" -> ConfigureULARoutesV2("transit", a.arg)
          [] a.op = "CreateWebroot" -> CreateWebroot(a.r, Tenant, Runtime, {}, M)
          [] a.op = "DeleteWebroot" -> DeleteWebroot(a.r, Tenant, served, {}, M)
          [] a.op = "CreateCronJobUnits" -> CreateCronJobUnits(a.r)
          [] a.op = "EnableCronJobTimer" -> EnableCronJobTimer(a.r)
          [] a.op = "CreateDaemonConfig" -> CreateDaemonConfig(a.r, Tenant)
          [] a.op = "DisableDaemon" -> DisableDaemon(a.r)
          [] a.op = "ReloadNginx" -> ReloadNginx(served, {}, M)
          [] a.op = "ReloadPHPFPM" -> ReloadPHPFPM(M)
          [] a.op = "ReadWrite" -> SetReadOnly(a.r, FALSE)
          [] a.op = "ReadOnly" -> SetReadOnly(a.r, TRUE)
          [] a.op = "ConfigureReplication" -> ConfigureReplication(a.r)
          [] a.op = "CreateDatabase" -> CreateDatabase(a.r)
          [] a.op = "CreateDatabaseUser" -> CreateDatabaseUser(a.r)
          [] a.op = "DeleteDatabaseUser" -> DeleteDatabaseUser(a.r)
          [] a.op = "CreateValkeyInstance" -> CreateValkeyInstance(a.r, users, M)
          [] a.op = "CreateValkeyUser" -> CreateValkeyUser(a.r, "valkey")
          [] a.op = "DeleteValkeyUser" -> DeleteValkeyUser(a.r, "valkey", M)
          [] a.op = "SetLBMapEntry" -> SetLBMapEntry(a.r)
          [] a.op = "DeleteLBMapEntry" -> DeleteLBMapEntry(a.r)
          [] a.op = "SyncWireGuardPeers" ->
               SyncWireGuardPeers(SetToSeq(a.arg), {"p1", "p2"} \ a.arg, M)
          [] a.op = "ConfigureWireGuardPeer" -> ConfigureWireGuardPeer(a.r, M)
          [] a.op = "RemoveWireGuardPeer" -> RemoveWireGuardPeer(a.r, M)

\* One command of a program: s is what the node holds and whether all went
\* well so far.
After(c, s) ==
    IF ~s[2] THEN s
    ELSE IF CanRun(c, s[1]) THEN <<Effect(c, s[1]), TRUE>>
    ELSE <<s[1], c.err = "drop">>

\* The states a program run on M goes through.
Ran(p, M) ==
    LET ran[i \in 0..Len(p)] ==
          IF i = 0 THEN <<M, TRUE>>
          ELSE CHOOSE t \in {After(c, s) : c \in {p[i]}, s \in {ran[i - 1]}} : TRUE
    IN  ran

-----------------------------------------------------------------------------
(* What every node should hold.                                            *)

RuntimeKinds == IF Runtime = "php8.5" THEN {"pool8.5", "fpm8.5"} ELSE {}

Wanted(n) ==
    (CASE role = "web" ->
            IF Tenant \notin Active THEN {}
            ELSE Of({"user", "chroot", "dirs", "owned", "logdir", "hosting-sftp", "ula"}, Tenant)
                 \cup ({"webdir", "env", "site", "served"} \X Webroots(Active))
                 \cup (IF Webroots(Active) = {} THEN {} ELSE Of(RuntimeKinds, Tenant))
                 \cup ({"serviceunit", "timerunit", "timer"} \X (Active \cap {"cron"}))
                 \cup ({"daemonconf", "known"} \X (Active \cap {"daemon"}))
       [] role = "database" ->
            IF n = Primary THEN ({"database"} \X (Active \cap {"db"}))
                                \cup ({"dbuser", "grant"} \X (Active \cap {"dbuser"}))
                                \cup Of({"svcaddr"}, Tenant)
            ELSE Of({"read_only", "super_read_only"}, "mysql") \cup Of({"svcaddr"}, Tenant)
                 \cup (IF addressed THEN Of({"source", "replicating"}, "mysql") ELSE {})
       [] role = "valkey" ->
            ({"vdata", "acl", "vconf", "vserver"} \X (Active \cap {"valkey"}))
            \cup ({"acluser", "aclline"} \X (Active \cap {"vuser"})) \cup Of({"svcaddr"}, Tenant)
       [] role = "lb" -> {"lbmap"} \X Active
       [] role = "gateway" -> {"peer", "wgroute"} \X Active
       [] OTHER -> {})
    \cup (IF role \in {"web", "database", "valkey"} THEN {"route"} \X ((Nodes \ {n}) \cup Elsewhere)
          ELSE {})

\* Left on a node by a webroot, a tenant and a daemon that are long gone.
Remains == Of({"site", "served"}, "w0") \cup Of({"pool8.5", "fpm8.5"}, "t0")
           \cup Of({"daemonconf", "known", "program"}, "d0")

\* What a converge takes away where nothing is behind it: on a web node sites,
\* pool files, daemons' files and processes, and the processes of a disabled
\* daemon; on a database's primary, that it refuses writes; on a gateway, peers.
\* Of anything else no role takes away what is stale: a web node keeps tenants,
\* directories, cron units and what a PHP master without pools still runs
\* (ReloadAll skips it), database and valkey shards keep databases, instances
\* and users, load balancers their map entries, every node its routes.
Unwanted(n) ==
    CASE role = "web" ->
           ({"site", "served"} \X ({"w0", "w1", "w2"} \ Active)) \cup Of({"pool8.5"}, "t0")
           \cup Of({"daemonconf", "program"}, "d0") \cup Of({"program"}, "daemon")
      [] role = "database" -> IF n = Primary THEN Of({"read_only", "super_read_only"}, "mysql") ELSE {}
      [] role = "gateway" -> {"peer"} \X ({"p1", "p2"} \ Active)
      [] OTHER -> {}

Converged(n) == Wanted(n) \subseteq Holds(n) /\ Unwanted(n) \cap Holds(n) = {}

-----------------------------------------------------------------------------
(* Running the workflows.                                                  *)

Flows == {"api", "tenant", "job"}
Converges == {"api", "tenant"}

Idle == [todo |-> <<>>, left |-> [n \in Nodes |-> <<>>], errs |-> FALSE, hurt |-> {}, blind |-> FALSE]
Running(f) == flow[f] # Idle
AtRest == \A f \in Flows : ~Running(f)
Never == [done |-> FALSE, hurt |-> {}, blind |-> FALSE]

\* The nodes are up to date but for remains of what is long gone.  Nodes that
\* have just joined hold nothing.
Init ==
    /\ role \in Roles
    /\ addressed \in (IF role = "database" THEN Addressed ELSE {TRUE})
    /\ status = "active"
    /\ \E gone \in SUBSET Moving(role) :
         rows = [r \in Resources(role) |-> IF r \in gone THEN "deleted" ELSE "active"]
    /\ store = {x \in UNION {Wanted(n) : n \in Nodes \ Joined} : x[1] \in SharedKinds}
    /\ node = [n \in Nodes |->
                 IF n \in Joined THEN {}
                 ELSE {x \in Wanted(n) : x[1] \notin SharedKinds}
                      \cup (IF role = "web" THEN Remains ELSE {})
                      \cup (IF role = "gateway" THEN {<<"wg", x>> : x \in {"link", "key", "up"}} ELSE {})]
    /\ flow = [f \in Flows |-> Idle]
    /\ ended = Never /\ mixed = FALSE /\ incident = FALSE /\ lost = FALSE
    /\ starts = 0 /\ faults = 0

Fault == faults < MaxFaults /\ (mixed => role \in Turbulent) /\ faults' = faults + 1
NoFault == UNCHANGED faults

Begin(f, todo) ==
    /\ ~Running(f) /\ starts < MaxStarts
    /\ AtRest \/ faults = 0 \/ role \in Turbulent
    /\ starts' = starts + 1
    /\ flow' = [flow EXCEPT ![f].todo = todo]
    /\ mixed' = (~AtRest \/ mixed)
    /\ ended' = Never

\* ShardService.Converge: one workflow ID, so that a converge which is still
\* running is left alone.
Converge ==
    /\ Begin("api", ConvergeShardWorkflow)
    /\ UNCHANGED <<role, addressed, status, rows, node, store, incident, lost, faults>>

\* ShardService.Retry: a failed shard is active again before its converge
\* starts, and stays so if that does not start.
Retry ==
    /\ status = "failed"
    /\ status' = "active"
    /\ \/ Begin("api", ConvergeShardWorkflow) /\ NoFault
       \/ Fault /\ ended' = Never /\ UNCHANGED <<flow, mixed, starts>>
    /\ UNCHANGED <<role, addressed, rows, node, store, incident, lost>>

\* DeleteTenantWorkflow converges the shard under an ID of its own.
ConvergeForTenant ==
    /\ Begin("tenant", ConvergeShardWorkflow)
    /\ UNCHANGED <<role, addressed, status, rows, node, store, incident, lost, faults>>

StartJob ==
    /\ \E r \in Moving(role) :
         Begin("job", IF rows[r] = "active" THEN Provision(r, DeleteOp(r), "deleting", "deleted")
                      ELSE Provision(r, CreateOp(r), "provisioning", "active"))
    /\ UNCHANGED <<role, addressed, status, rows, node, store, incident, lost, faults>>


Phase(f) == Head(flow[f].todo)
Rest(f) == Tail(flow[f].todo)
\* wg.Wait: a phase begins when every node is done with the last one.
Ready(f) == flow[f].todo # <<>> /\ \A n \in Nodes : flow[f].left[n] = <<>>
At(f, what) == Ready(f) /\ Phase(f).do = what
Goto(f, todo) == flow' = [flow EXCEPT ![f].todo = todo]
Failing(f, todo) == flow' = [flow EXCEPT ![f].todo = todo, ![f].errs = TRUE, ![f].blind = TRUE]

\* setShardStatus: its error is dropped.
setShardStatus(v) ==
    \/ status' = v /\ NoFault /\ UNCHANGED lost
    \/ Fault /\ lost' = TRUE /\ UNCHANGED status

WriteStatus(f) ==
    /\ At(f, "status")
    /\ setShardStatus(Phase(f).r)
    /\ Goto(f, Rest(f))
    /\ UNCHANGED <<role, addressed, rows, node, store, ended, mixed, incident, starts>>

\* The end of a converge: active, or failed with the errors collected.
End(f) ==
    /\ At(f, "settle")
    /\ setShardStatus(IF flow[f].errs THEN "failed" ELSE "active")
    /\ ended' = [done |-> TRUE, hurt |-> flow[f].hurt, blind |-> flow[f].blind]
    /\ flow' = [flow EXCEPT ![f] = Idle]
    /\ UNCHANGED <<role, addressed, rows, node, store, mixed, incident, starts>>

\* The reads of the core database, and what follows from their answers.
Answer(f) ==
    LET p == Phase(f) rest == Rest(f)
    IN  CASE p.do = "shard" -> rest
          [] p.do = "nodes" -> ByRole \o <<Settle>>
          [] p.do = "desired" -> convergeWebShard(GetShardDesiredState) \o rest
          [] p.do = "primary" -> rest
          [] p.do = "databases" -> convergeDatabaseShard(Active) \o rest
          [] p.do = "instances" -> convergeValkeyShard(Active) \o rest
          [] p.do = "mappings" -> convergeLBShard(Active) \o rest
          [] p.do = "peers" ->
               IF \A r \in DOMAIN rows : rows[r] = "deleted" THEN rest
               ELSE convergeGatewayShard(Active) \o rest
          [] p.do = "users" -> UserPhases(p.r, Active \cap {"dbuser", "vuser"}) \o rest
          [] p.do = "tenant" -> <<Fan(Nodes, <<Do("ConfigureServiceTenantAddr", Tenant)>>)>> \o rest
          [] p.do = "replication" ->
               (IF <<"replicating", "mysql">> \in node[p.r] THEN <<>> ELSE ReplicationPhases(p.r))
               \o rest
          [] p.do \in {"services", "owner", "pubkey"} -> rest

Reads == {"shard", "nodes", "desired", "primary", "databases", "instances", "mappings",
          "peers", "users", "tenant", "replication", "services", "owner", "pubkey"}

\* The gateway's early return gives up the errors collected so far.
ReadCore(f) ==
    /\ Ready(f) /\ Phase(f).do \in Reads
    /\ flow' = [flow EXCEPT ![f].todo = Answer(f),
                           ![f].errs = @ /\ ~(Phase(f).do = "peers" /\ Answer(f) = Rest(f))]
    /\ UNCHANGED <<role, addressed, status, rows, node, store, ended, mixed, incident, lost, starts, faults>>

\* A read that fails: the workflow ends, the role's part ends, or only what
\* depended on the read is left out.
ReadFails(f) ==
    /\ Ready(f) /\ Phase(f).do \in Reads
    /\ Fault
    /\ LET do == Phase(f).do
       IN  CASE do = "shard" -> flow' = [flow EXCEPT ![f] = Idle]
             [] do = "nodes" -> Failing(f, <<Settle>>)
             [] do \in {"desired", "primary", "databases", "instances", "mappings", "peers"} ->
                  Failing(f, <<Settle>>)
             [] do \in {"users", "tenant", "pubkey"} -> Failing(f, Rest(f))
             [] do = "services" -> Failing(f, WithoutServices(Rest(f)))
             [] do = "owner" -> Failing(f, WithoutOwner(Rest(f)))
             [] do = "replication" ->
                  Goto(f, ReplicationPhases(Phase(f).r) \o Rest(f))
    /\ UNCHANGED <<role, addressed, status, rows, node, store, ended, mixed, incident, lost, starts>>

\* A fan-out begins: every node gets its list.
FanOut(f) ==
    /\ At(f, "fan")
    /\ flow' = [flow EXCEPT ![f].left = [n \in Nodes |-> IF n \in Phase(f).on THEN Phase(f).acts ELSE <<>>],
                           ![f].todo = Rest(f)]
    /\ UNCHANGED <<role, addressed, status, rows, node, store, ended, mixed, incident, lost, starts, faults>>

Hold(n, M) ==
    /\ node' = [node EXCEPT ![n] = {x \in M : x[1] \notin SharedKinds}]
    /\ store' = {x \in M : x[1] \in SharedKinds}

\* A plausible mistake: an error ends the fan-out on every node.
GoneWrongAll(f, n) ==
    flow' = [flow EXCEPT ![f].left = [m \in Nodes |-> <<>>], ![f].errs = TRUE,
                         ![f].hurt = @ \cup {n}]

\* A plausible mistake: the error is logged and not collected.
GoneWrongUnheard(f, n) ==
    flow' = [flow EXCEPT ![f].left[n] = <<>>, ![f].hurt = @ \cup {n}]

\* The list of this node ends with the error; the others go on.
GoneWrong(f, n) ==
    flow' = [flow EXCEPT ![f].left[n] = <<>>, ![f].errs = TRUE, ![f].hurt = @ \cup {n}]

\* The next activity of a node.
Activity(f, n) ==
    /\ flow[f].left[n] # <<>>
    /\ \E p \in {Program(Head(flow[f].left[n]), n)} : \E ran \in {Ran(p, Holds(n))} :
         \/ /\ Hold(n, ran[Len(p)][1])
            /\ IF ran[Len(p)][2] THEN flow' = [flow EXCEPT ![f].left[n] = Tail(@)]
               ELSE GoneWrong(f, n)
            /\ NoFault
         \/ /\ Fault
            /\ \E k \in 0..Len(p) : Hold(n, ran[k][1])
            /\ GoneWrong(f, n)
    /\ UNCHANGED <<role, addressed, status, rows, ended, mixed, incident, lost, starts>>

\* The provisioning workflow's writes of the row's status.
WriteRow(f) ==
    /\ At(f, "row")
    /\ rows' = [rows EXCEPT ![Phase(f).r] = IF flow[f].errs THEN "failed" ELSE Phase(f).v]
    /\ flow' = [flow EXCEPT ![f] = IF Rest(f) = <<>> THEN Idle ELSE [@ EXCEPT !.todo = Rest(f)]]
    /\ UNCHANGED <<role, addressed, status, node, store, ended, mixed, incident, lost, starts, faults>>

\* The roles CheckConvergenceHealthWorkflow resolves incidents for.
MonitoredRoles == {"web", "database", "dns", "email", "valkey", "storage"}

\* A plausible mistake: stuck shards are not reported.
CheckConvergenceHealthMute ==
    /\ status # "converging" /\ role \in MonitoredRoles /\ incident' = FALSE
    /\ UNCHANGED <<role, addressed, status, rows, node, store, flow, ended, mixed, lost, starts, faults>>

\* CheckConvergenceHealthWorkflow: a shard that has been converging for more
\* than 15 minutes, and one that no longer is.
CheckConvergenceHealth ==
    /\ IF status = "converging" THEN incident' = TRUE
       ELSE role \in MonitoredRoles /\ incident' = FALSE
    /\ UNCHANGED <<role, addressed, status, rows, node, store, flow, ended, mixed, lost, starts, faults>>

Step(f) ==
    \/ WriteStatus(f) \/ End(f) \/ ReadCore(f) \/ ReadFails(f) \/ FanOut(f)
    \/ WriteRow(f) \/ \E n \in Nodes : Activity(f, n)

Next == Converge \/ Retry \/ ConvergeForTenant \/ StartJob \/ CheckConvergenceHealth
        \/ \E f \in Flows : Step(f)

Spec == Init /\ [][Next]_vars

\* Temporal runs every workflow it has accepted to its end, and the schedule
\* runs the monitor.
FairSpec == Spec /\ WF_vars(CheckConvergenceHealth) /\ \A f \in Flows : WF_vars(Step(f))

-----------------------------------------------------------------------------
(* Properties.                                                             *)

TypeOK ==
    /\ role \in Roles /\ addressed \in BOOLEAN
    /\ status \in {"active", "converging", "failed"}
    /\ rows \in [Resources(role) -> {"active", "provisioning", "deleting", "deleted", "failed"}]
    /\ \A f \in Flows : flow[f].hurt \subseteq Nodes
    /\ ended.hurt \subseteq Nodes
    /\ starts \in 0..MaxStarts /\ faults \in 0..MaxFaults

\* When a converge ends, a node none of whose activities failed has all that
\* the shard's active resources need, and none of the remains a converge takes
\* away (see Unwanted), whatever failed on the other nodes: errors are
\* collected and the rest goes on.  Not so of a converge a read of which
\* failed, and of one that another workflow of the shard ran beside.  A replica
\* whose primary has no address is not required to replicate: it is skipped.
OthersConverge ==
    (AtRest /\ ended.done /\ ~ended.blind /\ ~mixed) => \A n \in Nodes \ ended.hurt : Converged(n)

\* convergeGatewayShard returns early, and without the errors it has
\* collected, when the cluster has no peers.
Forgetful == role = "gateway" /\ \A r \in DOMAIN rows : rows[r] = "deleted"

\* A shard is active after a converge only if nothing failed in it, on any
\* node, and then all its nodes are converged (not so if another workflow of
\* the shard ran beside it); no shard stays converging once its workflows are
\* over, overlapping ones too, unless the write of its status was lost.
ActiveIsConverged ==
    (AtRest /\ ~lost) =>
        /\ status # "converging"
        /\ (ended.done /\ ~mixed /\ status = "active" /\ ~Forgetful) =>
              ended.hurt = {} /\ ~ended.blind /\ \A n \in Nodes : Converged(n)

\* What may go although an active resource needs it.  The users of a valkey
\* instance: CreateInstance rewrites its ACL.  The peers of a tenant that could
\* not be read.  And the resource that another workflow of the shard is about:
\* the converge's snapshot of the rows can be older than they are.
Exposed ==
    (IF role = "valkey" THEN {"acluser", "aclline"} \X Moving(role) ELSE {})
    \cup (IF role = "gateway" /\ \E f \in Converges : flow[f].blind
           THEN {"peer", "wgroute"} \X Resources(role) ELSE {})
    \cup (IF mixed THEN {x \in UNION {Wanted(n) : n \in Nodes} : x[2] \in Moving(role)} ELSE {})

\* What an activity takes out before it puts it in again, and so leaves out if
\* it fails between the two: the tenant's SSH group, a MySQL user, replication.
Replaced ==
    {"hosting-sftp", "dbuser", "grant", "source", "replicating"} \X {Tenant, "dbuser", "mysql"}

\* No step of a converge takes away from a node what the shard's active
\* resources need, but for what is exposed, and for what is replaced when the
\* activity fails: neither an activity that succeeds nor one that fails
\* half-way, and also while another converge of the shard or a resource's
\* workflow runs.
InServiceStays ==
    [][UNCHANGED <<rows, flow["job"]>> =>
           \A n \in Nodes :
               (Wanted(n) \cap Holds(n)) \ (Exposed \cup (IF UNCHANGED faults THEN {} ELSE Replaced))
                   \subseteq Holds(n)']_vars

\* What a converge has done is what the database wants when everything is at
\* rest, also when resources were created or deleted while it ran.
QuietIsConverged ==
    (AtRest /\ ended.done /\ ended.hurt = {} /\ ~ended.blind /\ ~lost /\ status = "active")
        => \A n \in Nodes : Converged(n)

\* A shard does not stay converging unnoticed: it settles, or the monitor
\* has opened an incident about it.
ConvergingIsNoticed == status = "converging" ~> (status # "converging" \/ incident)

\* An incident about a shard that has settled is resolved.
StuckIncidentEnds ==
    (incident /\ status # "converging" /\ role \in MonitoredRoles)
        ~> (~incident \/ status = "converging")

\* Both together: the monitor's incidents follow the shard's status.
StuckIsNoticed == ConvergingIsNoticed /\ StuckIncidentEnds

=============================================================================
