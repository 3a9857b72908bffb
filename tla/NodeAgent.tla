------------------------------ MODULE NodeAgent ------------------------------
(***************************************************************************)
(* One node and its agent: a Temporal worker (cmd/node-agent) that runs    *)
(* the activities of NodeLocal, one command after another.  A command may  *)
(* fail, the agent may stop between two commands or before it reports, and *)
(* Temporal then runs the activity again from its start, until its time is *)
(* over.  The provisioning workflows of one tenant are serialized by its   *)
(* queue, so that one operation runs at a time.                            *)
(*                                                                         *)
(* The resources fall into families that share nothing on a node; a        *)
(* behaviour is about one family.                                          *)
(***************************************************************************)
EXTENDS NodeLocal, FiniteSets

CONSTANTS
    Families,       \* the families looked at
    Webroots,       \* the tenant's webroots
    Runtimes,       \* the runtimes they may be created with
    MaxAttempts,    \* bound: attempts before ScheduleToCloseTimeout
    MaxOps,         \* bound: operations in a behaviour
    MaxFaults       \* bound: failed commands and stops of the agent

ASSUME AttemptsAssumption == MaxAttempts \in Nat \ {0}

VARIABLES
    family,     \* the family of this behaviour
    node,       \* the facts true on the node
    job,        \* the activity in progress
    last,       \* for each resource, how its last operation ended
    swallowed,  \* resources one of whose commands failed without a word
    taken,      \* webroots set up before another one was deleted
    ops, faults

vars == <<family, node, job, last, swallowed, taken, ops, faults>>

Tenant == "t"
Stale == "stale"    \* a user left over that holds the tenant's UID
Resources == {Tenant, "ssh", "keys", "cert", "cron", "daemon", "db", "dbuser", "temp",
              "replica", "valkey", "vuser", "bucket", "s3key", "ula", "svc", "routes",
              "p1", "p2", "backup"} \cup Webroots

Outcomes == [st : {"none", "ok", "gone", "failed"},
             v : {"", "on", "off", "hosting-ssh", "hosting-sftp", "hosting-noaccess"} \cup Runtimes]

Never == [st |-> "none", v |-> ""]

Idle == [op |-> "none", on |-> {}, v |-> "", ends |-> "", todo |-> <<>>, attempt |-> 0, calm |-> TRUE]

Busy == job.op # "none"

-----------------------------------------------------------------------------
(* What the operations promise.                                            *)

\* The pool of all the tenant's webroots with PHP 8.5.
DefaultPool == Of({"pool8.5", "fpm8.5"}, Tenant)

RuntimeFacts(w, rt) ==
    CASE rt = "php8.5" -> DefaultPool
      [] rt = "php8.3" -> Of({"pool8.3", "fpm8.3"}, Tenant)
      [] rt = "node" -> Of({"nodeunit", "nodesvc"}, w)
      [] rt = "python" -> Of({"pyunit", "pysvc"}, w)
      [] rt = "ruby" -> Of({"rubyunit", "rubysvc"}, w)
      [] OTHER -> {}

Kinds ==
    [r \in Resources \ Webroots |->
        CASE r = Tenant -> {"user", "chroot", "dirs", "owned", "logdir", "quota"}
          [] r = "keys" -> {"authkeys"}
          [] r = "cert" -> {"fullchain", "privkey"}
          [] r = "cron" -> {"serviceunit", "timerunit", "timer"}
          [] r = "daemon" -> {"daemonconf", "known", "program"}
          [] r = "db" -> {"database"}
          [] r \in {"dbuser", "temp"} -> {"dbuser", "grant", "event"}
          [] r = "replica" -> {"source", "replicating", "read_only", "super_read_only"}
          [] r = "valkey" -> {"vdata", "acl", "vconf", "vserver", "vunit"}
          [] r = "vuser" -> {"acluser", "aclline"}
          [] r = "bucket" -> {"bucket", "policy", "public", "quotaset", "quota"}
          [] r = "s3key" -> {"s3key"}
          [] r = "ula" -> {"ula", "allowed"}
          [] r = "svc" -> {"svcaddr", "ulaset"}
          [] r = "routes" -> {"transit"}
          [] r \in {"p1", "p2"} -> {"peer", "wgroute", "forward"}
          [] r = "backup" -> {"dumpfile", "dumped"}
          [] OTHER -> {}]

\* Everything on a node that is about a resource and no other.
FactsOf(r) ==
    IF r \in Webroots
    THEN Of({"webdir", "env", "site", "tls", "served",
             "nodeunit", "nodesvc", "pyunit", "pysvc", "rubyunit", "rubysvc"}, r)
    ELSE IF r = "ssh" THEN Of({"hosting-ssh", "hosting-sftp", "hosting-noaccess"}, Tenant)
    ELSE IF r = Tenant THEN Of(Kinds[r] \cup {"mounts", "etc", "authkeys", "locked"}, r)
    ELSE IF r = "keys" THEN Of(Kinds[r], Tenant)
    ELSE Of(Kinds[r], r)

\* What a completed creation of the resource, with option v, has set up.
Promised(r, v) ==
    IF r \in Webroots THEN Of({"webdir", "env", "site", "served"}, r) \cup RuntimeFacts(r, v)
    ELSE CASE r = "ssh" -> {<<v, Tenant>>} \cup (IF v = "hosting-ssh" THEN Of({"mounts"}, Tenant) ELSE {})
           [] r = "cron" -> Of(Kinds[r] \ (IF v = "on" THEN {} ELSE {"timer"}), r)
           [] r = "daemon" -> Of(Kinds[r] \ (IF v = "on" THEN {} ELSE {"program"}), r)
           [] r = "dbuser" -> Of({"dbuser", "grant"}, r)
           [] r = "replica" -> Of(IF v = "on" THEN Kinds[r] ELSE {}, r)
           [] r = "valkey" -> Of(Kinds[r] \ {"vunit"}, r)
           [] r = "bucket" -> Of(Kinds[r] \ (IF v = "on" THEN {} ELSE {"public"}), r)
           [] r = "routes" -> Of({"transit"}, r) \cup ({"route"} \X {"m2", "m3"})
           [] OTHER -> FactsOf(r) \cap (Kinds[r] \X {r, Tenant})

\* Kinds of facts set up or removed by commands whose errors are dropped.
SoftKinds ==
    ProcessKinds \cup
    {"quota", "mounts", "hosting-ssh", "hosting-sftp", "hosting-noaccess", "pool8.5", "pool8.3",
     "nodeunit", "pyunit", "rubyunit", "timer", "serviceunit", "timerunit", "event",
     "vserver", "vunit", "acluser", "aclline", "allowed", "ulaset", "wgroute", "forward",
     "dumped"}

Hard(r, fs) == IF r \in swallowed THEN {f \in fs : f[1] \notin SoftKinds} ELSE fs

-----------------------------------------------------------------------------
(* The operations the workflows ask for.  on: the resources concerned, v:  *)
(* the option they get, ends: what success means for them.                 *)

Ask(op, on, v, ends) == [op |-> op, on |-> on, v |-> v, ends |-> ends]

Was(r, sts) == last[r].st \in sts
Known == {"ok", "failed"}

TenantOps ==
    {Ask("CreateTenant", {Tenant}, "", "ok")}
    \cup (IF Was(Tenant, {"ok"})
          THEN {Ask(op, {Tenant}, "", "same") :
                  op \in {"UpdateTenant", "SuspendTenant", "UnsuspendTenant"}}
               \cup {Ask("SyncSSHConfig", {"ssh"}, a, "ok") :
                       a \in {"hosting-ssh", "hosting-sftp", "hosting-noaccess"}}
               \cup {Ask("SyncSSHKeys", {"keys"}, "", "ok")}
          ELSE {})
    \cup (IF Was("ssh", Known) THEN {Ask("RemoveSSHConfig", {"ssh"}, "", "gone")} ELSE {})
    \cup (IF Was(Tenant, Known) THEN {Ask("DeleteTenant", {Tenant, "ssh", "keys"}, "", "gone")}
          ELSE {})

WebOps ==
    UNION {{Ask("CreateWebroot", {w}, rt, "ok") : rt \in IF Was(w, {"ok"}) THEN {last[w].v} ELSE Runtimes}
           : w \in Webroots}
    \cup UNION {{Ask("UpdateWebroot", {w}, rt, "ok") : rt \in Runtimes} \cup
                {Ask("ConfigureRuntime", {w}, last[w].v, "same")}
               : w \in {x \in Webroots : Was(x, {"ok"})}}
    \cup {Ask("DeleteWebroot", {w}, "", "gone") : w \in {x \in Webroots : Was(x, Known)}}
    \cup {Ask("InstallCertificate", {"cert"}, "", "ok"),
          Ask("ReloadNginx", {}, "", "same"), Ask("ReloadPHPFPM", {}, "", "same"),
          Ask("CleanOrphanedConfigs", {}, "", "same"), Ask("CleanOrphanedFPMPools", {}, "", "same")}

JobOps ==
    {Ask("CreateCronJobUnits", {"cron"}, IF Was("cron", {"ok"}) THEN last["cron"].v ELSE "off", "ok"),
     Ask("CreateDaemonConfig", {"daemon"}, "on", "ok"),
     Ask("CleanOrphanedDaemonConfigs", {}, "", "same")}
    \cup (IF Was("cron", {"ok"})
          THEN {Ask("UpdateCronJobUnits", {"cron"}, last["cron"].v, "ok"),
                Ask("EnableCronJobTimer", {"cron"}, "on", "ok"),
                Ask("DisableCronJobTimer", {"cron"}, "off", "ok")}
          ELSE {})
    \cup (IF Was("daemon", {"ok"})
          THEN {Ask("UpdateDaemonConfig", {"daemon"}, "on", "ok"),
                Ask("EnableDaemon", {"daemon"}, "on", "ok"),
                Ask("DisableDaemon", {"daemon"}, "off", "ok")}
          ELSE {})
    \cup (IF Was("cron", Known) THEN {Ask("DeleteCronJobUnits", {"cron"}, "", "gone")} ELSE {})
    \cup (IF Was("daemon", Known) THEN {Ask("DeleteDaemonConfig", {"daemon"}, "", "gone")} ELSE {})

DatabaseOps ==
    {Ask("CreateDatabase", {"db"}, "", "ok"), Ask("ConfigureReplication", {"replica"}, "on", "ok")}
    \cup (IF Was("db", {"ok"})
          THEN {Ask("CreateDatabaseUser", {"dbuser"}, "", "ok"),
                Ask("CreateTempMySQLUser", {"temp"}, "", "ok")} ELSE {})
    \cup (IF Was("dbuser", {"ok"}) THEN {Ask("UpdateDatabaseUser", {"dbuser"}, "", "ok")} ELSE {})
    \cup (IF Was("dbuser", Known) THEN {Ask("DeleteDatabaseUser", {"dbuser"}, "", "gone")} ELSE {})
    \cup (IF Was("db", Known) THEN {Ask("DeleteDatabase", {"db"}, "", "gone")} ELSE {})
    \cup (IF Was("replica", {"ok"}) THEN {Ask("StopReplication", {"replica"}, "off", "ok")} ELSE {})

\* A converge creates the instance again and then each of its users.
ValkeyOps ==
    {Ask("CreateValkeyInstance", {"valkey"} \cup (IF Was("vuser", {"ok"}) THEN {"vuser"} ELSE {}), "", "ok")}
    \cup (IF Was("valkey", {"ok"}) THEN {Ask("CreateValkeyUser", {"vuser"}, "", "ok")} ELSE {})
    \cup (IF Was("valkey", {"ok"}) /\ Was("vuser", {"ok"})
          THEN {Ask("UpdateValkeyUser", {"vuser"}, "", "ok")} ELSE {})
    \cup (IF Was("vuser", Known) THEN {Ask("DeleteValkeyUser", {"vuser"}, "", "gone")} ELSE {})
    \cup (IF Was("valkey", Known) THEN {Ask("DeleteValkeyInstance", {"valkey", "vuser"}, "", "gone")} ELSE {})

\* A public bucket has its policy set after the bucket was created.
S3Ops ==
    {Ask("CreateS3Bucket", {"bucket"}, v, "ok") : v \in {"on", "off"}}
    \cup (IF Was("bucket", {"ok"})
          THEN {Ask("UpdateS3BucketPolicy", {"bucket"}, v, "ok") : v \in {"on", "off"}} ELSE {})
    \cup {Ask("CreateS3AccessKey", {"s3key"}, "", "ok")}
    \cup (IF Was("s3key", Known) THEN {Ask("DeleteS3AccessKey", {"s3key"}, "", "gone")} ELSE {})
    \cup (IF Was("bucket", Known) THEN {Ask("DeleteS3Bucket", {"bucket"}, "", "gone")} ELSE {})

NetworkOps ==
    {Ask("ConfigureTenantAddresses", {"ula"}, "", "ok"),
     Ask("ConfigureServiceTenantAddr", {"svc"}, "", "ok"),
     Ask("ConfigureULARoutes", {"routes"}, "", "ok"), Ask("ConfigureULARoutesV2", {"routes"}, "", "ok")}
    \cup (IF Was("ula", Known) THEN {Ask("RemoveTenantAddresses", {"ula"}, "", "gone")} ELSE {})
    \cup (IF Was("svc", Known) THEN {Ask("RemoveServiceTenantAddr", {"svc"}, "", "gone")} ELSE {})

\* SyncWireGuardPeers is given every active peer.
GatewayOps ==
    {Ask("ConfigureWireGuardPeer", {p}, "", "ok") : p \in {"p1", "p2"}}
    \cup {Ask("RemoveWireGuardPeer", {p}, "", "gone") : p \in {x \in {"p1", "p2"} : Was(x, Known)}}
    \cup {Ask("SyncWireGuardPeers", {p \in {"p1", "p2"} : Was(p, {"ok"})}, "", "ok")}

BackupOps ==
    {Ask(op, {"backup"}, "", "ok") : op \in {"CreateWebBackup", "CreateMySQLBackup"}}
    \cup (IF Was("backup", {"ok"})
          THEN {Ask("RestoreWebBackup", {"backup"}, "", "same"),
                Ask("RestoreMySQLBackup", {"backup"}, "", "same")} ELSE {})
    \cup (IF Was("backup", Known) THEN {Ask("DeleteBackupFile", {"backup"}, "", "gone")} ELSE {})

Offered ==
    CASE family = "tenant" -> TenantOps
      [] family = "web" -> WebOps
      [] family = "jobs" -> JobOps
      [] family = "database" -> DatabaseOps
      [] family = "valkey" -> ValkeyOps
      [] family = "s3" -> S3Ops
      [] family = "network" -> NetworkOps
      [] family = "gateway" -> GatewayOps
      [] family = "backup" -> BackupOps

The(on) == CHOOSE r \in on : TRUE

\* Tenants whose sites nginx will serve: those with a site other than w.
SitesBut(w) == IF \E x \in Webroots \ {w} : <<"site", x>> \in node THEN {Tenant} ELSE {}

\* The resources of which the database says they are active.
InUse(rs) == {r \in rs : last[r].st = "ok"}

\* The activities the agent's worker is registered with (NodeLocal).
Program(q) ==
    LET r == The(q.on)
        M == node
    IN  CASE q.op = "CreateTenant" -> CreateTenant(Tenant, Stale, M)
          [] q.op = "UpdateTenant" -> UpdateTenant
          [] q.op = "SuspendTenant" -> SuspendTenant(Tenant, Webroots)
          [] q.op = "UnsuspendTenant" -> UnsuspendTenant(Tenant)
          [] q.op = "DeleteTenant" -> DeleteTenant(Tenant, Webroots)
          [] q.op = "SyncSSHConfig" -> SyncSSHConfig(Tenant, q.v, M)
          [] q.op = "RemoveSSHConfig" -> RemoveSSHConfig(Tenant)
          [] q.op = "SyncSSHKeys" -> SyncSSHKeys(Tenant)
          [] q.op = "CreateWebroot" -> CreateWebroot(r, Tenant, q.v, {"cert"}, M)
          [] q.op = "UpdateWebroot" -> UpdateWebroot(r, Tenant, q.v, {"cert"}, M)
          [] q.op = "DeleteWebroot" -> DeleteWebroot(r, Tenant, SitesBut(r), {"cert"}, M)
          [] q.op = "ConfigureRuntime" -> ConfigureRuntime(r, Tenant, q.v)
          [] q.op = "InstallCertificate" -> InstallCertificate(r, M)
          [] q.op = "ReloadNginx" -> ReloadNginx(SitesBut(""), {"cert"}, M)
          [] q.op = "ReloadPHPFPM" -> ReloadPHPFPM(M)
          [] q.op = "CleanOrphanedConfigs" -> CleanOrphanedConfigs(InUse(Webroots), M)
          [] q.op = "CleanOrphanedFPMPools" ->
               CleanOrphanedFPMPools(IF InUse(Webroots) = {} THEN {} ELSE {Tenant}, M)
          [] q.op = "CleanOrphanedDaemonConfigs" ->
               CleanOrphanedDaemonConfigs(InUse({"daemon"}), M)
               \o (IF \E f \in M : f[1] = "daemonconf" /\ f[2] \notin InUse({"daemon"})
                   THEN RestartSupervisord ELSE <<>>)
          [] q.op = "CreateCronJobUnits" -> CreateCronJobUnits(r)
          [] q.op = "UpdateCronJobUnits" -> UpdateCronJobUnits(r)
          [] q.op = "DeleteCronJobUnits" -> DeleteCronJobUnits(r)
          [] q.op = "EnableCronJobTimer" -> EnableCronJobTimer(r)
          [] q.op = "DisableCronJobTimer" -> DisableCronJobTimer(r)
          [] q.op = "CreateDaemonConfig" -> CreateDaemonConfig(r, Tenant)
          [] q.op = "UpdateDaemonConfig" -> UpdateDaemonConfig(r, Tenant)
          [] q.op = "DeleteDaemonConfig" -> DeleteDaemonConfig(r)
          [] q.op = "EnableDaemon" -> EnableDaemon(r)
          [] q.op = "DisableDaemon" -> DisableDaemon(r)
          [] q.op = "CreateDatabase" -> CreateDatabase(r)
          [] q.op = "DeleteDatabase" -> DeleteDatabase(r)
          [] q.op = "CreateDatabaseUser" -> CreateDatabaseUser(r)
          [] q.op = "UpdateDatabaseUser" -> UpdateDatabaseUser(r)
          [] q.op = "DeleteDatabaseUser" -> DeleteDatabaseUser(r)
          [] q.op = "CreateTempMySQLUser" -> CreateTempMySQLUser(r)
          [] q.op = "ConfigureReplication" -> SetReadOnly(r, TRUE) \o ConfigureReplication(r)
          [] q.op = "StopReplication" -> StopReplication(r) \o SetReadOnly(r, FALSE)
          [] q.op = "CreateValkeyInstance" ->
               CreateValkeyInstance("valkey", {"vuser"}, M)
               \o (IF "vuser" \in q.on THEN CreateValkeyUser("vuser", "valkey") ELSE <<>>)
          [] q.op = "DeleteValkeyInstance" -> DeleteValkeyInstance("valkey", {"vuser"})
          [] q.op = "CreateValkeyUser" -> CreateValkeyUser(r, "valkey")
          [] q.op = "UpdateValkeyUser" -> UpdateValkeyUser(r, "valkey")
          [] q.op = "DeleteValkeyUser" -> DeleteValkeyUser(r, "valkey", M)
          [] q.op = "CreateS3Bucket" ->
               CreateS3Bucket(r, Tenant, M)
               \o (IF q.v = "on" THEN UpdateS3BucketPolicy(r, TRUE) ELSE <<>>)
          [] q.op = "UpdateS3BucketPolicy" -> UpdateS3BucketPolicy(r, q.v = "on")
          [] q.op = "DeleteS3Bucket" -> DeleteS3Bucket(r)
          [] q.op = "CreateS3AccessKey" -> CreateS3AccessKey(r, Tenant, M)
          [] q.op = "DeleteS3AccessKey" -> DeleteS3AccessKey(r)
          [] q.op = "ConfigureTenantAddresses" -> ConfigureTenantAddresses(r)
          [] q.op = "RemoveTenantAddresses" -> RemoveTenantAddresses(r)
          [] q.op = "ConfigureServiceTenantAddr" -> ConfigureServiceTenantAddr(r)
          [] q.op = "RemoveServiceTenantAddr" -> RemoveServiceTenantAddr(r)
          [] q.op = "ConfigureULARoutes" -> ConfigureULARoutes(r, {"m2", "m3"})
          [] q.op = "ConfigureULARoutesV2" -> ConfigureULARoutesV2(r, {"m2", "m3"})
          [] q.op = "ConfigureWireGuardPeer" -> ConfigureWireGuardPeer(r, M)
          [] q.op = "RemoveWireGuardPeer" -> RemoveWireGuardPeer(r, M)
          [] q.op = "SyncWireGuardPeers" ->
               SyncWireGuardPeers(SetToSeq(q.on), {"p1", "p2"} \ q.on, M)
          [] q.op = "CreateWebBackup" -> CreateWebBackup(r, "w0")
          [] q.op = "RestoreWebBackup" -> RestoreWebBackup(r, "w0")
          [] q.op = "CreateMySQLBackup" -> CreateMySQLBackup(r, "db0")
          [] q.op = "RestoreMySQLBackup" -> RestoreMySQLBackup(r, "db0")
          [] q.op = "DeleteBackupFile" -> DeleteBackupFile(r)

-----------------------------------------------------------------------------
(* Execution.                                                              *)

\* What the node holds to begin with: the tenant exists for its webroots and
\* daemons, a gateway has its interface up, a user may hold a stale UID.
InitialFacts(f) ==
    CASE f = "tenant" -> {{}, {<<"user", Stale>>}}
      [] f \in {"web", "jobs"} -> {Of({"user", "chroot", "dirs", "owned", "logdir"}, Tenant)}
      [] f = "gateway" -> {{<<"wg", x>> : x \in {"link", "key", "up"}}}
      [] f = "backup" -> {{<<"webdir", "w0">>, <<"database", "db0">>}}
      [] OTHER -> {{}}

Init ==
    /\ family \in Families
    /\ node \in InitialFacts(family)
    /\ job = Idle
    /\ last = [r \in Resources |-> Never]
    /\ swallowed = {} /\ taken = {} /\ ops = 0 /\ faults = 0

\* A workflow schedules an activity.
Schedule ==
    /\ ~Busy /\ ops < MaxOps
    /\ \E q \in Offered :
         /\ job' = [op |-> q.op, on |-> q.on, v |-> q.v, ends |-> q.ends, todo |-> Program(q),
                    attempt |-> 1, calm |-> TRUE]
         /\ taken' = IF q.op = "DeleteWebroot" THEN taken \cup (Webroots \ q.on) ELSE taken
    /\ ops' = ops + 1
    /\ UNCHANGED <<family, node, last, swallowed, faults>>

\* The next command runs as it should.
Execute ==
    /\ Busy /\ job.todo # <<>> /\ CanRun(Head(job.todo), node)
    /\ node' = Effect(Head(job.todo), node)
    /\ job' = [job EXCEPT !.todo = Tail(@)]
    /\ UNCHANGED <<family, last, swallowed, taken, ops, faults>>

End(st) ==
    /\ last' = [r \in Resources |->
                  IF r \notin job.on \/ (job.ends = "same" /\ st = "ok") THEN last[r]
                  ELSE IF st = "failed" THEN [last[r] EXCEPT !.st = "failed"]
                  ELSE [st |-> job.ends, v |-> IF r = "vuser" /\ job.ends = "ok" THEN "" ELSE job.v]]
    /\ job' = Idle

Again == job' = [job EXCEPT !.todo = Program(job), !.attempt = @ + 1, !.calm = TRUE]

\* The attempt ends with an error.  asNonRetryable makes some errors final;
\* the others are retried until ScheduleToCloseTimeout, which may pass
\* during any attempt (a node that is down runs none).
EndAttempt(err) ==
    \/ End("failed")
    \/ err # "final" /\ job.attempt < MaxAttempts /\ Again /\ UNCHANGED last

\* The next command meets a state of the node it cannot work on.
Refused ==
    /\ Busy /\ job.todo # <<>> /\ ~CanRun(Head(job.todo), node)
    /\ IF Head(job.todo).err = "drop"
       THEN job' = [job EXCEPT !.todo = Tail(@)] /\ UNCHANGED last
       ELSE EndAttempt(Head(job.todo).err)
    /\ UNCHANGED <<family, node, swallowed, taken, ops, faults>>

\* The next command fails for a reason of its own (I/O, a timeout).
Fail ==
    /\ Busy /\ job.todo # <<>> /\ faults < MaxFaults
    /\ faults' = faults + 1
    /\ IF Head(job.todo).err = "drop"
       THEN /\ swallowed' = swallowed \cup job.on
            /\ job' = [job EXCEPT !.todo = Tail(@), !.calm = FALSE]
            /\ UNCHANGED last
       ELSE EndAttempt(Head(job.todo).err) /\ UNCHANGED swallowed
    /\ UNCHANGED <<family, node, taken, ops>>

\* The agent stops, possibly after the last command: the attempt times out.
Stop ==
    /\ Busy /\ faults < MaxFaults
    /\ faults' = faults + 1
    /\ EndAttempt("retry")
    /\ UNCHANGED <<family, node, swallowed, taken, ops>>

\* The activity reports success.
Complete ==
    /\ Busy /\ job.todo = <<>>
    /\ End("ok")
    /\ taken' = taken \ job.on
    /\ UNCHANGED <<family, node, swallowed, ops, faults>>

Next == Schedule \/ Execute \/ Refused \/ Fail \/ Stop \/ Complete

Spec == Init /\ [][Next]_vars

-----------------------------------------------------------------------------
(* Properties.                                                             *)

TypeOK ==
    /\ family \in Families
    /\ job.attempt \in 0..MaxAttempts
    /\ last \in [Resources -> Outcomes]
    /\ swallowed \subseteq Resources /\ taken \subseteq Webroots
    /\ ops \in 0..MaxOps /\ faults \in 0..MaxFaults

\* A creation or update that reported success has left on the node all it
\* promises, whatever was interrupted and repeated before, and no operation
\* on another resource of its family has taken it away, with one exception:
\* every deletion of a webroot stops the tenant's PHP 8.5 pool, and with it
\* the tenant's other webroots until they are set up again.  (What a command
\* whose error the agent drops should have done is not promised.)
CreatedIsComplete ==
    ~Busy => \A r \in Resources :
                last[r].st = "ok" =>
                    Hard(r, Promised(r, last[r].v)) \ (IF r \in taken THEN DefaultPool ELSE {})
                        \subseteq node

\* The ACL file of a server that is down keeps a user deleted meanwhile:
\* DeleteUser takes an unreachable instance for a deleted one.
Unreachable(r) == r = "vuser" /\ <<"vserver", "valkey">> \notin node

\* A deletion that reported success leaves nothing of the resource, however
\* little of it a creation had set up, unless a command whose error the agent
\* drops has failed; and when all webroots are gone, so is the tenant's pool of
\* the default PHP version.  (The one of another version stays: DeleteWebroot
\* passes no version.)
DeletedLeavesNothing ==
    ~Busy =>
        /\ \A r \in Resources :
              last[r].st = "gone" /\ ~Unreachable(r) => Hard(r, FactsOf(r)) \cap node = {}
        /\ (\A w \in Webroots : last[w].st \in {"none", "gone"} /\ w \notin swallowed)
              => DefaultPool \cap node = {}

\* The operations that do fail by their own doing: DeleteBackupFile repeated,
\* and the reload of a Python or Ruby service that was another runtime's.
SelfDefeating ==
    \/ job.op = "DeleteBackupFile"
    \/ job.op = "UpdateWebroot" /\ job.v \in {"python", "ruby"} /\ last[The(job.on)].v # job.v

\* An attempt that nothing disturbs does not fail, whatever earlier attempts
\* and operations, cut short anywhere, have left on the node: every
\* operation can be repeated.  A certificate written halfway over an older
\* one is the exception: nginx -t then refuses the node's configuration.
UndisturbedSucceeds ==
    (Busy /\ job.calm /\ job.todo # <<>> /\ job.on \cap swallowed = {} /\ ~SelfDefeating)
        => \/ Head(job.todo).err = "drop"
           \/ CanRun(Head(job.todo), node)
           \/ <<"mismatch", "cert">> \in node

=============================================================================
