---------------------------- MODULE AgentManagers ----------------------------
(***************************************************************************)
(* The node agent's managers (internal/agent, internal/agent/runtime) as   *)
(* programs: sequences of commands that NodeAgent executes one by one.     *)
(*                                                                         *)
(* What a node holds is a set of facts <<kind, owner>>: a Linux user, a    *)
(* directory, a unit file, a running server, a grant.  A command           *)
(*   needs the facts without which it fails, bars those with which it does,*)
(*   adds and removes facts, or makes a server load its files: load =      *)
(*   <<file, live>> replaces the facts of kind live by those of kind file; *)
(*   "supervisor" reconciles programs as supervisorctl update does;        *)
(*   err  "retry" the operation returns an error Temporal retries,         *)
(*        "final" one asNonRetryable turns into a failure,                 *)
(*        "drop"  the error is ignored or logged.                          *)
(* A program is computed from the node's state when the operation looks at *)
(* it (id, os.Stat, ip link show), which all of them do before they change *)
(* anything.                                                               *)
(***************************************************************************)
EXTENDS Naturals, Sequences, SequencesExt

Cmd(needs, bars, add, del) ==
    [needs |-> needs, bars |-> bars, add |-> add, del |-> del,
     load |-> <<>>, err |-> "retry"]

Put(fs) == Cmd({}, {}, fs, {})
PutOn(needs, fs) == Cmd(needs, {}, fs, {})
Drop(fs) == Cmd({}, {}, {}, fs)
Check == Cmd({}, {}, {}, {})
Load(file, live) == [Check EXCEPT !.load = <<file, live>>]
Quiet(c) == [c EXCEPT !.err = "drop"]
Final(c) == [c EXCEPT !.err = "final"]

\* The facts of the kinds given that belong to the owner.
Of(kinds, owner) == kinds \X {owner}

-----------------------------------------------------------------------------
(* Tenants: a Linux user, a directory tree on CephFS, SSH access.  ws are  *)
(* the names of everything that belongs to the tenant.                     *)

\* CheckMount: nothing is touched unless CephFS is mounted.
CheckMount == <<Check>>

\* What runs as the tenant: FPM workers, its webroots' services, its daemons.
ProcessKinds == {"fpm8.5", "fpm8.3", "nodesvc", "pysvc", "rubysvc", "program"}

\* PHP-FPM has a master per version, which loads a pool file per tenant.
PHPPools == {"pool8.5", "pool8.3"}

SupervisorUpdate == [Check EXCEPT !.load = <<"supervisor">>]

\* stopUserServices: pool and daemon files, the service managers, the timers
\* (whose unit files stay), then every process.  Errors are ignored.
stopUserServices(t, ws) ==
    <<Quiet(Drop(Of(PHPPools, t))),
      Quiet(Load("pool8.5", "fpm8.5")), Quiet(Load("pool8.3", "fpm8.3")),
      Quiet(Drop({"daemonconf"} \X ws)), Quiet(SupervisorUpdate),
      Quiet(Drop({"timer"} \X ws)), Quiet(Drop(ProcessKinds \X (ws \cup {t})))>>

\* userdel is refused while a process of the user is left; pkill -9 before it.
userdel(t, ws) ==
    <<Quiet(Drop(ProcessKinds \X (ws \cup {t}))),
      Cmd({}, ProcessKinds \X (ws \cup {t}), {},
          Of({"user", "locked", "hosting-ssh", "hosting-sftp", "hosting-noaccess"}, t))>>

\* createUser: a user that holds the UID, left by an earlier database, is
\* stopped and removed first; useradd refuses a UID in use.
createUser(t, stale, M) ==
    (IF <<"user", stale>> \in M
     THEN stopUserServices(stale, {}) \o userdel(stale, {}) ELSE <<>>)
    \o <<Cmd({}, Of({"user"}, t) \cup Of({"user"}, stale), Of({"user"}, t), {})>>

\* setQuota: an extended attribute of the directory, its failure is logged.
setQuota(t) == Quiet(PutOn(Of({"chroot"}, t), Of({"quota"}, t)))

\* A plausible mistake: a user that exists is taken for a finished creation.
TenantCreateOnce(t, stale, M) ==
    IF <<"user", t>> \in M THEN CheckMount
    ELSE CheckMount \o createUser(t, stale, M)
         \o <<Put(Of({"chroot"}, t)), Put(Of({"dirs"}, t)),
              PutOn(Of({"user", "dirs"}, t), Of({"owned"}, t)),
              Put(Of({"logdir"}, t)), setQuota(t)>>

\* Create: the user unless it exists, the chroot, its directories, their
\* owner, the log directory, the quota.
TenantCreate(t, stale, M) ==
    CheckMount
    \o (IF <<"user", t>> \in M THEN <<>> ELSE createUser(t, stale, M))
    \o <<Put(Of({"chroot"}, t)), Put(Of({"dirs"}, t)),
         PutOn(Of({"user", "dirs"}, t), Of({"owned"}, t)),
         Put(Of({"logdir"}, t)), setQuota(t)>>

\* Update only logs.
TenantUpdate == <<>>

TenantSuspend(t, ws) ==
    <<PutOn(Of({"user"}, t), Of({"locked"}, t)),
      Quiet(Drop(ProcessKinds \X (ws \cup {t})))>>

TenantUnsuspend(t) == <<Cmd(Of({"user"}, t), {}, {}, Of({"locked"}, t))>>

\* The bind mounts are unmounted (logged) before the tree is removed, which
\* a read-only mount inside it would make fail.
TenantDelete(t, ws) ==
    CheckMount \o stopUserServices(t, ws) \o userdel(t, ws)
    \o <<Quiet(Drop(Of({"mounts"}, t))),
         Cmd({}, Of({"mounts"}, t), {},
             Of({"chroot", "dirs", "owned", "quota", "authkeys", "etc"}, t)
                 \cup ({"webdir", "env"} \X ws)),
         Drop(Of({"logdir"}, t))>>

\* setupChrootBindMounts: mounts, device nodes, a minimal /etc; mounts that
\* are there are left alone.
setupChrootBindMounts(t, M) ==
    (IF <<"mounts", t>> \in M THEN <<>>
     ELSE <<Put(Of({"chroot"}, t)), Put(Of({"mounts"}, t))>>)
    \o <<Put(Of({"etc"}, t))>>

\* SyncConfig: out of the three groups (errors ignored), into the right one.
SSHSyncConfig(t, access, M) ==
    [i \in 1..3 |-> Quiet(Drop({<<<<"hosting-ssh", "hosting-sftp", "hosting-noaccess">>[i], t>>}))]
    \o <<PutOn(Of({"user"}, t), {<<access, t>>})>>
    \o (IF access = "hosting-ssh" THEN setupChrootBindMounts(t, M) ELSE <<>>)

SSHRemoveConfig(t) ==
    [i \in 1..3 |-> Quiet(Drop({<<<<"hosting-ssh", "hosting-sftp", "hosting-noaccess">>[i], t>>}))]

-----------------------------------------------------------------------------
(* Webroots: a directory, an environment file, a runtime, an nginx site.   *)

WebrootCreate(w, t) ==
    CheckMount \o <<Put(Of({"webdir"}, w)), PutOn(Of({"user"}, t), {})>>

WebrootUpdate(w) == CheckMount \o <<Put(Of({"webdir"}, w))>>

WebrootDelete(w) == CheckMount \o <<Drop(Of({"webdir", "env"}, w))>>

\* reloadOrStart: the master reads the pool directory, running or started.
reloadOrStart(rt) ==
    IF rt = "php8.3" THEN <<Load("pool8.3", "fpm8.3")>> ELSE <<Load("pool8.5", "fpm8.5")>>

\* The pool file is named after the tenant: all its webroots of one version
\* share it.
PHPConfigure(rt, t) == <<Put(Of({IF rt = "php8.3" THEN "pool8.3" ELSE "pool8.5"}, t))>>
PHPStart(rt) == reloadOrStart(rt)
PHPReload(rt) == reloadOrStart(rt)

\* Stop: without a version, as DeleteWebroot calls it, it is 8.5's pool.
PHPStop(t) == <<Drop(Of({"pool8.5"}, t)), Load("pool8.5", "fpm8.5")>>

\* ReloadAll passes over the versions that have no pool file.
PHPReloadAll(M) ==
    (IF \E f \in M : f[1] = "pool8.3" THEN reloadOrStart("php8.3") ELSE <<>>)
    \o (IF \E f \in M : f[1] = "pool8.5" THEN reloadOrStart("php8.5") ELSE <<>>)

\* CleanOrphanedPools: the pool files nobody expects, of any version; no reload.
PHPCleanOrphanedPools(expected, M) ==
    <<Drop({f \in M : f[1] \in PHPPools /\ f[2] \notin expected})>>

\* Node, Python and Ruby have a systemd unit per webroot.  Start is
\* systemctl enable --now.
NodeConfigure(w) == <<Put(Of({"nodeunit"}, w)), Check>>
NodeStart(w) == <<PutOn(Of({"nodeunit"}, w), Of({"nodesvc"}, w))>>
NodeStop(w) == Cmd(Of({"nodeunit"}, w), {}, {}, Of({"nodesvc"}, w))
NodeReload(w) == <<PutOn(Of({"nodeunit"}, w), Of({"nodesvc"}, w))>>
NodeRemove(w) == <<NodeStop(w), Drop(Of({"nodeunit"}, w)), Check>>

\* systemctl reload, unlike restart, fails on a unit that does not run.
PythonConfigure(w) == <<Put(Of({"pyunit"}, w)), Check>>
PythonStart(w) == <<PutOn(Of({"pyunit"}, w), Of({"pysvc"}, w))>>
PythonStop(w) == Cmd(Of({"pyunit"}, w), {}, {}, Of({"pysvc"}, w))
PythonReload(w) == <<PutOn(Of({"pyunit", "pysvc"}, w), {})>>
PythonRemove(w) == <<PythonStop(w), Drop(Of({"pyunit"}, w)), Check>>

RubyConfigure(w) == <<Put(Of({"rubyunit"}, w)), Check>>
RubyStart(w) == <<PutOn(Of({"rubyunit"}, w), Of({"rubysvc"}, w))>>
RubyStop(w) == Cmd(Of({"rubyunit"}, w), {}, {}, Of({"rubysvc"}, w))
RubyReload(w) == <<PutOn(Of({"rubyunit", "rubysvc"}, w), {})>>
RubyRemove(w) == <<RubyStop(w), Drop(Of({"rubyunit"}, w)), Check>>

\* Static webroots have no process: all five operations only log.
Static == <<>>

Configure(rt, w, t) ==
    CASE rt \in {"php8.5", "php8.3"} -> PHPConfigure(rt, t)
      [] rt = "node" -> NodeConfigure(w)
      [] rt = "python" -> PythonConfigure(w)
      [] rt = "ruby" -> RubyConfigure(w)
      [] OTHER -> Static

Start(rt, w, t) ==
    CASE rt \in {"php8.5", "php8.3"} -> PHPStart(rt)
      [] rt = "node" -> NodeStart(w)
      [] rt = "python" -> PythonStart(w)
      [] rt = "ruby" -> RubyStart(w)
      [] OTHER -> Static

Reload(rt, w, t) ==
    CASE rt \in {"php8.5", "php8.3"} -> PHPReload(rt)
      [] rt = "node" -> NodeReload(w)
      [] rt = "python" -> PythonReload(w)
      [] rt = "ruby" -> RubyReload(w)
      [] OTHER -> Static

\* GenerateConfig: a site that answers HTTPS only when both files of its
\* certificate are on the disk.
NginxGenerateConfig(w, certs, M) ==
    Of({"site"}, w)
    \cup (IF \E f \in certs : Of({"fullchain", "privkey"}, f) \subseteq M THEN Of({"tls"}, w) ELSE {})

\* WriteConfig: the log directory nginx insists on, then the site's file.
NginxWriteConfig(w, t, config) ==
    <<Put(Of({"logdir"}, t)), Cmd({}, {}, config, Of({"tls"}, w) \ config)>>

NginxRemoveConfig(w) == <<Drop(Of({"site", "tls"}, w))>>

\* ensureLogDirs: every tenant that has a site has a log directory.
ensureLogDirs(ts) == Quiet(Put({"logdir"} \X ts))

\* Reload: nginx -t first, whose failure is not retried and which a site with
\* a certificate that does not match its key makes fail, then the reload.
NginxReload(ts, certs, sites) ==
    <<ensureLogDirs(ts),
      Final(Cmd({}, IF \E f \in sites : f[1] = "tls" THEN {"mismatch"} \X certs ELSE {}, {}, {})),
      Load("site", "served")>>

\* CleanOrphanedConfigs: the site files nobody expects go; nginx still serves
\* them until its next reload.
NginxCleanOrphanedConfigs(expected, M) ==
    <<Drop({f \in M : f[1] \in {"site", "tls"} /\ f[2] \notin expected})>>

\* InstallCertificate: fullchain.pem, then privkey.pem.  Between the two an
\* older key does not match the new chain.
NginxInstallCertificate(f, M) ==
    <<Check,
      Put(Of({"fullchain"}, f) \cup (IF <<"privkey", f>> \in M THEN Of({"mismatch"}, f) ELSE {})),
      Cmd({}, {}, Of({"privkey"}, f), Of({"mismatch"}, f))>>

-----------------------------------------------------------------------------
(* Cron jobs and daemons.                                                  *)

CronCreateUnits(c) ==
    <<Put(Of({"serviceunit"}, c)), Put(Of({"timerunit"}, c)), Check>>

CronUpdateUnits(c) == CronCreateUnits(c)

\* A plausible mistake: the unit files go first, so that stop and disable
\* find no unit.
CronDeleteUnitsFirst(c) ==
    <<Quiet(Drop(Of({"serviceunit"}, c))), Quiet(Drop(Of({"timerunit"}, c))), Check,
      Quiet(Cmd(Of({"timerunit"}, c), {}, {}, Of({"timer"}, c)))>>

CronDeleteUnits(c) ==
    <<Quiet(Cmd(Of({"timerunit"}, c), {}, {}, Of({"timer"}, c))),
      Quiet(Drop(Of({"serviceunit"}, c))), Quiet(Drop(Of({"timerunit"}, c))), Check>>

CronEnableTimer(c) == <<PutOn(Of({"timerunit"}, c), Of({"timer"}, c))>>

CronDisableTimer(c) == <<Cmd(Of({"timerunit"}, c), {}, {}, Of({"timer"}, c))>>

DaemonConfigure(d, t) ==
    <<Put(Of({"chroot"}, t)), Put(Of({"daemonconf"}, d)), Check>>

DaemonStart(d) == <<SupervisorUpdate, PutOn(Of({"known"}, d), Of({"program"}, d))>>

DaemonStop(d) == Quiet(Drop(Of({"program"}, d)))

DaemonReload(d) ==
    <<Check, SupervisorUpdate, PutOn(Of({"known"}, d), Of({"program"}, d))>>

DaemonRemove(d) ==
    <<DaemonStop(d), Drop(Of({"daemonconf"}, d)), Check, SupervisorUpdate>>

\* CleanOrphanedConfigs: the daemon files nobody expects; supervisord is not
\* told.
DaemonCleanOrphanedConfigs(expected, M) ==
    <<Drop({f \in M : f[1] = "daemonconf" /\ f[2] \notin expected})>>

-----------------------------------------------------------------------------
(* Databases.                                                              *)

DatabaseCreate(b) == <<Put(Of({"database"}, b))>>
DatabaseDelete(b) == <<Drop(Of({"database"}, b))>>

\* DROP USER IF EXISTS (logged), CREATE USER, GRANT, FLUSH.
DatabaseCreateUser(u) ==
    <<Quiet(Drop(Of({"dbuser", "grant"}, u))),
      Cmd({}, Of({"dbuser"}, u), Of({"dbuser"}, u), {}),
      PutOn(Of({"dbuser"}, u), Of({"grant"}, u)), Check>>

\* ALTER USER, REVOKE (logged), GRANT, FLUSH.
DatabaseUpdateUser(u) ==
    <<PutOn(Of({"dbuser"}, u), {}),
      Quiet(Cmd(Of({"dbuser"}, u), {}, {}, Of({"grant"}, u))),
      PutOn(Of({"dbuser"}, u), Of({"grant"}, u)), Check>>

DatabaseDeleteUser(u) == <<Drop(Of({"dbuser", "grant"}, u))>>

\* The event that drops the user after two hours: its failure is logged.
DatabaseCreateTempUser(u) ==
    <<Quiet(Drop(Of({"dbuser", "grant"}, u))),
      Cmd({}, Of({"dbuser"}, u), Of({"dbuser"}, u), {}),
      PutOn(Of({"dbuser"}, u), Of({"grant"}, u)),
      Quiet(Cmd({}, Of({"event"}, u), Of({"event"}, u), {})), Check>>

\* Replication is stopped (ignored), reset, pointed at the primary, started.
DatabaseConfigureReplication(m) ==
    <<Quiet(Drop(Of({"replicating"}, m))), Drop(Of({"source", "replicating"}, m)),
      Put(Of({"source"}, m)), PutOn(Of({"source"}, m), Of({"replicating"}, m))>>

DatabaseSetReadOnly(m, on) ==
    IF on THEN <<Put(Of({"read_only"}, m)), Put(Of({"super_read_only"}, m))>>
    ELSE <<Drop(Of({"super_read_only"}, m)), Drop(Of({"read_only"}, m))>>

DatabaseStopReplication(m) == <<Drop(Of({"replicating"}, m))>>

\* mysqldump | gzip > file: the shell reports gzip's status only, so that a
\* dump that fails leaves a file without its contents and no error.
mysqldump(f, b) ==
    <<Quiet(PutOn(Of({"database"}, b), Of({"dumped"}, f))), Put(Of({"dumpfile"}, f))>>

DatabaseDump(f, b) == <<Check>> \o mysqldump(f, b)

\* gunzip -c file | mysql: a missing file is an empty import, which succeeds.
DatabaseImport(f, b, M) ==
    <<PutOn(Of({"database"}, b), IF <<"dumped", f>> \in M THEN Of({"rows"}, b) ELSE {})>>

-----------------------------------------------------------------------------
(* Valkey: files and a server per instance, ACL users in the server's      *)
(* memory ("acluser") and in its ACL file ("aclline").                     *)

\* valkey-server --daemonize: reads the ACL file; the port must be free.
ValkeyServer(i) ==
    [Cmd(Of({"vconf", "vdata"}, i), Of({"vserver"}, i), Of({"vserver"}, i), {})
        EXCEPT !.load = <<"aclline", "acluser">>]

\* The unit is enabled for the next boot; failures are logged.
ValkeyEnable(i) == Quiet(Put(Of({"vunit"}, i)))

\* A plausible mistake: the ACL file, whose presence marks the instance as
\* created, is written before the data directory.
ValkeyCreateInstanceMarked(i, us, M) ==
    IF <<"acl", i>> \in M
    THEN <<Put(Of({"vconf"}, i)), Cmd({}, {}, Of({"acl"}, i), {"aclline"} \X us)>>
         \o (IF <<"vserver", i>> \in M
             THEN <<Quiet(PutOn(Of({"vserver"}, i), {})),
                    Quiet([PutOn(Of({"vserver"}, i), {}) EXCEPT !.load = <<"aclline", "acluser">>])>>
             ELSE <<ValkeyServer(i), ValkeyEnable(i)>>)
    ELSE <<Cmd({}, {}, Of({"acl"}, i), {"aclline"} \X us), Put(Of({"vconf"}, i)),
           Put(Of({"vdata"}, i)), ValkeyServer(i), ValkeyEnable(i)>>

\* CreateInstance: an instance whose ACL file exists has its files rewritten
\* (the ACL file with the default user only) and is reloaded or started; a
\* new one gets data directory, ACL file, configuration and server.
ValkeyCreateInstance(i, us, M) ==
    IF <<"acl", i>> \in M
    THEN <<Put(Of({"vconf"}, i)), Cmd({}, {}, Of({"acl"}, i), {"aclline"} \X us)>>
         \o (IF <<"vserver", i>> \in M
             THEN <<Quiet(PutOn(Of({"vserver"}, i), {})),
                    Quiet([PutOn(Of({"vserver"}, i), {}) EXCEPT !.load = <<"aclline", "acluser">>])>>
             ELSE <<ValkeyServer(i), ValkeyEnable(i)>>)
    ELSE <<Put(Of({"vdata"}, i)), Cmd({}, {}, Of({"acl"}, i), {"aclline"} \X us),
           Put(Of({"vconf"}, i)), ValkeyServer(i), ValkeyEnable(i)>>

\* SHUTDOWN and the unit's stop, both logged, then the files.
ValkeyDeleteInstance(i, us) ==
    <<Quiet(Drop(Of({"vserver"}, i) \cup ({"acluser"} \X us))),
      Quiet(Drop(Of({"vserver", "vunit"}, i) \cup ({"acluser"} \X us))),
      Drop(Of({"vconf"}, i)), Drop(Of({"acl"}, i) \cup ({"aclline"} \X us)),
      Drop(Of({"vdata"}, i))>>

\* ACL SETUSER, then ACL SAVE (logged).
ACLSave(i) == Quiet([PutOn(Of({"vserver"}, i), {}) EXCEPT !.load = <<"acluser", "aclline">>])

ValkeyCreateUser(u, i) == <<PutOn(Of({"vserver"}, i), Of({"acluser"}, u)), ACLSave(i)>>

ValkeyUpdateUser(u, i) ==
    <<Quiet(Cmd(Of({"vserver"}, i), {}, {}, Of({"acluser"}, u))),
      PutOn(Of({"vserver"}, i), Of({"acluser"}, u)), ACLSave(i)>>

\* No ACL file means no instance; an unreachable server counts as success.
ValkeyDeleteUser(u, i, M) ==
    IF <<"acl", i>> \notin M THEN <<>>
    ELSE <<Quiet(Cmd(Of({"vserver"}, i), {}, {}, Of({"acluser"}, u))), ACLSave(i)>>

\* DumpData: BGSAVE, polled until LASTSAVE moves, then cp, which fails loudly.
ValkeyDump(f, i) ==
    <<Check, PutOn(Of({"vserver"}, i), Of({"rdb"}, i)),
      PutOn(Of({"rdb"}, i), Of({"dumpfile", "dumped"}, f))>>

\* ImportData: the server is stopped (logged), the RDB file replaced, the AOF
\* removed (logged), the server started again.
ValkeyImport(f, i) ==
    <<Quiet(Drop(Of({"vserver"}, i))), Quiet(Drop(Of({"vserver", "vunit"}, i))),
      PutOn(Of({"dumpfile"}, f), Of({"rdb"}, i)), Quiet(Check),
      [ValkeyServer(i) EXCEPT !.add = @ \cup Of({"rows"}, i)], ValkeyEnable(i)>>

-----------------------------------------------------------------------------
(* Object storage (RADOS gateway): one user per tenant, buckets, keys.     *)

\* ensureUser: any failure of "user info" is taken for a missing user.
ensureUser(t, M) == IF <<"rgwuser", t>> \in M THEN <<>> ELSE <<Put(Of({"rgwuser"}, t))>>

\* setBucketQuota: set, then enable.
setBucketQuota(b) ==
    <<PutOn(Of({"bucket"}, b), Of({"quotaset"}, b)), PutOn(Of({"quotaset"}, b), Of({"quota"}, b))>>

\* The policy of CreateBucket grants the tenant only.
S3CreateBucket(b, t, M) ==
    ensureUser(t, M)
    \o <<Put(Of({"bucket"}, b)), Cmd(Of({"bucket"}, b), {}, Of({"policy"}, b), Of({"public"}, b))>>
    \o setBucketQuota(b)

\* The objects are deleted page by page (errors ignored), then the bucket.
S3DeleteBucket(b) ==
    <<Quiet(Check), Drop(Of({"bucket", "policy", "public", "quotaset", "quota"}, b))>>

S3CreateAccessKey(k, t, M) ==
    ensureUser(t, M) \o <<PutOn(Of({"rgwuser"}, t), Of({"s3key"}, k))>>

S3DeleteAccessKey(k) == <<Drop(Of({"s3key"}, k))>>

S3SetBucketPolicy(b, public) ==
    <<Cmd(Of({"bucket"}, b), {},
          Of({"policy"}, b) \cup (IF public THEN Of({"public"}, b) ELSE {}),
          IF public THEN {} ELSE Of({"public"}, b))>>

-----------------------------------------------------------------------------
(* Addresses, routes and WireGuard peers.                                  *)

\* EnsureTable and EnsureServiceIngressTable: idempotent nft commands, then a
\* script that flushes the chain and adds its rule again.
EnsureTable == <<Check, Put({<<"binding", "table">>})>>
EnsureServiceIngressTable == <<Check, Put({<<"ingress", "table">>})>>

ULAConfigure(t) == EnsureTable \o <<Put(Of({"ula"}, t)), Put(Of({"allowed"}, t))>>

ULARemove(t) == <<Drop(Of({"ula"}, t)), Quiet(Drop(Of({"allowed"}, t)))>>

ConfigureServiceAddr(t) ==
    EnsureServiceIngressTable \o <<Put(Of({"svcaddr"}, t)), Put(Of({"ulaset"}, t))>>

RemoveServiceAddr(t) == <<Drop(Of({"svcaddr"}, t)), Quiet(Drop(Of({"ulaset"}, t)))>>

\* The transit address on the primary interface, then a route per peer; the
\* routes of peers that left stay.
ConfigureRoutes(m, peers) == <<Check, Put(Of({"transit"}, m)), Put({"route"} \X peers)>>
ConfigureRoutesV2(m, peers) == <<Check, Put(Of({"transit"}, m)), Put({"route"} \X peers)>>

\* ensureInterface: created, given its key, brought up; an interface that
\* exists is taken to be up.
ensureInterface(M) ==
    IF <<"wg", "link">> \in M THEN <<>>
    ELSE <<Put({<<"wg", "link">>}), Put({<<"wg", "key">>}), Put({<<"wg", "up">>})>>

\* The peer, its route, its forward rules (whose errors are dropped).
PeerCommands(p) ==
    <<PutOn({<<"wg", "link">>}, Of({"peer"}, p)),
      PutOn({<<"wg", "up">>}, Of({"wgroute"}, p)), Quiet(Put(Of({"forward"}, p)))>>

AddPeer(p, M) == ensureInterface(M) \o PeerCommands(p)

\* rebuildForwardTable: the rules of these peers only.
rebuildForwardTable(ps, others) ==
    Quiet(Cmd({}, {}, {"forward"} \X ps, {"forward"} \X others))

\* SyncPeers: peers that are not wanted are removed (errors dropped; their
\* routes stay), the wanted ones added, the forward table rebuilt.
SyncPeers(seq, others, M) ==
    ensureInterface(M) \o <<Quiet(Drop({"peer"} \X others))>>
    \o FlattenSeq([i \in DOMAIN seq |-> PeerCommands(seq[i])])
    \o <<rebuildForwardTable(Range(seq), others)>>

RemovePeer(p, M) ==
    ensureInterface(M)
    \o <<Cmd({<<"wg", "link">>}, {}, {}, Of({"peer"}, p)),
         Quiet(Drop(Of({"wgroute"}, p))), Quiet(Drop(Of({"forward"}, p)))>>

=============================================================================
