------------------------------ MODULE NodeLocal ------------------------------
(***************************************************************************)
(* The activities a node agent's worker is registered with                 *)
(* (internal/activity/node_local.go): each is a program made of the        *)
(* managers' programs.  t is the tenant, ws the names of its webroots, M   *)
(* the state of the node when the activity starts.                         *)
(***************************************************************************)
EXTENDS AgentManagers

CreateTenant(t, stale, M) == TenantCreate(t, stale, M)
UpdateTenant == TenantUpdate
SuspendTenant(t, ws) == TenantSuspend(t, ws)
UnsuspendTenant(t) == TenantUnsuspend(t)
DeleteTenant(t, ws) == TenantDelete(t, ws)

SyncSSHConfig(t, access, M) == SSHSyncConfig(t, access, M)
RemoveSSHConfig(t) == SSHRemoveConfig(t)

\* SyncSSHKeys: the whole authorized_keys file.
SyncSSHKeys(t) == <<Put(Of({"chroot"}, t)), Put(Of({"authkeys"}, t))>>

\* writeWebrootEnv: the file, its .envrc and the PHP link, or their removal.
writeWebrootEnv(w) == <<Put(Of({"webdir"}, w)), Put(Of({"env"}, w))>>

CreateWebroot(w, t, rt, certs, M) ==
    LET config == NginxGenerateConfig(w, certs, M)
    IN  WebrootCreate(w, t) \o writeWebrootEnv(w) \o Configure(rt, w, t) \o Start(rt, w, t)
        \o NginxWriteConfig(w, t, config) \o NginxReload({t}, certs, M \cup config)

UpdateWebroot(w, t, rt, certs, M) ==
    LET config == NginxGenerateConfig(w, certs, M)
    IN  WebrootUpdate(w) \o writeWebrootEnv(w) \o Configure(rt, w, t) \o Reload(rt, w, t)
        \o NginxWriteConfig(w, t, config) \o NginxReload({t}, certs, M \cup config)

\* The runtimes' errors are dropped.
Dropped(p) == [i \in DOMAIN p |-> Quiet(p[i])]

\* The site, every runtime (which one the webroot has, and its version, are not
\* known here), the files.
DeleteWebroot(w, t, ts, certs, M) ==
    NginxRemoveConfig(w) \o NginxReload(ts, certs, M \ Of({"site", "tls"}, w))
    \o Dropped(PHPStop(t)) \o Dropped(NodeRemove(w)) \o Dropped(PythonRemove(w))
    \o Dropped(RubyRemove(w)) \o WebrootDelete(w)

ConfigureRuntime(w, t, rt) == Configure(rt, w, t) \o Start(rt, w, t)

CleanOrphanedConfigs(expected, M) == NginxCleanOrphanedConfigs(expected, M)
CleanOrphanedFPMPools(expected, M) == PHPCleanOrphanedPools(expected, M)
CleanOrphanedDaemonConfigs(expected, M) == DaemonCleanOrphanedConfigs(expected, M)

\* RestartSupervisord: every program with a configuration starts, the others
\* are gone.
RestartSupervisord == <<[Check EXCEPT !.load = <<"restart">>]>>

ReloadNginx(ts, certs, M) == NginxReload(ts, certs, M)
ReloadPHPFPM(M) == PHPReloadAll(M)
InstallCertificate(f, M) == NginxInstallCertificate(f, M)

CreateDatabase(b) == DatabaseCreate(b)
DeleteDatabase(b) == DatabaseDelete(b)
CreateDatabaseUser(u) == DatabaseCreateUser(u)
UpdateDatabaseUser(u) == DatabaseUpdateUser(u)
DeleteDatabaseUser(u) == DatabaseDeleteUser(u)
CreateTempMySQLUser(u) == DatabaseCreateTempUser(u)
ConfigureReplication(m) == DatabaseConfigureReplication(m)
SetReadOnly(m, on) == DatabaseSetReadOnly(m, on)
StopReplication(m) == DatabaseStopReplication(m)
DumpMySQLDatabase(f, b) == DatabaseDump(f, b)
ImportMySQLDatabase(f, b, M) == DatabaseImport(f, b, M)

CreateValkeyInstance(i, us, M) == ValkeyCreateInstance(i, us, M)
DeleteValkeyInstance(i, us) == ValkeyDeleteInstance(i, us)
CreateValkeyUser(u, i) == ValkeyCreateUser(u, i)
UpdateValkeyUser(u, i) == ValkeyUpdateUser(u, i)
DeleteValkeyUser(u, i, M) == ValkeyDeleteUser(u, i, M)
DumpValkeyData(f, i) == ValkeyDump(f, i)
ImportValkeyData(f, i) == ValkeyImport(f, i)

\* os.Remove: unlike the other deletions it fails when the file is gone.
CleanupMigrateFile(f) == <<Cmd(Of({"dumpfile"}, f), {}, {}, Of({"dumpfile", "dumped"}, f))>>

\* tar fails loudly, mysqldump in a pipe does not.
CreateWebBackup(f, w) == <<Check, PutOn(Of({"webdir"}, w), Of({"dumpfile", "dumped"}, f))>>
RestoreWebBackup(f, w) == <<PutOn(Of({"dumpfile"}, f) \cup Of({"webdir"}, w), {})>>
CreateMySQLBackup(f, b) == <<Check>> \o mysqldump(f, b) \o <<Check>>
RestoreMySQLBackup(f, b) == <<PutOn(Of({"database"}, b), {})>>

DeleteBackupFile(f) == <<Cmd(Of({"dumpfile"}, f), {}, {}, Of({"dumpfile", "dumped"}, f))>>

CreateS3Bucket(b, t, M) == S3CreateBucket(b, t, M)
DeleteS3Bucket(b) == S3DeleteBucket(b)
CreateS3AccessKey(k, t, M) == S3CreateAccessKey(k, t, M)
DeleteS3AccessKey(k) == S3DeleteAccessKey(k)
UpdateS3BucketPolicy(b, public) == S3SetBucketPolicy(b, public)

CreateCronJobUnits(c) == CronCreateUnits(c)
UpdateCronJobUnits(c) == CronUpdateUnits(c)
DeleteCronJobUnits(c) == CronDeleteUnits(c)
EnableCronJobTimer(c) == CronEnableTimer(c)
DisableCronJobTimer(c) == CronDisableTimer(c)

CreateDaemonConfig(d, t) == DaemonConfigure(d, t) \o DaemonStart(d)
UpdateDaemonConfig(d, t) == DaemonConfigure(d, t) \o DaemonReload(d)
DeleteDaemonConfig(d) == DaemonRemove(d)
EnableDaemon(d) == DaemonStart(d)
DisableDaemon(d) == <<DaemonStop(d)>>

ConfigureTenantAddresses(t) == ULAConfigure(t)
RemoveTenantAddresses(t) == ULARemove(t)
ConfigureServiceTenantAddr(t) == ConfigureServiceAddr(t)
RemoveServiceTenantAddr(t) == RemoveServiceAddr(t)
ConfigureULARoutes(m, peers) == ConfigureRoutes(m, peers)
ConfigureULARoutesV2(m, peers) == ConfigureRoutesV2(m, peers)

ConfigureWireGuardPeer(p, M) == AddPeer(p, M)
RemoveWireGuardPeer(p, M) == RemovePeer(p, M)
SyncWireGuardPeers(seq, others, M) == SyncPeers(seq, others, M)

-----------------------------------------------------------------------------
(* What a command does to a node.                                          *)

CanRun(c, M) == c.needs \subseteq M /\ c.bars \cap M = {}

\* supervisorctl update: programs that are new start, programs that are gone
\* stop, the others are left as they are.  A restart starts them all.
Supervised(M, all) ==
    LET conf == {f[2] : f \in {x \in M : x[1] = "daemonconf"}}
        known == {f[2] : f \in {x \in M : x[1] = "known"}}
        running == {f[2] : f \in {x \in M : x[1] = "program"}}
    IN  {x \in M : x[1] \notin {"known", "program"}}
        \cup ({"known"} \X conf)
        \cup ({"program"} \X (IF all THEN conf ELSE (running \cap conf) \cup (conf \ known)))

Loaded(M, load) ==
    IF load = <<>> THEN M
    ELSE IF load = <<"supervisor">> THEN Supervised(M, FALSE)
    ELSE IF load = <<"restart">> THEN Supervised(M, TRUE)
    ELSE {x \in M : x[1] # load[2]}
         \cup {<<load[2], x[2]>> : x \in {y \in M : y[1] = load[1]}}

Effect(c, M) == Loaded((M \ c.del) \cup c.add, c.load)

=============================================================================
