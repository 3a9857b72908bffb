--------------------------- MODULE ResourceCatalog ---------------------------
(***************************************************************************)
(* The provisioning workflows (internal/workflow) and the services that    *)
(* queue them (internal/core), as data that ResourceLifecycle executes.    *)
(*                                                                         *)
(* A workflow is a sequence of steps.  A step is an activity, or a run of  *)
(* activities that read and share one error policy, with                   *)
(*   do   "status" UpdateResourceStatus to the status in arg               *)
(*        "read"   the row and its context are loaded (a missing row, an   *)
(*                 unassigned shard or an empty node list is an error)     *)
(*        "nodes"  the node change in arg, on each target, one by one, up  *)
(*                 to the first error                                      *)
(*        "all"    the same on all targets, errors being collected         *)
(*        "side"   an effect outside the resource's own state              *)
(*        "gate"   stop if an error was collected                          *)
(*   err  "return" the workflow ends, "fail" setResourceFailed and end,    *)
(*        "note" collect the error and go on, "ignore" go on               *)
(***************************************************************************)
EXTENDS Sequences

Step(do, arg, err) == [do |-> do, arg |-> arg, err |-> err]

Status(s) == Step("status", s, "return")
Read == Step("read", "none", "fail")
ReadOrReturn == Step("read", "none", "return")
Nodes1(change) == Step("nodes", change, "fail")
All(change) == Step("all", change, "note")
Gate == Step("gate", "none", "fail")
Side(err) == Step("side", "none", err)

\* A plausible mistake in fanOutNodes: the collected errors are not looked at.
fanOutNodesUnchecked(change) == <<All(change)>>

\* fanOutNodes: every node is tried, then any error fails the resource.
fanOutNodes(change) == <<All(change), Gate>>

Begin == <<Status("provisioning"), Read>>
BeginDelete == <<Status("deleting"), Read>>
Done == <<Status("active")>>
Deleted == <<Status("deleted")>>

\* fanOutChildWorkflows: pending children are provisioned, errors are logged.
fanOutChildWorkflows == Side("ignore")

-----------------------------------------------------------------------------
(* Web: webroots, FQDNs, certificates, cron jobs, daemons, SSH keys.       *)

\* setupServiceHostname, teardownServiceHostname: DNS and load balancer
\* entries of the webroot's own name, errors being logged.
setupServiceHostname == Side("ignore")
teardownServiceHostname == Side("ignore")

CreateWebrootWorkflow ==
    Begin \o fanOutNodes("put") \o <<setupServiceHostname>> \o Done
          \o <<fanOutChildWorkflows>>

UpdateWebrootWorkflow ==
    Begin \o fanOutNodes("put") \o <<setupServiceHostname>> \o Done

DeleteWebrootWorkflow ==
    BeginDelete \o <<teardownServiceHostname>> \o fanOutNodes("drop") \o Deleted

\* Auto-DNS records first, nginx on the shard, the certificate (logged), then
\* the load balancers' map entries.
BindFQDNWorkflow ==
    Begin \o <<Side("fail")>> \o fanOutNodes("put")
          \o <<Side("ignore"), Side("fail")>> \o Done \o <<fanOutChildWorkflows>>

UnbindFQDNWorkflow ==
    BeginDelete \o <<Side("fail")>> \o fanOutNodes("drop") \o <<Side("fail")>> \o Deleted

\* Validation, installation, DeactivateOtherCerts, ActivateCertificate (which
\* sets the status); certificates have no delete operation.
UploadCustomCertWorkflow ==
    Begin \o <<Side("fail")>> \o fanOutNodes("put") \o <<Side("fail")>>
          \o <<Step("status", "active", "fail")>>

\* Unit files on every node; timers are started when the job is enabled.
CreateCronJobWorkflow ==
    Begin \o <<All("put"), All("startIfEnabled"), Gate>> \o Done

UpdateCronJobWorkflow ==
    Begin \o <<All("put"), All("startOrStop"), Gate>> \o Done

DeleteCronJobWorkflow == BeginDelete \o fanOutNodes("drop") \o Deleted

EnableCronJobWorkflow == Begin \o fanOutNodes("start") \o Done

DisableCronJobWorkflow == Begin \o fanOutNodes("stop") \o Done

\* regenerateWebrootNginxOnNodes: errors join those of the daemon's own node.
regenerateWebrootNginxOnNodes == Side("note")

\* CreateDaemonConfig configures and starts, UpdateDaemonConfig configures
\* and restarts: neither is given the daemon's enabled flag.
CreateDaemonWorkflow ==
    Begin \o <<All("putAndStart"), regenerateWebrootNginxOnNodes, Gate>> \o Done

UpdateDaemonWorkflow ==
    Begin \o <<All("putAndStart"), regenerateWebrootNginxOnNodes, Gate>> \o Done

DeleteDaemonWorkflow ==
    BeginDelete \o <<All("drop"), regenerateWebrootNginxOnNodes, Gate>> \o Deleted

EnableDaemonWorkflow == Begin \o <<Nodes1("start")>> \o Done

DisableDaemonWorkflow == Begin \o <<Nodes1("stop")>> \o Done

AddSSHKeyWorkflow == Begin \o <<Nodes1("put")>> \o Done

\* The row goes first, then the remaining keys are synced to the nodes.
RemoveSSHKeyWorkflow ==
    <<Read, Step("status", "deleted", "fail"), Side("return"),
      Step("nodes", "drop", "return")>>

-----------------------------------------------------------------------------
(* Databases, Valkey, object storage: the shard's primary, or all nodes    *)
(* one by one.                                                             *)

\* ConfigureServiceTenantAddr errors are logged ("convergence will retry").
CreateDatabaseWorkflow ==
    Begin \o <<Nodes1("put"), Side("ignore")>> \o Done \o <<fanOutChildWorkflows>>

DeleteDatabaseWorkflow == BeginDelete \o <<Nodes1("drop")>> \o Deleted

CreateDatabaseUserWorkflow == Begin \o <<Nodes1("put")>> \o Done
UpdateDatabaseUserWorkflow == Begin \o <<Nodes1("put")>> \o Done
DeleteDatabaseUserWorkflow == BeginDelete \o <<Nodes1("drop")>> \o Deleted

CreateValkeyInstanceWorkflow ==
    Begin \o <<Nodes1("put"), Side("ignore")>> \o Done \o <<fanOutChildWorkflows>>

DeleteValkeyInstanceWorkflow == BeginDelete \o <<Nodes1("drop")>> \o Deleted

CreateValkeyUserWorkflow == Begin \o <<Nodes1("put")>> \o Done
UpdateValkeyUserWorkflow == Begin \o <<Nodes1("put")>> \o Done
DeleteValkeyUserWorkflow == BeginDelete \o <<Nodes1("drop")>> \o Deleted

\* The bucket, then its policy if it is public.
CreateS3BucketWorkflow == Begin \o <<Nodes1("put"), Side("fail")>> \o Done

\* The only workflow that never touches the status.
UpdateS3BucketWorkflow == <<ReadOrReturn, Step("nodes", "put", "return")>>

DeleteS3BucketWorkflow == BeginDelete \o <<Nodes1("drop")>> \o Deleted

CreateS3AccessKeyWorkflow == Begin \o <<Nodes1("put")>> \o Done
DeleteS3AccessKeyWorkflow == BeginDelete \o <<Nodes1("drop")>> \o Deleted

-----------------------------------------------------------------------------
(* Backups and gateway peers.                                              *)

\* The archive is written on one node, then its path and size are recorded.
CreateBackupWorkflow == Begin \o <<Nodes1("put"), Side("fail")>> \o Done

\* The archive is copied onto the backup's source and must be there.
RestoreBackupWorkflow ==
    <<ReadOrReturn, Status("provisioning"), Side("fail"), Nodes1("use")>> \o Done

DeleteBackupWorkflow == <<Read, Nodes1("drop")>> \o Deleted

CreateWireGuardPeerWorkflow == Begin \o fanOutNodes("put") \o Done
DeleteWireGuardPeerWorkflow == BeginDelete \o fanOutNodes("drop") \o Deleted

-----------------------------------------------------------------------------
(* Email: the one target is the Stalwart server of the FQDN's cluster.     *)

\* The domain, the account, then the domain's MX, SPF, DKIM, DMARC records.
CreateEmailAccountWorkflow ==
    Begin \o <<Side("fail"), Nodes1("put"), Side("fail")>> \o Done
          \o <<fanOutChildWorkflows>>

\* The last account of a domain takes the domain and its records with it.
DeleteEmailAccountWorkflow ==
    BeginDelete \o <<Nodes1("drop")>> \o Deleted \o <<Side("return"), Side("ignore")>>

CreateEmailAliasWorkflow == Begin \o <<Nodes1("put")>> \o Done
DeleteEmailAliasWorkflow == BeginDelete \o <<Nodes1("drop")>> \o Deleted

UpdateEmailAutoReplyWorkflow == Begin \o <<Nodes1("put")>> \o Done
DeleteEmailAutoReplyWorkflow == BeginDelete \o <<Nodes1("drop")>> \o Deleted

CreateEmailForwardWorkflow == Begin \o <<Nodes1("put")>> \o Done

\* The row goes first: the script is rebuilt from the forwards that remain.
DeleteEmailForwardWorkflow ==
    BeginDelete \o Deleted \o <<Step("nodes", "drop", "return")>>

-----------------------------------------------------------------------------
(* DNS: the one target is the PowerDNS database.                           *)

\* Domain, SOA and NS records; RetroactiveAutoRecords errors are logged.
CreateZoneWorkflow ==
    Begin \o <<Nodes1("put"), Side("ignore")>> \o Done \o <<fanOutChildWorkflows>>

DeleteZoneWorkflow == BeginDelete \o <<Nodes1("drop")>> \o Deleted

\* Record workflows are given the record's content and never read the row;
\* the side step looks the zone up.
CreateZoneRecordWorkflow ==
    <<Status("provisioning"), Side("fail"), Nodes1("put"), Side("ignore")>> \o Done

\* The UPDATE in PowerDNS affects nothing when the record is not there.
UpdateZoneRecordWorkflow ==
    <<Status("provisioning"), Side("fail"), Nodes1("putIfPresent")>> \o Done

DeleteZoneRecordWorkflow ==
    <<Status("deleting"), Side("fail"), Nodes1("drop")>> \o Deleted \o <<Side("ignore")>>

\* Nothing is provisioned for a subscription.
DeleteSubscriptionWorkflow == <<Status("deleting"), Status("deleted")>>

-----------------------------------------------------------------------------
(***************************************************************************)
(* The services.  A mutating method reads the row if it must (checking the *)
(* status), writes it, and signals the workflow to the tenant's queue:     *)
(*   reads   the row is read in a statement of its own before the write    *)
(*   needs   the statuses that pass the check of that read                 *)
(*   writes  the status written; "stale": the one read before, "keep"      *)
(*   cfg     whether new configuration is written                          *)
(*   on      the enabled flag written, or "keep"                           *)
(*   tenant  the queue's tenant is "known" from an earlier read, or from   *)
(*           the UPDATE ("returning"), or "resolved" by a later query      *)
(*   run     the workflow signalled, <<>> for none                         *)
(* Creation writes the row as pending in the handler's INSERT and signals  *)
(* the workflow under "create".                                            *)
(***************************************************************************)
Statuses == {"pending", "provisioning", "active", "failed", "deleting", "auto_disabled"}

Op(reads, needs, writes, cfg, on, tenant, run) ==
    [reads |-> reads, needs |-> needs, writes |-> writes, cfg |-> cfg,
     on |-> on, tenant |-> tenant, run |-> run]

\* Update from the handler's copy of the row: the status read is written back.
WriteBack(run) == Op(TRUE, Statuses, "stale", TRUE, "keep", "known", run)

\* Update of configuration columns only.
Patch(run) == Op(FALSE, {}, "keep", TRUE, "keep", "resolved", run)

DeleteReturning(run) == Op(FALSE, {}, "deleting", FALSE, "keep", "returning", run)
DeleteResolved(run) == Op(FALSE, {}, "deleting", FALSE, "keep", "resolved", run)

RetryKnown(needs, run) == Op(TRUE, needs, "provisioning", FALSE, "keep", "known", run)
RetryResolved(run) == Op(TRUE, {"failed"}, "provisioning", FALSE, "keep", "resolved", run)

Toggle(needs, on, run) == Op(TRUE, needs, "provisioning", FALSE, on, "known", run)

\* A kind of resource is provisioned on "all" nodes of the tenant's shard, or
\* in "one" place (a primary, a mail server, the DNS database); on is the
\* enabled flag that the create handler writes.
Service(where, on, create, ops) ==
    [where |-> where, on |-> on, create |-> create, ops |-> ops]

WebrootService == Service("all", FALSE, CreateWebrootWorkflow,
    [update |-> WriteBack(UpdateWebrootWorkflow),
     delete |-> DeleteReturning(DeleteWebrootWorkflow),
     retry  |-> RetryKnown({"failed"}, CreateWebrootWorkflow)])

\* Update is not signalled; Retry names a workflow that is not registered
\* (the child of the queue that never closes, see ProvisionQueue).
FQDNService == Service("all", FALSE, BindFQDNWorkflow,
    [update |-> Op(FALSE, {}, "keep", TRUE, "keep", "known", <<>>),
     delete |-> DeleteReturning(UnbindFQDNWorkflow)])

CertificateService == Service("all", FALSE, UploadCustomCertWorkflow,
    [retry |-> RetryResolved(UploadCustomCertWorkflow)])

CronJobService == Service("all", FALSE, CreateCronJobWorkflow,
    [update  |-> WriteBack(UpdateCronJobWorkflow),
     delete  |-> DeleteReturning(DeleteCronJobWorkflow),
     enable  |-> Toggle({"active", "auto_disabled"}, "on", EnableCronJobWorkflow),
     disable |-> Toggle({"active"}, "off", DisableCronJobWorkflow),
     retry   |-> RetryKnown({"failed", "auto_disabled"}, CreateCronJobWorkflow)])

DaemonService == Service("one", TRUE, CreateDaemonWorkflow,
    [update  |-> WriteBack(UpdateDaemonWorkflow),
     delete  |-> DeleteReturning(DeleteDaemonWorkflow),
     enable  |-> Toggle({"active"}, "on", EnableDaemonWorkflow),
     disable |-> Toggle({"active"}, "off", DisableDaemonWorkflow),
     retry   |-> RetryKnown({"failed"}, CreateDaemonWorkflow)])

SSHKeyService == Service("all", FALSE, AddSSHKeyWorkflow,
    [delete |-> DeleteReturning(RemoveSSHKeyWorkflow),
     retry  |-> RetryKnown({"failed"}, AddSSHKeyWorkflow)])

DatabaseService == Service("one", FALSE, CreateDatabaseWorkflow,
    [delete |-> DeleteResolved(DeleteDatabaseWorkflow),
     retry  |-> RetryResolved(CreateDatabaseWorkflow)])

DatabaseUserService == Service("one", FALSE, CreateDatabaseUserWorkflow,
    [update |-> Patch(UpdateDatabaseUserWorkflow),
     delete |-> DeleteResolved(DeleteDatabaseUserWorkflow),
     retry  |-> RetryResolved(CreateDatabaseUserWorkflow)])

ValkeyInstanceService == Service("all", FALSE, CreateValkeyInstanceWorkflow,
    [delete |-> DeleteResolved(DeleteValkeyInstanceWorkflow),
     retry  |-> RetryResolved(CreateValkeyInstanceWorkflow)])

ValkeyUserService == Service("all", FALSE, CreateValkeyUserWorkflow,
    [update |-> Patch(UpdateValkeyUserWorkflow),
     delete |-> DeleteResolved(DeleteValkeyUserWorkflow),
     retry  |-> RetryResolved(CreateValkeyUserWorkflow)])

S3BucketService == Service("one", FALSE, CreateS3BucketWorkflow,
    [update |-> Patch(UpdateS3BucketWorkflow),
     delete |-> DeleteResolved(DeleteS3BucketWorkflow),
     retry  |-> RetryResolved(CreateS3BucketWorkflow)])

\* Access keys cannot be retried.
S3AccessKeyService == Service("one", FALSE, CreateS3AccessKeyWorkflow,
    [delete |-> DeleteResolved(DeleteS3AccessKeyWorkflow)])

BackupService == Service("one", FALSE, CreateBackupWorkflow,
    [delete  |-> DeleteReturning(DeleteBackupWorkflow),
     restore |-> Op(TRUE, {"active"}, "keep", FALSE, "keep", "known", RestoreBackupWorkflow),
     retry   |-> RetryKnown({"failed"}, CreateBackupWorkflow)])

WireGuardPeerService == Service("all", FALSE, CreateWireGuardPeerWorkflow,
    [delete |-> DeleteResolved(DeleteWireGuardPeerWorkflow),
     retry  |-> RetryResolved(CreateWireGuardPeerWorkflow)])

EmailAccountService == Service("one", FALSE, CreateEmailAccountWorkflow,
    [delete |-> DeleteResolved(DeleteEmailAccountWorkflow),
     retry  |-> RetryResolved(CreateEmailAccountWorkflow)])

EmailAliasService == Service("one", FALSE, CreateEmailAliasWorkflow,
    [delete |-> DeleteResolved(DeleteEmailAliasWorkflow),
     retry  |-> RetryResolved(CreateEmailAliasWorkflow)])

EmailForwardService == Service("one", FALSE, CreateEmailForwardWorkflow,
    [delete |-> DeleteResolved(DeleteEmailForwardWorkflow),
     retry  |-> RetryResolved(CreateEmailForwardWorkflow)])

\* Upsert of an existing row; after a deletion it inserts another resource.
EmailAutoReplyService == Service("one", FALSE, UpdateEmailAutoReplyWorkflow,
    [update |-> Op(FALSE, {}, "pending", TRUE, "keep", "resolved",
                   UpdateEmailAutoReplyWorkflow),
     delete |-> Op(TRUE, Statuses, "deleting", FALSE, "keep", "known",
                   DeleteEmailAutoReplyWorkflow),
     retry  |-> RetryResolved(UpdateEmailAutoReplyWorkflow)])

\* Update writes ownership columns, which DNS does not see, and the status.
ZoneService == Service("one", FALSE, CreateZoneWorkflow,
    [update |-> Op(TRUE, Statuses, "stale", FALSE, "keep", "known", <<>>),
     delete |-> DeleteResolved(DeleteZoneWorkflow),
     retry  |-> RetryResolved(CreateZoneWorkflow)])

ZoneRecordService == Service("one", FALSE, CreateZoneRecordWorkflow,
    [update |-> Patch(UpdateZoneRecordWorkflow),
     delete |-> DeleteResolved(DeleteZoneRecordWorkflow),
     retry  |-> RetryResolved(CreateZoneRecordWorkflow)])

SubscriptionService == Service("none", FALSE, <<>>,
    [delete |-> DeleteResolved(DeleteSubscriptionWorkflow)])

ServiceOf ==
    [webroot |-> WebrootService, fqdn |-> FQDNService,
     certificate |-> CertificateService, cron_job |-> CronJobService,
     daemon |-> DaemonService, ssh_key |-> SSHKeyService,
     database |-> DatabaseService, database_user |-> DatabaseUserService,
     valkey_instance |-> ValkeyInstanceService, valkey_user |-> ValkeyUserService,
     s3_bucket |-> S3BucketService, s3_access_key |-> S3AccessKeyService,
     backup |-> BackupService, wireguard_peer |-> WireGuardPeerService,
     email_account |-> EmailAccountService, email_alias |-> EmailAliasService,
     email_forward |-> EmailForwardService, email_autoreply |-> EmailAutoReplyService,
     zone |-> ZoneService, zone_record |-> ZoneRecordService,
     subscription |-> SubscriptionService]

Kind == DOMAIN ServiceOf

=============================================================================
