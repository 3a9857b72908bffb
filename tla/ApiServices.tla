---------------------------- MODULE ApiServices ----------------------------
(* The services behind the HTTP handlers (internal/core), as programs. A      *)
(* service changes the row by one SQL statement at a time and hands the work  *)
(* to the tenant's queue. Neither the handlers nor the services hold a lock   *)
(* or, but for the creation of a tenant, a transaction across statements:     *)
(* each statement is one step, and the steps of two requests interleave.      *)
(* ApiServer says what each step does.                                        *)
(*                                                                            *)
(*   get, find, reload   load the row             404                         *)
(*   parent, parentActive, parentInput, read, lookup, exists                  *)
(*             rows this one hangs on             404, 400, 500               *)
(*   insert, insertActive, upsert, link, nested   INSERT                      *)
(*   write, writeAll   UPDATE of the columns, writeAll with the status the    *)
(*             handler has loaded                                             *)
(*   deleting, provisioning, pending, suspended, active, auto_disabled        *)
(*             UPDATE of the status; with ! a missing row is 404              *)
(*   failed?, active?, activeOrDisabled?, failedOrDisabled?, ifFailed         *)
(*             the status the operation starts from                           *)
(*   delete, clear, unlink   DELETE; with ! a missing row is an error         *)
(*   resolve   the row's tenant                   404                         *)
(*   signal    signalProvision; with ? its error is ignored                   *)
EXTENDS Sequences

(* api key *)
APIKeyServiceCreate == <<"insertActive">>
APIKeyServiceUpdate == <<"write!", "get">>
APIKeyServiceRevoke == <<"delete!">>

(* region *)
RegionServiceCreate == <<"insertActive">>
RegionServiceUpdate == <<"write">>
RegionServiceDelete == <<"delete">>

(* cluster *)
ClusterServiceCreate == <<"insert">>
ClusterServiceUpdate == <<"writeAll">>
ClusterServiceDelete == <<"delete">>
ClusterServiceAddRuntime == <<"link">>
ClusterServiceRemoveRuntime == <<"unlink">>

(* lb address *)
ClusterLBAddressServiceCreate == <<"parse", "insertActive">>
ClusterLBAddressServiceDelete == <<"delete">>

(* shard *)
ShardServiceCreate == <<"insertActive">>
ShardServiceUpdate == <<"writeAll">>
ShardServiceConverge == <<"resolve", "signal">>
ShardServiceRetry == <<"failed?", "active">> \o ShardServiceConverge
ShardServiceDelete == <<"delete">>

(* node *)
NodeServiceAssignShards == <<"read", "link">>
NodeServiceCreate == <<"insertActive">> \o NodeServiceAssignShards \o <<"get">>
NodeServiceUpdate == <<"writeAll", "unlink">> \o NodeServiceAssignShards \o <<"get">>
NodeServiceDelete == <<"delete">>

(* brand *)
BrandServiceCreate == <<"insertActive">>
BrandServiceUpdate == <<"writeAll">>
BrandServiceDelete == <<"delete">>
BrandServiceSetClusters == <<"unlink", "link">>

(* tenant *)
TenantServiceCreate == <<"read", "insert">>
TenantServiceUpdate == <<"writeAll", "signal">>
TenantServiceDelete == <<"deleting", "signal">>
TenantServiceSuspend == <<"suspended", "signal">>
TenantServiceUnsuspend == <<"pending", "signal">>
TenantServiceMigrate == <<"provisioning", "signal">>
TenantServiceRetry == <<"failed?", "provisioning", "signal">>
TenantServiceRetryFailed == <<"exists", "nested", "ifFailed", "provisioning", "signal">>

(* subscription *)
SubscriptionServiceCreate == <<"insertActive">>
SubscriptionServiceDelete == <<"deleting", "resolve", "signal">>

(* webroot *)
WebrootServiceCreate == <<"insert", "signal">>
WebrootServiceUpdate == <<"writeAll", "signal">>
WebrootServiceDelete == <<"deleting!", "signal">>
WebrootServiceRetry == <<"failed?", "provisioning", "signal">>

(* env var *)
EnvVarServiceBulkSet == <<"read", "clear", "insertActive", "signal">>
EnvVarServiceDeleteByName == <<"clear!", "read", "signal">>

(* daemon *)
DaemonServiceCreate == <<"read", "insert", "signal">>
DaemonServiceUpdate == <<"writeAll", "signal">>
DaemonServiceDelete == <<"deleting!", "signal">>
DaemonServiceEnable == <<"active?", "provisioning", "signal">>
DaemonServiceDisable == <<"active?", "provisioning", "signal">>
DaemonServiceRetry == <<"failed?", "provisioning", "signal">>

(* cron job *)
CronJobServiceCreate == <<"insert", "signal">>
CronJobServiceUpdate == <<"writeAll", "signal">>
CronJobServiceDelete == <<"deleting!", "signal">>
CronJobServiceEnable == <<"activeOrDisabled?", "provisioning", "signal">>
CronJobServiceDisable == <<"active?", "provisioning", "signal">>
CronJobServiceRetry == <<"failedOrDisabled?", "provisioning", "signal">>
CronJobServiceReportCronOutcome == <<"count", "auto_disabled", "signal?">>

(* fqdn *)
FQDNServiceCreate == <<"insert", "signal">>
FQDNServiceUpdate == <<"write">>
FQDNServiceDelete == <<"deleting!", "signal">>
FQDNServiceRetry == <<"failed?", "provisioning", "signal">>

(* certificate *)
CertificateServiceUpload == <<"insert", "resolve", "signal">>
CertificateServiceRetry == <<"failed?", "provisioning", "resolve", "signal">>

(* zone *)
ZoneServiceCreate == <<"read", "insert", "signal">>
ZoneServiceUpdate == <<"writeAll">>
ZoneServiceDelete == <<"deleting!", "resolve", "signal">>
ZoneServiceRetry == <<"failed?", "provisioning", "resolve", "signal">>

(* zone record *)
ZoneRecordServiceCreate == <<"insert", "resolve", "signal">>
ZoneRecordServiceUpdate == <<"write", "resolve", "signal">>
ZoneRecordServiceDelete == <<"deleting!", "resolve", "signal">>
(* A Retry that does not queue the task. *)
ZoneRecordServiceRetrySilent == <<"failed?", "provisioning", "resolve">>
ZoneRecordServiceRetry == <<"failed?", "provisioning", "resolve", "signal">>

(* database *)
DatabaseServiceCreate == <<"insert", "signal">>
DatabaseServiceDelete == <<"deleting", "resolve", "signal">>
DatabaseServiceMigrate == <<"provisioning", "resolve", "signal">>
DatabaseServiceRetry == <<"failed?", "provisioning", "resolve", "signal">>

(* database user *)
DatabaseUserServiceCreate == <<"insert", "resolve", "signal">>
DatabaseUserServiceUpdate == <<"write", "resolve", "signal">>
DatabaseUserServiceDelete == <<"deleting!", "resolve", "signal">>
DatabaseUserServiceRetry == <<"failed?", "provisioning", "resolve", "signal">>

(* valkey instance *)
ValkeyInstanceServiceCreate == <<"read", "insert", "signal">>
ValkeyInstanceServiceDelete == <<"deleting", "resolve", "signal">>
ValkeyInstanceServiceMigrate == <<"provisioning", "resolve", "signal">>
ValkeyInstanceServiceRetry == <<"failed?", "provisioning", "resolve", "signal">>

(* valkey user *)
ValkeyUserServiceCreate == <<"insert", "resolve", "signal">>
ValkeyUserServiceUpdate == <<"write", "resolve", "signal">>
ValkeyUserServiceDelete == <<"deleting!", "resolve", "signal">>
ValkeyUserServiceRetry == <<"failed?", "provisioning", "resolve", "signal">>

(* s3 bucket *)
S3BucketServiceCreate == <<"insert", "signal">>
S3BucketServiceUpdate == <<"write", "resolve", "signal">>
S3BucketServiceDelete == <<"deleting", "resolve", "signal">>
S3BucketServiceRetry == <<"failed?", "provisioning", "resolve", "signal">>

(* s3 access key *)
S3AccessKeyServiceCreate == <<"insert", "resolve", "signal">>
S3AccessKeyServiceDelete == <<"deleting!", "resolve", "signal">>

(* ssh key *)
SSHKeyServiceCreate == <<"insert", "signal">>
SSHKeyServiceDelete == <<"deleting!", "signal">>
SSHKeyServiceRetry == <<"failed?", "provisioning", "signal">>

(* egress rule *)
TenantEgressRuleServiceCreate == <<"insert", "signal">>
TenantEgressRuleServiceDelete == <<"deleting!", "signal">>
TenantEgressRuleServiceRetry == <<"failed?", "provisioning", "signal">>

(* email account *)
EmailAccountServiceCreate == <<"insert", "resolve", "signal">>
EmailAccountServiceDelete == <<"deleting!", "resolve", "signal">>
EmailAccountServiceRetry == <<"failed?", "provisioning", "resolve", "signal">>

(* email alias *)
EmailAliasServiceCreate == <<"insert", "resolve", "signal">>
EmailAliasServiceDelete == <<"deleting!", "resolve", "signal">>
EmailAliasServiceRetry == <<"failed?", "provisioning", "resolve", "signal">>

(* email forward *)
EmailForwardServiceCreate == <<"insert", "resolve", "signal">>
EmailForwardServiceDelete == <<"deleting!", "resolve", "signal">>
EmailForwardServiceRetry == <<"failed?", "provisioning", "resolve", "signal">>

(* email autoreply *)
EmailAutoReplyServiceUpsert == <<"upsert", "find", "resolve", "signal">>
EmailAutoReplyServiceDelete == <<"find", "deleting", "resolve", "signal">>
EmailAutoReplyServiceRetry == <<"failed?", "provisioning", "resolve", "signal">>

(* backup *)
BackupServiceCreate == <<"insert", "signal">>
BackupServiceDelete == <<"deleting!", "signal">>
BackupServiceRestore == <<"active?", "signal">>
BackupServiceRetry == <<"failed?", "provisioning", "signal">>

(* wireguard peer *)
WireGuardPeerServiceCreate == <<"read", "insert", "read", "signal">>
WireGuardPeerServiceDelete == <<"deleting", "resolve", "signal">>
WireGuardPeerServiceRetry == <<"failed?", "provisioning", "resolve", "signal">>
=============================================================================
