---------------------------- MODULE ApiHandlers ----------------------------
(* The HTTP handlers that change the core database, as programs. A handler    *)
(* (internal/api/handler) checks the request and calls a service of           *)
(* ApiServices. ApiServer says what each step does; the definitions here say  *)
(* which steps a handler takes, in the order of the code.                     *)
(*                                                                            *)
(*   auth      the API key and its scopes         401, 403                    *)
(*   input     IDs, body, validation              400                         *)
(*   brand     access to the row's brand          403                         *)
(*   managed   the row is managed by the platform 403                         *)
(*   tenant    the tenant and its brand           404, 403                    *)
(*   200, 201, 202, 204   the answer                                          *)
(* The other steps are those of the services.                                 *)
EXTENDS ApiServices

(* The middleware before every handler. *)
Auth == <<"auth">>

(* The rows a request nests below the one it creates: one statement and one   *)
(* task per row, so a failure leaves the rows before it.                      *)
createNestedEmailAccounts == <<"nested">>
createNestedFQDNs == <<"nested">> \o createNestedEmailAccounts

(* The rows nested below a new tenant are part of its transaction: the row of *)
(* the tenant is visible only when all of them have been accepted.            *)
TenantNestedHosting == <<"nestedTx">>
TenantNestedStores == <<"nestedTx">>

(* api key *)
APIKeyCreate == <<"input">> \o APIKeyServiceCreate \o <<"201">>
APIKeyUpdate == <<"input">> \o APIKeyServiceUpdate \o <<"200">>
APIKeyRevoke == <<"input">> \o APIKeyServiceRevoke \o <<"204">>
APIKeyRoutes == [create |-> APIKeyCreate, update |-> APIKeyUpdate,
    delete |-> APIKeyRevoke]

(* region *)
RegionCreate == <<"input">> \o RegionServiceCreate \o <<"201">>
RegionUpdate == <<"input", "get">> \o RegionServiceUpdate \o <<"200">>
RegionDelete == <<"input">> \o RegionServiceDelete \o <<"204">>
RegionRoutes == [create |-> RegionCreate, update |-> RegionUpdate,
    delete |-> RegionDelete]

(* cluster *)
ClusterCreate == <<"input">> \o ClusterServiceCreate \o <<"201">>
ClusterUpdate == <<"input", "get">> \o ClusterServiceUpdate \o <<"200">>
ClusterDelete == <<"input">> \o ClusterServiceDelete \o <<"204">>
ClusterAddRuntime == <<"input">> \o ClusterServiceAddRuntime \o <<"201">>
ClusterRemoveRuntime == <<"input">> \o ClusterServiceRemoveRuntime \o <<"204">>
ClusterRoutes == [create |-> ClusterCreate, update |-> ClusterUpdate,
    delete |-> ClusterDelete, addRuntime |-> ClusterAddRuntime,
    removeRuntime |-> ClusterRemoveRuntime]

(* lb address *)
ClusterLBAddressCreate == <<"input">> \o ClusterLBAddressServiceCreate \o <<"201">>
ClusterLBAddressDelete == <<"input">> \o ClusterLBAddressServiceDelete \o <<"204">>
ClusterLBAddressRoutes == [create |-> ClusterLBAddressCreate,
    delete |-> ClusterLBAddressDelete]

(* shard *)
ShardCreate == <<"input">> \o ShardServiceCreate \o <<"201">>
ShardUpdate == <<"input", "get">> \o ShardServiceUpdate \o <<"200">>
ShardConverge == <<"input", "get">> \o ShardServiceConverge \o <<"202">>
ShardRetry == <<"input">> \o ShardServiceRetry \o <<"202">>
ShardDelete == <<"input">> \o ShardServiceDelete \o <<"204">>
ShardRoutes == [create |-> ShardCreate, update |-> ShardUpdate,
    converge |-> ShardConverge, retry |-> ShardRetry, delete |-> ShardDelete]

(* node *)
NodeCreate == <<"input">> \o NodeServiceCreate \o <<"201">>
NodeUpdate == <<"input", "get">> \o NodeServiceUpdate \o <<"200">>
NodeDelete == <<"input">> \o NodeServiceDelete \o <<"204">>
NodeRoutes == [create |-> NodeCreate, update |-> NodeUpdate, delete |-> NodeDelete]

(* brand *)
BrandCreate == <<"input">> \o BrandServiceCreate \o <<"201">>
BrandUpdate == <<"input", "get">> \o BrandServiceUpdate \o <<"200">>
BrandDelete == <<"input">> \o BrandServiceDelete \o <<"200">>
BrandSetClusters == <<"input">> \o BrandServiceSetClusters \o <<"200">>
BrandRoutes == [create |-> BrandCreate, update |-> BrandUpdate, delete |-> BrandDelete,
    setClusters |-> BrandSetClusters]

(* tenant *)
TenantAccess == <<"input", "get", "brand">>
TenantCreate ==
    <<"input", "brand", "read", "input">> \o TenantNestedHosting
    \o TenantNestedStores
    \o TenantServiceCreate
    \o <<"signal?", "202">>
TenantUpdate == <<"input", "get", "brand">> \o TenantServiceUpdate \o <<"202">>
TenantDelete == TenantAccess \o TenantServiceDelete \o <<"202">>
TenantSuspend == TenantAccess \o TenantServiceSuspend \o <<"202">>
TenantUnsuspend == TenantAccess \o TenantServiceUnsuspend \o <<"202">>
TenantMigrate == TenantAccess \o <<"input">> \o TenantServiceMigrate \o <<"202">>
TenantRetry == TenantAccess \o TenantServiceRetry \o <<"202">>
TenantRetryFailed == TenantAccess \o TenantServiceRetryFailed \o <<"202">>
TenantRoutes == [create |-> TenantCreate, update |-> TenantUpdate,
    delete |-> TenantDelete, suspend |-> TenantSuspend, unsuspend |-> TenantUnsuspend,
    migrate |-> TenantMigrate, retry |-> TenantRetry, retryFailed |-> TenantRetryFailed]

(* subscription *)
SubscriptionCreate == <<"input", "tenant">> \o SubscriptionServiceCreate \o <<"201">>
SubscriptionDelete ==
    <<"input", "get", "tenant">> \o SubscriptionServiceDelete
    \o <<"202">>
SubscriptionRoutes == [create |-> SubscriptionCreate, delete |-> SubscriptionDelete]

(* webroot *)
WebrootCreate ==
    <<"input", "tenant", "input">> \o WebrootServiceCreate
    \o createNestedFQDNs
    \o <<"202">>
WebrootUpdate ==
    <<"input", "get", "tenant", "input">> \o WebrootServiceUpdate
    \o <<"202">>
WebrootDelete == <<"input", "get", "tenant">> \o WebrootServiceDelete \o <<"202">>
WebrootRetry == <<"input", "get", "tenant">> \o WebrootServiceRetry \o <<"202">>
WebrootRoutes == [create |-> WebrootCreate, update |-> WebrootUpdate,
    delete |-> WebrootDelete, retry |-> WebrootRetry]

(* env var *)
EnvVarSet == <<"input", "parent", "tenant">> \o EnvVarServiceBulkSet \o <<"202">>
EnvVarDelete ==
    <<"input", "parent", "tenant">> \o EnvVarServiceDeleteByName
    \o <<"202">>
EnvVarRoutes == [set |-> EnvVarSet, delete |-> EnvVarDelete]

(* daemon *)
DaemonCreate ==
    <<"input", "parent", "tenant", "parentActive", "input", "lookup">> \o DaemonServiceCreate
    \o <<"202">>
DaemonUpdate ==
    <<"input", "get", "tenant", "input", "lookup">> \o DaemonServiceUpdate
    \o <<"202">>
DaemonDelete == <<"input", "get", "tenant">> \o DaemonServiceDelete \o <<"202">>
DaemonEnable == <<"input", "get", "tenant">> \o DaemonServiceEnable \o <<"202">>
DaemonDisable == <<"input", "get", "tenant">> \o DaemonServiceDisable \o <<"202">>
DaemonRetry == <<"input", "get", "tenant">> \o DaemonServiceRetry \o <<"202">>
DaemonRoutes == [create |-> DaemonCreate, update |-> DaemonUpdate,
    delete |-> DaemonDelete, enable |-> DaemonEnable, disable |-> DaemonDisable,
    retry |-> DaemonRetry]

(* cron job *)
(* The check on the webroot moved behind the INSERT. *)
CronJobCreateLateCheck ==
    <<"input", "parent", "tenant">> \o CronJobServiceCreate
    \o <<"parentActive", "202">>
CronJobCreate ==
    <<"input", "parent", "tenant", "parentActive">> \o CronJobServiceCreate
    \o <<"202">>
CronJobUpdate ==
    <<"input", "get", "tenant", "input">> \o CronJobServiceUpdate
    \o <<"202">>
CronJobDelete == <<"input", "get", "tenant">> \o CronJobServiceDelete \o <<"202">>
CronJobEnable == <<"input", "get", "tenant">> \o CronJobServiceEnable \o <<"202">>
CronJobDisable == <<"input", "get", "tenant">> \o CronJobServiceDisable \o <<"202">>
CronJobRetry == <<"input", "get", "tenant">> \o CronJobServiceRetry \o <<"202">>
CronJobReportCronOutcome == <<"input">> \o CronJobServiceReportCronOutcome \o <<"200">>
CronJobRoutes == [create |-> CronJobCreate, update |-> CronJobUpdate,
    delete |-> CronJobDelete, enable |-> CronJobEnable, disable |-> CronJobDisable,
    retry |-> CronJobRetry, outcome |-> CronJobReportCronOutcome]

(* fqdn *)
FQDNCreate ==
    <<"input", "tenant">> \o FQDNServiceCreate
    \o createNestedEmailAccounts
    \o <<"202">>
FQDNUpdate == <<"input", "get", "tenant">> \o FQDNServiceUpdate \o <<"200">>
FQDNDelete == <<"input", "get", "tenant">> \o FQDNServiceDelete \o <<"202">>
FQDNRetry == <<"input">> \o FQDNServiceRetry \o <<"202">>
FQDNRoutes == [create |-> FQDNCreate, update |-> FQDNUpdate, delete |-> FQDNDelete,
    retry |-> FQDNRetry]

(* certificate *)
CertificateUpload == <<"input">> \o CertificateServiceUpload \o <<"202">>
CertificateRetry == <<"input">> \o CertificateServiceRetry \o <<"202">>
CertificateRoutes == [create |-> CertificateUpload, retry |-> CertificateRetry]

(* zone *)
ZoneAccess == <<"input", "get", "brand">>
ZoneCreate == <<"input", "parentInput", "brand">> \o ZoneServiceCreate \o <<"202">>
ZoneUpdate == <<"input", "get", "brand">> \o ZoneServiceUpdate \o <<"200">>
ZoneDelete == ZoneAccess \o ZoneServiceDelete \o <<"202">>
ZoneRetry == ZoneAccess \o ZoneServiceRetry \o <<"202">>
ZoneRoutes == [create |-> ZoneCreate, update |-> ZoneUpdate, delete |-> ZoneDelete,
    retry |-> ZoneRetry]

(* zone record *)
ZoneRecordCreate == <<"input">> \o ZoneRecordServiceCreate \o <<"202">>
ZoneRecordUpdate ==
    <<"input", "get", "managed">> \o ZoneRecordServiceUpdate
    \o <<"202">>
ZoneRecordDelete ==
    <<"input", "get", "managed">> \o ZoneRecordServiceDelete
    \o <<"202">>
ZoneRecordRetry == <<"input">> \o ZoneRecordServiceRetry \o <<"202">>
ZoneRecordRoutes == [create |-> ZoneRecordCreate, update |-> ZoneRecordUpdate,
    delete |-> ZoneRecordDelete, retry |-> ZoneRecordRetry]

(* database *)
DatabaseCreate ==
    <<"input", "tenant">> \o DatabaseServiceCreate
    \o <<"nestedInput", "nested", "202">>
DatabaseDelete == <<"input", "get", "tenant">> \o DatabaseServiceDelete \o <<"202">>
DatabaseMigrate == <<"input", "get", "tenant">> \o DatabaseServiceMigrate \o <<"202">>
DatabaseRetry == <<"input", "get", "tenant">> \o DatabaseServiceRetry \o <<"202">>
DatabaseRoutes == [create |-> DatabaseCreate, delete |-> DatabaseDelete,
    migrate |-> DatabaseMigrate, retry |-> DatabaseRetry]

(* database user *)
DatabaseUserCreate ==
    <<"input", "parent", "input">> \o DatabaseUserServiceCreate
    \o <<"202">>
DatabaseUserUpdate == <<"input", "get">> \o DatabaseUserServiceUpdate \o <<"202">>
DatabaseUserDelete == <<"input">> \o DatabaseUserServiceDelete \o <<"202">>
DatabaseUserRetry == <<"input">> \o DatabaseUserServiceRetry \o <<"202">>
DatabaseUserRoutes == [create |-> DatabaseUserCreate, update |-> DatabaseUserUpdate,
    delete |-> DatabaseUserDelete, retry |-> DatabaseUserRetry]

(* valkey instance *)
ValkeyInstanceCreate ==
    <<"input", "tenant">> \o ValkeyInstanceServiceCreate
    \o <<"nested", "202">>
ValkeyInstanceDelete ==
    <<"input", "get", "tenant">> \o ValkeyInstanceServiceDelete
    \o <<"202">>
ValkeyInstanceMigrate ==
    <<"input", "get", "tenant">> \o ValkeyInstanceServiceMigrate
    \o <<"202">>
ValkeyInstanceRetry ==
    <<"input", "get", "tenant">> \o ValkeyInstanceServiceRetry
    \o <<"202">>
ValkeyInstanceRoutes == [create |-> ValkeyInstanceCreate,
    delete |-> ValkeyInstanceDelete, migrate |-> ValkeyInstanceMigrate,
    retry |-> ValkeyInstanceRetry]

(* valkey user *)
ValkeyUserCreate ==
    <<"input", "parent", "input">> \o ValkeyUserServiceCreate
    \o <<"202">>
ValkeyUserUpdate == <<"input", "get">> \o ValkeyUserServiceUpdate \o <<"202">>
ValkeyUserDelete == <<"input">> \o ValkeyUserServiceDelete \o <<"202">>
ValkeyUserRetry == <<"input">> \o ValkeyUserServiceRetry \o <<"202">>
ValkeyUserRoutes == [create |-> ValkeyUserCreate, update |-> ValkeyUserUpdate,
    delete |-> ValkeyUserDelete, retry |-> ValkeyUserRetry]

(* s3 bucket *)
S3BucketCreate == <<"input", "tenant">> \o S3BucketServiceCreate \o <<"202">>
S3BucketUpdate ==
    <<"input", "get", "tenant">> \o S3BucketServiceUpdate
    \o <<"reload", "202">>
S3BucketDelete == <<"input", "get", "tenant">> \o S3BucketServiceDelete \o <<"202">>
S3BucketRetry == <<"input", "get", "tenant">> \o S3BucketServiceRetry \o <<"202">>
S3BucketRoutes == [create |-> S3BucketCreate, update |-> S3BucketUpdate,
    delete |-> S3BucketDelete, retry |-> S3BucketRetry]

(* s3 access key *)
S3AccessKeyCreate == <<"input">> \o S3AccessKeyServiceCreate \o <<"201">>
S3AccessKeyDelete == <<"input">> \o S3AccessKeyServiceDelete \o <<"202">>
S3AccessKeyRoutes == [create |-> S3AccessKeyCreate, delete |-> S3AccessKeyDelete]

(* ssh key *)
SSHKeyCreate == <<"input", "tenant">> \o SSHKeyServiceCreate \o <<"202">>
SSHKeyDelete == <<"input", "get", "tenant">> \o SSHKeyServiceDelete \o <<"202">>
SSHKeyRetry == <<"input", "get", "tenant">> \o SSHKeyServiceRetry \o <<"202">>
SSHKeyRoutes == [create |-> SSHKeyCreate, delete |-> SSHKeyDelete,
    retry |-> SSHKeyRetry]

(* egress rule *)
TenantEgressRuleCreate ==
    <<"input", "tenant">> \o TenantEgressRuleServiceCreate
    \o <<"202">>
TenantEgressRuleDelete ==
    <<"input", "get", "tenant">> \o TenantEgressRuleServiceDelete
    \o <<"202">>
TenantEgressRuleRetry ==
    <<"input", "get", "tenant">> \o TenantEgressRuleServiceRetry
    \o <<"202">>
TenantEgressRuleRoutes == [create |-> TenantEgressRuleCreate,
    delete |-> TenantEgressRuleDelete, retry |-> TenantEgressRuleRetry]

(* email account *)
EmailAccountCreate == <<"input">> \o EmailAccountServiceCreate \o <<"nested", "202">>
EmailAccountDelete == <<"input">> \o EmailAccountServiceDelete \o <<"202">>
EmailAccountRetry == <<"input">> \o EmailAccountServiceRetry \o <<"202">>
EmailAccountRoutes == [create |-> EmailAccountCreate, delete |-> EmailAccountDelete,
    retry |-> EmailAccountRetry]

(* email alias *)
EmailAliasCreate == <<"input">> \o EmailAliasServiceCreate \o <<"202">>
EmailAliasDelete == <<"input">> \o EmailAliasServiceDelete \o <<"202">>
EmailAliasRetry == <<"input">> \o EmailAliasServiceRetry \o <<"202">>
EmailAliasRoutes == [create |-> EmailAliasCreate, delete |-> EmailAliasDelete,
    retry |-> EmailAliasRetry]

(* email forward *)
EmailForwardCreate == <<"input">> \o EmailForwardServiceCreate \o <<"202">>
EmailForwardDelete == <<"input">> \o EmailForwardServiceDelete \o <<"202">>
EmailForwardRetry == <<"input">> \o EmailForwardServiceRetry \o <<"202">>
EmailForwardRoutes == [create |-> EmailForwardCreate, delete |-> EmailForwardDelete,
    retry |-> EmailForwardRetry]

(* email autoreply *)
EmailAutoReplyPut == <<"input">> \o EmailAutoReplyServiceUpsert \o <<"202">>
EmailAutoReplyDelete == <<"input">> \o EmailAutoReplyServiceDelete \o <<"202">>
EmailAutoReplyRetry == <<"input">> \o EmailAutoReplyServiceRetry \o <<"202">>
EmailAutoReplyRoutes == [put |-> EmailAutoReplyPut, delete |-> EmailAutoReplyDelete,
    retry |-> EmailAutoReplyRetry]

(* backup *)
BackupCreate == <<"input", "tenant", "parent">> \o BackupServiceCreate \o <<"202">>
BackupDelete == <<"input", "get", "tenant">> \o BackupServiceDelete \o <<"202">>
BackupRestore == <<"input", "get", "tenant">> \o BackupServiceRestore \o <<"202">>
BackupRetry == <<"input", "get", "tenant">> \o BackupServiceRetry \o <<"202">>
BackupRoutes == [create |-> BackupCreate, delete |-> BackupDelete,
    restore |-> BackupRestore, retry |-> BackupRetry]

(* wireguard peer *)
WireGuardPeerCreate == <<"input", "tenant">> \o WireGuardPeerServiceCreate \o <<"202">>
WireGuardPeerDelete ==
    <<"input", "get", "tenant">> \o WireGuardPeerServiceDelete
    \o <<"202">>
WireGuardPeerRetry ==
    <<"input", "get", "tenant">> \o WireGuardPeerServiceRetry
    \o <<"202">>
WireGuardPeerRoutes == [create |-> WireGuardPeerCreate, delete |-> WireGuardPeerDelete,
    retry |-> WireGuardPeerRetry]

(* Every kind of row with the routes that change it. *)
Routes ==
    [api_key |-> APIKeyRoutes,
     region |-> RegionRoutes,
     cluster |-> ClusterRoutes,
     lb_address |-> ClusterLBAddressRoutes,
     shard |-> ShardRoutes,
     node |-> NodeRoutes,
     brand |-> BrandRoutes,
     tenant |-> TenantRoutes,
     subscription |-> SubscriptionRoutes,
     webroot |-> WebrootRoutes,
     env_var |-> EnvVarRoutes,
     daemon |-> DaemonRoutes,
     cron_job |-> CronJobRoutes,
     fqdn |-> FQDNRoutes,
     certificate |-> CertificateRoutes,
     zone |-> ZoneRoutes,
     zone_record |-> ZoneRecordRoutes,
     database |-> DatabaseRoutes,
     database_user |-> DatabaseUserRoutes,
     valkey_instance |-> ValkeyInstanceRoutes,
     valkey_user |-> ValkeyUserRoutes,
     s3_bucket |-> S3BucketRoutes,
     s3_access_key |-> S3AccessKeyRoutes,
     ssh_key |-> SSHKeyRoutes,
     egress_rule |-> TenantEgressRuleRoutes,
     email_account |-> EmailAccountRoutes,
     email_alias |-> EmailAliasRoutes,
     email_forward |-> EmailForwardRoutes,
     email_autoreply |-> EmailAutoReplyRoutes,
     backup |-> BackupRoutes,
     wireguard_peer |-> WireGuardPeerRoutes]
=============================================================================
