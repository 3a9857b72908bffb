-------------------------- MODULE ApiServerProofs --------------------------
(***************************************************************************)
(* The safety of ApiServer for any number of requests, of rows' kinds and  *)
(* of failures.  What the handlers have in common is a matter of the order *)
(* of their steps: Fits says what that order is, EveryRouteFits that every *)
(* route of every kind has it, and the rest of the module looks at a       *)
(* handler through Fits alone.                                             *)
(***************************************************************************)
EXTENDS ApiServer, TLAPS

-----------------------------------------------------------------------------
(* The order of the steps of a handler.                                    *)

Replies == {"200", "201", "202", "204"}
Inserts == {"insert", "insertActive", "upsert"}
Writes == {"write", "writeAll", "write!"}
RowWrites == Inserts \cup Writes \cup Marks \cup {"deleting!"}
Links == {"link", "unlink"}
Removals == {"delete", "delete!", "clear", "clear!"}

\* What may follow a write of the row and the removal of the row: nothing
\* that refuses a request whose row, or parent, is still there.
AfterWrite ==
    Replies \cup {"get", "reload", "resolve", "find", "read", "signal", "signal?", "nested"}
AfterRemoval == Replies \cup {"read", "signal"}

Atomic(P) ==
    \A i, j \in 1 .. Len(P) : i < j =>
        /\ P[i] \in RowWrites => P[j] \in AfterWrite
        /\ P[i] \in Removals => P[j] \in AfterRemoval
        /\ P[i] \in Links => P[j] \in Replies

\* The writes after which the row waits for a workflow, and the steps that go
\* on as long as the row is there.
Unsettling == {"insert", "upsert", "deleting", "deleting!", "provisioning", "pending"}
Steady == {"resolve", "find", "read"}
Signals == {"signal", "signal?"}

\* From step i on, the handler queues its task unless the row is gone.
Near(P, i) ==
    \/ P[i] \in Signals
    \/ P[i] \in Steady /\ P[i + 1] \in Signals
    \/ P[i] \in Steady /\ P[i + 1] \in Steady /\ P[i + 2] \in Signals

Follows(P) ==
    \A i \in 1 .. Len(P) :
        /\ P[i] \in Unsettling => Near(P, i + 1)
        /\ P[i] = "writeAll" =>
              P[i + 1] = "signal" \/ \A j \in i .. Len(P) : P[j] # "signal"

\* A deletion is answered after the row's removal or after its task is queued;
\* where the task is about the parent, after both.
Removing(k, P) ==
    \A i \in 1 .. Len(P) : P[i] \in Replies =>
        /\ i > 1 /\ P[i - 1] \in {"delete", "delete!", "signal"}
        /\ P[i - 1] = "signal" /\ k \in OfParent =>
              \E j \in 1 .. i - 2 : P[j] \in Removals

Fits(k, op, P) ==
    /\ Len(P) \in Nat /\ Len(P) > 1
    /\ \A i \in 1 .. Len(P) : i < Len(P) \/ P[i] \in Replies
    /\ <<k, op>> \notin NotAtomic => Atomic(P)
    /\ k # "cluster" => Follows(P)
    /\ k \in OfParent => \A i \in 1 .. Len(P) : P[i] \notin RowWrites \ {"insertActive"}
    /\ op = "delete" => Removing(k, P)
    /\ k \in Synced \/ <<k, op>> = <<"s3_bucket", "update">> =>
          \A i \in 1 .. Len(P) : P[i] # "writeAll"
    /\ <<k, op>> = <<"s3_bucket", "update">> =>
          \A i \in 1 .. Len(P) : P[i] \notin Unsettling

-----------------------------------------------------------------------------
(* Every route fits: its steps are put together and looked at.             *)

USE DEF Auth, Replies, Inserts, Writes, Marks, RowWrites, Links, Removals,
        AfterWrite, AfterRemoval, Unsettling, Steady, Signals, Near, NotAtomic,
        OfParent, Synced, Atomic, Follows, Removing, Fits

LEMMA APIKeyRoutesFit ==
    \A op \in DOMAIN APIKeyRoutes : Fits("api_key", op, Auth \o APIKeyRoutes[op])
<1>1. Fits("api_key", "create", Auth \o APIKeyCreate)
  BY DEF APIKeyCreate, APIKeyServiceCreate
<1>2. Fits("api_key", "update", Auth \o APIKeyUpdate)
  BY DEF APIKeyUpdate, APIKeyServiceUpdate
<1>3. Fits("api_key", "delete", Auth \o APIKeyRevoke)
  BY DEF APIKeyRevoke, APIKeyServiceRevoke
<1> HIDE DEF Auth, Fits
<1> QED  BY <1>1, <1>2, <1>3 DEF APIKeyRoutes

LEMMA RegionRoutesFit ==
    \A op \in DOMAIN RegionRoutes : Fits("region", op, Auth \o RegionRoutes[op])
<1>1. Fits("region", "create", Auth \o RegionCreate)
  BY DEF RegionCreate, RegionServiceCreate
<1>2. Fits("region", "update", Auth \o RegionUpdate)
  BY DEF RegionUpdate, RegionServiceUpdate
<1>3. Fits("region", "delete", Auth \o RegionDelete)
  BY DEF RegionDelete, RegionServiceDelete
<1> HIDE DEF Auth, Fits
<1> QED  BY <1>1, <1>2, <1>3 DEF RegionRoutes

LEMMA ClusterRoutesFit ==
    \A op \in DOMAIN ClusterRoutes : Fits("cluster", op, Auth \o ClusterRoutes[op])
<1>1. Fits("cluster", "create", Auth \o ClusterCreate)
  BY DEF ClusterCreate, ClusterServiceCreate
<1>2. Fits("cluster", "update", Auth \o ClusterUpdate)
  BY DEF ClusterUpdate, ClusterServiceUpdate
<1>3. Fits("cluster", "delete", Auth \o ClusterDelete)
  BY DEF ClusterDelete, ClusterServiceDelete
<1>4. Fits("cluster", "addRuntime", Auth \o ClusterAddRuntime)
  BY DEF ClusterAddRuntime, ClusterServiceAddRuntime
<1>5. Fits("cluster", "removeRuntime", Auth \o ClusterRemoveRuntime)
  BY DEF ClusterRemoveRuntime, ClusterServiceRemoveRuntime
<1> HIDE DEF Auth, Fits
<1> QED  BY <1>1, <1>2, <1>3, <1>4, <1>5 DEF ClusterRoutes

LEMMA ClusterLBAddressRoutesFit ==
    \A op \in DOMAIN ClusterLBAddressRoutes : Fits("lb_address", op, Auth \o ClusterLBAddressRoutes[op])
<1>1. Fits("lb_address", "create", Auth \o ClusterLBAddressCreate)
  BY DEF ClusterLBAddressCreate, ClusterLBAddressServiceCreate
<1>2. Fits("lb_address", "delete", Auth \o ClusterLBAddressDelete)
  BY DEF ClusterLBAddressDelete, ClusterLBAddressServiceDelete
<1> HIDE DEF Auth, Fits
<1> QED  BY <1>1, <1>2 DEF ClusterLBAddressRoutes

LEMMA ShardRoutesFit ==
    \A op \in DOMAIN ShardRoutes : Fits("shard", op, Auth \o ShardRoutes[op])
<1>1. Fits("shard", "create", Auth \o ShardCreate)
  BY DEF ShardCreate, ShardServiceCreate
<1>2. Fits("shard", "update", Auth \o ShardUpdate)
  BY DEF ShardUpdate, ShardServiceUpdate
<1>3. Fits("shard", "converge", Auth \o ShardConverge)
  BY DEF ShardConverge, ShardServiceConverge
<1>4. Fits("shard", "retry", Auth \o ShardRetry)
  BY DEF ShardRetry, ShardServiceRetry, ShardServiceConverge
<1>5. Fits("shard", "delete", Auth \o ShardDelete)
  BY DEF ShardDelete, ShardServiceDelete
<1> HIDE DEF Auth, Fits
<1> QED  BY <1>1, <1>2, <1>3, <1>4, <1>5 DEF ShardRoutes

LEMMA NodeRoutesFit ==
    \A op \in DOMAIN NodeRoutes : Fits("node", op, Auth \o NodeRoutes[op])
<1>1. Fits("node", "create", Auth \o NodeCreate)
  BY DEF NodeCreate, NodeServiceCreate, NodeServiceAssignShards
<1>2. Fits("node", "update", Auth \o NodeUpdate)
  BY DEF NodeUpdate, NodeServiceUpdate, NodeServiceAssignShards
<1>3. Fits("node", "delete", Auth \o NodeDelete)
  BY DEF NodeDelete, NodeServiceDelete
<1> HIDE DEF Auth, Fits
<1> QED  BY <1>1, <1>2, <1>3 DEF NodeRoutes

LEMMA BrandRoutesFit ==
    \A op \in DOMAIN BrandRoutes : Fits("brand", op, Auth \o BrandRoutes[op])
<1>1. Fits("brand", "create", Auth \o BrandCreate)
  BY DEF BrandCreate, BrandServiceCreate
<1>2. Fits("brand", "update", Auth \o BrandUpdate)
  BY DEF BrandUpdate, BrandServiceUpdate
<1>3. Fits("brand", "delete", Auth \o BrandDelete)
  BY DEF BrandDelete, BrandServiceDelete
<1>4. Fits("brand", "setClusters", Auth \o BrandSetClusters)
  BY DEF BrandSetClusters, BrandServiceSetClusters
<1> HIDE DEF Auth, Fits
<1> QED  BY <1>1, <1>2, <1>3, <1>4 DEF BrandRoutes

LEMMA TenantRoutesFit ==
    \A op \in DOMAIN TenantRoutes : Fits("tenant", op, Auth \o TenantRoutes[op])
<1>1. Fits("tenant", "create", Auth \o TenantCreate)
  BY DEF TenantCreate, TenantNestedHosting, TenantNestedStores,
         TenantServiceCreate
<1>2. Fits("tenant", "update", Auth \o TenantUpdate)
  BY DEF TenantUpdate, TenantServiceUpdate
<1>3. Fits("tenant", "delete", Auth \o TenantDelete)
  BY DEF TenantDelete, TenantAccess, TenantServiceDelete
<1>4. Fits("tenant", "suspend", Auth \o TenantSuspend)
  BY DEF TenantSuspend, TenantAccess, TenantServiceSuspend
<1>5. Fits("tenant", "unsuspend", Auth \o TenantUnsuspend)
  BY DEF TenantUnsuspend, TenantAccess, TenantServiceUnsuspend
<1>6. Fits("tenant", "migrate", Auth \o TenantMigrate)
  BY DEF TenantMigrate, TenantAccess, TenantServiceMigrate
<1>7. Fits("tenant", "retry", Auth \o TenantRetry)
  BY DEF TenantRetry, TenantAccess, TenantServiceRetry
<1>8. Fits("tenant", "retryFailed", Auth \o TenantRetryFailed)
  BY DEF TenantRetryFailed, TenantAccess, TenantServiceRetryFailed
<1> HIDE DEF Auth, Fits
<1> QED  BY <1>1, <1>2, <1>3, <1>4, <1>5, <1>6, <1>7, <1>8 DEF TenantRoutes

LEMMA SubscriptionRoutesFit ==
    \A op \in DOMAIN SubscriptionRoutes : Fits("subscription", op, Auth \o SubscriptionRoutes[op])
<1>1. Fits("subscription", "create", Auth \o SubscriptionCreate)
  BY DEF SubscriptionCreate, SubscriptionServiceCreate
<1>2. Fits("subscription", "delete", Auth \o SubscriptionDelete)
  BY DEF SubscriptionDelete, SubscriptionServiceDelete
<1> HIDE DEF Auth, Fits
<1> QED  BY <1>1, <1>2 DEF SubscriptionRoutes

LEMMA WebrootRoutesFit ==
    \A op \in DOMAIN WebrootRoutes : Fits("webroot", op, Auth \o WebrootRoutes[op])
<1>1. Fits("webroot", "create", Auth \o WebrootCreate)
  BY DEF WebrootCreate, WebrootServiceCreate, createNestedFQDNs,
         createNestedEmailAccounts
<1>2. Fits("webroot", "update", Auth \o WebrootUpdate)
  BY DEF WebrootUpdate, WebrootServiceUpdate
<1>3. Fits("webroot", "delete", Auth \o WebrootDelete)
  BY DEF WebrootDelete, WebrootServiceDelete
<1>4. Fits("webroot", "retry", Auth \o WebrootRetry)
  BY DEF WebrootRetry, WebrootServiceRetry
<1> HIDE DEF Auth, Fits
<1> QED  BY <1>1, <1>2, <1>3, <1>4 DEF WebrootRoutes

LEMMA EnvVarRoutesFit ==
    \A op \in DOMAIN EnvVarRoutes : Fits("env_var", op, Auth \o EnvVarRoutes[op])
<1>1. Fits("env_var", "set", Auth \o EnvVarSet)
  BY DEF EnvVarSet, EnvVarServiceBulkSet
<1>2. Fits("env_var", "delete", Auth \o EnvVarDelete)
  BY DEF EnvVarDelete, EnvVarServiceDeleteByName
<1> HIDE DEF Auth, Fits
<1> QED  BY <1>1, <1>2 DEF EnvVarRoutes

LEMMA DaemonRoutesFit ==
    \A op \in DOMAIN DaemonRoutes : Fits("daemon", op, Auth \o DaemonRoutes[op])
<1>1. Fits("daemon", "create", Auth \o DaemonCreate)
  BY DEF DaemonCreate, DaemonServiceCreate
<1>2. Fits("daemon", "update", Auth \o DaemonUpdate)
  BY DEF DaemonUpdate, DaemonServiceUpdate
<1>3. Fits("daemon", "delete", Auth \o DaemonDelete)
  BY DEF DaemonDelete, DaemonServiceDelete
<1>4. Fits("daemon", "enable", Auth \o DaemonEnable)
  BY DEF DaemonEnable, DaemonServiceEnable
<1>5. Fits("daemon", "disable", Auth \o DaemonDisable)
  BY DEF DaemonDisable, DaemonServiceDisable
<1>6. Fits("daemon", "retry", Auth \o DaemonRetry)
  BY DEF DaemonRetry, DaemonServiceRetry
<1> HIDE DEF Auth, Fits
<1> QED  BY <1>1, <1>2, <1>3, <1>4, <1>5, <1>6 DEF DaemonRoutes

LEMMA CronJobRoutesFit ==
    \A op \in DOMAIN CronJobRoutes : Fits("cron_job", op, Auth \o CronJobRoutes[op])
<1>1. Fits("cron_job", "create", Auth \o CronJobCreate)
  BY DEF CronJobCreate, CronJobServiceCreate
<1>2. Fits("cron_job", "update", Auth \o CronJobUpdate)
  BY DEF CronJobUpdate, CronJobServiceUpdate
<1>3. Fits("cron_job", "delete", Auth \o CronJobDelete)
  BY DEF CronJobDelete, CronJobServiceDelete
<1>4. Fits("cron_job", "enable", Auth \o CronJobEnable)
  BY DEF CronJobEnable, CronJobServiceEnable
<1>5. Fits("cron_job", "disable", Auth \o CronJobDisable)
  BY DEF CronJobDisable, CronJobServiceDisable
<1>6. Fits("cron_job", "retry", Auth \o CronJobRetry)
  BY DEF CronJobRetry, CronJobServiceRetry
<1>7. Fits("cron_job", "outcome", Auth \o CronJobReportCronOutcome)
  BY DEF CronJobReportCronOutcome, CronJobServiceReportCronOutcome
<1> HIDE DEF Auth, Fits
<1> QED  BY <1>1, <1>2, <1>3, <1>4, <1>5, <1>6, <1>7 DEF CronJobRoutes

LEMMA FQDNRoutesFit ==
    \A op \in DOMAIN FQDNRoutes : Fits("fqdn", op, Auth \o FQDNRoutes[op])
<1>1. Fits("fqdn", "create", Auth \o FQDNCreate)
  BY DEF FQDNCreate, FQDNServiceCreate, createNestedEmailAccounts
<1>2. Fits("fqdn", "update", Auth \o FQDNUpdate)
  BY DEF FQDNUpdate, FQDNServiceUpdate
<1>3. Fits("fqdn", "delete", Auth \o FQDNDelete)
  BY DEF FQDNDelete, FQDNServiceDelete
<1>4. Fits("fqdn", "retry", Auth \o FQDNRetry)
  BY DEF FQDNRetry, FQDNServiceRetry
<1> HIDE DEF Auth, Fits
<1> QED  BY <1>1, <1>2, <1>3, <1>4 DEF FQDNRoutes

LEMMA CertificateRoutesFit ==
    \A op \in DOMAIN CertificateRoutes : Fits("certificate", op, Auth \o CertificateRoutes[op])
<1>1. Fits("certificate", "create", Auth \o CertificateUpload)
  BY DEF CertificateUpload, CertificateServiceUpload
<1>2. Fits("certificate", "retry", Auth \o CertificateRetry)
  BY DEF CertificateRetry, CertificateServiceRetry
<1> HIDE DEF Auth, Fits
<1> QED  BY <1>1, <1>2 DEF CertificateRoutes

LEMMA ZoneRoutesFit ==
    \A op \in DOMAIN ZoneRoutes : Fits("zone", op, Auth \o ZoneRoutes[op])
<1>1. Fits("zone", "create", Auth \o ZoneCreate)
  BY DEF ZoneCreate, ZoneServiceCreate
<1>2. Fits("zone", "update", Auth \o ZoneUpdate)
  BY DEF ZoneUpdate, ZoneServiceUpdate
<1>3. Fits("zone", "delete", Auth \o ZoneDelete)
  BY DEF ZoneDelete, ZoneAccess, ZoneServiceDelete
<1>4. Fits("zone", "retry", Auth \o ZoneRetry)
  BY DEF ZoneRetry, ZoneAccess, ZoneServiceRetry
<1> HIDE DEF Auth, Fits
<1> QED  BY <1>1, <1>2, <1>3, <1>4 DEF ZoneRoutes

LEMMA ZoneRecordRoutesFit ==
    \A op \in DOMAIN ZoneRecordRoutes : Fits("zone_record", op, Auth \o ZoneRecordRoutes[op])
<1>1. Fits("zone_record", "create", Auth \o ZoneRecordCreate)
  BY DEF ZoneRecordCreate, ZoneRecordServiceCreate
<1>2. Fits("zone_record", "update", Auth \o ZoneRecordUpdate)
  BY DEF ZoneRecordUpdate, ZoneRecordServiceUpdate
<1>3. Fits("zone_record", "delete", Auth \o ZoneRecordDelete)
  BY DEF ZoneRecordDelete, ZoneRecordServiceDelete
<1>4. Fits("zone_record", "retry", Auth \o ZoneRecordRetry)
  BY DEF ZoneRecordRetry, ZoneRecordServiceRetry
<1> HIDE DEF Auth, Fits
<1> QED  BY <1>1, <1>2, <1>3, <1>4 DEF ZoneRecordRoutes

LEMMA DatabaseRoutesFit ==
    \A op \in DOMAIN DatabaseRoutes : Fits("database", op, Auth \o DatabaseRoutes[op])
<1>1. Fits("database", "create", Auth \o DatabaseCreate)
  BY DEF DatabaseCreate, DatabaseServiceCreate
<1>2. Fits("database", "delete", Auth \o DatabaseDelete)
  BY DEF DatabaseDelete, DatabaseServiceDelete
<1>3. Fits("database", "migrate", Auth \o DatabaseMigrate)
  BY DEF DatabaseMigrate, DatabaseServiceMigrate
<1>4. Fits("database", "retry", Auth \o DatabaseRetry)
  BY DEF DatabaseRetry, DatabaseServiceRetry
<1> HIDE DEF Auth, Fits
<1> QED  BY <1>1, <1>2, <1>3, <1>4 DEF DatabaseRoutes

LEMMA DatabaseUserRoutesFit ==
    \A op \in DOMAIN DatabaseUserRoutes : Fits("database_user", op, Auth \o DatabaseUserRoutes[op])
<1>1. Fits("database_user", "create", Auth \o DatabaseUserCreate)
  BY DEF DatabaseUserCreate, DatabaseUserServiceCreate
<1>2. Fits("database_user", "update", Auth \o DatabaseUserUpdate)
  BY DEF DatabaseUserUpdate, DatabaseUserServiceUpdate
<1>3. Fits("database_user", "delete", Auth \o DatabaseUserDelete)
  BY DEF DatabaseUserDelete, DatabaseUserServiceDelete
<1>4. Fits("database_user", "retry", Auth \o DatabaseUserRetry)
  BY DEF DatabaseUserRetry, DatabaseUserServiceRetry
<1> HIDE DEF Auth, Fits
<1> QED  BY <1>1, <1>2, <1>3, <1>4 DEF DatabaseUserRoutes

LEMMA ValkeyInstanceRoutesFit ==
    \A op \in DOMAIN ValkeyInstanceRoutes : Fits("valkey_instance", op, Auth \o ValkeyInstanceRoutes[op])
<1>1. Fits("valkey_instance", "create", Auth \o ValkeyInstanceCreate)
  BY DEF ValkeyInstanceCreate, ValkeyInstanceServiceCreate
<1>2. Fits("valkey_instance", "delete", Auth \o ValkeyInstanceDelete)
  BY DEF ValkeyInstanceDelete, ValkeyInstanceServiceDelete
<1>3. Fits("valkey_instance", "migrate", Auth \o ValkeyInstanceMigrate)
  BY DEF ValkeyInstanceMigrate, ValkeyInstanceServiceMigrate
<1>4. Fits("valkey_instance", "retry", Auth \o ValkeyInstanceRetry)
  BY DEF ValkeyInstanceRetry, ValkeyInstanceServiceRetry
<1> HIDE DEF Auth, Fits
<1> QED  BY <1>1, <1>2, <1>3, <1>4 DEF ValkeyInstanceRoutes

LEMMA ValkeyUserRoutesFit ==
    \A op \in DOMAIN ValkeyUserRoutes : Fits("valkey_user", op, Auth \o ValkeyUserRoutes[op])
<1>1. Fits("valkey_user", "create", Auth \o ValkeyUserCreate)
  BY DEF ValkeyUserCreate, ValkeyUserServiceCreate
<1>2. Fits("valkey_user", "update", Auth \o ValkeyUserUpdate)
  BY DEF ValkeyUserUpdate, ValkeyUserServiceUpdate
<1>3. Fits("valkey_user", "delete", Auth \o ValkeyUserDelete)
  BY DEF ValkeyUserDelete, ValkeyUserServiceDelete
<1>4. Fits("valkey_user", "retry", Auth \o ValkeyUserRetry)
  BY DEF ValkeyUserRetry, ValkeyUserServiceRetry
<1> HIDE DEF Auth, Fits
<1> QED  BY <1>1, <1>2, <1>3, <1>4 DEF ValkeyUserRoutes

LEMMA S3BucketRoutesFit ==
    \A op \in DOMAIN S3BucketRoutes : Fits("s3_bucket", op, Auth \o S3BucketRoutes[op])
<1>1. Fits("s3_bucket", "create", Auth \o S3BucketCreate)
  BY DEF S3BucketCreate, S3BucketServiceCreate
<1>2. Fits("s3_bucket", "update", Auth \o S3BucketUpdate)
  BY DEF S3BucketUpdate, S3BucketServiceUpdate
<1>3. Fits("s3_bucket", "delete", Auth \o S3BucketDelete)
  BY DEF S3BucketDelete, S3BucketServiceDelete
<1>4. Fits("s3_bucket", "retry", Auth \o S3BucketRetry)
  BY DEF S3BucketRetry, S3BucketServiceRetry
<1> HIDE DEF Auth, Fits
<1> QED  BY <1>1, <1>2, <1>3, <1>4 DEF S3BucketRoutes

LEMMA S3AccessKeyRoutesFit ==
    \A op \in DOMAIN S3AccessKeyRoutes : Fits("s3_access_key", op, Auth \o S3AccessKeyRoutes[op])
<1>1. Fits("s3_access_key", "create", Auth \o S3AccessKeyCreate)
  BY DEF S3AccessKeyCreate, S3AccessKeyServiceCreate
<1>2. Fits("s3_access_key", "delete", Auth \o S3AccessKeyDelete)
  BY DEF S3AccessKeyDelete, S3AccessKeyServiceDelete
<1> HIDE DEF Auth, Fits
<1> QED  BY <1>1, <1>2 DEF S3AccessKeyRoutes

LEMMA SSHKeyRoutesFit ==
    \A op \in DOMAIN SSHKeyRoutes : Fits("ssh_key", op, Auth \o SSHKeyRoutes[op])
<1>1. Fits("ssh_key", "create", Auth \o SSHKeyCreate)
  BY DEF SSHKeyCreate, SSHKeyServiceCreate
<1>2. Fits("ssh_key", "delete", Auth \o SSHKeyDelete)
  BY DEF SSHKeyDelete, SSHKeyServiceDelete
<1>3. Fits("ssh_key", "retry", Auth \o SSHKeyRetry)
  BY DEF SSHKeyRetry, SSHKeyServiceRetry
<1> HIDE DEF Auth, Fits
<1> QED  BY <1>1, <1>2, <1>3 DEF SSHKeyRoutes

LEMMA TenantEgressRuleRoutesFit ==
    \A op \in DOMAIN TenantEgressRuleRoutes : Fits("egress_rule", op, Auth \o TenantEgressRuleRoutes[op])
<1>1. Fits("egress_rule", "create", Auth \o TenantEgressRuleCreate)
  BY DEF TenantEgressRuleCreate, TenantEgressRuleServiceCreate
<1>2. Fits("egress_rule", "delete", Auth \o TenantEgressRuleDelete)
  BY DEF TenantEgressRuleDelete, TenantEgressRuleServiceDelete
<1>3. Fits("egress_rule", "retry", Auth \o TenantEgressRuleRetry)
  BY DEF TenantEgressRuleRetry, TenantEgressRuleServiceRetry
<1> HIDE DEF Auth, Fits
<1> QED  BY <1>1, <1>2, <1>3 DEF TenantEgressRuleRoutes

LEMMA EmailAccountRoutesFit ==
    \A op \in DOMAIN EmailAccountRoutes : Fits("email_account", op, Auth \o EmailAccountRoutes[op])
<1>1. Fits("email_account", "create", Auth \o EmailAccountCreate)
  BY DEF EmailAccountCreate, EmailAccountServiceCreate
<1>2. Fits("email_account", "delete", Auth \o EmailAccountDelete)
  BY DEF EmailAccountDelete, EmailAccountServiceDelete
<1>3. Fits("email_account", "retry", Auth \o EmailAccountRetry)
  BY DEF EmailAccountRetry, EmailAccountServiceRetry
<1> HIDE DEF Auth, Fits
<1> QED  BY <1>1, <1>2, <1>3 DEF EmailAccountRoutes

LEMMA EmailAliasRoutesFit ==
    \A op \in DOMAIN EmailAliasRoutes : Fits("email_alias", op, Auth \o EmailAliasRoutes[op])
<1>1. Fits("email_alias", "create", Auth \o EmailAliasCreate)
  BY DEF EmailAliasCreate, EmailAliasServiceCreate
<1>2. Fits("email_alias", "delete", Auth \o EmailAliasDelete)
  BY DEF EmailAliasDelete, EmailAliasServiceDelete
<1>3. Fits("email_alias", "retry", Auth \o EmailAliasRetry)
  BY DEF EmailAliasRetry, EmailAliasServiceRetry
<1> HIDE DEF Auth, Fits
<1> QED  BY <1>1, <1>2, <1>3 DEF EmailAliasRoutes

LEMMA EmailForwardRoutesFit ==
    \A op \in DOMAIN EmailForwardRoutes : Fits("email_forward", op, Auth \o EmailForwardRoutes[op])
<1>1. Fits("email_forward", "create", Auth \o EmailForwardCreate)
  BY DEF EmailForwardCreate, EmailForwardServiceCreate
<1>2. Fits("email_forward", "delete", Auth \o EmailForwardDelete)
  BY DEF EmailForwardDelete, EmailForwardServiceDelete
<1>3. Fits("email_forward", "retry", Auth \o EmailForwardRetry)
  BY DEF EmailForwardRetry, EmailForwardServiceRetry
<1> HIDE DEF Auth, Fits
<1> QED  BY <1>1, <1>2, <1>3 DEF EmailForwardRoutes

LEMMA EmailAutoReplyRoutesFit ==
    \A op \in DOMAIN EmailAutoReplyRoutes : Fits("email_autoreply", op, Auth \o EmailAutoReplyRoutes[op])
<1>1. Fits("email_autoreply", "put", Auth \o EmailAutoReplyPut)
  BY DEF EmailAutoReplyPut, EmailAutoReplyServiceUpsert
<1>2. Fits("email_autoreply", "delete", Auth \o EmailAutoReplyDelete)
  BY DEF EmailAutoReplyDelete, EmailAutoReplyServiceDelete
<1>3. Fits("email_autoreply", "retry", Auth \o EmailAutoReplyRetry)
  BY DEF EmailAutoReplyRetry, EmailAutoReplyServiceRetry
<1> HIDE DEF Auth, Fits
<1> QED  BY <1>1, <1>2, <1>3 DEF EmailAutoReplyRoutes

LEMMA BackupRoutesFit ==
    \A op \in DOMAIN BackupRoutes : Fits("backup", op, Auth \o BackupRoutes[op])
<1>1. Fits("backup", "create", Auth \o BackupCreate)
  BY DEF BackupCreate, BackupServiceCreate
<1>2. Fits("backup", "delete", Auth \o BackupDelete)
  BY DEF BackupDelete, BackupServiceDelete
<1>3. Fits("backup", "restore", Auth \o BackupRestore)
  BY DEF BackupRestore, BackupServiceRestore
<1>4. Fits("backup", "retry", Auth \o BackupRetry)
  BY DEF BackupRetry, BackupServiceRetry
<1> HIDE DEF Auth, Fits
<1> QED  BY <1>1, <1>2, <1>3, <1>4 DEF BackupRoutes

LEMMA WireGuardPeerRoutesFit ==
    \A op \in DOMAIN WireGuardPeerRoutes : Fits("wireguard_peer", op, Auth \o WireGuardPeerRoutes[op])
<1>1. Fits("wireguard_peer", "create", Auth \o WireGuardPeerCreate)
  BY DEF WireGuardPeerCreate, WireGuardPeerServiceCreate
<1>2. Fits("wireguard_peer", "delete", Auth \o WireGuardPeerDelete)
  BY DEF WireGuardPeerDelete, WireGuardPeerServiceDelete
<1>3. Fits("wireguard_peer", "retry", Auth \o WireGuardPeerRetry)
  BY DEF WireGuardPeerRetry, WireGuardPeerServiceRetry
<1> HIDE DEF Auth, Fits
<1> QED  BY <1>1, <1>2, <1>3 DEF WireGuardPeerRoutes

HIDE DEF Auth, Replies, Inserts, Writes, Marks, RowWrites, Links, Removals,
        AfterWrite, AfterRemoval, Unsettling, Steady, Signals, Near, NotAtomic,
        OfParent, Synced, Atomic, Follows, Removing, Fits

\* Fits for the routes of all kinds.
LEMMA EveryRouteFits ==
    \A k \in Kinds : \A op \in DOMAIN Routes[k] : Fits(k, op, Program(k, op))
  BY APIKeyRoutesFit, RegionRoutesFit, ClusterRoutesFit,
     ClusterLBAddressRoutesFit, ShardRoutesFit, NodeRoutesFit, BrandRoutesFit,
     TenantRoutesFit, SubscriptionRoutesFit, WebrootRoutesFit,
     EnvVarRoutesFit, DaemonRoutesFit, CronJobRoutesFit, FQDNRoutesFit,
     CertificateRoutesFit, ZoneRoutesFit, ZoneRecordRoutesFit,
     DatabaseRoutesFit, DatabaseUserRoutesFit, ValkeyInstanceRoutesFit,
     ValkeyUserRoutesFit, S3BucketRoutesFit, S3AccessKeyRoutesFit,
     SSHKeyRoutesFit, TenantEgressRuleRoutesFit, EmailAccountRoutesFit,
     EmailAliasRoutesFit, EmailForwardRoutesFit, EmailAutoReplyRoutesFit,
     BackupRoutesFit, WireGuardPeerRoutesFit
  DEF Kinds, Program, Routes

\* No handler of a cluster queues work.
LEMMA ClusterUntasked == "cluster" \notin Tasked
  BY DEF Tasked, Kinds, Routes, ClusterRoutes, ClusterCreate, ClusterUpdate,
         ClusterDelete, ClusterAddRuntime, ClusterRemoveRuntime,
         ClusterServiceAddRuntime, ClusterServiceCreate, ClusterServiceDelete,
         ClusterServiceRemoveRuntime, ClusterServiceUpdate

-----------------------------------------------------------------------------
(* The state.                                                              *)

Statuses == Marks \cup {"none", "failed"}
OpNames == UNION {DOMAIN Routes[k] : k \in Kinds}
Rows == [id : Nat, status : Statuses]
Tasks == [op : OpNames \cup {"none"}, id : Nat]
Queued == [op : OpNames \ {"none"}, id : Nat]
Parents == {"active", "pending", "gone"}
Reqs == [op : OpNames \cup {"none"}, pc : Nat, id : Nat, status : Statuses,
         parent : Parents \cup {"none"}, mark : {"none", "wrote", "removed"}, answer : Nat]

Typed ==
    /\ kind \in Kinds /\ row \in Rows /\ parent \in Parents
    /\ req \in [Requests -> Reqs]
    /\ tasks \in Seq(Queued) /\ running \in Tasks
    /\ nextId \in Nat /\ faults \in 0 .. MaxFaults
    /\ troubled \in BOOLEAN /\ doomed \subseteq Nat /\ spared \subseteq Nat
    /\ stuck \subseteq Nat

Prog(r) == Program(kind, req[r].op)

\* IDs are never used twice, nothing hangs on a parent that is gone, a request
\* is at a step of its handler, and an egress rule has a status.
Sound ==
    /\ row.id = 0 <=> row = NoRow
    /\ row.id < nextId
    /\ parent = "gone" => row.id = 0
    /\ \A r \in Requests :
          /\ req[r].id < nextId
          /\ req[r].op # "none" => /\ req[r].op \in DOMAIN Routes[kind]
                                   /\ req[r].pc \in 1 .. Len(Prog(r))
    /\ \A x \in doomed : x < nextId
    /\ kind \in Synced /\ row.id # 0 => row.status # "none"

USE DEF history

-----------------------------------------------------------------------------
(* What a step of a request comes to.                                      *)

Gone(x) == row.id = 0 \/ row.id # x

\* All that the other requests have in common with this step.
Others(r) ==
    /\ kind' = kind /\ parent' = parent /\ running' = running
    /\ spared' = spared /\ stuck' = stuck
    /\ req' \in [Requests -> Reqs]
    /\ \A s \in Requests : s # r => req'[s] = req[s]

Still == UNCHANGED <<row, nextId>>
Calm == UNCHANGED <<tasks, faults, troubled, doomed>>

Arrives(r) ==
    /\ req[r].op = "none"
    /\ req'[r].op \in DOMAIN Routes[kind] /\ req'[r].pc = 1 /\ req'[r].answer = 0
    /\ req'[r].mark = "none" /\ req'[r].id \in {0, row.id}
    /\ Still /\ Calm

\* The handler goes on with its next step, or answers.
Goes(r, id, mark) ==
    /\ Active(r) /\ Step(r) \notin Replies
    /\ req'[r].op = req[r].op /\ req'[r].pc = req[r].pc + 1 /\ req'[r].answer = 0
    /\ req'[r].id = id /\ req'[r].mark = mark

Ends(r) ==
    /\ Active(r)
    /\ req'[r].op = req[r].op /\ req'[r].pc = req[r].pc
    /\ req'[r].id = req[r].id /\ req'[r].mark = req[r].mark

\* A check has passed; find takes up the row it finds.
Passes(r) ==
    /\ Step(r) \notin RowWrites \cup Removals \cup Signals \cup Links
    /\ \/ Goes(r, req[r].id, req[r].mark)
       \/ Step(r) = "find" /\ row.id # 0 /\ Goes(r, row.id, req[r].mark)
    /\ Still /\ Calm

LinkWritten(r) ==
    Step(r) \in Links /\ Goes(r, req[r].id, "wrote") /\ Still /\ Calm

\* The steps that may follow a write refuse only what is gone.
Rejects(r) ==
    /\ Ends(r) /\ Step(r) \notin Replies \cup Signals
    /\ Step(r) \in {"get", "reload", "resolve", "find"} => Gone(req[r].id)
    /\ Step(r) = "read" => parent = "gone"
    /\ Step(r) = "nested" => req'[r].answer = 500
    /\ Still /\ Calm

RowWritten(r) ==
    /\ Step(r) \in RowWrites
    /\ row.id # 0 /\ row' \in Rows /\ row'.id = row.id /\ nextId' = nextId
    /\ Goes(r, row.id, "wrote")
    /\ \/ row'.status = row.status
       \/ row'.status \in Settled
       \/ Step(r) \in Unsettling
       \/ Step(r) = "writeAll" /\ (WillSignal(r) \/ troubled')
    /\ Step(r) # "writeAll" /\ row.status # "none" => row'.status # "none"
    /\ troubled' \in BOOLEAN /\ (troubled => troubled')
    /\ UNCHANGED <<tasks, faults, doomed>>

RowInserted(r) ==
    /\ Step(r) \in Inserts
    /\ row.id = 0 /\ row' \in Rows /\ row'.id = nextId /\ nextId' = nextId + 1
    /\ parent # "gone"
    /\ Goes(r, nextId, "wrote")
    /\ row'.status = "active" \/ Step(r) \in Unsettling
    /\ row'.status # "none"
    /\ Calm

RowMissed(r) ==
    /\ Step(r) \in RowWrites \cup Removals
    /\ Gone(req[r].id) /\ Goes(r, req[r].id, req[r].mark)
    /\ Still /\ Calm

RowRemoved(r) ==
    /\ Step(r) \in Removals
    /\ row' = NoRow /\ nextId' = nextId
    /\ Goes(r, req[r].id, "removed")
    /\ Calm

TaskQueued(r) ==
    /\ Step(r) \in Signals
    /\ Goes(r, req[r].id, req[r].mark)
    /\ tasks' = Append(tasks, [op |-> req[r].op, id |-> req[r].id])
    /\ Still /\ UNCHANGED <<faults, troubled, doomed>>

SignalLost(r) ==
    /\ Step(r) \in Signals
    /\ Goes(r, req[r].id, req[r].mark) \/ (Ends(r) /\ req'[r].answer = 500)
    /\ faults < MaxFaults /\ faults' = faults + 1
    /\ troubled' = TRUE
    /\ Still /\ UNCHANGED <<tasks, doomed>>

Replied(r) ==
    /\ Step(r) \in Replies
    /\ Ends(r) /\ req'[r].answer \in 200 .. 204
    /\ doomed' = IF req[r].op = "delete" THEN doomed \cup {req[r].id} ELSE doomed
    /\ Still /\ UNCHANGED <<tasks, faults, troubled>>

Served(r) ==
    /\ Others(r)
    /\ \/ Arrives(r) \/ Passes(r) \/ LinkWritten(r) \/ Rejects(r)
       \/ RowWritten(r) \/ RowInserted(r) \/ RowMissed(r) \/ RowRemoved(r)
       \/ TaskQueued(r) \/ SignalLost(r) \/ Replied(r)

LEMMA AdvanceIs ==
    ASSUME Typed, NEW r \in Requests, NEW q \in Reqs, Advance(r, q)
    PROVE  /\ req' \in [Requests -> Reqs]
           /\ \A s \in Requests : s # r => req'[s] = req[s]
           /\ req'[r].op = q.op /\ req'[r].pc = q.pc + 1 /\ req'[r].answer = q.answer
           /\ req'[r].id = q.id /\ req'[r].mark = q.mark
<1>1. /\ q.pc + 1 \in Nat
      /\ req' = [req EXCEPT ![r] = [q EXCEPT !.pc = q.pc + 1]]
  BY DEF Advance, Reqs
<1>2. [q EXCEPT !.pc = q.pc + 1] \in Reqs
  BY <1>1 DEF Reqs
<1>3. req'[r] = [q EXCEPT !.pc = q.pc + 1]
  BY <1>1 DEF Typed
<1>4. req' \in [Requests -> Reqs] /\ \A s \in Requests : s # r => req'[s] = req[s]
  BY <1>1, <1>2 DEF Typed
<1> QED  BY <1>3, <1>4 DEF Reqs

LEMMA AnswerIs ==
    ASSUME Typed, NEW r \in Requests, NEW code \in Nat, Answer(r, code)
    PROVE  /\ req' \in [Requests -> Reqs]
           /\ \A s \in Requests : s # r => req'[s] = req[s]
           /\ req'[r].op = req[r].op /\ req'[r].pc = req[r].pc
           /\ req'[r].id = req[r].id /\ req'[r].mark = req[r].mark
           /\ req'[r].answer = code
  BY DEF Typed, Answer, Reqs

\* The handler goes on and only its record changes; it answers.
LEMMA GoesOn ==
    ASSUME Typed, NEW r \in Requests, Active(r), Step(r) \notin Replies,
           NEW q \in Reqs, Advance(r, q), q.op = req[r].op, q.pc = req[r].pc,
           q.answer = req[r].answer
    PROVE  /\ req' \in [Requests -> Reqs]
           /\ \A s \in Requests : s # r => req'[s] = req[s]
           /\ Goes(r, q.id, q.mark)
  BY AdvanceIs DEF Goes, Active

LEMMA Stops ==
    ASSUME Typed, NEW r \in Requests, Active(r), NEW code \in Nat, Answer(r, code)
    PROVE  /\ req' \in [Requests -> Reqs]
           /\ \A s \in Requests : s # r => req'[s] = req[s]
           /\ Ends(r) /\ req'[r].answer = code
  BY AnswerIs DEF Ends

\* The copies a handler keeps are records of the right type.
LEMMA CopyTyped ==
    ASSUME Typed, NEW r \in Requests
    PROVE  /\ req[r] \in Reqs
           /\ \A m \in {"wrote", "removed"} : [req[r] EXCEPT !.mark = m] \in Reqs
           /\ \A p \in Parents : [req[r] EXCEPT !.parent = p] \in Reqs
           /\ \A i \in Nat : [req[r] EXCEPT !.id = i, !.mark = "wrote"] \in Reqs
           /\ \A i \in Nat, st \in Statuses : [req[r] EXCEPT !.id = i, !.status = st] \in Reqs
  BY DEF Typed, Reqs

\* A request that has written holds the ID of the row it has written.
LEMMA WroteCopy ==
    ASSUME Typed, NEW r \in Requests, NEW i \in Nat
    PROVE  /\ [req[r] EXCEPT !.id = i, !.mark = "wrote"].op = req[r].op
           /\ [req[r] EXCEPT !.id = i, !.mark = "wrote"].pc = req[r].pc
           /\ [req[r] EXCEPT !.id = i, !.mark = "wrote"].answer = req[r].answer
           /\ [req[r] EXCEPT !.id = i, !.mark = "wrote"].id = i
           /\ [req[r] EXCEPT !.id = i, !.mark = "wrote"].mark = "wrote"
  BY DEF Typed, Reqs

LEMMA MarkCopy ==
    ASSUME Typed, NEW r \in Requests, NEW m \in {"wrote", "removed"}
    PROVE  /\ [req[r] EXCEPT !.mark = m].op = req[r].op
           /\ [req[r] EXCEPT !.mark = m].pc = req[r].pc
           /\ [req[r] EXCEPT !.mark = m].answer = req[r].answer
           /\ [req[r] EXCEPT !.mark = m].id = req[r].id
           /\ [req[r] EXCEPT !.mark = m].mark = m
  BY DEF Typed, Reqs

LEMMA WroteGoes ==
    ASSUME Typed, NEW r \in Requests, Active(r), Step(r) \notin Replies, NEW i \in Nat,
           Advance(r, [req[r] EXCEPT !.id = i, !.mark = "wrote"]),
           UNCHANGED <<kind, parent, running, spared, stuck>>
    PROVE  Goes(r, i, "wrote") /\ Others(r)
<1> DEFINE q == [req[r] EXCEPT !.id = i, !.mark = "wrote"]
<1>1. /\ q \in Reqs /\ q.op = req[r].op /\ q.pc = req[r].pc
      /\ q.answer = req[r].answer /\ q.id = i /\ q.mark = "wrote"
  BY CopyTyped, WroteCopy
<1>2. Advance(r, q)
  OBVIOUS
<1> HIDE DEF q
<1> QED  BY <1>1, <1>2, GoesOn DEF Others

LEMMA MarkGoes ==
    ASSUME Typed, NEW r \in Requests, Active(r), Step(r) \notin Replies,
           NEW m \in {"wrote", "removed"}, Advance(r, [req[r] EXCEPT !.mark = m]),
           UNCHANGED <<kind, parent, running, spared, stuck>>
    PROVE  Goes(r, req[r].id, m) /\ Others(r)
<1> DEFINE q == [req[r] EXCEPT !.mark = m]
<1>1. /\ q \in Reqs /\ q.op = req[r].op /\ q.pc = req[r].pc
      /\ q.answer = req[r].answer /\ q.id = req[r].id /\ q.mark = m
  BY CopyTyped, MarkCopy
<1>2. Advance(r, q)
  OBVIOUS
<1> HIDE DEF q
<1> QED  BY <1>1, <1>2, GoesOn DEF Others

LEMMA ArriveServed == ASSUME Typed, NEW r \in Requests, Arrive(r) PROVE Served(r)
<1>1. PICK op \in DOMAIN Routes[kind] :
        req' = [req EXCEPT ![r] = [Idle EXCEPT !.op = op, !.pc = 1,
                   !.id = IF op \in {"create", "set", "put"} THEN 0 ELSE row.id]]
  BY DEF Arrive
<1>2. op \in OpNames
  BY DEF OpNames, Typed
<1>3. row.id \in Nat
  BY DEF Typed, Rows
<1>4. req'[r] = [Idle EXCEPT !.op = op, !.pc = 1,
                    !.id = IF op \in {"create", "set", "put"} THEN 0 ELSE row.id]
  BY <1>1 DEF Typed
<1>5. req'[r] \in Reqs
  <2>1. PICK i \in Nat : req'[r] = [Idle EXCEPT !.op = op, !.pc = 1, !.id = i]
    BY <1>3, <1>4
  <2>2. req'[r] = [op |-> op, pc |-> 1, id |-> i, status |-> "none", parent |-> "none",
                   mark |-> "none", answer |-> 0]
    BY <2>1 DEF Idle
  <2>3. "none" \in Statuses /\ 0 \in Nat /\ 1 \in Nat
    BY DEF Statuses
  <2> QED  BY <1>2, <2>2, <2>3 DEF Reqs
<1>6. Others(r)
  BY <1>1, <1>4, <1>5 DEF Others, Typed, Arrive, UnchangedByChecks
<1>7. Arrives(r)
  BY <1>4 DEF Arrives, Arrive, Idle, UnchangedByChecks, Still, Calm
<1> QED  BY <1>6, <1>7 DEF Served

\* The steps that do more than check or load.
Acting == RowWrites \cup Removals \cup Signals \cup Links \cup Replies

LEMMA PassServed ==
    ASSUME Typed, NEW r \in Requests, Active(r), Step(r) \notin Acting, UnchangedByChecks,
           NEW q \in Reqs, Advance(r, q), q.op = req[r].op, q.pc = req[r].pc,
           q.answer = req[r].answer, q.mark = req[r].mark,
           q.id = req[r].id \/ (Step(r) = "find" /\ row.id # 0 /\ q.id = row.id)
    PROVE  Served(r)
<1>1. Passes(r) /\ Others(r)
  BY GoesOn DEF Acting, Passes, Others, UnchangedByChecks, Still, Calm
<1> QED  BY <1>1 DEF Served

LEMMA SamePassServed ==
    ASSUME Typed, NEW r \in Requests, Active(r), Step(r) \notin Acting, UnchangedByChecks,
           Advance(r, req[r])
    PROVE  Served(r)
  BY PassServed, CopyTyped

LEMMA RejectServed ==
    ASSUME Typed, NEW r \in Requests, Active(r), Step(r) \notin Replies \cup Signals,
           Still, Calm, UNCHANGED <<kind, parent, running, spared, stuck>>,
           NEW code \in Nat, Answer(r, code),
           Step(r) \in {"get", "reload", "resolve", "find"} => Gone(req[r].id),
           Step(r) = "read" => parent = "gone",
           Step(r) = "nested" => code = 500
    PROVE  Served(r)
<1>1. Rejects(r) /\ Others(r)
  BY Stops DEF Rejects, Others
<1> QED  BY <1>1 DEF Served

LEMMA ChecksKeep ==
    ASSUME UnchangedByChecks
    PROVE  Still /\ Calm /\ UNCHANGED <<kind, parent, running, spared, stuck>>
  BY DEF UnchangedByChecks, Still, Calm

LEMMA CheckServed == ASSUME Typed, NEW r \in Requests, Check(r) PROVE Served(r)
<1>1. CASE Step(r) # "link" /\ Advance(r, req[r])
  <2>1. Step(r) \notin Acting
    BY <1>1 DEF Check, Refusals, Acting, Replies, RowWrites, Inserts, Writes, Marks,
                Removals, Signals, Links
  <2> QED  BY <1>1, <2>1, SamePassServed DEF Check
<1>2. CASE Step(r) = "link" /\ Advance(r, [req[r] EXCEPT !.mark = "wrote"])
  <2>1. Goes(r, req[r].id, "wrote") /\ Others(r)
    BY <1>2, MarkGoes, ChecksKeep DEF Check, Replies
  <2>2. LinkWritten(r)
    BY <1>2, <2>1, ChecksKeep DEF Check, LinkWritten, Links
  <2> QED  BY <2>1, <2>2 DEF Served
<1>3. ASSUME NEW code \in Refusals[Step(r)], Answer(r, code) PROVE Served(r)
  <2>1. code \in Nat /\ (Step(r) = "nested" => code = 500)
    BY <1>3 DEF Refusals, Check
  <2>2. Step(r) \notin Replies \cup Signals \cup {"get", "reload", "resolve", "find", "read"}
    BY DEF Check, Refusals, Replies, Signals
  <2> QED  BY <1>3, <2>1, <2>2, RejectServed, ChecksKeep DEF Check
<1> QED  BY <1>1, <1>2, <1>3 DEF Check

LEMMA LoadServed == ASSUME Typed, Sound, NEW r \in Requests, Load(r) PROVE Served(r)
<1>1. Step(r) \notin Acting \cup {"read", "nested"} /\ Active(r)
  BY DEF Load, Acting, Replies, RowWrites, Inserts, Writes, Marks, Removals, Signals, Links
<1>2. CASE Mine(r) \/ (Step(r) = "find" /\ row # NoRow)
  <2> DEFINE q == [req[r] EXCEPT !.id = row.id, !.status = row.status]
  <2>1. q \in Reqs
    BY CopyTyped DEF Typed, Rows
  <2>2. /\ q.id = row.id /\ q.op = req[r].op /\ q.pc = req[r].pc
        /\ q.answer = req[r].answer /\ q.mark = req[r].mark
    BY DEF Typed, Reqs
  <2>3. Advance(r, q)
    BY <1>2 DEF Load
  <2>4. q.id = req[r].id \/ (Step(r) = "find" /\ row.id # 0 /\ q.id = row.id)
    BY <1>2, <2>2 DEF Mine, Sound
  <2> HIDE DEF q
  <2> QED  BY <1>1, <2>1, <2>2, <2>3, <2>4, PassServed DEF Load
<1>3. CASE ~(Mine(r) \/ (Step(r) = "find" /\ row # NoRow))
  <2>1. Answer(r, 404) /\ Gone(req[r].id)
    BY <1>3 DEF Load, WriteServiceError, Mine, Gone
  <2> QED  BY <1>1, <2>1, RejectServed, ChecksKeep DEF Load, Acting
<1> QED  BY <1>2, <1>3

LEMMA TenantBrandServed ==
    ASSUME Typed, NEW r \in Requests, checkTenantBrand(r)
    PROVE  Served(r)
<1>1. Step(r) \notin Acting \cup {"get", "reload", "resolve", "find", "read", "nested"}
  BY DEF checkTenantBrand, Acting, Replies, RowWrites, Inserts, Writes, Marks,
         Removals, Signals, Links
<1>2. CASE Advance(r, req[r])
  BY <1>1, <1>2, SamePassServed DEF checkTenantBrand
<1>3. ASSUME NEW code \in {403, 404}, Answer(r, code) PROVE Served(r)
  BY <1>1, <1>3, RejectServed, ChecksKeep DEF checkTenantBrand, Acting
<1> QED  BY <1>2, <1>3 DEF checkTenantBrand

LEMMA CheckParentServed ==
    ASSUME Typed, NEW r \in Requests, CheckParent(r)
    PROVE  Served(r)
<1>1. Step(r) \notin Acting \cup {"get", "reload", "resolve", "find", "nested"}
  BY DEF CheckParent, Acting, Replies, RowWrites, Inserts, Writes, Marks,
         Removals, Signals, Links
<1>2. CASE Advance(r, [req[r] EXCEPT !.parent = parent])
  <2> DEFINE q == [req[r] EXCEPT !.parent = parent]
  <2>1. q \in Reqs
    BY CopyTyped DEF Typed
  <2>2. /\ q.id = req[r].id /\ q.op = req[r].op /\ q.pc = req[r].pc
        /\ q.answer = req[r].answer /\ q.mark = req[r].mark
    BY DEF Typed, Reqs
  <2>3. Advance(r, q)
    BY <1>2
  <2> HIDE DEF q
  <2> QED  BY <1>1, <2>1, <2>2, <2>3, PassServed DEF CheckParent
<1>3. CASE Advance(r, req[r])
  BY <1>1, <1>3, SamePassServed DEF CheckParent
<1>4. ASSUME NEW code \in {404, 400, 500}, Answer(r, code), Step(r) = "read" => parent = "gone"
      PROVE  Served(r)
  BY <1>1, <1>4, RejectServed, ChecksKeep DEF CheckParent, Acting
<1>5. CASE Step(r) \in {"parent", "read", "lookup", "parentInput"} /\ parent = "gone"
  <2>1. PICK code \in {404, 400, 500} : Answer(r, code)
    BY <1>5 DEF CheckParent
  <2> QED  BY <1>4, <1>5, <2>1
<1>6. CASE Step(r) = "parentActive" /\ Answer(r, 400)
  BY <1>4, <1>6
<1> QED  BY <1>2, <1>3, <1>5, <1>6 DEF CheckParent

LEMMA InsertServed == ASSUME Typed, Sound, NEW r \in Requests, Insert(r) PROVE Served(r)
<1>1. /\ Active(r) /\ Step(r) \in Inserts
      /\ Step(r) \notin Replies \cup Signals
      /\ Step(r) \notin {"get", "reload", "resolve", "find", "read", "nested"}
  BY DEF Insert, Inserts, Replies, Signals
<1>2. UNCHANGED <<kind, parent, running, spared, stuck>> /\ Calm
  BY DEF Insert, Calm
<1>3. ASSUME NEW code \in {400, 409}, Answer(r, code), UNCHANGED <<row, nextId>>
      PROVE  Served(r)
  BY <1>1, <1>2, <1>3, RejectServed DEF Still
<1>4. CASE parent = "gone" \/ (parent # "gone" /\ row # NoRow /\ Step(r) # "upsert")
  BY <1>3, <1>4 DEF Insert, WriteServiceError
<1>5. CASE parent # "gone" /\ row # NoRow /\ Step(r) = "upsert"
  <2>1. /\ row' = [row EXCEPT !.status = "pending"]
        /\ Advance(r, [req[r] EXCEPT !.id = row.id, !.mark = "wrote"])
        /\ nextId' = nextId
    BY <1>5 DEF Insert
  <2>2. /\ row' \in Rows /\ row'.id = row.id /\ row.id # 0 /\ row.id \in Nat
        /\ row'.status = "pending"
    BY <1>5, <2>1 DEF Typed, Sound, Rows, Statuses, Marks
  <2>3. Goes(r, row.id, "wrote") /\ Others(r)
    BY <1>1, <1>2, <2>1, <2>2, WroteGoes
  <2>4. RowWritten(r)
    BY <1>1, <1>2, <1>5, <2>1, <2>2, <2>3
    DEF RowWritten, Calm, RowWrites, Unsettling, Typed
  <2> QED  BY <2>3, <2>4 DEF Served
<1>6. CASE parent # "gone" /\ row = NoRow
  <2>1. /\ row' = [id |-> nextId,
                   status |-> IF Step(r) = "insertActive" THEN "active" ELSE "pending"]
        /\ nextId' = nextId + 1
        /\ Advance(r, [req[r] EXCEPT !.id = nextId, !.mark = "wrote"])
    BY <1>6 DEF Insert
  <2>2. row' \in Rows /\ row'.id = nextId /\ row.id = 0 /\ row'.status # "none"
    BY <1>6, <2>1 DEF Typed, Sound, Rows, Statuses, Marks
  <2>3. row'.status = "active" \/ Step(r) \in Unsettling
    BY <1>1, <2>1 DEF Inserts, Unsettling
  <2>4. Goes(r, nextId, "wrote") /\ Others(r)
    BY <1>1, <1>2, <2>1, WroteGoes DEF Typed
  <2>5. RowInserted(r)
    BY <1>1, <1>2, <1>6, <2>1, <2>2, <2>3, <2>4 DEF RowInserted
  <2> QED  BY <2>4, <2>5 DEF Served
<1> QED  BY <1>4, <1>5, <1>6

\* The statements that find no row.
LEMMA MissServed ==
    ASSUME Typed, NEW r \in Requests, Active(r), Step(r) \in RowWrites \cup Removals,
           Gone(req[r].id), Still, Calm, UNCHANGED <<kind, parent, running, spared, stuck>>,
           Advance(r, req[r])
    PROVE  Served(r)
<1>1. Step(r) \notin Replies
  BY DEF RowWrites, Removals, Replies, Inserts, Writes, Marks
<1>2. RowMissed(r) /\ Others(r)
  BY <1>1, GoesOn, CopyTyped DEF RowMissed, Others
<1> QED  BY <1>2 DEF Served

LEMMA UpdateServed == ASSUME Typed, Sound, NEW r \in Requests, Update(r) PROVE Served(r)
<1>1. /\ Active(r) /\ Step(r) \in Writes /\ Step(r) \in RowWrites
      /\ Step(r) \notin Replies \cup Signals
      /\ Step(r) \notin {"get", "reload", "resolve", "find", "read", "nested"}
  BY DEF Update, RowWrites, Writes, Replies, Signals
<1>2. UNCHANGED <<kind, parent, running, spared, stuck, tasks, nextId, faults, doomed>>
  BY DEF Update
<1>3. CASE ~Mine(r) /\ Step(r) = "write!"
  <2>1. Answer(r, 404) /\ UNCHANGED <<row, troubled>>
    BY <1>3 DEF Update
  <2> QED  BY <1>1, <1>2, <2>1, RejectServed DEF Still, Calm
<1>4. CASE ~Mine(r) /\ Step(r) # "write!"
  <2>1. Advance(r, req[r]) /\ row' = row /\ troubled' = troubled
    BY <1>4 DEF Update, Typed
  <2>2. Gone(req[r].id)
    BY <1>4 DEF Mine, Gone
  <2> QED  BY <1>1, <1>2, <2>1, <2>2, MissServed DEF Still, Calm
<1>5. CASE Mine(r)
  <2> DEFINE st == IF Step(r) = "writeAll" THEN req[r].status ELSE row.status
  <2>1. /\ row' = [row EXCEPT !.status = st]
        /\ troubled' = (troubled \/ (Mine(r) /\ st # row.status /\ ~WillSignal(r)))
        /\ Advance(r, [req[r] EXCEPT !.mark = "wrote"])
    BY <1>5 DEF Update
  <2>2. st \in Statuses
    BY DEF Typed, Rows, Reqs
  <2>3. /\ row' \in Rows /\ row'.id = row.id /\ row'.status = st
        /\ row.id # 0 /\ row.id = req[r].id
    BY <1>5, <2>1, <2>2 DEF Typed, Rows, Mine
  <2>4. Goes(r, row.id, "wrote") /\ Others(r)
    BY <1>1, <1>2, <2>1, <2>3, MarkGoes
  <2>5. troubled' \in BOOLEAN /\ (troubled => troubled')
    BY <2>1
  <2>6. \/ row'.status = row.status
        \/ Step(r) = "writeAll" /\ (WillSignal(r) \/ troubled')
    BY <1>5, <2>1, <2>3
  <2>7. RowWritten(r)
    BY <1>1, <1>2, <2>3, <2>4, <2>5, <2>6 DEF RowWritten
  <2> QED  BY <2>4, <2>7 DEF Served
<1> QED  BY <1>3, <1>4, <1>5

LEMMA SetStatusServed ==
    ASSUME Typed, Sound, NEW r \in Requests, SetStatus(r)
    PROVE  Served(r)
<1>1. /\ Active(r) /\ Step(r) \in Marks \cup {"deleting!"} /\ Step(r) \in RowWrites
      /\ Step(r) \notin Replies \cup Signals
      /\ Step(r) \notin {"get", "reload", "resolve", "find", "read", "nested"}
  BY DEF SetStatus, RowWrites, Marks, Replies, Signals
<1>2. UNCHANGED <<kind, parent, running, spared, stuck, nextId>> /\ Calm
  BY DEF SetStatus, Calm
<1>3. CASE ~Mine(r) /\ Step(r) = "deleting!"
  <2>1. Answer(r, 404) /\ row' = row
    BY <1>3 DEF SetStatus, Marks, WriteServiceError
  <2> QED  BY <1>1, <1>2, <2>1, RejectServed DEF Still
<1>4. CASE ~Mine(r) /\ Step(r) # "deleting!"
  <2>1. Advance(r, req[r]) /\ row' = row
    BY <1>4 DEF SetStatus
  <2>2. Gone(req[r].id)
    BY <1>4 DEF Mine, Gone
  <2> QED  BY <1>1, <1>2, <2>1, <2>2, MissServed DEF Still
<1>5. CASE Mine(r)
  <2>1. PICK st \in Marks :
          /\ st = IF Step(r) = "deleting!" THEN "deleting" ELSE Step(r)
          /\ row' = [row EXCEPT !.status = st]
    BY <1>5 DEF SetStatus, Marks
  <2>2. Advance(r, [req[r] EXCEPT !.mark = "wrote"])
    BY <1>5 DEF SetStatus
  <2>3. /\ row' \in Rows /\ row'.id = row.id /\ row'.status = st
        /\ row.id # 0 /\ row.id = req[r].id
    BY <1>5, <2>1 DEF Typed, Rows, Mine, Statuses
  <2>4. Goes(r, row.id, "wrote") /\ Others(r)
    BY <1>1, <1>2, <2>2, <2>3, MarkGoes
  <2>5. /\ row'.status \in Settled \/ Step(r) \in Unsettling
        /\ row'.status # "none"
    BY <1>1, <2>1, <2>3 DEF Settled, Unsettling, Marks
  <2>6. RowWritten(r)
    BY <1>1, <1>2, <2>3, <2>4, <2>5 DEF RowWritten, Calm, Typed
  <2> QED  BY <2>4, <2>6 DEF Served
<1> QED  BY <1>3, <1>4, <1>5

LEMMA GuardServed == ASSUME Typed, NEW r \in Requests, Guard(r) PROVE Served(r)
<1>1. Step(r) \notin Acting \cup {"get", "reload", "resolve", "find", "read", "nested"}
  BY DEF Guard, Guards, Acting, Replies, RowWrites, Inserts, Writes, Marks,
         Removals, Signals, Links
<1>2. CASE Advance(r, req[r])
  BY <1>1, <1>2, SamePassServed DEF Guard
<1>3. ASSUME NEW code \in {404, 500, 202}, Answer(r, code) PROVE Served(r)
  BY <1>1, <1>3, RejectServed, ChecksKeep DEF Guard, Acting
<1> QED  BY <1>2, <1>3 DEF Guard, WriteServiceError

LEMMA CountServed == ASSUME Typed, NEW r \in Requests, Count(r) PROVE Served(r)
<1>1. Step(r) \notin Acting \cup {"get", "reload", "resolve", "find", "read", "nested"}
  BY DEF Count, Acting, Replies, RowWrites, Inserts, Writes, Marks, Removals,
         Signals, Links
<1>2. CASE Advance(r, req[r])
  BY <1>1, <1>2, SamePassServed DEF Count
<1>3. ASSUME NEW code \in {404, 200}, Answer(r, code) PROVE Served(r)
  BY <1>1, <1>3, RejectServed, ChecksKeep DEF Count, Acting
<1> QED  BY <1>2, <1>3 DEF Count, WriteServiceError

LEMMA DeleteServed == ASSUME Typed, Sound, NEW r \in Requests, Delete(r) PROVE Served(r)
<1>1. /\ Active(r) /\ Step(r) \in Removals \cup {"unlink"}
      /\ Step(r) \notin Replies \cup Signals
      /\ Step(r) \notin {"get", "reload", "resolve", "find", "read", "nested"}
  BY DEF Delete, Removals, Replies, Signals
<1>2. UNCHANGED <<kind, parent, running, spared, stuck, nextId>> /\ Calm
  BY DEF Delete, Calm
<1> DEFINE mine == IF Step(r) \in {"clear", "clear!"} THEN row # NoRow ELSE Mine(r)
<1>3. CASE Step(r) = "unlink"
  <2>1. Advance(r, [req[r] EXCEPT !.mark = "wrote"]) /\ row' = row
    BY <1>3 DEF Delete
  <2>2. Goes(r, req[r].id, "wrote") /\ Others(r)
    BY <1>1, <1>2, <2>1, MarkGoes
  <2>3. LinkWritten(r)
    BY <1>2, <1>3, <2>1, <2>2 DEF LinkWritten, Links, Still
  <2> QED  BY <2>2, <2>3 DEF Served
<1>4. ASSUME Step(r) # "unlink", row' = NoRow, Advance(r, [req[r] EXCEPT !.mark = "removed"])
      PROVE  Served(r)
  <2>1. Goes(r, req[r].id, "removed") /\ Others(r)
    BY <1>1, <1>2, <1>4, MarkGoes
  <2>2. RowRemoved(r)
    BY <1>1, <1>2, <1>4, <2>1 DEF RowRemoved
  <2> QED  BY <2>1, <2>2 DEF Served
<1>5. ASSUME NEW code \in {400, 500}, Answer(r, code), row' = row PROVE Served(r)
  BY <1>1, <1>2, <1>5, RejectServed DEF Still
<1>6. CASE Step(r) \in {"delete", "clear"} /\ ~mine
  <2>1. Advance(r, req[r]) /\ row' = row
    BY <1>6 DEF Delete
  <2>2. Gone(req[r].id)
    BY <1>6 DEF Mine, Gone, Sound
  <2> QED  BY <1>1, <1>2, <1>6, <2>1, <2>2, MissServed DEF Still, Removals
<1>7. CASE Step(r) # "unlink" /\ mine
  BY <1>4, <1>5, <1>7 DEF Delete, WriteServiceError
<1>8. CASE Step(r) \in {"delete!", "clear!"} /\ ~mine
  <2>1. Answer(r, 500) /\ row' = row
    BY <1>8 DEF Delete, WriteServiceError
  <2> QED  BY <1>5, <2>1
<1> QED  BY <1>1, <1>3, <1>6, <1>7, <1>8 DEF Removals

LEMMA SignalServed == ASSUME Typed, NEW r \in Requests, signalProvision(r) PROVE Served(r)
<1>1. /\ Active(r) /\ Step(r) \in Signals /\ Step(r) \notin Replies
      /\ UNCHANGED <<kind, row, parent, running, nextId, doomed, spared, stuck>>
  BY DEF signalProvision, Signals, Replies
<1>2. CASE /\ tasks' = Append(tasks, [op |-> req[r].op, id |-> req[r].id])
           /\ Advance(r, req[r]) /\ UNCHANGED <<faults, troubled>>
  <2>1. Goes(r, req[r].id, req[r].mark) /\ Others(r)
    BY <1>1, <1>2, GoesOn, CopyTyped DEF Others
  <2>2. TaskQueued(r)
    BY <1>1, <1>2, <2>1 DEF TaskQueued, Still
  <2> QED  BY <2>1, <2>2 DEF Served
<1>3. CASE /\ faults < MaxFaults /\ faults' = faults + 1 /\ troubled' = TRUE
           /\ Answer(r, 500) \/ Advance(r, req[r])
           /\ tasks' = tasks
  <2>1. Others(r) /\ (Goes(r, req[r].id, req[r].mark) \/ (Ends(r) /\ req'[r].answer = 500))
    <3>1. CASE Advance(r, req[r])
      BY <1>1, <3>1, GoesOn, CopyTyped DEF Others
    <3>2. CASE Answer(r, 500)
      BY <1>1, <3>2, Stops DEF Others
    <3> QED  BY <1>3, <3>1, <3>2
  <2>2. SignalLost(r)
    BY <1>1, <1>3, <2>1 DEF SignalLost, Still
  <2> QED  BY <2>1, <2>2 DEF Served
<1> QED  BY <1>2, <1>3 DEF signalProvision, WriteServiceError

LEMMA RespondServed == ASSUME Typed, NEW r \in Requests, Respond(r) PROVE Served(r)
<1>1. Step(r) \in Replies /\ Codes[Step(r)] \in 200 .. 204 /\ Codes[Step(r)] \in Nat
  BY DEF Respond, Codes, Replies
<1>2. Others(r) /\ Ends(r) /\ req'[r].answer = Codes[Step(r)]
  BY <1>1, Stops DEF Respond, Others
<1>3. Replied(r)
  BY <1>1, <1>2 DEF Replied, Respond, Still
<1> QED  BY <1>2, <1>3 DEF Served

\* Whatever a handler does is one of the steps of Served.
LEMMA EveryServed == ASSUME Typed, Sound, NEW r \in Requests, Serve(r) PROVE Served(r)
  BY ArriveServed, CheckServed, LoadServed, TenantBrandServed, CheckParentServed,
     InsertServed, UpdateServed, SetStatusServed, GuardServed, CountServed,
     DeleteServed, SignalServed, RespondServed
  DEF Serve

-----------------------------------------------------------------------------
(* Typing, IDs and positions.                                              *)

LEMMA AtStep ==
    ASSUME Typed, Sound, NEW r \in Requests, req[r].op # "none"
    PROVE  /\ Fits(kind, req[r].op, Prog(r))
           /\ req[r].pc \in 1 .. Len(Prog(r)) /\ Len(Prog(r)) \in Nat
           /\ Step(r) = Prog(r)[req[r].pc]
<1>1. Fits(kind, req[r].op, Prog(r))
  BY EveryRouteFits DEF Typed, Sound, Prog
<1> QED  BY <1>1 DEF Sound, Step, Prog, Fits

\* A handler that goes on has a step to go on to.
LEMMA NextStep ==
    ASSUME Typed, Sound, NEW r \in Requests, Active(r), Step(r) \notin Replies
    PROVE  req[r].pc + 1 \in 1 .. Len(Prog(r))
<1>1. PICK n \in Nat : n = Len(Prog(r))
  BY AtStep DEF Active
<1>2. req[r].pc \in 1 .. n /\ req[r].pc < n
  BY <1>1, AtStep DEF Active, Fits
<1> QED  BY <1>1, <1>2

LEMMA SameProg ==
    ASSUME NEW r \in Requests, NEW s \in Requests, Others(r),
           s = r => req'[s].op = req[s].op
    PROVE  req'[s].op = req[s].op /\ Prog(s)' = Prog(s)
  BY DEF Others, Prog

\* The worker and the parent touch the row and nothing of the requests.
Worked ==
    /\ kind' = kind /\ req' = req /\ nextId' = nextId /\ doomed' = doomed
    /\ troubled' = troubled
    /\ row' \in Rows /\ (row'.id = row.id \/ row' = NoRow) /\ (row.id = 0 => row' = row)
    /\ row'.status = row.status \/ row'.status # "none" \/ row' = NoRow
    /\ row'.id # 0 => parent' = parent
    /\ parent' \in Parents /\ (parent = "gone" => parent' = "gone")
    /\ tasks' \in Seq(Queued) /\ running' \in Tasks
    /\ faults' \in 0 .. MaxFaults /\ spared \subseteq spared' /\ spared' \subseteq Nat
    /\ stuck' \subseteq Nat

LEMMA NoRowTyped == NoRow \in Rows /\ NoRow.id = 0
  BY DEF NoRow, Rows, Statuses

LEMMA NoTaskTyped == NoTask \in Tasks
  BY DEF NoTask, Tasks

LEMMA StatusTyped ==
    ASSUME Typed, NEW st \in Statuses
    PROVE  [row EXCEPT !.status = st] \in Rows /\ [row EXCEPT !.status = st].id = row.id
           /\ [row EXCEPT !.status = st].status = st
  BY DEF Typed, Rows

LEMMA HeadTyped ==
    ASSUME Typed, tasks # <<>>
    PROVE  Head(tasks) \in Queued /\ Head(tasks) \in Tasks /\ Tail(tasks) \in Seq(Queued)
<1>1. Head(tasks) \in Queued /\ Tail(tasks) \in Seq(Queued)
  BY DEF Typed
<1> QED  BY <1>1 DEF Queued, Tasks

LEMMA FirstTyped ==
    ASSUME Typed, NEW t \in Tasks, row # NoRow
    PROVE  First(t) \in Rows /\ First(t).id = row.id
           /\ (First(t) = row \/ First(t).status \in {"deleting", "provisioning"})
<1>1. \/ First(t) = row
      \/ \E st \in {"deleting", "provisioning"} : First(t) = [row EXCEPT !.status = st]
  BY DEF First, SetTenantEgressRulesProvisioning
<1> QED  BY <1>1, StatusTyped DEF Typed, Statuses, Marks

LEMMA LastTyped ==
    ASSUME Typed, NEW t \in Tasks, row # NoRow
    PROVE  \/ Last(t) = NoRow
           \/ /\ Last(t) \in Rows /\ Last(t).id = row.id
              /\ Last(t).status \in {"suspended", "active"}
           \/ /\ kind \in Synced /\ row.status \notin {"provisioning", "deleting"}
              /\ Last(t) = row
<1>1. \/ Last(t) = NoRow
      \/ \E st \in {"suspended", "active"} : Last(t) = [row EXCEPT !.status = st]
      \/ /\ kind \in Synced /\ row.status \notin {"provisioning", "deleting"}
         /\ Last(t) = row
  BY DEF Last, FinalizeTenantEgressRules
<1> QED  BY <1>1, StatusTyped DEF Typed, Statuses, Marks

\* What becomes of the two histories of the worker.
LEMMA SparesTyped ==
    ASSUME Typed, NEW t \in Tasks, Spares(t)
    PROVE  spared \subseteq spared' /\ spared' \subseteq Nat
  BY DEF Typed, Tasks, Spares

LEMMA StuckTyped ==
    ASSUME Typed, Sticks \/ Settles \/ stuck' = stuck
    PROVE  stuck' \subseteq Nat
  BY DEF Typed, Rows, Sticks, Settles

LEMMA BeginWorked == ASSUME Typed, Sound, Begin PROVE Worked
<1>1. running' \in Tasks /\ tasks' \in Seq(Queued)
  BY HeadTyped, NoTaskTyped DEF Begin
<1>2. /\ row' \in Rows /\ row'.id = row.id
      /\ row'.status = row.status \/ row'.status # "none"
  BY FirstTyped, HeadTyped DEF Begin, Concerns, Typed
<1>3. row.id = 0 => row' = row
  BY DEF Begin, Sound, Concerns
<1> QED  BY <1>1, <1>2, <1>3 DEF Worked, Typed, Begin

LEMMA BeginFailsWorked == ASSUME Typed, Sound, BeginFails PROVE Worked
<1>1. tasks' \in Seq(Queued)
  BY HeadTyped DEF BeginFails
<1>2. faults' \in 0 .. MaxFaults
  BY FaultsAssumption DEF Typed, BeginFails
<1>3. spared \subseteq spared' /\ spared' \subseteq Nat /\ stuck' \subseteq Nat
  BY HeadTyped, SparesTyped, StuckTyped DEF BeginFails
<1> QED  BY <1>1, <1>2, <1>3 DEF Worked, Typed, BeginFails

LEMMA FinishWorked == ASSUME Typed, Sound, Finish PROVE Worked
<1>1. CASE Concerns(running) /\ WritesStatus(running)
  <2>1. row # NoRow /\ row' = Last(running) /\ running \in Tasks
    BY <1>1 DEF Finish, Concerns, Typed
  <2>2. /\ row' \in Rows /\ (row'.id = row.id \/ row' = NoRow)
        /\ row'.status = row.status \/ row'.status # "none" \/ row' = NoRow
    BY <2>1, LastTyped, NoRowTyped DEF Typed
  <2>3. spared \subseteq spared' /\ spared' \subseteq Nat /\ stuck' \subseteq Nat
    BY <1>1, <2>1, SparesTyped, StuckTyped DEF Finish, Typed
  <2>4. row.id # 0
    BY <2>1 DEF Sound
  <2> QED  BY <2>2, <2>3, <2>4, NoTaskTyped DEF Worked, Typed, Finish
<1>2. CASE ~(Concerns(running) /\ WritesStatus(running))
  BY <1>2, NoTaskTyped DEF Worked, Typed, Finish
<1> QED  BY <1>1, <1>2

LEMMA FailWorked == ASSUME Typed, Sound, Fail PROVE Worked
<1>1. /\ row' \in Rows /\ row'.id = row.id
      /\ row'.status = row.status \/ row'.status # "none"
  <2>1. row' = row \/ row' = [row EXCEPT !.status = "failed"]
    BY DEF Fail
  <2> QED  BY <2>1, StatusTyped DEF Typed, Statuses
<1>2. faults' \in 0 .. MaxFaults
  BY FaultsAssumption DEF Typed, Fail
<1>3. spared \subseteq spared' /\ spared' \subseteq Nat /\ stuck' \subseteq Nat
  BY SparesTyped, StuckTyped DEF Typed, Fail
<1>4. row.id = 0 => row' = row
  BY DEF Fail, Sound, Concerns
<1> QED  BY <1>1, <1>2, <1>3, <1>4, NoTaskTyped DEF Worked, Typed, Fail

LEMMA ParentGoneWorked == ASSUME Typed, Sound, ParentGone PROVE Worked
  BY NoRowTyped DEF Worked, Typed, Sound, ParentGone, Parents

\* A step of the specification is a step of a request or of the worker.
LEMMA NextCases ==
    ASSUME Typed, Sound, Next
    PROVE  \/ \E r \in Requests : Served(r)
           \/ Worked /\ (Begin \/ BeginFails \/ Finish \/ Fail \/ ParentGone)
  BY EveryServed, BeginWorked, BeginFailsWorked, FinishWorked, FailWorked, ParentGoneWorked DEF Next

LEMMA ServedTyped == ASSUME Typed, Sound, NEW r \in Requests, Served(r) PROVE Typed'
<1>1. row' \in Rows /\ nextId' \in Nat
  BY NoRowTyped
  DEF Served, Arrives, Passes, LinkWritten, Rejects, RowWritten, RowInserted,
      RowMissed, RowRemoved, TaskQueued, SignalLost, Replied, Still, Typed
<1>2. tasks' \in Seq(Queued)
  <2>1. Active(r) => [op |-> req[r].op, id |-> req[r].id] \in Queued
    BY DEF Typed, Reqs, Queued, Active
  <2>2. \/ tasks' = tasks
        \/ Active(r) /\ tasks' = Append(tasks, [op |-> req[r].op, id |-> req[r].id])
    BY DEF Served, Arrives, Passes, LinkWritten, Rejects, RowWritten, RowInserted,
           RowMissed, RowRemoved, TaskQueued, SignalLost, Replied, Calm, Goes
  <2> QED  BY <2>1, <2>2 DEF Typed
<1>3. faults' \in 0 .. MaxFaults
  <2>1. faults' = faults \/ (faults < MaxFaults /\ faults' = faults + 1)
    BY DEF Served, Arrives, Passes, LinkWritten, Rejects, RowWritten, RowInserted,
           RowMissed, RowRemoved, TaskQueued, SignalLost, Replied, Calm
  <2> QED  BY <2>1, FaultsAssumption DEF Typed
<1>4. troubled' \in BOOLEAN
  <2>1. CASE RowWritten(r)
    BY <2>1 DEF RowWritten
  <2>2. CASE SignalLost(r)
    <3>1. troubled' = TRUE
      BY <2>2 DEF SignalLost
    <3> QED  BY <3>1, Zenon
  <2>3. CASE ~RowWritten(r) /\ ~SignalLost(r)
    <3>1. UNCHANGED troubled
      BY <2>3 DEF Served, Arrives, Passes, LinkWritten, Rejects, RowInserted,
                  RowMissed, RowRemoved, TaskQueued, Replied, Calm
    <3> QED  BY <3>1 DEF Typed
  <2> QED  BY <2>1, <2>2, <2>3
<1>5. doomed' \subseteq Nat
  <2>1. doomed' \subseteq doomed \cup {req[r].id}
    BY DEF Served, Arrives, Passes, LinkWritten, Rejects, RowWritten, RowInserted,
           RowMissed, RowRemoved, TaskQueued, SignalLost, Replied, Calm
  <2> QED  BY <2>1 DEF Typed, Reqs
<1>6. /\ kind' \in Kinds /\ parent' \in Parents /\ running' \in Tasks /\ spared' \subseteq Nat
      /\ stuck' \subseteq Nat /\ req' \in [Requests -> Reqs]
  BY DEF Served, Others, Typed
<1> QED  BY <1>1, <1>2, <1>3, <1>4, <1>5, <1>6 DEF Typed

LEMMA ServedSound == ASSUME Typed, Sound, NEW r \in Requests, Served(r) PROVE Sound'
<1> USE DEF Rows
<1>1. /\ row.id \in Nat /\ nextId \in Nat /\ row.id < nextId
      /\ \A s \in Requests : req[s].id \in Nat /\ req[s].id < nextId
  BY DEF Typed, Sound, Reqs
<1>2. /\ nextId' \in Nat /\ nextId' >= nextId
      /\ row'.id < nextId' /\ (row'.id = 0 <=> row' = NoRow)
      /\ row'.id # 0 => row.id # 0 \/ parent # "gone"
      /\ req'[r].id < nextId'
  <2>1. CASE RowInserted(r)
    BY <1>1, <2>1 DEF RowInserted, Goes, NoRow
  <2>2. CASE RowWritten(r)
    BY <1>1, <2>2 DEF RowWritten, Goes, NoRow
  <2>3. CASE RowRemoved(r)
    BY <1>1, <2>3 DEF RowRemoved, Goes, NoRow
  <2>4. CASE Still /\ req'[r].id \in {0, row.id, req[r].id}
    BY <1>1, <2>4 DEF Still, Sound
  <2>5. CASE ~RowInserted(r) /\ ~RowWritten(r) /\ ~RowRemoved(r)
    <3>1. Still /\ req'[r].id \in {0, row.id, req[r].id}
      BY <2>5 DEF Served, Arrives, Passes, LinkWritten, Rejects, RowMissed,
                  TaskQueued, SignalLost, Replied, Goes, Ends
    <3> QED  BY <2>4, <3>1
  <2> QED  BY <2>1, <2>2, <2>3, <2>5
<1>3. parent' = "gone" => row'.id = 0
  BY <1>2 DEF Sound, Served, Others
<1>4. \A s \in Requests : req'[s].id < nextId'
  BY <1>1, <1>2 DEF Served, Others
<1>5. ASSUME NEW s \in Requests, req'[s].op # "none"
      PROVE  req'[s].op \in DOMAIN Routes[kind'] /\ req'[s].pc \in 1 .. Len(Prog(s)')
  <2>1. CASE s # r
    <3>1. req'[s] = req[s] /\ Prog(s)' = Prog(s) /\ kind' = kind
      BY <2>1, SameProg DEF Served, Others
    <3> QED  BY <1>5, <3>1 DEF Sound
  <2>2. CASE s = r /\ Arrives(r)
    <3>1. req'[r].op \in DOMAIN Routes[kind] /\ req'[r].pc = 1 /\ kind' = kind
      BY <2>2 DEF Arrives, Served, Others
    <3>2. Fits(kind, req'[r].op, Prog(r)')
      BY <3>1, EveryRouteFits DEF Prog, Typed
    <3> QED  BY <2>2, <3>1, <3>2 DEF Fits
  <2>3. CASE s = r /\ ~Arrives(r)
    <3>1. /\ Active(r) /\ req'[r].op = req[r].op /\ kind' = kind
          /\ \/ Step(r) \notin Replies /\ req'[r].pc = req[r].pc + 1
             \/ req'[r].pc = req[r].pc
      BY <2>3 DEF Served, Others, Passes, LinkWritten, Rejects, RowWritten, RowInserted,
                  RowMissed, RowRemoved, TaskQueued, SignalLost, Replied, Goes, Ends
    <3>2. Prog(r)' = Prog(r)
      BY <3>1 DEF Prog
    <3>3. req'[r].pc \in 1 .. Len(Prog(r))
      BY <3>1, NextStep, AtStep DEF Active
    <3> QED  BY <2>3, <3>1, <3>2, <3>3 DEF Sound, Active
  <2> QED  BY <2>1, <2>2, <2>3
<1>6. \A x \in doomed' : x < nextId'
  <2>1. doomed' \subseteq doomed \cup {req[r].id}
    BY DEF Served, Arrives, Passes, LinkWritten, Rejects, RowWritten, RowInserted,
           RowMissed, RowRemoved, TaskQueued, SignalLost, Replied, Calm
  <2>2. \A x \in doomed : x \in Nat /\ x < nextId
    BY DEF Typed, Sound
  <2> QED  BY <1>1, <1>2, <2>1, <2>2
<1>7. kind' = kind
  BY DEF Served, Others
<1>8. ASSUME kind \in Synced, row'.id # 0 PROVE row'.status # "none"
  <2>1. CASE RowWritten(r)
    <3>1. req[r].op # "none" /\ row.status # "none"
      BY <1>8, <2>1 DEF RowWritten, Goes, Active, Sound
    <3>2. Step(r) # "writeAll"
      BY <1>8, <3>1, AtStep DEF Fits
    <3> QED  BY <2>1, <3>1, <3>2 DEF RowWritten
  <2>2. CASE RowInserted(r)
    BY <2>2 DEF RowInserted
  <2>3. CASE ~RowWritten(r) /\ ~RowInserted(r)
    <3>1. row' = row \/ row' = NoRow
      BY <2>3 DEF Served, Arrives, Passes, LinkWritten, Rejects, RowMissed, RowRemoved,
                  TaskQueued, SignalLost, Replied, Still
    <3> QED  BY <1>8, <3>1, NoRowTyped DEF Sound
  <2> QED  BY <2>1, <2>2, <2>3
<1> QED  BY <1>2, <1>3, <1>4, <1>5, <1>6, <1>7, <1>8 DEF Sound

LEMMA WorkedSound == ASSUME Typed, Sound, Worked PROVE Typed' /\ Sound'
<1>1. Typed'
  BY DEF Typed, Worked
<1>2. row'.id < nextId' /\ (row'.id = 0 <=> row' = NoRow)
  <2>1. CASE row' = NoRow
    BY <2>1, NoRowTyped DEF Typed, Sound, Worked, Rows
  <2>2. CASE row' # NoRow /\ row'.id = row.id
    <3>1. row.id \in Nat /\ row.id < nextId /\ nextId' = nextId /\ row.id # 0
      BY <2>2 DEF Typed, Sound, Worked, Rows
    <3> QED  BY <2>2, <3>1
  <2> QED  BY <2>1, <2>2 DEF Worked
<1> QED  BY <1>1, <1>2 DEF Sound, Worked, Prog

LEMMA TypedInit == Init => Typed /\ Sound
<1> SUFFICES ASSUME Init PROVE Typed /\ Sound
  OBVIOUS
<1>1. row \in Rows /\ (row.id = 0 <=> row = NoRow) /\ row.id \in {0, 1}
  BY DEF Init, NoRow, Rows, Statuses, Marks
<1>2. Idle \in Reqs /\ Idle.id = 0 /\ Idle.op = "none"
  BY DEF Idle, Reqs, Statuses
<1>3. troubled \in BOOLEAN
  BY DEF Init
<1>4. Typed
  BY <1>1, <1>2, <1>3, NoTaskTyped, FaultsAssumption DEF Init, Typed, Parents
<1>5. \A r \in Requests : req[r].id = 0 /\ req[r].op = "none"
  BY <1>2 DEF Init
<1>6. Sound
  BY <1>1, <1>5 DEF Init, Sound
<1> QED  BY <1>4, <1>6

LEMMA NextSound == Typed /\ Sound /\ [Next]_vars => Typed' /\ Sound'
<1> SUFFICES ASSUME Typed, Sound, [Next]_vars PROVE Typed' /\ Sound'
  OBVIOUS
<1>1. CASE Next
  BY <1>1, NextCases, ServedTyped, ServedSound, WorkedSound
<1>2. CASE UNCHANGED vars
  BY <1>2 DEF vars, Typed, Sound, Prog
<1> QED  BY <1>1, <1>2

\* Every variable has its type in every reachable state of the API server,
\* for any set of requests and any number of failures.
THEOREM Typing == Spec => []TypeOK
<1>1. Typed => TypeOK
  BY DEF Typed, TypeOK, Rows, Reqs, Statuses, Parents
<1> QED  BY <1>1, TypedInit, NextSound, PTL DEF Spec

-----------------------------------------------------------------------------
(* A refused request has no effect: once a handler has written, nothing    *)
(* that is ahead of it refuses a request whose row is there.               *)

Ahead(r, S) == \A j \in req[r].pc .. Len(Prog(r)) : Prog(r)[j] \in S

Harmless(r) ==
    /\ req[r].op = "none" => req[r].answer = 0
    /\ (req[r].op # "none" /\ <<kind, req[r].op>> \notin NotAtomic) =>
          /\ req[r].mark = "wrote" =>
                (req[r].id # 0 /\ Ahead(r, AfterWrite)) \/ Ahead(r, Replies)
          /\ req[r].mark = "removed" => Ahead(r, AfterRemoval)
          /\ Refused(r) => /\ req[r].mark = "removed" => parent = "gone"
                           /\ req[r].mark = "wrote" => row.id # req[r].id /\ req[r].id # 0

RefusalInv == \A r \in Requests : Harmless(r)

\* The row's ID stays, or it goes, or it is a new one.
LEMMA RowIds ==
    ASSUME Typed, Sound, NEW r \in Requests, Served(r)
    PROVE  row'.id = row.id \/ row'.id = 0 \/ (row.id = 0 /\ row'.id = nextId)
  BY NoRowTyped
  DEF Served, Arrives, Passes, LinkWritten, Rejects, RowWritten, RowInserted,
      RowMissed, RowRemoved, TaskQueued, SignalLost, Replied, Still

LEMMA OldIdStays ==
    ASSUME Typed, Sound, Next, NEW x \in Nat, x < nextId, x # 0, row.id # x
    PROVE  row'.id # x
<1>1. CASE Worked
  BY <1>1, NoRowTyped DEF Worked
<1>2. ASSUME NEW r \in Requests, Served(r) PROVE row'.id # x
  BY <1>2, RowIds DEF Typed
<1> QED  BY <1>1, <1>2, NextCases

\* The steps behind a write.
LEMMA Behind ==
    ASSUME Typed, Sound, NEW r \in Requests, req[r].op # "none",
           <<kind, req[r].op>> \notin NotAtomic
    PROVE  LET rest == req[r].pc + 1 .. Len(Prog(r))
           IN  /\ Step(r) \in RowWrites => \A j \in rest : Prog(r)[j] \in AfterWrite
               /\ Step(r) \in Removals => \A j \in rest : Prog(r)[j] \in AfterRemoval
               /\ Step(r) \in Links => \A j \in rest : Prog(r)[j] \in Replies
<1>1. PICK n \in Nat, i \in Nat : n = Len(Prog(r)) /\ i = req[r].pc
  BY AtStep
<1>2. i \in 1 .. n /\ Step(r) = Prog(r)[i]
  BY <1>1, AtStep
<1>3. \A j \in 1 .. n : i < j =>
        /\ Prog(r)[i] \in RowWrites => Prog(r)[j] \in AfterWrite
        /\ Prog(r)[i] \in Removals => Prog(r)[j] \in AfterRemoval
        /\ Prog(r)[i] \in Links => Prog(r)[j] \in Replies
  BY <1>1, <1>2, AtStep DEF Fits, Atomic
<1>4. \A j \in i + 1 .. n : j \in 1 .. n /\ i < j
  OBVIOUS
<1> QED  BY <1>1, <1>2, <1>3, <1>4

LEMMA AheadOn ==
    ASSUME Typed, Sound, NEW r \in Requests, req[r].op # "none", NEW S, Ahead(r, S)
    PROVE  /\ Step(r) \in S
           /\ \A j \in req[r].pc + 1 .. Len(Prog(r)) : Prog(r)[j] \in S
<1>1. PICK n \in Nat, i \in Nat : n = Len(Prog(r)) /\ i = req[r].pc
  BY AtStep
<1>2. i \in i .. n /\ \A j \in i + 1 .. n : j \in i .. n
  BY <1>1, AtStep
<1> QED  BY <1>1, <1>2, AtStep DEF Ahead

LEMMA OthersHarmless ==
    ASSUME Typed, Sound, Next, NEW r \in Requests, Harmless(r),
           req'[r] = req[r], kind' = kind, parent = "gone" => parent' = "gone"
    PROVE  Harmless(r)'
<1>1. req[r].id \in Nat /\ req[r].id < nextId
  BY DEF Typed, Sound, Reqs
<1>2. Prog(r)' = Prog(r) /\ (Refused(r)' <=> Refused(r))
  BY DEF Prog, Refused
<1>3. \A S : Ahead(r, S)' <=> Ahead(r, S)
  BY <1>2 DEF Ahead
<1> QED  BY <1>1, <1>2, <1>3, OldIdStays DEF Harmless

LEMMA GoingHarmless ==
    ASSUME Typed, Sound, NEW r \in Requests, Harmless(r), Others(r),
           NEW id \in Nat, NEW mark \in {"none", "wrote", "removed"}, Goes(r, id, mark),
           \/ mark = req[r].mark /\ (id = req[r].id \/ id # 0)
           \/ mark = "wrote" /\ id # 0 /\ Step(r) \in RowWrites
           \/ mark = "wrote" /\ Step(r) \in Links
           \/ mark = "removed" /\ Step(r) \in Removals
    PROVE  Harmless(r)'
<1>1. /\ req[r].op # "none" /\ req'[r].op = req[r].op /\ kind' = kind
      /\ req'[r].pc = req[r].pc + 1 /\ req'[r].id = id /\ req'[r].mark = mark
      /\ req'[r].answer = 0 /\ Prog(r)' = Prog(r)
  BY SameProg DEF Goes, Active, Others
<1>2. ~Refused(r)'
  BY <1>1 DEF Refused
<1>3. \A S : (\A j \in req[r].pc + 1 .. Len(Prog(r)) : Prog(r)[j] \in S) => Ahead(r, S)'
  BY <1>1 DEF Ahead
<1>4. \A S : Ahead(r, S) => Ahead(r, S)'
  BY <1>1, <1>3, AheadOn
<1>5. CASE <<kind, req[r].op>> \notin NotAtomic
  <2>1. CASE mark = req[r].mark /\ (id = req[r].id \/ id # 0)
    BY <1>1, <1>2, <1>4, <1>5, <2>1 DEF Harmless
  <2>2. CASE mark = "wrote" /\ id # 0 /\ Step(r) \in RowWrites
    BY <1>1, <1>2, <1>3, <1>5, <2>2, Behind DEF Harmless
  <2>3. CASE mark = "wrote" /\ Step(r) \in Links
    BY <1>1, <1>2, <1>3, <1>5, <2>3, Behind DEF Harmless
  <2>4. CASE mark = "removed" /\ Step(r) \in Removals
    BY <1>1, <1>2, <1>3, <1>5, <2>4, Behind DEF Harmless
  <2> QED  BY <2>1, <2>2, <2>3, <2>4
<1>6. CASE <<kind, req[r].op>> \in NotAtomic
  BY <1>1, <1>6 DEF Harmless
<1> QED  BY <1>5, <1>6

LEMMA EndingHarmless ==
    ASSUME Typed, Sound, NEW r \in Requests, Harmless(r), Others(r), row' = row, Ends(r),
           Rejects(r) \/ req'[r].answer \notin 400 .. 499
    PROVE  Harmless(r)'
<1>1. /\ req[r].op # "none" /\ req'[r].op = req[r].op /\ kind' = kind /\ parent' = parent
      /\ req'[r].pc = req[r].pc /\ req'[r].id = req[r].id /\ req'[r].mark = req[r].mark
      /\ Prog(r)' = Prog(r)
  BY SameProg DEF Ends, Active, Others
<1>2. \A S : Ahead(r, S)' <=> Ahead(r, S)
  BY <1>1 DEF Ahead
<1>3. CASE ~Refused(r)'
  BY <1>1, <1>2, <1>3 DEF Harmless
<1>4. CASE Refused(r)' /\ <<kind, req[r].op>> \notin NotAtomic
  <2>1. Rejects(r) /\ req'[r].answer # 500
    BY <1>4 DEF Refused
  <2>2. ASSUME req[r].mark = "wrote" PROVE row.id # req[r].id /\ req[r].id # 0
    <3>1. Step(r) \notin Replies
      BY <2>1 DEF Rejects
    <3>2. req[r].id # 0 /\ Step(r) \in AfterWrite
      BY <1>1, <1>4, <2>2, <3>1, AheadOn DEF Harmless
    <3>3. Step(r) \in {"get", "reload", "resolve", "find", "read"}
      BY <2>1, <3>2 DEF Rejects, AfterWrite, Signals
    <3>4. Gone(req[r].id)
      BY <2>1, <3>3 DEF Rejects, Gone, Sound
    <3> QED  BY <3>2, <3>4 DEF Gone
  <2>3. ASSUME req[r].mark = "removed" PROVE parent = "gone"
    <3>1. Step(r) \in AfterRemoval
      BY <1>1, <1>4, <2>3, AheadOn DEF Harmless
    <3> QED  BY <2>1, <3>1 DEF Rejects, AfterRemoval, Signals
  <2> QED  BY <1>1, <1>2, <2>2, <2>3 DEF Harmless
<1>5. CASE <<kind, req[r].op>> \in NotAtomic
  BY <1>1, <1>5 DEF Harmless
<1> QED  BY <1>3, <1>4, <1>5

LEMMA ServedHarmless ==
    ASSUME Typed, Sound, NEW r \in Requests, Harmless(r), Served(r)
    PROVE  Harmless(r)'
<1>1. /\ Others(r) /\ req[r].id \in Nat /\ row.id \in Nat /\ nextId \in Nat \ {0}
      /\ req[r].mark \in {"none", "wrote", "removed"}
  BY DEF Typed, Sound, Reqs, Rows, Served
<1>2. CASE Arrives(r)
  <2>1. req'[r].mark = "none" /\ req'[r].answer = 0
    BY <1>2 DEF Arrives
  <2>2. ~Refused(r)'
    BY <2>1 DEF Refused
  <2> QED  BY <2>1, <2>2 DEF Harmless
<1>3. CASE Passes(r)
  BY <1>1, <1>3, GoingHarmless DEF Passes
<1>4. CASE LinkWritten(r)
  BY <1>1, <1>4, GoingHarmless DEF LinkWritten
<1>5. CASE Rejects(r)
  BY <1>1, <1>5, EndingHarmless DEF Rejects, Still
<1>6. CASE RowWritten(r)
  BY <1>1, <1>6, GoingHarmless DEF RowWritten
<1>7. CASE RowInserted(r)
  BY <1>1, <1>7, GoingHarmless DEF RowInserted, RowWrites
<1>8. CASE RowMissed(r)
  BY <1>1, <1>8, GoingHarmless DEF RowMissed
<1>9. CASE RowRemoved(r)
  BY <1>1, <1>9, GoingHarmless DEF RowRemoved
<1>10. CASE TaskQueued(r)
  BY <1>1, <1>10, GoingHarmless DEF TaskQueued
<1>11. CASE SignalLost(r)
  BY <1>1, <1>11, GoingHarmless, EndingHarmless DEF SignalLost, Still
<1>12. CASE Replied(r)
  BY <1>1, <1>12, EndingHarmless DEF Replied, Still
<1> QED
  BY <1>2, <1>3, <1>4, <1>5, <1>6, <1>7, <1>8, <1>9, <1>10, <1>11, <1>12 DEF Served

LEMMA RefusalStep == ASSUME Typed, Sound, RefusalInv, Next PROVE RefusalInv'
<1> SUFFICES ASSUME NEW s \in Requests PROVE Harmless(s)'
  BY DEF RefusalInv
<1>1. CASE Worked
  BY <1>1, OthersHarmless DEF Worked, RefusalInv
<1>2. ASSUME NEW r \in Requests, Served(r) PROVE Harmless(s)'
  BY <1>2, OthersHarmless, ServedHarmless DEF Served, Others, RefusalInv
<1> QED  BY <1>1, <1>2, NextCases

\* RefusedHasNoEffect holds of every behaviour of the API server: a handler
\* that answers 4xx, other than those that are known not to be atomic, has
\* left no write behind, however many requests interleave.
THEOREM Refusal == Spec => []RefusedHasNoEffect
<1>1. Init => RefusalInv
  <2>1. Idle.op = "none" /\ Idle.answer = 0
    BY DEF Idle
  <2> QED  BY <2>1 DEF Init, RefusalInv, Harmless
<1>2. Typed /\ Sound /\ RefusalInv /\ [Next]_vars => RefusalInv'
  <2> SUFFICES ASSUME Typed, Sound, RefusalInv, [Next]_vars PROVE RefusalInv'
    OBVIOUS
  <2>1. CASE UNCHANGED vars
    BY <2>1 DEF vars, RefusalInv, Harmless, Ahead, Refused, Prog
  <2> QED  BY <2>1, RefusalStep
<1>3. Typed /\ RefusalInv => RefusedHasNoEffect
  <2> SUFFICES ASSUME Typed, RefusalInv, NEW r \in Requests, Refused(r),
                      <<kind, req[r].op>> \notin NotAtomic
               PROVE  /\ req[r].mark = "removed" => parent = "gone"
                      /\ req[r].mark = "wrote" => row.id # req[r].id
    BY DEF RefusedHasNoEffect
  <2>1. req[r].op # "none"
    BY DEF RefusalInv, Harmless, Refused
  <2> QED  BY <2>1 DEF RefusalInv, Harmless
<1> QED  BY <1>1, <1>2, <1>3, TypedInit, NextSound, PTL DEF Spec

-----------------------------------------------------------------------------
(* What is accepted takes effect: behind a row that waits for work there is *)
(* a handler about to queue it, a task in the queue, or a workflow.         *)

Elements(q) == {q[i] : i \in 1 .. Len(q)}

Committed(r) ==
    Active(r) /\ req[r].id = row.id /\ WritesStatus(req[r]) /\ Near(Prog(r), req[r].pc)

\* A sync of the egress rules settles what it has set out with.
Running ==
    /\ running # NoTask /\ WritesStatus(running)
    /\ IF kind \in Synced THEN row.status \in {"provisioning", "deleting"}
       ELSE running.id = row.id

Awaited ==
    \/ \E r \in Requests : Committed(r)
    \/ \E t \in Elements(tasks) : t.id = row.id /\ WritesStatus(t)
    \/ Running

Waiting ==
    /\ ~troubled /\ kind \in Tasked /\ row.id # 0 /\ row.id \notin stuck
    /\ row.status \notin Settled

WorkInv == Waiting => kind \notin OfParent /\ Awaited

LEMMA AppendElements ==
    ASSUME NEW q \in Seq(Queued), NEW t \in Queued
    PROVE  Elements(Append(q, t)) = Elements(q) \cup {t}
<1>1. PICK n \in Nat : n = Len(q)
  OBVIOUS
<1>2. Len(Append(q, t)) = n + 1 /\ Append(q, t)[n + 1] = t
  BY <1>1
<1>3. \A i \in 1 .. n : Append(q, t)[i] = q[i]
  BY <1>1
<1>4. n + 1 \in 1 .. n + 1 /\ \A i \in 1 .. n + 1 : i \in 1 .. n \/ i = n + 1
  OBVIOUS
<1>5. \A i \in 1 .. n : i \in 1 .. n + 1
  OBVIOUS
<1> QED  BY <1>1, <1>2, <1>3, <1>4, <1>5 DEF Elements

LEMMA TailElements ==
    ASSUME NEW q \in Seq(Queued), q # <<>>
    PROVE  Elements(q) = Elements(Tail(q)) \cup {Head(q)}
<1>1. PICK n \in Nat : n = Len(q) /\ n > 0
  OBVIOUS
<1>2. Len(Tail(q)) = n - 1 /\ Head(q) = q[1]
  BY <1>1
<1>3. \A i \in 1 .. n - 1 : Tail(q)[i] = q[i + 1] /\ i + 1 \in 1 .. n
  BY <1>1, <1>2
<1>4. \A i \in 1 .. n : i = 1 \/ (i - 1 \in 1 .. n - 1 /\ q[i] = Tail(q)[i - 1])
  BY <1>1, <1>3
<1>5. 1 \in 1 .. n
  BY <1>1
<1>6. Elements(q) = {q[i] : i \in 1 .. n} /\ Elements(Tail(q)) = {Tail(q)[i] : i \in 1 .. n - 1}
  BY <1>1, <1>2 DEF Elements
<1>7. \A x \in Elements(q) : x \in Elements(Tail(q)) \cup {Head(q)}
  BY <1>2, <1>4, <1>6
<1>8. Elements(Tail(q)) \cup {Head(q)} \subseteq Elements(q)
  BY <1>2, <1>3, <1>5, <1>6
<1> QED  BY <1>7, <1>8

\* A handler that is about to queue its task goes on to do so.
LEMMA NearOn ==
    ASSUME NEW P, NEW i \in Nat, Near(P, i), P[i] \notin Signals
    PROVE  P[i] \in Steady /\ Near(P, i + 1)
<1>1. (i + 1) + 1 = i + 2
  OBVIOUS
<1>2. P[i] \in Steady
  BY DEF Near
<1>3. P[i + 1] \in Signals \/ (P[i + 1] \in Steady /\ P[i + 2] \in Signals)
  BY DEF Near
<1> QED  BY <1>1, <1>2, <1>3 DEF Near

LEMMA NearSteps ==
    ASSUME NEW P, NEW i, Near(P, i)
    PROVE  P[i] \in Signals \cup Steady
  BY DEF Near

LEMMA OthersCommitted ==
    ASSUME NEW r \in Requests, Others(r), NEW s \in Requests, s # r,
           Committed(s), row'.id = row.id
    PROVE  Committed(s)'
<1>1. req'[s] = req[s] /\ Prog(s)' = Prog(s) /\ kind' = kind
  BY SameProg DEF Others
<1> QED  BY <1>1 DEF Committed, Active, WritesStatus

\* A handler that is about to queue its task still is after its next step,
\* or it has queued it, as long as its row is there.
LEMMA CommittedStays ==
    ASSUME Typed, Sound, NEW r \in Requests, Served(r), Committed(r),
           ~troubled', row'.id = row.id, row.id # 0
    PROVE  Awaited'
<1>1. /\ Active(r) /\ req[r].op # "none" /\ req[r].id = row.id
      /\ Near(Prog(r), req[r].pc) /\ req[r].pc \in Nat /\ Others(r)
      /\ WritesStatus(req[r]) /\ kind' = kind
  BY DEF Others, Committed, Active, Served, Typed, Reqs
<1>2. Step(r) = Prog(r)[req[r].pc] /\ Step(r) \in Signals \cup Steady
  BY <1>1, AtStep, NearSteps
<1>3. Step(r) \notin RowWrites \cup Removals \cup Links \cup Replies
  BY <1>2 DEF Signals, Steady, RowWrites, Inserts, Writes, Marks, Removals, Links, Replies
<1>4. \/ Passes(r) \/ Rejects(r) \/ TaskQueued(r) \/ SignalLost(r)
  BY <1>1, <1>3 DEF Served, Arrives, LinkWritten, RowWritten, RowInserted, RowMissed,
                    RowRemoved, Replied, RowWrites
<1>5. CASE Passes(r)
  <2>1. Step(r) \notin Signals /\ Goes(r, row.id, req[r].mark)
    BY <1>1, <1>5 DEF Passes
  <2>2. Near(Prog(r), req[r].pc + 1)
    BY <1>1, <1>2, <2>1, NearOn
  <2>3. Prog(r)' = Prog(r)
    BY <1>1, <2>1, SameProg DEF Goes
  <2>4. Committed(r)'
    BY <1>1, <2>1, <2>2, <2>3 DEF Committed, Active, Goes, WritesStatus
  <2> QED  BY <2>4 DEF Awaited
<1>6. CASE Rejects(r)
  <2>1. Step(r) \in {"resolve", "find", "read"}
    BY <1>2, <1>6 DEF Rejects, Steady
  <2>2. Gone(row.id)
    BY <1>1, <1>6, <2>1 DEF Rejects, Gone, Sound
  <2> QED  BY <2>2 DEF Gone
<1>7. CASE TaskQueued(r)
  <2>1. PICK t \in Queued : t = [op |-> req[r].op, id |-> req[r].id]
    BY <1>1 DEF Typed, Reqs, Queued
  <2>2. tasks' = Append(tasks, t) /\ tasks \in Seq(Queued)
    BY <1>7, <2>1 DEF TaskQueued, Typed
  <2>3. t \in Elements(tasks)'
    BY <2>2, AppendElements
  <2>4. t.id = row.id /\ WritesStatus(t)'
    BY <1>1, <2>1 DEF WritesStatus
  <2> QED  BY <2>3, <2>4 DEF Awaited
<1>8. CASE SignalLost(r)
  BY <1>8 DEF SignalLost
<1> QED  BY <1>4, <1>5, <1>6, <1>7, <1>8

\* The queue only grows by a request's step.
LEMMA QueueGrows ==
    ASSUME Typed, NEW r \in Requests, Served(r)
    PROVE  Elements(tasks) \subseteq Elements(tasks)'
<1> DEFINE t == [op |-> req[r].op, id |-> req[r].id]
<1>1. tasks \in Seq(Queued) /\ (Active(r) => t \in Queued)
  BY DEF Typed, Reqs, Queued, Active
<1>2. tasks' = tasks \/ (Active(r) /\ tasks' = Append(tasks, t))
  BY DEF Served, Arrives, Passes, LinkWritten, Rejects, RowWritten, RowInserted,
         RowMissed, RowRemoved, TaskQueued, SignalLost, Replied, Calm, Goes
<1> HIDE DEF t
<1> QED  BY <1>1, <1>2, AppendElements

LEMMA AwaitedStays ==
    ASSUME Typed, Sound, NEW r \in Requests, Served(r), Awaited,
           ~troubled', row'.id = row.id, row'.status = row.status, row.id # 0
    PROVE  Awaited'
<1>1. CASE \E s \in Requests : Committed(s)
  <2>1. PICK s \in Requests : Committed(s)
    BY <1>1
  <2>2. CASE s = r
    BY <2>1, <2>2, CommittedStays
  <2>3. CASE s # r
    BY <2>1, <2>3, OthersCommitted DEF Awaited, Served
  <2> QED  BY <2>2, <2>3
<1>2. CASE \E t \in Elements(tasks) : t.id = row.id /\ WritesStatus(t)
  BY <1>2, QueueGrows DEF Awaited, Served, Others, WritesStatus
<1>3. CASE Running
  BY <1>3 DEF Awaited, Served, Others, Running, WritesStatus
<1> QED  BY <1>1, <1>2, <1>3 DEF Awaited

\* The handler that makes its row wait is about to queue the task.
LEMMA UnsettlingCommits ==
    ASSUME Typed, Sound, NEW r \in Requests, Active(r), Others(r), kind \in Tasked,
           Step(r) \in Unsettling \/ (Step(r) = "writeAll" /\ WillSignal(r)),
           Goes(r, row'.id, "wrote")
    PROVE  kind' \notin OfParent /\ Awaited'
<1>1. kind # "cluster" /\ req[r].op # "none"
  BY ClusterUntasked DEF Active
<1>2. PICK n \in Nat, i \in Nat : n = Len(Prog(r)) /\ i = req[r].pc
  BY <1>1, AtStep
<1>3. i \in 1 .. n /\ Step(r) = Prog(r)[i]
  BY <1>1, <1>2, AtStep
<1>4. Fits(kind, req[r].op, Prog(r))
  BY <1>1, AtStep
<1>5. Step(r) \in RowWrites \ {"insertActive"}
  BY DEF Unsettling, RowWrites, Inserts, Writes, Marks
<1>6. kind \notin OfParent
  BY <1>2, <1>3, <1>4, <1>5 DEF Fits
<1>7. Near(Prog(r), i + 1)
  <2>1. CASE Step(r) \in Unsettling
    BY <1>1, <1>2, <1>3, <1>4, <2>1 DEF Fits, Follows
  <2>2. CASE Step(r) = "writeAll" /\ WillSignal(r)
    <3>1. Prog(r)[i + 1] = "signal" \/ \A j \in i .. n : Prog(r)[j] # "signal"
      BY <1>1, <1>2, <1>3, <1>4, <2>2 DEF Fits, Follows
    <3>2. Prog(r)[i + 1] = "signal"
      BY <1>2, <2>2, <3>1 DEF WillSignal, Prog
    <3> QED  BY <3>2 DEF Near, Signals
  <2> QED  BY <2>1, <2>2
<1>8. Prog(r)' = Prog(r) /\ kind' = kind
  BY SameProg DEF Goes, Others
<1>9. WritesStatus(req[r])
  BY <1>2, <1>3, <1>4 DEF Fits, WritesStatus
<1>10. Committed(r)'
  BY <1>1, <1>2, <1>7, <1>8, <1>9 DEF Committed, Active, Goes, WritesStatus
<1> QED  BY <1>6, <1>10 DEF Awaited, Others

LEMMA ServedWaits ==
    ASSUME Typed, Sound, NEW r \in Requests, Served(r), WorkInv
    PROVE  WorkInv'
<1> SUFFICES ASSUME ~troubled', kind' \in Tasked, row'.id # 0, row'.id \notin stuck',
                    row'.status \notin Settled
             PROVE  kind' \notin OfParent /\ Awaited'
  BY DEF WorkInv, Waiting
<1>1. Others(r) /\ kind' = kind /\ kind \in Tasked /\ stuck' = stuck
  BY DEF Served, Others
<1>2. ~troubled
  BY DEF Served, Arrives, Passes, LinkWritten, Rejects, RowWritten, RowInserted,
         RowMissed, RowRemoved, TaskQueued, SignalLost, Replied, Calm
<1>3. CASE row'.id = row.id /\ row'.status = row.status
  <2>1. kind \notin OfParent /\ Awaited
    BY <1>1, <1>2, <1>3 DEF WorkInv, Waiting
  <2> QED  BY <1>1, <1>3, <2>1, AwaitedStays
<1>4. CASE RowWritten(r) /\ row'.status # row.status
  <2>1. Step(r) \in Unsettling \/ (Step(r) = "writeAll" /\ WillSignal(r))
    BY <1>4 DEF RowWritten
  <2>2. Goes(r, row'.id, "wrote") /\ Active(r)
    BY <1>4 DEF RowWritten, Goes
  <2> QED  BY <1>1, <2>1, <2>2, UnsettlingCommits
<1>5. CASE RowInserted(r)
  <2>1. Step(r) \in Unsettling
    BY <1>5 DEF RowInserted, Settled
  <2>2. Goes(r, row'.id, "wrote") /\ Active(r)
    BY <1>5 DEF RowInserted, Goes
  <2> QED  BY <1>1, <2>1, <2>2, UnsettlingCommits
<1>6. CASE ~RowWritten(r) /\ ~RowInserted(r)
  <2>1. row' = row \/ row' = NoRow
    BY <1>6 DEF Served, Arrives, Passes, LinkWritten, Rejects, RowMissed, RowRemoved,
                TaskQueued, SignalLost, Replied, Still
  <2> QED  BY <1>3, <2>1, NoRowTyped
<1> QED  BY <1>3, <1>4, <1>5, <1>6 DEF RowWritten

\* What waits for the row is still there after a step of the worker that
\* leaves the row alone and neither starts nor ends a task that settles it.
LEMMA WorkerKeeps ==
    ASSUME kind' = kind, req' = req, row' = row, Awaited, ~Running,
           NEW h, Elements(tasks) \subseteq Elements(tasks') \cup {h},
           h.id # row.id \/ ~WritesStatus(h)
    PROVE  Awaited'
<1>1. \A r \in Requests : Committed(r) => Committed(r)'
  BY DEF Committed, Active, Prog, WritesStatus
<1>2. \A t \in Elements(tasks) : t # h => t \in Elements(tasks)'
  OBVIOUS
<1>3. \A t : WritesStatus(t)' <=> WritesStatus(t)
  BY DEF WritesStatus
<1> QED  BY <1>1, <1>2, <1>3 DEF Awaited

LEMMA BeginWaits ==
    ASSUME Typed, Sound, Begin, row'.id = row.id, row.id # 0, kind \notin OfParent,
           row' = row => Awaited, row'.status \notin Settled
    PROVE  Awaited'
<1>1. /\ running = NoTask /\ tasks' = Tail(tasks) /\ kind' = kind /\ req' = req
      /\ Elements(tasks) \subseteq Elements(tasks') \cup {Head(tasks)} /\ row # NoRow
  BY TailElements DEF Begin, Typed, Sound
<1>2. PICK h \in Queued : h = Head(tasks)
  BY HeadTyped DEF Begin
<1>3. h # NoTask
  BY DEF Queued, NoTask
<1>4. CASE kind \in Synced
  <2>1. Concerns(h) /\ Announces(h) /\ WritesStatus(h)
    BY <1>1, <1>4 DEF Concerns, Announces, Registered, WritesStatus, Synced
  <2>2. running' = h /\ row' = First(h)
    BY <1>2, <1>4, <2>1 DEF Begin
  <2>3. row.status \in {"pending", "deleting", "provisioning", "failed"} \cup Settled
    BY <1>4 DEF Typed, Sound, Rows, Statuses, Marks, Settled
  <2>4. row'.status = "provisioning"
    <3>1. CASE row.status \in {"pending", "deleting", "failed"}
      <4>1. row' = [row EXCEPT !.status = "provisioning"]
        BY <1>4, <2>2, <3>1 DEF First, SetTenantEgressRulesProvisioning
      <4> QED  BY <4>1, StatusTyped DEF Statuses, Marks
    <3>2. CASE row.status \notin {"pending", "deleting", "failed"}
      BY <1>4, <2>2, <2>3, <3>2 DEF First, SetTenantEgressRulesProvisioning
    <3> QED  BY <3>1, <3>2
  <2> QED  BY <1>1, <1>3, <1>4, <2>1, <2>2, <2>4 DEF Awaited, Running, WritesStatus
<1>5. CASE kind \notin Synced /\ h.id = row.id /\ WritesStatus(h)
  <2>1. Concerns(h)
    BY <1>1, <1>5 DEF Concerns
  <2>2. running' = h
    BY <1>2, <2>1 DEF Begin
  <2> QED  BY <1>1, <1>3, <1>5, <2>2 DEF Awaited, Running, WritesStatus
<1>6. CASE kind \notin Synced /\ (h.id # row.id \/ ~WritesStatus(h))
  <2>1. ~(Concerns(h) /\ Announces(h))
    BY <1>6 DEF Concerns, Announces
  <2>2. row' = row
    BY <1>2, <2>1 DEF Begin
  <2>3. ~Running
    BY <1>1 DEF Running
  <2> QED  BY <1>1, <1>2, <1>6, <2>2, <2>3, WorkerKeeps
<1> QED  BY <1>4, <1>5, <1>6

\* The end of a workflow that works on the row settles it, or leaves a rule
\* for the next sync; the failure of one leaves the row stuck.
LEMMA EndWaits ==
    ASSUME Typed, Sound, Finish \/ Fail, row'.id = row.id, row.id # 0,
           kind \notin OfParent, row' = row /\ row.id \notin stuck => Awaited,
           row'.status \notin Settled, row'.id \notin stuck'
    PROVE  Awaited'
<1>1. tasks' = tasks /\ kind' = kind /\ req' = req /\ row # NoRow /\ row' # NoRow
  BY NoRowTyped DEF Finish, Fail, Sound
<1>2. row' = row /\ stuck' = stuck /\ ~Running
  <2>1. CASE Finish /\ Concerns(running) /\ WritesStatus(running)
    <3>1. row' = Last(running) /\ stuck' = stuck /\ running \in Tasks
      BY <2>1 DEF Finish, Typed
    <3>2. /\ kind \in Synced /\ row.status \notin {"provisioning", "deleting"}
          /\ row' = row
      BY <1>1, <3>1, LastTyped DEF Settled
    <3> QED  BY <3>1, <3>2 DEF Running
  <2>2. CASE Fail /\ Concerns(running) /\ WritesStatus(running)
    <3>1. row' # [row EXCEPT !.status = "failed"]
      BY StatusTyped DEF Statuses, Settled
    <3>2. row' = row /\ Sticks
      BY <2>2, <3>1 DEF Fail
    <3> QED  BY <3>2 DEF Sticks
  <2>3. CASE ~(Concerns(running) /\ WritesStatus(running))
    <3>1. row' = row /\ stuck' = stuck
      BY <2>3 DEF Finish, Fail, ReportsFailure
    <3>2. ~Running
      BY <1>1, <2>3 DEF Running, Concerns
    <3> QED  BY <3>1, <3>2
  <2> QED  BY <2>1, <2>2, <2>3
<1>3. Awaited
  BY <1>2
<1>4. NoTask.id # row.id /\ Elements(tasks) \subseteq Elements(tasks') \cup {NoTask}
  BY <1>1 DEF NoTask
<1> QED  BY <1>1, <1>2, <1>3, <1>4, WorkerKeeps

LEMMA WorkedWaits ==
    ASSUME Typed, Sound, Worked, Begin \/ BeginFails \/ Finish \/ Fail \/ ParentGone, WorkInv
    PROVE  WorkInv'
<1> SUFFICES ASSUME ~troubled', kind' \in Tasked, row'.id # 0, row'.id \notin stuck',
                    row'.status \notin Settled
             PROVE  kind' \notin OfParent /\ Awaited'
  BY DEF WorkInv, Waiting
<1>1. /\ kind' = kind /\ req' = req /\ ~troubled /\ kind \in Tasked
      /\ row'.id = row.id /\ row.id # 0
  BY NoRowTyped DEF Worked
<1>2. row' = row /\ row.id \notin stuck => kind \notin OfParent /\ Awaited
  BY <1>1 DEF WorkInv, Waiting
<1>3. CASE Begin
  <2>1. stuck' = stuck /\ (kind \in OfParent => row' = row)
    BY <1>3 DEF Begin, Concerns
  <2> QED  BY <1>1, <1>2, <1>3, <2>1, BeginWaits
<1>4. CASE BeginFails
  BY <1>1, <1>4 DEF BeginFails, Sticks
<1>5. CASE Finish \/ Fail
  <2>1. kind \in OfParent => row' = row /\ stuck' = stuck
    BY <1>5 DEF Finish, Fail, Concerns
  <2> QED  BY <1>1, <1>2, <1>5, <2>1, EndWaits
<1>6. CASE ParentGone
  BY <1>6, NoRowTyped DEF ParentGone
<1> QED  BY <1>3, <1>4, <1>5, <1>6

\* AcceptedTakesEffect holds of every behaviour of the API server: with the
\* requests answered and the queue empty, no row is left in a status that
\* promises work, unless a signal was lost, a stale status written back, or
\* the row is the one that a failed workflow left as it was.
THEOREM Acceptance == Spec => []AcceptedTakesEffect
<1>1. Init => WorkInv
  <2> SUFFICES ASSUME Init, Waiting PROVE FALSE
    BY DEF WorkInv
  <2>1. row \in [id : {1}, status : {"active", "failed", "pending"}]
    BY NoRowTyped DEF Init, Waiting
  <2>2. row.status = "pending"
    BY <2>1 DEF Waiting, Settled
  <2> QED  BY <2>2 DEF Init, Waiting
<1>2. Typed /\ Sound /\ WorkInv /\ [Next]_vars => WorkInv'
  <2> SUFFICES ASSUME Typed, Sound, WorkInv, [Next]_vars PROVE WorkInv'
    OBVIOUS
  <2>1. CASE UNCHANGED vars
    BY <2>1 DEF vars, WorkInv, Waiting, Awaited, Running, WritesStatus, Committed, Active, Prog
  <2> QED  BY <2>1, NextCases, ServedWaits, WorkedWaits
<1>3. Typed /\ Sound /\ WorkInv => AcceptedTakesEffect
  <2> SUFFICES ASSUME Typed, Sound, WorkInv, AtRest, Waiting PROVE FALSE
    BY DEF AcceptedTakesEffect, Waiting, Sound
  <2>1. \A r \in Requests : ~Committed(r)
    BY DEF AtRest, Committed
  <2>2. Elements(tasks) = {}
    BY DEF AtRest, Elements
  <2>3. ~Running
    BY DEF AtRest, Running
  <2> QED  BY <2>1, <2>2, <2>3 DEF WorkInv, Awaited
<1> QED  BY <1>1, <1>2, <1>3, TypedInit, NextSound, PTL DEF Spec

-----------------------------------------------------------------------------
(* A deletion that is accepted removes: the row is gone, or its workflow    *)
(* has failed, or its task is in the queue or at work.                      *)

Erasure(x) == [op |-> "delete", id |-> x]

Doomed(x) ==
    \/ Gone(x) \/ x \in spared
    \/ kind \notin OfParent /\ (running = Erasure(x) \/ Erasure(x) \in Elements(tasks))

\* What a deletion has behind it when it goes on.
Done(r, x) ==
    /\ \A j \in 1 .. req[r].pc - 1 : Prog(r)[j] \in Removals => Gone(x)
    /\ (kind \notin OfParent /\ req[r].pc > 1 /\ Prog(r)[req[r].pc - 1] = "signal")
          => Doomed(x)

Erased(r) == (req[r].op = "delete" /\ Active(r)) => Done(r, req[r].id)

DelInv == ~troubled => (\A x \in doomed : Doomed(x)) /\ (\A r \in Requests : Erased(r))

\* An ID that was given out and is not the row's never is again.
LEMMA GoneStays ==
    ASSUME Typed, Sound, Next, NEW x \in Nat, x < nextId, Gone(x)
    PROVE  Gone(x)'
<1>1. CASE Worked
  BY <1>1, NoRowTyped DEF Worked, Gone
<1>2. ASSUME NEW r \in Requests, Served(r) PROVE Gone(x)'
  <2>1. row'.id = row.id \/ row'.id = 0 \/ row'.id = nextId
    BY <1>2, RowIds
  <2> QED  BY <2>1 DEF Typed, Gone
<1> QED  BY <1>1, <1>2, NextCases

LEMMA DoomedStays ==
    ASSUME Typed, Sound, Next, NEW x \in Nat, x < nextId, Doomed(x)
    PROVE  Doomed(x)'
<1>1. CASE Gone(x)
  BY <1>1, GoneStays DEF Doomed
<1>2. ASSUME NEW r \in Requests, Served(r), ~Gone(x) PROVE Doomed(x)'
  <2>1. running' = running /\ spared' = spared /\ kind' = kind
    BY <1>2 DEF Served, Others
  <2>2. Elements(tasks) \subseteq Elements(tasks)'
    BY <1>2, QueueGrows
  <2> QED  BY <1>2, <2>1, <2>2 DEF Doomed
<1>3. ASSUME Worked, Begin \/ BeginFails \/ Finish \/ Fail \/ ParentGone, ~Gone(x) PROVE Doomed(x)'
  <2>1. kind' = kind /\ spared \subseteq spared' /\ row.id = x /\ row.id # 0 /\ row # NoRow
    BY <1>3 DEF Worked, Gone, Sound
  <2>2. Erasure(x).op = "delete" /\ Erasure(x).id = x /\ Erasure(x) # NoTask
    BY DEF Erasure, NoTask
  <2>3. CASE x \in spared
    BY <2>1, <2>3 DEF Doomed
  <2>4. CASE kind \notin OfParent /\ running = Erasure(x)
    <3>1. Concerns(running) /\ WritesStatus(running)
      BY <2>1, <2>2, <2>4 DEF Concerns, WritesStatus
    <3>2. CASE Finish
      <4>1. row' = NoRow \/ x \in spared'
        BY <2>2, <2>4, <3>1, <3>2 DEF Finish, Spares
      <4> QED  BY <4>1, NoRowTyped DEF Doomed, Gone
    <3>3. CASE Fail
      <4>1. x \in spared'
        BY <2>2, <2>4, <3>3 DEF Fail, Spares
      <4> QED  BY <4>1 DEF Doomed
    <3>4. CASE ParentGone
      BY <2>1, <2>4, <3>4 DEF ParentGone, Doomed
    <3> QED  BY <1>3, <2>2, <2>4, <3>2, <3>3, <3>4 DEF Begin, BeginFails
  <2>5. CASE kind \notin OfParent /\ Erasure(x) \in Elements(tasks)
    <3>1. CASE Begin
      <4>1. tasks' = Tail(tasks) /\ Elements(tasks) = Elements(tasks') \cup {Head(tasks)}
        BY <3>1, TailElements DEF Begin, Typed
      <4>2. CASE Erasure(x) = Head(tasks)
        <5>1. running' = Erasure(x)
          BY <2>1, <2>2, <2>5, <3>1, <4>2 DEF Begin, Concerns
        <5> QED  BY <2>1, <2>5, <5>1 DEF Doomed
      <4>3. CASE Erasure(x) # Head(tasks)
        BY <2>1, <2>5, <4>1, <4>3 DEF Doomed
      <4> QED  BY <4>2, <4>3
    <3>2. CASE BeginFails
      <4>1. tasks' = Tail(tasks) /\ Elements(tasks) = Elements(tasks') \cup {Head(tasks)}
        BY <3>2, TailElements DEF BeginFails, Typed
      <4>2. Erasure(x) = Head(tasks) => x \in spared'
        BY <2>2, <3>2 DEF BeginFails, Spares
      <4> QED  BY <2>1, <2>5, <4>1, <4>2 DEF Doomed
    <3>3. CASE ~Begin /\ ~BeginFails
      <4>1. tasks' = tasks
        BY <1>3, <3>3 DEF Finish, Fail, ParentGone
      <4> QED  BY <2>1, <2>5, <4>1 DEF Doomed
    <3> QED  BY <3>1, <3>2, <3>3
  <2> QED  BY <1>3, <2>3, <2>4, <2>5 DEF Doomed
<1> QED  BY <1>1, <1>2, <1>3, NextCases

LEMMA DoneFor ==
    ASSUME NEW r \in Requests, NEW x, req'[r].id = x
    PROVE  Done(r, req[r].id)' <=> Done(r, x)'
  BY DEF Done, Gone, Doomed, Erasure

LEMMA DoneStays ==
    ASSUME Typed, Sound, Next, NEW r \in Requests, NEW x \in Nat, x < nextId, Done(r, x),
           req'[r].op = req[r].op, req'[r].pc = req[r].pc, kind' = kind
    PROVE  Done(r, x)'
<1>1. Prog(r)' = Prog(r)
  BY DEF Prog
<1>2. (Gone(x) => Gone(x)') /\ (Doomed(x) => Doomed(x)')
  BY GoneStays, DoomedStays
<1> QED  BY <1>1, <1>2 DEF Done

LEMMA OthersErased ==
    ASSUME Typed, Sound, Next, NEW r \in Requests, Erased(r), req'[r] = req[r], kind' = kind
    PROVE  Erased(r)'
<1>1. PICK x \in Nat : x = req[r].id /\ x < nextId
  BY DEF Typed, Sound, Reqs
<1>2. Done(r, x) => Done(r, x)'
  BY <1>1, DoneStays
<1>3. Done(r, req[r].id)' <=> Done(r, x)'
  BY <1>1, DoneFor
<1> QED  BY <1>1, <1>2, <1>3 DEF Erased, Active

\* Once a deletion has removed its row it takes up no other.
LEMMA RemovalBehind ==
    ASSUME Typed, Sound, NEW r \in Requests, req[r].op = "delete",
           NEW j \in 1 .. req[r].pc - 1, Prog(r)[j] \in Removals
    PROVE  Step(r) \in AfterRemoval
<1>1. PICK n \in Nat, i \in Nat : n = Len(Prog(r)) /\ i = req[r].pc
  BY AtStep
<1>2. i \in 1 .. n /\ j \in 1 .. n /\ j < i /\ Step(r) = Prog(r)[i]
  BY <1>1, AtStep
<1>3. <<kind, req[r].op>> \notin NotAtomic
  BY DEF NotAtomic
<1>4. Atomic(Prog(r))
  BY <1>3, AtStep DEF Fits
<1> QED  BY <1>1, <1>2, <1>4 DEF Atomic

\* A deletion goes on: what matters is the step it takes.
LEMMA GoingErased ==
    ASSUME Typed, Sound, Next, NEW r \in Requests, Others(r), Erased(r),
           req[r].op = "delete", NEW id \in Nat, NEW mark, Goes(r, id, mark),
           Step(r) \in AfterRemoval => id = req[r].id,
           Step(r) \in Removals => Gone(id)',
           Step(r) = "signal" /\ kind \notin OfParent => Doomed(id)'
    PROVE  Erased(r)'
<1>1. /\ Active(r) /\ req'[r].pc = req[r].pc + 1 /\ kind' = kind
      /\ req'[r].id = id /\ Prog(r)' = Prog(r)
  BY SameProg DEF Goes, Others
<1>2. PICK i \in Nat : i = req[r].pc /\ Step(r) = Prog(r)[i]
  BY AtStep DEF Typed, Reqs
<1>3. (i + 1) - 1 = i /\ \A j \in 1 .. i : j = i \/ j \in 1 .. i - 1
  OBVIOUS
<1>4. ASSUME NEW j \in 1 .. i - 1, Prog(r)[j] \in Removals PROVE Gone(id)'
  <2>1. id = req[r].id
    BY <1>2, <1>4, RemovalBehind
  <2>2. Gone(id) /\ id < nextId
    BY <1>1, <1>2, <1>4, <2>1 DEF Erased, Done, Sound
  <2> QED  BY <2>2, GoneStays
<1>5. Done(r, id)'
  BY <1>1, <1>2, <1>3, <1>4 DEF Done
<1> QED  BY <1>1, <1>5, DoneFor DEF Erased

LEMMA ServedErased ==
    ASSUME Typed, Sound, Next, NEW r \in Requests, Served(r), Erased(r), ~troubled'
    PROVE  Erased(r)'
<1>1. PICK x \in Nat : x = req[r].id /\ x < nextId
  BY DEF Typed, Sound, Reqs
<1>2. Others(r) /\ (Gone(x) => Gone(x)')
  BY <1>1, GoneStays DEF Served
<1>3. CASE Arrives(r)
  <2>1. req'[r].pc = 1
    BY <1>3 DEF Arrives
  <2> QED  BY <2>1 DEF Erased, Done
<1>4. CASE Ends(r)
  <2>1. /\ Active(r) /\ req'[r].op = req[r].op /\ req'[r].pc = req[r].pc
        /\ req'[r].id = x /\ kind' = kind
    BY <1>1, <1>2, <1>4 DEF Ends, Others
  <2>2. Done(r, x) => Done(r, x)'
    BY <1>1, <2>1, DoneStays
  <2> QED  BY <1>1, <2>1, <2>2, DoneFor DEF Erased
<1>5. CASE req'[r].op # "delete"
  BY <1>5 DEF Erased
<1> SUFFICES ASSUME ~Arrives(r), ~Ends(r), req'[r].op = "delete" PROVE Erased(r)'
  BY <1>3, <1>4, <1>5
<1>6. req[r].op = "delete"
  BY DEF Served, Passes, LinkWritten, Rejects, RowWritten, RowInserted, RowMissed,
         RowRemoved, TaskQueued, SignalLost, Replied, Goes
<1>7. CASE Passes(r) \/ LinkWritten(r)
  <2>1. Step(r) \notin Removals /\ Step(r) # "signal"
    BY <1>7 DEF Passes, LinkWritten, Links, Removals, Signals
  <2>2. "find" \notin AfterRemoval
    BY DEF AfterRemoval, Replies
  <2>3. PICK id \in Nat, m \in {"none", "wrote", "removed"} :
            Goes(r, id, m) /\ (Step(r) \in AfterRemoval => id = x)
    BY <1>1, <1>7, <2>2 DEF Passes, LinkWritten, Typed, Rows, Reqs
  <2> QED  BY <1>1, <1>2, <1>6, <2>1, <2>3, GoingErased
<1>8. CASE RowWritten(r) \/ RowInserted(r)
  <2>1. Step(r) \in RowWrites
    BY <1>8 DEF RowWritten, RowInserted, RowWrites
  <2>2. Step(r) \notin Removals /\ Step(r) \notin AfterRemoval /\ Step(r) # "signal"
    BY <2>1 DEF RowWrites, Inserts, Writes, Marks, Removals, AfterRemoval, Replies
  <2>3. PICK id \in Nat : Goes(r, id, "wrote")
    BY <1>8 DEF RowWritten, RowInserted, Typed, Rows
  <2> QED  BY <1>2, <1>6, <2>2, <2>3, GoingErased
<1>9. CASE RowMissed(r) \/ RowRemoved(r)
  <2>1. Step(r) # "signal"
    BY <1>9 DEF RowMissed, RowRemoved, RowWrites, Inserts, Writes, Marks, Removals
  <2>2. Gone(x)'
    BY <1>1, <1>2, <1>9, NoRowTyped DEF RowMissed, RowRemoved, Gone
  <2>3. PICK m : Goes(r, x, m)
    BY <1>1, <1>9 DEF RowMissed, RowRemoved
  <2> QED  BY <1>1, <1>2, <1>6, <2>1, <2>2, <2>3, GoingErased
<1>10. CASE TaskQueued(r)
  <2>1. Step(r) \notin Removals /\ Goes(r, x, req[r].mark)
    BY <1>1, <1>10 DEF TaskQueued, Signals, Removals
  <2>2. tasks' = Append(tasks, Erasure(x)) /\ tasks \in Seq(Queued)
    BY <1>1, <1>6, <1>10 DEF TaskQueued, Erasure, Typed
  <2>3. Erasure(x) \in Queued
    BY <1>6 DEF Erasure, Queued, Typed, Reqs
  <2>4. Erasure(x) \in Elements(tasks)'
    BY <2>2, <2>3, AppendElements
  <2>5. kind \notin OfParent => Doomed(x)'
    BY <1>2, <2>4 DEF Doomed, Others
  <2> QED  BY <1>1, <1>2, <1>6, <2>1, <2>5, GoingErased
<1>11. CASE SignalLost(r)
  BY <1>11 DEF SignalLost
<1> QED
  BY <1>7, <1>8, <1>9, <1>10, <1>11 DEF Served, Rejects, Replied

\* An accepted deletion has its removal or its task behind it.
LEMMA ReplyDooms ==
    ASSUME Typed, Sound, NEW r \in Requests, Active(r), Step(r) \in Replies,
           req[r].op = "delete", Erased(r)
    PROVE  Doomed(req[r].id)
<1>1. PICK i \in Nat, n \in Nat : i = req[r].pc /\ n = Len(Prog(r))
  BY AtStep DEF Typed, Reqs
<1>2. i \in 1 .. n /\ Step(r) = Prog(r)[i]
  BY <1>1, AtStep
<1>3. Done(r, req[r].id)
  BY DEF Erased
<1>4. Removing(kind, Prog(r))
  BY AtStep DEF Fits
<1>5. /\ i > 1 /\ Prog(r)[i - 1] \in {"delete", "delete!", "signal"}
      /\ Prog(r)[i - 1] = "signal" /\ kind \in OfParent =>
            \E j \in 1 .. i - 2 : Prog(r)[j] \in Removals
  BY <1>1, <1>2, <1>4 DEF Removing
<1>6. CASE Prog(r)[i - 1] \in Removals
  <2>1. i - 1 \in 1 .. i - 1
    BY <1>2, <1>5
  <2> QED  BY <1>1, <1>3, <1>6, <2>1 DEF Done, Doomed
<1>7. CASE Prog(r)[i - 1] = "signal" /\ kind \notin OfParent
  BY <1>1, <1>3, <1>5, <1>7 DEF Done
<1>8. CASE Prog(r)[i - 1] = "signal" /\ kind \in OfParent
  <2>1. PICK j \in 1 .. i - 2 : Prog(r)[j] \in Removals
    BY <1>5, <1>8
  <2>2. j \in 1 .. i - 1
    BY <1>2, <2>1
  <2> QED  BY <1>1, <1>3, <2>1, <2>2 DEF Done, Doomed
<1> QED  BY <1>5, <1>6, <1>7, <1>8 DEF Removals

LEMMA DelStep == ASSUME Typed, Sound, Next, DelInv PROVE DelInv'
<1> SUFFICES ASSUME ~troubled'
             PROVE  /\ \A x \in doomed' : Doomed(x)'
                    /\ \A s \in Requests : Erased(s)'
  BY DEF DelInv
<1>1. ~troubled
  BY NextCases DEF Worked, Served, Arrives, Passes, LinkWritten, Rejects, RowWritten,
     RowInserted, RowMissed, RowRemoved, TaskQueued, SignalLost, Replied, Calm
<1>2. \A x \in doomed : x \in Nat /\ x < nextId /\ Doomed(x)'
  BY <1>1, DoomedStays DEF DelInv, Typed, Sound
<1>3. CASE Worked
  BY <1>1, <1>2, <1>3, OthersErased DEF Worked, DelInv
<1>4. ASSUME NEW r \in Requests, Served(r)
      PROVE  /\ \A x \in doomed' : Doomed(x)'
             /\ \A s \in Requests : Erased(s)'
  <2>1. \A s \in Requests : Erased(s)'
    BY <1>1, <1>4, ServedErased, OthersErased DEF Served, Others, DelInv
  <2>2. CASE Replied(r) /\ req[r].op = "delete"
    <3>1. PICK y \in Nat : y = req[r].id /\ y < nextId
      BY DEF Typed, Sound, Reqs
    <3>2. Doomed(y)
      BY <1>1, <2>2, <3>1, ReplyDooms DEF Replied, Ends, DelInv
    <3>3. Doomed(y)'
      BY <3>1, <3>2, DoomedStays
    <3>4. doomed' = doomed \cup {y}
      BY <2>2, <3>1 DEF Replied
    <3> QED  BY <1>2, <2>1, <3>3, <3>4
  <2>3. CASE ~(Replied(r) /\ req[r].op = "delete")
    <3>1. doomed' = doomed
      BY <1>4, <2>3
      DEF Served, Arrives, Passes, LinkWritten, Rejects, RowWritten, RowInserted,
          RowMissed, RowRemoved, TaskQueued, SignalLost, Replied, Calm
    <3> QED  BY <1>2, <2>1, <3>1
  <2> QED  BY <2>2, <2>3
<1> QED  BY <1>3, <1>4, NextCases

\* DeleteRemoves holds of every behaviour of the API server: a row whose
\* deletion was answered with success is gone once the queue is empty, unless
\* the workflow failed, and no request that overlapped brings it back.
THEOREM Deletion == Spec => []DeleteRemoves
<1>1. Init => DelInv
  <2>1. Idle.op = "none"
    BY DEF Idle
  <2> QED  BY <2>1 DEF Init, DelInv, Erased
<1>2. Typed /\ Sound /\ DelInv /\ [Next]_vars => DelInv'
  <2> SUFFICES ASSUME Typed, Sound, DelInv, [Next]_vars PROVE DelInv'
    OBVIOUS
  <2>1. CASE UNCHANGED vars
    BY <2>1 DEF vars, DelInv, Erased, Done, Doomed, Gone, Active, Prog
  <2> QED  BY <2>1, DelStep
<1>3. Typed /\ Sound /\ DelInv => DeleteRemoves
  <2> SUFFICES ASSUME Sound, DelInv, AtRest, ~troubled, row # NoRow, row.id \in doomed,
                      row.id \notin spared
               PROVE  FALSE
    BY DEF DeleteRemoves
  <2>1. Doomed(row.id) /\ ~Gone(row.id)
    BY DEF DelInv, Gone, Sound
  <2>2. Elements(tasks) = {}
    BY DEF AtRest, Elements
  <2>3. running # Erasure(row.id)
    BY DEF AtRest, NoTask, Erasure
  <2> QED  BY <2>1, <2>2, <2>3 DEF Doomed
<1> QED  BY <1>1, <1>2, <1>3, TypedInit, NextSound, PTL DEF Spec
=============================================================================
