----------------------------- MODULE Migrations -----------------------------
(***************************************************************************)
(* Moving a database or a Valkey instance to another shard: created on the *)
(* target's first node, dumped to a file on the source's first node,       *)
(* imported from a file of the same path on the target's, its users        *)
(* created again, the row's shard switched, the source dropped.  Clients   *)
(* keep writing to the node of the row's shard all the while.              *)
(*                                                                         *)
(* The tasks of the one tenant run one at a time.  A shell pipeline of the *)
(* database manager reports the exit status of its last command only.      *)
(***************************************************************************)
EXTENDS Integers, Sequences, FiniteSets

CONSTANTS
    Databases, Instances,  \* the MySQL databases and the Valkey instances
    Shards,                \* the shards; a shard is its first node, nodes[0]
    Layouts,               \* which shards may see the dump files written on which
    Writes,                \* the writes of clients
    MaxMigrations, MaxFaults

Resources == Databases \cup Instances
None == "none"

ASSUME MigrationConstants ==
    /\ Layouts \subseteq [Shards -> SUBSET Shards]
    /\ MaxMigrations \in Nat /\ MaxFaults \in Nat
    /\ None \notin Shards

VARIABLES
    layout,         \* layout[s]: the shards that see a dump written on s
    status, shard,  \* the row's status and shard_id
    data,           \* data[r][s]: the writes kept on s, or "none" if r is not there
    users,          \* where the resource's users exist
    dump,           \* dump[r][s]: the dump file as seen on s, or "none"
    written,        \* the writes clients have made
    risky,          \* the writes made during a migration
    queue, run, migrations, faults,
    excused,        \* resources dumped with an unnoticed error, or moved to their own shard
    unread,         \* resources whose import went without the dump just made
    stripped        \* instances whose users a retry took away

vars == <<layout, status, shard, data, users, dump, written, risky, queue, run,
          migrations, faults, excused, unread, stripped>>

Idle == [wf |-> None, id |-> None, target |-> None, source |-> None, pc |-> 0]

\* A database dump or import is a pipeline: the failure of its first command,
\* mysqldump or gunzip, goes unnoticed.
Piped(r) == r \in Databases

\* A dump written on s is seen on every node that shares its directory.
SeenOn(s) == {s} \cup layout[s]
-----------------------------------------------------------------------------
MigrateDatabaseWorkflow ==
    <<"provisioning", "read", "create", "dump", "import", "users", "switch",
      "drop", "cleanupSource", "cleanupTarget", "active">>
\* The source is dropped before the target has the data.
MigrateValkeyInstanceWorkflowDropFirst ==
    <<"provisioning", "read", "create", "dump", "drop", "import", "users", "switch",
      "cleanupSource", "cleanupTarget", "active">>

MigrateValkeyInstanceWorkflow ==
    <<"provisioning", "read", "create", "dump", "import", "users", "switch",
      "drop", "cleanupSource", "cleanupTarget", "active">>

\* What Retry queues: the create workflow, on the row's shard.  Of the users it
\* creates again only those that are pending.
CreateWorkflow == <<"provisioning", "read", "create", "active">>

Program(p) ==
    IF p.wf = "create" THEN CreateWorkflow
    ELSE IF p.id \in Databases THEN MigrateDatabaseWorkflow ELSE MigrateValkeyInstanceWorkflow

BestEffort == {"drop", "cleanupSource", "cleanupTarget"}
-----------------------------------------------------------------------------
(* The activities.                                                         *)

SetStatus(r, s) == status' = [status EXCEPT ![r] = s]

Contents(r, s) == data[r][s][2]
There(r, s)    == data[r][s] # <<None>>

\* CREATE DATABASE IF NOT EXISTS; a Valkey instance that exists is configured
\* anew, which leaves the default user as the only one of its ACL file.
CreateOn(r, s) ==
    /\ data' = [data EXCEPT ![r][s] = IF @ = <<None>> THEN <<"there", {}>> ELSE @]
    /\ users' = IF r \in Instances THEN [users EXCEPT ![r] = @ \ {s}] ELSE users

DumpTo(r, s) ==
    dump' = [dump EXCEPT ![r] = [t \in Shards |-> IF t \in SeenOn(s) THEN <<"file", Contents(r, s)>> ELSE @[t]]]

\* The pipeline leaves an empty file and succeeds.
DumpBroken(r, s) ==
    dump' = [dump EXCEPT ![r] = [t \in Shards |-> IF t \in SeenOn(s) THEN <<"file", {}>> ELSE @[t]]]

\* mysql replays the dump, which replaces the tables, or nothing if there is no
\* file; cp replaces the RDB file, and fails if there is none.
CanImport(r, s) == Piped(r) \/ dump[r][s] # <<None>>

Import(r, s) ==
    data' = [data EXCEPT ![r][s] =
        IF dump[r][s] = <<None>> THEN @ ELSE <<"there", dump[r][s][2]>>]

\* Removes every file of the path that the node sees.
CleanupMigrateFile(r, s) ==
    dump' = [dump EXCEPT ![r] = [t \in Shards |-> IF t \in SeenOn(s) THEN <<None>> ELSE @[t]]]

CanSucceed(p, step) ==
    CASE step = "dump"   -> There(p.id, p.source)
      [] step = "import" -> CanImport(p.id, p.target)
      [] step = "cleanupSource" -> dump[p.id][p.source] # <<None>>
      [] step = "cleanupTarget" -> dump[p.id][p.target] # <<None>>
      [] OTHER -> TRUE

Effect(p, step) ==
    CASE step \in {"provisioning", "active"} ->
            SetStatus(p.id, step) /\ UNCHANGED <<shard, data, users, dump>>
      [] step = "create" -> /\ CreateOn(p.id, p.target)
                            /\ UNCHANGED <<status, shard, dump>>
      [] step = "dump"   -> /\ DumpTo(p.id, p.source)
                            /\ UNCHANGED <<status, shard, data, users>>
      [] step = "import" -> /\ Import(p.id, p.target)
                            /\ UNCHANGED <<status, shard, users, dump>>
      [] step = "users"  -> /\ users' = [users EXCEPT ![p.id] = @ \cup {p.target}]
                            /\ UNCHANGED <<status, shard, data, dump>>
      [] step = "switch" -> /\ shard' = [shard EXCEPT ![p.id] = p.target]
                            /\ UNCHANGED <<status, data, users, dump>>
      [] step = "drop"   -> /\ data' = [data EXCEPT ![p.id][p.source] = <<None>>]
                            /\ users' = [users EXCEPT ![p.id] = @ \ {p.source}]
                            /\ UNCHANGED <<status, shard, dump>>
      [] step = "cleanupSource" -> /\ CleanupMigrateFile(p.id, p.source)
                                   /\ UNCHANGED <<status, shard, data, users>>
      [] step = "cleanupTarget" -> /\ CleanupMigrateFile(p.id, p.target)
                                   /\ UNCHANGED <<status, shard, data, users>>
      [] OTHER -> UNCHANGED <<status, shard, data, users, dump>>
-----------------------------------------------------------------------------
Advance(p) == run' = IF p.pc = Len(Program(p)) THEN Idle ELSE [p EXCEPT !.pc = @ + 1]

Start ==
    /\ run = Idle /\ queue # <<>>
    /\ run' = [wf |-> Head(queue).wf, id |-> Head(queue).id, pc |-> 1,
               target |-> IF Head(queue).wf = "create" THEN shard[Head(queue).id]
                          ELSE Head(queue).target,
               source |-> shard[Head(queue).id]]
    /\ excused' = IF Head(queue).target = shard[Head(queue).id]
                  THEN excused \cup {Head(queue).id} ELSE excused
    /\ queue' = Tail(queue)
    /\ UNCHANGED <<layout, status, shard, data, users, dump, written, risky, migrations, faults,
                   unread, stripped>>

Histories(p, step) ==
    /\ unread' = IF step = "import" /\ p.target \notin SeenOn(p.source) THEN unread \cup {p.id}
                 ELSE unread
    /\ stripped' = CASE step = "create" /\ p.wf = "create" /\ p.id \in Instances -> stripped \cup {p.id}
                     [] step = "switch" -> stripped \ {p.id}
                     [] OTHER -> stripped

Activity ==
    /\ run # Idle
    /\ \E step \in {Program(run)[run.pc]} :
          CanSucceed(run, step) /\ Effect(run, step) /\ Histories(run, step)
    /\ Advance(run)
    /\ UNCHANGED <<layout, written, risky, queue, migrations, faults, excused>>

\* A failed clean-up is ignored; a failed status update ends the workflow; any
\* other failure is reported as the row's status.
ActivityFails ==
    /\ run # Idle
    /\ \E step \in {Program(run)[run.pc]} :
          /\ \/ faults < MaxFaults /\ faults' = faults + 1
             \/ ~CanSucceed(run, step) /\ faults' = faults
          /\ IF step \in BestEffort THEN Advance(run) /\ UNCHANGED status
             ELSE /\ run' = Idle
                  /\ IF step \in {"provisioning", "active"} THEN UNCHANGED status
                     ELSE SetStatus(run.id, "failed")
    /\ UNCHANGED <<layout, shard, data, users, dump, written, risky, queue, migrations, excused,
                   unread, stripped>>

\* mysqldump dies and gzip succeeds.
DumpFailsUnnoticed ==
    /\ run # Idle /\ Piped(run.id)
    /\ Program(run)[run.pc] = "dump"
    /\ faults < MaxFaults /\ faults' = faults + 1
    /\ DumpBroken(run.id, run.source)
    /\ excused' = excused \cup {run.id}
    /\ Advance(run)
    /\ UNCHANGED <<layout, status, shard, data, users, written, risky, queue, migrations,
                   unread, stripped>>
-----------------------------------------------------------------------------
(* The API and the clients.                                                *)

Migrate(r, target) ==
    /\ migrations < MaxMigrations /\ migrations' = migrations + 1
    /\ SetStatus(r, "provisioning")
    /\ queue' = Append(queue, [wf |-> "migrate", id |-> r, target |-> target])
    /\ UNCHANGED <<layout, shard, data, users, dump, written, risky, run, faults, excused,
                   unread, stripped>>

Retry(r) ==
    /\ status[r] = "failed"
    /\ SetStatus(r, "provisioning")
    /\ queue' = Append(queue, [wf |-> "create", id |-> r, target |-> None])
    /\ UNCHANGED <<layout, shard, data, users, dump, written, risky, run, migrations, faults,
                   excused, unread, stripped>>

\* An instance's default user is always there.
Write(r, w) ==
    /\ w \notin written[r] /\ There(r, shard[r])
    /\ r \in Instances \/ shard[r] \in users[r]
    /\ written' = [written EXCEPT ![r] = @ \cup {w}]
    /\ data' = [data EXCEPT ![r][shard[r]] = <<"there", @[2] \cup {w}>>]
    /\ risky' = IF run.id = r THEN [risky EXCEPT ![r] = @ \cup {w}] ELSE risky
    /\ UNCHANGED <<layout, status, shard, users, dump, queue, run, migrations, faults, excused,
                   unread, stripped>>
-----------------------------------------------------------------------------
Init ==
    /\ layout \in Layouts
    /\ status = [r \in Resources |-> "active"]
    /\ \E s \in Shards :
          /\ shard = [r \in Resources |-> s]
          /\ data = [r \in Resources |-> [t \in Shards |-> IF t = s THEN <<"there", {}>> ELSE <<None>>]]
          /\ users = [r \in Resources |-> {s}]
    /\ dump = [r \in Resources |-> [s \in Shards |-> <<None>>]]
    /\ written = [r \in Resources |-> {}] /\ risky = [r \in Resources |-> {}]
    /\ queue = <<>> /\ run = Idle /\ migrations = 0 /\ faults = 0
    /\ excused = {} /\ unread = {} /\ stripped = {}

Next ==
    \/ Start \/ Activity \/ ActivityFails \/ DumpFailsUnnoticed
    \/ \E r \in Resources : \/ Retry(r)
                            \/ \E s \in Shards : Migrate(r, s)
                            \/ \E w \in Writes : Write(r, w)

Spec == Init /\ [][Next]_vars
-----------------------------------------------------------------------------
\* A shard keeps a resource, or a dump, with some of the writes, or does not.
Kept(tag) == {<<None>>} \cup ({tag} \X SUBSET Writes)

Tasks ==
    [wf : {"migrate"}, id : Resources, target : Shards] \cup
    [wf : {"create"}, id : Resources, target : {None}]

Jobs == [wf : {"migrate", "create"}, id : Resources, target : Shards, source : Shards, pc : Nat]

RunOK == run = Idle \/ (run \in Jobs /\ run.pc \in 1 .. Len(Program(run)))

TypeOK ==
    /\ layout \in [Shards -> SUBSET Shards]
    /\ status \in [Resources -> {"active", "provisioning", "failed"}]
    /\ shard \in [Resources -> Shards]
    /\ data \in [Resources -> [Shards -> Kept("there")]]
    /\ dump \in [Resources -> [Shards -> Kept("file")]]
    /\ users \in [Resources -> SUBSET Shards]
    /\ written \in [Resources -> SUBSET Writes] /\ risky \in [Resources -> SUBSET Writes]
    /\ queue \in Seq(Tasks) /\ RunOK
    /\ migrations \in 0 .. MaxMigrations /\ faults \in 0 .. MaxFaults
    /\ excused \subseteq Resources /\ unread \subseteq Resources /\ stripped \subseteq Instances

\* MigrateDatabaseWorkflow and MigrateValkeyInstanceWorkflow: the node of the
\* row's shard has the resource, with every write made outside a migration and
\* with its users, at every moment, whatever failed and was retried.  Not so
\* after a dump that broke unnoticed, nor after a migration to the shard the
\* resource is on.  The writes are not promised either where the import went
\* without the dump, because the target's node does not see the file: MySQL then
\* imports nothing, and succeeds.  The users are not where Retry created a Valkey
\* instance over an existing one, until it moves.
DataSurvives ==
    \A r \in Resources \ excused :
        /\ There(r, shard[r])
        /\ r \notin stripped => shard[r] \in users[r]
        /\ r \notin unread => written[r] \ risky[r] \subseteq Contents(r, shard[r])

\* docs/databases.md: the dump is replayed on the target, so that a database
\* that was moved has its data.
MovedHasData ==
    \A r \in Databases : (status[r] = "active" /\ run = Idle /\ excused = {}) =>
        written[r] \ risky[r] \subseteq Contents(r, shard[r])
=============================================================================
