-------------------------- MODULE MigrationsProofs --------------------------
(***************************************************************************)
(* Proofs about Migrations, for every set of databases, Valkey instances,  *)
(* shards and writes, all bounds and all layouts of the dump directories:  *)
(* what was written outside a migration is on the node of the row's shard. *)
(***************************************************************************)
EXTENDS Migrations, TLAPS

Has(r, s) ==
    /\ There(r, s)
    /\ r \notin unread => written[r] \ risky[r] \subseteq Contents(r, s)

\* The migration in progress: the row names the source until the switch and the
\* target after it, and the data reaches the target by way of the dump.
Moving ==
    (run # Idle /\ run.wf = "migrate" /\ run.id \notin excused) =>
        /\ run.target # run.source
        /\ shard[run.id] = IF run.pc <= 7 THEN run.source ELSE run.target
        /\ run.pc \in {4, 5} => There(run.id, run.target)
        /\ (run.pc = 5 /\ run.target \in SeenOn(run.source)) =>
              /\ dump[run.id][run.target] # <<None>>
              /\ run.id \notin unread =>
                    written[run.id] \ risky[run.id] \subseteq dump[run.id][run.target][2]
        /\ run.pc \in {6, 7} => Has(run.id, run.target)
        /\ run.pc = 7 => run.target \in users[run.id]

SurvivalInv == DataSurvives /\ Moving

Safe(r) == Has(r, shard[r]) /\ (r \notin stripped => shard[r] \in users[r])
-----------------------------------------------------------------------------
(* The workflows and what a shard keeps.                                   *)

LEMMA MigrateShape ==
  ASSUME NEW p \in Jobs, p.wf = "migrate"
  PROVE  /\ Program(p) = MigrateDatabaseWorkflow
         /\ Len(Program(p)) = 11
         /\ \A pc \in 1 .. 11 :
               /\ Program(p)[pc] = "provisioning"  <=> pc = 1
               /\ Program(p)[pc] = "read"          <=> pc = 2
               /\ Program(p)[pc] = "create"        <=> pc = 3
               /\ Program(p)[pc] = "dump"          <=> pc = 4
               /\ Program(p)[pc] = "import"        <=> pc = 5
               /\ Program(p)[pc] = "users"         <=> pc = 6
               /\ Program(p)[pc] = "switch"        <=> pc = 7
               /\ Program(p)[pc] = "drop"          <=> pc = 8
               /\ Program(p)[pc] = "cleanupSource" <=> pc = 9
               /\ Program(p)[pc] = "cleanupTarget" <=> pc = 10
               /\ Program(p)[pc] = "active"        <=> pc = 11
  <1>1. Program(p) = MigrateDatabaseWorkflow
    BY DEF Program, MigrateDatabaseWorkflow, MigrateValkeyInstanceWorkflow
  <1>2. Len(MigrateDatabaseWorkflow) = 11
    BY DEF MigrateDatabaseWorkflow
  <1> QED
    BY <1>1, <1>2 DEF MigrateDatabaseWorkflow

LEMMA CreateShape ==
  ASSUME NEW p \in Jobs, p.wf = "create"
  PROVE  /\ Len(Program(p)) = 4
         /\ \A pc \in 1 .. 4 : Program(p)[pc] \in {"provisioning", "read", "create", "active"}
  <1>1. Program(p) = CreateWorkflow
    BY DEF Program
  <1>2. Len(CreateWorkflow) = 4
    BY DEF CreateWorkflow
  <1> QED
    BY <1>1, <1>2 DEF CreateWorkflow

LEMMA KeptShape ==
  ASSUME NEW tag
  PROVE  /\ <<None>> \in Kept(tag)
         /\ \A D \in SUBSET Writes : /\ <<tag, D>> \in Kept(tag) /\ <<tag, D>> # <<None>>
                                     /\ <<tag, D>>[2] = D
         /\ \A x \in Kept(tag) : x # <<None>> => x[2] \in SUBSET Writes /\ x = <<tag, x[2]>>
  BY DEF Kept

\* A running workflow and its next step.
LEMMA StepOfRun ==
  ASSUME RunOK, run # Idle, Advance(run)
  PROVE  /\ RunOK'
         /\ run \in Jobs /\ run.pc \in 1 .. Len(Program(run))
         /\ IF run.pc = Len(Program(run)) THEN run' = Idle
            ELSE /\ run' \in Jobs /\ run'.wf = run.wf /\ run'.id = run.id
                 /\ run'.source = run.source /\ run'.target = run.target /\ run'.pc = run.pc + 1
  <1>1. run \in Jobs /\ run.pc \in 1 .. Len(Program(run))
    BY DEF RunOK
  <1>2. Len(Program(run)) \in {4, 11}
    BY <1>1, MigrateShape, CreateShape DEF Jobs
  <1>3. CASE run.pc = Len(Program(run))
    BY <1>1, <1>3 DEF Advance, RunOK
  <1>4. CASE run.pc # Len(Program(run))
    <2>1. PICK j \in Jobs : j = run
      BY <1>1
    <2>2. /\ [j EXCEPT !.pc = j.pc + 1] \in Jobs
          /\ [j EXCEPT !.pc = j.pc + 1].wf = j.wf /\ [j EXCEPT !.pc = j.pc + 1].id = j.id
          /\ [j EXCEPT !.pc = j.pc + 1].source = j.source
          /\ [j EXCEPT !.pc = j.pc + 1].target = j.target
          /\ [j EXCEPT !.pc = j.pc + 1].pc = j.pc + 1
      BY DEF Jobs
    <2>3. run' = [j EXCEPT !.pc = j.pc + 1]
      BY <1>4, <2>1 DEF Advance
    <2>4. /\ run' \in Jobs /\ run'.wf = run.wf /\ run'.id = run.id
          /\ run'.source = run.source /\ run'.target = run.target /\ run'.pc = run.pc + 1
      BY <2>1, <2>2, <2>3
    <2>5. Program(run)' = Program(run)
      BY <2>4 DEF Program
    <2>6. run.pc + 1 \in 1 .. Len(Program(run))
      BY <1>1, <1>2, <1>4
    <2> QED
      BY <1>1, <1>4, <2>4, <2>5, <2>6 DEF RunOK
  <1> QED
    BY <1>1, <1>3, <1>4

\* One resource changes on one shard.
LEMMA DataChange ==
  ASSUME data \in [Resources -> [Shards -> Kept("there")]],
         NEW r \in Resources, NEW s \in Shards, NEW x \in Kept("there"),
         data' = [data EXCEPT ![r][s] = x]
  PROVE  /\ data' \in [Resources -> [Shards -> Kept("there")]]
         /\ data'[r][s] = x
         /\ \A q \in Resources, t \in Shards : (q # r \/ t # s) => data'[q][t] = data[q][t]
  OBVIOUS

\* The dump of one resource changes on some shards.
LEMMA DumpChange ==
  ASSUME dump \in [Resources -> [Shards -> Kept("file")]],
         NEW r \in Resources, NEW S, NEW x \in Kept("file"),
         dump' = [dump EXCEPT ![r] = [t \in Shards |-> IF t \in S THEN x ELSE dump[r][t]]]
  PROVE  /\ dump' \in [Resources -> [Shards -> Kept("file")]]
         /\ \A t \in Shards \cap S : dump'[r][t] = x
         /\ \A q \in Resources \ {r} : dump'[q] = dump[q]
  <1>1. [t \in Shards |-> IF t \in S THEN x ELSE dump[r][t]] \in [Shards -> Kept("file")]
    OBVIOUS
  <1> QED
    BY <1>1

LEMMA ContentsType ==
  ASSUME data \in [Resources -> [Shards -> Kept("there")]],
         NEW r \in Resources, NEW s \in Shards, There(r, s)
  PROVE  Contents(r, s) \in SUBSET Writes
  <1>1. data[r][s] \in Kept("there")
    OBVIOUS
  <1> QED
    BY <1>1, KeptShape DEF Contents, There

LEMMA TypeInit == Init => TypeOK
  <1> SUFFICES ASSUME Init PROVE TypeOK
    OBVIOUS
  <1>1. PICK s \in Shards :
          /\ shard = [r \in Resources |-> s]
          /\ data = [r \in Resources |-> [t \in Shards |-> IF t = s THEN <<"there", {}>> ELSE <<None>>]]
          /\ users = [r \in Resources |-> {s}]
    BY DEF Init
  <1>2. <<"there", {}>> \in Kept("there") /\ <<None>> \in Kept("there") /\ <<None>> \in Kept("file")
    BY KeptShape
  <1>3. data \in [Resources -> [Shards -> Kept("there")]]
    BY <1>1, <1>2
  <1>4. dump \in [Resources -> [Shards -> Kept("file")]]
    BY <1>2 DEF Init
  <1>5. queue \in Seq(Tasks) /\ RunOK
    BY DEF Init, RunOK
  <1>6. migrations \in 0 .. MaxMigrations /\ faults \in 0 .. MaxFaults
    BY MigrationConstants DEF Init
  <1> QED
    BY <1>1, <1>3, <1>4, <1>5, <1>6, MigrationConstants DEF Init, TypeOK

\* What the activities of a workflow do to the five tables they may write.
LEMMA EffectType ==
  ASSUME TypeOK, NEW p \in Jobs, NEW step, CanSucceed(p, step), Effect(p, step)
  PROVE  /\ status' \in [Resources -> {"active", "provisioning", "failed"}]
         /\ shard' \in [Resources -> Shards]
         /\ data' \in [Resources -> [Shards -> Kept("there")]]
         /\ dump' \in [Resources -> [Shards -> Kept("file")]]
         /\ users' \in [Resources -> SUBSET Shards]
  <1> USE DEF TypeOK
  <1>0. p.id \in Resources /\ p.source \in Shards /\ p.target \in Shards
    BY DEF Jobs
  <1>1. CASE step \in {"provisioning", "active"}
    BY <1>0, <1>1 DEF Effect, SetStatus
  <1>2. CASE step = "create"
    <2>1. PICK x : /\ x = IF data[p.id][p.target] = <<None>> THEN <<"there", {}>> ELSE data[p.id][p.target]
                   /\ data' = [data EXCEPT ![p.id][p.target] = x]
      BY <1>2 DEF Effect, CreateOn
    <2>2. x \in Kept("there")
      BY <1>0, <2>1, KeptShape
    <2>3. data' \in [Resources -> [Shards -> Kept("there")]]
      BY <1>0, <2>1, <2>2, DataChange
    <2>4. users' = users \/ users' = [users EXCEPT ![p.id] = users[p.id] \ {p.target}]
      BY <1>2 DEF Effect, CreateOn
    <2>5. users' \in [Resources -> SUBSET Shards]
      BY <1>0, <2>4
    <2> QED
      BY <1>2, <2>3, <2>5 DEF Effect
  <1>3. CASE step = "dump"
    <2>1. Contents(p.id, p.source) \in SUBSET Writes
      BY <1>0, <1>3, ContentsType DEF CanSucceed
    <2>2. dump' = [dump EXCEPT ![p.id] = [t \in Shards |->
                     IF t \in SeenOn(p.source) THEN <<"file", Contents(p.id, p.source)>> ELSE dump[p.id][t]]]
      BY <1>3 DEF Effect, DumpTo
    <2>3. <<"file", Contents(p.id, p.source)>> \in Kept("file")
      BY <2>1, KeptShape
    <2>4. dump' \in [Resources -> [Shards -> Kept("file")]]
      BY <1>0, <2>2, <2>3, DumpChange
    <2> QED
      BY <1>3, <2>4 DEF Effect
  <1>4. CASE step = "import"
    <2>1. PICK x : /\ x = IF dump[p.id][p.target] = <<None>> THEN data[p.id][p.target]
                          ELSE <<"there", dump[p.id][p.target][2]>>
                   /\ data' = [data EXCEPT ![p.id][p.target] = x]
      BY <1>4 DEF Effect, Import
    <2>2. dump[p.id][p.target] \in Kept("file") /\ data[p.id][p.target] \in Kept("there")
      BY <1>0
    <2>3. x \in Kept("there")
      BY <2>1, <2>2, KeptShape
    <2>4. data' \in [Resources -> [Shards -> Kept("there")]]
      BY <1>0, <2>1, <2>3, DataChange
    <2> QED
      BY <1>4, <2>4 DEF Effect
  <1>5. CASE step = "users"
    <2>1. users' = [users EXCEPT ![p.id] = users[p.id] \cup {p.target}]
      BY <1>5 DEF Effect
    <2>2. users' \in [Resources -> SUBSET Shards]
      BY <1>0, <2>1
    <2> QED
      BY <1>5, <2>2 DEF Effect
  <1>6. CASE step = "switch"
    BY <1>0, <1>6 DEF Effect
  <1>7. CASE step = "drop"
    <2>1. data' = [data EXCEPT ![p.id][p.source] = <<None>>]
      BY <1>7 DEF Effect
    <2>2. data' \in [Resources -> [Shards -> Kept("there")]]
      BY <1>0, <2>1, DataChange, KeptShape
    <2>3. users' = [users EXCEPT ![p.id] = users[p.id] \ {p.source}]
      BY <1>7 DEF Effect
    <2>4. users' \in [Resources -> SUBSET Shards]
      BY <1>0, <2>3
    <2> QED
      BY <1>7, <2>2, <2>4 DEF Effect
  <1>8. CASE step \in {"cleanupSource", "cleanupTarget"}
    <2>1. PICK s : dump' = [dump EXCEPT ![p.id] = [t \in Shards |->
                               IF t \in SeenOn(s) THEN <<None>> ELSE dump[p.id][t]]]
      BY <1>8 DEF Effect, CleanupMigrateFile
    <2>2. dump' \in [Resources -> [Shards -> Kept("file")]]
      BY <1>0, <2>1, DumpChange, KeptShape
    <2> QED
      BY <1>8, <2>2 DEF Effect
  <1>9. CASE step \notin {"provisioning", "active", "create", "dump", "import", "users", "switch",
                          "drop", "cleanupSource", "cleanupTarget"}
    BY <1>9 DEF Effect
  <1> QED
    BY <1>1, <1>2, <1>3, <1>4, <1>5, <1>6, <1>7, <1>8, <1>9

LEMMA TypeStep == TypeOK /\ [Next]_vars => TypeOK'
  <1> SUFFICES ASSUME TypeOK, [Next]_vars PROVE TypeOK'
    OBVIOUS
  <1> USE MigrationConstants DEF TypeOK
  <1>1. CASE Start
    <2>1. Head(queue) \in Tasks /\ queue' \in Seq(Tasks)
      BY <1>1 DEF Start
    <2>2. PICK t \in Tasks : t = Head(queue)
      BY <2>1
    <2>3. /\ t.wf \in {"migrate", "create"} /\ t.id \in Resources
          /\ t.wf # "create" => t.target \in Shards
      BY DEF Tasks
    <2>4. /\ run' \in Jobs /\ run'.pc = 1
      <3>1. shard[t.id] \in Shards
        BY <2>3
      <3>2. PICK target \in Shards : target = IF t.wf = "create" THEN shard[t.id] ELSE t.target
        BY <2>3, <3>1
      <3>3. run' = [wf |-> t.wf, id |-> t.id, pc |-> 1, target |-> target, source |-> shard[t.id]]
        BY <1>1, <2>2, <3>2 DEF Start
      <3> QED
        BY <2>3, <3>1, <3>3 DEF Jobs
    <2>5. run'.pc \in 1 .. Len(Program(run'))
      <3>1. ASSUME NEW p \in Jobs PROVE 1 \in 1 .. Len(Program(p))
        BY MigrateShape, CreateShape DEF Jobs
      <3> QED
        BY <2>4, <3>1
    <2>6. RunOK'
      BY <2>4, <2>5 DEF RunOK
    <2> QED
      BY <1>1, <2>1, <2>2, <2>3, <2>6 DEF Start
  <1>2. CASE Activity
    <2>1. RunOK' /\ run \in Jobs
      BY <1>2, StepOfRun DEF Activity
    <2>2. unread' \subseteq Resources /\ stripped' \subseteq Instances
      <3>1. run.id \in Resources
        BY <2>1 DEF Jobs
      <3>2. PICK step : Histories(run, step)
        BY <1>2 DEF Activity
      <3>3. unread' = unread \/ unread' = unread \cup {run.id}
        BY <3>2 DEF Histories
      <3>4. stripped' \subseteq stripped \/ (run.id \in Instances /\ stripped' = stripped \cup {run.id})
        BY <3>2 DEF Histories
      <3> QED
        BY <3>1, <3>3, <3>4
    <2> QED
      BY <1>2, <2>1, <2>2, EffectType DEF Activity
  <1>3. CASE ActivityFails
    <2>1. run \in Jobs /\ run.id \in Resources
      BY <1>3 DEF ActivityFails, RunOK, Jobs
    <2>2. /\ faults' \in {faults, faults + 1} /\ (faults' # faults => faults < MaxFaults)
          /\ Advance(run) \/ run' = Idle
          /\ status' = status \/ status' = [status EXCEPT ![run.id] = "failed"]
      BY <1>3 DEF ActivityFails, SetStatus
    <2>3. RunOK'
      BY <1>3, <2>2, StepOfRun DEF ActivityFails, RunOK
    <2>4. status' \in [Resources -> {"active", "provisioning", "failed"}]
      BY <2>1, <2>2
    <2>5. faults' \in 0 .. MaxFaults
      BY <2>2
    <2> QED
      BY <1>3, <2>3, <2>4, <2>5 DEF ActivityFails
  <1>4. CASE DumpFailsUnnoticed
    <2>1. RunOK' /\ run \in Jobs
      BY <1>4, StepOfRun DEF DumpFailsUnnoticed
    <2>2. run.id \in Resources
      BY <2>1 DEF Jobs
    <2>3. dump' \in [Resources -> [Shards -> Kept("file")]]
      <3>1. dump' = [dump EXCEPT ![run.id] = [t \in Shards |->
                       IF t \in SeenOn(run.source) THEN <<"file", {}>> ELSE dump[run.id][t]]]
        BY <1>4 DEF DumpFailsUnnoticed, DumpBroken
      <3> QED
        BY <2>2, <3>1, DumpChange, KeptShape
    <2> QED
      BY <1>4, <2>1, <2>2, <2>3 DEF DumpFailsUnnoticed
  <1>5. ASSUME NEW r \in Resources, Retry(r) PROVE TypeOK'
    <2>1. [wf |-> "create", id |-> r, target |-> None] \in Tasks
      BY DEF Tasks
    <2>2. queue' \in Seq(Tasks)
      BY <1>5, <2>1 DEF Retry
    <2>3. RunOK'
      BY <1>5 DEF Retry, RunOK, Program
    <2> QED
      BY <1>5, <2>2, <2>3 DEF Retry, SetStatus
  <1>6. ASSUME NEW r \in Resources, NEW s \in Shards, Migrate(r, s) PROVE TypeOK'
    <2>1. [wf |-> "migrate", id |-> r, target |-> s] \in Tasks
      BY DEF Tasks
    <2>2. queue' \in Seq(Tasks)
      BY <1>6, <2>1 DEF Migrate
    <2>3. RunOK'
      BY <1>6 DEF Migrate, RunOK, Program
    <2> QED
      BY <1>6, <2>2, <2>3 DEF Migrate, SetStatus
  <1>7. ASSUME NEW r \in Resources, NEW w \in Writes, Write(r, w) PROVE TypeOK'
    <2>1. data[r][shard[r]] \in Kept("there") /\ shard[r] \in Shards
      OBVIOUS
    <2>2. data[r][shard[r]][2] \cup {w} \in SUBSET Writes
      BY <1>7, ContentsType DEF Write, Contents
    <2>3. data' = [data EXCEPT ![r][shard[r]] = <<"there", data[r][shard[r]][2] \cup {w}>>]
      BY <1>7 DEF Write
    <2>4. data' \in [Resources -> [Shards -> Kept("there")]]
      BY <2>1, <2>2, <2>3, KeptShape, DataChange
    <2>5. written' \in [Resources -> SUBSET Writes] /\ risky' \in [Resources -> SUBSET Writes]
      BY <1>7 DEF Write
    <2>6. RunOK'
      BY <1>7 DEF Write, RunOK, Program
    <2> QED
      BY <1>7, <2>4, <2>5, <2>6 DEF Write
  <1>8. CASE UNCHANGED vars
    BY <1>8 DEF vars, RunOK, Program
  <1> QED
    BY <1>1, <1>2, <1>3, <1>4, <1>5, <1>6, <1>7, <1>8 DEF Next

\* Every table keeps its type, and the running workflow stays within its program.
THEOREM Typing == Spec => []TypeOK
  BY TypeInit, TypeStep, PTL DEF Spec
-----------------------------------------------------------------------------
(* Survival.                                                               *)

LEMMA SafeParts == DataSurvives <=> \A r \in Resources \ excused : Safe(r)
  BY DEF DataSurvives, Safe, Has

\* An activity touches no resource but its own.
LEMMA OthersKept ==
  ASSUME TypeOK, NEW p \in Jobs, NEW step, Effect(p, step)
  PROVE  \A r \in Resources \ {p.id} :
            data'[r] = data[r] /\ users'[r] = users[r] /\ shard'[r] = shard[r]
  <1> USE DEF TypeOK
  <1>1. p.id \in Resources
    BY DEF Jobs
  <1>2. shard' = shard \/ shard' = [shard EXCEPT ![p.id] = p.target]
    BY DEF Effect
  <1>3. \/ users' = users
        \/ users' = [users EXCEPT ![p.id] = users[p.id] \cup {p.target}]
        \/ users' = [users EXCEPT ![p.id] = users[p.id] \ {p.source}]
        \/ users' = [users EXCEPT ![p.id] = users[p.id] \ {p.target}]
    BY DEF Effect, CreateOn
  <1>4. \/ data' = data
        \/ \E s, x : data' = [data EXCEPT ![p.id][s] = x]
    <2>1. CASE step \in {"create", "import", "drop"}
      BY <2>1 DEF Effect, CreateOn, Import
    <2>2. CASE step \notin {"create", "import", "drop"}
      BY <2>2 DEF Effect
    <2> QED
      BY <2>1, <2>2
  <1> QED
    BY <1>1, <1>2, <1>3, <1>4

\* Creating what is there changes nothing.
LEMMA CreateKeeps ==
  ASSUME TypeOK, NEW r \in Resources, NEW s \in Shards, CreateOn(r, s),
         UNCHANGED <<written, risky, unread>>
  PROVE  \A q \in Resources, t \in Shards : Has(q, t) => Has(q, t)'
  <1>1. PICK x : /\ x = IF data[r][s] = <<None>> THEN <<"there", {}>> ELSE data[r][s]
                 /\ data' = [data EXCEPT ![r][s] = x]
    BY DEF CreateOn
  <1>2. x \in Kept("there")
    BY <1>1, KeptShape DEF TypeOK
  <1>3. /\ data'[r][s] = x
        /\ \A q \in Resources, t \in Shards : (q # r \/ t # s) => data'[q][t] = data[q][t]
    BY <1>1, <1>2, DataChange DEF TypeOK
  <1>4. \A q \in Resources, t \in Shards : There(q, t) => data'[q][t] = data[q][t]
    BY <1>1, <1>3 DEF There
  <1> QED
    BY <1>4 DEF Has, There, Contents

\* The activities of a migration, one by one.
LEMMA MigrationStep ==
  ASSUME TypeOK, SurvivalInv, Activity, run.wf = "migrate",
         NEW r \in Resources \ excused, run.id = r
  PROVE  Safe(r)' /\ Moving'
  <1> USE DEF TypeOK
  <1> DEFINE keep == written[r] \ risky[r]
             src == run.source
             dst == run.target
             step == Program(run)[run.pc]
  <1>1. /\ run \in Jobs /\ run.pc \in 1 .. Len(Program(run))
        /\ IF run.pc = Len(Program(run)) THEN run' = Idle
           ELSE /\ run' \in Jobs /\ run'.wf = run.wf /\ run'.id = run.id
                /\ run'.source = run.source /\ run'.target = run.target /\ run'.pc = run.pc + 1
    BY StepOfRun DEF Activity
  <1>2. /\ src \in Shards /\ dst \in Shards
        /\ run.pc \in 1 .. 11 /\ Len(Program(run)) = 11
    BY <1>1, MigrateShape DEF Jobs
  <1>3. /\ CanSucceed(run, step) /\ Effect(run, step)
        /\ Histories(run, step)
        /\ UNCHANGED <<layout, written, risky, excused>>
    BY DEF Activity
  <1>4. /\ dst # src
        /\ shard[r] = IF run.pc <= 7 THEN src ELSE dst
        /\ run.pc \in {4, 5} => There(r, dst)
        /\ (run.pc = 5 /\ dst \in SeenOn(src)) =>
              /\ dump[r][dst] # <<None>>
              /\ r \notin unread => keep \subseteq dump[r][dst][2]
        /\ run.pc \in {6, 7} => Has(r, dst)
        /\ run.pc = 7 => dst \in users[r]
    BY DEF SurvivalInv, Moving, Activity
  <1>5. Safe(r)
    BY SafeParts DEF SurvivalInv
  <1>6. /\ step = "provisioning"  <=> run.pc = 1
        /\ step = "read"          <=> run.pc = 2
        /\ step = "create"        <=> run.pc = 3
        /\ step = "dump"          <=> run.pc = 4
        /\ step = "import"        <=> run.pc = 5
        /\ step = "users"         <=> run.pc = 6
        /\ step = "switch"        <=> run.pc = 7
        /\ step = "drop"          <=> run.pc = 8
        /\ step = "cleanupSource" <=> run.pc = 9
        /\ step = "cleanupTarget" <=> run.pc = 10
        /\ step = "active"        <=> run.pc = 11
    BY <1>1, <1>2, MigrateShape
  <1> HIDE DEF step
  <1>15. /\ run.pc # 5 => unread' = unread
         /\ run.pc = 5 => unread' = IF dst \notin SeenOn(src) THEN unread \cup {r} ELSE unread
         /\ run.pc # 7 => stripped' = stripped
    BY <1>3, <1>6 DEF Histories
  \* The next state's Moving, in the terms of this state.
  <1>7. ASSUME run.pc # 11 =>
                  /\ shard'[r] = IF run.pc + 1 <= 7 THEN src ELSE dst
                  /\ run.pc + 1 \in {4, 5} => data'[r][dst] # <<None>>
                  /\ (run.pc + 1 = 5 /\ dst \in SeenOn(src)) =>
                        /\ dump'[r][dst] # <<None>>
                        /\ r \notin unread' => keep \subseteq dump'[r][dst][2]
                  /\ run.pc + 1 \in {6, 7} =>
                        /\ data'[r][dst] # <<None>>
                        /\ r \notin unread' => keep \subseteq data'[r][dst][2]
                  /\ run.pc + 1 = 7 => dst \in users'[r]
        PROVE  Moving'
    <2>1. CASE run.pc = 11
      BY <1>1, <1>2, <2>1 DEF Moving
    <2>2. CASE run.pc # 11
      <3>1. /\ run'.wf = run.wf /\ run'.id = r
            /\ run'.source = src /\ run'.target = dst /\ run'.pc = run.pc + 1
        BY <1>1, <1>2, <2>2
      <3> QED
        BY <1>3, <1>4, <1>7, <2>2, <3>1 DEF Moving, Has, There, Contents, SeenOn
    <2> QED
      BY <2>1, <2>2
  <1>8. CASE run.pc \in {1, 2, 9, 10, 11}
    <2>1. UNCHANGED <<shard, data, users>>
      BY <1>3, <1>6, <1>8 DEF Effect
    <2>2. Safe(r)'
      BY <1>3, <1>5, <1>8, <1>15, <2>1 DEF Safe, Has, There, Contents
    <2> QED
      BY <1>4, <1>7, <1>8, <2>1, <2>2
  <1>9. CASE run.pc = 3
    <2>1. CreateOn(r, dst) /\ UNCHANGED shard
      BY <1>3, <1>6, <1>9 DEF Effect
    <2>7. written' = written /\ risky' = risky /\ unread' = unread /\ stripped' = stripped
      BY <1>3, <1>9, <1>15
    <2>8. CreateOn(r, dst) /\ r \in Resources /\ dst \in Shards /\ src \in Shards
      BY <1>2, <2>1
    <2>9. \A q \in Resources, t \in Shards : Has(q, t) => Has(q, t)'
      BY <2>7, <2>8, CreateKeeps
    <2>2. PICK s \in Shards : s = src /\ (Has(r, s) => Has(r, s)')
      BY <2>8, <2>9
    <2>3. users' = users \/ users' = [users EXCEPT ![r] = users[r] \ {dst}]
      BY <2>1 DEF CreateOn
    <2>4. src \in users[r] => src \in users'[r]
      BY <1>4, <2>3
    <2>5. Safe(r)'
      <3>1. shard[r] = s /\ shard'[r] = s
        BY <1>4, <1>9, <2>1, <2>2
      <3>2. s \in users[r] => s \in users'[r]
        BY <2>2, <2>4
      <3> QED
        BY <1>5, <2>2, <2>7, <3>1, <3>2 DEF Safe, Has, There, Contents
    <2>6. data'[r][dst] # <<None>>
      <3>1. PICK x : /\ x = IF data[r][dst] = <<None>> THEN <<"there", {}>> ELSE data[r][dst]
                     /\ data' = [data EXCEPT ![r][dst] = x]
        BY <2>1 DEF CreateOn
      <3>2. x \in Kept("there") /\ x # <<None>>
        BY <1>2, <3>1, KeptShape
      <3>3. data'[r][dst] = x
        BY <2>8, <3>1, <3>2, DataChange
      <3> QED
        BY <3>2, <3>3
    <2> QED
      BY <1>4, <1>7, <1>9, <2>1, <2>5, <2>6
  <1>10. CASE run.pc = 4
    <2>1. DumpTo(r, src) /\ UNCHANGED <<shard, data, users>> /\ There(r, src)
      BY <1>3, <1>6, <1>10 DEF Effect, CanSucceed
    <2>2. Safe(r)'
      BY <1>3, <1>5, <1>10, <1>15, <2>1 DEF Safe, Has, There, Contents
    <2>3. dump' = [dump EXCEPT ![r] = [t \in Shards |->
                      IF t \in SeenOn(src) THEN <<"file", Contents(r, src)>> ELSE dump[r][t]]]
      BY <2>1 DEF DumpTo
    <2>4. Contents(r, src) \in SUBSET Writes
      BY <1>2, <2>1, ContentsType
    <2>5. dst \in SeenOn(src) => dump'[r][dst] = <<"file", Contents(r, src)>>
      BY <1>2, <2>3
    <2>6. dst \in SeenOn(src) => dump'[r][dst] # <<None>> /\ dump'[r][dst][2] = Contents(r, src)
      BY <2>4, <2>5, KeptShape
    <2>7. r \notin unread => keep \subseteq Contents(r, src)
      BY <1>4, <1>5, <1>10 DEF Safe, Has
    <2>8. data'[r][dst] # <<None>>
      BY <1>4, <1>10, <2>1 DEF There
    <2> QED
      BY <1>4, <1>7, <1>10, <1>15, <2>1, <2>2, <2>6, <2>7, <2>8
  <1>11. CASE run.pc = 5
    <2>1. Import(r, dst) /\ UNCHANGED <<shard, users>>
      BY <1>3, <1>6, <1>11 DEF Effect
    <2>2. dump[r][dst] \in Kept("file") /\ data[r][dst] \in Kept("there") /\ data[r][dst] # <<None>>
      BY <1>2, <1>4, <1>11 DEF There
    <2>3. PICK x : /\ x = IF dump[r][dst] = <<None>> THEN data[r][dst] ELSE <<"there", dump[r][dst][2]>>
                   /\ data' = [data EXCEPT ![r][dst] = x]
      BY <2>1 DEF Import
    <2>4. /\ x \in Kept("there") /\ x # <<None>>
          /\ dump[r][dst] # <<None>> => x[2] = dump[r][dst][2]
      BY <2>2, <2>3, KeptShape
    <2>5. data'[r][dst] = x /\ data'[r][src] = data[r][src]
      BY <1>2, <1>4, <2>3, <2>4, DataChange
    <2>6. r \notin unread' => keep \subseteq x[2]
      BY <1>4, <1>11, <1>15, <2>4
    <2>7. Safe(r)'
      BY <1>3, <1>4, <1>5, <1>11, <1>15, <2>1, <2>5 DEF Safe, Has, There, Contents
    <2> QED
      BY <1>4, <1>7, <1>11, <2>1, <2>4, <2>5, <2>6, <2>7
  <1>12. CASE run.pc = 6
    <2>1. users' = [users EXCEPT ![r] = users[r] \cup {dst}] /\ UNCHANGED <<shard, data>>
      BY <1>3, <1>6, <1>12 DEF Effect
    <2>2. users'[r] = users[r] \cup {dst}
      BY <2>1
    <2>3. Safe(r)'
      BY <1>3, <1>5, <1>12, <1>15, <2>1, <2>2 DEF Safe, Has, There, Contents
    <2>4. data[r][dst] # <<None>> /\ (r \notin unread => keep \subseteq data[r][dst][2])
      BY <1>4, <1>12 DEF Has, There, Contents
    <2> QED
      BY <1>4, <1>7, <1>12, <1>15, <2>1, <2>2, <2>3, <2>4
  <1>13. CASE run.pc = 7
    <2>1. shard' = [shard EXCEPT ![r] = dst] /\ UNCHANGED <<data, users>>
      BY <1>3, <1>6, <1>13 DEF Effect
    <2>2. shard'[r] = dst
      BY <2>1
    <2>3. Safe(r)'
      BY <1>3, <1>4, <1>13, <1>15, <2>1, <2>2 DEF Safe, Has, There, Contents
    <2> QED
      BY <1>7, <1>13, <2>2, <2>3
  <1>14. CASE run.pc = 8
    <2>1. /\ data' = [data EXCEPT ![r][src] = <<None>>]
          /\ users' = [users EXCEPT ![r] = users[r] \ {src}]
          /\ shard' = shard
      BY <1>3, <1>6, <1>14 DEF Effect
    <2>2. data'[r][dst] = data[r][dst]
      BY <1>2, <1>4, <2>1
    <2>3. dst \in users[r] => dst \in users'[r]
      BY <1>4, <2>1
    <2>4. Safe(r)'
      BY <1>3, <1>4, <1>5, <1>14, <1>15, <2>1, <2>2, <2>3 DEF Safe, Has, There, Contents
    <2> QED
      BY <1>4, <1>7, <1>14, <2>1, <2>4
  <1> QED
    BY <1>2, <1>8, <1>9, <1>10, <1>11, <1>12, <1>13, <1>14

LEMMA SurvivalActivity ==
  ASSUME TypeOK, SurvivalInv, Activity
  PROVE  SurvivalInv'
  <1>1. /\ run \in Jobs /\ run.pc \in 1 .. Len(Program(run))
        /\ IF run.pc = Len(Program(run)) THEN run' = Idle
           ELSE run'.wf = run.wf /\ run'.id = run.id
    BY StepOfRun DEF Activity, TypeOK
  <1>2. /\ Effect(run, Program(run)[run.pc]) /\ UNCHANGED <<written, risky, excused>>
        /\ Histories(run, Program(run)[run.pc])
    BY DEF Activity
  <1>7. \A q : q # run.id => (q \in unread' <=> q \in unread) /\ (q \in stripped' <=> q \in stripped)
    BY <1>2 DEF Histories
  <1>3. ASSUME NEW q \in Resources \ excused, q # run.id PROVE Safe(q)'
    <2>1. data'[q] = data[q] /\ users'[q] = users[q] /\ shard'[q] = shard[q]
      BY <1>1, <1>2, <1>3, OthersKept
    <2> QED
      BY <1>2, <1>3, <1>7, <2>1, SafeParts DEF SurvivalInv, Safe, Has, There, Contents
  <1>4. CASE run.wf = "migrate" /\ run.id \notin excused
    <2>1. PICK r \in Resources \ excused : r = run.id
      BY <1>1, <1>4 DEF Jobs
    <2>2. Safe(r)' /\ Moving'
      BY <1>4, <2>1, MigrationStep
    <2> QED
      BY <1>2, <1>3, <2>1, <2>2, SafeParts DEF SurvivalInv, DataSurvives, Safe, Has
  <1>5. CASE run.wf = "migrate" /\ run.id \in excused
    <2>1. Moving'
      BY <1>1, <1>2, <1>5 DEF Moving
    <2> QED
      BY <1>2, <1>3, <1>5, <2>1 DEF SurvivalInv, DataSurvives, Safe, Has
  <1>6. CASE run.wf = "create"
    <2>1. Program(run)[run.pc] \in {"provisioning", "read", "create", "active"}
      BY <1>1, <1>6, CreateShape
    <2>2. Moving'
      BY <1>1, <1>6 DEF Moving
    <2>3. /\ UNCHANGED shard /\ unread' = unread
          /\ \/ UNCHANGED <<data, users, stripped>>
             \/ /\ CreateOn(run.id, run.target)
                /\ run.id \in Instances => stripped' = stripped \cup {run.id}
                /\ run.id \notin Instances => stripped' = stripped
      BY <1>2, <1>6, <2>1 DEF Effect, Histories
    <2>4. \A q \in Resources, t \in Shards : Has(q, t) => Has(q, t)'
      <3>1. CASE data' = data
        BY <1>2, <2>3, <3>1 DEF Has, There, Contents
      <3>2. CASE CreateOn(run.id, run.target)
        BY <1>1, <1>2, <2>3, <3>2, CreateKeeps DEF Jobs
      <3> QED
        BY <2>3, <3>1, <3>2
    <2>5. ASSUME NEW q \in Resources \ excused PROVE Safe(q)'
      <3>1. Safe(q) /\ shard[q] \in Shards
        BY <2>5, SafeParts DEF SurvivalInv, TypeOK
      <3>2. q \notin stripped' => q \notin stripped /\ users'[q] = users[q]
        <4>1. CASE UNCHANGED <<data, users, stripped>>
          BY <4>1
        <4>2. CASE CreateOn(run.id, run.target)
          <5>1. run.id \notin Instances => users' = users
            BY <4>2 DEF CreateOn
          <5>2. q # run.id => users'[q] = users[q] /\ (q \in stripped' <=> q \in stripped)
            BY <1>1, <1>2, <1>7, <2>5, OthersKept
          <5> QED
            BY <2>3, <5>1, <5>2
        <4> QED
          BY <2>3, <4>1, <4>2
      <3> QED
        BY <2>3, <2>4, <3>1, <3>2 DEF Safe
    <2> QED
      BY <1>2, <2>2, <2>5 DEF SurvivalInv, DataSurvives, Safe, Has
  <1> QED
    BY <1>1, <1>4, <1>5, <1>6 DEF Jobs

\* SurvivalInv does not read the status, the queue or the counters.
LEMMA SurvivalSame ==
  ASSUME SurvivalInv, UNCHANGED <<layout, shard, data, users, dump, written, risky, run, excused,
                                unread, stripped>>
  PROVE  SurvivalInv'
  BY DEF SurvivalInv, DataSurvives, Moving, Has, There, Contents, SeenOn

LEMMA SurvivalStep == TypeOK /\ SurvivalInv /\ [Next]_vars => SurvivalInv'
  <1> SUFFICES ASSUME TypeOK, SurvivalInv, [Next]_vars PROVE SurvivalInv'
    OBVIOUS
  <1>1. CASE Start
    <2>1. PICK t \in Tasks : t = Head(queue)
      BY <1>1 DEF Start, TypeOK
    <2>2. /\ t.wf \in {"migrate", "create"} /\ t.id \in Resources
      BY DEF Tasks
    <2>3. PICK target : target = IF t.wf = "create" THEN shard[t.id] ELSE t.target
      OBVIOUS
    <2>4. run' = [wf |-> t.wf, id |-> t.id, pc |-> 1, target |-> target, source |-> shard[t.id]]
      BY <1>1, <2>1, <2>3 DEF Start
    <2>5. run'.wf = t.wf /\ run'.id = t.id /\ run'.pc = 1 /\ run'.target = target
          /\ run'.source = shard[t.id]
      BY <2>4
    <2>6. excused \subseteq excused' /\ (t.id \notin excused' => t.target # shard[t.id])
      BY <1>1, <2>1 DEF Start
    <2>7. UNCHANGED <<shard, data, users, dump, written, risky, unread, stripped>>
      BY <1>1 DEF Start
    <2>8. DataSurvives'
      BY <2>6, <2>7 DEF SurvivalInv, DataSurvives, There, Contents
    <2>9. Moving'
      BY <2>2, <2>3, <2>5, <2>6, <2>7 DEF Moving
    <2> QED
      BY <2>8, <2>9 DEF SurvivalInv
  <1>2. CASE Activity
    BY <1>2, SurvivalActivity
  <1>3. CASE ActivityFails
    <2>1. UNCHANGED <<shard, data, users, dump, written, risky, excused, unread, stripped>>
      BY <1>3 DEF ActivityFails
    <2>2. DataSurvives'
      BY <2>1 DEF SurvivalInv, DataSurvives, There, Contents
    <2>3. CASE run' = Idle
      BY <2>2, <2>3 DEF SurvivalInv, Moving
    <2>4. CASE run' # Idle
      <3>1. Program(run)[run.pc] \in BestEffort /\ Advance(run) /\ run # Idle
        BY <1>3, <2>4 DEF ActivityFails
      <3>2. /\ run \in Jobs /\ run.pc \in 1 .. Len(Program(run))
            /\ run'.wf = run.wf /\ run'.id = run.id
            /\ run'.source = run.source /\ run'.target = run.target /\ run'.pc = run.pc + 1
        BY <2>4, <3>1, StepOfRun DEF TypeOK
      <3>3. run.wf = "migrate" => run.pc \in {8, 9, 10}
        BY <3>1, <3>2, MigrateShape DEF BestEffort
      <3> QED
        BY <2>1, <2>2, <3>1, <3>2, <3>3 DEF SurvivalInv, Moving
    <2> QED
      BY <2>3, <2>4
  <1>4. CASE DumpFailsUnnoticed
    <2>1. /\ UNCHANGED <<shard, data, users, written, risky, unread, stripped>>
          /\ excused' = excused \cup {run.id}
      BY <1>4 DEF DumpFailsUnnoticed
    <2>2. IF run.pc = Len(Program(run)) THEN run' = Idle ELSE run'.id = run.id
      BY <1>4, StepOfRun DEF DumpFailsUnnoticed, TypeOK
    <2>3. DataSurvives'
      BY <2>1 DEF SurvivalInv, DataSurvives, There, Contents
    <2>4. Moving'
      BY <2>1, <2>2 DEF Moving
    <2> QED
      BY <2>3, <2>4 DEF SurvivalInv
  <1>5. ASSUME NEW r \in Resources, Retry(r) PROVE SurvivalInv'
    BY <1>5, SurvivalSame DEF Retry
  <1>6. ASSUME NEW r \in Resources, NEW s \in Shards, Migrate(r, s) PROVE SurvivalInv'
    BY <1>6, SurvivalSame DEF Migrate
  <1>7. ASSUME NEW r \in Resources, NEW w \in Writes, Write(r, w) PROVE SurvivalInv'
    <2> USE DEF TypeOK
    <2> DEFINE s == shard[r]
               old == data[r][s][2]
    <2>1. /\ UNCHANGED <<layout, shard, users, dump, run, excused, unread, stripped>>
          /\ written' = [written EXCEPT ![r] = written[r] \cup {w}]
          /\ There(r, s)
          /\ data' = [data EXCEPT ![r][s] = <<"there", old \cup {w}>>]
          /\ risky' = IF run.id = r THEN [risky EXCEPT ![r] = risky[r] \cup {w}] ELSE risky
      BY <1>7 DEF Write
    <2>2. old \cup {w} \in SUBSET Writes /\ s \in Shards
      BY <2>1, ContentsType DEF Contents
    <2>3. /\ <<"there", old \cup {w}>> \in Kept("there")
          /\ <<"there", old \cup {w}>> # <<None>>
          /\ <<"there", old \cup {w}>>[2] = old \cup {w}
      BY <2>2, KeptShape
    <2>4. /\ data'[r][s] = <<"there", old \cup {w}>>
          /\ \A q \in Resources, t \in Shards : (q # r \/ t # s) => data'[q][t] = data[q][t]
      BY <2>1, <2>2, <2>3, DataChange
    <2>5. \A q \in Resources \ {r} : written'[q] = written[q] /\ risky'[q] = risky[q]
      BY <2>1
    <2>6. written'[r] \ risky'[r] \subseteq (written[r] \ risky[r]) \cup {w}
      BY <2>1
    <2>7. run.id = r => written'[r] \ risky'[r] = written[r] \ risky[r]
      BY <1>7, <2>1 DEF Write
    <2>8. ASSUME NEW q \in Resources \ excused PROVE Safe(q)'
      <3>1. Safe(q) /\ shard[q] \in Shards
        BY <2>8, SafeParts DEF SurvivalInv
      <3>2. CASE q = r
        BY <2>1, <2>3, <2>4, <2>6, <3>1, <3>2 DEF Safe, Has, There, Contents
      <3>3. CASE q # r
        BY <2>1, <2>4, <2>5, <3>1, <3>3 DEF Safe, Has, There, Contents
      <3> QED
        BY <3>2, <3>3
    <2>9. DataSurvives'
      BY <2>1, <2>8 DEF DataSurvives, Safe, Has
    <2>10. Moving'
      <3> SUFFICES ASSUME run # Idle, run.wf = "migrate", run.id \notin excused
                   PROVE  Moving'
        BY <2>1 DEF Moving
      <3>1. run.id \in Resources /\ run.target \in Shards /\ run.source \in Shards
        BY DEF RunOK, Jobs
      <3>2. /\ run.target # run.source
            /\ shard[run.id] = IF run.pc <= 7 THEN run.source ELSE run.target
            /\ run.pc \in {4, 5} => There(run.id, run.target)
            /\ (run.pc = 5 /\ run.target \in SeenOn(run.source)) =>
                  /\ dump[run.id][run.target] # <<None>>
                  /\ run.id \notin unread =>
                        written[run.id] \ risky[run.id] \subseteq dump[run.id][run.target][2]
            /\ run.pc \in {6, 7} => Has(run.id, run.target)
            /\ run.pc = 7 => run.target \in users[run.id]
        BY DEF SurvivalInv, Moving
      <3>3. written'[run.id] \ risky'[run.id] = written[run.id] \ risky[run.id]
        BY <2>5, <2>7, <3>1
      <3>4. run.pc \in {4, 5, 6, 7} => data'[run.id][run.target] = data[run.id][run.target]
        <4>1. run.pc \in {4, 5, 6, 7} => shard[run.id] # run.target
          BY <3>2
        <4> HIDE DEF s, old
        <4>2. run.pc \in {4, 5, 6, 7} => (run.id # r \/ run.target # s)
          BY <4>1 DEF s
        <4> QED
          BY <2>4, <3>1, <4>2
      <3>5. run.pc \in {6, 7} => Has(run.id, run.target)'
        BY <2>1, <3>2, <3>3, <3>4 DEF Has, There, Contents
      <3>6. run.pc \in {4, 5} => There(run.id, run.target)'
        BY <2>1, <3>2, <3>4 DEF There
      <3> QED
        BY <2>1, <3>2, <3>3, <3>5, <3>6 DEF Moving, SeenOn
    <2> QED
      BY <2>9, <2>10 DEF SurvivalInv
  <1>8. CASE UNCHANGED vars
    BY <1>8, SurvivalSame DEF vars
  <1> QED
    BY <1>1, <1>2, <1>3, <1>4, <1>5, <1>6, <1>7, <1>8 DEF Next

\* Whichever nodes share the directory of the dumps: a database or instance that
\* was not dumped with an unnoticed error nor moved to its own shard is, at every
\* moment of every sequence of migrations, failures and retries, on the node of its
\* row's shard; with every write made outside a migration, unless an import went
\* without its dump; and with its users, unless Retry has created the instance over
\* itself since it moved last.
THEOREM Survival == Spec => []DataSurvives
  <1>1. Init => SurvivalInv
    <2> SUFFICES ASSUME Init PROVE SurvivalInv
      OBVIOUS
    <2>1. PICK s \in Shards :
          /\ shard = [r \in Resources |-> s]
          /\ data = [r \in Resources |-> [t \in Shards |-> IF t = s THEN <<"there", {}>> ELSE <<None>>]]
          /\ users = [r \in Resources |-> {s}]
      BY DEF Init
    <2>2. \A r \in Resources : data[r][shard[r]] = <<"there", {}>>
      BY <2>1
    <2>3. DataSurvives
      BY <2>1, <2>2, KeptShape DEF Init, DataSurvives, There, Contents
    <2>4. Moving
      BY DEF Init, Moving
    <2> QED
      BY <2>3, <2>4 DEF SurvivalInv
  <1>2. TypeOK /\ SurvivalInv /\ [Next]_vars => SurvivalInv'
    BY SurvivalStep
  <1>3. SurvivalInv => DataSurvives
    BY DEF SurvivalInv
  <1> QED
    BY <1>1, <1>2, <1>3, Typing, PTL DEF Spec
=============================================================================
