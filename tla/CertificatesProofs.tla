------------------------- MODULE CertificatesProofs -------------------------
(***************************************************************************)
(* Proofs about Certificates, for every set of certificates and nodes and  *)
(* all bounds: outside a switch the active certificate is the installed    *)
(* one.                                                                    *)
(***************************************************************************)
EXTENDS Certificates, TLAPS

Holding(c) == \A n \in Nodes : files[n] = Pair(c)

\* No switch has done anything yet.
Untouched == \A s \in Slots : InSwitch(s) => Step(s) = "InstallCertificate" /\ written[s] = {}

OnlyInstalling == \A s \in Slots : ~(Busy(s) /\ Step(s) = "InstallCertificate") => written[s] = {}

MetKnown == \A s, t \in Slots : (s # t /\ InSwitch(s) /\ InSwitch(t)) => s \in overlap

ActiveHeld == (~troubled /\ Untouched) => \A c \in Certs : cert[c].active => Holding(c)

\* A switch that met no other: what it has written is there; then the nodes hold
\* its certificate, and at its end no other is active.
Alone(s) ==
    (InSwitch(s) /\ s \notin overlap) =>
        /\ \A n \in Nodes, part \in Parts : <<n, part>> \in written[s] => files[n][part] = run[s].id
        /\ Step(s) # "InstallCertificate" => Holding(run[s].id)
        /\ Step(s) = "ActivateCertificate" => \A c \in Certs : cert[c].active => c = run[s].id

SwitchInv == OnlyInstalling /\ MetKnown /\ ActiveHeld /\ \A s \in Slots : Alone(s)

-----------------------------------------------------------------------------
(* The shape of the two workflows: the switch is their end.                *)

LEMMA Shape ==
  ASSUME NEW wf \in Workflows
  PROVE  /\ Len(Program(wf)) \in Nat \ {0, 1, 2, 3}
         /\ Program(wf)[1] \notin Switch
         /\ \A pc \in 1 .. Len(Program(wf)) :
               /\ Program(wf)[pc] = "ActivateCertificate" <=> pc = Len(Program(wf))
               /\ Program(wf)[pc] = "DeactivateOtherCerts" <=> pc + 1 = Len(Program(wf))
               /\ Program(wf)[pc] = "InstallCertificate" <=> pc + 2 = Len(Program(wf))
               /\ Program(wf)[pc] = "CleanupHTTP01Challenge" => pc + 4 = Len(Program(wf))
  <1>1. CASE wf = "ProvisionLECertWorkflow"
    <2>1. Program(wf) = ProvisionLECertWorkflow
      BY <1>1 DEF Program
    <2>2. Len(ProvisionLECertWorkflow) = 13
      BY DEF ProvisionLECertWorkflow
    <2> QED
      BY <2>1, <2>2 DEF ProvisionLECertWorkflow, Switch
  <1>2. CASE wf = "UploadCustomCertWorkflow"
    <2>1. Program(wf) = UploadCustomCertWorkflow
      BY <1>2 DEF Program
    <2>2. Len(UploadCustomCertWorkflow) = 7
      BY DEF UploadCustomCertWorkflow
    <2> QED
      BY <2>1, <2>2 DEF UploadCustomCertWorkflow, Switch
  <1> QED
    BY <1>1, <1>2 DEF Workflows

\* NewID draws an unused identifier whenever there is one.
LEMMA FreshID ==
  ASSUME Unused # {}
  PROVE  NewID \in Certs /\ cert[NewID] = NoRow
  <1>1. NewID \in Unused
    BY DEF NewID
  <1> QED
    BY <1>1 DEF Unused

LEMMA NoRowType ==
  NoRow \in Rows /\ ~NoRow.active /\ NoRow.type = None /\ NoRow.status = None /\ NoRow.age = None
  BY DEF Rows, NoRow, None

LEMMA UpdateOfRow ==
  ASSUME RowsOK, NEW c \in Certs, NEW row \in Rows, row.type = cert[c].type, Update(c, row)
  PROVE  /\ RowsOK'
         /\ \A d \in Certs : d # c => cert'[d] = cert[d]
         /\ cert'[c] \in {cert[c], row}
  <1>1. CASE cert[c] = NoRow
    BY <1>1 DEF RowsOK, Update
  <1>2. CASE cert[c] # NoRow
    <2>1. cert' = [cert EXCEPT ![c] = row]
      BY <1>2 DEF Update
    <2>2. row.type # None
      BY <1>2 DEF RowsOK
    <2> QED
      BY <2>1, <2>2 DEF RowsOK
  <1> QED
    BY <1>1, <1>2

LEMMA OrderTypes ==
  /\ NoOrder \in Orders
  /\ \A o \in Orders :
        /\ \A st \in {"pending", "accepted", "issued"} : [o EXCEPT !.order = st] \in Orders
        /\ \A f \in BOOLEAN : [o EXCEPT !.file = f] \in Orders
  BY DEF Orders, NoOrder, None

\* What an activity does to the rows.
LEMMA EffectOfActivity ==
  ASSUME TypeOK, NEW p, p.id \in Certs, NEW step, Effect(p, step)
  PROVE  /\ RowsOK'
         /\ acme' \in [Certs -> Orders]
         /\ step # "ActivateCertificate" => \A c \in Certs : cert'[c].active => cert[c].active
         /\ step = "DeactivateOtherCerts" => \A c \in Certs : cert'[c].active => c = p.id
         /\ step = "ActivateCertificate" =>
               \A c \in Certs : cert'[c].active => cert[c].active \/ c = p.id
  <1>1. acme' \in [Certs -> Orders]
    <2>1. acme \in [Certs -> Orders]
      BY DEF TypeOK, Orders
    <2>2. \/ acme' = acme
          \/ acme' = [acme EXCEPT ![p.id].order = "pending"]
          \/ acme' = [acme EXCEPT ![p.id].order = "accepted"]
          \/ acme' = [acme EXCEPT ![p.id].order = "issued"]
          \/ acme' = [acme EXCEPT ![p.id].file = TRUE]
          \/ acme' = [acme EXCEPT ![p.id].file = FALSE]
      BY DEF Effect, CreateOrder, PlaceHTTP01Challenge, AcceptChallenge, FinalizeOrder,
             CleanupHTTP01Challenge
    <2>3. acme[p.id] \in Orders
      BY <2>1
    <2>4. \E o \in Orders : acme' = acme \/ acme' = [acme EXCEPT ![p.id] = o]
      BY <2>2, <2>3, OrderTypes, Zenon
    <2> QED
      BY <2>1, <2>4
  <1>3. /\ RowsOK'
        /\ step # "ActivateCertificate" => \A c \in Certs : cert'[c].active => cert[c].active
        /\ step = "DeactivateOtherCerts" => \A c \in Certs : cert'[c].active => c = p.id
        /\ step = "ActivateCertificate" =>
              \A c \in Certs : cert'[c].active => cert[c].active \/ c = p.id
    <2> DEFINE row == cert[p.id]
    <2>0. RowsOK /\ row \in Rows
      BY DEF TypeOK, RowsOK
    <2>1. CASE step = "CreateCertificate"
      <3>1. cert' = [cert EXCEPT ![p.id] = [NoRow EXCEPT !.type = "le", !.status = "pending"]]
        BY <2>1 DEF Effect, CreateCertificate
      <3> QED
        BY <2>0, <2>1, <3>1 DEF RowsOK, Rows, NoRow, None
    <2>2. CASE step = "provisioning"
      <3>1. Update(p.id, [row EXCEPT !.status = "provisioning"])
        BY <2>2 DEF Effect, UpdateResourceStatus
      <3>2. /\ [row EXCEPT !.status = "provisioning"] \in Rows
            /\ [row EXCEPT !.status = "provisioning"].type = row.type
            /\ [row EXCEPT !.status = "provisioning"].active = row.active
        BY <2>0 DEF Rows
      <3> QED
        BY <2>0, <2>2, <3>1, <3>2, UpdateOfRow
    <2>3. CASE step = "StoreCertificate"
      <3>1. Update(p.id, [row EXCEPT !.pem = TRUE, !.age = "fresh"])
        BY <2>3 DEF Effect, StoreCertificate
      <3>2. /\ [row EXCEPT !.pem = TRUE, !.age = "fresh"] \in Rows
            /\ [row EXCEPT !.pem = TRUE, !.age = "fresh"].type = row.type
            /\ [row EXCEPT !.pem = TRUE, !.age = "fresh"].active = row.active
        BY <2>0 DEF Rows, Older
      <3> QED
        BY <2>0, <2>3, <3>1, <3>2, UpdateOfRow
    <2>4. CASE step = "DeactivateOtherCerts"
      <3>1. cert' = [d \in Certs |-> IF d # p.id /\ cert[d].active
                                     THEN [cert[d] EXCEPT !.active = FALSE] ELSE cert[d]]
        BY <2>4 DEF Effect, DeactivateOtherCerts
      <3>2. \A r \in Rows : /\ [r EXCEPT !.active = FALSE] \in Rows
                            /\ ~[r EXCEPT !.active = FALSE].active
                            /\ [r EXCEPT !.active = FALSE].type = r.type
        BY DEF Rows
      <3>3. ASSUME NEW d \in Certs
            PROVE  /\ cert'[d] \in Rows
                   /\ cert'[d].type = None => cert'[d] = NoRow
                   /\ cert'[d].active => d = p.id /\ cert[d].active
        <4>1. PICK r \in Rows : r = cert[d]
          BY <2>0 DEF RowsOK
        <4>2. r.type = None => r = NoRow /\ ~r.active
          BY <2>0, <4>1, NoRowType DEF RowsOK
        <4>3. cert'[d] = IF d # p.id /\ r.active THEN [r EXCEPT !.active = FALSE] ELSE r
          BY <3>1, <4>1
        <4> QED
          BY <3>2, <4>1, <4>2, <4>3
      <3> QED
        BY <2>4, <3>1, <3>3 DEF RowsOK
    <2>5. CASE step = "ActivateCertificate"
      <3>1. Update(p.id, [row EXCEPT !.active = TRUE, !.status = "active"])
        BY <2>5 DEF Effect, ActivateCertificate
      <3>2. /\ [row EXCEPT !.active = TRUE, !.status = "active"] \in Rows
            /\ [row EXCEPT !.active = TRUE, !.status = "active"].type = row.type
        BY <2>0 DEF Rows
      <3> QED
        BY <2>0, <2>5, <3>1, <3>2, UpdateOfRow
    <2>6. CASE step \notin {"CreateCertificate", "provisioning", "StoreCertificate",
                            "DeactivateOtherCerts", "ActivateCertificate"}
      <3>1. cert' = cert
        BY <2>6 DEF Effect
      <3> QED
        BY <2>0, <2>6, <3>1 DEF RowsOK
    <2> QED
      BY <2>1, <2>2, <2>3, <2>4, <2>5, <2>6
  <1> QED
    BY <1>1, <1>3
-----------------------------------------------------------------------------
(* Typing.                                                                 *)

LEMMA NoJob == Idle \notin Jobs
  BY DEF Idle, Jobs, Workflows, None

\* A started workflow is at its first step.
LEMMA StartOfRun ==
  ASSUME RunsOK, NEW s \in Slots, NEW wf \in Workflows, NEW id \in Certs,
         run' = [run EXCEPT ![s] = [wf |-> wf, id |-> id, pc |-> 1]]
  PROVE  RunsOK'
  <1>1. [wf |-> wf, id |-> id, pc |-> 1] \in Jobs
    BY DEF Jobs
  <1>2. 1 \in 1 .. Len(Program(wf))
    BY Shape
  <1> QED
    BY <1>1, <1>2 DEF RunsOK, Busy

LEMMA EndOfRun ==
  ASSUME RunsOK, NEW s \in Slots, run' = [run EXCEPT ![s] = Idle]
  PROVE  RunsOK'
  BY DEF RunsOK, Busy

\* The next step of a workflow, or its end.
LEMMA StepOfRun ==
  ASSUME RunsOK, NEW s \in Slots, Busy(s), Advance(s)
  PROVE  /\ RunsOK'
         /\ \A t \in Slots : t # s => run'[t] = run[t]
         /\ run[s] \in Jobs
         /\ IF run[s].pc = Len(Program(run[s].wf)) THEN run'[s] = Idle
            ELSE run'[s] \in Jobs /\ run'[s].wf = run[s].wf /\ run'[s].id = run[s].id
                 /\ run'[s].pc = run[s].pc + 1
  <1>1. PICK j \in Jobs : j = run[s]
    BY DEF RunsOK, Busy
  <1>2. j.pc \in 1 .. Len(Program(j.wf)) /\ Len(Program(j.wf)) \in Nat
    BY <1>1, Shape DEF RunsOK, Jobs
  <1>3. CASE j.pc = Len(Program(j.wf))
    <2>1. run' = [run EXCEPT ![s] = Idle]
      BY <1>1, <1>3 DEF Advance
    <2> QED
      BY <1>1, <1>3, <2>1, EndOfRun DEF RunsOK
  <1>4. CASE j.pc # Len(Program(j.wf))
    <2>0. /\ [j EXCEPT !.pc = j.pc + 1] \in Jobs
          /\ [j EXCEPT !.pc = j.pc + 1].wf = j.wf
          /\ [j EXCEPT !.pc = j.pc + 1].id = j.id
          /\ [j EXCEPT !.pc = j.pc + 1].pc = j.pc + 1
      BY DEF Jobs
    <2>1. PICK k \in Jobs : k = [j EXCEPT !.pc = j.pc + 1]
      BY <2>0
    <2>2. k.wf = j.wf /\ k.id = j.id /\ k.pc = j.pc + 1
      BY <2>0, <2>1
    <2>3. run' = [run EXCEPT ![s] = k]
      BY <1>1, <1>4, <2>1 DEF Advance
    <2>4. k.pc \in 1 .. Len(Program(k.wf))
      <3>1. j.pc + 1 \in 1 .. Len(Program(j.wf))
        BY <1>2, <1>4
      <3> QED
        BY <2>2, <3>1
    <2>5. RunsOK'
      BY <2>3, <2>4 DEF RunsOK, Busy
    <2> QED
      BY <1>1, <1>4, <2>2, <2>3, <2>5 DEF RunsOK
  <1> QED
    BY <1>3, <1>4

LEMMA TypeInit == Init => TypeOK
  <1> SUFFICES ASSUME Init PROVE TypeOK
    OBVIOUS
  <1>1. RowsOK
    BY NoRowType DEF Init, RowsOK
  <1>2. RunsOK
    BY DEF Init, RunsOK, Busy
  <1>3. acme \in [Certs -> Orders]
    BY OrderTypes DEF Init
  <1>4. /\ files \in [Nodes -> [Parts -> Certs \cup {None}]] /\ queue \in Seq(Tasks)
        /\ written \in [Slots -> SUBSET (Nodes \X Parts)] /\ overlap \subseteq Slots
        /\ renewals \subseteq Certs /\ incidents \subseteq Certs
    BY DEF Init, Pair
  <1>5. /\ uploads \in 0 .. MaxUploads /\ binds \in 0 .. MaxBinds /\ faults \in 0 .. MaxFaults
        /\ agings \in 0 .. MaxAgings
    BY CertConstants DEF Init
  <1>6. troubled \in BOOLEAN
    BY DEF Init
  <1> QED
    BY <1>1, <1>2, <1>3, <1>4, <1>5, <1>6 DEF TypeOK

LEMMA TypeStep == TypeOK /\ [Next]_vars => TypeOK'
  <1> SUFFICES ASSUME TypeOK, [Next]_vars PROVE TypeOK'
    OBVIOUS
  <1> USE CertConstants DEF nodeVars, histories
  <1>1. CASE Bind
    <2>1. [wf |-> "ProvisionLECertWorkflow", id |-> None] \in Tasks
      BY DEF Tasks, Workflows
    <2> QED
      BY <1>1, <2>1 DEF Bind, TypeOK, RowsOK, RunsOK, Busy
  <1>2. CASE Upload
    <2>1. NewID \in Certs
      BY <1>2, FreshID DEF Upload
    <2>2. [wf |-> "UploadCustomCertWorkflow", id |-> NewID] \in Tasks
      BY <2>1 DEF Tasks, Workflows
    <2>3. PICK row : row = [NoRow EXCEPT !.type = "custom", !.status = "pending", !.pem = TRUE]
      OBVIOUS
    <2>4. row \in Rows /\ row.type # None
      BY <2>3 DEF NoRow, Rows, None
    <2>5. RowsOK'
      BY <1>2, <2>1, <2>3, <2>4 DEF Upload, TypeOK, RowsOK
    <2> QED
      BY <1>2, <2>2, <2>5 DEF Upload, TypeOK, RunsOK, Busy
  <1>3. CASE StartQueued
    <2>1. Head(queue) \in Tasks /\ queue' \in Seq(Tasks)
      BY <1>3 DEF StartQueued, TypeOK
    <2>2. Head(queue).wf \in Workflows /\ Head(queue).id \in Certs \cup {None}
      BY <2>1 DEF Tasks
    <2>3. PICK id \in Certs :
             run' = [run EXCEPT !["queue"] = [wf |-> Head(queue).wf, id |-> id, pc |-> 1]]
      BY <1>3, <2>2, FreshID DEF StartQueued
    <2>4. RunsOK'
      BY <2>2, <2>3, StartOfRun DEF Slots, TypeOK
    <2> QED
      BY <1>3, <2>1, <2>4 DEF StartQueued, TypeOK, RowsOK
  <1>4. CASE RenewLECert
    BY <1>4 DEF RenewLECert, GetExpiringLECerts, TypeOK, RowsOK, RunsOK, Busy
  <1>5. CASE StartRenewal
    <2>1. NewID \in Certs
      BY <1>5, FreshID DEF StartRenewal
    <2>2. RunsOK'
      BY <1>5, <2>1, StartOfRun DEF StartRenewal, Slots, Workflows, TypeOK
    <2> QED
      BY <1>5, <2>2 DEF StartRenewal, TypeOK, RowsOK
  <1>6. CASE CheckCertExpiry
    BY <1>6 DEF CheckCertExpiry, GetExpiringCerts, TypeOK, RowsOK, RunsOK, Busy
  <1>7. ASSUME NEW s \in Slots, Activity(s) PROVE TypeOK'
    <2>1. RunsOK' /\ run[s] \in Jobs
      BY <1>7, StepOfRun DEF Activity, TypeOK
    <2>2. PICK step : Effect(run[s], step)
      BY <1>7 DEF Activity
    <2>3. RowsOK' /\ acme' \in [Certs -> Orders]
      BY <2>1, <2>2, EffectOfActivity DEF Jobs
    <2>4. overlap' \subseteq Slots /\ written' \in [Slots -> SUBSET (Nodes \X Parts)]
      BY <1>7 DEF Activity, TypeOK
    <2>5. troubled' \in BOOLEAN
      <3>1. CASE Step(s) = "ActivateCertificate"
        BY <1>7, <3>1 DEF Activity
      <3>2. CASE Step(s) # "ActivateCertificate"
        BY <1>7, <3>2 DEF Activity, TypeOK
      <3> QED
        BY <3>1, <3>2
    <2> QED
      BY <1>7, <2>1, <2>3, <2>4, <2>5 DEF Activity, TypeOK
  <1>8. ASSUME NEW s \in Slots, ActivityFails(s) PROVE TypeOK'
    <2>1. PICK j \in Jobs : j = run[s]
      BY <1>8 DEF ActivityFails, Busy, TypeOK, RunsOK
    <2>2. j.id \in Certs
      BY DEF Jobs
    <2>3. PICK step :
          /\ faults' \in {faults, faults + 1} /\ (faults' # faults => faults < MaxFaults)
          /\ Advance(s) \/ run' = [run EXCEPT ![s] = Idle]
          /\ cert' = cert \/ UpdateResourceStatus(j.id, "failed")
          /\ CleanupHTTP01Challenge(j.id) \/ PlaceHTTP01Challenge(j.id) \/ acme' = acme
          /\ troubled' \in BOOLEAN
      BY <1>8, <2>1 DEF ActivityFails
    <2>4. RunsOK'
      BY <1>8, <2>3, StepOfRun, EndOfRun DEF ActivityFails, TypeOK
    <2>5. RowsOK'
      <3>1. CASE cert' = cert
        BY <3>1 DEF TypeOK, RowsOK
      <3>2. CASE UpdateResourceStatus(j.id, "failed")
        <4>1. PICK row \in Rows : row = cert[j.id]
          BY <2>2 DEF TypeOK, RowsOK
        <4>2. [row EXCEPT !.status = "failed"] \in Rows
              /\ [row EXCEPT !.status = "failed"].type = row.type
          BY DEF Rows
        <4> QED
          BY <2>2, <3>2, <4>1, <4>2, UpdateOfRow DEF UpdateResourceStatus, TypeOK
      <3> QED
        BY <2>3, <3>1, <3>2
    <2>6. acme' \in [Certs -> Orders]
      <3>1. acme \in [Certs -> Orders] /\ acme[j.id] \in Orders
        BY <2>2 DEF TypeOK
      <3>2. \E o \in Orders : acme' = acme \/ acme' = [acme EXCEPT ![j.id] = o]
        BY <2>3, <3>1, OrderTypes, Zenon DEF CleanupHTTP01Challenge, PlaceHTTP01Challenge
      <3> QED
        BY <3>1, <3>2
    <2>7. written' \in [Slots -> SUBSET (Nodes \X Parts)]
      BY <1>8 DEF ActivityFails, TypeOK
    <2>8. faults' \in 0 .. MaxFaults /\ troubled' \in BOOLEAN
      BY <2>3 DEF TypeOK
    <2> QED
      BY <1>8, <2>4, <2>5, <2>6, <2>7, <2>8 DEF ActivityFails, TypeOK
  <1>9. ASSUME NEW c \in Certs, Retry(c) PROVE TypeOK'
    <2>1. PICK row \in Rows : row = cert[c]
      BY DEF TypeOK, RowsOK
    <2>2. [row EXCEPT !.status = "provisioning"] \in Rows
          /\ [row EXCEPT !.status = "provisioning"].type = row.type
      BY DEF Rows
    <2>3. row.type # None
      BY <1>9, <2>1, NoRowType DEF Retry, TypeOK, RowsOK, None
    <2>4. cert' = [cert EXCEPT ![c] = [row EXCEPT !.status = "provisioning"]]
      BY <1>9, <2>1 DEF Retry
    <2>5. RowsOK'
      BY <2>2, <2>3, <2>4 DEF TypeOK, RowsOK
    <2>6. [wf |-> "UploadCustomCertWorkflow", id |-> c] \in Tasks
      BY DEF Tasks, Workflows
    <2> QED
      BY <1>9, <2>5, <2>6 DEF Retry, TypeOK, RunsOK, Busy
  <1>10. ASSUME NEW c \in Certs, CleanupExpiredCerts(c) PROVE TypeOK'
    <2>1. RowsOK' /\ acme' \in [Certs -> Orders]
      BY <1>10, NoRowType, OrderTypes DEF CleanupExpiredCerts, TypeOK, RowsOK
    <2> QED
      BY <1>10, <2>1 DEF CleanupExpiredCerts, TypeOK, RunsOK, Busy
  <1>11. ASSUME NEW c \in Certs, Age(c) PROVE TypeOK'
    <2>1. PICK row \in Rows : row = cert[c]
      BY DEF TypeOK, RowsOK
    <2>2. row.age \in DOMAIN Older /\ cert' = [cert EXCEPT ![c] = [row EXCEPT !.age = Older[row.age]]]
      BY <1>11, <2>1 DEF Age
    <2>3. [row EXCEPT !.age = Older[row.age]] \in Rows
          /\ [row EXCEPT !.age = Older[row.age]].type = row.type
      BY <2>2 DEF Rows, Older
    <2>4. row.type # None
      BY <2>1, <2>2, NoRowType DEF TypeOK, RowsOK, None, Older
    <2>5. RowsOK'
      BY <2>2, <2>3, <2>4 DEF TypeOK, RowsOK
    <2>6. agings' \in 0 .. MaxAgings
      BY <1>11 DEF Age, TypeOK
    <2> QED
      BY <1>11, <2>5, <2>6 DEF Age, TypeOK, RunsOK, Busy
  <1>12. CASE UNCHANGED vars
    BY <1>12 DEF vars, TypeOK, RowsOK, RunsOK, Busy
  <1>13. ASSUME NEW s \in Slots, NEW n \in Nodes, NEW part \in Parts, InstallCertificate(s, n, part)
         PROVE  TypeOK'
    <2>1. run[s].id \in Certs
      BY <1>13 DEF InstallCertificate, Busy, TypeOK, RunsOK, Jobs
    <2>2. /\ files' = [files EXCEPT ![n][part] = run[s].id]
          /\ written' = [written EXCEPT ![s] = written[s] \cup {<<n, part>>}]
      BY <1>13 DEF InstallCertificate
    <2>3. /\ files' \in [Nodes -> [Parts -> Certs \cup {None}]]
          /\ written' \in [Slots -> SUBSET (Nodes \X Parts)]
      BY <2>1, <2>2 DEF TypeOK
    <2> QED
      BY <1>13, <2>3 DEF InstallCertificate, TypeOK, RowsOK, RunsOK, Busy
  <1> QED
    BY <1>1, <1>2, <1>3, <1>4, <1>5, <1>6, <1>7, <1>8, <1>9, <1>10, <1>11, <1>12, <1>13 DEF Next

\* The rows, the nodes, the queue and the running workflows keep their types, and
\* a row that does not exist carries nothing: no activity writes to a removed row.
THEOREM Typing == Spec => []TypeOK
  BY TypeInit, TypeStep, PTL DEF Spec
-----------------------------------------------------------------------------
(* The switch from one certificate to the next.                            *)

\* SwitchInv reads the rows only for which of them are active.
LEMMA SwitchLower ==
  ASSUME SwitchInv, UNCHANGED <<files, written, run, overlap, troubled>>,
         \A c \in Certs : cert'[c].active => cert[c].active
  PROVE  SwitchInv'
  BY DEF SwitchInv, OnlyInstalling, MetKnown, ActiveHeld, Untouched, Alone, Holding, InSwitch,
         Step, Busy

\* Two states in which the same switches are at the same steps.
LEMMA SwitchSame ==
  ASSUME SwitchInv, UNCHANGED <<files, overlap>>, troubled => troubled',
         \A c \in Certs : cert'[c].active => cert[c].active,
         \A t \in Slots : InSwitch(t)' => InSwitch(t) /\ Step(t)' = Step(t) /\ run'[t] = run[t]
                                          /\ written'[t] = written[t],
         OnlyInstalling', ~troubled' /\ Untouched' => Untouched
  PROVE  SwitchInv'
  <1>1. MetKnown'
    BY DEF SwitchInv, MetKnown
  <1>2. ActiveHeld'
    BY DEF SwitchInv, ActiveHeld, Holding
  <1>3. ASSUME NEW t \in Slots PROVE Alone(t)'
    <2> SUFFICES ASSUME InSwitch(t)', t \notin overlap
                 PROVE  /\ \A n \in Nodes, part \in Parts :
                              <<n, part>> \in written[t] => files[n][part] = run[t].id
                        /\ Step(t) # "InstallCertificate" => Holding(run[t].id)
                        /\ Step(t) = "ActivateCertificate" =>
                              \A c \in Certs : cert[c].active => c = run[t].id
      BY DEF Alone, Holding
    <2> QED
      BY DEF SwitchInv, Alone
  <1> QED
    BY <1>1, <1>2, <1>3 DEF SwitchInv

\* A workflow that starts is not in its switch.
LEMMA SwitchStart ==
  ASSUME TypeOK, SwitchInv, NEW s \in Slots, NEW wf \in Workflows, NEW id \in Certs,
         run' = [run EXCEPT ![s] = [wf |-> wf, id |-> id, pc |-> 1]], ~Busy(s),
         UNCHANGED <<files, written, cert, overlap, troubled>>
  PROVE  SwitchInv'
  <1>1. run'[s] = [wf |-> wf, id |-> id, pc |-> 1] /\ \A t \in Slots : t # s => run'[t] = run[t]
    BY DEF TypeOK, RunsOK
  <1>2. Step(s)' = Program(wf)[1]
    BY <1>1 DEF Step
  <1>3. ~InSwitch(s)' /\ Step(s)' # "InstallCertificate"
    BY <1>2, Shape DEF InSwitch, Switch
  <1>4. \A t \in Slots : t # s => Step(t)' = Step(t) /\ Busy(t)' = Busy(t) /\ InSwitch(t)' = InSwitch(t)
    BY <1>1 DEF Step, Busy, InSwitch
  <1>5. written[s] = {} /\ ~InSwitch(s)
    BY DEF SwitchInv, OnlyInstalling, InSwitch
  <1>6. OnlyInstalling'
    BY <1>3, <1>4, <1>5 DEF SwitchInv, OnlyInstalling
  <1>7. Untouched' => Untouched
    BY <1>4, <1>5 DEF Untouched
  <1> QED
    BY <1>1, <1>3, <1>4, <1>6, <1>7, SwitchSame

\* A file that is written belongs to the only undisturbed switch.
LEMMA SwitchInstall ==
  ASSUME TypeOK, SwitchInv, NEW s \in Slots, NEW n \in Nodes, NEW part \in Parts,
         InstallCertificate(s, n, part)
  PROVE  SwitchInv'
  <1>1. /\ Busy(s) /\ Step(s) = "InstallCertificate" /\ UNCHANGED <<cert, run, overlap, troubled>>
        /\ files' = [files EXCEPT ![n][part] = run[s].id]
        /\ written' = [written EXCEPT ![s] = written[s] \cup {<<n, part>>}]
    BY DEF InstallCertificate, histories
  <1>2. \A t \in Slots : Step(t)' = Step(t) /\ Busy(t)' = Busy(t) /\ InSwitch(t)' = InSwitch(t)
    BY <1>1 DEF Step, Busy, InSwitch
  <1>3. /\ written'[s] = written[s] \cup {<<n, part>>}
        /\ \A t \in Slots : t # s => written'[t] = written[t]
    BY <1>1 DEF TypeOK
  <1>4. InSwitch(s)
    BY <1>1 DEF InSwitch, Switch
  <1>5. OnlyInstalling'
    BY <1>1, <1>2, <1>3 DEF SwitchInv, OnlyInstalling
  <1>6. MetKnown'
    BY <1>1, <1>2 DEF SwitchInv, MetKnown
  <1>7. ActiveHeld'
    BY <1>2, <1>3, <1>4 DEF ActiveHeld, Untouched
  <1>8. ASSUME NEW t \in Slots PROVE Alone(t)'
    <2>1. CASE t # s
      BY <1>1, <1>2, <1>4, <2>1 DEF SwitchInv, MetKnown, Alone
    <2>2. CASE t = s
      <3>1. \A m \in Nodes, q \in Parts :
               files'[m][q] = IF m = n /\ q = part THEN run[s].id ELSE files[m][q]
        BY <1>1 DEF TypeOK
      <3>2. s \notin overlap => \A m \in Nodes, q \in Parts :
               <<m, q>> \in written[s] => files[m][q] = run[s].id
        BY <1>4 DEF SwitchInv, Alone
      <3>3. s \notin overlap => \A m \in Nodes, q \in Parts :
               <<m, q>> \in written'[s] => files'[m][q] = run[s].id
        BY <1>3, <3>1, <3>2
      <3> QED
        BY <1>1, <1>2, <2>2, <3>3 DEF Alone
    <2> QED
      BY <2>1, <2>2
  <1> QED
    BY <1>5, <1>6, <1>7, <1>8 DEF SwitchInv

LEMMA SwitchActivity ==
  ASSUME TypeOK, SwitchInv, NEW s \in Slots, Activity(s)
  PROVE  SwitchInv'
  <1> DEFINE len == Len(Program(run[s].wf))
             id == run[s].id
  <1>1. /\ \A t \in Slots : t # s => run'[t] = run[t]
        /\ run[s] \in Jobs
        /\ IF run[s].pc = len THEN run'[s] = Idle
           ELSE run'[s] \in Jobs /\ run'[s].wf = run[s].wf /\ run'[s].id = id
                /\ run'[s].pc = run[s].pc + 1
    BY StepOfRun DEF Activity, TypeOK
  <1>2. /\ Busy(s) /\ CanSucceed(s, run[s], Step(s)) /\ Effect(run[s], Step(s))
        /\ written' = [written EXCEPT ![s] = {}]
        /\ overlap' = IF ~Meet(s) THEN overlap
                      ELSE IF \E t \in Slots : t # s /\ InSwitch(t) THEN Slots ELSE overlap \ {s}
        /\ troubled' = IF Step(s) = "ActivateCertificate" THEN s \in overlap ELSE troubled
        /\ files' = files
    BY DEF Activity
  <1>3. /\ id \in Certs /\ run[s].wf \in Workflows
        /\ run[s].pc \in 1 .. len /\ len \in Nat \ {0, 1, 2, 3}
    BY <1>1, <1>2, Shape DEF Jobs, TypeOK, RunsOK
  <1>4. /\ Step(s) # "ActivateCertificate" => \A c \in Certs : cert'[c].active => cert[c].active
        /\ Step(s) = "DeactivateOtherCerts" => \A c \in Certs : cert'[c].active => c = id
        /\ Step(s) = "ActivateCertificate" =>
              \A c \in Certs : cert'[c].active => cert[c].active \/ c = id
    BY <1>2, <1>3, EffectOfActivity
  <1>5. /\ Step(s) = "ActivateCertificate" <=> run[s].pc = len
        /\ Step(s) = "DeactivateOtherCerts" <=> run[s].pc + 1 = len
        /\ Step(s) = "InstallCertificate" <=> run[s].pc + 2 = len
    BY <1>3, Shape DEF Step
  <1>6. written'[s] = {} /\ \A t \in Slots : t # s => written'[t] = written[t]
    BY <1>2 DEF TypeOK
  <1>7. \A t \in Slots : t # s => Step(t)' = Step(t) /\ Busy(t)' = Busy(t) /\ InSwitch(t)' = InSwitch(t)
    BY <1>1 DEF Step, Busy, InSwitch
  <1>8. OnlyInstalling'
    BY <1>6, <1>7 DEF SwitchInv, OnlyInstalling
  \* While this switch goes on undisturbed there is no other.
  <1>9. InSwitch(s) => \A t \in Slots : t # s => (~InSwitch(t) \/ (t \in overlap /\ s \in overlap))
    BY DEF SwitchInv, MetKnown
  <1>10. CASE Step(s) = "ActivateCertificate"
    <2>1. run'[s] = Idle /\ InSwitch(s)
      BY <1>1, <1>2, <1>5, <1>10 DEF InSwitch, Switch
    <2>2. ~InSwitch(s)' /\ overlap' = overlap
      BY <1>2, <2>1 DEF InSwitch, Busy, Meet
    <2>3. MetKnown'
      BY <1>7, <2>2 DEF SwitchInv, MetKnown
    <2>4. ActiveHeld'
      <3>1. s \notin overlap => Holding(id) /\ \A c \in Certs : cert[c].active => c = id
        BY <1>10, <2>1 DEF SwitchInv, Alone
      <3>2. troubled' = (s \in overlap)
        BY <1>2, <1>10
      <3>3. s \notin overlap => \A c \in Certs : cert'[c].active => c = id
        BY <1>4, <1>10, <3>1
      <3> QED
        BY <1>2, <3>1, <3>2, <3>3 DEF ActiveHeld, Holding
    <2>5. \A t \in Slots : Alone(t)'
      BY <1>7, <1>9, <2>1, <2>2 DEF Alone
    <2> QED
      BY <1>8, <2>3, <2>4, <2>5 DEF SwitchInv
  <1>11. CASE Step(s) # "ActivateCertificate"
    <2>1. /\ run'[s].wf = run[s].wf /\ run'[s].id = id /\ run'[s].pc = run[s].pc + 1
          /\ run'[s].pc \in 1 .. len /\ run'[s] \in Jobs
      BY <1>1, <1>3, <1>5, <1>11
    <2>2. /\ Step(s)' = "ActivateCertificate" <=> run'[s].pc = len
          /\ Step(s)' = "DeactivateOtherCerts" <=> run'[s].pc + 1 = len
      BY <1>3, <2>1, Shape DEF Step
    <2>3. /\ Step(s)' = "ActivateCertificate" <=> Step(s) = "DeactivateOtherCerts"
          /\ Step(s)' = "DeactivateOtherCerts" <=> Step(s) = "InstallCertificate"
      BY <1>3, <1>5, <2>1, <2>2
    <2>4. run'[s] # Idle /\ Busy(s)' /\ troubled' = troubled
      BY <1>2, <1>11, <2>1, NoJob DEF Busy
    <2>5. \A c \in Certs : cert'[c].active => cert[c].active
      BY <1>4, <1>11
    <2>6. CASE Step(s) \in {"DeactivateOtherCerts", "InstallCertificate"}
      <3>1. /\ Step(s)' \in {"ActivateCertificate", "DeactivateOtherCerts"}
            /\ InSwitch(s) /\ InSwitch(s)' /\ Step(s)' # "InstallCertificate"
        BY <1>2, <2>3, <2>4, <2>6 DEF InSwitch, Switch
      <3>2. overlap' = overlap
        BY <1>2, <3>1 DEF Meet
      <3>3. MetKnown'
        BY <1>7, <1>9, <3>1, <3>2 DEF SwitchInv, MetKnown
      <3>4. ActiveHeld'
        BY <3>1 DEF ActiveHeld, Untouched
      <3>5. s \notin overlap => Holding(id)
        <4>1. CASE Step(s) = "DeactivateOtherCerts"
          BY <3>1, <4>1 DEF SwitchInv, Alone
        <4>2. CASE Step(s) = "InstallCertificate"
          <5>1. written[s] = Nodes \X Parts
            BY <1>2, <4>2 DEF CanSucceed, Installed
          <5>2. s \notin overlap => \A n \in Nodes, part \in Parts : files[n][part] = id
            BY <3>1, <5>1 DEF SwitchInv, Alone
          <5> QED
            BY <5>2 DEF Holding, Pair, TypeOK
        <4> QED
          BY <2>6, <4>1, <4>2
      <3>6. Step(s)' = "ActivateCertificate" => \A c \in Certs : cert'[c].active => c = id
        BY <1>4, <2>3
      <3>7. Alone(s)'
        BY <1>2, <1>6, <2>1, <3>1, <3>2, <3>5, <3>6 DEF Alone, Holding
      <3>8. \A t \in Slots : t # s => Alone(t)'
        BY <1>7, <1>9, <3>1, <3>2 DEF Alone
      <3> QED
        BY <1>8, <3>3, <3>4, <3>7, <3>8 DEF SwitchInv
    <2>7. CASE Step(s) \notin {"DeactivateOtherCerts", "InstallCertificate"}
      <3>1. ~InSwitch(s) /\ Step(s)' \notin {"ActivateCertificate", "DeactivateOtherCerts"}
        BY <1>11, <2>3, <2>7 DEF InSwitch, Switch
      <3>2. written[s] = {}
        BY <2>7 DEF SwitchInv, OnlyInstalling
      <3>3. Untouched' => Untouched
        BY <1>6, <1>7, <3>1 DEF Untouched
      <3>4. CASE Step(s)' # "InstallCertificate"
        <4>1. overlap' = overlap /\ ~InSwitch(s)'
          BY <1>2, <3>1, <3>4 DEF Meet, InSwitch, Switch
        <4> QED
          BY <1>1, <1>2, <1>6, <1>7, <1>8, <2>4, <2>5, <3>3, <4>1, SwitchSame
      <3>5. CASE Step(s)' = "InstallCertificate"
        <4>1. overlap' = IF \E t \in Slots : t # s /\ InSwitch(t) THEN Slots ELSE overlap \ {s}
          BY <1>2, <2>4, <3>5 DEF Meet
        <4>2. MetKnown'
          BY <1>7, <4>1 DEF MetKnown
        <4>3. ActiveHeld'
          BY <1>2, <2>4, <2>5, <3>3 DEF SwitchInv, ActiveHeld, Holding
        <4>4. Alone(s)'
          BY <1>6, <3>5 DEF Alone
        <4>5. \A t \in Slots : t # s => Alone(t)'
          BY <1>7, <4>1 DEF Alone
        <4> QED
          BY <1>8, <4>2, <4>3, <4>4, <4>5 DEF SwitchInv
      <3> QED
        BY <3>4, <3>5
    <2> QED
      BY <2>6, <2>7
  <1> QED
    BY <1>10, <1>11

\* A workflow that fails before its first file leaves the nodes as they were.
LEMMA SwitchFails ==
  ASSUME TypeOK, SwitchInv, NEW s \in Slots, ActivityFails(s)
  PROVE  SwitchInv'
  <1> DEFINE len == Len(Program(run[s].wf))
  <1>1. PICK j \in Jobs : j = run[s]
    BY DEF ActivityFails, Busy, TypeOK, RunsOK
  <1>2. /\ Busy(s)
        /\ IF Step(s) = "CleanupHTTP01Challenge" THEN Advance(s) ELSE run' = [run EXCEPT ![s] = Idle]
        /\ cert' = cert \/ UpdateResourceStatus(j.id, "failed")
        /\ troubled' = (troubled \/ (Step(s) \in Switch /\
                                       (Step(s) = "InstallCertificate" => written[s] # {})))
        /\ written' = [written EXCEPT ![s] = {}]
        /\ UNCHANGED <<files, overlap>>
    BY <1>1 DEF ActivityFails
  <1>3. written'[s] = {} /\ \A t \in Slots : t # s => written'[t] = written[t]
    BY <1>2 DEF TypeOK
  <1>4. \A c \in Certs : cert'[c].active => cert[c].active
    <2>1. CASE cert' = cert
      BY <2>1
    <2>2. CASE UpdateResourceStatus(j.id, "failed")
      <3>1. j.id \in Certs
        BY DEF Jobs
      <3>2. PICK row \in Rows : row = cert[j.id]
        BY <3>1 DEF TypeOK, RowsOK
      <3>3. /\ [row EXCEPT !.status = "failed"] \in Rows
            /\ [row EXCEPT !.status = "failed"].type = row.type
            /\ [row EXCEPT !.status = "failed"].active = row.active
        BY DEF Rows
      <3> QED
        BY <2>2, <3>1, <3>2, <3>3, UpdateOfRow DEF UpdateResourceStatus, TypeOK
    <2> QED
      BY <1>2, <2>1, <2>2
  <1>5. \A t \in Slots : t # s => run'[t] = run[t]
    <2>1. CASE Advance(s)
      BY <1>2, <2>1, StepOfRun DEF TypeOK
    <2>2. CASE run' = [run EXCEPT ![s] = Idle]
      BY <2>2 DEF TypeOK, RunsOK
    <2> QED
      BY <1>2, <2>1, <2>2
  <1>6. ~InSwitch(s)'
    <2>1. CASE Step(s) = "CleanupHTTP01Challenge"
      <3>1. IF run[s].pc = len THEN run'[s] = Idle
            ELSE run'[s] \in Jobs /\ run'[s].wf = run[s].wf /\ run'[s].pc = run[s].pc + 1
        BY <1>2, <2>1, StepOfRun DEF TypeOK
      <3>2. /\ j.wf \in Workflows /\ j.pc \in 1 .. len /\ len \in Nat
        BY <1>1, <1>2, Shape DEF Jobs, TypeOK, RunsOK
      <3>3. j.pc + 4 = len
        BY <1>1, <2>1, <3>2, Shape DEF Step
      <3>4. run'[s].wf = j.wf /\ run'[s].pc = j.pc + 1 /\ j.pc + 1 \in 1 .. len
        BY <1>1, <3>1, <3>2, <3>3
      <3>5. Step(s)' = Program(j.wf)[j.pc + 1]
        BY <3>4 DEF Step
      <3>6. Step(s)' \notin Switch
        BY <1>1, <3>2, <3>3, <3>4, <3>5, Shape DEF Switch
      <3> QED
        BY <3>6 DEF InSwitch
    <2>2. CASE Step(s) # "CleanupHTTP01Challenge"
      BY <1>2, <2>2 DEF InSwitch, Busy, TypeOK, RunsOK
    <2> QED
      BY <2>1, <2>2
  <1>7. \A t \in Slots : t # s => Step(t)' = Step(t) /\ Busy(t)' = Busy(t) /\ InSwitch(t)' = InSwitch(t)
    BY <1>5 DEF Step, Busy, InSwitch
  <1>8. OnlyInstalling'
    BY <1>3, <1>7 DEF SwitchInv, OnlyInstalling
  <1>9. ~troubled' /\ Untouched' => Untouched
    BY <1>2, <1>3, <1>7 DEF Untouched, InSwitch
  <1> QED
    BY <1>2, <1>3, <1>4, <1>5, <1>6, <1>7, <1>8, <1>9, SwitchSame

LEMMA SwitchStep == TypeOK /\ SwitchInv /\ [Next]_vars => SwitchInv'
  <1> SUFFICES ASSUME TypeOK, SwitchInv, [Next]_vars PROVE SwitchInv'
    OBVIOUS
  <1> USE DEF nodeVars, histories
  <1>1. CASE Bind
    BY <1>1, SwitchLower DEF Bind
  <1>2. CASE Upload
    <2>1. NewID \in Certs
      BY <1>2, FreshID DEF Upload
    <2>2. ~[NoRow EXCEPT !.type = "custom", !.status = "pending", !.pem = TRUE].active
      BY DEF NoRow
    <2>3. \A c \in Certs : cert'[c].active => cert[c].active
      BY <1>2, <2>1, <2>2 DEF Upload, TypeOK, RowsOK
    <2> QED
      BY <1>2, <2>3, SwitchLower DEF Upload
  <1>3. CASE StartQueued
    <2>1. Head(queue) \in Tasks
      BY <1>3 DEF StartQueued, TypeOK
    <2>2. Head(queue).wf \in Workflows /\ Head(queue).id \in Certs \cup {None}
      BY <2>1 DEF Tasks
    <2>3. PICK id \in Certs :
             run' = [run EXCEPT !["queue"] = [wf |-> Head(queue).wf, id |-> id, pc |-> 1]]
      BY <1>3, <2>2, FreshID DEF StartQueued
    <2> QED
      BY <1>3, <2>2, <2>3, SwitchStart DEF StartQueued, Slots
  <1>4. CASE RenewLECert
    BY <1>4, SwitchLower DEF RenewLECert
  <1>5. CASE StartRenewal
    <2>1. NewID \in Certs
      BY <1>5, FreshID DEF StartRenewal
    <2> QED
      BY <1>5, <2>1, SwitchStart DEF StartRenewal, Slots, Workflows
  <1>6. CASE CheckCertExpiry
    BY <1>6, SwitchLower DEF CheckCertExpiry
  <1>7. ASSUME NEW s \in Slots, Activity(s) PROVE SwitchInv'
    BY <1>7, SwitchActivity
  <1>8. ASSUME NEW s \in Slots, ActivityFails(s) PROVE SwitchInv'
    BY <1>8, SwitchFails
  <1>9. ASSUME NEW c \in Certs, Retry(c) PROVE SwitchInv'
    <2>1. PICK row \in Rows : row = cert[c]
      BY DEF TypeOK, RowsOK
    <2>2. [row EXCEPT !.status = "provisioning"].active = row.active
      BY DEF Rows
    <2>3. cert' = [cert EXCEPT ![c] = [row EXCEPT !.status = "provisioning"]]
      BY <1>9, <2>1 DEF Retry
    <2>4. \A d \in Certs : cert'[d].active => cert[d].active
      BY <2>1, <2>2, <2>3 DEF TypeOK, RowsOK
    <2> QED
      BY <1>9, <2>4, SwitchLower DEF Retry
  <1>10. ASSUME NEW c \in Certs, CleanupExpiredCerts(c) PROVE SwitchInv'
    <2>1. \A d \in Certs : cert'[d].active => cert[d].active
      BY <1>10, NoRowType DEF CleanupExpiredCerts, TypeOK, RowsOK
    <2> QED
      BY <1>10, <2>1, SwitchLower DEF CleanupExpiredCerts
  <1>11. ASSUME NEW c \in Certs, Age(c) PROVE SwitchInv'
    <2>1. PICK row \in Rows : row = cert[c]
      BY DEF TypeOK, RowsOK
    <2>2. cert' = [cert EXCEPT ![c] = [row EXCEPT !.age = Older[row.age]]]
      BY <1>11, <2>1 DEF Age
    <2>3. [row EXCEPT !.age = Older[row.age]].active = row.active
      BY DEF Rows
    <2>4. \A d \in Certs : cert'[d].active => cert[d].active
      BY <2>1, <2>2, <2>3 DEF TypeOK, RowsOK
    <2> QED
      BY <1>11, <2>4, SwitchLower DEF Age
  <1>12. CASE UNCHANGED vars
    BY <1>12, SwitchLower DEF vars
  <1>13. ASSUME NEW s \in Slots, NEW n \in Nodes, NEW part \in Parts, InstallCertificate(s, n, part)
         PROVE  SwitchInv'
    BY <1>13, SwitchInstall
  <1> QED
    BY <1>1, <1>2, <1>3, <1>4, <1>5, <1>6, <1>7, <1>8, <1>9, <1>10, <1>11, <1>12, <1>13 DEF Next

\* Outside a switch the active certificate is the only one, and its two files are
\* on every node: however many certificates, nodes, uploads, binds, renewals,
\* retries and failures, the order install, deactivate the others, activate keeps
\* rows and files together, but for a switch that broke off or met another, and
\* only until one runs through alone.
THEOREM Installation == Spec => []ActiveIsInstalled
  <1>1. Init => SwitchInv
    <2> SUFFICES ASSUME Init PROVE SwitchInv
      OBVIOUS
    <2>1. \A s \in Slots : ~InSwitch(s) /\ written[s] = {}
      BY DEF Init, InSwitch, Busy
    <2>2. \A c \in Certs : cert[c].active = FALSE
      BY NoRowType DEF Init, NoRow
    <2> QED
      BY <2>1, <2>2 DEF SwitchInv, OnlyInstalling, MetKnown, ActiveHeld, Alone
  <1>2. SwitchInv => ActiveIsInstalled
    BY DEF SwitchInv, ActiveHeld, Untouched, ActiveIsInstalled, Settled, Holding
  <1> QED
    BY <1>1, <1>2, Typing, SwitchStep, PTL DEF Spec
=============================================================================
