---------------------------- MODULE Certificates ----------------------------
(***************************************************************************)
(* The TLS certificates of one FQDN.  Binding the FQDN and uploading a     *)
(* certificate run in the tenant's queue, one after the other; the daily   *)
(* renewal and clean-up run beside them.  An issued or uploaded            *)
(* certificate is installed on the shard's nodes, then the others are      *)
(* deactivated, then it is activated: the switch.  To install a            *)
(* certificate is to write two files.  No certificate workflow generates   *)
(* the site again or reloads nginx, so what nginx presents meanwhile is    *)
(* not promised, and is left out.                                          *)
(***************************************************************************)
EXTENDS Integers, Sequences, FiniteSets

CONSTANTS
    Certs,       \* the certificate IDs
    Nodes,       \* the nodes of the FQDN's shard
    MaxUploads, MaxBinds, MaxFaults,
    MaxAgings    \* bound on the certificates that come near their expiry

VARIABLES
    cert,        \* the certificates rows
    files,       \* files[n]: of which certificates fullchain.pem and privkey.pem are
    written,     \* written[s]: the files the running installation has written
    acme,        \* acme[c]: the order of c at the ACME server and its challenge file
    queue,       \* the tenant's accepted tasks
    run,         \* run["queue"], run["cron"]: the running certificate workflow
    renewals,    \* the renewals the cron run has still to wait for
    incidents,   \* the certificates with a cert_expiring incident
    uploads, binds, faults, agings,
    overlap,     \* the slots whose latest switch met the other's
    troubled     \* a switch has failed halfway, or has met another, and none
                 \* has run through undisturbed since

vars == <<cert, files, written, acme, queue, run, renewals, incidents,
          uploads, binds, faults, agings, overlap, troubled>>
nodeVars == <<files, written>>
histories == <<overlap, troubled>>

None == "none"

ASSUME CertConstants ==
    /\ None \notin Certs /\ Nodes # {}
    /\ MaxUploads \in Nat /\ MaxBinds \in Nat /\ MaxFaults \in Nat /\ MaxAgings \in Nat

\* age: None without an expires_at, "fresh", "expiring" (30 days), "critical"
\* (14 days, still valid), "expired", "old" (30 days ago).
NoRow == [type |-> None, status |-> None, active |-> FALSE, age |-> None, pem |-> FALSE]
Idle  == [wf |-> None, id |-> None, pc |-> 0]
Slots == {"queue", "cron"}

Parts == {"chain", "key"}
Pair(c) == [part \in Parts |-> c]

\* A new row's ID is on no row, workflow or node (platform.NewID).
Unused ==
    {c \in Certs : cert[c] = NoRow} \
        ({run[s].id : s \in Slots} \cup {files[n][part] : n \in Nodes, part \in Parts})
NewID  == CHOOSE c \in Unused : TRUE
-----------------------------------------------------------------------------
(* The queries of the crons.                                               *)

GetExpiringLECertsTooLate ==
    {c \in Certs : /\ cert[c].type = "le" /\ cert[c].status = "active" /\ cert[c].active
                   /\ cert[c].age \in {"critical"}}

\* Within 30 days of the expiry, or past it.
GetExpiringLECerts ==
    {c \in Certs : /\ cert[c].type = "le" /\ cert[c].status = "active" /\ cert[c].active
                   /\ cert[c].age \in {"expiring", "critical", "expired", "old"}}

\* An active certificate is not spared.
GetExpiredCerts == {c \in Certs : cert[c].status = "active" /\ cert[c].age = "old"}

GetExpiringCerts ==
    {c \in Certs : cert[c].status = "active" /\ cert[c].active /\ cert[c].age = "critical"}
-----------------------------------------------------------------------------
(* The workflows, as the sequences of their activities.                    *)

ProvisionLECertWorkflow ==
    <<"GetFQDNContext", "CreateCertificate", "provisioning", "CreateOrder",
      "GetHTTP01Challenge", "PlaceHTTP01Challenge", "AcceptChallenge", "FinalizeOrder",
      "CleanupHTTP01Challenge", "StoreCertificate", "InstallCertificate",
      "DeactivateOtherCerts", "ActivateCertificate">>

UploadCustomCertWorkflow ==
    <<"provisioning", "GetCertificateByID", "ValidateCustomCert", "GetFQDNContext",
      "InstallCertificate", "DeactivateOtherCerts", "ActivateCertificate">>

Workflows == {"ProvisionLECertWorkflow", "UploadCustomCertWorkflow"}

Program(wf) ==
    IF wf = "UploadCustomCertWorkflow" THEN UploadCustomCertWorkflow ELSE ProvisionLECertWorkflow

\* An UPDATE of a row that has been removed succeeds and changes nothing.
Update(c, row) == cert' = IF cert[c] = NoRow THEN cert ELSE [cert EXCEPT ![c] = row]

UpdateResourceStatus(c, status) == Update(c, [cert[c] EXCEPT !.status = status])

StoreCertificate(c) == Update(c, [cert[c] EXCEPT !.pem = TRUE, !.age = "fresh"])

DeactivateOtherCertsNot(c) == cert' = cert

DeactivateOtherCerts(c) ==
    cert' = [d \in Certs |-> IF d # c /\ cert[d].active THEN [cert[d] EXCEPT !.active = FALSE]
                            ELSE cert[d]]

ActivateCertificate(c) == Update(c, [cert[c] EXCEPT !.active = TRUE, !.status = "active"])

GetCertificateByID(c) == cert[c] # NoRow

\* A Let's Encrypt row whose issue failed has no certificate to validate.
ValidateCustomCert(c) == cert[c].pem

-----------------------------------------------------------------------------
(* The ACME activities.  The server validates an accepted challenge by     *)
(* fetching the file the nodes serve.                                      *)

NoOrder == [order |-> None, file |-> FALSE]

\* A new account key for every order.
CreateOrder(c) == acme' = [acme EXCEPT ![c].order = "pending"]

GetHTTP01Challenge(c) == acme[c].order # None

PlaceHTTP01Challenge(c) == acme' = [acme EXCEPT ![c].file = TRUE]

AcceptChallenge(c) == acme' = [acme EXCEPT ![c].order = "accepted"]

WaitOrder(c) == acme[c].order = "accepted" /\ acme[c].file

FinalizeOrder(c) == acme' = [acme EXCEPT ![c].order = "issued"]

CleanupHTTP01Challenge(c) == acme' = [acme EXCEPT ![c].file = FALSE]
-----------------------------------------------------------------------------
\* The nodes' activities have written every file.
Installed(s) == written[s] = Nodes \X Parts

CanSucceed(s, p, step) ==
    CASE step = "InstallCertificate" -> Installed(s)
      [] step = "GetCertificateByID" -> GetCertificateByID(p.id)
      [] step = "ValidateCustomCert" -> ValidateCustomCert(p.id)
      [] step = "GetHTTP01Challenge" -> GetHTTP01Challenge(p.id)
      [] step = "FinalizeOrder"      -> WaitOrder(p.id)
      [] OTHER                       -> TRUE

CreateCertificate(c) ==
    cert' = [cert EXCEPT ![c] = [NoRow EXCEPT !.type = "le", !.status = "pending"]]

Effect(p, step) ==
    /\ CASE step = "CreateOrder"            -> CreateOrder(p.id)
         [] step = "PlaceHTTP01Challenge"   -> PlaceHTTP01Challenge(p.id)
         [] step = "AcceptChallenge"        -> AcceptChallenge(p.id)
         [] step = "FinalizeOrder"          -> FinalizeOrder(p.id)
         [] step = "CleanupHTTP01Challenge" -> CleanupHTTP01Challenge(p.id)
         [] OTHER                           -> acme' = acme
    /\ CASE step = "CreateCertificate"    -> CreateCertificate(p.id)
         [] step = "provisioning"         -> UpdateResourceStatus(p.id, "provisioning")
         [] step = "StoreCertificate"     -> StoreCertificate(p.id)
         [] step = "DeactivateOtherCerts" -> DeactivateOtherCerts(p.id)
         [] step = "ActivateCertificate"  -> ActivateCertificate(p.id)
         [] OTHER                         -> cert' = cert
-----------------------------------------------------------------------------
Busy(s) == run[s] # Idle
Step(s) == Program(run[s].wf)[run[s].pc]

\* The last activities of both workflows: from the first of them on, nodes and
\* rows differ until the last has succeeded.
Switch == {"InstallCertificate", "DeactivateOtherCerts", "ActivateCertificate"}
InSwitch(s) == Busy(s) /\ Step(s) \in Switch

Advance(s) ==
    run' = [run EXCEPT ![s] = IF run[s].pc = Len(Program(run[s].wf)) THEN Idle
                              ELSE [run[s] EXCEPT !.pc = run[s].pc + 1]]

\* The IDs of new rows are drawn when the workflow starts.
StartQueued ==
    /\ ~Busy("queue") /\ queue # <<>>
    /\ Head(queue).id = None => Unused # {}
    /\ \E id \in {IF Head(queue).id = None THEN NewID ELSE Head(queue).id} :
          run' = [run EXCEPT !["queue"] = [wf |-> Head(queue).wf, id |-> id, pc |-> 1]]
    /\ queue' = Tail(queue)
    /\ UNCHANGED <<cert, nodeVars, acme, renewals, incidents, uploads, binds, faults, agings, histories>>

\* RenewLECertWorkflow: reads the list, then starts and awaits one child for each.
RenewLECert ==
    /\ ~Busy("cron") /\ renewals = {}
    /\ GetExpiringLECerts # {}
    /\ renewals' = GetExpiringLECerts
    /\ UNCHANGED <<cert, nodeVars, acme, queue, run, incidents, uploads, binds, faults,
                   agings, histories>>

StartRenewal ==
    /\ ~Busy("cron") /\ renewals # {}
    /\ \E c \in renewals : renewals' = renewals \ {c}
    /\ Unused # {}
    /\ run' = [run EXCEPT !["cron"] = [wf |-> "ProvisionLECertWorkflow", id |-> NewID, pc |-> 1]]
    /\ UNCHANGED <<cert, nodeVars, acme, queue, incidents, uploads, binds, faults, agings, histories>>

\* InstallCertificate on the nodes, in parallel: the chain, then the key.
InstallCertificate(s, n, part) ==
    /\ Busy(s) /\ Step(s) = "InstallCertificate"
    /\ <<n, part>> \notin written[s]
    /\ part = "key" => <<n, "chain">> \in written[s]
    /\ files' = [files EXCEPT ![n][part] = run[s].id]
    /\ written' = [written EXCEPT ![s] = @ \cup {<<n, part>>}]
    /\ UNCHANGED <<cert, acme, queue, run, renewals, incidents, uploads, binds, faults,
                   agings, histories>>

\* Two switches meet when one begins during the other.
Meet(s) == run'[s] # Idle /\ Step(s)' = "InstallCertificate"

Activity(s) ==
    /\ Busy(s)
    /\ CanSucceed(s, run[s], Step(s)) /\ Effect(run[s], Step(s))
    /\ Advance(s)
    /\ written' = [written EXCEPT ![s] = {}]
    /\ overlap' = IF ~Meet(s) THEN overlap
                  ELSE IF \E t \in Slots : t # s /\ InSwitch(t) THEN Slots ELSE overlap \ {s}
    /\ troubled' = IF Step(s) = "ActivateCertificate" THEN s \in overlap ELSE troubled
    /\ UNCHANGED <<files, queue, renewals, incidents, uploads, binds, faults, agings>>

\* Until the row exists, and when its status cannot be written, the workflow
\* just ends.  A failed installation has written some of the files, a failed
\* clean-up is ignored, and a refused challenge is cleaned up.
ActivityFails(s) ==
    /\ Busy(s)
    /\ \E p \in {run[s]} : \E step \in {Step(s)} :
          /\ \/ faults < MaxFaults /\ faults' = faults + 1
             \/ step # "InstallCertificate" /\ ~CanSucceed(s, p, step) /\ faults' = faults
          /\ IF step = "CleanupHTTP01Challenge" THEN Advance(s) ELSE run' = [run EXCEPT ![s] = Idle]
          /\ IF step \in {"provisioning", "CleanupHTTP01Challenge"} THEN cert' = cert
             ELSE UpdateResourceStatus(p.id, "failed")
          /\ CASE step = "AcceptChallenge" -> CleanupHTTP01Challenge(p.id)
               [] step = "PlaceHTTP01Challenge" -> PlaceHTTP01Challenge(p.id) \/ acme' = acme
               [] OTHER -> acme' = acme
          /\ troubled' = (troubled \/ (step \in Switch /\ (step = "InstallCertificate" => written[s] # {})))
    /\ written' = [written EXCEPT ![s] = {}]
    /\ UNCHANGED <<files, queue, renewals, incidents, uploads, binds, agings, overlap>>
-----------------------------------------------------------------------------
(* The API, the other crons and time.                                      *)

\* BindFQDNWorkflow with ssl_enabled ends with the child workflow.
Bind ==
    /\ binds < MaxBinds /\ binds' = binds + 1
    /\ queue' = Append(queue, [wf |-> "ProvisionLECertWorkflow", id |-> None])
    /\ UNCHANGED <<cert, nodeVars, acme, run, renewals, incidents, uploads, faults, agings, histories>>

\* The expiry of an uploaded certificate is not read.
Upload ==
    /\ uploads < MaxUploads /\ uploads' = uploads + 1
    /\ Unused # {}
    /\ cert' = [cert EXCEPT ![NewID] = [NoRow EXCEPT !.type = "custom", !.status = "pending", !.pem = TRUE]]
    /\ queue' = Append(queue, [wf |-> "UploadCustomCertWorkflow", id |-> NewID])
    /\ UNCHANGED <<nodeVars, acme, run, renewals, incidents, binds, faults, agings, histories>>

\* Retry queues the upload workflow whatever the certificate's type.
Retry(c) ==
    /\ cert[c].status = "failed"
    /\ cert' = [cert EXCEPT ![c].status = "provisioning"]
    /\ queue' = Append(queue, [wf |-> "UploadCustomCertWorkflow", id |-> c])
    /\ UNCHANGED <<nodeVars, acme, run, renewals, incidents, uploads, binds, faults, agings, histories>>

CleanupExpiredCerts(c) ==
    /\ c \in GetExpiredCerts
    /\ cert' = [cert EXCEPT ![c] = NoRow]
    /\ acme' = [acme EXCEPT ![c] = NoOrder]
    /\ UNCHANGED <<nodeVars, queue, run, renewals, incidents, uploads, binds, faults, agings, histories>>

CheckCertExpiry ==
    /\ ~GetExpiringCerts \subseteq incidents
    /\ incidents' = incidents \cup GetExpiringCerts
    /\ UNCHANGED <<cert, nodeVars, acme, queue, run, renewals, uploads, binds, faults,
                   agings, histories>>

Older == [fresh |-> "expiring", expiring |-> "critical", critical |-> "expired", expired |-> "old"]

Age(c) ==
    /\ cert[c].age \in DOMAIN Older
    /\ cert[c].age = "fresh" => agings < MaxAgings
    /\ agings' = IF cert[c].age = "fresh" THEN agings + 1 ELSE agings
    /\ cert' = [cert EXCEPT ![c].age = Older[@]]
    /\ UNCHANGED <<nodeVars, acme, queue, run, renewals, incidents, uploads, binds, faults, histories>>
-----------------------------------------------------------------------------
Init ==
    /\ cert = [c \in Certs |-> NoRow]
    /\ files = [n \in Nodes |-> Pair(None)]
    /\ written = [s \in Slots |-> {}] /\ overlap = {}
    /\ acme = [c \in Certs |-> NoOrder] /\ queue = <<>> /\ run = [s \in Slots |-> Idle] /\ renewals = {}
    /\ incidents = {} /\ uploads = 0 /\ binds = 0 /\ faults = 0 /\ agings = 0
    /\ troubled = FALSE

Next ==
    \/ Bind \/ Upload \/ StartQueued \/ RenewLECert \/ StartRenewal \/ CheckCertExpiry
    \/ \E s \in Slots : \/ Activity(s) \/ ActivityFails(s)
                        \/ \E n \in Nodes, part \in Parts : InstallCertificate(s, n, part)
    \/ \E c \in Certs : Retry(c) \/ CleanupExpiredCerts(c) \/ Age(c)

Spec == Init /\ [][Next]_vars

\* The server runs what it has started, and the crons run daily.
FairSpec ==
    /\ Spec
    /\ WF_vars(StartQueued) /\ WF_vars(RenewLECert) /\ WF_vars(StartRenewal)
    /\ \A s \in Slots :
          WF_vars(\/ Activity(s) \/ ActivityFails(s)
                  \/ \E n \in Nodes, part \in Parts : InstallCertificate(s, n, part))
-----------------------------------------------------------------------------
Rows == [type : {None, "le", "custom"},
         status : {None, "pending", "provisioning", "active", "failed"},
         active : BOOLEAN, age : {None, "old"} \cup DOMAIN Older, pem : BOOLEAN]

Orders == [order : {None, "pending", "accepted", "issued"}, file : BOOLEAN]

Tasks == [wf : Workflows, id : Certs \cup {None}]

Jobs == [wf : Workflows, id : Certs, pc : Nat]

RowsOK ==
    /\ cert \in [Certs -> Rows]
    /\ \A c \in Certs : cert[c].type = None => cert[c] = NoRow

RunsOK ==
    /\ run \in [Slots -> {Idle} \cup Jobs]
    /\ \A s \in Slots : Busy(s) => run[s].pc \in 1 .. Len(Program(run[s].wf))

TypeOK ==
    /\ RowsOK /\ RunsOK
    /\ files \in [Nodes -> [Parts -> Certs \cup {None}]]
    /\ written \in [Slots -> SUBSET (Nodes \X Parts)] /\ overlap \subseteq Slots
    /\ acme \in [Certs -> Orders]
    /\ queue \in Seq(Tasks)
    /\ renewals \subseteq Certs /\ incidents \subseteq Certs
    /\ uploads \in 0 .. MaxUploads /\ binds \in 0 .. MaxBinds
    /\ faults \in 0 .. MaxFaults /\ agings \in 0 .. MaxAgings /\ troubled \in BOOLEAN

NearsExpiry(c) ==
    cert[c].type = "le" /\ cert[c].active /\ cert[c].age \notin {None, "fresh"}

\* No certificate is being switched to, and every switch that failed with files
\* written or met another has been followed by one that ran through alone.
Settled == ~troubled /\ \A s \in Slots : ~InSwitch(s)

\* InstallCertificate, DeactivateOtherCerts and ActivateCertificate, in this order:
\* outside a switch at most one certificate is active, and its chain and its key
\* are the files of every node, whichever attempts to replace it have failed before
\* they wrote a file.  Not so after a switch that failed halfway or met another,
\* until one succeeds alone.
ActiveIsInstalled ==
    Settled => \A c \in Certs : cert[c].active => \A n \in Nodes : files[n] = Pair(c)

\* RenewLECertWorkflow: an active Let's Encrypt certificate within 30 days of its
\* expiry is replaced, whatever failed before; a renewal that fails is started
\* again by the next day's run.
ExpiringIsRenewed ==
    \A c \in Certs : NearsExpiry(c) ~> ~NearsExpiry(c)
=============================================================================
