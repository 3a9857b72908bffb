----------------------- MODULE ResourceLifecycleProofs -----------------------
(***************************************************************************)
(* Proofs about ResourceLifecycle, for every set of kinds, nodes and       *)
(* callers and for every number of requests and faults: the types, that a  *)
(* resource whose row is gone has left every node, and that an active      *)
(* resource is configured with the current version.                        *)
(*                                                                         *)
(* The workflows are data.  What the two arguments need to know of them is *)
(* their shape: where the row is read, where the nodes change, where the   *)
(* status is written, and which errors stop the workflow in between.       *)
(***************************************************************************)
EXTENDS ResourceLifecycle, TLAPS

(***************************************************************************)
(* Shapes of workflows, of length l.                                       *)
(***************************************************************************)
NodeSteps == {"nodes", "all"}

\* Places in a workflow: none has more steps.
Marks == 1..9

\* The arguments of a node change and of a status write are known ones.
Changes ==
    {"put", "putIfPresent", "drop", "putAndStart", "start", "stop", "startOrStop",
     "startIfEnabled", "use"}

WellFormed(P, l) ==
    /\ Len(P) = l /\ l \in Marks
    /\ \A i \in 1..l : /\ P[i].do \in NodeSteps => P[i].arg \in Changes
                       /\ P[i].do = "status" => P[i].arg \in Statuses \union {"deleted"}

\* The row is read at step r before any node changes; it is not deleted.
Reads(P, l, r) ==
    /\ Len(P) = l /\ l \in Marks
    /\ r \in 1..l /\ P[r].do = "read" /\ P[r].err \in {"fail", "return"}
    /\ \A i \in 1..l : /\ P[i].arg # "deleted"
                       /\ i <= r => P[i].do \notin NodeSteps

\* Errors of the node step p end the workflow: at once, or at the gate g when
\* all nodes are tried first.
Guarded(P, l, p, g) ==
    /\ p \in 1..l /\ g \in p..l
    /\ \/ P[p].do = "nodes" /\ P[p].err = "fail" /\ g = p
       \/ P[p].do = "all" /\ P[p].err = "note" /\ g > p /\ P[g].do = "gate"
    /\ \A i \in 1..l : /\ i # p => P[i].do \notin NodeSteps
                       /\ P[i].err = "note" => i < g /\ P[p].do = "all"
                       /\ P[i].do = "gate" => P[i].err = "fail"

\* The nodes are cleared at step p, the row is deleted at e.
Erases(P, l, p, g, e) ==
    /\ Len(P) = l /\ l \in Marks
    /\ Guarded(P, l, p, g)
    /\ P[p].arg = "drop"
    /\ e \in 1..l /\ g < e
    /\ \A i \in 1..l : i # e => P[i].arg # "deleted"

\* The row leaves the active status at once, is read at r, the nodes are
\* configured at p, and the row is active again at a.
Provisions(P, l, r, p, g, a) ==
    /\ Len(P) = l /\ l \in Marks
    /\ Guarded(P, l, p, g)
    /\ P[p].arg = "put"
    /\ P[1].do = "status" /\ P[1].arg = "provisioning"
    /\ r \in 2..l /\ r < p /\ P[r].do = "read" /\ P[r].err = "fail"
    /\ a \in 1..l /\ g < a
    /\ P[a].do = "status" /\ P[a].arg = "active"
    /\ \A i \in 1..l : /\ P[i].do = "status" => i \in {1, a}
                       /\ P[i].do = "read" => i = r
                       /\ P[i].err = "return" => P[i].do = "status"
                       /\ P[i].arg # "deleted"

\* The row leaves the active status at once and is deleted, if anything.
Withdraws(P, l) ==
    /\ Len(P) = l /\ l \in Marks
    /\ P[1].do = "status" /\ P[1].arg = "deleting"
    /\ \A i \in 2..l : P[i].do = "status" => P[i].arg = "deleted"

\* Behind step b, the workflow ends with the row settled: at step e, its last
\* status, or where an error has the row marked as failed.  A status write does
\* not fail but for a fault or a refusal.
Settles(P, l, b, e) ==
    /\ Len(P) = l /\ l \in Marks
    /\ b \in {0, 1} /\ e \in 1..l /\ b < e
    /\ P[e].do = "status" /\ P[e].arg \in {"active", "deleted"}
    /\ \A i \in 1..l : /\ P[i].do = "status" => b < i /\ i <= e
                       /\ b < i /\ i <= e /\ P[i].err = "return" => P[i].do = "status"

\* The workflow never writes the status.
Keeps(P) == \A i \in Marks : i <= Len(P) => P[i].do # "status"

\* The names of kind k's tasks, and their workflows.
TaskNames(k) ==
    {o \in DOMAIN ServiceOf[k].ops : ServiceOf[k].ops[o].run # <<>>}
      \union {o \in {"create"} : ServiceOf[k].create # <<>>}

ProgramOf(k, o) ==
    IF o = "create" THEN ServiceOf[k].create ELSE ServiceOf[k].ops[o].run

-----------------------------------------------------------------------------
(***************************************************************************)
(* Invariants.                                                             *)
(***************************************************************************)
\* Tasks are the kind's own, and a workflow in progress is at one of its steps.
TasksOK ==
    /\ \A i \in DOMAIN queue : queue[i].op \in TaskNames(kind)
    /\ \A c \in Callers :
         /\ caller[c].pc = "read" =>
              caller[c].op \in DOMAIN Ops /\ Ops[caller[c].op].reads /\ caller[c].saw # Absent
         /\ caller[c].pc = "written" => caller[c].op \in TaskNames(kind)
    /\ wf # Idle => /\ wf.op \in TaskNames(kind)
                    /\ wf.pc \in 1..Len(ProgramOf(kind, wf.op))
                    /\ wf.todo \subseteq Targets

\* Nodes other than the targets are never touched.
OthersEmpty == \A n \in Nodes \ Targets : node[n] = Nothing

\* An error of a node is remembered until the gate stops the workflow.
ErrorsStop ==
    wf # Idle =>
      \A l, p, g \in Marks :
         /\ Len(ProgramOf(kind, wf.op)) = l
         /\ Guarded(ProgramOf(kind, wf.op), l, p, g)
         /\ ProgramOf(kind, wf.op)[p].do = "nodes" \/ wf.pc > g
         => ~wf.bad

\* What has gone has left every node; a workflow that starts later stops at
\* its read of the row.
Unclean == {"ssh_key", "email_forward", "zone_record"}

Removed ==
    row = Absent /\ kind \notin Unclean =>
      /\ \A n \in Nodes : node[n] = Nothing
      /\ wf # Idle => \A l, r \in Marks : Reads(ProgramOf(kind, wf.op), l, r) => wf.pc <= r

\* A workflow that erases has cleared the nodes it has been to.
Clearing ==
    wf # Idle /\ ~wf.bad =>
      \A l, p, g, e \in Marks : Erases(ProgramOf(kind, wf.op), l, p, g, e) =>
         /\ wf.pc = p => \A n \in Targets \ wf.todo : node[n] = Nothing
         /\ wf.pc > p => \A n \in Targets : node[n] = Nothing

RemovedInv == OthersEmpty /\ ErrorsStop /\ Removed /\ Clearing

-----------------------------------------------------------------------------
\* A task waits, or will be signalled.
Pending == queue # <<>> \/ \E c \in Callers : caller[c].pc = "written"

Fresh == \A n \in Targets : node[n].cfg = row.cfg

\* The kinds that ActiveIsApplied is about, and those among them whose
\* deletion does not begin with a status: their configuration never changes.
Still == {"backup", "ssh_key"}
Unapplied == {"fqdn", "s3_bucket", "zone", "zone_record", "cron_job", "daemon"}
Updated == Kind \ (Still \union Unapplied)

\* A workflow that provisions has configured the nodes it has been to with
\* its snapshot.
Configuring ==
    wf # Idle /\ ~wf.bad =>
      \A l, r, p, g, a \in Marks : Provisions(ProgramOf(kind, wf.op), l, r, p, g, a) =>
         /\ wf.pc = p => \A n \in Targets \ wf.todo : node[n].cfg = wf.snap.cfg
         /\ wf.pc > p => \A n \in Targets : node[n].cfg = wf.snap.cfg

\* Unless a later task waits: the snapshot is current, and a row that is
\* active while a workflow is under way has been put there by its last step.
UpdatedInv ==
    kind \in Updated /\ faults = 0 /\ ~Pending =>
      /\ row.status = "active" => Fresh \/ (wf # Idle /\ wf.pc = 1)
      /\ wf # Idle =>
           \A l \in Marks :
             /\ Withdraws(ProgramOf(kind, wf.op), l) /\ wf.pc > 1 => row.status # "active"
             /\ \A r, p, g, a \in Marks : Provisions(ProgramOf(kind, wf.op), l, r, p, g, a) =>
                  /\ wf.pc > 1 /\ wf.pc <= a => row.status # "active"
                  /\ wf.pc > r /\ row # Absent => wf.snap.cfg = row.cfg

\* Backups and SSH keys have one version.
OneVersion ==
    /\ row # Absent => row.cfg = 1
    /\ \A n \in Nodes : node[n].cfg \in {0, 1}
    /\ \A i \in DOMAIN queue : queue[i].cfg = 1
    /\ wf # Idle => wf.snap.cfg = 1
    /\ \A c \in Callers : /\ caller[c].pc = "read" => caller[c].saw.cfg = 1
                          /\ caller[c].pc = "written" => caller[c].cfg = 1

\* An active backup has its archive, until its deletion is at work on it; an
\* SSH key's row goes first.
StillApplied ==
    /\ row.status = "active" =>
         Fresh \/ (kind = "backup" /\ wf # Idle /\ wf.op = "delete" /\ wf.pc >= 2)
    /\ wf # Idle =>
         /\ kind = "ssh_key" /\ wf.op = "delete" /\ wf.pc >= 3 => row = Absent
         /\ kind = "backup" /\ wf.op = "restore" /\ wf.pc >= 5 =>
              \A n \in Targets : node[n].cfg # 0
         /\ \A l, r, p, g, a \in Marks :
              Provisions(ProgramOf(kind, wf.op), l, r, p, g, a) /\ wf.pc > 1 /\ wf.pc <= a
              => row.status # "active"

StillInv ==
    kind \in Still =>
      /\ OneVersion
      /\ children => kind \in Parents
      /\ faults = 0 /\ "backup" \notin Parents => StillApplied

AppliedInv == ErrorsStop /\ Configuring /\ UpdatedInv /\ StillInv

-----------------------------------------------------------------------------
(***************************************************************************)
(* The shapes of the workflows, kind by kind.                              *)
(***************************************************************************)
\* What the arguments need of the workflow of task o of kind k.
Shaped(k, o) ==
    /\ \E l : WellFormed(ProgramOf(k, o), l)
    /\ k \notin Unclean \union {"subscription"} =>
         \/ \E l, r : Reads(ProgramOf(k, o), l, r)
         \/ \E l, p, g, e : Erases(ProgramOf(k, o), l, p, g, e)
    /\ k \in Updated =>
         \/ \E l : Withdraws(ProgramOf(k, o), l)
         \/ \E l, r, p, g, a : Provisions(ProgramOf(k, o), l, r, p, g, a)

\* What the service's operation q, named o, on kind k may write.
Fits(k, o, q) ==
    /\ o \in OpNames \ {"none", "create"}
    /\ q.needs \subseteq Statuses
    /\ q.writes \in Statuses \union {"keep", "stale"}
    /\ q.writes = "stale" => q.reads
    /\ k \in Still => ~q.cfg /\ q.writes \notin {"active", "stale"}

Catalogued(k) ==
    /\ \A o \in DOMAIN ServiceOf[k].ops :
         /\ Fits(k, o, ServiceOf[k].ops[o])
         /\ k \in Updated \union Still => ServiceOf[k].ops[o].run # <<>>
    /\ ServiceOf[k].on \in BOOLEAN
    /\ IF k = "subscription"
       THEN ServiceOf[k].create = <<>> /\ ServiceOf[k].where = "none"
       ELSE ServiceOf[k].create # <<>> /\ ServiceOf[k].where \in {"all", "one"}

\* A task settles the row, or its operation leaves the row's status alone.
Concludes(k, o) ==
    \/ \E l, e : Settles(ProgramOf(k, o), l, 0, e)
    \/ /\ o # "create" /\ ServiceOf[k].ops[o].writes = "keep"
       /\ Keeps(ProgramOf(k, o)) \/ \E l, e : Settles(ProgramOf(k, o), l, 1, e)

Concluded(k) ==
    /\ \A o \in TaskNames(k) : Concludes(k, o)
    /\ k # "zone" => \A o \in DOMAIN ServiceOf[k].ops :
         ServiceOf[k].ops[o].run = <<>> => ServiceOf[k].ops[o].writes = "keep"

\* The parameters of a shape are places in the workflow.
LEMMA ReadsMarks ==
    ASSUME NEW P, NEW l, NEW r, Reads(P, l, r)
    PROVE  Len(P) = l /\ l \in Marks /\ r \in Marks
  BY DEF Reads, Marks

LEMMA ErasesMarks ==
    ASSUME NEW P, NEW l, NEW p, NEW g, NEW e, Erases(P, l, p, g, e)
    PROVE  Len(P) = l /\ l \in Marks /\ p \in Marks /\ g \in Marks /\ e \in Marks
  BY DEF Erases, Guarded, Marks

LEMMA WithdrawsMarks ==
    ASSUME NEW P, NEW l, Withdraws(P, l)
    PROVE  Len(P) = l /\ l \in Marks
  BY DEF Withdraws

LEMMA ProvisionsMarks ==
    ASSUME NEW P, NEW l, NEW r, NEW p, NEW g, NEW a, Provisions(P, l, r, p, g, a)
    PROVE  /\ Len(P) = l /\ l \in Marks /\ r \in Marks
           /\ p \in Marks /\ g \in Marks /\ a \in Marks
  BY DEF Provisions, Guarded, Marks

USE DEF Step, Status, Read, ReadOrReturn, Nodes1, All, Gate, Side, Begin,
        BeginDelete, Done, Deleted, fanOutNodes, fanOutChildWorkflows,
        setupServiceHostname, teardownServiceHostname,
        regenerateWebrootNginxOnNodes, ServiceOf, Service, Op, WriteBack, Patch,
        DeleteReturning, DeleteResolved, RetryKnown, RetryResolved, Toggle

LEMMA WebrootShapes ==
    Catalogued("webroot") /\ \A o \in TaskNames("webroot") : Shaped("webroot", o)
<1>1. \A o \in DOMAIN ServiceOf["webroot"].ops : Fits("webroot", o, ServiceOf["webroot"].ops[o])
  BY DEF WebrootService, Fits, OpNames, Statuses, Still
<1>2. /\ ServiceOf["webroot"].create # <<>>
      /\ \A o \in DOMAIN ServiceOf["webroot"].ops : ServiceOf["webroot"].ops[o].run # <<>>
  BY DEF WebrootService, CreateWebrootWorkflow, UpdateWebrootWorkflow,
         DeleteWebrootWorkflow
<1>3. ServiceOf["webroot"].on \in BOOLEAN /\ ServiceOf["webroot"].where \in {"all", "one"}
  BY DEF WebrootService
<1>4. \A o \in TaskNames("webroot") : ProgramOf("webroot", o) \in
        {CreateWebrootWorkflow, UpdateWebrootWorkflow, DeleteWebrootWorkflow}
  BY DEF WebrootService, TaskNames, ProgramOf
<1>5. /\ WellFormed(CreateWebrootWorkflow, 7)
      /\ WellFormed(UpdateWebrootWorkflow, 6)
      /\ WellFormed(DeleteWebrootWorkflow, 6)
  BY DEF CreateWebrootWorkflow, UpdateWebrootWorkflow, DeleteWebrootWorkflow,
         WellFormed, Marks, NodeSteps, Changes, Statuses
<1>6. /\ Reads(CreateWebrootWorkflow, 7, 2)
      /\ Provisions(CreateWebrootWorkflow, 7, 2, 3, 4, 6)
      /\ Reads(UpdateWebrootWorkflow, 6, 2)
      /\ Provisions(UpdateWebrootWorkflow, 6, 2, 3, 4, 6)
      /\ Erases(DeleteWebrootWorkflow, 6, 4, 5, 6)
      /\ Withdraws(DeleteWebrootWorkflow, 6)
  BY DEF CreateWebrootWorkflow, UpdateWebrootWorkflow, DeleteWebrootWorkflow,
         Marks, NodeSteps, Guarded, Reads, Erases, Provisions, Withdraws
<1>7. Catalogued("webroot")
  BY <1>1, <1>2, <1>3 DEF Catalogued, Updated, Still, Unapplied
<1> QED
  BY <1>4, <1>5, <1>6, <1>7
  DEF Shaped, Unclean, Updated, Still, Unapplied, Kind

LEMMA FqdnShapes ==
    Catalogued("fqdn") /\ \A o \in TaskNames("fqdn") : Shaped("fqdn", o)
<1>1. \A o \in DOMAIN ServiceOf["fqdn"].ops : Fits("fqdn", o, ServiceOf["fqdn"].ops[o])
  BY DEF FQDNService, Fits, OpNames, Statuses, Still
<1>2. ServiceOf["fqdn"].create # <<>>
  BY DEF FQDNService, BindFQDNWorkflow
<1>3. ServiceOf["fqdn"].on \in BOOLEAN /\ ServiceOf["fqdn"].where \in {"all", "one"}
  BY DEF FQDNService
<1>4. \A o \in TaskNames("fqdn") : ProgramOf("fqdn", o) \in
        {BindFQDNWorkflow, UnbindFQDNWorkflow}
  BY DEF FQDNService, TaskNames, ProgramOf
<1>5. /\ WellFormed(BindFQDNWorkflow, 9) /\ WellFormed(UnbindFQDNWorkflow, 7)
  BY DEF BindFQDNWorkflow, UnbindFQDNWorkflow, WellFormed, Marks, NodeSteps,
         Changes, Statuses
<1>6. /\ Reads(BindFQDNWorkflow, 9, 2)
      /\ Erases(UnbindFQDNWorkflow, 7, 4, 5, 7)
  BY DEF BindFQDNWorkflow, UnbindFQDNWorkflow, Marks, NodeSteps, Guarded,
         Reads, Erases
<1>7. Catalogued("fqdn")
  BY <1>1, <1>2, <1>3 DEF Catalogued, Updated, Still, Unapplied
<1> QED
  BY <1>4, <1>5, <1>6, <1>7
  DEF Shaped, Unclean, Updated, Still, Unapplied, Kind

LEMMA CertificateShapes ==
    Catalogued("certificate") /\ \A o \in TaskNames("certificate") : Shaped("certificate", o)
<1>1. \A o \in DOMAIN ServiceOf["certificate"].ops : Fits("certificate", o, ServiceOf["certificate"].ops[o])
  BY DEF CertificateService, Fits, OpNames, Statuses, Still
<1>2. /\ ServiceOf["certificate"].create # <<>>
      /\ \A o \in DOMAIN ServiceOf["certificate"].ops : ServiceOf["certificate"].ops[o].run # <<>>
  BY DEF CertificateService, UploadCustomCertWorkflow
<1>3. ServiceOf["certificate"].on \in BOOLEAN /\ ServiceOf["certificate"].where \in {"all", "one"}
  BY DEF CertificateService
<1>4. \A o \in TaskNames("certificate") : ProgramOf("certificate", o) \in
        {UploadCustomCertWorkflow}
  BY DEF CertificateService, TaskNames, ProgramOf
<1>5. /\ WellFormed(UploadCustomCertWorkflow, 7)
  BY DEF UploadCustomCertWorkflow, WellFormed, Marks, NodeSteps, Changes,
         Statuses
<1>6. /\ Reads(UploadCustomCertWorkflow, 7, 2)
      /\ Provisions(UploadCustomCertWorkflow, 7, 2, 4, 5, 7)
  BY DEF UploadCustomCertWorkflow, Marks, NodeSteps, Guarded, Reads,
         Provisions
<1>7. Catalogued("certificate")
  BY <1>1, <1>2, <1>3 DEF Catalogued, Updated, Still, Unapplied
<1> QED
  BY <1>4, <1>5, <1>6, <1>7
  DEF Shaped, Unclean, Updated, Still, Unapplied, Kind

LEMMA CronJobShapes ==
    Catalogued("cron_job") /\ \A o \in TaskNames("cron_job") : Shaped("cron_job", o)
<1>1. \A o \in DOMAIN ServiceOf["cron_job"].ops : Fits("cron_job", o, ServiceOf["cron_job"].ops[o])
  BY DEF CronJobService, Fits, OpNames, Statuses, Still
<1>2. ServiceOf["cron_job"].create # <<>>
  BY DEF CronJobService, CreateCronJobWorkflow
<1>3. ServiceOf["cron_job"].on \in BOOLEAN /\ ServiceOf["cron_job"].where \in {"all", "one"}
  BY DEF CronJobService
<1>4. \A o \in TaskNames("cron_job") : ProgramOf("cron_job", o) \in
        {CreateCronJobWorkflow, UpdateCronJobWorkflow, DeleteCronJobWorkflow,
         EnableCronJobWorkflow, DisableCronJobWorkflow}
  BY DEF CronJobService, TaskNames, ProgramOf
<1>5. /\ WellFormed(CreateCronJobWorkflow, 6)
      /\ WellFormed(UpdateCronJobWorkflow, 6)
      /\ WellFormed(DeleteCronJobWorkflow, 5)
      /\ WellFormed(EnableCronJobWorkflow, 5)
      /\ WellFormed(DisableCronJobWorkflow, 5)
  BY DEF CreateCronJobWorkflow, UpdateCronJobWorkflow, DeleteCronJobWorkflow,
         EnableCronJobWorkflow, DisableCronJobWorkflow, WellFormed, Marks,
         NodeSteps, Changes, Statuses
<1>6. /\ Reads(CreateCronJobWorkflow, 6, 2)
      /\ Reads(UpdateCronJobWorkflow, 6, 2)
      /\ Erases(DeleteCronJobWorkflow, 5, 3, 4, 5)
      /\ Reads(EnableCronJobWorkflow, 5, 2)
      /\ Reads(DisableCronJobWorkflow, 5, 2)
  BY DEF CreateCronJobWorkflow, UpdateCronJobWorkflow, DeleteCronJobWorkflow,
         EnableCronJobWorkflow, DisableCronJobWorkflow, Marks, NodeSteps,
         Guarded, Reads, Erases
<1>7. Catalogued("cron_job")
  BY <1>1, <1>2, <1>3 DEF Catalogued, Updated, Still, Unapplied
<1> QED
  BY <1>4, <1>5, <1>6, <1>7
  DEF Shaped, Unclean, Updated, Still, Unapplied, Kind

LEMMA DaemonShapes ==
    Catalogued("daemon") /\ \A o \in TaskNames("daemon") : Shaped("daemon", o)
<1>1. \A o \in DOMAIN ServiceOf["daemon"].ops : Fits("daemon", o, ServiceOf["daemon"].ops[o])
  BY DEF DaemonService, Fits, OpNames, Statuses, Still
<1>2. ServiceOf["daemon"].create # <<>>
  BY DEF DaemonService, CreateDaemonWorkflow
<1>3. ServiceOf["daemon"].on \in BOOLEAN /\ ServiceOf["daemon"].where \in {"all", "one"}
  BY DEF DaemonService
<1>4. \A o \in TaskNames("daemon") : ProgramOf("daemon", o) \in
        {CreateDaemonWorkflow, UpdateDaemonWorkflow, DeleteDaemonWorkflow,
         EnableDaemonWorkflow, DisableDaemonWorkflow}
  BY DEF DaemonService, TaskNames, ProgramOf
<1>5. /\ WellFormed(CreateDaemonWorkflow, 6)
      /\ WellFormed(UpdateDaemonWorkflow, 6)
      /\ WellFormed(DeleteDaemonWorkflow, 6)
      /\ WellFormed(EnableDaemonWorkflow, 4)
      /\ WellFormed(DisableDaemonWorkflow, 4)
  BY DEF CreateDaemonWorkflow, UpdateDaemonWorkflow, DeleteDaemonWorkflow,
         EnableDaemonWorkflow, DisableDaemonWorkflow, WellFormed, Marks,
         NodeSteps, Changes, Statuses
<1>6. /\ Reads(CreateDaemonWorkflow, 6, 2)
      /\ Reads(UpdateDaemonWorkflow, 6, 2)
      /\ Erases(DeleteDaemonWorkflow, 6, 3, 5, 6)
      /\ Reads(EnableDaemonWorkflow, 4, 2)
      /\ Reads(DisableDaemonWorkflow, 4, 2)
  BY DEF CreateDaemonWorkflow, UpdateDaemonWorkflow, DeleteDaemonWorkflow,
         EnableDaemonWorkflow, DisableDaemonWorkflow, Marks, NodeSteps,
         Guarded, Reads, Erases
<1>7. Catalogued("daemon")
  BY <1>1, <1>2, <1>3 DEF Catalogued, Updated, Still, Unapplied
<1> QED
  BY <1>4, <1>5, <1>6, <1>7
  DEF Shaped, Unclean, Updated, Still, Unapplied, Kind

LEMMA SshKeyShapes ==
    Catalogued("ssh_key") /\ \A o \in TaskNames("ssh_key") : Shaped("ssh_key", o)
<1>1. \A o \in DOMAIN ServiceOf["ssh_key"].ops : Fits("ssh_key", o, ServiceOf["ssh_key"].ops[o])
  BY DEF SSHKeyService, Fits, OpNames, Statuses, Still
<1>2. /\ ServiceOf["ssh_key"].create # <<>>
      /\ \A o \in DOMAIN ServiceOf["ssh_key"].ops : ServiceOf["ssh_key"].ops[o].run # <<>>
  BY DEF SSHKeyService, AddSSHKeyWorkflow, RemoveSSHKeyWorkflow
<1>3. ServiceOf["ssh_key"].on \in BOOLEAN /\ ServiceOf["ssh_key"].where \in {"all", "one"}
  BY DEF SSHKeyService
<1>4. \A o \in TaskNames("ssh_key") : ProgramOf("ssh_key", o) \in
        {AddSSHKeyWorkflow, RemoveSSHKeyWorkflow}
  BY DEF SSHKeyService, TaskNames, ProgramOf
<1>5. /\ WellFormed(AddSSHKeyWorkflow, 4)
      /\ WellFormed(RemoveSSHKeyWorkflow, 4)
  BY DEF AddSSHKeyWorkflow, RemoveSSHKeyWorkflow, WellFormed, Marks,
         NodeSteps, Changes, Statuses
<1>7. Catalogued("ssh_key")
  BY <1>1, <1>2, <1>3 DEF Catalogued, Updated, Still, Unapplied
<1> QED
  BY <1>4, <1>5, <1>7
  DEF Shaped, Unclean, Updated, Still, Unapplied, Kind

LEMMA DatabaseShapes ==
    Catalogued("database") /\ \A o \in TaskNames("database") : Shaped("database", o)
<1>1. \A o \in DOMAIN ServiceOf["database"].ops : Fits("database", o, ServiceOf["database"].ops[o])
  BY DEF DatabaseService, Fits, OpNames, Statuses, Still
<1>2. /\ ServiceOf["database"].create # <<>>
      /\ \A o \in DOMAIN ServiceOf["database"].ops : ServiceOf["database"].ops[o].run # <<>>
  BY DEF DatabaseService, CreateDatabaseWorkflow, DeleteDatabaseWorkflow
<1>3. ServiceOf["database"].on \in BOOLEAN /\ ServiceOf["database"].where \in {"all", "one"}
  BY DEF DatabaseService
<1>4. \A o \in TaskNames("database") : ProgramOf("database", o) \in
        {CreateDatabaseWorkflow, DeleteDatabaseWorkflow}
  BY DEF DatabaseService, TaskNames, ProgramOf
<1>5. /\ WellFormed(CreateDatabaseWorkflow, 6)
      /\ WellFormed(DeleteDatabaseWorkflow, 4)
  BY DEF CreateDatabaseWorkflow, DeleteDatabaseWorkflow, WellFormed, Marks,
         NodeSteps, Changes, Statuses
<1>6. /\ Reads(CreateDatabaseWorkflow, 6, 2)
      /\ Provisions(CreateDatabaseWorkflow, 6, 2, 3, 3, 5)
      /\ Erases(DeleteDatabaseWorkflow, 4, 3, 3, 4)
      /\ Withdraws(DeleteDatabaseWorkflow, 4)
  BY DEF CreateDatabaseWorkflow, DeleteDatabaseWorkflow, Marks, NodeSteps,
         Guarded, Reads, Erases, Provisions, Withdraws
<1>7. Catalogued("database")
  BY <1>1, <1>2, <1>3 DEF Catalogued, Updated, Still, Unapplied
<1> QED
  BY <1>4, <1>5, <1>6, <1>7
  DEF Shaped, Unclean, Updated, Still, Unapplied, Kind

LEMMA DatabaseUserShapes ==
    Catalogued("database_user") /\ \A o \in TaskNames("database_user") : Shaped("database_user", o)
<1>1. \A o \in DOMAIN ServiceOf["database_user"].ops : Fits("database_user", o, ServiceOf["database_user"].ops[o])
  BY DEF DatabaseUserService, Fits, OpNames, Statuses, Still
<1>2. /\ ServiceOf["database_user"].create # <<>>
      /\ \A o \in DOMAIN ServiceOf["database_user"].ops : ServiceOf["database_user"].ops[o].run # <<>>
  BY DEF DatabaseUserService, CreateDatabaseUserWorkflow,
         UpdateDatabaseUserWorkflow, DeleteDatabaseUserWorkflow
<1>3. ServiceOf["database_user"].on \in BOOLEAN /\ ServiceOf["database_user"].where \in {"all", "one"}
  BY DEF DatabaseUserService
<1>4. \A o \in TaskNames("database_user") : ProgramOf("database_user", o) \in
        {CreateDatabaseUserWorkflow, UpdateDatabaseUserWorkflow,
         DeleteDatabaseUserWorkflow}
  BY DEF DatabaseUserService, TaskNames, ProgramOf
<1>5. /\ WellFormed(CreateDatabaseUserWorkflow, 4)
      /\ WellFormed(UpdateDatabaseUserWorkflow, 4)
      /\ WellFormed(DeleteDatabaseUserWorkflow, 4)
  BY DEF CreateDatabaseUserWorkflow, UpdateDatabaseUserWorkflow,
         DeleteDatabaseUserWorkflow, WellFormed, Marks, NodeSteps, Changes,
         Statuses
<1>6. /\ Reads(CreateDatabaseUserWorkflow, 4, 2)
      /\ Provisions(CreateDatabaseUserWorkflow, 4, 2, 3, 3, 4)
      /\ Reads(UpdateDatabaseUserWorkflow, 4, 2)
      /\ Provisions(UpdateDatabaseUserWorkflow, 4, 2, 3, 3, 4)
      /\ Erases(DeleteDatabaseUserWorkflow, 4, 3, 3, 4)
      /\ Withdraws(DeleteDatabaseUserWorkflow, 4)
  BY DEF CreateDatabaseUserWorkflow, UpdateDatabaseUserWorkflow,
         DeleteDatabaseUserWorkflow, Marks, NodeSteps, Guarded, Reads,
         Erases, Provisions, Withdraws
<1>7. Catalogued("database_user")
  BY <1>1, <1>2, <1>3 DEF Catalogued, Updated, Still, Unapplied
<1> QED
  BY <1>4, <1>5, <1>6, <1>7
  DEF Shaped, Unclean, Updated, Still, Unapplied, Kind

LEMMA ValkeyInstanceShapes ==
    Catalogued("valkey_instance") /\ \A o \in TaskNames("valkey_instance") : Shaped("valkey_instance", o)
<1>1. \A o \in DOMAIN ServiceOf["valkey_instance"].ops : Fits("valkey_instance", o, ServiceOf["valkey_instance"].ops[o])
  BY DEF ValkeyInstanceService, Fits, OpNames, Statuses, Still
<1>2. /\ ServiceOf["valkey_instance"].create # <<>>
      /\ \A o \in DOMAIN ServiceOf["valkey_instance"].ops : ServiceOf["valkey_instance"].ops[o].run # <<>>
  BY DEF ValkeyInstanceService, CreateValkeyInstanceWorkflow,
         DeleteValkeyInstanceWorkflow
<1>3. ServiceOf["valkey_instance"].on \in BOOLEAN /\ ServiceOf["valkey_instance"].where \in {"all", "one"}
  BY DEF ValkeyInstanceService
<1>4. \A o \in TaskNames("valkey_instance") : ProgramOf("valkey_instance", o) \in
        {CreateValkeyInstanceWorkflow, DeleteValkeyInstanceWorkflow}
  BY DEF ValkeyInstanceService, TaskNames, ProgramOf
<1>5. /\ WellFormed(CreateValkeyInstanceWorkflow, 6)
      /\ WellFormed(DeleteValkeyInstanceWorkflow, 4)
  BY DEF CreateValkeyInstanceWorkflow, DeleteValkeyInstanceWorkflow,
         WellFormed, Marks, NodeSteps, Changes, Statuses
<1>6. /\ Reads(CreateValkeyInstanceWorkflow, 6, 2)
      /\ Provisions(CreateValkeyInstanceWorkflow, 6, 2, 3, 3, 5)
      /\ Erases(DeleteValkeyInstanceWorkflow, 4, 3, 3, 4)
      /\ Withdraws(DeleteValkeyInstanceWorkflow, 4)
  BY DEF CreateValkeyInstanceWorkflow, DeleteValkeyInstanceWorkflow, Marks,
         NodeSteps, Guarded, Reads, Erases, Provisions, Withdraws
<1>7. Catalogued("valkey_instance")
  BY <1>1, <1>2, <1>3 DEF Catalogued, Updated, Still, Unapplied
<1> QED
  BY <1>4, <1>5, <1>6, <1>7
  DEF Shaped, Unclean, Updated, Still, Unapplied, Kind

LEMMA ValkeyUserShapes ==
    Catalogued("valkey_user") /\ \A o \in TaskNames("valkey_user") : Shaped("valkey_user", o)
<1>1. \A o \in DOMAIN ServiceOf["valkey_user"].ops : Fits("valkey_user", o, ServiceOf["valkey_user"].ops[o])
  BY DEF ValkeyUserService, Fits, OpNames, Statuses, Still
<1>2. /\ ServiceOf["valkey_user"].create # <<>>
      /\ \A o \in DOMAIN ServiceOf["valkey_user"].ops : ServiceOf["valkey_user"].ops[o].run # <<>>
  BY DEF ValkeyUserService, CreateValkeyUserWorkflow,
         UpdateValkeyUserWorkflow, DeleteValkeyUserWorkflow
<1>3. ServiceOf["valkey_user"].on \in BOOLEAN /\ ServiceOf["valkey_user"].where \in {"all", "one"}
  BY DEF ValkeyUserService
<1>4. \A o \in TaskNames("valkey_user") : ProgramOf("valkey_user", o) \in
        {CreateValkeyUserWorkflow, UpdateValkeyUserWorkflow,
         DeleteValkeyUserWorkflow}
  BY DEF ValkeyUserService, TaskNames, ProgramOf
<1>5. /\ WellFormed(CreateValkeyUserWorkflow, 4)
      /\ WellFormed(UpdateValkeyUserWorkflow, 4)
      /\ WellFormed(DeleteValkeyUserWorkflow, 4)
  BY DEF CreateValkeyUserWorkflow, UpdateValkeyUserWorkflow,
         DeleteValkeyUserWorkflow, WellFormed, Marks, NodeSteps, Changes,
         Statuses
<1>6. /\ Reads(CreateValkeyUserWorkflow, 4, 2)
      /\ Provisions(CreateValkeyUserWorkflow, 4, 2, 3, 3, 4)
      /\ Reads(UpdateValkeyUserWorkflow, 4, 2)
      /\ Provisions(UpdateValkeyUserWorkflow, 4, 2, 3, 3, 4)
      /\ Erases(DeleteValkeyUserWorkflow, 4, 3, 3, 4)
      /\ Withdraws(DeleteValkeyUserWorkflow, 4)
  BY DEF CreateValkeyUserWorkflow, UpdateValkeyUserWorkflow,
         DeleteValkeyUserWorkflow, Marks, NodeSteps, Guarded, Reads, Erases,
         Provisions, Withdraws
<1>7. Catalogued("valkey_user")
  BY <1>1, <1>2, <1>3 DEF Catalogued, Updated, Still, Unapplied
<1> QED
  BY <1>4, <1>5, <1>6, <1>7
  DEF Shaped, Unclean, Updated, Still, Unapplied, Kind

LEMMA S3BucketShapes ==
    Catalogued("s3_bucket") /\ \A o \in TaskNames("s3_bucket") : Shaped("s3_bucket", o)
<1>1. \A o \in DOMAIN ServiceOf["s3_bucket"].ops : Fits("s3_bucket", o, ServiceOf["s3_bucket"].ops[o])
  BY DEF S3BucketService, Fits, OpNames, Statuses, Still
<1>2. ServiceOf["s3_bucket"].create # <<>>
  BY DEF S3BucketService, CreateS3BucketWorkflow
<1>3. ServiceOf["s3_bucket"].on \in BOOLEAN /\ ServiceOf["s3_bucket"].where \in {"all", "one"}
  BY DEF S3BucketService
<1>4. \A o \in TaskNames("s3_bucket") : ProgramOf("s3_bucket", o) \in
        {CreateS3BucketWorkflow, UpdateS3BucketWorkflow,
         DeleteS3BucketWorkflow}
  BY DEF S3BucketService, TaskNames, ProgramOf
<1>5. /\ WellFormed(CreateS3BucketWorkflow, 5)
      /\ WellFormed(UpdateS3BucketWorkflow, 2)
      /\ WellFormed(DeleteS3BucketWorkflow, 4)
  BY DEF CreateS3BucketWorkflow, UpdateS3BucketWorkflow,
         DeleteS3BucketWorkflow, WellFormed, Marks, NodeSteps, Changes,
         Statuses
<1>6. /\ Reads(CreateS3BucketWorkflow, 5, 2)
      /\ Reads(UpdateS3BucketWorkflow, 2, 1)
      /\ Erases(DeleteS3BucketWorkflow, 4, 3, 3, 4)
  BY DEF CreateS3BucketWorkflow, UpdateS3BucketWorkflow,
         DeleteS3BucketWorkflow, Marks, NodeSteps, Guarded, Reads, Erases
<1>7. Catalogued("s3_bucket")
  BY <1>1, <1>2, <1>3 DEF Catalogued, Updated, Still, Unapplied
<1> QED
  BY <1>4, <1>5, <1>6, <1>7
  DEF Shaped, Unclean, Updated, Still, Unapplied, Kind

LEMMA S3AccessKeyShapes ==
    Catalogued("s3_access_key") /\ \A o \in TaskNames("s3_access_key") : Shaped("s3_access_key", o)
<1>1. \A o \in DOMAIN ServiceOf["s3_access_key"].ops : Fits("s3_access_key", o, ServiceOf["s3_access_key"].ops[o])
  BY DEF S3AccessKeyService, Fits, OpNames, Statuses, Still
<1>2. /\ ServiceOf["s3_access_key"].create # <<>>
      /\ \A o \in DOMAIN ServiceOf["s3_access_key"].ops : ServiceOf["s3_access_key"].ops[o].run # <<>>
  BY DEF S3AccessKeyService, CreateS3AccessKeyWorkflow,
         DeleteS3AccessKeyWorkflow
<1>3. ServiceOf["s3_access_key"].on \in BOOLEAN /\ ServiceOf["s3_access_key"].where \in {"all", "one"}
  BY DEF S3AccessKeyService
<1>4. \A o \in TaskNames("s3_access_key") : ProgramOf("s3_access_key", o) \in
        {CreateS3AccessKeyWorkflow, DeleteS3AccessKeyWorkflow}
  BY DEF S3AccessKeyService, TaskNames, ProgramOf
<1>5. /\ WellFormed(CreateS3AccessKeyWorkflow, 4)
      /\ WellFormed(DeleteS3AccessKeyWorkflow, 4)
  BY DEF CreateS3AccessKeyWorkflow, DeleteS3AccessKeyWorkflow, WellFormed,
         Marks, NodeSteps, Changes, Statuses
<1>6. /\ Reads(CreateS3AccessKeyWorkflow, 4, 2)
      /\ Provisions(CreateS3AccessKeyWorkflow, 4, 2, 3, 3, 4)
      /\ Erases(DeleteS3AccessKeyWorkflow, 4, 3, 3, 4)
      /\ Withdraws(DeleteS3AccessKeyWorkflow, 4)
  BY DEF CreateS3AccessKeyWorkflow, DeleteS3AccessKeyWorkflow, Marks,
         NodeSteps, Guarded, Reads, Erases, Provisions, Withdraws
<1>7. Catalogued("s3_access_key")
  BY <1>1, <1>2, <1>3 DEF Catalogued, Updated, Still, Unapplied
<1> QED
  BY <1>4, <1>5, <1>6, <1>7
  DEF Shaped, Unclean, Updated, Still, Unapplied, Kind

LEMMA BackupShapes ==
    Catalogued("backup") /\ \A o \in TaskNames("backup") : Shaped("backup", o)
<1>1. \A o \in DOMAIN ServiceOf["backup"].ops : Fits("backup", o, ServiceOf["backup"].ops[o])
  BY DEF BackupService, Fits, OpNames, Statuses, Still
<1>2. /\ ServiceOf["backup"].create # <<>>
      /\ \A o \in DOMAIN ServiceOf["backup"].ops : ServiceOf["backup"].ops[o].run # <<>>
  BY DEF BackupService, CreateBackupWorkflow, DeleteBackupWorkflow,
         RestoreBackupWorkflow
<1>3. ServiceOf["backup"].on \in BOOLEAN /\ ServiceOf["backup"].where \in {"all", "one"}
  BY DEF BackupService
<1>4. \A o \in TaskNames("backup") : ProgramOf("backup", o) \in
        {CreateBackupWorkflow, DeleteBackupWorkflow, RestoreBackupWorkflow}
  BY DEF BackupService, TaskNames, ProgramOf
<1>5. /\ WellFormed(CreateBackupWorkflow, 5)
      /\ WellFormed(DeleteBackupWorkflow, 3)
      /\ WellFormed(RestoreBackupWorkflow, 5)
  BY DEF CreateBackupWorkflow, DeleteBackupWorkflow, RestoreBackupWorkflow,
         WellFormed, Marks, NodeSteps, Changes, Statuses
<1>6. /\ Reads(CreateBackupWorkflow, 5, 2)
      /\ Erases(DeleteBackupWorkflow, 3, 2, 2, 3)
      /\ Reads(RestoreBackupWorkflow, 5, 1)
  BY DEF CreateBackupWorkflow, DeleteBackupWorkflow, RestoreBackupWorkflow,
         Marks, NodeSteps, Guarded, Reads, Erases
<1>7. Catalogued("backup")
  BY <1>1, <1>2, <1>3 DEF Catalogued, Updated, Still, Unapplied
<1> QED
  BY <1>4, <1>5, <1>6, <1>7
  DEF Shaped, Unclean, Updated, Still, Unapplied, Kind

LEMMA WireguardPeerShapes ==
    Catalogued("wireguard_peer") /\ \A o \in TaskNames("wireguard_peer") : Shaped("wireguard_peer", o)
<1>1. \A o \in DOMAIN ServiceOf["wireguard_peer"].ops : Fits("wireguard_peer", o, ServiceOf["wireguard_peer"].ops[o])
  BY DEF WireGuardPeerService, Fits, OpNames, Statuses, Still
<1>2. /\ ServiceOf["wireguard_peer"].create # <<>>
      /\ \A o \in DOMAIN ServiceOf["wireguard_peer"].ops : ServiceOf["wireguard_peer"].ops[o].run # <<>>
  BY DEF WireGuardPeerService, CreateWireGuardPeerWorkflow,
         DeleteWireGuardPeerWorkflow
<1>3. ServiceOf["wireguard_peer"].on \in BOOLEAN /\ ServiceOf["wireguard_peer"].where \in {"all", "one"}
  BY DEF WireGuardPeerService
<1>4. \A o \in TaskNames("wireguard_peer") : ProgramOf("wireguard_peer", o) \in
        {CreateWireGuardPeerWorkflow, DeleteWireGuardPeerWorkflow}
  BY DEF WireGuardPeerService, TaskNames, ProgramOf
<1>5. /\ WellFormed(CreateWireGuardPeerWorkflow, 5)
      /\ WellFormed(DeleteWireGuardPeerWorkflow, 5)
  BY DEF CreateWireGuardPeerWorkflow, DeleteWireGuardPeerWorkflow,
         WellFormed, Marks, NodeSteps, Changes, Statuses
<1>6. /\ Reads(CreateWireGuardPeerWorkflow, 5, 2)
      /\ Provisions(CreateWireGuardPeerWorkflow, 5, 2, 3, 4, 5)
      /\ Erases(DeleteWireGuardPeerWorkflow, 5, 3, 4, 5)
      /\ Withdraws(DeleteWireGuardPeerWorkflow, 5)
  BY DEF CreateWireGuardPeerWorkflow, DeleteWireGuardPeerWorkflow, Marks,
         NodeSteps, Guarded, Reads, Erases, Provisions, Withdraws
<1>7. Catalogued("wireguard_peer")
  BY <1>1, <1>2, <1>3 DEF Catalogued, Updated, Still, Unapplied
<1> QED
  BY <1>4, <1>5, <1>6, <1>7
  DEF Shaped, Unclean, Updated, Still, Unapplied, Kind

LEMMA EmailAccountShapes ==
    Catalogued("email_account") /\ \A o \in TaskNames("email_account") : Shaped("email_account", o)
<1>1. \A o \in DOMAIN ServiceOf["email_account"].ops : Fits("email_account", o, ServiceOf["email_account"].ops[o])
  BY DEF EmailAccountService, Fits, OpNames, Statuses, Still
<1>2. /\ ServiceOf["email_account"].create # <<>>
      /\ \A o \in DOMAIN ServiceOf["email_account"].ops : ServiceOf["email_account"].ops[o].run # <<>>
  BY DEF EmailAccountService, CreateEmailAccountWorkflow,
         DeleteEmailAccountWorkflow
<1>3. ServiceOf["email_account"].on \in BOOLEAN /\ ServiceOf["email_account"].where \in {"all", "one"}
  BY DEF EmailAccountService
<1>4. \A o \in TaskNames("email_account") : ProgramOf("email_account", o) \in
        {CreateEmailAccountWorkflow, DeleteEmailAccountWorkflow}
  BY DEF EmailAccountService, TaskNames, ProgramOf
<1>5. /\ WellFormed(CreateEmailAccountWorkflow, 7)
      /\ WellFormed(DeleteEmailAccountWorkflow, 6)
  BY DEF CreateEmailAccountWorkflow, DeleteEmailAccountWorkflow, WellFormed,
         Marks, NodeSteps, Changes, Statuses
<1>6. /\ Reads(CreateEmailAccountWorkflow, 7, 2)
      /\ Provisions(CreateEmailAccountWorkflow, 7, 2, 4, 4, 6)
      /\ Erases(DeleteEmailAccountWorkflow, 6, 3, 3, 4)
      /\ Withdraws(DeleteEmailAccountWorkflow, 6)
  BY DEF CreateEmailAccountWorkflow, DeleteEmailAccountWorkflow, Marks,
         NodeSteps, Guarded, Reads, Erases, Provisions, Withdraws
<1>7. Catalogued("email_account")
  BY <1>1, <1>2, <1>3 DEF Catalogued, Updated, Still, Unapplied
<1> QED
  BY <1>4, <1>5, <1>6, <1>7
  DEF Shaped, Unclean, Updated, Still, Unapplied, Kind

LEMMA EmailAliasShapes ==
    Catalogued("email_alias") /\ \A o \in TaskNames("email_alias") : Shaped("email_alias", o)
<1>1. \A o \in DOMAIN ServiceOf["email_alias"].ops : Fits("email_alias", o, ServiceOf["email_alias"].ops[o])
  BY DEF EmailAliasService, Fits, OpNames, Statuses, Still
<1>2. /\ ServiceOf["email_alias"].create # <<>>
      /\ \A o \in DOMAIN ServiceOf["email_alias"].ops : ServiceOf["email_alias"].ops[o].run # <<>>
  BY DEF EmailAliasService, CreateEmailAliasWorkflow,
         DeleteEmailAliasWorkflow
<1>3. ServiceOf["email_alias"].on \in BOOLEAN /\ ServiceOf["email_alias"].where \in {"all", "one"}
  BY DEF EmailAliasService
<1>4. \A o \in TaskNames("email_alias") : ProgramOf("email_alias", o) \in
        {CreateEmailAliasWorkflow, DeleteEmailAliasWorkflow}
  BY DEF EmailAliasService, TaskNames, ProgramOf
<1>5. /\ WellFormed(CreateEmailAliasWorkflow, 4)
      /\ WellFormed(DeleteEmailAliasWorkflow, 4)
  BY DEF CreateEmailAliasWorkflow, DeleteEmailAliasWorkflow, WellFormed,
         Marks, NodeSteps, Changes, Statuses
<1>6. /\ Reads(CreateEmailAliasWorkflow, 4, 2)
      /\ Provisions(CreateEmailAliasWorkflow, 4, 2, 3, 3, 4)
      /\ Erases(DeleteEmailAliasWorkflow, 4, 3, 3, 4)
      /\ Withdraws(DeleteEmailAliasWorkflow, 4)
  BY DEF CreateEmailAliasWorkflow, DeleteEmailAliasWorkflow, Marks,
         NodeSteps, Guarded, Reads, Erases, Provisions, Withdraws
<1>7. Catalogued("email_alias")
  BY <1>1, <1>2, <1>3 DEF Catalogued, Updated, Still, Unapplied
<1> QED
  BY <1>4, <1>5, <1>6, <1>7
  DEF Shaped, Unclean, Updated, Still, Unapplied, Kind

LEMMA EmailForwardShapes ==
    Catalogued("email_forward") /\ \A o \in TaskNames("email_forward") : Shaped("email_forward", o)
<1>1. \A o \in DOMAIN ServiceOf["email_forward"].ops : Fits("email_forward", o, ServiceOf["email_forward"].ops[o])
  BY DEF EmailForwardService, Fits, OpNames, Statuses, Still
<1>2. /\ ServiceOf["email_forward"].create # <<>>
      /\ \A o \in DOMAIN ServiceOf["email_forward"].ops : ServiceOf["email_forward"].ops[o].run # <<>>
  BY DEF EmailForwardService, CreateEmailForwardWorkflow,
         DeleteEmailForwardWorkflow
<1>3. ServiceOf["email_forward"].on \in BOOLEAN /\ ServiceOf["email_forward"].where \in {"all", "one"}
  BY DEF EmailForwardService
<1>4. \A o \in TaskNames("email_forward") : ProgramOf("email_forward", o) \in
        {CreateEmailForwardWorkflow, DeleteEmailForwardWorkflow}
  BY DEF EmailForwardService, TaskNames, ProgramOf
<1>5. /\ WellFormed(CreateEmailForwardWorkflow, 4)
      /\ WellFormed(DeleteEmailForwardWorkflow, 4)
  BY DEF CreateEmailForwardWorkflow, DeleteEmailForwardWorkflow, WellFormed,
         Marks, NodeSteps, Changes, Statuses
<1>6. /\ Provisions(CreateEmailForwardWorkflow, 4, 2, 3, 3, 4)
      /\ Withdraws(DeleteEmailForwardWorkflow, 4)
  BY DEF CreateEmailForwardWorkflow, DeleteEmailForwardWorkflow, Marks,
         NodeSteps, Guarded, Provisions, Withdraws
<1>7. Catalogued("email_forward")
  BY <1>1, <1>2, <1>3 DEF Catalogued, Updated, Still, Unapplied
<1> QED
  BY <1>4, <1>5, <1>6, <1>7
  DEF Shaped, Unclean, Updated, Still, Unapplied, Kind

LEMMA EmailAutoreplyShapes ==
    Catalogued("email_autoreply") /\ \A o \in TaskNames("email_autoreply") : Shaped("email_autoreply", o)
<1>1. \A o \in DOMAIN ServiceOf["email_autoreply"].ops : Fits("email_autoreply", o, ServiceOf["email_autoreply"].ops[o])
  BY DEF EmailAutoReplyService, Fits, OpNames, Statuses, Still
<1>2. /\ ServiceOf["email_autoreply"].create # <<>>
      /\ \A o \in DOMAIN ServiceOf["email_autoreply"].ops : ServiceOf["email_autoreply"].ops[o].run # <<>>
  BY DEF EmailAutoReplyService, UpdateEmailAutoReplyWorkflow,
         DeleteEmailAutoReplyWorkflow
<1>3. ServiceOf["email_autoreply"].on \in BOOLEAN /\ ServiceOf["email_autoreply"].where \in {"all", "one"}
  BY DEF EmailAutoReplyService
<1>4. \A o \in TaskNames("email_autoreply") : ProgramOf("email_autoreply", o) \in
        {UpdateEmailAutoReplyWorkflow, DeleteEmailAutoReplyWorkflow}
  BY DEF EmailAutoReplyService, TaskNames, ProgramOf
<1>5. /\ WellFormed(UpdateEmailAutoReplyWorkflow, 4)
      /\ WellFormed(DeleteEmailAutoReplyWorkflow, 4)
  BY DEF UpdateEmailAutoReplyWorkflow, DeleteEmailAutoReplyWorkflow,
         WellFormed, Marks, NodeSteps, Changes, Statuses
<1>6. /\ Reads(UpdateEmailAutoReplyWorkflow, 4, 2)
      /\ Provisions(UpdateEmailAutoReplyWorkflow, 4, 2, 3, 3, 4)
      /\ Erases(DeleteEmailAutoReplyWorkflow, 4, 3, 3, 4)
      /\ Withdraws(DeleteEmailAutoReplyWorkflow, 4)
  BY DEF UpdateEmailAutoReplyWorkflow, DeleteEmailAutoReplyWorkflow, Marks,
         NodeSteps, Guarded, Reads, Erases, Provisions, Withdraws
<1>7. Catalogued("email_autoreply")
  BY <1>1, <1>2, <1>3 DEF Catalogued, Updated, Still, Unapplied
<1> QED
  BY <1>4, <1>5, <1>6, <1>7
  DEF Shaped, Unclean, Updated, Still, Unapplied, Kind

LEMMA ZoneShapes ==
    Catalogued("zone") /\ \A o \in TaskNames("zone") : Shaped("zone", o)
<1>1. \A o \in DOMAIN ServiceOf["zone"].ops : Fits("zone", o, ServiceOf["zone"].ops[o])
  BY DEF ZoneService, Fits, OpNames, Statuses, Still
<1>2. ServiceOf["zone"].create # <<>>
  BY DEF ZoneService, CreateZoneWorkflow
<1>3. ServiceOf["zone"].on \in BOOLEAN /\ ServiceOf["zone"].where \in {"all", "one"}
  BY DEF ZoneService
<1>4. \A o \in TaskNames("zone") : ProgramOf("zone", o) \in
        {CreateZoneWorkflow, DeleteZoneWorkflow}
  BY DEF ZoneService, TaskNames, ProgramOf
<1>5. /\ WellFormed(CreateZoneWorkflow, 6)
      /\ WellFormed(DeleteZoneWorkflow, 4)
  BY DEF CreateZoneWorkflow, DeleteZoneWorkflow, WellFormed, Marks,
         NodeSteps, Changes, Statuses
<1>6. /\ Reads(CreateZoneWorkflow, 6, 2)
      /\ Erases(DeleteZoneWorkflow, 4, 3, 3, 4)
  BY DEF CreateZoneWorkflow, DeleteZoneWorkflow, Marks, NodeSteps, Guarded,
         Reads, Erases
<1>7. Catalogued("zone")
  BY <1>1, <1>2, <1>3 DEF Catalogued, Updated, Still, Unapplied
<1> QED
  BY <1>4, <1>5, <1>6, <1>7
  DEF Shaped, Unclean, Updated, Still, Unapplied, Kind

LEMMA ZoneRecordShapes ==
    Catalogued("zone_record") /\ \A o \in TaskNames("zone_record") : Shaped("zone_record", o)
<1>1. \A o \in DOMAIN ServiceOf["zone_record"].ops : Fits("zone_record", o, ServiceOf["zone_record"].ops[o])
  BY DEF ZoneRecordService, Fits, OpNames, Statuses, Still
<1>2. ServiceOf["zone_record"].create # <<>>
  BY DEF ZoneRecordService, CreateZoneRecordWorkflow
<1>3. ServiceOf["zone_record"].on \in BOOLEAN /\ ServiceOf["zone_record"].where \in {"all", "one"}
  BY DEF ZoneRecordService
<1>4. \A o \in TaskNames("zone_record") : ProgramOf("zone_record", o) \in
        {CreateZoneRecordWorkflow, UpdateZoneRecordWorkflow,
         DeleteZoneRecordWorkflow}
  BY DEF ZoneRecordService, TaskNames, ProgramOf
<1>5. /\ WellFormed(CreateZoneRecordWorkflow, 5)
      /\ WellFormed(UpdateZoneRecordWorkflow, 4)
      /\ WellFormed(DeleteZoneRecordWorkflow, 5)
  BY DEF CreateZoneRecordWorkflow, UpdateZoneRecordWorkflow,
         DeleteZoneRecordWorkflow, WellFormed, Marks, NodeSteps, Changes,
         Statuses
<1>7. Catalogued("zone_record")
  BY <1>1, <1>2, <1>3 DEF Catalogued, Updated, Still, Unapplied
<1> QED
  BY <1>4, <1>5, <1>7
  DEF Shaped, Unclean, Updated, Still, Unapplied, Kind

LEMMA SubscriptionShapes ==
    Catalogued("subscription") /\ \A o \in TaskNames("subscription") : Shaped("subscription", o)
<1>1. \A o \in DOMAIN ServiceOf["subscription"].ops : Fits("subscription", o, ServiceOf["subscription"].ops[o])
  BY DEF SubscriptionService, Fits, OpNames, Statuses, Still
<1>2. ServiceOf["subscription"].create = <<>> /\ \A o \in DOMAIN ServiceOf["subscription"].ops : ServiceOf["subscription"].ops[o].run # <<>>
  BY DEF SubscriptionService, DeleteSubscriptionWorkflow
<1>3. ServiceOf["subscription"].on \in BOOLEAN /\ ServiceOf["subscription"].where = "none"
  BY DEF SubscriptionService
<1>4. \A o \in TaskNames("subscription") : ProgramOf("subscription", o) \in
        {DeleteSubscriptionWorkflow}
  BY DEF SubscriptionService, TaskNames, ProgramOf
<1>5. /\ WellFormed(DeleteSubscriptionWorkflow, 2)
  BY DEF DeleteSubscriptionWorkflow, WellFormed, Marks, NodeSteps, Changes,
         Statuses
<1>6. /\ Withdraws(DeleteSubscriptionWorkflow, 2)
  BY DEF DeleteSubscriptionWorkflow, Marks, NodeSteps, Withdraws
<1>7. Catalogued("subscription")
  BY <1>1, <1>2, <1>3 DEF Catalogued, Updated, Still, Unapplied
<1> QED
  BY <1>4, <1>5, <1>6, <1>7
  DEF Shaped, Unclean, Updated, Still, Unapplied, Kind

LEMMA KindList ==
    Kind = {"webroot", "fqdn", "certificate", "cron_job", "daemon", "ssh_key",
            "database", "database_user", "valkey_instance", "valkey_user",
            "s3_bucket", "s3_access_key", "backup", "wireguard_peer",
            "email_account", "email_alias", "email_forward", "email_autoreply",
            "zone", "zone_record", "subscription"}
  BY DEF Kind, ServiceOf

\* Every workflow that a task may name has its shape, every operation fits.
LEMMA Shapes ==
    ASSUME NEW k \in Kind
    PROVE  Catalogued(k) /\ \A o \in TaskNames(k) : Shaped(k, o)
  BY KindList, WebrootShapes, FqdnShapes, CertificateShapes, CronJobShapes,
     DaemonShapes, SshKeyShapes, DatabaseShapes, DatabaseUserShapes,
     ValkeyInstanceShapes, ValkeyUserShapes, S3BucketShapes, S3AccessKeyShapes,
     BackupShapes, WireguardPeerShapes, EmailAccountShapes, EmailAliasShapes,
     EmailForwardShapes, EmailAutoreplyShapes, ZoneShapes, ZoneRecordShapes,
     SubscriptionShapes

LEMMA WebrootConcludes == Concluded("webroot")
<1>1. \A o \in TaskNames("webroot") : ProgramOf("webroot", o) \in
        {CreateWebrootWorkflow, UpdateWebrootWorkflow, DeleteWebrootWorkflow}
  BY DEF WebrootService, TaskNames, ProgramOf
<1>2. /\ Settles(CreateWebrootWorkflow, 7, 0, 6)
      /\ Settles(UpdateWebrootWorkflow, 6, 0, 6)
      /\ Settles(DeleteWebrootWorkflow, 6, 0, 6)
  BY DEF CreateWebrootWorkflow, UpdateWebrootWorkflow, DeleteWebrootWorkflow,
         Settles, Marks
<1>3. \A o \in DOMAIN ServiceOf["webroot"].ops :
        ServiceOf["webroot"].ops[o].run = <<>> =>
          ServiceOf["webroot"].ops[o].writes = "keep"
  BY DEF WebrootService, CreateWebrootWorkflow, UpdateWebrootWorkflow,
         DeleteWebrootWorkflow
<1> QED  BY <1>1, <1>2, <1>3 DEF Concluded, Concludes

LEMMA FqdnConcludes == Concluded("fqdn")
<1>1. \A o \in TaskNames("fqdn") : ProgramOf("fqdn", o) \in
        {BindFQDNWorkflow, UnbindFQDNWorkflow}
  BY DEF FQDNService, TaskNames, ProgramOf
<1>2. /\ Settles(BindFQDNWorkflow, 9, 0, 8)
      /\ Settles(UnbindFQDNWorkflow, 7, 0, 7)
  BY DEF BindFQDNWorkflow, UnbindFQDNWorkflow, Settles, Marks
<1>3. \A o \in DOMAIN ServiceOf["fqdn"].ops :
        ServiceOf["fqdn"].ops[o].run = <<>> =>
          ServiceOf["fqdn"].ops[o].writes = "keep"
  BY DEF FQDNService, BindFQDNWorkflow, UnbindFQDNWorkflow
<1> QED  BY <1>1, <1>2, <1>3 DEF Concluded, Concludes

LEMMA CertificateConcludes == Concluded("certificate")
<1>1. \A o \in TaskNames("certificate") : ProgramOf("certificate", o) \in
        {UploadCustomCertWorkflow}
  BY DEF CertificateService, TaskNames, ProgramOf
<1>2. Settles(UploadCustomCertWorkflow, 7, 0, 7)
  BY DEF UploadCustomCertWorkflow, Settles, Marks
<1>3. \A o \in DOMAIN ServiceOf["certificate"].ops :
        ServiceOf["certificate"].ops[o].run = <<>> =>
          ServiceOf["certificate"].ops[o].writes = "keep"
  BY DEF CertificateService, UploadCustomCertWorkflow
<1> QED  BY <1>1, <1>2, <1>3 DEF Concluded, Concludes

LEMMA CronJobConcludes == Concluded("cron_job")
<1>1. \A o \in TaskNames("cron_job") : ProgramOf("cron_job", o) \in
        {CreateCronJobWorkflow, UpdateCronJobWorkflow, DeleteCronJobWorkflow,
         EnableCronJobWorkflow, DisableCronJobWorkflow}
  BY DEF CronJobService, TaskNames, ProgramOf
<1>2. /\ Settles(CreateCronJobWorkflow, 6, 0, 6)
      /\ Settles(UpdateCronJobWorkflow, 6, 0, 6)
      /\ Settles(DeleteCronJobWorkflow, 5, 0, 5)
      /\ Settles(EnableCronJobWorkflow, 5, 0, 5)
      /\ Settles(DisableCronJobWorkflow, 5, 0, 5)
  BY DEF CreateCronJobWorkflow, UpdateCronJobWorkflow, DeleteCronJobWorkflow,
         EnableCronJobWorkflow, DisableCronJobWorkflow, Settles, Marks
<1>3. \A o \in DOMAIN ServiceOf["cron_job"].ops :
        ServiceOf["cron_job"].ops[o].run = <<>> =>
          ServiceOf["cron_job"].ops[o].writes = "keep"
  BY DEF CronJobService, CreateCronJobWorkflow, UpdateCronJobWorkflow,
         DeleteCronJobWorkflow, EnableCronJobWorkflow, DisableCronJobWorkflow
<1> QED  BY <1>1, <1>2, <1>3 DEF Concluded, Concludes

LEMMA DaemonConcludes == Concluded("daemon")
<1>1. \A o \in TaskNames("daemon") : ProgramOf("daemon", o) \in
        {CreateDaemonWorkflow, UpdateDaemonWorkflow, DeleteDaemonWorkflow,
         EnableDaemonWorkflow, DisableDaemonWorkflow}
  BY DEF DaemonService, TaskNames, ProgramOf
<1>2. /\ Settles(CreateDaemonWorkflow, 6, 0, 6)
      /\ Settles(UpdateDaemonWorkflow, 6, 0, 6)
      /\ Settles(DeleteDaemonWorkflow, 6, 0, 6)
      /\ Settles(EnableDaemonWorkflow, 4, 0, 4)
      /\ Settles(DisableDaemonWorkflow, 4, 0, 4)
  BY DEF CreateDaemonWorkflow, UpdateDaemonWorkflow, DeleteDaemonWorkflow,
         EnableDaemonWorkflow, DisableDaemonWorkflow, Settles, Marks
<1>3. \A o \in DOMAIN ServiceOf["daemon"].ops :
        ServiceOf["daemon"].ops[o].run = <<>> =>
          ServiceOf["daemon"].ops[o].writes = "keep"
  BY DEF DaemonService, CreateDaemonWorkflow, UpdateDaemonWorkflow,
         DeleteDaemonWorkflow, EnableDaemonWorkflow, DisableDaemonWorkflow
<1> QED  BY <1>1, <1>2, <1>3 DEF Concluded, Concludes

LEMMA SshKeyConcludes == Concluded("ssh_key")
<1>1. \A o \in TaskNames("ssh_key") : ProgramOf("ssh_key", o) \in
        {AddSSHKeyWorkflow, RemoveSSHKeyWorkflow}
  BY DEF SSHKeyService, TaskNames, ProgramOf
<1>2. /\ Settles(AddSSHKeyWorkflow, 4, 0, 4)
      /\ Settles(RemoveSSHKeyWorkflow, 4, 0, 2)
  BY DEF AddSSHKeyWorkflow, RemoveSSHKeyWorkflow, Settles, Marks
<1>3. \A o \in DOMAIN ServiceOf["ssh_key"].ops :
        ServiceOf["ssh_key"].ops[o].run = <<>> =>
          ServiceOf["ssh_key"].ops[o].writes = "keep"
  BY DEF SSHKeyService, AddSSHKeyWorkflow, RemoveSSHKeyWorkflow
<1> QED  BY <1>1, <1>2, <1>3 DEF Concluded, Concludes

LEMMA DatabaseConcludes == Concluded("database")
<1>1. \A o \in TaskNames("database") : ProgramOf("database", o) \in
        {CreateDatabaseWorkflow, DeleteDatabaseWorkflow}
  BY DEF DatabaseService, TaskNames, ProgramOf
<1>2. /\ Settles(CreateDatabaseWorkflow, 6, 0, 5)
      /\ Settles(DeleteDatabaseWorkflow, 4, 0, 4)
  BY DEF CreateDatabaseWorkflow, DeleteDatabaseWorkflow, Settles, Marks
<1>3. \A o \in DOMAIN ServiceOf["database"].ops :
        ServiceOf["database"].ops[o].run = <<>> =>
          ServiceOf["database"].ops[o].writes = "keep"
  BY DEF DatabaseService, CreateDatabaseWorkflow, DeleteDatabaseWorkflow
<1> QED  BY <1>1, <1>2, <1>3 DEF Concluded, Concludes

LEMMA DatabaseUserConcludes == Concluded("database_user")
<1>1. \A o \in TaskNames("database_user") : ProgramOf("database_user", o) \in
        {CreateDatabaseUserWorkflow, UpdateDatabaseUserWorkflow,
         DeleteDatabaseUserWorkflow}
  BY DEF DatabaseUserService, TaskNames, ProgramOf
<1>2. /\ Settles(CreateDatabaseUserWorkflow, 4, 0, 4)
      /\ Settles(UpdateDatabaseUserWorkflow, 4, 0, 4)
      /\ Settles(DeleteDatabaseUserWorkflow, 4, 0, 4)
  BY DEF CreateDatabaseUserWorkflow, UpdateDatabaseUserWorkflow,
         DeleteDatabaseUserWorkflow, Settles, Marks
<1>3. \A o \in DOMAIN ServiceOf["database_user"].ops :
        ServiceOf["database_user"].ops[o].run = <<>> =>
          ServiceOf["database_user"].ops[o].writes = "keep"
  BY DEF DatabaseUserService, CreateDatabaseUserWorkflow,
         UpdateDatabaseUserWorkflow, DeleteDatabaseUserWorkflow
<1> QED  BY <1>1, <1>2, <1>3 DEF Concluded, Concludes

LEMMA ValkeyInstanceConcludes == Concluded("valkey_instance")
<1>1. \A o \in TaskNames("valkey_instance") : ProgramOf("valkey_instance", o) \in
        {CreateValkeyInstanceWorkflow, DeleteValkeyInstanceWorkflow}
  BY DEF ValkeyInstanceService, TaskNames, ProgramOf
<1>2. /\ Settles(CreateValkeyInstanceWorkflow, 6, 0, 5)
      /\ Settles(DeleteValkeyInstanceWorkflow, 4, 0, 4)
  BY DEF CreateValkeyInstanceWorkflow, DeleteValkeyInstanceWorkflow, Settles,
         Marks
<1>3. \A o \in DOMAIN ServiceOf["valkey_instance"].ops :
        ServiceOf["valkey_instance"].ops[o].run = <<>> =>
          ServiceOf["valkey_instance"].ops[o].writes = "keep"
  BY DEF ValkeyInstanceService, CreateValkeyInstanceWorkflow,
         DeleteValkeyInstanceWorkflow
<1> QED  BY <1>1, <1>2, <1>3 DEF Concluded, Concludes

LEMMA ValkeyUserConcludes == Concluded("valkey_user")
<1>1. \A o \in TaskNames("valkey_user") : ProgramOf("valkey_user", o) \in
        {CreateValkeyUserWorkflow, UpdateValkeyUserWorkflow,
         DeleteValkeyUserWorkflow}
  BY DEF ValkeyUserService, TaskNames, ProgramOf
<1>2. /\ Settles(CreateValkeyUserWorkflow, 4, 0, 4)
      /\ Settles(UpdateValkeyUserWorkflow, 4, 0, 4)
      /\ Settles(DeleteValkeyUserWorkflow, 4, 0, 4)
  BY DEF CreateValkeyUserWorkflow, UpdateValkeyUserWorkflow,
         DeleteValkeyUserWorkflow, Settles, Marks
<1>3. \A o \in DOMAIN ServiceOf["valkey_user"].ops :
        ServiceOf["valkey_user"].ops[o].run = <<>> =>
          ServiceOf["valkey_user"].ops[o].writes = "keep"
  BY DEF ValkeyUserService, CreateValkeyUserWorkflow,
         UpdateValkeyUserWorkflow, DeleteValkeyUserWorkflow
<1> QED  BY <1>1, <1>2, <1>3 DEF Concluded, Concludes

LEMMA S3BucketConcludes == Concluded("s3_bucket")
<1>1. /\ ProgramOf("s3_bucket", "update") = UpdateS3BucketWorkflow
      /\ ServiceOf["s3_bucket"].ops["update"].writes = "keep"
      /\ \A o \in TaskNames("s3_bucket") \ {"update"} : ProgramOf("s3_bucket", o) \in
            {CreateS3BucketWorkflow, DeleteS3BucketWorkflow}
  BY DEF S3BucketService, TaskNames, ProgramOf
<1>2. /\ Settles(CreateS3BucketWorkflow, 5, 0, 5)
      /\ Keeps(UpdateS3BucketWorkflow)
      /\ Settles(DeleteS3BucketWorkflow, 4, 0, 4)
  BY DEF CreateS3BucketWorkflow, UpdateS3BucketWorkflow,
         DeleteS3BucketWorkflow, Settles, Keeps, Marks
<1>3. \A o \in DOMAIN ServiceOf["s3_bucket"].ops :
        ServiceOf["s3_bucket"].ops[o].run = <<>> =>
          ServiceOf["s3_bucket"].ops[o].writes = "keep"
  BY DEF S3BucketService, CreateS3BucketWorkflow, UpdateS3BucketWorkflow,
         DeleteS3BucketWorkflow
<1> QED  BY <1>1, <1>2, <1>3 DEF Concluded, Concludes

LEMMA S3AccessKeyConcludes == Concluded("s3_access_key")
<1>1. \A o \in TaskNames("s3_access_key") : ProgramOf("s3_access_key", o) \in
        {CreateS3AccessKeyWorkflow, DeleteS3AccessKeyWorkflow}
  BY DEF S3AccessKeyService, TaskNames, ProgramOf
<1>2. /\ Settles(CreateS3AccessKeyWorkflow, 4, 0, 4)
      /\ Settles(DeleteS3AccessKeyWorkflow, 4, 0, 4)
  BY DEF CreateS3AccessKeyWorkflow, DeleteS3AccessKeyWorkflow, Settles, Marks
<1>3. \A o \in DOMAIN ServiceOf["s3_access_key"].ops :
        ServiceOf["s3_access_key"].ops[o].run = <<>> =>
          ServiceOf["s3_access_key"].ops[o].writes = "keep"
  BY DEF S3AccessKeyService, CreateS3AccessKeyWorkflow,
         DeleteS3AccessKeyWorkflow
<1> QED  BY <1>1, <1>2, <1>3 DEF Concluded, Concludes

LEMMA BackupConcludes == Concluded("backup")
<1>1. /\ ProgramOf("backup", "restore") = RestoreBackupWorkflow
      /\ ServiceOf["backup"].ops["restore"].writes = "keep"
      /\ \A o \in TaskNames("backup") \ {"restore"} : ProgramOf("backup", o) \in
            {CreateBackupWorkflow, DeleteBackupWorkflow}
  BY DEF BackupService, TaskNames, ProgramOf
<1>2. /\ Settles(CreateBackupWorkflow, 5, 0, 5)
      /\ Settles(DeleteBackupWorkflow, 3, 0, 3)
      /\ Settles(RestoreBackupWorkflow, 5, 1, 5)
  BY DEF CreateBackupWorkflow, DeleteBackupWorkflow, RestoreBackupWorkflow,
         Settles, Marks
<1>3. \A o \in DOMAIN ServiceOf["backup"].ops :
        ServiceOf["backup"].ops[o].run = <<>> =>
          ServiceOf["backup"].ops[o].writes = "keep"
  BY DEF BackupService, CreateBackupWorkflow, DeleteBackupWorkflow,
         RestoreBackupWorkflow
<1> QED  BY <1>1, <1>2, <1>3 DEF Concluded, Concludes

LEMMA WireguardPeerConcludes == Concluded("wireguard_peer")
<1>1. \A o \in TaskNames("wireguard_peer") : ProgramOf("wireguard_peer", o) \in
        {CreateWireGuardPeerWorkflow, DeleteWireGuardPeerWorkflow}
  BY DEF WireGuardPeerService, TaskNames, ProgramOf
<1>2. /\ Settles(CreateWireGuardPeerWorkflow, 5, 0, 5)
      /\ Settles(DeleteWireGuardPeerWorkflow, 5, 0, 5)
  BY DEF CreateWireGuardPeerWorkflow, DeleteWireGuardPeerWorkflow, Settles,
         Marks
<1>3. \A o \in DOMAIN ServiceOf["wireguard_peer"].ops :
        ServiceOf["wireguard_peer"].ops[o].run = <<>> =>
          ServiceOf["wireguard_peer"].ops[o].writes = "keep"
  BY DEF WireGuardPeerService, CreateWireGuardPeerWorkflow,
         DeleteWireGuardPeerWorkflow
<1> QED  BY <1>1, <1>2, <1>3 DEF Concluded, Concludes

LEMMA EmailAccountConcludes == Concluded("email_account")
<1>1. \A o \in TaskNames("email_account") : ProgramOf("email_account", o) \in
        {CreateEmailAccountWorkflow, DeleteEmailAccountWorkflow}
  BY DEF EmailAccountService, TaskNames, ProgramOf
<1>2. /\ Settles(CreateEmailAccountWorkflow, 7, 0, 6)
      /\ Settles(DeleteEmailAccountWorkflow, 6, 0, 4)
  BY DEF CreateEmailAccountWorkflow, DeleteEmailAccountWorkflow, Settles,
         Marks
<1>3. \A o \in DOMAIN ServiceOf["email_account"].ops :
        ServiceOf["email_account"].ops[o].run = <<>> =>
          ServiceOf["email_account"].ops[o].writes = "keep"
  BY DEF EmailAccountService, CreateEmailAccountWorkflow,
         DeleteEmailAccountWorkflow
<1> QED  BY <1>1, <1>2, <1>3 DEF Concluded, Concludes

LEMMA EmailAliasConcludes == Concluded("email_alias")
<1>1. \A o \in TaskNames("email_alias") : ProgramOf("email_alias", o) \in
        {CreateEmailAliasWorkflow, DeleteEmailAliasWorkflow}
  BY DEF EmailAliasService, TaskNames, ProgramOf
<1>2. /\ Settles(CreateEmailAliasWorkflow, 4, 0, 4)
      /\ Settles(DeleteEmailAliasWorkflow, 4, 0, 4)
  BY DEF CreateEmailAliasWorkflow, DeleteEmailAliasWorkflow, Settles, Marks
<1>3. \A o \in DOMAIN ServiceOf["email_alias"].ops :
        ServiceOf["email_alias"].ops[o].run = <<>> =>
          ServiceOf["email_alias"].ops[o].writes = "keep"
  BY DEF EmailAliasService, CreateEmailAliasWorkflow,
         DeleteEmailAliasWorkflow
<1> QED  BY <1>1, <1>2, <1>3 DEF Concluded, Concludes

LEMMA EmailForwardConcludes == Concluded("email_forward")
<1>1. \A o \in TaskNames("email_forward") : ProgramOf("email_forward", o) \in
        {CreateEmailForwardWorkflow, DeleteEmailForwardWorkflow}
  BY DEF EmailForwardService, TaskNames, ProgramOf
<1>2. /\ Settles(CreateEmailForwardWorkflow, 4, 0, 4)
      /\ Settles(DeleteEmailForwardWorkflow, 4, 0, 3)
  BY DEF CreateEmailForwardWorkflow, DeleteEmailForwardWorkflow, Settles,
         Marks
<1>3. \A o \in DOMAIN ServiceOf["email_forward"].ops :
        ServiceOf["email_forward"].ops[o].run = <<>> =>
          ServiceOf["email_forward"].ops[o].writes = "keep"
  BY DEF EmailForwardService, CreateEmailForwardWorkflow,
         DeleteEmailForwardWorkflow
<1> QED  BY <1>1, <1>2, <1>3 DEF Concluded, Concludes

LEMMA EmailAutoreplyConcludes == Concluded("email_autoreply")
<1>1. \A o \in TaskNames("email_autoreply") : ProgramOf("email_autoreply", o) \in
        {UpdateEmailAutoReplyWorkflow, DeleteEmailAutoReplyWorkflow}
  BY DEF EmailAutoReplyService, TaskNames, ProgramOf
<1>2. /\ Settles(UpdateEmailAutoReplyWorkflow, 4, 0, 4)
      /\ Settles(DeleteEmailAutoReplyWorkflow, 4, 0, 4)
  BY DEF UpdateEmailAutoReplyWorkflow, DeleteEmailAutoReplyWorkflow, Settles,
         Marks
<1>3. \A o \in DOMAIN ServiceOf["email_autoreply"].ops :
        ServiceOf["email_autoreply"].ops[o].run = <<>> =>
          ServiceOf["email_autoreply"].ops[o].writes = "keep"
  BY DEF EmailAutoReplyService, UpdateEmailAutoReplyWorkflow,
         DeleteEmailAutoReplyWorkflow
<1> QED  BY <1>1, <1>2, <1>3 DEF Concluded, Concludes

LEMMA ZoneConcludes == Concluded("zone")
<1>1. \A o \in TaskNames("zone") : ProgramOf("zone", o) \in
        {CreateZoneWorkflow, DeleteZoneWorkflow}
  BY DEF ZoneService, TaskNames, ProgramOf
<1>2. /\ Settles(CreateZoneWorkflow, 6, 0, 5)
      /\ Settles(DeleteZoneWorkflow, 4, 0, 4)
  BY DEF CreateZoneWorkflow, DeleteZoneWorkflow, Settles, Marks
<1> QED  BY <1>1, <1>2 DEF Concluded, Concludes

LEMMA ZoneRecordConcludes == Concluded("zone_record")
<1>1. \A o \in TaskNames("zone_record") : ProgramOf("zone_record", o) \in
        {CreateZoneRecordWorkflow, UpdateZoneRecordWorkflow,
         DeleteZoneRecordWorkflow}
  BY DEF ZoneRecordService, TaskNames, ProgramOf
<1>2. /\ Settles(CreateZoneRecordWorkflow, 5, 0, 5)
      /\ Settles(UpdateZoneRecordWorkflow, 4, 0, 4)
      /\ Settles(DeleteZoneRecordWorkflow, 5, 0, 4)
  BY DEF CreateZoneRecordWorkflow, UpdateZoneRecordWorkflow,
         DeleteZoneRecordWorkflow, Settles, Marks
<1>3. \A o \in DOMAIN ServiceOf["zone_record"].ops :
        ServiceOf["zone_record"].ops[o].run = <<>> =>
          ServiceOf["zone_record"].ops[o].writes = "keep"
  BY DEF ZoneRecordService, CreateZoneRecordWorkflow,
         UpdateZoneRecordWorkflow, DeleteZoneRecordWorkflow
<1> QED  BY <1>1, <1>2, <1>3 DEF Concluded, Concludes

LEMMA SubscriptionConcludes == Concluded("subscription")
<1>1. \A o \in TaskNames("subscription") : ProgramOf("subscription", o) \in
        {DeleteSubscriptionWorkflow}
  BY DEF SubscriptionService, TaskNames, ProgramOf
<1>2. Settles(DeleteSubscriptionWorkflow, 2, 0, 2)
  BY DEF DeleteSubscriptionWorkflow, Settles, Marks
<1>3. \A o \in DOMAIN ServiceOf["subscription"].ops :
        ServiceOf["subscription"].ops[o].run = <<>> =>
          ServiceOf["subscription"].ops[o].writes = "keep"
  BY DEF SubscriptionService, DeleteSubscriptionWorkflow
<1> QED  BY <1>1, <1>2, <1>3 DEF Concluded, Concludes

\* Every task of every kind settles the row or leaves its status alone.
LEMMA Conclusions == ASSUME NEW k \in Kind PROVE Concluded(k)
  BY KindList, WebrootConcludes, FqdnConcludes, CertificateConcludes,
     CronJobConcludes, DaemonConcludes, SshKeyConcludes, DatabaseConcludes,
     DatabaseUserConcludes, ValkeyInstanceConcludes, ValkeyUserConcludes,
     S3BucketConcludes, S3AccessKeyConcludes, BackupConcludes,
     WireguardPeerConcludes, EmailAccountConcludes, EmailAliasConcludes,
     EmailForwardConcludes, EmailAutoreplyConcludes, ZoneConcludes,
     ZoneRecordConcludes, SubscriptionConcludes

\* Nothing is provisioned for a subscription.
LEMMA SubscriptionSteps ==
    ASSUME NEW o \in TaskNames("subscription"), NEW i \in 1..Len(ProgramOf("subscription", o))
    PROVE  ProgramOf("subscription", o)[i].do \notin NodeSteps
<1>1. ProgramOf("subscription", o) = DeleteSubscriptionWorkflow
  BY DEF SubscriptionService, TaskNames, ProgramOf
<1> QED  BY <1>1 DEF DeleteSubscriptionWorkflow, NodeSteps

\* Backups and SSH keys, step by step.
Is(s, do, arg, err) == s.do = do /\ s.arg = arg /\ s.err = err

LEMMA SSHKeyPrograms ==
    /\ TaskNames("ssh_key") = {"create", "delete", "retry"}
    /\ ProgramOf("ssh_key", "delete") = RemoveSSHKeyWorkflow
    /\ \A o \in {"create", "retry"} : ProgramOf("ssh_key", o) = AddSSHKeyWorkflow
    /\ Provisions(AddSSHKeyWorkflow, 4, 2, 3, 3, 4)
    /\ Len(RemoveSSHKeyWorkflow) = 4
    /\ Is(RemoveSSHKeyWorkflow[1], "read", "none", "fail")
    /\ Is(RemoveSSHKeyWorkflow[2], "status", "deleted", "fail")
    /\ Is(RemoveSSHKeyWorkflow[3], "side", "none", "return")
    /\ Is(RemoveSSHKeyWorkflow[4], "nodes", "drop", "return")
<1>1. /\ TaskNames("ssh_key") = {"create", "delete", "retry"}
      /\ ProgramOf("ssh_key", "delete") = RemoveSSHKeyWorkflow
      /\ \A o \in {"create", "retry"} : ProgramOf("ssh_key", o) = AddSSHKeyWorkflow
  <2>1. AddSSHKeyWorkflow # <<>> /\ RemoveSSHKeyWorkflow # <<>>
    BY DEF AddSSHKeyWorkflow, RemoveSSHKeyWorkflow
  <2> QED BY <2>1 DEF TaskNames, ProgramOf, SSHKeyService
<1>2. Provisions(AddSSHKeyWorkflow, 4, 2, 3, 3, 4)
  BY DEF AddSSHKeyWorkflow, Provisions, Guarded, NodeSteps, Marks
<1>3. /\ Len(RemoveSSHKeyWorkflow) = 4
      /\ Is(RemoveSSHKeyWorkflow[1], "read", "none", "fail")
      /\ Is(RemoveSSHKeyWorkflow[2], "status", "deleted", "fail")
      /\ Is(RemoveSSHKeyWorkflow[3], "side", "none", "return")
      /\ Is(RemoveSSHKeyWorkflow[4], "nodes", "drop", "return")
  BY DEF RemoveSSHKeyWorkflow, Is
<1> QED BY <1>1, <1>2, <1>3

LEMMA BackupPrograms ==
    /\ ServiceOf["backup"].where = "one"
    /\ TaskNames("backup") = {"create", "delete", "restore", "retry"}
    /\ ProgramOf("backup", "delete") = DeleteBackupWorkflow
    /\ ProgramOf("backup", "restore") = RestoreBackupWorkflow
    /\ \A o \in {"create", "retry"} : ProgramOf("backup", o) = CreateBackupWorkflow
    /\ Provisions(CreateBackupWorkflow, 5, 2, 3, 3, 5)
    /\ Len(DeleteBackupWorkflow) = 3
    /\ Is(DeleteBackupWorkflow[1], "read", "none", "fail")
    /\ Is(DeleteBackupWorkflow[2], "nodes", "drop", "fail")
    /\ Is(DeleteBackupWorkflow[3], "status", "deleted", "return")
    /\ Len(RestoreBackupWorkflow) = 5
    /\ Is(RestoreBackupWorkflow[1], "read", "none", "return")
    /\ Is(RestoreBackupWorkflow[2], "status", "provisioning", "return")
    /\ Is(RestoreBackupWorkflow[3], "side", "none", "fail")
    /\ Is(RestoreBackupWorkflow[4], "nodes", "use", "fail")
    /\ Is(RestoreBackupWorkflow[5], "status", "active", "return")
<1>1. /\ TaskNames("backup") = {"create", "delete", "restore", "retry"}
      /\ ProgramOf("backup", "delete") = DeleteBackupWorkflow
      /\ ProgramOf("backup", "restore") = RestoreBackupWorkflow
      /\ \A o \in {"create", "retry"} : ProgramOf("backup", o) = CreateBackupWorkflow
  <2>1. /\ CreateBackupWorkflow # <<>> /\ DeleteBackupWorkflow # <<>>
        /\ RestoreBackupWorkflow # <<>>
    BY DEF CreateBackupWorkflow, DeleteBackupWorkflow, RestoreBackupWorkflow
  <2> QED BY <2>1 DEF TaskNames, ProgramOf, BackupService
<1>2. Provisions(CreateBackupWorkflow, 5, 2, 3, 3, 5)
  BY DEF CreateBackupWorkflow, Provisions, Guarded, NodeSteps, Marks
<1>3. /\ Len(DeleteBackupWorkflow) = 3
      /\ Is(DeleteBackupWorkflow[1], "read", "none", "fail")
      /\ Is(DeleteBackupWorkflow[2], "nodes", "drop", "fail")
      /\ Is(DeleteBackupWorkflow[3], "status", "deleted", "return")
  BY DEF DeleteBackupWorkflow, Is
<1>4. /\ Len(RestoreBackupWorkflow) = 5
      /\ Is(RestoreBackupWorkflow[1], "read", "none", "return")
      /\ Is(RestoreBackupWorkflow[2], "status", "provisioning", "return")
      /\ Is(RestoreBackupWorkflow[3], "side", "none", "fail")
      /\ Is(RestoreBackupWorkflow[4], "nodes", "use", "fail")
      /\ Is(RestoreBackupWorkflow[5], "status", "active", "return")
  BY DEF RestoreBackupWorkflow, Is
<1>5. ServiceOf["backup"].where = "one"
  BY DEF BackupService
<1> QED BY <1>1, <1>2, <1>3, <1>4, <1>5

HIDE DEF Step, Status, Read, ReadOrReturn, Nodes1, All, Gate, Side, Begin,
        BeginDelete, Done, Deleted, fanOutNodes, fanOutChildWorkflows,
        setupServiceHostname, teardownServiceHostname,
        regenerateWebrootNginxOnNodes, ServiceOf, Service, Op, WriteBack, Patch,
        DeleteReturning, DeleteResolved, RetryKnown, RetryResolved, Toggle

-----------------------------------------------------------------------------
(***************************************************************************)
(* Steps.                                                                  *)
(***************************************************************************)
Workflows ==
    [op : OpNames, pc : 0..20, snap : Provisioned, todo : SUBSET Nodes, bad : BOOLEAN]

Requests ==
    [pc : {"idle", "read", "written"}, op : OpNames, saw : Rows, cfg : Versions]

Typed == TypeOK /\ TasksOK

LEMMA KindIsKnown == ASSUME Typed PROVE kind \in Kind
  BY LifecycleAssumption DEF Typed, TypeOK

LEMMA TargetsAreNodes == ASSUME kind \in Kind PROVE Targets \subseteq Nodes
<1>1. ServiceOf[kind].where \in {"all", "one", "none"}
  BY Shapes DEF Catalogued
<1> QED BY <1>1, LifecycleAssumption DEF Targets

LEMMA Programs ==
    ASSUME kind \in Kind, NEW o \in TaskNames(kind)
    PROVE  /\ Program(o) = ProgramOf(kind, o)
           /\ Shaped(kind, o)
           /\ o \in OpNames \ {"none"}
           /\ \E l \in Marks : Len(ProgramOf(kind, o)) = l
<1>1. Program(o) = ProgramOf(kind, o)
  BY DEF Program, ProgramOf, Ops
<1>2. Shaped(kind, o) /\ Catalogued(kind)
  BY Shapes
<1>3. o \in OpNames \ {"none"}
  BY <1>2 DEF Catalogued, Fits, TaskNames, OpNames
<1> QED BY <1>1, <1>2, <1>3 DEF Shaped, WellFormed

\* What at does to a workflow that has a step pc.
LEMMA AtStep ==
    ASSUME kind \in Kind, NEW w \in Workflows, w.op \in TaskNames(kind),
           NEW pc \in 1..20
    PROVE  \/ at(w, pc) = Idle /\ pc > Len(ProgramOf(kind, w.op))
           \/ /\ pc <= Len(ProgramOf(kind, w.op))
              /\ at(w, pc) \in Workflows /\ at(w, pc) # Idle
              /\ at(w, pc).op = w.op /\ at(w, pc).pc = pc /\ at(w, pc).todo = Targets
              /\ at(w, pc).snap = w.snap /\ at(w, pc).bad = w.bad
<1>1. PICK l \in Marks : Len(ProgramOf(kind, w.op)) = l /\ Program(w.op) = ProgramOf(kind, w.op)
  BY Programs
<1>2. CASE pc > l
  BY <1>1, <1>2 DEF at
<1>3. CASE pc <= l
  <2>1. PICK x : x = [w EXCEPT !.pc = pc, !.todo = Targets]
    OBVIOUS
  <2>2. /\ x \in Workflows /\ x.op = w.op /\ x.pc = pc /\ x.todo = Targets
        /\ x.snap = w.snap /\ x.bad = w.bad
    <3>1. Targets \in SUBSET Nodes
      BY TargetsAreNodes
    <3>2. PICK t : t = Targets
      OBVIOUS
    <3>3. pc \in 0..20
      OBVIOUS
    <3>4. x = [w EXCEPT !.pc = pc, !.todo = t] /\ t \in SUBSET Nodes
      BY <2>1, <3>1, <3>2
    <3>5. /\ x.op = w.op /\ x.pc = pc /\ x.todo = t
          /\ x.snap = w.snap /\ x.bad = w.bad
      BY <3>4 DEF Workflows
    <3>6. x \in Workflows
      BY <3>3, <3>4 DEF Workflows
    <3> QED BY <3>2, <3>5, <3>6
  <2>3. x # Idle
    BY <2>2 DEF Idle
  <2>4. ~(pc > l)
    BY <1>3 DEF Marks
  <2>5. at(w, pc) = x
    BY <1>1, <2>1, <2>4 DEF at
  <2> QED BY <1>1, <1>3, <2>2, <2>3, <2>5
<1> QED BY <1>2, <1>3 DEF Marks

\* The workflow goes on behind its step, or has ended.
Onward(sn, b) ==
    \/ wf' = Idle /\ wf.pc = Len(ProgramOf(kind, wf.op))
    \/ /\ wf.pc + 1 <= Len(ProgramOf(kind, wf.op))
       /\ wf' \in Workflows /\ wf' # Idle
       /\ wf'.op = wf.op /\ wf'.pc = wf.pc + 1 /\ wf'.todo = Targets
       /\ wf'.snap = sn /\ wf'.bad = b

\* It stays at its step, for the nodes that remain.
Remains(n, b) ==
    /\ wf' \in Workflows /\ wf' # Idle
    /\ wf'.op = wf.op /\ wf'.pc = wf.pc /\ wf'.todo = wf.todo \ {n}
    /\ wf'.snap = wf.snap /\ wf'.bad = b

\* A workflow in progress.
LEMMA Working ==
    ASSUME Typed, wf # Idle
    PROVE  /\ kind \in Kind /\ wf \in Workflows
           /\ wf.op \in TaskNames(kind)
           /\ wf.todo \subseteq Targets
           /\ \E l \in Marks : Len(ProgramOf(kind, wf.op)) = l /\ wf.pc \in 1..l
<1>1. kind \in Kind
  BY KindIsKnown
<1>2. wf.op \in TaskNames(kind) /\ wf.todo \subseteq Targets
  BY DEF Typed, TasksOK
<1>3. PICK l \in Marks : Len(ProgramOf(kind, wf.op)) = l
  BY <1>1, <1>2, Programs
<1>4. wf.pc \in 1..l
  BY <1>3 DEF Typed, TasksOK
<1> QED BY <1>1, <1>2, <1>3, <1>4 DEF Typed, TypeOK, Workflows

LEMMA OnwardStep ==
    ASSUME Typed, wf # Idle,
           NEW w \in Workflows, w.op = wf.op, wf' = at(w, wf.pc + 1)
    PROVE  Onward(w.snap, w.bad)
<1>1. PICK l \in Marks : Len(ProgramOf(kind, wf.op)) = l /\ wf.pc \in 1..l
  BY Working
<1>2. wf.pc + 1 \in 1..20
  <2>1. PICK i : i = wf.pc
    OBVIOUS
  <2>2. i \in 1..l /\ l \in 1..9
    BY <1>1, <2>1 DEF Marks
  <2>3. i + 1 \in 1..20
    BY <2>2
  <2> QED BY <2>1, <2>3
<1>3. \/ wf' = Idle /\ wf.pc + 1 > Len(ProgramOf(kind, wf.op))
      \/ /\ wf.pc + 1 <= Len(ProgramOf(kind, wf.op))
         /\ wf' \in Workflows /\ wf' # Idle
         /\ wf'.op = wf.op /\ wf'.pc = wf.pc + 1 /\ wf'.todo = Targets
         /\ wf'.snap = w.snap /\ wf'.bad = w.bad
  BY <1>2, AtStep, Working
<1>4. CASE wf' = Idle /\ wf.pc + 1 > Len(ProgramOf(kind, wf.op))
  <2>1. wf.pc + 1 > l
    BY <1>1, <1>4
  <2>2. wf.pc = l
    BY <1>1, <2>1 DEF Marks
  <2> QED BY <1>1, <1>4, <2>2 DEF Onward
<1> QED BY <1>3, <1>4 DEF Onward

LEMMA AdvanceStep ==
    ASSUME Typed, wf # Idle, Advance PROVE Onward(wf.snap, wf.bad)
  BY OnwardStep, Working DEF Advance

LEMMA RemainsStep ==
    ASSUME Typed, wf # Idle, NEW n \in wf.todo, NEW b \in BOOLEAN,
           wf' = [wf EXCEPT !.todo = @ \ {n}, !.bad = b]
    PROVE  Remains(n, b)
<1>1. wf \in Workflows /\ wf.pc # 0
  BY Working DEF Marks
<1>2. /\ wf' \in Workflows
      /\ wf'.op = wf.op /\ wf'.pc = wf.pc /\ wf'.todo = wf.todo \ {n}
      /\ wf'.snap = wf.snap /\ wf'.bad = b
  BY <1>1 DEF Workflows
<1>3. wf' # Idle
  BY <1>1, <1>2 DEF Idle
<1> QED BY <1>2, <1>3 DEF Remains

\* A step has failed: the workflow goes on, or it ends, having marked the row
\* as failed or not.
Fails ==
    \/ /\ Step1.err \in {"note", "ignore"}
       /\ Onward(wf.snap, wf.bad \/ Step1.err = "note")
       /\ row' = row /\ faults' = faults
    \/ Step1.err = "return" /\ wf' = Idle /\ row' = row /\ faults' = faults
    \/ Step1.err = "fail" /\ wf' = Idle /\ row' = setResourceFailed(row) /\ faults' = faults
    \/ Step1.err = "fail" /\ wf' = Idle /\ row' = row /\ faults' = faults + 1
         /\ faults < MaxFaults

LEMMA FailsStep == ASSUME Typed, wf # Idle, StepFails PROVE Fails
<1>1. CASE Step1.err \in {"note", "ignore"} /\ UNCHANGED <<row, faults>>
           /\ wf' = at([wf EXCEPT !.bad = @ \/ Step1.err = "note"], wf.pc + 1)
  <2>1. wf \in Workflows
    BY Working
  <2>2. PICK w : w = [wf EXCEPT !.bad = @ \/ Step1.err = "note"]
    OBVIOUS
  <2>3. /\ w \in Workflows /\ w.op = wf.op /\ w.snap = wf.snap
        /\ w.bad = (wf.bad \/ Step1.err = "note")
    BY <2>1, <2>2 DEF Workflows
  <2>4. Onward(w.snap, w.bad)
    BY <1>1, <2>2, <2>3, OnwardStep
  <2> QED BY <1>1, <2>3, <2>4 DEF Fails
<1>2. CASE ~(Step1.err \in {"note", "ignore"} /\ UNCHANGED <<row, faults>>
             /\ wf' = at([wf EXCEPT !.bad = @ \/ Step1.err = "note"], wf.pc + 1))
  BY <1>2 DEF StepFails, Fails
<1> QED BY <1>1, <1>2

LEMMA Step1Is ==
    ASSUME Typed, wf # Idle PROVE Step1 = ProgramOf(kind, wf.op)[wf.pc]
  BY Working, Programs DEF Step1

(***************************************************************************)
(* What a step of the worker does, in the terms of the fields it changes.  *)
(***************************************************************************)
Started ==
    /\ wf = Idle /\ queue # <<>> /\ queue' = Tail(queue)
    /\ wf' \in Workflows /\ wf' # Idle
    /\ wf'.op = queue[1].op /\ wf'.pc = 1 /\ wf'.todo = Targets
    /\ wf'.snap.cfg = queue[1].cfg /\ wf'.bad = FALSE
    /\ row' = row /\ node' = node /\ faults' = faults

Wrote ==
    /\ Step1.do = "status" /\ row' = updatedRow(Step1.arg)
    /\ Step1.arg = "deleted" /\ row # Absent => ~children
    /\ Onward(wf.snap, wf.bad)
    /\ node' = node /\ faults' = faults

Looked ==
    /\ Step1.do = "read" /\ row # Absent
    /\ Onward([cfg |-> row.cfg, on |-> row.on], wf.bad)
    /\ row' = row /\ node' = node /\ faults' = faults

Changed(n) == node' = [node EXCEPT ![n] = applied(Step1.arg, wf.snap, node[n])]

NodeDone(n) ==
    /\ Step1.do \in NodeSteps /\ n \in wf.todo
    /\ Step1.arg = "use" => node[n].cfg # 0
    /\ Changed(n)
    /\ \/ wf.todo = {n} /\ Onward(wf.snap, wf.bad)
       \/ wf.todo # {n} /\ Remains(n, wf.bad)
    /\ row' = row /\ faults' = faults

NodeFailed(n) ==
    /\ Step1.do = "all" /\ n \in wf.todo /\ wf.todo # {n}
    /\ node' = node \/ Changed(n)
    /\ Remains(n, TRUE)
    /\ row' = row /\ faults' = faults

Passed ==
    /\ Step1.do \in {"side", "gate"} /\ (Step1.do = "gate" => ~wf.bad)
    /\ Onward(wf.snap, wf.bad)
    /\ row' = row /\ node' = node /\ faults' = faults

Broke ==
    /\ Step1.do = "status" => Step1.arg = "deleted" /\ row # Absent /\ children
    /\ Step1.do = "gate" => wf.bad
    /\ node' = node \/ \E n \in wf.todo : Step1.do \in NodeSteps /\ Changed(n)
    /\ Fails

Faulted ==
    /\ Step1.do = "status"
    /\ wf' = Idle /\ row' = row /\ node' = node /\ faults' = faults + 1
    /\ faults < MaxFaults

LEMMA StartTaskStep == ASSUME Typed, StartTask PROVE Started
<1>1. kind \in Kind
  BY KindIsKnown
<1>2. /\ Head(queue) = queue[1] /\ 1 \in DOMAIN queue
      /\ queue[1] \in [op : OpNames, cfg : Versions]
  <2>1. PICK S : S = [op : OpNames, cfg : Versions]
    OBVIOUS
  <2>2. queue \in Seq(S) /\ queue # <<>>
    BY <2>1 DEF StartTask, Typed, TypeOK
  <2>3. Head(queue) = queue[1] /\ 1 \in DOMAIN queue /\ queue[1] \in S
    BY <2>2
  <2> QED BY <2>1, <2>3
<1>3. queue[1].op \in TaskNames(kind)
  BY <1>2 DEF Typed, TasksOK
<1>4. PICK w : w = [Idle EXCEPT !.op = Head(queue).op, !.snap.cfg = Head(queue).cfg]
  OBVIOUS
<1>5. PICK q \in [op : OpNames, cfg : Versions] : q = queue[1] /\ Head(queue) = q
  BY <1>2
<1>6. w = [Idle EXCEPT !.op = q.op, !.snap.cfg = q.cfg]
  BY <1>4, <1>5
<1>7. /\ w.op = q.op /\ w.pc = 0 /\ w.todo = {} /\ w.bad = FALSE
      /\ w.snap = [cfg |-> q.cfg, on |-> FALSE]
  BY <1>6 DEF Idle, Nothing
<1>9. w = [op |-> q.op, pc |-> 0, snap |-> [cfg |-> q.cfg, on |-> FALSE],
           todo |-> {}, bad |-> FALSE]
  BY <1>6 DEF Idle, Nothing
<1>10. w \in Workflows
  BY <1>9 DEF Workflows, Provisioned
<1>11. PICK l \in Marks : Len(ProgramOf(kind, w.op)) = l
  BY <1>1, <1>3, <1>5, <1>7, Programs
<1>12. ~(1 > Len(ProgramOf(kind, w.op)))
  BY <1>11 DEF Marks
<1>13. wf' = at(w, 1)
  BY <1>4 DEF StartTask
<1>14. /\ wf' \in Workflows /\ wf' # Idle
       /\ wf'.op = w.op /\ wf'.pc = 1 /\ wf'.todo = Targets
       /\ wf'.snap = w.snap /\ wf'.bad = w.bad
  BY <1>1, <1>3, <1>5, <1>7, <1>10, <1>12, <1>13, AtStep
<1>15. wf'.snap.cfg = q.cfg /\ wf'.bad = FALSE /\ wf'.op = q.op
  BY <1>7, <1>14
<1> QED BY <1>5, <1>14, <1>15 DEF StartTask, Started

LEMMA NodeSteps1 ==
    ASSUME Typed, NEW n \in Nodes, NodeActivity(n) \/ NodeActivityFails(n)
    PROVE  wf # Idle /\ (NodeDone(n) \/ NodeFailed(n) \/ Broke)
<1>1. wf # Idle
  BY DEF NodeActivity, NodeActivityFails, Running
<1>2. wf \in Workflows
  BY <1>1, Working
<1>3. CASE NodeActivity(n)
  <2>1. Changed(n)
    BY <1>3 DEF NodeActivity, Changed
  <2>2. CASE wf.todo = {n} /\ wf' = at(wf, wf.pc + 1)
    BY <1>1, <1>2, <1>3, <2>1, <2>2, OnwardStep
    DEF NodeActivity, NodeDone, NodeSteps, Running
  <2>3. CASE wf.todo # {n} /\ wf' = [wf EXCEPT !.todo = @ \ {n}]
    <3>1. n \in wf.todo
      BY <1>3 DEF NodeActivity
    <3>2. wf' = [wf EXCEPT !.todo = @ \ {n}, !.bad = wf.bad] /\ wf.bad \in BOOLEAN
      BY <1>2, <2>3 DEF Workflows
    <3>3. Remains(n, wf.bad)
      BY <1>1, <3>1, <3>2, RemainsStep
    <3> QED BY <1>1, <1>3, <2>1, <2>3, <3>3 DEF NodeActivity, NodeDone, NodeSteps, Running
  <2> QED BY <1>1, <1>3, <2>2, <2>3 DEF NodeActivity
<1>4. CASE NodeActivityFails(n)
  <2>1. n \in wf.todo /\ (node' = node \/ Changed(n)) /\ Step1.do \in NodeSteps
    BY <1>4 DEF NodeActivityFails, Changed, Running, NodeSteps
  <2>2. CASE Step1.do = "all" /\ wf' = [wf EXCEPT !.todo = @ \ {n}, !.bad = TRUE]
             /\ wf.todo # {n} /\ UNCHANGED <<row, faults>>
    <3>1. Remains(n, TRUE)
      BY <1>1, <2>1, <2>2, RemainsStep
    <3> QED BY <1>1, <2>1, <2>2, <3>1 DEF NodeFailed
  <2>3. CASE StepFails
    <3>1. Fails
      BY <1>1, <2>3, FailsStep
    <3>2. Step1.do # "status" /\ Step1.do # "gate"
      BY <2>1 DEF NodeSteps
    <3> QED BY <1>1, <2>1, <3>1, <3>2 DEF Broke
  <2> QED BY <1>4, <2>2, <2>3 DEF NodeActivityFails
<1> QED BY <1>3, <1>4

LEMMA WorkerCases ==
    ASSUME Typed, Worker
    PROVE  /\ kind' = kind /\ caller' = caller /\ calls' = calls /\ children' = children
           /\ \/ Started
              \/ /\ wf # Idle /\ queue' = queue
                 /\ \/ Wrote \/ Looked \/ Passed \/ Broke \/ Faulted
                    \/ \E n \in Nodes : NodeDone(n) \/ NodeFailed(n)
<1>1. CASE StartTask
  BY <1>1, StartTaskStep DEF StartTask
<1>2. CASE WriteStatus
  <2>1. wf # Idle /\ Onward(wf.snap, wf.bad)
    BY <1>2, AdvanceStep DEF WriteStatus, Running
  <2> QED BY <1>2, <2>1 DEF WriteStatus, Wrote, Running
<1>3. CASE DeleteRefused
  <2>1. wf # Idle /\ Fails
    BY <1>3, FailsStep DEF DeleteRefused, Running
  <2> QED BY <1>3, <2>1 DEF DeleteRefused, Broke, Running
<1>4. CASE WriteStatusFails
  BY <1>4 DEF WriteStatusFails, Faulted, Running
<1>5. CASE ReadContext
  <2>1. wf # Idle /\ wf \in Workflows /\ row # Absent /\ row \in Rows
    BY <1>5, Working DEF ReadContext, Running, Typed, TypeOK
  <2>2. PICK sn \in Provisioned : sn = [cfg |-> row.cfg, on |-> row.on]
    BY <2>1 DEF Provisioned, Rows
  <2>3. PICK w : w = [wf EXCEPT !.snap = sn]
    OBVIOUS
  <2>4. w \in Workflows /\ w.op = wf.op /\ w.snap = sn /\ w.bad = wf.bad
    BY <2>1, <2>3 DEF Workflows
  <2>5. wf' = at(w, wf.pc + 1)
    BY <1>5, <2>2, <2>3 DEF ReadContext
  <2>6. Onward(sn, wf.bad)
    BY <2>1, <2>4, <2>5, OnwardStep
  <2> QED BY <1>5, <2>1, <2>2, <2>6 DEF ReadContext, Looked, Running
<1>6. CASE ReadContextFails
  <2>1. wf # Idle /\ Fails
    BY <1>6, FailsStep DEF ReadContextFails, Running
  <2> QED BY <1>6, <2>1 DEF ReadContextFails, Broke, Running
<1>7. CASE SideEffect
  <2>1. wf # Idle /\ Onward(wf.snap, wf.bad)
    BY <1>7, AdvanceStep DEF SideEffect, Running
  <2> QED BY <1>7, <2>1 DEF SideEffect, Passed, Running
<1>8. CASE SideEffectFails
  <2>1. wf # Idle /\ Fails
    BY <1>8, FailsStep DEF SideEffectFails, Running
  <2> QED BY <1>8, <2>1 DEF SideEffectFails, Broke, Running
<1>9. CASE CheckErrors
  <2>1. wf # Idle
    BY <1>9 DEF CheckErrors, Running
  <2>2. CASE ~wf.bad /\ Advance /\ UNCHANGED <<row, faults>>
    BY <1>9, <2>1, <2>2, AdvanceStep DEF CheckErrors, Passed, Running
  <2>3. CASE wf.bad /\ StepFails
    BY <1>9, <2>1, <2>3, FailsStep DEF CheckErrors, Broke, Running
  <2> QED BY <1>9, <2>2, <2>3 DEF CheckErrors
<1>10. ASSUME NEW n \in Nodes, NodeActivity(n) \/ NodeActivityFails(n)
       PROVE  /\ kind' = kind /\ caller' = caller /\ calls' = calls /\ children' = children
              /\ wf # Idle /\ queue' = queue
              /\ NodeDone(n) \/ NodeFailed(n) \/ Broke
  BY <1>10, NodeSteps1 DEF NodeActivity, NodeActivityFails
<1> QED
  BY <1>1, <1>2, <1>3, <1>4, <1>5, <1>6, <1>7, <1>8, <1>9, <1>10 DEF Worker

(***************************************************************************)
(* What a step of a request does.                                          *)
(***************************************************************************)
ReadBy(c) ==
    /\ \E o \in DOMAIN Ops : Ops[o].reads /\ caller'[c].op = o
    /\ caller[c].pc = "idle" /\ caller'[c].pc = "read"
    /\ row # Absent /\ caller'[c].saw = row
    /\ row' = row /\ queue' = queue /\ faults' = faults

WrittenBy(c) ==
    /\ caller[c].pc # "written"
    /\ \E o \in DOMAIN Ops, saw \in Rows, cfg \in Versions :
         /\ \/ caller[c].pc = "read" /\ saw = caller[c].saw /\ saw # Absent /\ Ops[o].reads
            \/ ~Ops[o].reads /\ saw = Absent /\ row # Absent
         /\ row' = rowWritten(o, saw, cfg)
         /\ \/ Ops[o].run = <<>> /\ caller'[c] = NoCall
            \/ /\ Ops[o].run # <<>> /\ caller'[c].pc = "written"
               /\ caller'[c].op = o /\ caller'[c].cfg = carried(o, saw, cfg)
    /\ queue' = queue /\ faults' = faults

SignalledBy(c) ==
    /\ caller[c].pc = "written" /\ caller'[c] = NoCall
    /\ \/ queue' = queue /\ row = Absent
       \/ queue' = Append(queue, [op |-> caller[c].op, cfg |-> caller[c].cfg])
    /\ row' = row /\ faults' = faults

LostBy(c) ==
    /\ caller[c].pc = "written" /\ caller'[c] = NoCall
    /\ row' = row /\ queue' = queue /\ faults' = faults + 1

LEMMA VersionFacts ==
    /\ 0 \in Versions /\ 1 \in Versions
    /\ calls \in 0..MaxCalls /\ calls < MaxCalls => calls + 2 \in Versions
  BY LifecycleAssumption DEF Versions

LEMMA NoCallTyped == NoCall \in Requests
<1>1. Absent \in Rows
  BY DEF Rows
<1> QED BY <1>1, VersionFacts DEF NoCall, Requests, OpNames

LEMMA RowFields == ASSUME NEW x \in Rows PROVE x.cfg \in Versions
<1>1. Absent.cfg = 0
  BY DEF Absent
<1> QED BY <1>1, VersionFacts DEF Rows

LEMMA PresentRow ==
    ASSUME NEW x \in Rows, x.status \in Statuses PROVE x # Absent
  BY DEF Absent, Statuses

LEMMA WrittenRow ==
    ASSUME kind \in Kind, row \in Rows, NEW o \in DOMAIN Ops, NEW saw \in Rows,
           NEW cfg \in Versions, Ops[o].writes = "stale" => saw # Absent
    PROVE  /\ rowWritten(o, saw, cfg) \in Rows
           /\ rowWritten(o, saw, cfg) = Absent <=> row = Absent
<1>1. Ops[o].writes \in Statuses \union {"keep", "stale"}
  BY Shapes DEF Catalogued, Fits, Ops
<1>2. CASE row = Absent
  BY <1>2 DEF rowWritten
<1>3. CASE row # Absent
  <2>1. row.status \in Statuses /\ row.cfg \in Versions /\ row.on \in BOOLEAN
    BY <1>3 DEF Rows
  <2>2. PICK s : s = CASE Ops[o].writes = "keep" -> row.status
                       [] Ops[o].writes = "stale" -> saw.status
                       [] OTHER -> Ops[o].writes
    OBVIOUS
  <2>3. s \in Statuses
    <3>1. CASE Ops[o].writes = "keep"
      BY <2>1, <2>2, <3>1
    <3>2. CASE Ops[o].writes = "stale"
      <4>1. saw.status \in Statuses
        BY <3>2 DEF Rows
      <4> QED BY <2>2, <3>2, <4>1
    <3>3. CASE Ops[o].writes \notin {"keep", "stale"}
      BY <1>1, <2>2, <3>3
    <3> QED BY <3>1, <3>2, <3>3
  <2>4. PICK v \in Versions : v = IF Ops[o].cfg THEN cfg ELSE row.cfg
    BY <2>1
  <2>5. PICK b \in BOOLEAN : b = IF Ops[o].on = "keep" THEN row.on ELSE Ops[o].on = "on"
    BY <2>1
  <2>6. rowWritten(o, saw, cfg) = [status |-> s, cfg |-> v, on |-> b]
    BY <1>3, <2>2, <2>4, <2>5 DEF rowWritten
  <2>7. [status |-> s, cfg |-> v, on |-> b] \in [status : Statuses, cfg : Versions, on : BOOLEAN]
    BY <2>3, <2>4, <2>5
  <2>8. [status |-> s, cfg |-> v, on |-> b] # Absent
    BY <2>3 DEF Absent, Statuses
  <2> QED BY <1>3, <2>6, <2>7, <2>8 DEF Rows
<1> QED BY <1>2, <1>3

LEMMA CarriedVersion ==
    ASSUME row \in Rows, NEW o, NEW saw \in Rows, NEW cfg \in Versions
    PROVE  carried(o, saw, cfg) \in Versions
  BY RowFields DEF carried

LEMMA RequestTypes ==
    ASSUME Typed
    PROVE  /\ kind \in Kind /\ row \in Rows
           /\ caller \in [Callers -> Requests]
           /\ calls \in 0..MaxCalls
  BY KindIsKnown DEF Typed, TypeOK, Requests

\* The write of a request, its types and its cases.
LEMMA WrittenStep ==
    ASSUME Typed, NEW c \in Callers, NEW o \in DOMAIN Ops, NEW saw \in Rows,
           NEW cfg \in Versions, caller[c].pc # "written",
           \/ caller[c].pc = "read" /\ saw = caller[c].saw /\ saw # Absent /\ Ops[o].reads
           \/ ~Ops[o].reads /\ saw = Absent /\ row # Absent,
           Written(c, o, saw, cfg)
    PROVE  /\ WrittenBy(c) /\ row' \in Rows /\ (row' = Absent <=> row = Absent)
           /\ caller' \in [Callers -> Requests]
           /\ \A d \in Callers \ {c} : caller'[d] = caller[d]
<1>1. /\ kind \in Kind /\ row \in Rows /\ caller \in [Callers -> Requests]
  BY RequestTypes
<1>2. Ops[o].writes = "stale" => saw # Absent
  BY <1>1, Shapes DEF Catalogued, Fits, Ops
<1>3. row' \in Rows /\ (row' = Absent <=> row = Absent)
  BY <1>1, <1>2, WrittenRow DEF Written
<1>4. o \in OpNames
  BY <1>1, Shapes DEF Catalogued, Fits, Ops
<1>5. PICK x : x = IF Ops[o].run = <<>> THEN NoCall
                   ELSE [pc |-> "written", op |-> o, saw |-> Absent,
                         cfg |-> carried(o, saw, cfg)]
  OBVIOUS
<1>6. PICK v \in Versions : v = carried(o, saw, cfg)
  BY <1>1, CarriedVersion
<1>7. x \in Requests
  <2>1. Absent \in Rows
    BY DEF Rows
  <2>2. [pc |-> "written", op |-> o, saw |-> Absent, cfg |-> v] \in Requests
    BY <1>4, <2>1 DEF Requests
  <2> QED BY <1>5, <1>6, <2>2, NoCallTyped
<1>8. caller' = [caller EXCEPT ![c] = x]
  BY <1>5 DEF Written
<1>9. /\ caller' \in [Callers -> Requests] /\ caller'[c] = x
      /\ \A d \in Callers \ {c} : caller'[d] = caller[d]
  BY <1>1, <1>7, <1>8
<1>10. \/ Ops[o].run = <<>> /\ x = NoCall
       \/ /\ Ops[o].run # <<>> /\ x.pc = "written"
          /\ x.op = o /\ x.cfg = carried(o, saw, cfg)
  BY <1>5
<1> QED BY <1>3, <1>9, <1>10 DEF Written, WrittenBy

LEMMA RequestCases ==
    ASSUME Typed, NEW c \in Callers, Request(c)
    PROVE  /\ kind' = kind /\ node' = node /\ wf' = wf /\ children' = children
           /\ row' \in Rows /\ (row' = Absent <=> row = Absent)
           /\ caller' \in [Callers -> Requests]
           /\ calls' \in 0..MaxCalls
           /\ \A d \in Callers \ {c} : caller'[d] = caller[d]
           /\ ReadBy(c) \/ WrittenBy(c) \/ SignalledBy(c) \/ LostBy(c)
<1>1. /\ kind \in Kind /\ row \in Rows /\ caller \in [Callers -> Requests]
      /\ calls \in 0..MaxCalls
  BY RequestTypes
<1>2. ASSUME NEW o \in DOMAIN Ops, ReadRow(c, o)
      PROVE  /\ ReadBy(c) /\ caller' \in [Callers -> Requests] /\ calls' \in 0..MaxCalls
             /\ \A d \in Callers \ {c} : caller'[d] = caller[d]
  <2>1. o \in OpNames /\ Ops[o].needs \subseteq Statuses
    BY <1>1, Shapes DEF Catalogued, Fits, Ops
  <2>2. row # Absent
    BY <1>1, <1>2, <2>1, PresentRow DEF ReadRow
  <2>3. PICK v \in Versions : v = calls + 2
    BY <1>1, <1>2, VersionFacts DEF ReadRow
  <2>4. PICK x : x = [pc |-> "read", op |-> o, saw |-> row, cfg |-> v]
    OBVIOUS
  <2>5. x \in Requests
    BY <1>1, <2>1, <2>4 DEF Requests
  <2>6. caller' = [caller EXCEPT ![c] = x]
    BY <1>2, <2>3, <2>4 DEF ReadRow
  <2>7. /\ caller' \in [Callers -> Requests] /\ caller'[c] = x
        /\ \A d \in Callers \ {c} : caller'[d] = caller[d]
    BY <1>1, <2>5, <2>6
  <2>8. calls' \in 0..MaxCalls
    BY <1>1, <1>2, LifecycleAssumption DEF ReadRow
  <2>9. x.pc = "read" /\ x.op = o /\ x.saw = row
    BY <2>4
  <2>10. ReadBy(c)
    BY <1>2, <2>2, <2>7, <2>9 DEF ReadRow, ReadBy, FirstIdle
  <2> QED BY <2>7, <2>8, <2>10
<1>3. ASSUME NEW o \in DOMAIN Ops, WriteRow(c, o)
      PROVE  /\ WrittenBy(c) /\ row' \in Rows /\ (row' = Absent <=> row = Absent)
             /\ caller' \in [Callers -> Requests]
             /\ calls' \in 0..MaxCalls
             /\ \A d \in Callers \ {c} : caller'[d] = caller[d]
  <2>1. PICK v \in Versions : v = calls + 2
    BY <1>1, <1>3, VersionFacts DEF WriteRow
  <2>2. /\ Written(c, o, Absent, v) /\ ~Ops[o].reads /\ row # Absent
        /\ caller[c].pc # "written"
    BY <1>3, <2>1 DEF WriteRow, FirstIdle
  <2>3. calls' \in 0..MaxCalls
    BY <1>1, <1>3, LifecycleAssumption DEF WriteRow
  <2>4. Absent \in Rows
    BY DEF Rows
  <2> QED BY <2>2, <2>3, <2>4, WrittenStep
<1>4. CASE WriteReadRow(c)
  <2>1. PICK q \in Requests : q = caller[c]
    BY <1>1
  <2>2. q.saw \in Rows /\ q.cfg \in Versions
    BY DEF Requests
  <2>3. q.pc = "read" /\ q.op \in DOMAIN Ops /\ Ops[q.op].reads /\ q.saw # Absent
    BY <1>4, <2>1 DEF WriteReadRow, Typed, TasksOK
  <2>4. Written(c, q.op, q.saw, q.cfg) /\ calls' = calls
    BY <1>4, <2>1 DEF WriteReadRow
  <2>5. /\ WrittenBy(c) /\ row' \in Rows /\ (row' = Absent <=> row = Absent)
        /\ caller' \in [Callers -> Requests]
        /\ \A d \in Callers \ {c} : caller'[d] = caller[d]
    BY <2>1, <2>2, <2>3, <2>4, WrittenStep
  <2> QED BY <1>1, <1>4, <2>4, <2>5 DEF WriteReadRow, Written
<1>5. CASE SignalTask(c)
  <2>1. /\ caller' \in [Callers -> Requests] /\ caller'[c] = NoCall
        /\ \A d \in Callers \ {c} : caller'[d] = caller[d]
    BY <1>1, <1>5, NoCallTyped DEF SignalTask
  <2> QED BY <1>1, <1>5, <2>1 DEF SignalTask, SignalledBy
<1>6. CASE SignalLost(c)
  <2>1. /\ caller' \in [Callers -> Requests] /\ caller'[c] = NoCall
        /\ \A d \in Callers \ {c} : caller'[d] = caller[d]
    BY <1>1, <1>6, NoCallTyped DEF SignalLost
  <2> QED BY <1>1, <1>6, <2>1 DEF SignalLost, LostBy
<1>7. \/ \E o \in DOMAIN Ops : ReadRow(c, o)
      \/ \E o \in DOMAIN Ops : WriteRow(c, o)
      \/ WriteReadRow(c) \/ SignalTask(c) \/ SignalLost(c)
  BY DEF Request
<1>8. CASE \E o \in DOMAIN Ops : ReadRow(c, o)
  BY <1>1, <1>2, <1>8 DEF ReadRow
<1>9. CASE \E o \in DOMAIN Ops : WriteRow(c, o)
  BY <1>3, <1>9 DEF WriteRow, Written
<1> QED BY <1>4, <1>5, <1>6, <1>7, <1>8, <1>9

-----------------------------------------------------------------------------
(***************************************************************************)
(* Types.                                                                  *)
(***************************************************************************)
LEMMA IdleTyped == Idle \in Workflows
<1>1. Nothing \in Provisioned
  BY VersionFacts DEF Nothing, Provisioned
<1>2. "none" \in OpNames
  BY DEF OpNames
<1> QED BY <1>1, <1>2 DEF Idle, Workflows

LEMMA AppliedTyped ==
    ASSUME NEW change \in Changes, NEW s \in Provisioned, NEW x \in Provisioned
    PROVE  applied(change, s, x) \in Provisioned
<1>1. Nothing \in Provisioned
  BY VersionFacts DEF Nothing, Provisioned
<1>2. CASE change \in {"put", "putIfPresent", "putAndStart"}
  BY <1>2 DEF applied, Provisioned
<1>3. CASE change = "drop"
  BY <1>1, <1>3 DEF applied
<1>4. CASE change \in {"start", "stop"}
  BY <1>4 DEF applied, Provisioned
<1>5. CASE change \in {"startOrStop", "startIfEnabled"}
  BY <1>5 DEF applied, Provisioned
<1>6. CASE change = "use"
  BY <1>6 DEF applied
<1> QED BY <1>2, <1>3, <1>4, <1>5, <1>6 DEF Changes

LEMMA UpdatedRowTyped ==
    ASSUME row \in Rows, NEW s \in Statuses \union {"deleted"}
    PROVE  updatedRow(s) \in Rows
<1>1. CASE row = Absent \/ s = "deleted"
  BY <1>1 DEF updatedRow, Rows
<1>2. CASE ~(row = Absent \/ s = "deleted")
  <2>1. row \in [status : Statuses, cfg : Versions, on : BOOLEAN] /\ s \in Statuses
    BY <1>2 DEF Rows
  <2>2. [row EXCEPT !.status = s] \in [status : Statuses, cfg : Versions, on : BOOLEAN]
    BY <2>1
  <2> QED BY <1>2, <2>2 DEF updatedRow, Rows
<1> QED BY <1>1, <1>2

LEMMA FailedRowTyped == ASSUME row \in Rows PROVE setResourceFailed(row) \in Rows
<1>1. CASE row = Absent
  BY <1>1 DEF setResourceFailed
<1>2. CASE row # Absent
  <2>1. row \in [status : Statuses, cfg : Versions, on : BOOLEAN] /\ "failed" \in Statuses
    BY <1>2 DEF Rows, Statuses
  <2>2. [row EXCEPT !.status = "failed"] \in [status : Statuses, cfg : Versions, on : BOOLEAN]
    BY <2>1
  <2> QED BY <1>2, <2>2 DEF setResourceFailed, Rows
<1> QED BY <1>1, <1>2

\* The step of a workflow in progress has a known argument.
LEMMA StepArgs ==
    ASSUME Typed, wf # Idle
    PROVE  /\ Step1.do \in NodeSteps => Step1.arg \in Changes
           /\ Step1.do = "status" => Step1.arg \in Statuses \union {"deleted"}
<1>1. PICK l \in Marks : Len(ProgramOf(kind, wf.op)) = l /\ wf.pc \in 1..l
  BY Working
<1>2. WellFormed(ProgramOf(kind, wf.op), l)
  BY <1>1, Working, Programs DEF Shaped, WellFormed
<1> QED BY <1>1, <1>2, Step1Is DEF WellFormed

LEMMA InitTyped == Init => Typed
<1> SUFFICES ASSUME Init PROVE Typed
  OBVIOUS
<1>1. kind \in Kinds /\ kind \in Kind
  BY LifecycleAssumption DEF Init
<1>2. Catalogued(kind)
  BY <1>1, Shapes
<1>3. row \in Rows
  <2>1. ServiceOf[kind].on \in BOOLEAN
    BY <1>2 DEF Catalogued
  <2>2. PICK s \in Statuses : s = IF ServiceOf[kind].create = <<>> THEN "active" ELSE "pending"
    BY DEF Statuses
  <2>3. row = [status |-> s, cfg |-> 1, on |-> ServiceOf[kind].on]
    BY <2>2 DEF Init
  <2> QED BY <2>1, <2>2, <2>3, VersionFacts DEF Rows
<1>4. node \in [Nodes -> Provisioned]
  <2>1. Nothing \in Provisioned
    BY VersionFacts DEF Nothing, Provisioned
  <2> QED BY <2>1 DEF Init
<1>5. /\ queue \in Seq([op : OpNames, cfg : Versions])
      /\ \A i \in DOMAIN queue : queue[i].op \in TaskNames(kind)
  <2>1. PICK q : q = [op |-> "create", cfg |-> 1]
    OBVIOUS
  <2>2. q \in [op : OpNames, cfg : Versions] /\ q.op = "create"
    BY <2>1, VersionFacts DEF OpNames
  <2>3. CASE ServiceOf[kind].create = <<>>
    BY <2>3 DEF Init
  <2>4. CASE ServiceOf[kind].create # <<>>
    <3>1. queue = <<q>>
      BY <2>1, <2>4 DEF Init
    <3>2. "create" \in TaskNames(kind)
      BY <2>4 DEF TaskNames
    <3> QED BY <2>2, <3>1, <3>2
  <2> QED BY <2>3, <2>4
<1>6. wf = Idle /\ wf \in Workflows
  BY IdleTyped DEF Init
<1>7. caller \in [Callers -> Requests] /\ \A c \in Callers : caller[c].pc = "idle"
  <2>1. NoCall.pc = "idle"
    BY DEF NoCall
  <2> QED BY <2>1, NoCallTyped DEF Init
<1>8. calls \in 0..MaxCalls /\ faults \in 0..MaxFaults
  BY LifecycleAssumption DEF Init
<1>9. children \in BOOLEAN /\ refused \in BOOLEAN
  BY DEF Init
<1>10. TypeOK
  BY <1>1, <1>3, <1>4, <1>5, <1>6, <1>7, <1>8, <1>9 DEF TypeOK, Workflows, Requests
<1>11. TasksOK
  BY <1>5, <1>6, <1>7 DEF TasksOK
<1> QED BY <1>10, <1>11 DEF Typed

\* The bounds of the history variables, and the row's children.
LEMMA HistoryTyped ==
    ASSUME Typed, Next
    PROVE  /\ calls' \in 0..MaxCalls /\ faults' \in 0..MaxFaults
           /\ children' \in BOOLEAN /\ refused' \in BOOLEAN
           /\ kind' = kind
<1>1. /\ calls \in 0..MaxCalls /\ faults \in 0..MaxFaults
      /\ children \in BOOLEAN /\ refused \in BOOLEAN
      /\ MaxCalls \in Nat /\ MaxFaults \in Nat
  BY LifecycleAssumption DEF Typed, TypeOK
<1>2. CASE Worker
  <2>1. calls' = calls /\ children' = children /\ kind' = kind
    BY <1>2, WorkerCases
  <2>2. refused' \in BOOLEAN
    BY <1>1, <1>2 DEF Worker, StartTask, WriteStatus, DeleteRefused, WriteStatusFails,
       ReadContext, ReadContextFails, SideEffect, SideEffectFails, CheckErrors,
       NodeActivity, NodeActivityFails
  <2>3. faults' = faults \/ (faults' = faults + 1 /\ faults < MaxFaults)
    BY <1>2, WorkerCases DEF Started, Wrote, Looked, Passed, Broke, Fails, Faulted,
       NodeDone, NodeFailed
  <2>4. faults' \in 0..MaxFaults
    BY <1>1, <2>3
  <2> QED BY <1>1, <2>1, <2>2, <2>4
<1>3. CASE ChildrenGone
  BY <1>1, <1>3 DEF ChildrenGone
<1>4. ASSUME NEW c \in Callers, Request(c)
      PROVE  /\ calls' \in 0..MaxCalls /\ faults' \in 0..MaxFaults
             /\ children' \in BOOLEAN /\ refused' \in BOOLEAN
             /\ kind' = kind
  <2>1. calls' \in 0..MaxCalls /\ children' = children /\ kind' = kind
    BY <1>4, RequestCases
  <2>2. refused' = refused
    BY <1>4 DEF Request, ReadRow, WriteRow, WriteReadRow, Written, SignalTask, SignalLost
  <2>3. faults' = faults \/ (faults' = faults + 1 /\ faults < MaxFaults)
    BY <1>4 DEF Request, ReadRow, WriteRow, WriteReadRow, Written, SignalTask, SignalLost
  <2>4. faults' \in 0..MaxFaults
    BY <1>1, <2>3
  <2> QED BY <1>1, <2>1, <2>2, <2>4
<1> QED BY <1>2, <1>3, <1>4 DEF Next

\* A workflow that goes on is at one of its steps.
LEMMA OnwardTyped ==
    ASSUME Typed, wf # Idle, kind' = kind, NEW sn, NEW b,
           Onward(sn, b) \/ (\E n \in Nodes : Remains(n, b)) \/ wf' = Idle
    PROVE  /\ wf' \in Workflows
           /\ wf' # Idle => /\ wf'.op \in TaskNames(kind)
                            /\ wf'.pc \in 1..Len(ProgramOf(kind, wf'.op))
                            /\ wf'.todo \subseteq Targets
<1>1. PICK l \in Marks : Len(ProgramOf(kind, wf.op)) = l /\ wf.pc \in 1..l
  BY Working
<1>2. wf.op \in TaskNames(kind) /\ wf.todo \subseteq Targets
  BY Working
<1>3. CASE Onward(sn, b) /\ wf' # Idle
  <2>1. /\ wf' \in Workflows /\ wf'.op = wf.op /\ wf'.pc = wf.pc + 1
        /\ wf'.todo = Targets /\ wf.pc + 1 <= Len(ProgramOf(kind, wf.op))
    BY <1>3 DEF Onward
  <2>2. wf.pc + 1 <= l
    BY <1>1, <2>1
  <2>3. wf.pc + 1 \in 1..l
    BY <1>1, <2>2 DEF Marks
  <2> QED BY <1>1, <1>2, <2>1, <2>3
<1>4. CASE \E n \in Nodes : Remains(n, b)
  BY <1>1, <1>2, <1>4 DEF Remains
<1>5. CASE wf' = Idle
  BY <1>5, IdleTyped
<1> QED BY <1>3, <1>4, <1>5

LEMMA ChangedTyped ==
    ASSUME Typed, wf # Idle, NEW n \in wf.todo, Step1.do \in NodeSteps, Changed(n)
    PROVE  node' \in [Nodes -> Provisioned]
<1>1. node \in [Nodes -> Provisioned] /\ wf \in Workflows
  BY Working DEF Typed, TypeOK
<1>2. n \in Nodes /\ wf.snap \in Provisioned
  BY <1>1 DEF Workflows
<1>3. PICK x : x = applied(Step1.arg, wf.snap, node[n])
  OBVIOUS
<1>4. x \in Provisioned
  BY <1>1, <1>2, <1>3, AppliedTyped, StepArgs
<1>5. node' = [node EXCEPT ![n] = x]
  BY <1>3 DEF Changed
<1> QED BY <1>1, <1>4, <1>5

\* What the worker leaves typed.
LEMMA WorkerTyped ==
    ASSUME Typed, Worker
    PROVE  /\ row' \in Rows /\ node' \in [Nodes -> Provisioned] /\ wf' \in Workflows
           /\ wf' # Idle => /\ wf'.op \in TaskNames(kind)
                            /\ wf'.pc \in 1..Len(ProgramOf(kind, wf'.op))
                            /\ wf'.todo \subseteq Targets
           /\ queue' \in Seq([op : OpNames, cfg : Versions])
           /\ \A i \in DOMAIN queue' : queue'[i].op \in TaskNames(kind)
<1>1. /\ kind' = kind /\ kind \in Kind
      /\ row \in Rows /\ node \in [Nodes -> Provisioned]
      /\ queue \in Seq([op : OpNames, cfg : Versions])
      /\ \A i \in DOMAIN queue : queue[i].op \in TaskNames(kind)
  BY WorkerCases, KindIsKnown DEF Typed, TypeOK, TasksOK
<1>2. CASE Started
  <2>1. 1 \in DOMAIN queue
    <3>1. PICK S : S = [op : OpNames, cfg : Versions]
      OBVIOUS
    <3> QED BY <1>1, <1>2, <3>1 DEF Started
  <2>2. wf'.op \in TaskNames(kind) /\ wf'.pc = 1 /\ wf'.todo = Targets /\ wf' \in Workflows
    BY <1>1, <1>2, <2>1 DEF Started
  <2>3. PICK l \in Marks : Len(ProgramOf(kind, wf'.op)) = l
    BY <1>1, <2>2, Programs
  <2>4. 1 \in 1..l
    BY DEF Marks
  <2>5. /\ queue' \in Seq([op : OpNames, cfg : Versions])
        /\ \A i \in DOMAIN queue' : queue'[i].op \in TaskNames(kind)
    <3>1. PICK S : S = [op : OpNames, cfg : Versions]
      OBVIOUS
    <3>2. queue \in Seq(S) /\ queue # <<>> /\ queue' = Tail(queue)
      BY <1>1, <1>2, <3>1 DEF Started
    <3>3. /\ queue' \in Seq(S)
          /\ \A i \in DOMAIN queue' : i + 1 \in DOMAIN queue /\ queue'[i] = queue[i + 1]
      BY <3>2
    <3> QED BY <1>1, <3>1, <3>3
  <2> QED BY <1>1, <1>2, <2>2, <2>3, <2>4, <2>5 DEF Started
<1>3. ASSUME wf # Idle, queue' = queue, Wrote PROVE row' \in Rows
  BY <1>1, <1>3, StepArgs, UpdatedRowTyped DEF Wrote
<1>4. ASSUME wf # Idle, Broke PROVE row' \in Rows /\ node' \in [Nodes -> Provisioned]
  <2>1. row' \in Rows
    BY <1>1, <1>4, FailedRowTyped DEF Broke, Fails
  <2>2. node' \in [Nodes -> Provisioned]
    BY <1>1, <1>4, ChangedTyped DEF Broke
  <2> QED BY <2>1, <2>2
<1>5. ASSUME wf # Idle, NEW n \in Nodes, NodeDone(n) \/ NodeFailed(n)
      PROVE  row' \in Rows /\ node' \in [Nodes -> Provisioned]
  <2>1. Step1.do \in NodeSteps /\ n \in wf.todo /\ (node' = node \/ Changed(n)) /\ row' = row
    BY <1>5 DEF NodeDone, NodeFailed, NodeSteps
  <2> QED BY <1>1, <1>5, <2>1, ChangedTyped
<1>6. ASSUME wf # Idle, queue' = queue,
             \/ Wrote \/ Looked \/ Passed \/ Broke \/ Faulted
             \/ \E n \in Nodes : NodeDone(n) \/ NodeFailed(n)
      PROVE  row' \in Rows /\ node' \in [Nodes -> Provisioned]
  BY <1>1, <1>3, <1>4, <1>5, <1>6 DEF Wrote, Looked, Passed, Faulted
<1>7. ASSUME wf # Idle,
             \/ Wrote \/ Looked \/ Passed \/ Broke \/ Faulted
             \/ \E n \in Nodes : NodeDone(n) \/ NodeFailed(n)
      PROVE  \E sn, b : Onward(sn, b) \/ (\E n \in Nodes : Remains(n, b)) \/ wf' = Idle
  BY <1>7 DEF Wrote, Looked, Passed, Broke, Fails, Faulted, NodeDone, NodeFailed
<1>8. CASE /\ wf # Idle /\ queue' = queue
           /\ \/ Wrote \/ Looked \/ Passed \/ Broke \/ Faulted
              \/ \E n \in Nodes : NodeDone(n) \/ NodeFailed(n)
  <2>1. PICK sn, b : Onward(sn, b) \/ (\E n \in Nodes : Remains(n, b)) \/ wf' = Idle
    BY <1>7, <1>8
  <2>2. /\ wf' \in Workflows
        /\ wf' # Idle => /\ wf'.op \in TaskNames(kind)
                         /\ wf'.pc \in 1..Len(ProgramOf(kind, wf'.op))
                         /\ wf'.todo \subseteq Targets
    BY <1>1, <1>8, <2>1, OnwardTyped
  <2> QED BY <1>1, <1>6, <1>8, <2>2
<1> QED BY <1>2, <1>8, WorkerCases

\* What a request leaves typed.
LEMMA RequestTyped ==
    ASSUME Typed, NEW c \in Callers, Request(c)
    PROVE  /\ queue' \in Seq([op : OpNames, cfg : Versions])
           /\ \A i \in DOMAIN queue' : queue'[i].op \in TaskNames(kind)
           /\ \A d \in Callers :
                /\ caller'[d].pc = "read" =>
                     /\ caller'[d].op \in DOMAIN Ops /\ Ops[caller'[d].op].reads
                     /\ caller'[d].saw # Absent
                /\ caller'[d].pc = "written" => caller'[d].op \in TaskNames(kind)
<1>1. /\ queue \in Seq([op : OpNames, cfg : Versions])
      /\ \A i \in DOMAIN queue : queue[i].op \in TaskNames(kind)
      /\ \A d \in Callers :
           /\ caller[d].pc = "read" =>
                /\ caller[d].op \in DOMAIN Ops /\ Ops[caller[d].op].reads
                /\ caller[d].saw # Absent
           /\ caller[d].pc = "written" => caller[d].op \in TaskNames(kind)
  BY DEF Typed, TypeOK, TasksOK
<1>2. NoCall.pc = "idle"
  BY DEF NoCall
<1>3. /\ caller'[c].pc = "read" =>
           /\ caller'[c].op \in DOMAIN Ops /\ Ops[caller'[c].op].reads
           /\ caller'[c].saw # Absent
      /\ caller'[c].pc = "written" => caller'[c].op \in TaskNames(kind)
  <2>1. CASE ReadBy(c)
    BY <2>1 DEF ReadBy
  <2>2. CASE WrittenBy(c)
    <3>1. PICK o \in DOMAIN Ops, saw \in Rows, cfg \in Versions :
             \/ Ops[o].run = <<>> /\ caller'[c] = NoCall
             \/ Ops[o].run # <<>> /\ caller'[c].pc = "written" /\ caller'[c].op = o
      BY <2>2 DEF WrittenBy
    <3> QED BY <1>2, <3>1 DEF TaskNames, Ops
  <2>3. CASE SignalledBy(c) \/ LostBy(c)
    BY <1>2, <2>3 DEF SignalledBy, LostBy
  <2> QED BY <2>1, <2>2, <2>3, RequestCases
<1>4. \A d \in Callers \ {c} : caller'[d] = caller[d]
  BY RequestCases
<1>5. /\ queue' \in Seq([op : OpNames, cfg : Versions])
      /\ \A i \in DOMAIN queue' : queue'[i].op \in TaskNames(kind)
  <2>1. CASE queue' = queue
    BY <1>1, <2>1
  <2>2. CASE caller[c].pc = "written"
             /\ queue' = Append(queue, [op |-> caller[c].op, cfg |-> caller[c].cfg])
    <3>1. PICK S : S = [op : OpNames, cfg : Versions]
      OBVIOUS
    <3>2. PICK r \in Requests : r = caller[c]
      BY RequestTypes
    <3>3. PICK q : q = [op |-> r.op, cfg |-> r.cfg]
      OBVIOUS
    <3>4. q \in S /\ q.op = caller[c].op
      BY <3>1, <3>2, <3>3 DEF Requests
    <3>5. queue \in Seq(S) /\ queue' = Append(queue, q)
      BY <1>1, <2>2, <3>1, <3>2, <3>3
    <3>6. /\ queue' \in Seq(S)
          /\ \A i \in DOMAIN queue' : queue'[i] = q \/ (i \in DOMAIN queue /\ queue'[i] = queue[i])
      BY <3>4, <3>5
    <3> QED BY <1>1, <2>2, <3>1, <3>4, <3>6
  <2> QED BY <2>1, <2>2, RequestCases DEF ReadBy, WrittenBy, SignalledBy, LostBy
<1> QED BY <1>1, <1>3, <1>4, <1>5

LEMMA NextTyped == Typed /\ [Next]_vars => Typed'
<1> SUFFICES ASSUME Typed, [Next]_vars PROVE Typed'
  OBVIOUS
<1>1. /\ kind \in Kinds /\ row \in Rows /\ node \in [Nodes -> Provisioned]
      /\ queue \in Seq([op : OpNames, cfg : Versions])
      /\ wf \in Workflows /\ caller \in [Callers -> Requests]
      /\ \A i \in DOMAIN queue : queue[i].op \in TaskNames(kind)
      /\ \A d \in Callers :
           /\ caller[d].pc = "read" =>
                /\ caller[d].op \in DOMAIN Ops /\ Ops[caller[d].op].reads
                /\ caller[d].saw # Absent
           /\ caller[d].pc = "written" => caller[d].op \in TaskNames(kind)
      /\ wf # Idle => /\ wf.op \in TaskNames(kind)
                      /\ wf.pc \in 1..Len(ProgramOf(kind, wf.op))
                      /\ wf.todo \subseteq Targets
  BY DEF Typed, TypeOK, TasksOK, Workflows, Requests
<1>2. CASE Next
  <2>1. /\ calls' \in 0..MaxCalls /\ faults' \in 0..MaxFaults
        /\ children' \in BOOLEAN /\ refused' \in BOOLEAN
        /\ kind' = kind
    BY <1>2, HistoryTyped
  <2>2. Ops' = Ops /\ Targets' = Targets
    BY <2>1 DEF Ops, Targets
  <2>3. /\ row' \in Rows /\ node' \in [Nodes -> Provisioned] /\ wf' \in Workflows
        /\ wf' # Idle => /\ wf'.op \in TaskNames(kind)
                         /\ wf'.pc \in 1..Len(ProgramOf(kind, wf'.op))
                         /\ wf'.todo \subseteq Targets
        /\ queue' \in Seq([op : OpNames, cfg : Versions])
        /\ \A i \in DOMAIN queue' : queue'[i].op \in TaskNames(kind)
        /\ caller' \in [Callers -> Requests]
        /\ \A d \in Callers :
             /\ caller'[d].pc = "read" =>
                  /\ caller'[d].op \in DOMAIN Ops /\ Ops[caller'[d].op].reads
                  /\ caller'[d].saw # Absent
             /\ caller'[d].pc = "written" => caller'[d].op \in TaskNames(kind)
    <3>1. CASE Worker
      <4>1. caller' = caller
        BY <3>1, WorkerCases
      <4>2. /\ row' \in Rows /\ node' \in [Nodes -> Provisioned] /\ wf' \in Workflows
            /\ wf' # Idle => /\ wf'.op \in TaskNames(kind)
                             /\ wf'.pc \in 1..Len(ProgramOf(kind, wf'.op))
                             /\ wf'.todo \subseteq Targets
            /\ queue' \in Seq([op : OpNames, cfg : Versions])
            /\ \A i \in DOMAIN queue' : queue'[i].op \in TaskNames(kind)
        BY <3>1, WorkerTyped
      <4> QED BY <1>1, <4>1, <4>2
    <3>2. CASE ChildrenGone
      <4>1. /\ row' = row /\ node' = node /\ wf' = wf /\ queue' = queue /\ caller' = caller
        BY <3>2 DEF ChildrenGone
      <4> QED BY <1>1, <4>1
    <3>3. CASE \E c \in Callers : Request(c)
      <4>1. PICK c \in Callers : Request(c)
        BY <3>3
      <4>2. /\ node' = node /\ wf' = wf
            /\ row' \in Rows /\ caller' \in [Callers -> Requests]
        BY <4>1, RequestCases
      <4>3. /\ queue' \in Seq([op : OpNames, cfg : Versions])
            /\ \A i \in DOMAIN queue' : queue'[i].op \in TaskNames(kind)
            /\ \A d \in Callers :
                 /\ caller'[d].pc = "read" =>
                      /\ caller'[d].op \in DOMAIN Ops /\ Ops[caller'[d].op].reads
                      /\ caller'[d].saw # Absent
                 /\ caller'[d].pc = "written" => caller'[d].op \in TaskNames(kind)
        BY <4>1, RequestTyped
      <4> QED BY <1>1, <4>2, <4>3
    <3> QED BY <1>2, <3>1, <3>2, <3>3 DEF Next
  <2>4. TypeOK'
    BY <1>1, <2>1, <2>3 DEF TypeOK, Workflows, Requests
  <2>5. TasksOK'
    BY <2>1, <2>2, <2>3 DEF TasksOK
  <2> QED BY <2>4, <2>5 DEF Typed
<1>3. CASE UNCHANGED vars
  BY <1>3 DEF vars, Typed, TypeOK, TasksOK, Ops, Targets
<1> QED BY <1>2, <1>3

\* Every state has its type: rows, nodes, tasks and requests, whichever
\* requests meet whichever workflow, and tasks name workflows of their kind.
THEOREM Typing == Spec => []TypeOK
<1>1. Typed => TypeOK
  BY DEF Typed
<1> QED BY InitTyped, NextTyped, <1>1, PTL DEF Spec

-----------------------------------------------------------------------------
(***************************************************************************)
(* A resource that is gone has left every node.                            *)
(***************************************************************************)
\* The steps of the workflow in progress, as one disjunction.
Progressed ==
    \/ Wrote \/ Looked \/ Passed \/ Broke \/ Faulted
    \/ \E n \in Nodes : NodeDone(n) \/ NodeFailed(n)

\* A node changes by a node step of the workflow, and only while it is due.
LEMMA NodeChange ==
    ASSUME Typed, wf # Idle, Progressed, NEW m \in Nodes
    PROVE  \/ node'[m] = node[m]
           \/ /\ m \in wf.todo /\ Step1.do \in NodeSteps
              /\ node'[m] = applied(Step1.arg, wf.snap, node[m])
<1>1. node \in [Nodes -> Provisioned]
  BY DEF Typed, TypeOK
<1>2. \/ node' = node
      \/ \E n \in wf.todo : Step1.do \in NodeSteps /\ Changed(n)
  BY DEF Progressed, Wrote, Looked, Passed, Broke, Faulted, NodeDone, NodeFailed, NodeSteps
<1>3. CASE node' = node
  BY <1>3
<1>4. CASE \E n \in wf.todo : Step1.do \in NodeSteps /\ Changed(n)
  <2>1. PICK n \in wf.todo : Step1.do \in NodeSteps /\ Changed(n)
    BY <1>4
  <2> QED BY <1>1, <2>1 DEF Changed
<1> QED BY <1>2, <1>3, <1>4

LEMMA OthersEmptyStep == ASSUME Typed, OthersEmpty, Next PROVE OthersEmpty'
<1>1. kind' = kind
  BY HistoryTyped
<1>2. Targets' = Targets
  BY <1>1 DEF Targets
<1>3. ASSUME NEW m \in Nodes \ Targets PROVE node'[m] = node[m]
  <2>1. CASE Worker
    <3>1. CASE Started
      BY <3>1 DEF Started
    <3>2. CASE wf # Idle /\ Progressed
      <4>1. wf.todo \subseteq Targets
        BY <3>2, Working
      <4> QED BY <1>3, <3>2, <4>1, NodeChange
    <3> QED BY <2>1, <3>1, <3>2, WorkerCases DEF Progressed
  <2>2. CASE ChildrenGone
    BY <2>2 DEF ChildrenGone
  <2>3. CASE \E c \in Callers : Request(c)
    BY <2>3, RequestCases
  <2> QED BY <2>1, <2>2, <2>3 DEF Next
<1> QED BY <1>2, <1>3 DEF OthersEmpty

\* A workflow that is under way after the step was under way before, with the
\* same program, and has moved on by one step or stays.
LEMMA SameProgram ==
    ASSUME Typed, wf # Idle, Progressed, wf' # Idle
    PROVE  /\ wf'.op = wf.op
           /\ \/ wf'.pc = wf.pc + 1 /\ wf'.todo = Targets
              \/ /\ wf'.pc = wf.pc
                 /\ \E n \in wf.todo : wf'.todo = wf.todo \ {n}
                                       /\ (NodeDone(n) \/ NodeFailed(n))
  BY DEF Progressed, Wrote, Looked, Passed, Broke, Fails, Faulted, NodeDone, NodeFailed,
         Onward, Remains

\* How the error flag develops: it is not forgotten while the workflow runs.
LEMMA FlagStep ==
    ASSUME Typed, wf # Idle, Progressed, wf' # Idle
    PROVE  /\ \/ wf'.bad = wf.bad
              \/ Step1.do = "all" /\ wf'.pc = wf.pc
              \/ Step1.err = "note" /\ wf'.pc = wf.pc + 1 /\ wf'.bad
           /\ wf.bad => wf'.bad
<1>1. wf.bad \in BOOLEAN
  BY Working DEF Workflows
<1>2. CASE Broke
  <2>1. /\ Step1.err \in {"note", "ignore"} /\ wf'.pc = wf.pc + 1
        /\ wf'.bad = (wf.bad \/ Step1.err = "note")
    BY <1>2 DEF Broke, Fails, Onward
  <2>2. CASE Step1.err = "note"
    BY <2>1, <2>2
  <2>3. CASE Step1.err = "ignore"
    BY <1>1, <2>1, <2>3
  <2> QED BY <2>1, <2>2, <2>3
<1>3. CASE \E n \in Nodes : NodeFailed(n)
  BY <1>3 DEF NodeFailed, Remains
<1>4. CASE Wrote \/ Looked \/ Passed \/ Faulted \/ \E n \in Nodes : NodeDone(n)
  BY <1>4 DEF Wrote, Looked, Passed, Faulted, NodeDone, Onward, Remains
<1> QED BY <1>2, <1>3, <1>4 DEF Progressed

LEMMA ErrorsStopStep == ASSUME Typed, ErrorsStop, Next PROVE ErrorsStop'
<1>1. kind' = kind
  BY HistoryTyped
<1> SUFFICES ASSUME wf' # Idle, NEW l \in Marks, NEW p \in Marks, NEW g \in Marks,
                    Len(ProgramOf(kind, wf'.op)) = l,
                    Guarded(ProgramOf(kind, wf'.op), l, p, g),
                    ProgramOf(kind, wf'.op)[p].do = "nodes" \/ wf'.pc > g
             PROVE  ~wf'.bad
  BY <1>1 DEF ErrorsStop
<1>2. CASE Started
  BY <1>2 DEF Started
<1>3. CASE wf # Idle /\ Progressed
  <2> DEFINE P == ProgramOf(kind, wf.op)
  <2>1. wf'.op = wf.op /\ (wf'.pc = wf.pc \/ wf'.pc = wf.pc + 1)
    BY <1>3, SameProgram
  <2>2. Len(P) = l /\ Guarded(P, l, p, g) /\ (P[p].do = "nodes" \/ wf'.pc > g)
    BY <2>1
  <2>3. wf.pc \in 1..l
    BY <1>3, <2>2, Working
  <2>4. Step1 = P[wf.pc]
    BY <1>3, Step1Is
  <2>5. (P[p].do = "nodes" \/ wf.pc > g) => ~wf.bad
    BY <1>3, <2>2 DEF ErrorsStop
  <2>6. p \in 1..l /\ g \in p..l
    BY <2>2 DEF Guarded
  <2> HIDE DEF P
  <2>7. CASE wf'.bad = wf.bad
    <3>1. CASE P[p].do = "nodes" \/ wf.pc > g
      BY <2>5, <2>7, <3>1
    <3>2. CASE P[p].do # "nodes" /\ ~(wf.pc > g)
      <4>1. wf.pc = g /\ wf'.pc = wf.pc + 1
        BY <2>1, <2>2, <2>3, <3>2 DEF Marks
      <4>2. P[g].do = "gate" /\ P[g].err = "fail"
        BY <2>2, <2>6, <3>2 DEF Guarded, Marks
      <4>3. Step1.do = "gate" /\ Step1.err = "fail"
        BY <2>4, <4>1, <4>2
      <4>4. ~Wrote /\ ~Looked /\ ~(\E n \in Nodes : NodeDone(n) \/ NodeFailed(n)) /\ ~Faulted
        BY <4>3 DEF Wrote, Looked, NodeDone, NodeFailed, NodeSteps, Faulted
      <4>5. ~Broke
        BY <4>3 DEF Broke, Fails
      <4>6. Passed
        BY <1>3, <4>4, <4>5 DEF Progressed
      <4> QED BY <2>7, <4>3, <4>6 DEF Passed
    <3> QED BY <3>1, <3>2
  <2>8. CASE Step1.do = "all" /\ wf'.pc = wf.pc
    <3>1. wf.pc = p /\ P[p].do = "all"
      BY <2>2, <2>3, <2>4, <2>8 DEF Guarded, NodeSteps
    <3>2. ~(wf'.pc > g)
      BY <2>6, <2>8, <3>1 DEF Marks
    <3> QED BY <2>2, <3>1, <3>2
  <2>9. CASE Step1.err = "note" /\ wf'.pc = wf.pc + 1
    <3>1. wf.pc < g /\ P[p].do = "all"
      BY <2>2, <2>3, <2>4, <2>9 DEF Guarded
    <3>2. ~(wf'.pc > g)
      BY <2>3, <2>9, <3>1 DEF Marks
    <3> QED BY <2>2, <3>1, <3>2
  <2> QED BY <1>3, <2>7, <2>8, <2>9, FlagStep
<1>4. CASE wf' = wf
  BY <1>4 DEF ErrorsStop
<1>5. Worker => Started \/ (wf # Idle /\ Progressed)
  BY WorkerCases DEF Progressed
<1>6. ChildrenGone \/ (\E c \in Callers : Request(c)) => wf' = wf
  BY RequestCases DEF ChildrenGone
<1> QED BY <1>2, <1>3, <1>4, <1>5, <1>6 DEF Next

LEMMA Dropped == ASSUME NEW s, NEW x PROVE applied("drop", s, x) = Nothing
  BY DEF applied

LEMMA ClearingStep == ASSUME Typed, Clearing, Next PROVE Clearing'
<1>1. kind' = kind
  BY HistoryTyped
<1>2. Targets' = Targets
  BY <1>1 DEF Targets
<1> SUFFICES ASSUME wf' # Idle, ~wf'.bad, NEW l \in Marks, NEW p \in Marks,
                    NEW g \in Marks, NEW e \in Marks,
                    Erases(ProgramOf(kind, wf'.op), l, p, g, e)
             PROVE  /\ wf'.pc = p => \A n \in Targets \ wf'.todo : node'[n] = Nothing
                    /\ wf'.pc > p => \A n \in Targets : node'[n] = Nothing
  BY <1>1, <1>2 DEF Clearing
<1>3. CASE Started
  <2>1. wf'.pc = 1 /\ wf'.todo = Targets
    BY <1>3 DEF Started
  <2> QED BY <2>1 DEF Marks
<1>4. CASE wf # Idle /\ Progressed
  <2> DEFINE P == ProgramOf(kind, wf.op)
  <2>1. wf'.op = wf.op
    BY <1>4, SameProgram
  <2>2. Erases(P, l, p, g, e) /\ Guarded(P, l, p, g) /\ P[p].arg = "drop"
    BY <2>1 DEF Erases
  <2>3. Len(P) = l
    BY <2>2 DEF Erases
  <2>4. wf.pc \in 1..l /\ wf.todo \subseteq Targets /\ Targets \subseteq Nodes
    BY <1>4, <2>3, Working, TargetsAreNodes
  <2>5. Step1 = P[wf.pc]
    BY <1>4, Step1Is
  <2>6. ~wf.bad =>
           /\ wf.pc = p => \A n \in Targets \ wf.todo : node[n] = Nothing
           /\ wf.pc > p => \A n \in Targets : node[n] = Nothing
    BY <1>4, <2>2 DEF Clearing
  <2>7. p \in 1..l /\ g \in p..l /\ (P[p].err = "note" \/ P[p].err = "fail")
        /\ P[p].do \in NodeSteps
    BY <2>2 DEF Guarded, NodeSteps
  <2> HIDE DEF P
  <2>8. wf.pc # p => Step1.do \notin NodeSteps
    BY <2>2, <2>4, <2>5 DEF Guarded
  <2>9. \A m \in Nodes : node'[m] = node[m] \/ (wf.pc = p /\ m \in wf.todo /\ node'[m] = Nothing)
    BY <1>4, <2>2, <2>5, <2>8, NodeChange, Dropped
  <2>10. ~wf.bad
    BY <1>4, FlagStep
  <2>11. CASE wf'.pc = wf.pc
    <3>1. PICK n \in wf.todo : wf'.todo = wf.todo \ {n} /\ (NodeDone(n) \/ NodeFailed(n))
      BY <1>4, <2>4, <2>11, SameProgram DEF Marks
    <3>2. NodeDone(n)
      BY <3>1 DEF NodeFailed, Remains
    <3>3. wf.pc = p
      BY <2>8, <3>2 DEF NodeDone
    <3>4. node'[n] = Nothing
      <4>1. node \in [Nodes -> Provisioned] /\ n \in Nodes
        BY <2>4 DEF Typed, TypeOK
      <4> QED BY <2>2, <2>5, <3>2, <3>3, <4>1, Dropped DEF NodeDone, Changed
    <3> QED BY <2>4, <2>6, <2>9, <2>10, <2>11, <3>1, <3>3, <3>4 DEF Marks
  <2>12. CASE wf'.pc = wf.pc + 1 /\ wf'.todo = Targets
    <3>1. CASE wf.pc = p
      <4>1. Step1.do \in NodeSteps /\ Step1.err \in {"note", "fail"}
        BY <2>5, <2>7, <3>1
      <4>2. ~Broke
        <5>1. ASSUME Broke PROVE FALSE
          <6>1. Step1.err = "note" /\ wf'.bad = (wf.bad \/ Step1.err = "note")
            BY <4>1, <5>1 DEF Broke, Fails, Onward
          <6> QED BY <6>1
        <5> QED BY <5>1
      <4>3. ~Wrote /\ ~Looked /\ ~Passed /\ ~Faulted
        BY <4>1 DEF Wrote, Looked, Passed, Faulted, NodeSteps
      <4>4. PICK n \in Nodes : NodeDone(n)
        BY <1>4, <4>2, <4>3 DEF Progressed, NodeFailed, Remains
      <4>5. wf.todo = {n}
        BY <2>4, <2>12, <4>4 DEF NodeDone, Remains, Marks
      <4>6. node'[n] = Nothing
        <5>1. node \in [Nodes -> Provisioned]
          BY DEF Typed, TypeOK
        <5> QED BY <2>2, <2>5, <3>1, <4>4, <5>1, Dropped DEF NodeDone, Changed
      <4>7. \A m \in Targets : node'[m] = Nothing
        BY <2>4, <2>6, <2>9, <2>10, <3>1, <4>5, <4>6
      <4> QED BY <2>12, <3>1, <4>7 DEF Marks
    <3>2. CASE wf.pc > p
      <4>1. \A m \in Targets : node'[m] = Nothing
        BY <2>4, <2>6, <2>9, <2>10, <3>2 DEF Marks
      <4> QED BY <2>12, <4>1
    <3>3. CASE wf.pc < p
      BY <2>4, <2>7, <2>12, <3>3 DEF Marks
    <3> QED BY <2>4, <2>7, <3>1, <3>2, <3>3 DEF Marks
  <2> QED BY <1>4, <2>11, <2>12, SameProgram
<1>5. CASE wf' = wf /\ node' = node
  BY <1>5 DEF Clearing
<1>6. Worker => Started \/ (wf # Idle /\ Progressed)
  BY WorkerCases DEF Progressed
<1>7. ChildrenGone \/ (\E c \in Callers : Request(c)) => wf' = wf /\ node' = node
  BY RequestCases DEF ChildrenGone
<1> QED BY <1>3, <1>4, <1>5, <1>6, <1>7 DEF Next

\* The row disappears by the deletion at the end of a workflow, and does not
\* come back.
LEMMA RowGoes ==
    ASSUME Typed, wf # Idle, Progressed
    PROVE  row' = Absent <=> row = Absent \/ (Step1.do = "status" /\ Step1.arg = "deleted" /\ Wrote)
<1>1. row \in Rows
  BY DEF Typed, TypeOK
<1>2. CASE row' = row
  <2>1. CASE Wrote /\ Step1.arg = "deleted"
    BY <1>2, <2>1 DEF Wrote, updatedRow
  <2> QED BY <1>2, <2>1
<1>3. CASE row' = setResourceFailed(row) /\ ~Wrote
  <2>1. CASE row # Absent
    <3>1. row \in [status : Statuses, cfg : Versions, on : BOOLEAN]
      BY <1>1, <2>1 DEF Rows
    <3>2. [row EXCEPT !.status = "failed"].status = "failed"
      BY <3>1
    <3> QED BY <1>3, <2>1, <3>2 DEF setResourceFailed, Absent
  <2> QED BY <1>3, <2>1 DEF setResourceFailed
<1>4. CASE Wrote
  <2>1. CASE row = Absent \/ Step1.arg = "deleted"
    BY <1>4, <2>1 DEF Wrote, updatedRow
  <2>2. CASE ~(row = Absent \/ Step1.arg = "deleted")
    <3>1. row \in [status : Statuses, cfg : Versions, on : BOOLEAN]
      BY <1>1, <2>2 DEF Rows
    <3>2. Step1.arg \in Statuses
      BY <1>4, <2>2, StepArgs DEF Wrote
    <3>3. [row EXCEPT !.status = Step1.arg].status = Step1.arg
      BY <3>1
    <3>4. row' # Absent
      BY <1>4, <2>2, <3>2, <3>3 DEF Wrote, updatedRow, Absent, Statuses
    <3> QED BY <2>2, <3>4
  <2> QED BY <2>1, <2>2
<1> QED BY <1>2, <1>3, <1>4
    DEF Progressed, Looked, Passed, Broke, Fails, Faulted, NodeDone, NodeFailed

LEMMA RemovedStep ==
    ASSUME Typed, OthersEmpty, ErrorsStop, Clearing, Removed, Next PROVE Removed'
<1>1. kind' = kind /\ kind \in Kind
  BY HistoryTyped, KindIsKnown
<1> SUFFICES ASSUME row' = Absent, kind \notin Unclean
             PROVE  /\ \A n \in Nodes : node'[n] = Nothing
                    /\ wf' # Idle => \A l, r \in Marks :
                                       Reads(ProgramOf(kind, wf'.op), l, r) => wf'.pc <= r
  BY <1>1 DEF Removed
<1>2. CASE row = Absent /\ Started
  <2>1. \A n \in Nodes : node'[n] = Nothing
    BY <1>2 DEF Removed, Started
  <2>2. wf'.pc = 1
    BY <1>2 DEF Started
  <2> QED BY <2>1, <2>2 DEF Marks
<1>3. CASE row = Absent /\ wf # Idle /\ Progressed
  <2> DEFINE P == ProgramOf(kind, wf.op)
  <2>1. PICK l \in Marks : Len(P) = l /\ wf.pc \in 1..l
    BY <1>3, Working
  <2>2. Step1 = P[wf.pc]
    BY <1>3, Step1Is
  <2>3. wf.todo \subseteq Targets /\ Shaped(kind, wf.op)
    BY <1>3, Working, Programs
  <2>4. /\ \A n \in Nodes : node[n] = Nothing
        /\ \A k, r \in Marks : Reads(P, k, r) => wf.pc <= r
    BY <1>3 DEF Removed
  <2> HIDE DEF P
  <2>5. \A n \in Nodes : node'[n] = Nothing
    <3>1. CASE kind = "subscription"
      <4>1. Targets = {}
        BY <1>1, <3>1, Shapes DEF Targets, Catalogued
      <4> QED BY <1>3, <2>3, <2>4, <4>1, NodeChange
    <3>2. CASE \E k, r : Reads(P, k, r)
      <4>1. PICK k, r : Reads(P, k, r)
        BY <3>2
      <4>2. Len(P) = k /\ k \in Marks /\ r \in Marks
        BY <4>1, ReadsMarks
      <4>3. wf.pc <= r
        BY <2>4, <4>1, <4>2
      <4>4. Step1.do \notin NodeSteps
        BY <2>1, <2>2, <4>1, <4>2, <4>3 DEF Reads
      <4> QED BY <1>3, <2>4, <4>4, NodeChange
    <3>3. CASE \E k, p, g, e : Erases(P, k, p, g, e)
      <4>1. PICK k, p, g, e : Erases(P, k, p, g, e)
        BY <3>3
      <4>2. Len(P) = k /\ P[p].arg = "drop" /\ \A i \in 1..k : i # p => P[i].do \notin NodeSteps
        BY <4>1 DEF Erases, Guarded
      <4>3. Step1.do \in NodeSteps => Step1.arg = "drop"
        BY <2>1, <2>2, <4>2
      <4> QED BY <1>3, <2>4, <4>3, NodeChange, Dropped
    <3> QED BY <2>3, <3>1, <3>2, <3>3 DEF Shaped, P
  <2>6. ASSUME wf' # Idle, NEW k \in Marks, NEW r \in Marks,
               Reads(ProgramOf(kind, wf'.op), k, r)
        PROVE  wf'.pc <= r
    <3>1. wf'.op = wf.op /\ (wf'.pc = wf.pc \/ wf'.pc = wf.pc + 1)
      BY <1>3, <2>6, SameProgram
    <3>2. Reads(P, k, r)
      BY <2>6, <3>1 DEF P
    <3>3. wf.pc <= r
      BY <2>4, <3>2
    <3>4. wf.pc # r
      <4>1. SUFFICES ASSUME wf.pc = r PROVE FALSE
        OBVIOUS
      <4>2. Step1.do = "read" /\ Step1.err \in {"fail", "return"}
        BY <2>2, <3>2, <4>1 DEF Reads
      <4> QED BY <1>3, <2>6, <4>2 DEF Progressed, Wrote, Looked, Passed, Broke, Fails, Faulted,
                 NodeDone, NodeFailed, NodeSteps
    <3> QED BY <2>1, <3>1, <3>3, <3>4 DEF Marks
  <2> QED BY <2>5, <2>6
<1>4. CASE row # Absent /\ wf # Idle /\ Progressed
  <2> DEFINE P == ProgramOf(kind, wf.op)
  <2>1. Step1.arg = "deleted" /\ Wrote
    BY <1>4, RowGoes
  <2>2. node' = node
    BY <2>1 DEF Wrote
  <2>3. PICK l \in Marks : Len(P) = l /\ wf.pc \in 1..l
    BY <1>4, Working
  <2>4. P[wf.pc].arg = "deleted"
    BY <1>4, <2>1, Step1Is
  <2>5. Shaped(kind, wf.op)
    BY <1>4, Working, Programs
  <2> HIDE DEF P
  <2>6. \A k, r : ~Reads(P, k, r)
    BY <2>3, <2>4 DEF Reads
  <2>7. \A n \in Targets : node[n] = Nothing
    <3>1. CASE kind = "subscription"
      BY <1>1, <3>1, Shapes DEF Targets, Catalogued
    <3>2. CASE kind # "subscription"
      <4>1. PICK k, p, g, e : Erases(P, k, p, g, e)
        BY <2>5, <2>6, <3>2 DEF Shaped, P
      <4>2. Len(P) = k /\ k \in Marks /\ p \in Marks /\ g \in Marks /\ e \in Marks
        BY <4>1, ErasesMarks
      <4>3. wf.pc = e
        BY <2>3, <2>4, <4>1, <4>2 DEF Erases
      <4>4. Guarded(P, k, p, g) /\ p <= g /\ g < e
        BY <4>1, <4>2 DEF Erases, Guarded, Marks
      <4>5. ~wf.bad
        BY <1>4, <4>2, <4>3, <4>4 DEF ErrorsStop, P, Marks
      <4>6. wf.pc > p
        BY <4>2, <4>3, <4>4 DEF Marks
      <4> QED BY <1>4, <4>1, <4>2, <4>5, <4>6 DEF Clearing, P
    <3> QED BY <3>1, <3>2
  <2>8. \A n \in Nodes : node'[n] = Nothing
    BY <2>2, <2>7 DEF OthersEmpty
  <2>9. wf' # Idle => wf'.op = wf.op
    BY <1>4, SameProgram
  <2> QED BY <2>6, <2>8, <2>9 DEF P
<1>5. CASE row = Absent /\ wf' = wf /\ node' = node
  BY <1>5 DEF Removed
<1>6. Worker => (row = Absent /\ Started) \/ (wf # Idle /\ Progressed)
  BY WorkerCases DEF Progressed, Started
<1>7. ChildrenGone \/ (\E c \in Callers : Request(c)) => row = Absent /\ wf' = wf /\ node' = node
  BY RequestCases DEF ChildrenGone
<1> QED BY <1>2, <1>3, <1>4, <1>5, <1>6, <1>7 DEF Next

LEMMA RemovedInvInit == Init => RemovedInv
  BY DEF Init, RemovedInv, OthersEmpty, ErrorsStop, Removed, Clearing, Absent, Targets

LEMMA RemovedInvStep == Typed /\ RemovedInv /\ [Next]_vars => RemovedInv'
<1> SUFFICES ASSUME Typed, RemovedInv, [Next]_vars PROVE RemovedInv'
  OBVIOUS
<1>1. CASE Next
  BY <1>1, OthersEmptyStep, ErrorsStopStep, ClearingStep, RemovedStep DEF RemovedInv
<1>2. CASE UNCHANGED vars
  BY <1>2 DEF vars, RemovedInv, OthersEmpty, ErrorsStop, Removed, Clearing, Targets
<1> QED BY <1>1, <1>2

\* Once the row of a resource is gone and no workflow is at work, nothing of
\* it is left on any node: whichever activities failed, however requests and
\* workflows interleave, and although signals and status writes are lost.
THEOREM Removal == Spec => []GoneIsRemoved
<1>1. RemovedInv => GoneIsRemoved
  BY DEF RemovedInv, Removed, GoneIsRemoved, Unclean
<1> QED BY InitTyped, NextTyped, RemovedInvInit, RemovedInvStep, <1>1, PTL DEF Spec

-----------------------------------------------------------------------------
(***************************************************************************)
(* An active resource is configured with the current version.              *)
(***************************************************************************)
\* What a step of the workflow does to the row.
LEMMA RowStep ==
    ASSUME Typed, wf # Idle, Progressed
    PROVE  \/ row' = row
           \/ row' = Absent /\ Wrote
           \/ /\ row # Absent /\ row' # Absent /\ row'.cfg = row.cfg
              /\ \/ Wrote /\ row'.status = Step1.arg
                 \/ row'.status = "failed"
<1>1. row \in Rows
  BY DEF Typed, TypeOK
<1>2. ASSUME row # Absent, NEW s \in Statuses
      PROVE  /\ [row EXCEPT !.status = s].status = s
             /\ [row EXCEPT !.status = s].cfg = row.cfg
             /\ [row EXCEPT !.status = s] # Absent
  <2>1. row \in [status : Statuses, cfg : Versions, on : BOOLEAN]
    BY <1>1, <1>2 DEF Rows
  <2>2. [row EXCEPT !.status = s].status = s /\ [row EXCEPT !.status = s].cfg = row.cfg
    BY <2>1
  <2> QED BY <2>2 DEF Absent, Statuses
<1>3. CASE row' = row
  BY <1>3
<1>4. CASE row' = setResourceFailed(row)
  BY <1>2, <1>4 DEF setResourceFailed, Statuses
<1>5. CASE Wrote
  <2>1. Step1.arg \in Statuses \union {"deleted"}
    BY <1>5, StepArgs DEF Wrote
  <2> QED BY <1>2, <1>5, <2>1 DEF Wrote, updatedRow
<1> QED BY <1>3, <1>4, <1>5
    DEF Progressed, Looked, Passed, Broke, Fails, Faulted, NodeDone, NodeFailed

\* The snapshot changes when the row is read.
LEMMA SnapStep ==
    ASSUME Typed, wf # Idle, Progressed, wf' # Idle
    PROVE  wf'.snap = wf.snap \/ (Looked /\ wf'.pc = wf.pc + 1 /\ wf'.snap.cfg = row.cfg)
<1>1. CASE Looked
  <2>1. wf'.snap = [cfg |-> row.cfg, on |-> row.on] /\ wf'.pc = wf.pc + 1
    BY <1>1 DEF Looked, Onward
  <2> QED BY <1>1, <2>1
<1>2. CASE ~Looked
  BY <1>2 DEF Progressed, Wrote, Passed, Broke, Fails, Faulted, NodeDone, NodeFailed,
     Onward, Remains
<1> QED BY <1>1, <1>2

LEMMA PutVersion ==
    ASSUME NEW s \in Provisioned, NEW x \in Provisioned PROVE applied("put", s, x).cfg = s.cfg
<1>1. applied("put", s, x) = [x EXCEPT !.cfg = s.cfg]
  BY DEF applied
<1> QED BY <1>1 DEF Provisioned

LEMMA ConfiguringStep == ASSUME Typed, Configuring, Next PROVE Configuring'
<1>1. kind' = kind
  BY HistoryTyped
<1>2. Targets' = Targets
  BY <1>1 DEF Targets
<1> SUFFICES ASSUME wf' # Idle, ~wf'.bad, NEW l \in Marks, NEW r \in Marks, NEW p \in Marks,
                    NEW g \in Marks, NEW a \in Marks,
                    Provisions(ProgramOf(kind, wf'.op), l, r, p, g, a)
             PROVE  /\ wf'.pc = p => \A n \in Targets \ wf'.todo : node'[n].cfg = wf'.snap.cfg
                    /\ wf'.pc > p => \A n \in Targets : node'[n].cfg = wf'.snap.cfg
  BY <1>1, <1>2 DEF Configuring
<1>3. CASE Started
  <2>1. wf'.pc = 1 /\ wf'.todo = Targets
    BY <1>3 DEF Started
  <2> QED BY <2>1 DEF Marks
<1>4. CASE wf # Idle /\ Progressed
  <2> DEFINE P == ProgramOf(kind, wf.op)
  <2>1. wf'.op = wf.op
    BY <1>4, SameProgram
  <2>2. /\ Provisions(P, l, r, p, g, a) /\ Guarded(P, l, p, g) /\ P[p].arg = "put"
        /\ Len(P) = l /\ r < p
    BY <2>1 DEF Provisions
  <2>3. /\ wf.pc \in 1..l /\ wf.todo \subseteq Targets /\ Targets \subseteq Nodes
        /\ wf.snap \in Provisioned
    BY <1>4, <2>2, Working, TargetsAreNodes DEF Workflows
  <2>4. Step1 = P[wf.pc]
    BY <1>4, Step1Is
  <2>5. ~wf.bad =>
           /\ wf.pc = p => \A n \in Targets \ wf.todo : node[n].cfg = wf.snap.cfg
           /\ wf.pc > p => \A n \in Targets : node[n].cfg = wf.snap.cfg
    BY <1>4, <2>2 DEF Configuring
  <2>6. p \in 1..l /\ g \in p..l /\ (P[p].err = "note" \/ P[p].err = "fail")
        /\ P[p].do \in NodeSteps
    BY <2>2 DEF Guarded, NodeSteps
  <2>7. wf.pc >= p => wf'.snap = wf.snap
    <3>1. P[wf.pc].do = "read" => wf.pc = r
      BY <2>2, <2>3 DEF Provisions
    <3>2. wf.pc >= p => ~Looked
      BY <2>2, <2>3, <2>4, <3>1 DEF Looked, Marks
    <3> QED BY <1>4, <3>2, SnapStep
  <2>8. wf.pc # p => Step1.do \notin NodeSteps
    BY <2>2, <2>3, <2>4 DEF Guarded
  <2> HIDE DEF P
  <2>9. node \in [Nodes -> Provisioned]
    BY DEF Typed, TypeOK
  <2>10. \A m \in Nodes :
           node'[m] = node[m] \/ (wf.pc = p /\ m \in wf.todo /\ node'[m].cfg = wf.snap.cfg)
    BY <1>4, <2>2, <2>3, <2>4, <2>8, <2>9, NodeChange, PutVersion
  <2>11. ~wf.bad
    BY <1>4, FlagStep
  <2>12. CASE wf'.pc = wf.pc
    <3>1. PICK n \in wf.todo : wf'.todo = wf.todo \ {n} /\ (NodeDone(n) \/ NodeFailed(n))
      BY <1>4, <2>3, <2>12, SameProgram DEF Marks
    <3>2. NodeDone(n)
      BY <3>1 DEF NodeFailed, Remains
    <3>3. wf.pc = p
      BY <2>8, <3>2 DEF NodeDone
    <3>4. node'[n].cfg = wf.snap.cfg
      BY <2>2, <2>3, <2>4, <2>9, <3>2, <3>3, PutVersion DEF NodeDone, Changed
    <3>5. wf'.snap = wf.snap
      BY <2>7, <3>3 DEF Marks
    <3> QED BY <2>3, <2>5, <2>10, <2>11, <2>12, <3>1, <3>3, <3>4, <3>5 DEF Marks
  <2>13. CASE wf'.pc = wf.pc + 1 /\ wf'.todo = Targets
    <3>1. CASE wf.pc = p
      <4>1. Step1.do \in NodeSteps /\ Step1.err \in {"note", "fail"}
        BY <2>4, <2>6, <3>1
      <4>2. ~Broke
        <5>1. ASSUME Broke PROVE FALSE
          <6>1. Step1.err = "note" /\ wf'.bad = (wf.bad \/ Step1.err = "note")
            BY <4>1, <5>1 DEF Broke, Fails, Onward
          <6> QED BY <6>1
        <5> QED BY <5>1
      <4>3. ~Wrote /\ ~Looked /\ ~Passed /\ ~Faulted
        BY <4>1 DEF Wrote, Looked, Passed, Faulted, NodeSteps
      <4>4. PICK n \in Nodes : NodeDone(n)
        BY <1>4, <4>2, <4>3 DEF Progressed, NodeFailed, Remains
      <4>5. wf.todo = {n}
        BY <2>3, <2>13, <4>4 DEF NodeDone, Remains, Marks
      <4>6. node'[n].cfg = wf.snap.cfg
        BY <2>2, <2>3, <2>4, <2>9, <3>1, <4>4, PutVersion DEF NodeDone, Changed
      <4>7. wf'.snap = wf.snap
        BY <2>7, <3>1 DEF Marks
      <4>8. \A m \in Targets : node'[m].cfg = wf'.snap.cfg
        BY <2>3, <2>5, <2>10, <2>11, <3>1, <4>5, <4>6, <4>7
      <4> QED BY <2>13, <3>1, <4>8 DEF Marks
    <3>2. CASE wf.pc > p
      <4>1. wf'.snap = wf.snap
        BY <2>3, <2>7, <3>2 DEF Marks
      <4>2. \A m \in Targets : node'[m].cfg = wf'.snap.cfg
        BY <2>3, <2>5, <2>10, <2>11, <3>2, <4>1 DEF Marks
      <4> QED BY <2>13, <4>2
    <3>3. CASE wf.pc < p
      BY <2>3, <2>6, <2>13, <3>3 DEF Marks
    <3> QED BY <2>3, <2>6, <3>1, <3>2, <3>3 DEF Marks
  <2> QED BY <1>4, <2>12, <2>13, SameProgram
<1>5. CASE wf' = wf /\ node' = node
  BY <1>5 DEF Configuring
<1>6. Worker => Started \/ (wf # Idle /\ Progressed)
  BY WorkerCases DEF Progressed
<1>7. ChildrenGone \/ (\E c \in Callers : Request(c)) => wf' = wf /\ node' = node
  BY RequestCases DEF ChildrenGone
<1> QED BY <1>3, <1>4, <1>5, <1>6, <1>7 DEF Next

LEMMA AbsentStatus == Absent.status = "absent"
  BY DEF Absent

\* A workflow that provisions keeps a row from being active until its nodes
\* have the version of the row, provided that the snapshot is current.
LEMMA ProvisionsStep ==
    ASSUME Typed, ErrorsStop, Configuring, wf # Idle, Progressed, faults = 0, faults' = 0,
           NEW l \in Marks, NEW r \in Marks, NEW p \in Marks, NEW g \in Marks, NEW a \in Marks,
           Provisions(ProgramOf(kind, wf.op), l, r, p, g, a),
           wf.pc > 1 /\ wf.pc <= a => row.status # "active",
           wf.pc > r /\ row # Absent => wf.snap.cfg = row.cfg,
           row.status = "active" => Fresh \/ wf.pc = 1
    PROVE  /\ row'.status = "active" => \A n \in Targets : node'[n].cfg = row'.cfg
           /\ wf' # Idle =>
                /\ wf'.pc > 1 /\ wf'.pc <= a => row'.status # "active"
                /\ wf'.pc > r /\ row' # Absent => wf'.snap.cfg = row'.cfg
<1> DEFINE P == ProgramOf(kind, wf.op)
<1>1. /\ Len(P) = l /\ Guarded(P, l, p, g) /\ g < a /\ r < p /\ r \in 2..l /\ a \in 1..l
      /\ P[1].do = "status" /\ P[1].arg = "provisioning"
      /\ P[r].do = "read" /\ P[r].err = "fail"
      /\ P[a].do = "status" /\ P[a].arg = "active"
  BY DEF Provisions
<1>2. wf.pc \in 1..l /\ Targets \subseteq Nodes
  BY <1>1, Working, TargetsAreNodes
<1>3. p \in 1..l /\ g \in p..l
  BY <1>1 DEF Guarded
<1>4. Step1 = P[wf.pc]
  BY Step1Is
<1>5. /\ Step1.do = "status" => wf.pc \in {1, a}
      /\ Step1.do = "read" => wf.pc = r
      /\ Step1.arg # "deleted"
      /\ wf.pc # p => Step1.do \notin NodeSteps
  BY <1>1, <1>2, <1>4 DEF Provisions, Guarded
<1>6. wf.pc > g => ~wf.bad
  BY <1>1 DEF ErrorsStop
<1>7. ~wf.bad => (wf.pc > p => \A n \in Targets : node[n].cfg = wf.snap.cfg)
  BY DEF Configuring
<1> HIDE DEF P
<1>8. ~Faulted
  BY DEF Faulted
<1>9. wf' # Idle => wf'.pc = wf.pc \/ wf'.pc = wf.pc + 1
  BY SameProgram
<1>10. wf' # Idle /\ Wrote => wf'.pc = wf.pc + 1
  BY DEF Wrote, Onward
<1>11. CASE wf.pc = 1
  <2>1. Step1.do = "status" /\ Step1.arg = "provisioning"
    BY <1>1, <1>4, <1>11
  <2>2. Wrote
    BY <1>8, <2>1 DEF Progressed, Looked, Passed, Broke, NodeDone, NodeFailed, NodeSteps
  <2>3. row' = Absent \/ row'.status = "provisioning"
    <3>1. row' = updatedRow("provisioning") /\ row \in Rows
      BY <2>1, <2>2 DEF Wrote, Typed, TypeOK
    <3>2. CASE row = Absent
      BY <3>1, <3>2 DEF updatedRow
    <3>3. CASE row # Absent
      <4>1. row \in [status : Statuses, cfg : Versions, on : BOOLEAN]
        BY <3>1, <3>3 DEF Rows
      <4>2. [row EXCEPT !.status = "provisioning"].status = "provisioning"
        BY <4>1
      <4> QED BY <3>1, <3>3, <4>2 DEF updatedRow
    <3> QED BY <3>2, <3>3
  <2>4. row'.status # "active"
    BY <2>3, AbsentStatus
  <2>5. wf' # Idle => wf'.pc = 2
    BY <1>10, <1>11, <2>2
  <2>6. wf' # Idle => ~(wf'.pc > r)
    BY <1>1, <2>5 DEF Marks
  <2> QED BY <2>4, <2>6
<1>12. CASE wf.pc > 1
  <2>1. row'.status = "active" => \A n \in Targets : node'[n].cfg = row'.cfg
    <3> SUFFICES ASSUME row'.status = "active" PROVE \A n \in Targets : node'[n].cfg = row'.cfg
      OBVIOUS
    <3>1. row' # Absent
      BY AbsentStatus
    <3>2. CASE Wrote
      <4>1. wf.pc = a /\ node' = node
        BY <1>5, <1>12, <3>2 DEF Wrote, Marks
      <4>2. row # Absent
        BY <3>1, RowGoes
      <4>3. wf.pc > g /\ wf.pc > p /\ wf.pc > r
        BY <1>1, <1>3, <4>1 DEF Marks
      <4>4. row'.cfg = row.cfg
        BY <3>1, RowStep
      <4> QED BY <1>6, <1>7, <4>1, <4>2, <4>3, <4>4
    <3>3. CASE ~Wrote
      <4>1. row' = row
        BY <3>1, <3>3, RowStep
      <4>2. wf.pc > a /\ Fresh
        BY <1>1, <1>2, <1>12, <4>1 DEF Marks
      <4>3. Step1.do \notin NodeSteps
        BY <1>1, <1>2, <1>3, <1>5, <4>2 DEF Marks
      <4>4. \A n \in Targets : node'[n] = node[n]
        BY <1>2, <4>3, NodeChange
      <4> QED BY <4>1, <4>2, <4>4 DEF Fresh
    <3> QED BY <3>2, <3>3
  <2>2. ASSUME wf' # Idle, wf'.pc > 1, wf'.pc <= a PROVE row'.status # "active"
    <3>1. wf.pc <= a
      BY <1>1, <1>2, <1>9, <2>2 DEF Marks
    <3>2. row.status # "active"
      BY <1>12, <3>1
    <3>3. ~Wrote
      BY <1>1, <1>2, <1>5, <1>10, <1>12, <2>2 DEF Wrote, Marks
    <3> QED BY <3>2, <3>3, RowStep
  <2>3. ASSUME wf' # Idle, wf'.pc > r, row' # Absent PROVE wf'.snap.cfg = row'.cfg
    <3>1. row # Absent /\ row'.cfg = row.cfg
      BY <2>3, RowGoes, RowStep
    <3>2. CASE wf.pc > r
      <4>1. ~Looked
        BY <1>1, <1>2, <1>5, <3>2 DEF Looked, Marks
      <4> QED BY <2>3, <3>1, <3>2, <4>1, SnapStep
    <3>3. CASE wf.pc = r
      <4>1. Step1.do = "read" /\ Step1.err = "fail"
        BY <1>1, <1>4, <3>3
      <4>2. Looked
        BY <1>8, <2>3, <4>1 DEF Progressed, Wrote, Passed, Broke, Fails, NodeDone, NodeFailed,
           NodeSteps
      <4>3. wf'.snap = [cfg |-> row.cfg, on |-> row.on]
        BY <2>3, <4>2 DEF Looked, Onward
      <4> QED BY <3>1, <4>3
    <3>4. CASE wf.pc < r
      BY <1>1, <1>2, <1>9, <2>3, <3>4 DEF Marks
    <3> QED BY <1>1, <1>2, <3>2, <3>3, <3>4 DEF Marks
  <2> QED BY <2>1, <2>2, <2>3
<1> QED BY <1>2, <1>11, <1>12 DEF Marks

\* A workflow that withdraws leaves the row in no service.
LEMMA WithdrawsStep ==
    ASSUME Typed, wf # Idle, Progressed, faults = 0, faults' = 0,
           NEW l \in Marks, Withdraws(ProgramOf(kind, wf.op), l),
           wf.pc > 1 => row.status # "active"
    PROVE  row'.status # "active"
<1> DEFINE P == ProgramOf(kind, wf.op)
<1>1. /\ Len(P) = l /\ P[1].do = "status" /\ P[1].arg = "deleting"
      /\ \A i \in 2..l : P[i].do = "status" => P[i].arg = "deleted"
  BY DEF Withdraws
<1>2. wf.pc \in 1..l /\ Step1 = P[wf.pc]
  BY <1>1, Working, Step1Is
<1> HIDE DEF P
<1>3. Step1.do = "status" => Step1.arg \in {"deleting", "deleted"}
  BY <1>1, <1>2 DEF Marks
<1>4. CASE Wrote
  <2>1. Step1.arg # "active"
    BY <1>3, <1>4 DEF Wrote
  <2>2. row' = updatedRow(Step1.arg) /\ row \in Rows
    BY <1>4 DEF Wrote, Typed, TypeOK
  <2>3. CASE row = Absent \/ Step1.arg = "deleted"
    BY <2>2, <2>3, AbsentStatus DEF updatedRow
  <2>4. CASE ~(row = Absent \/ Step1.arg = "deleted")
    <3>1. row \in [status : Statuses, cfg : Versions, on : BOOLEAN]
      BY <2>2, <2>4 DEF Rows
    <3>2. [row EXCEPT !.status = Step1.arg].status = Step1.arg
      BY <3>1
    <3> QED BY <2>1, <2>2, <2>4, <3>2 DEF updatedRow
  <2> QED BY <2>3, <2>4
<1>5. CASE ~Wrote
  <2>1. wf.pc # 1
    <3>1. SUFFICES ASSUME wf.pc = 1 PROVE FALSE
      OBVIOUS
    <3>2. Step1.do = "status" /\ Step1.arg = "deleting"
      BY <1>1, <1>2, <3>1
    <3> QED BY <1>5, <3>2 DEF Progressed, Looked, Passed, Broke, Faulted, NodeDone, NodeFailed,
               NodeSteps
  <2>2. row.status # "active"
    BY <1>2, <2>1 DEF Marks
  <2> QED BY <1>5, <2>2, RowStep
<1> QED BY <1>4, <1>5

\* Two shapes that do not go together.
LEMMA OneShape ==
    ASSUME NEW P, NEW k, NEW l, NEW r, NEW p, NEW g, NEW a,
           Withdraws(P, k), Provisions(P, l, r, p, g, a)
    PROVE  FALSE
  BY DEF Withdraws, Provisions

LEMMA UpdatedStep ==
    ASSUME Typed, ErrorsStop, Configuring, UpdatedInv, Next PROVE UpdatedInv'
<1>1. kind' = kind /\ kind \in Kind
  BY HistoryTyped, KindIsKnown
<1>2. Targets' = Targets
  BY <1>1 DEF Targets
<1>3. faults \in Nat
  BY LifecycleAssumption DEF Typed, TypeOK
<1> SUFFICES ASSUME kind \in Updated, faults' = 0, ~Pending'
             PROVE  /\ row'.status = "active" => Fresh' \/ (wf' # Idle /\ wf'.pc = 1)
                    /\ wf' # Idle =>
                         \A l \in Marks :
                           /\ Withdraws(ProgramOf(kind, wf'.op), l) /\ wf'.pc > 1 =>
                                row'.status # "active"
                           /\ \A r, p, g, a \in Marks :
                                Provisions(ProgramOf(kind, wf'.op), l, r, p, g, a) =>
                                  /\ wf'.pc > 1 /\ wf'.pc <= a => row'.status # "active"
                                  /\ wf'.pc > r /\ row' # Absent => wf'.snap.cfg = row'.cfg
  BY <1>1 DEF UpdatedInv
<1>4. CASE Started
  <2>1. wf' # Idle /\ wf'.pc = 1
    BY <1>4 DEF Started
  <2>2. ASSUME NEW l \in Marks, NEW r \in Marks, NEW p \in Marks, NEW g \in Marks,
               NEW a \in Marks, Provisions(ProgramOf(kind, wf'.op), l, r, p, g, a)
        PROVE  ~(wf'.pc > r)
    <3>1. r \in 2..l
      BY <2>2 DEF Provisions
    <3> QED BY <2>1, <3>1 DEF Marks
  <2> QED BY <2>1, <2>2
<1>5. CASE wf # Idle /\ Progressed /\ queue' = queue /\ caller' = caller
  <2> DEFINE P == ProgramOf(kind, wf.op)
  <2>1. faults = 0
    <3>1. faults' = faults \/ faults' = faults + 1
      BY <1>5 DEF Progressed, Wrote, Looked, Passed, Broke, Fails, Faulted, NodeDone, NodeFailed
    <3> QED BY <1>3, <3>1
  <2>2. ~Pending
    BY <1>5 DEF Pending
  <2>3. Shaped(kind, wf.op)
    BY <1>5, Working, Programs
  <2>4. wf' # Idle => ProgramOf(kind, wf'.op) = P
    BY <1>5, SameProgram
  <2>5. CASE \E l : Withdraws(P, l)
    <3>1. PICK l : Withdraws(P, l)
      BY <2>5
    <3>2. l \in Marks
      BY <3>1, WithdrawsMarks
    <3>3. wf.pc > 1 => row.status # "active"
      BY <1>5, <2>1, <2>2, <3>1, <3>2 DEF UpdatedInv
    <3>4. row'.status # "active"
      BY <1>5, <2>1, <3>1, <3>2, <3>3, WithdrawsStep
    <3>5. \A k, r, p, g, a : ~Provisions(P, k, r, p, g, a)
      BY <3>1, OneShape
    <3> QED BY <2>4, <3>4, <3>5
  <2>6. CASE \E l, r, p, g, a : Provisions(P, l, r, p, g, a)
    <3>1. PICK l0, r0, p0, g0, a0 : Provisions(P, l0, r0, p0, g0, a0)
      BY <2>6
    <3>2. \A l : ~Withdraws(P, l)
      BY <3>1, OneShape
    <3>3. ASSUME NEW l \in Marks, NEW r \in Marks, NEW p \in Marks, NEW g \in Marks,
                 NEW a \in Marks, Provisions(P, l, r, p, g, a)
          PROVE  /\ row'.status = "active" => \A n \in Targets : node'[n].cfg = row'.cfg
                 /\ wf' # Idle =>
                      /\ wf'.pc > 1 /\ wf'.pc <= a => row'.status # "active"
                      /\ wf'.pc > r /\ row' # Absent => wf'.snap.cfg = row'.cfg
      <4>1. /\ wf.pc > 1 /\ wf.pc <= a => row.status # "active"
            /\ wf.pc > r /\ row # Absent => wf.snap.cfg = row.cfg
            /\ row.status = "active" => Fresh \/ wf.pc = 1
        BY <1>5, <2>1, <2>2, <3>3 DEF UpdatedInv
      <4> QED BY <1>5, <2>1, <3>3, <4>1, ProvisionsStep
    <3>4. /\ l0 \in Marks /\ r0 \in Marks /\ p0 \in Marks /\ g0 \in Marks /\ a0 \in Marks
      BY <3>1, ProvisionsMarks
    <3>5. row'.status = "active" => Fresh'
      BY <1>2, <3>1, <3>3, <3>4 DEF Fresh
    <3> QED BY <2>4, <3>2, <3>3, <3>5
  <2> QED BY <2>3, <2>5, <2>6 DEF Shaped
<1>6. ASSUME NEW c \in Callers, Request(c)
      PROVE  \/ row' = Absent
             \/ /\ row' = row /\ faults = 0 /\ ~Pending
  <2>1. /\ ReadBy(c) \/ WrittenBy(c) \/ SignalledBy(c) \/ LostBy(c)
        /\ \A d \in Callers \ {c} : caller'[d] = caller[d]
        /\ row' = Absent <=> row = Absent
    BY <1>6, RequestCases
  <2>2. CASE ReadBy(c)
    <3>1. ~Pending
      BY <2>1, <2>2 DEF ReadBy, Pending
    <3> QED BY <2>2, <3>1 DEF ReadBy
  <2>3. ~WrittenBy(c)
    <3>1. \A o \in DOMAIN Ops : Ops[o].run # <<>>
      BY <1>1, Shapes DEF Catalogued, Ops
    <3> QED BY <3>1 DEF WrittenBy, Pending
  <2>4. CASE SignalledBy(c)
    <3>1. CASE row = Absent
      BY <2>1, <3>1
    <3>2. CASE row # Absent
      <4>1. PICK S : queue \in Seq(S)
        BY DEF Typed, TypeOK
      <4>2. PICK t : t = [op |-> caller[c].op, cfg |-> caller[c].cfg]
        OBVIOUS
      <4>3. queue' = Append(queue, t)
        BY <2>4, <3>2, <4>2 DEF SignalledBy
      <4>4. queue' # <<>>
        BY <4>1, <4>3
      <4> QED BY <4>4 DEF Pending
    <3> QED BY <3>1, <3>2
  <2>5. ~LostBy(c)
    BY <1>3 DEF LostBy
  <2> QED BY <2>1, <2>2, <2>3, <2>4, <2>5
<1>7. CASE (ChildrenGone \/ \E c \in Callers : Request(c)) /\ row' # Absent
  <2>1. row' = row /\ faults = 0 /\ ~Pending
    BY <1>6, <1>7 DEF ChildrenGone, Pending
  <2>2. wf' = wf /\ node' = node
    BY <1>7, RequestCases DEF ChildrenGone
  <2> QED BY <1>2, <2>1, <2>2 DEF UpdatedInv, Fresh
<1>8. CASE row' = Absent
  BY <1>8, AbsentStatus
<1>9. Worker => Started \/ (wf # Idle /\ Progressed /\ queue' = queue /\ caller' = caller)
  BY WorkerCases DEF Progressed
<1> QED BY <1>4, <1>5, <1>7, <1>8, <1>9 DEF Next

(***************************************************************************)
(* Backups and SSH keys.                                                   *)
(***************************************************************************)
LEMMA AppliedVersion ==
    ASSUME NEW change \in Changes, NEW s \in Provisioned, NEW x \in Provisioned,
           s.cfg = 1, x.cfg \in {0, 1}
    PROVE  applied(change, s, x).cfg \in {0, 1}
<1>1. CASE change \in {"put", "putIfPresent", "putAndStart"}
  BY <1>1 DEF applied, Provisioned
<1>2. CASE change = "drop"
  BY <1>2 DEF applied, Nothing
<1>3. CASE change \in {"start", "stop"}
  BY <1>3 DEF applied, Provisioned
<1>4. CASE change \in {"startOrStop", "startIfEnabled"}
  BY <1>4 DEF applied, Provisioned
<1>5. CASE change = "use"
  BY <1>5 DEF applied
<1> QED BY <1>1, <1>2, <1>3, <1>4, <1>5 DEF Changes

\* A request does not change the version of a backup or a key, and does not
\* make it active.
LEMMA StillWritten ==
    ASSUME Typed, kind \in Still, OneVersion, NEW c \in Callers, WrittenBy(c)
    PROVE  /\ row' # Absent => row'.cfg = 1
           /\ row'.status = "active" => row.status = "active" /\ row'.cfg = row.cfg
           /\ caller'[c].pc = "written" => caller'[c].cfg = 1
           /\ caller'[c].pc # "read"
<1>1. kind \in Kind /\ row \in Rows
  BY RequestTypes
<1>2. PICK o \in DOMAIN Ops, saw \in Rows, cfg \in Versions :
         /\ \/ caller[c].pc = "read" /\ saw = caller[c].saw /\ saw # Absent /\ Ops[o].reads
            \/ ~Ops[o].reads /\ saw = Absent /\ row # Absent
         /\ row' = rowWritten(o, saw, cfg)
         /\ \/ Ops[o].run = <<>> /\ caller'[c] = NoCall
            \/ /\ Ops[o].run # <<>> /\ caller'[c].pc = "written"
               /\ caller'[c].op = o /\ caller'[c].cfg = carried(o, saw, cfg)
  BY DEF WrittenBy
<1>3. ~Ops[o].cfg /\ Ops[o].writes \notin {"active", "stale"}
  BY <1>1, Shapes DEF Catalogued, Fits, Ops
<1>4. carried(o, saw, cfg) = 1
  BY <1>2, <1>3 DEF carried, OneVersion
<1>5. NoCall.pc = "idle"
  BY DEF NoCall
<1>6. row # Absent =>
        /\ row'.cfg = row.cfg
        /\ row'.status = IF Ops[o].writes = "keep" THEN row.status ELSE Ops[o].writes
  BY <1>2, <1>3 DEF rowWritten
<1>7. row = Absent => row' = row
  BY <1>2 DEF rowWritten
<1> QED BY <1>2, <1>3, <1>4, <1>5, <1>6, <1>7, AbsentStatus DEF OneVersion

LEMMA OneVersionStep ==
    ASSUME Typed, kind \in Still, OneVersion, Next PROVE OneVersion'
<1>1. PICK S : S = [op : OpNames, cfg : Versions] /\ queue \in Seq(S)
  BY DEF Typed, TypeOK
<1>2. node \in [Nodes -> Provisioned] /\ caller \in [Callers -> Requests]
  BY DEF Typed, TypeOK, Requests
<1>3. CASE Started /\ caller' = caller
  <2>1. queue # <<>> /\ queue' = Tail(queue) /\ wf'.snap.cfg = queue[1].cfg
        /\ row' = row /\ node' = node
    BY <1>3 DEF Started
  <2>2. 1 \in DOMAIN queue /\ \A i \in DOMAIN queue' : queue'[i] = queue[i + 1] /\ i + 1 \in DOMAIN queue
    BY <1>1, <2>1
  <2> QED BY <1>3, <2>1, <2>2 DEF OneVersion
<1>4. CASE wf # Idle /\ Progressed /\ queue' = queue /\ caller' = caller
  <2>1. row' # Absent => row'.cfg = 1
    BY <1>4, RowGoes, RowStep DEF OneVersion
  <2>2. wf' # Idle => wf'.snap.cfg = 1
    BY <1>4, SnapStep DEF OneVersion, Looked
  <2>3. ASSUME NEW m \in Nodes PROVE node'[m].cfg \in {0, 1}
    <3>1. node[m].cfg \in {0, 1} /\ node[m] \in Provisioned
      BY <1>2 DEF OneVersion
    <3>2. wf.snap.cfg = 1 /\ wf.snap \in Provisioned
      BY <1>4, Working DEF OneVersion, Workflows
    <3>3. Step1.do \in NodeSteps => Step1.arg \in Changes
      BY <1>4, StepArgs
    <3> QED BY <1>4, <3>1, <3>2, <3>3, NodeChange, AppliedVersion
  <2> QED BY <1>4, <2>1, <2>2, <2>3 DEF OneVersion
<1>5. ASSUME NEW c \in Callers, Request(c) PROVE OneVersion'
  <2>1. /\ ReadBy(c) \/ WrittenBy(c) \/ SignalledBy(c) \/ LostBy(c)
        /\ \A d \in Callers \ {c} : caller'[d] = caller[d]
        /\ wf' = wf /\ node' = node
    BY <1>5, RequestCases
  <2>2. NoCall.pc = "idle"
    BY DEF NoCall
  <2>3. CASE ReadBy(c)
    BY <2>1, <2>3 DEF ReadBy, OneVersion
  <2>4. CASE WrittenBy(c)
    <3>1. queue' = queue
      BY <2>4 DEF WrittenBy
    <3> QED BY <2>1, <2>4, <3>1, StillWritten DEF OneVersion
  <2>5. CASE SignalledBy(c)
    <3>1. PICK t : t = [op |-> caller[c].op, cfg |-> caller[c].cfg]
      OBVIOUS
    <3>2. t.cfg = 1 /\ t \in S
      <4>1. PICK q \in Requests : q = caller[c]
        BY <1>2
      <4>2. q.cfg = 1
        BY <2>5, <4>1 DEF SignalledBy, OneVersion
      <4> QED BY <1>1, <3>1, <4>1, <4>2 DEF Requests
    <3>3. queue' = queue \/ queue' = Append(queue, t)
      BY <2>5, <3>1 DEF SignalledBy
    <3>4. \A i \in DOMAIN queue' : queue'[i] = t \/ (i \in DOMAIN queue /\ queue'[i] = queue[i])
      BY <1>1, <3>2, <3>3
    <3> QED BY <2>1, <2>2, <2>5, <3>2, <3>4 DEF SignalledBy, OneVersion
  <2>6. CASE LostBy(c)
    BY <2>1, <2>2, <2>6 DEF LostBy, OneVersion
  <2> QED BY <2>1, <2>3, <2>4, <2>5, <2>6
<1>6. CASE ChildrenGone
  BY <1>6 DEF ChildrenGone, OneVersion
<1>7. Worker => (Started /\ caller' = caller)
                \/ (wf # Idle /\ Progressed /\ queue' = queue /\ caller' = caller)
  BY WorkerCases DEF Progressed
<1> QED BY <1>3, <1>4, <1>5, <1>6, <1>7 DEF Next

\* The deletion of a backup: the archive goes, then the row.
LEMMA BackupDeleteStep ==
    ASSUME Typed, kind = "backup", wf # Idle, wf.op = "delete", Progressed, ~children,
           faults = 0, faults' = 0,
           row.status = "active" => Fresh \/ wf.pc >= 2
    PROVE  row'.status = "active" =>
             (\A n \in Targets : node'[n].cfg = row'.cfg) \/ (wf' # Idle /\ wf'.pc >= 2)
<1> DEFINE P == ProgramOf(kind, wf.op)
<1> SUFFICES ASSUME row'.status = "active"
             PROVE  (\A n \in Targets : node'[n].cfg = row'.cfg) \/ (wf' # Idle /\ wf'.pc >= 2)
  OBVIOUS
<1>1. /\ Len(P) = 3 /\ Is(P[1], "read", "none", "fail")
      /\ Is(P[2], "nodes", "drop", "fail") /\ Is(P[3], "status", "deleted", "return")
  BY BackupPrograms
<1>2. wf.pc \in 1..3 /\ Step1 = P[wf.pc] /\ Targets \subseteq Nodes
  BY <1>1, Working, Step1Is, TargetsAreNodes
<1>3. ~Faulted /\ row' # Absent
  BY AbsentStatus DEF Faulted
<1> HIDE DEF P
<1>4. CASE wf.pc = 1
  <2>1. Step1.do = "read"
    BY <1>1, <1>2, <1>4 DEF Is
  <2>2. row' = row
    BY <1>3, <2>1, RowStep DEF Wrote
  <2>3. \A n \in Targets : node'[n] = node[n]
    BY <1>2, <2>1, NodeChange DEF NodeSteps
  <2>4. Fresh
    BY <1>4, <2>2
  <2> QED BY <2>2, <2>3, <2>4 DEF Fresh
<1>5. CASE wf.pc = 2
  <2>1. Step1.do = "nodes" /\ Step1.err = "fail"
    BY <1>1, <1>2, <1>5 DEF Is
  <2>2. ~Wrote /\ ~Looked /\ ~Passed /\ ~(\E n \in Nodes : NodeFailed(n))
    BY <2>1 DEF Wrote, Looked, Passed, NodeFailed
  <2>3. ~Broke
    <3>1. SUFFICES ASSUME Broke PROVE FALSE
      OBVIOUS
    <3>2. row' = setResourceFailed(row)
      BY <2>1, <3>1 DEF Broke, Fails
    <3>3. row # Absent
      BY <1>3, <3>2 DEF setResourceFailed
    <3>4. row \in [status : Statuses, cfg : Versions, on : BOOLEAN]
      BY <3>3 DEF Typed, TypeOK, Rows
    <3>5. row' = [row EXCEPT !.status = "failed"]
      BY <3>2, <3>3 DEF setResourceFailed
    <3>6. row'.status = "failed"
      BY <3>4, <3>5
    <3> QED BY <3>6
  <2>4. PICK n \in Nodes : NodeDone(n)
    BY <1>3, <2>2, <2>3 DEF Progressed
  <2>5. wf' # Idle
    BY <1>1, <1>5, <2>4 DEF NodeDone, Onward, Remains, P
  <2>6. wf'.pc = 2 \/ wf'.pc = 3
    BY <1>5, <2>4, <2>5 DEF NodeDone, Onward, Remains
  <2> QED BY <2>5, <2>6
<1>6. CASE wf.pc = 3
  <2>1. Step1.do = "status" /\ Step1.arg = "deleted"
    BY <1>1, <1>2, <1>6 DEF Is
  <2>2. Wrote
    BY <1>3, <2>1 DEF Progressed, Looked, Passed, Broke, NodeDone, NodeFailed, NodeSteps
  <2>3. row' = Absent
    BY <2>1, <2>2 DEF Wrote, updatedRow
  <2> QED BY <1>3, <2>3
<1> QED BY <1>2, <1>4, <1>5, <1>6

LEMMA UseKeeps == ASSUME NEW s, NEW x PROVE applied("use", s, x) = x
  BY DEF applied

\* The restoration of a backup: the archive is used, and stays.
LEMMA BackupRestoreStep ==
    ASSUME Typed, kind = "backup", wf # Idle, wf.op = "restore", Progressed, OneVersion,
           faults = 0, faults' = 0,
           row.status = "active" => Fresh,
           wf.pc >= 5 => \A n \in Targets : node[n].cfg # 0
    PROVE  /\ row'.status = "active" => \A n \in Targets : node'[n].cfg = row'.cfg
           /\ wf' # Idle /\ wf'.pc >= 5 => \A n \in Targets : node'[n].cfg # 0
<1> DEFINE P == ProgramOf(kind, wf.op)
<1>1. /\ Len(P) = 5 /\ Is(P[1], "read", "none", "return")
      /\ Is(P[2], "status", "provisioning", "return") /\ Is(P[3], "side", "none", "fail")
      /\ Is(P[4], "nodes", "use", "fail") /\ Is(P[5], "status", "active", "return")
  BY BackupPrograms
<1>2. wf.pc \in 1..5 /\ Step1 = P[wf.pc] /\ wf.todo \subseteq Targets
  BY <1>1, Working, Step1Is
<1>3. Targets = {Primary} /\ Primary \in Nodes
  BY BackupPrograms, LifecycleAssumption DEF Targets
<1> HIDE DEF P
<1>4. \A n \in Targets : node'[n] = node[n]
  <2>1. Step1.do \in NodeSteps => Step1.arg = "use"
    BY <1>1, <1>2 DEF Is, NodeSteps
  <2> QED BY <1>3, <2>1, NodeChange, UseKeeps
<1>5. ASSUME row'.status = "active" PROVE \A n \in Targets : node'[n].cfg = row'.cfg
  <2>1. row' # Absent
    BY <1>5, AbsentStatus
  <2>2. CASE Wrote
    <3>1. Step1.do = "status" /\ Step1.arg # "deleted"
      BY <1>1, <1>2, <2>2 DEF Wrote, Is
    <3>2. row # Absent /\ row'.cfg = 1
      BY <2>1, <3>1, RowGoes, RowStep DEF OneVersion
    <3>3. row' = updatedRow(Step1.arg)
      BY <2>2 DEF Wrote
    <3>4. row' = [row EXCEPT !.status = Step1.arg]
      BY <3>1, <3>2, <3>3 DEF updatedRow
    <3>5. row \in [status : Statuses, cfg : Versions, on : BOOLEAN]
      BY <3>2 DEF Typed, TypeOK, Rows
    <3>6. Step1.arg = "active"
      BY <1>5, <3>4, <3>5
    <3>7. wf.pc = 5
      BY <1>1, <1>2, <3>1, <3>6 DEF Is
    <3>8. \A n \in Targets : node[n].cfg = 1
      BY <1>3, <3>7 DEF OneVersion
    <3> QED BY <1>4, <3>2, <3>8
  <2>3. CASE ~Wrote
    <3>1. row' = row
      BY <1>5, <2>1, <2>3, RowStep
    <3> QED BY <1>4, <1>5, <3>1 DEF Fresh
  <2> QED BY <2>2, <2>3
<1>6. ASSUME wf' # Idle, wf'.pc >= 5 PROVE \A n \in Targets : node'[n].cfg # 0
  <2>1. CASE wf.pc >= 5
    BY <1>4, <2>1
  <2>2. CASE wf.pc = 4
    <3>1. Step1.do = "nodes" /\ Step1.arg = "use" /\ Step1.err = "fail"
      BY <1>1, <1>2, <2>2 DEF Is
    <3>2. ~Wrote /\ ~Looked /\ ~Passed /\ ~Faulted /\ ~Broke /\ ~(\E n \in Nodes : NodeFailed(n))
      BY <1>6, <3>1 DEF Wrote, Looked, Passed, Faulted, Broke, Fails, NodeFailed
    <3>3. PICK n \in Nodes : NodeDone(n)
      BY <3>2 DEF Progressed
    <3>4. n = Primary /\ node[n].cfg # 0
      BY <1>2, <1>3, <3>1, <3>3 DEF NodeDone
    <3> QED BY <1>3, <1>4, <3>4
  <2>3. CASE wf.pc < 4
    BY <1>2, <1>6, <2>3, SameProgram
  <2> QED BY <1>2, <2>1, <2>2, <2>3
<1> QED BY <1>5, <1>6

\* The removal of an SSH key: the row goes before the nodes.
LEMMA SSHKeyDeleteStep ==
    ASSUME Typed, kind = "ssh_key", wf # Idle, wf.op = "delete", Progressed,
           faults = 0, faults' = 0,
           row.status = "active" => Fresh,
           wf.pc >= 3 => row = Absent
    PROVE  /\ row'.status = "active" => \A n \in Targets : node'[n].cfg = row'.cfg
           /\ wf' # Idle /\ wf'.pc >= 3 => row' = Absent
<1> DEFINE P == ProgramOf(kind, wf.op)
<1>1. /\ Len(P) = 4 /\ Is(P[1], "read", "none", "fail")
      /\ Is(P[2], "status", "deleted", "fail") /\ Is(P[3], "side", "none", "return")
      /\ Is(P[4], "nodes", "drop", "return")
  BY SSHKeyPrograms
<1>2. wf.pc \in 1..4 /\ Step1 = P[wf.pc] /\ Targets \subseteq Nodes
  BY <1>1, Working, Step1Is, TargetsAreNodes
<1> HIDE DEF P
<1>3. row = Absent => row' = Absent
  BY RowGoes
<1>4. ASSUME row'.status = "active" PROVE \A n \in Targets : node'[n].cfg = row'.cfg
  <2>1. row' # Absent /\ row # Absent
    BY <1>3, <1>4, AbsentStatus
  <2>2. wf.pc < 3 /\ Step1.do \notin NodeSteps
    BY <1>1, <1>2, <2>1 DEF Is, NodeSteps
  <2>3. ~Wrote
    <3>1. SUFFICES ASSUME Wrote PROVE FALSE
      OBVIOUS
    <3>2. Step1.arg = "deleted"
      BY <1>1, <1>2, <3>1 DEF Is, Wrote
    <3> QED BY <2>1, <3>1, <3>2 DEF Wrote, updatedRow
  <2>4. row' = row
    BY <1>4, <2>1, <2>3, RowStep
  <2>5. \A n \in Targets : node'[n] = node[n]
    BY <1>2, <2>2, NodeChange
  <2> QED BY <1>4, <2>4, <2>5 DEF Fresh
<1>5. ASSUME wf' # Idle, wf'.pc >= 3 PROVE row' = Absent
  <2>1. CASE wf.pc >= 3
    BY <1>3, <2>1
  <2>2. CASE wf.pc = 2
    <3>1. Step1.do = "status" /\ Step1.arg = "deleted" /\ Step1.err = "fail"
      BY <1>1, <1>2, <2>2 DEF Is
    <3>2. Wrote
      BY <1>5, <3>1 DEF Progressed, Looked, Passed, Broke, Fails, Faulted, NodeDone, NodeFailed,
         NodeSteps
    <3> QED BY <3>1, <3>2 DEF Wrote, updatedRow
  <2>3. CASE wf.pc < 2
    BY <1>2, <1>5, <2>3, SameProgram
  <2> QED BY <1>2, <2>1, <2>2, <2>3
<1> QED BY <1>4, <1>5

\* The two kinds' workflows.
LEMMA StillPrograms ==
    ASSUME kind \in Still, NEW o \in TaskNames(kind)
    PROVE  \/ \E l, r, p, g, a : Provisions(ProgramOf(kind, o), l, r, p, g, a)
              /\ o \notin {"delete", "restore"}
           \/ o = "delete" /\ ProgramOf(kind, o)[1].do = "read"
           \/ kind = "backup" /\ o = "restore" /\ ProgramOf(kind, o)[1].do = "read"
<1>1. CASE kind = "backup"
  BY <1>1, BackupPrograms DEF Is
<1>2. CASE kind = "ssh_key"
  BY <1>2, SSHKeyPrograms DEF Is
<1> QED BY <1>1, <1>2 DEF Still

LEMMA StillAppliedWork ==
    ASSUME Typed, ErrorsStop, Configuring, kind \in Still, OneVersion, StillApplied,
           kind = "backup" => ~children, wf # Idle, Progressed, kind' = kind,
           faults = 0, faults' = 0
    PROVE  StillApplied'
<1> DEFINE P == ProgramOf(kind, wf.op)
<1>1. Targets' = Targets
  BY DEF Targets
<1>2. wf' # Idle => wf'.op = wf.op
  BY SameProgram
<1>3. \A l, r, p, g, a : P[1].do = "read" => ~Provisions(P, l, r, p, g, a)
  BY DEF Provisions
<1>4. CASE \E l, r, p, g, a : Provisions(P, l, r, p, g, a) /\ wf.op \notin {"delete", "restore"}
  <2>1. ASSUME NEW l \in Marks, NEW r \in Marks, NEW p \in Marks, NEW g \in Marks,
               NEW a \in Marks, Provisions(P, l, r, p, g, a)
        PROVE  /\ row'.status = "active" => \A n \in Targets : node'[n].cfg = row'.cfg
               /\ wf' # Idle /\ wf'.pc > 1 /\ wf'.pc <= a => row'.status # "active"
    <3>1. /\ wf.pc > 1 /\ wf.pc <= a => row.status # "active"
          /\ row.status = "active" => Fresh
      BY <1>4, <2>1 DEF StillApplied
    <3>2. row # Absent => wf.snap.cfg = row.cfg
      BY DEF OneVersion
    <3> QED BY <2>1, <3>1, <3>2, ProvisionsStep
  <2>2. PICK l0, r0, p0, g0, a0 : Provisions(P, l0, r0, p0, g0, a0)
    BY <1>4
  <2>3. /\ l0 \in Marks /\ r0 \in Marks /\ p0 \in Marks /\ g0 \in Marks /\ a0 \in Marks
    BY <2>2, ProvisionsMarks
  <2>4. row'.status = "active" => Fresh'
    BY <1>1, <2>1, <2>2, <2>3 DEF Fresh
  <2> QED BY <1>2, <1>4, <2>1, <2>4 DEF StillApplied
<1>5. CASE wf.op = "delete" /\ P[1].do = "read" /\ kind = "backup"
  <2>1. row.status = "active" => Fresh \/ wf.pc >= 2
    BY DEF StillApplied
  <2>2. row'.status = "active" => Fresh' \/ (wf' # Idle /\ wf'.pc >= 2)
    BY <1>1, <1>5, <2>1, BackupDeleteStep DEF Fresh
  <2> QED BY <1>2, <1>3, <1>5, <2>2 DEF StillApplied
<1>6. CASE wf.op = "delete" /\ P[1].do = "read" /\ kind = "ssh_key"
  <2>1. (row.status = "active" => Fresh) /\ (wf.pc >= 3 => row = Absent)
    BY <1>6 DEF StillApplied
  <2>2. /\ row'.status = "active" => Fresh'
        /\ wf' # Idle /\ wf'.pc >= 3 => row' = Absent
    BY <1>1, <1>6, <2>1, SSHKeyDeleteStep DEF Fresh
  <2> QED BY <1>2, <1>3, <1>6, <2>2 DEF StillApplied
<1>7. CASE kind = "backup" /\ wf.op = "restore" /\ P[1].do = "read"
  <2>1. /\ row.status = "active" => Fresh
        /\ wf.pc >= 5 => \A n \in Targets : node[n].cfg # 0
    BY <1>7 DEF StillApplied
  <2>2. /\ row'.status = "active" => Fresh'
        /\ wf' # Idle /\ wf'.pc >= 5 => \A n \in Targets : node'[n].cfg # 0
    BY <1>1, <1>7, <2>1, BackupRestoreStep DEF Fresh
  <2> QED BY <1>1, <1>2, <1>3, <1>7, <2>2 DEF StillApplied
<1> QED BY <1>4, <1>5, <1>6, <1>7, Working, StillPrograms DEF Still

LEMMA StillStep ==
    ASSUME Typed, ErrorsStop, Configuring, StillInv, Next PROVE StillInv'
<1>1. kind' = kind /\ faults \in Nat
  BY HistoryTyped, LifecycleAssumption DEF Typed, TypeOK
<1> SUFFICES ASSUME kind \in Still
             PROVE  /\ OneVersion'
                    /\ children' => kind \in Parents
                    /\ faults' = 0 /\ "backup" \notin Parents => StillApplied'
  BY <1>1 DEF StillInv
<1>2. OneVersion /\ OneVersion'
  BY OneVersionStep DEF StillInv
<1>3. children' => children
  <2>1. Worker => children' = children
    BY WorkerCases
  <2>2. (\E c \in Callers : Request(c)) => children' = children
    BY RequestCases
  <2>3. ChildrenGone => ~children'
    BY DEF ChildrenGone
  <2> QED BY <2>1, <2>2, <2>3 DEF Next
<1>4. children => kind \in Parents
  BY DEF StillInv
<1>5. ASSUME faults' = 0, "backup" \notin Parents PROVE StillApplied'
  <2>1. faults' = faults \/ faults' = faults + 1
    <3>1. Worker => faults' = faults \/ faults' = faults + 1
      BY WorkerCases DEF Started, Wrote, Looked, Passed, Broke, Fails, Faulted, NodeDone, NodeFailed
    <3>2. (\E c \in Callers : Request(c)) => faults' = faults \/ faults' = faults + 1
      BY RequestCases DEF ReadBy, WrittenBy, SignalledBy, LostBy
    <3>3. ChildrenGone => faults' = faults
      BY DEF ChildrenGone
    <3> QED BY <3>1, <3>2, <3>3 DEF Next
  <2>2. faults = 0
    BY <1>1, <1>5, <2>1
  <2>3. StillApplied /\ (kind = "backup" => ~children)
    BY <1>4, <1>5, <2>2 DEF StillInv
  <2>4. Targets' = Targets
    BY <1>1 DEF Targets
  <2>5. CASE Started
    <3>1. /\ wf = Idle /\ wf' # Idle /\ wf'.pc = 1 /\ row' = row /\ node' = node
      BY <2>5 DEF Started
    <3>2. row.status = "active" => Fresh
      BY <2>3, <3>1 DEF StillApplied
    <3> QED BY <1>1, <2>4, <3>1, <3>2 DEF StillApplied, Fresh
  <2>6. CASE wf # Idle /\ Progressed
    BY <1>1, <1>2, <1>5, <2>2, <2>3, <2>6, StillAppliedWork
  <2>7. ASSUME NEW c \in Callers, Request(c) PROVE StillApplied'
    <3>1. /\ ReadBy(c) \/ WrittenBy(c) \/ SignalledBy(c) \/ LostBy(c)
          /\ wf' = wf /\ node' = node /\ (row' = Absent <=> row = Absent)
      BY <2>7, RequestCases
    <3>2. row'.status = "active" => row.status = "active" /\ row'.cfg = row.cfg
      <4>1. CASE WrittenBy(c)
        BY <1>2, <4>1, StillWritten
      <4>2. CASE ~WrittenBy(c)
        BY <3>1, <4>2 DEF ReadBy, SignalledBy, LostBy
      <4> QED BY <4>1, <4>2
    <3>3. row'.status = "active" =>
            Fresh' \/ (kind = "backup" /\ wf # Idle /\ wf.op = "delete" /\ wf.pc >= 2)
      BY <2>3, <2>4, <3>1, <3>2 DEF StillApplied, Fresh
    <3>4. wf # Idle => \A l, r, p, g, a \in Marks :
             Provisions(ProgramOf(kind, wf.op), l, r, p, g, a) /\ wf.pc > 1 /\ wf.pc <= a
             => row'.status # "active"
      BY <2>3, <3>2 DEF StillApplied
    <3>5. wf # Idle =>
            /\ kind = "ssh_key" /\ wf.op = "delete" /\ wf.pc >= 3 => row' = Absent
            /\ kind = "backup" /\ wf.op = "restore" /\ wf.pc >= 5 =>
                 \A n \in Targets : node'[n].cfg # 0
      BY <2>3, <3>1 DEF StillApplied
    <3> QED BY <1>1, <2>4, <3>1, <3>3, <3>4, <3>5 DEF StillApplied
  <2>8. CASE ChildrenGone
    BY <2>3, <2>8 DEF ChildrenGone, StillApplied, Fresh, Targets
  <2>9. Worker => Started \/ (wf # Idle /\ Progressed)
    BY WorkerCases DEF Progressed
  <2> QED BY <2>5, <2>6, <2>7, <2>8, <2>9 DEF Next
<1> QED BY <1>2, <1>3, <1>4, <1>5

LEMMA AppliedInvInit == Init => AppliedInv
<1> SUFFICES ASSUME Init PROVE AppliedInv
  OBVIOUS
<1>1. kind \in Kind /\ Catalogued(kind)
  BY LifecycleAssumption, Shapes DEF Init
<1>2. wf = Idle /\ faults = 0 /\ (\A n \in Nodes : node[n] = Nothing) /\ row.cfg = 1
  BY DEF Init
<1>3. ErrorsStop /\ Configuring
  BY <1>2 DEF ErrorsStop, Configuring
<1>4. UpdatedInv
  <2>1. CASE kind = "subscription"
    <3>1. Targets = {}
      BY <1>1, <2>1 DEF Catalogued, Targets
    <3> QED BY <1>2, <3>1 DEF UpdatedInv, Fresh
  <2>2. CASE kind # "subscription"
    <3>1. ServiceOf[kind].create # <<>>
      BY <1>1, <2>2 DEF Catalogued
    <3>2. PICK t : t = [op |-> "create", cfg |-> 1]
      OBVIOUS
    <3>3. queue = <<t>>
      BY <3>1, <3>2 DEF Init
    <3>4. queue # <<>>
      BY <3>3
    <3> QED BY <3>4 DEF UpdatedInv, Pending
  <2> QED BY <2>1, <2>2
<1>5. StillInv
  <2> SUFFICES ASSUME kind \in Still PROVE StillInv
    BY DEF StillInv
  <2>1. ServiceOf[kind].create # <<>>
    BY <1>1 DEF Catalogued, Still
  <2>2. PICK t : t = [op |-> "create", cfg |-> 1]
    OBVIOUS
  <2>3. queue = <<t>> /\ t.cfg = 1 /\ row.status = "pending"
    BY <2>1, <2>2 DEF Init
  <2>4. \A i \in DOMAIN queue : queue[i].cfg = 1
    BY <2>3
  <2>5. Nothing.cfg = 0 /\ NoCall.pc = "idle"
    BY DEF Nothing, NoCall
  <2>6. \A c \in Callers : caller[c].pc = "idle"
    BY <2>5 DEF Init
  <2>7. OneVersion
    BY <1>2, <2>4, <2>5, <2>6 DEF OneVersion
  <2>8. StillApplied
    BY <1>2, <2>3 DEF StillApplied
  <2>9. children => kind \in Parents
    BY DEF Init
  <2> QED BY <2>7, <2>8, <2>9 DEF StillInv
<1> QED BY <1>3, <1>4, <1>5 DEF AppliedInv

LEMMA AppliedInvStep == Typed /\ AppliedInv /\ [Next]_vars => AppliedInv'
<1> SUFFICES ASSUME Typed, AppliedInv, [Next]_vars PROVE AppliedInv'
  OBVIOUS
<1>1. CASE Next
  BY <1>1, ErrorsStopStep, ConfiguringStep, UpdatedStep, StillStep DEF AppliedInv
<1>2. CASE UNCHANGED vars
  <2>1. ErrorsStop' /\ Configuring'
    BY <1>2 DEF vars, AppliedInv, ErrorsStop, Configuring, Targets
  <2>2. UpdatedInv'
    BY <1>2 DEF vars, AppliedInv, UpdatedInv, Pending, Fresh, Targets
  <2>3. StillInv'
    BY <1>2 DEF vars, AppliedInv, StillInv, OneVersion, StillApplied, Fresh, Targets
  <2> QED BY <2>1, <2>2, <2>3 DEF AppliedInv
<1> QED BY <1>1, <1>2

\* A resource that is reported active when all is quiet is configured with
\* the row's current version on every target, however requests that change
\* the row interleave with workflows that read it and with failing node
\* activities; provided that no row references a backup, since the schema has
\* none that does.
THEOREM Applied == "backup" \notin Parents => (Spec => []ActiveIsApplied)
<1> SUFFICES ASSUME "backup" \notin Parents PROVE Spec => []ActiveIsApplied
  OBVIOUS
<1>1. Typed /\ AppliedInv => ActiveIsApplied
  <2> SUFFICES ASSUME Typed, AppliedInv, Quiet, faults = 0, row.status = "active",
                      kind \notin Unapplied
               PROVE  Fresh
    BY DEF ActiveIsApplied, Fresh, Unapplied
  <2>1. NoCall.pc = "idle" /\ kind \in Kind
    BY KindIsKnown DEF NoCall
  <2>2. wf = Idle /\ ~Pending
    BY <2>1 DEF Quiet, Pending
  <2>3. CASE kind \in Updated
    BY <2>2, <2>3 DEF AppliedInv, UpdatedInv
  <2>4. CASE kind \in Still
    BY <2>2, <2>4 DEF AppliedInv, StillInv, StillApplied
  <2> QED BY <2>1, <2>3, <2>4 DEF Updated
<1> QED BY InitTyped, NextTyped, AppliedInvInit, AppliedInvStep, <1>1, PTL DEF Spec

-----------------------------------------------------------------------------
(***************************************************************************)
(* A resource in transition settles: behind a row that has not settled     *)
(* there is a request that has written and will signal, a task, or a       *)
(* workflow, that will settle it.                                          *)
(***************************************************************************)
QueuedOps == {queue[i].op : i \in 1..Len(queue)}

SettlingTask(o) == \E l, e \in Marks : Settles(ProgramOf(kind, o), l, 0, e)

\* The workflow in progress has its settling step ahead.
Busy ==
    /\ wf # Idle
    /\ \E l, e \in Marks, b \in {0, 1} :
         Settles(ProgramOf(kind, wf.op), l, b, e) /\ b < wf.pc /\ wf.pc <= e

Attended ==
    \/ Busy
    \/ \E o \in QueuedOps : SettlingTask(o)
    \/ \E c \in Callers : caller[c].pc = "written" /\ SettlingTask(caller[c].op)

Excused == faults # 0 \/ refused \/ kind = "zone"

\* A workflow that is at its nodes has some left to do.
NodesDue ==
    wf # Idle /\ ProgramOf(kind, wf.op)[wf.pc].do \in NodeSteps => wf.todo # {}

SettlingInv == NodesDue /\ (~Excused /\ ~Settled => Attended)

LEMMA QueuedAppend ==
    ASSUME Typed, NEW t \in [op : OpNames, cfg : Versions], queue' = Append(queue, t)
    PROVE  QueuedOps \subseteq QueuedOps' /\ t.op \in QueuedOps'
<1>0. PICK S : S = [op : OpNames, cfg : Versions] /\ queue \in Seq(S)
  BY DEF Typed, TypeOK
<1>1. PICK n \in Nat : n = Len(queue) /\ queue \in Seq(S)
  BY <1>0
<1>2. Len(queue') = n + 1 /\ queue'[n + 1] = t
  BY <1>0, <1>1
<1>3. \A i \in 1..n : queue'[i] = queue[i] /\ i \in 1..n + 1
  BY <1>0, <1>1
<1>4. n + 1 \in 1..n + 1
  BY <1>1
<1>5. QueuedOps = {queue[i].op : i \in 1..n}
  BY <1>1 DEF QueuedOps
<1>6. QueuedOps' = {queue'[i].op : i \in 1..n + 1}
  BY <1>2 DEF QueuedOps
<1> QED BY <1>2, <1>3, <1>4, <1>5, <1>6

LEMMA QueuedTail ==
    ASSUME Typed, queue # <<>>, queue' = Tail(queue)
    PROVE  QueuedOps \subseteq QueuedOps' \union {queue[1].op}
<1>0. PICK S : S = [op : OpNames, cfg : Versions] /\ queue \in Seq(S)
  BY DEF Typed, TypeOK
<1>1. PICK n \in Nat : n = Len(queue) /\ queue \in Seq(S)
  BY <1>0
<1>2. n > 0 /\ Len(queue') = n - 1
  BY <1>1
<1>3. \A i \in 1..n - 1 : queue'[i] = queue[i + 1]
  BY <1>1, <1>2
<1>4. \A i \in 1..n : i = 1 \/ (i - 1 \in 1..n - 1 /\ queue[i] = queue'[i - 1])
  BY <1>2, <1>3
<1> SUFFICES ASSUME NEW o \in QueuedOps, o # queue[1].op
             PROVE  o \in QueuedOps'
  OBVIOUS
<1>5. PICK i \in 1..n : o = queue[i].op
  BY <1>1 DEF QueuedOps
<1>6. i - 1 \in 1..n - 1 /\ o = queue'[i - 1].op
  BY <1>4, <1>5
<1>7. QueuedOps' = {queue'[j].op : j \in 1..n - 1}
  BY <1>2 DEF QueuedOps
<1> QED BY <1>6, <1>7

\* Faults and refusals are not forgotten.
LEMMA ExcusedStays == ASSUME Typed, Next, Excused PROVE Excused'
<1>1. faults \in Nat /\ refused \in BOOLEAN /\ kind' = kind
  BY HistoryTyped, LifecycleAssumption DEF Typed, TypeOK
<1>2. faults' = faults \/ faults' = faults + 1
  BY DEF Next, Worker, StartTask, WriteStatus, DeleteRefused, WriteStatusFails,
         ReadContext, ReadContextFails, SideEffect, SideEffectFails, CheckErrors,
         NodeActivity, NodeActivityFails, StepFails, ChildrenGone, Request, ReadRow,
         WriteRow, WriteReadRow, Written, SignalTask, SignalLost
<1>3. refused' = refused \/ refused' = TRUE
  BY DEF Next, Worker, StartTask, WriteStatus, DeleteRefused, WriteStatusFails,
         ReadContext, ReadContextFails, SideEffect, SideEffectFails, CheckErrors,
         NodeActivity, NodeActivityFails, ChildrenGone, Request, ReadRow,
         WriteRow, WriteReadRow, Written, SignalTask, SignalLost
<1>4. faults # 0 => faults' # 0
  BY <1>1, <1>2
<1>5. refused => refused'
  BY <1>1, <1>3
<1> QED BY <1>1, <1>4, <1>5 DEF Excused

\* A status write takes effect, unless there is a fault or a refusal.
LEMMA StatusWrites ==
    ASSUME Typed, Worker, wf # Idle, Step1.do = "status", ~refused', faults' = 0
    PROVE  Wrote
<1>1. WriteStatus \/ DeleteRefused \/ WriteStatusFails
  BY DEF Worker, StartTask, ReadContext, ReadContextFails, SideEffect, SideEffectFails,
         CheckErrors, NodeActivity, NodeActivityFails, Running
<1>2. ~DeleteRefused
  BY DEF DeleteRefused
<1>3. ~WriteStatusFails
  BY LifecycleAssumption DEF WriteStatusFails, Typed, TypeOK
<1>4. WriteStatus
  BY <1>1, <1>2, <1>3
<1>5. Onward(wf.snap, wf.bad)
  BY <1>4, AdvanceStep DEF WriteStatus
<1> QED BY <1>4, <1>5 DEF WriteStatus, Wrote

LEMMA UpdatedSettled ==
    ASSUME NEW s \in {"active", "deleted"}, row \in Rows
    PROVE  updatedRow(s).status \in {"absent", "active", "failed"}
  BY AbsentStatus DEF updatedRow, Rows

LEMMA FailedSettled ==
    ASSUME row \in Rows
    PROVE  setResourceFailed(row).status \in {"absent", "active", "failed"}
  BY AbsentStatus DEF setResourceFailed, Rows

\* A workflow that is before its settling step goes on or has settled the row.
LEMMA BusyStep ==
    ASSUME Typed, Worker, wf # Idle, Progressed, kind' = kind, ~Excused',
           row'.status \notin {"absent", "active", "failed"},
           NEW l \in Marks, NEW e \in Marks, NEW b \in {0, 1},
           Settles(ProgramOf(kind, wf.op), l, b, e), b < wf.pc, wf.pc <= e
    PROVE  Busy'
<1>0. PICK P : P = ProgramOf(kind, wf.op)
  OBVIOUS
<1>1. PICK i \in Nat : i = wf.pc /\ P = ProgramOf(kind, wf.op)
  BY <1>0, Working DEF Marks
<1>2. /\ Step1 = P[i] /\ i \in 1..l /\ e \in 1..l /\ b < i /\ i <= e
      /\ Len(P) = l /\ P[e].do = "status" /\ P[e].arg \in {"active", "deleted"}
      /\ Step1.err = "return" => Step1.do = "status"
  <2>1. Step1 = P[i] /\ Len(P) = l
    BY <1>1, Step1Is DEF Settles
  <2>2. i \in 1..l
    BY <1>1, <2>1, Working
  <2> QED BY <1>1, <2>1, <2>2 DEF Settles
<1>3. Step1.do = "status" => Wrote
  BY StatusWrites DEF Excused
<1>4. i # e
  <2>1. ASSUME i = e PROVE FALSE
    <3>1. row' = updatedRow(Step1.arg) /\ Step1.arg \in {"active", "deleted"}
      BY <1>2, <1>3, <2>1 DEF Wrote
    <3> QED BY <3>1, UpdatedSettled DEF Typed, TypeOK
  <2> QED BY <2>1
<1>5. i + 1 <= e /\ i # l
  BY <1>2, <1>4 DEF Marks
<1>6. wf' # Idle
  <2>1. ASSUME wf' = Idle PROVE FALSE
    <3>1. wf.pc # Len(ProgramOf(kind, wf.op))
      BY <1>1, <1>2, <1>5
    <3>2. Broke \/ Faulted
      BY <2>1, <3>1 DEF Progressed, Wrote, Looked, Passed, NodeDone, NodeFailed, Onward, Remains
    <3>3. faults' = 0 /\ faults \in Nat
      BY LifecycleAssumption DEF Excused, Typed, TypeOK
    <3>4. Broke
      BY <3>2, <3>3 DEF Faulted
    <3>5. CASE Step1.err = "return"
      <4>1. Wrote
        BY <1>2, <1>3, <3>5
      <4> QED BY <2>1, <3>1, <4>1 DEF Wrote, Onward
    <3>6. CASE Step1.err # "return"
      <4>1. row' = setResourceFailed(row)
        BY <2>1, <3>1, <3>3, <3>4, <3>6 DEF Broke, Fails, Onward
      <4> QED BY <4>1, FailedSettled DEF Typed, TypeOK
    <3> QED BY <3>5, <3>6
  <2> QED BY <2>1
<1>7. wf'.op = wf.op /\ (wf'.pc = i + 1 \/ wf'.pc = i)
  BY <1>1, <1>6, SameProgram
<1>8. b < wf'.pc /\ wf'.pc <= e
  <2>1. b < i /\ i <= e /\ b < i + 1
    BY <1>2
  <2> QED BY <1>5, <1>7, <2>1
<1> QED BY <1>6, <1>7, <1>8 DEF Busy

\* A task settles the row, in the terms of the marks.
LEMMA Conclusion ==
    ASSUME Typed, NEW o \in TaskNames(kind)
    PROVE  \/ SettlingTask(o)
           \/ /\ o # "create" /\ Ops[o].writes = "keep"
              /\ \/ Keeps(ProgramOf(kind, o))
                 \/ \E l, e \in Marks : Settles(ProgramOf(kind, o), l, 1, e)
<1>1. Concludes(kind, o)
  BY KindIsKnown, Conclusions DEF Concluded
<1>2. \A P, l, b, e : Settles(P, l, b, e) => l \in Marks /\ e \in Marks
  BY DEF Settles, Marks
<1> QED BY <1>1, <1>2 DEF Concludes, SettlingTask, Ops

LEMMA WorkerSettles ==
    ASSUME Typed, Worker, SettlingInv, ~Excused, ~Excused', ~Settled'
    PROVE  Attended'
<1>1. kind' = kind /\ caller' = caller
  BY WorkerCases
<1>2. \A o : SettlingTask(o)' <=> SettlingTask(o)
  BY <1>1 DEF SettlingTask
<1>3. row'.status \notin {"absent", "active", "failed"}
  BY DEF Settled
<1>4. CASE Started
  <2>1. Attended /\ ~Busy
    BY <1>4 DEF Started, SettlingInv, Settled, Busy
  <2>2. QueuedOps \subseteq QueuedOps' \union {queue[1].op}
    BY <1>4, QueuedTail DEF Started
  <2>3. SettlingTask(queue[1].op) => Busy'
    <3> SUFFICES ASSUME SettlingTask(queue[1].op) PROVE Busy'
      OBVIOUS
    <3>1. PICK l, e \in Marks : Settles(ProgramOf(kind, queue[1].op), l, 0, e)
      BY DEF SettlingTask
    <3>2. wf' # Idle /\ wf'.op = queue[1].op /\ wf'.pc = 1
      BY <1>4 DEF Started
    <3>3. 0 < wf'.pc /\ wf'.pc <= e
      BY <3>2 DEF Marks
    <3> QED BY <1>1, <3>1, <3>2, <3>3 DEF Busy
  <2> QED BY <1>1, <1>2, <2>1, <2>2, <2>3 DEF Attended
<1>5. CASE wf # Idle /\ queue' = queue /\ Progressed
  <2>1. wf.op \in TaskNames(kind)
    BY <1>5, Working
  <2>2. CASE Step1.do = "status"
    <3>1. PICK i \in Nat : i = wf.pc
      BY <1>5, Working DEF Marks
    <3>2. PICK k \in Marks : Len(ProgramOf(kind, wf.op)) = k /\ i \in 1..k
      BY <1>5, <3>1, Working
    <3>3. Step1 = ProgramOf(kind, wf.op)[i] /\ i \in Marks
      BY <1>5, <3>1, <3>2, Step1Is DEF Marks
    <3>4. ~Keeps(ProgramOf(kind, wf.op))
      BY <2>2, <3>2, <3>3 DEF Keeps
    <3>5. PICK l \in Marks, e \in Marks, b \in {0, 1} :
            Settles(ProgramOf(kind, wf.op), l, b, e)
      BY <2>1, <3>4, Conclusion DEF SettlingTask
    <3>6. b < wf.pc /\ wf.pc <= e
      BY <2>2, <3>1, <3>2, <3>3, <3>5 DEF Settles
    <3> QED BY <1>1, <1>3, <1>5, <3>5, <3>6, BusyStep DEF Attended
  <2>3. CASE Step1.do # "status"
    <3>1. row' = row
      <4>1. row' = row \/ row' = setResourceFailed(row)
        BY <1>5, <2>3 DEF Progressed, Wrote, Looked, Passed, Broke, Fails, Faulted,
                          NodeDone, NodeFailed
      <4> QED BY <1>3, <4>1, FailedSettled DEF Typed, TypeOK
    <3>2. Attended
      BY <3>1 DEF SettlingInv, Settled
    <3>3. CASE Busy
      BY <1>1, <1>3, <1>5, <3>3, BusyStep DEF Busy, Attended
    <3>4. QueuedOps' = QueuedOps
      BY <1>5 DEF QueuedOps
    <3> QED BY <1>1, <1>2, <3>2, <3>3, <3>4 DEF Attended
  <2> QED BY <2>2, <2>3
<1> QED BY <1>4, <1>5, WorkerCases DEF Progressed

\* The row after a request's write has settled if it had and its status is kept.
LEMMA KeptStatus ==
    ASSUME row \in Rows, NEW o, NEW saw, NEW cfg, Ops[o].writes = "keep"
    PROVE  rowWritten(o, saw, cfg).status = row.status
  BY DEF rowWritten

LEMMA RequestSettles ==
    ASSUME Typed, NEW c \in Callers, Request(c), SettlingInv, ~Excused, ~Excused', ~Settled'
    PROVE  Attended'
<1>1. /\ kind' = kind /\ wf' = wf /\ row \in Rows
      /\ \A d \in Callers \ {c} : caller'[d] = caller[d]
      /\ ReadBy(c) \/ WrittenBy(c) \/ SignalledBy(c) \/ LostBy(c)
  BY RequestCases DEF Typed, TypeOK
<1>2. /\ \A o : SettlingTask(o)' <=> SettlingTask(o)
      /\ Busy' <=> Busy
  BY <1>1 DEF SettlingTask, Busy
<1>3. ASSUME Attended, caller[c].pc # "written", queue' = queue PROVE Attended'
  <2>1. QueuedOps' = QueuedOps
    BY <1>3 DEF QueuedOps
  <2> QED BY <1>1, <1>2, <1>3, <2>1 DEF Attended
<1>4. CASE ReadBy(c)
  BY <1>3, <1>4 DEF ReadBy, SettlingInv, Settled
<1>5. CASE WrittenBy(c)
  <2>1. PICK o \in DOMAIN Ops, saw \in Rows, cfg \in Versions :
          /\ row' = rowWritten(o, saw, cfg)
          /\ \/ Ops[o].run = <<>> /\ caller'[c] = NoCall
             \/ /\ Ops[o].run # <<>> /\ caller'[c].pc = "written"
                /\ caller'[c].op = o /\ caller'[c].cfg = carried(o, saw, cfg)
    BY <1>5 DEF WrittenBy
  <2>2. CASE Ops[o].writes = "keep"
    <3>1. ~Settled
      BY <1>1, <2>1, <2>2, KeptStatus DEF Settled
    <3> QED BY <1>3, <1>5, <3>1 DEF WrittenBy, SettlingInv
  <2>3. CASE Ops[o].writes # "keep"
    <3>1. Ops[o].run # <<>>
      BY <2>3, KindIsKnown, Conclusions DEF Concluded, Ops, Excused
    <3>2. o \in TaskNames(kind)
      BY <3>1 DEF TaskNames, Ops
    <3>3. SettlingTask(o)
      BY <2>3, <3>2, Conclusion
    <3> QED BY <1>2, <2>1, <3>1, <3>3 DEF Attended
  <2> QED BY <2>2, <2>3
<1>6. CASE SignalledBy(c)
  <2>1. row' = row /\ row # Absent /\ Attended
    BY <1>6, AbsentStatus DEF SignalledBy, SettlingInv, Settled
  <2>2. PICK t : t = [op |-> caller[c].op, cfg |-> caller[c].cfg]
    OBVIOUS
  <2>3. t \in [op : OpNames, cfg : Versions] /\ t.op = caller[c].op
    BY <2>2, RequestTypes DEF Requests
  <2>4. queue' = Append(queue, t)
    BY <1>6, <2>1, <2>2 DEF SignalledBy
  <2>5. QueuedOps \subseteq QueuedOps' /\ caller[c].op \in QueuedOps'
    BY <2>3, <2>4, QueuedAppend
  <2> QED BY <1>1, <1>2, <2>1, <2>5 DEF Attended
<1>7. CASE LostBy(c)
  BY <1>7, LifecycleAssumption DEF LostBy, Excused, Typed, TypeOK
<1> QED BY <1>1, <1>4, <1>5, <1>6, <1>7

\* What is provisioned has a place to be.
LEMMA TargetsThere ==
    ASSUME kind \in Kind, kind # "subscription" PROVE Targets # {}
<1>1. ServiceOf[kind].where \in {"all", "one"}
  BY Shapes DEF Catalogued
<1> QED BY <1>1, LifecycleAssumption DEF Targets

LEMMA NodesDueStep == ASSUME Typed, NodesDue, Next PROVE NodesDue'
<1>1. Typed' /\ kind' = kind /\ kind \in Kind
  BY NextTyped, HistoryTyped, KindIsKnown
<1> SUFFICES ASSUME wf' # Idle, ProgramOf(kind, wf'.op)[wf'.pc].do \in NodeSteps
             PROVE  wf'.todo # {}
  BY <1>1 DEF NodesDue
<1>2. wf'.op \in TaskNames(kind) /\ wf'.pc \in 1..Len(ProgramOf(kind, wf'.op))
  BY <1>1 DEF Typed, TasksOK
<1>3. kind # "subscription"
  BY <1>2, SubscriptionSteps
<1>4. CASE wf'.todo = Targets
  BY <1>1, <1>3, <1>4, TargetsThere
<1>5. CASE Worker
  <2>1. CASE Started
    BY <1>4, <2>1 DEF Started
  <2>2. CASE wf # Idle /\ Progressed
    <3>1. \/ wf'.todo = Targets
          \/ \E n \in wf.todo : wf'.todo = wf.todo \ {n} /\ (NodeDone(n) \/ NodeFailed(n))
      BY <2>2, SameProgram
    <3>2. ASSUME NEW n \in wf.todo, wf'.todo = wf.todo \ {n}, NodeDone(n) \/ NodeFailed(n)
          PROVE  wf'.todo # {}
      <4>1. wf.todo # {n} \/ wf'.todo = Targets
        BY <3>2 DEF NodeDone, NodeFailed, Onward
      <4> QED BY <1>4, <3>2, <4>1
    <3> QED BY <1>4, <3>1, <3>2
  <2> QED BY <1>5, <2>1, <2>2, WorkerCases DEF Progressed
<1>6. CASE ChildrenGone
  BY <1>1, <1>6 DEF ChildrenGone, NodesDue
<1>7. CASE \E c \in Callers : Request(c)
  BY <1>1, <1>7, RequestCases DEF NodesDue
<1> QED BY <1>5, <1>6, <1>7 DEF Next

LEMMA SettlingInvStep == Typed /\ SettlingInv /\ [Next]_vars => SettlingInv'
<1> SUFFICES ASSUME Typed, SettlingInv, [Next]_vars PROVE SettlingInv'
  OBVIOUS
<1>1. CASE Next
  <2>1. NodesDue'
    BY <1>1, NodesDueStep DEF SettlingInv
  <2> SUFFICES ASSUME ~Excused', ~Settled' PROVE Attended'
    BY <2>1 DEF SettlingInv
  <2>2. ~Excused
    BY <1>1, ExcusedStays
  <2>3. CASE ChildrenGone
    BY <2>2, <2>3 DEF ChildrenGone, SettlingInv, Settled, Attended, Busy, QueuedOps,
                      SettlingTask
  <2> QED BY <1>1, <2>2, <2>3, WorkerSettles, RequestSettles DEF Next
<1>2. CASE UNCHANGED vars
  BY <1>2 DEF vars, SettlingInv, NodesDue, Excused, Settled, Attended, Busy, QueuedOps,
              SettlingTask
<1> QED BY <1>1, <1>2

LEMMA SettlingInvInit == Init => SettlingInv
<1> SUFFICES ASSUME Init PROVE SettlingInv
  OBVIOUS
<1>1. Typed /\ kind \in Kind
  BY InitTyped, KindIsKnown
<1>2. NodesDue
  BY DEF Init, NodesDue
<1>3. CASE ServiceOf[kind].create = <<>>
  <2>1. Settled
    BY <1>3 DEF Init, Settled
  <2> QED BY <1>2, <2>1 DEF SettlingInv
<1>4. CASE ServiceOf[kind].create # <<>>
  <2>1. PICK t : t = [op |-> "create", cfg |-> 1] /\ queue = <<t>>
    BY <1>4 DEF Init
  <2>2. "create" \in QueuedOps
    BY <2>1 DEF QueuedOps
  <2>3. "create" \in TaskNames(kind)
    BY <1>4 DEF TaskNames
  <2>4. SettlingTask("create")
    BY <1>1, <2>3, Conclusion
  <2> QED BY <1>2, <2>2, <2>4 DEF SettlingInv, Attended
<1> QED BY <1>3, <1>4

\* A resource in transition settles: when no workflow, task or request is left
\* to go on, the status is settled, for every kind, any number of nodes and
\* requests and every interleaving with failing activities; no workflow waits
\* for nodes that there are none of.
THEOREM Settling == Spec => []SettledWhenQuiet
<1>1. Typed /\ SettlingInv => SettledWhenQuiet
  <2> SUFFICES ASSUME Typed, SettlingInv, ~Due, ~Excused, ~Settled PROVE FALSE
    BY DEF SettledWhenQuiet, Excused
  <2>1. wf = Idle
    <3>1. wf # Idle => Step1.do \notin NodeSteps \/ wf.todo # {}
      BY Step1Is DEF SettlingInv, NodesDue
    <3> QED BY <3>1 DEF Due, NodeSteps
  <2>2. queue = <<>> /\ \A c \in Callers : caller[c].pc = "idle"
    BY <2>1 DEF Due
  <2>3. QueuedOps = {}
    BY <2>2 DEF QueuedOps
  <2> QED BY <2>1, <2>2, <2>3 DEF SettlingInv, Attended, Busy
<1> QED BY InitTyped, NextTyped, SettlingInvInit, SettlingInvStep, <1>1, PTL DEF Spec
=============================================================================
