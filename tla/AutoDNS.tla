------------------------------ MODULE AutoDNS ------------------------------
(***************************************************************************)
(* Automatic DNS records.  A zone of the core database has a domain in the *)
(* PowerDNS database; binding an FQDN writes A/AAAA records for the load   *)
(* balancers' addresses, the first mail account of an FQDN writes MX, SPF, *)
(* DKIM and DMARC records, and a custom record of the tenant overrides the *)
(* automatic ones of its name and type.  Every automatic record is kept    *)
(* twice: as a zone_records row and, unless overridden, in PowerDNS.       *)
(*                                                                         *)
(* A workflow is a sequence of activities, an activity is one step.  The   *)
(* tasks of one tenant run one at a time, in the order they were accepted  *)
(* (ProvisionQueue); the tasks of two tenants interleave.  A request       *)
(* writes its row and then signals the task, two steps with others in      *)
(* between.  An activity that fails has used up its retries.               *)
(***************************************************************************)
EXTENDS Integers, Sequences, FiniteSets, SequencesExt

CONSTANTS
    Zones,       \* zone names
    Fqdns,       \* host names
    Mails,       \* mail accounts
    Customs,     \* custom zone records
    Tenants,     \* each tenant has one provisioning queue
    TenantOf,    \* the tenant of every zone, FQDN, mail account and record
    Candidates,  \* an FQDN's possible zones, the most specific one first
    FqdnOf,      \* the FQDN of a mail account
    CustomAt,    \* a custom record's zone, name and type
    Contents,    \* the contents a custom record may be given
    LBAddresses, \* the load balancers' addresses: [type, content]
    MailRecords, \* a brand's mail records: [sub, type, content]
    Starts,      \* the sets of zones, FQDNs and mail accounts there may be at first
    MaxOps,      \* bound on the API operations
    MaxOpen,     \* bound on the requests that have not signalled yet
    MaxFaults    \* bound on the failed activities

VARIABLES
    status,   \* the row's status of every zone, FQDN, account and record
    content,  \* the content column of a custom record
    auto,     \* the automatic zone_records rows: [zone, name, type, content, src]
    domains,  \* PowerDNS: the domains table
    records,  \* PowerDNS: the records table, without SOA and NS
    queue,    \* a tenant's accepted tasks: [wf, id, content]
    run,      \* a tenant's running workflow: [wf, id, content, pc], or Idle
    open,     \* the requests between their row's write and their signal
    ops, faults,
    hurt,     \* rows with a failed activity or signal, or whose task found the row gone
    kept,     \* PowerDNS records that a deletion of an FQDN's records left, see Leaves
    muted,    \* automatic rows a custom record keeps out of PowerDNS for good, see Mutes
    crossed   \* FQDNs two tenants' workflows worked on at a time

dbVars  == <<status, content, auto, domains, records>>
history == <<hurt, kept, muted, crossed>>
vars    == <<dbVars, queue, run, open, ops, faults, history>>

Rows == Zones \cup Fqdns \cup Mails \cup Customs
Idle == [wf |-> "none", id |-> "none", content |-> "none", pc |-> 0]

ASSUME ConstantsAssumption ==
    /\ MaxOps \in Nat /\ MaxOpen \in Nat /\ MaxFaults \in Nat
    /\ \A m \in Mails : FqdnOf[m] \in Fqdns
    /\ \A c \in Customs : CustomAt[c].zone \in Zones
    /\ \A there \in Starts : /\ there \subseteq Zones \cup Fqdns \cup Mails
                             /\ \A m \in there \cap Mails : FqdnOf[m] \in there

Name(f, sub) == [host |-> f, sub |-> sub]
-----------------------------------------------------------------------------
(* The PowerDNS tables, as powerdns_db.go writes them.                     *)

Rec(z, n, t, c) == [zone |-> z, name |-> n, type |-> t, content |-> c]

\* Deletes the equal record first: writing is idempotent.
WriteDNSRecord(recs, r) == recs \cup {r}

\* Every record of the name and type gets the content.
UpdateDNSRecord(recs, z, n, t, c) ==
    {IF r.zone = z /\ r.name = n /\ r.type = t THEN Rec(z, n, t, c) ELSE r : r \in recs}

\* Removes by name and type, whatever the content.
DeleteDNSRecord(recs, z, n, t) ==
    {r \in recs : ~(r.zone = z /\ r.name = n /\ r.type = t)}

DeleteDNSRecordsByDomain(recs, z) == {r \in recs : r.zone # z}
-----------------------------------------------------------------------------
(* The helpers of dns.go.                                                  *)

\* The most specific active zone above the name.
findZoneForFQDN(f) ==
    LET found == SelectSeq(Candidates[f], LAMBDA z : status[z] = "active")
    IN  IF found = <<>> THEN "none" ELSE Head(found)

hasCustomRecord(n, types) ==
    \E c \in Customs : /\ status[c] = "active"
                       /\ CustomAt[c].name = n /\ CustomAt[c].type \in types

AutoRow(z, n, t, c, src) ==
    [zone |-> z, name |-> n, type |-> t, content |-> c, src |-> src]

Pushed(row) == Rec(row.zone, row.name, row.type, row.content)

\* What createAutoRecord does for each row of a set: PowerDNS gets the record
\* unless a custom one of its name and type is active; the row is inserted
\* unless there is one of its source, name and type.
createAutoRecord(new) ==
    /\ records' = records \cup
          {Pushed(r) : r \in {x \in new : /\ x.zone \in domains
                                          /\ ~hasCustomRecord(x.name, {x.type})}}
    /\ auto' = auto \cup
          {r \in new : ~\E a \in auto : /\ a.zone = r.zone /\ a.name = r.name
                                        /\ a.type = r.type /\ a.src = r.src}

MailRows(z, f) ==
    {AutoRow(z, Name(f, m.sub), m.type, m.content, "email") : m \in MailRecords}

LBRows(z, f) ==
    {AutoRow(z, Name(f, ""), a.type, a.content, "fqdn") : a \in LBAddresses}
-----------------------------------------------------------------------------
(* The activities.                                                         *)

\* One custom A or AAAA record keeps both families out of PowerDNS.
AutoCreateDNSRecords(f) ==
    LET z == findZoneForFQDN(f)
    IN  IF z = "none" THEN UNCHANGED <<auto, records>>
        ELSE /\ records' = IF hasCustomRecord(Name(f, ""), {"A", "AAAA"}) THEN records
                           ELSE records \cup {Pushed(r) : r \in LBRows(z, f)}
             /\ auto' = auto \cup LBRows(z, f)

\* The deletions in PowerDNS whose errors an activity drops: names and types.
\* Without a zone it is the error of deleting the rows.
AddressPairs(f) == {Name(f, "")} \X {"A", "AAAA"}
MailPairs(f) == {<<Name(f, m.sub), m.type>> : m \in MailRecords}
TheRows(f) == {<<Name(f, ""), "rows">>}

\* A plausible mistake: PowerDNS is left to a later synchronisation.
AutoDeleteDNSRecordsRowsOnly(f, lost) ==
    /\ records' = records
    /\ auto' = {r \in auto : ~(r.name = Name(f, "") /\ r.src = "fqdn")}

\* Without an active zone only the rows are cleaned up.  The deletions in lost
\* fail, which nobody is told.
AutoDeleteDNSRecords(f, lost) ==
    LET z == findZoneForFQDN(f)
    IN  /\ records' = IF z \notin domains THEN records
                      ELSE {r \in records : ~(r.zone = z /\ <<r.name, r.type>> \in AddressPairs(f) \ lost)}
        /\ auto' = IF lost = TheRows(f) THEN auto
                   ELSE {r \in auto : ~(r.name = Name(f, "") /\ r.src = "fqdn")}

AutoCreateEmailDNSRecords(f) ==
    LET z == findZoneForFQDN(f)
    IN  IF z = "none" THEN UNCHANGED <<auto, records>>
        ELSE createAutoRecord(MailRows(z, f))

AutoDeleteEmailDNSRecords(f, lost) ==
    LET z    == findZoneForFQDN(f)
        mine == {r \in auto : r.src = "email" /\ r.name.host = f}
        gone == {<<Name(f, ""), "MX">>} \cup {<<r.name, r.type>> : r \in mine}
    IN  /\ records' = IF z \notin domains THEN records
                      ELSE {r \in records : ~(r.zone = z /\ <<r.name, r.type>> \in gone \ lost)}
        /\ auto' = auto \ mine

\* The custom record has been written just before, under the same name and type.
DeactivateAutoRecords(n, t) ==
    /\ records' = {r \in records : ~\E a \in auto :
                      /\ a.name = n /\ a.type = t /\ a.zone \in domains
                      /\ r.zone = a.zone /\ r.name = n /\ r.type = t}
    /\ UNCHANGED auto

ReactivateAutoRecordsNot(n, t) == UNCHANGED <<auto, records>>

ReactivateAutoRecords(n, t) ==
    /\ records' = IF hasCustomRecord(n, {t}) THEN records
                  ELSE records \cup {Pushed(a) : a \in
                          {r \in auto : r.name = n /\ r.type = t /\ r.zone \in domains}}
    /\ UNCHANGED auto

\* The FQDNs under a new zone.  The zone is not active yet, so that the mail
\* records go to a less specific active zone or nowhere.
RetroactiveAutoRecords(z) ==
    LET under == {f \in Fqdns : status[f] = "active" /\ z \in Range(Candidates[f])}
        lb    == UNION {LBRows(z, f) : f \in under}
        mail  == UNION {MailRows(findZoneForFQDN(f), f) : f \in
                    {g \in under : /\ findZoneForFQDN(g) # "none"
                                   /\ \E m \in Mails : FqdnOf[m] = g /\ status[m] # "none"}}
        fresh == lb \cup {r \in mail : ~\E a \in auto : /\ a.zone = r.zone /\ a.name = r.name
                                                        /\ a.type = r.type /\ a.src = r.src}
    IN  IF z \notin domains THEN UNCHANGED <<auto, records>>
        ELSE /\ records' = records \cup {Pushed(r) : r \in
                               {x \in lb \cup mail : /\ x.zone \in domains
                                                  /\ ~hasCustomRecord(x.name, {x.type})}}
             /\ auto' = auto \cup fresh
-----------------------------------------------------------------------------
(* The workflows, as the sequences of their activities.                    *)

CreateZoneWorkflow ==
    <<"provisioning", "read", "WriteDNSZone", "WriteDefaults",
      "RetroactiveAutoRecords", "active", "children">>
DeleteZoneWorkflow ==
    <<"deleting", "read", "DeleteDNSRecordsByDomain", "DeleteDNSZone", "deleted">>
CreateZoneRecordWorkflow ==
    <<"provisioning", "GetDNSZoneIDByName", "WriteDNSRecord",
      "DeactivateAutoRecords", "active">>
UpdateZoneRecordWorkflow ==
    <<"provisioning", "GetDNSZoneIDByName", "UpdateDNSRecord", "active">>
DeleteZoneRecordWorkflow ==
    <<"deleting", "read", "DeleteDNSRecord", "deleted", "ReactivateAutoRecords">>
BindFQDNWorkflow ==
    <<"provisioning", "read", "AutoCreateDNSRecords", "nodes", "active", "children">>
UnbindFQDNWorkflow ==
    <<"deleting", "read", "AutoDeleteDNSRecords", "nodes", "deleted">>
CreateEmailAccountWorkflow ==
    <<"provisioning", "read", "AutoCreateEmailDNSRecords", "active">>
DeleteEmailAccountWorkflow ==
    <<"deleting", "read", "deleted", "AutoDeleteEmailDNSRecords">>

\* No worker registers this workflow: it is never executed, and the tenant's
\* queue waits for it.
CreateFQDNWorkflow == <<"unregistered">>

Program ==
    [CreateZoneWorkflow |-> CreateZoneWorkflow,
     DeleteZoneWorkflow |-> DeleteZoneWorkflow,
     CreateZoneRecordWorkflow |-> CreateZoneRecordWorkflow,
     UpdateZoneRecordWorkflow |-> UpdateZoneRecordWorkflow,
     DeleteZoneRecordWorkflow |-> DeleteZoneRecordWorkflow,
     BindFQDNWorkflow |-> BindFQDNWorkflow,
     UnbindFQDNWorkflow |-> UnbindFQDNWorkflow,
     CreateFQDNWorkflow |-> CreateFQDNWorkflow,
     CreateEmailAccountWorkflow |-> CreateEmailAccountWorkflow,
     DeleteEmailAccountWorkflow |-> DeleteEmailAccountWorkflow]

\* A failed activity ends the workflow; these failures are ignored, and a
\* failed status update leaves the row as it is.
Ignored == {"RetroactiveAutoRecords", "DeactivateAutoRecords", "ReactivateAutoRecords",
            "AutoDeleteEmailDNSRecords", "children"}
Silent  == {"provisioning", "deleting", "deleted", "active"}

\* Rows that hold a reference to the row, so that the database refuses to delete it.
Referrers(id) == {m \in Mails : FqdnOf[m] = id /\ status[m] # "none"}

SetStatus(id, s) == status' = [status EXCEPT ![id] = s]

\* Deleting a zone row cascades to its records.
DeleteRow(id) ==
    /\ status' = [r \in Rows |-> IF r = id \/ (r \in Customs /\ CustomAt[r].zone = id)
                                 THEN "none" ELSE status[r]]
    /\ auto' = {r \in auto : r.zone # id}

\* The pending rows below a new zone or FQDN, created in child workflows.
Children(id) ==
    {c \in Customs : CustomAt[c].zone = id /\ status[c] = "pending"}
        \cup {m \in Mails : FqdnOf[m] = id /\ status[m] = "pending"}

CreateChildren(id) ==
    LET cs  == Children(id) \cap Customs
        z   == findZoneForFQDN(id)
        new == {Rec(id, CustomAt[c].name, CustomAt[c].type, content[c]) : c \in cs}
        hid == {r \in records \cup new : \E c \in cs, a \in auto :
                   /\ r.zone = a.zone /\ a.name = r.name /\ a.type = r.type
                   /\ r.name = CustomAt[c].name /\ r.type = CustomAt[c].type}
    IN  /\ status' = [r \in Rows |-> IF r \in Children(id) THEN "active" ELSE status[r]]
        /\ IF id \in Zones
           THEN /\ records' = (records \cup new) \ hid
                /\ UNCHANGED auto
           ELSE IF Children(id) = {} \/ z = "none" THEN UNCHANGED <<auto, records>>
           ELSE createAutoRecord(MailRows(z, id))

\* Whether the step's precondition lets it succeed.
CanSucceed(p, step) ==
    CASE step = "deleted" -> Referrers(p.id) = {}
      [] step = "unregistered" -> FALSE
      [] step = "GetDNSZoneIDByName" -> CustomAt[p.id].zone \in domains
      [] step = "AutoCreateDNSRecords" ->
            findZoneForFQDN(p.id) \in domains \cup {"none"}
      [] step = "read" -> p.id \in Customs \/ status[p.id] # "none"
      [] OTHER -> TRUE

LastMail(m) == ~\E x \in Mails : FqdnOf[x] = FqdnOf[m] /\ status[x] = "active"

\* What an activity can fail to do without saying so.
Droppable(p, step) ==
    CASE step = "AutoDeleteDNSRecords" ->
            IF findZoneForFQDN(p.id) = "none" THEN TheRows(p.id) ELSE AddressPairs(p.id)
      [] step = "AutoDeleteEmailDNSRecords" /\ LastMail(p.id) -> MailPairs(FqdnOf[p.id])
      [] OTHER -> {}

\* The records a deletion leaves in PowerDNS: those it failed to delete, and
\* those in another zone than the one findZoneForFQDN finds now.
LeftBy(z, pairs, lost) ==
    {r \in records : <<r.name, r.type>> \in pairs /\ (r.zone # z \/ <<r.name, r.type>> \in lost)}

Leaves(p, step, lost) ==
    CASE step = "AutoDeleteDNSRecords" ->
            LeftBy(findZoneForFQDN(p.id), AddressPairs(p.id), lost)
            \cup (IF lost # TheRows(p.id) THEN {}
                  ELSE {Pushed(r) : r \in {x \in auto : x.name = Name(p.id, "") /\ x.src = "fqdn"}})
      [] step = "AutoDeleteEmailDNSRecords" /\ LastMail(p.id) ->
            LeftBy(findZoneForFQDN(FqdnOf[p.id]), MailPairs(FqdnOf[p.id]), lost)
      [] OTHER -> {}

\* The rows that stay out of PowerDNS although no custom record overrides them:
\* AutoCreateDNSRecords does not push an address when there is a custom record
\* of the other family, and nothing pushes the rows of another zone when their
\* custom record is deleted with its zone.
Mutes(p, step) ==
    CASE step = "AutoCreateDNSRecords" /\ findZoneForFQDN(p.id) # "none"
         /\ hasCustomRecord(Name(p.id, ""), {"A", "AAAA"}) ->
            {r \in LBRows(findZoneForFQDN(p.id), p.id) : ~hasCustomRecord(r.name, {r.type})}
      [] step = "deleted" /\ p.id \in Zones ->
            {r \in auto : r.zone # p.id /\ \E c \in Customs :
                /\ status[c] # "none" /\ CustomAt[c].zone = p.id
                /\ CustomAt[c].name = r.name /\ CustomAt[c].type = r.type}
      [] OTHER -> {}

Effect(p, step, lost) ==
    CASE step \in {"provisioning", "deleting", "active"} ->
            /\ status' = IF status[p.id] = "none" THEN status ELSE [status EXCEPT ![p.id] = step]
            /\ UNCHANGED <<auto, domains, records>>
      [] step = "deleted" -> DeleteRow(p.id) /\ UNCHANGED <<domains, records>>
      [] step = "WriteDNSZone" ->
            domains' = domains \cup {p.id} /\ UNCHANGED <<status, auto, records>>
      [] step = "RetroactiveAutoRecords" ->
            RetroactiveAutoRecords(p.id) /\ UNCHANGED <<status, domains>>
      [] step = "children" -> CreateChildren(p.id) /\ UNCHANGED domains
      [] step = "DeleteDNSRecordsByDomain" ->
            /\ records' = DeleteDNSRecordsByDomain(records, p.id)
            /\ UNCHANGED <<status, auto, domains>>
      [] step = "DeleteDNSZone" ->
            /\ domains' = domains \ {p.id}
            /\ records' = {r \in records : r.zone # p.id}
            /\ UNCHANGED <<status, auto>>
      [] step = "WriteDNSRecord" ->
            /\ \E c \in {CustomAt[p.id]} :
                  records' = WriteDNSRecord(records, Rec(c.zone, c.name, c.type, p.content))
            /\ UNCHANGED <<status, auto, domains>>
      [] step = "UpdateDNSRecord" ->
            /\ \E c \in {CustomAt[p.id]} :
                  records' = UpdateDNSRecord(records, c.zone, c.name, c.type, p.content)
            /\ UNCHANGED <<status, auto, domains>>
      [] step = "DeleteDNSRecord" ->
            /\ \E c \in {CustomAt[p.id]} :
                  records' = IF c.zone \notin domains THEN records
                             ELSE DeleteDNSRecord(records, c.zone, c.name, c.type)
            /\ UNCHANGED <<status, auto, domains>>
      [] step = "DeactivateAutoRecords" ->
            /\ DeactivateAutoRecords(CustomAt[p.id].name, CustomAt[p.id].type)
            /\ UNCHANGED <<status, domains>>
      [] step = "ReactivateAutoRecords" ->
            /\ ReactivateAutoRecords(CustomAt[p.id].name, CustomAt[p.id].type)
            /\ UNCHANGED <<status, domains>>
      [] step = "AutoCreateDNSRecords" ->
            AutoCreateDNSRecords(p.id) /\ UNCHANGED <<status, domains>>
      [] step = "AutoDeleteDNSRecords" ->
            AutoDeleteDNSRecords(p.id, lost) /\ UNCHANGED <<status, domains>>
      [] step = "AutoCreateEmailDNSRecords" ->
            AutoCreateEmailDNSRecords(FqdnOf[p.id]) /\ UNCHANGED <<status, domains>>
      [] step = "AutoDeleteEmailDNSRecords" ->
            /\ IF LastMail(p.id) THEN AutoDeleteEmailDNSRecords(FqdnOf[p.id], lost)
               ELSE UNCHANGED <<auto, records>>
            /\ UNCHANGED <<status, domains>>
      [] OTHER -> UNCHANGED <<status, auto, domains, records>>
-----------------------------------------------------------------------------
(* The workflow engine.                                                    *)

\* The FQDNs whose records a row's workflows work on.
Touches(id) ==
    IF id \in Zones THEN {f \in Fqdns : id \in Range(Candidates[f])}
    ELSE IF id \in Mails THEN {FqdnOf[id]}
    ELSE IF id \in Customs THEN {CustomAt[id].name.host} ELSE {id}

Start(t) ==
    /\ run[t] = Idle /\ queue[t] # <<>>
    /\ run' = [run EXCEPT ![t] = [wf |-> Head(queue[t]).wf, id |-> Head(queue[t]).id,
                                  content |-> Head(queue[t]).content, pc |-> 1]]
    /\ queue' = [queue EXCEPT ![t] = Tail(@)]
    /\ crossed' = crossed \cup UNION {Touches(run[u].id) \cap Touches(Head(queue[t]).id) :
                                     u \in {v \in Tenants : run[v] # Idle}}
    /\ UNCHANGED <<dbVars, open, ops, faults, hurt, kept, muted>>

Advance(t) ==
    run' = [run EXCEPT ![t] = IF @.pc = Len(Program[@.wf]) THEN Idle ELSE [@ EXCEPT !.pc = @ + 1]]

\* What is served, or gone, needs no excuse any more.
Histories(p, step, lost) ==
    /\ hurt' = IF step = "provisioning" /\ status[p.id] = "none" THEN hurt \cup {p.id} ELSE hurt
    /\ kept' = {r \in kept \cup Leaves(p, step, lost) :
                  r \in records' \/ \E a \in auto' : Pushed(a) = r}
    /\ muted' = {r \in muted \cup Mutes(p, step) : r \in auto' /\ Pushed(r) \notin records'}
    /\ UNCHANGED crossed

Activity(t) ==
    /\ run[t] # Idle
    /\ \E p \in {run[t]} : \E step \in {Program[p.wf][p.pc]} :
       \E lost \in SUBSET Droppable(p, step) :
          /\ \/ lost = {} /\ UNCHANGED faults
             \/ lost # {} /\ faults < MaxFaults /\ faults' = faults + 1
          /\ CanSucceed(p, step) /\ Effect(p, step, lost)
          /\ Histories(p, step, lost)
    /\ Advance(t)
    /\ UNCHANGED <<content, queue, open, ops>>

\* A failure the code ignores, reports as the row's failed status, or cannot
\* even report.
Fails(t, p, step) ==
    /\ IF step \in Ignored THEN Advance(t) ELSE run' = [run EXCEPT ![t] = Idle]
    /\ status' = IF step \in Ignored \cup Silent \/ status[p.id] = "none" THEN status
                 ELSE [status EXCEPT ![p.id] = "failed"]
    /\ hurt' = hurt \cup {p.id}

ActivityFails(t) ==
    /\ run[t] # Idle
    /\ \E p \in {run[t]} : \E step \in {Program[p.wf][p.pc]} :
          /\ step # "unregistered"
          /\ \/ faults < MaxFaults /\ faults' = faults + 1
             \/ ~CanSucceed(p, step) /\ faults' = faults
          /\ Fails(t, p, step)
    /\ UNCHANGED <<content, auto, domains, records, queue, open, ops, kept, muted, crossed>>
-----------------------------------------------------------------------------
(* The API operations of zones, FQDNs, mail accounts and custom records.   *)

\* The row is written; the signal follows.
Request(id, wf, c) ==
    /\ ops < MaxOps /\ ops' = ops + 1
    /\ Cardinality(open) < MaxOpen
    /\ \E q \in {[wf |-> wf, id |-> id, content |-> c]} : q \notin open /\ open' = open \cup {q}
    /\ UNCHANGED <<auto, domains, records, queue, run, faults, history>>

\* signalProvision, after the reads of the row that give the tenant.
Signal(q) ==
    /\ status[q.id] # "none"
    /\ queue' = [queue EXCEPT ![TenantOf[q.id]] = Append(@, q)]
    /\ open' = open \ {q}
    /\ UNCHANGED <<dbVars, run, ops, faults, history>>

\* The row is gone meanwhile, or Temporal does not take the signal: the
\* request ends with an error and the row stays as written.
SignalLost(q) ==
    /\ \/ status[q.id] = "none" /\ UNCHANGED <<faults, hurt>>
       \/ faults < MaxFaults /\ faults' = faults + 1 /\ hurt' = hurt \cup {q.id}
    /\ open' = open \ {q}
    /\ UNCHANGED <<dbVars, queue, run, ops, kept, muted, crossed>>

CreateWorkflowOf(id) ==
    IF id \in Zones THEN "CreateZoneWorkflow"
    ELSE IF id \in Fqdns THEN "BindFQDNWorkflow"
    ELSE IF id \in Mails THEN "CreateEmailAccountWorkflow" ELSE "CreateZoneRecordWorkflow"

DeleteWorkflowOf(id) ==
    IF id \in Zones THEN "DeleteZoneWorkflow"
    ELSE IF id \in Fqdns THEN "UnbindFQDNWorkflow"
    ELSE IF id \in Mails THEN "DeleteEmailAccountWorkflow" ELSE "DeleteZoneRecordWorkflow"

RetryWorkflowOf(id) == IF id \in Fqdns THEN "CreateFQDNWorkflow" ELSE CreateWorkflowOf(id)

Parent(id) ==
    IF id \in Mails THEN {FqdnOf[id]} ELSE IF id \in Customs THEN {CustomAt[id].zone} ELSE {}

Create(id) ==
    /\ status[id] = "none"
    /\ \A p \in Parent(id) : status[p] # "none"
    /\ SetStatus(id, "pending")
    /\ \E c \in IF id \in Customs THEN Contents ELSE {"none"} :
          /\ content' = IF id \in Customs THEN [content EXCEPT ![id] = c] ELSE content
          /\ Request(id, CreateWorkflowOf(id), c)

Delete(id) ==
    /\ status[id] # "none"
    /\ SetStatus(id, "deleting")
    /\ Request(id, DeleteWorkflowOf(id), "none")
    /\ UNCHANGED content

Retry(id) ==
    /\ status[id] = "failed"
    /\ SetStatus(id, "provisioning")
    /\ Request(id, RetryWorkflowOf(id), IF id \in Customs THEN content[id] ELSE "none")
    /\ UNCHANGED content

UpdateRecord(c) ==
    /\ status[c] # "none"
    /\ \E v \in Contents :
          content' = [content EXCEPT ![c] = v] /\ Request(c, "UpdateZoneRecordWorkflow", v)
    /\ UNCHANGED status
-----------------------------------------------------------------------------
\* What is there at first was created zones first, so that the records of an
\* FQDN are in its most specific zone.
Init ==
    /\ \E there \in Starts : status = [r \in Rows |-> IF r \in there THEN "active" ELSE "none"]
    /\ content = [c \in Customs |-> "none"]
    /\ domains = {z \in Zones : status[z] = "active"}
    /\ LET in(f) == findZoneForFQDN(f)
       IN  auto = UNION ({LBRows(in(f), f) : f \in {g \in Fqdns : status[g] = "active" /\ in(g) # "none"}}
                   \cup {MailRows(in(FqdnOf[m]), FqdnOf[m]) :
                            m \in {x \in Mails : status[x] = "active" /\ in(FqdnOf[x]) # "none"}})
    /\ records = {Pushed(r) : r \in auto}
    /\ queue = [t \in Tenants |-> <<>>] /\ run = [t \in Tenants |-> Idle]
    /\ open = {} /\ ops = 0 /\ faults = 0
    /\ hurt = {} /\ kept = {} /\ muted = {} /\ crossed = {}

Next ==
    \/ \E id \in Rows : Create(id) \/ Delete(id) \/ Retry(id)
    \/ \E c \in Customs : UpdateRecord(c)
    \/ \E q \in open : Signal(q) \/ SignalLost(q)
    \/ \E t \in Tenants : Start(t) \/ Activity(t) \/ ActivityFails(t)

Spec == Init /\ [][Next]_vars
-----------------------------------------------------------------------------
Quiet == open = {} /\ \A t \in Tenants : run[t] = Idle /\ queue[t] = <<>>

Overridden(n, t) == hasCustomRecord(n, {t})

TypeOK ==
    /\ status \in [Rows -> {"none", "pending", "provisioning", "active", "failed", "deleting"}]
    /\ content \in [Customs -> Contents \cup {"none"}]
    /\ auto \subseteq UNION {MailRows(z, f) \cup LBRows(z, f) : z \in Zones, f \in Fqdns}
    /\ domains \subseteq Zones
    /\ \A r \in records : r.zone \in Zones /\ r.name.host \in Fqdns
    /\ \A t \in Tenants : \A i \in DOMAIN queue[t] : queue[t][i].id \in Rows
    /\ \A t \in Tenants : run[t] # Idle =>
          run[t].id \in Rows /\ run[t].pc \in DOMAIN Program[run[t].wf]
    /\ ops \in 0 .. MaxOps /\ faults \in 0 .. MaxFaults /\ hurt \subseteq Rows
    /\ Cardinality(open) <= MaxOpen /\ muted \subseteq auto /\ crossed \subseteq Fqdns

\* No activity and no signal failed that works on the FQDN's records, reported
\* or not, no task outlived its row, and no two tenants' workflows worked on
\* them at a time: their queues are not ordered.
Undisturbed(f) == f \notin crossed /\ {id \in Rows : f \in Touches(id)} \cap hurt = {}

\* UnbindFQDNWorkflow and DeleteEmailAccountWorkflow: when nothing is running,
\* PowerDNS answers for no FQDN that is gone with a load balancer's address and
\* for no FQDN without mail accounts with a mail record, whatever was created,
\* overridden and deleted in between, unless the FQDN was disturbed.  Excepted
\* are the records that the deletion left, with success reported: PowerDNS did
\* not take the deletion, or the record is in another zone than the one found
\* for the FQDN by then, of several nested ones or of those that are active.
UnboundIsUnserved ==
    Quiet => \A f \in Fqdns : Undisturbed(f) =>
        LET served == {r \in UNION {LBRows(z, f) \cup MailRows(z, f) : z \in Zones} :
                          Pushed(r) \notin kept /\ (Pushed(r) \in records \/ r \in auto)}
        IN  /\ status[f] = "none" => \A r \in served : r.src # "fqdn"
            /\ (\A m \in Mails : FqdnOf[m] = f => status[m] = "none") =>
                  \A r \in served : r.src # "email"

\* createAutoRecord, DeactivateAutoRecords and ReactivateAutoRecords: when
\* nothing is running, every automatic record of an active zone is served
\* unless a custom record of its name and type is active, and then it is not,
\* unless the FQDN was disturbed.  Excepted are the records that a custom one
\* keeps out for good (see Mutes: an address of the other family, the record of
\* another zone than the custom record's), and records a deletion left.
AutoServedUnlessOverridden ==
    Quiet => \A r \in auto :
        (status[r.zone] = "active" /\ Undisturbed(r.name.host)
         /\ r \notin muted /\ Pushed(r) \notin kept)
            => (Pushed(r) \in records <=> ~Overridden(r.name, r.type))

\* "custom records take priority over auto records" (activity/dns.go): when
\* nothing is running, PowerDNS serves every active custom record.
CustomIsServed ==
    Quiet => \A c \in Customs :
        (status[c] = "active" /\ hurt = {}) =>
            Rec(CustomAt[c].zone, CustomAt[c].name, CustomAt[c].type, content[c]) \in records
=============================================================================
