------------------------------ MODULE Incidents ------------------------------
(***************************************************************************)
(* Incidents: reported by the health crons (internal/workflow/*_monitor.go,*)
(* replication_health.go) and through the API, investigated by the agent   *)
(* (internal/workflow/incident_agent.go, internal/activity/agent.go),      *)
(* escalated by a cron (incident_escalation.go), and changed by operators  *)
(* (internal/core/incident.go) at any time.  Every writer reads and writes *)
(* the incidents table in statements of its own; only the claim of the     *)
(* agent is conditional.                                                   *)
(*                                                                         *)
(* A key is a dedupe_key; it fixes the type and the resource of the        *)
(* incident.  Events of the timeline and webhooks are left out: nothing    *)
(* reads them back.  Each Temporal schedule skips a run while the previous *)
(* one is open, so that every cron is one process.                         *)
(***************************************************************************)
EXTENDS Naturals, FiniteSets

CONSTANTS Keys,                 \* dedupe keys
          Types,                \* incident types
          TypeOf,               \* the type of a key
          Monitors,             \* a health cron and a resource it checks
          Watches,              \* per monitor: the keys it reports
          Api,                  \* the POST /incidents handler
          MaxIncidents,         \* bound: rows ever inserted
          BatchLimit,           \* LIMIT of the agent's query
          MaxConcurrent,        \* AGENT_MAX_CONCURRENT
          FollowerConcurrent,   \* AGENT_FOLLOWER_CONCURRENT
          MaxEvents             \* bound: operator requests, API reports, faults

ASSUME IncidentAssumption ==
    /\ Keys # {}
    /\ TypeOf \in [Keys -> Types]
    /\ Watches \in [Monitors -> SUBSET Keys]
    /\ Api \notin Monitors
    /\ MaxIncidents \in Nat
    /\ BatchLimit \in Nat \ {0}
    /\ MaxConcurrent \in Nat \ {0}
    /\ FollowerConcurrent \in Nat \ {0}
    /\ MaxEvents \in Nat

VARIABLES
    inc,       \* the rows of incidents, status "none" where there is none
    ill,       \* the keys whose problem exists
    rep,       \* per reporter: where its report stands
    sweep,     \* the stale incidents the escalation cron has yet to escalate
    stage,     \* per incident: its place in the agent's batch
    leader,    \* per type: the leader of the group, 0 before it is taken up
    tries,     \* history: investigations started per incident
    events     \* history: operator requests, API reports and faults so far

vars == <<inc, ill, rep, sweep, stage, leader, tries, events>>
agentVars == <<stage, leader, tries>>

Ids == 1..MaxIncidents
Reporters == Monitors \union {Api}
Closed == {"resolved", "cancelled"}
Worked == {"investigating", "remediating"}
Statuses == {"none", "open", "escalated"} \union Closed \union Worked

\* assigned: nobody (NULL), the agent or a human; graded: the severity is
\* critical or warning, not info.
Rows == [status : Statuses, key : Keys, assigned : {"nobody", "agent", "human"},
         graded : BOOLEAN]

Reports == [pc : {"idle", "select", "insert", "resolve"}, todo : SUBSET Keys, key : Keys]

TypeOK ==
    /\ inc \in [Ids -> Rows]
    /\ ill \subseteq Keys
    /\ rep \in [Reporters -> Reports]
    /\ sweep \subseteq Ids
    /\ stage \in [Ids -> {"out", "listed", "claimed", "running", "done"}]
    /\ leader \in [Types -> Ids \union {0}]
    /\ tries \in [Ids -> Nat]
    /\ events \in 0..MaxEvents

AnyKey == CHOOSE k \in Keys : TRUE
NoRow == [status |-> "none", key |-> AnyKey, assigned |-> "nobody",
          graded |-> FALSE]
IdleReporter == [pc |-> "idle", todo |-> {}, key |-> AnyKey]

Init ==
    /\ inc = [i \in Ids |-> NoRow]
    /\ ill = {}
    /\ rep = [r \in Reporters |-> IdleReporter]
    /\ sweep = {}
    /\ stage = [i \in Ids |-> "out"]
    /\ leader = [t \in Types |-> 0]
    /\ tries = [i \in Ids |-> 0]
    /\ events = 0

Event == events < MaxEvents /\ events' = events + 1

(***************************************************************************)
(* The table.                                                              *)
(***************************************************************************)
IsOpen(row) == row.status \notin Closed \union {"none"}
OpenKey(table, k) == {i \in Ids : table[i].key = k /\ IsOpen(table[i])}

\* idx_incidents_dedupe_open.
Unique(table) == \A k \in Keys : Cardinality(OpenKey(table, k)) <= 1

\* One statement: refused as a whole by the index.
Write(table) == inc' = IF Unique(table) THEN table ELSE inc

\* A plausible mistake: an assignment that is not given is written as "".
UpdatedBlank(row, s, a) ==
    [row EXCEPT !.status = s, !.assigned = IF a = "nobody" THEN "" ELSE a]

Updated(row, s, a) == [row EXCEPT !.status = s, !.assigned = a]
SetStatus(i, s) == [inc EXCEPT ![i] = Updated(@, s, @.assigned)]

Escalate(i) == Write(SetStatus(i, "escalated"))

\* Incidents the escalation policy watches over.
Neglected(i) ==
    \/ inc[i].status = "open" /\ inc[i].assigned = "nobody" /\ inc[i].graded
    \/ inc[i].status \in Worked

(***************************************************************************)
(* Plausible mistakes, used to show that the properties can fail: the key  *)
(* of a closed incident counts, escalated incidents are not resolved,      *)
(* investigated ones not escalated, a claim does not assign, or does not   *)
(* look at the assignment, and followers do not wait.                      *)
(***************************************************************************)
SelectSeen(r, k) == \E i \in Ids : inc[i].key = k /\ inc[i].status # "none"

AutoResolveUnescalated(m) ==
    /\ rep[m].pc = "resolve"
    /\ inc' = [i \in Ids |-> IF inc[i].key \in Watches[m] /\ IsOpen(inc[i])
                                /\ inc[i].status # "escalated"
                             THEN Updated(inc[i], "resolved", inc[i].assigned) ELSE inc[i]]
    /\ rep' = [rep EXCEPT ![m].pc = "idle"]
    /\ UNCHANGED <<ill, sweep, agentVars, events>>

FindStaleUnassigned(stale) ==
    /\ sweep = {}
    /\ stale # {}
    /\ \A i \in stale : Neglected(i) /\ inc[i].assigned = "nobody"
    /\ sweep' = stale
    /\ UNCHANGED <<inc, ill, rep, agentVars, events>>

ClaimedUnassigned(i) == [inc EXCEPT ![i].status = "investigating"]

ClaimableIfOpen(i) == inc[i].status = "open"

MayClaimAnyFollower(i) ==
    /\ stage[i] = "listed"
    /\ leader[TypeOf[inc[i].key]] # 0

(***************************************************************************)
(* Reports.                                                                *)
(***************************************************************************)
\* Problems come and go.
Problem(k) ==
    /\ \E m \in Monitors : k \in Watches[m]
    /\ ill' = IF k \in ill THEN ill \ {k} ELSE ill \union {k}
    /\ UNCHANGED <<inc, rep, sweep, agentVars, events>>

\* A run of a health cron reaches the resource: it reports every problem it
\* finds, or resolves the incidents of the resource if it finds none.
Observe(m) ==
    LET seen == Watches[m] \intersect ill IN
    /\ rep[m].pc = "idle"
    /\ rep' = [rep EXCEPT ![m] = [@ EXCEPT !.pc = IF seen = {} THEN "resolve" ELSE "select",
                                           !.todo = seen]]
    /\ UNCHANGED <<inc, ill, sweep, agentVars, events>>

\* Room for another row: the bound of the model.
Room == \E i \in Ids : inc[i].status = "none"

ApiReport(k) ==
    /\ Event
    /\ rep[Api].pc = "idle"
    /\ rep' = [rep EXCEPT ![Api] = [@ EXCEPT !.pc = "select", !.todo = {k}]]
    /\ UNCHANGED <<inc, ill, sweep, agentVars>>

\* The report on k is over.
Reported(r, k) ==
    LET rest == rep[r].todo \ {k}
    IN  [rep EXCEPT ![r] = [key |-> AnyKey, todo |-> rest,
                                     pc |-> IF rest = {} THEN "idle" ELSE "select"]]

\* CreateIncident, first statement: an open incident with the key ends it.
SelectFound(r, k) == OpenKey(inc, k) # {}

Select(r) ==
    /\ rep[r].pc = "select"
    /\ \E k \in rep[r].todo :
          rep' = IF SelectFound(r, k) \/ ~Room
                 THEN Reported(r, k)
                 ELSE [rep EXCEPT ![r] = [@ EXCEPT !.pc = "insert", !.key = k]]
    /\ UNCHANGED <<inc, ill, sweep, agentVars, events>>

NextId == CHOOSE i \in Ids : inc[i].status = "none"

Inserted(r, graded) ==
    [inc EXCEPT ![NextId] = [status |-> "open", key |-> rep[r].key,
                             assigned |-> "nobody", graded |-> graded]]

\* Second statement.  When the index refuses it, an activity is retried once.
Insert(r) ==
    /\ rep[r].pc = "insert"
    /\ \E graded \in IF r = Api THEN BOOLEAN ELSE {TRUE} :
          IF ~Room \/ ~Unique(Inserted(r, graded))
          THEN /\ \/ rep' = Reported(r, rep[r].key)
                  \/ Room /\ r # Api /\ rep' = [rep EXCEPT ![r].pc = "select"]
               /\ inc' = inc
          ELSE inc' = Inserted(r, graded) /\ rep' = Reported(r, rep[r].key)
    /\ UNCHANGED <<ill, sweep, agentVars, events>>

\* A read or an insertion that fails twice is logged and dropped.
ReportFails(r) ==
    /\ Event
    /\ rep[r].pc \in {"select", "insert"}
    /\ \E k \in rep[r].todo : (rep[r].pc = "insert" => k = rep[r].key) /\ rep' = Reported(r, k)
    /\ UNCHANGED <<inc, ill, sweep, agentVars>>

AutoResolveIncidents(m) ==
    /\ rep[m].pc = "resolve"
    /\ inc' = [i \in Ids |-> IF inc[i].key \in Watches[m] /\ IsOpen(inc[i])
                             THEN Updated(inc[i], "resolved", inc[i].assigned) ELSE inc[i]]
    /\ rep' = [rep EXCEPT ![m].pc = "idle"]
    /\ UNCHANGED <<ill, sweep, agentVars, events>>

AutoResolveFails(m) ==
    /\ Event
    /\ rep[m].pc = "resolve"
    /\ rep' = [rep EXCEPT ![m].pc = "idle"]
    /\ UNCHANGED <<inc, ill, sweep, agentVars>>

(***************************************************************************)
(* EscalateStaleIncidentsWorkflow.                                         *)
(***************************************************************************)
\* Which of the neglected incidents are past the 15, 30 or 60 minutes since
\* they were last updated is left open.
FindStaleIncidents(stale) ==
    /\ sweep = {}
    /\ stale # {}
    /\ \A i \in stale : Neglected(i)
    /\ sweep' = stale
    /\ UNCHANGED <<inc, ill, rep, agentVars, events>>

\* Unconditional: whatever has become of the incident since it was found.
EscalateStale(i) ==
    /\ i \in sweep
    /\ Escalate(i)
    /\ sweep' = sweep \ {i}
    /\ UNCHANGED <<ill, rep, agentVars, events>>

EscalateStaleFails(i) ==
    /\ Event
    /\ i \in sweep
    /\ sweep' = sweep \ {i}
    /\ UNCHANGED <<inc, ill, rep, agentVars>>

(***************************************************************************)
(* ProcessIncidentQueueWorkflow: the incidents listed are grouped by type, *)
(* a group is led by one incident, and its followers are claimed one after *)
(* the other when the leader has been dealt with.                          *)
(***************************************************************************)
KindOf(i) == TypeOf[inc[i].key]
Group(t) == {i \in Ids : stage[i] # "out" /\ KindOf(i) = t}
Busy(t) == leader[t] # 0 /\ \E i \in Group(t) : stage[i] # "done"

\* The order by severity and age, which picks the BatchLimit incidents and
\* the leader, is left open.
ListUnassignedOpenIncidents ==
    LET free == {i \in Ids : inc[i].status = "open" /\ inc[i].assigned = "nobody"} IN
    /\ \A i \in Ids : stage[i] = "out"
    /\ free # {}
    /\ \E batch \in SUBSET free :
          /\ Cardinality(batch) = IF Cardinality(free) < BatchLimit
                                  THEN Cardinality(free) ELSE BatchLimit
          /\ stage' = [i \in Ids |-> IF i \in batch THEN "listed" ELSE "out"]
    /\ UNCHANGED <<inc, ill, rep, sweep, leader, tries, events>>

StartGroup(t) ==
    /\ leader[t] = 0
    /\ Cardinality({u \in Types : Busy(u)}) < MaxConcurrent
    /\ \E i \in Group(t) : leader' = [leader EXCEPT ![t] = i]
    /\ UNCHANGED <<inc, ill, rep, sweep, stage, tries, events>>

\* The claims of a group are made one at a time, the leader's first; the
\* next one waits until the claimed follower has a slot.
MayClaim(i) ==
    LET l == leader[KindOf(i)] IN
    /\ stage[i] = "listed"
    /\ l # 0
    /\ i # l => stage[l] = "done" /\ \A j \in Group(KindOf(i)) : stage[j] # "claimed"

Claimable(i) == inc[i].assigned = "nobody" /\ inc[i].status = "open"
Claimed(i) == [inc EXCEPT ![i] = Updated(@, "investigating", "agent")]

ClaimIncidentForAgent(i) ==
    /\ MayClaim(i)
    /\ IF Claimable(i)
       THEN inc' = Claimed(i) /\ stage' = [stage EXCEPT ![i] = "claimed"]
       ELSE inc' = inc /\ stage' = [stage EXCEPT ![i] = "done"]
    /\ UNCHANGED <<ill, rep, sweep, leader, tries, events>>

\* The claim fails, or it is written and its answer lost: the retry then
\* finds the incident assigned and takes it for somebody else's.
ClaimFails(i) ==
    /\ Event
    /\ MayClaim(i)
    /\ inc' \in {inc} \union {x \in {Claimed(i)} : Claimable(i)}
    /\ stage' = [stage EXCEPT ![i] = "done"]
    /\ UNCHANGED <<ill, rep, sweep, leader, tries>>

\* Followers wait for a slot of the group's semaphore.
Investigate(i) ==
    LET l == leader[KindOf(i)]
        running == {j \in Group(KindOf(i)) : j # l /\ stage[j] = "running"} IN
    /\ stage[i] = "claimed"
    /\ i # l => Cardinality(running) < FollowerConcurrent
    /\ stage' = [stage EXCEPT ![i] = "running"]
    /\ tries' = [tries EXCEPT ![i] = @ + 1]
    /\ UNCHANGED <<inc, ill, rep, sweep, leader, events>>

\* The last tool call resolves or escalates; a failure and the last turn
\* escalate.  The agent works on the incident it was given.
InvestigationEnds(i) ==
    /\ stage[i] = "running"
    /\ \E s \in {"resolved", "escalated"} : Write(SetStatus(i, s))
    /\ stage' = [stage EXCEPT ![i] = "done"]
    /\ UNCHANGED <<ill, rep, sweep, leader, tries, events>>

\* A tool call that fails ends the investigation like one that succeeds, and
\* an escalation that fails three times is only logged.
InvestigationEndsUnwritten(i) ==
    /\ Event
    /\ stage[i] = "running"
    /\ stage' = [stage EXCEPT ![i] = "done"]
    /\ UNCHANGED <<inc, ill, rep, sweep, leader, tries>>

QueueEnds ==
    /\ \A i \in Ids : stage[i] \in {"out", "done"}
    /\ \E i \in Ids : stage[i] = "done"
    /\ stage' = [i \in Ids |-> "out"]
    /\ leader' = [t \in Types |-> 0]
    /\ UNCHANGED <<inc, ill, rep, sweep, tries, events>>

(***************************************************************************)
(* Operators.  No request looks at the status the incident has; assigned_to*)
(* can be set and not cleared.  (A change of severity, which takes an open *)
(* incident into the escalation policy or out of it, is left out.)         *)
(***************************************************************************)
Resolve(i) == Write(SetStatus(i, "resolved"))
Cancel(i) == Write(SetStatus(i, "cancelled"))

Update(i) ==
    \E s \in {inc[i].status, "open"} \union Worked, a \in {inc[i].assigned, "human"} :
       Write([inc EXCEPT ![i] = Updated(@, s, a)])

Operator(i) ==
    /\ Event
    /\ inc[i].status # "none"
    /\ Resolve(i) \/ Cancel(i) \/ Escalate(i) \/ Update(i)
    /\ UNCHANGED <<ill, rep, sweep, agentVars>>

(***************************************************************************)
(* The specification.                                                      *)
(***************************************************************************)
ReporterStep(r) == Select(r) \/ Insert(r)
AgentStep ==
    \/ ListUnassignedOpenIncidents
    \/ QueueEnds
    \/ \E t \in Types : StartGroup(t)
    \/ \E i \in Ids : ClaimIncidentForAgent(i) \/ Investigate(i) \/ InvestigationEnds(i)
SweepStep == \/ \E stale \in SUBSET Ids : FindStaleIncidents(stale)
             \/ \E i \in Ids : EscalateStale(i)

Next ==
    \/ \E k \in Keys : Problem(k) \/ ApiReport(k)
    \/ \E m \in Monitors : Observe(m) \/ AutoResolveIncidents(m) \/ AutoResolveFails(m)
    \/ \E r \in Reporters : ReporterStep(r) \/ ReportFails(r)
    \/ SweepStep
    \/ AgentStep
    \/ \E i \in Ids : \/ EscalateStaleFails(i)
                      \/ ClaimFails(i)
                      \/ InvestigationEndsUnwritten(i)
                      \/ Operator(i)

Spec == Init /\ [][Next]_vars

\* The schedules keep starting their workflows, Temporal carries these out,
\* an investigation is cut off after 30 minutes, and an incident that stays
\* neglected is past its threshold one day.  Problems,
\* requests and faults happen or not.
FairSpec ==
    /\ Spec
    /\ WF_vars(SweepStep)
    /\ WF_vars(AgentStep)
    /\ \A r \in Reporters : WF_vars(ReporterStep(r))
    /\ \A m \in Monitors : WF_vars(Observe(m) \/ AutoResolveIncidents(m))
    /\ \A i \in Ids : SF_vars(\E stale \in SUBSET Ids : i \in stale /\ FindStaleIncidents(stale))

(***************************************************************************)
(* Properties.                                                             *)
(***************************************************************************)
\* The agent investigates an incident at most once, also one that operators
\* reopen or that is escalated and resolved while it works
\* (ListUnassignedOpenIncidents, ClaimIncidentForAgent).
InvestigatedOnce == \A i \in Ids : tries[i] <= 1

\* What an operator has taken on stays with the operator: the agent's claim
\* does not take over an incident assigned after the agent had listed it.
HumanKeepsIncident ==
    [][\A i \in Ids : inc[i].assigned = "human" => inc'[i].assigned = "human"]_vars

\* processIncidentGroup: until the leader of a group has been dealt with, none
\* of its followers is claimed, and at most one claimed follower at a time
\* waits for its investigation, whose time is running already.
GroupPaced ==
    \A t \in Types : leader[t] # 0 =>
        /\ stage[leader[t]] # "done" =>
              \A i \in Group(t) \ {leader[t]} : stage[i] = "listed"
        /\ \A i, j \in Group(t) : stage[i] = "claimed" /\ stage[j] = "claimed" => i = j

\* No incident stays unassigned or under investigation for good, not even one
\* the agent claimed without learning of it (EscalateStaleIncidentsWorkflow).
NeglectEnds == \A i \in Ids : Neglected(i) ~> ~Neglected(i)

\* When a resource has recovered for good, its incidents end up closed: also
\* one that is escalated by a cron or an agent that found it open before the
\* health cron resolved it (autoResolveIncidents).
RecoveredIsClosed ==
    \A m \in Monitors :
        <>[](Watches[m] \intersect ill = {}) =>
            <>[](\A k \in Watches[m] : OpenKey(inc, k) = {})

\* A problem that stays has an open incident again and again, also after an
\* earlier incident with its key was closed (CreateIncident); Room is the
\* bound of the model.
IllIsReported ==
    \A m \in Monitors : \A k \in Watches[m] :
        <>[](k \in ill) => []<>(OpenKey(inc, k) # {} \/ ~Room)
=============================================================================
