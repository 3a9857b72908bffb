--------------------------- MODULE IncidentsProofs ---------------------------
(***************************************************************************)
(* Proofs about Incidents, for every set of keys, types and monitors and   *)
(* all bounds: the agent investigates an incident once, leaves operators   *)
(* theirs, and paces its groups.                                           *)
(***************************************************************************)
EXTENDS Incidents, TLAPS

(***************************************************************************)
(* The inductive invariant.                                                *)
(***************************************************************************)
\* Only rows are swept or investigated, and a row is inserted unassigned.
RowsKnown ==
    \A i \in Ids : inc[i].status = "none" =>
        inc[i].assigned = "nobody" /\ stage[i] = "out" /\ i \notin sweep

\* An investigation begins with a claim, and a claim with an unassigned row.
OncePerClaim ==
    \A i \in Ids :
        /\ inc[i].assigned = "nobody" => tries[i] = 0 /\ stage[i] \notin {"claimed", "running"}
        /\ stage[i] = "claimed" => tries[i] = 0

\* The leader of a group belongs to it, and before there is one the group has
\* not been touched.
Led ==
    \A t \in Types :
        /\ leader[t] # 0 => leader[t] \in Group(t)
        /\ leader[t] = 0 => \A i \in Group(t) : stage[i] = "listed"

IncidentInv ==
    /\ TypeOK
    /\ RowsKnown
    /\ OncePerClaim
    /\ InvestigatedOnce
    /\ Led
    /\ GroupPaced

\* What all writers but the agent's claim do to a row: it stays, with its key,
\* and is assigned as it was or to a human.
Kept(i) ==
    /\ inc[i].status # "none" => inc'[i].status # "none" /\ inc'[i].key = inc[i].key
    /\ inc'[i].status = "none" => inc'[i] = inc[i]
    /\ inc'[i].assigned \in {inc[i].assigned, "human"}

\* What every step preserves.
Preserved ==
    /\ IncidentInv'
    /\ \A i \in Ids : inc[i].assigned = "human" => inc'[i].assigned = "human"

-----------------------------------------------------------------------------
\* With an empty table nothing is claimed.
LEMMA InitInv == Init => IncidentInv
  <1> SUFFICES ASSUME Init PROVE IncidentInv
      OBVIOUS
  <1>0. AnyKey \in Keys
    BY IncidentAssumption DEF AnyKey
  <1>1. TypeOK
    BY <1>0, IncidentAssumption DEF Init, TypeOK, Rows, Reports, Statuses, NoRow, IdleReporter
  <1>2. RowsKnown /\ OncePerClaim /\ InvestigatedOnce
    BY DEF Init, RowsKnown, OncePerClaim, InvestigatedOnce, NoRow
  <1>3. Led /\ GroupPaced
    BY DEF Init, Led, GroupPaced, Group, NoRow
  <1> QED  BY <1>1, <1>2, <1>3 DEF IncidentInv

\* Steps that leave the agent alone and keep the rows preserve the invariant.
LEMMA KeptInv ==
  ASSUME IncidentInv, TypeOK', UNCHANGED agentVars,
         \A i \in Ids : Kept(i),
         \A i \in Ids : i \in sweep' => inc'[i].status # "none"
  PROVE  Preserved
  <1> USE DEF IncidentInv
  <1>1. RowsKnown'
    BY DEF RowsKnown, Kept, TypeOK, agentVars
  <1>2. OncePerClaim' /\ InvestigatedOnce'
    BY DEF OncePerClaim, InvestigatedOnce, Kept, TypeOK, agentVars
  <1>3. \A t \in Types : Group(t)' = Group(t)
    BY DEF Group, KindOf, RowsKnown, Kept, TypeOK, agentVars
  <1>4. Led' /\ GroupPaced'
    BY <1>3 DEF Led, GroupPaced, TypeOK, agentVars
  <1> QED  BY <1>1, <1>2, <1>4 DEF Kept, Preserved

-----------------------------------------------------------------------------
\* The table: a new status, and an insertion, keep the other rows.
LEMMA UpdatedRow ==
  ASSUME NEW row \in Rows, NEW s \in Statuses, NEW a \in {"nobody", "agent", "human"}
  PROVE  /\ Updated(row, s, a) \in Rows
         /\ Updated(row, s, a).status = s
         /\ Updated(row, s, a).assigned = a
         /\ Updated(row, s, a).key = row.key
  BY DEF Updated, Rows

LEMMA WriteKept ==
  ASSUME TypeOK, NEW i \in Ids, inc[i].status # "none",
         NEW s \in Statuses \ {"none"}, NEW a \in {inc[i].assigned, "human"},
         Write([inc EXCEPT ![i] = Updated(@, s, a)])
  PROVE  inc' \in [Ids -> Rows] /\ \A j \in Ids : Kept(j)
  <1> DEFINE row == Updated(inc[i], s, a)
  <1>1. inc[i] \in Rows /\ a \in {"nobody", "agent", "human"}
    BY DEF TypeOK, Rows
  <1>2. /\ row \in Rows /\ row.status = s /\ row.key = inc[i].key
        /\ row.assigned \in {inc[i].assigned, "human"}
    BY <1>1, UpdatedRow
  <1> HIDE DEF row
  <1>3. inc' = [inc EXCEPT ![i] = row] \/ inc' = inc
    BY DEF Write, row
  <1> QED  BY <1>2, <1>3 DEF TypeOK, Kept

LEMMA SetStatusKept ==
  ASSUME TypeOK, NEW i \in Ids, inc[i].status # "none",
         NEW s \in Statuses \ {"none"}, Write(SetStatus(i, s))
  PROVE  inc' \in [Ids -> Rows] /\ \A j \in Ids : Kept(j)
  BY WriteKept, inc[i].assigned \in {inc[i].assigned, "human"} DEF SetStatus

LEMMA InsertedKept ==
  ASSUME TypeOK, RowsKnown, Room, NEW r \in Reporters, NEW g \in BOOLEAN,
         inc' = Inserted(r, g)
  PROVE  inc' \in [Ids -> Rows] /\ \A j \in Ids : Kept(j)
  <1>1. NextId \in Ids /\ inc[NextId].status = "none"
    BY DEF Room, NextId
  <1> DEFINE row == [status |-> "open", key |-> rep[r].key, assigned |-> "nobody", graded |-> g]
  <1>2. row \in Rows /\ row.status = "open" /\ row.assigned = "nobody"
    BY DEF TypeOK, Reports, Rows, Statuses
  <1> HIDE DEF row
  <1>3. inc' = [inc EXCEPT ![NextId] = row]
    BY DEF Inserted, row
  <1> QED  BY <1>1, <1>2, <1>3 DEF TypeOK, RowsKnown, Kept

LEMMA ReportedType ==
  ASSUME TypeOK, NEW r \in Reporters, NEW k \in Keys
  PROVE  Reported(r, k) \in [Reporters -> Reports]
  <1>1. AnyKey \in Keys
    BY IncidentAssumption DEF AnyKey
  <1> QED  BY <1>1 DEF TypeOK, Reports, Reported

\* Requests and faults stay within their bound.
LEMMA EventType ==
  ASSUME TypeOK, Event
  PROVE  events' \in 0..MaxEvents
  BY IncidentAssumption DEF TypeOK, Event

-----------------------------------------------------------------------------
\* Every reporter, cron and operator keeps the rows and leaves the agent alone.
LEMMA ReporterInv ==
  ASSUME IncidentInv, NEW r \in Reporters,
         Select(r) \/ Insert(r) \/ ReportFails(r)
  PROVE  Preserved
  <1> USE DEF IncidentInv
  <1>1. CASE Select(r)
    <2>1. PICK k \in rep[r].todo :
             rep' = IF SelectFound(r, k) \/ ~Room
                    THEN Reported(r, k)
                    ELSE [rep EXCEPT ![r] = [@ EXCEPT !.pc = "insert", !.key = k]]
      BY <1>1 DEF Select
    <2>2. k \in Keys
      BY DEF TypeOK, Reports
    <2>3. rep' \in [Reporters -> Reports]
      BY <2>1, <2>2, ReportedType DEF TypeOK, Reports
    <2>4. TypeOK'
      BY <1>1, <2>3 DEF Select, TypeOK, agentVars
    <2>5. UNCHANGED agentVars /\ (\A i \in Ids : Kept(i)) /\ sweep' = sweep /\ inc' = inc
      BY <1>1 DEF Select, Kept
    <2> QED  BY <2>4, <2>5, KeptInv DEF RowsKnown
  <1>2. CASE Insert(r)
    <2>1. PICK g \in BOOLEAN :
             IF ~Room \/ ~Unique(Inserted(r, g))
             THEN /\ \/ rep' = Reported(r, rep[r].key)
                     \/ Room /\ r # Api /\ rep' = [rep EXCEPT ![r].pc = "select"]
                  /\ inc' = inc
             ELSE inc' = Inserted(r, g) /\ rep' = Reported(r, rep[r].key)
      BY <1>2 DEF Insert
    <2>2. rep' \in [Reporters -> Reports]
      <3>1. rep[r].key \in Keys
        BY DEF TypeOK, Reports
      <3>2. [rep EXCEPT ![r].pc = "select"] \in [Reporters -> Reports]
        BY DEF TypeOK, Reports
      <3> QED  BY <2>1, <3>1, <3>2, ReportedType
    <2>3. inc' \in [Ids -> Rows] /\ \A i \in Ids : Kept(i)
      <3>1. CASE inc' = inc
        BY <3>1 DEF TypeOK, Kept
      <3>2. CASE Room /\ inc' = Inserted(r, g)
        BY <3>2, InsertedKept
      <3> QED  BY <2>1, <3>1, <3>2
    <2>4. TypeOK' /\ UNCHANGED agentVars /\ sweep' = sweep
      BY <1>2, <2>2, <2>3 DEF Insert, TypeOK, agentVars
    <2>5. \A i \in Ids : i \in sweep' => inc'[i].status # "none"
      BY <2>3, <2>4 DEF RowsKnown, Kept
    <2> QED  BY <2>3, <2>4, <2>5, KeptInv
  <1>3. CASE ReportFails(r)
    <2>1. PICK k \in rep[r].todo : rep' = Reported(r, k)
      BY <1>3 DEF ReportFails
    <2>2. k \in Keys
      BY DEF TypeOK, Reports
    <2>3. TypeOK'
      BY <1>3, <2>1, <2>2, ReportedType, EventType DEF ReportFails, TypeOK, agentVars
    <2>4. UNCHANGED agentVars /\ (\A i \in Ids : Kept(i)) /\ sweep' = sweep /\ inc' = inc
      BY <1>3 DEF ReportFails, Kept
    <2> QED  BY <2>3, <2>4, KeptInv DEF RowsKnown
  <1> QED  BY <1>1, <1>2, <1>3

LEMMA MonitorInv ==
  ASSUME IncidentInv, NEW m \in Monitors,
         Observe(m) \/ AutoResolveIncidents(m) \/ AutoResolveFails(m)
  PROVE  Preserved
  <1> USE DEF IncidentInv
  <1>0. m \in Reporters
    BY DEF Reporters
  <1>1. CASE Observe(m)
    <2>1. TypeOK'
      BY <1>0, <1>1, IncidentAssumption DEF Observe, TypeOK, Reports, agentVars
    <2>2. UNCHANGED agentVars /\ (\A i \in Ids : Kept(i)) /\ sweep' = sweep /\ inc' = inc
      BY <1>1 DEF Observe, Kept
    <2> QED  BY <2>1, <2>2, KeptInv DEF RowsKnown
  <1>2. CASE AutoResolveIncidents(m)
    <2>1. \A i \in Ids : inc'[i] = inc[i] \/ /\ inc[i].status # "none"
                                             /\ inc'[i] = Updated(inc[i], "resolved", inc[i].assigned)
      BY <1>2 DEF AutoResolveIncidents, IsOpen
    <2>2. \A i \in Ids : inc'[i] \in Rows /\ Kept(i)
      <3> SUFFICES ASSUME NEW i \in Ids PROVE inc'[i] \in Rows /\ Kept(i)
          OBVIOUS
      <3>1. inc[i] \in Rows /\ inc[i].assigned \in {"nobody", "agent", "human"}
        BY DEF TypeOK, Rows
      <3>2. "resolved" \in Statuses
        BY DEF Statuses, Closed
      <3>3. CASE inc'[i] = inc[i]
        BY <3>1, <3>3 DEF Kept
      <3>4. CASE inc[i].status # "none" /\ inc'[i] = Updated(inc[i], "resolved", inc[i].assigned)
        <4> DEFINE row == Updated(inc[i], "resolved", inc[i].assigned)
        <4>1. /\ row \in Rows /\ row.status = "resolved"
              /\ row.key = inc[i].key /\ row.assigned = inc[i].assigned
          BY <3>1, <3>2 DEF Updated, Rows
        <4> HIDE DEF row
        <4>2. inc'[i] = row
          BY <3>4 DEF row
        <4> QED  BY <3>4, <4>1, <4>2 DEF Kept
      <3> QED  BY <2>1, <3>3, <3>4
    <2>3. TypeOK'
      <3>1. inc' \in [Ids -> Rows]
        <4>1. inc' = [j \in Ids |-> inc'[j]]
          BY <1>2 DEF AutoResolveIncidents
        <4> QED  BY <2>2, <4>1
      <3>2. rep' \in [Reporters -> Reports]
        BY <1>0, <1>2 DEF AutoResolveIncidents, TypeOK, Reports
      <3> QED  BY <1>2, <3>1, <3>2 DEF AutoResolveIncidents, TypeOK, agentVars
    <2>4. UNCHANGED agentVars /\ sweep' = sweep
      BY <1>2 DEF AutoResolveIncidents
    <2>5. \A i \in Ids : i \in sweep' => inc'[i].status # "none"
      BY <2>2, <2>4 DEF RowsKnown, Kept
    <2> QED  BY <2>2, <2>3, <2>4, <2>5, KeptInv
  <1>3. CASE AutoResolveFails(m)
    <2>1. TypeOK'
      BY <1>0, <1>3, EventType DEF AutoResolveFails, TypeOK, Reports, agentVars
    <2>2. UNCHANGED agentVars /\ (\A i \in Ids : Kept(i)) /\ sweep' = sweep /\ inc' = inc
      BY <1>3 DEF AutoResolveFails, Kept
    <2> QED  BY <2>1, <2>2, KeptInv DEF RowsKnown
  <1> QED  BY <1>1, <1>2, <1>3

LEMMA SweepInv ==
  ASSUME IncidentInv, NEW i \in Ids, NEW stale \in SUBSET Ids,
         FindStaleIncidents(stale) \/ EscalateStale(i) \/ EscalateStaleFails(i)
  PROVE  Preserved
  <1> USE DEF IncidentInv
  <1>1. CASE FindStaleIncidents(stale)
    <2>1. TypeOK' /\ UNCHANGED agentVars /\ (\A j \in Ids : Kept(j)) /\ inc' = inc
      BY <1>1 DEF FindStaleIncidents, TypeOK, Kept, agentVars
    <2>2. \A j \in Ids : j \in sweep' => inc'[j].status # "none"
      BY <1>1 DEF FindStaleIncidents, Neglected, Worked
    <2> QED  BY <2>1, <2>2, KeptInv
  <1>2. CASE EscalateStale(i)
    <2>1. inc[i].status # "none"
      BY <1>2 DEF EscalateStale, RowsKnown
    <2>2. inc' \in [Ids -> Rows] /\ \A j \in Ids : Kept(j)
      BY <1>2, <2>1, SetStatusKept DEF EscalateStale, Escalate, Statuses
    <2>3. TypeOK' /\ UNCHANGED agentVars /\ sweep' \subseteq sweep
      BY <1>2, <2>2 DEF EscalateStale, TypeOK, agentVars
    <2>4. \A j \in Ids : j \in sweep' => inc'[j].status # "none"
      BY <2>2, <2>3 DEF RowsKnown, Kept
    <2> QED  BY <2>2, <2>3, <2>4, KeptInv
  <1>3. CASE EscalateStaleFails(i)
    <2>1. TypeOK'
      BY <1>3, EventType DEF EscalateStaleFails, TypeOK, agentVars
    <2>2. UNCHANGED agentVars /\ (\A j \in Ids : Kept(j)) /\ sweep' \subseteq sweep /\ inc' = inc
      BY <1>3 DEF EscalateStaleFails, Kept
    <2> QED  BY <2>1, <2>2, KeptInv DEF RowsKnown
  <1> QED  BY <1>1, <1>2, <1>3

LEMMA OperatorInv ==
  ASSUME IncidentInv, NEW i \in Ids, Operator(i)
  PROVE  Preserved
  <1> USE DEF IncidentInv
  <1>1. inc' \in [Ids -> Rows] /\ \A j \in Ids : Kept(j)
    <2>1. CASE Resolve(i) \/ Cancel(i) \/ Escalate(i)
      BY <2>1, SetStatusKept DEF Operator, Resolve, Cancel, Escalate, Statuses, Closed
    <2>2. CASE Update(i)
      <3>1. PICK s \in {inc[i].status, "open"} \union Worked, a \in {inc[i].assigned, "human"} :
               Write([inc EXCEPT ![i] = Updated(@, s, a)])
        BY <2>2 DEF Update
      <3>2. s \in Statuses \ {"none"} /\ inc[i].status # "none"
        BY DEF Operator, TypeOK, Rows, Statuses, Worked
      <3> QED  BY <3>1, <3>2, WriteKept
    <2> QED  BY <2>1, <2>2 DEF Operator
  <1>2. TypeOK' /\ UNCHANGED agentVars /\ sweep' = sweep
    BY <1>1, EventType DEF Operator, TypeOK, agentVars
  <1>3. \A j \in Ids : j \in sweep' => inc'[j].status # "none"
    BY <1>1, <1>2 DEF RowsKnown, Kept
  <1> QED  BY <1>1, <1>2, <1>3, KeptInv

-----------------------------------------------------------------------------
\* The agent's own steps.
LEMMA QueueInv ==
  ASSUME IncidentInv, ListUnassignedOpenIncidents \/ QueueEnds
  PROVE  Preserved
  <1> USE DEF IncidentInv
  <1>1. CASE ListUnassignedOpenIncidents
    <2>1. TypeOK' /\ inc' = inc /\ leader' = leader /\ tries' = tries /\ sweep' = sweep
      BY <1>1 DEF ListUnassignedOpenIncidents, TypeOK
    <2>2. /\ \A i \in Ids : stage[i] = "out" /\ stage'[i] \in {"out", "listed"}
          /\ \A i \in Ids : stage'[i] = "listed" => inc[i].status = "open" /\ inc[i].assigned = "nobody"
      BY <1>1 DEF ListUnassignedOpenIncidents
    <2>3. RowsKnown' /\ OncePerClaim' /\ InvestigatedOnce'
      BY <2>1, <2>2 DEF RowsKnown, OncePerClaim, InvestigatedOnce
    <2>4. \A t \in Types : leader[t] = 0
      BY <2>2 DEF Led, Group, TypeOK
    <2>5. Led' /\ GroupPaced'
      BY <2>1, <2>2, <2>4 DEF Led, GroupPaced, Group
    <2> QED  BY <2>1, <2>3, <2>5 DEF Preserved
  <1>2. CASE QueueEnds
    <2>1. TypeOK' /\ inc' = inc /\ tries' = tries /\ sweep' = sweep
      BY <1>2 DEF QueueEnds, TypeOK
    <2>2. (\A i \in Ids : stage'[i] = "out") /\ \A t \in Types : leader'[t] = 0
      BY <1>2 DEF QueueEnds
    <2>3. RowsKnown' /\ OncePerClaim' /\ InvestigatedOnce'
      BY <2>1, <2>2 DEF RowsKnown, OncePerClaim, InvestigatedOnce
    <2>4. Led' /\ GroupPaced'
      BY <2>2 DEF Led, GroupPaced, Group
    <2> QED  BY <2>1, <2>3, <2>4 DEF Preserved
  <1> QED  BY <1>1, <1>2

LEMMA StartGroupInv ==
  ASSUME IncidentInv, NEW t \in Types, StartGroup(t)
  PROVE  Preserved
  <1> USE DEF IncidentInv
  <1>1. PICK l \in Group(t) : leader' = [leader EXCEPT ![t] = l]
    BY DEF StartGroup
  <1>2. UNCHANGED <<inc, ill, rep, sweep, stage, tries, events>> /\ leader[t] = 0
    BY DEF StartGroup
  <1>3. l \in Ids /\ \A u \in Types : Group(u)' = Group(u)
    BY <1>2 DEF Group, KindOf
  <1>4. TypeOK'
    BY <1>1, <1>2, <1>3 DEF TypeOK
  <1>5. RowsKnown' /\ OncePerClaim' /\ InvestigatedOnce'
    BY <1>2 DEF RowsKnown, OncePerClaim, InvestigatedOnce
  <1>6. l # 0
    BY <1>3, IncidentAssumption DEF Ids
  <1>7. Led'
    BY <1>1, <1>2, <1>3, <1>6 DEF Led, TypeOK
  <1>8. GroupPaced'
    BY <1>1, <1>2, <1>3, <1>6 DEF Led, GroupPaced, TypeOK
  <1> QED  BY <1>2, <1>4, <1>5, <1>7, <1>8 DEF Preserved

\* An incident moves on within its group: what the claims, the start and the
\* end of an investigation have in common.
LEMMA MoveInv ==
  ASSUME IncidentInv, TypeOK', NEW i \in Ids, NEW place \in {"claimed", "running", "done"},
         stage[i] \notin {"out", "done"}, stage' = [stage EXCEPT ![i] = place], leader' = leader, sweep' = sweep,
         leader[KindOf(i)] # 0,
         stage[i] = "listed" \/ place # "claimed",
         stage[i] = "listed" => MayClaim(i),
         \A j \in Ids : inc[j].status # "none" => inc'[j].status # "none" /\ inc'[j].key = inc[j].key,
         \A j \in Ids : inc'[j].status = "none" => inc'[j] = inc[j]
  PROVE  RowsKnown' /\ Led' /\ GroupPaced'
  <1> USE DEF IncidentInv
  <1>1. KindOf(i) \in Types
    BY IncidentAssumption DEF KindOf, TypeOK, Rows
  <1>2. RowsKnown'
    BY DEF RowsKnown, TypeOK
  <1>3. \A t \in Types : Group(t)' = Group(t)
    BY DEF Group, KindOf, RowsKnown, TypeOK
  <1>4. \A t \in Types : i \in Group(t) => t = KindOf(i)
    BY DEF Group
  <1>5. Led'
    BY <1>3, <1>4 DEF Led, TypeOK
  <1>6. GroupPaced'
    <2> SUFFICES ASSUME NEW t \in Types, leader[t] # 0
                 PROVE  /\ stage'[leader[t]] # "done" =>
                              \A j \in Group(t) \ {leader[t]} : stage'[j] = "listed"
                        /\ \A j, k \in Group(t) :
                              stage'[j] = "claimed" /\ stage'[k] = "claimed" => j = k
        BY <1>3 DEF GroupPaced
    <2>0. leader[t] \in Group(t) /\ leader[t] \in Ids
      BY DEF Led, Group
    <2>1. CASE t # KindOf(i)
      BY <1>4, <2>0, <2>1 DEF GroupPaced, Group, TypeOK
    <2>2. CASE t = KindOf(i) /\ i = leader[t]
      BY <2>0, <2>2 DEF GroupPaced, Group, TypeOK
    <2>3. CASE t = KindOf(i) /\ i # leader[t]
      <3>1. stage[leader[t]] = "done" /\ stage'[leader[t]] = "done"
        <4>1. CASE stage[i] = "listed"
          BY <2>0, <2>3, <4>1 DEF MayClaim, TypeOK
        <4>2. CASE stage[i] # "listed"
          BY <2>0, <2>3, <4>2 DEF GroupPaced, Group, TypeOK
        <4> QED  BY <4>1, <4>2
      <3>2. ASSUME place = "claimed" PROVE \A j \in Group(t) : stage[j] # "claimed"
        BY <2>3, <3>2 DEF MayClaim
      <3>3. ASSUME NEW j \in Group(t), NEW k \in Group(t),
                   stage'[j] = "claimed", stage'[k] = "claimed"
            PROVE  j = k
        <4>1. CASE place = "claimed"
          BY <3>2, <3>3, <4>1 DEF Group, TypeOK
        <4>2. CASE place # "claimed"
          BY <3>3, <4>2 DEF GroupPaced, Group, TypeOK
        <4> QED  BY <4>1, <4>2
      <3> QED  BY <3>1, <3>3
    <2> QED  BY <2>1, <2>2, <2>3
  <1> QED  BY <1>2, <1>5, <1>6

\* The row of a claim: only an unassigned one is ever written.
LEMMA ClaimedRows ==
  ASSUME TypeOK, NEW i \in Ids, Claimable(i), inc' = Claimed(i)
  PROVE  /\ inc' \in [Ids -> Rows]
         /\ inc'[i].assigned = "agent" /\ inc'[i].status # "none" /\ inc'[i].key = inc[i].key
         /\ \A j \in Ids : j # i => inc'[j] = inc[j]
         /\ inc[i].status # "none" /\ inc[i].assigned = "nobody"
  <1> DEFINE row == Updated(inc[i], "investigating", "agent")
  <1>1. row \in Rows /\ row.status = "investigating" /\ row.assigned = "agent" /\ row.key = inc[i].key
    BY DEF TypeOK, Updated, Rows, Statuses, Worked
  <1> HIDE DEF row
  <1>2. inc' = [inc EXCEPT ![i] = row]
    BY DEF Claimed, row
  <1> QED  BY <1>1, <1>2 DEF TypeOK, Claimable

LEMMA ClaimInv ==
  ASSUME IncidentInv, NEW i \in Ids, ClaimIncidentForAgent(i) \/ ClaimFails(i)
  PROVE  Preserved
  <1> USE DEF IncidentInv
  <1>1. MayClaim(i) /\ stage[i] = "listed" /\ leader[KindOf(i)] # 0
    BY DEF ClaimIncidentForAgent, ClaimFails, MayClaim
  <1>2. PICK place \in {"claimed", "done"} : stage' = [stage EXCEPT ![i] = place]
    BY DEF ClaimIncidentForAgent, ClaimFails
  <1>3. UNCHANGED <<ill, rep, sweep, leader, tries>>
    BY DEF ClaimIncidentForAgent, ClaimFails
  <1>4. \/ inc' = inc /\ stage'[i] = "done"
        \/ Claimable(i) /\ inc' = Claimed(i)
    BY DEF ClaimIncidentForAgent, ClaimFails, TypeOK
  <1>5. inc' \in [Ids -> Rows]
    BY <1>4, ClaimedRows DEF TypeOK
  <1>6. TypeOK'
    <2>1. events' \in 0..MaxEvents
      BY EventType DEF ClaimIncidentForAgent, ClaimFails, TypeOK
    <2> QED  BY <1>2, <1>3, <1>5, <2>1 DEF TypeOK
  <1>7. \A j \in Ids : /\ inc[j].status # "none" => inc'[j].status # "none" /\ inc'[j].key = inc[j].key
                       /\ inc'[j].status = "none" => inc'[j] = inc[j]
    BY <1>4, ClaimedRows
  <1>8. RowsKnown' /\ Led' /\ GroupPaced'
    BY <1>1, <1>2, <1>3, <1>6, <1>7, MoveInv
  <1>9. OncePerClaim' /\ InvestigatedOnce'
    <2>1. CASE inc' = inc /\ stage'[i] = "done"
      BY <1>2, <1>3, <2>1 DEF OncePerClaim, InvestigatedOnce, TypeOK
    <2>2. CASE Claimable(i) /\ inc' = Claimed(i)
      BY <1>2, <1>3, <2>2, ClaimedRows DEF OncePerClaim, InvestigatedOnce, TypeOK
    <2> QED  BY <1>4, <2>1, <2>2
  <1>10. \A j \in Ids : inc[j].assigned = "human" => inc'[j].assigned = "human"
    BY <1>4, ClaimedRows
  <1> QED  BY <1>6, <1>8, <1>9, <1>10 DEF Preserved

LEMMA InvestigateInv ==
  ASSUME IncidentInv, NEW i \in Ids, Investigate(i)
  PROVE  Preserved
  <1> USE DEF IncidentInv
  <1>1. /\ stage[i] = "claimed" /\ stage' = [stage EXCEPT ![i] = "running"]
        /\ tries' = [tries EXCEPT ![i] = @ + 1]
        /\ UNCHANGED <<inc, ill, rep, sweep, leader, events>>
    BY DEF Investigate
  <1>2. TypeOK'
    BY <1>1 DEF TypeOK
  <1>3. leader[KindOf(i)] # 0
    BY <1>1, IncidentAssumption DEF Led, Group, KindOf, TypeOK, Rows
  <1>4. RowsKnown' /\ Led' /\ GroupPaced'
    BY <1>1, <1>2, <1>3, MoveInv
  <1>5. OncePerClaim' /\ InvestigatedOnce'
    BY <1>1 DEF OncePerClaim, InvestigatedOnce, TypeOK
  <1> QED  BY <1>1, <1>2, <1>4, <1>5 DEF Preserved

LEMMA EndInv ==
  ASSUME IncidentInv, NEW i \in Ids, InvestigationEnds(i) \/ InvestigationEndsUnwritten(i)
  PROVE  Preserved
  <1> USE DEF IncidentInv
  <1>1. /\ stage[i] = "running" /\ stage' = [stage EXCEPT ![i] = "done"]
        /\ UNCHANGED <<ill, rep, sweep, leader, tries>>
    BY DEF InvestigationEnds, InvestigationEndsUnwritten
  <1>2. inc' \in [Ids -> Rows] /\ \A j \in Ids : Kept(j)
    <2>1. CASE InvestigationEnds(i)
      <3>1. inc[i].status # "none"
        BY <1>1 DEF RowsKnown
      <3>2. PICK s \in {"resolved", "escalated"} : Write(SetStatus(i, s))
        BY <2>1 DEF InvestigationEnds
      <3> QED  BY <3>1, <3>2, SetStatusKept DEF Statuses, Closed
    <2>2. CASE InvestigationEndsUnwritten(i)
      BY <2>2 DEF InvestigationEndsUnwritten, TypeOK, Kept
    <2> QED  BY <2>1, <2>2
  <1>3. TypeOK'
    <2>1. events' \in 0..MaxEvents
      BY EventType DEF InvestigationEnds, InvestigationEndsUnwritten, TypeOK
    <2> QED  BY <1>1, <1>2, <2>1 DEF TypeOK
  <1>4. leader[KindOf(i)] # 0
    BY <1>1, IncidentAssumption DEF Led, Group, KindOf, TypeOK, Rows
  <1>5. RowsKnown' /\ Led' /\ GroupPaced'
    BY <1>1, <1>2, <1>3, <1>4, MoveInv DEF Kept
  <1>6. OncePerClaim' /\ InvestigatedOnce'
    BY <1>1, <1>2 DEF OncePerClaim, InvestigatedOnce, Kept, TypeOK
  <1> QED  BY <1>2, <1>3, <1>5, <1>6 DEF Kept, Preserved

\* One step per action.
LEMMA StepInv == IncidentInv /\ [Next]_vars => Preserved
  <1> SUFFICES ASSUME IncidentInv, [Next]_vars PROVE Preserved
      OBVIOUS
  <1>1. ASSUME NEW k \in Keys, Problem(k) \/ ApiReport(k) PROVE Preserved
    <2>0. Api \in Reporters
      BY DEF Reporters
    <2>1. TypeOK'
      <3>1. CASE Problem(k)
        BY <1>1, <3>1 DEF IncidentInv, Problem, TypeOK, agentVars
      <3>2. CASE ApiReport(k)
        BY <1>1, <2>0, <3>2, EventType DEF IncidentInv, ApiReport, TypeOK, Reports, agentVars
      <3> QED  BY <1>1, <3>1, <3>2
    <2>2. UNCHANGED agentVars /\ (\A i \in Ids : Kept(i)) /\ sweep' = sweep /\ inc' = inc
      BY <1>1 DEF Problem, ApiReport, Kept
    <2> QED  BY <2>1, <2>2, KeptInv DEF IncidentInv, RowsKnown
  <1>2. CASE UNCHANGED vars
    BY <1>2 DEF vars, IncidentInv, TypeOK, RowsKnown, OncePerClaim, InvestigatedOnce,
                Led, GroupPaced, Group, KindOf, Preserved
  <1>3. ASSUME NEW stale \in SUBSET Ids, FindStaleIncidents(stale) PROVE Preserved
    <2>1. PICK i \in Ids : TRUE
      BY <1>3 DEF FindStaleIncidents
    <2> QED  BY <1>3, <2>1, SweepInv
  <1>4. ASSUME NEW i \in Ids, EscalateStale(i) \/ EscalateStaleFails(i) PROVE Preserved
    BY <1>4, {} \in SUBSET Ids, SweepInv
  <1> QED  BY <1>1, <1>2, <1>3, <1>4, ReporterInv, MonitorInv, OperatorInv, QueueInv,
              StartGroupInv, ClaimInv, InvestigateInv, EndInv
           DEF Next, ReporterStep, SweepStep, AgentStep

LEMMA Invariance == Spec => []IncidentInv
  <1>1. IncidentInv /\ [Next]_vars => IncidentInv'
    BY StepInv DEF Preserved
  <1> QED  BY <1>1, InitInv, PTL DEF Spec

-----------------------------------------------------------------------------
\* Every row, report and place in the agent's batch has its type, after any
\* sequence of reports, escalations, claims, requests and faults.
THEOREM TypeCorrect == Spec => []TypeOK
  BY Invariance, PTL DEF IncidentInv

\* The agent investigates an incident at most once, whatever operators, crons
\* and lost answers do to it (ClaimIncidentForAgent).
THEOREM AgentInvestigatesOnce == Spec => []InvestigatedOnce
  BY Invariance, PTL DEF IncidentInv

\* The leader of a group is dealt with first, and its followers are claimed
\* one at a time (processIncidentGroup).
THEOREM GroupsArePaced == Spec => []GroupPaced
  BY Invariance, PTL DEF IncidentInv

\* No step takes an incident from the operator it is assigned to: the claim is
\* the only one that assigns incidents to the agent, and it is conditional.
THEOREM OperatorsKeepTheirs == Spec => HumanKeepsIncident
  <1>1. IncidentInv /\ [Next]_vars =>
          [\A i \in Ids : inc[i].assigned = "human" => inc'[i].assigned = "human"]_vars
    BY StepInv DEF Preserved
  <1> QED  BY <1>1, Invariance, PTL DEF Spec, HumanKeepsIncident
=============================================================================
