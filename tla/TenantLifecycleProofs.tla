------------------------ MODULE TenantLifecycleProofs ------------------------
(***************************************************************************)
(* Proofs about TenantLifecycle, for every set of shards, nodes, resources *)
(* and callers and all bounds.                                             *)
(*                                                                         *)
(* Requests write the tenant's row on their own, at any moment, but each   *)
(* is followed by a task.  While one of these is awaited nothing is        *)
(* claimed; when none is, nobody but the running workflow writes the row,  *)
(* and what it has reported so far is true.                                *)
(***************************************************************************)
EXTENDS TenantLifecycle, TLAPS

\* A task of one of these operations is queued, or about to be.
Awaits(ops) ==
    \/ \E i \in 1..Len(queue) : queue[i].op \in ops
    \/ \E c \in Callers : caller[c].pc = "written" /\ caller[c].op \in ops

\* The last of the tenant's tasks is running or has ended, and every signal
\* and status write has succeeded.
Calm == ~Awaits(Ops) /\ faults = 0 /\ row.status # "absent"

Locked(s) == \A n \in NodesOf[s] : acct[n].locked

SettledInv ==
    Calm =>
        /\ wf = Idle => row.status \in {"active", "suspended", "failed"}
        /\ wf.op = "suspend" /\ wf.pc >= 4 => row.status = "suspended"
        /\ wf.op \in {"create", "unsuspend"} /\ wf.pc >= 5 => row.status = "active"

LockedInv ==
    Calm =>
        /\ wf = Idle /\ row.status = "suspended" => Locked(row.shard)
        /\ wf.op = "suspend" =>
              /\ wf.pc >= 2 => wf.shard = row.shard
              /\ wf.pc = 2 => \A n \in NodesOf[row.shard] :
                                 wf.at[n] = 0 /\ ~wf.bad => acct[n].locked
              /\ wf.pc >= 3 => Locked(row.shard)

\* Suspended, and neither a zone that a PUT has suspended again nor about to be
\* updated by the task of one.
Stuck(c) ==
    /\ child[c] = "suspended" /\ c \notin relapsed /\ edit[c] # "update"
    /\ \A i \in 1..Len(queue) : queue[i].op = "child_update" => queue[i].child # c

\* Nothing is stuck after an unsuspension; during it, what still is will be restored.
RestoredInv ==
    faults = 0 =>
        /\ restored => wf = Idle /\ \A c \in Children : ~Stuck(c)
        /\ wf.op = "unsuspend" /\ wf.pc = 6 =>
              \A c \in Children : Stuck(c) => c \in wf.list

\* Only a migration changes the shard, and an access setting reaches the nodes
\* with the task of the request that has written it.
Granted == \A n \in NodesOf[Home] : acct[n].access = row.access

AccessInv ==
    (moves = 0 /\ ~hitch /\ faults = 0) =>
        /\ ~Awaits({"migrate"}) /\ wf.op # "migrate"
        /\ row.shard = Home /\ \A c \in Callers : caller[c].saw.shard = Home
        /\ ~Awaits({"create", "update"}) /\ row.status # "absent" =>
              /\ wf.op \notin {"create", "update", "delete"} => Granted
              /\ wf.op \in {"create", "update"} =>
                    /\ wf.pc >= 3 => wf.shard = Home /\ wf.access = row.access
                    /\ wf.pc = 3 => \A n \in NodesOf[Home] :
                                       wf.at[n] \notin {1, 2} /\ ~wf.bad => acct[n].access = row.access
                    /\ wf.pc >= 4 => Granted
\* The account is on every node of shard s.
Present(s) == \A n \in NodesOf[s] : acct[n].present

\* The step that tells the nodes, and those that workflow w has yet to tell
\* before their account is known to be there.
Fanout(op) == IF op = "suspend" THEN 2 ELSE 3
Untold(w, n) == IF w.op = "create" THEN w.at[n] = 1 ELSE w.at[n] # 0

\* A workflow that leaves the tenant on its shard finds the account on all
\* nodes or fails; a migration makes it on the new nodes before the row names
\* them, and leaves none of these.
PresentInv ==
    Calm /\ ~circular =>
        /\ wf = Idle /\ row.status \in {"active", "suspended"} => Present(row.shard)
        /\ wf.op \in {"create", "update", "suspend", "unsuspend"} =>
              /\ wf.pc = Fanout(wf.op) => \A n \in NodesOf[row.shard] :
                                             ~Untold(wf, n) /\ ~wf.bad => acct[n].present
              /\ wf.pc > Fanout(wf.op) => Present(row.shard)
        /\ wf.op = "migrate" =>
              /\ wf.pc >= 3 => NodesOf[wf.target] \intersect NodesOf[wf.shard] = {}
              /\ wf.pc = 3 => \A n \in NodesOf[wf.target] :
                                 wf.at[n] = 0 /\ ~wf.bad => acct[n].present
              /\ wf.pc >= 4 => Present(wf.target)
              /\ wf.pc >= 6 => row.shard = wf.target
              /\ wf.pc = 7 => \A n \in Nodes : wf.at[n] # 0 => n \in NodesOf[wf.shard]

-----------------------------------------------------------------------------
(* The workflows.                                                          *)

LEMMA Lengths ==
  /\ Program("create") = CreateTenantWorkflow       /\ Len(Program("create")) = 6
  /\ Program("update") = UpdateTenantWorkflow       /\ Len(Program("update")) = 4
  /\ Program("suspend") = SuspendTenantWorkflow     /\ Len(Program("suspend")) = 5
  /\ Program("unsuspend") = UnsuspendTenantWorkflow /\ Len(Program("unsuspend")) = 6
  /\ Program("delete") = DeleteTenantWorkflow       /\ Len(Program("delete")) = 9
  /\ Program("migrate") = MigrateTenantWorkflow     /\ Len(Program("migrate")) = 8
  BY DEF Program, CreateTenantWorkflow, UpdateTenantWorkflow, SuspendTenantWorkflow,
         UnsuspendTenantWorkflow, DeleteTenantWorkflow, MigrateTenantWorkflow

LEMMA FirstStep == ASSUME NEW op \in Ops PROVE 1 \in 1..Len(Program(op))
  <1>1. PICK k \in 4..9 : k = Len(Program(op))
    BY Lengths DEF Ops
  <1>2. 1 \in 1..k
    OBVIOUS
  <1> QED
    BY <1>1, <1>2

LEMMA LastStep ==
  ASSUME NEW op \in Ops, NEW pc
  PROVE  pc = Len(Program(op)) <=> \/ op \in {"create", "unsuspend"} /\ pc = 6
                                   \/ op = "update" /\ pc = 4
                                   \/ op = "suspend" /\ pc = 5
                                   \/ op = "delete" /\ pc = 9
                                   \/ op = "migrate" /\ pc = 8
  BY Lengths DEF Ops

\* The status writes that end a workflow.
LEMMA LastWrite ==
  ASSUME NEW op \in Ops, NEW pc,
         \/ pc = 1
         \/ op = "suspend" /\ pc = 3
         \/ op \in {"create", "update", "unsuspend"} /\ pc = 4
         \/ op = "migrate" /\ pc = 8
  PROVE  pc = Len(Program(op)) => op \in {"update", "migrate"} /\ pc # 1
  <1>1. ASSUME NEW k \in 4..9, op = "suspend" => k = 5, op \in {"create", "unsuspend"} => k = 6, pc = k
        PROVE  op \in {"update", "migrate"} /\ pc # 1
    <2>1. pc \in 4..9
      BY <1>1
    <2> QED
      BY <1>1, <2>1
  <1>2. PICK k \in 4..9 : /\ k = Len(Program(op))
                          /\ op = "suspend" => k = 5
                          /\ op \in {"create", "unsuspend"} => k = 6
    BY Lengths DEF Ops
  <1> QED
    BY <1>1, <1>2

LEMMA ConvergeStep == 8 \in 1..Len(Program("delete"))
  <1>1. PICK k : k = 9 /\ k = Len(Program("delete"))
    BY Lengths
  <1>2. 8 \in 1..k
    BY <1>1
  <1> QED
    BY <1>1, <1>2

\* Which steps a workflow has, and where.
LEMMA Steps ==
  ASSUME NEW op \in Ops, NEW pc \in 1..Len(Program(op))
  PROVE  /\ Program(op)[pc] = "provisioning" <=> op \notin {"suspend", "delete"} /\ pc = 1
         /\ Program(op)[pc] = "deleting" <=> op = "delete" /\ pc = 1
         /\ Program(op)[pc] = "lookup" <=> IF op = "suspend" THEN pc = 1 ELSE pc = 2
         /\ Program(op)[pc] = "nodes" <=> \/ op = "suspend" /\ pc = 2
                                          \/ op = "delete" /\ pc = 6
                                          \/ op \notin {"suspend", "delete"} /\ pc = 3
         /\ Program(op)[pc] = "suspended" <=> op = "suspend" /\ pc = 3
         /\ Program(op)[pc] = "unsuspended" <=> op = "unsuspend" /\ pc = 4
         /\ Program(op)[pc] = "active" <=> \/ op \in {"create", "update"} /\ pc = 4
                                           \/ op = "migrate" /\ pc = 8
         /\ Program(op)[pc] = "list" <=> \/ op \in {"create", "unsuspend"} /\ pc = 5
                                         \/ op = "suspend" /\ pc = 4
                                         \/ op = "delete" /\ pc = 3
         /\ Program(op)[pc] = "children" <=> \/ op \in {"create", "unsuspend"} /\ pc = 6
                                             \/ op = "suspend" /\ pc = 5
                                             \/ op = "delete" /\ pc = 4
         /\ Program(op)[pc] = "members" <=> \/ op = "delete" /\ pc = 5
                                            \/ op = "migrate" /\ pc = 6
         /\ Program(op)[pc] = "desired" <=> op = "delete" /\ pc = 7
         /\ Program(op)[pc] = "converge" <=> op = "delete" /\ pc = 8
         /\ Program(op)[pc] = "rows" <=> op = "delete" /\ pc = 9
         /\ Program(op)[pc] = "webroots" <=> op = "migrate" /\ pc = 4
         /\ Program(op)[pc] = "move" <=> op = "migrate" /\ pc = 5
         /\ Program(op)[pc] = "leave" <=> op = "migrate" /\ pc = 7
  <1>1. CASE op = "create"
    <2>1. pc \in 1..6 /\ Program(op) = CreateTenantWorkflow
      BY <1>1, Lengths
    <2> QED
      BY <1>1, <2>1 DEF CreateTenantWorkflow
  <1>2. CASE op = "update"
    <2>1. pc \in 1..4 /\ Program(op) = UpdateTenantWorkflow
      BY <1>2, Lengths
    <2> QED
      BY <1>2, <2>1 DEF UpdateTenantWorkflow
  <1>3. CASE op = "suspend"
    <2>1. pc \in 1..5 /\ Program(op) = SuspendTenantWorkflow
      BY <1>3, Lengths
    <2> QED
      BY <1>3, <2>1 DEF SuspendTenantWorkflow
  <1>4. CASE op = "unsuspend"
    <2>1. pc \in 1..6 /\ Program(op) = UnsuspendTenantWorkflow
      BY <1>4, Lengths
    <2> QED
      BY <1>4, <2>1 DEF UnsuspendTenantWorkflow
  <1>5. CASE op = "delete"
    <2>1. pc \in 1..9 /\ Program(op) = DeleteTenantWorkflow
      BY <1>5, Lengths
    <2> QED
      BY <1>5, <2>1 DEF DeleteTenantWorkflow
  <1>6. CASE op = "migrate"
    <2>1. pc \in 1..8 /\ Program(op) = MigrateTenantWorkflow
      BY <1>6, Lengths
    <2> QED
      BY <1>6, <2>1 DEF MigrateTenantWorkflow
  <1> QED
    BY <1>1, <1>2, <1>3, <1>4, <1>5, <1>6 DEF Ops

LEMMA Told ==
  ASSUME NEW op \in Ops, NEW step \in NodeSteps
  PROVE  Len(Activities(op, step)) \in {1, 2, 3}
  BY DEF Ops, NodeSteps, Activities

LEMMA FirstTold ==
  ASSUME NEW op \in Ops, NEW step \in NodeSteps
  PROVE  1 \in 1..Len(Activities(op, step))
  <1>1. PICK k \in {1, 2, 3} : k = Len(Activities(op, step))
    BY Told
  <1>2. 1 \in 1..k
    OBVIOUS
  <1> QED
    BY <1>1, <1>2

LEMMA NodesIn == ASSUME NEW s \in Shards PROVE NodesOf[s] \subseteq Nodes
  BY DEF Nodes

\* The workflow at one of its steps.
LEMMA AtStep ==
  ASSUME NEW w \in Runs, w.op \in Ops, NEW pc \in 1..Len(Program(w.op))
  PROVE  /\ at(w, pc) \in Runs
         /\ at(w, pc).op = w.op /\ at(w, pc).pc = pc
         /\ at(w, pc).shard = w.shard /\ at(w, pc).access = w.access /\ at(w, pc).target = w.target
         /\ at(w, pc).list = w.list /\ at(w, pc).bad = w.bad
         /\ \A n \in Nodes : at(w, pc).at[n] =
               IF Program(w.op)[pc] \in NodeSteps
                  /\ n \in (IF w.op = "migrate" /\ Program(w.op)[pc] = "nodes" THEN NodesOf[w.target]
                            ELSE NodesOf[w.shard])
               THEN 1 ELSE 0
  <1> DEFINE told == IF w.op = "migrate" /\ Program(w.op)[pc] = "nodes" THEN NodesOf[w.target]
                     ELSE NodesOf[w.shard]
             f == [n \in Nodes |-> IF Program(w.op)[pc] \in NodeSteps /\ n \in told THEN 1 ELSE 0]
  <1>1. pc \in Nat /\ ~(pc > Len(Program(w.op)))
    BY Lengths DEF Ops
  <1>2. at(w, pc) = [w EXCEPT !.pc = pc, !.at = f]
    BY <1>1 DEF at
  <1>3. f \in [Nodes -> Nat]
    OBVIOUS
  <1> HIDE DEF f
  <1>4. /\ [w EXCEPT !.pc = pc, !.at = f] \in Runs
        /\ [w EXCEPT !.pc = pc, !.at = f].op = w.op /\ [w EXCEPT !.pc = pc, !.at = f].pc = pc
        /\ [w EXCEPT !.pc = pc, !.at = f].shard = w.shard
        /\ [w EXCEPT !.pc = pc, !.at = f].access = w.access
        /\ [w EXCEPT !.pc = pc, !.at = f].target = w.target
        /\ [w EXCEPT !.pc = pc, !.at = f].list = w.list
        /\ [w EXCEPT !.pc = pc, !.at = f].bad = w.bad
        /\ [w EXCEPT !.pc = pc, !.at = f].at = f
    BY <1>1, <1>3 DEF Runs
  <1> QED
    BY <1>2, <1>4 DEF f

LEMMA IdleType ==
  /\ Idle \in Runs /\ Idle.op = "none" /\ Idle.pc = 0 /\ Idle.shard = Home /\ Idle.list = {}
  /\ Idle.bad = FALSE /\ \A n \in Nodes : Idle.at[n] = 0
  BY TenantAssumption DEF Idle, Runs, Versions

\* The step after, with what the activity has noted in w, or the end.
LEMMA NextStep ==
  ASSUME RunOK, wf # Idle, NEW w \in Runs, w.op = wf.op, wf' = at(w, wf.pc + 1)
  PROVE  /\ wf.op \in Ops /\ wf.pc \in 1..Len(Program(wf.op)) /\ Len(Program(wf.op)) \in 4..9
         /\ wf.pc = Len(Program(wf.op)) => wf' = Idle
         /\ wf.pc # Len(Program(wf.op)) =>
               /\ wf' \in Runs /\ wf'.op = wf.op /\ wf'.pc = wf.pc + 1
               /\ wf'.shard = w.shard /\ wf'.access = w.access /\ wf'.target = w.target
               /\ wf'.list = w.list /\ wf'.bad = w.bad
               /\ wf.pc + 1 \in 1..Len(Program(wf.op))
               /\ Step' = Program(wf.op)[wf.pc + 1]
               /\ \A n \in Nodes : wf'.at[n] =
                     IF Step' \in NodeSteps
                        /\ n \in (IF wf.op = "migrate" /\ Step' = "nodes" THEN NodesOf[w.target]
                                  ELSE NodesOf[w.shard])
                     THEN 1 ELSE 0
         /\ RunOK'
  <1>1. wf.op \in Ops /\ wf.pc \in 1..Len(Program(wf.op)) /\ Len(Program(wf.op)) \in 4..9
    BY Lengths DEF RunOK, Ops
  <1>2. CASE wf.pc = Len(Program(wf.op))
    <2>1. wf' = Idle
      BY <1>1, <1>2 DEF at
    <2> QED
      BY <1>1, <1>2, <2>1, IdleType DEF RunOK
  <1>3. CASE wf.pc # Len(Program(wf.op))
    <2>1. wf.pc + 1 \in 1..Len(Program(wf.op))
      BY <1>1, <1>3
    <2>2. /\ wf' \in Runs /\ wf'.op = wf.op /\ wf'.pc = wf.pc + 1
          /\ wf'.shard = w.shard /\ wf'.access = w.access /\ wf'.target = w.target
          /\ wf'.list = w.list /\ wf'.bad = w.bad
          /\ \A n \in Nodes : wf'.at[n] =
                IF Program(wf.op)[wf.pc + 1] \in NodeSteps
                   /\ n \in (IF wf.op = "migrate" /\ Program(wf.op)[wf.pc + 1] = "nodes"
                             THEN NodesOf[w.target] ELSE NodesOf[w.shard])
                THEN 1 ELSE 0
      BY <1>1, <2>1, AtStep
    <2>3. Step' = Program(wf.op)[wf.pc + 1]
      BY <2>2 DEF Step
    <2>4. \A n \in Nodes : wf'.at[n] # 0 =>
             Step' \in NodeSteps /\ wf'.at[n] \in 1..Len(Activities(wf'.op, Step'))
      <3>1. PICK step : step = Program(wf.op)[wf.pc + 1]
        OBVIOUS
      <3>2. step \in NodeSteps => 1 \in 1..Len(Activities(wf.op, step))
        <4> SUFFICES ASSUME step \in NodeSteps PROVE 1 \in 1..Len(Activities(wf.op, step))
          OBVIOUS
        <4>1. Len(Activities(wf.op, step)) \in {1, 2, 3}
          BY <1>1, Told
        <4> QED
          BY <4>1
      <3>3. \A n \in Nodes : wf'.at[n] # 0 => step \in NodeSteps /\ wf'.at[n] = 1
        BY <2>2, <3>1
      <3> QED
        BY <2>2, <2>3, <3>1, <3>2, <3>3
    <2>5. RunOK'
      BY <1>1, <2>1, <2>2, <2>4 DEF RunOK
    <2> QED
      BY <1>1, <1>3, <2>1, <2>2, <2>3, <2>5
  <1> QED
    BY <1>2, <1>3

LEMMA EndsRun == ASSUME wf' = Idle PROVE RunOK'
  BY IdleType DEF RunOK

\* What a request or a workflow writes keeps the row's type.
LEMMA RowTypes ==
  ASSUME row \in Rows
  PROVE  /\ \A st \in Statuses : /\ statusSet(st) \in Rows
                                 /\ statusSet(st).shard = row.shard /\ statusSet(st).access = row.access
                                 /\ statusSet(st).status = IF row.status = "absent" THEN "absent" ELSE st
         /\ failed(row) \in Rows /\ failed(row).shard = row.shard /\ failed(row).access = row.access
         /\ failed(row).status = IF row.status = "absent" THEN "absent" ELSE "failed"
         /\ \A sh \in Shards : /\ [row EXCEPT !.shard = sh] \in Rows
                               /\ [row EXCEPT !.shard = sh].shard = sh
                               /\ [row EXCEPT !.shard = sh].access = row.access
                               /\ [row EXCEPT !.shard = sh].status = row.status
         /\ [row EXCEPT !.status = "absent"] \in Rows
         /\ [row EXCEPT !.status = "absent"].status = "absent"
  BY DEF statusSet, failed, Rows, Statuses

\* A workflow that fails: the row says so, or the report has failed too.
LEMMA FailType ==
  ASSUME row \in Rows, faults \in Nat, Fail
  PROVE  /\ RunOK' /\ wf' = Idle /\ hitch' = TRUE
         /\ row' \in Rows /\ row'.shard = row.shard /\ row'.access = row.access
         /\ row'.status \in {row.status, "failed"}
         /\ faults' \in {faults, faults + 1} /\ (faults' # faults => faults < MaxFaults)
         /\ faults' = faults => row'.status = IF row.status = "absent" THEN "absent" ELSE "failed"
  <1>1. RunOK'
    BY EndsRun DEF Fail
  <1> QED
    BY <1>1, RowTypes DEF Fail, MayFault

\* The account after an activity: without the user there are no settings.
LEMMA EffectType ==
  ASSUME NEW a, NEW v \in Versions, NEW x \in Accounts, ~x.present => x = NoAccount,
         a \in NeedsAccount => x.present
  PROVE  /\ effect(a, v, x) \in Accounts
         /\ ~effect(a, v, x).present => effect(a, v, x) = NoAccount
  <1>0. /\ NoAccount \in Accounts /\ ~NoAccount.present /\ 0 \in Versions
        /\ NoAccount.access = 0 /\ NoAccount.locked = FALSE
    BY TenantAssumption DEF NoAccount, Accounts, Versions
  <1>1. CASE a = "CreateTenant"
    BY <1>1 DEF effect, Accounts
  <1>2. CASE a = "SyncSSHConfig"
    BY <1>2 DEF effect, Accounts, NeedsAccount
  <1>3. CASE a = "RemoveSSHConfig"
    <2>1. [x EXCEPT !.access = 0] \in Accounts /\ [x EXCEPT !.access = 0].present = x.present
      BY <1>0 DEF Accounts
    <2>2. x.access = 0 => [x EXCEPT !.access = 0] = x
      BY DEF Accounts
    <2> QED
      BY <1>0, <1>3, <2>1, <2>2 DEF effect
  <1>4. CASE a = "SuspendTenant"
    BY <1>4 DEF effect, Accounts, NeedsAccount
  <1>5. CASE a = "UnsuspendTenant"
    BY <1>5 DEF effect, Accounts, NeedsAccount
  <1>6. CASE a = "DeleteTenant"
    BY <1>0, <1>6 DEF effect, userdel
  <1>7. CASE a \notin {"CreateTenant", "SyncSSHConfig", "RemoveSSHConfig", "SuspendTenant",
                       "UnsuspendTenant", "DeleteTenant"}
    BY <1>7 DEF effect
  <1> QED
    BY <1>1, <1>2, <1>3, <1>4, <1>5, <1>6, <1>7

LEMMA LeftType ==
  ASSUME NEW a, NEW v \in Versions, NEW x \in Accounts, ~x.present => x = NoAccount,
         NEW y \in leftBy(a, v, x)
  PROVE  y \in Accounts /\ (~y.present => y = NoAccount)
  <1>1. CASE y = x
    BY <1>1
  <1>2. CASE y = effect(a, v, x) /\ (a \in NeedsAccount => x.present)
    BY <1>2, EffectType
  <1>3. CASE y = [x EXCEPT !.access = 0] /\ x.present
    BY <1>3, TenantAssumption DEF Accounts, Versions
  <1> QED
    BY <1>1, <1>2, <1>3 DEF leftBy, NeedsAccount

\* The nodes go on, each with the activities of its own.
LEMMA NodesRun ==
  ASSUME RunOK, wf # Idle, NEW f \in [Nodes -> Nat], NEW b \in BOOLEAN,
         \A m \in Nodes : f[m] # 0 => wf.at[m] # 0 /\ f[m] \in 1..Len(Activities(wf.op, Step)),
         wf' = [wf EXCEPT !.at = f, !.bad = b]
  PROVE  /\ RunOK'
         /\ wf' \in Runs /\ wf'.op = wf.op /\ wf'.pc = wf.pc /\ wf'.shard = wf.shard
         /\ wf'.access = wf.access /\ wf'.target = wf.target /\ wf'.list = wf.list
         /\ wf'.at = f /\ wf'.bad = b /\ Step' = Step
  <1>1. PICK w \in Runs : w = wf
    BY DEF RunOK
  <1>2. /\ [w EXCEPT !.at = f, !.bad = b] \in Runs
        /\ [w EXCEPT !.at = f, !.bad = b].op = w.op /\ [w EXCEPT !.at = f, !.bad = b].pc = w.pc
        /\ [w EXCEPT !.at = f, !.bad = b].shard = w.shard
        /\ [w EXCEPT !.at = f, !.bad = b].access = w.access
        /\ [w EXCEPT !.at = f, !.bad = b].target = w.target
        /\ [w EXCEPT !.at = f, !.bad = b].list = w.list
        /\ [w EXCEPT !.at = f, !.bad = b].at = f /\ [w EXCEPT !.at = f, !.bad = b].bad = b
    BY DEF Runs
  <1>3. /\ wf' \in Runs /\ wf'.op = wf.op /\ wf'.pc = wf.pc /\ wf'.shard = wf.shard
        /\ wf'.access = wf.access /\ wf'.target = wf.target /\ wf'.list = wf.list
        /\ wf'.at = f /\ wf'.bad = b
    BY <1>1, <1>2
  <1>4. Step' = Step
    BY <1>3 DEF Step
  <1>5. RunOK'
    BY <1>3, <1>4 DEF RunOK
  <1> QED
    BY <1>3, <1>4, <1>5

\* What one node's activity does to the workflow.
LEMMA NodeActivityRun ==
  ASSUME RunOK, NEW n \in Nodes, NodeActivity(n)
  PROVE  /\ RunOK'
         /\ wf' \in Runs /\ wf'.op = wf.op /\ wf'.pc = wf.pc /\ wf'.shard = wf.shard
         /\ wf'.access = wf.access /\ wf'.target = wf.target /\ wf'.list = wf.list
         /\ wf'.at = [wf.at EXCEPT ![n] = following(n)] /\ wf'.bad = wf.bad /\ Step' = Step
  <1>1. PICK w \in Runs : w = wf
    BY DEF RunOK
  <1>2. w.at \in [Nodes -> Nat] /\ w.bad \in BOOLEAN
    BY DEF Runs
  <1>3. PICK f : f = [w.at EXCEPT ![n] = following(n)]
    OBVIOUS
  <1>4. /\ wf.op \in Ops /\ Step \in NodeSteps
        /\ \A m \in Nodes : wf.at[m] # 0 => wf.at[m] \in 1..Len(Activities(wf.op, Step))
    BY DEF RunOK, NodeActivity
  <1>5. Len(Activities(wf.op, Step)) \in {1, 2, 3}
    BY <1>4, Told
  <1>6. following(n) \in Nat /\ (following(n) # 0 => following(n) \in 1..Len(Activities(wf.op, Step)))
    BY <1>1, <1>2, <1>5 DEF following
  <1>7. f \in [Nodes -> Nat] /\ \A m \in Nodes : f[m] = IF m = n THEN following(n) ELSE wf.at[m]
    BY <1>1, <1>2, <1>3, <1>6
  <1>8. wf' = [wf EXCEPT !.at = f, !.bad = w.bad]
    <2>1. wf' = [w EXCEPT !.at[n] = following(n)]
      BY <1>1 DEF NodeActivity
    <2>2. [w EXCEPT !.at[n] = following(n)] = [w EXCEPT !.at = f]
      BY <1>3
    <2>3. [w EXCEPT !.at = f] = [w EXCEPT !.at = f, !.bad = w.bad]
      BY <1>7 DEF Runs
    <2> QED
      BY <1>1, <2>1, <2>2, <2>3
  <1>9. \A m \in Nodes : f[m] # 0 => wf.at[m] # 0 /\ f[m] \in 1..Len(Activities(wf.op, Step))
    BY <1>4, <1>6, <1>7 DEF NodeActivity
  <1> QED
    BY <1>1, <1>2, <1>3, <1>7, <1>8, <1>9, NodesRun DEF NodeActivity

LEMMA NodeActivityFailsRun ==
  ASSUME RunOK, NEW n \in Nodes, NodeActivityFails(n)
  PROVE  /\ RunOK'
         /\ wf' \in Runs /\ wf'.op = wf.op /\ wf'.pc = wf.pc /\ wf'.shard = wf.shard
         /\ wf'.access = wf.access /\ wf'.target = wf.target /\ wf'.list = wf.list
         /\ wf'.bad = TRUE /\ Step' = Step
  <1>1. PICK w \in Runs : w = wf
    BY DEF RunOK
  <1>2. w.at \in [Nodes -> Nat] /\ w.bad \in BOOLEAN
    BY DEF Runs
  <1>3. /\ wf.op \in Ops /\ Step \in NodeSteps
        /\ \A m \in Nodes : wf.at[m] # 0 => wf.at[m] \in 1..Len(Activities(wf.op, Step))
    BY DEF RunOK, NodeActivityFails
  <1>4. Len(Activities(wf.op, Step)) \in {1, 2, 3}
    BY <1>3, Told
  <1>5. following(n) \in Nat /\ (following(n) # 0 => following(n) \in 1..Len(Activities(wf.op, Step)))
    BY <1>1, <1>2, <1>4 DEF following
  <1>6. PICK f \in {[w.at EXCEPT ![n] = following(n)], [m \in Nodes |-> 0], [w.at EXCEPT ![n] = 0]} :
           wf' = [w EXCEPT !.bad = TRUE, !.at = f]
    BY <1>1 DEF NodeActivityFails
  <1>7. /\ f \in [Nodes -> Nat]
        /\ \A m \in Nodes : f[m] # 0 => wf.at[m] # 0 /\ f[m] \in 1..Len(Activities(wf.op, Step))
    BY <1>1, <1>2, <1>3, <1>5, <1>6 DEF NodeActivityFails
  <1>8. [w EXCEPT !.bad = TRUE, !.at = f] = [w EXCEPT !.at = f, !.bad = TRUE]
    BY <1>7 DEF Runs
  <1> QED
    BY <1>1, <1>6, <1>7, <1>8, NodesRun DEF NodeActivityFails

LEMMA NoCallType == NoCall \in Calls /\ NoCall.pc = "idle" /\ NoCall.saw.shard = Home
  <1>1. [status |-> "absent", shard |-> Home, access |-> 0] \in Rows
    BY TenantAssumption DEF Rows, Statuses, Versions
  <1> QED
    BY <1>1, TenantAssumption DEF NoCall, Calls

LEMMA WrittenCall ==
  ASSUME NEW op \in Ops, NEW sh \in Shards
  PROVE  \E call \in Calls : /\ call = [NoCall EXCEPT !.pc = "written", !.op = op, !.target = sh]
                             /\ call.pc = "written" /\ call.op = op /\ call.saw.shard = Home
  <1>1. PICK none \in Calls : none = NoCall /\ none.saw.shard = Home
    BY NoCallType
  <1>2. PICK call : call = [none EXCEPT !.pc = "written", !.op = op, !.target = sh]
    OBVIOUS
  <1>3. call \in Calls /\ call.pc = "written" /\ call.op = op /\ call.saw = none.saw
    BY <1>2 DEF Calls
  <1>4. call = [NoCall EXCEPT !.pc = "written", !.op = op, !.target = sh]
    BY <1>1, <1>2
  <1>5. call.saw.shard = Home
    BY <1>1, <1>3
  <1> QED
    BY <1>3, <1>4, <1>5

LEMMA TypeInit == Init => TypeOK
  <1> SUFFICES ASSUME Init PROVE TypeOK
    OBVIOUS
  <1> USE TenantAssumption
  <1>1. row \in Rows
    BY DEF Init, Rows, Statuses, Versions
  <1>2. child \in [Children -> Statuses]
    BY DEF Init, Statuses
  <1>3. acct \in [Nodes -> Accounts] /\ \A n \in Nodes : ~acct[n].present => acct[n] = NoAccount
    BY DEF Init, Accounts, NoAccount, Versions
  <1>4. files \in BOOLEAN /\ restored \in BOOLEAN /\ hitch \in BOOLEAN /\ circular \in BOOLEAN
    BY DEF Init
  <1>5. queue \in Seq(Tasks)
    <2>1. [op |-> "create", target |-> Home] \in Tasks
      BY DEF Tasks, Ops
    <2>2. <<[op |-> "create", target |-> Home]>> \in Seq(Tasks) /\ <<>> \in Seq(Tasks)
      BY <2>1
    <2> QED
      BY <2>2 DEF Init
  <1>6. RunOK
    BY IdleType DEF Init, RunOK
  <1>7. /\ caller \in [Callers -> Calls]
        /\ \A c \in Callers : caller[c].pc = "written" => caller[c].op \in Ops
    BY NoCallType DEF Init
  <1>8. calls \in 0..MaxEvents /\ moves \in 0..MaxMoves /\ faults \in 0..MaxFaults
    BY DEF Init
  <1>9. edit \in [Children -> Statuses \union {"none", "update", "delete"}] /\ relapsed \subseteq Zones
    BY DEF Init
  <1> QED
    BY <1>1, <1>2, <1>3, <1>4, <1>5, <1>6, <1>7, <1>8, <1>9 DEF TypeOK

\* What a request does: to the row, to its caller, to the queue.
LEMMA RequestType ==
  ASSUME TypeOK, NEW c \in Callers, Request(c)
  PROVE  TypeOK'
  <1> USE TenantAssumption DEF TypeOK
  <1>0. UNCHANGED <<child, acct, files, wf, restored, hitch>> => RunOK'
    BY DEF RunOK, Step
  <1>1. ASSUME NEW op \in Ops, NEW sh \in Shards, Signalled(c, op, sh), row' \in Rows,
               UNCHANGED <<child, acct, files, queue, wf, restored, hitch, circular, faults, edit, relapsed>>,
               calls' \in 0..MaxEvents, moves' \in 0..MaxMoves
        PROVE  TypeOK'
    <2>1. /\ caller' \in [Callers -> Calls]
          /\ \A d \in Callers : caller'[d].pc = "written" => caller'[d].op \in Ops
      <3>1. PICK call \in Calls : /\ call = [NoCall EXCEPT !.pc = "written", !.op = op, !.target = sh]
                                  /\ call.op = op
        BY WrittenCall
      <3>2. caller' = [caller EXCEPT ![c] = call]
        BY <1>1, <3>1 DEF Signalled
      <3> QED
        BY <3>1, <3>2
    <2> QED
      BY <1>0, <1>1, <2>1
  <1>2. ASSUME NEW op \in Ops, NEW sh \in Shards, NEW st \in Statuses, Write(c, op, sh, st),
               moves' \in 0..MaxMoves
        PROVE  TypeOK'
    <2>1. row' \in Rows /\ calls' \in 0..MaxEvents
      BY <1>2, RowTypes DEF Write, MayCall
    <2> QED
      BY <1>1, <1>2, <2>1 DEF Write
  <1>3. CASE ReadForUpdate(c)
    <2>1. PICK r \in Rows : r = row
      OBVIOUS
    <2>2. calls + 2 \in Versions
      BY <1>3 DEF ReadForUpdate, MayCall, Versions
    <2>3. PICK saw \in Rows : saw = [r EXCEPT !.access = calls + 2]
      BY <2>2 DEF Rows
    <2>4. PICK none \in Calls : none = NoCall
      BY NoCallType
    <2>5. PICK call : call = [none EXCEPT !.pc = "read", !.op = "update", !.saw = saw]
      OBVIOUS
    <2>6. call \in Calls /\ call.pc = "read" /\ caller' = [caller EXCEPT ![c] = call]
      <3>1. call \in Calls /\ call.pc = "read"
        BY <2>5 DEF Calls, Ops
      <3>2. caller' = [caller EXCEPT ![c] = call]
        BY <1>3, <2>1, <2>3, <2>4, <2>5 DEF ReadForUpdate
      <3> QED
        BY <3>1, <3>2
    <2>7. calls' \in 0..MaxEvents
      BY <1>3 DEF ReadForUpdate, MayCall
    <2> QED
      BY <1>0, <1>3, <2>6, <2>7 DEF ReadForUpdate
  <1>4. CASE Update(c)
    <2>1. caller[c].saw \in Rows
      BY DEF Calls
    <2> QED
      BY <1>1, <1>4, <2>1 DEF Update, Ops
  <1>5. CASE ReadForRetry(c)
    <2>0. PICK none \in Calls : none = NoCall
      BY NoCallType
    <2>1. PICK call : call = [none EXCEPT !.pc = "read", !.op = "retry"]
      OBVIOUS
    <2>2. call \in Calls /\ call.pc = "read"
      BY <2>1 DEF Calls
    <2>3. calls' \in 0..MaxEvents
      BY <1>5 DEF ReadForRetry, MayCall
    <2> QED
      BY <1>0, <1>5, <2>0, <2>1, <2>2, <2>3 DEF ReadForRetry
  <1>6. CASE Retry(c)
    <2>1. row' \in Rows
      BY <1>6, RowTypes DEF Retry, Statuses
    <2> QED
      BY <1>1, <1>6, <2>1 DEF Retry, Ops
  <1>7. CASE Delete(c)
    BY <1>2, <1>7 DEF Delete, Ops, Statuses
  <1>8. CASE Suspend(c)
    BY <1>2, <1>8 DEF Suspend, Ops, Statuses
  <1>9. CASE Unsuspend(c)
    BY <1>2, <1>9 DEF Unsuspend, Ops, Statuses
  <1>10. ASSUME NEW sh \in Targets, Migrate(c, sh) PROVE TypeOK'
    <2>1. moves' \in 0..MaxMoves /\ sh \in Shards
      BY <1>10 DEF Migrate
    <2> QED
      BY <1>2, <1>10, <2>1 DEF Migrate, Ops, Statuses
  <1>11. /\ [caller EXCEPT ![c] = NoCall] \in [Callers -> Calls]
         /\ \A d \in Callers : [caller EXCEPT ![c] = NoCall][d].pc = "written" =>
                                  [caller EXCEPT ![c] = NoCall][d].op \in Ops
    BY NoCallType
  <1>12. CASE SignalTask(c)
    <2>1. caller[c].op \in Ops /\ caller[c].target \in Shards
      BY <1>12 DEF SignalTask, Calls
    <2>2. [op |-> caller[c].op, target |-> caller[c].target] \in Tasks
      BY <2>1 DEF Tasks
    <2>3. queue' \in Seq(Tasks)
      BY <1>12, <2>2 DEF SignalTask
    <2> QED
      BY <1>0, <1>11, <1>12, <2>3 DEF SignalTask
  <1>13. CASE SignalLost(c)
    <2>1. faults' \in 0..MaxFaults
      BY <1>13 DEF SignalLost, MayFault
    <2> QED
      BY <1>0, <1>11, <1>13, <2>1 DEF SignalLost
  <1> QED
    BY <1>3, <1>4, <1>5, <1>6, <1>7, <1>8, <1>9, <1>10, <1>12, <1>13 DEF Request

\* A task taken from the queue.
LEMMA Taken ==
  ASSUME TypeOK, queue # <<>>
  PROVE  /\ Head(queue) \in Tasks /\ Tail(queue) \in Seq(Tasks)
         /\ Head(queue).op \in Ops => Head(queue).target \in Shards
         /\ Head(queue).op \notin Ops =>
               Head(queue).op \in {"child_update", "child_delete"} /\ Head(queue).child \in Children
  <1>1. PICK t \in Tasks : t = Head(queue)
    BY DEF TypeOK
  <1>2. /\ t.op \in Ops => t.target \in Shards
        /\ t.op \notin Ops => t.op \in {"child_update", "child_delete"} /\ t.child \in Children
    BY DEF Tasks, Ops
  <1> QED
    BY <1>1, <1>2 DEF TypeOK

\* The workflow of a task that has been taken.
LEMMA Started ==
  ASSUME TypeOK, StartTask
  PROVE  /\ RunOK' /\ wf' \in Runs /\ wf'.op \in Ops /\ wf'.op = Head(queue).op /\ wf'.pc = 1
         /\ wf'.target = Head(queue).target /\ wf' # Idle
  <1>1. Head(queue).op \in Ops /\ Head(queue).target \in Shards
    BY Taken DEF StartTask
  <1>2. PICK op \in Ops, sh \in Shards : op = Head(queue).op /\ sh = Head(queue).target
    BY <1>1
  <1>3. /\ [Idle EXCEPT !.op = op, !.target = sh] \in Runs
        /\ [Idle EXCEPT !.op = op, !.target = sh].op = op
        /\ [Idle EXCEPT !.op = op, !.target = sh].target = sh
    BY IdleType DEF Runs
  <1>4. PICK w \in Runs : w = [Idle EXCEPT !.op = op, !.target = sh]
    BY <1>3
  <1>5. w.op = op /\ w.target = sh
    BY <1>3, <1>4
  <1>6. wf' = at(w, 1)
    BY <1>2, <1>4 DEF StartTask
  <1>7. 1 \in 1..Len(Program(op))
    BY FirstStep
  <1>8. /\ wf' \in Runs /\ wf'.op = op /\ wf'.pc = 1 /\ wf'.target = sh
        /\ \A n \in Nodes : wf'.at[n] = IF /\ Program(op)[1] \in NodeSteps
                                            /\ n \in (IF op = "migrate" /\ Program(op)[1] = "nodes"
                                                      THEN NodesOf[sh] ELSE NodesOf[w.shard])
                                         THEN 1 ELSE 0
    BY <1>5, <1>6, <1>7, AtStep
  <1>9. Program(op)[1] \notin NodeSteps
    BY <1>7, Steps DEF NodeSteps
  <1>10. \A n \in Nodes : wf'.at[n] = 0
    BY <1>8, <1>9
  <1>11. wf' # Idle
    BY <1>8, IdleType
  <1>12. RunOK'
    BY <1>7, <1>8, <1>10 DEF RunOK
  <1> QED
    BY <1>2, <1>8, <1>11, <1>12

\* What the workflow notes before it goes on.
LEMMA Noted ==
  ASSUME NEW w \in Runs, NEW l \in SUBSET Children
  PROVE  /\ [w EXCEPT !.list = l] \in Runs
         /\ [w EXCEPT !.list = l].op = w.op /\ [w EXCEPT !.list = l].pc = w.pc
         /\ [w EXCEPT !.list = l].shard = w.shard /\ [w EXCEPT !.list = l].access = w.access
         /\ [w EXCEPT !.list = l].target = w.target /\ [w EXCEPT !.list = l].list = l
         /\ [w EXCEPT !.list = l].at = w.at /\ [w EXCEPT !.list = l].bad = w.bad
  BY DEF Runs

\* The four ways in which a workflow goes on: with nothing to note, with what
\* it has looked up, with what it has listed, with the desired state.
LEMMA Advances ==
  ASSUME RunOK, wf # Idle, Advance
  PROVE  /\ RunOK'
         /\ wf.op \in Ops /\ wf.pc \in 1..Len(Program(wf.op)) /\ Len(Program(wf.op)) \in 4..9
         /\ wf.pc = Len(Program(wf.op)) => wf' = Idle
         /\ wf.pc # Len(Program(wf.op)) =>
               /\ wf'.op = wf.op /\ wf'.pc = wf.pc + 1 /\ wf'.shard = wf.shard
               /\ wf'.access = wf.access /\ wf'.target = wf.target
               /\ wf'.list = wf.list /\ wf'.bad = wf.bad
               /\ Step' = Program(wf.op)[wf.pc + 1]
               /\ \A n \in Nodes : wf'.at[n] =
                     IF Step' \in NodeSteps
                        /\ n \in (IF wf.op = "migrate" /\ Step' = "nodes" THEN NodesOf[wf.target]
                                  ELSE NodesOf[wf.shard])
                     THEN 1 ELSE 0
  <1>1. PICK w \in Runs : w = wf
    BY DEF RunOK
  <1>2. wf' = at(w, wf.pc + 1)
    BY <1>1 DEF Advance
  <1> QED
    BY <1>1, <1>2, NextStep

LEMMA LookedUp ==
  ASSUME RunOK, row \in Rows, Lookup
  PROVE  /\ RunOK' /\ wf.op \in Ops
         /\ wf'.op = wf.op /\ wf'.pc = wf.pc + 1 /\ wf'.shard = row.shard /\ wf'.access = row.access
         /\ wf.pc = IF wf.op = "suspend" THEN 1 ELSE 2
         /\ wf'.target = wf.target /\ wf'.bad = wf.bad
         /\ wf.op \notin {"migrate", "delete"} =>
               \A n \in Nodes : wf'.at[n] = IF n \in NodesOf[row.shard] THEN 1 ELSE 0
         /\ wf.op = "migrate" =>
               \A n \in Nodes : wf'.at[n] = IF n \in NodesOf[wf.target] THEN 1 ELSE 0
  <1>1. PICK w \in Runs, sh \in Shards, v \in Versions : w = wf /\ sh = row.shard /\ v = row.access
    BY DEF RunOK, Rows
  <1>2. PICK u : u = [w EXCEPT !.shard = sh, !.access = v]
    OBVIOUS
  <1>3. /\ u \in Runs /\ u.op = wf.op /\ u.shard = row.shard /\ u.access = row.access
        /\ u.target = wf.target /\ u.bad = wf.bad
    <2>1. /\ u \in Runs /\ u.op = w.op /\ u.shard = sh /\ u.access = v
          /\ u.target = w.target /\ u.bad = w.bad
      BY <1>2 DEF Runs
    <2> QED
      BY <1>1, <2>1
  <1>4. wf' = at(u, wf.pc + 1) /\ wf # Idle /\ Step = "lookup"
    BY <1>1, <1>2 DEF Lookup, Running
  <1>5. wf.op \in Ops /\ wf.pc \in 1..Len(Program(wf.op))
    BY <1>4 DEF RunOK
  <1>6. wf.pc = IF wf.op = "suspend" THEN 1 ELSE 2
    BY <1>4, <1>5, Steps DEF Step
  <1>7. wf.pc # Len(Program(wf.op))
    BY <1>5, <1>6, LastStep
  <1>8. /\ RunOK' /\ wf'.op = wf.op /\ wf'.pc = wf.pc + 1
        /\ wf'.shard = row.shard /\ wf'.access = row.access
        /\ wf'.target = wf.target /\ wf'.bad = wf.bad
        /\ wf.pc + 1 \in 1..Len(Program(wf.op)) /\ Step' = Program(wf.op)[wf.pc + 1]
        /\ \A n \in Nodes : wf'.at[n] =
              IF Step' \in NodeSteps
                 /\ n \in (IF wf.op = "migrate" /\ Step' = "nodes" THEN NodesOf[wf.target]
                           ELSE NodesOf[row.shard])
              THEN 1 ELSE 0
    BY <1>3, <1>4, <1>7, NextStep
  <1>9. wf.op # "delete" => Step' = "nodes"
    BY <1>5, <1>6, <1>8, Steps
  <1> QED
    BY <1>5, <1>6, <1>8, <1>9 DEF NodeSteps

LEMMA ListedRun ==
  ASSUME RunOK, NEW l \in SUBSET Children, Running("list"), wf' = at([wf EXCEPT !.list = l], wf.pc + 1)
  PROVE  /\ RunOK' /\ wf.op \in Ops
         /\ wf'.op = wf.op /\ wf'.pc = wf.pc + 1 /\ wf'.shard = wf.shard /\ wf'.access = wf.access
         /\ wf'.target = wf.target /\ wf'.bad = wf.bad /\ wf'.list = l
         /\ \/ wf.op \in {"create", "unsuspend"} /\ wf.pc = 5
            \/ wf.op = "suspend" /\ wf.pc = 4
            \/ wf.op = "delete" /\ wf.pc = 3
  <1>1. PICK w \in Runs : w = wf
    BY DEF RunOK
  <1>2. PICK u : u = [w EXCEPT !.list = l]
    OBVIOUS
  <1>3. /\ u \in Runs /\ u.op = wf.op /\ u.shard = wf.shard /\ u.access = wf.access
        /\ u.target = wf.target /\ u.bad = wf.bad /\ u.list = l
    BY <1>1, <1>2, Noted
  <1>4. wf' = at(u, wf.pc + 1) /\ wf # Idle /\ Step = "list"
    BY <1>1, <1>2 DEF Running
  <1>5. wf.op \in Ops /\ wf.pc \in 1..Len(Program(wf.op))
    BY <1>4 DEF RunOK
  <1>6. \/ wf.op \in {"create", "unsuspend"} /\ wf.pc = 5
        \/ wf.op = "suspend" /\ wf.pc = 4
        \/ wf.op = "delete" /\ wf.pc = 3
    BY <1>4, <1>5, Steps DEF Step
  <1>7. wf.pc # Len(Program(wf.op))
    BY <1>5, <1>6, LastStep
  <1> QED
    BY <1>3, <1>4, <1>5, <1>6, <1>7, NextStep

LEMMA DesiredRun ==
  ASSUME RunOK, row \in Rows, GetShardDesiredState
  PROVE  RunOK' /\ wf.op = "delete" /\ wf'.op = "delete" /\ wf'.pc = 8 /\ wf' # Idle
  <1>1. wf # Idle /\ Step = "desired" /\ wf.op \in Ops /\ wf.pc \in 1..Len(Program(wf.op))
    BY DEF RunOK, GetShardDesiredState, Running
  <1>2. wf.op = "delete" /\ wf.pc = 7
    BY <1>1, Steps DEF Step
  <1>3. PICK w \in Runs : w = wf
    BY DEF RunOK
  <1>4. w.op = "delete" /\ w.op \in Ops /\ 8 \in 1..Len(Program(w.op))
    BY <1>1, <1>2, <1>3, ConvergeStep
  <1>5. PICK x \in Runs : x = at(w, 8) /\ x.op = "delete" /\ x.pc = 8
    BY <1>4, AtStep
  <1>6. PICK f : f = [n \in Nodes |-> IF n \in NodesOf[wf.shard] /\ row.shard = wf.shard
                                          /\ row.status = "active" THEN 1 ELSE 0]
    OBVIOUS
  <1>7. f \in [Nodes -> Nat] /\ (\A n \in Nodes : f[n] # 0 => f[n] = 1) /\ row.access \in Versions
    BY <1>6 DEF Rows
  <1>8. wf' = [x EXCEPT !.access = row.access, !.at = f]
    BY <1>2, <1>3, <1>5, <1>6 DEF GetShardDesiredState
  <1>9. wf' \in Runs /\ wf'.op = "delete" /\ wf'.pc = 8 /\ wf'.at = f
    BY <1>5, <1>7, <1>8 DEF Runs
  <1>10. Step' = "converge"
    BY <1>4, <1>9, Steps DEF Step
  <1>11. 1 \in 1..Len(Activities("delete", "converge"))
    BY FirstTold DEF Ops, NodeSteps
  <1>12. wf' # Idle
    BY <1>9, IdleType
  <1>13. \A n \in Nodes : wf'.at[n] # 0 =>
            Step' \in NodeSteps /\ wf'.at[n] \in 1..Len(Activities(wf'.op, Step'))
    BY <1>7, <1>9, <1>10, <1>11 DEF NodeSteps
  <1>14. wf'.op \in Ops /\ wf'.pc \in 1..Len(Program(wf'.op))
    BY <1>4, <1>9
  <1> QED
    BY <1>2, <1>9, <1>12, <1>13, <1>14 DEF RunOK

LEMMA ChildRun ==
  ASSUME RunOK, Running("children"), NEW c, wf' = [wf EXCEPT !.list = @ \ {c}]
  PROVE  /\ RunOK' /\ wf.op \in Ops /\ wf # Idle /\ wf' # Idle
         /\ wf'.op = wf.op /\ wf'.pc = wf.pc /\ wf'.shard = wf.shard /\ wf'.access = wf.access
         /\ wf'.bad = wf.bad /\ wf'.at = wf.at /\ wf'.list = wf.list \ {c}
         /\ \/ wf.op \in {"create", "unsuspend"} /\ wf.pc = 6
            \/ wf.op = "suspend" /\ wf.pc = 5
            \/ wf.op = "delete" /\ wf.pc = 4
  <1>1. PICK w \in Runs : w = wf
    BY DEF RunOK
  <1>2. PICK l : l = w.list \ {c}
    OBVIOUS
  <1>3. l \in SUBSET Children
    BY <1>2 DEF Runs
  <1>4. wf' = [w EXCEPT !.list = l]
    BY <1>1, <1>2
  <1>5. /\ wf' \in Runs /\ wf'.op = wf.op /\ wf'.pc = wf.pc /\ wf'.shard = wf.shard
        /\ wf'.access = wf.access
        /\ wf'.bad = wf.bad /\ wf'.at = wf.at /\ wf'.list = wf.list \ {c}
    BY <1>1, <1>2, <1>3, <1>4, Noted
  <1>6. wf # Idle /\ Step = "children" /\ wf.op \in Ops /\ wf.pc \in 1..Len(Program(wf.op))
    BY DEF RunOK, Running
  <1>7. \/ wf.op \in {"create", "unsuspend"} /\ wf.pc = 6
        \/ wf.op = "suspend" /\ wf.pc = 5
        \/ wf.op = "delete" /\ wf.pc = 4
    BY <1>6, Steps DEF Step
  <1>8. Step' = Step /\ wf' # Idle
    BY <1>5, <1>6, IdleType DEF Step, Ops
  <1>9. RunOK'
    BY <1>5, <1>6, <1>8 DEF RunOK
  <1> QED
    BY <1>5, <1>6, <1>7, <1>8, <1>9

\* A resource after its workflow.
LEMMA ChildAfter ==
  ASSUME child \in [Children -> Statuses], NEW c, NEW ends \in SUBSET Statuses, childAfter(c, ends)
  PROVE  child' \in [Children -> Statuses]
  BY DEF childAfter

LEMMA WorkerType ==
  ASSUME TypeOK, Worker
  PROVE  TypeOK'
  <1> USE TenantAssumption
  <1>0. /\ row \in Rows /\ child \in [Children -> Statuses] /\ RunOK
        /\ faults \in 0..MaxFaults /\ hitch \in BOOLEAN /\ circular \in BOOLEAN
    BY DEF TypeOK
  <1>1. ASSUME UNCHANGED <<child, acct, files, queue, caller, calls, moves, restored, edit, relapsed>>,
               RunOK', row' \in Rows, faults' \in 0..MaxFaults, hitch' \in BOOLEAN,
               circular' \in BOOLEAN
        PROVE  TypeOK'
    BY <1>1 DEF TypeOK
  <1>2. ASSUME Fail PROVE RunOK' /\ row' \in Rows /\ faults' \in 0..MaxFaults /\ hitch' \in BOOLEAN
    <2>1. faults \in Nat
      BY <1>0
    <2>2. /\ RunOK' /\ row' \in Rows /\ hitch' = TRUE
          /\ faults' \in {faults, faults + 1} /\ (faults' # faults => faults < MaxFaults)
      BY <1>0, <1>2, <2>1, FailType
    <2>3. faults' \in 0..MaxFaults
      BY <1>0, <2>2
    <2> QED
      BY <2>2, <2>3
  <1>3. ASSUME wf # Idle, Advance PROVE RunOK'
    BY <1>0, <1>3, Advances
  <1>4. ASSUME MayFault, faults' = faults + 1 PROVE faults' \in 0..MaxFaults
    BY <1>0, <1>4 DEF MayFault
  <1>5. CASE StartTask
    <2>1. RunOK'
      BY <1>5, Started
    <2>2. queue' \in Seq(Tasks)
      BY <1>5, Taken DEF StartTask
    <2> QED
      BY <1>5, <2>1, <2>2 DEF StartTask, TypeOK
  <1>6. CASE RunChildTask
    <2>1. queue' \in Seq(Tasks)
      BY <1>6, Taken DEF RunChildTask
    <2>2. child' \in [Children -> Statuses]
      BY <1>0, <1>6, ChildAfter DEF RunChildTask, Statuses
    <2>3. RunOK'
      BY <1>0, <1>6 DEF RunChildTask, RunOK, Step
    <2> QED
      BY <1>6, <2>1, <2>2, <2>3 DEF RunChildTask, TypeOK
  <1>7. CASE WriteStatus
    <2>1. RunOK'
      BY <1>3, <1>7 DEF WriteStatus
    <2>2. row' \in Rows
      <3>1. PICK st \in Statuses : row' = statusSet(st)
        BY <1>7 DEF WriteStatus, Statuses
      <3> QED
        BY <1>0, <3>1, RowTypes
    <2> QED
      BY <1>0, <1>1, <1>7, <2>1, <2>2 DEF WriteStatus
  <1>8. CASE WriteStatusFails
    <2>1. RunOK'
      BY <1>3, <1>8, EndsRun DEF WriteStatusFails
    <2> QED
      BY <1>0, <1>1, <1>4, <1>8, <2>1 DEF WriteStatusFails
  <1>9. CASE Lookup
    <2>1. RunOK'
      BY <1>0, <1>9, LookedUp
    <2> QED
      BY <1>0, <1>1, <1>9, <2>1 DEF Lookup
  <1>10. CASE LookupFails
    BY <1>0, <1>1, <1>2, <1>10 DEF LookupFails
  <1>11. CASE SuspendLookupFails
    <2>1. RunOK'
      BY <1>11, EndsRun DEF SuspendLookupFails
    <2> QED
      BY <1>0, <1>1, <1>4, <1>11, <2>1 DEF SuspendLookupFails
  <1>12. CASE ListMembers
    BY <1>0, <1>1, <1>2, <1>3, <1>12 DEF ListMembers, Running
  <1>13. ASSUME NEW n \in Nodes, NodeActivity(n) PROVE TypeOK'
    <2>1. RunOK'
      BY <1>0, <1>13, NodeActivityRun
    <2>2. wf.access \in Versions
      BY <1>0 DEF RunOK, Runs
    <2>3. PICK a : a = Doing(n)
      OBVIOUS
    <2>4. PICK x \in Accounts : x = acct[n] /\ (~x.present => x = NoAccount)
      BY DEF TypeOK
    <2>5. PICK y : y = effect(a, wf.access, x)
      OBVIOUS
    <2>6. y \in Accounts /\ (~y.present => y = NoAccount)
      BY <1>13, <2>2, <2>3, <2>4, <2>5, EffectType DEF NodeActivity
    <2>7. acct' = [acct EXCEPT ![n] = y]
      BY <1>13, <2>3, <2>4, <2>5 DEF NodeActivity
    <2>8. acct' \in [Nodes -> Accounts] /\ \A m \in Nodes : ~acct'[m].present => acct'[m] = NoAccount
      BY <2>6, <2>7 DEF TypeOK
    <2>9. files' \in BOOLEAN
      BY <1>13 DEF NodeActivity, tree, TypeOK
    <2> QED
      BY <1>13, <2>1, <2>8, <2>9 DEF NodeActivity, TypeOK
  <1>14. ASSUME NEW n \in Nodes, NodeActivityFails(n) PROVE TypeOK'
    <2>1. RunOK'
      BY <1>0, <1>14, NodeActivityFailsRun
    <2>2. wf.access \in Versions
      BY <1>0 DEF RunOK, Runs
    <2>3. PICK a : a = Doing(n)
      OBVIOUS
    <2>4. PICK x \in Accounts : x = acct[n] /\ (~x.present => x = NoAccount)
      BY DEF TypeOK
    <2>5. PICK y \in leftBy(a, wf.access, x) : acct' = [acct EXCEPT ![n] = y]
      BY <1>14, <2>3, <2>4 DEF NodeActivityFails
    <2>6. y \in Accounts /\ (~y.present => y = NoAccount)
      BY <2>2, <2>4, <2>5, LeftType
    <2>7. acct' \in [Nodes -> Accounts] /\ \A m \in Nodes : ~acct'[m].present => acct'[m] = NoAccount
      BY <2>5, <2>6 DEF TypeOK
    <2>8. files' \in BOOLEAN
      BY <1>14 DEF NodeActivityFails, tree, TypeOK
    <2> QED
      BY <1>14, <2>1, <2>7, <2>8 DEF NodeActivityFails, TypeOK
  <1>15. CASE NodesDone
    BY <1>0, <1>1, <1>2, <1>3, <1>15 DEF NodesDone
  <1>16. CASE GetShardDesiredState
    <2>1. RunOK'
      BY <1>0, <1>16, DesiredRun
    <2> QED
      BY <1>0, <1>1, <1>16, <2>1 DEF GetShardDesiredState
  <1>17. Running("list") => Listed \in SUBSET Children
    <2>1. Running("list") => wf.op \in {"create", "suspend", "unsuspend", "delete"}
      BY <1>0, Steps DEF RunOK, Running, Step
    <2> QED
      BY <2>1 DEF Listed, Children
  <1>18. CASE ListChildren
    <2>1. PICK l \in SUBSET Children : l = Listed
      BY <1>17, <1>18 DEF ListChildren
    <2>2. RunOK'
      BY <1>0, <1>18, <2>1, ListedRun DEF ListChildren
    <2> QED
      BY <1>0, <1>1, <1>18, <2>2 DEF ListChildren
  <1>19. CASE ListChildrenFails
    <2>1. PICK l \in SUBSET Children : wf' = at([wf EXCEPT !.list = l], wf.pc + 1)
      BY <1>17, <1>19 DEF ListChildrenFails
    <2>2. RunOK'
      BY <1>0, <1>19, <2>1, ListedRun DEF ListChildrenFails
    <2> QED
      BY <1>0, <1>1, <1>4, <1>19, <2>2 DEF ListChildrenFails
  <1>20. CASE ChildrenDone
    <2>1. RunOK'
      BY <1>3, <1>20 DEF ChildrenDone, Running
    <2>2. restored' \in BOOLEAN
      BY <1>20 DEF ChildrenDone
    <2> QED
      BY <1>20, <2>1, <2>2 DEF ChildrenDone, TypeOK
  <1>21. ASSUME NEW c \in Children, ChildStep(c) PROVE TypeOK'
    <2>1. RunOK' /\ wf.op \in {"create", "suspend", "unsuspend", "delete"}
      BY <1>0, <1>21, ChildRun DEF ChildStep
    <2>2. PICK ends \in SUBSET Statuses : childAfter(c, ends)
      BY <1>21, <2>1 DEF ChildStep, Statuses
    <2>3. child' \in [Children -> Statuses]
      BY <1>0, <2>2, ChildAfter
    <2> QED
      BY <1>21, <2>1, <2>3 DEF ChildStep, TypeOK
  <1>22. ASSUME NEW c \in Children, ChildStepFails(c) PROVE TypeOK'
    <2>1. RunOK'
      BY <1>0, <1>22, ChildRun DEF ChildStepFails
    <2> QED
      BY <1>0, <1>1, <1>4, <1>22, <2>1 DEF ChildStepFails
  <1>23. CASE MigrateWebroots
    BY <1>0, <1>1, <1>2, <1>3, <1>23 DEF MigrateWebroots, Running
  <1>24. CASE UpdateTenantShardID
    <2>1. wf.target \in Shards
      BY <1>0 DEF RunOK, Runs
    <2>2. [row EXCEPT !.shard = wf.target] \in Rows
      BY <1>0, <2>1, RowTypes
    <2> QED
      BY <1>0, <1>1, <1>2, <1>3, <1>24, <2>2 DEF UpdateTenantShardID, Running
  <1>25. CASE DeleteTenantDBRows
    <2>1. CASE Fail /\ UNCHANGED child
      BY <1>0, <1>1, <1>2, <1>25, <2>1 DEF DeleteTenantDBRows
    <2>2. CASE /\ row' = [row EXCEPT !.status = "absent"]
               /\ child' = [c \in Children |-> "absent"]
               /\ Advance /\ UNCHANGED <<hitch, faults>>
      <3>1. row' \in Rows
        BY <1>0, <2>2, RowTypes
      <3>2. child' \in [Children -> Statuses]
        BY <2>2 DEF Statuses
      <3>3. RunOK'
        BY <1>3, <1>25, <2>2 DEF DeleteTenantDBRows, Running
      <3> QED
        BY <1>25, <2>2, <3>1, <3>2, <3>3 DEF DeleteTenantDBRows, TypeOK
    <2> QED
      BY <1>25, <2>1, <2>2 DEF DeleteTenantDBRows
  <1> QED
    BY <1>5, <1>6, <1>7, <1>8, <1>9, <1>10, <1>11, <1>12, <1>13, <1>14, <1>15, <1>16, <1>18,
       <1>19, <1>20, <1>21, <1>22, <1>23, <1>24, <1>25 DEF Worker

LEMMA TypeStep == TypeOK /\ [Next]_vars => TypeOK'
  <1> SUFFICES ASSUME TypeOK, [Next]_vars PROVE TypeOK'
    OBVIOUS
  <1> USE TenantAssumption
  <1>1. ASSUME UNCHANGED wf PROVE RunOK'
    BY <1>1 DEF TypeOK, RunOK, Step
  <1>2. ASSUME NEW c \in Children, LoadChild(c) \/ DeleteChild(c) PROVE TypeOK'
    <2>1. calls' \in 0..MaxEvents
      BY <1>2 DEF LoadChild, DeleteChild, MayCall, TypeOK
    <2>2. child' \in [Children -> Statuses]
      BY <1>2 DEF LoadChild, DeleteChild, TypeOK, Statuses
    <2>3. edit' \in [Children -> Statuses \union {"none", "update", "delete"}]
      BY <1>2 DEF LoadChild, DeleteChild, TypeOK
    <2> QED
      BY <1>1, <1>2, <2>1, <2>2, <2>3 DEF LoadChild, DeleteChild, TypeOK
  <1>3. ASSUME NEW c \in Children, PutChild(c) PROVE TypeOK'
    <2>1. child' \in [Children -> Statuses]
      BY <1>3 DEF PutChild, TypeOK
    <2>2. edit' \in [Children -> Statuses \union {"none", "update", "delete"}]
      BY <1>3 DEF PutChild, TypeOK
    <2>3. relapsed' \subseteq Zones
      BY <1>3 DEF PutChild, TypeOK
    <2> QED
      BY <1>1, <1>3, <2>1, <2>2, <2>3 DEF PutChild, TypeOK
  <1>5. ASSUME NEW c \in Children, SignalChild(c) PROVE TypeOK'
    <2>1. queue' \in Seq(Tasks)
      <3>1. PICK t : t = [op |-> IF edit[c] = "update" THEN "child_update" ELSE "child_delete", child |-> c]
        OBVIOUS
      <3>2. t \in Tasks
        BY <3>1 DEF Tasks
      <3> QED
        BY <1>5, <3>1, <3>2 DEF SignalChild, TypeOK
    <2>2. edit' \in [Children -> Statuses \union {"none", "update", "delete"}]
      BY <1>5 DEF SignalChild, TypeOK
    <2> QED
      BY <1>1, <1>5, <2>1, <2>2 DEF SignalChild, TypeOK
  <1>6. ASSUME NEW c \in Children, SignalChildLost(c) PROVE TypeOK'
    <2>1. faults' \in 0..MaxFaults
      BY <1>6 DEF SignalChildLost, MayFault, TypeOK
    <2>2. edit' \in [Children -> Statuses \union {"none", "update", "delete"}]
      BY <1>6 DEF SignalChildLost, TypeOK
    <2> QED
      BY <1>1, <1>6, <2>1, <2>2 DEF SignalChildLost, TypeOK
  <1>4. CASE UNCHANGED vars
    BY <1>1, <1>4 DEF vars, TypeOK
  <1> QED
    BY <1>2, <1>3, <1>4, <1>5, <1>6, WorkerType, RequestType DEF Next

\* Every request, activity and failure leaves the tenant's row, its accounts,
\* its queue and its workflow well-formed: a workflow is at one of its steps,
\* tells a node only what this step tells, and no account is left with groups
\* or a lock but no user.
THEOREM Typing == Spec => []TypeOK
  <1> QED
    BY TypeInit, TypeStep, PTL DEF Spec

-----------------------------------------------------------------------------
(* The kinds of steps, as far as the row and the accounts are concerned.   *)

\* Reads, signals and what concerns the resources only: nothing is awaited
\* that was not, and whatever was still is.
Aside ==
    /\ UNCHANGED <<row, acct, wf, restored, hitch, faults, moves>>
    /\ \A ops \in SUBSET Ops : Awaits(ops) <=> Awaits(ops)'
    /\ \A c \in Callers : caller'[c].saw.shard \in {caller[c].saw.shard, row.shard, Home}
    /\ \A c \in Children : Stuck(c)' => Stuck(c)

\* A request writes the row, and from then on its task is awaited.
Asks(op) ==
    /\ UNCHANGED <<child, acct, wf, restored, hitch, faults>>
    /\ \A c \in Children : Stuck(c)' => Stuck(c)
    /\ \A ops \in SUBSET Ops : Awaits(ops)' <=> op \in ops \/ Awaits(ops)
    /\ IF op = "migrate" THEN moves' # 0 ELSE moves' = moves
    /\ row.status = "absent" => row' = row
    /\ op # "update" => row'.shard = row.shard /\ row'.access = row.access
    /\ op = "update" => row' = row \/ \E c \in Callers : row' = caller[c].saw
    /\ \A c \in Callers : caller'[c].saw.shard \in {caller[c].saw.shard, Home}

\* The workflow reports its failure.
GivesUp ==
    /\ wf # Idle /\ wf' = Idle
    /\ row' = failed(row) /\ hitch' = TRUE
    /\ UNCHANGED <<child, acct, queue, caller, moves, restored, faults>>

\* The steps that only deletions and migrations have.
Elsewhere ==
    /\ wf.op \in {"delete", "migrate"} /\ (wf' # Idle => wf'.op = wf.op)
    /\ wf' = Idle => row'.status = "absent"
    /\ row.status = "absent" => row'.status = "absent"
    /\ wf.op = "delete" => row'.shard = row.shard
    /\ wf.op = "migrate" =>
          /\ wf.pc \in {4, 5, 6} /\ wf'.pc = wf.pc + 1 /\ wf'.shard = wf.shard /\ wf'.target = wf.target
          /\ row'.shard = IF wf.pc = 5 THEN wf.target ELSE row.shard
          /\ \A n \in Nodes : wf'.at[n] # 0 => n \in NodesOf[wf.shard]
    /\ UNCHANGED <<acct, queue, caller, moves, restored, hitch, faults>>

LEMMA Added ==
  ASSUME queue \in Seq(Tasks), NEW t \in Tasks, queue' = Append(queue, t), NEW ops
  PROVE  (\E i \in 1..Len(queue') : queue'[i].op \in ops)
            <=> t.op \in ops \/ \E i \in 1..Len(queue) : queue[i].op \in ops
  <1>1. PICK q \in Seq(Tasks) : q = queue
    OBVIOUS
  <1>2. PICK p \in Seq(Tasks) : p = queue' /\ p = Append(q, t)
    BY <1>1
  <1>3. /\ Len(p) = Len(q) + 1 /\ p[Len(p)] = t /\ Len(q) \in Nat
        /\ \A i \in 1..Len(q) : p[i] = q[i]
    BY <1>2
  <1>4. ASSUME NEW i \in 1..Len(p), p[i].op \in ops
        PROVE  t.op \in ops \/ \E j \in 1..Len(q) : q[j].op \in ops
    <2>1. i = Len(p) \/ i \in 1..Len(q)
      BY <1>3, <1>4
    <2> QED
      BY <1>3, <1>4, <2>1
  <1>5. ASSUME t.op \in ops PROVE \E i \in 1..Len(p) : p[i].op \in ops
    <2>1. Len(p) \in 1..Len(p)
      BY <1>3
    <2> QED
      BY <1>3, <1>5, <2>1
  <1>6. ASSUME NEW j \in 1..Len(q), q[j].op \in ops PROVE \E i \in 1..Len(p) : p[i].op \in ops
    <2>1. j \in 1..Len(p) /\ p[j] = q[j]
      BY <1>3, <1>6
    <2> QED
      BY <1>6, <2>1
  <1> QED
    BY <1>1, <1>2, <1>4, <1>5, <1>6

LEMMA Removed ==
  ASSUME queue \in Seq(Tasks), queue # <<>>, queue' = Tail(queue), NEW ops
  PROVE  (\E i \in 1..Len(queue) : queue[i].op \in ops)
            <=> Head(queue).op \in ops \/ \E i \in 1..Len(queue') : queue'[i].op \in ops
  <1>1. PICK q \in Seq(Tasks) : q = queue
    OBVIOUS
  <1>2. PICK p \in Seq(Tasks) : p = queue' /\ p = Tail(q)
    BY <1>1
  <1>3. /\ Len(q) = Len(p) + 1 /\ q[1] = Head(q) /\ Len(p) \in Nat
        /\ \A i \in 1..Len(p) : p[i] = q[i + 1]
    BY <1>1, <1>2
  <1>4. ASSUME NEW i \in 1..Len(q), q[i].op \in ops
        PROVE  Head(q).op \in ops \/ \E j \in 1..Len(p) : p[j].op \in ops
    <2>1. CASE i = 1
      BY <1>3, <1>4, <2>1
    <2>2. CASE i # 1
      <3>1. i - 1 \in 1..Len(p) /\ p[i - 1] = q[i]
        BY <1>3, <1>4, <2>2
      <3> QED
        BY <1>4, <3>1
    <2> QED
      BY <2>1, <2>2
  <1>5. ASSUME Head(q).op \in ops PROVE \E i \in 1..Len(q) : q[i].op \in ops
    BY <1>3, <1>5
  <1>6. ASSUME NEW j \in 1..Len(p), p[j].op \in ops PROVE \E i \in 1..Len(q) : q[i].op \in ops
    <2>1. j + 1 \in 1..Len(q) /\ p[j] = q[j + 1]
      BY <1>3, <1>6
    <2> QED
      BY <1>6, <2>1
  <1> QED
    BY <1>1, <1>2, <1>4, <1>5, <1>6

\* A resource that is stuck was so before a task was added, or a task of
\* another one was taken.
LEMMA StuckAdded ==
  ASSUME queue \in Seq(Tasks), NEW t \in Tasks, queue' = Append(queue, t), NEW c,
         \A i \in 1..Len(queue') : queue'[i].op = "child_update" => queue'[i].child # c
  PROVE  /\ \A i \in 1..Len(queue) : queue[i].op = "child_update" => queue[i].child # c
         /\ t.op = "child_update" => t.child # c
  <1>1. PICK q \in Seq(Tasks) : q = queue
    OBVIOUS
  <1>2. PICK p \in Seq(Tasks) : p = queue' /\ p = Append(q, t)
    BY <1>1
  <1>3. /\ Len(p) = Len(q) + 1 /\ p[Len(p)] = t /\ Len(q) \in Nat
        /\ \A i \in 1..Len(q) : p[i] = q[i]
    BY <1>2
  <1>4. /\ \A i \in 1..Len(q) : i \in 1..Len(p)
        /\ Len(p) \in 1..Len(p)
    BY <1>3
  <1> QED
    BY <1>1, <1>2, <1>3, <1>4

LEMMA StuckTaken ==
  ASSUME queue \in Seq(Tasks), queue # <<>>, queue' = Tail(queue), NEW c, c # Head(queue).child,
         \A i \in 1..Len(queue') : queue'[i].op = "child_update" => queue'[i].child # c
  PROVE  \A i \in 1..Len(queue) : queue[i].op = "child_update" => queue[i].child # c
  <1>1. PICK q \in Seq(Tasks) : q = queue
    OBVIOUS
  <1>2. PICK p \in Seq(Tasks) : p = queue' /\ p = Tail(q)
    BY <1>1
  <1>3. /\ Len(q) = Len(p) + 1 /\ q[1] = Head(q) /\ Len(p) \in Nat
        /\ \A i \in 1..Len(p) : p[i] = q[i + 1]
    BY <1>1, <1>2
  <1>4. ASSUME NEW i \in 1..Len(q), q[i].op = "child_update" PROVE q[i].child # c
    <2>1. CASE i = 1
      BY <1>1, <1>3, <2>1
    <2>2. CASE i # 1
      <3>1. i - 1 \in 1..Len(p) /\ p[i - 1] = q[i]
        BY <1>3, <1>4, <2>2
      <3> QED
        BY <1>2, <1>4, <3>1
    <2> QED
      BY <2>1, <2>2
  <1> QED
    BY <1>1, <1>4

\* A caller that has written: its task is awaited, those of the others as before.
LEMMA WrittenAwaited ==
  ASSUME TypeOK, NEW c \in Callers, NEW op \in Ops, NEW sh \in Shards, caller[c].pc # "written",
         Signalled(c, op, sh), UNCHANGED queue
  PROVE  /\ \A ops \in SUBSET Ops : Awaits(ops)' <=> op \in ops \/ Awaits(ops)
         /\ \A d \in Callers : caller'[d].saw.shard \in {caller[d].saw.shard, Home}
  <1>1. PICK call \in Calls : /\ call = [NoCall EXCEPT !.pc = "written", !.op = op, !.target = sh]
                              /\ call.pc = "written" /\ call.op = op /\ call.saw.shard = Home
    BY WrittenCall
  <1>2. call.pc = "written" /\ call.op = op /\ call.saw.shard = Home
    BY <1>1
  <1>3. caller \in [Callers -> Calls] /\ caller' = [caller EXCEPT ![c] = call]
    BY <1>1 DEF Signalled, TypeOK
  <1>4. \A d \in Callers : caller'[d] = IF d = c THEN call ELSE caller[d]
    BY <1>3
  <1>5. \A ops \in SUBSET Ops :
           (\E d \in Callers : caller'[d].pc = "written" /\ caller'[d].op \in ops)
              <=> op \in ops \/ \E d \in Callers : caller[d].pc = "written" /\ caller[d].op \in ops
    BY <1>2, <1>4
  <1> QED
    BY <1>2, <1>4, <1>5 DEF Awaits

\* Every step in which no signal and no write is lost is of one of these kinds.
LEMMA RequestKinds ==
  ASSUME TypeOK, NEW c \in Callers, Request(c), faults' = 0
  PROVE  Aside \/ \E op \in Ops : Asks(op)
  <1>0. row \in Rows /\ caller \in [Callers -> Calls] /\ queue \in Seq(Tasks) /\ faults \in Nat
    BY TenantAssumption DEF TypeOK
  <1>1. ASSUME NEW call, caller' = [caller EXCEPT ![c] = call], call.pc # "written",
               caller[c].pc # "written", UNCHANGED queue
        PROVE  \A ops \in SUBSET Ops : Awaits(ops) <=> Awaits(ops)'
    BY <1>0, <1>1 DEF Awaits
  <1>s. ASSUME UNCHANGED <<child, queue, edit, relapsed>>
        PROVE  \A d \in Children : Stuck(d)' => Stuck(d)
    BY <1>s DEF Stuck
  <1>2. CASE ReadForUpdate(c)
    <2>1. PICK r \in Rows : r = row
      BY <1>0
    <2>2. PICK none \in Calls : none = NoCall
      BY NoCallType
    <2>3. PICK saw : saw = [r EXCEPT !.access = calls + 2]
      OBVIOUS
    <2>4. saw.shard = row.shard
      BY <2>1, <2>3 DEF Rows
    <2>5. PICK call : call = [none EXCEPT !.pc = "read", !.op = "update", !.saw = saw]
      OBVIOUS
    <2>6. call.pc = "read" /\ call.saw = saw
      BY <2>5 DEF Calls
    <2>7. caller' = [caller EXCEPT ![c] = call]
      BY <1>2, <2>1, <2>2, <2>3, <2>5 DEF ReadForUpdate
    <2>8. \A d \in Callers : caller'[d].saw.shard \in {caller[d].saw.shard, row.shard, Home}
      BY <1>0, <2>4, <2>6, <2>7
    <2> QED
      BY <1>1, <1>s, <1>2, <2>6, <2>7, <2>8 DEF ReadForUpdate, Aside
  <1>3. CASE ReadForRetry(c)
    <2>1. PICK none \in Calls : none = NoCall /\ none.saw.shard = Home
      BY NoCallType
    <2>2. PICK call : call = [none EXCEPT !.pc = "read", !.op = "retry"]
      OBVIOUS
    <2>3. call.pc = "read" /\ call.saw = none.saw
      BY <2>2 DEF Calls
    <2>4. caller' = [caller EXCEPT ![c] = call]
      BY <1>3, <2>1, <2>2 DEF ReadForRetry
    <2>5. \A d \in Callers : caller'[d].saw.shard \in {caller[d].saw.shard, row.shard, Home}
      BY <1>0, <2>1, <2>3, <2>4
    <2> QED
      BY <1>1, <1>s, <1>3, <2>3, <2>4, <2>5 DEF ReadForRetry, Aside
  <1>4. CASE SignalTask(c)
    <2>1. PICK t : t = [op |-> caller[c].op, target |-> caller[c].target]
      OBVIOUS
    <2>2. t.op = caller[c].op /\ caller[c].op \in Ops /\ caller[c].target \in Shards
      BY <1>0, <1>4, <2>1 DEF SignalTask, TypeOK, Calls
    <2>3. t \in Tasks
      BY <2>1, <2>2 DEF Tasks
    <2>4. \A ops \in SUBSET Ops :
             (\E i \in 1..Len(queue') : queue'[i].op \in ops)
                <=> caller[c].op \in ops \/ \E i \in 1..Len(queue) : queue[i].op \in ops
      <3> SUFFICES ASSUME NEW ops \in SUBSET Ops
                   PROVE  (\E i \in 1..Len(queue') : queue'[i].op \in ops)
                            <=> caller[c].op \in ops \/ \E i \in 1..Len(queue) : queue[i].op \in ops
        OBVIOUS
      <3>1. queue' = Append(queue, t)
        BY <1>4, <2>1 DEF SignalTask
      <3> QED
        BY <1>0, <2>2, <2>3, <3>1, Added
    <2>5. NoCall.pc # "written" /\ NoCall.saw.shard = Home
      BY NoCallType
    <2>6. \A d \in Callers : caller'[d] = IF d = c THEN NoCall ELSE caller[d]
      BY <1>0, <1>4 DEF SignalTask
    <2>7. \A ops \in SUBSET Ops :
             (\E d \in Callers : caller[d].pc = "written" /\ caller[d].op \in ops)
                <=> caller[c].op \in ops
                       \/ \E d \in Callers : caller'[d].pc = "written" /\ caller'[d].op \in ops
      BY <1>4, <2>5, <2>6 DEF SignalTask
    <2>8. \A ops \in SUBSET Ops : Awaits(ops) <=> Awaits(ops)'
      BY <2>4, <2>7 DEF Awaits
    <2>9. \A d \in Callers : caller'[d].saw.shard \in {caller[d].saw.shard, row.shard, Home}
      BY <2>5, <2>6
    <2>10. ASSUME NEW d \in Children, Stuck(d)' PROVE Stuck(d)
      <3>1. queue' = Append(queue, t) /\ UNCHANGED <<child, edit, relapsed>>
        BY <1>4, <2>1 DEF SignalTask
      <3>2. \A i \in 1..Len(queue') : queue'[i].op = "child_update" => queue'[i].child # d
        BY <2>10 DEF Stuck
      <3>3. \A i \in 1..Len(queue) : queue[i].op = "child_update" => queue[i].child # d
        BY <1>0, <2>3, <3>1, <3>2, StuckAdded
      <3> QED
        BY <2>10, <3>1, <3>3 DEF Stuck
    <2> QED
      BY <1>4, <2>8, <2>9, <2>10 DEF SignalTask, Aside
  <1>5. CASE SignalLost(c)
    BY <1>0, <1>5 DEF SignalLost
  <1>6. ASSUME NEW st \in Statuses, row' = statusSet(st)
        PROVE  /\ row.status = "absent" => row' = row
               /\ row'.shard = row.shard /\ row'.access = row.access
    BY <1>0, <1>6, RowTypes DEF statusSet
  <1>7. CASE Update(c)
    <2>1. "update" \in Ops /\ Home \in Shards /\ caller[c].pc # "written"
      BY <1>7, TenantAssumption DEF Ops, Update
    <2>2. Signalled(c, "update", Home) /\ UNCHANGED queue
      BY <1>7 DEF Update
    <2>3. /\ \A ops \in SUBSET Ops : Awaits(ops)' <=> "update" \in ops \/ Awaits(ops)
          /\ \A d \in Callers : caller'[d].saw.shard \in {caller[d].saw.shard, Home}
      BY <2>1, <2>2, WrittenAwaited
    <2>4. Asks("update")
      BY <1>7, <1>s, <2>3 DEF Asks, Update
    <2> QED
      BY <2>1, <2>4
  <1>8. CASE Retry(c)
    <2>1. "create" \in Ops /\ Home \in Shards /\ caller[c].pc # "written"
      BY <1>8, TenantAssumption DEF Ops, Retry
    <2>2. Signalled(c, "create", Home) /\ UNCHANGED queue
      BY <1>8 DEF Retry
    <2>3. /\ \A ops \in SUBSET Ops : Awaits(ops)' <=> "create" \in ops \/ Awaits(ops)
          /\ \A d \in Callers : caller'[d].saw.shard \in {caller[d].saw.shard, Home}
      BY <2>1, <2>2, WrittenAwaited
    <2>4. /\ row.status = "absent" => row' = row
          /\ row'.shard = row.shard /\ row'.access = row.access
      BY <1>6, <1>8 DEF Retry, Statuses
    <2>5. Asks("create")
      BY <1>8, <1>s, <2>3, <2>4 DEF Asks, Retry
    <2> QED
      BY <2>1, <2>5
  <1>9. ASSUME NEW op \in Ops, op # "update", NEW sh \in Shards, NEW st \in Statuses,
               Write(c, op, sh, st), IF op = "migrate" THEN moves' # 0 ELSE moves' = moves
        PROVE  Asks(op)
    <2>1. caller[c].pc # "written" /\ Signalled(c, op, sh) /\ UNCHANGED queue
      BY <1>9 DEF Write
    <2>2. /\ \A ops \in SUBSET Ops : Awaits(ops)' <=> op \in ops \/ Awaits(ops)
          /\ \A d \in Callers : caller'[d].saw.shard \in {caller[d].saw.shard, Home}
      BY <2>1, WrittenAwaited
    <2>3. /\ row.status = "absent" => row' = row
          /\ row'.shard = row.shard /\ row'.access = row.access
      BY <1>6, <1>9 DEF Write
    <2> QED
      BY <1>9, <1>s, <2>2, <2>3 DEF Asks, Write
  <1>10. CASE Delete(c) \/ Suspend(c) \/ Unsuspend(c)
    <2>1. /\ {"delete", "suspend", "unsuspend"} \subseteq Ops
          /\ {"deleting", "suspended", "pending"} \subseteq Statuses /\ Home \in Shards
      BY TenantAssumption DEF Ops, Statuses
    <2> QED
      BY <1>9, <1>10, <2>1 DEF Delete, Suspend, Unsuspend
  <1>11. ASSUME NEW sh \in Targets, Migrate(c, sh) PROVE Asks("migrate")
    <2>1. "migrate" \in Ops /\ sh \in Shards /\ "provisioning" \in Statuses
      BY TenantAssumption DEF Ops, Statuses
    <2>2. moves' # 0
      BY <1>11, TenantAssumption DEF Migrate, TypeOK
    <2> QED
      BY <1>9, <1>11, <2>1, <2>2 DEF Migrate
  <1>12. "migrate" \in Ops
    BY DEF Ops
  <1> QED
    BY <1>2, <1>3, <1>4, <1>5, <1>7, <1>8, <1>10, <1>11, <1>12 DEF Request

\* The nodes have all been told, and the workflow need not give up.
NodesGoOn ==
    /\ wf # Idle /\ Step \in NodeSteps /\ (\A n \in Nodes : wf.at[n] = 0)
    /\ Step = "nodes" => ~wf.bad
    /\ Advance
    /\ UNCHANGED <<row, child, acct, queue, caller, moves, restored, hitch, faults>>

\* No activity of a running workflow concerns the requests.
Works ==
    \/ GivesUp \/ Elsewhere \/ WriteStatus \/ Lookup \/ NodesGoOn
    \/ \E n \in Nodes : NodeActivity(n) \/ NodeActivityFails(n)
    \/ ListChildren \/ ChildrenDone \/ \E c \in Children : ChildStep(c)

LEMMA WorkerKinds ==
  ASSUME TypeOK, Worker, faults' = 0
  PROVE  Aside \/ StartTask \/ Works
  <1>0. /\ row \in Rows /\ RunOK /\ faults \in Nat /\ queue \in Seq(Tasks)
        /\ child \in [Children -> Statuses]
    BY TenantAssumption DEF TypeOK
  <1>1. ASSUME Fail, wf # Idle, UNCHANGED <<child, acct, files, queue, caller, calls, moves, restored>>
        PROVE  GivesUp
    BY <1>0, <1>1 DEF Fail, GivesUp
  <1>2. ASSUME Advance, wf # Idle, wf.op \in {"delete", "migrate"}, wf.pc # Len(Program(wf.op)),
               row.status = "absent" => row'.status = "absent",
               wf.op = "delete" => row'.shard = row.shard,
               wf.op = "migrate" => /\ wf.pc \in {4, 5, 6}
                                    /\ row'.shard = IF wf.pc = 5 THEN wf.target ELSE row.shard,
               UNCHANGED <<acct, queue, caller, moves, restored, hitch, faults>>
        PROVE  Elsewhere
    <2>1. wf'.op = wf.op
      BY <1>0, <1>2, Advances
    <2>2. wf' # Idle
      BY <1>2, <2>1, IdleType
    <2>3. wf'.pc = wf.pc + 1 /\ wf'.shard = wf.shard /\ wf'.target = wf.target
      BY <1>0, <1>2, Advances
    <2>4. ASSUME wf.op = "migrate", NEW n \in Nodes, wf'.at[n] # 0 PROVE n \in NodesOf[wf.shard]
      <3>1. "migrate" \in Ops /\ wf.pc + 1 \in {5, 6, 7} /\ wf.pc + 1 \in 1..Len(Program("migrate"))
        BY <1>0, <1>2, <2>4, Lengths, Advances DEF Ops
      <3>2. Program("migrate")[wf.pc + 1] # "nodes"
        BY <3>1, Steps
      <3>3. Step' = Program("migrate")[wf.pc + 1]
        BY <1>0, <1>2, <2>4, Advances
      <3> QED
        BY <1>0, <1>2, <2>4, <3>2, <3>3, Advances
    <2> QED
      BY <1>2, <2>1, <2>2, <2>3, <2>4 DEF Elsewhere
  <1>3. ASSUME wf # Idle PROVE wf.op \in Ops /\ wf.pc \in 1..Len(Program(wf.op))
    BY <1>0, <1>3 DEF RunOK
  <1>4. CASE RunChildTask
    <2>1. Head(queue).op \notin Ops /\ queue # <<>> /\ queue' = Tail(queue)
      BY <1>4 DEF RunChildTask
    <2>2. \A ops \in SUBSET Ops :
             (\E i \in 1..Len(queue) : queue[i].op \in ops)
                <=> \E i \in 1..Len(queue') : queue'[i].op \in ops
      <3> SUFFICES ASSUME NEW ops \in SUBSET Ops
                   PROVE  (\E i \in 1..Len(queue) : queue[i].op \in ops)
                             <=> \E i \in 1..Len(queue') : queue'[i].op \in ops
        OBVIOUS
      <3>1. Head(queue).op \notin ops
        BY <2>1
      <3>2. (\E i \in 1..Len(queue) : queue[i].op \in ops)
               <=> Head(queue).op \in ops \/ \E i \in 1..Len(queue') : queue'[i].op \in ops
        BY <1>0, <2>1, Removed
      <3> QED
        BY <3>1, <3>2
    <2>3. UNCHANGED <<row, acct, wf, caller, restored, hitch, faults, moves>>
      BY <1>4 DEF RunChildTask
    <2>4. \A ops \in SUBSET Ops : Awaits(ops) <=> Awaits(ops)'
      BY <2>2, <2>3 DEF Awaits
    <2>5. PICK ends : "suspended" \notin ends /\ childAfter(Head(queue).child, ends)
      BY <1>4 DEF RunChildTask
    <2>6. ASSUME NEW c \in Children, Stuck(c)' PROVE Stuck(c)
      <3>1. child'[c] = "suspended" => child[c] = "suspended" /\ c # Head(queue).child
        BY <1>0, <2>5 DEF childAfter
      <3>2. /\ child'[c] = "suspended" /\ c \notin relapsed' /\ edit'[c] # "update"
            /\ \A i \in 1..Len(queue') : queue'[i].op = "child_update" => queue'[i].child # c
        BY <2>6 DEF Stuck
      <3>3. \A i \in 1..Len(queue) : queue[i].op = "child_update" => queue[i].child # c
        BY <1>0, <2>1, <3>1, <3>2, StuckTaken
      <3>4. c \notin relapsed /\ edit[c] # "update"
        BY <1>4, <3>1, <3>2 DEF RunChildTask
      <3> QED
        BY <3>1, <3>2, <3>3, <3>4 DEF Stuck
    <2> QED
      BY <2>3, <2>4, <2>6 DEF Aside
  <1>5. CASE WriteStatusFails \/ SuspendLookupFails \/ ListChildrenFails \/ \E c \in Children : ChildStepFails(c)
    BY <1>0, <1>5 DEF WriteStatusFails, SuspendLookupFails, ListChildrenFails, ChildStepFails
  <1>6. CASE LookupFails
    BY <1>1, <1>6 DEF LookupFails, Running, Works
  <1>7. CASE ListMembers
    <2>1. wf # Idle /\ Step = "members"
      BY <1>7 DEF ListMembers, Running
    <2>2. /\ wf.op \in {"delete", "migrate"} /\ wf.pc # Len(Program(wf.op))
          /\ wf.op = "migrate" => wf.pc = 6
      BY <1>3, <2>1, Steps, LastStep DEF Step
    <2> QED
      BY <1>1, <1>2, <1>7, <2>1, <2>2 DEF ListMembers, Works
  <1>8. CASE MigrateWebroots
    <2>1. wf # Idle /\ Step = "webroots"
      BY <1>8 DEF MigrateWebroots, Running
    <2>2. wf.op = "migrate" /\ wf.pc = 4 /\ wf.pc # Len(Program(wf.op))
      BY <1>3, <2>1, Steps, LastStep DEF Step
    <2> QED
      BY <1>1, <1>2, <1>8, <2>1, <2>2 DEF MigrateWebroots, Works
  <1>9. CASE UpdateTenantShardID
    <2>1. wf # Idle /\ Step = "move"
      BY <1>9 DEF UpdateTenantShardID, Running
    <2>2. wf.op = "migrate" /\ wf.pc = 5 /\ wf.pc # Len(Program(wf.op))
      BY <1>3, <2>1, Steps, LastStep DEF Step
    <2>3. wf.target \in Shards
      BY <1>0 DEF RunOK, Runs
    <2>4. /\ [row EXCEPT !.shard = wf.target].status = row.status
          /\ [row EXCEPT !.shard = wf.target].shard = wf.target
      BY <1>0, <2>3, RowTypes
    <2> QED
      BY <1>1, <1>2, <1>9, <2>1, <2>2, <2>4 DEF UpdateTenantShardID, Works
  <1>10. CASE GetShardDesiredState
    <2>1. wf.op = "delete" /\ wf'.op = "delete" /\ wf' # Idle
      BY <1>0, <1>10, DesiredRun
    <2> QED
      BY <1>10, <2>1 DEF GetShardDesiredState, Elsewhere, Works
  <1>11. CASE DeleteTenantDBRows
    <2>1. wf # Idle /\ Step = "rows"
      BY <1>11 DEF DeleteTenantDBRows, Running
    <2>2. wf.op = "delete" /\ wf.pc = Len(Program(wf.op))
      BY <1>3, <2>1, Steps, LastStep DEF Step
    <2>3. CASE Fail /\ UNCHANGED child
      BY <1>1, <1>11, <2>1, <2>3 DEF DeleteTenantDBRows, Works
    <2>4. CASE row' = [row EXCEPT !.status = "absent"] /\ Advance /\ UNCHANGED <<hitch, faults>>
      <3>1. wf' = Idle
        BY <1>0, <2>1, <2>2, <2>4, Advances
      <3>2. row'.status = "absent" /\ row'.shard = row.shard
        BY <1>0, <2>4 DEF Rows
      <3> QED
        BY <1>11, <2>2, <2>4, <3>1, <3>2 DEF DeleteTenantDBRows, Elsewhere, Works
    <2> QED
      BY <1>11, <2>3, <2>4 DEF DeleteTenantDBRows
  <1>12. CASE NodesDone
    <2>1. CASE Fail
      BY <1>1, <1>12, <2>1 DEF NodesDone, Works
    <2>2. CASE ~(Step = "nodes" /\ wf.bad) /\ Advance /\ UNCHANGED <<row, hitch, faults>>
      BY <1>12, <2>2 DEF NodesDone, NodesGoOn, Works
    <2> QED
      BY <1>12, <2>1, <2>2 DEF NodesDone
  <1> QED
    BY <1>4, <1>5, <1>6, <1>7, <1>8, <1>9, <1>10, <1>11, <1>12 DEF Worker, Works

LEMMA Kinds ==
  ASSUME TypeOK, [Next]_vars, faults' = 0
  PROVE  Aside \/ (\E op \in Ops : Asks(op)) \/ StartTask \/ Works
  <1>0. /\ queue \in Seq(Tasks) /\ child \in [Children -> Statuses] /\ faults \in Nat
        /\ edit \in [Children -> Statuses \union {"none", "update", "delete"}]
    BY TenantAssumption DEF TypeOK
  <1>1. ASSUME NEW c \in Children, LoadChild(c) \/ DeleteChild(c) \/ PutChild(c) PROVE Aside
    <2>1. UNCHANGED <<row, acct, wf, restored, hitch, faults, moves, queue, caller>>
      BY <1>1 DEF LoadChild, DeleteChild, PutChild
    <2>2. \A ops \in SUBSET Ops : Awaits(ops) <=> Awaits(ops)'
      BY <2>1 DEF Awaits
    <2>3. ASSUME NEW d \in Children, Stuck(d)' PROVE Stuck(d)
      <3>1. /\ child'[d] = "suspended" /\ d \notin relapsed' /\ edit'[d] # "update"
            /\ \A i \in 1..Len(queue) : queue[i].op = "child_update" => queue[i].child # d
        BY <2>1, <2>3 DEF Stuck
      <3>2. CASE LoadChild(c)
        BY <1>0, <3>1, <3>2 DEF LoadChild, Stuck
      <3>3. CASE DeleteChild(c)
        BY <1>0, <3>1, <3>3 DEF DeleteChild, Stuck
      <3>4. CASE PutChild(c)
        <4>1. CASE d # c
          BY <1>0, <3>1, <3>4, <4>1 DEF PutChild, Stuck
        <4>2. CASE d = c
          <5>1. edit[c] # "update" /\ edit[c] \in Statuses
            BY <3>4 DEF PutChild, Statuses
          <5>2. c \in Zones /\ child[c] # "absent" /\ edit[c] = "suspended"
            BY <1>0, <3>1, <3>4, <4>2 DEF PutChild
          <5>3. child[c] = "suspended" /\ relapsed' = relapsed
            BY <3>1, <3>4, <4>2, <5>2 DEF PutChild
          <5> QED
            BY <3>1, <4>2, <5>1, <5>3 DEF Stuck
        <4> QED
          BY <4>1, <4>2
      <3> QED
        BY <1>1, <3>2, <3>3, <3>4
    <2> QED
      BY <2>1, <2>2, <2>3 DEF Aside
  <1>2. ASSUME NEW c \in Children, SignalChild(c) PROVE Aside
    <2>1. PICK t : t = [op |-> IF edit[c] = "update" THEN "child_update" ELSE "child_delete", child |-> c]
      OBVIOUS
    <2>2. t \in Tasks /\ t.op \notin Ops /\ t.child = c /\ (edit[c] = "update" => t.op = "child_update")
      BY <2>1 DEF Tasks, Ops
    <2>3. queue' = Append(queue, t) /\ UNCHANGED <<row, child, acct, wf, caller, moves, restored, hitch, faults, relapsed>>
      BY <1>2, <2>1 DEF SignalChild
    <2>4. ASSUME NEW ops \in SUBSET Ops PROVE Awaits(ops) <=> Awaits(ops)'
      <3>1. (\E i \in 1..Len(queue') : queue'[i].op \in ops)
               <=> t.op \in ops \/ \E i \in 1..Len(queue) : queue[i].op \in ops
        BY <1>0, <2>2, <2>3, Added
      <3> QED
        BY <2>2, <2>3, <3>1 DEF Awaits
    <2>5. ASSUME NEW d \in Children, Stuck(d)' PROVE Stuck(d)
      <3>1. /\ child[d] = "suspended" /\ d \notin relapsed /\ edit'[d] # "update"
            /\ \A i \in 1..Len(queue') : queue'[i].op = "child_update" => queue'[i].child # d
        BY <2>3, <2>5 DEF Stuck
      <3>2. /\ \A i \in 1..Len(queue) : queue[i].op = "child_update" => queue[i].child # d
            /\ t.op = "child_update" => t.child # d
        BY <1>0, <2>2, <2>3, <3>1, StuckAdded
      <3>3. edit[d] # "update"
        BY <1>0, <1>2, <2>2, <3>1, <3>2 DEF SignalChild
      <3> QED
        BY <3>1, <3>2, <3>3 DEF Stuck
    <2> QED
      BY <2>3, <2>4, <2>5 DEF Aside
  <1>3. ASSUME NEW c \in Children, SignalChildLost(c) PROVE FALSE
    BY <1>0, <1>3 DEF SignalChildLost
  <1>4. CASE UNCHANGED vars
    <2>1. UNCHANGED <<row, acct, wf, restored, hitch, faults, moves, queue, caller, child, edit, relapsed>>
      BY <1>4 DEF vars
    <2>2. \A ops \in SUBSET Ops : Awaits(ops) <=> Awaits(ops)'
      BY <2>1 DEF Awaits
    <2>3. \A c \in Children : Stuck(c)' => Stuck(c)
      BY <2>1 DEF Stuck
    <2> QED
      BY <2>1, <2>2, <2>3 DEF Aside
  <1> QED
    BY <1>1, <1>2, <1>3, <1>4, RequestKinds, WorkerKinds DEF Next

\* Which status a workflow writes, and when.
LEMMA StatusWritten ==
  ASSUME TypeOK, WriteStatus
  PROVE  /\ wf.op \in Ops /\ row'.shard = row.shard /\ row'.access = row.access
         /\ row.status = "absent" => row'.status = "absent"
         /\ row.status # "absent" =>
               \/ wf.pc = 1 /\ row'.status \in {"provisioning", "deleting"}
               \/ wf.op = "suspend" /\ wf.pc = 3 /\ row'.status = "suspended"
               \/ wf.op \in {"create", "update", "unsuspend"} /\ wf.pc = 4 /\ row'.status = "active"
               \/ wf.op = "migrate" /\ wf.pc = 8 /\ row'.status = "active"
         /\ wf.pc = 1 \/ (wf.op = "suspend" /\ wf.pc = 3) \/ (wf.op = "migrate" /\ wf.pc = 8)
               \/ (wf.op \in {"create", "update", "unsuspend"} /\ wf.pc = 4)
         /\ wf' = Idle => wf.op \in {"update", "migrate"} /\ wf.pc # 1
         /\ wf' # Idle => /\ wf'.op = wf.op /\ wf'.pc = wf.pc + 1
                          /\ wf'.shard = wf.shard /\ wf'.access = wf.access
  <1>1. row \in Rows /\ RunOK /\ wf # Idle /\ Advance
    BY DEF TypeOK, WriteStatus
  <1>2. wf.op \in Ops /\ wf.pc \in 1..Len(Program(wf.op))
    BY <1>1 DEF RunOK
  <1>3. \/ Step = "provisioning" /\ wf.op \notin {"suspend", "delete"} /\ wf.pc = 1
        \/ Step = "deleting" /\ wf.op = "delete" /\ wf.pc = 1
        \/ Step = "suspended" /\ wf.op = "suspend" /\ wf.pc = 3
        \/ Step = "unsuspended" /\ wf.op = "unsuspend" /\ wf.pc = 4
        \/ Step = "active" /\ wf.op \in {"create", "update"} /\ wf.pc = 4
        \/ Step = "active" /\ wf.op = "migrate" /\ wf.pc = 8
    BY <1>2, Steps DEF WriteStatus, Step
  <1>4. PICK st : st = IF Step = "unsuspended" THEN "active" ELSE Step
    OBVIOUS
  <1>5. st \in Statuses /\ row' = statusSet(st)
    BY <1>3, <1>4 DEF WriteStatus, Statuses
  <1>6. /\ row'.shard = row.shard /\ row'.access = row.access
        /\ row'.status = IF row.status = "absent" THEN "absent" ELSE st
    BY <1>1, <1>5, RowTypes
  <1>7. /\ wf.pc = Len(Program(wf.op)) => wf' = Idle
        /\ wf.pc # Len(Program(wf.op)) => /\ wf'.op = wf.op /\ wf'.pc = wf.pc + 1
                                          /\ wf'.shard = wf.shard /\ wf'.access = wf.access
    BY <1>1, Advances
  <1>8. wf.pc = Len(Program(wf.op)) => wf.op \in {"update", "migrate"} /\ wf.pc # 1
    <2>1. \/ wf.pc = 1
          \/ wf.op = "suspend" /\ wf.pc = 3
          \/ wf.op \in {"create", "update", "unsuspend"} /\ wf.pc = 4
          \/ wf.op = "migrate" /\ wf.pc = 8
      BY <1>3
    <2> QED
      BY <1>2, <2>1, LastWrite
  <1>9. wf.pc # Len(Program(wf.op)) => wf' # Idle
    <2>1. Idle.op \notin Ops
      BY IdleType DEF Ops
    <2> QED
      BY <1>2, <1>7, <2>1
  <1> QED
    BY <1>2, <1>3, <1>4, <1>6, <1>7, <1>8, <1>9

\* Where the nodes are told, and what follows.
LEMMA NodesTold ==
  ASSUME RunOK, NodesGoOn
  PROVE  /\ wf' # Idle /\ wf'.op = wf.op /\ wf'.pc = wf.pc + 1
         /\ wf'.shard = wf.shard /\ wf'.access = wf.access
         /\ \/ wf.op = "suspend" /\ wf.pc = 2 /\ ~wf.bad
            \/ wf.op \in {"create", "update", "unsuspend"} /\ wf.pc = 3 /\ ~wf.bad
            \/ wf.op \in {"delete", "migrate"}
  <1>1. wf # Idle /\ Advance /\ wf.op \in Ops /\ wf.pc \in 1..Len(Program(wf.op))
    BY DEF RunOK, NodesGoOn
  <1>2. \/ Step = "nodes" /\ wf.op = "suspend" /\ wf.pc = 2
        \/ Step = "nodes" /\ wf.op \in {"create", "update", "unsuspend"} /\ wf.pc = 3
        \/ wf.op = "delete" /\ wf.pc \in {6, 8}
        \/ wf.op = "migrate" /\ wf.pc \in {3, 7}
    BY <1>1, Steps DEF NodesGoOn, Step, NodeSteps, Ops
  <1>3. wf.pc # Len(Program(wf.op))
    BY <1>1, <1>2, LastStep
  <1>4. wf'.op = wf.op /\ wf'.pc = wf.pc + 1 /\ wf'.shard = wf.shard /\ wf'.access = wf.access
    BY <1>1, <1>3, Advances
  <1>5. wf' # Idle
    BY <1>1, <1>4, IdleType DEF Ops
  <1> QED
    BY <1>2, <1>4, <1>5 DEF NodesGoOn

LEMMA ListedFrom ==
  ASSUME RunOK, ListChildren
  PROVE  /\ row' = row /\ wf' # Idle /\ wf'.op = wf.op /\ wf'.pc = wf.pc + 1
         /\ wf'.shard = wf.shard /\ wf'.access = wf.access /\ wf'.list = Listed
         /\ \/ wf.op \in {"create", "unsuspend"} /\ wf.pc = 5
            \/ wf.op = "suspend" /\ wf.pc = 4
            \/ wf.op = "delete" /\ wf.pc = 3
  <1>1. wf # Idle /\ wf.op \in Ops /\ wf.pc \in 1..Len(Program(wf.op)) /\ Step = "list"
    BY DEF ListChildren, Running, RunOK
  <1>2. wf.op \in {"create", "suspend", "unsuspend", "delete"}
    BY <1>1, Steps DEF Step
  <1>3. PICK l \in SUBSET Children : l = Listed
    BY <1>2 DEF Listed, Children
  <1>4. /\ wf'.op = wf.op /\ wf'.pc = wf.pc + 1 /\ wf'.shard = wf.shard /\ wf'.access = wf.access
        /\ wf'.list = l
        /\ \/ wf.op \in {"create", "unsuspend"} /\ wf.pc = 5
           \/ wf.op = "suspend" /\ wf.pc = 4
           \/ wf.op = "delete" /\ wf.pc = 3
    BY <1>3, ListedRun DEF ListChildren
  <1>5. wf' # Idle
    BY <1>1, <1>4, IdleType DEF Ops
  <1> QED
    BY <1>3, <1>4, <1>5 DEF ListChildren

LEMMA ChildrenEnd ==
  ASSUME RunOK, ChildrenDone
  PROVE  \/ wf.op \in {"create", "unsuspend"} /\ wf.pc = 6 /\ wf' = Idle
         \/ wf.op = "suspend" /\ wf.pc = 5 /\ wf' = Idle
         \/ wf.op = "delete" /\ wf' # Idle /\ wf'.op = "delete"
  <1>1. wf # Idle /\ Step = "children" /\ Advance /\ wf.op \in Ops /\ wf.pc \in 1..Len(Program(wf.op))
    BY DEF RunOK, ChildrenDone, Running
  <1>2. \/ wf.op \in {"create", "unsuspend"} /\ wf.pc = 6
        \/ wf.op = "suspend" /\ wf.pc = 5
        \/ wf.op = "delete" /\ wf.pc = 4
    BY <1>1, Steps DEF Step
  <1>3. wf.pc = Len(Program(wf.op)) <=> wf.op # "delete"
    BY <1>1, <1>2, LastStep
  <1>4. /\ wf.pc = Len(Program(wf.op)) => wf' = Idle
        /\ wf.pc # Len(Program(wf.op)) => wf'.op = wf.op
    BY <1>1, Advances
  <1> QED
    BY <1>2, <1>3, <1>4, IdleType

\* The workflow stays at its step while the nodes and the resources are told.
LEMMA SameStep ==
  ASSUME RunOK, \/ \E n \in Nodes : NodeActivity(n) \/ NodeActivityFails(n)
                \/ \E c \in Children : ChildStep(c)
  PROVE  /\ wf # Idle /\ wf' # Idle /\ wf'.op = wf.op /\ wf'.pc = wf.pc
         /\ wf'.shard = wf.shard /\ wf'.access = wf.access /\ row' = row
  <1>1. /\ wf # Idle /\ row' = row /\ wf'.op = wf.op /\ wf'.pc = wf.pc
        /\ wf'.shard = wf.shard /\ wf'.access = wf.access
    BY NodeActivityRun, NodeActivityFailsRun, ChildRun DEF NodeActivity, NodeActivityFails, ChildStep
  <1>2. wf.op \in Ops
    BY <1>1 DEF RunOK
  <1> QED
    BY <1>1, <1>2, IdleType DEF Ops

\* While a workflow runs, what is awaited stays awaited.
LEMMA WorksAwait ==
  ASSUME TypeOK, Works
  PROVE  /\ UNCHANGED <<queue, caller, moves, faults>>
         /\ \A ops : Awaits(ops) <=> Awaits(ops)'
         /\ row.status = "absent" => row'.status = "absent"
  <1>1. UNCHANGED <<queue, caller, moves, faults>>
    BY DEF Works, GivesUp, Elsewhere, WriteStatus, Lookup, NodesGoOn, NodeActivity, NodeActivityFails,
           ListChildren, ChildrenDone, ChildStep
  <1>2. row.status = "absent" => row'.status = "absent"
    <2>1. WriteStatus => (row.status = "absent" => row'.status = "absent")
      BY StatusWritten
    <2> QED
      BY <2>1 DEF Works, GivesUp, failed, Elsewhere, Lookup, NodesGoOn, NodeActivity, NodeActivityFails,
                  ListChildren, ChildrenDone, ChildStep
  <1> QED
    BY <1>1, <1>2 DEF Awaits

\* Calm comes with the last task, and then lasts.
LEMMA StaysCalm ==
  ASSUME TypeOK, [Next]_vars, Calm'
  PROVE  (Aside /\ Calm) \/ StartTask \/ (Works /\ Calm)
  <1>1. ~Awaits(Ops)' /\ faults' = 0 /\ row'.status # "absent"
    BY DEF Calm
  <1>2. Aside => Calm
    BY <1>1 DEF Aside, Calm
  <1>3. ASSUME NEW op \in Ops, Asks(op) PROVE FALSE
    BY <1>1, <1>3 DEF Asks
  <1>4. Works => Calm
    BY <1>1, WorksAwait DEF Calm
  <1> QED
    BY <1>1, <1>2, <1>3, <1>4, Kinds

-----------------------------------------------------------------------------
(* The status settles.                                                     *)

LEMMA SettledStep == TypeOK /\ SettledInv /\ [Next]_vars => SettledInv'
  <1> SUFFICES ASSUME TypeOK, SettledInv, [Next]_vars, Calm'
               PROVE  /\ wf' = Idle => row'.status \in {"active", "suspended", "failed"}
                      /\ wf'.op = "suspend" /\ wf'.pc >= 4 => row'.status = "suspended"
                      /\ wf'.op \in {"create", "unsuspend"} /\ wf'.pc >= 5 => row'.status = "active"
    BY DEF SettledInv
  <1>0. row \in Rows /\ RunOK /\ row'.status # "absent"
    BY DEF TypeOK, Calm
  <1>1. ASSUME Calm
        PROVE  /\ wf = Idle => row.status \in {"active", "suspended", "failed"}
               /\ wf.op = "suspend" /\ wf.pc >= 4 => row.status = "suspended"
               /\ wf.op \in {"create", "unsuspend"} /\ wf.pc >= 5 => row.status = "active"
               /\ row.status # "absent"
    BY <1>1 DEF SettledInv, Calm
  <1>2. CASE Aside /\ Calm
    BY <1>1, <1>2 DEF Aside
  <1>3. CASE StartTask
    <2>1. wf'.pc = 1 /\ wf' # Idle
      BY <1>3, Started
    <2> QED
      BY <2>1
  <1>4. CASE Works /\ Calm
    <2>1. CASE GivesUp
      BY <1>0, <1>1, <1>4, <2>1, RowTypes, IdleType DEF GivesUp
    <2>2. CASE Elsewhere
      BY <1>0, <2>2 DEF Elsewhere
    <2>3. CASE WriteStatus
      <3>1. row.status # "absent"
        BY <1>1, <1>4
      <3>2. CASE wf' = Idle
        BY <2>3, <3>1, <3>2, StatusWritten, IdleType
      <3>3. CASE wf' # Idle
        BY <2>3, <3>1, <3>3, StatusWritten
      <3> QED
        BY <3>2, <3>3
    <2>4. CASE Lookup
      BY <1>0, <2>4, LookedUp, IdleType
    <2>5. CASE NodesGoOn
      BY <1>0, <2>5, NodesTold
    <2>6. CASE \/ \E n \in Nodes : NodeActivity(n) \/ NodeActivityFails(n)
               \/ \E c \in Children : ChildStep(c)
      BY <1>0, <1>1, <1>4, <2>6, SameStep
    <2>7. CASE ListChildren
      BY <1>0, <1>1, <1>4, <2>7, ListedFrom
    <2>8. CASE ChildrenDone
      <3>1. row' = row
        BY <2>8 DEF ChildrenDone
      <3> QED
        BY <1>0, <1>1, <1>4, <2>8, <3>1, ChildrenEnd, IdleType
    <2> QED
      BY <1>4, <2>1, <2>2, <2>3, <2>4, <2>5, <2>6, <2>7, <2>8 DEF Works
  <1> QED
    BY <1>2, <1>3, <1>4, StaysCalm

\* The write of every request is followed by a task, the tasks run in order,
\* and the last of them leaves a final status: SettledInv is the reason, the
\* status that the running workflow has written being its last word.
THEOREM Settles == Spec => []SettledWhenQuiet
  <1>1. Init => SettledInv
    BY DEF Init, SettledInv, Calm, Awaits, Idle, Ops
  <1>2. TypeOK /\ SettledInv => SettledWhenQuiet
    <2> SUFFICES ASSUME TypeOK, SettledInv, Quiet, faults = 0, row.status # "absent"
                 PROVE  row.status \in {"active", "suspended", "failed"}
      BY DEF SettledWhenQuiet
    <2>1. ~Awaits(Ops)
      BY NoCallType DEF Quiet, Awaits
    <2> QED
      BY <2>1 DEF Quiet, SettledInv, Calm
  <1> QED
    BY <1>1, <1>2, SettledStep, Typing, PTL DEF Spec

-----------------------------------------------------------------------------
(* A suspended tenant is locked out.                                       *)

\* A suspension tells the nodes one thing only.
LEMMA Suspending ==
  ASSUME RunOK, NEW n \in Nodes, wf # Idle, wf.at[n] # 0, wf.op = "suspend"
  PROVE  wf.pc = 2 /\ Doing(n) = "SuspendTenant"
  <1>1. wf.pc \in 1..Len(Program(wf.op)) /\ "suspend" \in Ops /\ Step \in NodeSteps
        /\ wf.at[n] \in 1..Len(Activities(wf.op, Step))
    BY DEF RunOK
  <1>2. Step = "nodes" /\ wf.pc = 2
    BY <1>1, Steps DEF Step, NodeSteps
  <1>3. Activities("suspend", "nodes") = <<"SuspendTenant">>
    BY DEF Activities
  <1>4. wf.at[n] = 1
    <2>1. wf.at[n] \in 1..Len(<<"SuspendTenant">>)
      BY <1>1, <1>2, <1>3
    <2> QED
      BY <2>1
  <1> QED
    BY <1>2, <1>3, <1>4 DEF Doing

LEMMA LockedStep == TypeOK /\ SettledInv /\ LockedInv /\ [Next]_vars => LockedInv'
  <1> SUFFICES ASSUME TypeOK, SettledInv, LockedInv, [Next]_vars, Calm'
               PROVE  /\ wf' = Idle /\ row'.status = "suspended" => Locked(row.shard)'
                      /\ wf'.op = "suspend" =>
                            /\ wf'.pc >= 2 => wf'.shard = row'.shard
                            /\ wf'.pc = 2 => \A n \in NodesOf[row'.shard] :
                                                wf'.at[n] = 0 /\ ~wf'.bad => acct'[n].locked
                            /\ wf'.pc >= 3 => Locked(row.shard)'
    BY DEF LockedInv
  <1>0. row \in Rows /\ RunOK /\ row'.status # "absent" /\ acct \in [Nodes -> Accounts]
    BY DEF TypeOK, Calm
  <1>1. ASSUME Calm
        PROVE  /\ wf = Idle /\ row.status = "suspended" => Locked(row.shard)
               /\ wf.op = "suspend" =>
                     /\ wf.pc >= 2 => wf.shard = row.shard
                     /\ wf.pc = 2 => \A n \in NodesOf[row.shard] :
                                        wf.at[n] = 0 /\ ~wf.bad => acct[n].locked
                     /\ wf.pc >= 3 => Locked(row.shard)
    BY <1>1 DEF LockedInv
  <1>2. CASE Aside /\ Calm
    <2>1. row' = row /\ wf' = wf /\ acct' = acct
      BY <1>2 DEF Aside
    <2> QED
      BY <1>1, <1>2, <2>1 DEF Locked
  <1>3. CASE StartTask
    <2>1. wf'.pc = 1 /\ wf' # Idle
      BY <1>3, Started
    <2> QED
      BY <2>1
  <1>4. CASE Works /\ Calm
    <2>0. row.status # "absent"
      BY <1>4 DEF Calm
    <2>1. CASE GivesUp
      BY <1>0, <2>0, <2>1, RowTypes, IdleType DEF GivesUp
    <2>2. CASE Elsewhere
      BY <1>0, <2>2 DEF Elsewhere
    <2>3. CASE WriteStatus
      <3>1. acct' = acct /\ row'.shard = row.shard
        BY <2>3, StatusWritten DEF WriteStatus
      <3>2. CASE wf' = Idle
        BY <2>0, <2>3, <3>2, StatusWritten, IdleType
      <3>3. CASE wf' # Idle
        <4>1. wf'.op = "suspend" => wf'.pc = 4 /\ wf.pc = 3 /\ wf.op = "suspend" /\ wf'.shard = wf.shard
          <5>1. wf.op = "suspend" => wf.pc = 3
            <6>1. wf.pc = 1 => wf.op # "suspend"
              BY <1>0, <2>3, Steps DEF WriteStatus, RunOK, Step
            <6> QED
              BY <2>3, <6>1, StatusWritten
          <5> QED
            BY <2>3, <3>3, <5>1, StatusWritten
        <4> QED
          BY <1>1, <1>4, <3>1, <3>3, <4>1 DEF Locked
      <3> QED
        BY <3>2, <3>3
    <2>4. CASE Lookup
      <3>1. wf' # Idle
        BY <1>0, <2>4, LookedUp, IdleType DEF Ops
      <3>2. row' = row
        BY <2>4 DEF Lookup
      <3>3. ASSUME wf'.op = "suspend"
            PROVE  wf'.shard = row.shard /\ wf'.pc = 2 /\ \A n \in NodesOf[row.shard] : wf'.at[n] = 1
        <4>1. NodesOf[row.shard] \subseteq Nodes
          BY <1>0, NodesIn DEF Rows
        <4> QED
          BY <1>0, <2>4, <3>3, <4>1, LookedUp
      <3> QED
        BY <3>1, <3>2, <3>3
    <2>5. CASE NodesGoOn
      <3>1. row' = row /\ acct' = acct /\ \A n \in Nodes : wf.at[n] = 0
        BY <2>5 DEF NodesGoOn
      <3>2. NodesOf[row.shard] \subseteq Nodes
        BY <1>0, NodesIn DEF Rows
      <3> QED
        BY <1>0, <1>1, <1>4, <2>5, <3>1, <3>2, NodesTold DEF Locked
    <2>6. ASSUME NEW n \in Nodes, NodeActivity(n)
          PROVE  wf' # Idle /\ (wf'.op = "suspend" =>
                            /\ wf'.pc = 2 /\ wf'.shard = row'.shard
                            /\ \A m \in NodesOf[row'.shard] :
                                  wf'.at[m] = 0 /\ ~wf'.bad => acct'[m].locked)
      <3>1. wf # Idle /\ wf' # Idle /\ wf'.op = wf.op /\ wf'.pc = wf.pc /\ wf'.shard = wf.shard /\ row' = row
        BY <1>0, <2>6, SameStep
      <3> SUFFICES ASSUME wf.op = "suspend"
                   PROVE  /\ wf'.pc = 2 /\ wf'.shard = row'.shard
                          /\ \A m \in NodesOf[row'.shard] :
                                  wf'.at[m] = 0 /\ ~wf'.bad => acct'[m].locked
        BY <3>1
      <3>2. wf.pc = 2 /\ Doing(n) = "SuspendTenant"
        BY <1>0, <2>6, Suspending DEF NodeActivity
      <3>3. wf'.bad = wf.bad /\ wf'.at = [wf.at EXCEPT ![n] = following(n)]
        BY <1>0, <2>6, NodeActivityRun
      <3>4. wf.at \in [Nodes -> Nat]
        BY <1>0 DEF RunOK, Runs
      <3>5. PICK x \in Accounts : x = acct[n]
        BY <1>0
      <3>6. [x EXCEPT !.locked = TRUE].locked = TRUE
        BY DEF Accounts
      <3>7. acct' = [acct EXCEPT ![n] = [x EXCEPT !.locked = TRUE]]
        BY <2>6, <3>2, <3>5 DEF NodeActivity, effect
      <3>8. \A m \in Nodes : (m # n => acct'[m] = acct[m] /\ wf'.at[m] = wf.at[m])
                             /\ (m = n => acct'[m].locked)
        BY <1>0, <3>3, <3>4, <3>6, <3>7
      <3>9. NodesOf[row.shard] \subseteq Nodes
        BY <1>0, NodesIn DEF Rows
      <3> QED
        BY <1>1, <1>4, <3>1, <3>2, <3>3, <3>8, <3>9
    <2>7. ASSUME NEW n \in Nodes, NodeActivityFails(n)
          PROVE  wf' # Idle /\ (wf'.op = "suspend" => wf'.pc = 2 /\ wf'.bad /\ wf'.shard = row'.shard)
      <3>1. wf # Idle /\ wf' # Idle /\ wf'.op = wf.op /\ wf'.pc = wf.pc /\ wf'.shard = wf.shard /\ row' = row
        BY <1>0, <2>7, SameStep
      <3>2. wf'.bad
        BY <1>0, <2>7, NodeActivityFailsRun
      <3>3. wf.op = "suspend" => wf.pc = 2
        BY <1>0, <2>7, Suspending DEF NodeActivityFails
      <3> QED
        BY <1>1, <1>4, <3>1, <3>2, <3>3
    <2>8. ASSUME NEW c \in Children, ChildStep(c)
          PROVE  wf' # Idle /\ (wf'.op = "suspend" =>
                                  wf'.pc = 5 /\ wf'.shard = row'.shard /\ Locked(row.shard)')
      <3>1. wf' # Idle /\ wf'.op = wf.op /\ wf'.pc = wf.pc /\ wf'.shard = wf.shard /\ row' = row
        BY <1>0, <2>8, SameStep
      <3>2. wf.op = "suspend" => wf.pc = 5
        BY <1>0, <2>8, ChildRun DEF ChildStep
      <3>3. acct' = acct
        BY <2>8 DEF ChildStep
      <3> QED
        BY <1>1, <1>4, <3>1, <3>2, <3>3 DEF Locked
    <2>9. CASE ListChildren
      <3>1. acct' = acct
        BY <2>9 DEF ListChildren
      <3> QED
        BY <1>0, <1>1, <1>4, <2>9, <3>1, ListedFrom DEF Locked
    <2>10. CASE ChildrenDone
      <3>1. row' = row /\ acct' = acct
        BY <2>10 DEF ChildrenDone
      <3>2. wf.op \in {"create", "unsuspend"} /\ wf.pc = 6 => row.status = "active"
        BY <1>4 DEF SettledInv
      <3> QED
        BY <1>0, <1>1, <1>4, <2>10, <3>1, <3>2, ChildrenEnd, IdleType DEF Locked
    <2> QED
      BY <1>4, <2>1, <2>2, <2>3, <2>4, <2>5, <2>6, <2>7, <2>8, <2>9, <2>10 DEF Works
  <1> QED
    BY <1>2, <1>3, <1>4, StaysCalm

\* A tenant is reported suspended only by a suspension that has locked it on
\* every node of its shard (one failure and the workflow fails), and no task
\* that comes after it leaves this status behind.
THEOREM Locks == Spec => []SuspendedIsLocked
  <1>1. Init => SettledInv /\ LockedInv
    BY DEF Init, SettledInv, LockedInv, Calm, Awaits, Idle, Ops
  <1>2. TypeOK /\ LockedInv => SuspendedIsLocked
    <2> SUFFICES ASSUME TypeOK, LockedInv, Quiet, faults = 0, row.status = "suspended"
                 PROVE  Locked(row.shard)
      BY DEF SuspendedIsLocked, Locked
    <2>1. ~Awaits(Ops)
      BY NoCallType DEF Quiet, Awaits
    <2> QED
      BY <2>1 DEF Quiet, LockedInv, Calm
  <1> QED
    BY <1>1, <1>2, SettledStep, LockedStep, Typing, PTL DEF Spec

-----------------------------------------------------------------------------
(* An unsuspension leaves nothing suspended.                               *)

LEMMA RestoredStep == TypeOK /\ RestoredInv /\ [Next]_vars => RestoredInv'
  <1> SUFFICES ASSUME TypeOK, RestoredInv, [Next]_vars, faults' = 0
               PROVE  /\ restored' => wf' = Idle /\ \A c \in Children : ~Stuck(c)'
                      /\ wf'.op = "unsuspend" /\ wf'.pc = 6 =>
                            \A c \in Children : Stuck(c)' => c \in wf'.list
    BY DEF RestoredInv
  <1>0. RunOK /\ child \in [Children -> Statuses]
    BY DEF TypeOK
  <1>1. ASSUME faults = 0
        PROVE  /\ restored => wf = Idle /\ \A c \in Children : ~Stuck(c)
               /\ wf.op = "unsuspend" /\ wf.pc = 6 =>
                     \A c \in Children : Stuck(c) => c \in wf.list
    BY <1>1 DEF RestoredInv
  <1>2. CASE Aside
    <2>1. /\ wf' = wf /\ restored' = restored /\ faults = 0
          /\ \A c \in Children : Stuck(c)' => Stuck(c)
      BY <1>2 DEF Aside
    <2> QED
      BY <1>1, <2>1
  <1>3. ASSUME NEW op \in Ops, Asks(op)
        PROVE  /\ wf' = wf /\ restored' = restored /\ faults = 0
               /\ \A c \in Children : Stuck(c)' => Stuck(c)
    BY <1>3 DEF Asks
  <1>4. CASE StartTask
    <2>1. restored' = FALSE /\ wf'.pc = 1
      BY <1>4, Started DEF StartTask
    <2> QED
      BY <2>1
  <1>5. CASE Works
    <2>0. faults = 0
      BY <1>5, WorksAwait
    <2>1. ASSUME wf # Idle, restored' = restored PROVE ~restored'
      BY <1>1, <2>0, <2>1
    <2>2. CASE GivesUp
      BY <2>1, <2>2, IdleType DEF GivesUp
    <2>3. CASE Elsewhere
      <3>1. wf # Idle /\ restored' = restored
        BY <2>3, IdleType DEF Elsewhere
      <3>2. wf'.op # "unsuspend"
        BY <2>3, IdleType DEF Elsewhere
      <3> QED
        BY <2>1, <3>1, <3>2
    <2>4. CASE WriteStatus
      <3>1. wf # Idle /\ restored' = restored
        BY <2>4 DEF WriteStatus
      <3>2. wf'.op = "unsuspend" => wf'.pc # 6
        BY <2>4, StatusWritten, IdleType
      <3> QED
        BY <2>1, <3>1, <3>2
    <2>5. CASE Lookup
      <3>1. wf # Idle /\ restored' = restored
        BY <2>5 DEF Lookup, Running
      <3>2. wf'.op = "unsuspend" => wf'.pc # 6
        BY <1>0, <2>5, LookedUp DEF TypeOK
      <3> QED
        BY <2>1, <3>1, <3>2
    <2>6. CASE NodesGoOn
      <3>1. wf # Idle /\ restored' = restored
        BY <2>6 DEF NodesGoOn
      <3>2. wf'.op = "unsuspend" => wf'.pc # 6
        BY <1>0, <2>6, NodesTold
      <3> QED
        BY <2>1, <3>1, <3>2
    <2>7. ASSUME NEW n \in Nodes, NodeActivity(n) \/ NodeActivityFails(n)
          PROVE  /\ ~restored'
                 /\ wf'.op = wf.op /\ wf'.pc = wf.pc /\ wf'.list = wf.list
                 /\ \A c \in Children : Stuck(c)' => Stuck(c)
      <3>1. wf # Idle /\ restored' = restored /\ UNCHANGED <<child, queue, edit, relapsed>>
        BY <2>7 DEF NodeActivity, NodeActivityFails
      <3>2. \A c \in Children : Stuck(c)' => Stuck(c)
        BY <3>1 DEF Stuck
      <3> QED
        BY <1>0, <2>1, <2>7, <3>1, <3>2, NodeActivityRun, NodeActivityFailsRun
    <2>8. CASE ListChildren
      <3>1. wf # Idle /\ restored' = restored /\ child' = child
        BY <2>8 DEF ListChildren, Running
      <3>2. wf'.op = wf.op /\ wf'.list = Listed
        BY <1>0, <2>8, ListedFrom
      <3>3. wf.op = "unsuspend" => Listed = {c \in Children : child[c] = "suspended"}
        BY DEF Listed
      <3>4. \A c \in Children : Stuck(c)' => child[c] = "suspended"
        BY <3>1 DEF Stuck
      <3> QED
        BY <2>1, <3>1, <3>2, <3>3, <3>4
    <2>9. ASSUME NEW c \in Children, ChildStep(c)
          PROVE  /\ ~restored'
                 /\ wf'.op = "unsuspend" /\ wf'.pc = 6 =>
                       \A d \in Children : Stuck(d)' => d \in wf'.list
      <3>1. wf # Idle /\ restored' = restored
        BY <2>9 DEF ChildStep, Running
      <3>2. wf'.op = wf.op /\ wf'.pc = wf.pc /\ wf'.list = wf.list \ {c}
        BY <1>0, <2>9, ChildRun DEF ChildStep
      <3>3. ASSUME wf.op = "unsuspend"
            PROVE  \A d \in Children : Stuck(d)' => d # c /\ Stuck(d)
        <4>1. childAfter(c, {"active"}) /\ relapsed' = relapsed \ {c} /\ UNCHANGED <<queue, edit>>
          BY <2>9, <3>3 DEF ChildStep
        <4>2. \A d \in Children : child'[d] = "suspended" => d # c /\ child[d] = "suspended"
          BY <1>0, <4>1 DEF childAfter
        <4> QED
          BY <4>1, <4>2 DEF Stuck
      <3>4. ~restored'
        BY <2>1, <3>1
      <3> QED
        BY <1>1, <2>0, <3>2, <3>3, <3>4
    <2>10. CASE ChildrenDone
      <3>1. /\ restored' = (wf.op = "unsuspend") /\ wf.list = {}
            /\ \A c \in Children : Stuck(c)' => Stuck(c)
        BY <2>10 DEF ChildrenDone, Stuck
      <3>2. wf.op = "unsuspend" => wf.pc = 6 /\ wf' = Idle
        BY <1>0, <2>10, ChildrenEnd
      <3>3. wf'.op # "unsuspend"
        BY <1>0, <2>10, ChildrenEnd, IdleType
      <3> QED
        BY <1>1, <2>0, <3>1, <3>2, <3>3
    <2> QED
      BY <1>1, <1>5, <2>0, <2>2, <2>3, <2>4, <2>5, <2>6, <2>7, <2>8, <2>9, <2>10 DEF Works
  <1> QED
    BY <1>1, <1>2, <1>3, <1>4, <1>5, Kinds

\* After an unsuspension a resource is suspended only if a zone's PUT has
\* written the status back that it loaded before: whatever the PUT of a webroot
\* writes back, the task behind it replaces, and no task suspends another one.
THEOREM Restores == Spec => []UnsuspendRestores
  <1>1. Init => RestoredInv
    BY IdleType DEF Init, RestoredInv
  <1>2. RestoredInv => UnsuspendRestores
    <2> SUFFICES ASSUME RestoredInv, Quiet, faults = 0, restored, NEW c \in Children,
                        child[c] = "suspended"
                 PROVE  c \in relapsed
      BY DEF UnsuspendRestores
    <2>1. edit[c] = "none" /\ Len(queue) = 0 /\ ~Stuck(c)
      BY DEF Quiet, RestoredInv
    <2> QED
      BY <2>1 DEF Stuck
  <1> QED
    BY <1>1, <1>2, RestoredStep, Typing, PTL DEF Spec

-----------------------------------------------------------------------------
(* The access settings reach the nodes.                                    *)

LEMMA StartAwaits ==
  ASSUME TypeOK, StartTask, NEW ops
  PROVE  Awaits(ops) <=> Head(queue).op \in ops \/ Awaits(ops)'
  <1>1. queue \in Seq(Tasks) /\ queue # <<>> /\ queue' = Tail(queue) /\ caller' = caller
    BY DEF StartTask, TypeOK
  <1>2. (\E i \in 1..Len(queue) : queue[i].op \in ops)
           <=> Head(queue).op \in ops \/ \E i \in 1..Len(queue') : queue'[i].op \in ops
    BY <1>1, Removed
  <1> QED
    BY <1>1, <1>2 DEF Awaits

\* The activities on each node, one after the other.
LEMMA NodeOrders ==
  /\ Len(Activities("create", "nodes")) = 3
  /\ Activities("create", "nodes")[1] = "CreateTenant"
  /\ Activities("create", "nodes")[2] = "SyncSSHConfig"
  /\ Activities("create", "nodes")[3] = "ConfigureTenantAddresses"
  /\ Len(Activities("update", "nodes")) = 2
  /\ Activities("update", "nodes")[1] = "UpdateTenant"
  /\ Activities("update", "nodes")[2] = "SyncSSHConfig"
  /\ Len(Activities("suspend", "nodes")) = 1 /\ Activities("suspend", "nodes")[1] = "SuspendTenant"
  /\ Len(Activities("unsuspend", "nodes")) = 1 /\ Activities("unsuspend", "nodes")[1] = "UnsuspendTenant"
  /\ Len(Activities("migrate", "nodes")) = 1 /\ Activities("migrate", "nodes")[1] = "CreateTenant"
  /\ Len(Activities("migrate", "leave")) = 1 /\ Activities("migrate", "leave")[1] = "DeleteTenant"
  <1>1. /\ Len(Activities("create", "nodes")) = 3
        /\ Activities("create", "nodes")[1] = "CreateTenant"
        /\ Activities("create", "nodes")[2] = "SyncSSHConfig"
        /\ Activities("create", "nodes")[3] = "ConfigureTenantAddresses"
    <2>1. Activities("create", "nodes") = <<"CreateTenant", "SyncSSHConfig", "ConfigureTenantAddresses">>
      BY DEF Activities
    <2> QED
      BY <2>1
  <1>2. /\ Len(Activities("update", "nodes")) = 2
        /\ Activities("update", "nodes")[1] = "UpdateTenant"
        /\ Activities("update", "nodes")[2] = "SyncSSHConfig"
    <2>1. Activities("update", "nodes") = <<"UpdateTenant", "SyncSSHConfig">>
      BY DEF Activities
    <2> QED
      BY <2>1
  <1>3. /\ Len(Activities("suspend", "nodes")) = 1
        /\ Activities("suspend", "nodes")[1] = "SuspendTenant"
    <2>1. Activities("suspend", "nodes") = <<"SuspendTenant">>
      BY DEF Activities
    <2> QED
      BY <2>1
  <1>4. /\ Len(Activities("unsuspend", "nodes")) = 1
        /\ Activities("unsuspend", "nodes")[1] = "UnsuspendTenant"
    <2>1. Activities("unsuspend", "nodes") = <<"UnsuspendTenant">>
      BY DEF Activities
    <2> QED
      BY <2>1
  <1>5. /\ Len(Activities("migrate", "nodes")) = 1
        /\ Activities("migrate", "nodes")[1] = "CreateTenant"
    <2>1. Activities("migrate", "nodes") = <<"CreateTenant">>
      BY DEF Activities
    <2> QED
      BY <2>1
  <1>6. /\ Len(Activities("migrate", "leave")) = 1
        /\ Activities("migrate", "leave")[1] = "DeleteTenant"
    <2>1. Activities("migrate", "leave") = <<"DeleteTenant">>
      BY DEF Activities
    <2> QED
      BY <2>1
  <1> QED
    BY <1>1, <1>2, <1>3, <1>4, <1>5, <1>6

\* What the nodes are told by the workflows that do not change the shard.
LEMMA Telling ==
  ASSUME RunOK, NEW n \in Nodes, wf # Idle, wf.at[n] # 0,
         wf.op \in {"create", "update", "suspend", "unsuspend"}
  PROVE  /\ Step = "nodes" /\ wf.pc = IF wf.op = "suspend" THEN 2 ELSE 3
         /\ wf.op = "create" => \/ wf.at[n] = 1 /\ Doing(n) = "CreateTenant" /\ following(n) = 2
                                \/ wf.at[n] = 2 /\ Doing(n) = "SyncSSHConfig" /\ following(n) = 3
                                \/ wf.at[n] = 3 /\ Doing(n) = "ConfigureTenantAddresses" /\ following(n) = 0
         /\ wf.op = "update" => \/ wf.at[n] = 1 /\ Doing(n) = "UpdateTenant" /\ following(n) = 2
                                \/ wf.at[n] = 2 /\ Doing(n) = "SyncSSHConfig" /\ following(n) = 0
         /\ wf.op = "suspend" => Doing(n) = "SuspendTenant" /\ following(n) = 0
         /\ wf.op = "unsuspend" => Doing(n) = "UnsuspendTenant" /\ following(n) = 0
  <1>1. /\ wf.pc \in 1..Len(Program(wf.op)) /\ wf.op \in Ops /\ Step \in NodeSteps
        /\ wf.at[n] \in 1..Len(Activities(wf.op, Step))
    BY DEF RunOK
  <1>2. Step = "nodes" /\ wf.pc = IF wf.op = "suspend" THEN 2 ELSE 3
    BY <1>1, Steps DEF Step, NodeSteps
  <1>3. CASE wf.op = "create"
    <2>1. wf.at[n] \in 1..3
      <3>1. PICK k : k = 3 /\ k = Len(Activities(wf.op, Step))
        BY <1>2, <1>3, NodeOrders
      <3>2. wf.at[n] \in 1..k
        BY <1>1, <3>1
      <3> QED
        BY <3>1, <3>2
    <2>2. following(n) = IF wf.at[n] < 3 THEN wf.at[n] + 1 ELSE 0
      BY <1>2, <1>3, NodeOrders DEF following
    <2>3. Doing(n) = Activities("create", "nodes")[wf.at[n]]
      BY <1>2, <1>3 DEF Doing
    <2>4. wf.at[n] = 1 \/ wf.at[n] = 2 \/ wf.at[n] = 3
      BY <2>1
    <2> QED
      BY <1>2, <1>3, <2>2, <2>3, <2>4, NodeOrders
  <1>4. CASE wf.op = "update"
    <2>1. wf.at[n] \in 1..2
      <3>1. PICK k : k = 2 /\ k = Len(Activities(wf.op, Step))
        BY <1>2, <1>4, NodeOrders
      <3>2. wf.at[n] \in 1..k
        BY <1>1, <3>1
      <3> QED
        BY <3>1, <3>2
    <2>2. following(n) = IF wf.at[n] < 2 THEN wf.at[n] + 1 ELSE 0
      BY <1>2, <1>4, NodeOrders DEF following
    <2>3. Doing(n) = Activities("update", "nodes")[wf.at[n]]
      BY <1>2, <1>4 DEF Doing
    <2>4. wf.at[n] = 1 \/ wf.at[n] = 2
      BY <2>1
    <2> QED
      BY <1>2, <1>4, <2>2, <2>3, <2>4, NodeOrders
  <1>5. CASE wf.op = "suspend"
    <2>1. wf.at[n] \in 1..1
      <3>1. PICK k : k = 1 /\ k = Len(Activities(wf.op, Step))
        BY <1>2, <1>5, NodeOrders
      <3>2. wf.at[n] \in 1..k
        BY <1>1, <3>1
      <3> QED
        BY <3>1, <3>2
    <2>2. following(n) = IF wf.at[n] < 1 THEN wf.at[n] + 1 ELSE 0
      BY <1>2, <1>5, NodeOrders DEF following
    <2>3. Doing(n) = Activities("suspend", "nodes")[wf.at[n]]
      BY <1>2, <1>5 DEF Doing
    <2>4. wf.at[n] = 1
      BY <2>1
    <2> QED
      BY <1>2, <1>5, <2>2, <2>3, <2>4, NodeOrders
  <1>6. CASE wf.op = "unsuspend"
    <2>1. wf.at[n] \in 1..1
      <3>1. PICK k : k = 1 /\ k = Len(Activities(wf.op, Step))
        BY <1>2, <1>6, NodeOrders
      <3>2. wf.at[n] \in 1..k
        BY <1>1, <3>1
      <3> QED
        BY <3>1, <3>2
    <2>2. following(n) = IF wf.at[n] < 1 THEN wf.at[n] + 1 ELSE 0
      BY <1>2, <1>6, NodeOrders DEF following
    <2>3. Doing(n) = Activities("unsuspend", "nodes")[wf.at[n]]
      BY <1>2, <1>6 DEF Doing
    <2>4. wf.at[n] = 1
      BY <2>1
    <2> QED
      BY <1>2, <1>6, <2>2, <2>3, <2>4, NodeOrders
  <1> QED
    BY <1>2, <1>3, <1>4, <1>5, <1>6

\* The settings on a node after an activity.
LEMMA AccessAfter ==
  ASSUME NEW a, NEW v \in Versions, NEW x \in Accounts
  PROVE  /\ a = "SyncSSHConfig" /\ x.present => effect(a, v, x).access = v
         /\ a \in {"CreateTenant", "UpdateTenant", "ConfigureTenantAddresses", "SuspendTenant",
                   "UnsuspendTenant"} => effect(a, v, x).access = x.access
  <1>1. [x EXCEPT !.access = v].access = v
    BY DEF Accounts
  <1>2. /\ [x EXCEPT !.present = TRUE].access = x.access /\ [x EXCEPT !.locked = TRUE].access = x.access
        /\ [x EXCEPT !.locked = FALSE].access = x.access
    BY DEF Accounts
  <1>3. a = "SyncSSHConfig" /\ x.present => effect(a, v, x) = [x EXCEPT !.access = v]
    BY DEF effect
  <1>4. /\ a = "CreateTenant" => effect(a, v, x) = [x EXCEPT !.present = TRUE]
        /\ a = "SuspendTenant" => effect(a, v, x) = [x EXCEPT !.locked = TRUE]
        /\ a = "UnsuspendTenant" => effect(a, v, x) = [x EXCEPT !.locked = FALSE]
        /\ a \in {"UpdateTenant", "ConfigureTenantAddresses"} => effect(a, v, x) = x
    BY DEF effect
  <1> QED
    BY <1>1, <1>2, <1>3, <1>4

LEMMA AccessStep == TypeOK /\ AccessInv /\ [Next]_vars => AccessInv'
  <1> DEFINE CU == {"create", "update"}
             Settings(r, w, x) ==
               /\ w.op \notin {"create", "update", "delete"} =>
                     \A n \in NodesOf[Home] : x[n].access = r.access
               /\ w.op \in CU =>
                     /\ w.pc >= 3 => w.shard = Home /\ w.access = r.access
                     /\ w.pc = 3 => \A n \in NodesOf[Home] :
                                       w.at[n] \notin {1, 2} /\ ~w.bad => x[n].access = r.access
                     /\ w.pc >= 4 => \A n \in NodesOf[Home] : x[n].access = r.access
  <1> SUFFICES ASSUME TypeOK, AccessInv, [Next]_vars, moves' = 0, ~hitch', faults' = 0
               PROVE  /\ ~Awaits({"migrate"})' /\ wf'.op # "migrate"
                      /\ row'.shard = Home /\ \A c \in Callers : caller'[c].saw.shard = Home
                      /\ ~Awaits(CU)' /\ row'.status # "absent" => Settings(row', wf', acct')
    BY DEF AccessInv, Granted
  <1>0. /\ row \in Rows /\ RunOK /\ acct \in [Nodes -> Accounts] /\ {"migrate"} \in SUBSET Ops
        /\ CU \in SUBSET Ops /\ NodesOf[Home] \subseteq Nodes
    BY TenantAssumption, NodesIn DEF TypeOK, Ops
  <1>1. ASSUME moves = 0, ~hitch, faults = 0
        PROVE  /\ ~Awaits({"migrate"}) /\ wf.op # "migrate"
               /\ row.shard = Home /\ \A c \in Callers : caller[c].saw.shard = Home
               /\ ~Awaits(CU) /\ row.status # "absent" => Settings(row, wf, acct)
    BY <1>1 DEF AccessInv, Granted
  <1> HIDE DEF Settings, CU
  <1>2. CASE Aside
    <2>1. /\ row' = row /\ wf' = wf /\ acct' = acct /\ moves = 0 /\ ~hitch /\ faults = 0
          /\ Awaits({"migrate"})' => Awaits({"migrate"})
          /\ Awaits(CU) => Awaits(CU)'
      BY <1>0, <1>2 DEF Aside
    <2>2. \A c \in Callers : caller'[c].saw.shard = Home
      BY <1>1, <1>2, <2>1 DEF Aside
    <2> QED
      BY <1>1, <2>1, <2>2
  <1>3. ASSUME NEW op \in Ops, Asks(op)
        PROVE  /\ ~Awaits({"migrate"})' /\ wf'.op # "migrate"
               /\ row'.shard = Home /\ \A c \in Callers : caller'[c].saw.shard = Home
               /\ ~Awaits(CU)' /\ row'.status # "absent" => Settings(row', wf', acct')
    <2>1. wf' = wf /\ acct' = acct /\ moves = 0 /\ ~hitch /\ faults = 0 /\ op # "migrate"
      BY <1>3 DEF Asks
    <2>2. /\ Awaits({"migrate"})' <=> op = "migrate" \/ Awaits({"migrate"})
          /\ Awaits(CU)' <=> op \in CU \/ Awaits(CU)
      BY <1>0, <1>3 DEF Asks
    <2>3. \A c \in Callers : caller'[c].saw.shard = Home
      BY <1>1, <1>3, <2>1 DEF Asks
    <2>4. row'.shard = Home
      BY <1>1, <1>3, <2>1 DEF Asks
    <2>5. op # "update" => row'.access = row.access
      BY <1>3 DEF Asks
    <2>6. row'.status # "absent" => row.status # "absent"
      BY <1>3 DEF Asks
    <2>7. Settings(row, wf, acct) /\ row'.access = row.access => Settings(row', wf, acct)
      BY DEF Settings
    <2>8. op \notin CU => op # "update"
      BY DEF CU
    <2> QED
      BY <1>1, <2>1, <2>2, <2>3, <2>4, <2>5, <2>6, <2>7, <2>8
  <1>4. CASE StartTask
    <2>1. row' = row /\ acct' = acct /\ caller' = caller /\ moves = 0 /\ ~hitch /\ faults = 0 /\ wf = Idle
      BY <1>4 DEF StartTask
    <2>2. wf'.op = Head(queue).op /\ wf'.pc = 1
      BY <1>4, Started
    <2>3. /\ Awaits({"migrate"}) <=> Head(queue).op \in {"migrate"} \/ Awaits({"migrate"})'
          /\ Awaits(CU) <=> Head(queue).op \in CU \/ Awaits(CU)'
      BY <1>4, StartAwaits
    <2>4. wf'.op \in CU => Settings(row', wf', acct')
      BY <2>2 DEF Settings, CU
    <2>5. wf.op \notin {"create", "update", "delete"}
      BY <2>1, IdleType
    <2>6. wf'.op \notin CU /\ Settings(row, wf, acct) => Settings(row', wf', acct')
      BY <2>1, <2>5 DEF Settings, CU
    <2> QED
      BY <1>1, <2>1, <2>2, <2>3, <2>4, <2>6
  <1>5. CASE Works
    <2>0. /\ caller' = caller /\ moves = 0 /\ faults = 0
          /\ Awaits({"migrate"})' <=> Awaits({"migrate"})
          /\ Awaits(CU)' <=> Awaits(CU)
          /\ row'.status # "absent" => row.status # "absent"
      BY <1>5, WorksAwait
    <2>1. ~hitch
      BY <1>5 DEF Works, GivesUp, Elsewhere, WriteStatus, Lookup, NodesGoOn, NodeActivity,
                  NodeActivityFails, ListChildren, ChildrenDone, ChildStep
    <2>2. /\ ~Awaits({"migrate"})' /\ wf.op # "migrate"
          /\ row.shard = Home /\ (\A c \in Callers : caller'[c].saw.shard = Home)
          /\ ~Awaits(CU)' /\ row'.status # "absent" => Settings(row, wf, acct)
      BY <1>1, <2>0, <2>1
    <2> SUFFICES /\ wf'.op # "migrate" /\ row'.shard = Home
                 /\ row'.status # "absent" /\ Settings(row, wf, acct) => Settings(row', wf', acct')
      BY <2>2
    <2>3. CASE GivesUp
      BY <2>3 DEF GivesUp
    <2>4. CASE Elsewhere
      <3>1. wf.op = "delete" /\ row'.shard = Home
        BY <2>2, <2>4 DEF Elsewhere
      <3>2. CASE wf' = Idle
        BY <2>4, <3>1, <3>2, IdleType DEF Elsewhere
      <3>3. CASE wf' # Idle
        BY <2>4, <3>1, <3>3 DEF Elsewhere, Settings, CU
      <3> QED
        BY <3>2, <3>3
    <2>5. CASE WriteStatus
      <3>1. acct' = acct /\ row'.shard = row.shard /\ row'.access = row.access
        BY <2>5, StatusWritten DEF WriteStatus
      <3>2. CASE wf' = Idle
        <4>1. wf.op = "update" /\ wf.pc = 4
          BY <2>2, <2>5, <3>2, StatusWritten
        <4>2. wf'.op = "none"
          BY <3>2, IdleType
        <4> QED
          BY <2>2, <3>1, <4>1, <4>2 DEF Settings, CU
      <3>3. CASE wf' # Idle
        <4>1. /\ wf'.op = wf.op /\ wf'.pc = wf.pc + 1 /\ wf'.shard = wf.shard /\ wf'.access = wf.access
              /\ wf.op \in CU => wf.pc \in {1, 4}
          BY <2>5, <3>3, StatusWritten DEF CU
        <4> QED
          BY <2>2, <3>1, <4>1 DEF Settings
      <3> QED
        BY <3>2, <3>3
    <2>6. CASE Lookup
      <3>1. row' = row /\ acct' = acct
        BY <2>6 DEF Lookup
      <3>2. /\ wf'.op = wf.op /\ wf'.shard = Home /\ wf'.access = row.access
            /\ wf.op \in CU => wf'.pc = 3 /\ \A n \in NodesOf[Home] : wf'.at[n] = 1
        BY <1>0, <2>2, <2>6, LookedUp DEF CU
      <3> QED
        BY <2>2, <3>1, <3>2 DEF Settings, CU
    <2>7. CASE NodesGoOn
      <3>1. row' = row /\ acct' = acct /\ \A n \in Nodes : wf.at[n] = 0
        BY <2>7 DEF NodesGoOn
      <3>2. /\ wf'.op = wf.op /\ wf'.shard = wf.shard /\ wf'.access = wf.access
            /\ wf.op \in CU => wf.pc = 3 /\ wf'.pc = 4 /\ ~wf.bad
        BY <1>0, <2>2, <2>7, NodesTold DEF CU
      <3> QED
        BY <1>0, <2>2, <3>1, <3>2 DEF Settings, CU
    <2>8. ASSUME NEW n \in Nodes, NodeActivity(n)
          PROVE  /\ wf'.op # "migrate" /\ row'.shard = Home
                 /\ Settings(row, wf, acct) => Settings(row', wf', acct')
      <3>1. /\ wf # Idle /\ row' = row /\ wf'.op = wf.op /\ wf'.pc = wf.pc
            /\ wf'.shard = wf.shard /\ wf'.access = wf.access
        BY <1>0, <2>8, SameStep
      <3>2. wf.op \in Ops
        BY <1>0, <3>1 DEF RunOK
      <3>3. CASE wf.op = "delete"
        BY <2>2, <3>1, <3>3 DEF Settings, CU
      <3>4. CASE wf.op # "delete"
        <4>1. wf.op \in {"create", "update", "suspend", "unsuspend"}
          BY <2>2, <3>2, <3>4 DEF Ops
        <4>2. wf'.bad = wf.bad /\ wf'.at = [wf.at EXCEPT ![n] = following(n)] /\ wf.at \in [Nodes -> Nat]
          BY <1>0, <2>8, NodeActivityRun DEF RunOK, Runs
        <4>3. PICK x \in Accounts, v \in Versions : x = acct[n] /\ v = wf.access
          BY <1>0 DEF RunOK, Runs
        <4>4. PICK y : y = effect(Doing(n), v, x)
          OBVIOUS
        <4>5. acct' = [acct EXCEPT ![n] = y]
          BY <2>8, <4>3, <4>4 DEF NodeActivity
        <4>6. /\ \A m \in Nodes : m # n => acct'[m] = acct[m] /\ wf'.at[m] = wf.at[m]
              /\ acct'[n] = y /\ wf'.at[n] = following(n)
          BY <1>0, <4>2, <4>5
        <4>7. wf.op \in {"suspend", "unsuspend"} => y.access = x.access
          BY <1>0, <2>8, <4>1, <4>3, <4>4, Telling, AccessAfter DEF NodeActivity
        <4>8. wf.op \in CU => \/ wf'.at[n] = 2
                              \/ y.access = wf.access
                              \/ y.access = x.access /\ wf.at[n] = 3
          <5>1. wf.op = "create" => \/ wf.at[n] = 1 /\ Doing(n) = "CreateTenant" /\ following(n) = 2
                                    \/ wf.at[n] = 2 /\ Doing(n) = "SyncSSHConfig" /\ following(n) = 3
                                    \/ wf.at[n] = 3 /\ Doing(n) = "ConfigureTenantAddresses"
            BY <1>0, <2>8, <4>1, Telling DEF NodeActivity
          <5>2. wf.op = "update" => \/ wf.at[n] = 1 /\ Doing(n) = "UpdateTenant" /\ following(n) = 2
                                    \/ wf.at[n] = 2 /\ Doing(n) = "SyncSSHConfig"
            BY <1>0, <2>8, <4>1, Telling DEF NodeActivity
          <5>3. Doing(n) = "SyncSSHConfig" => x.present
            BY <2>8, <4>3 DEF NodeActivity, NeedsAccount
          <5>4. /\ Doing(n) = "SyncSSHConfig" => y.access = v
                /\ Doing(n) = "ConfigureTenantAddresses" => y.access = x.access
            BY <4>4, <5>3, AccessAfter
          <5> QED
            BY <4>3, <4>6, <5>1, <5>2, <5>4 DEF CU
        <4>9. wf.op \in CU => wf.pc = 3
          BY <1>0, <2>8, <4>1, Telling DEF NodeActivity, CU
        <4>10. CASE wf.op \in CU
          <5> SUFFICES ASSUME Settings(row, wf, acct), NEW m \in NodesOf[Home],
                              wf'.at[m] \notin {1, 2}, ~wf.bad
                       PROVE  acct'[m].access = row.access
            BY <2>2, <3>1, <4>2, <4>9, <4>10 DEF Settings, CU
          <5>1. wf.access = row.access /\ (wf.at[m] \notin {1, 2} => acct[m].access = row.access)
            BY <4>9, <4>10 DEF Settings
          <5>2. CASE m = n
            BY <4>3, <4>6, <4>8, <4>10, <5>1, <5>2
          <5>3. CASE m # n
            BY <1>0, <4>6, <5>1, <5>3
          <5> QED
            BY <5>2, <5>3
        <4>11. CASE wf.op \in {"suspend", "unsuspend"}
          <5>1. \A m \in Nodes : acct'[m].access = acct[m].access
            BY <4>3, <4>6, <4>7, <4>11
          <5> QED
            BY <1>0, <2>2, <3>1, <4>11, <5>1 DEF Settings, CU
        <4> QED
          BY <4>1, <4>10, <4>11 DEF CU
      <3> QED
        BY <3>3, <3>4
    <2>9. ASSUME NEW n \in Nodes, NodeActivityFails(n) PROVE FALSE
      BY <2>9 DEF NodeActivityFails
    <2>10. ASSUME NEW c \in Children, ChildStep(c)
           PROVE  /\ wf'.op # "migrate" /\ row'.shard = Home
                  /\ Settings(row, wf, acct) => Settings(row', wf', acct')
      <3>1. /\ row' = row /\ wf'.op = wf.op /\ wf'.pc = wf.pc /\ wf'.shard = wf.shard
            /\ wf'.access = wf.access
        BY <1>0, <2>10, SameStep
      <3>2. acct' = acct /\ wf'.at = wf.at /\ wf'.bad = wf.bad
        BY <1>0, <2>10, ChildRun DEF ChildStep
      <3> QED
        BY <2>2, <3>1, <3>2 DEF Settings
    <2>11. CASE ListChildren
      <3>1. /\ row' = row /\ acct' = acct /\ wf'.op = wf.op /\ wf'.shard = wf.shard
            /\ wf'.access = wf.access /\ (wf.op \in CU => wf.pc = 5 /\ wf'.pc = 6)
        BY <1>0, <2>11, ListedFrom DEF ListChildren, CU
      <3> QED
        BY <2>2, <3>1 DEF Settings
    <2>12. CASE ChildrenDone
      <3>1. row' = row /\ acct' = acct
        BY <2>12 DEF ChildrenDone
      <3>2. \/ wf.op = "create" /\ wf.pc = 6 /\ wf'.op = "none"
            \/ wf.op \in {"suspend", "unsuspend"} /\ wf'.op = "none"
            \/ wf'.op = "delete"
        BY <1>0, <2>12, ChildrenEnd, IdleType
      <3> QED
        BY <2>2, <3>1, <3>2 DEF Settings, CU
    <2> QED
      BY <1>5, <2>3, <2>4, <2>5, <2>6, <2>7, <2>8, <2>9, <2>10, <2>11, <2>12 DEF Works
  <1> QED
    BY <1>2, <1>3, <1>4, <1>5, Kinds

\* As long as nothing fails and the tenant stays on its shard, the access
\* settings that a request has written reach every node with the request's
\* task, whatever other tasks are in between, a deletion excepted.
THEOREM Access == Spec => []ActiveHasAccess
  <1>1. Init => AccessInv
    <2> SUFFICES ASSUME Init, faults = 0 PROVE AccessInv
      BY DEF AccessInv
    <2>1. queue = <<[op |-> "create", target |-> Home]>>
      BY DEF Init
    <2>2. Len(queue) = 1 /\ queue[1].op = "create"
      BY <2>1
    <2>3. caller = [c \in Callers |-> NoCall] /\ NoCall.pc = "idle" /\ NoCall.saw.shard = Home
      BY NoCallType DEF Init
    <2>4. Awaits({"create", "update"}) /\ ~Awaits({"migrate"})
      BY <2>2, <2>3 DEF Awaits
    <2> QED
      BY <2>3, <2>4, IdleType DEF Init, AccessInv
  <1>2. AccessInv => ActiveHasAccess
    <2> SUFFICES ASSUME AccessInv, Quiet, faults = 0, ~hitch, moves = 0, row.status = "active"
                 PROVE  \A n \in NodesOf[row.shard] : acct[n].access = row.access
      BY DEF ActiveHasAccess
    <2>1. ~Awaits({"create", "update"})
      BY NoCallType DEF Quiet, Awaits
    <2>2. wf.op = "none"
      BY IdleType DEF Quiet
    <2> QED
      BY <2>1, <2>2 DEF AccessInv, Granted
  <1> QED
    BY <1>1, <1>2, AccessStep, Typing, PTL DEF Spec

-----------------------------------------------------------------------------
(* The account is where the row says.                                      *)

LEMMA CircularStays == ASSUME [Next]_vars, ~circular' PROVE ~circular
  <1>1. CASE Worker
    <2>1. CASE Lookup
      BY <2>1 DEF Lookup
    <2>2. CASE ~Lookup
      BY <1>1, <2>2
         DEF Worker, StartTask, RunChildTask, WriteStatus, WriteStatusFails, LookupFails,
             SuspendLookupFails, ListMembers, NodeActivity, NodeActivityFails, NodesDone,
             GetShardDesiredState, ListChildren, ListChildrenFails, ChildrenDone, ChildStep,
             ChildStepFails, MigrateWebroots, UpdateTenantShardID, DeleteTenantDBRows
    <2> QED
      BY <2>1, <2>2
  <1>2. CASE \E c \in Callers : Request(c)
    BY <1>2 DEF Request, ReadForUpdate, Update, ReadForRetry, Retry, Delete, Suspend, Unsuspend,
                Migrate, Write, SignalTask, SignalLost
  <1>3. CASE \E c \in Children : LoadChild(c) \/ PutChild(c) \/ DeleteChild(c) \/ SignalChild(c) \/ SignalChildLost(c)
    BY <1>3 DEF LoadChild, PutChild, DeleteChild, SignalChild, SignalChildLost
  <1>4. CASE UNCHANGED vars
    BY <1>4 DEF vars
  <1> QED
    BY <1>1, <1>2, <1>3, <1>4 DEF Next

\* The account on a node after an activity.
LEMMA PresentAfter ==
  ASSUME NEW a, NEW v \in Versions, NEW x \in Accounts
  PROVE  /\ a = "CreateTenant" => effect(a, v, x).present
         /\ a \in {"CreateTenant", "UpdateTenant", "SyncSSHConfig", "ConfigureTenantAddresses",
                   "SuspendTenant", "UnsuspendTenant"} /\ x.present => effect(a, v, x).present
  <1>1. /\ [x EXCEPT !.present = TRUE].present = TRUE
        /\ [x EXCEPT !.locked = TRUE].present = x.present
        /\ [x EXCEPT !.locked = FALSE].present = x.present
        /\ [x EXCEPT !.access = v].present = x.present
    BY DEF Accounts
  <1>2. /\ a = "CreateTenant" => effect(a, v, x) = [x EXCEPT !.present = TRUE]
        /\ a = "SuspendTenant" => effect(a, v, x) = [x EXCEPT !.locked = TRUE]
        /\ a = "UnsuspendTenant" => effect(a, v, x) = [x EXCEPT !.locked = FALSE]
        /\ a = "SyncSSHConfig" /\ x.present => effect(a, v, x) = [x EXCEPT !.access = v]
        /\ a \in {"UpdateTenant", "ConfigureTenantAddresses"} => effect(a, v, x) = x
    BY DEF effect
  <1> QED
    BY <1>1, <1>2

\* What the nodes are told by a migration.
LEMMA Migrating ==
  ASSUME RunOK, NEW n \in Nodes, wf # Idle, wf.at[n] # 0, wf.op = "migrate"
  PROVE  \/ wf.pc = 3 /\ Doing(n) = "CreateTenant"
         \/ wf.pc = 7 /\ Doing(n) = "DeleteTenant" /\ following(n) = 0
  <1>1. /\ wf.pc \in 1..Len(Program(wf.op)) /\ "migrate" \in Ops /\ Step \in NodeSteps
        /\ wf.at[n] \in 1..Len(Activities(wf.op, Step))
    BY DEF RunOK
  <1>2. \/ Step = "nodes" /\ wf.pc = 3
        \/ Step = "leave" /\ wf.pc = 7
    BY <1>1, Steps DEF Step, NodeSteps
  <1>3. wf.at[n] = 1
    <2>1. PICK k : k = 1 /\ k = Len(Activities(wf.op, Step))
      BY <1>2, NodeOrders
    <2>2. wf.at[n] \in 1..k
      BY <1>1, <2>1
    <2> QED
      BY <2>1, <2>2
  <1>4. following(n) = 0
    <2>1. PICK k : k = 1 /\ k = Len(Activities(wf.op, Step))
      BY <1>2, NodeOrders
    <2>2. following(n) = IF wf.at[n] < k THEN wf.at[n] + 1 ELSE 0
      BY <2>1 DEF following
    <2>3. ~(wf.at[n] < k)
      BY <1>3, <2>1
    <2> QED
      BY <2>2, <2>3
  <1>5. Doing(n) = Activities("migrate", Step)[1]
    BY <1>3 DEF Doing
  <1> QED
    BY <1>2, <1>4, <1>5, NodeOrders

LEMMA MigrateTold ==
  ASSUME RunOK, NodesGoOn, wf.op = "migrate"
  PROVE  /\ wf'.target = wf.target /\ wf'.shard = wf.shard /\ wf'.pc = wf.pc + 1 /\ wf'.op = "migrate"
         /\ (wf.pc = 3 /\ ~wf.bad) \/ wf.pc = 7
  <1>1. wf # Idle /\ Advance /\ wf.op \in Ops /\ wf.pc \in 1..Len(Program(wf.op))
    BY DEF RunOK, NodesGoOn
  <1>2. (Step = "nodes" /\ wf.pc = 3) \/ wf.pc = 7
    BY <1>1, Steps DEF NodesGoOn, Step, NodeSteps
  <1>3. wf.pc # Len(Program(wf.op))
    BY <1>1, <1>2, LastStep
  <1> QED
    BY <1>1, <1>2, <1>3, Advances DEF NodesGoOn

\* The two parts of PresentInv, of row r, workflow w and accounts x.
StaysPut(r, w, x) ==
    w.op \in {"create", "update", "suspend", "unsuspend"} =>
        /\ w.pc = Fanout(w.op) => \A n \in NodesOf[r.shard] :
                                     ~Untold(w, n) /\ ~w.bad => x[n].present
        /\ w.pc > Fanout(w.op) => \A n \in NodesOf[r.shard] : x[n].present

MovesOn(r, w, x) ==
    w.op = "migrate" =>
        /\ w.pc >= 3 => NodesOf[w.target] \intersect NodesOf[w.shard] = {}
        /\ w.pc = 3 => \A n \in NodesOf[w.target] : w.at[n] = 0 /\ ~w.bad => x[n].present
        /\ w.pc >= 4 => \A n \in NodesOf[w.target] : x[n].present
        /\ w.pc >= 6 => r.shard = w.target
        /\ w.pc = 7 => \A n \in Nodes : w.at[n] # 0 => n \in NodesOf[w.shard]

\* One node has been told what the workflow tells it.
LEMMA PresentTold ==
  ASSUME TypeOK, NEW n \in Nodes, NodeActivity(n), StaysPut(row, wf, acct), MovesOn(row, wf, acct)
  PROVE  StaysPut(row', wf', acct') /\ MovesOn(row', wf', acct')
  <1>0. row \in Rows /\ RunOK /\ acct \in [Nodes -> Accounts]
    BY DEF TypeOK
  <1>1. /\ wf # Idle /\ wf.at[n] # 0 /\ row' = row /\ wf'.op = wf.op /\ wf'.pc = wf.pc
        /\ wf'.shard = wf.shard /\ wf'.target = wf.target
    BY <1>0, NodeActivityRun DEF NodeActivity
  <1>2. wf'.bad = wf.bad /\ wf'.at = [wf.at EXCEPT ![n] = following(n)] /\ wf.at \in [Nodes -> Nat]
    BY <1>0, NodeActivityRun DEF RunOK, Runs
  <1>3. PICK x \in Accounts, v \in Versions : x = acct[n] /\ v = wf.access
    BY <1>0 DEF RunOK, Runs
  <1>4. PICK y : y = effect(Doing(n), v, x)
    OBVIOUS
  <1>5. acct' = [acct EXCEPT ![n] = y]
    BY <1>3, <1>4 DEF NodeActivity
  <1>6. /\ \A m \in Nodes : m # n => acct'[m] = acct[m] /\ wf'.at[m] = wf.at[m]
        /\ acct'[n] = y /\ wf'.at[n] = following(n)
    BY <1>0, <1>2, <1>5
  <1>7. wf.op \in Ops /\ wf.shard \in Shards /\ wf.target \in Shards /\ row.shard \in Shards
    BY <1>0, <1>1 DEF RunOK, Runs, Rows
  <1>8. /\ NodesOf[wf.shard] \subseteq Nodes /\ NodesOf[wf.target] \subseteq Nodes
        /\ NodesOf[row.shard] \subseteq Nodes
    BY <1>7, NodesIn
  <1>9. CASE wf.op \in {"create", "update", "suspend", "unsuspend"}
    <2>1. wf.pc = Fanout(wf.op)
      BY <1>0, <1>1, <1>9, Telling DEF Fanout
    <2>2. Doing(n) \in NeedsAccount => x.present
      BY <1>3 DEF NodeActivity
    <2>3. ~Untold(wf', n) => y.present \/ (~Untold(wf, n) /\ (x.present => y.present))
      <3>1. CASE wf.op = "create"
        <4>1. \/ wf.at[n] = 1 /\ Doing(n) = "CreateTenant"
              \/ wf.at[n] # 1 /\ Doing(n) \in {"SyncSSHConfig", "ConfigureTenantAddresses"}
          BY <1>0, <1>1, <1>9, <3>1, Telling
        <4> QED
          BY <1>4, <3>1, <4>1, PresentAfter DEF Untold
      <3>2. CASE wf.op = "update"
        <4>1. \/ following(n) # 0
              \/ Doing(n) = "SyncSSHConfig"
          BY <1>0, <1>1, <1>9, <3>2, Telling
        <4>2. Doing(n) = "SyncSSHConfig" => y.present
          BY <1>4, <2>2, PresentAfter DEF NeedsAccount
        <4>3. Untold(wf', n) <=> following(n) # 0
          BY <1>1, <1>6, <3>2 DEF Untold
        <4> QED
          BY <4>1, <4>2, <4>3
      <3>3. CASE wf.op \in {"suspend", "unsuspend"}
        <4>1. Doing(n) \in {"SuspendTenant", "UnsuspendTenant"}
          BY <1>0, <1>1, <1>9, <3>3, Telling
        <4> QED
          BY <1>4, <2>2, <4>1, PresentAfter DEF NeedsAccount
      <3> QED
        BY <1>9, <3>1, <3>2, <3>3
    <2>4. \A m \in Nodes : m # n => (Untold(wf', m) <=> Untold(wf, m))
      BY <1>1, <1>6 DEF Untold
    <2>5. ASSUME NEW m \in NodesOf[row.shard], ~Untold(wf', m), ~wf.bad PROVE acct'[m].present
      <3>1. ~Untold(wf, m) => acct[m].present
        BY <1>9, <2>1, <2>5 DEF StaysPut
      <3>2. CASE m = n
        BY <1>3, <1>6, <2>3, <2>5, <3>1, <3>2
      <3>3. CASE m # n
        BY <1>6, <1>8, <2>4, <2>5, <3>1, <3>3
      <3> QED
        BY <3>2, <3>3
    <2>6. wf'.pc = Fanout(wf'.op) /\ ~(wf'.pc > Fanout(wf'.op)) /\ wf'.op # "migrate"
      BY <1>1, <1>9, <2>1 DEF Fanout
    <2> QED
      BY <1>1, <1>2, <2>5, <2>6 DEF StaysPut, MovesOn
  <1>10. CASE wf.op = "migrate"
    <2>1. CASE wf.pc = 3
      <3>1. y.present
        BY <1>0, <1>1, <1>4, <1>10, <2>1, Migrating, PresentAfter
      <3>2. \A m \in NodesOf[wf.target] : wf'.at[m] = 0 /\ ~wf.bad => acct'[m].present
        BY <1>6, <1>8, <1>10, <2>1, <3>1 DEF MovesOn
      <3> QED
        BY <1>1, <1>2, <1>10, <2>1, <3>2 DEF StaysPut, MovesOn
    <2>2. CASE wf.pc = 7
      <3>1. n \in NodesOf[wf.shard] /\ NodesOf[wf.target] \intersect NodesOf[wf.shard] = {}
        BY <1>1, <1>10, <2>2 DEF MovesOn
      <3>2. \A m \in NodesOf[wf.target] : acct'[m].present
        BY <1>6, <1>8, <1>10, <2>2, <3>1 DEF MovesOn
      <3>3. \A m \in Nodes : wf'.at[m] # 0 => m \in NodesOf[wf.shard]
        BY <1>6, <1>10, <2>2, <3>1 DEF MovesOn
      <3>4. row.shard = wf.target
        BY <1>10, <2>2 DEF MovesOn
      <3> QED
        BY <1>1, <1>10, <2>2, <3>1, <3>2, <3>3, <3>4 DEF StaysPut, MovesOn
    <2> QED
      BY <1>0, <1>1, <1>10, <2>1, <2>2, Migrating
  <1>11. CASE wf.op = "delete"
    BY <1>1, <1>11 DEF StaysPut, MovesOn
  <1> QED
    BY <1>7, <1>9, <1>10, <1>11 DEF Ops

\* A node that fails dooms a workflow that is telling the nodes to create or
\* find the account; the old nodes of a migration do not matter any more.
LEMMA PresentFails ==
  ASSUME TypeOK, NEW n \in Nodes, NodeActivityFails(n), StaysPut(row, wf, acct),
         MovesOn(row, wf, acct)
  PROVE  StaysPut(row', wf', acct') /\ MovesOn(row', wf', acct')
  <1>0. row \in Rows /\ RunOK /\ acct \in [Nodes -> Accounts]
    BY DEF TypeOK
  <1>1. /\ wf # Idle /\ wf.at[n] # 0 /\ row' = row /\ wf'.op = wf.op /\ wf'.pc = wf.pc
        /\ wf'.shard = wf.shard /\ wf'.target = wf.target /\ wf'.bad
    BY <1>0, NodeActivityFailsRun DEF NodeActivityFails
  <1>2. wf.op \in Ops /\ wf.at \in [Nodes -> Nat] /\ wf.target \in Shards
    BY <1>0, <1>1 DEF RunOK, Runs
  <1>3. NodesOf[wf.target] \subseteq Nodes
    BY <1>2, NodesIn
  <1>4. CASE wf.op \in {"create", "update", "suspend", "unsuspend"}
    <2>1. wf.pc = Fanout(wf.op)
      BY <1>0, <1>1, <1>4, Telling DEF Fanout
    <2>2. wf'.pc = Fanout(wf'.op) /\ ~(wf'.pc > Fanout(wf'.op)) /\ wf'.op # "migrate"
      BY <1>1, <1>4, <2>1 DEF Fanout
    <2> QED
      BY <1>1, <2>2 DEF StaysPut, MovesOn
  <1>5. CASE wf.op = "migrate" /\ wf.pc = 3
    BY <1>1, <1>5 DEF StaysPut, MovesOn
  <1>6. CASE wf.op = "migrate" /\ wf.pc = 7
    <2>1. n \in NodesOf[wf.shard] /\ NodesOf[wf.target] \intersect NodesOf[wf.shard] = {}
      BY <1>1, <1>6 DEF MovesOn
    <2>2. PICK x : acct' = [acct EXCEPT ![n] = x]
      BY DEF NodeActivityFails
    <2>3. \A m \in NodesOf[wf.target] : acct'[m].present
      BY <1>0, <1>3, <1>6, <2>1, <2>2 DEF MovesOn
    <2>4. \A m \in Nodes : wf'.at[m] # 0 => m \in NodesOf[wf.shard]
      <3>1. Step # "nodes"
        BY <1>0, <1>1, <1>2, <1>6, Steps DEF RunOK, Step
      <3>2. PICK w : w = [wf.at EXCEPT ![n] = 0]
        OBVIOUS
      <3>3. wf' = [wf EXCEPT !.bad = TRUE, !.at = w]
        BY <1>6, <3>1, <3>2 DEF NodeActivityFails
      <3>4. wf'.at = w
        BY <1>0, <3>3 DEF RunOK, Runs
      <3>5. \A m \in Nodes : w[m] # 0 => wf.at[m] # 0
        BY <1>2, <3>2
      <3> QED
        BY <1>6, <3>4, <3>5 DEF MovesOn
    <2>5. row.shard = wf.target
      BY <1>6 DEF MovesOn
    <2> QED
      BY <1>1, <1>6, <2>1, <2>3, <2>4, <2>5 DEF StaysPut, MovesOn
  <1>7. CASE wf.op = "delete"
    BY <1>1, <1>7 DEF StaysPut, MovesOn
  <1>8. wf.op = "migrate" => wf.pc = 3 \/ wf.pc = 7
    BY <1>0, <1>1, Migrating
  <1> QED
    BY <1>2, <1>4, <1>5, <1>6, <1>7, <1>8 DEF Ops

LEMMA PresentStep == TypeOK /\ PresentInv /\ [Next]_vars => PresentInv'
  <1> DEFINE Rests(r, w, x) ==
               w = Idle /\ r.status \in {"active", "suspended"} =>
                  \A n \in NodesOf[r.shard] : x[n].present
  <1> SUFFICES ASSUME TypeOK, PresentInv, [Next]_vars, Calm', ~circular'
               PROVE  Rests(row', wf', acct') /\ StaysPut(row', wf', acct') /\ MovesOn(row', wf', acct')
    BY DEF PresentInv, Present, StaysPut, MovesOn
  <1>0. row \in Rows /\ RunOK /\ row'.status # "absent" /\ acct \in [Nodes -> Accounts]
    BY DEF TypeOK, Calm
  <1>1. ASSUME Calm PROVE Rests(row, wf, acct) /\ StaysPut(row, wf, acct) /\ MovesOn(row, wf, acct)
    BY <1>1, CircularStays DEF PresentInv, Present, StaysPut, MovesOn
  <1>2. CASE Aside /\ Calm
    <2>1. row' = row /\ wf' = wf /\ acct' = acct
      BY <1>2 DEF Aside
    <2> QED
      BY <1>1, <1>2, <2>1
  <1>3. CASE StartTask
    <2>1. wf'.pc = 1 /\ wf' # Idle
      BY <1>3, Started
    <2> QED
      BY <2>1 DEF StaysPut, MovesOn, Fanout
  <1>4. CASE Works /\ Calm
    <2>0. row.status # "absent" /\ Rests(row, wf, acct) /\ StaysPut(row, wf, acct) /\ MovesOn(row, wf, acct)
      BY <1>1, <1>4 DEF Calm
    <2>1. wf' = Idle => StaysPut(row', wf', acct') /\ MovesOn(row', wf', acct')
      BY IdleType DEF StaysPut, MovesOn
    <2>2. CASE GivesUp
      BY <1>0, <2>0, <2>1, <2>2, RowTypes DEF GivesUp
    <2>3. CASE Elsewhere
      <3>1. CASE wf.op = "delete" \/ wf' = Idle
        BY <1>0, <2>1, <2>3, <3>1 DEF Elsewhere, StaysPut, MovesOn
      <3>2. CASE wf.op = "migrate" /\ wf' # Idle
        BY <2>0, <2>3, <3>2 DEF Elsewhere, StaysPut, MovesOn
      <3> QED
        BY <2>3, <3>1, <3>2 DEF Elsewhere
    <2>4. CASE WriteStatus
      <3>1. acct' = acct /\ row'.shard = row.shard
        BY <2>4, StatusWritten DEF WriteStatus
      <3>2. CASE wf' = Idle
        <4>1. (wf.op = "update" /\ wf.pc = 4) \/ (wf.op = "migrate" /\ wf.pc = 8)
          BY <2>4, <3>2, StatusWritten
        <4>2. \A n \in NodesOf[row.shard] : acct[n].present
          BY <2>0, <4>1 DEF StaysPut, MovesOn, Fanout
        <4> QED
          BY <2>1, <3>1, <3>2, <4>2
      <3>3. CASE wf' # Idle
        <4>1. /\ wf'.op = wf.op /\ wf'.pc = wf.pc + 1
              /\ wf.op = "migrate" => wf.pc = 1
              /\ wf.op = "suspend" => wf.pc = 3
              /\ wf.op \in {"create", "update", "unsuspend"} => wf.pc \in {1, 4}
          <5>1. wf.op = "suspend" => wf.pc # 1
            BY <1>0, <2>4, Steps DEF WriteStatus, RunOK, Step
          <5>2. wf.op = "migrate" /\ wf.pc = 8 => wf' = Idle
            <6>1. RunOK /\ wf # Idle /\ Advance
              BY <1>0, <2>4 DEF WriteStatus
            <6> QED
              BY <6>1, Advances, Lengths
          <5> QED
            BY <2>4, <3>3, <5>1, <5>2, StatusWritten
        <4> QED
          BY <2>0, <3>1, <3>3, <4>1 DEF StaysPut, MovesOn, Fanout
      <3> QED
        BY <3>2, <3>3
    <2>5. CASE Lookup
      <3>1. row' = row /\ acct' = acct /\ wf' # Idle
        BY <1>0, <2>5, LookedUp, IdleType DEF Lookup, Ops
      <3>2. row.shard \in Shards /\ wf.target \in Shards
        BY <1>0 DEF Rows, RunOK, Runs
      <3>3. NodesOf[row.shard] \subseteq Nodes /\ NodesOf[wf.target] \subseteq Nodes
        BY <3>2, NodesIn
      <3>4. /\ wf'.op = wf.op /\ wf'.pc = Fanout(wf.op)
            /\ wf.op = "migrate" => wf'.target = wf.target /\ wf'.shard = row.shard
        BY <1>0, <2>5, LookedUp DEF Fanout
      <3>5. CASE wf.op = "migrate"
        <4>1. NodesOf[wf.target] \intersect NodesOf[row.shard] = {}
          BY <2>5, <3>5 DEF Lookup
        <4>2. \A n \in NodesOf[wf.target] : wf'.at[n] # 0
          BY <1>0, <2>5, <3>3, <3>5, LookedUp
        <4> QED
          BY <3>1, <3>4, <3>5, <4>1, <4>2 DEF StaysPut, MovesOn, Fanout
      <3>6. CASE wf.op # "migrate"
        <4>1. wf.op # "delete" => \A n \in NodesOf[row.shard] : wf'.at[n] = 1
          BY <1>0, <2>5, <3>3, <3>6, LookedUp
        <4> QED
          BY <3>1, <3>4, <3>6, <4>1 DEF StaysPut, MovesOn, Fanout, Untold
      <3> QED
        BY <3>5, <3>6
    <2>6. CASE NodesGoOn
      <3>1. row' = row /\ acct' = acct /\ wf' # Idle /\ \A n \in Nodes : wf.at[n] = 0
        BY <1>0, <2>6, NodesTold DEF NodesGoOn
      <3>2. row.shard \in Shards /\ wf.target \in Shards
        BY <1>0 DEF Rows, RunOK, Runs
      <3>3. NodesOf[row.shard] \subseteq Nodes /\ NodesOf[wf.target] \subseteq Nodes
        BY <3>2, NodesIn
      <3>4. wf'.op = wf.op /\ wf'.pc = wf.pc + 1
        BY <1>0, <2>6, NodesTold
      <3>5. CASE wf.op = "migrate"
        <4>1. /\ wf'.target = wf.target /\ wf'.shard = wf.shard
              /\ (wf.pc = 3 /\ ~wf.bad) \/ wf.pc = 7
          BY <1>0, <2>6, <3>5, MigrateTold
        <4>2. \A n \in NodesOf[wf.target] : acct[n].present
          BY <2>0, <3>1, <3>3, <3>5, <4>1 DEF MovesOn
        <4> QED
          BY <2>0, <3>1, <3>4, <3>5, <4>1, <4>2 DEF StaysPut, MovesOn
      <3>6. CASE wf.op \in {"create", "update", "suspend", "unsuspend"}
        <4>1. wf.pc = Fanout(wf.op) /\ ~wf.bad
          BY <1>0, <2>6, <3>6, NodesTold DEF Fanout
        <4>2. \A n \in NodesOf[row.shard] : ~Untold(wf, n)
          BY <3>1, <3>3 DEF Untold
        <4>3. \A n \in NodesOf[row.shard] : acct[n].present
          BY <2>0, <3>6, <4>1, <4>2 DEF StaysPut
        <4> QED
          BY <3>1, <3>4, <3>6, <4>3 DEF StaysPut, MovesOn
      <3>7. CASE wf.op = "delete"
        BY <3>1, <3>4, <3>7 DEF StaysPut, MovesOn
      <3> QED
        BY <1>0, <2>6, <3>5, <3>6, <3>7, NodesTold
    <2>7. ASSUME NEW n \in Nodes, NodeActivity(n) \/ NodeActivityFails(n)
          PROVE  wf' # Idle /\ StaysPut(row', wf', acct') /\ MovesOn(row', wf', acct')
      BY <1>0, <2>0, <2>7, PresentTold, PresentFails, SameStep
    <2>8. ASSUME NEW c \in Children, ChildStep(c)
          PROVE  wf' # Idle /\ StaysPut(row', wf', acct') /\ MovesOn(row', wf', acct')
      <3>1. /\ wf' # Idle /\ wf'.op = wf.op /\ wf'.pc = wf.pc /\ row' = row /\ wf'.at = wf.at
            /\ wf'.bad = wf.bad /\ wf.op # "migrate" /\ acct' = acct
        BY <1>0, <2>8, SameStep, ChildRun DEF ChildStep
      <3> QED
        BY <2>0, <3>1 DEF StaysPut, MovesOn, Untold
    <2>9. CASE ListChildren
      <3>1. /\ wf' # Idle /\ wf'.op = wf.op /\ wf'.pc = wf.pc + 1 /\ row' = row /\ acct' = acct
            /\ wf.op # "migrate" /\ (wf.op # "delete" => wf.pc > Fanout(wf.op) /\ wf'.pc > Fanout(wf.op))
        BY <1>0, <2>9, ListedFrom DEF ListChildren, Fanout
      <3> QED
        BY <2>0, <3>1 DEF StaysPut, MovesOn
    <2>10. CASE ChildrenDone
      <3>1. row' = row /\ acct' = acct
        BY <2>10 DEF ChildrenDone
      <3>2. CASE wf.op = "delete"
        BY <1>0, <2>10, <3>2, ChildrenEnd DEF StaysPut, MovesOn
      <3>3. CASE wf.op # "delete"
        <4>1. wf.op \in {"create", "suspend", "unsuspend"} /\ wf.pc > Fanout(wf.op) /\ wf' = Idle
          BY <1>0, <2>10, <3>3, ChildrenEnd DEF Fanout
        <4>2. \A n \in NodesOf[row.shard] : acct[n].present
          BY <2>0, <4>1 DEF StaysPut
        <4> QED
          BY <2>1, <3>1, <4>1, <4>2
      <3> QED
        BY <3>2, <3>3
    <2> QED
      BY <1>4, <2>2, <2>3, <2>4, <2>5, <2>6, <2>7, <2>8, <2>9, <2>10 DEF Works
  <1> QED
    BY <1>2, <1>3, <1>4, StaysCalm

\* A tenant in service has its account on every node of the shard its row
\* names, and while nothing has failed and it was not moved, the row's access
\* settings, however many nodes, requests, migrations and failing nodes: the
\* last task to run has made or found every account, or it has failed.
THEOREM Matching == Spec => []AccountsMatchRow
  <1>1. Init => PresentInv
    BY DEF Init, PresentInv, Calm, Awaits, Idle, Ops
  <1>2. TypeOK /\ PresentInv => InServiceIsPresent
    <2> SUFFICES ASSUME TypeOK, PresentInv, Quiet, faults = 0, ~circular,
                        row.status \in {"active", "suspended"}
                 PROVE  \A n \in NodesOf[row.shard] : acct[n].present
      BY DEF InServiceIsPresent
    <2>1. ~Awaits(Ops)
      BY NoCallType DEF Quiet, Awaits
    <2> QED
      BY <2>1 DEF Quiet, PresentInv, Calm, Present
  <1> QED
    BY <1>1, <1>2, PresentStep, Typing, Access, PTL DEF Spec, AccountsMatchRow
=============================================================================
