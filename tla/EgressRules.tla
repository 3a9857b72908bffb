----------------------------- MODULE EgressRules -----------------------------
(***************************************************************************)
(* The egress rules of one tenant: TenantEgressRuleService                 *)
(* (internal/core/tenant_egress_rule.go), SyncEgressRulesWorkflow          *)
(* (internal/workflow/tenant_egress_rule.go) and its activities.  Unlike   *)
(* other resources the rules are provisioned as a set: every change queues *)
(* a sync of all rules of the tenant, which the nodes replace as a whole.  *)
(*                                                                         *)
(* Retry is left out: it asks for a rule in status failed, and no rule     *)
(* ever is, setResourceFailed being given the tenant's ID for the rule's.  *)
(***************************************************************************)
EXTENDS Naturals, FiniteSets

CONSTANTS Rules,      \* rules that requests may create
          Nodes,      \* nodes of the tenant's web shard
          MaxSyncs    \* bound: syncs queued at the same time

ASSUME EgressAssumption == MaxSyncs \in Nat \ {0}

VARIABLES
    status,    \* per rule: its row's status, "none" without a row
    chain,     \* per node: the rules in the tenant's nftables chain
    owed,      \* requests that have written their row and not signalled yet
    queue,     \* syncs in the tenant's queue
    pc,        \* the sync in progress
    rules,     \* the rules it has read
    todo,      \* the nodes it has not heard from
    bad,       \* whether a node has failed
    intact,    \* history: the latest sync to end has succeeded
    deleted,   \* history: rules whose deletion was accepted
    unflushed  \* history: nodes where the last removal of all rules was a silent failure

vars == <<status, chain, owed, queue, pc, rules, todo, bad, intact, deleted, unflushed>>

Statuses == {"none", "pending", "provisioning", "active", "deleting"}

TypeOK ==
    /\ status \in [Rules -> Statuses]
    /\ chain \in [Nodes -> SUBSET Rules]
    /\ owed \in Nat
    /\ queue \in Nat
    /\ pc \in {"idle", "mark", "lookup", "apply", "finalize", "purge"}
    /\ rules \subseteq Rules
    /\ todo \subseteq Nodes
    /\ bad \in BOOLEAN
    /\ intact \in BOOLEAN
    /\ deleted \subseteq Rules
    /\ unflushed \subseteq Nodes

Init ==
    /\ status = [r \in Rules |-> "none"]
    /\ chain = [n \in Nodes |-> {}]
    /\ owed = 0
    /\ queue = 0
    /\ pc = "idle"
    /\ rules = {}
    /\ todo = {}
    /\ bad = FALSE
    /\ intact = TRUE
    /\ deleted = {}
    /\ unflushed = {}

(***************************************************************************)
(* Plausible mistakes, each the mutant of the definition named.            *)
(***************************************************************************)
\* GetActiveEgressRules, of a query that takes its name at its word.
OnlyActiveRules == {r \in Rules : status[r] = "active"}

\* Apply, of a node that adds rules to the chain without flushing it.
ApplyAdds(n) ==
    /\ pc = "apply"
    /\ n \in todo
    /\ chain' = [chain EXCEPT ![n] = @ \union rules]
    /\ todo' = todo \ {n}
    /\ UNCHANGED <<status, owed, queue, pc, rules, bad, intact, deleted, unflushed>>

\* Purged, of a soft delete.
PurgedSoftly == [r \in Rules |-> IF status[r] = "deleting" THEN "deleted" ELSE status[r]]

(***************************************************************************)
(* Requests.  Each writes its row and then signals a sync.                 *)
(***************************************************************************)
Create(r) ==
    /\ status[r] = "none" /\ r \notin deleted
    /\ owed + queue < MaxSyncs
    /\ status' = [status EXCEPT ![r] = "pending"]
    /\ owed' = owed + 1
    /\ UNCHANGED <<chain, queue, pc, rules, todo, bad, intact, deleted, unflushed>>

Delete(r) ==
    /\ status[r] # "none"
    /\ owed + queue < MaxSyncs
    /\ status' = [status EXCEPT ![r] = "deleting"]
    /\ deleted' = deleted \union {r}
    /\ owed' = owed + 1
    /\ UNCHANGED <<chain, queue, pc, rules, todo, bad, intact, unflushed>>

Signal ==
    /\ owed > 0
    /\ owed' = owed - 1
    /\ queue' = queue + 1
    /\ UNCHANGED <<status, chain, pc, rules, todo, bad, intact, deleted, unflushed>>

(***************************************************************************)
(* SyncEgressRulesWorkflow, one activity at a time.                        *)
(***************************************************************************)
StartSync ==
    /\ pc = "idle"
    /\ queue > 0
    /\ queue' = queue - 1
    /\ pc' = "mark"
    /\ UNCHANGED <<status, chain, owed, rules, todo, bad, intact, deleted, unflushed>>

\* SetTenantEgressRulesProvisioning
Marked ==
    [r \in Rules |-> IF status[r] \in {"pending", "deleting", "failed"}
                     THEN "provisioning" ELSE status[r]]

Mark ==
    /\ pc = "mark"
    /\ status' = Marked
    /\ pc' = "lookup"
    /\ UNCHANGED <<chain, owed, queue, rules, todo, bad, intact, deleted, unflushed>>

\* GetActiveEgressRules
ActiveRules == {r \in Rules : status[r] \notin {"none", "deleting", "deleted"}}

\* GetTenantByID, ListNodesByShard and GetActiveEgressRules; the node list does
\* not change, so that only the last one's moment matters.
Lookup ==
    /\ pc = "lookup"
    /\ rules' = ActiveRules
    /\ todo' = Nodes
    /\ bad' = FALSE
    /\ pc' = "apply"
    /\ UNCHANGED <<status, chain, owed, queue, intact, deleted, unflushed>>

\* removeEgressChain: the chain is flushed; it stays, being referred to by the
\* jump, which is not removed.  The errors of nft are ignored, so that a flush
\* that fails leaves the rules in force and counts as success.
removeEgressChain(n) ==
    \/ chain' = [chain EXCEPT ![n] = {}] /\ unflushed' = unflushed \ {n}
    \/ UNCHANGED chain /\ unflushed' = unflushed \union {n}

\* SyncEgressRules replaces the chain, or removes it when there are no rules.
Apply(n) ==
    /\ pc = "apply"
    /\ n \in todo
    /\ IF rules = {} THEN removeEgressChain(n)
       ELSE chain' = [chain EXCEPT ![n] = rules] /\ unflushed' = unflushed \ {n}
    /\ todo' = todo \ {n}
    /\ UNCHANGED <<status, owed, queue, pc, rules, bad, intact, deleted>>

\* It fails with the chain as it was, emptied (flushed), or replaced.
ApplyFails(n) ==
    /\ pc = "apply"
    /\ n \in todo
    /\ \E left \in {chain[n], {}, rules} : chain' = [chain EXCEPT ![n] = left]
    /\ todo' = todo \ {n}
    /\ bad' = TRUE
    /\ UNCHANGED <<status, owed, queue, pc, rules, intact, deleted, unflushed>>

\* The workflow ends in error: UpdateResourceStatus is called with the tenant's
\* ID, which no rule's row has.
Fail ==
    /\ pc' = "idle"
    /\ intact' = FALSE
    /\ UNCHANGED <<status, chain, owed, queue, rules, todo, bad, deleted, unflushed>>

LookupFails == pc \in {"mark", "lookup"} /\ Fail

AllHeard ==
    /\ pc = "apply"
    /\ todo = {}
    /\ \/ bad /\ Fail
       \/ /\ ~bad
          /\ pc' = "finalize"
          /\ UNCHANGED <<status, chain, owed, queue, rules, todo, bad, intact, deleted, unflushed>>

\* FinalizeTenantEgressRules, its first statement
Finalized ==
    [r \in Rules |-> IF status[r] = "provisioning" THEN "active" ELSE status[r]]

Finalize ==
    /\ pc = "finalize"
    /\ status' = Finalized
    /\ pc' = "purge"
    /\ UNCHANGED <<chain, owed, queue, rules, todo, bad, intact, deleted, unflushed>>

\* ... and its second; the two are not in a transaction.
Purged == [r \in Rules |-> IF status[r] = "deleting" THEN "none" ELSE status[r]]

Purge ==
    /\ pc = "purge"
    /\ status' = Purged
    /\ pc' = "idle"
    /\ intact' = TRUE
    /\ UNCHANGED <<chain, owed, queue, rules, todo, bad, deleted, unflushed>>

FinalizeFails == pc \in {"finalize", "purge"} /\ Fail

SyncEgressRulesWorkflow ==
    \/ StartSync \/ Mark \/ Lookup \/ LookupFails
    \/ \E n \in Nodes : Apply(n) \/ ApplyFails(n)
    \/ AllHeard \/ Finalize \/ Purge \/ FinalizeFails

Next ==
    \/ \E r \in Rules : Create(r) \/ Delete(r)
    \/ Signal
    \/ SyncEgressRulesWorkflow

Spec == Init /\ [][Next]_vars

-----------------------------------------------------------------------------
(***************************************************************************)
(* Properties.                                                             *)
(***************************************************************************)
Quiet == pc = "idle" /\ queue = 0 /\ owed = 0

\* Unless the last sync has failed, or a node of this one, a rule that is
\* reported active is in force on every node, during syncs too: rules that are
\* created or deleted while a sync is under way, or that a failed sync has left
\* provisioning, are never finalized unless this sync has applied them.
ActiveIsEnforced ==
    intact /\ ~bad =>
        \A r \in Rules : status[r] = "active" => \A n \in Nodes : r \in chain[n]

\* When all requests are through and the last sync succeeded, every node
\* enforces exactly the tenant's rules: all of them are active, and no node
\* keeps a rule without a row.  The exception is a node whose error was ignored
\* when the last rule went: it may keep old rules, but only as long as the
\* tenant has none; the next rule puts it right.
ChainsMatchRows ==
    Quiet /\ intact =>
        LET active == {r \in Rules : status[r] = "active"}
        IN  /\ \A r \in Rules : status[r] \in {"none", "active"}
            /\ \A n \in Nodes : chain[n] = active \/ (active = {} /\ n \in unflushed)

\* A rule whose deletion was accepted is gone when all requests are through
\* ("hard-deletes deleting rules").
DeletedIsGone == Quiet /\ intact => \A r \in deleted : status[r] = "none"

=============================================================================
