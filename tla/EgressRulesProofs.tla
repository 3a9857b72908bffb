-------------------------- MODULE EgressRulesProofs --------------------------
(***************************************************************************)
(* Proofs about EgressRules, for every set of rules and nodes and every    *)
(* number of queued syncs.                                                 *)
(***************************************************************************)
EXTENDS EgressRules, TLAPS

(***************************************************************************)
(* The inductive invariant behind ActiveIsEnforced and ChainsMatchRows.    *)
(***************************************************************************)
Syncing == {"lookup", "apply", "finalize", "purge"}

Present == {r \in Rules : status[r] # "none"}

\* What the sync in progress has read covers every rule it may finalize.
ReadCovers ==
    pc \in {"apply", "finalize"} =>
        \A r \in Rules : status[r] \in {"active", "provisioning"} => r \in rules

\* The nodes it has heard from hold what it has read, but for a chain that it
\* failed to flush without noticing.
Holds(n) == chain[n] = rules \/ (rules = {} /\ n \in unflushed)

HeardHolds ==
    /\ pc = "apply" /\ ~bad => \A n \in Nodes \ todo : Holds(n)
    /\ pc \in {"finalize", "purge"} => ~bad /\ \A n \in Nodes : Holds(n)
    /\ pc = "purge" => \A r \in Rules : status[r] = "active" => r \in rules

\* A failing node spoils the sync it belongs to.
BadSpoils == bad /\ intact => pc = "apply"

\* Until the next request the sync in progress has seen every rule.
NothingMissed ==
    owed + queue = 0 =>
        /\ pc \in Syncing => \A r \in Rules : status[r] \notin {"pending", "deleting"}
        /\ pc \in {"apply", "finalize", "purge"} => rules = Present
        /\ pc = "purge" => \A r \in Rules : status[r] \in {"none", "active"}

EgressInv ==
    /\ TypeOK
    /\ ActiveIsEnforced
    /\ ChainsMatchRows
    /\ ReadCovers
    /\ HeardHolds
    /\ BadSpoils
    /\ NothingMissed

-----------------------------------------------------------------------------
\* Without rows there is nothing to enforce and nothing to read.
LEMMA InitInv == Init => EgressInv
  <1> SUFFICES ASSUME Init PROVE EgressInv
      OBVIOUS
  <1>1. TypeOK
    BY DEF Init, TypeOK, Statuses
  <1>2. ActiveIsEnforced
    BY DEF Init, ActiveIsEnforced
  <1>3. ChainsMatchRows
    BY DEF Init, ChainsMatchRows
  <1>4. ReadCovers /\ HeardHolds /\ BadSpoils /\ NothingMissed
    BY DEF Init, ReadCovers, HeardHolds, Holds, BadSpoils, NothingMissed, Syncing
  <1> QED  BY <1>1, <1>2, <1>3, <1>4 DEF EgressInv

\* Each step preserves the invariant: one step per action, and under it one
\* per conjunct.
LEMMA StepInv == EgressInv /\ [Next]_vars => EgressInv'
  <1> SUFFICES ASSUME EgressInv, [Next]_vars PROVE EgressInv'
      OBVIOUS
  <1> USE DEF EgressInv
  <1>1. ASSUME NEW r \in Rules, Create(r) PROVE EgressInv'
    <2>1. TypeOK'
      BY <1>1 DEF Create, TypeOK, Statuses
    <2>2. ActiveIsEnforced'
      BY <1>1 DEF Create, TypeOK, ActiveIsEnforced, ReadCovers, HeardHolds, Holds, BadSpoils
    <2>3. ChainsMatchRows'
      BY <1>1 DEF Create, TypeOK, ChainsMatchRows, Quiet, HeardHolds, Holds, NothingMissed, Present, Syncing, Statuses
    <2>4. ReadCovers'
      BY <1>1 DEF Create, TypeOK, ReadCovers, HeardHolds, Holds
    <2>5. HeardHolds'
      BY <1>1 DEF Create, TypeOK, HeardHolds, Holds, ReadCovers
    <2>6. BadSpoils'
      BY <1>1 DEF Create, TypeOK, BadSpoils, HeardHolds, Holds
    <2>7. NothingMissed'
      BY <1>1 DEF Create, TypeOK, NothingMissed, Present, Syncing, Statuses
    <2> QED  BY <2>1, <2>2, <2>3, <2>4, <2>5, <2>6, <2>7
  <1>2. ASSUME NEW r \in Rules, Delete(r) PROVE EgressInv'
    <2>1. TypeOK'
      BY <1>2 DEF Delete, TypeOK, Statuses
    <2>2. ActiveIsEnforced'
      BY <1>2 DEF Delete, TypeOK, ActiveIsEnforced, ReadCovers, HeardHolds, Holds, BadSpoils
    <2>3. ChainsMatchRows'
      BY <1>2 DEF Delete, TypeOK, ChainsMatchRows, Quiet, HeardHolds, Holds, NothingMissed, Present, Syncing, Statuses
    <2>4. ReadCovers'
      BY <1>2 DEF Delete, TypeOK, ReadCovers, HeardHolds, Holds
    <2>5. HeardHolds'
      BY <1>2 DEF Delete, TypeOK, HeardHolds, Holds, ReadCovers
    <2>6. BadSpoils'
      BY <1>2 DEF Delete, TypeOK, BadSpoils, HeardHolds, Holds
    <2>7. NothingMissed'
      BY <1>2 DEF Delete, TypeOK, NothingMissed, Present, Syncing, Statuses
    <2> QED  BY <2>1, <2>2, <2>3, <2>4, <2>5, <2>6, <2>7
  <1>3. CASE Signal
    <2>1. TypeOK'
      BY <1>3 DEF Signal, TypeOK, Statuses
    <2>2. ActiveIsEnforced'
      BY <1>3 DEF Signal, TypeOK, ActiveIsEnforced, ReadCovers, HeardHolds, Holds, BadSpoils
    <2>3. ChainsMatchRows'
      BY <1>3 DEF Signal, TypeOK, ChainsMatchRows, Quiet, HeardHolds, Holds, NothingMissed, Present, Syncing, Statuses
    <2>4. ReadCovers'
      BY <1>3 DEF Signal, TypeOK, ReadCovers, HeardHolds, Holds
    <2>5. HeardHolds'
      BY <1>3 DEF Signal, TypeOK, HeardHolds, Holds, ReadCovers
    <2>6. BadSpoils'
      BY <1>3 DEF Signal, TypeOK, BadSpoils, HeardHolds, Holds
    <2>7. NothingMissed'
      BY <1>3 DEF Signal, TypeOK, NothingMissed, Present, Syncing, Statuses
    <2> QED  BY <2>1, <2>2, <2>3, <2>4, <2>5, <2>6, <2>7
  <1>4. CASE StartSync
    <2>1. TypeOK'
      BY <1>4 DEF StartSync, TypeOK, Statuses
    <2>2. ActiveIsEnforced'
      BY <1>4 DEF StartSync, TypeOK, ActiveIsEnforced, ReadCovers, HeardHolds, Holds, BadSpoils
    <2>3. ChainsMatchRows'
      BY <1>4 DEF StartSync, TypeOK, ChainsMatchRows, Quiet, HeardHolds, Holds, NothingMissed, Present, Syncing, Statuses
    <2>4. ReadCovers'
      BY <1>4 DEF StartSync, TypeOK, ReadCovers, HeardHolds, Holds
    <2>5. HeardHolds'
      BY <1>4 DEF StartSync, TypeOK, HeardHolds, Holds, ReadCovers
    <2>6. BadSpoils'
      BY <1>4 DEF StartSync, TypeOK, BadSpoils, HeardHolds, Holds
    <2>7. NothingMissed'
      BY <1>4 DEF StartSync, TypeOK, NothingMissed, Present, Syncing, Statuses
    <2> QED  BY <2>1, <2>2, <2>3, <2>4, <2>5, <2>6, <2>7
  <1>5. CASE Mark
    <2>1. TypeOK'
      BY <1>5 DEF Mark, Marked, TypeOK, Statuses
    <2>2. ActiveIsEnforced'
      BY <1>5 DEF Mark, Marked, TypeOK, ActiveIsEnforced, ReadCovers, HeardHolds, Holds, BadSpoils
    <2>3. ChainsMatchRows'
      BY <1>5 DEF Mark, Marked, TypeOK, ChainsMatchRows, Quiet, HeardHolds, Holds, NothingMissed, Present, Syncing, Statuses
    <2>4. ReadCovers'
      BY <1>5 DEF Mark, Marked, TypeOK, ReadCovers, HeardHolds, Holds
    <2>5. HeardHolds'
      BY <1>5 DEF Mark, Marked, TypeOK, HeardHolds, Holds, ReadCovers
    <2>6. BadSpoils'
      BY <1>5 DEF Mark, Marked, TypeOK, BadSpoils, HeardHolds, Holds
    <2>7. NothingMissed'
      BY <1>5 DEF Mark, Marked, TypeOK, NothingMissed, Present, Syncing, Statuses
    <2> QED  BY <2>1, <2>2, <2>3, <2>4, <2>5, <2>6, <2>7
  <1>6. CASE Lookup
    <2>1. TypeOK'
      BY <1>6 DEF Lookup, ActiveRules, TypeOK, Statuses
    <2>2. ActiveIsEnforced'
      BY <1>6 DEF Lookup, ActiveRules, TypeOK, ActiveIsEnforced, ReadCovers, HeardHolds, Holds, BadSpoils
    <2>3. ChainsMatchRows'
      BY <1>6 DEF Lookup, ActiveRules, TypeOK, ChainsMatchRows, Quiet, HeardHolds, Holds, NothingMissed, Present, Syncing, Statuses
    <2>4. ReadCovers'
      BY <1>6 DEF Lookup, ActiveRules, TypeOK, ReadCovers, HeardHolds, Holds
    <2>5. HeardHolds'
      BY <1>6 DEF Lookup, ActiveRules, TypeOK, HeardHolds, Holds, ReadCovers
    <2>6. BadSpoils'
      BY <1>6 DEF Lookup, ActiveRules, TypeOK, BadSpoils, HeardHolds, Holds
    <2>7. NothingMissed'
      BY <1>6 DEF Lookup, ActiveRules, TypeOK, NothingMissed, Present, Syncing, Statuses
    <2> QED  BY <2>1, <2>2, <2>3, <2>4, <2>5, <2>6, <2>7
  <1>7. CASE LookupFails
    <2>1. TypeOK'
      BY <1>7 DEF LookupFails, Fail, TypeOK, Statuses
    <2>2. ActiveIsEnforced'
      BY <1>7 DEF LookupFails, Fail, TypeOK, ActiveIsEnforced, ReadCovers, HeardHolds, Holds, BadSpoils
    <2>3. ChainsMatchRows'
      BY <1>7 DEF LookupFails, Fail, TypeOK, ChainsMatchRows, Quiet, HeardHolds, Holds, NothingMissed, Present, Syncing, Statuses
    <2>4. ReadCovers'
      BY <1>7 DEF LookupFails, Fail, TypeOK, ReadCovers, HeardHolds, Holds
    <2>5. HeardHolds'
      BY <1>7 DEF LookupFails, Fail, TypeOK, HeardHolds, Holds, ReadCovers
    <2>6. BadSpoils'
      BY <1>7 DEF LookupFails, Fail, TypeOK, BadSpoils, HeardHolds, Holds
    <2>7. NothingMissed'
      BY <1>7 DEF LookupFails, Fail, TypeOK, NothingMissed, Present, Syncing, Statuses
    <2> QED  BY <2>1, <2>2, <2>3, <2>4, <2>5, <2>6, <2>7
  <1>8. ASSUME NEW n \in Nodes, Apply(n) PROVE EgressInv'
    <2>1. TypeOK'
      BY <1>8 DEF Apply, removeEgressChain, TypeOK, Statuses
    <2>2. ActiveIsEnforced'
      BY <1>8 DEF Apply, removeEgressChain, TypeOK, ActiveIsEnforced, ReadCovers, HeardHolds, Holds, BadSpoils
    <2>3. ChainsMatchRows'
      BY <1>8 DEF Apply, removeEgressChain, TypeOK, ChainsMatchRows, Quiet, HeardHolds, Holds, NothingMissed, Present, Syncing, Statuses
    <2>4. ReadCovers'
      BY <1>8 DEF Apply, removeEgressChain, TypeOK, ReadCovers, HeardHolds, Holds
    <2>5. HeardHolds'
      BY <1>8 DEF Apply, removeEgressChain, TypeOK, HeardHolds, Holds, ReadCovers
    <2>6. BadSpoils'
      BY <1>8 DEF Apply, removeEgressChain, TypeOK, BadSpoils, HeardHolds, Holds
    <2>7. NothingMissed'
      BY <1>8 DEF Apply, removeEgressChain, TypeOK, NothingMissed, Present, Syncing, Statuses
    <2> QED  BY <2>1, <2>2, <2>3, <2>4, <2>5, <2>6, <2>7
  <1>9. ASSUME NEW n \in Nodes, ApplyFails(n) PROVE EgressInv'
    <2>1. TypeOK'
      BY <1>9 DEF ApplyFails, TypeOK, Statuses
    <2>2. ActiveIsEnforced'
      BY <1>9 DEF ApplyFails, TypeOK, ActiveIsEnforced, ReadCovers, HeardHolds, Holds, BadSpoils
    <2>3. ChainsMatchRows'
      BY <1>9 DEF ApplyFails, TypeOK, ChainsMatchRows, Quiet, HeardHolds, Holds, NothingMissed, Present, Syncing, Statuses
    <2>4. ReadCovers'
      BY <1>9 DEF ApplyFails, TypeOK, ReadCovers, HeardHolds, Holds
    <2>5. HeardHolds'
      BY <1>9 DEF ApplyFails, TypeOK, HeardHolds, Holds, ReadCovers
    <2>6. BadSpoils'
      BY <1>9 DEF ApplyFails, TypeOK, BadSpoils, HeardHolds, Holds
    <2>7. NothingMissed'
      BY <1>9 DEF ApplyFails, TypeOK, NothingMissed, Present, Syncing, Statuses
    <2> QED  BY <2>1, <2>2, <2>3, <2>4, <2>5, <2>6, <2>7
  <1>10. CASE AllHeard
    <2>1. TypeOK'
      BY <1>10 DEF AllHeard, Fail, TypeOK, Statuses
    <2>2. ActiveIsEnforced'
      BY <1>10 DEF AllHeard, Fail, TypeOK, ActiveIsEnforced, ReadCovers, HeardHolds, Holds, BadSpoils
    <2>3. ChainsMatchRows'
      BY <1>10 DEF AllHeard, Fail, TypeOK, ChainsMatchRows, Quiet, HeardHolds, Holds, NothingMissed, Present, Syncing, Statuses
    <2>4. ReadCovers'
      BY <1>10 DEF AllHeard, Fail, TypeOK, ReadCovers, HeardHolds, Holds
    <2>5. HeardHolds'
      BY <1>10 DEF AllHeard, Fail, TypeOK, HeardHolds, Holds, ReadCovers
    <2>6. BadSpoils'
      BY <1>10 DEF AllHeard, Fail, TypeOK, BadSpoils, HeardHolds, Holds
    <2>7. NothingMissed'
      BY <1>10 DEF AllHeard, Fail, TypeOK, NothingMissed, Present, Syncing, Statuses
    <2> QED  BY <2>1, <2>2, <2>3, <2>4, <2>5, <2>6, <2>7
  <1>11. CASE Finalize
    <2>1. TypeOK'
      BY <1>11 DEF Finalize, Finalized, TypeOK, Statuses
    <2>2. ActiveIsEnforced'
      BY <1>11 DEF Finalize, Finalized, TypeOK, ActiveIsEnforced, ReadCovers, HeardHolds, Holds, BadSpoils
    <2>3. ChainsMatchRows'
      BY <1>11 DEF Finalize, Finalized, TypeOK, ChainsMatchRows, Quiet, HeardHolds, Holds, NothingMissed, Present, Syncing, Statuses
    <2>4. ReadCovers'
      BY <1>11 DEF Finalize, Finalized, TypeOK, ReadCovers, HeardHolds, Holds
    <2>5. HeardHolds'
      BY <1>11 DEF Finalize, Finalized, TypeOK, HeardHolds, Holds, ReadCovers
    <2>6. BadSpoils'
      BY <1>11 DEF Finalize, Finalized, TypeOK, BadSpoils, HeardHolds, Holds
    <2>7. NothingMissed'
      BY <1>11 DEF Finalize, Finalized, TypeOK, NothingMissed, Present, Syncing, Statuses
    <2> QED  BY <2>1, <2>2, <2>3, <2>4, <2>5, <2>6, <2>7
  <1>12. CASE Purge
    <2>1. TypeOK'
      BY <1>12 DEF Purge, Purged, TypeOK, Statuses
    <2>2. ActiveIsEnforced'
      BY <1>12 DEF Purge, Purged, TypeOK, ActiveIsEnforced, ReadCovers, HeardHolds, Holds, BadSpoils
    <2>3. ChainsMatchRows'
      BY <1>12 DEF Purge, Purged, TypeOK, ChainsMatchRows, Quiet, HeardHolds, Holds, NothingMissed, Present, Syncing, Statuses
    <2>4. ReadCovers'
      BY <1>12 DEF Purge, Purged, TypeOK, ReadCovers, HeardHolds, Holds
    <2>5. HeardHolds'
      BY <1>12 DEF Purge, Purged, TypeOK, HeardHolds, Holds, ReadCovers
    <2>6. BadSpoils'
      BY <1>12 DEF Purge, Purged, TypeOK, BadSpoils, HeardHolds, Holds
    <2>7. NothingMissed'
      BY <1>12 DEF Purge, Purged, TypeOK, NothingMissed, Present, Syncing, Statuses
    <2> QED  BY <2>1, <2>2, <2>3, <2>4, <2>5, <2>6, <2>7
  <1>13. CASE FinalizeFails
    <2>1. TypeOK'
      BY <1>13 DEF FinalizeFails, Fail, TypeOK, Statuses
    <2>2. ActiveIsEnforced'
      BY <1>13 DEF FinalizeFails, Fail, TypeOK, ActiveIsEnforced, ReadCovers, HeardHolds, Holds, BadSpoils
    <2>3. ChainsMatchRows'
      BY <1>13 DEF FinalizeFails, Fail, TypeOK, ChainsMatchRows, Quiet, HeardHolds, Holds, NothingMissed, Present, Syncing, Statuses
    <2>4. ReadCovers'
      BY <1>13 DEF FinalizeFails, Fail, TypeOK, ReadCovers, HeardHolds, Holds
    <2>5. HeardHolds'
      BY <1>13 DEF FinalizeFails, Fail, TypeOK, HeardHolds, Holds, ReadCovers
    <2>6. BadSpoils'
      BY <1>13 DEF FinalizeFails, Fail, TypeOK, BadSpoils, HeardHolds, Holds
    <2>7. NothingMissed'
      BY <1>13 DEF FinalizeFails, Fail, TypeOK, NothingMissed, Present, Syncing, Statuses
    <2> QED  BY <2>1, <2>2, <2>3, <2>4, <2>5, <2>6, <2>7
  <1>14. CASE UNCHANGED vars
    BY <1>14 DEF vars, TypeOK, ActiveIsEnforced, ChainsMatchRows, Quiet, ReadCovers,
        HeardHolds, Holds, BadSpoils, NothingMissed, Present
  <1> QED
    BY <1>1, <1>2, <1>3, <1>4, <1>5, <1>6, <1>7, <1>8, <1>9, <1>10, <1>11, <1>12, <1>13, <1>14 DEF Next, SyncEgressRulesWorkflow

LEMMA Invariance == Spec => []EgressInv
  BY InitInv, StepInv, PTL DEF Spec

\* The state of requests, syncs and chains keeps its type.
THEOREM Typing == Spec => []TypeOK
  BY Invariance, PTL DEF EgressInv

\* A rule that TenantEgressRuleService reports active is in force on every node
\* of the shard, unless the last sync or a node of the current one failed.
THEOREM Enforcement == Spec => []ActiveIsEnforced
  BY Invariance, PTL DEF EgressInv

\* When all requests are through and SyncEgressRulesWorkflow got through, every
\* node enforces exactly the rules that have a row.
THEOREM Matching == Spec => []ChainsMatchRows
  BY Invariance, PTL DEF EgressInv

=============================================================================
