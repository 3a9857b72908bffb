----------------------------- MODULE MCIncidents -----------------------------
(* Small instances of Incidents for TLC: a cron that watches one problem, *)
(* and another problem of the same type that is reported to the API.       *)
EXTENDS Incidents

CONSTANTS d1, d2, disk, cron

MCKeys == {d1, d2}
MCTypes == {disk}
MCTypeOf == [k \in MCKeys |-> disk]
MCWatches == [m \in {cron} |-> {d1}]
=============================================================================
