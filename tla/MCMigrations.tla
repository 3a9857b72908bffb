---------------------------- MODULE MCMigrations ----------------------------
(* Instances of Migrations for TLC. *)
EXTENDS Migrations

\* Nodes that share the directory of the dumps, and nodes that do not.
MCShared  == [s \in Shards |-> Shards]
MCLocal   == {[s \in Shards |-> {s}]}
MCLayouts == {MCShared} \cup MCLocal
=============================================================================
