-------------------------- MODULE MCConvergeShard --------------------------
(* Instances of ConvergeShard for TLC. *)
EXTENDS ConvergeShard

MCNodes == {"n1", "n2"}
MCJoined == {"n2"}
MCAddressed == BOOLEAN
MCRoles == {"web", "database", "valkey", "lb", "gateway", "storage"}
MCTurbulent == {"database", "valkey", "lb", "gateway", "storage"}
MCWeb == {"web"}
=============================================================================
