-------------------------- MODULE MCTenantLifecycle --------------------------
(* Small instances of TenantLifecycle for TLC.                             *)
EXTENDS TenantLifecycle, TLC

CONSTANTS n1, n2, n3, a, b

\* Two nodes on the first shard, one on the second.
MCNodesOf == "web1" :> {n1, n2} @@ "web2" :> {n3}

MCSymmetry == Permutations({n1, n2}) \union Permutations({a, b})
=============================================================================
