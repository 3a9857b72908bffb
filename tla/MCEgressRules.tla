---------------------------- MODULE MCEgressRules ----------------------------
(* Small instances of EgressRules for TLC.                                 *)
EXTENDS EgressRules, TLC

CONSTANTS r1, r2, r3, n1, n2

MCRules == {r1, r2, r3}
MCNodes == {n1, n2}

\* Rules and nodes are interchangeable.
MCSymmetry == Permutations(MCRules) \union Permutations(MCNodes)
=============================================================================
