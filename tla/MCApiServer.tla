---------------------------- MODULE MCApiServer ----------------------------
(* Two interchangeable requests.                                              *)
EXTENDS ApiServer

CONSTANTS q1, q2

Symmetry == Permutations(Requests)
=============================================================================
