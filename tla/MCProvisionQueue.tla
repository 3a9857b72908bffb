-------------------------- MODULE MCProvisionQueue --------------------------
(* Small instances of ProvisionQueue for TLC.                              *)
EXTENDS ProvisionQueue

CONSTANTS q1, q2, q3, q4, d1

MCFourAndDirect == {q1, q2, q3, q4, d1}
MCThreeAndDirect == {q1, q2, q3, d1}
MCDirect == {d1}
=============================================================================
