----------------------------- MODULE MCRecovery -----------------------------
(* A small instance of Recovery.                                            *)
EXTENDS Recovery

CONSTANTS o1, o2

MCOutages == {o1, o2}
=============================================================================
