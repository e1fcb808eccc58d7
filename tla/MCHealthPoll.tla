----------------------------- MODULE MCHealthPoll -----------------------------
(* HealthPoll with two workers and two polls that may overlap. *)
EXTENDS HealthPoll

CONSTANTS p1, p2

MCPolls == {p1, p2}
=============================================================================
