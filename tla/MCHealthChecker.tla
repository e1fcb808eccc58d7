-------------------------- MODULE MCHealthChecker ---------------------------
(* HealthChecker with two workers, two failures to leave, two passes to return. *)
EXTENDS HealthChecker

CONSTANTS w1, w2

MCWorkers == {w1, w2}
=============================================================================
