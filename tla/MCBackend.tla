------------------------------ MODULE MCBackend ------------------------------
(* Backend with three requests and two images. *)
EXTENDS Backend

CONSTANTS r1, r2, r3, i1, i2

MCRequests == {r1, r2, r3}
MCImages == {i1, i2}
=============================================================================
