--------------------------- MODULE MCSessionTable ---------------------------
(* An instance of SessionTable for TLC. *)
EXTENDS SessionTable
=============================================================================
