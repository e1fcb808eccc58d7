---------------------------- MODULE MCSegmentCanvas ----------------------------
(* SegmentCanvas with three operations. *)
EXTENDS SegmentCanvas

CONSTANTS o1, o2, o3

MCOps == {o1, o2, o3}
=============================================================================
