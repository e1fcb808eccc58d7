----------------------------- MODULE ImageStore ------------------------------
(***************************************************************************)
(* What the gateway and its clients may rely on about the images of the    *)
(* back ends: an image is kept from its upload on until it is lost, and    *)
(* one that was lost is never kept again.  Why images are lost (TTL,       *)
(* restart) is not said here.                                              *)
(***************************************************************************)
CONSTANT Image

VARIABLES
    kept,       \* the images a back end has
    gone        \* those it had

vars == <<kept, gone>>

Init ==
    /\ kept = {}
    /\ gone = {}

Lose(S) ==
    /\ kept' = kept \ S
    /\ gone' = gone \union S

\* Storing an image may clean up others.
Keep(i, S) ==
    /\ i \notin kept \union gone
    /\ kept' = (kept \ S) \union {i}
    /\ gone' = gone \union S

Next ==
    \E S \in SUBSET kept :
        \/ Lose(S)
        \/ \E i \in Image : Keep(i, S)

Spec == Init /\ [][Next]_vars
=============================================================================
