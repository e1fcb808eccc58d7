----------------------------- MODULE Membership ------------------------------
(***************************************************************************)
(* What routing may rely on about the set of healthy workers: a worker     *)
(* leaves it, then its sessions are dropped (OnWorkerDown), and only after *)
(* that can it be healthy again.  Why a worker leaves or returns is not    *)
(* said here.                                                              *)
(***************************************************************************)
CONSTANT Worker

VARIABLES
    healthy,    \* the workers Healthy() is true of
    dropping    \* the workers taken out whose sessions are not dropped yet

vars == <<healthy, dropping>>

Init ==
    /\ healthy = {}
    /\ dropping = {}

MarkDown(w) ==
    /\ w \in healthy
    /\ healthy' = healthy \ {w}
    /\ dropping' = dropping \union {w}

Drop(w) ==
    /\ w \in dropping
    /\ dropping' = dropping \ {w}
    /\ UNCHANGED healthy

MarkUp(w) ==
    /\ w \notin healthy
    /\ w \notin dropping
    /\ healthy' = healthy \union {w}
    /\ UNCHANGED dropping

Next == \E w \in Worker : MarkDown(w) \/ Drop(w) \/ MarkUp(w)

\* OnWorkerDown is called and returns: dropping is never left undone.
Spec == Init /\ [][Next]_vars /\ \A w \in Worker : WF_vars(Drop(w))

SafeSpec == Init /\ [][Next]_vars
=============================================================================
