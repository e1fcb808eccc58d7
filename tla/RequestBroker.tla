---------------------------- MODULE RequestBroker ----------------------------
(***************************************************************************)
(* What the gateway's request path promises, without goroutines, channels  *)
(* or flags: a request is refused at once or accepted by ONE worker that   *)
(* still has room; an accepted request is answered exactly once; while the *)
(* gateway is up every accepted request is answered, unless its client     *)
(* stalls or clients that stall hold all servers of its worker.            *)
(***************************************************************************)
EXTENDS Naturals, FiniteSets

CONSTANTS
    Request,
    Worker,
    Capacity,   \* worker -> the most requests it owes at a time
    Servers     \* worker -> the most requests it serves at a time

VARIABLES
    owed,       \* worker -> the accepted requests it still owes an answer
    settled,    \* the requests refused or answered
    stalled,    \* the requests whose client has stalled during the answer
    up          \* the gateway is serving or draining

vars == <<owed, settled, stalled, up>>

Init ==
    /\ owed = [w \in Worker |-> {}]
    /\ settled = {}
    /\ stalled = {}
    /\ up = TRUE

Unseen(r) == r \notin settled /\ \A w \in Worker : r \notin owed[w]

Refuse(r) ==
    /\ Unseen(r)
    /\ settled' = settled \union {r}
    /\ UNCHANGED <<owed, stalled, up>>

Accept(r, w) ==
    /\ Unseen(r)
    /\ Cardinality(owed[w]) < Capacity[w]
    /\ owed' = [owed EXCEPT ![w] = owed[w] \union {r}]
    /\ UNCHANGED <<settled, stalled, up>>

\* The client of a request that is served stalls, for good.
Stall(r) ==
    /\ \E w \in Worker : r \in owed[w]
    /\ r \notin stalled
    /\ stalled' = stalled \union {r}
    /\ UNCHANGED <<owed, settled, up>>

Answer(r) ==
    /\ r \notin stalled
    /\ \E w \in Worker :
        /\ r \in owed[w]
        /\ owed' = [owed EXCEPT ![w] = owed[w] \ {r}]
    /\ settled' = settled \union {r}
    /\ UNCHANGED <<stalled, up>>

Close ==
    /\ up
    /\ up' = FALSE
    /\ UNCHANGED <<owed, settled, stalled>>

Next ==
    \/ \E r \in Request :
          Refuse(r) \/ Stall(r) \/ Answer(r) \/ \E w \in Worker : Accept(r, w)
    \/ Close

SafeSpec == Init /\ [][Next]_vars

\* All servers of the worker that owes r an answer are held by stalled clients.
Blocked(r) ==
    \E w \in Worker : r \in owed[w] /\ Cardinality(stalled \intersect owed[w]) >= Servers[w]

Spec == SafeSpec /\ \A r \in Request : WF_vars(up /\ ~Blocked(r) /\ Answer(r))
=============================================================================
