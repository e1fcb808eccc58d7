----------------------------- MODULE SessionMap -----------------------------
(***************************************************************************)
(* What the rest of the gateway may rely on about sticky sessions: an      *)
(* image is bound to one worker at most once, the binding never changes    *)
(* hands, and once it has ended it never comes back.  When a session ends  *)
(* (TTL, worker removed, orphan found) is not said here.                   *)
(***************************************************************************)
CONSTANTS Image, Worker, NoWorker

VARIABLES
    bound,      \* image -> its worker, or NoWorker
    ended       \* the images whose session is over

vars == <<bound, ended>>

Init ==
    /\ bound = [i \in Image |-> NoWorker]
    /\ ended = {}

Bind(i, w) ==
    /\ bound[i] = NoWorker
    /\ i \notin ended
    /\ bound' = [bound EXCEPT ![i] = w]
    /\ UNCHANGED ended

\* One call may end several sessions (sweep, DropByWorker).
End(S) ==
    /\ \A i \in S : bound[i] # NoWorker
    /\ bound' = [i \in Image |-> IF i \in S THEN NoWorker ELSE bound[i]]
    /\ ended' = ended \union S

Next ==
    \/ \E i \in Image, w \in Worker : Bind(i, w)
    \/ \E S \in SUBSET Image : End(S)

Spec == Init /\ [][Next]_vars
=============================================================================
