------------------------------ MODULE HealthPoll ------------------------------
(***************************************************************************)
(* The connection badge of the page: useHealthCheck polls GET /api/health  *)
(* every interval, GatewayHealth answers it from the workers' flags.       *)
(*                                                                         *)
(* A poll that takes longer than the interval overlaps the next one, and   *)
(* their answers are applied in any order.  GatewayHealth reads the flag   *)
(* of every worker twice, to count and to list, while the health checker   *)
(* flips flags.  The poll has no time-out of its own; a fetch that does    *)
(* not reach the gateway, or whose answer is lost, fails in the end.       *)
(***************************************************************************)
EXTENDS Naturals, FiniteSets

CONSTANTS
    NWorkers,
    Poll        \* bound: polls under way at the same time

ASSUME PollAssumption == NWorkers \in Nat \ {0}

Worker == 1 .. NWorkers

VARIABLES
    healthy,    \* the workers whose flag is set
    reachable,  \* the browser reaches the gateway (its process and the network)
    mounted,    \* the page is shown; the effect's variable of that name
    connected,  \* what the badge shows
    poll        \* poll -> [at, next, count, listed, steady, ever]

vars == <<healthy, reachable, mounted, connected, poll>>

(* count and listed are GatewayHealth's variables, next the worker of its     *)
(* loop.  steady and ever are history: the workers whose flag was set all the *)
(* time, and at some time, since GatewayHealth began.                         *)
At(place) == [at |-> place, next |-> 1, count |-> 0, listed |-> {}, steady |-> {}, ever |-> {}]
Scanning(p) == poll[p].at \in {"count", "list"}

Init ==
    /\ healthy \in SUBSET Worker
    /\ reachable \in BOOLEAN
    /\ mounted = TRUE
    /\ connected = FALSE
    /\ poll = [p \in Poll |-> At("free")]

-----------------------------------------------------------------------------
(* The world around. *)

\* The health checker takes a worker out or in.
Flip(w) ==
    /\ healthy' = IF w \in healthy THEN healthy \ {w} ELSE healthy \union {w}
    /\ poll' = [p \in Poll |->
                   IF Scanning(p) THEN [poll[p] EXCEPT !.steady = @ \intersect healthy',
                                                       !.ever = @ \union healthy']
                                  ELSE poll[p]]
    /\ UNCHANGED <<reachable, mounted, connected>>

\* Fetches stop getting through, or do again: gateway, network or browser.  One
\* that fails alone is a change for a moment.
LinkChanges ==
    /\ reachable' = ~reachable
    /\ UNCHANGED <<healthy, mounted, connected, poll>>

-----------------------------------------------------------------------------
(* GatewayHealth. *)

Begin(p) ==
    /\ reachable
    /\ poll[p].at = "asked"
    /\ poll' = [poll EXCEPT ![p] = [At("count") EXCEPT !.steady = healthy, !.ever = healthy]]
    /\ UNCHANGED <<healthy, reachable, mounted, connected>>

\* Mutant: only the workers after the last unhealthy one are counted.
CountLast(p) ==
    /\ poll[p].at = "count"
    /\ poll[p].next \in Worker
    /\ poll' = [poll EXCEPT ![p].at = "list",
                            ![p].count = IF poll[p].next \in healthy THEN @ + 1 ELSE 0]
    /\ UNCHANGED <<healthy, reachable, mounted, connected>>

\* if wk.Healthy() { healthyCount++ }
Count(p) ==
    /\ poll[p].at = "count"
    /\ poll[p].next \in Worker
    /\ poll' = [poll EXCEPT ![p].at = "list",
                            ![p].count = IF poll[p].next \in healthy THEN @ + 1 ELSE @]
    /\ UNCHANGED <<healthy, reachable, mounted, connected>>

\* Healthy: wk.Healthy() of the same worker, in the list.
List(p) ==
    /\ poll[p].at = "list"
    /\ poll' = [poll EXCEPT ![p].at = "count",
                            ![p].next = @ + 1,
                            ![p].listed = @ \union ({poll[p].next} \intersect healthy)]
    /\ UNCHANGED <<healthy, reachable, mounted, connected>>

\* All workers were read.
Scanned(p) == poll[p].at = "count" /\ poll[p].next \notin Worker

\* Mutant: 503 as soon as one worker is out.
SummaryOfAll(p) ==
    /\ Scanned(p)
    /\ poll' = [poll EXCEPT ![p] = At(IF poll[p].count < NWorkers THEN "unavailable" ELSE "ok")]
    /\ UNCHANGED <<healthy, reachable, mounted, connected>>

\* 503 when none was counted, else 200.
Summary(p) ==
    /\ Scanned(p)
    /\ poll' = [poll EXCEPT ![p] = At(IF poll[p].count = 0 THEN "unavailable" ELSE "ok")]
    /\ UNCHANGED <<healthy, reachable, mounted, connected>>

-----------------------------------------------------------------------------
(* useHealthCheck. *)

\* check(): on mount, and when the interval is over, whether or not the polls
\* before were answered.
Check(p) ==
    /\ mounted
    /\ poll[p].at = "free"
    /\ poll' = [poll EXCEPT ![p] = At("asked")]
    /\ UNCHANGED <<healthy, reachable, mounted, connected>>

\* The promise of checkHealth settles; .then or .catch.
Settle(p, success) ==
    /\ poll' = [poll EXCEPT ![p] = At("free")]
    /\ connected' = IF mounted THEN success ELSE connected
    /\ UNCHANGED <<healthy, reachable, mounted>>

\* handleResponse: res.ok, or it throws.
Answered(p) ==
    /\ reachable
    /\ poll[p].at \in {"ok", "unavailable"}
    /\ Settle(p, poll[p].at = "ok")

\* Mutant: a poll that fails leaves the badge as it is.
LostSilently(p) ==
    /\ ~reachable
    /\ poll[p].at # "free"
    /\ Settle(p, connected)

\* fetch rejects, or the body breaks off.
Lost(p) ==
    /\ ~reachable
    /\ poll[p].at # "free"
    /\ Settle(p, FALSE)

\* The effect's clean-up: clearInterval; what is under way still settles.
Unmount ==
    /\ mounted
    /\ mounted' = FALSE
    /\ UNCHANGED <<healthy, reachable, connected, poll>>

PollStep(p) ==
    \/ Begin(p)
    \/ Count(p)
    \/ List(p)
    \/ Summary(p)
    \/ Check(p)
    \/ Answered(p)
    \/ Lost(p)

Next ==
    \/ \E p \in Poll : PollStep(p)
    \/ \E w \in Worker : Flip(w)
    \/ LinkChanges
    \/ Unmount

Spec == Init /\ [][Next]_vars

\* The timer keeps firing, the gateway serves what reaches it, and a fetch
\* settles in the end.
FairSpec == Spec /\ \A p \in Poll : WF_vars(PollStep(p))

-----------------------------------------------------------------------------
(* Properties. *)

\* What GatewayHealth says is true of some moments of its scan, although the
\* flags are read one by one and twice: a worker that stayed healthy is
\* counted and listed, one that never was is neither.  So it answers 503 only
\* when no worker stayed healthy, and 200 only when some worker was.
SummaryJustified ==
    \A p \in Poll : Scanned(p) =>
        /\ poll[p].steady \subseteq poll[p].listed
        /\ poll[p].listed \subseteq poll[p].ever
        /\ Cardinality(poll[p].steady) <= poll[p].count
        /\ poll[p].count <= Cardinality(poll[p].ever)

\* Once one worker stays healthy and the gateway reachable, the badge turns
\* green and stays so: polls that were answered late, or on other flags, do
\* not leave it wrong.
BadgeTurnsGreen ==
    \A w \in Worker : []mounted /\ <>[](reachable /\ w \in healthy) => <>[]connected

\* Once the gateway cannot be reached, or has no healthy worker, it turns red
\* and stays so.
BadgeTurnsRed ==
    []mounted /\ (<>[]~reachable \/ <>[](healthy = {})) => <>[]~connected

-----------------------------------------------------------------------------
(* The inductive invariant of HealthPoll_proofs. *)

Scan == [at : {"free", "asked", "count", "list", "ok", "unavailable"}, next : Nat, count : Nat,
         listed : SUBSET Worker, steady : SUBSET Worker, ever : SUBSET Worker]

TypeOK ==
    /\ healthy \subseteq Worker
    /\ reachable \in BOOLEAN
    /\ mounted \in BOOLEAN
    /\ connected \in BOOLEAN
    /\ poll \in [Poll -> Scan]

Upto(S, k) == Cardinality(S \intersect (1 .. k))

\* The worker of the loop was counted already when its list entry is next.
Counted(s) == IF s.at = "list" THEN s.next ELSE s.next - 1

\* What SummaryJustified says, of the workers the loop has passed.
ScanInv(s) ==
    /\ s.next \in 1 .. NWorkers + 1
    /\ s.at = "list" => s.next \in Worker
    /\ s.steady \subseteq healthy
    /\ healthy \subseteq s.ever
    /\ s.steady \intersect (1 .. s.next - 1) \subseteq s.listed
    /\ s.listed \subseteq s.ever
    /\ Upto(s.steady, Counted(s)) <= s.count
    /\ s.count <= Upto(s.ever, Counted(s))

IInv == TypeOK /\ \A p \in Poll : Scanning(p) => ScanInv(poll[p])
=============================================================================
