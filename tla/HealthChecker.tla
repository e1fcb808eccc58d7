---------------------------- MODULE HealthChecker ----------------------------
(***************************************************************************)
(* gateway/internal/health/health.go: every tick probes all workers in     *)
(* parallel, waits for all probes, and moves a worker out of or into the   *)
(* healthy set after a run of equal results.                               *)
(*                                                                         *)
(* A back end answers /health when its event loop is free.  It is "busy"   *)
(* while a synchronous inference holds the loop (segment.py, upload.py)    *)
(* and "dead" while the process is down or still loads its model.          *)
(*                                                                         *)
(* failures and passes are compared with their thresholds only, so they    *)
(* stop counting there.                                                    *)
(***************************************************************************)
EXTENDS Naturals

CONSTANTS Worker, UnhealthyThreshold, HealthyThreshold

ASSUME ThresholdsAssumption ==
    /\ UnhealthyThreshold \in Nat \ {0}
    /\ HealthyThreshold \in Nat \ {0}

VARIABLES
    backend,    \* worker -> "ready", "busy" or "dead"
    healthy,    \* worker -> Worker.healthy
    failures,   \* worker -> c.failures, up to UnhealthyThreshold
    passes,     \* worker -> c.passes, up to HealthyThreshold
    probe,      \* worker -> where this round's probe goroutine is
    stopping,   \* "no", "asked" (the root context is cancelled), "done" (Run returned)
    run         \* worker -> its latest equal results (history)

vars == <<backend, healthy, failures, passes, probe, stopping, run>>

\* n + 1, or top when that is less.
Count(n, top) == IF n < top THEN n + 1 ELSE top

\* history: the run of equal results, as far as a threshold can ask for it.
Cap == UnhealthyThreshold + HealthyThreshold
Extend(r, result) ==
    [result |-> result, length |-> IF r.result = result THEN Count(r.length, Cap) ELSE 1]

Init ==
    /\ backend \in [Worker -> {"ready", "dead"}]
    /\ healthy = [w \in Worker |-> FALSE]
    /\ failures = [w \in Worker |-> 0]
    /\ passes = [w \in Worker |-> 0]
    /\ probe = [w \in Worker |-> "idle"]
    /\ stopping = "no"
    /\ run = [w \in Worker |-> [result |-> "none", length |-> 0]]

\* External: the back end's process and its event loop.
BackendChanges(w, s) ==
    /\ backend[w] # s
    /\ s = "busy" => backend[w] = "ready"
    /\ backend' = [backend EXCEPT ![w] = s]
    /\ UNCHANGED <<healthy, failures, passes, probe, stopping, run>>

\* checkAll: wg.Wait returned for the last round, Run took a tick.  Its select
\* is a free choice when a tick is there and the context is done as well.
StartRound ==
    /\ stopping # "done"
    /\ \A w \in Worker : probe[w] = "idle"
    /\ probe' = [w \in Worker |-> "sent"]
    /\ UNCHANGED <<backend, healthy, failures, passes, stopping, run>>

\* Mutant: no client timeout; a back end that accepts and hangs is waited for.
AnswerOrRefuse(w, result) ==
    /\ probe[w] = "sent"
    /\ IF result = "passed" THEN backend[w] = "ready" ELSE backend[w] = "dead" \/ stopping # "no"
    /\ probe' = [probe EXCEPT ![w] = result]
    /\ run' = [run EXCEPT ![w] = Extend(@, result)]
    /\ UNCHANGED <<backend, healthy, failures, passes, stopping>>

\* client.Do: 200, or an error, another status or the client's timeout.
Answer(w, result) ==
    /\ probe[w] = "sent"
    /\ IF result = "passed" THEN backend[w] = "ready" ELSE backend[w] # "ready" \/ stopping # "no"
    /\ probe' = [probe EXCEPT ![w] = result]
    /\ run' = [run EXCEPT ![w] = Extend(@, result)]
    /\ UNCHANGED <<backend, healthy, failures, passes, stopping>>

\* recordSuccess: counters, then SetHealthy(true).
RecordSuccess(w) ==
    /\ probe[w] = "passed"
    /\ failures' = [failures EXCEPT ![w] = 0]
    /\ passes' = [passes EXCEPT ![w] = Count(@, HealthyThreshold)]
    /\ healthy' = [healthy EXCEPT ![w] = @ \/ passes'[w] >= HealthyThreshold]
    /\ probe' = [probe EXCEPT ![w] = "idle"]
    /\ UNCHANGED <<backend, stopping, run>>

\* Mutant: the threshold is looked at before the failure is counted.
RecordFailureTooLate(w) ==
    /\ probe[w] = "failed"
    /\ failures' = [failures EXCEPT ![w] = Count(@, UnhealthyThreshold)]
    /\ passes' = [passes EXCEPT ![w] = 0]
    /\ IF healthy[w] /\ failures[w] >= UnhealthyThreshold
       THEN /\ healthy' = [healthy EXCEPT ![w] = FALSE]
            /\ probe' = [probe EXCEPT ![w] = "down"]
       ELSE /\ probe' = [probe EXCEPT ![w] = "idle"]
            /\ UNCHANGED healthy
    /\ UNCHANGED <<backend, stopping, run>>

\* Mutant: a failure does not end a run of passes.
RecordFailureKeepsPasses(w) ==
    /\ probe[w] = "failed"
    /\ failures' = [failures EXCEPT ![w] = Count(@, UnhealthyThreshold)]
    /\ UNCHANGED passes
    /\ IF healthy[w] /\ failures'[w] >= UnhealthyThreshold
       THEN /\ healthy' = [healthy EXCEPT ![w] = FALSE]
            /\ probe' = [probe EXCEPT ![w] = "down"]
       ELSE /\ probe' = [probe EXCEPT ![w] = "idle"]
            /\ UNCHANGED healthy
    /\ UNCHANGED <<backend, stopping, run>>

\* Mutant: the pool is not told that the worker left.
RecordFailureKeepsSessions(w) ==
    /\ probe[w] = "failed"
    /\ failures' = [failures EXCEPT ![w] = Count(@, UnhealthyThreshold)]
    /\ passes' = [passes EXCEPT ![w] = 0]
    /\ healthy' = [healthy EXCEPT ![w] = @ /\ failures'[w] < UnhealthyThreshold]
    /\ probe' = [probe EXCEPT ![w] = "idle"]
    /\ UNCHANGED <<backend, stopping, run>>

\* recordFailure: counters, then SetHealthy(false) with OnWorkerDown to come.
RecordFailure(w) ==
    /\ probe[w] = "failed"
    /\ failures' = [failures EXCEPT ![w] = Count(@, UnhealthyThreshold)]
    /\ passes' = [passes EXCEPT ![w] = 0]
    /\ IF healthy[w] /\ failures'[w] >= UnhealthyThreshold
       THEN /\ healthy' = [healthy EXCEPT ![w] = FALSE]
            /\ probe' = [probe EXCEPT ![w] = "down"]
       ELSE /\ probe' = [probe EXCEPT ![w] = "idle"]
            /\ UNCHANGED healthy
    /\ UNCHANGED <<backend, stopping, run>>

\* pool.OnWorkerDown(w): the sessions are dropped, the probe ends.
OnWorkerDown(w) ==
    /\ probe[w] = "down"
    /\ probe' = [probe EXCEPT ![w] = "idle"]
    /\ UNCHANGED <<backend, healthy, failures, passes, stopping, run>>

\* main's cancelRoot: probes in flight and later ones fail.
Cancel ==
    /\ stopping = "no"
    /\ stopping' = "asked"
    /\ UNCHANGED <<backend, healthy, failures, passes, probe, run>>

\* Run sees the context done between two rounds and returns.
Return ==
    /\ stopping = "asked"
    /\ \A w \in Worker : probe[w] = "idle"
    /\ stopping' = "done"
    /\ UNCHANGED <<backend, healthy, failures, passes, probe, run>>

ProbeStep(w) ==
    \/ \E result \in {"passed", "failed"} : Answer(w, result)
    \/ RecordSuccess(w)
    \/ RecordFailure(w)
    \/ OnWorkerDown(w)

Next ==
    \/ \E w \in Worker : ProbeStep(w)
    \/ \E w \in Worker, s \in {"ready", "busy", "dead"} : BackendChanges(w, s)
    \/ StartRound
    \/ Cancel
    \/ Return

Spec == Init /\ [][Next]_vars

\* Until the context is cancelled ticks keep coming, and every probe ends (the
\* client has a timeout).  Nothing is assumed of the back ends.
FairSpec ==
    /\ Spec
    /\ WF_vars(stopping = "no" /\ StartRound)
    /\ \A w \in Worker : WF_vars(ProbeStep(w))

-----------------------------------------------------------------------------
(* Properties. *)

\* Every variable has its type.
TypeOK ==
    /\ backend \in [Worker -> {"ready", "busy", "dead"}]
    /\ healthy \in [Worker -> BOOLEAN]
    /\ failures \in [Worker -> 0 .. UnhealthyThreshold]
    /\ passes \in [Worker -> 0 .. HealthyThreshold]
    /\ probe \in [Worker -> {"idle", "sent", "passed", "failed", "down"}]
    /\ stopping \in {"no", "asked", "done"}
    /\ run \in [Worker -> [result : {"none", "passed", "failed"}, length : 0 .. Cap]]

\* A worker leaves the healthy set only on UnhealthyThreshold failed probes in
\* a row and returns only on HealthyThreshold passed ones in a row, whatever
\* its state did between the probes.
RunOf(w, result, n) == run[w].result = result /\ run[w].length >= n
ThresholdsRespected ==
    [][\A w \in Worker :
          /\ healthy[w] /\ ~healthy'[w] => RunOf(w, "failed", UnhealthyThreshold)
          /\ ~healthy[w] /\ healthy'[w] => RunOf(w, "passed", HealthyThreshold)]_vars

\* ... and none of these transitions is missed: once the last result of such a
\* run is recorded, the flag says what the run says.
FlagFollowsRuns ==
    \A w \in Worker : probe[w] \notin {"passed", "failed"} =>
        /\ RunOf(w, "failed", UnhealthyThreshold) => ~healthy[w]
        /\ RunOf(w, "passed", HealthyThreshold) => healthy[w]

\* The healthy set, as the rest of the gateway sees it.
Workers == INSTANCE Membership WITH
    healthy <- {w \in Worker : healthy[w]},
    dropping <- {w \in Worker : probe[w] = "down"}

\* Refinement: the checker implements Membership; a worker's sessions are
\* dropped after it left and before it returns, in spite of parallel probes.
ImplementsMembership == Workers!Spec

\* A worker that stays down, or stays so busy that it never answers in time,
\* is taken out, whatever the other workers do to the rounds.
DeadIsRemoved ==
    \A w \in Worker :
        <>[](backend[w] # "ready" /\ stopping = "no") => <>[](~healthy[w])

\* A worker that stays ready is put (back) into the healthy set.
ReadyReturns ==
    \A w \in Worker :
        <>[](backend[w] = "ready" /\ stopping = "no") => <>[](healthy[w])

-----------------------------------------------------------------------------
(* The inductive invariants behind ThresholdsRespected and FlagFollowsRuns.  *)

\* Between probes the counters are backed by the results seen; while a result
\* waits to be recorded, the counter it is about to raise is.
Backed(w) ==
    /\ probe[w] \notin {"passed", "failed"} =>
          /\ failures[w] > 0 => RunOf(w, "failed", failures[w])
          /\ passes[w] > 0 => RunOf(w, "passed", passes[w])
    /\ probe[w] = "failed" => RunOf(w, "failed", Count(failures[w], UnhealthyThreshold))
    /\ probe[w] = "passed" => RunOf(w, "passed", Count(passes[w], HealthyThreshold))
    /\ probe[w] = "down" => ~healthy[w]

IInv == TypeOK /\ \A w \in Worker : Backed(w)

AtMost(n, top) == IF n < top THEN n ELSE top

\* ... and they count every result: between probes a counter is the length of
\* its run, as far as it counts; at its threshold the flag has followed.
Counted(w) ==
    /\ probe[w] \notin {"passed", "failed"} =>
          /\ run[w].result = "failed" => failures[w] = AtMost(run[w].length, UnhealthyThreshold)
          /\ run[w].result = "passed" => passes[w] = AtMost(run[w].length, HealthyThreshold)
    /\ probe[w] = "failed" =>
          Count(failures[w], UnhealthyThreshold) = AtMost(run[w].length, UnhealthyThreshold)
    /\ probe[w] = "passed" =>
          Count(passes[w], HealthyThreshold) = AtMost(run[w].length, HealthyThreshold)
    /\ failures[w] = UnhealthyThreshold => ~healthy[w]
    /\ passes[w] = HealthyThreshold => healthy[w]

CountInv == \A w \in Worker : Counted(w)
=============================================================================
