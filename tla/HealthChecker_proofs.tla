------------------------ MODULE HealthChecker_proofs -------------------------
(***************************************************************************)
(* Proofs about HealthChecker, for any set of workers and any thresholds.  *)
(***************************************************************************)
EXTENDS HealthChecker, TLAPS

\* What Count returns: it never passes top and grows until it is there.
LEMMA CountFacts ==
  ASSUME NEW top \in Nat, NEW n \in 0 .. top
  PROVE  /\ Count(n, top) \in 0 .. top
         /\ Count(n, top) = IF n < top THEN n + 1 ELSE top
BY DEF Count

\* The history covers every threshold.
LEMMA CapFacts == /\ UnhealthyThreshold \in Nat /\ UnhealthyThreshold >= 1
                  /\ HealthyThreshold \in Nat /\ HealthyThreshold >= 1
                  /\ Cap \in Nat /\ UnhealthyThreshold <= Cap /\ HealthyThreshold <= Cap
BY ThresholdsAssumption DEF Cap

Runs == [result : {"none", "passed", "failed"}, length : 0 .. Cap]

\* One more result: the run has this result, it is a run of at least one, and
\* it grew by one if the results before were equal to it.
LEMMA ExtendFacts ==
  \A r \in Runs : \A result \in {"passed", "failed"} :
     /\ Extend(r, result) \in Runs
     /\ Extend(r, result).result = result
     /\ Extend(r, result).length >= 1
     /\ r.result = result =>
          Extend(r, result).length = IF r.length < Cap THEN r.length + 1 ELSE Cap
<1> SUFFICES ASSUME NEW r \in Runs, NEW result \in {"passed", "failed"}
             PROVE  /\ Extend(r, result) \in Runs
                    /\ Extend(r, result).result = result
                    /\ Extend(r, result).length >= 1
                    /\ r.result = result =>
                         Extend(r, result).length = IF r.length < Cap THEN r.length + 1 ELSE Cap
  BY Zenon
<1> USE DEF Runs
<1>1. r.length \in 0 .. Cap /\ Cap \in Nat /\ Cap >= 1
  BY CapFacts
<1>2. Count(r.length, Cap) \in 0 .. Cap /\ Count(r.length, Cap) >= 1
  BY <1>1, CountFacts
<1> DEFINE n == IF r.result = result THEN Count(r.length, Cap) ELSE 1
<1>3. n \in 0 .. Cap /\ n >= 1
  BY <1>1, <1>2
<1>4. Extend(r, result) = [result |-> result, length |-> n]
  BY DEF Extend
<1>5. r.result = result => n = IF r.length < Cap THEN r.length + 1 ELSE Cap
  BY <1>1, CountFacts
<1> HIDE DEF n
<1> QED
  BY <1>3, <1>4, <1>5

-----------------------------------------------------------------------------
\* Nothing was probed yet and no worker is healthy.
LEMMA InitIInv == Init => IInv
<1> SUFFICES ASSUME Init PROVE IInv
  OBVIOUS
<1>1. [result |-> "none", length |-> 0] \in [result : {"none", "passed", "failed"}, length : 0 .. Cap]
  BY CapFacts
<1>2. TypeOK
  <2>1. backend \in [Worker -> {"ready", "busy", "dead"}]
    BY DEF Init
  <2>2. failures \in [Worker -> 0 .. UnhealthyThreshold] /\ passes \in [Worker -> 0 .. HealthyThreshold]
    BY CapFacts DEF Init
  <2>3. run \in [Worker -> [result : {"none", "passed", "failed"}, length : 0 .. Cap]]
    BY <1>1 DEF Init
  <2> QED
    BY <2>1, <2>2, <2>3 DEF Init, TypeOK
<1>3. ASSUME NEW w \in Worker PROVE Backed(w)
  <2>1. probe[w] = "idle" /\ failures[w] = 0 /\ passes[w] = 0
    BY DEF Init
  <2> QED
    BY <2>1 DEF Backed
<1> QED
  BY <1>2, <1>3 DEF IInv

\* Every step keeps the types and the backing of the counters.
LEMMA NextIInv == IInv /\ [Next]_vars => IInv'
<1> SUFFICES ASSUME IInv, [Next]_vars PROVE IInv'
  OBVIOUS
<1>0. TypeOK /\ \A v \in Worker : Backed(v)
  BY DEF IInv
<1> USE CapFacts
<1>1. ASSUME NEW w \in Worker, NEW result \in {"passed", "failed"}, Answer(w, result)
      PROVE  IInv'
  <2> DEFINE r == Extend(run[w], result)
  <2>1. run[w] \in Runs
    BY <1>0 DEF TypeOK, Runs
  <2>2. /\ r \in Runs
        /\ r.result = result
        /\ r.length >= 1
        /\ run[w].result = result =>
              r.length = IF run[w].length < Cap THEN run[w].length + 1 ELSE Cap
    BY <2>1, ExtendFacts, Zenon
  <2>3. probe' = [probe EXCEPT ![w] = result] /\ run' = [run EXCEPT ![w] = r]
    BY <1>1 DEF Answer
  <2>4. /\ backend' = backend /\ healthy' = healthy /\ failures' = failures
        /\ passes' = passes /\ stopping' = stopping /\ probe[w] = "sent"
    BY <1>1 DEF Answer
  <2> HIDE DEF r
  <2>5. TypeOK'
    BY <1>0, <2>2, <2>3, <2>4 DEF TypeOK, Runs
  <2>6. ASSUME NEW v \in Worker PROVE Backed(v)'
    <3>1. CASE v # w
      <4>1. probe'[v] = probe[v] /\ run'[v] = run[v]
        BY <1>0, <2>3, <3>1 DEF TypeOK
      <4> QED
        BY <1>0, <2>4, <4>1 DEF Backed, RunOf
    <3>2. CASE v = w
      <4>1. probe'[w] = result /\ run'[w] = r
        BY <1>0, <2>3 DEF TypeOK
      <4>2. failures[w] \in 0 .. UnhealthyThreshold /\ passes[w] \in 0 .. HealthyThreshold
        BY <1>0 DEF TypeOK
      <4>3. /\ failures[w] > 0 => run[w].result = "failed" /\ run[w].length >= failures[w]
            /\ passes[w] > 0 => run[w].result = "passed" /\ run[w].length >= passes[w]
        BY <1>0, <2>4 DEF Backed, RunOf
      <4>4. run[w].length \in 0 .. Cap
        BY <2>1 DEF Runs
      <4>5. CASE result = "failed"
        <5>1. Count(failures[w], UnhealthyThreshold) =
                IF failures[w] < UnhealthyThreshold THEN failures[w] + 1 ELSE UnhealthyThreshold
          BY <4>2, CountFacts
        <5>2. r.length >= Count(failures[w], UnhealthyThreshold)
          BY <2>2, <4>2, <4>3, <4>4, <4>5, <5>1 DEF Runs
        <5> QED
          BY <2>2, <2>4, <3>2, <4>1, <4>5, <5>2 DEF Runs, Backed, RunOf
      <4>6. CASE result = "passed"
        <5>1. Count(passes[w], HealthyThreshold) =
                IF passes[w] < HealthyThreshold THEN passes[w] + 1 ELSE HealthyThreshold
          BY <4>2, CountFacts
        <5>2. r.length >= Count(passes[w], HealthyThreshold)
          BY <2>2, <4>2, <4>3, <4>4, <4>6, <5>1 DEF Runs
        <5> QED
          BY <2>2, <2>4, <3>2, <4>1, <4>6, <5>2 DEF Runs, Backed, RunOf
      <4> QED
        BY <4>5, <4>6
    <3> QED
      BY <3>1, <3>2
  <2> QED
    BY <2>5, <2>6 DEF IInv
<1>2. ASSUME NEW w \in Worker, RecordSuccess(w) PROVE IInv'
  <2>1. Count(passes[w], HealthyThreshold) \in 0 .. HealthyThreshold
    BY <1>0, CountFacts DEF TypeOK
  <2>2. TypeOK'
    BY <1>0, <1>2, <2>1 DEF RecordSuccess, TypeOK
  <2>3. ASSUME NEW v \in Worker PROVE Backed(v)'
    <3>1. CASE v = w
      BY <1>0, <1>2, <3>1 DEF RecordSuccess, TypeOK, Backed, RunOf
    <3>2. CASE v # w
      BY <1>0, <1>2, <3>2 DEF RecordSuccess, TypeOK, Backed, RunOf
    <3> QED
      BY <3>1, <3>2
  <2> QED
    BY <2>2, <2>3 DEF IInv
<1>3. ASSUME NEW w \in Worker, RecordFailure(w) PROVE IInv'
  <2>1. Count(failures[w], UnhealthyThreshold) \in 0 .. UnhealthyThreshold
    BY <1>0, CountFacts DEF TypeOK
  <2>2. TypeOK'
    <3>1. CASE healthy[w] /\ failures'[w] >= UnhealthyThreshold
      <4>1. /\ failures' = [failures EXCEPT ![w] = Count(failures[w], UnhealthyThreshold)]
            /\ passes' = [passes EXCEPT ![w] = 0]
            /\ healthy' = [healthy EXCEPT ![w] = FALSE]
            /\ probe' = [probe EXCEPT ![w] = "down"]
            /\ backend' = backend /\ stopping' = stopping /\ run' = run
        BY <1>3, <3>1 DEF RecordFailure
      <4> QED
        BY <1>0, <2>1, <4>1 DEF TypeOK
    <3>2. CASE ~(healthy[w] /\ failures'[w] >= UnhealthyThreshold)
      BY <1>0, <1>3, <2>1, <3>2 DEF RecordFailure, TypeOK
    <3> QED
      BY <3>1, <3>2
  <2>3. ASSUME NEW v \in Worker PROVE Backed(v)'
    <3>1. CASE v = w
      BY <1>0, <1>3, <3>1 DEF RecordFailure, TypeOK, Backed, RunOf
    <3>2. CASE v # w
      BY <1>0, <1>3, <3>2 DEF RecordFailure, TypeOK, Backed, RunOf
    <3> QED
      BY <3>1, <3>2
  <2> QED
    BY <2>2, <2>3 DEF IInv
<1>4. ASSUME NEW w \in Worker, OnWorkerDown(w) PROVE IInv'
  BY <1>0, <1>4 DEF OnWorkerDown, IInv, TypeOK, Backed, RunOf
<1>5. ASSUME NEW w \in Worker, NEW s \in {"ready", "busy", "dead"}, BackendChanges(w, s)
      PROVE  IInv'
  BY <1>0, <1>5 DEF BackendChanges, IInv, TypeOK, Backed, RunOf
<1>6. ASSUME StartRound PROVE IInv'
  BY <1>0, <1>6 DEF StartRound, IInv, TypeOK, Backed, RunOf
<1>7. ASSUME Cancel PROVE IInv'
  BY <1>0, <1>7 DEF Cancel, IInv, TypeOK, Backed, RunOf
<1>8. ASSUME Return PROVE IInv'
  BY <1>0, <1>8 DEF Return, IInv, TypeOK, Backed, RunOf
<1>9. ASSUME UNCHANGED vars PROVE IInv'
  BY <1>0, <1>9 DEF vars, IInv, TypeOK, Backed, RunOf
<1> QED
  BY <1>1, <1>2, <1>3, <1>4, <1>5, <1>6, <1>7, <1>8, <1>9 DEF Next, ProbeStep

\* The invariant holds in every reachable state.
THEOREM Invariance == Spec => []IInv
BY InitIInv, NextIInv, PTL DEF Spec

\* Type correctness: for any thresholds, the counters stay below them.
THEOREM TypeCorrect == Spec => []TypeOK
<1>1. IInv => TypeOK
  BY DEF IInv
<1> QED
  BY <1>1, Invariance, PTL

-----------------------------------------------------------------------------
\* For any thresholds: a worker leaves only after UnhealthyThreshold failed
\* probes in a row, and returns only after HealthyThreshold passed ones.
THEOREM ThresholdsAreRespected == Spec => ThresholdsRespected
<1> DEFINE Ok == \A w \in Worker :
                    /\ healthy[w] /\ ~healthy'[w] => RunOf(w, "failed", UnhealthyThreshold)
                    /\ ~healthy[w] /\ healthy'[w] => RunOf(w, "passed", HealthyThreshold)
<1>1. IInv /\ [Next]_vars => Ok \/ UNCHANGED vars
  <2> SUFFICES ASSUME IInv, Next PROVE Ok
    OBVIOUS
  <2>0. TypeOK /\ \A v \in Worker : Backed(v)
    BY DEF IInv
  <2>1. ASSUME NEW w \in Worker, RecordFailure(w) PROVE Ok
    <3>1. Count(failures[w], UnhealthyThreshold) >= UnhealthyThreshold
            => Count(failures[w], UnhealthyThreshold) = UnhealthyThreshold
      BY <2>0, CapFacts, CountFacts DEF TypeOK
    <3>2. RunOf(w, "failed", Count(failures[w], UnhealthyThreshold))
      BY <2>0, <2>1 DEF RecordFailure, Backed
    <3>3. healthy[w] /\ ~healthy'[w] => Count(failures[w], UnhealthyThreshold) >= UnhealthyThreshold
      BY <2>0, <2>1 DEF RecordFailure, TypeOK
    <3>4. \A v \in Worker : healthy'[v] => healthy[v]
      BY <2>0, <2>1 DEF RecordFailure, TypeOK
    <3>5. \A v \in Worker : v # w => healthy'[v] = healthy[v]
      BY <2>0, <2>1 DEF RecordFailure, TypeOK
    <3> QED
      BY <3>1, <3>2, <3>3, <3>4, <3>5
  <2>2. ASSUME NEW w \in Worker, RecordSuccess(w) PROVE Ok
    <3>1. Count(passes[w], HealthyThreshold) >= HealthyThreshold
            => Count(passes[w], HealthyThreshold) = HealthyThreshold
      BY <2>0, CapFacts, CountFacts DEF TypeOK
    <3>2. RunOf(w, "passed", Count(passes[w], HealthyThreshold))
      BY <2>0, <2>2 DEF RecordSuccess, Backed
    <3>3. ~healthy[w] /\ healthy'[w] => Count(passes[w], HealthyThreshold) >= HealthyThreshold
      BY <2>0, <2>2 DEF RecordSuccess, TypeOK
    <3>4. \A v \in Worker : healthy[v] => healthy'[v]
      BY <2>0, <2>2 DEF RecordSuccess, TypeOK
    <3>5. \A v \in Worker : v # w => healthy'[v] = healthy[v]
      BY <2>0, <2>2 DEF RecordSuccess, TypeOK
    <3> QED
      BY <3>1, <3>2, <3>3, <3>4, <3>5
  <2>3. CASE UNCHANGED healthy
    BY <2>3
  <2> QED
    BY <2>1, <2>2, <2>3
    DEF Next, ProbeStep, Answer, OnWorkerDown, BackendChanges, StartRound, Cancel, Return
<1> QED
  BY <1>1, Invariance, PTL DEF Spec, ThresholdsRespected

-----------------------------------------------------------------------------
(* No transition is missed. *)

\* A result that differs from the ones before starts a run of one.
LEMMA NewRun ==
  ASSUME NEW r \in Runs, NEW result \in {"passed", "failed"}, r.result # result
  PROVE  Extend(r, result).length = 1
BY DEF Extend

\* What is added to a run and to its counter stays in step, up to any
\* threshold the history covers.
LEMMA CountFollows ==
  ASSUME NEW top \in 1 .. Cap, NEW length \in 0 .. Cap
  PROVE  /\ Count(AtMost(length, top), top) =
              AtMost(IF length < Cap THEN length + 1 ELSE Cap, top)
         /\ Count(0, top) = AtMost(1, top)
BY CapFacts DEF Count, AtMost

\* Counters count every result, and the flag follows them.
LEMMA InitCountInv == Init => CountInv
<1> SUFFICES ASSUME Init, NEW w \in Worker PROVE Counted(w)
  BY DEF CountInv
<1>1. /\ probe[w] = "idle" /\ run[w].result = "none"
      /\ failures[w] = 0 /\ passes[w] = 0
  BY DEF Init
<1> QED
  BY <1>1, CapFacts DEF Counted

LEMMA AnswerCounted ==
  ASSUME IInv, CountInv, NEW w \in Worker, NEW result \in {"passed", "failed"},
         Answer(w, result)
  PROVE  CountInv'
<1>0. TypeOK /\ Backed(w) /\ Counted(w)
  BY DEF IInv, CountInv
<1> DEFINE r == Extend(run[w], result)
<1>1. /\ probe[w] = "sent"
      /\ probe' = [probe EXCEPT ![w] = result] /\ run' = [run EXCEPT ![w] = r]
      /\ UNCHANGED <<failures, passes, healthy>>
  BY DEF Answer
<1>2. run[w] \in Runs
  BY <1>0 DEF TypeOK, Runs
<1>3. /\ r.result = result
      /\ run[w].result = result =>
           r.length = IF run[w].length < Cap THEN run[w].length + 1 ELSE Cap
      /\ run[w].result # result => r.length = 1
  BY <1>2, ExtendFacts, NewRun, Zenon
<1> HIDE DEF r
<1>4. run[w].length \in 0 .. Cap
  BY <1>2 DEF Runs
<1>5. UnhealthyThreshold \in 1 .. Cap /\ HealthyThreshold \in 1 .. Cap
  BY CapFacts
<1>6. ASSUME NEW v \in Worker, v # w PROVE Counted(v)'
  <2>1. probe'[v] = probe[v] /\ run'[v] = run[v] /\ Counted(v)
    BY <1>0, <1>1, <1>6 DEF TypeOK, CountInv
  <2> QED
    BY <1>1, <2>1 DEF Counted
<1>7. Counted(w)'
  <2>1. probe'[w] = result /\ run'[w] = r
    BY <1>0, <1>1 DEF TypeOK
  <2>2. failures[w] \in Nat /\ passes[w] \in Nat
    BY <1>0, CapFacts DEF TypeOK
  <2>3. ASSUME result = "failed"
        PROVE  Count(failures[w], UnhealthyThreshold) = AtMost(r.length, UnhealthyThreshold)
    <3>1. CASE run[w].result = "failed"
      <4>1. failures[w] = AtMost(run[w].length, UnhealthyThreshold)
        BY <1>0, <1>1, <3>1 DEF Counted
      <4> QED
        BY <1>3, <1>4, <1>5, <2>3, <3>1, <4>1, CountFollows
    <3>2. CASE run[w].result # "failed"
      <4>1. failures[w] = 0
        BY <1>0, <1>1, <2>2, <3>2 DEF Backed, RunOf
      <4> QED
        BY <1>3, <1>4, <1>5, <2>3, <3>2, <4>1, CountFollows
    <3> QED
      BY <3>1, <3>2
  <2>4. ASSUME result = "passed"
        PROVE  Count(passes[w], HealthyThreshold) = AtMost(r.length, HealthyThreshold)
    <3>1. CASE run[w].result = "passed"
      <4>1. passes[w] = AtMost(run[w].length, HealthyThreshold)
        BY <1>0, <1>1, <3>1 DEF Counted
      <4> QED
        BY <1>3, <1>4, <1>5, <2>4, <3>1, <4>1, CountFollows
    <3>2. CASE run[w].result # "passed"
      <4>1. passes[w] = 0
        BY <1>0, <1>1, <2>2, <3>2 DEF Backed, RunOf
      <4> QED
        BY <1>3, <1>4, <1>5, <2>4, <3>2, <4>1, CountFollows
    <3> QED
      BY <3>1, <3>2
  <2> QED
    BY <1>0, <1>1, <2>1, <2>3, <2>4 DEF Counted
<1> QED
  BY <1>6, <1>7 DEF CountInv

LEMMA RecordCounted ==
  ASSUME IInv, CountInv, NEW w \in Worker, RecordSuccess(w) \/ RecordFailure(w)
  PROVE  CountInv'
<1>0. TypeOK /\ Backed(w) /\ Counted(w)
  BY DEF IInv, CountInv
<1>1. failures[w] \in 0 .. UnhealthyThreshold /\ passes[w] \in 0 .. HealthyThreshold
  BY <1>0 DEF TypeOK
<1>2. ASSUME NEW v \in Worker, v # w PROVE Counted(v)'
  <2>1. /\ probe'[v] = probe[v] /\ failures'[v] = failures[v] /\ passes'[v] = passes[v]
        /\ healthy'[v] = healthy[v] /\ run'[v] = run[v]
    BY <1>0, <1>2 DEF TypeOK, RecordSuccess, RecordFailure
  <2>2. Counted(v)
    BY DEF CountInv
  <2> QED
    BY <2>1, <2>2 DEF Counted
<1>3. CASE RecordSuccess(w)
  <2>1. /\ run[w].result = "passed" /\ run' = run
        /\ Count(passes[w], HealthyThreshold) = AtMost(run[w].length, HealthyThreshold)
    BY <1>0, <1>3 DEF RecordSuccess, Backed, RunOf, Counted
  <2>2. /\ failures'[w] = 0 /\ passes'[w] = Count(passes[w], HealthyThreshold)
        /\ probe'[w] = "idle"
    BY <1>0, <1>3 DEF RecordSuccess, TypeOK
  <2>3. passes'[w] = HealthyThreshold => healthy'[w]
    <3>1. healthy' = [healthy EXCEPT ![w] = healthy[w] \/ passes'[w] >= HealthyThreshold]
      BY <1>3 DEF RecordSuccess
    <3>2. healthy'[w] = (healthy[w] \/ passes'[w] >= HealthyThreshold)
      BY <1>0, <3>1 DEF TypeOK
    <3>3. passes'[w] = HealthyThreshold => passes'[w] >= HealthyThreshold
      BY CapFacts
    <3> QED
      BY <3>2, <3>3
  <2>4. Counted(w)'
    BY <2>1, <2>2, <2>3, CapFacts DEF Counted
  <2> QED
    BY <1>2, <2>4 DEF CountInv
<1>4. CASE RecordFailure(w)
  <2>1. /\ run[w].result = "failed" /\ run' = run
        /\ Count(failures[w], UnhealthyThreshold) = AtMost(run[w].length, UnhealthyThreshold)
    BY <1>0, <1>4 DEF RecordFailure, Backed, RunOf, Counted
  <2>2. /\ passes'[w] = 0 /\ failures'[w] = Count(failures[w], UnhealthyThreshold)
        /\ probe'[w] \in {"idle", "down"}
    BY <1>0, <1>4 DEF RecordFailure, TypeOK
  <2>3. failures'[w] = UnhealthyThreshold => ~healthy'[w]
    BY <1>0, <1>4, CapFacts DEF RecordFailure, TypeOK
  <2>4. Counted(w)'
    BY <2>1, <2>2, <2>3, CapFacts DEF Counted
  <2> QED
    BY <1>2, <2>4 DEF CountInv
<1> QED
  BY <1>3, <1>4

LEMMA NextCountInv == IInv /\ CountInv /\ [Next]_vars => CountInv'
<1> SUFFICES ASSUME IInv, CountInv, [Next]_vars PROVE CountInv'
  OBVIOUS
<1>0. TypeOK
  BY DEF IInv
<1>1. ASSUME NEW w \in Worker, NEW result \in {"passed", "failed"}, Answer(w, result)
      PROVE  CountInv'
  BY <1>1, AnswerCounted
<1>2. ASSUME NEW w \in Worker, RecordSuccess(w) \/ RecordFailure(w) PROVE CountInv'
  BY <1>2, RecordCounted
<1>3. ASSUME UNCHANGED <<failures, passes, healthy, run>>,
             \A w \in Worker : probe'[w] \in {"passed", "failed"} \/ probe[w] \in {"passed", "failed"}
                                 => probe'[w] = probe[w]
      PROVE  CountInv'
  BY <1>3 DEF CountInv, Counted
<1>4. ASSUME NEW w \in Worker, OnWorkerDown(w) PROVE CountInv'
  BY <1>0, <1>3, <1>4 DEF OnWorkerDown, TypeOK
<1>5. ASSUME StartRound PROVE CountInv'
  BY <1>0, <1>3, <1>5 DEF StartRound, TypeOK
<1>6. ASSUME NEW w \in Worker, NEW s \in {"ready", "busy", "dead"}, BackendChanges(w, s)
      PROVE  CountInv'
  BY <1>3, <1>6 DEF BackendChanges
<1>7. CASE Cancel \/ Return \/ UNCHANGED vars
  BY <1>3, <1>7 DEF Cancel, Return, vars
<1> QED
  BY <1>1, <1>2, <1>4, <1>5, <1>6, <1>7 DEF Next, ProbeStep

\* For any thresholds and any set of workers: a worker whose last
\* UnhealthyThreshold probes failed is out, one whose last HealthyThreshold
\* probes passed is in, as soon as the last of them is recorded.
THEOREM TransitionsAreMade == Spec => []FlagFollowsRuns
<1>1. IInv /\ CountInv /\ [Next]_vars => CountInv'
  BY NextCountInv
<1>2. Spec => []CountInv
  BY <1>1, InitCountInv, Invariance, PTL DEF Spec
<1>3. IInv /\ CountInv => FlagFollowsRuns
  <2> SUFFICES ASSUME IInv, CountInv, NEW w \in Worker, probe[w] \notin {"passed", "failed"}
               PROVE  /\ RunOf(w, "failed", UnhealthyThreshold) => ~healthy[w]
                      /\ RunOf(w, "passed", HealthyThreshold) => healthy[w]
    BY DEF FlagFollowsRuns
  <2>1. run[w].length \in 0 .. Cap /\ Counted(w)
    BY DEF IInv, TypeOK, CountInv
  <2> QED
    BY <2>1, CapFacts DEF Counted, RunOf, AtMost
<1> QED
  BY <1>2, <1>3, Invariance, PTL

-----------------------------------------------------------------------------
(* Refinement of Membership. *)

\* A step that changes nobody's health and no pending OnWorkerDown.
LEMMA QuietStep ==
  ASSUME UNCHANGED healthy,
         \A w \in Worker : probe'[w] = "down" <=> probe[w] = "down"
  PROVE  UNCHANGED Workers!vars
BY DEF Workers!vars

\* Every step is one of Membership's or a stutter.
LEMMA NextRefines == IInv /\ [Next]_vars => [Workers!Next]_(Workers!vars)
<1> SUFFICES ASSUME IInv, [Next]_vars PROVE Workers!Next \/ UNCHANGED Workers!vars
  OBVIOUS
<1>0. TypeOK /\ \A v \in Worker : Backed(v)
  BY DEF IInv
<1>1. ASSUME NEW w \in Worker, RecordFailure(w) PROVE Workers!Next \/ UNCHANGED Workers!vars
  <2>1. \A v \in Worker : v # w => probe'[v] = probe[v] /\ healthy'[v] = healthy[v]
    BY <1>0, <1>1 DEF RecordFailure, TypeOK
  <2>2. \/ healthy[w] /\ ~healthy'[w] /\ probe'[w] = "down"
        \/ healthy' = healthy /\ probe'[w] = "idle"
    BY <1>0, <1>1 DEF RecordFailure, TypeOK
  <2>3. probe[w] = "failed"
    BY <1>1 DEF RecordFailure
  <2>4. CASE healthy[w] /\ ~healthy'[w] /\ probe'[w] = "down"
    <3>1. {v \in Worker : healthy'[v]} = {v \in Worker : healthy[v]} \ {w}
      BY <2>1, <2>4
    <3>2. {v \in Worker : probe'[v] = "down"} = {v \in Worker : probe[v] = "down"} \union {w}
      BY <2>1, <2>4
    <3>3. Workers!MarkDown(w)
      BY <2>4, <3>1, <3>2 DEF Workers!MarkDown
    <3> QED
      BY <3>3 DEF Workers!Next
  <2>5. CASE healthy' = healthy /\ probe'[w] = "idle"
    BY <2>1, <2>3, <2>5, QuietStep
  <2> QED
    BY <2>2, <2>4, <2>5
<1>2. ASSUME NEW w \in Worker, RecordSuccess(w) PROVE Workers!Next \/ UNCHANGED Workers!vars
  <2>1. \A v \in Worker : v # w => probe'[v] = probe[v] /\ healthy'[v] = healthy[v]
    BY <1>0, <1>2 DEF RecordSuccess, TypeOK
  <2>2. probe[w] = "passed" /\ probe'[w] = "idle" /\ (healthy[w] => healthy'[w])
    BY <1>0, <1>2 DEF RecordSuccess, TypeOK
  <2>3. {v \in Worker : probe'[v] = "down"} = {v \in Worker : probe[v] = "down"}
    BY <2>1, <2>2
  <2>4. CASE ~healthy[w] /\ healthy'[w]
    <3>1. {v \in Worker : healthy'[v]} = {v \in Worker : healthy[v]} \union {w}
      BY <2>1, <2>4
    <3>2. Workers!MarkUp(w)
      BY <2>2, <2>3, <2>4, <3>1 DEF Workers!MarkUp
    <3> QED
      BY <3>2 DEF Workers!Next
  <2>5. CASE ~(~healthy[w] /\ healthy'[w])
    <3>1. {v \in Worker : healthy'[v]} = {v \in Worker : healthy[v]}
      BY <2>1, <2>2, <2>5
    <3> QED
      BY <2>3, <3>1 DEF Workers!vars
  <2> QED
    BY <2>4, <2>5
<1>3. ASSUME NEW w \in Worker, OnWorkerDown(w) PROVE Workers!Next
  <2>1. {v \in Worker : probe'[v] = "down"} = {v \in Worker : probe[v] = "down"} \ {w}
    BY <1>0, <1>3 DEF OnWorkerDown, TypeOK
  <2>2. Workers!Drop(w)
    BY <1>3, <2>1 DEF OnWorkerDown, Workers!Drop
  <2> QED
    BY <2>2 DEF Workers!Next
<1>4. ASSUME NEW w \in Worker, NEW result \in {"passed", "failed"}, Answer(w, result)
      PROVE  UNCHANGED Workers!vars
  BY <1>0, <1>4, QuietStep DEF Answer, TypeOK
<1>5. ASSUME StartRound PROVE UNCHANGED Workers!vars
  BY <1>5, QuietStep DEF StartRound
<1>6. ASSUME NEW w \in Worker, NEW s \in {"ready", "busy", "dead"}, BackendChanges(w, s)
      PROVE  UNCHANGED Workers!vars
  BY <1>6, QuietStep DEF BackendChanges
<1>7. ASSUME Cancel \/ Return \/ UNCHANGED vars PROVE UNCHANGED Workers!vars
  BY <1>7, QuietStep DEF Cancel, Return, vars
<1> QED
  BY <1>1, <1>2, <1>3, <1>4, <1>5, <1>6, <1>7 DEF Next, ProbeStep

\* The checker implements Membership, except for liveness: the sessions of a
\* worker are dropped after it left and before it returns.
THEOREM RefinesMembership == Spec => Workers!SafeSpec
<1>1. Init => Workers!Init
  BY DEF Init, Workers!Init
<1>2. IInv /\ [Next]_vars => [Workers!Next]_(Workers!vars)
  BY NextRefines
<1> QED
  BY <1>1, <1>2, Invariance, PTL DEF Spec, Workers!SafeSpec
=============================================================================
