---------------------------- MODULE MCWorkerPool ----------------------------
(* Instances of WorkerPool for TLC. *)
EXTENDS WorkerPool, TLC

CONSTANTS r1, r2, r3

MCTwo == {r1, r2}
MCThree == {r1, r2, r3}
\* Two workers of one consumer and one slot each.
MCOneEach == [w \in 1..NWorkers |-> 1]
\* The first worker has two consumers, the others one.
MCTwoOne == [w \in 1..NWorkers |-> IF w = 1 THEN 2 ELSE 1]

\* Requests are interchangeable in the safety properties.
MCSymmetry == Permutations(Request)
=============================================================================
