-------------------------- MODULE HealthPoll_proofs --------------------------
(***************************************************************************)
(* Proofs about HealthPoll, for any number of workers and of polls.        *)
(***************************************************************************)
EXTENDS HealthPoll, TLAPS, FiniteSetTheorems

-----------------------------------------------------------------------------
(* Counting the members of a set up to k.                                     *)

\* It is a number, and grows with the set.
LEMMA UptoMonotone ==
  ASSUME NEW S, NEW T, S \subseteq T, NEW k \in Int
  PROVE  /\ Upto(S, k) \in Nat
         /\ Upto(T, k) \in Nat
         /\ Upto(S, k) <= Upto(T, k)
<1>1. IsFiniteSet(1 .. k)
  BY FS_Interval
<1>2. /\ IsFiniteSet(S \intersect (1 .. k))
      /\ IsFiniteSet(T \intersect (1 .. k))
  BY <1>1, FS_Intersection
<1>3. S \intersect (1 .. k) \in SUBSET (T \intersect (1 .. k))
  OBVIOUS
<1>4. Cardinality(S \intersect (1 .. k)) <= Cardinality(T \intersect (1 .. k))
  BY <1>2, <1>3, FS_Subset
<1> QED
  BY <1>2, <1>4, FS_CardinalityType DEF Upto

\* The next member counts one.
LEMMA UptoNext ==
  ASSUME NEW S, NEW k \in Nat \ {0}
  PROVE  Upto(S, k) = IF k \in S THEN Upto(S, k - 1) + 1 ELSE Upto(S, k - 1)
<1> DEFINE below == S \intersect (1 .. k - 1)
<1>1. IsFiniteSet(1 .. k - 1)
  BY FS_Interval
<1>2. IsFiniteSet(below)
  BY <1>1, FS_Intersection
<1>3. k \notin below
  OBVIOUS
<1>4. CASE k \in S
  <2>1. S \intersect (1 .. k) = below \union {k}
    BY <1>4
  <2>2. Cardinality(below \union {k}) = Cardinality(below) + 1
    BY <1>2, <1>3, FS_AddElement
  <2> QED
    BY <1>4, <2>1, <2>2 DEF Upto
<1>5. CASE k \notin S
  <2>1. S \intersect (1 .. k) = below
    BY <1>5
  <2> QED
    BY <1>5, <2>1 DEF Upto
<1> QED
  BY <1>4, <1>5

\* No member is below the first worker.
LEMMA UptoZero == \A S : Upto(S, 0) = 0
<1> TAKE S
<1>1. S \intersect (1 .. 0) = {}
  OBVIOUS
<1> QED
  BY <1>1, FS_EmptySet DEF Upto

-----------------------------------------------------------------------------
(* The steps of one scan.                                                     *)

\* No poll is scanned at the start.
LEMMA InitIInv == Init => IInv
<1> SUFFICES ASSUME Init PROVE IInv
  OBVIOUS
<1>1. At("free") \in Scan /\ At("free").at = "free"
  BY DEF At, Scan
<1>2. \A p \in Poll : poll[p] = At("free")
  BY DEF Init
<1>3. TypeOK
  BY <1>1 DEF Init, TypeOK
<1>4. \A p \in Poll : ~Scanning(p)
  BY <1>1, <1>2 DEF Scanning
<1> QED
  BY <1>3, <1>4 DEF IInv

\* A step that gives one poll another record, in which it is not scanned or
\* ScanInv holds, keeps the invariant.
LEMMA OnePollKeeps ==
  ASSUME IInv, NEW p \in Poll, NEW s \in Scan,
         poll' = [poll EXCEPT ![p] = s],
         healthy' = healthy, reachable' \in BOOLEAN, mounted' \in BOOLEAN, connected' \in BOOLEAN,
         s.at \in {"count", "list"} => ScanInv(s)
  PROVE  IInv'
<1>1. TypeOK'
  BY DEF IInv, TypeOK
<1>2. \A q \in Poll : poll'[q] = IF q = p THEN s ELSE poll[q]
  BY DEF IInv, TypeOK
<1>3. \A q \in Poll : Scanning(q)' => ScanInv(poll'[q])
  BY <1>2 DEF Scanning, IInv
<1>4. \A q \in Poll : ScanInv(poll'[q]) => ScanInv(poll[q])'
  BY DEF ScanInv, Upto, Counted
<1> QED
  BY <1>1, <1>3, <1>4 DEF IInv

\* A record that does not scan.
LEMMA AtFacts ==
  \A place \in {"free", "asked", "ok", "unavailable"} :
     At(place) \in Scan /\ At(place).at = place
BY DEF At, Scan

\* GatewayHealth begins: nothing is counted.
LEMMA BeginStep == ASSUME IInv, NEW p \in Poll, Begin(p) PROVE IInv'
<1> DEFINE s == [At("count") EXCEPT !.steady = healthy, !.ever = healthy]
<1>1. /\ s \in Scan
      /\ s.at = "count" /\ s.next = 1 /\ s.count = 0 /\ s.listed = {}
      /\ s.steady = healthy /\ s.ever = healthy
  BY DEF At, Scan, IInv, TypeOK
<1>2. /\ poll' = [poll EXCEPT ![p] = s] /\ healthy' = healthy
      /\ reachable' \in BOOLEAN /\ mounted' \in BOOLEAN /\ connected' \in BOOLEAN
  BY DEF Begin, IInv, TypeOK
<1> HIDE DEF s
<1>3. ScanInv(s)
  <2>1. Counted(s) = 0
    BY <1>1 DEF Counted
  <2>2. 1 .. s.next - 1 = {}
    BY <1>1
  <2> QED
    BY <1>1, <2>1, <2>2, UptoZero, PollAssumption DEF ScanInv
<1> QED
  BY <1>1, <1>2, <1>3, OnePollKeeps

\* One worker is counted: if it stayed healthy it is, and if it is it was.
LEMMA CountStep == ASSUME IInv, NEW p \in Poll, Count(p) PROVE IInv'
<1> DEFINE old == poll[p]
           n == IF old.next \in healthy THEN old.count + 1 ELSE old.count
           s == [old EXCEPT !.at = "list", !.count = n]
<1>1. old \in Scan /\ old.at = "count" /\ old.next \in Worker /\ ScanInv(old)
  BY DEF Count, IInv, TypeOK, Scanning
<1>2. n \in Nat
  BY <1>1 DEF Scan
<1>3. /\ s \in Scan
      /\ s.at = "list" /\ s.next = old.next /\ s.count = n /\ s.listed = old.listed
      /\ s.steady = old.steady /\ s.ever = old.ever
  BY <1>1, <1>2 DEF Scan
<1>4. /\ poll' = [poll EXCEPT ![p] = s] /\ healthy' = healthy
      /\ reachable' \in BOOLEAN /\ mounted' \in BOOLEAN /\ connected' \in BOOLEAN
  BY DEF Count, IInv, TypeOK
<1>5. ScanInv(s)
  <2>1. Counted(s) = old.next /\ Counted(old) = old.next - 1
    BY <1>1, <1>3 DEF Counted
  <2>2. old.next \in Nat \ {0}
    BY <1>1, PollAssumption DEF Worker
  <2>3. /\ Upto(old.steady, old.next) = IF old.next \in old.steady THEN Upto(old.steady, old.next - 1) + 1
                                                                  ELSE Upto(old.steady, old.next - 1)
        /\ Upto(old.ever, old.next) = IF old.next \in old.ever THEN Upto(old.ever, old.next - 1) + 1
                                                               ELSE Upto(old.ever, old.next - 1)
    BY <2>2, UptoNext
  <2>4. Upto(old.steady, old.next - 1) \in Nat /\ Upto(old.ever, old.next - 1) \in Nat
    BY <2>2, UptoMonotone
  <2>5. Upto(old.steady, old.next - 1) <= old.count /\ old.count <= Upto(old.ever, old.next - 1)
    BY <1>1, <2>1 DEF ScanInv
  <2>6. old.count \in Nat /\ (old.next \in old.steady => old.next \in healthy)
                         /\ (old.next \in healthy => old.next \in old.ever)
    BY <1>1 DEF ScanInv, Scan
  <2>7. Upto(old.steady, old.next) <= n /\ n <= Upto(old.ever, old.next)
    BY <2>3, <2>4, <2>5, <2>6
  <2> HIDE DEF s, n, old
  <2> QED
    BY <1>1, <1>3, <2>1, <2>7 DEF ScanInv
<1> HIDE DEF s
<1> QED
  BY <1>3, <1>4, <1>5, OnePollKeeps

\* The same worker is listed, on a second reading of its flag.
LEMMA ListStep == ASSUME IInv, NEW p \in Poll, List(p) PROVE IInv'
<1> DEFINE old == poll[p]
           l == old.listed \union ({old.next} \intersect healthy)
           s == [old EXCEPT !.at = "count", !.next = old.next + 1, !.listed = l]
<1>1. old \in Scan /\ old.at = "list" /\ ScanInv(old)
  BY DEF List, IInv, TypeOK, Scanning
<1>2. old.next \in Worker /\ old.next \in Nat /\ l \in SUBSET Worker
  BY <1>1 DEF ScanInv, Scan
<1>3. /\ s \in Scan
      /\ s.at = "count" /\ s.next = old.next + 1 /\ s.count = old.count /\ s.listed = l
      /\ s.steady = old.steady /\ s.ever = old.ever
  <2>1. old.next + 1 \in Nat
    BY <1>2
  <2> HIDE DEF l, old
  <2> QED
    BY <1>1, <1>2, <2>1 DEF Scan
<1>4. /\ poll' = [poll EXCEPT ![p] = s] /\ healthy' = healthy
      /\ reachable' \in BOOLEAN /\ mounted' \in BOOLEAN /\ connected' \in BOOLEAN
  BY DEF List, IInv, TypeOK
<1>5. ScanInv(s)
  <2>1. Counted(s) = old.next /\ Counted(old) = old.next
    BY <1>1, <1>2, <1>3 DEF Counted
  <2>2. s.next \in 1 .. NWorkers + 1
    BY <1>2, <1>3, PollAssumption DEF Worker
  <2>3. 1 .. s.next - 1 = (1 .. old.next - 1) \union {old.next}
    BY <1>2, <1>3, PollAssumption DEF Worker
  <2>4. old.steady \intersect (1 .. s.next - 1) \subseteq l
    BY <1>1, <2>3 DEF ScanInv
  <2>5. l \subseteq old.ever
    BY <1>1 DEF ScanInv
  <2> HIDE DEF s, l, old
  <2> QED
    BY <1>1, <1>3, <2>1, <2>2, <2>4, <2>5 DEF ScanInv
<1> HIDE DEF s
<1> QED
  BY <1>3, <1>4, <1>5, OnePollKeeps

\* The steps that end a scan, or have none.
LEMMA PlaceStep ==
  ASSUME IInv, NEW p \in Poll,
         \/ Summary(p)
         \/ Check(p)
         \/ Answered(p)
         \/ Lost(p)
  PROVE  IInv'
<1>1. PICK place \in {"free", "asked", "ok", "unavailable"} : poll' = [poll EXCEPT ![p] = At(place)]
  BY DEF Summary, Check, Answered, Lost, Settle
<1>2. /\ healthy' = healthy /\ reachable' \in BOOLEAN /\ mounted' \in BOOLEAN
      /\ connected' \in BOOLEAN
  BY DEF Summary, Check, Answered, Lost, Settle, IInv, TypeOK
<1> QED
  BY <1>1, <1>2, AtFacts, OnePollKeeps

\* A flag flips: the worker may leave steady and join ever, so that the counts
\* stay between the two.
LEMMA FlipStep == ASSUME IInv, NEW w \in Worker, Flip(w) PROVE IInv'
<1>1. healthy' \subseteq Worker
  BY DEF Flip, IInv, TypeOK
<1>2. ASSUME NEW p \in Poll
      PROVE  poll'[p] \in Scan /\ (Scanning(p)' => ScanInv(poll[p])')
  <2> DEFINE old == poll[p]
             s == [old EXCEPT !.steady = old.steady \intersect healthy',
                              !.ever = old.ever \union healthy']
  <2>1. old \in Scan
    BY DEF IInv, TypeOK
  <2>2. /\ s \in Scan
        /\ s.at = old.at /\ s.next = old.next /\ s.count = old.count /\ s.listed = old.listed
        /\ s.steady = old.steady \intersect healthy' /\ s.ever = old.ever \union healthy'
    BY <1>1, <2>1 DEF Scan
  <2>3. poll'[p] = IF Scanning(p) THEN s ELSE old
    BY DEF Flip
  <2>4. CASE ~Scanning(p)
    BY <2>1, <2>3, <2>4 DEF Scanning
  <2>5. CASE Scanning(p)
    <3>1. ScanInv(old)
      BY <2>5 DEF IInv
    <3>2. Counted(s) = Counted(old) /\ Counted(old) \in Int
      BY <2>1, <2>2 DEF Counted, Scan
    <3>3. /\ Upto(s.steady, Counted(old)) <= Upto(old.steady, Counted(old))
          /\ Upto(old.ever, Counted(old)) <= Upto(s.ever, Counted(old))
          /\ Upto(s.steady, Counted(old)) \in Nat /\ Upto(old.steady, Counted(old)) \in Nat
          /\ Upto(s.ever, Counted(old)) \in Nat /\ Upto(old.ever, Counted(old)) \in Nat
      BY <2>2, <3>2, UptoMonotone
    <3>4. Upto(old.steady, Counted(old)) <= old.count /\ old.count <= Upto(old.ever, Counted(old))
      BY <3>1 DEF ScanInv
    <3>5. Upto(s.steady, Counted(s)) <= s.count /\ s.count <= Upto(s.ever, Counted(s))
      <4>1. old.count \in Nat
        BY <2>1 DEF Scan
      <4> QED
        BY <2>2, <3>2, <3>3, <3>4, <4>1
    <3>6. poll'[p] = s
      BY <2>3, <2>5
    <3> HIDE DEF s
    <3>7. /\ s.next \in 1 .. NWorkers + 1
          /\ s.at = "list" => s.next \in Worker
          /\ s.steady \subseteq healthy'
          /\ healthy' \subseteq s.ever
          /\ s.steady \intersect (1 .. s.next - 1) \subseteq s.listed
          /\ s.listed \subseteq s.ever
      BY <2>2, <3>1 DEF ScanInv
    <3> QED
      BY <2>2, <3>5, <3>6, <3>7 DEF ScanInv, Upto, Counted
  <2> QED
    BY <2>4, <2>5
<1>3. TypeOK'
  <2>1. DOMAIN poll' = Poll /\ poll' = [p \in Poll |-> poll'[p]]
    BY DEF Flip
  <2>2. poll' \in [Poll -> Scan]
    BY <1>2, <2>1
  <2> QED
    BY <1>1, <2>2 DEF Flip, IInv, TypeOK
<1> QED
  BY <1>2, <1>3 DEF IInv

\* Steps of the link and the page, and none.
LEMMA OtherStep == ASSUME IInv, LinkChanges \/ Unmount \/ UNCHANGED vars PROVE IInv'
<1>1. healthy' = healthy /\ poll' = poll
  BY DEF LinkChanges, Unmount, vars
<1>2. TypeOK'
  BY <1>1 DEF IInv, TypeOK, LinkChanges, Unmount, vars
<1> QED
  BY <1>1, <1>2 DEF IInv, Scanning, ScanInv, Upto, Counted

-----------------------------------------------------------------------------
\* The inductive invariant of GatewayHealth's scan.
THEOREM Invariance == Spec => []IInv
<1>1. IInv /\ [Next]_vars => IInv'
  <2> SUFFICES ASSUME IInv, [Next]_vars PROVE IInv'
    OBVIOUS
  <2>1. ASSUME NEW p \in Poll, PollStep(p) PROVE IInv'
    BY <2>1, BeginStep, CountStep, ListStep, PlaceStep DEF PollStep
  <2>2. ASSUME NEW w \in Worker, Flip(w) PROVE IInv'
    BY <2>2, FlipStep
  <2>3. CASE LinkChanges \/ Unmount \/ UNCHANGED vars
    BY <2>3, OtherStep
  <2> QED
    BY <2>1, <2>2, <2>3 DEF Next
<1> QED
  BY <1>1, InitIInv, PTL DEF Spec

\* GatewayHealth's count and list are between the workers that stayed healthy and
\* those that were healthy at some time of its scan, for any number of workers
\* and any flips.
THEOREM SummariesAreJustified == Spec => []SummaryJustified
<1>1. IInv => SummaryJustified
  <2> SUFFICES ASSUME IInv, NEW p \in Poll, Scanned(p)
               PROVE  /\ poll[p].steady \subseteq poll[p].listed
                      /\ poll[p].listed \subseteq poll[p].ever
                      /\ Cardinality(poll[p].steady) <= poll[p].count
                      /\ poll[p].count <= Cardinality(poll[p].ever)
    BY DEF SummaryJustified
  <2> DEFINE s == poll[p]
  <2>1. s \in Scan /\ s.at = "count" /\ s.next \notin Worker /\ ScanInv(s)
    BY DEF IInv, TypeOK, Scanned, Scanning
  <2>2. s.next - 1 = NWorkers /\ Counted(s) = NWorkers
    BY <2>1, PollAssumption DEF ScanInv, Worker, Counted
  <2>3. s.steady \intersect (1 .. NWorkers) = s.steady /\ s.ever \intersect (1 .. NWorkers) = s.ever
    BY <2>1 DEF Scan, Worker
  <2> HIDE DEF s
  <2>4. s.steady \subseteq s.listed /\ s.listed \subseteq s.ever
    BY <2>1, <2>2, <2>3 DEF ScanInv
  <2>5. Upto(s.steady, NWorkers) <= s.count /\ s.count <= Upto(s.ever, NWorkers)
    BY <2>1, <2>2 DEF ScanInv
  <2> QED
    BY <2>3, <2>4, <2>5 DEF Upto, s
<1> QED
  BY <1>1, Invariance, PTL
=============================================================================
