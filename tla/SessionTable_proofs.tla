------------------------- MODULE SessionTable_proofs -------------------------
(***************************************************************************)
(* Proofs about SessionTable, for any sets of images, workers and callers  *)
(* and any TTL.  Image may be infinite: the table is finite because each   *)
(* Put adds at most one entry.                                             *)
(***************************************************************************)
EXTENDS SessionTable, FiniteSetTheorems, TLAPS

Calls == {"idle", "check", "found", "delete", "orphan", "sweep", "publish"}

\* Nothing is in the table at the start.
LEMMA InitIInv == Init => IInv
<1> SUFFICES ASSUME Init PROVE IInv
  OBVIOUS
<1>1. TypeOK
  BY DEF Init, TypeOK
<1>2. FiniteInv
  <2>1. Present(entries) = {}
    BY DEF Init, Present
  <2> QED
    BY <2>1, FS_EmptySet DEF FiniteInv
<1>3. CallInv /\ DeleteIsJustified
  BY DEF Init, CallInv, DeleteIsJustified
<1> QED
  BY <1>1, <1>2, <1>3 DEF IInv

\* The four ways to change the map are Unlock with a finite table: types and
\* finiteness stay.
LEMMA UnlockType ==
  ASSUME TypeOK, NEW g \in Goroutine,
         NEW es \in [Image -> Entry \union {NoEntry}], Unlock(g, es),
         IsFiniteSet(Present(es)), overtaken' \subseteq Caller,
         UNCHANGED <<now, gauge, image, seen>>
  PROVE  TypeOK' /\ FiniteInv'
<1>1. Cardinality(Present(es)) \in Nat
  BY FS_CardinalityType
<1>2. FiniteInv'
  BY DEF FiniteInv, Present, Unlock
<1>3. local' \in [Goroutine -> Nat]
  BY <1>1 DEF TypeOK, Unlock
<1>4. pc' \in [Goroutine -> Calls]
  BY DEF TypeOK, Unlock, Calls
<1>5. entries' \in [Image -> Entry \union {NoEntry}]
  BY DEF Unlock
<1> QED
  BY <1>2, <1>3, <1>4, <1>5 DEF TypeOK, Calls

\* A critical section keeps what the other calls know, if it gives no entry to
\* an image that a call it does not overtake is about.
LEMMA UnlockCalls ==
  ASSUME TypeOK, CallInv, DeleteIsJustified, NEW g \in Goroutine,
         NEW es \in [Image -> Entry \union {NoEntry}], Unlock(g, es),
         \A h \in Goroutine : h # g /\ pc[h] \in {"check", "delete"} =>
            \/ h \in overtaken'
            \/ h \notin overtaken /\ es[image[h]] \in {NoEntry, entries[image[h]]},
         UNCHANGED <<now, gauge, image, seen>>
  PROVE  CallInv' /\ DeleteIsJustified'
<1>1. \A h \in Goroutine : h # g => pc'[h] = pc[h] /\ local'[h] = local[h]
  BY DEF Unlock, TypeOK
<1>2. pc'[g] = "publish"
  BY DEF Unlock, TypeOK
<1>3. entries' = es /\ image' = image /\ seen' = seen /\ now' = now
  BY DEF Unlock
<1>4. CallInv'
  <2> SUFFICES ASSUME NEW h \in Goroutine
               PROVE  /\ pc'[h] \in {"check", "found", "delete", "orphan"} =>
                            h \in Caller /\ image[h] \in Image
                      /\ pc'[h] = "check" =>
                            /\ seen[h] \in Entry
                            /\ es[image[h]] \in {NoEntry, seen[h]} \/ h \in overtaken'
                      /\ pc'[h] = "sweep" => local'[h] <= now
    BY <1>3 DEF CallInv
  <2>1. CASE h = g
    BY <1>2, <2>1
  <2>2. CASE h # g
    BY <1>1, <2>2 DEF CallInv
  <2> QED
    BY <2>1, <2>2
<1>5. DeleteIsJustified'
  <2> SUFFICES ASSUME NEW h \in Goroutine, pc'[h] = "delete"
               PROVE  ~Live(image[h])' \/ h \in overtaken'
    BY <1>3 DEF DeleteIsJustified
  <2>1. h # g /\ pc[h] = "delete"
    BY <1>1, <1>2
  <2>2. ~Live(image[h]) \/ h \in overtaken
    BY <2>1 DEF DeleteIsJustified
  <2> QED
    BY <1>3, <2>1, <2>2 DEF Live, Expired
<1> QED
  BY <1>4, <1>5

\* Taking entries away leaves a finite table.
LEMMA FewerIsFinite ==
  ASSUME FiniteInv, NEW es, \A i \in Image : es[i] \in {NoEntry, entries[i]}
  PROVE  IsFiniteSet(Present(es))
<1>1. Present(es) \subseteq Present(entries)
  BY DEF Present
<1> QED
  BY <1>1, FS_Subset DEF FiniteInv

\* Every step keeps the invariant.
LEMMA NextIInv == IInv /\ [Next]_vars => IInv'
<1> SUFFICES ASSUME IInv, [Next]_vars PROVE IInv'
  OBVIOUS
<1>0. TypeOK /\ FiniteInv /\ CallInv /\ DeleteIsJustified
  BY DEF IInv
<1>1. ASSUME Tick PROVE IInv'
  <2>1. TypeOK' /\ FiniteInv'
    BY <1>0, <1>1 DEF Tick, TypeOK, FiniteInv
  <2>2. CallInv'
    BY <1>0, <1>1 DEF Tick, TypeOK, CallInv
  <2>3. DeleteIsJustified'
    BY <1>0, <1>1 DEF Tick, TypeOK, DeleteIsJustified, CallInv, Live, Expired, Entry
  <2> QED
    BY <2>1, <2>2, <2>3 DEF IInv
<1>2. ASSUME NEW g \in Caller, NEW i \in Image, GetRead(g, i) PROVE IInv'
  <2>1. TypeOK' /\ FiniteInv'
    BY <1>0, <1>2 DEF GetRead, TypeOK, FiniteInv, Goroutine
  <2>2. entries[i] \in Entry /\ i \in Image /\ g \in Goroutine
    BY <1>0, <1>2 DEF GetRead, TypeOK, FiniteInv, Goroutine
  <2>3. CallInv'
    BY <1>0, <1>2, <2>2 DEF GetRead, TypeOK, CallInv
  <2>4. DeleteIsJustified'
    BY <1>0, <1>2 DEF GetRead, TypeOK, DeleteIsJustified, Live, Expired
  <2> QED
    BY <2>1, <2>3, <2>4 DEF IInv
<1>3. ASSUME NEW g \in Caller, NEW i \in Image, NEW w \in Worker, Put(g, i, w) PROVE IInv'
  <2> DEFINE es == [entries EXCEPT ![i] = [workerID |-> w, expiresAt |-> now + TTL]]
             over == {h \in Caller : pc[h] \in {"check", "delete"} /\ image[h] = i}
  <2>1. es \in [Image -> Entry \union {NoEntry}]
    BY <1>0, TimeAssumption DEF TypeOK, Entry
  <2>2. \A j \in Image : j # i => es[j] = entries[j]
    BY <1>0 DEF TypeOK
  <2>3. /\ Unlock(g, es) /\ overtaken' = overtaken \union over
        /\ UNCHANGED <<now, gauge, image, seen>> /\ g \in Goroutine
    BY <1>3 DEF Put, Goroutine
  <2> HIDE DEF es
  <2>4. IsFiniteSet(Present(es))
    <3>1. IsFiniteSet(Present(entries) \union {i})
      BY <1>0, FS_AddElement DEF FiniteInv
    <3>2. Present(es) \subseteq Present(entries) \union {i}
      BY <2>2 DEF Present
    <3> QED
      BY <3>1, <3>2, FS_Subset
  <2>5. overtaken' \subseteq Caller
    BY <1>0, <2>3 DEF TypeOK
  <2>6. TypeOK' /\ FiniteInv'
    BY <1>0, <2>1, <2>3, <2>4, <2>5, UnlockType
  <2>7. \A h \in Goroutine : h # g /\ pc[h] \in {"check", "delete"} =>
           \/ h \in overtaken'
           \/ h \notin overtaken /\ es[image[h]] \in {NoEntry, entries[image[h]]}
    <3> SUFFICES ASSUME NEW h \in Goroutine, pc[h] \in {"check", "delete"}, h \notin overtaken'
                 PROVE  h \notin overtaken /\ es[image[h]] = entries[image[h]]
      OBVIOUS
    <3>1. h \in Caller /\ image[h] \in Image
      BY <1>0 DEF CallInv
    <3>2. h \notin overtaken /\ image[h] # i
      BY <2>3, <3>1
    <3> QED
      BY <2>2, <3>1, <3>2
  <2>8. CallInv' /\ DeleteIsJustified'
    BY <1>0, <2>1, <2>3, <2>7, UnlockCalls
  <2> QED
    BY <2>6, <2>8 DEF IInv
<1>4. ASSUME NEW g \in Goroutine, GetCheck(g) PROVE IInv'
  <2>1. TypeOK' /\ FiniteInv'
    BY <1>0, <1>4 DEF GetCheck, TypeOK, FiniteInv
  <2>2. /\ g \in Caller /\ image[g] \in Image
        /\ seen[g] \in Entry
        /\ entries[image[g]] \in {NoEntry, seen[g]} \/ g \in overtaken
    BY <1>0, <1>4 DEF GetCheck, CallInv
  <2>3. /\ \A h \in Goroutine : h # g => /\ pc'[h] = pc[h] /\ seen'[h] = seen[h]
                                         /\ h \in overtaken => h \in overtaken'
        /\ pc'[g] \in {"delete", "found"}
        /\ pc'[g] = "delete" => Expired(seen[g], now) /\ overtaken' = overtaken
        /\ UNCHANGED <<now, entries, image, local>>
    BY <1>0, <1>4 DEF GetCheck, TypeOK
  <2>4. CallInv'
    <3> SUFFICES ASSUME NEW h \in Goroutine
                 PROVE  /\ pc'[h] \in {"check", "found", "delete", "orphan"} =>
                              h \in Caller /\ image[h] \in Image
                        /\ pc'[h] = "check" =>
                              /\ seen'[h] \in Entry
                              /\ entries[image[h]] \in {NoEntry, seen'[h]} \/ h \in overtaken'
                        /\ pc'[h] = "sweep" => local[h] <= now
      BY <2>3 DEF CallInv
    <3>1. CASE h = g
      BY <2>2, <2>3, <3>1
    <3>2. CASE h # g
      BY <1>0, <2>3, <3>2 DEF CallInv
    <3> QED
      BY <3>1, <3>2
  <2>5. DeleteIsJustified'
    <3> SUFFICES ASSUME NEW h \in Goroutine, pc'[h] = "delete"
                 PROVE  ~Live(image[h])' \/ h \in overtaken'
      BY <2>3 DEF DeleteIsJustified
    <3>1. CASE h = g
      BY <2>2, <2>3, <3>1 DEF Live
    <3>2. CASE h # g
      BY <1>0, <2>3, <3>2 DEF DeleteIsJustified, Live
    <3> QED
      BY <3>1, <3>2
  <2> QED
    BY <2>1, <2>4, <2>5 DEF IInv
<1>5. ASSUME NEW g \in Goroutine, Route(g) \/ Orphan(g) \/ Publish(g) PROVE IInv'
  <2>1. TypeOK' /\ FiniteInv'
    BY <1>0, <1>5 DEF Route, Orphan, Publish, TypeOK, FiniteInv
  <2>2. /\ \A h \in Goroutine : h # g => pc'[h] = pc[h] /\ image'[h] = image[h] /\ local'[h] = local[h]
        /\ pc'[g] = "idle" \/ (pc'[g] = "orphan" /\ image'[g] = image[g] /\ pc[g] = "found")
        /\ UNCHANGED <<now, entries, seen, overtaken>>
    <3>1. UNCHANGED <<now, entries, seen, overtaken>>
      BY <1>5 DEF Route, Orphan, Publish
    <3>2. \A h \in Goroutine : h # g => pc'[h] = pc[h] /\ image'[h] = image[h] /\ local'[h] = local[h]
      BY <1>0, <1>5 DEF Route, Orphan, Publish, TypeOK
    <3>3. pc'[g] = "idle" \/ (pc'[g] = "orphan" /\ image'[g] = image[g] /\ pc[g] = "found")
      <4>1. pc \in [Goroutine -> Calls]
        BY <1>0 DEF TypeOK, Calls
      <4>2. CASE Route(g) \/ Publish(g)
        <5>1. pc' = [pc EXCEPT ![g] = "idle"]
          BY <4>2 DEF Route, Publish
        <5>2. pc'[g] = "idle"
          BY <4>1, <5>1
        <5> QED
          BY <5>2
      <4>3. CASE Orphan(g)
        BY <4>1, <4>3 DEF Orphan
      <4> QED
        BY <1>5, <4>2, <4>3
    <3> QED
      BY <3>1, <3>2, <3>3
  <2>3. CallInv'
    BY <1>0, <2>2 DEF CallInv
  <2>4. DeleteIsJustified'
    BY <1>0, <2>2 DEF DeleteIsJustified, Live
  <2> QED
    BY <2>1, <2>3, <2>4 DEF IInv
<1>6. ASSUME NEW g \in Goroutine, Delete(g) PROVE IInv'
  <2> DEFINE es == [entries EXCEPT ![image[g]] = NoEntry]
  <2>1. /\ es \in [Image -> Entry \union {NoEntry}]
        /\ \A i \in Image : es[i] \in {NoEntry, entries[i]}
    BY <1>0 DEF TypeOK
  <2>2. Unlock(g, es) /\ overtaken' = overtaken \ {g} /\ UNCHANGED <<now, gauge, image, seen>>
    BY <1>6 DEF Delete
  <2> HIDE DEF es
  <2>3. IsFiniteSet(Present(es)) /\ overtaken' \subseteq Caller
    BY <1>0, <2>1, <2>2, FewerIsFinite DEF TypeOK
  <2>4. TypeOK' /\ FiniteInv'
    BY <1>0, <2>1, <2>2, <2>3, UnlockType
  <2>5. \A h \in Goroutine : pc[h] \in {"check", "delete"} => image[h] \in Image
    BY <1>0 DEF CallInv
  <2>6. CallInv' /\ DeleteIsJustified'
    BY <1>0, <2>1, <2>2, <2>5, UnlockCalls
  <2> QED
    BY <2>4, <2>6 DEF IInv
<1>7. ASSUME NEW w \in Worker, DropByWorker(w) PROVE IInv'
  <2> DEFINE es == [i \in Image |-> IF entries[i] # NoEntry /\ entries[i].workerID = w
                                    THEN NoEntry ELSE entries[i]]
  <2>1. /\ es \in [Image -> Entry \union {NoEntry}]
        /\ \A i \in Image : es[i] \in {NoEntry, entries[i]}
    BY <1>0 DEF TypeOK
  <2>2. /\ entries' = es /\ gauge' = Cardinality(Present(es))
        /\ UNCHANGED <<now, pc, image, seen, local, overtaken>>
    BY <1>7 DEF DropByWorker
  <2> HIDE DEF es
  <2>3. IsFiniteSet(Present(es))
    BY <1>0, <2>1, FewerIsFinite
  <2>4. Cardinality(Present(es)) \in Nat
    BY <2>3, FS_CardinalityType
  <2>5. TypeOK'
    BY <1>0, <2>1, <2>2, <2>4 DEF TypeOK
  <2>6. FiniteInv'
    BY <2>2, <2>3 DEF FiniteInv, Present
  <2>7. \A g \in Goroutine : pc[g] \in {"check", "delete"} => image[g] \in Image
    BY <1>0 DEF CallInv
  <2>8. CallInv'
    BY <1>0, <2>1, <2>2, <2>7 DEF CallInv
  <2>9. DeleteIsJustified'
    BY <1>0, <2>1, <2>2, <2>7 DEF DeleteIsJustified, Live, Expired
  <2> QED
    BY <2>5, <2>6, <2>8, <2>9 DEF IInv
<1>8. ASSUME SweepClock PROVE IInv'
  <2>1. Sweeper \in Goroutine
    BY DEF Goroutine
  <2>2. TypeOK' /\ FiniteInv'
    BY <1>0, <1>8, <2>1 DEF SweepClock, TypeOK, FiniteInv
  <2>3. CallInv'
    BY <1>0, <1>8, <2>1 DEF SweepClock, TypeOK, CallInv
  <2>4. DeleteIsJustified'
    BY <1>0, <1>8, <2>1 DEF SweepClock, TypeOK, DeleteIsJustified, Live
  <2> QED
    BY <2>2, <2>3, <2>4 DEF IInv
<1>9. ASSUME Sweep PROVE IInv'
  <2> DEFINE es == [i \in Image |-> IF entries[i] # NoEntry /\ Expired(entries[i], local[Sweeper])
                                    THEN NoEntry ELSE entries[i]]
  <2>1. /\ es \in [Image -> Entry \union {NoEntry}]
        /\ \A i \in Image : es[i] \in {NoEntry, entries[i]}
    BY <1>0 DEF TypeOK
  <2>2. /\ Unlock(Sweeper, es) /\ Sweeper \in Goroutine
        /\ UNCHANGED <<now, gauge, image, seen, overtaken>>
    BY <1>9 DEF Sweep, Goroutine
  <2> HIDE DEF es
  <2>3. IsFiniteSet(Present(es)) /\ overtaken' \subseteq Caller
    BY <1>0, <2>1, <2>2, FewerIsFinite DEF TypeOK
  <2>4. TypeOK' /\ FiniteInv'
    BY <1>0, <2>1, <2>2, <2>3, UnlockType
  <2>5. \A h \in Goroutine : pc[h] \in {"check", "delete"} => image[h] \in Image
    BY <1>0 DEF CallInv
  <2>6. CallInv' /\ DeleteIsJustified'
    BY <1>0, <2>1, <2>2, <2>5, UnlockCalls
  <2> QED
    BY <2>4, <2>6 DEF IInv
<1>10. ASSUME UNCHANGED vars PROVE IInv'
  BY <1>0, <1>10 DEF vars, IInv, TypeOK, FiniteInv, CallInv, DeleteIsJustified, Live
<1> QED
  BY <1>1, <1>2, <1>3, <1>4, <1>5, <1>6, <1>7, <1>8, <1>9, <1>10 DEF Next, CallStep

\* The invariant holds in every reachable state.
THEOREM Invariance == Spec => []IInv
BY InitIInv, NextIInv, PTL DEF Spec

\* Type correctness: the gauge and the sizes in flight are natural numbers,
\* the table only holds entries of workers.
THEOREM TypeCorrect == Spec => []TypeOK
<1>1. IInv => TypeOK
  BY DEF IInv
<1> QED
  BY <1>1, Invariance, PTL

\* Get deletes with a copy it made before the lock was released, and is right
\* to, however long the other callers and the sweeper took in between, as long
\* as the image was not put again.
THEOREM DeletesAreJustified == Spec => []DeleteIsJustified
<1>1. IInv => DeleteIsJustified
  BY DEF IInv
<1> QED
  BY <1>1, Invariance, PTL

\* A live entry leaves the table in DropByWorker, as an orphan, or because Put
\* overtook a Get that had read an expired one: no other reading from before a
\* lock that is used after it takes one.
THEOREM NoLiveEntryIsLost == Spec => NoLiveEntryLost
<1> DEFINE Ok == \A i \in Image : TakenEarly(i) =>
                    \/ DropByWorker(entries[i].workerID)
                    \/ \E g \in Caller :
                          /\ image[g] = i
                          /\ pc[g] = "orphan" \/ (pc[g] = "delete" /\ g \in overtaken)
                          /\ Delete(g)
<1>1. IInv /\ [Next]_vars => Ok \/ UNCHANGED vars
  <2> SUFFICES ASSUME IInv, Next, NEW i \in Image, TakenEarly(i)
               PROVE  \/ DropByWorker(entries[i].workerID)
                      \/ \E g \in Caller :
                            /\ image[g] = i
                            /\ pc[g] = "orphan" \/ (pc[g] = "delete" /\ g \in overtaken)
                            /\ Delete(g)
    OBVIOUS
  <2>0. TypeOK /\ CallInv /\ DeleteIsJustified
    BY DEF IInv
  <2>1. /\ entries[i] # NoEntry /\ entries'[i] = NoEntry
        /\ Live(i) /\ entries[i] \in Entry /\ now <= entries[i].expiresAt
    BY <2>0 DEF TakenEarly, Live, Expired, TypeOK, Entry
  <2>2. ASSUME NEW g \in Goroutine, Delete(g)
        PROVE  \E h \in Caller :
                  /\ image[h] = i
                  /\ pc[h] = "orphan" \/ (pc[h] = "delete" /\ h \in overtaken)
                  /\ Delete(h)
    <3>1. image[g] = i
      BY <2>0, <2>1, <2>2 DEF Delete, Unlock, TypeOK
    <3>2. pc[g] = "delete" => g \in overtaken
      BY <2>0, <2>1, <3>1 DEF DeleteIsJustified
    <3>3. pc[g] \in {"delete", "orphan"} /\ g \in Caller
      BY <2>0, <2>2 DEF Delete, CallInv
    <3> QED
      BY <2>2, <3>1, <3>2, <3>3
  <2>3. ASSUME NEW w \in Worker, DropByWorker(w) PROVE DropByWorker(entries[i].workerID)
    <3>1. entries[i].workerID = w
      BY <2>1, <2>3 DEF DropByWorker
    <3> QED
      BY <2>3, <3>1
  <2>4. ~Sweep
    <3> SUFFICES ASSUME Sweep PROVE FALSE
      OBVIOUS
    <3>1. local[Sweeper] > entries[i].expiresAt
      BY <2>1 DEF Sweep, Unlock, Expired
    <3>2. local[Sweeper] <= now
      BY <2>0 DEF Sweep, CallInv, Goroutine
    <3>3. local[Sweeper] \in Nat /\ now \in Nat /\ entries[i].expiresAt \in Nat
      BY <2>0, <2>1 DEF TypeOK, Entry, Goroutine
    <3> QED
      BY <2>1, <3>1, <3>2, <3>3
  <2>5. ASSUME NEW g \in Caller, NEW j \in Image, NEW w \in Worker, Put(g, j, w) PROVE FALSE
    <3>1. entries' = [entries EXCEPT ![j] = [workerID |-> w, expiresAt |-> now + TTL]]
      BY <2>5 DEF Put, Unlock
    <3>2. [workerID |-> w, expiresAt |-> now + TTL] \in Entry
      BY <2>0, TimeAssumption DEF TypeOK, Entry
    <3> QED
      BY <2>0, <2>1, <3>1, <3>2, NamesAssumption DEF TypeOK, Entry
  <2>6. CASE UNCHANGED entries
    BY <2>1, <2>6
  <2> QED
    BY <2>2, <2>3, <2>4, <2>5, <2>6
    DEF Next, CallStep, Tick, GetRead, GetCheck, Route, Orphan, Publish, SweepClock
<1> QED
  BY <1>1, Invariance, PTL DEF Spec, NoLiveEntryLost

=============================================================================
