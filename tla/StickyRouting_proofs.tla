------------------------ MODULE StickyRouting_proofs -------------------------
(***************************************************************************)
(* Proofs about StickyRouting, for any set of workers, images and segment  *)
(* requests.                                                               *)
(***************************************************************************)
EXTENDS StickyRouting, TLAPS

USE DEF Phase, Stop, NoSegment, Move, members, backs

-----------------------------------------------------------------------------
(* Type correctness. *)

\* The initial values have their types.
LEMMA InitTypeOK == Init => TypeOK
BY DEF Init, Members!Init, TypeOK

\* What a step changes in the segment requests when q moves to a.
LEMMA Moved ==
  ASSUME TypeOK, NEW q \in Request,
         NEW a \in Stop \union {"idle", "found", "orphan", "routed"},
         seg' = [seg EXCEPT ![q].at = a]
  PROVE  /\ seg' \in [Request -> [at     : Stop \union {"idle", "found", "orphan", "routed"},
                                  image  : Image \union {NoImage},
                                  worker : Worker \union {NoWorker}]]
         /\ \A p \in Request : /\ seg'[p].at = IF p = q THEN a ELSE seg[p].at
                               /\ seg'[p].image = seg[p].image
                               /\ seg'[p].worker = seg[p].worker
<1> DEFINE At == Stop \union {"idle", "found", "orphan", "routed"}
<1>1. seg \in [Request -> [at : At, image : Image \union {NoImage}, worker : Worker \union {NoWorker}]]
  BY DEF TypeOK
<1> HIDE DEF At
<1>2. a \in At
  BY DEF At
<1>3. \A p \in Request : seg'[p] = IF p = q THEN [seg[q] EXCEPT !.at = a] ELSE seg[p]
  BY <1>1
<1>4. \A p \in Request : /\ seg'[p].at = IF p = q THEN a ELSE seg[p].at
                         /\ seg'[p].image = seg[p].image
                         /\ seg'[p].worker = seg[p].worker
  BY <1>1, <1>3
<1>5. seg' \in [Request -> [at : At, image : Image \union {NoImage}, worker : Worker \union {NoWorker}]]
  BY <1>1, <1>2
<1> QED
  BY <1>4, <1>5 DEF At

\* Every step keeps every variable's type.
LEMMA NextTypeOK == TypeOK /\ [Next]_vars => TypeOK'
<1> SUFFICES ASSUME TypeOK, [Next]_vars PROVE TypeOK'
  OBVIOUS
<1> USE DEF TypeOK
<1>1. ASSUME NEW i \in Image, NEW w \in Worker, RouteUpload(i, w) PROVE TypeOK'
  BY <1>1 DEF RouteUpload
<1>2. ASSUME NEW i \in Image, StoreImage(i) PROVE TypeOK'
  BY <1>2 DEF StoreImage
<1>3. ASSUME NEW i \in Image, Bind(i) PROVE TypeOK'
  BY <1>3 DEF Bind
<1>4. ASSUME NEW i \in Image, UploadFails(i) PROVE TypeOK'
  BY <1>4 DEF UploadFails
<1>5. ASSUME NEW i \in Image, Expire(i) PROVE TypeOK'
  BY <1>5 DEF Expire, Ended
<1>6. ASSUME NEW i \in Image, Evict(i) PROVE TypeOK'
  BY <1>6 DEF Evict
<1>7. ASSUME NEW q \in Request, NEW i \in Image, Lookup(q, i) PROVE TypeOK'
  BY <1>7 DEF Lookup
<1>8. ASSUME NEW q \in Request, CheckHealthy(q) PROVE TypeOK'
  BY <1>8, Moved DEF CheckHealthy
<1>9. ASSUME NEW q \in Request, DeleteOrphan(q) PROVE TypeOK'
  BY <1>9 DEF DeleteOrphan, Ended
<1>10. ASSUME NEW q \in Request, Refuse(q) PROVE TypeOK'
  BY <1>10 DEF Refuse
<1>11. ASSUME NEW q \in Request, Answer(q) PROVE TypeOK'
  BY <1>11, Moved DEF Answer
<1>12. ASSUME NEW w \in Worker, MarkDown(w) PROVE TypeOK'
  BY <1>12 DEF MarkDown, Members!MarkDown, Homed, SessionsOf
<1>13. ASSUME NEW w \in Worker, Drop(w) PROVE TypeOK'
  BY <1>13 DEF Drop, Members!Drop, Ended
<1>14. ASSUME NEW w \in Worker, MarkUp(w) PROVE TypeOK'
  BY <1>14 DEF MarkUp, Members!MarkUp
<1>15. ASSUME NEW w \in Worker, Restart(w) PROVE TypeOK'
  BY <1>15 DEF Restart
<1>16. ASSUME UNCHANGED vars PROVE TypeOK'
  BY <1>16 DEF vars
<1> QED
  BY <1>1, <1>2, <1>3, <1>4, <1>5, <1>6, <1>7, <1>8, <1>9, <1>10, <1>11, <1>12,
     <1>13, <1>14, <1>15, <1>16
  DEF Next, UploadStep, SegmentStep, WorkerStep

\* Type correctness, for every instance: requests, sessions and histories
\* never hold anything else than workers and images.
THEOREM TypeCorrect == Spec => []TypeOK
BY InitTypeOK, NextTypeOK, PTL DEF Spec

-----------------------------------------------------------------------------
(* The inductive invariant. *)

\* Nothing is bound, routed or taken out at the start.
LEMMA InitIInv == Init => IInv
<1> SUFFICES ASSUME Init PROVE IInv
  OBVIOUS
<1>1. TypeOK
  BY InitTypeOK
<1> QED
  BY <1>1 DEF Init, Members!Init, IInv, UploadInv, SegmentInv, ExcuseInv, RemovalInv,
              NotFoundExplained, GoneIsFinal, RemovalEndsSessions

Sessions == UploadInv /\ ExcuseInv /\ RemovalInv /\ RemovalEndsSessions
Requests == SegmentInv /\ NotFoundExplained /\ GoneIsFinal

\* The part of the invariant about sessions does not look at requests.
LEMMA SessionsFrame ==
  ASSUME Sessions,
         UNCHANGED <<healthy, dropping, entries, upload, home, stored, lost, excused, atDown>>
  PROVE  Sessions'
BY DEF Sessions, UploadInv, ExcuseInv, RemovalInv, RemovalEndsSessions

\* The part about requests survives when requests and what they are about
\* stay, bound images and their sessions only end, and excuses and losses only
\* grow.
LEMMA RequestsFrame ==
  ASSUME TypeOK, Requests, UNCHANGED seg,
         \A i \in Image :
            /\ upload[i] = "bound" => /\ upload'[i] = "bound"
                                      /\ home'[i] = home[i]
                                      /\ entries[i] = NoWorker => entries'[i] = NoWorker
                                      /\ i \notin stored => i \notin stored'
            /\ i \in excused => i \in excused'
            /\ lost[i] # "no" => lost'[i] # "no"
  PROVE  Requests'
<1> USE DEF Requests
<1>1. \A q \in Request : seg[q].at # "idle" => seg[q].image \in Image /\ upload[seg[q].image] = "bound"
  BY DEF SegmentInv
<1>2. SegmentInv'
  BY <1>1 DEF SegmentInv
<1>3. NotFoundExplained'
  BY <1>1 DEF NotFoundExplained
<1>4. GoneIsFinal'
  BY <1>1 DEF GoneIsFinal
<1> QED
  BY <1>2, <1>3, <1>4

-----------------------------------------------------------------------------
(* One lemma per actor. *)

\* An upload's steps keep the invariant; Bind is the one that makes a session.
LEMMA UploadStepInv ==
  ASSUME IInv, NEW i \in Image, UploadStep(i)
  PROVE  Sessions' /\ Requests'
<1>0. TypeOK /\ Sessions /\ Requests
  BY DEF IInv, Sessions, Requests
<1> USE <1>0 DEF Sessions, TypeOK
<1>1. ASSUME NEW w \in Worker, RouteUpload(i, w) PROVE Sessions' /\ Requests'
  <2>1. UploadInv'
    BY <1>1 DEF RouteUpload, UploadInv
  <2>2. ExcuseInv'
    BY <1>1 DEF RouteUpload, ExcuseInv
  <2>3. RemovalInv' /\ RemovalEndsSessions'
    BY <1>1 DEF RouteUpload, RemovalInv, RemovalEndsSessions
  <2>4. Requests'
    BY <1>1, RequestsFrame DEF RouteUpload
  <2> QED
    BY <2>1, <2>2, <2>3, <2>4
<1>2. ASSUME StoreImage(i) PROVE Sessions' /\ Requests'
  <2>1. UploadInv'
    BY <1>2 DEF StoreImage, UploadInv
  <2>2. ExcuseInv'
    BY <1>2 DEF StoreImage, ExcuseInv
  <2>3. RemovalInv' /\ RemovalEndsSessions'
    BY <1>2 DEF StoreImage, RemovalInv, RemovalEndsSessions
  <2>4. Requests'
    BY <1>2, RequestsFrame DEF StoreImage
  <2> QED
    BY <2>1, <2>2, <2>3, <2>4
<1>3. ASSUME Bind(i) PROVE Sessions' /\ Requests'
  <2>1. UploadInv'
    BY <1>3 DEF Bind, UploadInv
  <2>2. home[i] # NoWorker
    BY <1>3, NamesAssumption DEF Bind, UploadInv
  <2>3. ExcuseInv'
    BY <1>3, <2>2 DEF Bind, ExcuseInv
  <2>4. RemovalInv' /\ RemovalEndsSessions'
    BY <1>3 DEF Bind, RemovalInv, RemovalEndsSessions
  <2>5. Requests'
    BY <1>3, RequestsFrame DEF Bind
  <2> QED
    BY <2>1, <2>3, <2>4, <2>5
<1>4. ASSUME UploadFails(i) PROVE Sessions' /\ Requests'
  <2>1. UploadInv'
    BY <1>4 DEF UploadFails, UploadInv
  <2>2. ExcuseInv'
    BY <1>4 DEF UploadFails, ExcuseInv
  <2>3. RemovalInv' /\ RemovalEndsSessions'
    BY <1>4 DEF UploadFails, RemovalInv, RemovalEndsSessions
  <2>4. Requests'
    BY <1>4, RequestsFrame DEF UploadFails
  <2> QED
    BY <2>1, <2>2, <2>3, <2>4
<1> QED
  BY <1>1, <1>2, <1>3, <1>4 DEF UploadStep

\* Sessions that end with an excuse take nothing else with them.
LEMMA EndSessionsInv ==
  ASSUME TypeOK, Sessions, NEW S \in SUBSET Image,
         \A i \in S : i \in excused',
         excused \subseteq excused',
         entries' = Ended(S),
         UNCHANGED <<healthy, dropping, upload, home, stored, lost, atDown>>
  PROVE  Sessions'
<1>1. \A i \in Image : entries'[i] = IF i \in S THEN NoWorker ELSE entries[i]
  BY DEF Ended
<1>2. UploadInv'
  BY <1>1 DEF Sessions, UploadInv
<1>3. ExcuseInv'
  BY <1>1 DEF Sessions, ExcuseInv
<1>4. RemovalInv' /\ RemovalEndsSessions'
  BY <1>1 DEF Sessions, RemovalInv, RemovalEndsSessions, TypeOK
<1> QED
  BY <1>2, <1>3, <1>4 DEF Sessions

\* A segment request's steps keep it; DeleteOrphan may end a session.
LEMMA SegmentStepInv ==
  ASSUME IInv, NEW q \in Request, SegmentStep(q)
  PROVE  Sessions' /\ Requests'
<1>0. TypeOK /\ Sessions /\ Requests
  BY DEF IInv, Sessions, Requests
<1> USE DEF Requests
<1>1. ASSUME NEW i \in Image, Lookup(q, i) PROVE Sessions' /\ Requests'
  <2>1. \A p \in Request : seg'[p] =
          IF p = q THEN [at     |-> IF entries[i] = NoWorker THEN "gone" ELSE "found",
                         image  |-> i,
                         worker |-> entries[i]]
                   ELSE seg[p]
    BY <1>0, <1>1 DEF Lookup, TypeOK
  <2>2. entries[i] # NoWorker => entries[i] = home[i]
    BY <1>0 DEF Sessions, UploadInv
  <2>3. SegmentInv'
    BY <1>0, <1>1, <2>1, <2>2 DEF Lookup, SegmentInv
  <2>4. NotFoundExplained'
    <3>1. lost' = lost
      BY <1>1 DEF Lookup
    <3>2. \A p \in Request : p # q => seg'[p] = seg[p]
      BY <2>1
    <3>3. seg'[q].at = IF entries[i] = NoWorker THEN "gone" ELSE "found"
      BY <2>1
    <3>4. seg'[q].at # "not found"
      BY <3>3
    <3> QED
      BY <1>0, <3>1, <3>2, <3>4 DEF NotFoundExplained
  <2>5. GoneIsFinal'
    <3>1. UNCHANGED <<entries, stored>>
      BY <1>1 DEF Lookup, backs
    <3>2. /\ seg'[q].image = i
          /\ seg'[q].at = IF entries[i] = NoWorker THEN "gone" ELSE "found"
      BY <2>1
    <3>3. \A p \in Request : p # q => seg'[p] = seg[p]
      BY <2>1
    <3> QED
      BY <1>0, <3>1, <3>2, <3>3 DEF GoneIsFinal
  <2>6. Sessions'
    BY <1>0, <1>1, SessionsFrame DEF Lookup
  <2> QED
    BY <2>3, <2>4, <2>5, <2>6
<1>2. ASSUME CheckHealthy(q) PROVE Sessions' /\ Requests'
  <2> DEFINE a == IF seg[q].worker \in healthy THEN "routed" ELSE "orphan"
  <2>0. seg' = [seg EXCEPT ![q].at = a]
    BY <1>2 DEF CheckHealthy
  <2>2. a = "orphan" => seg[q].image \in excused
    BY <1>0, <1>2 DEF CheckHealthy, SegmentInv, Sessions, ExcuseInv
  <2>3. a \in {"routed", "orphan"}
    OBVIOUS
  <2> HIDE DEF a
  <2>1. \A p \in Request : /\ seg'[p].at = IF p = q THEN a ELSE seg[p].at
                           /\ seg'[p].image = seg[p].image
                           /\ seg'[p].worker = seg[p].worker
    BY <1>0, <2>0, <2>3, Moved
  <2>4. SegmentInv'
    BY <1>0, <1>2, <2>1, <2>2, <2>3 DEF CheckHealthy, SegmentInv
  <2>5. NotFoundExplained'
    BY <1>0, <1>2, <2>1, <2>3 DEF CheckHealthy, NotFoundExplained
  <2>6. GoneIsFinal'
    <3>1. UNCHANGED <<entries, stored>>
      BY <1>2 DEF CheckHealthy
    <3> QED
      BY <1>0, <2>1, <2>3, <3>1 DEF GoneIsFinal
  <2>7. Sessions'
    BY <1>0, <1>2, SessionsFrame DEF CheckHealthy
  <2> QED
    BY <2>4, <2>5, <2>6, <2>7
<1>3. ASSUME DeleteOrphan(q) PROVE Sessions' /\ Requests'
  <2>1. \A p \in Request : /\ seg'[p].at = IF p = q THEN "gone" ELSE seg[p].at
                           /\ seg'[p].image = seg[p].image
                           /\ seg'[p].worker = seg[p].worker
    BY <1>0, <1>3, Moved DEF DeleteOrphan
  <2>2. seg[q].image \in Image /\ seg[q].image \in excused
    BY <1>0, <1>3 DEF DeleteOrphan, SegmentInv
  <2>3. SegmentInv'
    BY <1>0, <1>3, <2>1 DEF DeleteOrphan, SegmentInv
  <2>4. NotFoundExplained'
    <3>1. lost' = lost
      BY <1>3 DEF DeleteOrphan
    <3> QED
      BY <1>0, <2>1, <3>1 DEF NotFoundExplained
  <2>5. GoneIsFinal'
    <3>1. \A i \in Image : entries'[i] = IF i = seg[q].image THEN NoWorker ELSE entries[i]
      BY <1>3 DEF DeleteOrphan, Ended
    <3>2. \A p \in Request : seg[p].at # "idle" => seg[p].image \in Image
      BY <1>0 DEF SegmentInv
    <3>3. stored' = stored
      BY <1>3 DEF DeleteOrphan
    <3> QED
      BY <1>0, <2>1, <2>2, <3>1, <3>2, <3>3 DEF GoneIsFinal
  <2>6. Sessions'
    BY <1>0, <1>3, <2>2, EndSessionsInv DEF DeleteOrphan
  <2> QED
    BY <2>3, <2>4, <2>5, <2>6
<1>4. ASSUME Refuse(q) PROVE Sessions' /\ Requests'
  <2>1. \A p \in Request : /\ seg'[p].at = IF p = q THEN "refused" ELSE seg[p].at
                           /\ seg'[p].image = seg[p].image
                           /\ seg'[p].worker = seg[p].worker
    BY <1>0, <1>4, Moved DEF Refuse
  <2>2. SegmentInv'
    BY <1>0, <1>4, <2>1 DEF Refuse, SegmentInv
  <2>3. NotFoundExplained' /\ GoneIsFinal'
    <3>1. UNCHANGED <<lost, entries, stored>>
      BY <1>4 DEF Refuse
    <3> QED
      BY <1>0, <2>1, <3>1 DEF NotFoundExplained, GoneIsFinal
  <2>4. Sessions'
    BY <1>0, <1>4, SessionsFrame DEF Refuse
  <2> QED
    BY <2>2, <2>3, <2>4
<1>5. ASSUME Answer(q) PROVE Sessions' /\ Requests'
  <2> DEFINE a == IF seg[q].worker = home[seg[q].image] /\ seg[q].image \in stored
                  THEN "ok" ELSE "not found"
  <2>0. seg' = [seg EXCEPT ![q].at = a]
    BY <1>5 DEF Answer
  <2>2. a = "not found" => lost[seg[q].image] # "no"
    BY <1>0, <1>5 DEF Answer, SegmentInv, Sessions, UploadInv
  <2>3. a \in {"ok", "not found"}
    OBVIOUS
  <2>8. a = "not found" => seg[q].image \notin stored
    BY <1>0, <1>5 DEF Answer, SegmentInv
  <2> HIDE DEF a
  <2>1. \A p \in Request : /\ seg'[p].at = IF p = q THEN a ELSE seg[p].at
                           /\ seg'[p].image = seg[p].image
                           /\ seg'[p].worker = seg[p].worker
    BY <1>0, <2>0, <2>3, Moved
  <2>4. SegmentInv'
    <3>1. upload' = upload /\ home' = home /\ excused' = excused /\ seg[q].at = "routed"
      BY <1>5 DEF Answer
    <3>2. \A p \in Request : /\ seg'[p].at # "idle" => seg[p].at # "idle"
                             /\ seg'[p].at # "gone" => seg[p].at # "gone"
                             /\ seg'[p].at = "orphan" => seg[p].at = "orphan"
      BY <2>1, <2>3, <3>1
    <3> QED
      BY <1>0, <2>1, <3>1, <3>2 DEF SegmentInv
  <2>5. NotFoundExplained'
    BY <1>0, <1>5, <2>1, <2>2 DEF Answer, NotFoundExplained
  <2>6. GoneIsFinal'
    <3>1. UNCHANGED <<entries, stored>>
      BY <1>5 DEF Answer
    <3> QED
      BY <1>0, <2>1, <2>3, <2>8, <3>1 DEF GoneIsFinal
  <2>7. Sessions'
    BY <1>0, <1>5, SessionsFrame DEF Answer
  <2> QED
    BY <2>4, <2>5, <2>6, <2>7
<1> QED
  BY <1>1, <1>2, <1>3, <1>4, <1>5 DEF SegmentStep

\* Removals, returns and restarts of a worker keep it.
LEMMA WorkerStepInv ==
  ASSUME IInv, NEW w \in Worker, WorkerStep(w)
  PROVE  Sessions' /\ Requests'
<1>0. TypeOK /\ Sessions /\ Requests
  BY DEF IInv, Sessions, Requests
<1> USE <1>0 DEF Sessions
<1>1. ASSUME MarkDown(w) PROVE Sessions' /\ Requests'
  <2>1. UploadInv'
    BY <1>1 DEF MarkDown, UploadInv
  <2>2. ExcuseInv'
    BY <1>1 DEF MarkDown, Members!MarkDown, ExcuseInv, Homed
  <2>3. \A v \in Worker : atDown'[v] = IF v = w THEN SessionsOf(w) ELSE atDown[v]
    BY <1>1 DEF MarkDown, TypeOK
  <2>4. RemovalInv'
    BY <1>1, <2>3, NamesAssumption
    DEF MarkDown, Members!MarkDown, RemovalInv, UploadInv, SessionsOf
  <2>5. RemovalEndsSessions'
    BY <1>1, <2>3 DEF MarkDown, Members!MarkDown, RemovalEndsSessions
  <2>6. Requests'
    BY <1>1, RequestsFrame DEF MarkDown
  <2> QED
    BY <2>1, <2>2, <2>4, <2>5, <2>6
<1>2. ASSUME Drop(w) PROVE Sessions' /\ Requests'
  <2>1. \A i \in Image : entries'[i] = IF entries[i] = w THEN NoWorker ELSE entries[i]
    BY <1>2 DEF Drop, Ended, SessionsOf
  <2>2. UploadInv'
    BY <1>2, <2>1 DEF Drop, UploadInv
  <2>3. w \notin healthy /\ healthy' = healthy
    BY <1>2 DEF Drop, Members!Drop, RemovalInv
  <2>4. ExcuseInv'
    BY <1>2, <2>1, <2>3, NamesAssumption DEF Drop, ExcuseInv, UploadInv
  <2>5. RemovalInv'
    BY <1>2 DEF Drop, Members!Drop, RemovalInv
  <2>6. \A i \in atDown[w] : i \in Image /\ home[i] = w
    BY DEF RemovalInv, TypeOK
  <2>7. RemovalEndsSessions'
    <3> SUFFICES ASSUME NEW v \in Worker, v \notin dropping', NEW i \in atDown[v]
                 PROVE  entries'[i] = NoWorker
      BY <1>2 DEF Drop, RemovalEndsSessions
    <3>1. i \in Image
      BY DEF TypeOK
    <3>2. CASE v = w
      BY <2>1, <2>6, <3>1, <3>2 DEF UploadInv
    <3>3. CASE v # w
      BY <1>2, <2>1, <3>1, <3>3 DEF Drop, Members!Drop, RemovalEndsSessions
    <3> QED
      BY <3>2, <3>3
  <2>8. Requests'
    BY <1>2, <2>1, RequestsFrame DEF Drop
  <2> QED
    BY <2>2, <2>4, <2>5, <2>7, <2>8
<1>3. ASSUME MarkUp(w) PROVE Sessions' /\ Requests'
  <2>1. UploadInv'
    BY <1>3 DEF MarkUp, UploadInv
  <2>2. ExcuseInv'
    BY <1>3 DEF MarkUp, Members!MarkUp, ExcuseInv
  <2>3. RemovalInv' /\ RemovalEndsSessions'
    BY <1>3 DEF MarkUp, Members!MarkUp, RemovalInv, RemovalEndsSessions
  <2>4. Requests'
    BY <1>3, RequestsFrame DEF MarkUp
  <2> QED
    BY <2>1, <2>2, <2>3, <2>4
<1>4. ASSUME Restart(w) PROVE Sessions' /\ Requests'
  <2>1. \A i \in Image : lost'[i] = IF i \in stored /\ home[i] = w THEN "restart" ELSE lost[i]
    BY <1>4 DEF Restart
  <2>2. UploadInv'
    BY <1>4, <2>1 DEF Restart, UploadInv, Homed
  <2>3. ExcuseInv'
    BY <1>4 DEF Restart, ExcuseInv
  <2>4. RemovalInv' /\ RemovalEndsSessions'
    BY <1>4 DEF Restart, RemovalInv, RemovalEndsSessions
  <2>5. Requests'
    BY <1>4, <2>1, RequestsFrame DEF Restart
  <2> QED
    BY <2>2, <2>3, <2>4, <2>5
<1> QED
  BY <1>1, <1>2, <1>3, <1>4 DEF WorkerStep

\* The two TTLs keep it: the gateway's ends a session with an excuse, the back
\* end's loses an image.
LEMMA TTLStepInv ==
  ASSUME IInv, NEW i \in Image, Expire(i) \/ Evict(i)
  PROVE  Sessions' /\ Requests'
<1>0. TypeOK /\ Sessions /\ Requests
  BY DEF IInv, Sessions, Requests
<1>1. ASSUME Expire(i) PROVE Sessions' /\ Requests'
  <2>1. Sessions'
    BY <1>0, <1>1, EndSessionsInv DEF Expire
  <2>2. \A j \in Image : entries'[j] = IF j = i THEN NoWorker ELSE entries[j]
    BY <1>1 DEF Expire, Ended
  <2>3. Requests'
    BY <1>0, <1>1, <2>2, RequestsFrame DEF Expire
  <2> QED
    BY <2>1, <2>3
<1>2. ASSUME Evict(i) PROVE Sessions' /\ Requests'
  <2>1. \A j \in Image : lost'[j] = IF j = i THEN "ttl" ELSE lost[j]
    BY <1>0, <1>2 DEF Evict, TypeOK
  <2>2. UploadInv'
    BY <1>0, <1>2, <2>1 DEF Evict, Sessions, UploadInv
  <2>3. ExcuseInv' /\ RemovalInv' /\ RemovalEndsSessions'
    BY <1>0, <1>2 DEF Evict, Sessions, ExcuseInv, RemovalInv, RemovalEndsSessions
  <2>4. Requests'
    BY <1>0, <1>2, <2>1, RequestsFrame DEF Evict
  <2> QED
    BY <2>2, <2>3, <2>4 DEF Sessions
<1> QED
  BY <1>1, <1>2

\* Every step of the gateway and the back ends keeps the invariant.
LEMMA NextIInv == IInv /\ [Next]_vars => IInv'
<1> SUFFICES ASSUME IInv, [Next]_vars PROVE IInv'
  OBVIOUS
<1>1. TypeOK'
  BY NextTypeOK DEF IInv
<1>2. CASE UNCHANGED vars
  <2>1. TypeOK /\ Sessions /\ Requests
    BY DEF IInv, Sessions, Requests
  <2>2. Sessions'
    BY <1>2, <2>1, SessionsFrame DEF vars
  <2>3. Requests'
    BY <1>2, <2>1, RequestsFrame DEF vars
  <2> QED
    BY <1>1, <2>2, <2>3 DEF IInv, Sessions, Requests
<1>3. CASE Next
  BY <1>1, <1>3, UploadStepInv, SegmentStepInv, WorkerStepInv, TTLStepInv
  DEF Next, IInv, Sessions, Requests
<1> QED
  BY <1>2, <1>3

\* The invariant holds in every reachable state.
THEOREM Invariance == Spec => []IInv
BY InitIInv, NextIInv, PTL DEF Spec

\* For any number of workers, images and requests: 404 means that the home
\* of the image lost it.
THEOREM NotFoundIsExplained == Spec => []NotFoundExplained
<1>1. IInv => NotFoundExplained
  BY DEF IInv
<1> QED
  BY <1>1, Invariance, PTL

\* 410 and 404 are final: neither the session nor the image comes back.
THEOREM GoneStaysGone == Spec => []GoneIsFinal
<1>1. IInv => GoneIsFinal
  BY DEF IInv
<1> QED
  BY <1>1, Invariance, PTL

\* 410 has a cause: expiry, or a worker that was out.
THEOREM GoneHasCause == Spec => []GoneIsExcused
<1>1. IInv => GoneIsExcused
  BY DEF IInv, TypeOK, SegmentInv, ExcuseInv, GoneIsFinal, GoneIsExcused
<1> QED
  BY <1>1, Invariance, PTL

\* No session survives the removal of its worker.
THEOREM RemovalIsComplete == Spec => []RemovalEndsSessions
<1>1. IInv => RemovalEndsSessions
  BY DEF IInv
<1> QED
  BY <1>1, Invariance, PTL

-----------------------------------------------------------------------------
(* Refinement of the abstract map of sessions. *)

\* A step that leaves uploads and sessions alone is a stutter of the map.
LEMMA QuietStep ==
  UNCHANGED <<entries, upload>> => UNCHANGED Map!vars
BY DEF Map!vars

\* A step that ends the sessions of S, and leaves uploads alone, ends them in
\* the map.
LEMMA EndingStep ==
  ASSUME IInv, NEW S \in SUBSET Image, \A i \in S : entries[i] # NoWorker,
         entries' = Ended(S), UNCHANGED upload
  PROVE  Map!End(S)
<1>1. entries' = [i \in Image |-> IF i \in S THEN NoWorker ELSE entries[i]]
  BY DEF Ended
<1>2. \A i \in S : upload[i] = "bound"
  BY DEF IInv, UploadInv
<1>3. {i \in Image : upload'[i] = "bound" /\ entries'[i] = NoWorker}
        = {i \in Image : upload[i] = "bound" /\ entries[i] = NoWorker} \union S
  BY <1>1, <1>2
<1> QED
  BY <1>1, <1>3 DEF Map!End

\* Every step maps to a step of the map or to a stutter.
LEMMA NextRefines == IInv /\ IInv' /\ [Next]_vars => [Map!Next]_(Map!vars)
<1> SUFFICES ASSUME IInv, IInv', [Next]_vars PROVE Map!Next \/ UNCHANGED Map!vars
  OBVIOUS
<1>0. TypeOK /\ UploadInv /\ SegmentInv
  BY DEF IInv
<1>1. ASSUME NEW S \in SUBSET Image, \A i \in S : entries[i] # NoWorker,
             entries' = Ended(S), UNCHANGED upload
      PROVE  Map!Next
  BY <1>1, EndingStep DEF Map!Next
<1>2. ASSUME NEW i \in Image, UploadStep(i) PROVE Map!Next \/ UNCHANGED Map!vars
  <2>1. CASE Bind(i)
    <3>1. entries[i] = NoWorker /\ home[i] \in Worker /\ home[i] # NoWorker
      BY <1>0, <2>1, NamesAssumption DEF Bind, UploadInv
    <3>2. {j \in Image : upload'[j] = "bound" /\ entries'[j] = NoWorker}
            = {j \in Image : upload[j] = "bound" /\ entries[j] = NoWorker}
      <4>1. entries'[i] = home[i] /\ upload[i] = "stored"
        BY <1>0, <2>1 DEF Bind, TypeOK
      <4>2. \A j \in Image \ {i} : upload'[j] = upload[j] /\ entries'[j] = entries[j]
        BY <1>0, <2>1 DEF Bind, TypeOK
      <4> QED
        BY <3>1, <4>1, <4>2
    <3>3. Map!Bind(i, home[i])
      BY <2>1, <3>1, <3>2 DEF Bind, Map!Bind
    <3> QED
      BY <3>1, <3>3 DEF Map!Next
  <2>2. CASE ~Bind(i)
    <3>1. UNCHANGED entries /\ \A j \in Image : upload'[j] = "bound" <=> upload[j] = "bound"
      BY <1>0, <1>2, <2>2 DEF UploadStep, RouteUpload, StoreImage, UploadFails, TypeOK
    <3>2. {j \in Image : upload'[j] = "bound" /\ entries'[j] = NoWorker}
            = {j \in Image : upload[j] = "bound" /\ entries[j] = NoWorker}
      BY <3>1
    <3> QED
      BY <3>1, <3>2 DEF Map!vars
  <2> QED
    BY <2>1, <2>2
<1>3. ASSUME NEW i \in Image, Expire(i) PROVE Map!Next
  BY <1>1, <1>3 DEF Expire
<1>4. ASSUME NEW q \in Request, SegmentStep(q) PROVE Map!Next \/ UNCHANGED Map!vars
  <2>1. CASE DeleteOrphan(q)
    <3>1. seg[q].image \in Image
      BY <1>0, <2>1 DEF DeleteOrphan, SegmentInv
    <3>2. CASE entries[seg[q].image] = NoWorker
      <4>1. entries' = entries /\ upload' = upload
        BY <1>0, <2>1, <3>1, <3>2 DEF DeleteOrphan, Ended, TypeOK
      <4> QED
        BY <4>1, QuietStep
    <3>3. CASE entries[seg[q].image] # NoWorker
      BY <1>1, <2>1, <3>1, <3>3 DEF DeleteOrphan
    <3> QED
      BY <3>2, <3>3
  <2>2. CASE ~DeleteOrphan(q)
    BY <1>4, <2>2, QuietStep DEF SegmentStep, Lookup, CheckHealthy, Refuse, Answer
  <2> QED
    BY <2>1, <2>2
<1>5. ASSUME NEW w \in Worker, WorkerStep(w) PROVE Map!Next \/ UNCHANGED Map!vars
  <2>1. CASE Drop(w)
    BY <1>1, <2>1, NamesAssumption DEF Drop, SessionsOf
  <2>2. CASE ~Drop(w)
    BY <1>5, <2>2, QuietStep DEF WorkerStep, MarkDown, MarkUp, Restart
  <2> QED
    BY <2>1, <2>2
<1>6. ASSUME NEW i \in Image, Evict(i) PROVE UNCHANGED Map!vars
  BY <1>6, QuietStep DEF Evict
<1>7. ASSUME UNCHANGED vars PROVE UNCHANGED Map!vars
  BY <1>7, QuietStep DEF vars
<1> QED
  BY <1>2, <1>3, <1>4, <1>5, <1>6, <1>7 DEF Next

\* The gateway's sessions, with every way they can end, implement the
\* abstract map: bound once, to one worker, and never again after their end.
THEOREM RefinesMap == Spec => ImplementsMap
<1>1. Init => Map!Init
  BY DEF Init, Map!Init
<1>2. IInv /\ IInv' /\ [Next]_vars => [Map!Next]_(Map!vars)
  BY NextRefines
<1> QED
  BY <1>1, <1>2, Invariance, PTL DEF Spec, ImplementsMap, Map!Spec

-----------------------------------------------------------------------------
(* Refinement of the abstract store of images. *)

\* A step that leaves caches and losses alone is a stutter of the store.
LEMMA SameImages ==
  UNCHANGED <<stored, lost>> => UNCHANGED Images!vars
BY DEF Images!vars

\* A step that takes the images of S out of their caches and notes them as
\* lost loses them in the store.
LEMMA LosingStep ==
  ASSUME NEW S \in SUBSET stored, stored \subseteq Image, stored' = stored \ S,
         \A i \in Image : lost'[i] # "no" <=> i \in S \/ lost[i] # "no"
  PROVE  Images!Next
<1>1. {i \in Image : lost'[i] # "no"} = {i \in Image : lost[i] # "no"} \union S
  OBVIOUS
<1> QED
  BY <1>1 DEF Images!Next, Images!Lose

\* Every step maps to a step of the store or to a stutter.
LEMMA NextKeepsImages == IInv /\ [Next]_vars => [Images!Next]_(Images!vars)
<1> SUFFICES ASSUME IInv, [Next]_vars PROVE Images!Next \/ UNCHANGED Images!vars
  OBVIOUS
<1>0. TypeOK /\ UploadInv
  BY DEF IInv
<1>1. ASSUME NEW i \in Image, StoreImage(i) PROVE Images!Next
  <2>1. i \notin stored \union {j \in Image : lost[j] # "no"}
    BY <1>0, <1>1 DEF StoreImage, UploadInv
  <2>2. stored' = (stored \ {}) \union {i} /\ lost' = lost
    BY <1>1 DEF StoreImage
  <2>3. Images!Keep(i, {})
    BY <2>1, <2>2 DEF Images!Keep
  <2> QED
    BY <2>3 DEF Images!Next
<1>2. ASSUME NEW w \in Worker, Restart(w) PROVE Images!Next
  <2> DEFINE S == {i \in stored : home[i] = w}
  <2>1. stored \subseteq Image /\ stored' = stored \ S
    BY <1>0, <1>2 DEF Restart, Homed, TypeOK
  <2>2. \A i \in Image : lost'[i] # "no" <=> i \in S \/ lost[i] # "no"
    BY <1>2 DEF Restart
  <2> QED
    BY <2>1, <2>2, LosingStep
<1>3. ASSUME NEW i \in Image, Evict(i) PROVE Images!Next
  <2>1. \A j \in Image : lost'[j] # "no" <=> j \in {i} \/ lost[j] # "no"
    BY <1>0, <1>3 DEF Evict, TypeOK
  <2>2. stored \subseteq Image /\ {i} \in SUBSET stored /\ stored' = stored \ {i}
    BY <1>0, <1>3 DEF Evict, TypeOK
  <2> QED
    BY <2>1, <2>2, LosingStep
<1>4. CASE UNCHANGED <<stored, lost>>
  BY <1>4, SameImages
<1>5. ASSUME NEW i \in Image, UploadStep(i) \/ Expire(i)
      PROVE  StoreImage(i) \/ UNCHANGED <<stored, lost>>
  BY <1>5 DEF UploadStep, RouteUpload, Bind, UploadFails, Expire
<1>6. ASSUME NEW q \in Request, SegmentStep(q) PROVE UNCHANGED <<stored, lost>>
  BY <1>6 DEF SegmentStep, Lookup, CheckHealthy, DeleteOrphan, Refuse, Answer
<1>7. ASSUME NEW w \in Worker, WorkerStep(w) PROVE Restart(w) \/ UNCHANGED <<stored, lost>>
  BY <1>7 DEF WorkerStep, MarkDown, Drop, MarkUp
<1>8. UNCHANGED vars => UNCHANGED <<stored, lost>>
  BY DEF vars
<1> QED
  BY <1>1, <1>2, <1>3, <1>4, <1>5, <1>6, <1>7, <1>8 DEF Next

\* Seen from the gateway, the back ends keep an image once and lose it for
\* good: Backend proves the same of the cache it models in detail.
THEOREM RefinesStore == Spec => ImplementsStore
<1>1. Init => Images!Init
  BY DEF Init, Images!Init
<1> QED
  BY <1>1, NextKeepsImages, Invariance, PTL DEF Spec, ImplementsStore, Images!Spec
=============================================================================
