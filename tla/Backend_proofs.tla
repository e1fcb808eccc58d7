---------------------------- MODULE Backend_proofs ----------------------------
(***************************************************************************)
(* Proofs about Backend, for any number of requests and images, any        *)
(* inference limit and any TTL.                                            *)
(***************************************************************************)
EXTENDS Backend, TLAPS

\* A time is not the mark of an image that is not cached.
LEMMA Times ==
  ASSUME TypeOK
  PROVE  /\ now \in Nat /\ now <= MaxTime /\ swept \in Nat
         /\ MaxTime \in Nat /\ TTL \in Nat
         /\ NotCached = MaxTime + 1
         /\ 0 .. MaxTime \subseteq 0 .. NotCached /\ NotCached \in 0 .. NotCached
         /\ \A i \in Image : cache[i] \in Nat
<1>1. now \in 0 .. MaxTime /\ swept \in 0 .. MaxTime /\ cache \in [Image -> 0 .. NotCached]
  BY DEF TypeOK
<1>2. MaxTime \in Nat /\ TTL \in Nat /\ NotCached = MaxTime + 1
  BY BackendAssumption DEF NotCached
<1> QED
  BY <1>1, <1>2

\* The size of the semaphore.
LEMMA Slots ==
  /\ MaxInflight \in Nat /\ MaxInflight > 0
  /\ MaxInflight - 1 \in 0 .. MaxInflight /\ MaxInflight \in 0 .. MaxInflight
  /\ MaxInflight - 1 + 1 = MaxInflight
BY BackendAssumption

\* The coroutine that runs has the semaphore alone or not at all.
LEMMA FreeWhileRunning ==
  ASSUME LoopInv, NEW r \in Request, loop = r
  PROVE  free = IF pc[r] \in Holding THEN MaxInflight - 1 ELSE MaxInflight
BY DEF LoopInv

\* While the loop is idle the semaphore is free.
LEMMA FreeWhileIdle ==
  ASSUME LoopInv, loop = Nobody
  PROVE  free = MaxInflight
BY BackendAssumption DEF LoopInv

-----------------------------------------------------------------------------
(* Every action keeps the invariant.                                          *)

LEMMA InitIInv == Init => IInv
<1> SUFFICES ASSUME Init PROVE IInv
  OBVIOUS
<1>1. TypeOK
  BY BackendAssumption DEF Init, TypeOK, NotCached
<1>2. LoopInv
  BY BackendAssumption DEF Init, LoopInv, Running, Holding
<1>3. ModelInv
  BY DEF Init, ModelInv, Running, Holding
<1>4. CacheInv
  BY DEF Init, CacheInv, Cached
<1> QED
  BY <1>1, <1>2, <1>3, <1>4 DEF IInv

LEMMA TickStep == IInv /\ Tick => IInv'
<1> SUFFICES ASSUME IInv, Tick PROVE IInv'
  OBVIOUS
<1> USE DEF IInv, Tick, stores, model
<1>1. TypeOK'
  <2>1. now' \in 0 .. MaxTime
    BY Times
  <2> QED
    BY <2>1 DEF TypeOK, NotCached
<1>2. LoopInv' /\ ModelInv'
  BY DEF LoopInv, ModelInv
<1>3. CacheInv'
  BY Times DEF CacheInv, Cached, Expired
<1> QED
  BY <1>1, <1>2, <1>3

LEMMA BeginUploadStep ==
  ASSUME IInv, NEW r \in Request, BeginUpload(r)
  PROVE  IInv'
<1> USE DEF IInv, BeginUpload, Goto, stores, model
<1>1. TypeOK'
  BY DEF TypeOK
<1>2. LoopInv'
  BY BackendAssumption DEF TypeOK, LoopInv, Running, Holding
<1>3. ModelInv'
  BY DEF TypeOK, ModelInv, Running, Holding
<1>4. CacheInv'
  BY DEF CacheInv, Cached, Expired
<1> QED
  BY <1>1, <1>2, <1>3, <1>4

LEMMA BadFileStep ==
  ASSUME IInv, NEW r \in Request, BadFile(r)
  PROVE  IInv'
<1> USE DEF IInv, BadFile, Finish, Goto, stores, model
<1>1. TypeOK'
  BY DEF TypeOK
<1>2. LoopInv'
  BY BackendAssumption DEF TypeOK, LoopInv, Running, Holding
<1>3. ModelInv'
  BY DEF TypeOK, ModelInv, Running, Holding
<1>4. CacheInv'
  BY DEF CacheInv, Cached, Expired
<1> QED
  BY <1>1, <1>2, <1>3, <1>4

LEMMA StoreStep ==
  ASSUME IInv, NEW r \in Request, NEW i \in Image, Store(r, i)
  PROVE  IInv'
<1>0. /\ now # NotCached /\ ~(now > now + TTL) /\ now <= now
      /\ now \in Nat
  BY Times DEF IInv
<1> USE DEF IInv, Store, Goto, model
<1>1. TypeOK'
  BY Times DEF TypeOK
<1>2. LoopInv'
  BY BackendAssumption DEF TypeOK, LoopInv, Running, Holding
<1>3. ModelInv'
  BY DEF TypeOK, ModelInv, Running, Holding
<1>4. CacheInv'
  <2>1. swept' = now /\ now' = now /\ NotCached' = NotCached
    BY DEF NotCached
  <2>2. \A j \in Image : Cached(j) => cache[j] <= now
    BY DEF CacheInv
  <2>3. cache'[i] = now
    BY DEF TypeOK
  <2>4. \A j \in Image \ {i} : Cached(j)' => Cached(j) /\ cache'[j] = cache[j] /\ ~Expired(j, now)
    BY DEF TypeOK, Cached, NotCached
  <2>5. ASSUME NEW j \in Image, Cached(j)'
        PROVE  cache'[j] <= now /\ ~(now > cache'[j] + TTL)
    BY <1>0, <2>2, <2>3, <2>4, <2>5 DEF Expired
  <2>6. \A j \in Image : Cached(j)' => j \in issued'
    BY <2>4 DEF Store, CacheInv
  <2> QED
    BY <1>0, <2>1, <2>5, <2>6 DEF CacheInv, Expired
<1> QED
  BY <1>1, <1>2, <1>3, <1>4

LEMMA GetStep ==
  ASSUME IInv, NEW r \in Request, NEW i \in Image, Get(r, i)
  PROVE  IInv'
<1> USE DEF IInv, Get, Finish, Goto, model
<1>1. TypeOK'
  BY Times DEF TypeOK
<1>2. LoopInv'
  <2>1. free' = MaxInflight /\ \A q \in Request : pc[q] \notin Running
    BY FreeWhileIdle, BackendAssumption DEF LoopInv
  <2>2. \A q \in Request \ {r} : pc'[q] = pc[q]
    BY DEF TypeOK
  <2>3. \/ pc'[r] = "set image" /\ loop' = r
        \/ pc'[r] = "done" /\ loop' = Nobody
    BY DEF TypeOK
  <2>4. pc'[r] \notin Holding /\ (pc'[r] \in Running <=> loop' = r)
    BY <2>3, BackendAssumption DEF Running, Holding
  <2>5. \A q \in Request \ {r} : pc'[q] \notin Running /\ loop' # q
    BY <2>1, <2>2, <2>3, BackendAssumption
  <2> QED
    BY <2>1, <2>4, <2>5 DEF LoopInv, Running
<1>3. ModelInv'
  BY DEF TypeOK, ModelInv, Running, Holding
<1>4. CacheInv'
  BY Times DEF TypeOK, CacheInv, Cached, Expired
<1> QED
  BY <1>1, <1>2, <1>3, <1>4

LEMMA SetImageStep ==
  ASSUME IInv, NEW r \in Request, NEW ok \in BOOLEAN, SetImage(r, ok)
  PROVE  IInv'
<1> USE DEF IInv, SetImage, AfterSet, Goto, stores
<1>0. image[r] \in Image /\ pc[r] \in Running /\ loop = r
  BY DEF TypeOK, ModelInv, Running, Holding
<1>1. TypeOK'
  BY <1>0 DEF TypeOK
<1>2. LoopInv'
  <2>1. free = IF pc[r] = "embed" THEN MaxInflight - 1 ELSE MaxInflight
    BY FreeWhileRunning DEF Holding
  <2>2. pc'[r] \in Running /\ (pc'[r] \in Holding <=> pc[r] = "embed")
    BY DEF TypeOK, Running, Holding
  <2>3. \A q \in Request : pc'[q] \in Running <=> pc[q] \in Running
    BY <1>0, <2>2 DEF TypeOK
  <2> QED
    BY <1>0, <2>1, <2>2, <2>3 DEF LoopInv
<1>3. ModelInv'
  <2>1. embedding' \in {current', NoImage}
    BY <1>0 DEF ModelInv
  <2>2. \A q \in Request \ {r} : pc[q] \notin Running
    BY DEF LoopInv
  <2>3. mask[r] = NoImage
    BY DEF ModelInv
  <2>4. pc'[r] \in {"acquire segment", "predict"} => current' = image[r]
    BY DEF TypeOK
  <2> QED
    BY <1>0, <2>1, <2>2, <2>3, <2>4 DEF TypeOK, ModelInv, Running, Holding
<1>4. CacheInv'
  BY DEF CacheInv, Cached, Expired
<1> QED
  BY <1>1, <1>2, <1>3, <1>4

\* The semaphore is always free for the coroutine that comes to it.
LEMMA AcquireTakes ==
  ASSUME IInv, NEW r \in Request, Acquire(r)
  PROVE  /\ loop = r
         /\ free = MaxInflight
         /\ free' = MaxInflight - 1
         /\ loop' = r
         /\ pc' = [pc EXCEPT ![r] = IF pc[r] = "acquire upload" THEN "embed" ELSE "predict"]
<1>1. loop = r
  BY DEF IInv, LoopInv, Acquire, Running
<1>2. free = MaxInflight
  BY <1>1, FreeWhileRunning DEF IInv, Acquire, Holding
<1> QED
  BY <1>1, <1>2, Slots DEF Acquire, Goto

LEMMA AcquireStep ==
  ASSUME IInv, NEW r \in Request, Acquire(r)
  PROVE  IInv'
<1> USE DEF IInv
<1>0. UNCHANGED <<now, cache, issued, swept, current, embedding, image, answer, mask>>
  BY DEF Acquire, stores, model
<1>a. pc[r] \in {"acquire upload", "acquire segment"}
  BY DEF Acquire
<1>1. TypeOK'
  BY <1>0, AcquireTakes, Slots DEF TypeOK
<1>2. LoopInv'
  <2>1. pc'[r] \in Holding /\ pc[r] \in Running /\ \A q \in Request \ {r} : pc'[q] = pc[q]
    BY <1>a, AcquireTakes DEF TypeOK, Running, Holding
  <2>2. loop = r /\ loop' = r /\ free' = MaxInflight - 1
    BY AcquireTakes
  <2> QED
    BY <2>1, <2>2 DEF LoopInv, Running
<1>3. ModelInv'
  BY <1>0, <1>a, AcquireTakes DEF TypeOK, ModelInv, Running, Holding
<1>4. CacheInv'
  BY <1>0 DEF CacheInv, Cached, Expired
<1> QED
  BY <1>1, <1>2, <1>3, <1>4

LEMMA PredictStep ==
  ASSUME IInv, NEW r \in Request, Predict(r)
  PROVE  IInv'
<1> USE DEF IInv, Predict, Goto, stores, model
<1>1. TypeOK'
  BY DEF TypeOK
<1>2. LoopInv'
  BY DEF TypeOK, LoopInv, Running, Holding
<1>3. ModelInv'
  BY DEF TypeOK, ModelInv, Running, Holding
<1>4. CacheInv'
  BY DEF CacheInv, Cached, Expired
<1> QED
  BY <1>1, <1>2, <1>3, <1>4

LEMMA LeaveStep ==
  ASSUME IInv, NEW r \in Request, Leave(r)
  PROVE  IInv'
<1> USE DEF IInv, Leave, Finish, Goto, stores, model
<1>0. free' = MaxInflight
  BY FreeWhileRunning, Slots DEF Holding
<1>1. TypeOK'
  BY <1>0, Slots DEF TypeOK
<1>2. LoopInv'
  BY <1>0, BackendAssumption DEF TypeOK, LoopInv, Running, Holding
<1>3. ModelInv'
  BY DEF TypeOK, ModelInv, Running, Holding
<1>4. CacheInv'
  BY DEF CacheInv, Cached, Expired
<1> QED
  BY <1>1, <1>2, <1>3, <1>4

LEMMA StutterStep == IInv /\ UNCHANGED vars => IInv'
BY DEF vars, stores, model, IInv, TypeOK, LoopInv, ModelInv, CacheInv, Cached, Expired

-----------------------------------------------------------------------------
(* The theorems.                                                              *)

\* For any requests, images and limits: a coroutine that holds the semaphore
\* keeps the loop, and the noted image is its own until it predicted.
THEOREM Invariance == Spec => []IInv
<1>1. IInv /\ [Next]_vars => IInv'
  <2> SUFFICES ASSUME IInv, [Next]_vars PROVE IInv'
    OBVIOUS
  <2>1. ASSUME NEW r \in Request, Step(r) PROVE IInv'
    BY <2>1, BadFileStep, StoreStep, SetImageStep, AcquireStep, PredictStep, LeaveStep DEF Step
  <2>2. ASSUME NEW r \in Request, BeginUpload(r) PROVE IInv'
    BY <2>2, BeginUploadStep
  <2>3. ASSUME NEW r \in Request, NEW i \in Image, Get(r, i) PROVE IInv'
    BY <2>3, GetStep
  <2>4. CASE Tick \/ UNCHANGED vars
    BY <2>4, TickStep, StutterStep
  <2> QED
    BY <2>1, <2>2, <2>3, <2>4 DEF Next
<1> QED
  BY <1>1, InitIInv, PTL DEF Spec

\* The type invariant of the back end.
THEOREM TypeCorrect == Spec => []TypeOK
BY Invariance, PTL DEF IInv

\* sam_service.predict never answers with masks of another request's image,
\* however many requests overlap and whatever set_image calls failed.
THEOREM ImageIsRight == Spec => []RightImage
<1>1. IInv => RightImage
  BY DEF IInv, ModelInv, RightImage
<1> QED
  BY <1>1, Invariance, PTL

\* Nobody ever waits for inference_limit, whatever its size.
THEOREM NobodyWaits == Spec => []NeverWaits
<1>1. IInv => NeverWaits
  BY DEF IInv, LoopInv, Running, NeverWaits
<1> QED
  BY <1>1, Invariance, PTL

\* _cleanup_expired leaves nothing that had expired when it ran.
THEOREM CacheIsFresh == Spec => []CacheFresh
<1>1. IInv => CacheFresh
  BY DEF IInv, CacheInv, CacheFresh
<1> QED
  BY <1>1, Invariance, PTL

\* store and get of other requests take no image out before its TTL is over.
THEOREM ImagesAreKept == Spec => KeptForTTL
<1> DEFINE Kept == \A i \in Image : Cached(i) /\ cache'[i] = NotCached => Expired(i, now)
<1>1. IInv /\ [Next]_vars => [Kept]_vars
  <2> SUFFICES ASSUME IInv, Next PROVE Kept
    BY DEF Kept
  <2>1. ASSUME NEW r \in Request, NEW i \in Image, Store(r, i) PROVE Kept
    <3>1. now # NotCached
      BY Times DEF IInv
    <3> QED
      BY <2>1, <3>1 DEF IInv, TypeOK, Store, Cached
  <2>2. ASSUME NEW r \in Request, NEW i \in Image, Get(r, i) PROVE Kept
    BY <2>2 DEF IInv, TypeOK, Get, Cached
  <2>3. CASE UNCHANGED cache
    BY <2>3 DEF Cached
  <2>4. ASSUME NEW r \in Request, Step(r) PROVE (\E i \in Image : Store(r, i)) \/ UNCHANGED cache
    BY <2>4 DEF Step, BadFile, SetImage, Acquire, Predict, Leave, stores
  <2>5. Tick \/ (\E r \in Request : BeginUpload(r)) => UNCHANGED cache
    BY DEF Tick, BeginUpload, stores
  <2> QED
    BY <2>1, <2>2, <2>3, <2>4, <2>5 DEF Next
<1> QED
  BY <1>1, Invariance, PTL DEF Spec, KeptForTTL

-----------------------------------------------------------------------------
(* Refinement of the abstract store of images. *)

\* A step that leaves the cache and the ids alone is a stutter of the store.
LEMMA SameImages ==
  UNCHANGED <<cache, issued>> => UNCHANGED Images!vars
BY DEF Images!vars, Cached, NotCached

\* image_service.store keeps the new image and loses those that had expired.
LEMMA StoreKeeps ==
  ASSUME IInv, NEW r \in Request, NEW i \in Image, Store(r, i)
  PROVE  Images!Next
<1> DEFINE S == {j \in Image : Cached(j) /\ Expired(j, now)}
           kept == {j \in Image : Cached(j)}
           gone == {j \in issued : ~Cached(j)}
<1>0. issued \subseteq Image /\ (\A j \in Image : Cached(j) => j \in issued)
  BY DEF IInv, TypeOK, CacheInv
<1>1. i \notin kept \union gone
  BY <1>0 DEF Store
<1>2. now # NotCached /\ NotCached' = NotCached
  BY Times DEF IInv, NotCached
<1>3. \A j \in Image : Cached(j)' <=> j = i \/ (Cached(j) /\ ~Expired(j, now))
  BY <1>2 DEF Store, Cached
<1>4. kept' = (kept \ S) \union {i}
  BY <1>3
<1>5. gone' = gone \union S
  BY <1>0, <1>1, <1>3 DEF Store
<1>6. Images!Keep(i, S)
  BY <1>1, <1>4, <1>5 DEF Images!Keep
<1> QED
  BY <1>6 DEF Images!Next

\* image_service.get loses at most the image it was asked for.
LEMMA GetKeeps ==
  ASSUME IInv, NEW r \in Request, NEW i \in Image, Get(r, i)
  PROVE  Images!Next \/ UNCHANGED Images!vars
<1>0. issued \subseteq Image /\ (\A j \in Image : Cached(j) => j \in issued) /\ issued' = issued
  BY DEF IInv, TypeOK, CacheInv, Get
<1>1. CASE UNCHANGED cache
  BY <1>0, <1>1, SameImages
<1>2. CASE cache' = [cache EXCEPT ![i] = NotCached]
  <2> DEFINE S == {j \in Image : Cached(j) /\ j = i}
             kept == {j \in Image : Cached(j)}
             gone == {j \in issued : ~Cached(j)}
  <2>1. \A j \in Image : Cached(j)' <=> Cached(j) /\ j # i
    BY <1>2 DEF IInv, TypeOK, Cached, NotCached
  <2>2. kept' = kept \ S
    BY <2>1
  <2>3. gone' = gone \union S
    BY <1>0, <2>1
  <2>4. Images!Lose(S)
    BY <2>2, <2>3 DEF Images!Lose
  <2> QED
    BY <2>4 DEF Images!Next
<1> QED
  BY <1>1, <1>2 DEF Get

\* The cache of one back end, for any TTL and any number of requests: an image
\* that was lost is never found again, so 404 is final.
THEOREM RefinesStore == Spec => ImplementsStore
<1>1. Init => Images!Init
  BY DEF Init, Images!Init, Cached
<1>2. IInv /\ [Next]_vars => [Images!Next]_(Images!vars)
  <2> SUFFICES ASSUME IInv, [Next]_vars PROVE Images!Next \/ UNCHANGED Images!vars
    OBVIOUS
  <2>1. ASSUME NEW r \in Request, NEW i \in Image, Store(r, i) PROVE Images!Next
    BY <2>1, StoreKeeps
  <2>2. ASSUME NEW r \in Request, NEW i \in Image, Get(r, i)
        PROVE  Images!Next \/ UNCHANGED Images!vars
    BY <2>2, GetKeeps
  <2>3. CASE UNCHANGED <<cache, issued>>
    BY <2>3, SameImages
  <2>4. ASSUME NEW r \in Request, Step(r)
        PROVE  (\E i \in Image : Store(r, i)) \/ UNCHANGED <<cache, issued>>
    BY <2>4 DEF Step, BadFile, SetImage, Acquire, Predict, Leave, stores
  <2>5. Tick \/ (\E r \in Request : BeginUpload(r)) => UNCHANGED <<cache, issued>>
    BY DEF Tick, BeginUpload, stores
  <2>6. UNCHANGED vars => UNCHANGED <<cache, issued>>
    BY DEF vars, stores
  <2> QED
    BY <2>1, <2>2, <2>3, <2>4, <2>5, <2>6 DEF Next
<1> QED
  BY <1>1, <1>2, Invariance, PTL DEF Spec, ImplementsStore, Images!Spec
=============================================================================
