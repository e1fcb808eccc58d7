------------------------------- MODULE Backend -------------------------------
(***************************************************************************)
(* One back end process: the coroutines of POST /upload and POST /segment  *)
(* on the asyncio event loop, the image cache, the SAM predictor with its  *)
(* one current embedding, and the semaphore around inference.              *)
(*                                                                         *)
(* A coroutine runs until it awaits something that is not ready: the file  *)
(* to be read, or the semaphore when it is taken.  Everything between two  *)
(* such points blocks the loop.  The predictor (sam2) is external: its     *)
(* set_image may raise, and then has its old embedding or none; predict    *)
(* raises without one.                                                     *)
(***************************************************************************)
EXTENDS Naturals

CONSTANTS
    Request, Image,
    NoImage,        \* None
    Nobody,         \* the event loop is idle
    MaxInflight,    \* settings.max_inflight
    TTL,            \* settings.image_cache_ttl, in clock ticks
    MaxTime         \* bound: the clock stops here

ASSUME BackendAssumption ==
    /\ MaxInflight \in Nat \ {0}
    /\ TTL \in Nat /\ MaxTime \in Nat
    /\ NoImage \notin Image /\ Nobody \notin Request

VARIABLES
    now,        \* time.time()
    cache,      \* image -> created_at, or NotCached
    issued,     \* the image ids made so far
    current,    \* sam_service._current_image_id
    embedding,  \* the image whose embedding the predictor holds
    free,       \* inference_limit's value
    loop,       \* the coroutine that runs, or Nobody
    pc,         \* request -> where its coroutine is
    image,      \* request -> the image it is about
    answer,     \* request -> the status answered
    mask,       \* request -> the image its masks were predicted on
    swept       \* time of the last store (history)

NotCached == MaxTime + 1
stores == <<cache, issued, swept>>
model == <<current, embedding>>
vars == <<now, stores, model, free, loop, pc, image, answer, mask>>

Init ==
    /\ now = 0
    /\ cache = [i \in Image |-> NotCached]
    /\ issued = {}
    /\ current = NoImage
    /\ embedding = NoImage
    /\ free = MaxInflight
    /\ loop = Nobody
    /\ pc = [r \in Request |-> "new"]
    /\ image = [r \in Request |-> NoImage]
    /\ answer = [r \in Request |-> "none"]
    /\ mask = [r \in Request |-> NoImage]
    /\ swept = 0

Cached(i) == cache[i] # NotCached
Expired(i, t) == t > cache[i] + TTL     \* now - created_at > ttl

Goto(r, at) == pc' = [pc EXCEPT ![r] = at]

\* The coroutine ends; the loop is free for the next one.
Finish(r, status) ==
    /\ Goto(r, "done")
    /\ answer' = [answer EXCEPT ![r] = status]
    /\ loop' = Nobody

Tick ==
    /\ now < MaxTime
    /\ now' = now + 1
    /\ UNCHANGED <<stores, model, free, loop, pc, image, answer, mask>>

-----------------------------------------------------------------------------
(* POST /upload. *)

\* Checks before the first await; then file.read is awaited.
BeginUpload(r) ==
    /\ loop = Nobody
    /\ pc[r] = "new"
    /\ Goto(r, "reading")
    /\ UNCHANGED <<now, stores, model, free, loop, image, answer, mask>>

\* The file was read; it is too large (413) or not an image (500).
BadFile(r) ==
    /\ loop = Nobody
    /\ pc[r] = "reading"
    /\ \E status \in {"rejected", "failed"} : Finish(r, status)
    /\ UNCHANGED <<now, stores, model, free, image, mask>>

\* Mutant: nothing is cleaned up.
StoreOnly(r, i) ==
    /\ loop = Nobody
    /\ pc[r] = "reading"
    /\ i \notin issued
    /\ cache' = [cache EXCEPT ![i] = now]
    /\ issued' = issued \union {i}
    /\ swept' = now
    /\ image' = [image EXCEPT ![r] = i]
    /\ loop' = r
    /\ Goto(r, "acquire upload")
    /\ UNCHANGED <<now, model, free, answer, mask>>

\* Mutant: an image goes in the tick in which its TTL ends.
StoreAndEvict(r, i) ==
    /\ loop = Nobody
    /\ pc[r] = "reading"
    /\ i \notin issued
    /\ cache' = [j \in Image |-> IF j = i THEN now
                                 ELSE IF now >= cache[j] + TTL THEN NotCached ELSE cache[j]]
    /\ issued' = issued \union {i}
    /\ swept' = now
    /\ image' = [image EXCEPT ![r] = i]
    /\ loop' = r
    /\ Goto(r, "acquire upload")
    /\ UNCHANGED <<now, model, free, answer, mask>>

\* image_service.store: a fresh id, then _cleanup_expired.
Store(r, i) ==
    /\ loop = Nobody
    /\ pc[r] = "reading"
    /\ i \notin issued
    /\ cache' = [j \in Image |-> IF j = i THEN now
                                 ELSE IF Expired(j, now) THEN NotCached ELSE cache[j]]
    /\ issued' = issued \union {i}
    /\ swept' = now
    /\ image' = [image EXCEPT ![r] = i]
    /\ loop' = r
    /\ Goto(r, "acquire upload")
    /\ UNCHANGED <<now, model, free, answer, mask>>

-----------------------------------------------------------------------------
(* POST /segment. *)

\* image_service.get of any id a client may have: found, or 404, and an
\* expired entry is deleted on the way.
Get(r, i) ==
    /\ loop = Nobody
    /\ pc[r] = "new"
    /\ image' = [image EXCEPT ![r] = i]
    /\ IF Cached(i) /\ ~Expired(i, now)
       THEN Goto(r, "set image") /\ loop' = r /\ UNCHANGED <<cache, answer>>
       ELSE Finish(r, "not found") /\ cache' = [cache EXCEPT ![i] = NotCached]
    /\ UNCHANGED <<now, issued, swept, model, free, mask>>

-----------------------------------------------------------------------------
(* Both. *)

\* Where a coroutine goes after set_image returned or raised: segment calls it
\* before the semaphore, upload while it holds it.
AfterSet(at, ok) ==
    IF at = "set image" THEN IF ok THEN "acquire segment" ELSE "raised"
                        ELSE IF ok THEN "uploaded" ELSE "release raised"

\* Mutant: the id is noted before the embedding is computed.
SetImageAfterId(r, ok) ==
    /\ loop = r
    /\ pc[r] \in {"set image", "embed"}
    /\ current = image[r] => ok
    /\ current' = image[r]
    /\ IF ok
       THEN embedding' = IF current = image[r] THEN embedding ELSE image[r]
       ELSE embedding' \in {embedding, NoImage}
    /\ Goto(r, AfterSet(pc[r], ok))
    /\ UNCHANGED <<now, stores, free, loop, image, answer, mask>>

\* sam_service.set_image: skipped for the current id; the id is noted after
\* the embedding was computed, and not at all when the predictor raised.
SetImage(r, ok) ==
    /\ loop = r
    /\ pc[r] \in {"set image", "embed"}
    /\ current = image[r] => ok
    /\ IF ok
       THEN /\ current' = image[r]
            /\ embedding' = IF current = image[r] THEN embedding ELSE image[r]
       ELSE /\ embedding' \in {embedding, NoImage}
            /\ UNCHANGED current
    /\ Goto(r, AfterSet(pc[r], ok))
    /\ UNCHANGED <<now, stores, free, loop, image, answer, mask>>

\* async with inference_limit: taken at once when it is free, else awaited.
Acquire(r) ==
    /\ pc[r] \in {"acquire upload", "acquire segment"}
    /\ loop \in {r, Nobody}
    /\ IF free > 0
       THEN /\ free' = free - 1
            /\ loop' = r
            /\ Goto(r, IF pc[r] = "acquire upload" THEN "embed" ELSE "predict")
       ELSE /\ loop = r
            /\ loop' = Nobody
            /\ UNCHANGED <<free, pc>>
    /\ UNCHANGED <<now, stores, model, image, answer, mask>>

\* Mutant: predict is awaited in a thread, with the semaphore held.
PredictInThread(r) ==
    /\ loop \in {r, Nobody}
    /\ pc[r] = "predict"
    /\ \/ loop = r /\ loop' = Nobody /\ UNCHANGED <<pc, mask>>
       \/ /\ loop = Nobody
          /\ mask' = [mask EXCEPT ![r] = embedding]
          /\ Goto(r, IF embedding = NoImage THEN "release raised" ELSE "predicted")
          /\ loop' = r
    /\ UNCHANGED <<now, stores, model, free, image, answer>>

\* sam_service.predict on the embedding the predictor holds.
Predict(r) ==
    /\ loop = r
    /\ pc[r] = "predict"
    /\ \/ /\ embedding # NoImage
          /\ mask' = [mask EXCEPT ![r] = embedding]
          /\ Goto(r, "predicted")
       \/ /\ Goto(r, "release raised")       \* no embedding, or the model failed
          /\ UNCHANGED mask
    /\ UNCHANGED <<now, stores, model, free, loop, image, answer>>

\* Mutant: an exception leaves the semaphore taken.
LeaveUnlessRaised(r) ==
    /\ loop = r
    /\ pc[r] \in {"uploaded", "predicted", "release raised", "raised"}
    /\ free' = IF pc[r] \in {"raised", "release raised"} THEN free ELSE free + 1
    /\ Finish(r, IF pc[r] \in {"raised", "release raised"} THEN "failed" ELSE "ok")
    /\ UNCHANGED <<now, stores, model, image, mask>>

\* async with releases on every way out; the answer is 200, or 500 from the
\* exception handler.
Leave(r) ==
    /\ loop = r
    /\ pc[r] \in {"uploaded", "predicted", "release raised", "raised"}
    /\ free' = IF pc[r] = "raised" THEN free ELSE free + 1
    /\ Finish(r, IF pc[r] \in {"raised", "release raised"} THEN "failed" ELSE "ok")
    /\ UNCHANGED <<now, stores, model, image, mask>>

Step(r) ==
    \/ BadFile(r)
    \/ \E i \in Image : Store(r, i)
    \/ \E ok \in BOOLEAN : SetImage(r, ok)
    \/ Acquire(r)
    \/ Predict(r)
    \/ Leave(r)

Next ==
    \/ Tick
    \/ \E r \in Request :
          \/ Step(r)
          \/ BeginUpload(r)
          \/ \E i \in Image : Get(r, i)

Spec == Init /\ [][Next]_vars

\* The loop runs what is ready; the file was received before the handler was
\* called, so reading it ends.
FairSpec == Spec /\ \A r \in Request : WF_vars(Step(r))

-----------------------------------------------------------------------------
(* Properties. *)

\* Every variable has its type.
TypeOK ==
    /\ now \in 0 .. MaxTime
    /\ cache \in [Image -> 0 .. NotCached]
    /\ issued \subseteq Image
    /\ current \in Image \union {NoImage}
    /\ embedding \in Image \union {NoImage}
    /\ free \in 0 .. MaxInflight
    /\ loop \in Request \union {Nobody}
    /\ pc \in [Request -> {"new", "reading", "acquire upload", "embed", "uploaded", "set image",
                           "acquire segment", "predict", "predicted", "raised",
                           "release raised", "done"}]
    /\ image \in [Request -> Image \union {NoImage}]
    /\ answer \in [Request -> {"none", "ok", "rejected", "failed", "not found"}]
    /\ mask \in [Request -> Image \union {NoImage}]
    /\ swept \in 0 .. MaxTime

\* Masks are predicted on the image that was asked for, although set_image is
\* called outside the semaphore and may have failed before for this or for
\* another image.
RightImage ==
    \A r \in Request : mask[r] # NoImage => mask[r] = image[r]

\* No coroutine ever waits for the semaphore: it is released before the loop
\* runs another coroutine, so it never is what limits inference.
NeverWaits ==
    \A r \in Request : loop # r => pc[r] \notin {"acquire upload", "acquire segment"}

\* What is in the cache had not expired at the last store: memory is bounded
\* by the uploads of one TTL, also by those nobody asks for again.
CacheFresh == \A i \in Image : Cached(i) => ~Expired(i, swept)

\* An image is kept for its whole TTL, whoever else uploads or is told 404.
KeptForTTL == [][\A i \in Image : Cached(i) /\ cache'[i] = NotCached => Expired(i, now)]_vars

\* The cache implements the abstract store of images.
Images == INSTANCE ImageStore WITH
    kept <- {i \in Image : Cached(i)},
    gone <- {i \in issued : ~Cached(i)}

\* Refinement: whatever store and get delete on their way, an image is kept
\* once, under an id of its own, and never comes back under it.
ImplementsStore == Images!Spec

\* Every request that was begun is answered, failures included.
EveryRequestAnswered == \A r \in Request : pc[r] # "new" ~> pc[r] = "done"

-----------------------------------------------------------------------------
(* The inductive invariant.                                                  *)

\* Where a coroutine keeps the loop, and where it holds the semaphore.
Holding == {"embed", "uploaded", "predict", "predicted", "release raised"}
Running == Holding \union {"acquire upload", "acquire segment", "set image", "raised"}

\* One coroutine runs at most, and only that one may hold the semaphore.
LoopInv ==
    /\ \A r \in Request : pc[r] \in Running <=> loop = r
    /\ free = IF \E r \in Request : loop = r /\ pc[r] \in Holding THEN MaxInflight - 1 ELSE MaxInflight

\* The predictor holds the embedding of the noted image or none, and the
\* noted image is the running request's from set_image to predict.
ModelInv ==
    /\ embedding \in {current, NoImage}
    /\ \A r \in Request :
          /\ pc[r] \in Running => image[r] \in Image
          /\ pc[r] \in {"acquire segment", "predict"} => current = image[r]
          /\ mask[r] # NoImage => pc[r] \in {"predicted", "done"} /\ mask[r] = image[r]

\* Nothing is created in the future, or cached under an id nobody made.
CacheInv ==
    /\ swept <= now
    /\ \A i \in Image : Cached(i) => i \in issued
    /\ \A i \in Image : Cached(i) => cache[i] <= now /\ ~Expired(i, swept)

IInv == TypeOK /\ LoopInv /\ ModelInv /\ CacheInv
=============================================================================
