---------------------------- MODULE StickyRouting ----------------------------
(***************************************************************************)
(* Uploads, segments, sessions, the healthy set and the back ends' image   *)
(* caches together: which worker a segment request reaches, and what its   *)
(* client is told.  The parts are abstracted to what the others see of     *)
(* them: sessions as a map whose entries may expire at any time            *)
(* (SessionTable), workers that leave and return at any time (Membership), *)
(* a queue and a proxy that refuse, fail or deliver (WorkerPool), a back   *)
(* end that keeps an image until its TTL or a restart.                     *)
(*                                                                         *)
(* An Image is one upload: ids are made by the back ends (8 hex digits of  *)
(* a uuid4, taken never to collide) and known to a client only from the    *)
(* answer to its upload.                                                   *)
(***************************************************************************)
CONSTANTS Worker, Image, Request, NoWorker, NoImage

ASSUME NamesAssumption == NoWorker \notin Worker /\ NoImage \notin Image

VARIABLES
    healthy, dropping,  \* the healthy set (Membership)
    entries,    \* image -> worker of its session, or NoWorker
    upload,     \* image -> how far its upload is
    home,       \* image -> the worker the upload was sent to
    stored,     \* the images in their home's cache
    seg,        \* segment request -> [at, image, worker]
    lost,       \* image -> why its home has it no more (history)
    excused,    \* images that expired or whose home was out (history)
    atDown      \* worker -> its sessions when it last left (history)

members == <<healthy, dropping>>
backs == <<stored, lost>>
vars == <<healthy, dropping, entries, upload, home, stored, seg, lost, excused, atDown>>

Members == INSTANCE Membership

NoSegment == [at |-> "idle", image |-> NoImage, worker |-> NoWorker]
SessionsOf(w) == {i \in Image : entries[i] = w}
Ended(S) == [i \in Image |-> IF i \in S THEN NoWorker ELSE entries[i]]
Homed(w) == {i \in Image : home[i] = w}

Init ==
    /\ Members!Init
    /\ entries = [i \in Image |-> NoWorker]
    /\ upload = [i \in Image |-> "new"]
    /\ home = [i \in Image |-> NoWorker]
    /\ stored = {}
    /\ seg = [q \in Request |-> NoSegment]
    /\ lost = [i \in Image |-> "no"]
    /\ excused = {}
    /\ atDown = [w \in Worker |-> {}]

-----------------------------------------------------------------------------
(* Uploads. *)

\* Upload: PickLeastLoaded found w healthy.
RouteUpload(i, w) ==
    /\ upload[i] = "new"
    /\ w \in healthy
    /\ upload' = [upload EXCEPT ![i] = "routed"]
    /\ home' = [home EXCEPT ![i] = w]
    /\ UNCHANGED <<members, entries, backs, seg, excused, atDown>>

\* The back end's image_service.store; the embedding and the answer follow.
StoreImage(i) ==
    /\ upload[i] = "routed"
    /\ upload' = [upload EXCEPT ![i] = "stored"]
    /\ stored' = stored \union {i}
    /\ UNCHANGED <<members, entries, home, seg, lost, excused, atDown>>

\* makeModifyResponse: sessions.Put, whatever the worker's health is by now;
\* then the client learns the id.
Bind(i) ==
    /\ upload[i] = "stored"
    /\ upload' = [upload EXCEPT ![i] = "bound"]
    /\ entries' = [entries EXCEPT ![i] = home[i]]
    /\ excused' = IF home[i] \in healthy THEN excused ELSE excused \union {i}
    /\ UNCHANGED <<members, home, backs, seg, atDown>>

\* Refused, timed out, connection lost, the embedding raised, or the answer is
\* not the JSON expected: makeModifyResponse lets that one pass and binds
\* nothing, and the client learns no id from it.
UploadFails(i) ==
    /\ upload[i] \in {"routed", "stored"}
    /\ upload' = [upload EXCEPT ![i] = "failed"]
    /\ UNCHANGED <<members, entries, home, backs, seg, excused, atDown>>

-----------------------------------------------------------------------------
(* Segment requests. *)

Move(q, at) == seg' = [seg EXCEPT ![q].at = at]

\* Mutant: an image without a session goes to any healthy worker.
LookupOrGuess(q, i) ==
    /\ seg[q].at = "idle"
    /\ upload[i] = "bound"
    /\ IF entries[i] # NoWorker
       THEN seg' = [seg EXCEPT ![q] = [at |-> "found", image |-> i, worker |-> entries[i]]]
       ELSE \E w \in healthy :
               seg' = [seg EXCEPT ![q] = [at |-> "found", image |-> i, worker |-> w]]
    /\ UNCHANGED <<members, entries, upload, home, backs, excused, atDown>>

\* PickByImageID: sessions.Get; without a session the answer is 410.
Lookup(q, i) ==
    /\ seg[q].at = "idle"
    /\ upload[i] = "bound"
    /\ seg' = [seg EXCEPT ![q] =
                  [at     |-> IF entries[i] = NoWorker THEN "gone" ELSE "found",
                   image  |-> i,
                   worker |-> entries[i]]]
    /\ UNCHANGED <<members, entries, upload, home, backs, excused, atDown>>

\* PickByImageID: the worker found is healthy, or its session is an orphan.
CheckHealthy(q) ==
    /\ seg[q].at = "found"
    /\ Move(q, IF seg[q].worker \in healthy THEN "routed" ELSE "orphan")
    /\ UNCHANGED <<members, entries, upload, home, backs, excused, atDown>>

\* PickByImageID: sessions.Delete of the orphan, then 410.
DeleteOrphan(q) ==
    /\ seg[q].at = "orphan"
    /\ Move(q, "gone")
    /\ entries' = Ended({seg[q].image})
    /\ UNCHANGED <<members, upload, home, backs, excused, atDown>>

\* Mutant: a request that is refused ends the session.
RefuseAndForget(q) ==
    /\ seg[q].at = "routed"
    /\ Move(q, "refused")
    /\ entries' = Ended({seg[q].image})
    /\ UNCHANGED <<members, upload, home, backs, excused, atDown>>

\* Submit's ErrUnhealthy or ErrQueueFull, or the proxy's 502 or 504.
Refuse(q) ==
    /\ seg[q].at = "routed"
    /\ Move(q, "refused")
    /\ UNCHANGED <<members, entries, upload, home, backs, excused, atDown>>

\* Mutant: a segment's answer binds its session again (a sliding TTL).
AnswerAndBind(q) ==
    /\ seg[q].at = "routed"
    /\ IF seg[q].worker = home[seg[q].image] /\ seg[q].image \in stored
       THEN Move(q, "ok") /\ entries' = [entries EXCEPT ![seg[q].image] = seg[q].worker]
       ELSE Move(q, "not found") /\ UNCHANGED entries
    /\ UNCHANGED <<members, upload, home, backs, excused, atDown>>

\* The back end's image_service.get: masks, or 404 IMAGE_NOT_FOUND.
Answer(q) ==
    /\ seg[q].at = "routed"
    /\ Move(q, IF seg[q].worker = home[seg[q].image] /\ seg[q].image \in stored
               THEN "ok" ELSE "not found")
    /\ UNCHANGED <<members, entries, upload, home, backs, excused, atDown>>

-----------------------------------------------------------------------------
(* Sessions, workers and back ends. *)

\* Get or the sweeper finds that the session's TTL is over.
Expire(i) ==
    /\ entries[i] # NoWorker
    /\ entries' = Ended({i})
    /\ excused' = excused \union {i}
    /\ UNCHANGED <<members, upload, home, backs, seg, atDown>>

\* The health checker: SetHealthy(false) ...
MarkDown(w) ==
    /\ Members!MarkDown(w)
    /\ excused' = excused \union Homed(w)
    /\ atDown' = [atDown EXCEPT ![w] = SessionsOf(w)]
    /\ UNCHANGED <<entries, upload, home, backs, seg>>

\* Mutant: sessions that are in use are not dropped.
DropUnused(w) ==
    /\ Members!Drop(w)
    /\ entries' = Ended({i \in SessionsOf(w) :
                            \A q \in Request : seg[q].image = i => seg[q].at # "routed"})
    /\ UNCHANGED <<upload, home, backs, seg, excused, atDown>>

\* ... then OnWorkerDown.
Drop(w) ==
    /\ Members!Drop(w)
    /\ entries' = Ended(SessionsOf(w))
    /\ UNCHANGED <<upload, home, backs, seg, excused, atDown>>

\* SetHealthy(true).
MarkUp(w) ==
    /\ Members!MarkUp(w)
    /\ UNCHANGED <<entries, upload, home, backs, seg, excused, atDown>>

\* The back end's process restarts and its memory is lost; the checker may
\* never see it.
Restart(w) ==
    /\ stored \intersect Homed(w) # {}
    /\ stored' = stored \ Homed(w)
    /\ lost' = [i \in Image |-> IF i \in stored /\ home[i] = w THEN "restart" ELSE lost[i]]
    /\ UNCHANGED <<members, entries, upload, home, seg, excused, atDown>>

\* The back end's own TTL: get or _cleanup_expired.
Evict(i) ==
    /\ i \in stored
    /\ stored' = stored \ {i}
    /\ lost' = [lost EXCEPT ![i] = "ttl"]
    /\ UNCHANGED <<members, entries, upload, home, seg, excused, atDown>>

UploadStep(i) ==
    \/ \E w \in Worker : RouteUpload(i, w)
    \/ StoreImage(i)
    \/ Bind(i)
    \/ UploadFails(i)

SegmentStep(q) ==
    \/ \E i \in Image : Lookup(q, i)
    \/ CheckHealthy(q)
    \/ DeleteOrphan(q)
    \/ Refuse(q)
    \/ Answer(q)

WorkerStep(w) == MarkDown(w) \/ Drop(w) \/ MarkUp(w) \/ Restart(w)

Next ==
    \/ \E i \in Image : UploadStep(i) \/ Expire(i) \/ Evict(i)
    \/ \E q \in Request : SegmentStep(q)
    \/ \E w \in Worker : WorkerStep(w)

Spec == Init /\ [][Next]_vars

-----------------------------------------------------------------------------
(* Properties. *)

Phase == {"new", "routed", "stored", "bound", "failed"}
Stop == {"gone", "refused", "ok", "not found"}

\* Every variable has its type.
TypeOK ==
    /\ healthy \subseteq Worker
    /\ dropping \subseteq Worker
    /\ entries \in [Image -> Worker \union {NoWorker}]
    /\ upload \in [Image -> Phase]
    /\ home \in [Image -> Worker \union {NoWorker}]
    /\ stored \subseteq Image
    /\ seg \in [Request -> [at     : Stop \union {"idle", "found", "orphan", "routed"},
                            image  : Image \union {NoImage},
                            worker : Worker \union {NoWorker}]]
    /\ lost \in [Image -> {"no", "restart", "ttl"}]
    /\ excused \subseteq Image
    /\ atDown \in [Worker -> SUBSET Image]

\* A client is told 404 for an image it uploaded only when the worker that
\* stored the image has lost it: never because its request went to another
\* worker, whatever happened to sessions and workers in between.
NotFoundExplained ==
    \A q \in Request : seg[q].at = "not found" => lost[seg[q].image] # "no"

\* A client that was told 410 or 404 is right to upload again: the session is
\* over for good and no later request for that image is routed, or the image
\* is lost for good and no later request finds it.
GoneIsFinal ==
    \A q \in Request :
        /\ seg[q].at = "gone" => entries[seg[q].image] = NoWorker
        /\ seg[q].at = "not found" => seg[q].image \notin stored

\* Nobody is told 410 without a cause: the session expired, or its worker was
\* out of the healthy set at some time since the upload was routed to it.
GoneIsExcused ==
    \A q \in Request : seg[q].at = "gone" => seg[q].image \in excused

\* No session survives the removal of its worker: those of the time it was
\* taken out have ended once OnWorkerDown returned, also after it is back.
RemovalEndsSessions ==
    \A w \in Worker \ dropping : \A i \in atDown[w] : entries[i] = NoWorker

\* The gateway's sessions implement the abstract map.
Map == INSTANCE SessionMap WITH
    bound <- entries,
    ended <- {i \in Image : upload[i] = "bound" /\ entries[i] = NoWorker}

\* Refinement: expiry, orphans, removals and late binds together bind an image
\* once, to one worker, and never bring a session back.
ImplementsMap == Map!Spec

\* The caches of the back ends, seen from here, implement the abstract store.
Images == INSTANCE ImageStore WITH
    kept <- stored,
    gone <- {i \in Image : lost[i] # "no"}

\* Refinement: uploads, both TTLs and restarts together keep an image once and
\* never bring one back.
ImplementsStore == Images!Spec

\* What docs/api.md and gateway/README.md say: after a restart of the worker
\* the client is told 410 (upload again), not 404.
RestartIsGone ==
    \A q \in Request : seg[q].at = "not found" => lost[seg[q].image] # "restart"

-----------------------------------------------------------------------------
(* The inductive invariant behind the properties above. *)

\* Every phase of an upload determines where its image and session can be; an
\* image is stored or lost, and once lost it is not stored again.
UploadInv ==
    \A i \in Image :
        /\ entries[i] # NoWorker => upload[i] = "bound" /\ entries[i] = home[i]
        /\ upload[i] # "new" => home[i] \in Worker
        /\ upload[i] \in {"new", "routed"} => i \notin stored /\ lost[i] = "no"
        /\ upload[i] \in {"stored", "bound"} => i \in stored \/ lost[i] # "no"
        /\ i \in stored => lost[i] = "no"

\* A segment request is about a bound image and is meant for its home.
SegmentInv ==
    \A q \in Request : seg[q].at # "idle" =>
        /\ seg[q].image \in Image
        /\ upload[seg[q].image] = "bound"
        /\ seg[q].at # "gone" => seg[q].worker = home[seg[q].image]
        /\ seg[q].at = "orphan" => seg[q].image \in excused

\* A session that is over, or that a removal or an orphan is about to end,
\* has its excuse.
ExcuseInv ==
    \A i \in Image : upload[i] = "bound" =>
        /\ entries[i] = NoWorker => i \in excused
        /\ home[i] \notin healthy => i \in excused

\* The sessions of a worker that was taken out were all at home there.
RemovalInv ==
    /\ healthy \intersect dropping = {}
    /\ \A w \in Worker : \A i \in atDown[w] : upload[i] = "bound" /\ home[i] = w

IInv ==
    /\ TypeOK
    /\ UploadInv
    /\ SegmentInv
    /\ ExcuseInv
    /\ RemovalInv
    /\ NotFoundExplained
    /\ GoneIsFinal
    /\ RemovalEndsSessions
=============================================================================
