# FastSAM-Demo in TLA+

FastSAM-Demo is an interactive image segmentation service: a browser front end
(Next.js), a gateway (Go) that spreads requests over several back ends, and the
back ends (Python, FastAPI), each with one SAM 2.1 model on one event loop. This
directory holds TLA+ models of its core, TLC configurations that check them, and
TLAPS proofs. `PROJECT.json` lists runs, the mutants that show that each property can
fail, the source lines each definition stands for, hazards and theorems.

Paths below are relative to the repository root.

## 1. The system

```
browser tab ──POST /upload, /segment──> gateway ──reverse proxy──> back end (worker-0)
  useSegmentation, api.ts                │  handlers                 event loop, cache,
                                         │  session table            SAM predictor
                                         │  worker pool         ──> back end (worker-1)
                                         └─ health checker ──GET /health──^
```

| part | state | operations | called by |
|---|---|---|---|
| worker pool, `gateway/internal/pool/pool.go` | per worker: health flag (atomic), bounded job channel, `stopCh`, N consumer goroutines; per job: ResponseWriter, context, `done` | `Submit`, `consume`, `makeModifyResponse`, `errorHandler`, `PickLeastLoaded`, `PickByImageID`, `OnWorkerDown`, `Stop` | handler goroutines, health checker, main |
| handlers, `gateway/internal/handler/handler.go` | none of their own | `Upload`, `Segment`, `handleSubmitError`, `GatewayHealth` | net/http, one goroutine per request |
| session table, `gateway/internal/session/session.go` | map image → (worker, expiry), RW lock, a gauge | `Put`, `Get`, `Delete`, `DropByWorker`, `sweepExpired` | proxy responses, `PickByImageID`, `OnWorkerDown`, the sweeper |
| health checker, `gateway/internal/health/health.go` | runs of failures and passes per worker | `checkAll` → parallel `probe` → `recordFailure` / `recordSuccess` | its own ticker |
| main, `gateway/cmd/gateway/main.go` | root context, server | start-up, signal, 15 s drain, `Pool.Stop` | the operator |
| back end, `backend/app/` | image cache with creation times, the predictor's one embedding and the id noted for it, a semaphore | `POST /upload`, `POST /segment`, `GET /health` | the gateway |
| page, `useSegmentation.ts`, `api.ts`, `page.tsx` and its children | image id, object URL, masks, `loading`, error; which child is mounted, with which props; per call an attempt count | `upload`, `segment`, `reset`, `clearMasks`, `removeMask`, `clearError`, `fetchWithRetry` | the user, promise continuations, animation ends |
| canvas, `SegmentCanvas.tsx` | `canvasReady`, the pixels drawn, a due effect | set-up, load, resize, drawing effect | React, the browser |
| connection badge, `useHealthCheck.ts`, `GatewayHealth` | `connected`; polls under way | poll, scan of the flags, apply | a timer |
| mask codec, `backend/app/utils/mask_encoder.py`, `frontend/src/lib/mask.ts`, `ExportButton.tsx` | none | RLE encode, decode, bounding box | segment, canvas, export |

How they interact. A handler picks a worker (the least loaded for an upload, the
session's for a segment), hands a job to its channel and blocks on `done`. A
consumer runs the reverse proxy on the handler's ResponseWriter; the answer of an
upload binds the new image id to the worker on the way back. The health checker flips
the flag that both look at, and drops a worker's sessions after it took it out. The
back end keeps images for a TTL of its own and forgets them when it restarts. The badge polls
the gateway, which answers from the same flags.

What is hard here, and what has to be right:

* **Request path**: handlers, consumers and shutdown share channels and a
  ResponseWriter; `Submit` ignores the context. No job may be lost, run twice or
  answered twice; a writer may not be used after its handler returned; a signal has to
  end the process, and everything admitted has to return, as far as clients that stall
  let it: the server has no `ReadTimeout` and no `WriteTimeout`.
* **Sessions**: table operations whose clock is read, or whose size is published,
  outside the lock; `Put` next to a `Get` between its two locks; binds that arrive after
  the worker was taken out. A live session may not be taken by mistake, and every session has to end.
* **Health**: the flag, the counters and the drop of sessions are separate steps,
  next to rounds that wait for the slowest probe.
* **Routing as a whole**: a client must never be told 404 or 410 without a reason
  that lies in its image's worker.
* **Back end**: one predictor and one remembered id for all clients, with `set_image`
  outside the semaphore.
* **Page**: overlapping calls whose continuations run in any order on one state; children that
  animate out with the props and callbacks of an earlier render.
* **Canvas**: load, resize, answers and the drawing effect in any order, where setting the canvas up
  clears it and drawing it again depends on a state that changes.
* **Badge**: polls that overlap and are answered late, from flags read one by one and twice.

`hazards` in `PROJECT.json` has the full list, each at its line, with the properties
that cover it.

## 2. Modules

| module | models | source |
|---|---|---|
| `RequestBroker` | abstract: refuse or accept, answer an accepted request once; what a stalled client may cost | – |
| `WorkerPool` | the request path, goroutine by goroutine | `pool.go`, `handler.go`, `main.go` |
| `WorkerPool_proofs` | its theorems | |
| `SessionMap` | abstract: an image is bound once, and ends for good; implemented by `StickyRouting` | – |
| `SessionTable` | the table, one step per critical section or clock reading | `session.go`, `PickByImageID` |
| `SessionTable_proofs` | its theorems | |
| `Membership` | abstract: leave, drop, return | – |
| `HealthChecker` | rounds, probes, counters, transitions | `health.go`, `OnWorkerDown` |
| `HealthChecker_proofs` | its theorems | |
| `ImageStore` | abstract: an image is kept once, and lost for good | – |
| `StickyRouting` | composition of sessions, membership and back end caches | `pool.go`, `handler.go`, `upload.py`, `segment.py`, `image_service.py` |
| `StickyRouting_proofs` | its theorems | |
| `Backend` | the coroutines of one back end | `upload.py`, `segment.py`, `image_service.py`, `sam_service.py` |
| `Backend_proofs` | its theorems | |
| `Frontend` | one browser tab: hook, retries, what is mounted | `useSegmentation.ts`, `api.ts`, `page.tsx`, `ImageUploader.tsx`, `ControlPanel.tsx`, `MaskList.tsx` |
| `SegmentCanvas` | composition of the page with its canvas | `SegmentCanvas.tsx` |
| `SegmentCanvas_proofs` | the invariant of `Frontend`, that `SegmentCanvas` refines it, and the theorems about both | |
| `HealthPoll` | the badge and the scan that answers it | `useHealthCheck.ts`, `api.ts`, `handler.go` |
| `HealthPoll_proofs` | its theorems | |
| `MaskCodec` | one mask from the model to the pixels drawn | `mask_encoder.py`, `segment.py`, `mask.ts`, `ExportButton.tsx` |
| `MaskCodec_proofs` | its theorems | |
| `MC*` | values of the constants for TLC | |

Definitions named as mutants ("Mutant: ...") are not part of any specification; each is
a plausible wrong version of the action that follows it.

### WorkerPool

A request and its job are one identity. `handler[r]` is where the handler goroutine
is: `absent`, `accepted` (its goroutine runs; it may still read a segment's body),
`scanning` (inside `PickLeastLoaded`), `routed`, `admitted` (between `Submit`'s health test
and its send), `waiting` (on `done`), `returned`. A handler that was accepted goes on
during the drain. `consumer[c]` is `idle` (in the `select`), `roundtrip`, `copying` (the
status line is written), `closing` (before `close(job.done)`), `stalled`, `exited`. Reading a flag and sending on a channel
are different steps, because other goroutines run in between; `PickLeastLoaded` reads
one worker per step. `reply[r]` is the status line on the request's ResponseWriter. `main`
goes from `serving` over `draining` and `stopping` to `exited`, or to `crashed`.

The session table is "some healthy worker or none" here, and the health checker any
flip of the flag at any time, so what holds does not depend on them.

The reverse proxy is external: the round trip fails or answers, the copy of the body
ends or fails. When it fails, `net/http/httputil` panics with `ErrAbortHandler` if the
request carries a server's context, which a job's request does. (`errorHandler` has a way
out for that error too, `pool.go:185`; neither the transport nor `makeModifyResponse` returns it,
so that no step of the model takes it.)

A client may stall for ever (`Stall`): it stops reading, and the proxy's `Write` blocks; or it
stops in the middle of the upload that is streamed through, and the proxy's deferred
`Body.Close` waits for the `Read` under way, also after the 504 was written. `main.go:66` sets
neither `ReadTimeout` nor `WriteTimeout`, and the end of the request's context wakes up
neither call. The consumer is `stalled` then and has no further step.

`RequestBroker` sees a request as owed by a worker from its send to `close(done)` (or to
the return of the handler, whichever is first), and as settled afterwards. Its liveness is what
is left with clients that stall: a request is answered unless its own client stalled, or as many
clients as its worker has consumers.

### SessionTable

Time is a clock that ticks up to `MaxTime`. `Get` is three steps (copy under the
read lock, look at the clock, delete), `Put`, `Delete` and the sweep two (critical
section, publish the size), `DropByWorker` one (it publishes while locked). A
goroutine publishes the size it read under the lock, later and in any order. `Put`
writes or refreshes, as `session.go:31` says, although the back ends make fresh ids (8 hex digits
of a `uuid4`). A refresh between the two locks of a `Get` makes it delete the fresh entry on the
evidence of the old copy; `overtaken` is a history variable that names these calls, and
`NoLiveEntryLost` excepts them and nothing else of `Get`'s.

### HealthChecker

A back end is `ready`, `busy` (a synchronous inference holds the event loop) or
`dead`, and changes at any time. A probe passes only when the back end is ready at
the moment of the answer and fails when it is not, or when the root context is
cancelled. `recordFailure` that takes a worker out leaves the probe `down` until
`OnWorkerDown` has run. After the cancellation `Run`'s `select` may still take a tick that
is there, for a round in which all probes fail, or return. Counters stop at their thresholds, where comparing them does
not change any more. The comment at `health.go:25` says passes are counted for unhealthy
workers only; the code counts them always, which changes no decision.

### StickyRouting

Uses `Membership` for the healthy set and treats sessions as a map whose entries may
expire at any time, which `SessionTable` justifies. A back end's cache loses an image
by its TTL or a restart, as `ImageStore` allows; a restart may be too short for the checker to see. History
variables (`lost`, `excused`, `atDown`) only record causes for the properties.

### Backend

A coroutine keeps the loop until it awaits something that is not ready: the file of
an upload, or a semaphore that is taken. `loop` is the coroutine that runs. The
predictor's `set_image` may raise, and then holds the old embedding or none; `predict`
raises without one. Time passes at any point, also within a coroutine. The cache implements
`ImageStore` (`ImplementsStore`), as do the caches of `StickyRouting`, which abstract from its clock.

### Frontend

Every `Op` is one call of `upload` or `segment` with its own attempt count; its
promise settles in any order with the others, and its continuation applies all its
state changes at once (React batches them). An image, its id and its object URL are named
by the upload that made them, so that `ClickIsForPicture` tells apart ids and pictures of
different uploads; a mask and an error are named by the call that brought them.

`stage` is the child of `AnimatePresence mode="wait"` that is mounted. A child that leaves stays
mounted, and takes clicks, with the props of its last render (`frozen`) until its animation
ends; the uploader takes files while a call runs. A row of `MaskList` that leaves the list takes
clicks too, with an index that may be past the end: `RemoveMask` then removes nothing but makes
a new array, which is rendered. `urls` are the object URLs made
and not revoked. User actions are guarded by what is mounted, and nothing else.

`hurried` is a history variable: the user acted while a call was under way or a child was
leaving. Properties that the code keeps only for users who wait say so with it, and what
happens to the others is listed under "Findings" below.

### SegmentCanvas

Each action of `Frontend` is conjoined with what the render after it does to the canvas
(`Shows`): the canvas is mounted with its initial state, unmounted, not rendered while it
leaves, or rendered with new props. One that leaves keeps its load and resize events and its due
effect, which draws the props of its last render (`Rendered`). The drawing effect is due (`effect`) when one of its dependencies
changed; for `masks` that is the identity of the array, which every `setMasks` of the
hook changes, for `canvasReady` its value. `SetupCanvas` clears what is `drawn`. `drawn` is
`Blank` or the picture and the masks that were drawn. The coordinates of points are data.

### HealthPoll

A poll is `free`, on its way, in one of `GatewayHealth`'s two loops, or coming back with an
answer. The loops read one flag per step, while any flag may flip. `steady` and `ever` are
history variables: the workers whose flag was set throughout the scan, and at some time of it. A poll that
does not get through fails, whatever the reason (`LinkChanges` breaks and heals the way at any
moment). The number of polls under way at the same
time is bounded by the size of `Poll`.

### MaskCodec

Sequential: one turn of `encode_mask_rle`'s loop per step, then the last run and the bounding
box, then one turn of the decoder's outer loop per step. A mask is the set of its pixels
as (row, column), so that the order in which `mask.flatten()` and `ImageData` number them,
and the two numbers of `size`, matter. `starts` is a history variable for the loop invariant.
`renderMask` and the two export modes repeat the same loop and are one definition here.

## 3. Runs

All bounds are constants of the `.cfg` files. `distinct` is the number of states TLC finds.

| run | instance | distinct | shows |
|---|---|---|---|
| `pool_safety` | 2 workers with one slot each, 2 + 1 consumers, 3 requests, symmetry | 1,691,240 | nobody waits for a consumer that is gone, no job lost or duplicated, writers alive, answers before returns, back-pressure, graceful stop |
| `pool_live` | 2 workers with one slot each, 2 + 1 consumers, 2 requests | 162,224 | refinement of `RequestBroker` with liveness, every request returns and shutdown terminates unless stalled clients prevent it |
| `session_table` | 2 images, 2 workers, 2 goroutines + sweeper, TTL 1, 3 ticks | 524,158 | no live entry lost, every session ends, the gauge converges |
| `health` | 2 workers, thresholds 2 and 2 | 23,355 | thresholds respected, no transition missed, refinement of `Membership` with liveness, dead workers leave, ready ones return |
| `sticky` | 2 workers, 2 images, 2 segment requests, symmetry | 174,755 | 404s and 410s are explained and final, removals are complete, refinement of `SessionMap` |
| `backend` | 3 requests, 2 images, one inference at a time, TTL 1, 3 ticks | 63,346 | masks are of the right image, the semaphore never makes anybody wait, cache kept for the TTL and fresh, every request answered |
| `page` | 3 operations, 1 retry | 236,402 | clicks are for the picture; masks, banner and object URLs too while the user waits; the canvas shows the state; the spinner stops |
| `health_poll` | 2 workers, 2 polls that may overlap | 99,008 | what the gateway says was true of its scan, the badge turns green and red and stays so |
| `mask_codec` | all masks of at most 3 rows and 4 columns | 100,305 | loop invariant of the encoder, what is drawn is the mask, tight box |

Why the bounds are enough. Two workers give every comparison between workers (least loaded,
the order of `Stop`, one dropped while the other serves) and three requests on two
consumers and a slot fill a worker and leave one to be refused. In the run of the liveness, one stalled client
holds one of the first worker's two consumers, whose other one must still answer the other request, or the
only one of the second, whose queue then stands still. Two images and two goroutines
are what the races of the session table are between; TTL 1 and three ticks put a
clock reading before, at and after an expiry. Thresholds of 2 have an incomplete run. Three
requests in the back end are one upload each for two images and one segment, or the
reverse; what goes wrong on a page takes an upload, a segment and a second upload or segment, and one
retry has a last one. Two workers make a scan with flags before and behind it, two polls an
old answer behind a new one. Three rows
and four columns hold masks that begin with a zero or a one, are empty or full, have runs across
the end of a row, and tell height from width. What is proved below holds for all values;
the type invariants are proved and not run again.

### Findings

Three runs check what a document or comment says and find it violated:

* `pool_panic`: `middleware.go:90` says `Recover` keeps a panic from ending the process.
  A reverse proxy whose body copy fails panics in a consumer goroutine
  (`pool.go:95`), which `Recover` does not cover: the gateway dies.
* `sticky_restart`: `docs/api.md:235` and `gateway/README.md:35` promise 410 after a
  worker restart. A restart between probes is not noticed and gives the back end's
  404 (the front end treats it as any other error).
* `canvas_resize`: `SegmentCanvas.tsx:64` says the canvas is drawn again when the window is
  resized. The listener clears it, and `setCanvasReady(true)` renders nothing when
  it was true: picture and masks stay away until the masks change.

Met on the way, read in the code and not claimed by a run:

* Gateway: a client that stalls holds a consumer for as long as it likes (`main.go:66`, above); as many of
  them as a worker has consumers stop the worker, whose health checks still pass, and one of them
  keeps `Worker.Stop` (`pool.go:133`) and the process from ending after a signal. The drain (15 s, `main.go:87`) is shorter than a request may take (60 s), so a forced
  stop abandons queued jobs. The queue depth gauge can keep an old value (`pool.go:93`, `:111`).
  `GatewayHealth` answers 503 without a healthy worker, though the comment at `handler.go:59` says it
  asks about the gateway itself; and since its scan is not atomic it may do so
  although at each moment one worker was healthy.
* Back end: when the predictor's `set_image` raises, `_current_image_id` still names the image
  before it, whose requests then skip `set_image` and fail with 500 until another image
  is set. The semaphore is never contended, since nothing between its acquisition and
  its release awaits. Pictures with an EXIF orientation are not turned
  (`upload.py:42`), while browsers show them turned.
* Page, when the user hurries: a segment answered after `reset` appends its mask to
  whatever is shown by then (`useSegmentation.ts:42`, against `docs/architecture.md:5`); an old 410 clears the
  id of a picture that works (`:48`); an upload that replaces a picture leaks its object URL;
  and its picture is not drawn, because the load event finds `canvasReady` true.
* Page, always: after a 410 the old picture stays and clicks do nothing, while `docs/api.md:252` says layers
  above `lib/api.ts` see neither 410 nor 429: they see every 410, and a 429 after
  three retries. Rows of `MaskList` that animate out keep their old index, so that a second click
  removes another mask. `handleClick` rounds after scaling, which moves points by up to half a
  pixel and leaves those of the last half pixel outside the picture.

### Fairness

* Goroutines that can run do (`WF` on `HandlerMoves`, `ConsumerMoves`, `MainMoves`): the Go
  scheduler is preemptive. Go's `select` may choose any ready case; the models assume no
  fairness between them.
* Deadlines fire (`WF` on `Expire`), and a proxy call whose context is done ends, unless its client
  stalls: the transport and the read of the upstream's body watch the context, a `Read` from and a `Write`
  to the client do not. `Stall` may happen to any call that is copying or closing, and a stalled
  consumer has no step for `ConsumerMoves` to be fair to. Of upstreams that are not past a deadline
  nothing is assumed, and nothing of clients: a handler that is `accepted` may wait for its body for
  ever. `EveryRequestReturns`, `ShutdownTerminates` and `RequestBroker` say what holds all the same:
  a stalled client costs its worker one consumer, and nobody else's request is held up as long as its
  worker has another.
* The ticker of the sweeper and of the checker keep firing, a probe ends (its client has a
  time-out), until the root context is cancelled.
* The event loop runs ready coroutines. Files have been received before the
  handler is called.
* In the browser, a request is answered or fails, at the latest when the browser gives it up, and
  timers fire. Animations, images, effects and the user never have to do anything.
* The poll's timer fires as long as the page is mounted, and a poll that was begun ends.

No fairness is assumed for clients, operators, flips of the health flag in `WorkerPool`,
restarts or signals. Every action that only such a party takes is left out of `Fairness`.
Deadlock is checked in all passing runs except `mask_codec`, `backend` and `page`; the last two's
finite sets of requests are used up at the end. In `mask_codec` the end is the drawn mask. `WorkerPool`'s
`Dead` stutters in a process that has ended; since flags may flip while it runs, a pool whose goroutines
wait for one another is not a deadlock to TLC and is excluded by `WaitersAreServed`,
`EveryRequestReturns` and `ShutdownTerminates` instead.

## 4. Proofs

Each `*_proofs` module proves, for all values of the constants allowed by the named assumptions
(`WorkersAssumption`, `LimitsAssumption` from `config.go`'s `validate`, `TimeAssumption`,
`ThresholdsAssumption`, `BackendAssumption`, `FrontendAssumption`, `PollAssumption`, `SizeAssumption`,
and names that differ):

* **WorkerPool**: `IInv` is inductive. `NoLostJob` alone is not: to keep it through
  `SubmitReturn` one has to know that a job in a channel or with a consumer has a
  handler that waits (`QueueInv`, `ConsumerInv`), to keep it through `Take` that no job is
  in two places, and `AnsweredOnce` needs that a job in `roundtrip` has no reply yet.
  From it follow all safety properties of `pool_safety`. `LoopsInv` says that consumers leave their loop only
  after `Stop` told them, which with `NoLostJob` gives `WaitersAreServed`, the safety side of
  `EveryRequestReturns`. `BackpressureHolds` counts: the owed requests of a
  worker map injectively into its slots and consumers. `RefinesBroker` maps every step to a
  refusal, an acceptance (whose room is `BackpressureHolds`'s count before the step), an answer,
  a stall, the close, or a stutter.
* **SessionTable**: `IInv` adds to the types that the table has a size, and that the copy a goroutine made
  in `Get` is still the table's entry unless the session has ended or a `Put` overtook the call
  (`CallInv`). That is why the delete after the unlock is justified for every other call, for any set of
  images, workers and goroutines.
* **HealthChecker**: `Backed` ties each counter to the run of results seen, also while
  a result waits to be recorded: no transition comes too early. `Counted` is the converse, that a counter
  is its run's length up to the threshold and that the flag has followed it, and gives `FlagFollowsRuns`:
  none is missed. It is the safety side of `DeadIsRemoved` and `ReadyReturns`.
* **StickyRouting**: `UploadInv`, `SegmentInv`, `ExcuseInv`, `RemovalInv` tie sessions to
  their image's home and every 410 to a cause. `RefinesStore` rests on the part of `UploadInv` that says that
  an image which is not stored yet was never lost.
* **Backend**: `LoopInv` says that the coroutine which keeps the loop is the only one at a place
  between two awaits, and that the semaphore has its full value unless that one holds it, so that
  `Acquire` never has to wait (`AcquireTakes`). `ModelInv` says that the predictor holds the embedding of
  the noted image or none, and that the noted image is the running request's from `set_image`
  to `predict`. `RightImage` follows from both: without the first, another coroutine could
  set its image in between. `RefinesStore` maps `Store` to keeping one image and losing those that had
  expired, `Get` to losing at most one; it needs that only issued ids are cached.
* **Frontend** (in `SegmentCanvas_proofs`): `TurnInv` is the heart: a user who waits has at most one call under way, no banner
  is shown meanwhile, and the page is still the one it was begun on. Hence the masks, the
  banner and the URL its continuation brings fit what is shown. `StageInv` ties what
  is mounted to whether there is a picture.
* **SegmentCanvas**: `RefinesPage` shows that every step is a step of `Frontend` or a stutter, which
  carries the theorems over to the composition that is run. `CanvasShowsState` is inductive together
  with `ReadyInv`: a loaded image has set the canvas up, and a canvas is set up before its image is
  loaded only by a resize or for another picture.
* **HealthPoll**: the invariant of the scan (`ScanInv`) counts up to the worker the loop is at: the count lies
  between the number of steady workers and of workers ever healthy below it. `UptoMonotone` and
  `UptoNext` are the counting lemmas; a flip shrinks one set and grows the other.
* **MaskCodec**: `RunsInv` and `CurrentInv` are the encoder's loop invariant: ended runs abut, alternate and
  hold pixels of one value, and the run being counted reaches up to `pos`. `DecoderInv` is the decoder's: what
  is painted after `k` runs is the mask below `starts[k + 1]`. `RoundTrip` follows because the last run
  ends at `Size` and `AllCells` says that every cell has a number. The box is right by the least and greatest
  members of a set of numbers (`LeastMember`, because `<` is well-founded on `Nat`). All of it holds for
  masks of every size; the loops are one turn per step, so that no recursive definition is needed.

Refinements are proved for the safety part (`SafeSpec`); `SessionMap` and `ImageStore` have no fairness, so
that is all of them.

Only model-checked: all liveness (`EveryRequestReturns`, `ShutdownTerminates`, the fairness
of `RequestBroker` and `Membership`, `EverySessionEnds`, `GaugeConverges`, `DeadIsRemoved`, `ReadyReturns`,
`EveryRequestAnswered`, `SpinnerStops`, `BadgeTurnsGreen`, `BadgeTurnsRed`), because the prover handles neither
fairness nor `ENABLED`. Proved and not part of a run: `SpinnerHasCall` (what
TLC's `SpinnerStops` rests on), both `ImplementsStore`,
`AnsweredOnce`, `DeleteIsJustified` and the type invariants. The inductive invariants, and these properties,
were checked by TLC on the instances above before they were proved.

## 5. What is left out

* The reverse proxy, net/http, asyncio, React and sam2 themselves: external, modelled from how
  they are used. Only their outcomes that the code distinguishes appear.
* Bodies, headers, trace ids, logs, error texts; malformed requests that are refused
  without touching state.
* Configuration loading, CORS, deployment files.
* The coordinate transforms between canvas and picture (floating point), the pixels of drawing, and download.
* An upload that is sent again after its answer was lost (`api.ts:85`): the back end stores it twice, and the
  first copy is never asked for and goes with its TTL.
* Gauges of queue depth and in-flight requests: same race as the session gauge, but nobody relies on them.
* Collisions of image ids (8 hex digits) are taken not to happen in `StickyRouting` and `Backend`; `SessionTable` allows
  them.

## 6. Plan

Done, in this order: request path and its proofs; session table; health checker; sticky
routing; back end; page; mask codec; canvas; connection badge; proofs about page, canvas,
badge, back end and mask codec; the image store and its two implementations.

Next, in order of weight:

1. `SessionTTL`: gateway and back end clocks together, for what a client sees near the end of both TTLs
   (`gateway.yaml:21` asks for them to be aligned).
2. `ClickMap`: `getTransform` and `handleClick` over integers, for which pixels a click can reach.
3. The rows of `MaskList` as keys of their own, for which mask a click on a leaving row removes.
4. Composition of `Frontend` with `StickyRouting`'s answers: what a user has to do after each kind of failure.
