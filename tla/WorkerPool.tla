----------------------------- MODULE WorkerPool -----------------------------
(***************************************************************************)
(* The request path of the gateway (gateway/internal/pool/pool.go, the     *)
(* Upload and Segment handlers of handler.go, and main.go's shutdown).     *)
(*                                                                         *)
(* Every HTTP request runs in a handler goroutine of its own.  The handler *)
(* picks a worker, hands a Job to the worker's bounded channel and blocks  *)
(* on the job's done channel; MaxInflight consumer goroutines per worker   *)
(* take jobs and run the reverse proxy on the HANDLER's ResponseWriter.    *)
(*                                                                         *)
(* A request and its Job are one identity here.  The session table is      *)
(* abstracted to "some healthy worker or none" (StickyRouting.tla models   *)
(* it), the health checker to arbitrary flips of the flag (HealthChecker   *)
(* .tla), the upstream to the ways a reverse proxy call may end, and the   *)
(* client to whether it goes on reading and writing.                       *)
(***************************************************************************)
EXTENDS Naturals, Sequences, FiniteSets

CONSTANTS
    NWorkers,      \* len(cfg.Workers)
    MaxInflight,   \* worker -> number of its consumer goroutines
    MaxQueue,      \* worker -> capacity of its channel
    Request,       \* the requests (handler goroutines) of a behaviour
    NoRequest      \* "holds no job"

ASSUME WorkersAssumption == NWorkers \in Nat \ {0}
\* config.go's validate: max_inflight and max_queue must be positive.
ASSUME LimitsAssumption ==
    /\ MaxInflight \in [1..NWorkers -> Nat \ {0}]
    /\ MaxQueue \in [1..NWorkers -> Nat \ {0}]
ASSUME NoRequestAssumption == NoRequest \notin Request

Worker == 1..NWorkers
NoWorker == 0
Consumer == UNION {{w} \X (1..MaxInflight[w]) : w \in Worker}
Host(c) == c[1]

VARIABLES
    healthy,    \* worker -> the atomic flag
    queue,      \* worker -> its channel, a sequence of requests
    stopCh,     \* the workers whose stopCh is closed
    consumer,   \* consumer -> where it is in consume()
    job,        \* consumer -> the request it serves
    handler,    \* request -> where its handler goroutine is
    cursor,     \* request -> the next worker PickLeastLoaded looks at
    target,     \* request -> the worker picked (so far)
    best,       \* request -> bestDepth of PickLeastLoaded
    expired,    \* the requests whose context is done
    done,       \* the requests whose done channel is closed
    reply,      \* request -> the status line written to its ResponseWriter
    main,       \* where main() is
    forced      \* srv.Shutdown gave up waiting

poolVars == <<healthy, queue, stopCh>>
consumerVars == <<consumer, job>>
handlerVars == <<handler, cursor, target, best>>
mainVars == <<main, forced>>
vars == <<poolVars, consumerVars, handlerVars, expired, done, reply, mainVars>>

HandlerStates == {"absent", "accepted", "scanning", "routed", "admitted", "waiting", "returned"}
ConsumerStates == {"idle", "roundtrip", "copying", "closing", "stalled", "exited"}
MainStates == {"serving", "draining", "stopping", "exited", "crashed"}
\* "upstream": the worker's own response; the codes are the gateway's.
Replies == {"none", "upstream", "400", "410", "429", "502", "503", "504"}

Busy == {"roundtrip", "copying", "closing", "stalled"}
Running == main \notin {"exited", "crashed"}

Init ==
    /\ healthy = [w \in Worker |-> FALSE]
    /\ queue = [w \in Worker |-> <<>>]
    /\ stopCh = {}
    /\ consumer = [c \in Consumer |-> "idle"]
    /\ job = [c \in Consumer |-> NoRequest]
    /\ handler = [r \in Request |-> "absent"]
    /\ cursor = [r \in Request |-> 1]
    /\ target = [r \in Request |-> NoWorker]
    /\ best = [r \in Request |-> 0]
    /\ expired = {}
    /\ done = {}
    /\ reply = [r \in Request |-> "none"]
    /\ main = "serving"
    /\ forced = FALSE

-----------------------------------------------------------------------------
(* The health checker, seen from here: it may set the flag at any time. A    *)
(* probe that cancelRoot cancels still counts, so also after the signal.     *)
SetHealthy(w) ==
    /\ Running
    /\ healthy' = [healthy EXCEPT ![w] = ~healthy[w]]
    /\ UNCHANGED <<queue, stopCh, consumerVars, handlerVars, expired, done, reply, mainVars>>

-----------------------------------------------------------------------------
(* Handler goroutines. *)

\* The handler answers by itself and returns; its local variables are gone.
Reject(r, code) ==
    /\ handler' = [handler EXCEPT ![r] = "returned"]
    /\ reply' = [reply EXCEPT ![r] = code]
    /\ target' = [target EXCEPT ![r] = NoWorker]

\* net/http starts the handler's goroutine.  After the signal no connection is
\* accepted any more, but a handler that has been started goes on.
Accept(r) ==
    /\ main = "serving"
    /\ handler[r] = "absent"
    /\ handler' = [handler EXCEPT ![r] = "accepted"]
    /\ UNCHANGED <<poolVars, consumerVars, cursor, target, best, expired, done, reply, mainVars>>

\* Handler.Upload starts PickLeastLoaded.
Upload(r) ==
    /\ Running
    /\ handler[r] = "accepted"
    /\ handler' = [handler EXCEPT ![r] = "scanning"]
    /\ UNCHANGED <<poolVars, consumerVars, cursor, target, best, expired, done, reply, mainVars>>

\* One turn of PickLeastLoaded's loop: flag and depth are read one worker at
\* a time, while everything else moves on.
PickLeastLoaded(r) ==
    LET w == cursor[r] IN
    /\ Running
    /\ handler[r] = "scanning"
    /\ w \in Worker
    /\ cursor' = [cursor EXCEPT ![r] = w + 1]
    /\ IF healthy[w] /\ (target[r] = NoWorker \/ Len(queue[w]) < best[r])
       THEN /\ target' = [target EXCEPT ![r] = w]
            /\ best' = [best EXCEPT ![r] = Len(queue[w])]
       ELSE UNCHANGED <<target, best>>
    /\ UNCHANGED <<poolVars, consumerVars, handler, expired, done, reply, mainVars>>

\* The loop is over: 503 NO_WORKER, or the context gets its deadline.
Picked(r) ==
    /\ Running
    /\ handler[r] = "scanning"
    /\ cursor[r] \notin Worker
    /\ cursor' = [cursor EXCEPT ![r] = 1]
    /\ best' = [best EXCEPT ![r] = 0]
    /\ IF target[r] = NoWorker
       THEN Reject(r, "503")
       ELSE /\ handler' = [handler EXCEPT ![r] = "routed"]
            /\ UNCHANGED <<target, reply>>
    /\ UNCHANGED <<poolVars, consumerVars, expired, done, mainVars>>

\* Handler.Segment has read the body, however long the client took to send it:
\* a body without an image id is answered 400; PickByImageID yields a worker
\* that is healthy now, or none and the answer is 410.
Segment(r) ==
    /\ Running
    /\ handler[r] = "accepted"
    /\ \/ Reject(r, "400")
       \/ Reject(r, "410")
       \/ \E w \in Worker :
            /\ healthy[w]
            /\ handler' = [handler EXCEPT ![r] = "routed"]
            /\ target' = [target EXCEPT ![r] = w]
            /\ UNCHANGED reply
    /\ UNCHANGED <<poolVars, consumerVars, cursor, best, expired, done, mainVars>>

\* Submit's first test; ErrUnhealthy becomes 503.
SubmitCheck(r) ==
    /\ Running
    /\ handler[r] = "routed"
    /\ IF healthy[target[r]]
       THEN /\ handler' = [handler EXCEPT ![r] = "admitted"]
            /\ UNCHANGED <<target, reply>>
       ELSE Reject(r, "503")
    /\ UNCHANGED <<poolVars, consumerVars, cursor, best, expired, done, mainVars>>

\* Submit's non-blocking send; ErrQueueFull becomes 429.
SubmitSend(r) ==
    LET w == target[r] IN
    /\ Running
    /\ handler[r] = "admitted"
    /\ IF Len(queue[w]) < MaxQueue[w]
       THEN /\ queue' = [queue EXCEPT ![w] = Append(queue[w], r)]
            /\ handler' = [handler EXCEPT ![r] = "waiting"]
            /\ UNCHANGED <<target, reply>>
       ELSE /\ Reject(r, "429")
            /\ UNCHANGED queue
    /\ UNCHANGED <<healthy, stopCh, consumerVars, cursor, best, expired, done, mainVars>>

\* Mutant: Submit also selects on the context and answers 504 itself.
SubmitReturnOrTimeout(r) ==
    /\ Running
    /\ handler[r] = "waiting"
    /\ \/ r \in done /\ UNCHANGED reply
       \/ r \in expired /\ reply' = [reply EXCEPT ![r] = "504"]
    /\ handler' = [handler EXCEPT ![r] = "returned"]
    /\ target' = [target EXCEPT ![r] = NoWorker]
    /\ UNCHANGED <<poolVars, consumerVars, cursor, best, expired, done, mainVars>>

\* Submit blocks on job.done and on nothing else, then the handler returns.
SubmitReturn(r) ==
    /\ Running
    /\ handler[r] = "waiting"
    /\ r \in done
    /\ handler' = [handler EXCEPT ![r] = "returned"]
    /\ target' = [target EXCEPT ![r] = NoWorker]
    /\ UNCHANGED <<poolVars, consumerVars, cursor, best, expired, done, reply, mainVars>>

\* The deadline set by WithTimeout passes, or the client goes away.  Only a
\* consumer looks at the context, so it matters while the job is unanswered.
Expire(r) ==
    /\ Running
    /\ handler[r] = "waiting"
    /\ r \notin done
    /\ r \notin expired
    /\ expired' = expired \union {r}
    /\ UNCHANGED <<poolVars, consumerVars, handlerVars, done, reply, mainVars>>

-----------------------------------------------------------------------------
(* Consumer goroutines. *)

\* Mutant: a consumer that finds stopCh closed after the receive drops the job.
TakeOrQuit(c) ==
    LET w == Host(c)
        quits == w \in stopCh
    IN
    /\ Running
    /\ consumer[c] = "idle"
    /\ queue[w] # <<>>
    /\ queue' = [queue EXCEPT ![w] = Tail(queue[w])]
    /\ job' = [job EXCEPT ![c] = IF quits THEN NoRequest ELSE Head(queue[w])]
    /\ consumer' = [consumer EXCEPT ![c] = IF quits THEN "exited" ELSE "roundtrip"]
    /\ UNCHANGED <<healthy, stopCh, handlerVars, expired, done, reply, mainVars>>

\* Mutant: the proxy call runs in a goroutine of its own.
TakeAsync(c) ==
    LET w == Host(c) IN
    /\ Running
    /\ consumer[c] = "idle"
    /\ queue[w] # <<>>
    /\ queue' = [queue EXCEPT ![w] = Tail(queue[w])]
    /\ UNCHANGED <<healthy, stopCh, consumerVars, handlerVars, expired, done, reply, mainVars>>

\* consume() receives a job.  Go's select is a free choice between this and
\* Exit when both channels are ready.
Take(c) ==
    LET w == Host(c) IN
    /\ Running
    /\ consumer[c] = "idle"
    /\ queue[w] # <<>>
    /\ queue' = [queue EXCEPT ![w] = Tail(queue[w])]
    /\ job' = [job EXCEPT ![c] = Head(queue[w])]
    /\ consumer' = [consumer EXCEPT ![c] = "roundtrip"]
    /\ UNCHANGED <<healthy, stopCh, handlerVars, expired, done, reply, mainVars>>

\* The upstream answered: makeModifyResponse has run, the proxy has written
\* the status line and copies the body.
RoundTripOK(c) ==
    /\ Running
    /\ consumer[c] = "roundtrip"
    /\ reply' = [reply EXCEPT ![job[c]] = "upstream"]
    /\ consumer' = [consumer EXCEPT ![c] = "copying"]
    /\ UNCHANGED <<poolVars, job, handlerVars, expired, done, mainVars>>

\* Mutant: a cancelled call is ended without an answer.
RoundTripFailsSilently(c) ==
    /\ Running
    /\ consumer[c] = "roundtrip"
    /\ reply' = IF job[c] \in expired THEN reply ELSE [reply EXCEPT ![job[c]] = "502"]
    /\ consumer' = [consumer EXCEPT ![c] = "closing"]
    /\ UNCHANGED <<poolVars, job, handlerVars, expired, done, mainVars>>

\* Mutant: a failed call puts the job back into the channel and closes it.
RoundTripFailsAndRetries(c) ==
    /\ Running
    /\ consumer[c] = "roundtrip"
    /\ queue' = IF Len(queue[Host(c)]) < MaxQueue[Host(c)]
                THEN [queue EXCEPT ![Host(c)] = Append(queue[Host(c)], job[c])]
                ELSE queue
    /\ reply' = [reply EXCEPT ![job[c]] = "502"]
    /\ consumer' = [consumer EXCEPT ![c] = "closing"]
    /\ UNCHANGED <<healthy, stopCh, job, handlerVars, expired, done, mainVars>>

\* The round trip (or the read in makeModifyResponse) failed: errorHandler
\* tells a time-out from an upstream error by the request's context.  (Its
\* way out for ErrAbortHandler is never taken: the transport and
\* makeModifyResponse return no such error.)
RoundTripFails(c) ==
    /\ Running
    /\ consumer[c] = "roundtrip"
    /\ reply' = [reply EXCEPT ![job[c]] = IF job[c] \in expired THEN "504" ELSE "502"]
    /\ consumer' = [consumer EXCEPT ![c] = "closing"]
    /\ UNCHANGED <<poolVars, job, handlerVars, expired, done, mainVars>>

CopyDone(c) ==
    /\ Running
    /\ consumer[c] = "copying"
    /\ consumer' = [consumer EXCEPT ![c] = "closing"]
    /\ UNCHANGED <<poolVars, job, handlerVars, expired, done, reply, mainVars>>

\* net/http/httputil: under a server's context ReverseProxy panics with
\* ErrAbortHandler when the body cannot be copied (upstream or client gone,
\* context done).  This goroutine has no recover: the process dies.
CopyFails(c) ==
    /\ Running
    /\ consumer[c] = "copying"
    /\ main' = "crashed"
    /\ UNCHANGED <<poolVars, consumerVars, handlerVars, expired, done, reply, forced>>

\* The client stalls for ever and ServeHTTP does not return: it stops reading
\* and Write blocks, or it stops in the middle of the upload it streams and
\* the proxy's deferred Body.Close waits for the read under way.  The server
\* has no ReadTimeout and no WriteTimeout, and the end of the context wakes up
\* neither.  (A pause that ends is a slow CopyDone or CloseDone.)
Stall(c) ==
    /\ Running
    /\ consumer[c] \in {"copying", "closing"}
    /\ consumer' = [consumer EXCEPT ![c] = "stalled"]
    /\ UNCHANGED <<poolVars, job, handlerVars, expired, done, reply, mainVars>>

\* Mutant: a time-out makes the consumer leave its loop.
CloseDoneAndLeave(c) ==
    /\ Running
    /\ consumer[c] = "closing"
    /\ done' = done \union {job[c]}
    /\ job' = [job EXCEPT ![c] = NoRequest]
    /\ consumer' = [consumer EXCEPT ![c] = IF job[c] \in expired THEN "exited" ELSE "idle"]
    /\ UNCHANGED <<poolVars, handlerVars, expired, reply, mainVars>>

\* close(job.done) and back to the select.
CloseDone(c) ==
    /\ Running
    /\ consumer[c] = "closing"
    /\ done' = done \union {job[c]}
    /\ job' = [job EXCEPT ![c] = NoRequest]
    /\ consumer' = [consumer EXCEPT ![c] = "idle"]
    /\ UNCHANGED <<poolVars, handlerVars, expired, reply, mainVars>>

Exit(c) ==
    /\ Running
    /\ consumer[c] = "idle"
    /\ Host(c) \in stopCh
    /\ consumer' = [consumer EXCEPT ![c] = "exited"]
    /\ UNCHANGED <<poolVars, job, handlerVars, expired, done, reply, mainVars>>

-----------------------------------------------------------------------------
(* main(): signal, srv.Shutdown with its own time-out, deferred wpool.Stop.  *)

Idle(r) == handler[r] \in {"absent", "returned"}

Signal ==
    /\ main = "serving"
    /\ main' = "draining"
    /\ UNCHANGED <<poolVars, consumerVars, handlerVars, expired, done, reply, forced>>

\* Mutant: only handlers blocked in Submit are waited for.
DrainedTooEarly ==
    /\ main = "draining"
    /\ \A r \in Request : handler[r] # "waiting"
    /\ main' = "stopping"
    /\ UNCHANGED <<poolVars, consumerVars, handlerVars, expired, done, reply, forced>>

\* srv.Shutdown returns nil once every connection is idle.
Drained ==
    /\ main = "draining"
    /\ \A r \in Request : Idle(r)
    /\ main' = "stopping"
    /\ UNCHANGED <<poolVars, consumerVars, handlerVars, expired, done, reply, forced>>

\* ... or gives up after 15 seconds, shorter than a request may take.
DrainTimeout ==
    /\ main = "draining"
    /\ main' = "stopping"
    /\ forced' = TRUE
    /\ UNCHANGED <<poolVars, consumerVars, handlerVars, expired, done, reply>>

AllExited(w) == \A c \in Consumer : Host(c) = w => consumer[c] = "exited"

\* Mutant: Worker.Stop waits before it closes stopCh.
StopAfterWait(w) ==
    /\ main = "stopping"
    /\ w \notin stopCh
    /\ \A v \in Worker : v < w => v \in stopCh
    /\ AllExited(w)
    /\ stopCh' = stopCh \union {w}
    /\ UNCHANGED <<healthy, queue, consumerVars, handlerVars, expired, done, reply, mainVars>>

\* Pool.Stop goes through the workers in order, and Worker.Stop waits for
\* the consumers of one before the next is told.
Stop(w) ==
    /\ main = "stopping"
    /\ w \notin stopCh
    /\ \A v \in Worker : v < w => v \in stopCh /\ AllExited(v)
    /\ stopCh' = stopCh \union {w}
    /\ UNCHANGED <<healthy, queue, consumerVars, handlerVars, expired, done, reply, mainVars>>

ExitProcess ==
    /\ main = "stopping"
    /\ \A w \in Worker : w \in stopCh /\ AllExited(w)
    /\ main' = "exited"
    /\ UNCHANGED <<poolVars, consumerVars, handlerVars, expired, done, reply, forced>>

\* Nothing runs in a dead process; said so that TLC's deadlock check means
\* "a running gateway can always move".
Dead == ~Running /\ UNCHANGED vars

-----------------------------------------------------------------------------
HandlerStep(r) ==
    \/ Accept(r) \/ Upload(r) \/ Segment(r) \/ PickLeastLoaded(r) \/ Picked(r)
    \/ SubmitCheck(r) \/ SubmitSend(r) \/ SubmitReturn(r) \/ Expire(r)

ConsumerStep(c) ==
    \/ Take(c) \/ RoundTripOK(c) \/ RoundTripFails(c)
    \/ CopyDone(c) \/ CopyFails(c) \/ Stall(c) \/ CloseDone(c) \/ Exit(c)

MainStep ==
    \/ Signal \/ Drained \/ DrainTimeout \/ ExitProcess
    \/ \E w \in Worker : Stop(w)

Next ==
    \/ \E w \in Worker : SetHealthy(w)
    \/ \E r \in Request : HandlerStep(r)
    \/ \E c \in Consumer : ConsumerStep(c)
    \/ MainStep
    \/ Dead

Spec == Init /\ [][Next]_vars
-----------------------------------------------------------------------------
(* Fairness: a runnable goroutine runs, a deadline passes, and a proxy call  *)
(* ends once the request's context is done, UNLESS its client stalls: a      *)
(* stalled consumer has no step left.  Nothing is assumed of the upstream,   *)
(* of the health checker or of the operator's signal, and nothing of the     *)
(* clients: they may stall at any time, and an accepted handler may wait for *)
(* its request's body for ever.                                              *)

HandlerMoves(r) ==
    \/ PickLeastLoaded(r) \/ Picked(r)
    \/ SubmitCheck(r) \/ SubmitSend(r) \/ SubmitReturn(r)

ConsumerMoves(c) ==
    \/ Take(c) \/ Exit(c) \/ CloseDone(c)
    \/ /\ job[c] \in expired
       /\ RoundTripOK(c) \/ RoundTripFails(c) \/ CopyDone(c) \/ CopyFails(c)

MainMoves ==
    \/ Drained \/ DrainTimeout \/ ExitProcess
    \/ \E w \in Worker : Stop(w)

Fairness ==
    /\ \A r \in Request : WF_vars(HandlerMoves(r)) /\ WF_vars(Expire(r))
    /\ \A c \in Consumer : WF_vars(ConsumerMoves(c))
    /\ WF_vars(MainMoves)

FairSpec == Spec /\ Fairness

-----------------------------------------------------------------------------
(* Properties. *)

\* Every variable has its type; a channel never exceeds its capacity.
TypeOK ==
    /\ healthy \in [Worker -> BOOLEAN]
    /\ queue \in [Worker -> Seq(Request)]
    /\ \A w \in Worker : Len(queue[w]) <= MaxQueue[w]
    /\ stopCh \subseteq Worker
    /\ consumer \in [Consumer -> ConsumerStates]
    /\ job \in [Consumer -> Request \union {NoRequest}]
    /\ handler \in [Request -> HandlerStates]
    /\ cursor \in [Request -> Nat]
    /\ target \in [Request -> Worker \union {NoWorker}]
    /\ best \in [Request -> Nat]
    /\ expired \subseteq Request
    /\ done \subseteq Request
    /\ reply \in [Request -> Replies]
    /\ main \in MainStates
    /\ forced \in BOOLEAN

\* A handler blocks in Submit and its job is not finished.
Owed(r) == handler[r] = "waiting" /\ r \notin done

OwedTo(w) == {r \in Request : Owed(r) /\ target[r] = w}
Settled == {r \in Request : handler[r] = "returned" \/ r \in done}

Queued(r, w) == \E i \in 1..Len(queue[w]) : queue[w][i] = r
Serving(r, c) == consumer[c] \in Busy /\ job[c] = r

\* No job is lost: while a handler waits for an answer, its job is in the
\* channel, or in the hands of a consumer, of the worker it was routed to
\* (Submit and consume are the only hands a job passes through).
NoLostJob ==
    \A r \in Request : Owed(r) =>
        \/ Queued(r, target[r])
        \/ \E c \in Consumer : Host(c) = target[r] /\ Serving(r, c)

\* No job is run twice: it is in one channel slot or with one consumer.
NoDuplicateJob ==
    /\ \A v, w \in Worker : \A i \in 1..Len(queue[v]), j \in 1..Len(queue[w]) :
          queue[v][i] = queue[w][j] => v = w /\ i = j
    /\ \A c, d \in Consumer : \A r \in Request :
          Serving(r, c) /\ Serving(r, d) => c = d
    /\ \A c \in Consumer : \A w \in Worker : \A r \in Request :
          Serving(r, c) => ~Queued(r, w)

\* The ResponseWriter of a request is used by a consumer only while the
\* handler that owns it is still blocked in Submit: net/http forbids its use
\* after the handler returned.  This is why Submit does not watch the context.
WriterAlive ==
    /\ \A w \in Worker : \A i \in 1..Len(queue[w]) : Owed(queue[w][i])
    /\ \A c \in Consumer : consumer[c] \in Busy => Owed(job[c])

\* No handler returns, and no job is closed, before the answer is written.
AnsweredOnReturn ==
    \A r \in Request : handler[r] = "returned" \/ r \in done => reply[r] # "none"

\* One answer per request: handler, consumer and errorHandler never write a
\* second status line to the same ResponseWriter.
AnsweredOnce == [][\A r \in Request : reply[r] # "none" => reply'[r] = reply[r]]_vars

\* Back-pressure: a worker is never owed more than its channel and its
\* consumers hold, however many handlers race through Submit.
Backpressure ==
    \A w \in Worker : Cardinality(OwedTo(w)) <= MaxQueue[w] + MaxInflight[w]

\* Until the pool is stopped, whoever waits has somebody at work for it: the
\* consumer that serves its job, or one of its worker's that is still in its
\* loop and comes back to the channel its job is in unless its own client
\* stalls, however many calls failed or timed out before.
WaitersAreServed ==
    main \in {"serving", "draining"} =>
        \A r \in Request : Owed(r) =>
            \E c \in Consumer :
                /\ Host(c) = target[r]
                /\ consumer[c] # "exited"
                /\ Serving(r, c) \/ Queued(r, target[r])

\* After a shutdown that did not time out no handler is left behind when the
\* consumers are told to stop, so the channels they abandon are empty.
GracefulStop ==
    main \in {"stopping", "exited"} /\ ~forced =>
        /\ \A r \in Request : Idle(r)
        /\ \A w \in Worker : queue[w] = <<>>

\* A request that stalled clients keep from its answer: its own does, or every
\* consumer of its worker is held by one.
Stalled == {r \in Request : \E c \in Consumer : consumer[c] = "stalled" /\ job[c] = r}
Blocked(r) ==
    \/ r \in Stalled
    \/ handler[r] = "waiting" /\ \A c \in Consumer : Host(c) = target[r] => consumer[c] = "stalled"

\* Although Submit waits on done alone, every request that is past its body
\* returns unless the process crashes, a shutdown is past its grace period, or
\* stalled clients block it: one of those costs its worker a single consumer,
\* and with one consumer left all others are still answered.
EveryRequestReturns ==
    \A r \in Request : handler[r] \notin {"absent", "accepted", "returned"} ~>
        \/ handler[r] = "returned"
        \/ main \in {"stopping", "exited", "crashed"}
        \/ Blocked(r)

\* A signal ends the process whatever the upstreams do, unless a client that
\* stalls holds a consumer: Worker.Stop waits for that one without a limit.
ShutdownTerminates ==
    main = "draining" ~> ~Running \/ \E c \in Consumer : consumer[c] = "stalled"

-----------------------------------------------------------------------------
(* The inductive invariant behind the safety properties: what each place a   *)
(* job can be in says about its handler, its answer and its worker.          *)

QueueInv ==
    \A w \in Worker : \A i \in 1..Len(queue[w]) :
        LET r == queue[w][i] IN
        /\ Owed(r)
        /\ target[r] = w
        /\ reply[r] = "none"
        /\ \A j \in 1..Len(queue[w]) : queue[w][j] = r => i = j

ConsumerInv ==
    \A c \in Consumer :
        IF consumer[c] \in Busy
        THEN LET r == job[c] IN
             /\ r \in Request
             /\ Owed(r)
             /\ target[r] = Host(c)
             /\ reply[r] = "none" <=> consumer[c] = "roundtrip"
             /\ ~Queued(r, Host(c))
             /\ \A d \in Consumer : Serving(r, d) => c = d
        ELSE job[c] = NoRequest

HandlerInv ==
    \A r \in Request :
        /\ handler[r] \in {"absent", "accepted", "scanning", "routed", "admitted"} =>
              reply[r] = "none" /\ r \notin done
        /\ handler[r] \in {"routed", "admitted", "waiting"} => target[r] \in Worker
        /\ handler[r] = "returned" \/ r \in done => reply[r] # "none"

StopInv ==
    main \in {"stopping", "exited"} /\ ~forced => \A r \in Request : Idle(r)

\* Consumers leave their loop only when they are told, and Pool.Stop tells.
LoopsInv ==
    /\ \A c \in Consumer : consumer[c] = "exited" => Host(c) \in stopCh
    /\ main \in {"serving", "draining"} => stopCh = {}

IInv ==
    /\ TypeOK
    /\ QueueInv
    /\ ConsumerInv
    /\ HandlerInv
    /\ NoLostJob
    /\ StopInv
    /\ LoopsInv

-----------------------------------------------------------------------------
\* The request path implements the abstract broker.
Broker == INSTANCE RequestBroker WITH
    Capacity <- [w \in Worker |-> MaxQueue[w] + MaxInflight[w]],
    Servers <- MaxInflight,
    owed <- [w \in Worker |-> OwedTo(w)],
    settled <- Settled,
    stalled <- Stalled,
    up <- main \in {"serving", "draining"}

\* Refinement, with the broker's own liveness: whatever the goroutines do,
\* a caller sees requests refused, or accepted and answered once.
ImplementsBroker == Broker!Spec

\* middleware.go says that Recover keeps a panic from ending the process; a
\* panic of the proxy is in a consumer, which Recover does not cover.
PanicContained == main # "crashed"
=============================================================================
