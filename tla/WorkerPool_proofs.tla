------------------------- MODULE WorkerPool_proofs -------------------------
(***************************************************************************)
(* Proofs about WorkerPool, for any number of workers, consumers, slots    *)
(* and requests.                                                           *)
(***************************************************************************)
EXTENDS WorkerPool, FiniteSetTheorems, TLAPS

\* A consumer belongs to a worker.
LEMMA HostType == \A c \in Consumer : Host(c) \in Worker
BY DEF Consumer, Host, Worker

-----------------------------------------------------------------------------
\* Type correctness: every variable keeps its type, and the non-blocking
\* send of Submit never puts more jobs into a channel than it can hold.
LEMMA InitTypeOK == Init => TypeOK
<1> SUFFICES ASSUME Init PROVE TypeOK
  OBVIOUS
<1> USE DEF Init
<1>1. queue \in [Worker -> Seq(Request)]
  OBVIOUS
<1>2. \A w \in Worker : Len(queue[w]) <= MaxQueue[w]
  BY LimitsAssumption DEF Worker
<1> QED
  BY <1>1, <1>2
  DEF TypeOK, HandlerStates, ConsumerStates, MainStates, Replies

LEMMA NextTypeOK == TypeOK /\ HandlerInv /\ ConsumerInv /\ [Next]_vars => TypeOK'
<1> SUFFICES ASSUME TypeOK, HandlerInv, ConsumerInv, [Next]_vars PROVE TypeOK'
  OBVIOUS
<1> USE DEF TypeOK, poolVars, consumerVars, handlerVars, mainVars, HandlerStates,
            ConsumerStates, MainStates, Replies
<1>1. ASSUME NEW w \in Worker, SetHealthy(w) PROVE TypeOK'
  BY <1>1 DEF SetHealthy
<1>2. ASSUME NEW r \in Request, Accept(r) \/ Upload(r) PROVE TypeOK'
  BY <1>2 DEF Accept, Upload
<1>3. ASSUME NEW r \in Request, Segment(r) PROVE TypeOK'
  <2>1. /\ handler' \in [Request -> HandlerStates]
        /\ reply' \in [Request -> Replies]
        /\ target' \in [Request -> Worker \union {NoWorker}]
    <3>1. CASE Reject(r, "400") \/ Reject(r, "410")
      BY <1>3, <3>1 DEF Segment, Reject
    <3>2. CASE \E w \in Worker :
                 /\ handler' = [handler EXCEPT ![r] = "routed"]
                 /\ target' = [target EXCEPT ![r] = w]
                 /\ UNCHANGED reply
      BY <1>3, <3>2
    <3> QED
      BY <1>3, <3>1, <3>2 DEF Segment
  <2>2. UNCHANGED <<poolVars, consumerVars, cursor, best, expired, done, mainVars>>
    BY <1>3 DEF Segment
  <2> QED
    BY <2>1, <2>2
<1>4. ASSUME NEW r \in Request, PickLeastLoaded(r) PROVE TypeOK'
  <2>1. cursor[r] \in Nat /\ cursor[r] + 1 \in Nat
    BY <1>4
  <2>2. \A w \in Worker : Len(queue[w]) \in Nat
    OBVIOUS
  <2>3. target' \in [Request -> Worker \union {NoWorker}] /\ best' \in [Request -> Nat]
    BY <1>4, <2>1, <2>2 DEF PickLeastLoaded
  <2> QED
    BY <1>4, <2>1, <2>3 DEF PickLeastLoaded
<1>5. ASSUME NEW r \in Request, Picked(r) PROVE TypeOK'
  BY <1>5 DEF Picked, Reject
<1>6. ASSUME NEW r \in Request, SubmitCheck(r) PROVE TypeOK'
  BY <1>6 DEF SubmitCheck, Reject
<1>7. ASSUME NEW r \in Request, SubmitSend(r) PROVE TypeOK'
  <2> DEFINE w == target[r]
  <2>1. CASE Len(queue[w]) < MaxQueue[w]
    <3>1. w \in Worker
      BY <1>7 DEF SubmitSend, HandlerInv
    <3>2. queue' = [queue EXCEPT ![w] = Append(queue[w], r)]
      BY <1>7, <2>1 DEF SubmitSend
    <3>3. /\ Append(queue[w], r) \in Seq(Request)
          /\ Len(Append(queue[w], r)) = Len(queue[w]) + 1
      BY <3>1
    <3>4. Len(queue[w]) + 1 <= MaxQueue[w]
      BY <2>1, <3>1, LimitsAssumption DEF Worker
    <3> HIDE DEF w
    <3>5. queue' \in [Worker -> Seq(Request)] /\ \A v \in Worker : Len(queue'[v]) <= MaxQueue[v]
      BY <3>1, <3>2, <3>3, <3>4
    <3> QED
      BY <1>7, <2>1, <3>5 DEF SubmitSend, w
  <2>2. CASE ~(Len(queue[w]) < MaxQueue[w])
    BY <1>7, <2>2 DEF SubmitSend, Reject
  <2> QED
    BY <2>1, <2>2
<1>8. ASSUME NEW r \in Request, SubmitReturn(r) PROVE TypeOK'
  BY <1>8 DEF SubmitReturn
<1>9. ASSUME NEW r \in Request, Expire(r) PROVE TypeOK'
  BY <1>9 DEF Expire
<1>10. ASSUME NEW c \in Consumer, Take(c) PROVE TypeOK'
  <2>1. Host(c) \in Worker
    BY HostType
  <2>2. queue[Host(c)] \in Seq(Request) /\ queue[Host(c)] # <<>>
    BY <1>10, <2>1 DEF Take
  <2>3. /\ Head(queue[Host(c)]) \in Request
        /\ Tail(queue[Host(c)]) \in Seq(Request)
        /\ Len(Tail(queue[Host(c)])) = Len(queue[Host(c)]) - 1
    BY <2>2
  <2>4. queue' \in [Worker -> Seq(Request)] /\ \A w \in Worker : Len(queue'[w]) <= MaxQueue[w]
    BY <1>10, <2>1, <2>3, LimitsAssumption DEF Take, Worker
  <2> QED
    BY <1>10, <2>3, <2>4 DEF Take
<1>11. ASSUME NEW c \in Consumer, RoundTripOK(c) PROVE TypeOK'
  BY <1>11 DEF RoundTripOK
<1>12. ASSUME NEW c \in Consumer, RoundTripFails(c) PROVE TypeOK'
  BY <1>12 DEF RoundTripFails
<1>13. ASSUME NEW c \in Consumer, CopyDone(c) \/ Stall(c) PROVE TypeOK'
  BY <1>13 DEF CopyDone, Stall
<1>14. ASSUME NEW c \in Consumer, CopyFails(c) PROVE TypeOK'
  BY <1>14 DEF CopyFails
<1>15. ASSUME NEW c \in Consumer, CloseDone(c) PROVE TypeOK'
  <2>1. job[c] \in Request
    BY <1>15 DEF CloseDone, ConsumerInv, Busy
  <2> QED
    BY <1>15, <2>1 DEF CloseDone
<1>16. ASSUME NEW c \in Consumer, Exit(c) PROVE TypeOK'
  BY <1>16 DEF Exit
<1>17. CASE Signal BY <1>17 DEF Signal
<1>18. CASE Drained BY <1>18 DEF Drained
<1>19. CASE DrainTimeout BY <1>19 DEF DrainTimeout
<1>20. CASE ExitProcess BY <1>20 DEF ExitProcess
<1>21. ASSUME NEW w \in Worker, Stop(w) PROVE TypeOK'
  BY <1>21 DEF Stop
<1>22. CASE Dead \/ UNCHANGED vars
  BY <1>22 DEF Dead, vars
<1> QED
  BY <1>1, <1>2, <1>3, <1>4, <1>5, <1>6, <1>7, <1>8, <1>9, <1>10, <1>11, <1>12, <1>13,
     <1>14, <1>15, <1>16, <1>17, <1>18, <1>19, <1>20, <1>21, <1>22
  DEF Next, HandlerStep, ConsumerStep, MainStep

-----------------------------------------------------------------------------
(* Three shapes of step cover most actions. *)

\* What the health checker, the clock and main() do leaves every job where it is.
LEMMA FrameStep ==
    ASSUME QueueInv, ConsumerInv, HandlerInv, NoLostJob,
           UNCHANGED <<queue, consumer, job, handler, target, done, reply>>
    PROVE  QueueInv' /\ ConsumerInv' /\ HandlerInv' /\ NoLostJob'
<1>1. QueueInv'
  BY DEF QueueInv, Owed
<1>2. ConsumerInv'
  BY DEF ConsumerInv, Owed, Queued, Serving
<1>3. HandlerInv'
  BY DEF HandlerInv
<1>4. NoLostJob'
  BY DEF NoLostJob, Owed, Queued, Serving
<1> QED
  BY <1>1, <1>2, <1>3, <1>4

\* A handler that holds no job, before or after the step, disturbs no job.
LEMMA HandlerStepInv ==
    ASSUME TypeOK, QueueInv, ConsumerInv, NoLostJob,
           NEW r \in Request, handler[r] # "waiting", handler'[r] # "waiting",
           UNCHANGED <<queue, consumer, job, done>>,
           \A s \in Request \ {r} : /\ handler'[s] = handler[s]
                                    /\ target'[s] = target[s]
                                    /\ reply'[s] = reply[s]
    PROVE  QueueInv' /\ ConsumerInv' /\ NoLostJob'
<1>1. QueueInv'
  <2> SUFFICES ASSUME NEW w \in Worker, NEW i \in 1..Len(queue[w])
               PROVE  LET s == queue[w][i] IN
                      /\ Owed(s)'
                      /\ target'[s] = w
                      /\ reply'[s] = "none"
                      /\ \A j \in 1..Len(queue[w]) : queue[w][j] = s => i = j
    BY DEF QueueInv
  <2>1. queue[w][i] \in Request
    BY DEF TypeOK
  <2>2. Owed(queue[w][i]) /\ queue[w][i] # r
    BY DEF QueueInv, Owed
  <2> QED
    BY <2>1, <2>2 DEF QueueInv, Owed
<1>2. ConsumerInv'
  BY DEF ConsumerInv, Owed, Queued, Serving
<1>3. NoLostJob'
  BY DEF NoLostJob, Owed, Queued, Serving
<1> QED
  BY <1>1, <1>2, <1>3

\* A consumer moves on with the job it has, and writes at most that answer.
LEMMA ConsumerStepInv ==
    ASSUME TypeOK, QueueInv, ConsumerInv, HandlerInv, NoLostJob,
           NEW c \in Consumer, consumer[c] \in Busy,
           NEW pc \in {"copying", "closing", "stalled"},
           consumer' = [consumer EXCEPT ![c] = pc],
           UNCHANGED <<queue, job, handler, target, done>>,
           \A s \in Request \ {job[c]} : reply'[s] = reply[s],
           reply'[job[c]] # "none"
    PROVE  QueueInv' /\ ConsumerInv' /\ HandlerInv' /\ NoLostJob'
<1>1. /\ \A d \in Consumer : consumer'[d] \in Busy <=> consumer[d] \in Busy
      /\ \A d \in Consumer \ {c} : consumer'[d] = consumer[d]
      /\ consumer'[c] = pc
  BY DEF TypeOK, Busy
<1>2. job[c] \in Request /\ Owed(job[c]) /\ target[job[c]] = Host(c)
  BY DEF ConsumerInv
<1>3. QueueInv'
  <2>1. \A w \in Worker : \A i \in 1..Len(queue[w]) :
          queue[w][i] \in Request /\ queue[w][i] # job[c]
    BY <1>2 DEF TypeOK, QueueInv, ConsumerInv, Queued
  <2> QED
    BY <2>1 DEF QueueInv, Owed
<1>4. ConsumerInv'
  <2> SUFFICES ASSUME NEW d \in Consumer
               PROVE  IF consumer'[d] \in Busy
                      THEN LET r == job[d] IN
                           /\ r \in Request
                           /\ Owed(r)'
                           /\ target'[r] = Host(d)
                           /\ reply'[r] = "none" <=> consumer'[d] = "roundtrip"
                           /\ ~Queued(r, Host(d))'
                           /\ \A e \in Consumer : Serving(r, e)' => d = e
                      ELSE job[d] = NoRequest
    BY DEF ConsumerInv
  <2>1. CASE d = c
    BY <1>1, <1>2, <2>1 DEF ConsumerInv, Owed, Queued, Serving
  <2>2. CASE d # c
    <3>1. consumer[d] \in Busy => job[d] # job[c]
      BY <2>2 DEF ConsumerInv, Serving
    <3> QED
      BY <1>1, <2>2, <3>1 DEF ConsumerInv, Owed, Queued, Serving
  <2> QED
    BY <2>1, <2>2
<1>5. HandlerInv'
  BY <1>2 DEF HandlerInv, Owed
<1>6. NoLostJob'
  BY <1>1 DEF NoLostJob, Owed, Queued, Serving
<1> QED
  BY <1>3, <1>4, <1>5, <1>6
-----------------------------------------------------------------------------
(* The actions that move a job. *)

\* Submit's send: the job is appended to the channel, or refused.
LEMMA SubmitSendInv ==
    ASSUME TypeOK, QueueInv, ConsumerInv, HandlerInv, NoLostJob,
           NEW r \in Request, SubmitSend(r)
    PROVE  QueueInv' /\ ConsumerInv' /\ HandlerInv' /\ NoLostJob'
<1>0. PICK w \in Worker :
        target[r] = w /\ handler[r] = "admitted" /\ r \notin done /\ reply[r] = "none"
  BY DEF SubmitSend, HandlerInv
<1>1. CASE ~(Len(queue[w]) < MaxQueue[w])
  <2>1. QueueInv' /\ ConsumerInv' /\ NoLostJob'
    BY <1>0, <1>1, HandlerStepInv DEF SubmitSend, Reject, TypeOK, consumerVars
  <2>2. HandlerInv'
    BY <1>0, <1>1 DEF SubmitSend, Reject, TypeOK, HandlerInv, Replies
  <2> QED
    BY <2>1, <2>2
<1>2. CASE Len(queue[w]) < MaxQueue[w]
  <2>1. /\ queue' = [queue EXCEPT ![w] = Append(queue[w], r)]
        /\ handler' = [handler EXCEPT ![r] = "waiting"]
        /\ UNCHANGED <<consumer, job, target, done, reply>>
    BY <1>0, <1>2 DEF SubmitSend, consumerVars
  <2>2. queue[w] \in Seq(Request)
    BY <1>0 DEF TypeOK
  <2>3. /\ Len(queue'[w]) = Len(queue[w]) + 1
        /\ \A i \in 1..Len(queue[w]) : queue'[w][i] = queue[w][i]
        /\ queue'[w][Len(queue[w]) + 1] = r
        /\ \A v \in Worker \ {w} : queue'[v] = queue[v]
    BY <1>0, <2>1, <2>2 DEF TypeOK
  <2>4. /\ \A v \in Worker : \A i \in 1..Len(queue[v]) : queue[v][i] \in Request \ {r}
        /\ \A c \in Consumer : consumer[c] \in Busy => job[c] # r
    BY <1>0 DEF TypeOK, QueueInv, ConsumerInv, Owed
  <2>5. QueueInv'
    <3> SUFFICES ASSUME NEW v \in Worker, NEW i \in 1..Len(queue'[v])
                 PROVE  LET s == queue'[v][i] IN
                        /\ handler'[s] = "waiting" /\ s \notin done
                        /\ target[s] = v
                        /\ reply[s] = "none"
                        /\ \A j \in 1..Len(queue'[v]) : queue'[v][j] = s => i = j
      BY <2>1 DEF QueueInv, Owed
    <3>1. CASE v # w
      BY <2>1, <2>3, <2>4, <3>1 DEF QueueInv, Owed, TypeOK
    <3>2. CASE v = w /\ i \in 1..Len(queue[w])
      <4>1. queue'[v][i] = queue[w][i] /\ queue[w][i] \in Request \ {r}
        BY <2>3, <2>4, <3>2
      <4>2. \A j \in 1..Len(queue'[v]) : queue'[v][j] = queue'[v][i] => i = j
        <5> SUFFICES ASSUME NEW j \in 1..Len(queue'[v]), queue'[v][j] = queue'[v][i]
                     PROVE  i = j
          OBVIOUS
        <5>1. j \in 1..Len(queue[w])
          BY <2>2, <2>3, <3>2, <4>1
        <5>2. queue[w][j] = queue[w][i]
          BY <2>3, <3>2, <4>1, <5>1
        <5> QED
          BY <3>2, <5>1, <5>2 DEF QueueInv
      <4>3. /\ handler[queue[w][i]] = "waiting" /\ queue[w][i] \notin done
            /\ target[queue[w][i]] = w /\ reply[queue[w][i]] = "none"
        BY <3>2 DEF QueueInv, Owed
      <4>4. handler'[queue[w][i]] = handler[queue[w][i]]
        BY <2>1, <4>1 DEF TypeOK
      <4> QED
        BY <3>2, <4>1, <4>2, <4>3, <4>4
    <3>3. CASE v = w /\ i = Len(queue[w]) + 1
      <4>1. queue'[v][i] = r
        BY <2>3, <3>3
      <4>2. \A j \in 1..Len(queue'[v]) : queue'[v][j] = r => i = j
        BY <2>2, <2>3, <2>4, <3>3
      <4> QED
        BY <1>0, <2>1, <3>3, <4>1, <4>2 DEF TypeOK
    <3> QED
      BY <2>2, <2>3, <3>1, <3>2, <3>3
  <2>6. ConsumerInv'
    <3> SUFFICES ASSUME NEW c \in Consumer, consumer[c] \in Busy
                 PROVE  /\ job[c] \in Request
                        /\ handler'[job[c]] = "waiting" /\ job[c] \notin done
                        /\ ~\E i \in 1..Len(queue'[Host(c)]) : queue'[Host(c)][i] = job[c]
      BY <2>1 DEF ConsumerInv, Serving, Owed, Queued
    <3>1. job[c] \in Request \ {r}
      BY <2>4 DEF ConsumerInv
    <3>2. ~\E i \in 1..Len(queue'[Host(c)]) : queue'[Host(c)][i] = job[c]
      <4>1. ~Queued(job[c], Host(c))
        BY DEF ConsumerInv
      <4>2. CASE Host(c) = w
        BY <2>2, <2>3, <3>1, <4>1, <4>2 DEF Queued
      <4>3. CASE Host(c) # w
        BY <2>3, <4>1, <4>3, HostType DEF Queued
      <4> QED
        BY <4>2, <4>3
    <3> QED
      BY <2>1, <3>1, <3>2 DEF ConsumerInv, Owed
  <2>7. HandlerInv'
    BY <1>0, <2>1 DEF HandlerInv, TypeOK
  <2>8. NoLostJob'
    <3> SUFFICES ASSUME NEW s \in Request, Owed(s)', NEW v \in Worker, target[s] = v
                 PROVE  \/ Queued(s, v)'
                        \/ \E c \in Consumer : Host(c) = v /\ Serving(s, c)
      <4>1. \A s \in Request : Owed(s)' => target[s] \in Worker
        BY <1>0, <2>1 DEF Owed, HandlerInv, TypeOK
      <4> QED
        BY <2>1, <4>1 DEF NoLostJob, Serving, Owed, Queued
    <3>1. CASE s = r
      <4>1. Len(queue[w]) + 1 \in 1..Len(queue'[w])
        BY <2>2, <2>3
      <4> QED
        BY <1>0, <2>3, <3>1, <4>1 DEF Queued
    <3>2. CASE s # r
      <4>1. Owed(s)
        BY <2>1, <3>2 DEF Owed, TypeOK
      <4>2. Queued(s, v) => Queued(s, v)'
        <5>1. CASE v = w
          BY <2>2, <2>3, <5>1 DEF Queued
        <5>2. CASE v # w
          BY <2>3, <5>2 DEF Queued
        <5> QED
          BY <5>1, <5>2
      <4> QED
        BY <4>1, <4>2 DEF NoLostJob
    <3> QED
      BY <3>1, <3>2
  <2> QED
    BY <2>5, <2>6, <2>7, <2>8
<1> QED
  BY <1>1, <1>2

\* The handler wakes up: its job is nowhere any more.
LEMMA SubmitReturnInv ==
    ASSUME TypeOK, QueueInv, ConsumerInv, HandlerInv, NoLostJob,
           NEW r \in Request, SubmitReturn(r)
    PROVE  QueueInv' /\ ConsumerInv' /\ HandlerInv' /\ NoLostJob'
<1>1. /\ r \in done
      /\ handler' = [handler EXCEPT ![r] = "returned"]
      /\ target' = [target EXCEPT ![r] = NoWorker]
      /\ UNCHANGED <<queue, consumer, job, done, reply>>
  BY DEF SubmitReturn, poolVars, consumerVars
<1>2. /\ \A w \in Worker : \A i \in 1..Len(queue[w]) : queue[w][i] \in Request \ {r}
      /\ \A c \in Consumer : consumer[c] \in Busy => job[c] \in Request \ {r}
  BY <1>1 DEF TypeOK, QueueInv, ConsumerInv, Owed
<1>3. QueueInv'
  BY <1>1, <1>2 DEF QueueInv, Owed, TypeOK
<1>4. ConsumerInv'
  BY <1>1, <1>2 DEF ConsumerInv, Owed, Queued, Serving, TypeOK
<1>5. HandlerInv'
  BY <1>1 DEF HandlerInv, TypeOK
<1>6. NoLostJob'
  BY <1>1 DEF NoLostJob, Owed, Queued, Serving, TypeOK
<1> QED
  BY <1>3, <1>4, <1>5, <1>6

\* A consumer receives the job at the head of its channel.
LEMMA TakeInv ==
    ASSUME TypeOK, QueueInv, ConsumerInv, HandlerInv, NoLostJob,
           NEW c \in Consumer, Take(c)
    PROVE  QueueInv' /\ ConsumerInv' /\ HandlerInv' /\ NoLostJob'
<1> DEFINE w == Host(c)
           q == queue[w]
<1>0. /\ w \in Worker
      /\ consumer[c] = "idle"
      /\ q \in Seq(Request)
      /\ q # <<>>
      /\ queue' = [queue EXCEPT ![w] = Tail(q)]
      /\ job' = [job EXCEPT ![c] = Head(q)]
      /\ consumer' = [consumer EXCEPT ![c] = "roundtrip"]
      /\ UNCHANGED <<handler, target, done, reply>>
  BY HostType DEF Take, TypeOK, handlerVars
<1> HIDE DEF w
<1>1. PICK r \in Request : r = Head(q)
  BY <1>0
<1>2. /\ Len(q) >= 1
      /\ r = q[1]
      /\ Len(queue'[w]) = Len(q) - 1
      /\ \A i \in 1..Len(queue'[w]) : queue'[w][i] = q[i + 1] /\ i + 1 \in 1..Len(q)
      /\ \A v \in Worker \ {w} : queue'[v] = queue[v]
  <2>1. /\ queue'[w] = Tail(q)
        /\ \A v \in Worker \ {w} : queue'[v] = queue[v]
    BY <1>0 DEF TypeOK
  <2>2. /\ Len(q) \in Nat /\ Len(q) >= 1 /\ Head(q) = q[1]
        /\ Len(Tail(q)) = Len(q) - 1
        /\ \A i \in 1..Len(Tail(q)) : Tail(q)[i] = q[i + 1]
    BY <1>0
  <2> QED
    BY <1>1, <2>1, <2>2
<1>3. Owed(r) /\ target[r] = w /\ reply[r] = "none"
  BY <1>0, <1>1, <1>2 DEF QueueInv
<1>4. \A d \in Consumer : consumer[d] \in Busy => job[d] # r
  <2> SUFFICES ASSUME NEW d \in Consumer, consumer[d] \in Busy, job[d] = r PROVE FALSE
    OBVIOUS
  <2>1. Host(d) = w /\ ~Queued(r, w)
    BY <1>3 DEF ConsumerInv
  <2> QED
    BY <1>0, <1>1, <1>2, <2>1 DEF Queued
<1>5. QueueInv'
  <2> SUFFICES ASSUME NEW v \in Worker, NEW i \in 1..Len(queue'[v])
               PROVE  LET s == queue'[v][i] IN
                      /\ handler[s] = "waiting" /\ s \notin done
                      /\ target[s] = v
                      /\ reply[s] = "none"
                      /\ \A j \in 1..Len(queue'[v]) : queue'[v][j] = s => i = j
    <3>1. UNCHANGED <<handler, target, done, reply>>
      BY <1>0
    <3> QED
      BY <3>1 DEF QueueInv, Owed
  <2>1. CASE v = w
    BY <1>0, <1>1, <1>2, <2>1 DEF QueueInv, Owed
  <2>2. CASE v # w
    BY <1>2, <2>2 DEF QueueInv, Owed
  <2> QED
    BY <2>1, <2>2
<1>6. /\ consumer'[c] = "roundtrip" /\ job'[c] = r
      /\ \A d \in Consumer \ {c} : consumer'[d] = consumer[d] /\ job'[d] = job[d]
  BY <1>0, <1>1 DEF TypeOK
<1>7. \A s \in Request, v \in Worker : Queued(s, v)' => Queued(s, v) /\ ~(s = r /\ v = w)
  <2> SUFFICES ASSUME NEW s \in Request, NEW v \in Worker, Queued(s, v)'
               PROVE  Queued(s, v) /\ ~(s = r /\ v = w)
    OBVIOUS
  <2>1. CASE v = w
    <3>1. PICK i \in 1..Len(queue'[w]) : queue'[w][i] = s
      BY <2>1 DEF Queued
    <3>2. i + 1 \in 1..Len(q) /\ q[i + 1] = s /\ i + 1 # 1
      BY <1>1, <1>2, <3>1
    <3>3. s # r
      BY <1>1, <1>2, <1>0, <3>2 DEF QueueInv
    <3> QED
      BY <2>1, <3>2, <3>3 DEF Queued
  <2>2. CASE v # w
    BY <1>1, <1>2, <2>2 DEF Queued
  <2> QED
    BY <2>1, <2>2
<1>8. ConsumerInv'
  <2> SUFFICES ASSUME NEW d \in Consumer
               PROVE  IF consumer'[d] \in Busy
                      THEN LET s == job'[d] IN
                           /\ s \in Request
                           /\ handler[s] = "waiting" /\ s \notin done
                           /\ target[s] = Host(d)
                           /\ reply[s] = "none" <=> consumer'[d] = "roundtrip"
                           /\ ~\E i \in 1..Len(queue'[Host(d)]) : queue'[Host(d)][i] = s
                           /\ \A e \in Consumer : consumer'[e] \in Busy /\ job'[e] = s => d = e
                      ELSE job'[d] = NoRequest
    BY <1>0 DEF ConsumerInv, Owed, Queued, Serving
  <2>1. CASE d = c
    <3>1. ~\E i \in 1..Len(queue'[Host(c)]) : queue'[Host(c)][i] = r
      BY <1>0, <1>7 DEF w, Queued
    <3>2. \A e \in Consumer : consumer'[e] \in Busy /\ job'[e] = r => d = e
      BY <1>4, <1>6, <2>1
    <3> QED
      BY <1>3, <1>6, <2>1, <3>1, <3>2 DEF Busy, w, Owed
  <2>2. CASE d # c
    <3>1. consumer[d] \in Busy => ~\E i \in 1..Len(queue'[Host(d)]) : queue'[Host(d)][i] = job[d]
      BY <1>7, HostType DEF ConsumerInv, Queued
    <3>2. consumer[d] \in Busy => \A e \in Consumer : consumer'[e] \in Busy /\ job'[e] = job[d] => d = e
      BY <1>4, <1>6 DEF ConsumerInv, Serving
    <3> QED
      BY <1>6, <2>2, <3>1, <3>2 DEF ConsumerInv, Owed
  <2> QED
    BY <2>1, <2>2
<1>9. HandlerInv'
  BY <1>0 DEF HandlerInv
<1>10. NoLostJob'
  <2> SUFFICES ASSUME NEW s \in Request, Owed(s)
               PROVE  \/ Queued(s, target[s])'
                      \/ \E d \in Consumer : Host(d) = target[s] /\ Serving(s, d)'
    BY <1>0 DEF NoLostJob, Owed
  <2>1. CASE s = r
    BY <1>3, <1>6, <2>1 DEF Serving, Busy, w
  <2>2. CASE s # r
    <3>1. target[s] \in Worker
      BY DEF HandlerInv, Owed
    <3>2. ASSUME Queued(s, target[s]) PROVE Queued(s, target[s])'
      <4>1. PICK i \in 1..Len(queue[target[s]]) : queue[target[s]][i] = s
        BY <3>2 DEF Queued
      <4>2. CASE target[s] = w
        <5>1. i # 1 /\ i \in Nat /\ i <= Len(q)
          BY <1>0, <1>1, <1>2, <2>2, <4>1, <4>2
        <5>2. i - 1 \in 1..Len(queue'[w]) /\ queue'[w][i - 1] = s
          BY <1>0, <1>1, <1>2, <4>1, <4>2, <5>1
        <5> QED
          BY <1>0, <4>2, <5>2 DEF Queued
      <4>3. CASE target[s] # w
        BY <1>0, <1>1, <1>2, <3>1, <4>1, <4>3 DEF Queued
      <4> QED
        BY <4>2, <4>3
    <3>3. ASSUME NEW d \in Consumer, Host(d) = target[s], Serving(s, d)
          PROVE  Serving(s, d)'
      BY <1>0, <1>6, <3>3 DEF Serving, Busy
    <3> QED
      BY <3>2, <3>3 DEF NoLostJob
  <2> QED
    BY <2>1, <2>2
<1> QED
  BY <1>5, <1>8, <1>9, <1>10
\* The consumer closes done: the answer is written and the job is gone.
LEMMA CloseDoneInv ==
    ASSUME TypeOK, QueueInv, ConsumerInv, HandlerInv, NoLostJob,
           NEW c \in Consumer, CloseDone(c)
    PROVE  QueueInv' /\ ConsumerInv' /\ HandlerInv' /\ NoLostJob'
<1>1. PICK r \in Request : r = job[c]
  BY DEF CloseDone, ConsumerInv, Busy
<1>2. /\ consumer[c] = "closing"
      /\ done' = done \union {r}
      /\ job' = [job EXCEPT ![c] = NoRequest]
      /\ consumer' = [consumer EXCEPT ![c] = "idle"]
      /\ UNCHANGED <<queue, handler, target, reply>>
  BY <1>1 DEF CloseDone, poolVars, handlerVars
<1>3. /\ handler[r] = "waiting" /\ target[r] = Host(c) /\ reply[r] # "none"
      /\ ~Queued(r, Host(c))
      /\ \A d \in Consumer \ {c} : consumer[d] \in Busy => job[d] # r
  BY <1>1, <1>2 DEF ConsumerInv, Owed, Serving, Busy
<1>4. /\ consumer'[c] = "idle" /\ job'[c] = NoRequest
      /\ \A d \in Consumer \ {c} : consumer'[d] = consumer[d] /\ job'[d] = job[d]
  BY <1>2 DEF TypeOK
<1>5. QueueInv'
  <2>1. \A w \in Worker : \A i \in 1..Len(queue[w]) : queue[w][i] # r
    BY <1>3 DEF QueueInv, Queued
  <2> QED
    BY <1>2, <2>1 DEF QueueInv, Owed
<1>6. ConsumerInv'
  BY <1>2, <1>3, <1>4 DEF ConsumerInv, Owed, Queued, Serving, Busy
<1>7. HandlerInv'
  BY <1>2, <1>3 DEF HandlerInv
<1>8. NoLostJob'
  <2> SUFFICES ASSUME NEW s \in Request, handler[s] = "waiting", s \notin done'
               PROVE  \/ \E i \in 1..Len(queue[target[s]]) : queue[target[s]][i] = s
                      \/ \E d \in Consumer :
                            Host(d) = target[s] /\ consumer'[d] \in Busy /\ job'[d] = s
    BY <1>2 DEF NoLostJob, Owed, Queued, Serving
  <2>1. Owed(s) /\ s # r
    BY <1>2 DEF Owed
  <2> QED
    BY <1>1, <1>4, <2>1 DEF NoLostJob, Queued, Serving
<1> QED
  BY <1>5, <1>6, <1>7, <1>8

\* Only an idle consumer leaves its loop.
LEMMA ExitInv ==
    ASSUME TypeOK, QueueInv, ConsumerInv, HandlerInv, NoLostJob,
           NEW c \in Consumer, Exit(c)
    PROVE  QueueInv' /\ ConsumerInv' /\ HandlerInv' /\ NoLostJob'
<1>1. /\ consumer[c] = "idle"
      /\ consumer' = [consumer EXCEPT ![c] = "exited"]
      /\ UNCHANGED <<queue, job, handler, target, done, reply>>
  BY DEF Exit, poolVars, handlerVars
<1>2. /\ \A d \in Consumer : consumer'[d] \in Busy <=> consumer[d] \in Busy
      /\ \A d \in Consumer : consumer[d] \in Busy => consumer'[d] = consumer[d]
  BY <1>1 DEF TypeOK, Busy
<1>3. QueueInv' /\ HandlerInv'
  BY <1>1 DEF QueueInv, HandlerInv, Owed
<1>4. ConsumerInv'
  BY <1>1, <1>2 DEF ConsumerInv, Owed, Queued, Serving
<1>5. NoLostJob'
  BY <1>1, <1>2 DEF NoLostJob, Owed, Queued, Serving
<1> QED
  BY <1>3, <1>4, <1>5

\* Once every handler is idle and nothing is accepted any more, none starts.
LEMMA StopInvStep == TypeOK /\ StopInv /\ [Next]_vars => StopInv'
<1> SUFFICES ASSUME TypeOK, StopInv, [Next]_vars,
                    main' \in {"stopping", "exited"}, ~forced',
                    NEW r \in Request
             PROVE  Idle(r)'
  BY DEF StopInv
<1> USE DEF TypeOK, StopInv, Idle, Running, poolVars, consumerVars, handlerVars, mainVars
<1>1. ASSUME NEW w \in Worker, SetHealthy(w) PROVE Idle(r)'
  BY <1>1 DEF SetHealthy
<1>2. ASSUME NEW s \in Request, HandlerStep(s) PROVE Idle(r)'
  <2>1. CASE Accept(s) \/ Upload(s) \/ Segment(s)
    BY <2>1 DEF Accept, Upload, Segment, Reject
  <2>2. CASE PickLeastLoaded(s) \/ Picked(s)
    BY <2>2 DEF PickLeastLoaded, Picked, Reject
  <2>3. CASE SubmitCheck(s) \/ SubmitSend(s)
    BY <2>3 DEF SubmitCheck, SubmitSend, Reject
  <2>4. CASE SubmitReturn(s) \/ Expire(s)
    BY <2>4 DEF SubmitReturn, Expire
  <2> QED
    BY <1>2, <2>1, <2>2, <2>3, <2>4 DEF HandlerStep
<1>3. ASSUME NEW c \in Consumer, ConsumerStep(c) PROVE Idle(r)'
  BY <1>3 DEF ConsumerStep, Take, RoundTripOK, RoundTripFails, CopyDone, CopyFails, Stall,
              CloseDone, Exit
<1>4. CASE MainStep
  BY <1>4 DEF MainStep, Signal, Drained, DrainTimeout, ExitProcess, Stop
<1>5. CASE Dead \/ UNCHANGED vars
  BY <1>5 DEF Dead, vars
<1> QED
  BY <1>1, <1>2, <1>3, <1>4, <1>5 DEF Next

\* A consumer exits only after stopCh was closed, and only Stop closes it.
LEMMA LoopsInvStep == TypeOK /\ LoopsInv /\ [Next]_vars => LoopsInv'
<1> SUFFICES ASSUME TypeOK, LoopsInv, [Next]_vars PROVE LoopsInv'
  OBVIOUS
<1> USE DEF TypeOK, LoopsInv, poolVars, consumerVars, handlerVars, mainVars
<1>1. ASSUME NEW w \in Worker, SetHealthy(w) PROVE LoopsInv'
  BY <1>1 DEF SetHealthy
<1>2. ASSUME NEW r \in Request, HandlerStep(r) PROVE LoopsInv'
  <2>1. UNCHANGED <<consumer, stopCh, main>>
    BY <1>2 DEF HandlerStep, Accept, Upload, Segment, PickLeastLoaded, Picked,
                SubmitCheck, SubmitSend, SubmitReturn, Expire, Reject
  <2> QED
    BY <2>1
<1>3. ASSUME NEW c \in Consumer, ConsumerStep(c) PROVE LoopsInv'
  <2>1. \A d \in Consumer : consumer'[d] = "exited" =>
          consumer[d] = "exited" \/ Host(d) \in stopCh
    BY <1>3 DEF ConsumerStep, Take, RoundTripOK, RoundTripFails, CopyDone, CopyFails,
                Stall, CloseDone, Exit
  <2>2. stopCh' = stopCh /\ main' \in {main, "crashed"}
    BY <1>3 DEF ConsumerStep, Take, RoundTripOK, RoundTripFails, CopyDone, CopyFails,
                Stall, CloseDone, Exit
  <2> QED
    BY <2>1, <2>2
<1>4. CASE MainStep
  BY <1>4 DEF MainStep, Signal, Drained, DrainTimeout, ExitProcess, Stop
<1>5. CASE Dead \/ UNCHANGED vars
  BY <1>5 DEF Dead, vars
<1> QED
  BY <1>1, <1>2, <1>3, <1>4, <1>5 DEF Next

-----------------------------------------------------------------------------
(* The inductive invariant. *)

LEMMA InitIInv == Init => IInv
<1> SUFFICES ASSUME Init PROVE IInv
  OBVIOUS
<1>1. TypeOK
  BY InitTypeOK
<1>2. QueueInv
  BY DEF Init, QueueInv
<1>3. ConsumerInv /\ HandlerInv /\ NoLostJob /\ StopInv /\ LoopsInv
  BY DEF Init, ConsumerInv, HandlerInv, NoLostJob, StopInv, LoopsInv, Busy, Owed
<1> QED
  BY <1>1, <1>2, <1>3 DEF IInv

LEMMA NextIInv == IInv /\ [Next]_vars => IInv'
<1> SUFFICES ASSUME IInv, [Next]_vars PROVE IInv'
  OBVIOUS
<1>0. TypeOK' /\ StopInv' /\ LoopsInv'
  BY NextTypeOK, StopInvStep, LoopsInvStep DEF IInv
<1> SUFFICES QueueInv' /\ ConsumerInv' /\ HandlerInv' /\ NoLostJob'
  BY <1>0 DEF IInv
<1> USE DEF IInv, poolVars, consumerVars, handlerVars, mainVars
<1>1. ASSUME NEW w \in Worker, SetHealthy(w)
      PROVE  QueueInv' /\ ConsumerInv' /\ HandlerInv' /\ NoLostJob'
  BY <1>1, FrameStep DEF SetHealthy
<1>2. ASSUME NEW r \in Request, Accept(r) \/ Upload(r)
      PROVE  QueueInv' /\ ConsumerInv' /\ HandlerInv' /\ NoLostJob'
  <2>1. HandlerInv'
    BY <1>2 DEF Accept, Upload, HandlerInv, TypeOK
  <2> QED
    BY <1>2, <2>1, HandlerStepInv DEF Accept, Upload, TypeOK
<1>3. ASSUME NEW r \in Request, Segment(r)
      PROVE  QueueInv' /\ ConsumerInv' /\ HandlerInv' /\ NoLostJob'
  <2>1. HandlerInv'
    BY <1>3 DEF Segment, Reject, HandlerInv, TypeOK
  <2>2. /\ handler[r] # "waiting" /\ handler'[r] # "waiting"
        /\ \A s \in Request \ {r} : /\ handler'[s] = handler[s]
                                   /\ target'[s] = target[s]
                                   /\ reply'[s] = reply[s]
    BY <1>3 DEF Segment, Reject, TypeOK
  <2> QED
    BY <1>3, <2>1, <2>2, HandlerStepInv DEF Segment
<1>4. ASSUME NEW r \in Request, PickLeastLoaded(r)
      PROVE  QueueInv' /\ ConsumerInv' /\ HandlerInv' /\ NoLostJob'
  <2>1. /\ handler[r] = "scanning" /\ handler' = handler
        /\ \A s \in Request \ {r} : target'[s] = target[s]
    BY <1>4 DEF PickLeastLoaded, TypeOK
  <2>2. HandlerInv'
    BY <1>4, <2>1 DEF PickLeastLoaded, HandlerInv, TypeOK
  <2> QED
    BY <1>4, <2>1, <2>2, HandlerStepInv DEF PickLeastLoaded
<1>5. ASSUME NEW r \in Request, Picked(r)
      PROVE  QueueInv' /\ ConsumerInv' /\ HandlerInv' /\ NoLostJob'
  <2>1. HandlerInv'
    BY <1>5 DEF Picked, Reject, HandlerInv, TypeOK
  <2>2. /\ handler[r] # "waiting" /\ handler'[r] # "waiting"
        /\ \A s \in Request \ {r} : /\ handler'[s] = handler[s]
                                   /\ target'[s] = target[s]
                                   /\ reply'[s] = reply[s]
    BY <1>5 DEF Picked, Reject, TypeOK
  <2> QED
    BY <1>5, <2>1, <2>2, HandlerStepInv DEF Picked
<1>6. ASSUME NEW r \in Request, SubmitCheck(r)
      PROVE  QueueInv' /\ ConsumerInv' /\ HandlerInv' /\ NoLostJob'
  <2>1. HandlerInv'
    BY <1>6 DEF SubmitCheck, Reject, HandlerInv, TypeOK
  <2>2. /\ handler[r] # "waiting" /\ handler'[r] # "waiting"
        /\ \A s \in Request \ {r} : /\ handler'[s] = handler[s]
                                   /\ target'[s] = target[s]
                                   /\ reply'[s] = reply[s]
    BY <1>6 DEF SubmitCheck, Reject, TypeOK
  <2> QED
    BY <1>6, <2>1, <2>2, HandlerStepInv DEF SubmitCheck
<1>7. ASSUME NEW r \in Request, SubmitSend(r)
      PROVE  QueueInv' /\ ConsumerInv' /\ HandlerInv' /\ NoLostJob'
  BY <1>7, SubmitSendInv
<1>8. ASSUME NEW r \in Request, SubmitReturn(r)
      PROVE  QueueInv' /\ ConsumerInv' /\ HandlerInv' /\ NoLostJob'
  BY <1>8, SubmitReturnInv
<1>9. ASSUME NEW r \in Request, Expire(r)
      PROVE  QueueInv' /\ ConsumerInv' /\ HandlerInv' /\ NoLostJob'
  BY <1>9, FrameStep DEF Expire
<1>10. ASSUME NEW c \in Consumer, Take(c)
       PROVE  QueueInv' /\ ConsumerInv' /\ HandlerInv' /\ NoLostJob'
  BY <1>10, TakeInv
<1>11. ASSUME NEW c \in Consumer,
              RoundTripOK(c) \/ RoundTripFails(c) \/ CopyDone(c) \/ Stall(c)
       PROVE  QueueInv' /\ ConsumerInv' /\ HandlerInv' /\ NoLostJob'
  <2>1. /\ consumer[c] \in Busy /\ job[c] \in Request
        /\ reply[job[c]] = "none" <=> consumer[c] = "roundtrip"
    BY <1>11 DEF RoundTripOK, RoundTripFails, CopyDone, Stall, Busy, ConsumerInv
  <2>2. /\ \E pc \in {"copying", "closing", "stalled"} : consumer' = [consumer EXCEPT ![c] = pc]
        /\ UNCHANGED <<queue, job, handler, target, done>>
    BY <1>11 DEF RoundTripOK, RoundTripFails, CopyDone, Stall
  <2>3. /\ \A s \in Request \ {job[c]} : reply'[s] = reply[s]
        /\ reply'[job[c]] # "none"
    BY <1>11, <2>1 DEF RoundTripOK, RoundTripFails, CopyDone, Stall, TypeOK
  <2> QED
    BY <2>1, <2>2, <2>3, ConsumerStepInv
<1>12. ASSUME NEW c \in Consumer, CopyFails(c)
       PROVE  QueueInv' /\ ConsumerInv' /\ HandlerInv' /\ NoLostJob'
  BY <1>12, FrameStep DEF CopyFails
<1>13. ASSUME NEW c \in Consumer, CloseDone(c)
       PROVE  QueueInv' /\ ConsumerInv' /\ HandlerInv' /\ NoLostJob'
  BY <1>13, CloseDoneInv
<1>14. ASSUME NEW c \in Consumer, Exit(c)
       PROVE  QueueInv' /\ ConsumerInv' /\ HandlerInv' /\ NoLostJob'
  BY <1>14, ExitInv
<1>15. CASE MainStep
  BY <1>15, FrameStep DEF MainStep, Signal, Drained, DrainTimeout, ExitProcess, Stop
<1>16. CASE Dead \/ UNCHANGED vars
  BY <1>16, FrameStep DEF Dead, vars
<1> QED
  BY <1>1, <1>2, <1>3, <1>4, <1>5, <1>6, <1>7, <1>8, <1>9, <1>10, <1>11, <1>12, <1>13,
     <1>14, <1>15, <1>16
  DEF Next, HandlerStep, ConsumerStep

\* The inductive invariant holds in every reachable state.
THEOREM Invariance == Spec => []IInv
BY InitIInv, NextIInv, PTL DEF Spec
-----------------------------------------------------------------------------
(* The safety properties. *)

\* Every variable keeps its type and every channel its bound.
THEOREM TypeCorrect == Spec => []TypeOK
BY Invariance, PTL DEF IInv

\* While a handler waits, its job is in its worker's channel or consumer.
THEOREM NoJobLost == Spec => []NoLostJob
BY Invariance, PTL DEF IInv

\* No job is in two places: run twice, or run and still queued.
THEOREM NoJobDuplicated == Spec => []NoDuplicateJob
<1>1. IInv => NoDuplicateJob
  <2> SUFFICES ASSUME IInv PROVE NoDuplicateJob
    OBVIOUS
  <2> USE DEF IInv
  <2>1. \A v, w \in Worker : \A i \in 1..Len(queue[v]), j \in 1..Len(queue[w]) :
          queue[v][i] = queue[w][j] => v = w /\ i = j
    BY DEF QueueInv
  <2>2. \A c, d \in Consumer : \A r \in Request :
          Serving(r, c) /\ Serving(r, d) => c = d
    BY DEF ConsumerInv, Serving
  <2>3. ASSUME NEW c \in Consumer, NEW w \in Worker, NEW r \in Request,
               Serving(r, c), Queued(r, w)
        PROVE  FALSE
    <3>1. target[r] = Host(c) /\ ~Queued(r, Host(c))
      BY <2>3 DEF ConsumerInv, Serving
    <3>2. target[r] = w
      BY <2>3 DEF QueueInv, Queued
    <3> QED
      BY <2>3, <3>1, <3>2
  <2> QED
    BY <2>1, <2>2, <2>3 DEF NoDuplicateJob
<1> QED
  BY <1>1, Invariance, PTL

\* A ResponseWriter is in a channel or a consumer only while its handler is
\* still blocked in Submit.
THEOREM WritersAlive == Spec => []WriterAlive
<1>1. IInv => WriterAlive
  BY DEF IInv, QueueInv, ConsumerInv, WriterAlive
<1> QED
  BY <1>1, Invariance, PTL

\* A handler returns, and a job is closed, only with its answer written.
THEOREM AnswersPrecedeReturns == Spec => []AnsweredOnReturn
<1>1. IInv => AnsweredOnReturn
  BY DEF IInv, HandlerInv, AnsweredOnReturn
<1> QED
  BY <1>1, Invariance, PTL

\* Whatever the numbers of workers, consumers and slots: nobody who waits
\* depends on a consumer that is gone.
THEOREM NobodyStranded == Spec => []WaitersAreServed
<1>1. IInv => WaitersAreServed
  <2> SUFFICES ASSUME IInv, main \in {"serving", "draining"}, NEW r \in Request, Owed(r)
               PROVE  \E c \in Consumer :
                         /\ Host(c) = target[r]
                         /\ consumer[c] # "exited"
                         /\ Serving(r, c) \/ Queued(r, target[r])
    BY DEF WaitersAreServed
  <2>1. \A c \in Consumer : consumer[c] # "exited"
    BY DEF IInv, LoopsInv
  <2>2. CASE \E c \in Consumer : Host(c) = target[r] /\ Serving(r, c)
    BY <2>1, <2>2
  <2>3. CASE Queued(r, target[r])
    <3>1. target[r] \in Worker
      BY DEF IInv, HandlerInv, Owed
    <3>2. <<target[r], 1>> \in Consumer /\ Host(<<target[r], 1>>) = target[r]
      BY <3>1, LimitsAssumption DEF Consumer, Host, Worker
    <3> QED
      BY <2>1, <2>3, <3>2
  <2> QED
    BY <2>2, <2>3 DEF IInv, NoLostJob
<1> QED
  BY <1>1, Invariance, PTL

\* A shutdown that does not time out leaves no handler and no job behind.
THEOREM GracefulStops == Spec => []GracefulStop
<1>1. IInv => GracefulStop
  <2> SUFFICES ASSUME IInv, main \in {"stopping", "exited"}, ~forced, NEW w \in Worker
               PROVE  queue[w] = <<>>
    BY DEF IInv, StopInv, GracefulStop
  <2>1. queue[w] \in Seq(Request)
    BY DEF IInv, TypeOK
  <2>2. Len(queue[w]) = 0
    <3> SUFFICES ASSUME Len(queue[w]) # 0 PROVE FALSE
      OBVIOUS
    <3>1. 1 \in 1..Len(queue[w]) /\ queue[w][1] \in Request
      BY <2>1
    <3> QED
      BY <3>1 DEF IInv, StopInv, QueueInv, Owed, Idle
  <2> QED
    BY <2>1, <2>2
<1> QED
  BY <1>1, Invariance, PTL

\* No step writes a second answer: handlers answer only before Submit, and a
\* consumer only a job whose answer is still open.
THEOREM AnsweredAtMostOnce == Spec => AnsweredOnce
<1>1. IInv /\ [Next]_vars => [\A r \in Request : reply[r] # "none" => reply'[r] = reply[r]]_vars
  <2> SUFFICES ASSUME IInv, [Next]_vars, NEW r \in Request, reply[r] # "none"
               PROVE  reply'[r] = reply[r]
    OBVIOUS
  <2> USE DEF IInv, poolVars, consumerVars, handlerVars, mainVars
  <2>1. ASSUME NEW s \in Request, HandlerStep(s) PROVE reply'[r] = reply[r]
    <3>1. CASE Accept(s) \/ Upload(s) \/ PickLeastLoaded(s) \/ SubmitReturn(s) \/ Expire(s)
      BY <3>1 DEF Accept, Upload, PickLeastLoaded, SubmitReturn, Expire
    <3>2. CASE Segment(s)
      BY <3>2 DEF Segment, Reject, HandlerInv, TypeOK
    <3>3. CASE Picked(s)
      BY <3>3 DEF Picked, Reject, HandlerInv, TypeOK
    <3>4. CASE SubmitCheck(s)
      BY <3>4 DEF SubmitCheck, Reject, HandlerInv, TypeOK
    <3>5. CASE SubmitSend(s)
      BY <3>5 DEF SubmitSend, Reject, HandlerInv, TypeOK
    <3> QED
      BY <2>1, <3>1, <3>2, <3>3, <3>4, <3>5 DEF HandlerStep
  <2>2. ASSUME NEW c \in Consumer, ConsumerStep(c) PROVE reply'[r] = reply[r]
    <3>1. CASE RoundTripOK(c)
      BY <3>1 DEF RoundTripOK, ConsumerInv, Busy, TypeOK
    <3>2. CASE RoundTripFails(c)
      BY <3>2 DEF RoundTripFails, ConsumerInv, Busy, TypeOK
    <3>3. CASE ~RoundTripOK(c) /\ ~RoundTripFails(c)
      BY <2>2, <3>3 DEF ConsumerStep, Take, CopyDone, CopyFails, Stall, CloseDone, Exit
    <3> QED
      BY <3>1, <3>2, <3>3
  <2>3. CASE MainStep
    BY <2>3 DEF MainStep, Signal, Drained, DrainTimeout, ExitProcess, Stop
  <2>4. ASSUME NEW w \in Worker, SetHealthy(w) PROVE reply'[r] = reply[r]
    BY <2>4 DEF SetHealthy
  <2>5. CASE Dead \/ UNCHANGED vars
    BY <2>5 DEF Dead, vars
  <2> QED
    BY <2>1, <2>2, <2>3, <2>4, <2>5 DEF Next
<1> QED
  BY <1>1, Invariance, PTL DEF Spec, AnsweredOnce

-----------------------------------------------------------------------------
(* Back-pressure: the requests owed to a worker are told apart by their slot *)
(* in the channel or by their consumer, so they cannot outnumber both.       *)

\* A set whose elements all have a place in one of two lists is no larger
\* than both lists together.
LEMMA PlacesBound ==
    \A S, g, h : \A n, m \in Nat :
        (\A x \in S : (\E i \in 1..n : g[i] = x) \/ (\E k \in 1..m : h[k] = x))
        => IsFiniteSet(S) /\ Cardinality(S) <= n + m
<1> SUFFICES ASSUME NEW S, NEW g, NEW h, NEW n \in Nat, NEW m \in Nat,
                    \A x \in S : (\E i \in 1..n : g[i] = x) \/ (\E k \in 1..m : h[k] = x)
             PROVE  IsFiniteSet(S) /\ Cardinality(S) <= n + m
  OBVIOUS
<1> DEFINE P(x, p) == \/ p \in 1..n /\ g[p] = x
                      \/ p \in (n+1)..(n+m) /\ h[p - n] = x
           f == [x \in S |-> CHOOSE p \in 1..(n + m) : P(x, p)]
<1>1. ASSUME NEW x \in S PROVE \E p \in 1..(n + m) : P(x, p)
  <2>1. CASE \E i \in 1..n : g[i] = x
    <3>1. PICK i \in 1..n : g[i] = x
      BY <2>1
    <3>2. i \in 1..(n + m) /\ P(x, i)
      BY <3>1
    <3> QED
      BY <3>2
  <2>2. CASE \E k \in 1..m : h[k] = x
    <3>1. PICK k \in 1..m : h[k] = x
      BY <2>2
    <3>2. n + k \in 1..(n + m) /\ n + k \in (n+1)..(n+m) /\ (n + k) - n = k
      OBVIOUS
    <3>3. P(x, n + k)
      BY <3>1, <3>2
    <3> QED
      BY <3>2, <3>3
  <2> QED
    BY <2>1, <2>2
<1>2. \A x \in S : f[x] \in 1..(n + m) /\ P(x, f[x])
  BY <1>1
<1> HIDE DEF f
<1>3. \A x, y \in S : f[x] = f[y] => x = y
  BY <1>2
<1>4. f \in Injection(S, 1..(n + m))
  <2>1. f \in [S -> 1..(n + m)]
    BY <1>1 DEF f
  <2> QED
    BY <1>3, <2>1 DEF Injection, IsInjective
<1>5. IsFiniteSet(1..(n + m)) /\ Cardinality(1..(n + m)) = n + m
  <2>1. 1 \in Int /\ n + m \in Int
    OBVIOUS
  <2>2. /\ IsFiniteSet(1..(n + m))
        /\ Cardinality(1..(n + m)) = IF 1 > n + m THEN 0 ELSE (n + m) - 1 + 1
    BY <2>1, FS_Interval, Zenon
  <2> QED
    BY <2>2
<1> QED
  BY <1>4, <1>5, FS_Injection

LEMMA OwedBound ==
    ASSUME IInv, NEW w \in Worker
    PROVE  /\ IsFiniteSet(OwedTo(w))
           /\ Cardinality(OwedTo(w)) <= Len(queue[w]) + MaxInflight[w]
<1> DEFINE h == [k \in 1..MaxInflight[w] |-> job[<<w, k>>]]
<1>1. Len(queue[w]) \in Nat /\ MaxInflight[w] \in Nat
  <2>1. queue[w] \in Seq(Request) /\ MaxInflight[w] \in Nat
    BY LimitsAssumption DEF IInv, TypeOK, Worker
  <2> QED
    BY <2>1
<1>2. ASSUME NEW r \in OwedTo(w)
      PROVE  \/ \E i \in 1..Len(queue[w]) : queue[w][i] = r
             \/ \E k \in 1..MaxInflight[w] : h[k] = r
  <2>1. CASE Queued(r, w)
    BY <2>1 DEF Queued
  <2>2. CASE \E c \in Consumer : Host(c) = w /\ Serving(r, c)
    <3>1. PICK k \in 1..MaxInflight[w] : job[<<w, k>>] = r
      BY <2>2 DEF Consumer, Host, Serving
    <3> QED
      BY <3>1
  <2> QED
    BY <2>1, <2>2 DEF IInv, NoLostJob, OwedTo
<1> DEFINE S == OwedTo(w)
           g == queue[w]
           n == Len(queue[w])
           m == MaxInflight[w]
<1>3. \A r \in S : (\E i \in 1..n : g[i] = r) \/ (\E k \in 1..m : h[k] = r)
  BY <1>2
<1>4. n \in Nat /\ m \in Nat
  BY <1>1
<1> HIDE DEF h, S, g, n, m
<1>5. (\A x \in S : (\E i \in 1..n : g[i] = x) \/ (\E k \in 1..m : h[k] = x))
      => IsFiniteSet(S) /\ Cardinality(S) <= n + m
  BY <1>4, PlacesBound, Zenon
<1> QED
  BY <1>3, <1>5 DEF S, n, m

\* A worker is never owed more requests than its slots and consumers.
THEOREM BackpressureHolds == Spec => []Backpressure
<1>1. IInv => Backpressure
  <2> SUFFICES ASSUME IInv, NEW w \in Worker
               PROVE  Cardinality(OwedTo(w)) <= MaxQueue[w] + MaxInflight[w]
    BY DEF Backpressure
  <2>1. /\ IsFiniteSet(OwedTo(w))
        /\ Cardinality(OwedTo(w)) <= Len(queue[w]) + MaxInflight[w]
    BY OwedBound
  <2>2. /\ Len(queue[w]) \in Nat /\ Len(queue[w]) <= MaxQueue[w]
        /\ MaxQueue[w] \in Nat /\ MaxInflight[w] \in Nat
    <3>1. queue[w] \in Seq(Request)
      BY DEF IInv, TypeOK
    <3>2. Len(queue[w]) <= MaxQueue[w]
      BY DEF IInv, TypeOK
    <3> QED
      BY <3>1, <3>2, LimitsAssumption DEF Worker
  <2>3. Cardinality(OwedTo(w)) \in Nat
    BY <2>1, FS_CardinalityType
  <2> QED
    BY <2>1, <2>2, <2>3
<1> QED
  BY <1>1, Invariance, PTL
-----------------------------------------------------------------------------
(* Refinement: every step of the goroutines is a step of RequestBroker, or   *)
(* one that a caller cannot see.                                             *)

\* A step that moves no request between the abstract places and leaves the
\* gateway up or down is a stutter; one that takes it down is Close.
LEMMA InvisibleStep ==
    ASSUME TypeOK, UNCHANGED <<handler, target, done>>, Stalled' = Stalled,
           main' \in {"serving", "draining"} => main \in {"serving", "draining"}
    PROVE  [Broker!Next]_(Broker!vars)
<1>1. [w \in Worker |-> OwedTo(w)]' = [w \in Worker |-> OwedTo(w)] /\ Settled' = Settled
  BY DEF OwedTo, Owed, Settled
<1>2. CASE (main' \in {"serving", "draining"}) = (main \in {"serving", "draining"})
  BY <1>1, <1>2 DEF Broker!vars
<1>3. CASE main' \notin {"serving", "draining"} /\ main \in {"serving", "draining"}
  BY <1>1, <1>3 DEF Broker!Close, Broker!Next
<1> QED
  BY <1>2, <1>3

\* A handler that is refused, or goes on without having been accepted.
LEMMA RefusedStep ==
    ASSUME TypeOK, HandlerInv, NEW r \in Request,
           handler[r] \in {"absent", "accepted", "scanning", "routed", "admitted"},
           handler'[r] \in {"accepted", "scanning", "routed", "admitted", "returned"},
           \A s \in Request \ {r} : handler'[s] = handler[s] /\ target'[s] = target[s],
           UNCHANGED <<done, main, consumer, job>>
    PROVE  [Broker!Next]_(Broker!vars)
<1>0. Stalled' = Stalled
  BY DEF Stalled
<1>1. r \notin done
  BY DEF HandlerInv
<1>2. \A w \in Worker : OwedTo(w)' = OwedTo(w) /\ r \notin OwedTo(w)
  BY DEF OwedTo, Owed
<1>3. [w \in Worker |-> OwedTo(w)]' = [w \in Worker |-> OwedTo(w)]
  BY <1>2
<1>4. CASE handler'[r] = "returned"
  <2>1. r \notin Settled /\ Settled' = Settled \union {r}
    BY <1>1, <1>4 DEF Settled
  <2>2. Broker!Refuse(r)
    BY <1>0, <1>2, <1>3, <2>1 DEF Broker!Refuse, Broker!Unseen
  <2> QED
    BY <2>2 DEF Broker!Next
<1>5. CASE handler'[r] # "returned"
  <2>1. Settled' = Settled
    BY <1>1, <1>5 DEF Settled
  <2> QED
    BY <1>0, <1>3, <2>1 DEF Broker!vars
<1> QED
  BY <1>4, <1>5

\* A send into the channel is the acceptance of the request.
LEMMA AcceptedStep ==
    ASSUME IInv, NEW r \in Request, SubmitSend(r), handler'[r] = "waiting"
    PROVE  [Broker!Next]_(Broker!vars)
<1>1. PICK w \in Worker :
        /\ target[r] = w /\ handler[r] = "admitted" /\ r \notin done
        /\ Len(queue[w]) < MaxQueue[w]
        /\ handler' = [handler EXCEPT ![r] = "waiting"]
        /\ UNCHANGED <<target, done, main, consumer, job>>
  BY DEF SubmitSend, Reject, IInv, HandlerInv, TypeOK, mainVars, consumerVars
<1>2. /\ \A v \in Worker : r \notin OwedTo(v)
      /\ \A v \in Worker \ {w} : OwedTo(v)' = OwedTo(v)
      /\ OwedTo(w)' = OwedTo(w) \union {r}
  BY <1>1 DEF OwedTo, Owed, IInv, TypeOK
<1>3. r \notin Settled /\ Settled' = Settled /\ Stalled' = Stalled
  BY <1>1 DEF Settled, Stalled, IInv, TypeOK
<1>4. Cardinality(OwedTo(w)) < MaxQueue[w] + MaxInflight[w]
  <2>1. /\ IsFiniteSet(OwedTo(w))
        /\ Cardinality(OwedTo(w)) <= Len(queue[w]) + MaxInflight[w]
    BY OwedBound
  <2>2. Cardinality(OwedTo(w)) \in Nat
    BY <2>1, FS_CardinalityType
  <2>3. queue[w] \in Seq(Request) /\ MaxQueue[w] \in Nat /\ MaxInflight[w] \in Nat
    BY LimitsAssumption DEF IInv, TypeOK, Worker
  <2>4. Len(queue[w]) \in Nat
    BY <2>3
  <2> QED
    BY <1>1, <2>1, <2>2, <2>3, <2>4
<1>5. [v \in Worker |-> OwedTo(v)]' =
        [[v \in Worker |-> OwedTo(v)] EXCEPT ![w] = OwedTo(w) \union {r}]
  BY <1>2
<1>6. Broker!Accept(r, w)
  <2>1. Broker!Unseen(r)
    BY <1>2, <1>3 DEF Broker!Unseen
  <2>2. [v \in Worker |-> OwedTo(v)][w] = OwedTo(w)
    OBVIOUS
  <2>3. [v \in Worker |-> MaxQueue[v] + MaxInflight[v]][w] = MaxQueue[w] + MaxInflight[w]
    OBVIOUS
  <2> QED
    <3>1. Broker!Cardinality(OwedTo(w)) = Cardinality(OwedTo(w))
      BY Zenon DEF Broker!Cardinality, Cardinality
    <3> QED
      BY <1>1, <1>3, <1>4, <1>5, <2>1, <2>2, <2>3, <3>1 DEF Broker!Accept
<1> QED
  BY <1>6 DEF Broker!Next

\* Closing done is the answer of the broker.
LEMMA AnsweredStep ==
    ASSUME IInv, NEW c \in Consumer, CloseDone(c)
    PROVE  [Broker!Next]_(Broker!vars)
<1>1. PICK r \in Request, w \in Worker :
        /\ r = job[c] /\ Owed(r) /\ target[r] = w
        /\ done' = done \union {r}
        /\ UNCHANGED <<handler, target, main>>
  BY HostType DEF CloseDone, ConsumerInv, IInv, Busy, handlerVars, mainVars
<1>2. /\ r \in OwedTo(w)
      /\ \A v \in Worker \ {w} : OwedTo(v)' = OwedTo(v)
      /\ OwedTo(w)' = OwedTo(w) \ {r}
  BY <1>1 DEF OwedTo, Owed
<1>3. Settled' = Settled \union {r}
  BY <1>1 DEF Settled
<1>4. [v \in Worker |-> OwedTo(v)]' =
        [[v \in Worker |-> OwedTo(v)] EXCEPT ![w] = OwedTo(w) \ {r}]
  BY <1>2
<1>5. r \notin Stalled /\ Stalled' = Stalled
  <2>1. /\ consumer[c] = "closing" /\ r = job[c]
        /\ consumer' = [consumer EXCEPT ![c] = "idle"]
        /\ job' = [job EXCEPT ![c] = NoRequest]
    BY <1>1 DEF CloseDone
  <2>2. \A d \in Consumer : consumer[d] = "stalled" => d # c /\ job[d] # r
    BY <2>1 DEF IInv, ConsumerInv, Serving, Busy
  <2>3. \A d \in Consumer : /\ consumer'[d] = "stalled" <=> consumer[d] = "stalled"
                            /\ consumer[d] = "stalled" => job'[d] = job[d]
    BY <2>1, <2>2 DEF IInv, TypeOK
  <2> QED
    BY <2>2, <2>3 DEF Stalled
<1>6. Broker!Answer(r)
  BY <1>1, <1>2, <1>3, <1>4, <1>5 DEF Broker!Answer
<1> QED
  BY <1>6 DEF Broker!Next

\* A client that stalls is seen as that: its request stays owed for good.
LEMMA StalledStep ==
    ASSUME IInv, NEW c \in Consumer, Stall(c)
    PROVE  [Broker!Next]_(Broker!vars)
<1>1. PICK r \in Request, w \in Worker :
        /\ r = job[c] /\ Owed(r) /\ target[r] = w
        /\ consumer[c] \in {"copying", "closing"}
        /\ consumer' = [consumer EXCEPT ![c] = "stalled"]
        /\ UNCHANGED <<job, handler, target, done, main>>
  BY HostType DEF Stall, ConsumerInv, IInv, Busy, handlerVars, mainVars
<1>2. r \in OwedTo(w)
  BY <1>1 DEF OwedTo
<1>3. [v \in Worker |-> OwedTo(v)]' = [v \in Worker |-> OwedTo(v)] /\ Settled' = Settled
  BY <1>1 DEF OwedTo, Owed, Settled
<1>4. r \notin Stalled
  BY <1>1 DEF Stalled, IInv, ConsumerInv, Serving, Busy
<1>5. Stalled' = Stalled \union {r}
  <2>1. \A d \in Consumer : consumer'[d] = "stalled" <=> consumer[d] = "stalled" \/ d = c
    BY <1>1 DEF IInv, TypeOK
  <2> QED
    BY <1>1, <2>1 DEF Stalled
<1>6. Broker!Stall(r)
  BY <1>1, <1>2, <1>3, <1>4, <1>5 DEF Broker!Stall
<1> QED
  BY <1>6 DEF Broker!Next

LEMMA NextRefines == IInv /\ [Next]_vars => [Broker!Next]_(Broker!vars)
<1> SUFFICES ASSUME IInv, [Next]_vars PROVE [Broker!Next]_(Broker!vars)
  OBVIOUS
<1>0. TypeOK /\ HandlerInv
  BY DEF IInv
<1> USE DEF poolVars, consumerVars, handlerVars, mainVars
<1>1. ASSUME NEW w \in Worker, SetHealthy(w) PROVE [Broker!Next]_(Broker!vars)
  BY <1>0, <1>1, InvisibleStep DEF SetHealthy, Stalled
<1>2. ASSUME NEW r \in Request,
             Accept(r) \/ Upload(r) \/ Segment(r) \/ Picked(r) \/ SubmitCheck(r)
      PROVE  [Broker!Next]_(Broker!vars)
  <2>1. /\ handler[r] \in {"absent", "accepted", "scanning", "routed", "admitted"}
        /\ handler'[r] \in {"accepted", "scanning", "routed", "admitted", "returned"}
        /\ \A s \in Request \ {r} : handler'[s] = handler[s] /\ target'[s] = target[s]
        /\ UNCHANGED <<done, main, consumer, job>>
    BY <1>0, <1>2 DEF Accept, Upload, Segment, Picked, SubmitCheck, Reject, TypeOK
  <2> QED
    BY <1>0, <2>1, RefusedStep
<1>3. ASSUME NEW r \in Request, PickLeastLoaded(r) PROVE [Broker!Next]_(Broker!vars)
  <2>1. /\ handler[r] = "scanning" /\ handler'[r] = "scanning"
        /\ \A s \in Request \ {r} : handler'[s] = handler[s] /\ target'[s] = target[s]
        /\ UNCHANGED <<done, main, consumer, job>>
    BY <1>0, <1>3 DEF PickLeastLoaded, TypeOK
  <2> QED
    BY <1>0, <2>1, RefusedStep
<1>4. ASSUME NEW r \in Request, SubmitSend(r) PROVE [Broker!Next]_(Broker!vars)
  <2>1. CASE handler'[r] = "waiting"
    BY <1>4, <2>1, AcceptedStep
  <2>2. CASE handler'[r] # "waiting"
    <3>1. /\ handler[r] = "admitted" /\ handler'[r] = "returned"
          /\ \A s \in Request \ {r} : handler'[s] = handler[s] /\ target'[s] = target[s]
          /\ UNCHANGED <<done, main, consumer, job>>
      BY <1>0, <1>4, <2>2 DEF SubmitSend, Reject, TypeOK
    <3> QED
      BY <1>0, <3>1, RefusedStep
  <2> QED
    BY <2>1, <2>2
<1>5. ASSUME NEW r \in Request, SubmitReturn(r) PROVE [Broker!Next]_(Broker!vars)
  <2>1. /\ r \in done /\ UNCHANGED <<done, main, consumer, job>>
        /\ handler' = [handler EXCEPT ![r] = "returned"]
        /\ target' = [target EXCEPT ![r] = NoWorker]
    BY <1>5 DEF SubmitReturn
  <2>2. \A w \in Worker : OwedTo(w)' = OwedTo(w)
    BY <1>0, <2>1 DEF OwedTo, Owed, TypeOK
  <2>3. Settled' = Settled
    BY <1>0, <2>1 DEF Settled, TypeOK
  <2>4. Stalled' = Stalled
    BY <1>5 DEF SubmitReturn, Stalled
  <2> QED
    BY <2>1, <2>2, <2>3, <2>4 DEF Broker!vars
<1>6. ASSUME NEW r \in Request, Expire(r) PROVE [Broker!Next]_(Broker!vars)
  BY <1>0, <1>6, InvisibleStep DEF Expire, Stalled
<1>7. ASSUME NEW c \in Consumer, ConsumerStep(c), ~CloseDone(c), ~Stall(c)
      PROVE  [Broker!Next]_(Broker!vars)
  <2>1. /\ \A d \in Consumer : consumer'[d] = "stalled" <=> consumer[d] = "stalled"
        /\ \A d \in Consumer : consumer[d] = "stalled" => job'[d] = job[d]
    BY <1>0, <1>7
    DEF ConsumerStep, Take, RoundTripOK, RoundTripFails, CopyDone, CopyFails, Exit, TypeOK
  <2>2. Stalled' = Stalled
    BY <2>1 DEF Stalled
  <2> QED
    BY <1>0, <1>7, <2>2, InvisibleStep
    DEF ConsumerStep, Take, RoundTripOK, RoundTripFails, CopyDone, CopyFails, Exit
<1>8. ASSUME NEW c \in Consumer, CloseDone(c) PROVE [Broker!Next]_(Broker!vars)
  BY <1>8, AnsweredStep
<1>9. ASSUME NEW c \in Consumer, Stall(c) PROVE [Broker!Next]_(Broker!vars)
  BY <1>9, StalledStep
<1>10. CASE MainStep
  BY <1>0, <1>10, InvisibleStep DEF MainStep, Signal, Drained, DrainTimeout, ExitProcess, Stop,
                                    Stalled
<1>11. CASE Dead \/ UNCHANGED vars
  BY <1>0, <1>11, InvisibleStep DEF Dead, vars, Stalled
<1> QED
  BY <1>1, <1>2, <1>3, <1>4, <1>5, <1>6, <1>7, <1>8, <1>9, <1>10, <1>11
  DEF Next, HandlerStep

\* The request path implements the abstract broker's safety: requests are
\* refused, or accepted within the capacity and answered once.
THEOREM RefinesBroker == Spec => Broker!SafeSpec
<1>1. Init => Broker!Init
  BY DEF Init, Broker!Init, OwedTo, Owed, Settled, Stalled
<1> QED
  BY <1>1, NextRefines, Invariance, PTL DEF Spec, Broker!SafeSpec
====
