---------------------------- MODULE SessionTable ----------------------------
(***************************************************************************)
(* gateway/internal/session/session.go: the image_id -> worker_id table,   *)
(* one step per critical section.  Put, Delete and sweepExpired publish    *)
(* the table size to the SessionTableSize gauge AFTER they released the    *)
(* lock; Get looks at the clock after it released it; sweepExpired reads   *)
(* the clock before it takes it.                                           *)
(*                                                                         *)
(* Callers are the gateway's goroutines: makeModifyResponse (Put),         *)
(* PickByImageID (Get, then Delete when the worker found is unhealthy),    *)
(* OnWorkerDown (DropByWorker), and the sweeper.  Ids are eight hex digits *)
(* that the back ends draw, so a Put may meet an id that is in the table;  *)
(* it then replaces the entry.                                             *)
(***************************************************************************)
EXTENDS Naturals, FiniteSets

CONSTANTS
    Image, Worker, NoWorker,
    Caller,     \* goroutines that serve requests
    Sweeper,    \* the goroutine of RunSweeper
    NoImage, NoEntry,
    TTL,        \* t.ttl, in clock ticks
    MaxTime     \* bound: the clock stops here

ASSUME TimeAssumption == TTL \in Nat /\ MaxTime \in Nat
ASSUME NamesAssumption ==
    /\ NoWorker \notin Worker
    /\ NoImage \notin Image
    /\ Sweeper \notin Caller
    /\ NoEntry \notin [workerID : Worker, expiresAt : Nat]

VARIABLES
    now,        \* time.Now(), never goes back
    entries,    \* image -> entry, NoEntry where the map has no key
    gauge,      \* metrics.SessionTableSize
    pc,         \* goroutine -> where it is inside a call
    image,      \* goroutine -> the image its call is about
    seen,       \* goroutine -> the entry Get copied under the read lock
    local,      \* goroutine -> the size or the clock reading it holds
    overtaken   \* the calls of Get whose image was put since they read it (history)

vars == <<now, entries, gauge, pc, image, seen, local, overtaken>>

Goroutine == Caller \union {Sweeper}
Entry == [workerID : Worker, expiresAt : Nat]

Present(es) == {i \in Image : es[i] # NoEntry}
Expired(e, t) == t > e.expiresAt        \* t.After(e.expiresAt)
Live(i) == entries[i] # NoEntry /\ ~Expired(entries[i], now)

Init ==
    /\ now = 0
    /\ entries = [i \in Image |-> NoEntry]
    /\ gauge = 0
    /\ pc = [g \in Goroutine |-> "idle"]
    /\ image = [g \in Goroutine |-> NoImage]
    /\ seen = [g \in Goroutine |-> NoEntry]
    /\ local = [g \in Goroutine |-> 0]
    /\ overtaken = {}

Tick ==
    /\ now < MaxTime
    /\ now' = now + 1
    /\ UNCHANGED <<entries, gauge, pc, image, seen, local, overtaken>>

\* The map became es in a critical section; its size was read there and is
\* published later.
Unlock(g, es) ==
    /\ entries' = es
    /\ pc' = [pc EXCEPT ![g] = "publish"]
    /\ local' = [local EXCEPT ![g] = Cardinality(Present(es))]

\* metrics.SessionTableSize.Set(float64(size)); the call returns.
Publish(g) ==
    /\ pc[g] = "publish"
    /\ gauge' = local[g]
    /\ pc' = [pc EXCEPT ![g] = "idle"]
    /\ image' = [image EXCEPT ![g] = NoImage]
    /\ local' = [local EXCEPT ![g] = 0]
    /\ UNCHANGED <<now, entries, seen, overtaken>>

\* Put under the lock writes or refreshes: the TTL starts again.  A Get that
\* has read the entry before and may still delete the key is overtaken.
Put(g, i, w) ==
    /\ pc[g] = "idle"
    /\ now + TTL < MaxTime     \* bound: time is left for the entry to expire
    /\ Unlock(g, [entries EXCEPT ![i] = [workerID |-> w, expiresAt |-> now + TTL]])
    /\ overtaken' = overtaken \union
          {h \in Caller : pc[h] \in {"check", "delete"} /\ image[h] = i}
    /\ UNCHANGED <<now, gauge, image, seen>>

\* Get's read lock; a miss returns at once.
GetRead(g, i) ==
    /\ pc[g] = "idle"
    /\ entries[i] # NoEntry
    /\ pc' = [pc EXCEPT ![g] = "check"]
    /\ image' = [image EXCEPT ![g] = i]
    /\ seen' = [seen EXCEPT ![g] = entries[i]]
    /\ UNCHANGED <<now, entries, gauge, local, overtaken>>

\* Get looks at the clock after the unlock: the copy has expired and the key
\* will be deleted, or the worker is returned to PickByImageID.
GetCheck(g) ==
    /\ pc[g] = "check"
    /\ pc' = [pc EXCEPT ![g] = IF Expired(seen[g], now) THEN "delete" ELSE "found"]
    /\ seen' = [seen EXCEPT ![g] = NoEntry]
    /\ overtaken' = IF Expired(seen[g], now) THEN overtaken ELSE overtaken \ {g}
    /\ UNCHANGED <<now, entries, gauge, image, local>>

\* PickByImageID: the worker is healthy and the request is routed.
Route(g) ==
    /\ pc[g] = "found"
    /\ pc' = [pc EXCEPT ![g] = "idle"]
    /\ image' = [image EXCEPT ![g] = NoImage]
    /\ UNCHANGED <<now, entries, gauge, seen, local, overtaken>>

\* PickByImageID: the worker is gone, the orphan is deleted.
Orphan(g) ==
    /\ pc[g] = "found"
    /\ pc' = [pc EXCEPT ![g] = "orphan"]
    /\ UNCHANGED <<now, entries, gauge, image, seen, local, overtaken>>

\* Delete under the lock, for an expired copy or for an orphan.
Delete(g) ==
    /\ pc[g] \in {"delete", "orphan"}
    /\ Unlock(g, [entries EXCEPT ![image[g]] = NoEntry])
    /\ overtaken' = overtaken \ {g}
    /\ UNCHANGED <<now, gauge, image, seen>>

\* DropByWorker publishes while it holds the lock: one step.
DropByWorker(w) ==
    LET es == [i \in Image |->
                  IF entries[i] # NoEntry /\ entries[i].workerID = w
                  THEN NoEntry ELSE entries[i]]
    IN
    /\ entries' = es
    /\ gauge' = Cardinality(Present(es))
    /\ UNCHANGED <<now, pc, image, seen, local, overtaken>>

\* sweepExpired reads the clock ...
SweepClock ==
    /\ pc[Sweeper] = "idle"
    /\ pc' = [pc EXCEPT ![Sweeper] = "sweep"]
    /\ local' = [local EXCEPT ![Sweeper] = now]
    /\ UNCHANGED <<now, entries, gauge, image, seen, overtaken>>

\* Mutant: the size is published only when something was swept.
SweepAndTellChanges ==
    LET es == [i \in Image |->
                  IF entries[i] # NoEntry /\ Expired(entries[i], local[Sweeper])
                  THEN NoEntry ELSE entries[i]]
    IN
    /\ pc[Sweeper] = "sweep"
    /\ entries' = es
    /\ pc' = [pc EXCEPT ![Sweeper] = IF es = entries THEN "idle" ELSE "publish"]
    /\ local' = [local EXCEPT ![Sweeper] =
                    IF es = entries THEN 0 ELSE Cardinality(Present(es))]
    /\ UNCHANGED <<now, gauge, image, seen, overtaken>>

\* Mutant: the sweeper ends when it leaves the table empty.
SweepUntilEmpty ==
    LET es == [i \in Image |->
                  IF entries[i] # NoEntry /\ Expired(entries[i], local[Sweeper])
                  THEN NoEntry ELSE entries[i]]
    IN
    /\ pc[Sweeper] = "sweep"
    /\ entries' = es
    /\ pc' = [pc EXCEPT ![Sweeper] = IF Present(es) = {} THEN "stopped" ELSE "publish"]
    /\ local' = [local EXCEPT ![Sweeper] = Cardinality(Present(es))]
    /\ UNCHANGED <<now, gauge, image, seen, overtaken>>

\* Mutant: an entry is swept in the tick in which it is still valid.
SweepTooSoon ==
    /\ pc[Sweeper] = "sweep"
    /\ Unlock(Sweeper, [i \in Image |->
          IF entries[i] # NoEntry /\ local[Sweeper] >= entries[i].expiresAt
          THEN NoEntry ELSE entries[i]])
    /\ UNCHANGED <<now, gauge, image, seen, overtaken>>

\* ... and scans the map under the lock with that reading.
Sweep ==
    /\ pc[Sweeper] = "sweep"
    /\ Unlock(Sweeper, [i \in Image |->
          IF entries[i] # NoEntry /\ Expired(entries[i], local[Sweeper])
          THEN NoEntry ELSE entries[i]])
    /\ UNCHANGED <<now, gauge, image, seen, overtaken>>

CallStep(g) == GetCheck(g) \/ Route(g) \/ Orphan(g) \/ Delete(g) \/ Publish(g)

Next ==
    \/ Tick
    \/ \E g \in Caller : \E i \in Image :
          GetRead(g, i) \/ \E w \in Worker : Put(g, i, w)
    \/ \E g \in Goroutine : CallStep(g)
    \/ \E w \in Worker : DropByWorker(w)
    \/ SweepClock
    \/ Sweep

Spec == Init /\ [][Next]_vars

\* The clock advances, calls that have begun end, and the ticker fires for
\* ever.  No call is ever required to begin.
Fairness ==
    /\ WF_vars(Tick)
    /\ \A g \in Goroutine : WF_vars(CallStep(g))
    /\ WF_vars(SweepClock)
    /\ WF_vars(Sweep)

FairSpec == Spec /\ Fairness

-----------------------------------------------------------------------------
(* Properties. *)

\* Every variable has its type.
TypeOK ==
    /\ now \in Nat
    /\ entries \in [Image -> Entry \union {NoEntry}]
    /\ gauge \in Nat
    /\ pc \in [Goroutine -> {"idle", "check", "found", "delete", "orphan", "sweep", "publish"}]
    /\ image \in [Goroutine -> Image \union {NoImage}]
    /\ seen \in [Goroutine -> Entry \union {NoEntry}]
    /\ local \in [Goroutine -> Nat]
    /\ overtaken \subseteq Caller

\* Sessions are only taken early by those that mean to: a live entry leaves
\* the table in DropByWorker or as an orphan, never because the sweeper acted
\* on an old clock reading, and because Get acted on an old copy only if the
\* image was put again between Get's read and its delete.
TakenEarly(i) == Live(i) /\ entries'[i] = NoEntry
NoLiveEntryLost ==
    [][\A i \in Image : TakenEarly(i) =>
          \/ DropByWorker(entries[i].workerID)
          \/ \E g \in Caller :
                /\ image[g] = i
                /\ pc[g] = "orphan" \/ (pc[g] = "delete" /\ g \in overtaken)
                /\ Delete(g)]_vars

\* What Get is about to delete as expired is expired (or gone) in the table
\* as it is now, not only in the copy Get made, unless Put overtook the call.
DeleteIsJustified ==
    \A g \in Goroutine : pc[g] = "delete" => ~Live(image[g]) \/ g \in overtaken

\* No leak: when images are not put any more (the bound on the clock ends the
\* Puts) the table empties, also when nobody ever asks for a session again.
EverySessionEnds == Present(entries) # {} ~> Present(entries) = {}

\* Two calls may publish their sizes in the wrong order, so the gauge can be
\* wrong while the table is at rest; the sweeper puts it right for good.
GaugeConverges == <>[](gauge = Cardinality(Present(entries)))

-----------------------------------------------------------------------------
(* The inductive invariant behind the safety properties. *)

\* The table has a size.
FiniteInv == IsFiniteSet(Present(entries))

\* A goroutine inside Get or Delete is about an image; the copy Get made is
\* still in the table unless the session has ended or Put overtook the call.
CallInv ==
    \A g \in Goroutine :
        /\ pc[g] \in {"check", "found", "delete", "orphan"} => g \in Caller /\ image[g] \in Image
        /\ pc[g] = "check" =>
              /\ seen[g] \in Entry
              /\ entries[image[g]] \in {NoEntry, seen[g]} \/ g \in overtaken
        /\ pc[g] = "sweep" => local[g] <= now

IInv == TypeOK /\ FiniteInv /\ CallInv /\ DeleteIsJustified
=============================================================================
