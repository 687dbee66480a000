------------------------------ MODULE EventQueue ------------------------------
(* The event pipeline of posthog-core-stateless.ts: capture, the bounded queue *)
(* of every route, the flush timer, the chain of flush promises, the batches a *)
(* flush sends, and shutdown.                                                  *)
(*                                                                             *)
(* A queued message is its enqueue number.  The persisted array is always in   *)
(* enqueue order (push appends the newest, shift removes the oldest, filter    *)
(* keeps the order), so the array of a route is the SET of those numbers and   *)
(* slice(0, n) is the n smallest of them.  Every storage of the repository     *)
(* hands out the live array, so a flush always slices the current queue.       *)
EXTENDS Integers, FiniteSets

CONSTANTS
    NRoutes,          \* number of queue routes, drained in the order 1..NRoutes
    FlushAt,          \* options.flushAt
    InitialBatchSize, \* options.maxBatchSize
    MaxQueueSize,     \* options.maxQueueSize
    Periodic,         \* options.flushInterval is not 0
    RetryCount,       \* retries of one request (fetchRetryCount)
    NodeClient,       \* posthog-node: capture prepares asynchronously, and
                      \* flush() waits for the captures under way
    Outcomes,         \* the answers of the server and the network
    MaxCaptures,      \* bound: capture() calls
    MaxFlushCalls,    \* bound: flush() calls of the application
    MaxFlushes,       \* bound: flush promises ever created
    MayShutdown,      \* bound: whether the application calls shutdown()
    MayOptOut         \* bound: whether the application calls optIn/optOut

Routes   == 1..NRoutes
Captures == 1..MaxCaptures
Flushes  == 1..MaxFlushes

AllOutcomes == {"ok", "lost", "busy", "refused", "toolarge"}

ASSUME ConstantsAssumption ==
    /\ NRoutes \in Nat \ {0}
    /\ FlushAt \in Nat \ {0}
    /\ InitialBatchSize \in Nat /\ InitialBatchSize >= FlushAt
    /\ MaxQueueSize \in Nat /\ MaxQueueSize >= FlushAt
    /\ RetryCount \in Nat
    /\ MaxCaptures \in Nat /\ MaxFlushCalls \in Nat /\ MaxFlushes \in Nat
    /\ {Periodic, NodeClient, MayShutdown, MayOptOut} \subseteq BOOLEAN
    /\ Outcomes \subseteq AllOutcomes

VARIABLES
    optedOut,    \* persisted OptedOut flag
    begun,       \* capture() calls so far
    preparing,   \* captures whose prepare promise is pending (node)
    tickets,     \* messages pushed so far: the last enqueue number
    queue,       \* queue[r]: messages of route r in the persisted queue
    maxBatch,    \* this.maxBatchSize
    timer,       \* _flushTimer: "none", "armed", or "fired" (handle not cleared)
    calls,       \* flush() calls so far
    created,     \* flush promises created so far
    pending,     \* pendingFlushPromise, 0 when null
    last,        \* flushPromise, 0 when null
    pc,          \* pc[f]: progress of flush f
    prev,        \* prev[f]: previousFlushPromise of f, 0 when null
    waits,       \* waits[f]: captures f waits for before it starts
    run,         \* run[f]: locals of _flush and _flushRoute
    sd,          \* shutdown
    \* History of the messages:
    accepted,    \* accepted[r]: messages of route r the server has taken
    acked,       \* messages whose batch was answered with success
    refused,     \* messages dropped after an answer that is not success
    overflowed,  \* messages evicted from a full queue
    covers       \* covers[f]: messages a caller of flush f is promised

queueVars   == <<tickets, queue, overflowed>>
serverVars  == <<accepted, acked, refused>>
flushVars   == <<created, pending, last, pc, prev, waits>>
vars == <<optedOut, begun, preparing, calls, maxBatch, timer, run, sd, covers,
          queueVars, serverVars, flushVars>>

-------------------------------------------------------------------------------
(* Types and helpers.                                                          *)

Messages == 1..MaxCaptures   \* every message comes from one capture

Queued == UNION {queue[r] : r \in Routes}
Taken  == UNION {accepted[r] : r \in Routes}

\* The n oldest messages of q: queue.slice(0, n).
Slice(q, n) == {m \in q : Cardinality({k \in q : k < m}) < n}

Smallest(q) == CHOOSE m \in q : \A k \in q : m <= k

IdleRun == [route |-> 0, batch |-> {}, left |-> 0, tries |-> 0,
            thrown |-> FALSE, failed |-> FALSE]

Settled == {"resolved", "rejected"}
Running == {"starting", "sending", "storing"}
FlushPC == {"none", "waiting"} \cup Running \cup Settled

IdleShutdown == [pc |-> "none", joined |-> {}, joinedCaptures |-> {},
                 flush |-> 0, progress |-> FALSE, caught |-> FALSE,
                 timedOut |-> FALSE, owed |-> {}, awaited |-> {}]

ShutdownPC == {"none", "joining", "draining", "flushing", "done"}

RunRecord == [route : 0..NRoutes, batch : SUBSET Messages, left : Int,
              tries : 0..RetryCount, thrown : BOOLEAN, failed : BOOLEAN]

TypeOK ==
    /\ optedOut \in BOOLEAN
    /\ begun \in 0..MaxCaptures
    /\ preparing \subseteq 1..begun
    /\ tickets \in 0..MaxCaptures
    /\ queue \in [Routes -> SUBSET (1..tickets)]
    /\ maxBatch \in Nat \ {0}
    /\ timer \in {"none", "armed", "fired"}
    /\ calls \in 0..MaxFlushCalls
    /\ created \in 0..MaxFlushes
    /\ pending \in 0..created
    /\ last \in 0..created
    /\ pc \in [Flushes -> FlushPC]
    /\ prev \in [Flushes -> 0..MaxFlushes]
    /\ waits \in [Flushes -> SUBSET Captures]
    /\ run \in [Flushes -> RunRecord]
    /\ sd \in [pc : ShutdownPC, joined : SUBSET Flushes,
               joinedCaptures : SUBSET Captures, flush : 0..MaxFlushes,
               progress : BOOLEAN, caught : BOOLEAN, timedOut : BOOLEAN,
               owed : SUBSET Messages, awaited : SUBSET Captures]
    /\ accepted \in [Routes -> SUBSET (1..tickets)]
    /\ acked \subseteq 1..tickets
    /\ refused \subseteq 1..tickets
    /\ overflowed \subseteq 1..tickets
    /\ covers \in [Flushes -> SUBSET Messages]

Init ==
    /\ optedOut = FALSE
    /\ begun = 0 /\ preparing = {} /\ calls = 0
    /\ tickets = 0 /\ queue = [r \in Routes |-> {}]
    /\ maxBatch = InitialBatchSize
    /\ timer = "none"
    /\ created = 0 /\ pending = 0 /\ last = 0
    /\ pc = [f \in Flushes |-> "none"]
    /\ prev = [f \in Flushes |-> 0]
    /\ waits = [f \in Flushes |-> {}]
    /\ run = [f \in Flushes |-> IdleRun]
    /\ sd = IdleShutdown
    /\ accepted = [r \in Routes |-> {}]
    /\ acked = {} /\ refused = {} /\ overflowed = {}
    /\ covers = [f \in Flushes |-> {}]

-------------------------------------------------------------------------------
(* Flush promises.                                                             *)

\* flushInternal creates a promise chained after the last one.
NewFlush(covered) ==
    /\ created < MaxFlushes
    /\ LET f == created + 1 IN
        /\ created' = f /\ pending' = f /\ last' = f
        /\ pc' = [pc EXCEPT ![f] = "waiting"]
        /\ prev' = [prev EXCEPT ![f] = last]
        /\ waits' = [waits EXCEPT ![f] = IF NodeClient THEN preparing ELSE {}]
        /\ covers' = [covered EXCEPT ![f] = Queued]

\* A caller of flush() that is handed flush f.
Join(f) == covers' = [covers EXCEPT ![f] = @ \cup Queued] /\ UNCHANGED flushVars

\* Faulty: flush() returns the flush that is running already.
JoinRunningFlush == ~NodeClient /\ last # 0 /\ Join(last)

\* Without the wait for captures, flush() returns the flush not yet started.
JoinFlush == ~NodeClient /\ pending # 0 /\ Join(pending)

Flush == \/ JoinFlush
         \/ (NodeClient \/ pending = 0) /\ NewFlush(covers)

FlushBackground(covered) ==
    \/ pending # 0 /\ covers' = covered /\ UNCHANGED flushVars
    \/ pending = 0 /\ NewFlush(covered)

-------------------------------------------------------------------------------
(* Capturing.                                                                  *)

\* enqueue, once before_send has kept the message of capture c.
Push(c, r) ==
    LET evicted == IF Cardinality(queue[r]) >= MaxQueueSize THEN {Smallest(queue[r])} ELSE {}
        t == tickets + 1
        q == (queue[r] \ evicted) \cup {t}
        covered == [f \in Flushes |-> IF c \in waits[f] THEN covers[f] \cup {t}
                                                        ELSE covers[f]]
    IN  /\ ~optedOut
        /\ tickets' = t
        /\ queue' = [queue EXCEPT ![r] = q]
        /\ overflowed' = overflowed \cup evicted
        /\ timer' = IF Periodic /\ timer = "none" THEN "armed" ELSE timer
        /\ \/ Cardinality(q) >= FlushAt /\ FlushBackground(covered)
           \/ Cardinality(q) < FlushAt /\ covers' = covered /\ UNCHANGED flushVars
        /\ sd' = [sd EXCEPT !.owed = IF c \in sd.awaited THEN @ \cup {t} ELSE @]
        /\ UNCHANGED <<optedOut, calls, maxBatch, run, serverVars>>

\* The browserless clients enqueue within capture() ...
Capture(r) ==
    /\ ~NodeClient /\ begun < MaxCaptures
    /\ begun' = begun + 1
    /\ Push(begun', r)
    /\ UNCHANGED preparing

\* ... posthog-node first prepares the message, as a pending promise.
BeginCapture ==
    /\ NodeClient /\ begun < MaxCaptures
    /\ begun' = begun + 1
    /\ preparing' = preparing \cup {begun'}
    /\ UNCHANGED <<optedOut, calls, maxBatch, timer, run, sd, covers,
                   queueVars, serverVars, flushVars>>

FinishCapture(c, r) ==
    /\ c \in preparing
    /\ preparing' = preparing \ {c}
    /\ Push(c, r)
    /\ UNCHANGED begun

\* before_send returned null, preparing failed, or the client is opted out.
DiscardCapture(c) ==
    /\ c \in preparing
    /\ preparing' = preparing \ {c}
    /\ UNCHANGED <<optedOut, begun, calls, maxBatch, timer, run, sd, covers,
                   queueVars, serverVars, flushVars>>

SetOptedOut(value) ==
    /\ MayOptOut /\ optedOut # value
    /\ optedOut' = value
    /\ UNCHANGED <<begun, preparing, calls, maxBatch, timer, run, sd, covers,
                   queueVars, serverVars, flushVars>>

\* The timer's callback is flushBackground; it leaves the handle in place.
TimerFires ==
    /\ timer = "armed"
    /\ timer' = "fired"
    /\ FlushBackground(covers)
    /\ UNCHANGED <<optedOut, begun, preparing, calls, maxBatch, run, sd,
                   queueVars, serverVars>>

CallFlush ==
    /\ calls < MaxFlushCalls
    /\ calls' = calls + 1
    /\ Flush
    /\ UNCHANGED <<optedOut, begun, preparing, maxBatch, timer, run, sd,
                   queueVars, serverVars>>

-------------------------------------------------------------------------------
(* Sending.                                                                    *)

\* The next batch of route r, of which `left` messages remain to be sent.
NextBatch(r, left, failed) ==
    [route |-> r, batch |-> Slice(queue[r], maxBatch), left |-> left,
     tries |-> 0, thrown |-> FALSE, failed |-> failed]

\* _flush goes on with the first route from k on that has messages, or ends.
Proceed(f, k, failed) ==
    LET rest == {r \in k..NRoutes : queue[r] # {}}
        r == Smallest(rest)
    IN  \/ /\ rest # {}
           /\ pc' = [pc EXCEPT ![f] = "sending"]
           /\ run' = [run EXCEPT ![f] = NextBatch(r, Cardinality(queue[r]), failed)]
           /\ UNCHANGED <<last, prev, waits, covers>>
        \/ /\ rest = {}
           /\ pc' = [pc EXCEPT ![f] = IF failed THEN "rejected" ELSE "resolved"]
           /\ run' = [run EXCEPT ![f] = IdleRun]
           /\ last' = IF last = f THEN 0 ELSE last
           /\ prev' = [prev EXCEPT ![f] = 0]
           /\ waits' = [waits EXCEPT ![f] = {}]
           /\ covers' = [covers EXCEPT ![f] = {}]

\* _flush runs up to `await this._initPromise`, leaving the timer as given.
Start(f, timerLeft) ==
    /\ pc[f] = "waiting"
    /\ pending' = IF pending = f THEN 0 ELSE pending
    /\ timer' = timerLeft
    /\ pc' = [pc EXCEPT ![f] = "starting"]
    /\ UNCHANGED <<optedOut, begun, preparing, calls, maxBatch, run, sd, covers,
                   created, last, prev, waits, queueVars, serverVars>>

CapturesDone(f) == waits[f] \cap preparing = {}
PreviousDone(f) == prev[f] # 0 => pc[prev[f]] \in Settled

\* Faulty: the flush does not wait for the previous one ...
StartFlushUnchained(f) == CapturesDone(f) /\ Start(f, "none")
\* ... or for the captures under way ...
StartFlushTooEarly(f) == PreviousDone(f) /\ Start(f, "none")
\* ... leaves the timer's handle in place ...
StartFlushKeepingTimer(f) == CapturesDone(f) /\ PreviousDone(f) /\ Start(f, timer)
\* ... or waits for every other pending flush promise.
StartFlushLast(f) ==
    (\A g \in Flushes \ {f} : pc[g] \in Settled \cup {"none"}) /\ Start(f, "none")

\* The promise's own waits are over.
StartFlush(f) == CapturesDone(f) /\ PreviousDone(f) /\ Start(f, "none")

BeginFlush(f) ==
    /\ pc[f] = "starting"
    /\ Proceed(f, 1, FALSE)
    /\ UNCHANGED <<optedOut, begun, preparing, calls, maxBatch, timer, sd,
                   created, pending, queueVars, serverVars>>

RemoveFromQueue(f, thrown, gone) ==
    /\ queue' = [queue EXCEPT ![run[f].route] = @ \ gone]
    /\ sd' = [sd EXCEPT !.progress = (sd.pc = "flushing")]
    /\ pc' = [pc EXCEPT ![f] = "storing"]
    /\ run' = [run EXCEPT ![f].thrown = thrown]
    /\ UNCHANGED <<last, prev, waits, covers>>

\* Faulty: as many messages as the batch held are removed from the front.
PersistByCount(f, thrown) == RemoveFromQueue(f, thrown,
    Slice(queue[run[f].route], Cardinality(run[f].batch)))

\* persistQueueChange, up to `await this.flushStorage()`.
PersistQueueChange(f, thrown) == RemoveFromQueue(f, thrown, run[f].batch)

ServerTakes(f) == accepted' = [accepted EXCEPT ![run[f].route] = @ \cup run[f].batch]

BatchAccepted(f) ==
    /\ pc[f] = "sending" /\ "ok" \in Outcomes
    /\ ServerTakes(f)
    /\ acked' = acked \cup run[f].batch
    /\ PersistQueueChange(f, FALSE)
    /\ UNCHANGED <<optedOut, begun, preparing, calls, maxBatch, timer, created,
                   pending, tickets, overflowed, refused>>

\* A request is retried, at most RetryCount times, by fetchWithRetry.
RetryBatch(f) ==
    /\ run[f].tries < RetryCount
    /\ run' = [run EXCEPT ![f].tries = @ + 1]
    /\ UNCHANGED <<queue, sd, last, pc, prev, waits, covers>>

\* No answer came, although the server may have taken the batch.
BatchLost(f) ==
    /\ pc[f] = "sending" /\ "lost" \in Outcomes
    /\ ServerTakes(f) \/ UNCHANGED accepted
    /\ \/ RetryBatch(f)
       \/ /\ run[f].tries = RetryCount
          /\ Proceed(f, run[f].route + 1, TRUE)
          /\ UNCHANGED <<queue, sd>>
    /\ UNCHANGED <<optedOut, begun, preparing, calls, maxBatch, timer, created,
                   pending, tickets, overflowed, acked, refused>>

DropBatch(f) ==
    /\ refused' = refused \cup run[f].batch
    /\ PersistQueueChange(f, TRUE)

\* 408, 429 and 5xx are retried first, every other error answer is final.
BatchRefused(f) ==
    /\ pc[f] = "sending"
    /\ \/ "busy" \in Outcomes /\ RetryBatch(f) /\ UNCHANGED refused
       \/ "busy" \in Outcomes /\ run[f].tries = RetryCount /\ DropBatch(f)
       \/ "refused" \in Outcomes /\ DropBatch(f)
       \/ "toolarge" \in Outcomes /\ Cardinality(run[f].batch) = 1 /\ DropBatch(f)
    /\ UNCHANGED <<optedOut, begun, preparing, calls, maxBatch, timer, created,
                   pending, tickets, overflowed, accepted, acked>>

Half(f) == Cardinality(run[f].batch) \div 2

Shrink(f, batch) ==
    /\ pc[f] = "sending" /\ "toolarge" \in Outcomes
    /\ maxBatch' = Half(f)
    /\ run' = [run EXCEPT ![f].batch = batch, ![f].tries = 0]
    /\ UNCHANGED <<optedOut, begun, preparing, calls, timer, sd, covers,
                   queueVars, serverVars, flushVars>>

\* Faulty: a batch of one message is halved too ...
BatchTooLargeAnySize(f) == Shrink(f, Slice(queue[run[f].route], Half(f)))
\* ... or the second half is sent first.
BatchTooLargeSecondHalf(f) ==
    /\ Cardinality(run[f].batch) > 1
    /\ Shrink(f, run[f].batch \ Slice(run[f].batch, Half(f)))

\* 413: half the batch is sent next, from the queue as it is now.
BatchTooLarge(f) ==
    /\ Cardinality(run[f].batch) > 1
    /\ Shrink(f, Slice(queue[run[f].route], Half(f)))

\* flushStorage is done: the next batch of the route, or the next route.
StorageFlushed(f) ==
    LET r == run[f].route
        left == run[f].left - Cardinality(run[f].batch)
        again == ~run[f].thrown /\ queue[r] # {} /\ left > 0
    IN  /\ pc[f] = "storing"
        /\ \/ /\ again
              /\ pc' = [pc EXCEPT ![f] = "sending"]
              /\ run' = [run EXCEPT ![f] = NextBatch(r, left, run[f].failed)]
              /\ UNCHANGED <<last, prev, waits, covers>>
           \/ /\ ~again
              /\ Proceed(f, r + 1, run[f].failed \/ run[f].thrown)
        /\ UNCHANGED <<optedOut, begun, preparing, calls, maxBatch, timer, sd,
                       created, pending, queueVars, serverVars>>

-------------------------------------------------------------------------------
(* Shutdown.                                                                   *)

Unsettled == {f \in Flushes : pc[f] # "none" /\ pc[f] \notin Settled}

others == <<optedOut, begun, preparing, calls, maxBatch, run, queueVars, serverVars>>

\* promiseQueue.join() snapshots the pending promises ...
BeginShutdown ==
    /\ MayShutdown /\ sd.pc = "none"
    /\ timer' = "none"
    /\ sd' = [sd EXCEPT !.pc = "joining", !.joined = Unsettled,
                        !.joinedCaptures = preparing,
                        !.owed = Queued, !.awaited = preparing]
    /\ UNCHANGED <<others, covers, flushVars>>

\* ... rejects with the first of them that rejects; the error is logged ...
JoinRejected ==
    /\ sd.pc = "joining"
    /\ \E f \in sd.joined : pc[f] = "rejected"
    /\ sd' = [sd EXCEPT !.pc = "done", !.caught = TRUE, !.joined = {},
                        !.joinedCaptures = {}]
    /\ UNCHANGED <<others, timer, covers, flushVars>>

\* ... and starts over until none is left.
JoinAgain(capturesLeft) ==
    /\ sd.pc = "joining"
    /\ \A f \in sd.joined : pc[f] = "resolved"
    /\ sd.joinedCaptures \cap capturesLeft = {}
    /\ sd' = [sd EXCEPT !.joined = Unsettled, !.joinedCaptures = capturesLeft,
                        !.pc = IF Unsettled = {} /\ capturesLeft = {}
                               THEN "draining" ELSE "joining"]
    /\ UNCHANGED <<others, timer, covers, flushVars>>

\* Faulty: captures under way are not waited for.
JoinFlushesOnly == JoinAgain({})

JoinResolved == JoinAgain(preparing)

DrainFlush ==
    /\ sd.pc = "draining" /\ Queued # {}
    /\ Flush
    /\ sd' = [sd EXCEPT !.pc = "flushing", !.flush = pending', !.progress = FALSE]
    /\ UNCHANGED <<others, timer>>

DrainFinished ==
    /\ sd.pc = "draining" /\ Queued = {}
    /\ sd' = [sd EXCEPT !.pc = "done"]
    /\ UNCHANGED <<others, timer, covers, flushVars>>

\* Go round again, unless time is up, nothing was dequeued or the flush failed.
DrainFlushed ==
    /\ sd.pc = "flushing" /\ pc[sd.flush] \in Settled
    /\ sd' = [sd EXCEPT
         !.pc = IF pc[sd.flush] = "resolved" /\ sd.progress /\ ~sd.timedOut
                THEN "draining" ELSE "done",
         !.caught = (pc[sd.flush] = "rejected"), !.flush = 0, !.progress = FALSE]
    /\ UNCHANGED <<others, timer, covers, flushVars>>

\* The caller's promise rejects; the drain only notices after its next flush.
ShutdownTimesOut ==
    /\ sd.pc \notin {"none", "done"} /\ ~sd.timedOut
    /\ sd' = [sd EXCEPT !.timedOut = TRUE]
    /\ UNCHANGED <<others, timer, covers, flushVars>>

-------------------------------------------------------------------------------
Application ==
    \/ \E r \in Routes : Capture(r)
    \/ BeginCapture
    \/ \E value \in BOOLEAN : SetOptedOut(value)
    \/ CallFlush
    \/ BeginShutdown

CaptureSettles == \E c \in Captures :
    DiscardCapture(c) \/ \E r \in Routes : FinishCapture(c, r)

Answer(f) == \/ BatchAccepted(f) \/ BatchLost(f)
             \/ BatchRefused(f)  \/ BatchTooLarge(f)

FlushStep(f) == StartFlush(f) \/ BeginFlush(f) \/ Answer(f) \/ StorageFlushed(f)

ShutdownStep == \/ JoinRejected \/ JoinResolved
                \/ DrainFlush \/ DrainFinished \/ DrainFlushed

Next ==
    \/ Application
    \/ CaptureSettles
    \/ TimerFires
    \/ \E f \in Flushes : FlushStep(f)
    \/ ShutdownStep
    \/ ShutdownTimesOut

Spec == Init /\ [][Next]_vars

\* The event loop runs every callback and timer that is due, and a request is
\* answered or times out.
Fairness ==
    /\ WF_vars(CaptureSettles)
    /\ WF_vars(TimerFires)
    /\ WF_vars(\E f \in Flushes : FlushStep(f))
    /\ WF_vars(ShutdownStep)

FairSpec == Spec /\ Fairness

-------------------------------------------------------------------------------
(* Safety.                                                                     *)

\* A message that was queued is still queued, or the server has taken it, or it
\* was evicted by a full queue, or dropped on an answer to a batch holding it:
\* persistQueueChange removes nothing else, whatever was captured and evicted
\* while the batch was in flight.
NoMessageLost ==
    \A m \in 1..tickets : m \in Queued \cup Taken \cup refused \cup overflowed

\* The server never takes a message of a route before an older one that is
\* still queued: flushing sends the oldest messages first, across halved
\* batches, failed flushes and evictions.
AcceptedInOrder ==
    \A r \in Routes : \A a \in accepted[r] : \A m \in queue[r] :
        m < a => m \in accepted[r]

\* A batch answered with success is never sent again.
NoResend == \A f \in Flushes : pc[f] = "sending" => run[f].batch \cap acked = {}

\* Sending is in order and, once acknowledged, over.
SentOnceInOrder == AcceptedInOrder /\ NoResend

\* The promise chain runs one _flush at a time.
OneFlushRuns == \A f, g \in Flushes :
    pc[f] \in Running /\ pc[g] \in Running => f = g

\* The timer's handle outlives its callback, and a handle keeps enqueue from
\* arming a timer: a flush that has yet to start (and clear it) is then pending.
StaleTimerIsCleared == timer = "fired" => pending # 0 /\ pc[pending] = "waiting"

\* As long as no flush failed and shutdown was not called, something is under
\* way to flush whatever is queued: a timer or a flush.
NothingStranded ==
    /\ Periodic /\ Queued # {} /\ sd.pc = "none"
    /\ \A f \in Flushes : pc[f] # "rejected"
    => timer = "armed" \/ Unsettled # {}

\* flush() resolves only when all that was queued at the call (in posthog-node
\* also what captures under way at the call have queued since) left the queue.
FlushKeepsPromise ==
    [][\A f \in Flushes : pc[f] \notin Settled /\ pc'[f] = "resolved"
            => covers[f] \cap Queued' = {} /\ waits[f] \cap preparing' = {}]_vars

\* The drain of shutdown never gives up for want of progress, and a shutdown
\* that met no error and no timeout leaves nothing it was called for behind.
ShutdownDrains ==
    /\ sd.pc = "flushing" /\ pc[sd.flush] = "resolved" => sd.progress
    /\ sd.pc = "done" /\ ~sd.caught /\ ~sd.timedOut
            => sd.owed \cap Queued = {} /\ sd.awaited \cap preparing = {}

\* The pipeline implements the queue an application may rely on.
Delivery == INSTANCE DeliveryQueue WITH
    NumRoutes <- NRoutes, Capacity <- MaxQueueSize,
    submitted <- tickets, held <- queue, delivered <- accepted

ImplementsDelivery == Delivery!DQSpec

-------------------------------------------------------------------------------
(* Liveness.                                                                   *)

\* Every flush promise settles.
FlushSettles == \A f \in Flushes : pc[f] = "waiting" ~> pc[f] \in Settled

\* Even without its timeout, shutdown ends.
ShutdownEnds == sd.pc = "joining" ~> sd.pc = "done"

\* What the application awaits settles: flush() and shutdown().
CallsSettle == FlushSettles /\ ShutdownEnds

\* As long as no flush fails, a queued message is not left waiting for ever.
QueueDrains ==
    [](\A f \in Flushes : pc[f] # "rejected")
        => \A m \in Messages : m \in Queued ~> m \notin Queued
===============================================================================
