-------------------------------- MODULE LogQueue --------------------------------
(* The logs pipeline of core/src/logs/index.ts (PostHogLogs) and of the host in *)
(* browser/src/posthog-logs.ts that empties its queue, sends it by beacon and   *)
(* replaces the pipeline when config.logs changes.                              *)
(*                                                                              *)
(* A record is its enqueue number.  Hosts hand out the live queue, an array in  *)
(* enqueue order, so the queue is the SET of its records and slice(0, n) is the *)
(* n oldest of them.  A host that replaces the array leaves a flush that is     *)
(* sending with the old one.                                                    *)
EXTENDS Integers, FiniteSets

CONSTANTS
    MaxBufferSize,   \* records that trigger a flush
    MaxQueueSize,    \* records above which the oldest is evicted
    MaxBatch,        \* config.maxBatchRecordsPerPost
    MaxExponent,     \* MAX_FLUSH_BACKOFF_EXPONENT
    Outcomes,        \* what _sendLogsBatch can answer
    Hosts,           \* the sets of calls that an application and its host may make
    NumCores,        \* pipelines built: config.logs changes NumCores - 1 times
    NumFlushes,      \* bound: flushes under way at a time
    MaxRecords,      \* bound: records enqueued
    HostRecords,     \* bound: the same, where the host makes more than one call
    HostOutcomes     \* bound: the outcomes there

Cores   == 1..NumCores
Flushes == 1..NumFlushes
Records == 1..MaxRecords

AllOutcomes == {"ok", "retry", "toolarge", "fatal"}
AllCalls == {"flush", "shutdown", "reconnect", "optout", "reset", "beacon", "swap"}

ASSUME LogConstants ==
    /\ MaxBufferSize \in Nat \ {0}
    /\ MaxQueueSize \in Nat /\ MaxQueueSize >= MaxBufferSize
    /\ MaxBatch \in Nat \ {0}
    /\ MaxExponent \in Nat
    /\ HostOutcomes \subseteq Outcomes /\ Outcomes \subseteq AllOutcomes
    /\ \A calls \in Hosts : calls \subseteq AllCalls
    /\ NumCores \in Nat \ {0} /\ NumFlushes \in Nat \ {0}
    /\ MaxRecords \in Nat /\ HostRecords \in 0..MaxRecords

VARIABLES
    host,       \* the calls of this behaviour's application and host
    optedOut,   \* instance.optedOut
    enqueued,   \* records enqueued so far
    queue,      \* LogsQueue
    current,    \* the pipeline the host captures into
    core,       \* core[c]: fields of pipeline c
    run,        \* run[f]: a _flushInner under way and who waits for it
    \* History of the records:
    taken,      \* the server has them
    acked,      \* the server answered that it has them
    refused,    \* in a batch given up
    overflowed, \* evicted from a full queue
    withdrawn   \* taken by the host, at a reset or to be sent by beacon

history == <<taken, acked, refused, overflowed, withdrawn>>
vars == <<host, optedOut, enqueued, queue, current, core, run, history>>

-------------------------------------------------------------------------------
Least(a, b) == IF a <= b THEN a ELSE b

\* slice(0, n) of q.
Slice(q, n) == {m \in q : Cardinality({k \in q : k < m}) < n}

\* A busy host gets smaller bounds.
Busy == Cardinality(host) > 1
RecordLimit == IF Busy THEN HostRecords ELSE MaxRecords
Answers == IF Busy THEN HostOutcomes ELSE Outcomes

NoTimer == -1

\* The fields of a pipeline, new or reset.  The timer is the exponent of its delay.
NewCore == [timer |-> NoTimer, promise |-> 0, maxBatch |-> MaxBatch,
            evicted |-> 0, failures |-> 0]

\* Failures beyond the longest backoff make no difference.
MaxFailures == MaxExponent + 1

NoRun == [pc |-> "none", core |-> 1, array |-> {}, live |-> FALSE, batch |-> {},
          left |-> 0, failed |-> FALSE, background |-> 0]

Sending == {"sending", "persisting"}

TypeOK ==
    /\ host \in Hosts
    /\ optedOut \in BOOLEAN
    /\ enqueued \in 0..MaxRecords
    /\ queue \subseteq 1..enqueued
    /\ current \in Cores
    /\ core \in [Cores -> [timer : NoTimer..MaxExponent, promise : 0..NumFlushes,
                           maxBatch : 1..MaxBatch, evicted : 0..MaxRecords,
                           failures : 0..MaxFailures]]
    /\ run \in [Flushes ->
                  [pc : {"none", "ending"} \cup Sending, core : Cores,
                   array : SUBSET Records, live : BOOLEAN, batch : SUBSET Records,
                   left : Int, failed : BOOLEAN, background : 0..MaxFailures]]
    /\ \A s \in {taken, acked, refused, overflowed, withdrawn} :
          s \subseteq 1..enqueued

Init ==
    /\ host \in Hosts
    /\ optedOut = FALSE
    /\ enqueued = 0 /\ queue = {}
    /\ current = 1
    /\ core = [c \in Cores |-> NewCore]
    /\ run = [f \in Flushes |-> NoRun]
    /\ taken = {} /\ acked = {} /\ refused = {}
    /\ overflowed = {} /\ withdrawn = {}

-------------------------------------------------------------------------------
(* Flushing.                                                                    *)

\* A new _flushInner of pipeline c: it has run up to its first await.
NewRun(c, q, size, background) ==
    [pc |-> IF q = {} THEN "ending" ELSE "sending", core |-> c, array |-> {},
     live |-> TRUE, batch |-> Slice(q, size), left |-> Cardinality(q),
     failed |-> FALSE, background |-> background]

\* flush() of pipeline c, over the queue q and pipelines cs, for that many
\* background callers: it joins a flush under way.
FlushOrJoin(c, cs, q, background, joined) ==
    \/ /\ joined # 0
       /\ core' = cs
       /\ run' = [run EXCEPT ![joined].background = Least(@ + background, MaxFailures)]
    \/ /\ joined = 0
       /\ \E f \in Flushes :
            /\ run[f].pc = "none" /\ \A g \in 1..(f - 1) : run[g].pc # "none"
            /\ core' = [cs EXCEPT ![c].timer = NoTimer, ![c].promise = f,
                                  ![c].evicted = IF q = {} THEN @ ELSE 0]
            /\ run' = [run EXCEPT ![f] = NewRun(c, q, cs[c].maxBatch, background)]

\* Faulty: every flush sends what it finds.
FlushUnserialized(c, cs, q, background) == FlushOrJoin(c, cs, q, background, 0)

Flush(c, cs, q, background) == FlushOrJoin(c, cs, q, background, cs[c].promise)

\* _armFlushTimer: a timer that is pending stays as it is.
Armed(c, cs, exponent) ==
    [cs EXCEPT ![c].timer = IF @ = NoTimer THEN exponent ELSE @]

TimerFires(c) ==
    /\ core[c].timer # NoTimer
    /\ Flush(c, [core EXCEPT ![c].timer = NoTimer], queue, 1)
    /\ UNCHANGED <<host, optedOut, enqueued, queue, current, history>>

CallFlush ==
    /\ "flush" \in host
    /\ Flush(current, core, queue, 0)
    /\ UNCHANGED <<host, optedOut, enqueued, queue, current, history>>

Shutdown ==
    /\ "shutdown" \in host
    /\ Flush(current, [core EXCEPT ![current].timer = NoTimer], queue, 0)
    /\ UNCHANGED <<host, optedOut, enqueued, queue, current, history>>

OnReconnect ==
    /\ "reconnect" \in host
    /\ Flush(current, [core EXCEPT ![current].failures = 0], queue, 1)
    /\ UNCHANGED <<host, optedOut, enqueued, queue, current, history>>

-------------------------------------------------------------------------------
(* Capturing.                                                                   *)

\* _enqueue of pipeline c.
Enqueue(c, cs) ==
    LET evicted == IF Cardinality(queue) >= MaxQueueSize THEN Slice(queue, 1) ELSE {}
        q == (queue \ evicted) \cup {enqueued + 1}
        counted == [cs EXCEPT ![c].evicted = @ + Cardinality(evicted)]
    IN  /\ ~optedOut /\ enqueued < RecordLimit
        /\ enqueued' = enqueued + 1
        /\ queue' = q
        /\ overflowed' = overflowed \cup evicted
        /\ \/ Cardinality(q) >= MaxBufferSize /\ Flush(c, counted, q, 1)
           \/ /\ Cardinality(q) < MaxBufferSize
              /\ core' = Armed(c, counted, 0)
              /\ UNCHANGED run

\* captureLog of the host's pipeline.
Capture ==
    /\ Enqueue(current, core)
    /\ UNCHANGED <<host, optedOut, current, taken, acked, refused, withdrawn>>

\* captureLog after config.logs has changed: the host resets its pipeline and
\* builds another one over the same queue, whether or not the log is kept.
CaptureAfterChange ==
    /\ "swap" \in host /\ current < NumCores
    /\ current' = current + 1
    /\ LET cs == [core EXCEPT ![current] = NewCore] IN
        \/ Enqueue(current', cs)
        \/ /\ core' = cs
           /\ UNCHANGED <<enqueued, queue, run, overflowed>>
    /\ UNCHANGED <<host, optedOut, taken, acked, refused, withdrawn>>

SetOptedOut(value) ==
    /\ "optout" \in host /\ optedOut # value
    /\ optedOut' = value
    /\ UNCHANGED <<host, enqueued, queue, current, core, run, history>>

-------------------------------------------------------------------------------
(* Replacing the queue.                                                         *)

\* Flushes that are sending keep the array they have read.
Detached(runs) ==
    [f \in Flushes |-> IF runs[f].pc = "sending" /\ runs[f].live
                       THEN [runs[f] EXCEPT !.live = FALSE, !.array = queue]
                       ELSE runs[f]]

\* The host's reset() empties the queue and resets its pipeline.
Reset ==
    /\ "reset" \in host
    /\ queue' = {}
    /\ withdrawn' = withdrawn \cup queue
    /\ run' = Detached(run)
    /\ core' = [core EXCEPT ![current] = NewCore]
    /\ UNCHANGED <<host, optedOut, enqueued, current, taken, acked, refused, overflowed>>

\* The host's flushLogs(transport) hands the whole queue to the transport.
FlushViaTransport ==
    /\ "beacon" \in host /\ queue # {}
    /\ queue' = {}
    /\ withdrawn' = withdrawn \cup queue
    /\ run' = Detached(run)
    /\ UNCHANGED <<host, optedOut, enqueued, current, core, taken, acked, refused,
                   overflowed>>

-------------------------------------------------------------------------------
(* Answers.                                                                     *)

\* The first `drop` records leave the queue (none if drop is negative), by its
\* replacement.
Drop(f, drop, failed) ==
    /\ queue' = queue \ Slice(queue, drop)
    /\ run' = [Detached([run EXCEPT ![f].pc = "persisting"])
                 EXCEPT ![f].failed = failed]

\* Faulty: as many records leave as the batch held ...
AdvanceByBatch(f, failed) == Drop(f, Cardinality(run[f].batch), failed)

\* _persistQueueAdvance, up to the wait for the storage: of the batch's records
\* those leave that were not evicted while it was sent.
PersistQueueAdvance(f, failed) ==
    Drop(f, Cardinality(run[f].batch) - core[run[f].core].evicted, failed)

\* Each batch the server accepts raises a reduced batch size by one.
Accepted(f) ==
    /\ run[f].pc = "sending" /\ "ok" \in Answers
    /\ taken' = taken \cup run[f].batch
    /\ acked' = acked \cup run[f].batch
    /\ core' = [core EXCEPT ![run[f].core].maxBatch = Least(@ + 1, MaxBatch)]
    /\ PersistQueueAdvance(f, FALSE)
    /\ UNCHANGED <<host, optedOut, enqueued, current, refused, overflowed, withdrawn>>

\* A batch the server will not take: an error no retry helps against fails the
\* flush, a record too large on its own does not.
GivenUp(f) ==
    /\ run[f].pc = "sending"
    /\ refused' = refused \cup run[f].batch
    /\ \/ "fatal" \in Answers /\ PersistQueueAdvance(f, TRUE)
       \/ /\ "toolarge" \in Answers /\ Cardinality(run[f].batch) = 1
          /\ PersistQueueAdvance(f, FALSE)
    /\ UNCHANGED <<host, optedOut, enqueued, current, core, taken, acked, overflowed,
                   withdrawn>>

\* No answer within the retries of the request, although the server may have
\* the batch: the flush fails and its records stay.
RetryLater(f) ==
    /\ run[f].pc = "sending" /\ "retry" \in Answers
    /\ run' = [run EXCEPT ![f].pc = "ending", ![f].failed = TRUE]
    /\ taken' = taken \cup run[f].batch \/ UNCHANGED taken
    /\ UNCHANGED <<host, optedOut, enqueued, queue, current, core, acked, refused,
                   overflowed, withdrawn>>

\* The batch f sends next, from the array it holds.
SendNext(f, array, size, left) ==
    run' = [run EXCEPT ![f].pc = "sending", ![f].batch = Slice(array, size),
                       ![f].left = left]

Shrink(f) ==
    LET c == run[f].core
        half == Cardinality(run[f].batch) \div 2
    IN  /\ run[f].pc = "sending" /\ "toolarge" \in Answers
        /\ core' = [core EXCEPT ![c].maxBatch = half, ![c].evicted = 0]
        /\ SendNext(f, IF run[f].live THEN queue ELSE run[f].array, half, run[f].left)
        /\ UNCHANGED <<host, optedOut, enqueued, queue, current, history>>

\* Faulty: a single record is halved too.
TooLargeAnySize(f) == Shrink(f)

\* 413: the same records go out in smaller batches.
TooLarge(f) == Cardinality(run[f].batch) > 1 /\ Shrink(f)

\* The storage has the shorter queue: go on while the flush has records left of
\* those it found.
GoOn(f, evicted) ==
    LET c == run[f].core
        left == run[f].left - Cardinality(run[f].batch)
        again == ~run[f].failed /\ left > 0 /\ queue # {}
    IN  /\ run[f].pc = "persisting"
        /\ run' = [run EXCEPT
             ![f].pc = IF again THEN "sending" ELSE "ending",
             ![f].live = again, ![f].array = {}, ![f].left = left,
             ![f].batch = IF again THEN Slice(queue, core[c].maxBatch) ELSE {}]
        /\ core' = [core EXCEPT ![c].evicted = IF again THEN evicted ELSE @]
        /\ UNCHANGED <<host, optedOut, enqueued, queue, current, history>>

\* Faulty: the evictions of one batch are counted for the next one too.
PersistedKeepingEvicted(f) == GoOn(f, core[run[f].core].evicted)

Persisted(f) == GoOn(f, 0)

-------------------------------------------------------------------------------
(* The end of a flush.                                                          *)

\* Every background caller counts the failure, then records that are left are
\* retried after the delay for the count.
Settle(f, counted, retried) ==
    LET c == run[f].core
        failures == IF run[f].failed THEN Least(core[c].failures + counted, MaxFailures)
                                     ELSE 0
        released == [core EXCEPT ![c].promise = 0]
        settled == [released EXCEPT ![c].failures = failures]
        exponent == IF failures = 0 THEN 0 ELSE failures - 1
    IN  /\ run[f].pc = "ending"
        /\ run' = [run EXCEPT ![f] = NoRun]
        /\ core' = IF run[f].background = 0 THEN released
                   ELSE IF retried THEN Armed(c, settled, exponent) ELSE settled
        /\ UNCHANGED <<host, optedOut, enqueued, queue, current, history>>

\* Faulty: a failed flush waits for the next record.
EndNotRetrying(f) == Settle(f, run[f].background, queue # {} /\ ~run[f].failed)

\* The promise of flush() settles and its callbacks run.
End(f) == Settle(f, run[f].background, queue # {})

Answer(f) == Accepted(f) \/ GivenUp(f) \/ RetryLater(f) \/ TooLarge(f)

FlushStep(f) == Answer(f) \/ Persisted(f) \/ End(f)

Next ==
    \/ Capture
    \/ CaptureAfterChange
    \/ \E value \in BOOLEAN : SetOptedOut(value)
    \/ CallFlush \/ Shutdown \/ OnReconnect
    \/ Reset \/ FlushViaTransport
    \/ \E c \in Cores : TimerFires(c)
    \/ \E f \in Flushes : FlushStep(f)

Spec == Init /\ [][Next]_vars

\* Timers fire, and requests are answered or time out.
Fairness ==
    /\ \A c \in Cores : WF_vars(TimerFires(c))
    /\ \A f \in Flushes : WF_vars(FlushStep(f))

FairSpec == Spec /\ Fairness

-------------------------------------------------------------------------------
(* Safety.                                                                      *)

\* The host neither replaces the queue nor the pipeline.
Steady == host \cap {"reset", "beacon", "swap"} = {}

\* A record leaves the queue only to the server, on an answer that gives up a
\* batch holding it, to make room, or because the host takes the whole queue:
\* what a flush removes after its batch was sent is that batch and nothing
\* captured meanwhile (posthog-logs.ts:109-110: "a duplicate, never a loss").
DuplicateNeverLoss ==
    1..enqueued \subseteq queue \cup taken \cup refused \cup overflowed \cup withdrawn

\* So it is as long as queue and pipeline are not replaced (logs/index.ts:300).
NoRecordLost == Steady => DuplicateNeverLoss

\* Whatever a host does to the queue (reset, opt-out, beacon, a new pipeline)
\* while flushes of it are sending, what a flush removes is the whole batch:
\* nothing the server has confirmed, or refused, is left in the queue to be
\* sent again (logs/index.ts:240, 295-302).
NothingSettledQueued == queue \cap (acked \cup refused) = {}

\* What a flush removes from the queue is what it sent, no more and no less.
FlushRemovesItsBatch == NoRecordLost /\ NothingSettledQueued

\* Flushes of one pipeline over one queue are serialized: no record is in two
\* requests at a time.
NoDoubleSend == Steady => \A f, g \in Flushes :
    f # g /\ run[f].pc = "sending" /\ run[g].pc = "sending"
        => run[f].batch \cap run[g].batch = {}

\* The server never takes a record before an older one that is still queued.
TakenInOrder == \A a \in taken : \A m \in queue : m < a => m \in taken

\* Sending is in order and in one request at a time.
TakenOnceInOrder == NoDoubleSend /\ TakenInOrder

\* The pipeline implements the queue the events pipeline implements, in the hands
\* of a steady host; with another one it is mapped to a queue that is not used.
Delivery == INSTANCE DeliveryQueue WITH
    NumRoutes <- 1, Capacity <- MaxQueueSize,
    submitted <- IF Steady THEN enqueued ELSE 0,
    held <- [r \in 1..1 |-> IF Steady THEN queue ELSE {}],
    delivered <- [r \in 1..1 |-> IF Steady THEN taken ELSE {}]

ImplementsDelivery == Delivery!DQSpec

-------------------------------------------------------------------------------
(* Liveness.                                                                    *)

\* Flushes end, whatever the server answers.
FlushEnds == \A f \in Flushes : run[f].pc # "none" ~> run[f].pc = "none"

\* Once a network that keeps failing is back, every record leaves the queue
\* without a further call of the application, unless it flushes itself: a flush
\* of the application that fails sets no timer.
QueueDrains ==
    (/\ host \subseteq {"reconnect"}
     /\ \A f \in Flushes : SF_vars(Accepted(f)))
        => \A m \in Records : m \in queue ~> m \notin queue

\* Flushes end, and the queue with them.
PipelineDrains == FlushEnds /\ QueueDrains
===============================================================================
