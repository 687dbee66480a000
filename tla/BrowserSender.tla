----------------------------- MODULE BrowserSender -----------------------------
(* How posthog-js sends captured events from a page: the batching queue of      *)
(* browser/src/request-queue.ts (RequestQueue), the retries of                  *)
(* browser/src/retry-queue.ts (RetryQueue), the server's rate limits of         *)
(* browser/src/rate-limiter.ts and the calls of browser/src/posthog-core.ts     *)
(* that join them.                                                              *)
(*                                                                              *)
(* An event is its capture number and a request a set of events with one batch  *)
(* key.  Delays are not measured: a timer that is set may fire, and a request   *)
(* waiting for its retry becomes due at any moment.                             *)
EXTENDS Integers, FiniteSets

CONSTANTS
    Keys,            \* batch keys: events, recordings
    MaxRetries,      \* DEFAULT_MAX_RETRIES
    MaxZeroRetries,  \* STATUS_CODE_ZERO_MAX_RETRIES
    NumEvents,       \* bound: events captured
    NumStarts,       \* bound: times the queue is enabled
    NumUnloads,      \* bound: unloads and shutdowns of a page that lives on
    NumOutages       \* bound: times the browser goes offline

ASSUME SenderConstants ==
    /\ Keys # {}
    /\ MaxZeroRetries \in Nat /\ MaxRetries \in Nat /\ MaxZeroRetries <= MaxRetries
    /\ {NumEvents, NumStarts, NumUnloads, NumOutages} \subseteq Nat

Events == 1..NumEvents
FirstKey == CHOOSE k \in Keys : TRUE  \* keys are alike: that of the first event

VARIABLES
    batching,    \* config.request_batching
    capturing,   \* is_capturing()
    captured,    \* events captured so far
    keyOf,       \* batchKey of each event
    \* RequestQueue:
    paused, queue,
    timer,       \* _flushTimeout is set
    leaked,      \* timers running whose handle was overwritten
    \* Requests handed to the browser and not answered:
    flying,
    \* RetryQueue:
    retries, isPolling,
    poller,      \* the timeout of _poll is running
    areWeOnline,
    listening,   \* the online and offline listeners are registered
    \* RateLimiter:
    limited,     \* keys of serverLimits that have not expired
    \* The browser:
    online,
    \* What is left of the bounds:
    startsLeft, unloadsLeft, outagesLeft,
    \* History:
    fate,        \* "held", or how the page was done with the event
    attempts,    \* requests made for the event
    escaped      \* an exception has left a poll of the RetryQueue

config == <<batching, keyOf>>
requestQueue == <<paused, queue, timer, leaked, startsLeft>>
polling == <<isPolling, poller>>
network == <<online, areWeOnline, listening, outagesLeft>>
vars == <<config, capturing, captured, requestQueue, flying, retries, polling,
          network, limited, unloadsLeft, fate, attempts, escaped>>

-------------------------------------------------------------------------------
\* due: retryAt has passed.  beacon: the transport option is sendBeacon.
Request(es, k, b) == [events |-> es, key |-> k, tries |-> 0, beacon |-> b, due |-> FALSE]

Requests == [events : SUBSET Events, key : Keys, tries : 0..MaxRetries,
             beacon : BOOLEAN, due : BOOLEAN]

\* sent: answered by 200 or 4xx, or left to the browser by an unload.  dropped: not
\* sent, because the server limits its key or a request before it threw.
Fates == {"held", "sent", "exhausted", "dropped", "thrown"}

TypeOK ==
    /\ batching \in BOOLEAN /\ capturing \in BOOLEAN
    /\ captured \in 0..NumEvents /\ keyOf \in [Events -> Keys]
    /\ paused \in BOOLEAN /\ queue \subseteq Events
    /\ timer \in BOOLEAN /\ leaked \in 0..NumStarts
    /\ flying \subseteq Requests /\ retries \subseteq Requests
    /\ isPolling \in BOOLEAN /\ poller \in BOOLEAN
    /\ areWeOnline \in BOOLEAN /\ listening \in BOOLEAN /\ online \in BOOLEAN
    /\ limited \subseteq Keys
    /\ startsLeft \in 0..NumStarts /\ unloadsLeft \in 0..NumUnloads
    /\ outagesLeft \in 0..NumOutages
    /\ fate \in [Events -> Fates]
    /\ attempts \in [Events -> Nat]
    /\ escaped \in BOOLEAN

Init ==
    /\ batching \in BOOLEAN /\ capturing \in BOOLEAN
    /\ captured = 0
    /\ keyOf \in [Events -> Keys] /\ \A e \in Events : e = 1 => keyOf[e] = FirstKey
    /\ paused = TRUE /\ queue = {} /\ timer = FALSE /\ leaked = 0
    /\ flying = {} /\ retries = {} /\ isPolling = FALSE /\ poller = FALSE
    /\ online \in BOOLEAN /\ areWeOnline = online /\ listening = TRUE
    /\ limited = {}
    /\ startsLeft = NumStarts /\ unloadsLeft = NumUnloads /\ outagesLeft = NumOutages
    /\ fate = [e \in Events |-> "held"]
    /\ attempts = [e \in Events |-> 0]
    /\ escaped = FALSE

-------------------------------------------------------------------------------
(* _send_request.  A beacon that the browser does not accept, or the            *)
(* configuration forbids, is sent with fetch; a transport can throw before it   *)
(* returns.                                                                     *)
Ways(r) ==
    IF r.key \in limited THEN {"dropped"}
    ELSE {"held", "thrown"} \cup (IF r.beacon THEN {"sent"} ELSE {})

\* The requests rs leave the page, each in its way.
Hand(rs, way) ==
    LET owner(e) == {r \in rs : e \in r.events}
    IN  /\ flying' = flying \cup {r \in rs : way[r] = "held"}
        /\ fate' = [e \in Events |->
                      IF owner(e) = {} THEN fate[e] ELSE way[CHOOSE r \in owner(e) : TRUE]]
        /\ attempts' = [e \in Events |->
                      IF \E r \in owner(e) : way[r] # "dropped"
                      THEN attempts[e] + 1 ELSE attempts[e]]

\* Requests that the RequestQueue or a caller hands on; an exception in one is
\* caught, or is the caller's.
Send(rs) == \E way \in [rs -> Fates] :
    /\ \A r \in rs : way[r] \in Ways(r)
    /\ Hand(rs, way)

\* RequestQueue._formatQueue: one request for each batch key.
Batches(es, b) == {Request({e \in es : keyOf[e] = k}, k, b) : k \in {keyOf[e] : e \in es}}

-------------------------------------------------------------------------------
\* capture into the queue; RequestQueue.enqueue.
Capture ==
    /\ capturing /\ batching /\ captured < NumEvents
    /\ captured' = captured + 1
    /\ queue' = queue \cup {captured + 1}
    /\ timer' = (timer \/ ~paused)
    /\ UNCHANGED <<config, capturing, paused, leaked, startsLeft, flying, retries, polling,
                   network, limited, unloadsLeft, fate, attempts, escaped>>

\* The next event is captured and sent at once, alone in its request.
SendNow(beacon) ==
    /\ captured < NumEvents
    /\ captured' = captured + 1
    /\ Send({Request({captured + 1}, keyOf[captured + 1], beacon)})

\* capture with send_instantly, or without batching.
CaptureNow ==
    /\ capturing
    /\ SendNow(FALSE)
    /\ UNCHANGED <<config, capturing, requestQueue, retries, polling, network, limited,
                   unloadsLeft, escaped>>

\* Faulty: enable leaves the timer to the next enqueue.
EnableUntimed ==
    /\ startsLeft > 0 /\ startsLeft' = startsLeft - 1
    /\ paused' = FALSE
    /\ UNCHANGED <<queue, timer, leaked>>

\* RequestQueue.enable: sets a timer whether or not one is running.
Enable ==
    /\ startsLeft > 0 /\ startsLeft' = startsLeft - 1
    /\ paused' = FALSE
    /\ timer' = TRUE
    /\ leaked' = IF timer THEN leaked + 1 ELSE leaked
    /\ UNCHANGED queue

\* _start_queue_if_opted_in, called by _loaded and _dom_loaded.
Start ==
    /\ capturing /\ batching
    /\ Enable
    /\ UNCHANGED <<config, capturing, captured, flying, retries, polling, network, limited,
                   unloadsLeft, fate, attempts, escaped>>

\* opt_in_capturing, and opt_out_capturing where a rejection starts cookieless
\* capture; the first may send an event at once.
StartCapturing ==
    /\ capturing' = TRUE
    /\ IF batching THEN Enable ELSE UNCHANGED requestQueue
    /\ \/ SendNow(FALSE)
       \/ UNCHANGED <<captured, flying, fate, attempts>>
    /\ UNCHANGED <<config, retries, polling, network, limited, unloadsLeft, escaped>>

\* opt_out_capturing.  What is queued stays queued.
StopCapturing ==
    /\ capturing /\ capturing' = FALSE
    /\ UNCHANGED <<config, captured, requestQueue, flying, retries, polling, network,
                   limited, unloadsLeft, fate, attempts, escaped>>

\* The callback of _setFlushTimeout.  A leaked timer clears the handle of the other.
TimerFires ==
    /\ \/ timer /\ UNCHANGED leaked
       \/ leaked > 0 /\ leaked' = leaked - 1
    /\ timer' = FALSE
    /\ queue' = {}
    /\ Send(Batches(queue, FALSE))
    /\ UNCHANGED <<config, capturing, captured, paused, startsLeft, retries, polling,
                   network, limited, unloadsLeft, escaped>>

-------------------------------------------------------------------------------
\* Faulty: the retry is not counted.
EnqueueRetryUncounted(r) ==
    /\ retries' = retries \cup {[r EXCEPT !.due = FALSE]}
    /\ isPolling' = TRUE
    /\ poller' = (poller \/ ~isPolling)

\* RetryQueue._enqueue and _poll.
EnqueueRetry(r) ==
    /\ retries' = retries \cup {[r EXCEPT !.tries = @ + 1, !.due = FALSE]}
    /\ isPolling' = TRUE
    /\ poller' = (poller \/ ~isPolling)

\* The events of r are done with.
Settle(r, f) == fate' = [e \in Events |-> IF e \in r.events THEN f ELSE fate[e]]

\* Faulty: one retry too many.
MayRetryOnceMore(r, status) == r.tries <= (IF status = "zero" THEN MaxZeroRetries ELSE MaxRetries)

MayRetry(r, status) == r.tries < (IF status = "zero" THEN MaxZeroRetries ELSE MaxRetries)

\* The answer to a request: final, which is 200 or 4xx; 3xx or 5xx; or none, which
\* is status 0.  Any answer with a text may limit some keys, before the retry.
Answer(r) ==
    /\ r \in flying /\ flying' = flying \ {r}
    /\ \E status \in {"final", "server", "zero"} :
         /\ IF status # "final" /\ MayRetry(r, status)
            THEN EnqueueRetry(r) /\ UNCHANGED fate
            ELSE /\ Settle(r, IF status = "final" THEN "sent" ELSE "exhausted")
                 /\ UNCHANGED <<retries, polling>>
         /\ \E ks \in SUBSET Keys :
              /\ status = "zero" => ks = {}
              /\ limited' = limited \cup ks
    /\ UNCHANGED <<config, capturing, captured, requestQueue, network, unloadsLeft,
                   attempts, escaped>>

\* retryAt of r passes.
Due(r) ==
    /\ r \in retries /\ ~r.due
    /\ retries' = (retries \ {r}) \cup {[r EXCEPT !.due = TRUE]}
    /\ UNCHANGED <<config, capturing, captured, requestQueue, flying, polling, network,
                   limited, unloadsLeft, fate, attempts, escaped>>

\* Faulty: the requests stay in the queue until they are answered.
FlushKeeping ==
    LET due == {r \in retries : r.due}
        sent == {[r EXCEPT !.due = FALSE] : r \in due}
    IN  /\ UNCHANGED retries
        /\ \E way \in [sent -> Fates] :
             /\ \A r \in sent : way[r] \in Ways(r) \ {"thrown"}
             /\ Hand(sent, way)

\* RetryQueue._flush.  The due requests leave the queue first; an exception in
\* one leaves the loop, and those after it unsent.
Flush ==
    LET due == {r \in retries : r.due}
        sent == {[r EXCEPT !.due = FALSE] : r \in due}
    IN  /\ retries' = retries \ due
        /\ \E way \in [sent -> Fates] :
             /\ \A r \in sent : way[r] \in Ways(r) \cup {"dropped"}
             /\ Cardinality({r \in sent : way[r] = "thrown"})
                  \in IF \E r \in sent : way[r] \notin Ways(r) THEN {1} ELSE {0, 1}
             /\ Hand(sent, way)

NoFlush == UNCHANGED <<retries, flying, fate, attempts>>

\* The callback of _poll.  It polls again while there is something to retry, but
\* not after an exception.
PollFires ==
    /\ poller
    /\ IF areWeOnline /\ retries # {} THEN Flush ELSE NoFlush
    /\ IF \E e \in Events : fate[e] = "held" /\ fate'[e] = "thrown"
       THEN escaped' = TRUE /\ poller' = FALSE /\ UNCHANGED isPolling
       ELSE poller' = (retries' # {}) /\ isPolling' = (retries' # {}) /\ UNCHANGED escaped
    /\ UNCHANGED <<config, capturing, captured, requestQueue, network, limited, unloadsLeft>>

\* The browser is back online: the listener flushes.
GoOnline ==
    /\ ~online /\ online' = TRUE
    /\ areWeOnline' = (areWeOnline \/ listening)
    /\ IF listening THEN Flush ELSE NoFlush
    /\ UNCHANGED <<config, capturing, captured, requestQueue, polling, listening,
                   outagesLeft, limited, unloadsLeft, escaped>>

GoOffline ==
    /\ online /\ online' = FALSE
    /\ outagesLeft > 0 /\ outagesLeft' = outagesLeft - 1
    /\ areWeOnline' = (areWeOnline /\ ~listening)
    /\ UNCHANGED <<config, capturing, captured, requestQueue, flying, retries, polling,
                   listening, limited, unloadsLeft, fate, attempts, escaped>>

\* serverLimits[k] is past.
LimitExpires(k) ==
    /\ k \in limited /\ limited' = limited \ {k}
    /\ UNCHANGED <<config, capturing, captured, requestQueue, flying, retries, polling,
                   network, unloadsLeft, fate, attempts, escaped>>

-------------------------------------------------------------------------------
\* RetryQueue.unload, after the RequestQueue has handed on rs: one beacon, or fetch
\* where beacons are disabled, for each request.  Nobody hears of its failure, and
\* an exception in one is caught.
Unload(rs) ==
    LET last == {[r EXCEPT !.beacon = TRUE] : r \in retries}
    IN  /\ \E way \in [rs \cup last -> Fates] :
             /\ \A r \in rs : way[r] \in Ways(r)
             /\ \A r \in last \ rs : way[r] \in Ways(r) \ {"held"}
             /\ Hand(rs \cup last, way)
        /\ retries' = {}
        /\ isPolling' = FALSE /\ poller' = FALSE
        /\ listening' = FALSE

\* _handle_unload with batching, which may capture a pageleave first, or shutdown.
\* RequestQueue.unload clears the current timer; a paused queue is sent too.
UnloadPage ==
    /\ unloadsLeft > 0 /\ unloadsLeft' = unloadsLeft - 1
    /\ captured' \in {captured} \cup
         (IF capturing /\ batching /\ captured < NumEvents THEN {captured + 1} ELSE {})
    /\ Unload(Batches(queue \cup ((captured + 1)..captured'), TRUE))
    /\ queue' = {} /\ timer' = FALSE
    /\ UNCHANGED <<config, capturing, paused, leaked, startsLeft, online, areWeOnline,
                   outagesLeft, limited, escaped>>

\* _handle_unload without batching: a pageleave, and the retries are left alone.
UnloadUnbatched ==
    /\ unloadsLeft > 0 /\ unloadsLeft' = unloadsLeft - 1
    /\ ~batching /\ capturing
    /\ SendNow(TRUE)
    /\ UNCHANGED <<config, capturing, requestQueue, retries, polling, network, limited, escaped>>

Next ==
    \/ Capture \/ CaptureNow \/ Start \/ StartCapturing \/ StopCapturing
    \/ TimerFires \/ PollFires
    \/ \E r \in flying : Answer(r)
    \/ \E r \in retries : Due(r)
    \/ GoOnline \/ GoOffline
    \/ \E k \in limited : LimitExpires(k)
    \/ UnloadPage \/ UnloadUnbatched

Spec == Init /\ [][Next]_vars

\* Timers that are set fire, requests are answered (they time out after a minute)
\* and time passes.
Fairness ==
    /\ WF_vars(TimerFires)
    /\ WF_vars(PollFires)
    /\ \A e \in Events :
         /\ WF_vars(\E r \in flying : e \in r.events /\ Answer(r))
         /\ WF_vars(\E r \in retries : e \in r.events /\ Due(r))

FairSpec == Spec /\ Fairness

-------------------------------------------------------------------------------
InFlight(e) == {r \in flying : e \in r.events}
Waiting(e) == {r \in retries : e \in r.events}
Places(e) == (IF e \in queue THEN 1 ELSE 0) + Cardinality(InFlight(e)) + Cardinality(Waiting(e))

(* A captured event is in exactly one place - the queue, one request in flight  *)
(* or one request waiting for its retry - until the page is done with it, and   *)
(* then in none: nothing is lost without a reason and nothing is sent by two    *)
(* requests at a time.                                                          *)
HeldInOnePlace ==
    \A e \in Events :
       Places(e) = IF e <= captured /\ fate[e] = "held" THEN 1 ELSE 0

(* Events in a queue that has been enabled have a timer that will send them,    *)
(* although enable, unload and timers whose handle was overwritten all set and  *)
(* clear the one handle.                                                        *)
QueueIsTimed == (queue # {} /\ ~paused) => (timer \/ leaked > 0)

(* Requests waiting for their retry are polled, through unloads and reconnects, *)
(* unless an exception has left a poll.                                         *)
RetriesArePolled ==
    (retries # {} /\ ~escaped) => poller

(* Whatever is held has something scheduled that will send it.                  *)
WorkIsScheduled == QueueIsTimed /\ RetriesArePolled

(* An event is in at most one request and its retries, and is given up only     *)
(* after the retries of the answer it last had: a retry is counted in the       *)
(* request, across the queue, a beacon that falls back and an unload.           *)
BudgetKept ==
    \A e \in Events :
       /\ attempts[e] <= MaxRetries + 1
       /\ fate[e] = "exhausted" => attempts[e] > MaxZeroRetries
       /\ \A r \in InFlight(e) : attempts[e] = r.tries + 1
       /\ \A r \in Waiting(e) : attempts[e] = r.tries

(* What is held goes on being sent, and no further than its retries allow.      *)
WorkGoesOn == WorkIsScheduled /\ BudgetKept

(* No event is held for ever by a page whose queue is enabled, that knows it is *)
(* online and whose polls have met no exception.                                *)
EventsSettle ==
    \A e \in Events :
       []<>~(/\ e <= captured /\ fate[e] = "held"
             /\ (batching => ~paused) /\ areWeOnline /\ ~escaped)
================================================================================
