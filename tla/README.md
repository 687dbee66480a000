# A TLA+ model of the posthog-js SDKs

posthog-js is a monorepo of analytics SDKs: a browser library, a Node client, a
React Native client, an edge/web client, and bindings around them. What can go
wrong is the same in all of them. Events are captured at any time, queued in
bounded queues, batched, sent over a network that fails, retried, and drained at
shutdown, by callbacks, timers and promises that interleave; and the browser does
it in several tabs over one storage. These modules model that part of the code,
with the parts that load feature flags, aggregate metrics, record sessions, drive
native SDKs, show conversations and surveys, and keep a serverless function alive, check it with TLC and prove the most
important facts about it with TLAPS.

Paths are relative to `src/packages/`. `PROJECT.json` maps every definition to the
lines it stands for.

## 1. Inventory

### Event pipeline: `core/src/posthog-core-stateless.ts`

The queue of posthog-node, posthog-react-native and posthog-web.

* State: the persisted queue of each route, `maxBatchSize`, `_flushTimer`,
  `flushPromise`, `pendingFlushPromise`, `flushPromises`, the pending promises
  (`utils/promise-queue.ts`), the persisted opt-out flag.
* Operations: `enqueue` (evict when full, push, arm the timer, flush at `flushAt`),
  `flush`, `flushWithPendingPromises`, `flushBackground`, `_flush` and
  `_flushRoute` (slice, send, halve on 413, `persistQueueChange`, `flushStorage`),
  `fetchWithRetry`, `_shutdown`, `optIn`, `optOut`. posthog-node prepares an event
  asynchronously before it enqueues it (`node/src/client.ts`).
* Hard: captures evict messages of a batch in flight; a flush called while another
  runs; a timer's handle that outlives its callback; failure on one route of two;
  flushes that are pending promises themselves; shutdown racing all of it.
* Correct when: a message leaves the queue only to the server, by eviction or on a
  final answer; one flush runs at a time; order per route is kept; what was
  acknowledged is not sent again; `flush()` resolves only when what it covers is
  gone from the queue; shutdown drains; flushes and shutdown end.

### Logs pipeline: `core/src/logs/index.ts`, hosted by `browser/src/posthog-logs.ts`

* State: the record queue (owned by the host), the flush timer, `_flushPromise`,
  the batch size, the eviction count of the batch in flight, the failure count.
  The host keeps the current pipeline and can build a second one.
* Operations: `captureLog`, `_enqueue`, `flush`, `_flushInner`,
  `_persistQueueAdvance`, `_flushInBackground`, `onReconnect`, `shutdown`, `reset`;
  the host's beacon drain, reset, and rebuilding when `config.logs` changes.
* Hard: the queue is trimmed by COUNT after an answer while captures evict from its
  head; hosts replace the array under a running flush; two pipelines share a queue.
* Correct when: what is removed after an answer is exactly the batch; flushes are
  serialized; records left in the queue always have a timer or a flush.

### Browser sender: `browser/src/request-queue.ts`, `retry-queue.ts`, `rate-limiter.ts`, `posthog-core.ts`

* State: the request queue (paused until the DOM is loaded and consent is given),
  its timer, the requests in flight, the retry queue with its poller and its idea
  of being online, the server's limits per batch key.
* Operations: `capture`, `_send_request`, `enable`, opting in and out, answers,
  `_poll`, `_flush`, the online and offline listeners, `_handle_unload`, shutdown.
* Hard: `enable` may run twice and overwrite the handle of a running timer; answers
  add retries at any time, also after unload; a page may live on after `pagehide`;
  an exception can leave a poll half done.
* Correct when: an event is in one place until the page is done with it; whatever is
  queued has a timer and whatever is to be retried is polled; the retry budget is
  kept; nothing is held for ever.

### Browser sessions: `browser/src/sessionid.ts` over `posthog-persistence.ts`

* State, per tab: the copy of the storage (`props`), the session in memory, the
  activity last persisted, the idle timer, a debounced save. Shared: the storage.
* Operations: `checkAndGetSessionAndWindowId` (by events, or read only), the idle
  timer, `resetSessionId`, `posthog.reset`, the throttle of activity, the flush on
  `beforeunload`; saving writes the whole of `props`.
* Hard: tabs do not listen to each other; each decides on a stale copy, writes all of
  it, and may be killed before a save; the length of a session is judged before
  the copy is refreshed.
* Correct when: tabs in use share a session, an idle one ends, a live one is not
  left, none outlasts the maximum, and consumers know the id that events carry.

### Flags and remote config of the core: `core/src/posthog-core.ts`

* State: `_flagsResponsePromise` (the one request in flight), `_pendingFlagsRequest`
  (the one slot for a later call), `_remoteConfigResponsePromise`, the stored flags.
* Operations: `flagsAsync`, `_flagsAsync`, `remoteConfigAsync`, what `identify`,
  `group`, person properties and `reset` change of what flags are computed from.
* Hard: calls made during a request replace one another in the slot, with their link
  to an anonymous id and their notification; contexts change during requests.
* Correct when: every promise settles, with an answer no older than its call; the
  stored flags come to be those of the current context; `onRemoteConfig` runs once
  per load.

### Metrics: `core/src/metrics/index.ts`, hosted by `browser/src/posthog-metrics.ts`

* State: the window of series, its timer, the chain of flushes, `_generation`.
* Hard: a failed window is merged back into a window that lived on; a reset or a
  beacon comes between a flush and its end; gauges must not go back.
* Correct when: each counted sample is in one window, sent once or given up for a
  reason; a window that is not empty has a timer or a flush.

### Rate limiter: `core/src/utils/bucketed-rate-limiter.ts`

* State: tokens and `lastAccess` of each key. Hard: whole intervals are counted and
  the rest of the age kept; the call that takes the last token is refused, too.
* Correct when: a window of time lets at most its burst and its refills through, a call
  after a rest is let through, and so is one now and then in a burst that goes on, if the
  refill is more than one token.

### Feature flag poller: `node/src/extensions/feature-flags/feature-flags.ts`

* State: the definitions, their entity tag, the backoff, the load under way, the
  timer, a cache shared with other instances.
* Hard: 304, 401, 402, 403, 429 and failures each change another part of it; loads on
  demand, forced loads, the timer and `stopPoller` interleave.
* Correct when: polling goes on, once; definitions catch up; a tag stands for
  definitions that are held.

### Capture V1: `node/src/capture-v1/sender.ts`

* State: the pending events of a batch, its drops, the attempt. Hard: an answer may
  settle some events, drop others and ask for the rest again, over several attempts,
  or be unreadable.
* Correct when: every event ends once, and one report names all that did not get
  through.

### React Native storage and client: `react-native/src/storage.ts`, `posthog-rn.ts`

* State: the memory cache, its debounced write and the writes in flight; the chain of
  native commands, the chain of recorder evaluations, setup of the native SDK, consent,
  the persisted push token.
* Operations: `setItem`, `persist`, `waitForPersist`, `preload`, `flushStorage`;
  `identify`, `reset`, `optIn`, `optOut`, push registration, `_enqueueNative`,
  `_setupNativeSdk`, `_evaluateAndStartSessionReplay`, event triggers.
* Hard: writes of the whole cache overlap and a crash leaves any of them; native calls
  fail, hang and time out; the two chains wait for each other.
* Correct when: what a drain covered survives until it is answered, and what was
  settled does not come back; at rest the native SDK has the client's identity,
  consent, token and recorder.

### Browser flags: `browser/src/posthog-featureflags.ts`, `remote-config.ts`

* State: the debouncer, `_requestInFlight`, `_additionalReloadRequested`, the anonymous
  id, the breaker of requests without an answer, the flags and `_hasLoadedFlags`.
* Hard: reset forgets a request but not its callback; a rate limiter drops requests
  without calling back; identify happens during requests.
* Correct when: the flags stored last are the current user's; no reload waits for an
  answer that will not come; the anonymous id is sent.

### Session recorder: `browser/src/extensions/replay/external/lazy-loaded-session-recorder.ts`

* State: the buffer of one session, whether compression is asynchronous, its queue, the hold
  of an epoch, idleness, the full-snapshot bookkeeping, a stop that waits for compression.
* Hard: rrweb calls back synchronously from within the recorder's own calls; the session
  rotates while events are being compressed; unload compresses the rest at once, and
  compression may become synchronous at any time.
* Correct when: events are filed under their session, call by call, and an epoch that a
  rotation began has a snapshot to play on; what is held is held for a reason, and what is not is sent.

### Conversations: `browser/src/extensions/conversations/external/index.tsx` and its widget

* State: the current ticket and its persisted copy, the cursor of polls
  (`_lastMessageTimestamp`), the view, the two busy flags, the interval, the rendered widget
  with the messages and tickets it shows.
* Operations: polls and loads of messages and tickets, sends, the choice of a
  conversation, `setIdentity` and `clearIdentity`, `show`, `hide`, `reset`.
* Hard: every one of them awaits a request and goes on with the state of another; what the
  cursor has passed is never asked for again; a request the limiter drops has no answer.
* Correct when: the widget shows one conversation, and all of it up to the cursor; what was
  hidden or reset stays so; polling goes on.

### Surveys: `browser/src/extensions/surveys.tsx`, `posthog-surveys.ts`

* State: the survey in focus, the delays that run, the popups in the DOM, their timers.
* Operations: the evaluation each second, delays, `displaySurvey`, `cancelPendingSurvey`,
  the popup's dismissal, answer, thanks, transition and navigation.
* Hard: the focus is one variable that every removal clears, whoever has it; timers of a
  popup outlive it; eligibility changes while a delay runs.
* Correct when: one survey is shown at a time, and the focus is handed back.

### waitUntil: `node/src/client.ts`

* State: `_waitUntilCycle` (its promise, its timer and when it began) next to the queue,
  the pending promises and the flush chain of the core.
* Operations: `enqueue` (a cycle begins, its timer starts again, or the cap ends it),
  `flush` (its own promise unless a cycle has one), the debounced flush, `shutdown`
  (takes the promise over and resolves it after the drain, or at its timeout).
* Hard: captures are prepared for a while before they are queued; flushes of other
  callers are under way, or fail, when the promise is handed over; the platform freezes
  the process as soon as the promises settle.
* Correct when: the invocation lives until each queued message was tried, and captures in
  quick succession do not put that off for ever.

### Not modelled

| Component | Why |
| --- | --- |
| Flag evaluation (node) | a pure function of definitions, properties, dates, versions and hashes |
| RN screens, lifecycle events, surveys, manual start and stop of the recorder | calls of `capture`; the manual controls bypass the gate that is modelled |
| Browser consent storage | where the answer is kept; what it does to the queues is modelled |
| Product tours, toolbar, autocapture, heatmaps, web vitals | DOM listeners and rendering that end in `capture` |
| rrweb | vendored; external to the recorder |
| Error tracking (core) | parsing of stack traces |
| Web client | the core over browser storage: `EventQueue` with synchronous captures |
| AI, MCP, framework bindings, build plugins, types, examples, tooling | wrappers, glue and declarations |

These are most of the repository's lines, and little of its state: vendored DOM
recording, rendering, parsing, declarations and glue.

How the parts interact: every client calls `capture` on its core or browser
instance; the core hands a batch to `fetch` and its queue to a storage of the
client (memory in node, `PostHogRNStorage` in React Native, browser storage in web);
the logs and metrics pipelines have their own queues on the same host; the browser
stamps each event with a session from the session manager before it goes to the
request queue, and the session manager tells the recorder when the id changes; the
native bridge follows the identity, consent and flags of its client; a reset or a
change of consent reaches all of them.

## 2. Plan

Written, in this order:

1. `DeliveryQueue`: the abstract promise of a delivery pipeline.
   `EventQueue`: the event pipeline, shown to implement it. `EventQueueProofs`.
2. `LogQueue`: the logs pipeline and its browser host, shown to implement the same
   `DeliveryQueue` while one pipeline and no beacon is at work. `LogQueueProofs`.
3. `BrowserSender`: the request queue and the retry queue composed, with the limits,
   consent and unload that join them. `BrowserSenderProofs`.
4. `SessionTabs`: several tabs over one storage. `SessionTabsProofs`.
5. `FlagReloads` and `FlagPoller`: flags of the core and of node.
6. `DurableQueue`: the storage of React Native over crashes, composed with a queue that
   advances as the pipelines do.
7. `CaptureV1`, `MetricsWindow`, `BurstLimiter`.
8. `BrowserFlags`, `SessionRecorder`, `NativeBridge`.
9. `Conversations` and `SurveyDisplay`: the widgets of the browser that keep
   state over requests and timers.
10. `WaitUntil`: the node client in a serverless function, over the flushes of
    the event pipeline.
11. `SdkParts`: the parts of 5 to 10 side by side for one run. Their proofs are in `CoreProofs`
    (`FlagReloads`, `MetricsWindow`, `BurstLimiter`, `FlagPoller`, `CaptureV1`, `WaitUntil`),
    `NativeProofs` (`DurableQueue`, `NativeBridge`) and `BrowserProofs` (`BrowserFlags`,
    `SurveyDisplay`, `Conversations`, `SessionRecorder`), those of the whole in `SdkPartsProofs`.

To come: the manual controls of the native recorder.
No module uses a RECURSIVE operator, so that all of them can be proved about.

## 3. The modules

### DeliveryQueue

A first-in first-out queue of bounded capacity per route. `Submit` numbers a message
and gives up the oldest if the queue is full; `Deliver` gives the server an
initial part of a queue, which the client may then still hold (it did not hear of
it); `GiveUp` drops such a part. It has no timers, flushes, batch sizes or retries.

### EventQueue

A message is its enqueue number. The array of a route is always in enqueue order, so
it is the set of its messages and `slice(0, n)` is the n smallest. Every storage of
the repository hands out the live array, so a flush slices the current queue.

| State | Code |
| --- | --- |
| `queue`, `tickets`, `maxBatch`, `timer`, `optedOut` | the persisted queues, `maxBatchSize`, `_flushTimer` ("fired": the callback ran, the handle is not cleared), `OptedOut` |
| `pending`, `last`, `pc`, `prev`, `waits` | `pendingFlushPromise`, `flushPromise`, and each flush promise with what it waits for |
| `run` | the locals of `_flush` and `_flushRoute` |
| `preparing` | the promises of events being prepared (node) |
| `sd` | the progress of `_shutdown` |
| `accepted`, `acked`, `refused`, `overflowed`, `covers` | history |

Actions: `Capture` (enqueue and all it does), `BeginCapture`, `FinishCapture` and
`DiscardCapture` (node), `SetOptedOut`, `TimerFires`, `CallFlush`, `StartFlush` and
`BeginFlush` (when the previous flush and the captures are done), `BatchAccepted`,
`BatchLost`, `BatchRefused`, `BatchTooLarge` (the ways a request ends, each with the
change of the queue in the same step, as in the code, which has no await between the
answer and `persistQueueChange`), `StorageFlushed`, and the steps of shutdown. "busy"
is a retryable status: after the last retry it removes the batch, as a network error
does not. A lost answer may or may not have reached the server.

### LogQueue

Like `EventQueue`, with the queue as a set of enqueue numbers. `host` is the set of
calls that this behaviour's application and host make (flush, shutdown, reconnect, opt
out, reset, beacon, swap); a host of several calls gets smaller bounds. A core is a pipeline
(`NewCore`); `current` is the one the host captures into. A run is a `_flushInner`
with the array it holds: a host that replaces the array (reset, beacon drain) leaves
the run with the old one (`live`). Timers are the exponent of their backoff.
`_persistQueueAdvance` removes by count, less the evictions since the slice.

### BrowserSender

A request is a set of events with one batch key, the number of its retries, whether it
is to be a beacon and whether its retry is due. What is handed on is held (it awaits an
answer), sent (an accepted beacon), dropped (by the limiter) or thrown (`Ways`). `timer` says that `_flushTimeout` is set and
`leaked` counts timers that run although their handle was overwritten. An answer
is final (200 or 4xx), a server error, or none (status 0); any but the last may set
limits. `escaped` records that an
exception has left a poll, after which the code keeps `isPolling` with no timer.
Delays are not measured: a timer that is set may fire at any time.

### SessionTabs

An entry is `[activity, id, start]`, as in `SESSION_ID`; zero is null. `storage` is
shared, `props` is each tab's copy, `memory` the fields of its manager. `Check` is
`checkAndGetSessionAndWindowId` with everything it calls. A save is at once or (with
`Debounced`) marks the tab `pending` until `SaveFires`, which writes the copy the tab
has by then; `SaveOther` saves for the sake of another property. `Close` writes what
`beforeunload` writes, or nothing if the tab is killed. The clock ticks in units longer
than a debounce, so a tick waits for pending saves. `heard` is the session that
consumers were last told to be new (they are also called when only the window is, which
says of no change). `lost` records that a step put another session,
or older activity, in the place of a live entry: the code's saves of whole copies can
do that, and what is promised across tabs holds up to then.

### FlagReloads

A context stands for all that flags are computed from. `flagCalls` are the calls that
still await `_initPromise`, `flagsRequest` the one in flight with what it read,
`pendingReload` the slot, `riders` the calls that were replaced and are given the
answer in flight. History numbers the calls: what each was asked in, what it was
answered with, which lost the slot (`replaced`), and which notifications went with
them (`forfeited`).

### MetricsWindow

A window maps each series to what was folded into it: a count to the set of its
samples, a gauge to the newest. Each flush promise is kept with the one it waits for
and the window it took. `bypassed` records that a reset or a drain came between a flush
and its end.

### BurstLimiter

One key, with the age of its last refill instead of the time. An observer watches a
window of time that begins at a chosen moment (`watch`), how long a burst has gone
without a call let through (`waited`; an interval without calls ends a burst), and how long
there was no call (`idle`).

### FlagPoller

Definitions are the version the server had. `load` is the await that the one load under
way is at; `etag` is the version its tag names. The shared cache and the server are
external.

### CaptureV1

One call of `sendV1Batch`: the pending events, those in the payload, the attempt and the
drops. History holds what was delivered and what the report named.

### DurableQueue

The key of the storage that holds a queue. `cache` is the queue in memory, `writes` what
each write in flight carries, `disk` what is stored. `delivery` is a flush of a pipeline that
advances the queue and awaits the storage, `drain` a `waitForPersist` of the app's
lifecycle. A backend may be synchronous, or finish or fail its writes later and in any
order (`faulty`). A crash loses everything but the disk; a restart preloads it.

### BrowserFlags

A user stands for the distinct id. `requests` are those whose callback is still to run,
in order, also the ones a reset forgot. `swallowed` records that the limiter has dropped
the request in flight without a callback, and `overtaken` that a forgotten request is or
was still to be answered. `IdentifyUser` makes a new user, `IdentifySameUser` makes the
anonymous one known under the id it has.

### SessionRecorder

The recorder is one record, `rec`. rrweb emits from within the recorder's own calls, so a
handler is a composition of functions from recorder to recorder (`Ship`, `ClearBuffer`,
snapshots, stop, start), each one a method of the class. An unload compresses what is queued
at once: `CaptureAll` is the fold of `CaptureQueued` over the queue, written as a recursive
function so that it can be proved about. `EventKinds` are interactions, Meta events and the
links between sessions, which are never compressed, and mutations and full snapshots, which
are. `async` says that compression is native and asynchronous; without it, as with
`compress_events: false`, in browsers without CompressionStream and after an error of it, an
event is captured in the call that emitted it (`Queues` is the condition at the end of
`onRRwebEmit`). `CompressionChanges` switches it at any time, also with events in the queue. Events
carry the number of the call of the page that made them, so that a snapshot and the
interaction that asked for it have one number. The verdict of the triggers is chosen per
session.

### NativeBridge

`commands` is `_nativeChain` and `evals` `_sessionReplayEvalChain`; `command` and
`eval` say what their heads await and what they read when they were dispatched. A command
that has to set up the native SDK waits for the jobs that are `ahead` on the other chain,
its own setup included. `native` is the native SDK as `react-native-plugin` calls it.
`stale` holds what the last native call about it lost: identity, consent, token or
recorder.

### Conversations

`page` is the manager, `widget` the rendered component, `calls` the requests that are
awaited. The server is external: a log of posts, read at some moment between a request and
its answer, so that an answer may lack what was posted on its way. `crossed`, `undone`,
`unheard` and `missed` record the four ways in which the code lets go of a post or of a
flag (section 7); the property is stated up to them, and each was seen to be needed.

### SurveyDisplay

`stage` is the focus, the delays and the popups. `fades` and `removals` count the timers
that the popup's hooks leave behind. `forced`, `stray` and `orphan` record a
`displaySurvey` over another survey, a timer that took another's focus, and a delay that
ended without its focus; each was seen to be needed, and the first two end when nothing is
shown any more.

### WaitUntil

`cycle` is `_waitUntilCycle`. `chain` is the flush chain of the core, the oldest first: a
flush begins when the captures it awaits are through, takes what is queued, and ends in
one step, in which a failure leaves any rest of its batch; the single requests and the
batch sizes are `EventQueue`'s. `kept` says that a promise given to `waitUntil` waits for
the flush. `closing` is shutdown: whether it `holds` the promise of a cycle, and how many
flushes it is `behind`. `tried` and `loose` are history: messages a flush failed with, and
those that nothing promised to hold.

### SdkParts

The twelve modules from `FlagReloads` on share no state, so a behaviour exercises one of
them, chosen in the initial state, and leaves the rest as they are. `RateIsKept`, say, is
then checked in the behaviours of the limiter and trivially in the others'.

## 4. The runs

| Run | Shows |
| --- | --- |
| `event_queue_sync` | synchronous captures, one route, a queue of 3 that overflows with 4 captures, one retry, all answers: `NoMessageLost`, `SentOnceInOrder` (order, and nothing is sent again after its success), `ImplementsDelivery` (refinement) |
| `event_queue_node` | asynchronous captures, two routes, opt-out, chained flushes: `OneFlushRuns`, `StaleTimerIsCleared`, `NothingStranded`, `FlushKeepsPromise` (`flush()` waits for the captures it promised to wait for) |
| `event_queue_shutdown` | with fairness, shutdown at any moment: `ShutdownDrains`, `CallsSettle` (flushes and shutdown end), `QueueDrains` |
| `log_queue` | three kinds of host (below), with fairness: `FlushRemovesItsBatch` (`NoRecordLost`, `NothingSettledQueued`), `TakenOnceInOrder` (no double send, order), `ImplementsDelivery`, `PipelineDrains` (flushes end, queued records leave) |
| `log_queue_swap` | violation of `DuplicateNeverLoss`, see section 7 |
| `browser_sender` | two keys, two events, outages, limits, unload of a page that lives on, two enables, with fairness: `HeldInOnePlace`, `WorkGoesOn` (`WorkIsScheduled`: timers, polls; `BudgetKept`: retries), `EventsSettle` |
| `session_tabs` | two tabs, debounced saves, resets, killed tabs: `OneSession`, `SessionsEnd` (idle and overlong ones), `SessionsChangeOpenly` (consumers know) |
| `session_tabs_null` | violation of `EventsHaveSession`, see section 7 |
| `sdk_parts` | the twelve parts of `SdkParts`, with fairness for the first and the poller: `ReloadsAreServed`, `ConfigToldOnce`, `ReloadsAnswered`; `WindowsAreKept`; `RateIsKept`; `PollingGoesOn`, `PollerCatchesUp`; `BatchIsAccounted`; `StorageFollows`; `FlagsAreLoaded`; `RecordingsAreKept` (`RecordingsAreWhole`, `HeldForAReason`); `NativeFollowsClient`; `ConversationIsWhole`; `SurveysTakeTurns`; `InvocationIsHeld` (`HeldUntilTried`, `DelayIsCapped`) |
| `flag_poller_etag` | violation of `NotModifiedKeepsData`, see section 7 |
| `browser_flags_anon` | violation of `AnonIdMakesItThrough`, see section 7 |
| `native_opt_out` | violation of `OptOutUnregisters`, see section 7 |

Type invariants are `TypeOK` in each run of a module of its own and `PartsTypeOK`
in `sdk_parts`.

### Bounds

They are small, and chosen so that each hazard fits.

* `EventQueue`: four captures fill a queue of three and evict a message of a batch in
  flight; batches of three halve to one; two routes let one fail; the bound of eight or
  nine flush promises is never reached (checked), so that it cuts no behaviour.
* `LogQueue`: a host that only sees the network come back makes four records overflow a
  queue of two with a batch of two in flight, under all answers. The hosts that flush,
  shut down, opt out and reset, and the one that drains by beacon and swaps pipelines, get
  three records and successful answers. Two flushes are the most that one pipeline and a
  caller need (a third, joined, shares the promise). 136,145 states.
* `BrowserSender`: two events with two keys make one request, two requests of one key, or
  two keys (which are alike, so that the first event has the first); two retries with one for status 0 reach both budgets.
* `SessionTabs`: six ticks hold a timeout of three (a session started, idle, and rotated),
  a maximum of four and a throttle of two; two ids let one session replace another. Also
  run with three ids, and with saves at once instead of debounced, with the same result.
* `SdkParts`: two contexts and three calls contend for the slot of flag reloads; three
  samples in two flushes merge back around a reset (also with three flushes); a bucket of four with two tokens per
  interval, so that the promise to a burst that goes on is not vacuous, is watched for ten
  ticks, three intervals (the theorem holds for one token, too); three versions let a
  tag outlive its definitions; three events of a batch end in three ways over three attempts; four
  writes overlap around a crash; three users outlive the breaker of two failures; two
  calls in which rrweb emits, with the events of the start and all that the calls emit
  (snapshots, Meta events, links), overflow a buffer of two, fill the queue and cross a
  rotation (the recorder alone also with three calls, 436,514 states);
  the bridge takes every two stimuli (calls, flag loads, expiries, lost calls), with all
  that follows from them. The bridge was also checked with three (1.36 million states) and
  four (9.2 million); `native_opt_out` needs three. Three posts, two requests awaited
  together and three acts of the user or the page let answers cross a choice of
  conversation, an identity or a hide (also checked with four posts and five acts, 5.9
  million states); two surveys and three acts let a timer outlive its popup, and a delay lose to
  each way it can end (also with four acts; two surveys that differ only in their numbers are
  checked in one order); two captures and a flush of the application, with a
  debounce and a cap of one tick, reach the cap, the threshold, and every moment of a
  shutdown (also checked with three captures and a cap of two, 3.1 million states). 732,907
  states in all.

`CHECK_DEADLOCK FALSE` is set everywhere because a bounded application stops calling;
that the bridge's chains do not wait for each other (`NoWaitIsVain`: a command waits only for
evaluations that are asked for, and these wait for nobody) is part of `NativeFollowsClient`.

### Fairness

Weak fairness of the steps the JavaScript event loop takes by itself: callbacks of
settled promises, timers that are set, and answers, which come because every request has
a timeout (`fetchWithRetry`, `request.ts`). Calls of the application, a captured event,
an opt-out, a network that comes back, a reset, are never assumed. `QueueDrains` of
`EventQueue` is conditional on no flush failing, because the code arms no timer after a
failed flush; `QueueDrains` of `LogQueue` assumes that a batch sent again and again is
at some time accepted; `EventsSettle` excludes a page that is paused, thinks it is
offline, or has met an exception. In `SdkParts`, `ReloadsFairness` is weak fairness of
all that follows settled promises, taken together; `PollerFairness` lets the timer fire and assumes, as
strong fairness, that a request made again and again succeeds at some time, without
which definitions cannot catch up. Each reason is beside its fairness condition.

## 5. Proofs

For every value of the constants that meets the assumptions of each module (batch and
queue sizes at least `FlushAt`, as the constructor makes them; positive counts). A property
is proved where it is listed here by the name of its theorem.

### EventQueueProofs

* `TypeCorrect`: `TypeOK` with two strengthenings it needs. `CapturesCounted`: messages
  and captures under preparation together are at most the captures begun, which bounds
  enqueue numbers (a message being prepared is not yet numbered). `BatchesTyped`: a
  batch holds messages that exist, and a flush that sends has a route.
* `NoLoss`: `NoMessageLost`, inductive given the types. The steps that can disturb it
  are pushes (evicting the smallest, `SmallestIsLeast`) and `persistQueueChange`.
* `OneFlushAtATime` and `StaleTimerCleared`: neither is inductive. `ChainInv` says that
  flush promises form one chain: `flushPromise` is the last one created until that one
  settles, and then all have (`ChainEnd`); a flush that waits is chained to the one
  before it unless all before it have settled, and one that has started follows settled
  ones only (`Chained`); the pending flush has not started (`PendingWaits`); and a timer
  that fired will be cleared by a flush that has not started.
* `SentInOrder`: what is to be sent was never acknowledged, and nothing overtakes. The
  invariant is about the batch in flight (`InFlight`): of what is queued *now*, after
  captures and evictions, it is the oldest part of its route, and a message is queued on
  one route (`QueuesApart`). That one flush runs is used.
* `DeliveryCorrect`: the refinement of `DeliveryQueue`, one lemma for each kind of step: a
  push submits, an answer delivers or gives up the initial part that `InFlight` says the
  batch is, everything else is a stutter.
* `NothingIsStranded`: `StrandInv` names the flush that will take what no timer covers. It
  needs what a running flush still has to do (`Drains`): earlier routes are empty, and
  `left`, which the code reads when it starts on a route, covers what is queued there.
* `PromisesKept`: the action property `FlushKeepsPromise`. A flush promises the messages that
  were queued and the captures that were pending at the call. `Keeps` bounds, by `left`, the
  messages at least as old as something promised; that they and not the newer ones are
  counted is what holds when messages arrive during the flush.
* `ShutdownLeavesNothing`: `ShutdownDrains`, with `DrainInv` (a drain that has seen no
  progress waits for a flush that has something to send) and `OwedInv` (captures under way at
  the call are joined before the drain).
* `CapacityIsKept`: a queue never holds more than `maxQueueSize`.
* `FlushesHaveWork`, `FlushesAdvance` and `WaitsEnd` are what is safety in `CallsSettle`. A flush
  that sends has something to send, also after its messages were evicted (`WorkInv`). Each step
  of a flush makes a measure of it smaller, and nobody else's step changes it: routes, messages
  left, size of the batch, the answer, tries (`Advances`). No waits are circular: of the flushes
  that are not settled the oldest can go on once the captures are done, and shutdown can once
  they have ended (`NobodyWaitsInVain`). What is left to fairness is that a step that can be
  taken is taken, and that requests are answered.

### LogQueueProofs

* `TypeCorrect`, with the counting of evictions: a pipeline has counted no more of them than
  there were.
* `RemovesItsBatch` and `TakenOnce`: the batch in flight was cut from a queue that has been
  evicted from, refilled, or replaced by the host since, and the code removes a *number* of
  records from the front. `FrontInv` says that the batch, of what the queue still holds, is
  everything up to its newest record, and that the count of the evictions is at most the
  records of the batch that have gone, unless all have; for a steady host both are equal
  (`GoneIsCounted`), so exactly the batch is removed. Lemmas about `slice`
  (`SliceIsFront`, `SliceHolds`, `SliceWithin`) count by injections into intervals.
* `DeliveryCorrect`: the refinement of `DeliveryQueue` with a steady host.
* `LogCapacityIsKept`, `LogFlushesHaveWork` and `LogFlushesAdvance`: as for events, but the queue
  that a flush works off may be evicted from, reset, drained by beacon or handed to another
  pipeline meanwhile: the flush still has a batch, an array with records in it, and fewer
  records left after each.
* `LogRecordsAwaited`, for a host whose application neither flushes nor shuts down and whose
  configuration does not change (`Unattended`): a queued record has a timer, or a flush under
  way with a background caller. It is inductive with `OnlyBackground` (every flush has such a
  caller, and one pipeline is in use) and with `PromiseRuns` (the promise that callers join is
  of a flush that runs, so that joining it is joining its end). Calls of the application break
  it, as section 7 says.

### BrowserSenderProofs

* `NoEventIsLost`: `HeldInOnePlace`. `OnePlace` is stated with the three places and the
  requests that are being handed to the browser as parameters, so that a step that hands
  over, limits, retries or beacons a whole set of requests is one lemma (`HandEach`), and
  steps compose (an unload hands over the queue and then the retries).
* `WorkIsKept`: `WorkGoesOn`. That retries are bounded needs `Counted`: a request counts the
  attempts of each of its events, and one in flight is an attempt it does not count yet.

### SessionTabsProofs

`OneSessionAlways`, `SessionsEndAlways` and the action property
`SessionsChangeOpenlyAlways`. None is inductive: what keeps two tabs in one session is what
each knows, through its props, of the storage. `TabKeeps` is about a tab alone: the throttle
hides less activity than its granularity, and the idle timer follows the activity that the
tab has seen. `SharedInv`, while no tab was lost with a save it owed, is about a tab and the
others: the storage and the tab's own props cover the activity it saved last, or it has been
idle since (`Covers`); what its props hold is in the storage, or is idle (`IsStored`); and a
session that a tab has yet to save, when its idle timer is due, is in the storage or nobody
else's (`OnlyIn`). Lemmas say what an event and a timer set (`EventSets`) and which
tabs a step leaves alone, so that a step is proved for its tab and for one other.

`NullSessionNeedsEmptyStorage` says that the violation of `session_tabs_null` has one cause.
Without an event that reads nothing (`ReadsNothing`: the first of its tab, an idle session in
the props, none in the storage) `EventsHaveSession` is an invariant, for an entry without a
session is then empty wherever it is held (`NullsAreEmpty`).

### NativeProofs

* `StorageFollowsAlways`: a settled message never comes back, a
  drained one stays stored until it is answered, and changes of the cache reach the disk,
  for any number of overlapping writes and crashes, while the backend keeps its order. The
  invariant says what an await promises: once the writes it awaits have ended, the storage
  will hold one of the contents that the promise allows (`Promise`). A write that ends in
  order keeps every promise (the newest write decides), a new write of the cache keeps
  those the cache satisfies, and a crash ends the awaits. `StorageInv` (messages are
  numbered, only captured ones are held, a stopped app is still) holds also with a faulty
  backend.
* `NativeFollowsAlways`: with the chains at rest nothing is queued, so the invariant speaks of
  what is. For identity and consent (`IdentityTold`, `ConsentTold`): what the native SDK was
  told, what a setup in progress has read, and what the command at the head has read, are
  each right, or a command that corrects them is queued, behind the head (`Later`) or to be
  dispatched after the setup (`Late`, for a command waits for the evaluations asked for
  before its turn). Identity is said twice (`Right`): with no identify or reset to come it is
  the client's, and with no reset to come it is nobody's from before the last one. For the
  token (`TokenTold`) it is about the application's last word
  (`WordsInOrder`: the last `register` or `unregister` in the queue is what it wants, and an
  opt-out unregisters behind every register); before there is a native SDK no command was
  dispatched, so that what a command needs is still what it needed when it was asked for
  (`Undispatched`). For the recorder (`RecorderTold`): once no evaluation is unread
  (`Unread`), what was found closed is closed, whatever session came since, and what was
  found open is open if the session is the one the native side knows. The shape of the
  setup (`RecorderShape`: it enables replay only where nothing records, and fixes the session)
  carries this over its two calls. Every step is one of four sorts (`FourSorts`), and lemmas
  say once what each sort leaves alone.

### CoreProofs

* `ReloadsServedAlways`: every call keeps its number (`CallsCounted`,
  `CallsKnown`); the calls that wait, ride or are in the slot were asked in contexts no
  newer than what the request reads or will read (`AnswersAreFresh`, `RequestIsFresh`); a
  context newer than the stored flags has a call on its way (`NoContextIsMissed`); and an
  owed link is in a call on its way, unless one lost the slot (`LinkWaits`).
* `CallersServedAlways`: a promise that has not settled is held by a call that waits, by the
  slot, by the request or by those that ride on it, each of which is a place from which the code
  goes on, so that at rest every caller has its answer. It is what is safety in
  `ReloadsAnswered`.
* `ConfigToldAlways`: `ConfigToldOnce` counts the calls that will tell. It is inductive with
  `DistinctCalls`: a call is in one of the queue, the slot and the request, once, so that a
  step takes away at most the one it tells or forfeits.
* `WindowsKeptAlways`: a counted sample is in the window, in one flush, or has left
  (`OneHome`); a window that is not empty has its timer or a flush that will take it
  (`WindowAwaited`); flushes send one after the other (`Serialized`), so that an older gauge
  that is merged back does not overtake a newer one.
* `BurstsBounded` and `RateIsKeptAlways`: what a window has let through and what the bucket
  still would (`Room`) came from a full bucket and from the intervals that ended (`BoundInv`).
  That a burst which goes on has a call let through needs a refill of two tokens or more
  (`TrickleInv`); the property says so, because with one the token of each refill is the one
  that is refused (section 7). The bound, and the call after a rest, hold for every refill.
* `BatchAlwaysAccounted`: with `UnderWay`, which relates the await of
  the loop to the pending events. `PollingGoesOnAlways`: with the types.
* `NotModifiedNeedsQuota`: the violation of `flag_poller_etag` has one cause. In behaviours
  without quota answers, and without a cache, the tag names the definitions that are held
  (`TagIsHeld`), so that a 304 finds some.
* `InvocationIsHeldAlways`: inductive with the types, a shutdown that has
  not begun holding no promise, and the timer's rest plus the cycle's age staying under cap
  and debounce together, because a capture at or over the cap ends the cycle. Lemmas say
  which messages a flush that was added, has begun or has ended leaves to a promise
  (`TakenBy`); a shutdown that gives up leaves its messages to `loose`.

### BrowserProofs

* `BrowserFlagsTypes`, and `FlagsAreLoadedAlways`: at most one request that no reset has
  forgotten awaits its answer (`OneAtATime`), an answer closes the breaker before it lets
  reloads go (`AnswersCloseTheBreaker`), and an older user's request has a reload behind it.
* `AnonIdNeedsRequestInFlight`: the violation of `browser_flags_anon` has one cause. Unless an
  anonymous user is identified while a request is in flight, all that is awaited carries the
  id that is due (`IdIsCarried`), so that the success that gives it up has delivered it.
* `SurveysTakeTurnsAlways`: one survey at a time is not inductive by
  itself. `Alone` adds that a survey that waits is not shown, without which the end of its
  delay would free the focus of a popup that stays; `FocusHeld` gives the focus to what waits, is
  shown, or is `orphan`. Lemmas say what a claim, a cancellation, a removal and a closing do
  to any stage, and each step is one of them, with the history that excuses it (`HistoryKept`).
* `ConversationIsWholeAlways`: while nothing `crossed`, what the page shows also depends on
  the requests that may still change it. `LoadsContinue`: a load of the page's ticket starts
  where all is shown, so that it can move the cursor there. `OpensOnce` and `SendsOnce`: a
  request that may pick a ticket is alone, it meets a page that starts from nothing or whose
  button is down, and no load is awaited for the ticket that a first message has made.
  `HiddenRests`: without a widget there is nothing awaited but one start. `HiddenInv` and
  `HeardInv` say the same of what undoes a hide and of flags. Every handler takes at most one
  request away and adds a few; `Follows` says so of a step once, and lemmas say from it alone
  which requests keep each part. `MaxPosts` is assumed to be 2 or more, for the server may
  start with two tickets, each with a post.
* `RecordingsAreKeptAlways`: the parts of `RecorderInv` are said of any recorder, because a
  handler passes through recorders that no state shows. Between two calls of a handler the
  recorder is `Kept`: it files what it holds under its session (`Filed`), sends only of
  sessions that somebody cared about and has not let go of the others (`Cared`), holds events
  of calls no older than what was sent, the queued behind the buffered (`InOrder`), and neither
  holds a snapshot of a session to come nor compresses while nothing happens (`Steered`).
  `Playable` is not inductive alone: an epoch born of a rotation may have lost its init
  snapshot, and then the heal before the next event takes another, once for each session,
  so that it also says of which sessions one was taken or tried. At rest, the recorder is
  listening or stopped (`Rests`) and has a timer for what may go (`Timely`); an action that
  ends a handler early would break these two. One lemma for each method says what it keeps of
  any recorder and what it leaves alone (`Cleared`, `Snapped`, `Going`, `Halted`, `Steering`),
  and what an event about to be captured still needs (`Fits`); an action then composes them.
  That the function of `CaptureAll` exists for a queue of any length, and keeps all this,
  follows from the least length at which it would not.

### SdkPartsProofs

* `PartsImplemented`: the composition implements each of its twelve parts. Each step of it is a
  step of one part and leaves the variables of the others as they are, or of none.
* `PartsTyped` and `PartsKeepTheirPromises`: hence what was proved of each part alone, under the
  names above, holds of all of them beside each other, for every value of the constants and
  with the exceptions that each property names.

The proofs cite `FiniteSetTheorems` for the counting, `SequenceTheorems` for appends and
tails, and `WellFoundedInduction` for the least element of a set of numbers.

### Only model-checked

The six liveness properties: `CallsSettle` and `QueueDrains` of the event queue,
`PipelineDrains` of the log queue, `EventsSettle`, `ReloadsAnswered` and `PollerCatchesUp`.
Fairness and ENABLED are out of reach of the proof system; the theorems above prove, for the
event queue, the log queue and the reloads, the measures, the absence of circular waits and the
awaited records on which these rest. The five properties of the runs that expect a violation
do not hold; for three of them a theorem says under which single condition they would.

## 6. What is abstracted

Contents of events, properties, formatting, compression, sampling and `before_send`
(they decide only whether something is enqueued, and captures are optional anyway);
exact delays and jitter; `sendImmediate` and the stateless requests for flags and
surveys, which keep no queue.

* Browser: session ids from the bootstrap configuration, events with their own
  timestamps, clocks that go back, storage that fails or is split, and the queue used where
  neither fetch nor XMLHttpRequest exists. The status 0 breaker of logs is in `LogQueue`
  only by what it does: any failure may be fatal.
* `BrowserFlags`: the queue of requests before init, `setReloadingPaused` and
  `disable_flags` (no reload happens), partial configs; the refresh interval and a stale
  cache ask for a reload as anybody may.
* `BrowserSender`: the limits that the answer to a retry may set which an unload handed on.
* `CaptureV1`: an `onError` of the application that throws.
* `SessionRecorder`: the order of the events of one call is not claimed (a snapshot that an
  event asks for is captured before it, or its Meta event before and the rest after). That
  compression is asynchronous is a flag for all kinds that are compressed. URL blocklists,
  window ids, custom events other than links, rrweb methods that are queued and retried, persisted overrides, minimum durations, the mutation
  throttler. A step that turns the recorder idle needs the time of quiet to have passed, and
  activity is judged when nothing is being compressed.
* `NativeBridge`: `defaultOptIn` is true; the application's own start and stop of the
  recorder, native error tracking, the plugin without setup, macOS, native session ids and
  push-opened events are left out. Setup has no timeout: one that hangs would block both
  chains, and is not modelled. A call that timed out has no later effect. Setup asks for the
  session id (`posthog-rn.ts:2405`), which may rotate the session and ask for an evaluation
  (1512-1527): in the model these are steps of their own, before or after.
* `Conversations`: unread counts and read marks, resolved tickets, restore links, the forms,
  the breaker of polls (a poll that is not made), the public `sendMessage(…, newTicket)` and
  `getMessages(ticketId)` that switch tickets (`index.tsx:173-301`, 313), and the pages of 50
  messages (321) and 20 tickets (1224). `showTicketList` is that there are tickets; the
  manager may keep it from an earlier load (860, 1507).
* `SurveyDisplay`: questions, event and action triggers, widgets and inline surveys, the
  loading of definitions, prefilled answers of surveys that thank, answers before the last (one
  that is sent marks the survey as seen, but a survey in progress stays eligible,
  `surveys/surveys-extension-utils.tsx:588`). The order in which an
  evaluation considers surveys is left open.
* `WaitUntil`: promises given to `waitUntil` by several requests of one process are not told
  apart, timers are punctual, evictions and opting out are left out, and shutdown is called
  once.
* `DurableQueue`: one key; the other keys of the cache are written with it.

## 7. Where the code and what it says differ

Runs that end in a violation, each against a sentence of the repository:

* `log_queue_swap`. A change of `config.logs` during a flush builds a second pipeline
  over the same queue; both remove their count of head records, so records that were
  never sent go. The comment promises "a duplicate, never a loss".
* `session_tabs_null`. A tab loaded before another's reset, whose stored session seems
  idle at its first event, refreshes to no session and sends the event with a null id.
* `flag_poller_etag`. A quota answer clears the definitions and keeps their tag; once the
  quota is restored the server answers 304, for which the comment says "keep using cached
  data", and there is none.
* `browser_flags_anon`. The answer of a request built before `identify` clears the
  anonymous id that no request has carried.
* `native_opt_out`. Opting out withdraws consent before it unregisters the push token,
  and setup is then refused, so that a token an earlier launch registered stays.

Seen while modelling, with no run of their own:

* Event pipeline: one refused batch rejects its flush and ends shutdown's drain, batches
  behind it are never offered; after a failed flush no timer is armed until the next
  capture, although flushes are called periodic.
* Logs: with a beacon drain a running flush loses a record captured since
  (`logs/index.ts:296`), and after a reset two flushes may send at once (`:208`); joined
  background callers of one failed flush each count a failure, so the first retry is late
  (`:352`); a `flush()` of the application that fails arms no timer again; a replaced
  pipeline arms its timer when its flush ends.
* Browser sender: `RetryQueue.unload` removes the online listener for good, so that a page
  restored from the back/forward cache no longer flushes when it comes online; with
  batching off, `pagehide` leaves the retry queue; a retry is dropped without its callback
  when the server has limited its key meanwhile.
* Sessions: the idle timer's refresh takes over another tab's session, and consumers are
  not told (`SessionsChangeOpenly` holds up to it); the length is judged before the refresh,
  so that a tab can replace another's new session or take up one past the maximum.
* Rate limiter: with a refill rate of one, the default for exceptions, a burst without a
  pause lets nothing through after its start, since the call that takes the last token is
  refused: the token of each refill is that one. `node/src/extensions/error-tracking/index.ts:27-29`
  says that by default the limiter "captures 1 rate-limited exception of that type every 10
  seconds until the burst ends". `RateIsKept` promises a refill of one only what the code keeps.
* Core flags: `reloadFeatureFlagsAsync(false)` in the slot replaces a call that carried the
  link to an anonymous id, and a replaced call's notification is lost.
* Browser flags: a reset during a request lets two overlap, and the forgotten answer of the
  earlier user may be stored last; a request that the server's limiter drops leaves
  `_requestInFlight` set until a reset; a quota answer drops the additional reload; the
  refresh interval that reset stops is not started again.
* Poller: a 402 leaves `loadedSuccessfullyOnce`, so that loads on demand are skipped.
* RN storage: a write that fails is not made again until the next change.
* Recorder: what a snapshot emits may be captured before the event that asked for it: a
  mutation that finds its session without a snapshot calls for one (`:1496`) and is itself
  captured when the call returns (`:1498`), so that without asynchronous compression the
  snapshot, which holds the mutation's result, is ahead of the mutation; with it the Meta event
  is. The init snapshot of a fresh start may be dropped, contrary to
  `lazy-loaded-session-recorder.ts:1531` (the property asks it of epochs born of a rotation,
  once a snapshot was captured); a rotation during a deferred stop starts the stopped recorder
  again; a rotation with events being compressed discards the old session's tail, and the
  flush at a rotation goes by the new session's status; a deferred teardown removes the
  listener that ends a forced idleness.
* RN client: when the native `setOptOut` fails after setup, native records while the client
  thinks it does not; a reset under `defaultOptIn: false` opts out again without
  unregistering the token; a reset that boots native sets it up with the identity after the
  reset.
* Conversations: the answer to a send moves the cursor past what agents wrote since the last
  poll, which is then never fetched; a load that `hide` overtakes leaves a cursor although
  `hide` resets it "so show() will re-fetch all messages" (`index.tsx:1207`); a start that
  `hide` or `reset` overtakes renders the widget and polls; the answer to a send after `reset`
  persists the old ticket; leaving a conversation while its first message is being sent
  switches tickets under what is shown; the check for stale answers passes when ticket and
  identity are the same again; a request that the limiter drops leaves a busy flag set.
* Surveys: the timers of `autoDisappear` and of the view transition are not cleared when the
  popup goes otherwise, and `_removeSurveyFromFocus` takes the focus of whichever survey has
  it, so that two are shown, contrary to `surveys.tsx:147`; `displaySurvey` with answers that
  complete a survey whose delay holds the focus clears the delay and returns (`:219-229`),
  after which no survey is shown on the page any more, where `cancelSurvey` takes care to
  "release focus" (`:186`); `loadIfEnabled` resets `_isInitializingSurveys` while the script
  loads, so that a second call makes a second manager; a request for definitions that the
  limiter drops is awaited for ever.
