---------------------------- MODULE SessionRecorder ----------------------------
(***************************************************************************)
(* The session recorder of posthog-js (packages/browser/src/extensions/    *)
(* replay/external/lazy-loaded-session-recorder.ts): one buffer of events  *)
(* of one session, a queue of events being compressed, epochs that are     *)
(* held until somebody cares, idle detection, restarts when the session id *)
(* changes, and a stop that waits for the compression.                     *)
(*                                                                         *)
(* rrweb (external) emits synchronously, also from within the recorder's   *)
(* own calls: a handler is the composition of functions from recorder to   *)
(* recorder below.  Incremental events are interactions, which are not     *)
(* compressed, and mutations, which are, as are full snapshots; the Meta   *)
(* event before a snapshot is not.  Compression is asynchronous where the  *)
(* browser has it and the configuration does not forbid it, and may cease  *)
(* to be.  Of the custom events only the links between sessions are kept.  *)
(* The size of a buffer is its number of events.                           *)
(***************************************************************************)
EXTENDS Naturals, Sequences, SequencesExt

CONSTANTS
    MaxSessions,  \* bound: sessions of the session manager
    MaxEvents,    \* bound: calls by the page in which rrweb emits
    BufferCap     \* RECORDING_MAX_EVENT_SIZE, in events

ASSUME RecorderAssumption ==
    MaxSessions \in Nat \ {0} /\ MaxEvents \in Nat /\ BufferCap \in Nat \ {0}

VARIABLES
    currentSession,  \* the id that the session manager returns (external)
    everVisible,     \* _documentWasEverVisible
    rec              \* the recorder

srVars == <<currentSession, everVisible, rec>>

--------------------------------------------------------------------------------
Sessions == 1..MaxSessions
Verdicts == {"recording", "buffering", "disabled"}

\* An event, the number of the call that made it (or, in its own handling, asked for
\* it), and the session it is captured for.
EventKinds == {"user", "mutation", "meta", "full", "link"}
RecEvent == [n : Nat, kind : EventKinds, target : Sessions]

\* The recorder: its fields, and what the properties remember of it.
Recorders ==
    [session : Sessions,           \* _sessionId
     idle : {"unknown", "active", "idle"},  \* _isIdle
     quiet : BOOLEAN,              \* no activity for longer than the threshold
     live : BOOLEAN,               \* isStarted
     hears : BOOLEAN,              \* a listener for new session ids is set
     stopping : BOOLEAN,           \* _isStoppingAfterCompression
     hold : BOOLEAN,               \* _holdFlushUntilInteraction
     unloadShips : BOOLEAN,        \* _heldEpochShipsOnUnload
     overflowed : BOOLEAN,         \* _heldBufferOverflowed
     suppress : BOOLEAN,           \* _suppressNextFreshStartHold
     timer : BOOLEAN,              \* _flushBufferTimer
     buffer : [session : Sessions, events : Seq(RecEvent)],
     async : BOOLEAN,              \* shouldUseNativeAsyncSessionRecordingGzip
     queue : Seq(RecEvent),        \* _pendingCompressionEvents
     capturing : BOOLEAN,          \* one that has left it is still being captured
     lastFull : 0..MaxSessions,    \* _lastFullSnapshotSessionId
     healed : 0..MaxSessions,      \* _fullSnapshotHealAttemptedFor
     verdict : Seq(Verdicts),      \* status, per session
     emitted : Nat,                \* history: calls that emitted so far
     shippedTo : Nat,              \* history: the call of the last event shipped
     shipped : SUBSET (Sessions \X Sessions),  \* history: sent as, captured for
     cared : SUBSET Sessions,      \* history: sessions somebody cared about
     seen : BOOLEAN,               \* history: the epoch has had a full snapshot
     fresh : BOOLEAN]              \* history: the epoch is not born of a rotation

RecorderTypeOK == currentSession \in Sessions /\ everVisible \in BOOLEAN /\ rec \in Recorders

\* _clearBuffer.
ClearBuffer(r) == [r EXCEPT !.buffer = [session |-> r.session, events |-> <<>>]]

RecStatus(r) == r.verdict[r.session]

\* The captures of $snapshot in _flushBuffer.
Ship(r) ==
    LET events == r.buffer.events IN
    IF events = <<>> THEN r
    ELSE [r EXCEPT !.shippedTo = Last(events).n,
                   !.shipped = @ \cup {<<r.buffer.session, events[i].target>> : i \in DOMAIN events}]

\* _flushBuffer.  The status is that of the session the recorder is in.
FlushBuffer(r) ==
    IF r.hold THEN [r EXCEPT !.timer = FALSE]
    ELSE IF RecStatus(r) # "recording" THEN [r EXCEPT !.timer = TRUE]
    ELSE ClearBuffer(Ship([r EXCEPT !.timer = FALSE]))

\* A quiet recorder turns idle by the next event that is not an interaction.
GoIdle(r) ==
    IF r.quiet /\ r.idle # "idle" THEN FlushBuffer([r EXCEPT !.idle = "idle"]) ELSE r

NextEvent(r, kind, target) == [n |-> r.emitted, kind |-> kind, target |-> target]

--------------------------------------------------------------------------------
(* Events on their way into the buffer *)

\* Mutant: a confirmed idle recorder keeps the buffer when the session changes.
ReboundUnlessIdle(r, e) ==
    IF r.buffer.session # e.target /\ r.idle # "idle"
    THEN LET f == FlushBuffer(r) IN
         [f EXCEPT !.buffer = [session |-> e.target, events |-> <<>>]]
    ELSE r

\* _captureSnapshotBuffered: an event of another session rebinds the buffer,
\* and what a refused flush leaves in it is discarded.
Rebound(r, e) ==
    IF r.buffer.session # e.target
    THEN LET f == FlushBuffer(r) IN
         [f EXCEPT !.buffer = [session |-> e.target, events |-> <<>>]]
    ELSE IF r.idle # "idle" /\ ~r.hold /\ Len(r.buffer.events) >= BufferCap
    THEN [FlushBuffer(r) EXCEPT !.buffer.session = e.target]
    ELSE r

CaptureSnapshotBuffered(r, e) ==
    LET b == Rebound(r, e) IN
    IF b.hold /\ b.overflowed THEN b
    ELSE IF b.hold /\ Len(b.buffer.events) >= BufferCap
    THEN ClearBuffer([b EXCEPT !.overflowed = TRUE])
    ELSE [b EXCEPT !.buffer.events = Append(@, e),
                   !.timer = @ \/ (b.idle # "idle" /\ ~b.hold)]

\* _captureProcessedEvent, of an event that needs no snapshot before it.
Capture(r, e) ==
    IF RecStatus(r) = "disabled" THEN ClearBuffer(r)
    ELSE CaptureSnapshotBuffered(IF e.kind = "full" THEN [r EXCEPT !.lastFull = e.target] ELSE r, e)

\* The end of onRRwebEmit: what is compressed asynchronously is queued, and so is what
\* comes while a queued event is not captured to the end.
Queues(r, e) ==
    r.queue # <<>> \/ r.capturing \/ (r.async /\ e.kind \in {"mutation", "full"})

EnqueueCompression(r, e) == [r EXCEPT !.queue = Append(@, e)]

\* _clearBufferBeforeMostRecentMeta, while a trigger is pending.
SinceLastMeta(r) ==
    LET events == r.buffer.events
        metas == {i \in DOMAIN events : events[i].kind = "meta"} IN
    IF RecStatus(r) # "buffering" THEN r
    ELSE IF metas = {} THEN ClearBuffer(r)
    ELSE [r EXCEPT !.buffer.events =
             SubSeq(events, CHOOSE i \in metas : \A j \in metas : j <= i, Len(events))]

\* _tryTakeFullSnapshot and the snapshot that rrweb starts with, as they pass
\* onRRwebEmit: a Meta event and a FullSnapshot, which a recorder that is or
\* turns idle drops.
Emit(r, kind) ==
    LET e == NextEvent(r, kind, r.session) IN
    IF Queues(r, e) THEN EnqueueCompression(r, e) ELSE Capture(r, e)

SnapshotEmitted(r) ==
    LET g == GoIdle(r) IN
    IF g.idle = "idle" THEN SinceLastMeta(g)
    ELSE Emit([SinceLastMeta(Emit(g, "meta")) EXCEPT !.seen = TRUE], "full")

TakeFullSnapshot(r) == IF r.live THEN SnapshotEmitted(r) ELSE r

\* _ensureFullSnapshotForSession.  A snapshot that an event from the queue asks for is a
\* call of its own.
NeedsSnapshot(r, e) ==
    e.kind \in {"user", "mutation"} /\ r.lastFull \notin {0, e.target} /\ r.healed # e.target

EnsureFullSnapshot(r, e) ==
    IF ~NeedsSnapshot(r, e) THEN r
    ELSE TakeFullSnapshot([r EXCEPT !.healed = e.target,
                                    !.emitted = IF r.capturing THEN @ + 1 ELSE @])

\* _captureProcessedEvent.
CaptureProcessed(r, e) ==
    Capture(IF RecStatus(r) = "disabled" THEN r ELSE EnsureFullSnapshot(r, e), e)

\* onRRwebEmit, of an event of the page.
Route(r, e) == IF Queues(r, e) THEN EnqueueCompression(r, e) ELSE CaptureProcessed(r, e)

\* An event of the queue, until _finishQueuedCompressionEvent.
CaptureQueued(r, e) ==
    [CaptureProcessed([r EXCEPT !.capturing = TRUE], e) EXCEPT !.capturing = FALSE]

\* _drainCompressionQueueSync: what waits is captured at once, in its order; what that
\* adds to the queue waits on.
CaptureAll(r) ==
    LET after[i \in 0..Len(r.queue)] ==
            IF i = 0 THEN [r EXCEPT !.queue = <<>>] ELSE CaptureQueued(after[i - 1], r.queue[i])
    IN  after[Len(r.queue)]

--------------------------------------------------------------------------------
(* Stop, start and restart *)

Teardown(r) == [r EXCEPT !.timer = FALSE, !.live = FALSE, !.hears = FALSE,
                         !.queue = <<>>, !.stopping = FALSE]

\* stop: with events being compressed it is finished when they are done.
StopRecording(r) ==
    IF r.queue = <<>> THEN Teardown(ClearBuffer(FlushBuffer(r)))
    ELSE IF r.stopping THEN r
    ELSE [r EXCEPT !.stopping = TRUE, !.timer = FALSE, !.live = FALSE]

\* start, for the session s: an epoch without a confirmed user is held, and a
\* stop that still waits is called off with what it waited for.
StartRecording(r, s) ==
    LET cares == r.idle = "active" \/ r.suppress
        h == IF r.live THEN r
             ELSE [r EXCEPT !.hold = ~cares, !.unloadShips = ~cares, !.suppress = FALSE,
                            !.overflowed = FALSE, !.fresh = TRUE,
                            !.cared = IF cares THEN @ \cup {s} ELSE @]
        c == IF h.stopping THEN ClearBuffer([h EXCEPT !.queue = <<>>, !.stopping = FALSE]) ELSE h
        b == [c EXCEPT !.session = s, !.hears = TRUE] IN
    IF b.live THEN b
    ELSE [SnapshotEmitted([b EXCEPT !.seen = FALSE]) EXCEPT !.live = TRUE, !.quiet = FALSE]

\* _restartForSessionIdChange.
RestartRecording(r, s, held) ==
    [StartRecording(StopRecording(r), s)
        EXCEPT !.hold = held, !.unloadShips = FALSE, !.fresh = FALSE]

\* _releaseHoldAndFlush: somebody cares.
ReleaseHold(r) ==
    LET s == IF r.live THEN [r EXCEPT !.cared = @ \cup {r.session}]
                       ELSE [r EXCEPT !.suppress = TRUE, !.cared = @ \cup {r.session}]
        h == [s EXCEPT !.hold = FALSE, !.unloadShips = FALSE, !.overflowed = FALSE] IN
    IF ~r.hold THEN s
    ELSE [(IF r.overflowed THEN TakeFullSnapshot(h) ELSE h) EXCEPT !.timer = TRUE]

--------------------------------------------------------------------------------
(* A new session id *)

Link(r, s) == IF r.live THEN Route(r, NextEvent(r, "link", s)) ELSE r

\* _onSessionIdCallback.  The custom event it emits enters
\* _updateWindowAndSessionIds, which restarts a live recorder.
OnSessionId(r, s, linked) ==
    LET ended == IF linked THEN Link(r, r.session) ELSE r
        g == IF r.live THEN GoIdle(ended) ELSE ended
        moved == IF r.live
                 THEN RestartRecording(
                         [g EXCEPT !.idle = IF @ = "active" THEN @ ELSE "unknown"], s,
                         g.idle # "active")
                 ELSE RestartRecording([g EXCEPT !.idle = "unknown"], s, g.idle # "active")
        known == [moved EXCEPT !.cared = IF g.idle = "active" THEN @ \cup {s} ELSE @] IN
    IF s = r.session THEN r ELSE IF linked THEN Link(known, s) ELSE known

--------------------------------------------------------------------------------
(* Actions *)

\* The constructor, which is followed by a start.
NewRecorder(v, a) ==
    [session |-> 1, idle |-> "unknown", quiet |-> FALSE, live |-> FALSE, hears |-> FALSE,
     stopping |-> FALSE, hold |-> FALSE, unloadShips |-> FALSE, overflowed |-> FALSE,
     suppress |-> FALSE, timer |-> FALSE, buffer |-> [session |-> 1, events |-> <<>>],
     async |-> a, queue |-> <<>>, capturing |-> FALSE, lastFull |-> 0, healed |-> 0,
     verdict |-> <<v>>, emitted |-> 1, shippedTo |-> 0, shipped |-> {}, cared |-> {},
     seen |-> FALSE, fresh |-> TRUE]

RecorderInit ==
    /\ currentSession = 1 /\ everVisible \in BOOLEAN
    /\ \E v \in Verdicts, a \in BOOLEAN : rec = StartRecording(NewRecorder(v, a), 1)

MayEmit == rec.emitted <= MaxEvents
Called(r) == [r EXCEPT !.emitted = @ + 1]  \* in a call by the page, or by rrweb
Stays == UNCHANGED <<currentSession, everVisible>>

\* The session manager hands out a new id, which the recorder may hear of.
Rotates(linked, r) ==
    /\ currentSession < MaxSessions
    /\ currentSession' = currentSession + 1
    /\ \E v \in Verdicts :
          LET s == currentSession + 1
              d == [r EXCEPT !.verdict = Append(@, v)] IN
          rec' = IF r.hears THEN OnSessionId(Called(d), s, linked) ELSE d

\* A new session by some other event, another tab or a reset.
RotateSession(linked) == MayEmit /\ Rotates(linked, rec) /\ UNCHANGED everVisible

\* onRRwebEmit of a mutation.
EmitMutation ==
    /\ rec.live /\ MayEmit
    /\ LET g == GoIdle(rec) IN
       rec' = IF g.idle = "idle" THEN g
              ELSE Route(Called(g), NextEvent(Called(g), "mutation", g.session))
    /\ Stays

\* onRRwebEmit of an interaction: the user is back before the session check,
\* which may find that a new session is due.  A snapshot that the release of the hold
\* asks for is emitted before the interaction is captured.
Woken == [Called(rec) EXCEPT !.idle = "active", !.quiet = FALSE]
Interacted(r) == LET h == ReleaseHold(r) IN Route(h, NextEvent(h, "user", h.session))

EmitInteraction ==
    /\ rec.live /\ MayEmit
    /\ rec' = Interacted(Woken)
    /\ Stays

EmitInteractionInNewSession(linked) ==
    /\ rec.live /\ MayEmit /\ currentSession < MaxSessions
    /\ currentSession' = currentSession + 1
    /\ \E v \in Verdicts :
          rec' = Interacted(OnSessionId([Woken EXCEPT !.verdict = Append(@, v)],
                                        currentSession + 1, linked))
    /\ UNCHANGED everVisible

\* The interval of full snapshots, which does not run while idle.
SnapshotTimerFires ==
    /\ rec.live /\ MayEmit /\ rec.idle # "idle"
    /\ rec' = TakeFullSnapshot(Called(rec))
    /\ Stays

\* Compression takes less time than that.
ActivityThresholdPasses ==
    /\ ~rec.quiet /\ rec.queue = <<>>
    /\ rec' = [rec EXCEPT !.quiet = TRUE]
    /\ Stays

FlushTimerFires ==
    /\ rec.timer
    /\ rec' = FlushBuffer(rec)
    /\ Stays

\* The head of the chain is compressed.
CompressionDone ==
    /\ rec.queue # <<>>
    /\ rec' = CaptureQueued([rec EXCEPT !.queue = Tail(@)], Head(rec.queue))
    /\ Stays

\* set_config of compress_events, or an error of the browser's compression.
CompressionChanges ==
    /\ rec' = [rec EXCEPT !.async = ~@]
    /\ Stays

StopCompletes ==
    /\ rec.stopping /\ rec.queue = <<>>
    /\ rec' = Teardown(ClearBuffer(FlushBuffer(rec)))
    /\ Stays

Start == rec' = StartRecording(Called(rec), currentSession) /\ ~rec.live /\ MayEmit /\ Stays
Stop == rec' = StopRecording(rec) /\ rec.live /\ Stays
Discard == rec' = Teardown(ClearBuffer(rec)) /\ rec.live /\ Stays

\* forcedIdleReset: stop, and wait for a new session.
ForcedIdleReset ==
    /\ rec.live /\ rec.quiet
    /\ rec' = [StopRecording([rec EXCEPT !.idle = "unknown"]) EXCEPT !.hears = TRUE]
    /\ Stays

Activated(r) == IF RecStatus(r) = "buffering"
                THEN FlushBuffer([r EXCEPT !.verdict[r.session] = "recording"]) ELSE r

EventTriggerMatches ==
    rec' = Activated(ReleaseHold(Called(rec))) /\ rec.live /\ MayEmit /\ Stays
UrlTriggerMatches == rec' = Activated(rec) /\ rec.live /\ Stays

\* overrideSampling, overrideLinkedFlag.
Override ==
    /\ MayEmit
    /\ rec' = ReleaseHold(TakeFullSnapshot(
                  [Called(rec) EXCEPT !.verdict[rec.session] = "recording"]))
    /\ Stays

\* beforeunload, after which the page may live on.
BeforeUnload ==
    /\ rec.live \/ rec.stopping
    /\ LET ships == rec.hold /\ rec.unloadShips /\ everVisible /\ ~rec.overflowed
           open == [rec EXCEPT !.hold = @ /\ ~ships,
                               !.cared = IF ships /\ rec.fresh THEN @ \cup {rec.session} ELSE @] IN
       rec' = IF RecStatus(rec) = "buffering" THEN ClearBuffer(rec)
              ELSE FlushBuffer(CaptureAll(open))
    /\ Stays

BecomesVisible == ~everVisible /\ everVisible' = TRUE /\ UNCHANGED <<currentSession, rec>>

RecorderNext ==
    \/ \E linked \in BOOLEAN : RotateSession(linked) \/ EmitInteractionInNewSession(linked)
    \/ EmitMutation \/ EmitInteraction \/ SnapshotTimerFires \/ ActivityThresholdPasses
    \/ FlushTimerFires \/ CompressionDone \/ CompressionChanges \/ StopCompletes
    \/ Start \/ Stop \/ Discard \/ ForcedIdleReset
    \/ EventTriggerMatches \/ UrlTriggerMatches \/ Override
    \/ BeforeUnload \/ BecomesVisible

RecorderSpec == RecorderInit /\ [][RecorderNext]_srVars

--------------------------------------------------------------------------------
(* Properties *)

\* A recorder that records is in the session of the session manager, and what
\* it sends is sent as captured (lines 2002-2004: an idle rotation must not
\* ship "under the old session id"; 1103-1106), whatever rotates, stops, starts
\* or is being compressed.
FiledRight ==
    /\ rec.live => rec.session = currentSession
    /\ \A s \in rec.shipped : s[1] = s[2]

\* Events leave in the order of the calls that made them, compressed or not, at once
\* or later, also when compression changes in between or an unload compresses what is
\* left.  Of the events of one call no order is claimed: a snapshot that an interaction
\* asks for, by the release of a hold (1464-1466) or to heal (1496-1498), is captured
\* before it, or, when snapshots are compressed, its Meta event before and the rest after.
RecordedInOrder ==
    LET line == rec.buffer.events \o rec.queue IN
    \A i \in DOMAIN line : line[i].n >= (IF i = 1 THEN rec.shippedTo ELSE line[i - 1].n)

HasIncremental ==
    \E i \in DOMAIN rec.buffer.events : rec.buffer.events[i].kind \in {"user", "mutation"}

\* An epoch born of a rotation has a full snapshot to play what it captured on, its
\* first or one that was asked for to heal it (1520-1545), if any session before had
\* one.  Line 1531 says of a fresh start, too, that "rrweb's init snapshot is always
\* ordered ahead of any incremental"; a recorder that turns idle by it drops it, and
\* such epochs, and recorders that never captured a full snapshot, are left out.
HealedWhenRotated == rec.live /\ HasIncremental /\ ~rec.fresh /\ rec.lastFull # 0 => rec.seen

\* A recording is of one session, call by call, and has a snapshot to play on.
RecordingsAreWhole == FiledRight /\ RecordedInOrder /\ HealedWhenRotated

\* Nothing of a session is sent before somebody cared about it (1081-1087): an
\* interaction, an event trigger, an override, a user known to be active, or,
\* for an epoch that is not born of a rotation, the unload of a page that was
\* seen.
HeldUntilCared == \A s \in rec.shipped : s[1] \in rec.cared

\* What may be sent will be: an event of the page in the buffer of a recorder that is
\* neither held nor idle has a flush timer, or events being compressed that will set
\* one.  The snapshot of an epoch that starts held, in a restart that lifts the hold
\* (1445-1450), has none before the next event.
NothingWaitsForever ==
    rec.live /\ HasIncremental /\ ~rec.hold /\ rec.idle # "idle" => rec.timer \/ rec.queue # <<>>

\* Both: what is held is held for a reason, and what is not is sent.
HeldForAReason == HeldUntilCared /\ NothingWaitsForever

\* Rotations, idleness, holds, compression and unloads leave every recording whole,
\* and neither send it early nor keep it back.
RecordingsAreKept == RecordingsAreWhole /\ HeldForAReason
================================================================================
