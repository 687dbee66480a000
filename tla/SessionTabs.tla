------------------------------ MODULE SessionTabs ------------------------------
(* The session of a visitor with several tabs: SessionIdManager of              *)
(* browser/src/sessionid.ts in each tab, over the storage the tabs share through *)
(* browser/src/posthog-persistence.ts.  Each tab has a copy of the storage      *)
(* (props), reads its own copy and writes all of it, at once or debounced.      *)
(*                                                                              *)
(* Time is counted in ticks, each longer than the debounce of a save; the zero  *)
(* time and id stand for null.  Ids are numbered as they are generated.          *)
EXTENDS Integers, TLC

CONSTANTS
    Tabs,
    IdleTimeout,   \* sessionTimeoutMs
    MaxLength,     \* SESSION_LENGTH_LIMIT_MILLISECONDS
    Granularity,   \* ACTIVITY_TIMESTAMP_PERSIST_GRANULARITY_MS
    Debounced,     \* persistence_save_debounce_ms > 0
    MaxTime,       \* bound: the clock
    MaxSessions    \* bound: ids generated

ASSUME TabConstants ==
    /\ Tabs # {}
    /\ IdleTimeout \in Nat /\ MaxLength \in Nat /\ Granularity \in Nat
    /\ 0 < Granularity /\ Granularity < IdleTimeout /\ IdleTimeout < MaxLength
    /\ Debounced \in BOOLEAN
    /\ MaxTime \in Nat \ {0} /\ MaxSessions \in Nat

VARIABLES
    now,
    sessions,     \* ids generated so far
    storage,      \* the SESSION_ID entry shared by the tabs
    props,        \* each tab's copy of it
    pending,      \* tabs with a debounced save under way
    memory,       \* _sessionActivityTimestamp, _sessionId, _sessionStartTimestamp
    persisted,    \* _lastPersistedActivityTimestamp
    idleAt,       \* when _enforceIdleTimeout may fire, or zero
    open,         \* tabs that are open
    \* History:
    heard,        \* the session each tab's consumers were last told to be new
    lost          \* a save has replaced an entry that it should have kept

vars == <<now, sessions, storage, props, pending, memory, persisted,
          idleAt, open, heard, lost>>

-------------------------------------------------------------------------------
Times == 0..MaxTime
Ids == 0..MaxSessions
Entries == [activity : Times, id : Ids, start : Times]
NoEntry == [activity |-> 0, id |-> 0, start |-> 0]

TypeOK ==
    /\ now \in 1..MaxTime /\ sessions \in Ids
    /\ storage \in Entries /\ props \in [Tabs -> Entries]
    /\ pending \subseteq Tabs
    /\ memory \in [Tabs -> Entries]
    /\ persisted \in [Tabs -> Times]
    /\ idleAt \in [Tabs -> 0..(MaxTime + IdleTimeout + 1)]
    /\ open \subseteq Tabs
    /\ heard \in [Tabs -> Ids]
    /\ lost \in BOOLEAN

Init ==
    /\ now = 1 /\ sessions = 0
    /\ storage = NoEntry
    /\ props = [t \in Tabs |-> NoEntry]
    /\ pending = {}
    /\ memory = [t \in Tabs |-> NoEntry]
    /\ persisted = [t \in Tabs |-> 0]
    /\ idleAt = [t \in Tabs |-> 0]
    /\ open = {}
    /\ heard = [t \in Tabs |-> 0]
    /\ lost = FALSE

-------------------------------------------------------------------------------
Later(a, b) == IF a >= b THEN a ELSE b
Apart(a, b) == IF a >= b THEN a - b ELSE b - a

\* save, with p as the entry in the tab's props.  A save follows a change, so the
\* fingerprint of what was written before never stops it.
Save(t, p) ==
    IF Debounced
    THEN pending' = pending \cup {t} /\ UNCHANGED storage
    ELSE storage' = p /\ UNCHANGED pending

NoSave == UNCHANGED <<storage, pending>>

\* _sessionHasBeenIdleTooLong
IdleTooLong(since) == since > 0 /\ Apart(now, since) > IdleTimeout

\* sessionPastMaximumLength
\* Faulty: a session may go on for ever.
NeverPastMaximum(start) == FALSE
PastMaximum(start) == start > 0 /\ Apart(now, start) > MaxLength

\* _refreshSessionIdFromStorage: what props hold then.
\* Faulty: the storage is not read.
RefreshNothing(t) == props[t]
Refreshed(t) == storage

\* Faulty: what other tabs have saved is not looked at.
FreshestInMemory(t, p) == memory[t].activity

\* _freshestActivityTimestamp, with p as the entry in the tab's props.
Freshest(t, p) == Later(p.activity, memory[t].activity)

\* _isActivityChangeBelowGranularity
BelowGranularity(t, activity) ==
    /\ persisted[t] # 0 /\ activity # 0
    /\ Apart(activity, persisted[t]) < Granularity

\* _setSessionId, with p as the entry in the tab's props before it.
SetSession(t, p, entry) ==
    LET same == entry.id = memory[t].id /\ entry.start = memory[t].start
        quiet == same /\ (\/ entry.activity = memory[t].activity
                          \/ BelowGranularity(t, entry.activity))
    IN  /\ memory' = [memory EXCEPT ![t] = entry]
        /\ props' = [props EXCEPT ![t] = IF quiet THEN p ELSE entry]
        /\ IF quiet
           THEN NoSave /\ UNCHANGED persisted
           ELSE Save(t, entry) /\ persisted' = [persisted EXCEPT ![t] = entry.activity]

\* Faulty: a timer that is too long.
ResetIdleTimerTwice(t) == idleAt' = [idleAt EXCEPT ![t] = now + 2 * IdleTimeout]

\* _resetIdleTimer: 1.1 times the timeout, to the next tick.
ResetIdleTimer(t) == idleAt' = [idleAt EXCEPT ![t] = now + IdleTimeout + 1]

\* The entry e is of a session that has not been idle for too long.
Live(e) == e.id # 0 /\ now - e.activity <= IdleTimeout

\* The step puts another session, or an older activity, in the place of a live
\* one in the storage, or in that of an entry which is yet to be saved.
Loses ==
    \/ /\ Live(storage)
       /\ storage'.id # storage.id \/ storage'.activity < storage.activity
    \/ \E t \in pending :
         memory[t].id # 0 /\ memory'[t] = memory[t] /\ props'[t].id # props[t].id

Track == lost' = (lost \/ Loses)

-------------------------------------------------------------------------------
\* A page is loaded in tab t: persistence.load, a first save, and the constructor.
Open(t) ==
    /\ t \notin open /\ open' = open \cup {t}
    /\ props' = [props EXCEPT ![t] = storage]
    /\ Save(t, storage)
    /\ ResetIdleTimer(t)
    /\ UNCHANGED <<now, sessions, memory, persisted, heard>>
    /\ Track

\* checkAndGetSessionAndWindowId: the entry the tab reads, refreshed from storage
\* if the session looks idle, and what becomes of it.  (Consumers are also called when
\* only the window is new, as in the first call of most pages: that says of no change.)
Check(t, readOnly) ==
    LET cached == props[t]
        seen == Freshest(t, cached)
        past == PastMaximum(cached.start)
        looksIdle == cached.id # 0 /\ ~readOnly /\ IdleTooLong(seen)
        read == IF looksIdle THEN Refreshed(t) ELSE cached
        idle == looksIdle /\ IdleTooLong(Freshest(t, read))
        new == cached.id = 0 \/ idle \/ past
        id == IF new THEN sessions + 1 ELSE read.id
        changed == new \/ id # cached.id
    IN  /\ sessions' = IF new THEN sessions + 1 ELSE sessions
        /\ SetSession(t, read,
              [activity |-> IF seen > 0 /\ readOnly /\ ~past THEN seen ELSE now,
               id |-> id,
               start |-> IF new \/ read.start = 0 THEN now ELSE read.start])
        /\ heard' = IF changed THEN [heard EXCEPT ![t] = id] ELSE heard
        /\ IF readOnly THEN UNCHANGED idleAt ELSE ResetIdleTimer(t)

\* An event is captured in tab t now, or its session is read.
Event(t, readOnly) ==
    /\ t \in open
    /\ Check(t, readOnly) /\ sessions' \in Ids
    /\ UNCHANGED <<now, open>>
    /\ Track

\* resetSessionId: called by posthog.reset(), and by the idle timer of a tab that
\* has not been reset since its last event, so that it always changes the entry.
ResetSessionId(t) ==
    /\ idleAt' = [idleAt EXCEPT ![t] = 0]
    /\ memory' = [memory EXCEPT ![t] = NoEntry]
    /\ persisted' = [persisted EXCEPT ![t] = 0]
    /\ props' = [props EXCEPT ![t] = NoEntry]

\* posthog.reset(): the storage is cleared, and what is kept is saved again.
ResetCall(t) ==
    /\ t \in open
    /\ storage' = NoEntry
    /\ pending' = IF Debounced THEN pending \cup {t} ELSE pending
    /\ ResetSessionId(t)
    /\ UNCHANGED <<now, sessions, open, heard>>
    /\ Track

\* The idle timer: it resets a session that is idle in every tab.
IdleTimerFires(t) ==
    /\ t \in open /\ idleAt[t] # 0 /\ now >= idleAt[t]
    /\ IF IdleTooLong(Freshest(t, Refreshed(t)))
       THEN ResetSessionId(t) /\ Save(t, NoEntry)
       ELSE /\ props' = [props EXCEPT ![t] = Refreshed(t)]
            /\ ResetIdleTimer(t)
            /\ UNCHANGED <<memory, persisted>> /\ NoSave
    /\ UNCHANGED <<now, sessions, open, heard>>
    /\ Track

\* Another property changes, and the whole of props is saved.
SaveOther(t) ==
    /\ t \in open
    /\ Save(t, props[t])
    /\ UNCHANGED <<now, sessions, props, memory, persisted, idleAt, open, heard>>
    /\ Track

\* The timer of a debounced save.
SaveFires(t) ==
    /\ t \in pending /\ pending' = pending \ {t}
    /\ storage' = props[t]
    /\ UNCHANGED <<now, sessions, props, memory, persisted, idleAt, open, heard>>
    /\ Track

\* The tab is closed or reloaded.  On beforeunload persistence.flush writes what
\* is pending, and _flushPendingActivityTimestamp the activity that the throttle
\* held back unless the stored session is another; a tab that is killed does neither.
Close(t) ==
    /\ t \in open /\ open' = open \ {t}
    /\ LET flushed == IF t \in pending THEN props[t] ELSE storage
           held == /\ memory[t].activity \notin {0, persisted[t]}
                   /\ flushed.id = memory[t].id /\ flushed.start = memory[t].start
       IN  storage' \in {storage, IF held THEN memory[t] ELSE flushed}
    /\ pending' = pending \ {t}
    /\ props' = [props EXCEPT ![t] = NoEntry]
    /\ memory' = [memory EXCEPT ![t] = NoEntry]
    /\ persisted' = [persisted EXCEPT ![t] = 0]
    /\ idleAt' = [idleAt EXCEPT ![t] = 0]
    /\ heard' = [heard EXCEPT ![t] = 0]
    /\ UNCHANGED <<now, sessions>>
    /\ Track

\* The clock ticks; debounced saves are done by then.
Tick ==
    /\ now < MaxTime /\ now' = now + 1
    /\ pending = {}
    /\ UNCHANGED <<sessions, storage, props, pending, memory, persisted,
                   idleAt, open, heard>>
    /\ Track

Next ==
    \/ \E t \in Tabs :
         \/ Open(t) \/ Close(t) \/ ResetCall(t) \/ IdleTimerFires(t)
         \/ SaveOther(t) \/ SaveFires(t)
         \/ \E readOnly \in BOOLEAN : Event(t, readOnly)
    \/ Tick

Spec == Init /\ [][Next]_vars

-------------------------------------------------------------------------------
\* What the storage and the open tabs hold of session i.
Views(i) ==
    {e \in {storage} \cup {memory[t] : t \in open} \cup {props[t] : t \in open} : e.id = i}

\* A session ends at the maximum length, by the start that storage and all tabs give
\* it: no event of a tab goes on with the session the tab had after that.  (One that
\* looks in the storage may take up a session up to one idle timeout longer: the
\* length is that of the session it had before it looked.)
SessionsAreBounded ==
    [][\A t \in Tabs :
         LET i == memory'[t].id IN
         (memory'[t] # memory[t] /\ i # 0)
            => /\ i = props[t].id => now - memory'[t].start <= MaxLength
               /\ \A e \in Views(i) : e.start = memory'[t].start]_vars

\* Tabs in use at the same time share one session: two that were active within
\* the timeout, less what the throttle may hide of it, have the same id.  Not so
\* once a live session has been overwritten, and until saves are done.
OneSession ==
    (~lost /\ pending = {}) =>
        \A t, u \in open :
            (/\ memory[t].id # 0 /\ now - memory[t].activity <= IdleTimeout - Granularity
             /\ memory[u].id # 0 /\ now - memory[u].activity <= IdleTimeout - Granularity)
                => memory[t].id = memory[u].id

\* A session that has been idle for longer than the timeout in every tab has ended:
\* an event extends a session only if it was live in some view of it.
IdleSessionsEnd ==
    [][\A t \in Tabs :
         LET i == memory'[t].id IN
         (/\ ~lost /\ memory'[t] # memory[t]
          /\ i \in 1..sessions /\ memory'[t].activity = now)
            => \E e \in Views(i) : Live(e)]_vars

\* A tab does not leave a session, of which it has an entry and which is not past
\* the maximum, while a tab that shares it has been active and has saved that.
NoSpuriousRotation ==
    [][\A t \in Tabs :
         LET i == memory[t].id IN
         (/\ ~lost /\ i # 0 /\ props[t].id # 0 /\ now - props[t].start <= MaxLength
          /\ memory'[t].id > sessions)
            => \A u \in open \ pending :
                 memory[u].id = i => now - memory[u].activity > IdleTimeout - Granularity]_vars

\* "If we adopted, we must notify" (sessionid.ts:427): a tab whose session id
\* changes at a call tells the consumers of the id, whether it rotated the session,
\* took over another tab's or was reset.  Not so when the idle timer has put the
\* other id in the tab's props before, which the call then does not tell from the
\* one it had, or when the id is lost to a reset of another tab.
ChangesAreHeard ==
    [][\A t \in Tabs :
         LET i == memory'[t].id IN
         (/\ i \notin {0, memory[t].id} /\ props[t].id = memory[t].id)
            => heard'[t] = i]_vars

\* Sessions change for a reason, and not behind the back of their consumers.
SessionsChangeOpenly == NoSpuriousRotation /\ ChangesAreHeard

\* A session ends in time.
SessionsEnd == SessionsAreBounded /\ IdleSessionsEnd

\* "If the sessionId or windowId is not set, it will generate a new one and store
\* it": no event has a null session id.  A tab without events of its own whose
\* entry seems idle, and finds none in the storage, keeps null.
EventsHaveSession == \A t \in open : memory[t].id = 0 => memory[t] = NoEntry

Symmetry == Permutations(Tabs)
================================================================================
