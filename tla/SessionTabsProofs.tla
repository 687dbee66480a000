--------------------------- MODULE SessionTabsProofs ----------------------------
(***************************************************************************)
(* Proofs about SessionTabs, for any number of tabs, timeouts, lengths and  *)
(* granularities, with debounced saves or without.                          *)
(***************************************************************************)
EXTENDS SessionTabs, TLAPS

--------------------------------------------------------------------------------
(* What the invariant says.                                                  *)

HeldEntries == {storage} \cup {props[t] : t \in Tabs} \cup {memory[t] : t \in Tabs}

\* No entry is from the future, and a session has been active and started.
EntriesDated ==
    \A e \in HeldEntries :
        /\ e.activity <= now /\ e.start <= now /\ e.id <= sessions
        /\ e.id # 0 => e.activity # 0 /\ e.start # 0

\* All that know a session agree when it started.
StartsAgree == \A e, f \in HeldEntries : e.id = f.id /\ e.id # 0 => e.start = f.start

\* What one tab keeps.  The throttle hides less than its granularity; a closed tab
\* holds nothing; and the idle timer runs longer than the activity that the tab knows
\* of, unless that came from a read, which leaves the timer alone and saves what it is
\* first to see.
TabKeeps(t) ==
    /\ persisted[t] <= memory[t].activity
    /\ memory[t].activity - persisted[t] < Granularity
    /\ memory[t].activity # 0 => persisted[t] # 0
    /\ t \notin open =>
         /\ memory[t] = NoEntry /\ props[t] = NoEntry /\ persisted[t] = 0 /\ idleAt[t] = 0
         /\ t \notin pending
    /\ ~Debounced => t \notin pending
    /\ idleAt[t] # 0 =>
         /\ \/ idleAt[t] > memory[t].activity + IdleTimeout
            \/ memory[t].id # 0 /\ memory[t].activity = persisted[t]
         /\ idleAt[t] > props[t].activity + IdleTimeout \/ props[t].activity <= persisted[t]

TabsInv == EntriesDated /\ StartsAgree /\ \A t \in Tabs : TabKeeps(t)

\* Entry e has the session of tab t, with the activity that t saved last; otherwise t
\* has been idle since it saved.
Covers(e, t) ==
    \/ e.id = memory[t].id /\ e.activity >= persisted[t]
    \/ now - persisted[t] > IdleTimeout

\* The storage has the session of entry e and is as recent; otherwise e is idle.
IsStored(e) ==
    e.id # 0 =>
        \/ storage.id = e.id /\ storage.activity >= e.activity
        \/ now - e.activity > IdleTimeout

\* The session in the props of tab t is known to nobody else.
OnlyIn(t) ==
    /\ storage.id # props[t].id
    /\ \A u \in Tabs \ {t} : props[u].id # props[t].id /\ memory[u].id # props[t].id

\* What a tab that has nothing to save may rely on, and what one that has will save.
TabShares(t) ==
    /\ memory[t].id # 0 => Covers(props[t], t)
    /\ memory[t].activity # 0 /\ props[t].id # memory[t].id
          => now - memory[t].activity > IdleTimeout
    /\ t \notin pending =>
          /\ memory[t].id # 0 => Covers(storage, t)
          /\ IsStored(props[t])
    /\ t \in pending /\ idleAt[t] # 0 /\ idleAt[t] <= now => IsStored(props[t]) \/ OnlyIn(t)

SharedInv == ~lost => \A t \in Tabs : TabShares(t)

--------------------------------------------------------------------------------
(* Constants and entries.                                                    *)

LEMMA TabNumbers ==
    /\ IdleTimeout \in Nat /\ MaxLength \in Nat /\ Granularity \in Nat
    /\ 1 <= Granularity /\ Granularity < IdleTimeout /\ IdleTimeout < MaxLength
    /\ Debounced \in BOOLEAN /\ MaxTime \in Nat /\ MaxTime >= 1 /\ MaxSessions \in Nat
BY TabConstants

LEMMA EntryFields ==
    /\ NoEntry \in Entries
    /\ \A e \in Entries : /\ e.activity \in Nat /\ e.id \in Nat /\ e.start \in Nat
                          /\ e.activity \in Times /\ e.id \in Ids /\ e.start \in Times
    /\ NoEntry.activity = 0 /\ NoEntry.id = 0 /\ NoEntry.start = 0
BY TabNumbers DEF Entries, NoEntry, Times, Ids

LEMMA TypedFields ==
    ASSUME TypeOK
    PROVE  /\ now \in Nat /\ now \in Times /\ now >= 1 /\ sessions \in Nat /\ sessions \in Ids
           /\ storage \in Entries /\ NoEntry \in Entries
           /\ \A t \in Tabs :
                /\ props[t] \in Entries /\ memory[t] \in Entries
                /\ persisted[t] \in Nat /\ persisted[t] \in Times
                /\ idleAt[t] \in Nat
           /\ HeldEntries \subseteq Entries
<1>1. now \in 1..MaxTime /\ sessions \in Ids /\ storage \in Entries /\ props \in [Tabs -> Entries]
        /\ memory \in [Tabs -> Entries] /\ persisted \in [Tabs -> Times]
        /\ idleAt \in [Tabs -> 0..(MaxTime + IdleTimeout + 1)]
    BY DEF TypeOK
<1>2. now \in Nat /\ now \in Times /\ now >= 1 /\ sessions \in Nat
    BY <1>1, TabNumbers DEF Times, Ids
<1>3. NoEntry \in Entries
    BY EntryFields
<1>4. \A t \in Tabs : persisted[t] \in Nat /\ persisted[t] \in Times /\ idleAt[t] \in Nat
  <2>. SUFFICES ASSUME NEW t \in Tabs PROVE persisted[t] \in Nat /\ persisted[t] \in Times
                                            /\ idleAt[t] \in Nat
      OBVIOUS
  <2>1. persisted[t] \in Times /\ idleAt[t] \in 0..(MaxTime + IdleTimeout + 1)
      BY <1>1
  <2>. QED BY <2>1, TabNumbers DEF Times
<1>5. HeldEntries \subseteq Entries
    BY <1>1 DEF HeldEntries
<1>. QED BY <1>1, <1>2, <1>3, <1>4, <1>5

\* Whether a time is past, for times up to now.
LEMMA ApartNow ==
    ASSUME NEW n \in Nat, NEW a \in Nat, a <= n
    PROVE  Apart(n, a) = n - a
BY DEF Apart

--------------------------------------------------------------------------------
(* What an event does.                                                       *)

\* The entry a tab reads, its own or that of the storage, and the entry it sets.
EventSets(t, readOnly, read, entry, new) ==
    LET cached == props[t]
        seen == Freshest(t, cached)
        quiet == /\ entry.id = memory[t].id /\ entry.start = memory[t].start
                 /\ entry.activity = memory[t].activity \/ BelowGranularity(t, entry.activity)
    IN  /\ memory' = [memory EXCEPT ![t] = entry]
        /\ \/ /\ quiet /\ props' = [props EXCEPT ![t] = read]
              /\ UNCHANGED <<storage, pending, persisted>>
           \/ /\ ~quiet /\ props' = [props EXCEPT ![t] = entry]
              /\ Save(t, entry) /\ persisted' = [persisted EXCEPT ![t] = entry.activity]
        /\ \/ read = cached /\ (cached.id # 0 /\ ~readOnly => ~IdleTooLong(seen))
           \/ read = storage /\ ~readOnly /\ cached.id # 0 /\ IdleTooLong(seen)
        /\ new => /\ entry.id = sessions + 1 /\ sessions' = sessions + 1
                  /\ entry.start = now
        /\ ~new => /\ entry.id = read.id /\ sessions' = sessions
                   /\ entry.start = IF read.start = 0 THEN now ELSE read.start
                   /\ cached.id # 0 /\ ~PastMaximum(cached.start)
                   /\ readOnly \/ ~IdleTooLong(Freshest(t, read))
        /\ \/ entry.activity = now /\ (~readOnly \/ seen <= 0 \/ new)
           \/ entry.activity = seen /\ seen > 0 /\ readOnly
        /\ idleAt' = IF readOnly THEN idleAt
                     ELSE [idleAt EXCEPT ![t] = now + IdleTimeout + 1]
        /\ \/ heard' = [heard EXCEPT ![t] = entry.id]
           \/ ~new /\ entry.id = cached.id /\ UNCHANGED heard
        /\ new /\ ~PastMaximum(cached.start) /\ cached.id # 0 =>
              ~readOnly /\ IdleTooLong(seen) /\ IdleTooLong(Freshest(t, storage))

LEMMA FreshestIs ==
    ASSUME TypeOK, NEW t \in Tabs, NEW e \in Entries
    PROVE  /\ Freshest(t, e) \in Times /\ Freshest(t, e) \in Nat
           /\ Freshest(t, e) >= e.activity /\ Freshest(t, e) >= memory[t].activity
           /\ Freshest(t, e) = e.activity \/ Freshest(t, e) = memory[t].activity
BY TypedFields, EntryFields DEF Freshest, Later

LEMMA EventMoves ==
    ASSUME TypeOK, NEW t \in Tabs, NEW readOnly \in BOOLEAN, Event(t, readOnly)
    PROVE  /\ t \in open /\ UNCHANGED <<now, open>> /\ Track /\ sessions' \in Ids
           /\ \E read, entry \in Entries, new \in BOOLEAN :
                 EventSets(t, readOnly, read, entry, new)
<1>. DEFINE cached == props[t]
            seen == Freshest(t, cached)
            past == PastMaximum(cached.start)
            looksIdle == cached.id # 0 /\ ~readOnly /\ IdleTooLong(seen)
            read == IF looksIdle THEN Refreshed(t) ELSE cached
            idle == looksIdle /\ IdleTooLong(Freshest(t, read))
            new == cached.id = 0 \/ idle \/ past
            id == IF new THEN sessions + 1 ELSE read.id
            entry == [activity |-> IF seen > 0 /\ readOnly /\ ~past THEN seen ELSE now,
                      id |-> id,
                      start |-> IF new \/ read.start = 0 THEN now ELSE read.start]
<1>1. t \in open /\ UNCHANGED <<now, open>> /\ Track /\ sessions' \in Ids /\ Check(t, readOnly)
    BY DEF Event
<1>2. cached \in Entries /\ storage \in Entries /\ now \in Times /\ seen \in Times
    BY TypedFields, FreshestIs
<1>3. read \in Entries /\ (read = cached \/ read = storage) /\ new \in BOOLEAN
    BY <1>2 DEF Refreshed, PastMaximum
<1>4. /\ sessions' = IF new THEN sessions + 1 ELSE sessions
      /\ SetSession(t, read, entry)
      /\ \/ heard' = [heard EXCEPT ![t] = id]
         \/ ~new /\ id = cached.id /\ UNCHANGED heard
      /\ IF readOnly THEN UNCHANGED idleAt ELSE ResetIdleTimer(t)
    BY <1>1 DEF Check
<1>5. id \in Ids
    BY <1>1, <1>3, <1>4, EntryFields
<1>6. entry \in Entries
    BY <1>2, <1>3, <1>5, EntryFields DEF Entries
<1>7. EventSets(t, readOnly, read, entry, new)
  <2>1. /\ entry.activity = (IF seen > 0 /\ readOnly /\ ~past THEN seen ELSE now)
        /\ entry.id = id /\ entry.start = IF new \/ read.start = 0 THEN now ELSE read.start
      OBVIOUS
  <2>2. \/ read = cached /\ (cached.id # 0 /\ ~readOnly => ~IdleTooLong(seen))
        \/ read = storage /\ ~readOnly /\ cached.id # 0 /\ IdleTooLong(seen)
    <3>1. CASE looksIdle
        BY <3>1 DEF Refreshed
    <3>2. CASE ~looksIdle
        BY <3>2
    <3>. QED BY <3>1, <3>2
  <2>3. idleAt' = IF readOnly THEN idleAt ELSE [idleAt EXCEPT ![t] = now + IdleTimeout + 1]
      BY <1>4 DEF ResetIdleTimer
  <2>4. /\ ~new => /\ cached.id # 0 /\ ~past
                   /\ readOnly \/ ~IdleTooLong(Freshest(t, read))
        /\ new /\ ~past /\ cached.id # 0 =>
              ~readOnly /\ IdleTooLong(seen) /\ IdleTooLong(Freshest(t, storage))
      BY DEF Refreshed
  <2>5. \/ entry.activity = now /\ (~readOnly \/ seen <= 0 \/ new)
        \/ entry.activity = seen /\ seen > 0 /\ readOnly
      BY <1>2, <2>1, FreshestIs, TypedFields
  <2>. DEFINE same == entry.id = memory[t].id /\ entry.start = memory[t].start
              quiet == same /\ (\/ entry.activity = memory[t].activity
                                \/ BelowGranularity(t, entry.activity))
  <2>6. /\ memory' = [memory EXCEPT ![t] = entry]
        /\ props' = [props EXCEPT ![t] = IF quiet THEN read ELSE entry]
        /\ IF quiet
           THEN NoSave /\ UNCHANGED persisted
           ELSE Save(t, entry) /\ persisted' = [persisted EXCEPT ![t] = entry.activity]
      BY <1>4 DEF SetSession
  <2>. HIDE DEF entry, read, new, seen, id
  <2>7. \/ /\ quiet /\ props' = [props EXCEPT ![t] = read]
           /\ UNCHANGED <<storage, pending, persisted>>
        \/ /\ ~quiet /\ props' = [props EXCEPT ![t] = entry]
           /\ Save(t, entry) /\ persisted' = [persisted EXCEPT ![t] = entry.activity]
      BY <2>6 DEF NoSave
  <2>8. \/ heard' = [heard EXCEPT ![t] = entry.id]
        \/ ~new /\ entry.id = cached.id /\ UNCHANGED heard
      BY <1>4, <2>1
  <2>9. /\ new => entry.id = sessions + 1 /\ sessions' = sessions + 1 /\ entry.start = now
        /\ ~new => /\ entry.id = read.id /\ sessions' = sessions
                   /\ entry.start = IF read.start = 0 THEN now ELSE read.start
      BY <1>4, <2>1 DEF id
  <2>. QED BY <2>2, <2>3, <2>4, <2>5, <2>6, <2>7, <2>8, <2>9 DEF EventSets, seen
<1>. QED BY <1>1, <1>3, <1>6, <1>7


--------------------------------------------------------------------------------
(* Types.                                                                    *)

LEMMA SaveMoves ==
    ASSUME NEW t, NEW p, Save(t, p)
    PROVE  \/ Debounced /\ pending' = pending \cup {t} /\ storage' = storage
           \/ ~Debounced /\ storage' = p /\ pending' = pending
BY DEF Save

\* What a reset and a timer leave: one tab's fields change, within their types.
LEMMA TabFieldsTyped ==
    ASSUME TypeOK, NEW t \in Tabs, NEW e \in Entries, NEW n \in Times,
           NEW d \in 0..(MaxTime + IdleTimeout + 1)
    PROVE  /\ [props EXCEPT ![t] = e] \in [Tabs -> Entries]
           /\ [memory EXCEPT ![t] = e] \in [Tabs -> Entries]
           /\ [persisted EXCEPT ![t] = n] \in [Tabs -> Times]
           /\ [idleAt EXCEPT ![t] = d] \in [Tabs -> 0..(MaxTime + IdleTimeout + 1)]
BY DEF TypeOK

LEMMA SmallNumbers ==
    ASSUME TypeOK
    PROVE  /\ 0 \in Times /\ 0 \in Ids /\ 0 \in 0..(MaxTime + IdleTimeout + 1)
           /\ now + IdleTimeout + 1 \in 0..(MaxTime + IdleTimeout + 1)
<1>1. now \in 1..MaxTime
    BY DEF TypeOK
<1>. QED BY <1>1, TabNumbers DEF Times, Ids

LEMMA SaveTyped ==
    ASSUME TypeOK, NEW t \in Tabs, NEW p \in Entries, Save(t, p)
    PROVE  storage' \in Entries /\ pending' \subseteq Tabs
BY SaveMoves DEF TypeOK

LEMMA TrackTyped ==
    ASSUME TypeOK, Track
    PROVE  lost' \in BOOLEAN
BY DEF TypeOK, Track

LEMMA EventTyped ==
    ASSUME TypeOK, NEW t \in Tabs, NEW readOnly \in BOOLEAN, Event(t, readOnly)
    PROVE  TypeOK'
<1>1. /\ t \in open /\ UNCHANGED <<now, open>> /\ lost' \in BOOLEAN /\ sessions' \in Ids
      /\ \E read, entry \in Entries, new \in BOOLEAN : EventSets(t, readOnly, read, entry, new)
    BY EventMoves, TrackTyped
<1>2. PICK read \in Entries, entry \in Entries, new \in BOOLEAN :
          EventSets(t, readOnly, read, entry, new)
    BY <1>1
<1>3. entry.activity \in Times /\ entry.id \in Ids
    BY EntryFields
<1>4. memory' \in [Tabs -> Entries] /\ props' \in [Tabs -> Entries] /\ persisted' \in [Tabs -> Times]
  <2>1. memory' = [memory EXCEPT ![t] = entry] /\ persisted \in [Tabs -> Times]
      BY <1>2 DEF EventSets, TypeOK
  <2>2. \/ props' = [props EXCEPT ![t] = read] /\ UNCHANGED persisted
        \/ /\ props' = [props EXCEPT ![t] = entry]
           /\ persisted' = [persisted EXCEPT ![t] = entry.activity]
      BY <1>2 DEF EventSets
  <2>3. /\ [memory EXCEPT ![t] = entry] \in [Tabs -> Entries]
        /\ [props EXCEPT ![t] = entry] \in [Tabs -> Entries]
        /\ [props EXCEPT ![t] = read] \in [Tabs -> Entries]
        /\ [persisted EXCEPT ![t] = entry.activity] \in [Tabs -> Times]
      BY <1>3, SmallNumbers, TabFieldsTyped
  <2>. QED BY <2>1, <2>2, <2>3
<1>5. storage' \in Entries /\ pending' \subseteq Tabs
    BY <1>2, SaveTyped DEF EventSets, TypeOK
<1>6. idleAt' \in [Tabs -> 0..(MaxTime + IdleTimeout + 1)]
    BY <1>2, SmallNumbers, TabFieldsTyped DEF EventSets, TypeOK
<1>7. heard' \in [Tabs -> Ids]
    BY <1>2, <1>3 DEF EventSets, TypeOK
<1>. QED BY <1>1, <1>4, <1>5, <1>6, <1>7 DEF TypeOK

LEMMA TypeInit == Init => TypeOK
<1>. SUFFICES ASSUME Init PROVE TypeOK
    OBVIOUS
<1>1. now \in 1..MaxTime
    BY TabNumbers DEF Init
<1>2. /\ sessions \in Ids /\ heard \in [Tabs -> Ids] /\ persisted \in [Tabs -> Times]
      /\ idleAt \in [Tabs -> 0..(MaxTime + IdleTimeout + 1)]
    BY TabNumbers DEF Init, Times, Ids
<1>3. storage \in Entries /\ props \in [Tabs -> Entries] /\ memory \in [Tabs -> Entries]
    BY EntryFields DEF Init
<1>. QED BY <1>1, <1>2, <1>3 DEF Init, TypeOK

LEMMA TypeStep == TypeOK /\ [Next]_vars => TypeOK'
<1>. SUFFICES ASSUME TypeOK, [Next]_vars PROVE TypeOK'
    OBVIOUS
<1>1. CASE UNCHANGED vars
    BY <1>1 DEF vars, TypeOK
<1>2. ASSUME NEW t \in Tabs, Open(t) PROVE TypeOK'
  <2>1. storage' \in Entries /\ pending' \subseteq Tabs
      BY <1>2, SaveTyped DEF Open, TypeOK
  <2>2. props' \in [Tabs -> Entries] /\ idleAt' \in [Tabs -> 0..(MaxTime + IdleTimeout + 1)]
      BY <1>2, TabFieldsTyped, SmallNumbers, TypedFields DEF Open, ResetIdleTimer
  <2>. QED BY <1>2, <2>1, <2>2, TrackTyped DEF Open, TypeOK
<1>3. ASSUME NEW t \in Tabs, Close(t) PROVE TypeOK'
  <2>1. storage' \in Entries
      BY <1>3, TypedFields DEF Close
  <2>2. /\ props' \in [Tabs -> Entries] /\ memory' \in [Tabs -> Entries]
        /\ persisted' \in [Tabs -> Times]
        /\ idleAt' \in [Tabs -> 0..(MaxTime + IdleTimeout + 1)] /\ heard' \in [Tabs -> Ids]
      BY <1>3, TabFieldsTyped, SmallNumbers, TypedFields DEF Close, TypeOK
  <2>. QED BY <1>3, <2>1, <2>2, TrackTyped DEF Close, TypeOK
<1>4. ASSUME NEW t \in Tabs, ResetCall(t) PROVE TypeOK'
  <2>1. storage' \in Entries
      BY <1>4, TypedFields DEF ResetCall
  <2>2. /\ props' \in [Tabs -> Entries] /\ memory' \in [Tabs -> Entries]
        /\ persisted' \in [Tabs -> Times]
        /\ idleAt' \in [Tabs -> 0..(MaxTime + IdleTimeout + 1)]
      BY <1>4, TabFieldsTyped, SmallNumbers, TypedFields DEF ResetCall, ResetSessionId
  <2>. QED BY <1>4, <2>1, <2>2, TrackTyped DEF ResetCall, TypeOK
<1>5. ASSUME NEW t \in Tabs, IdleTimerFires(t) PROVE TypeOK'
  <2>1. CASE ResetSessionId(t) /\ Save(t, NoEntry)
    <3>1. storage' \in Entries /\ pending' \subseteq Tabs
        BY <2>1, SaveTyped, TypedFields
    <3>2. /\ props' \in [Tabs -> Entries] /\ memory' \in [Tabs -> Entries]
          /\ persisted' \in [Tabs -> Times]
          /\ idleAt' \in [Tabs -> 0..(MaxTime + IdleTimeout + 1)]
        BY <2>1, TabFieldsTyped, SmallNumbers, TypedFields DEF ResetSessionId
    <3>. QED BY <1>5, <3>1, <3>2, TrackTyped DEF IdleTimerFires, TypeOK
  <2>2. CASE /\ props' = [props EXCEPT ![t] = storage] /\ ResetIdleTimer(t)
             /\ UNCHANGED <<memory, persisted>> /\ NoSave
    <3>1. /\ props' \in [Tabs -> Entries]
          /\ idleAt' \in [Tabs -> 0..(MaxTime + IdleTimeout + 1)]
        BY <2>2, TabFieldsTyped, SmallNumbers, TypedFields DEF ResetIdleTimer
    <3>. QED BY <1>5, <2>2, <3>1, TrackTyped DEF IdleTimerFires, NoSave, TypeOK
  <2>. QED BY <1>5, <2>1, <2>2 DEF IdleTimerFires, Refreshed
<1>6. ASSUME NEW t \in Tabs, SaveOther(t) PROVE TypeOK'
  <2>1. storage' \in Entries /\ pending' \subseteq Tabs
      BY <1>6, SaveTyped, TypedFields DEF SaveOther
  <2>. QED BY <1>6, <2>1, TrackTyped DEF SaveOther, TypeOK
<1>7. ASSUME NEW t \in Tabs, SaveFires(t) PROVE TypeOK'
    BY <1>7, TypedFields, TrackTyped DEF SaveFires, TypeOK
<1>8. ASSUME NEW t \in Tabs, NEW readOnly \in BOOLEAN, Event(t, readOnly) PROVE TypeOK'
    BY <1>8, EventTyped
<1>9. CASE Tick
  <2>1. now' \in 1..MaxTime
      BY <1>9, TypedFields, TabNumbers DEF Tick, TypeOK
  <2>. QED BY <1>9, <2>1, TrackTyped DEF Tick, TypeOK
<1>. QED BY <1>1, <1>2, <1>3, <1>4, <1>5, <1>6, <1>7, <1>8, <1>9 DEF Next

\* TypeOK of SessionTabs: clocks, entries, timers and ids stay within their types in
\* every tab.
THEOREM TypeCorrect == Spec => []TypeOK
BY TypeInit, TypeStep, PTL DEF Spec


--------------------------------------------------------------------------------
(* What each tab keeps.                                                      *)

\* The steps of one tab.
TabStep(t) ==
    \/ Open(t) \/ Close(t) \/ ResetCall(t) \/ IdleTimerFires(t) \/ SaveOther(t) \/ SaveFires(t)
    \/ \E readOnly \in BOOLEAN : Event(t, readOnly)

\* The other tabs are as they were.
OthersSame(t) ==
    \A u \in Tabs \ {t} :
        /\ memory'[u] = memory[u] /\ props'[u] = props[u] /\ persisted'[u] = persisted[u]
        /\ idleAt'[u] = idleAt[u]
        /\ u \in pending' <=> u \in pending
        /\ u \in open' <=> u \in open

LEMMA SaveIsOfOne ==
    ASSUME NEW t, NEW p, Save(t, p), NEW u, u # t
    PROVE  u \in pending' <=> u \in pending
BY DEF Save

LEMMA StepIsOfOneTab ==
    ASSUME TypeOK, NEW t \in Tabs, TabStep(t)
    PROVE  OthersSame(t) /\ now' = now /\ Track
<1>1. CASE Open(t)
    BY <1>1, SaveIsOfOne DEF Open, ResetIdleTimer, OthersSame, TypeOK
<1>2. CASE Close(t)
    BY <1>2 DEF Close, OthersSame, TypeOK
<1>3. CASE ResetCall(t)
    BY <1>3 DEF ResetCall, ResetSessionId, OthersSame, TypeOK
<1>4. CASE IdleTimerFires(t)
  <2>1. /\ now' = now /\ Track /\ open' = open
        /\ \/ ResetSessionId(t) /\ Save(t, NoEntry)
           \/ /\ props' = [props EXCEPT ![t] = Refreshed(t)] /\ ResetIdleTimer(t)
              /\ UNCHANGED <<memory, persisted>> /\ NoSave
      BY <1>4 DEF IdleTimerFires
  <2>. QED BY <2>1, SaveIsOfOne DEF ResetSessionId, ResetIdleTimer, NoSave, OthersSame, TypeOK
<1>5. CASE SaveOther(t)
    BY <1>5, SaveIsOfOne DEF SaveOther, OthersSame
<1>6. CASE SaveFires(t)
    BY <1>6 DEF SaveFires, OthersSame
<1>7. ASSUME NEW readOnly \in BOOLEAN, Event(t, readOnly)
      PROVE  OthersSame(t) /\ now' = now /\ Track
  <2>1. UNCHANGED <<now, open>> /\ Track
      BY <1>7, EventMoves
  <2>2. PICK read \in Entries, entry \in Entries, new \in BOOLEAN :
            EventSets(t, readOnly, read, entry, new)
      BY <1>7, EventMoves
  <2>3. \A u \in Tabs \ {t} : /\ memory'[u] = memory[u] /\ props'[u] = props[u]
                              /\ persisted'[u] = persisted[u] /\ idleAt'[u] = idleAt[u]
      BY <2>2 DEF EventSets, TypeOK
  <2>4. \A u \in Tabs \ {t} : u \in pending' <=> u \in pending
      BY <2>2, SaveIsOfOne DEF EventSets
  <2>. QED BY <2>1, <2>3, <2>4 DEF OthersSame
<1>. QED BY <1>1, <1>2, <1>3, <1>4, <1>5, <1>6, <1>7 DEF TabStep

\* Entries that were held before, with at most one new entry e, which is dated and
\* agrees with the others.
LEMMA EntriesKept ==
    ASSUME TypeOK, EntriesDated, StartsAgree, NEW e \in Entries,
           HeldEntries' \subseteq HeldEntries \cup {NoEntry, e}, now' \in Nat, sessions' \in Nat,
           now <= now', sessions <= sessions',
           e.activity <= now' /\ e.start <= now' /\ e.id <= sessions',
           e.id # 0 => e.activity # 0 /\ e.start # 0,
           \A f \in HeldEntries : f.id = e.id /\ e.id # 0 => f.start = e.start
    PROVE  EntriesDated' /\ StartsAgree'
<1>1. /\ now \in Nat /\ sessions \in Nat /\ HeldEntries \subseteq Entries
      /\ NoEntry.activity = 0 /\ NoEntry.id = 0 /\ NoEntry.start = 0
      /\ \A f \in Entries : f.activity \in Nat /\ f.id \in Nat /\ f.start \in Nat
    BY TypedFields, EntryFields
<1>2. ASSUME NEW f \in HeldEntries'
      PROVE  /\ f.activity <= now' /\ f.start <= now' /\ f.id <= sessions'
             /\ f.id # 0 => f.activity # 0 /\ f.start # 0
             /\ f.id # 0 => f \in HeldEntries \/ f = e
  <2>1. CASE f \in HeldEntries
    <3>1. /\ f.activity <= now /\ f.start <= now /\ f.id <= sessions
          /\ f.id # 0 => f.activity # 0 /\ f.start # 0
        BY <2>1 DEF EntriesDated
    <3>2. f.activity \in Nat /\ f.start \in Nat /\ f.id \in Nat
        BY <1>1, <2>1
    <3>. QED BY <1>1, <2>1, <3>1, <3>2
  <2>2. CASE f = NoEntry
      BY <1>1, <2>2
  <2>3. CASE f = e
      BY <2>3
  <2>. QED BY <1>2, <2>1, <2>2, <2>3
<1>3. EntriesDated'
    BY <1>2 DEF EntriesDated
<1>4. StartsAgree'
    BY <1>2 DEF StartsAgree
<1>. QED BY <1>3, <1>4

\* Steps without a new session keep what was held, or clear it.
LEMMA EntriesOfOneTab ==
    ASSUME TypeOK, NEW t \in Tabs, OthersSame(t), NEW e,
           memory'[t] \in HeldEntries \cup {NoEntry, e},
           props'[t] \in HeldEntries \cup {NoEntry, e},
           storage' \in HeldEntries \cup {NoEntry, e}
    PROVE  HeldEntries' \subseteq HeldEntries \cup {NoEntry, e}
BY DEF HeldEntries, OthersSame

LEMMA OthersKeep ==
    ASSUME NEW t \in Tabs, OthersSame(t), \A u \in Tabs : TabKeeps(u)
    PROVE  \A u \in Tabs \ {t} : TabKeeps(u)'
BY DEF OthersSame, TabKeeps

\* The fields of the tab of an event.
LEMMA EventFields ==
    ASSUME TypeOK, NEW t \in Tabs, NEW readOnly \in BOOLEAN, NEW read \in Entries,
           NEW entry \in Entries, NEW new \in BOOLEAN, EventSets(t, readOnly, read, entry, new)
    PROVE  /\ memory'[t] = entry
           /\ idleAt'[t] = IF readOnly THEN idleAt[t] ELSE now + IdleTimeout + 1
           /\ \/ /\ entry.id = memory[t].id /\ entry.start = memory[t].start
                 /\ entry.activity = memory[t].activity \/ BelowGranularity(t, entry.activity)
                 /\ props'[t] = read /\ persisted'[t] = persisted[t]
                 /\ pending' = pending /\ storage' = storage
              \/ /\ ~(/\ entry.id = memory[t].id /\ entry.start = memory[t].start
                      /\ entry.activity = memory[t].activity)
                 /\ props'[t] = entry /\ persisted'[t] = entry.activity
                 /\ \/ Debounced /\ t \in pending' /\ storage' = storage
                    \/ ~Debounced /\ pending' = pending /\ storage' = entry
<1>1. /\ memory' = [memory EXCEPT ![t] = entry]
      /\ idleAt' = IF readOnly THEN idleAt ELSE [idleAt EXCEPT ![t] = now + IdleTimeout + 1]
      /\ \/ /\ entry.id = memory[t].id /\ entry.start = memory[t].start
            /\ entry.activity = memory[t].activity \/ BelowGranularity(t, entry.activity)
            /\ props' = [props EXCEPT ![t] = read]
            /\ UNCHANGED <<storage, pending, persisted>>
         \/ /\ ~(/\ entry.id = memory[t].id /\ entry.start = memory[t].start
                 /\ entry.activity = memory[t].activity)
            /\ props' = [props EXCEPT ![t] = entry]
            /\ Save(t, entry) /\ persisted' = [persisted EXCEPT ![t] = entry.activity]
    BY DEF EventSets
<1>2. /\ DOMAIN memory = Tabs /\ DOMAIN idleAt = Tabs
      /\ DOMAIN props = Tabs /\ DOMAIN persisted = Tabs
    BY DEF TypeOK
<1>3. memory'[t] = entry /\ idleAt'[t] = IF readOnly THEN idleAt[t] ELSE now + IdleTimeout + 1
    BY <1>1, <1>2
<1>4. CASE Save(t, entry)
    BY <1>1, <1>2, <1>3, <1>4, SaveMoves
<1>5. CASE ~Save(t, entry)
    BY <1>1, <1>2, <1>3, <1>5
<1>. QED BY <1>4, <1>5

\* The entry that an event sets: it is dated, follows what the tab knew, and belongs to
\* a session unless the storage had none.
LEMMA EventEntry ==
    ASSUME TypeOK, TabsInv, NEW t \in Tabs, NEW readOnly \in BOOLEAN, NEW read \in Entries,
           NEW entry \in Entries, NEW new \in BOOLEAN, EventSets(t, readOnly, read, entry, new)
    PROVE  /\ 1 <= entry.activity /\ entry.activity <= now /\ memory[t].activity <= entry.activity
           /\ entry.activity = now \/ entry.activity = props[t].activity
                \/ entry.activity = memory[t].activity
           /\ entry.activity # now => readOnly
           /\ 1 <= entry.start /\ entry.start <= now /\ entry.id <= sessions'
           /\ readOnly => entry.id # 0 /\ read = props[t]
           /\ read \in HeldEntries
           /\ new => \A f \in HeldEntries : f.id # entry.id
           /\ ~new => /\ entry.id = read.id
                      /\ \A f \in HeldEntries : f.id = entry.id /\ f.id # 0 => f.start = entry.start
           /\ ~new /\ entry.activity = now /\ readOnly =>
                props[t].activity = now \/ memory[t].activity = now
<1>. DEFINE cached == props[t]
            seen == Freshest(t, cached)
<1>1. /\ now \in Nat /\ now >= 1 /\ sessions \in Nat /\ HeldEntries \subseteq Entries
      /\ cached \in HeldEntries /\ memory[t] \in HeldEntries /\ storage \in HeldEntries
      /\ cached \in Entries /\ memory[t] \in Entries
    BY TypedFields DEF HeldEntries
<1>2. /\ seen \in Nat /\ seen >= cached.activity /\ seen >= memory[t].activity
      /\ seen = cached.activity \/ seen = memory[t].activity
    BY <1>1, FreshestIs
<1>3. \A e \in Entries : e.activity \in Nat /\ e.id \in Nat /\ e.start \in Nat
    BY EntryFields
<1>4. \A e \in HeldEntries : /\ e.activity <= now /\ e.start <= now /\ e.id <= sessions
                             /\ e.id # 0 => e.activity # 0 /\ e.start # 0
    BY DEF TabsInv, EntriesDated
<1>5. /\ read = cached \/ (read = storage /\ ~readOnly)
      /\ new => entry.id = sessions + 1 /\ sessions' = sessions + 1 /\ entry.start = now
      /\ ~new => /\ entry.id = read.id /\ sessions' = sessions
                 /\ entry.start = IF read.start = 0 THEN now ELSE read.start
                 /\ cached.id # 0
      /\ \/ entry.activity = now /\ (~readOnly \/ seen <= 0 \/ new)
         \/ entry.activity = seen /\ seen > 0 /\ readOnly
    BY DEF EventSets
<1>. HIDE DEF seen, cached
<1>6. seen <= now
    BY <1>1, <1>2, <1>4
<1>7. read \in HeldEntries
    BY <1>1, <1>5
<1>8. new => \A f \in HeldEntries : f.id # entry.id
  <2>. SUFFICES ASSUME new, NEW f \in HeldEntries PROVE f.id # entry.id
      OBVIOUS
  <2>1. f.id \in Nat /\ f.id <= sessions /\ entry.id = sessions + 1
      BY <1>1, <1>3, <1>4, <1>5
  <2>. QED BY <1>1, <2>1
<1>9. /\ 1 <= entry.start /\ entry.start <= now /\ entry.id <= sessions'
  <2>1. CASE new
      BY <1>1, <1>5, <2>1
  <2>2. CASE ~new
    <3>1. read.start <= now /\ read.start \in Nat /\ read.id <= sessions /\ read.id \in Nat
        BY <1>1, <1>3, <1>4, <1>7
    <3>. QED BY <1>1, <1>5, <2>2, <3>1
  <2>. QED BY <2>1, <2>2
<1>10. ~new => \A f \in HeldEntries : f.id = entry.id /\ f.id # 0 => f.start = entry.start
  <2>. SUFFICES ASSUME ~new, NEW f \in HeldEntries, f.id = entry.id, f.id # 0
                PROVE  f.start = entry.start
      OBVIOUS
  <2>1. entry.id = read.id /\ read.start # 0 /\ entry.start = read.start
      BY <1>4, <1>5, <1>7
  <2>. QED BY <1>7, <2>1 DEF TabsInv, StartsAgree
<1>11. readOnly => entry.id # 0 /\ read = props[t]
  <2>1. CASE new
      BY <1>1, <1>5, <2>1 DEF cached
  <2>. QED BY <1>5, <2>1 DEF cached
<1>12. /\ 1 <= entry.activity /\ entry.activity <= now /\ memory[t].activity <= entry.activity
       /\ entry.activity = now \/ entry.activity = cached.activity
            \/ entry.activity = memory[t].activity
       /\ entry.activity # now => readOnly
       /\ ~new /\ entry.activity = now /\ readOnly =>
                cached.activity = now \/ memory[t].activity = now
  <2>1. cached.activity \in Nat /\ memory[t].activity \in Nat /\ memory[t].activity <= now
      BY <1>1, <1>3, <1>4
  <2>2. ~new => seen > 0
      BY <1>1, <1>2, <1>4, <1>5, <2>1
  <2>3. CASE entry.activity = now /\ (~readOnly \/ seen <= 0 \/ new)
      BY <1>1, <1>2, <2>1, <2>2, <2>3
  <2>4. CASE entry.activity = seen /\ seen > 0 /\ readOnly
      BY <1>1, <1>2, <1>6, <2>1, <2>4
  <2>. QED BY <1>5, <2>3, <2>4
<1>. QED BY <1>5, <1>7, <1>8, <1>9, <1>10, <1>11, <1>12 DEF cached

LEMMA EventKeeps ==
    ASSUME TypeOK, TabsInv, NEW t \in Tabs, NEW readOnly \in BOOLEAN, Event(t, readOnly)
    PROVE  TabsInv'
<1>1. t \in open /\ UNCHANGED <<now, open>>
    BY EventMoves
<1>2. PICK read \in Entries, entry \in Entries, new \in BOOLEAN :
          EventSets(t, readOnly, read, entry, new)
    BY EventMoves
<1>3. OthersSame(t)
    BY StepIsOfOneTab DEF TabStep
<1>. DEFINE m == memory[t]
            c == props[t]
            p == persisted[t]
<1>4. /\ now \in Nat /\ now >= 1 /\ sessions \in Nat /\ p \in Nat /\ idleAt[t] \in Nat
      /\ c \in HeldEntries /\ m \in HeldEntries /\ c \in Entries /\ m \in Entries
      /\ c.activity \in Nat /\ m.activity \in Nat /\ c.activity <= now /\ m.activity <= now
      /\ read.activity \in Nat /\ entry.activity \in Nat
      /\ TabKeeps(t)
    BY TypedFields, EntryFields DEF HeldEntries, TabsInv, EntriesDated
<1>5. /\ memory'[t] = entry
      /\ idleAt'[t] = IF readOnly THEN idleAt[t] ELSE now + IdleTimeout + 1
      /\ \/ /\ entry.id = m.id /\ entry.start = m.start
            /\ entry.activity = m.activity \/ BelowGranularity(t, entry.activity)
            /\ props'[t] = read /\ persisted'[t] = p
            /\ pending' = pending /\ storage' = storage
         \/ /\ props'[t] = entry /\ persisted'[t] = entry.activity
            /\ \/ Debounced /\ t \in pending' /\ storage' = storage
               \/ ~Debounced /\ pending' = pending /\ storage' = entry
    BY <1>2, EventFields
<1>6. /\ 1 <= entry.activity /\ entry.activity <= now /\ m.activity <= entry.activity
      /\ entry.activity = now \/ entry.activity = c.activity \/ entry.activity = m.activity
      /\ entry.activity # now => readOnly
      /\ readOnly => entry.id # 0 /\ read = c
      /\ read \in HeldEntries
      /\ new => \A f \in HeldEntries : f.id # entry.id
      /\ ~new /\ entry.activity = now /\ readOnly => c.activity = now \/ m.activity = now
    BY <1>2, EventEntry
<1>7. 1 <= entry.start /\ entry.start <= now /\ entry.id <= sessions'
    BY <1>2, EventEntry
<1>8. \A f \in HeldEntries : f.id = entry.id /\ f.id # 0 => f.start = entry.start
    BY <1>2, EventEntry
<1>9. read.activity <= now
    BY <1>6 DEF TabsInv, EntriesDated
<1>10. sessions <= sessions' /\ sessions' \in Nat
    BY <1>2, <1>4 DEF EventSets
<1>. HIDE DEF m, c, p
<1>11. EntriesDated' /\ StartsAgree'
  <2>1. storage \in HeldEntries
      BY DEF HeldEntries
  <2>2. HeldEntries' \subseteq HeldEntries \cup {NoEntry, entry}
      BY <1>3, <1>5, <1>6, <2>1, EntriesOfOneTab
  <2>3. now' = now /\ now' \in Nat /\ now <= now' /\ entry.activity <= now' /\ entry.start <= now'
      BY <1>1, <1>4, <1>6, <1>7
  <2>4. /\ entry.id # 0 => entry.activity # 0 /\ entry.start # 0
        /\ \A f \in HeldEntries : f.id = entry.id /\ entry.id # 0 => f.start = entry.start
      BY <1>4, <1>6, <1>7, <1>8, EntryFields
  <2>. QED BY <1>7, <1>10, <2>2, <2>3, <2>4, EntriesKept DEF TabsInv
<1>12. TabKeeps(t)'
  <2>1. /\ p <= m.activity /\ m.activity - p < Granularity
        /\ m.activity # 0 => p # 0
        /\ ~Debounced => t \notin pending
        /\ idleAt[t] # 0 =>
             /\ idleAt[t] > m.activity + IdleTimeout \/ (m.id # 0 /\ m.activity = p)
             /\ idleAt[t] > c.activity + IdleTimeout \/ c.activity <= p
      BY <1>4 DEF TabKeeps, m, c, p
  <2>2. CASE /\ props'[t] = entry /\ persisted'[t] = entry.activity
             /\ \/ Debounced /\ t \in pending' /\ storage' = storage
                \/ ~Debounced /\ pending' = pending /\ storage' = entry
    <3>1. ~Debounced => t \notin pending'
        BY <2>1, <2>2
    <3>2. idleAt'[t] # 0 =>
             /\ \/ idleAt'[t] > entry.activity + IdleTimeout
                \/ entry.id # 0 /\ entry.activity = persisted'[t]
             /\ idleAt'[t] > entry.activity + IdleTimeout \/ entry.activity <= persisted'[t]
        BY <1>4, <1>5, <1>6, <2>2, TabNumbers
    <3>. QED BY <1>1, <1>4, <1>5, <1>6, <2>2, <3>1, <3>2, TabNumbers DEF TabKeeps
  <2>3. CASE /\ entry.id = m.id /\ entry.start = m.start
             /\ entry.activity = m.activity \/ BelowGranularity(t, entry.activity)
             /\ props'[t] = read /\ persisted'[t] = p
             /\ pending' = pending /\ storage' = storage
    <3>1. ~new
        BY <1>4, <1>6, <2>3 DEF m
    <3>2. BelowGranularity(t, entry.activity) => p # 0 /\ entry.activity - p < Granularity
        BY <1>4, <1>6, <2>1, TabNumbers DEF BelowGranularity, Apart, p
    <3>3. p <= entry.activity /\ entry.activity - p < Granularity /\ p # 0
        BY <1>4, <1>6, <2>1, <2>3, <3>2, TabNumbers
    <3>4. CASE ~readOnly
      <4>1. /\ idleAt'[t] > entry.activity + IdleTimeout
            /\ idleAt'[t] > read.activity + IdleTimeout
          BY <1>4, <1>5, <1>6, <1>9, <3>4, TabNumbers
      <4>. QED BY <1>1, <1>5, <2>1, <2>3, <3>3, <4>1 DEF TabKeeps
    <3>5. CASE readOnly
      <4>1. idleAt'[t] = idleAt[t] /\ read = c /\ entry.id # 0
          BY <1>5, <1>6, <3>5
      <4>2. entry.activity = m.activity \/ (entry.activity = c.activity /\ c.activity > m.activity)
          BY <1>4, <1>6, <3>1, <3>5
      <4>3. idleAt[t] # 0 => \/ idleAt[t] > entry.activity + IdleTimeout
                             \/ entry.id # 0 /\ entry.activity = p
          BY <1>4, <2>1, <2>3, <4>2, TabNumbers
      <4>. QED BY <1>1, <1>5, <2>1, <2>3, <3>3, <4>1, <4>3 DEF TabKeeps
    <3>. QED BY <3>4, <3>5
  <2>. QED BY <1>5, <2>2, <2>3
<1>. QED BY <1>3, <1>11, <1>12, OthersKeep DEF TabsInv

\* What the other steps keep: entries that were held, or none.
LEMMA OtherStepsKeep ==
    ASSUME TypeOK, TabsInv, NEW t \in Tabs, TabStep(t), sessions' = sessions, TabKeeps(t)',
           memory'[t] \in HeldEntries \cup {NoEntry},
           props'[t] \in HeldEntries \cup {NoEntry}, storage' \in HeldEntries \cup {NoEntry}
    PROVE  TabsInv'
<1>1. OthersSame(t) /\ now' = now
    BY StepIsOfOneTab
<1>2. HeldEntries' \subseteq HeldEntries \cup {NoEntry, NoEntry}
    BY <1>1, EntriesOfOneTab
<1>3. /\ now \in Nat /\ sessions \in Nat /\ NoEntry \in Entries
      /\ NoEntry.activity = 0 /\ NoEntry.id = 0 /\ NoEntry.start = 0
    BY TypedFields, EntryFields
<1>4. EntriesDated' /\ StartsAgree'
    BY <1>1, <1>2, <1>3, EntriesKept DEF TabsInv
<1>5. \A u \in Tabs \ {t} : TabKeeps(u)'
    BY <1>1, OthersKeep DEF TabsInv
<1>. QED BY <1>4, <1>5 DEF TabsInv

LEMMA OpenKeeps ==
    ASSUME TypeOK, TabsInv, NEW t \in Tabs, Open(t)
    PROVE  TabsInv'
<1>1. TabStep(t) /\ TabKeeps(t) /\ storage \in HeldEntries
    BY DEF TabStep, TabsInv, HeldEntries
<1>2. /\ memory'[t] = memory[t] /\ persisted'[t] = persisted[t] /\ sessions' = sessions
      /\ props'[t] = storage /\ idleAt'[t] = now + IdleTimeout + 1
      /\ t \in open' /\ t \notin open /\ Save(t, storage)
    BY DEF Open, ResetIdleTimer, TypeOK
<1>3. storage' = storage /\ (~Debounced => t \notin pending')
    BY <1>1, <1>2, SaveMoves DEF TabKeeps
<1>4. /\ now \in Nat /\ storage.activity \in Nat /\ storage.activity <= now
      /\ NoEntry.activity = 0 /\ memory[t] = NoEntry /\ persisted[t] = 0
    BY <1>1, <1>2, TypedFields, EntryFields DEF TabsInv, EntriesDated, TabKeeps
<1>5. idleAt'[t] > memory'[t].activity + IdleTimeout /\ idleAt'[t] > props'[t].activity + IdleTimeout
    BY <1>2, <1>4, TabNumbers
<1>6. TabKeeps(t)'
    BY <1>2, <1>3, <1>4, <1>5, TabNumbers DEF TabKeeps
<1>. QED BY <1>1, <1>2, <1>3, <1>4, <1>6, OtherStepsKeep

LEMMA CloseKeeps ==
    ASSUME TypeOK, TabsInv, NEW t \in Tabs, Close(t)
    PROVE  TabsInv'
<1>1. TabStep(t) /\ storage \in HeldEntries /\ props[t] \in HeldEntries /\ memory[t] \in HeldEntries
    BY DEF TabStep, HeldEntries
<1>2. /\ memory'[t] = NoEntry /\ persisted'[t] = 0 /\ sessions' = sessions
      /\ props'[t] = NoEntry /\ idleAt'[t] = 0 /\ t \notin pending'
      /\ storage' \in {storage, props[t], memory[t]}
    BY DEF Close, TypeOK
<1>3. TabKeeps(t)'
    BY <1>2, EntryFields, TabNumbers DEF TabKeeps
<1>. QED BY <1>1, <1>2, <1>3, OtherStepsKeep

\* A tab that is reset.
LEMMA ResetFields ==
    ASSUME TypeOK, NEW t \in Tabs, ResetSessionId(t)
    PROVE  memory'[t] = NoEntry /\ persisted'[t] = 0 /\ props'[t] = NoEntry /\ idleAt'[t] = 0
BY DEF ResetSessionId, TypeOK

LEMMA ResetKeeps ==
    ASSUME TypeOK, TabsInv, NEW t \in Tabs, ResetSessionId(t), t \in open',
           ~Debounced => t \notin pending'
    PROVE  TabKeeps(t)'
BY ResetFields, EntryFields, TabNumbers DEF TabKeeps

LEMMA ResetCallKeeps ==
    ASSUME TypeOK, TabsInv, NEW t \in Tabs, ResetCall(t)
    PROVE  TabsInv'
<1>1. /\ TabStep(t) /\ sessions' = sessions /\ t \in open' /\ storage' = NoEntry
      /\ ResetSessionId(t) /\ (~Debounced => t \notin pending')
    BY DEF TabStep, ResetCall, TabsInv, TabKeeps
<1>. QED BY <1>1, ResetFields, ResetKeeps, OtherStepsKeep

\* The idle timer resets the session of a tab or follows the storage.
LEMMA IdleTimerMoves ==
    ASSUME TypeOK, NEW t \in Tabs, IdleTimerFires(t)
    PROVE  /\ t \in open /\ t \in open' /\ idleAt[t] # 0 /\ idleAt[t] <= now
           /\ sessions' = sessions /\ heard' = heard
           /\ \/ ResetSessionId(t) /\ Save(t, NoEntry)
              \/ /\ memory' = memory /\ persisted'[t] = persisted[t] /\ props'[t] = storage
                 /\ idleAt'[t] = now + IdleTimeout + 1
                 /\ storage' = storage /\ pending' = pending
<1>1. /\ t \in open /\ idleAt[t] # 0 /\ now >= idleAt[t] /\ UNCHANGED <<now, sessions, open, heard>>
      /\ \/ ResetSessionId(t) /\ Save(t, NoEntry)
         \/ /\ props' = [props EXCEPT ![t] = storage]
            /\ ResetIdleTimer(t)
            /\ UNCHANGED <<memory, persisted>> /\ NoSave
    BY DEF IdleTimerFires, Refreshed
<1>2. idleAt[t] <= now
    BY <1>1, TypedFields
<1>. QED BY <1>1, <1>2 DEF ResetIdleTimer, NoSave, TypeOK

LEMMA IdleTimerKeeps ==
    ASSUME TypeOK, TabsInv, NEW t \in Tabs, IdleTimerFires(t)
    PROVE  TabsInv'
<1>1. /\ TabStep(t) /\ TabKeeps(t) /\ storage \in HeldEntries /\ memory[t] \in HeldEntries
      /\ sessions' = sessions /\ t \in open' /\ t \in open
    BY IdleTimerMoves DEF TabStep, TabsInv, HeldEntries
<1>2. CASE ResetSessionId(t) /\ Save(t, NoEntry)
  <2>1. (~Debounced => t \notin pending') /\ storage' \in {storage, NoEntry}
      BY <1>1, <1>2, SaveMoves DEF TabKeeps
  <2>. QED BY <1>1, <1>2, <2>1, ResetFields, ResetKeeps, OtherStepsKeep
<1>3. CASE /\ memory' = memory /\ persisted'[t] = persisted[t] /\ props'[t] = storage
           /\ idleAt'[t] = now + IdleTimeout + 1
           /\ storage' = storage /\ pending' = pending
  <2>1. /\ now \in Nat /\ storage.activity \in Nat /\ storage.activity <= now
        /\ memory[t].activity \in Nat /\ memory[t].activity <= now
      BY <1>1, TypedFields, EntryFields DEF TabsInv, EntriesDated
  <2>2. /\ idleAt'[t] > memory'[t].activity + IdleTimeout
        /\ idleAt'[t] > props'[t].activity + IdleTimeout
      BY <1>3, <2>1, TabNumbers
  <2>3. TabKeeps(t)'
      BY <1>1, <1>3, <2>2 DEF TabKeeps
  <2>. QED BY <1>1, <1>3, <2>3, OtherStepsKeep
<1>. QED BY <1>2, <1>3, IdleTimerMoves

LEMMA SavesKeep ==
    ASSUME TypeOK, TabsInv, NEW t \in Tabs, SaveOther(t) \/ SaveFires(t)
    PROVE  TabsInv'
<1>1. /\ TabStep(t) /\ TabKeeps(t) /\ storage \in HeldEntries /\ memory[t] \in HeldEntries
      /\ props[t] \in HeldEntries
    BY DEF TabStep, TabsInv, HeldEntries
<1>2. /\ memory' = memory /\ persisted' = persisted /\ props' = props /\ idleAt' = idleAt
      /\ sessions' = sessions /\ open' = open /\ storage' \in {storage, props[t]}
      /\ t \notin open => t \notin pending'
      /\ ~Debounced => t \notin pending'
    BY <1>1, SaveMoves DEF SaveOther, SaveFires, TabKeeps
<1>3. TabKeeps(t)'
    BY <1>1, <1>2 DEF TabKeeps
<1>. QED BY <1>1, <1>2, <1>3, OtherStepsKeep

LEMMA TickKeeps ==
    ASSUME TypeOK, TabsInv, Tick
    PROVE  TabsInv'
<1>1. /\ UNCHANGED <<sessions, storage, props, pending, memory, persisted, idleAt, open>>
      /\ now' = now + 1
    BY DEF Tick
<1>2. HeldEntries' = HeldEntries
    BY <1>1 DEF HeldEntries
<1>3. /\ now \in Nat /\ sessions \in Nat /\ NoEntry \in Entries
      /\ NoEntry.activity = 0 /\ NoEntry.id = 0 /\ NoEntry.start = 0
    BY TypedFields, EntryFields
<1>4. now' \in Nat /\ now <= now'
    BY <1>1, <1>3
<1>5. EntriesDated' /\ StartsAgree'
    BY <1>1, <1>2, <1>3, <1>4, EntriesKept DEF TabsInv
<1>6. \A u \in Tabs : TabKeeps(u)'
    BY <1>1 DEF TabsInv, TabKeeps
<1>. QED BY <1>5, <1>6 DEF TabsInv

LEMMA TabsInvInit == Init => TabsInv
<1>. SUFFICES ASSUME Init PROVE TabsInv
    OBVIOUS
<1>1. /\ HeldEntries \subseteq {NoEntry} /\ now = 1 /\ sessions = 0
      /\ NoEntry.activity = 0 /\ NoEntry.id = 0 /\ NoEntry.start = 0
    BY EntryFields DEF Init, HeldEntries
<1>2. EntriesDated /\ StartsAgree
    BY <1>1 DEF EntriesDated, StartsAgree
<1>3. \A t \in Tabs : TabKeeps(t)
  <2>1. \A t \in Tabs : /\ memory[t] = NoEntry /\ props[t] = NoEntry /\ persisted[t] = 0
                         /\ idleAt[t] = 0 /\ t \notin open /\ t \notin pending
      BY DEF Init
  <2>. SUFFICES ASSUME NEW t \in Tabs PROVE TabKeeps(t)
      OBVIOUS
  <2>2. 0 <= 0 /\ 0 - 0 < Granularity
      BY TabNumbers
  <2>. QED BY <1>1, <2>1, <2>2 DEF TabKeeps
<1>. QED BY <1>2, <1>3 DEF TabsInv

LEMMA TabsInvStep == TypeOK /\ TabsInv /\ [Next]_vars => TabsInv'
<1>. SUFFICES ASSUME TypeOK, TabsInv, [Next]_vars PROVE TabsInv'
    OBVIOUS
<1>1. CASE UNCHANGED vars
    BY <1>1 DEF vars, TabsInv, EntriesDated, StartsAgree, TabKeeps, HeldEntries
<1>2. CASE Tick
    BY <1>2, TickKeeps
<1>3. ASSUME NEW t \in Tabs, TabStep(t) PROVE TabsInv'
    BY <1>3, OpenKeeps, CloseKeeps, ResetCallKeeps, IdleTimerKeeps, SavesKeep, EventKeeps
       DEF TabStep
<1>. QED BY <1>1, <1>2, <1>3 DEF Next, TabStep


--------------------------------------------------------------------------------
(* What tabs share, while nothing is lost.                                    *)

LEMMA NothingLost ==
    ASSUME Track, ~lost'
    PROVE  ~lost /\ ~Loses
BY DEF Track

LEMMA StorageHolds ==
    ASSUME ~Loses, Live(storage)
    PROVE  storage'.id = storage.id /\ ~(storage'.activity < storage.activity)
BY DEF Loses

\* What the storage covered, it covers still.
LEMMA StillCovered ==
    ASSUME TypeOK, TypeOK', ~Loses, now' = now, NEW u \in Tabs, memory[u].id # 0,
           memory'[u] = memory[u], persisted'[u] = persisted[u], Covers(storage, u)
    PROVE  Covers(storage, u)'
<1>1. /\ now \in Nat /\ persisted[u] \in Nat /\ storage.activity \in Nat
      /\ storage'.activity \in Nat
  <2>1. storage \in Entries /\ storage' \in Entries
      BY DEF TypeOK
  <2>. QED BY <2>1, TypedFields, EntryFields
<1>2. CASE now - persisted[u] > IdleTimeout
    BY <1>2 DEF Covers
<1>3. CASE storage.id = memory[u].id /\ storage.activity >= persisted[u]
  <2>1. CASE Live(storage)
      BY <1>1, <1>3, <2>1, StorageHolds DEF Covers
  <2>2. CASE ~Live(storage)
    <3>1. now - persisted[u] > IdleTimeout
        BY <1>1, <1>3, <2>2, TabNumbers DEF Live
    <3>. QED BY <3>1 DEF Covers
  <2>. QED BY <2>1, <2>2
<1>. QED BY <1>2, <1>3 DEF Covers

\* What was stored is stored still.
LEMMA StillStored ==
    ASSUME TypeOK, TypeOK', ~Loses, now' = now, NEW u \in Tabs, props'[u] = props[u],
           IsStored(props[u])
    PROVE  IsStored(props[u])'
<1>1. /\ now \in Nat /\ storage.activity \in Nat /\ storage'.activity \in Nat
      /\ props[u].activity \in Nat
  <2>1. storage \in Entries /\ storage' \in Entries
      BY DEF TypeOK
  <2>. QED BY <2>1, TypedFields, EntryFields
<1>2. CASE props[u].id = 0 \/ now - props[u].activity > IdleTimeout
    BY <1>2 DEF IsStored
<1>3. CASE props[u].id # 0 /\ storage.id = props[u].id /\ storage.activity >= props[u].activity
  <2>1. CASE Live(storage)
      BY <1>1, <1>3, <2>1, StorageHolds DEF IsStored
  <2>2. CASE ~Live(storage)
    <3>1. now - props[u].activity > IdleTimeout
        BY <1>1, <1>3, <2>2, TabNumbers DEF Live
    <3>. QED BY <3>1 DEF IsStored
  <2>. QED BY <2>1, <2>2
<1>. QED BY <1>2, <1>3 DEF IsStored

\* The ids that a step of tab t may leave in the storage and in t.
IdsOf(t) == {0, storage.id, props[t].id, memory[t].id, sessions + 1}

LEMMA OthersShare ==
    ASSUME TypeOK, TypeOK', TabsInv, NEW t \in Tabs, OthersSame(t), now' = now, ~Loses,
           storage'.id \in IdsOf(t), props'[t].id \in IdsOf(t), memory'[t].id \in IdsOf(t),
           NEW u \in Tabs \ {t}, TabShares(u)
    PROVE  TabShares(u)'
<1>1. /\ memory'[u] = memory[u] /\ props'[u] = props[u] /\ persisted'[u] = persisted[u]
      /\ idleAt'[u] = idleAt[u]
      /\ u \in pending' <=> u \in pending
    BY DEF OthersSame
<1>2. memory[u].id # 0 /\ Covers(storage, u) => Covers(storage, u)'
    BY <1>1, StillCovered
<1>3. IsStored(props[u]) => IsStored(props[u])'
    BY <1>1, StillStored
<1>4. OnlyIn(u) => OnlyIn(u)' \/ IsStored(props[u])'
  <2>1. CASE props[u].id = 0
      BY <1>1, <2>1 DEF IsStored
  <2>2. CASE props[u].id # 0
    <3>1. props[u].id <= sessions /\ props[u].id \in Nat /\ sessions \in Nat
        BY TypedFields, EntryFields DEF TabsInv, EntriesDated, HeldEntries
    <3>2. props[u].id # sessions + 1
        BY <3>1
    <3>3. OnlyIn(u) => props[u].id \notin IdsOf(t)
        BY <2>2, <3>2 DEF OnlyIn, IdsOf
    <3>4. \A v \in Tabs \ {u} : v # t => props'[v] = props[v] /\ memory'[v] = memory[v]
        BY DEF OthersSame
    <3>. QED BY <1>1, <3>3, <3>4 DEF OnlyIn
  <2>. QED BY <2>1, <2>2
<1>5. memory[u].id # 0 /\ Covers(props[u], u) => Covers(props[u], u)'
    BY <1>1 DEF Covers
<1>. QED BY <1>1, <1>2, <1>3, <1>4, <1>5 DEF TabShares

\* A tab that holds nothing shares what it must.
LEMMA EmptyShares ==
    ASSUME NEW t \in Tabs, memory'[t] = NoEntry, props'[t] = NoEntry
    PROVE  TabShares(t)'
BY EntryFields DEF TabShares, IsStored

LEMMA OpenShares ==
    ASSUME TypeOK, TabsInv, NEW t \in Tabs, Open(t)
    PROVE  TabShares(t)'
<1>1. /\ memory'[t] = memory[t] /\ props'[t] = storage /\ idleAt'[t] = now + IdleTimeout + 1
      /\ t \notin open /\ Save(t, storage) /\ now' = now
    BY DEF Open, ResetIdleTimer, TypeOK
<1>2. memory[t].id = 0 /\ memory[t].activity = 0
    BY <1>1, EntryFields DEF TabsInv, TabKeeps
<1>3. storage' = storage
    BY <1>1, SaveMoves
<1>4. /\ now \in Nat /\ storage \in Entries /\ storage.activity \in Nat
    BY TypedFields, EntryFields
<1>5. IsStored(props[t])'
    BY <1>1, <1>3, <1>4 DEF IsStored
<1>. QED BY <1>1, <1>2, <1>5 DEF TabShares

LEMMA SavesShare ==
    ASSUME TypeOK, NEW t \in Tabs, SaveOther(t) \/ SaveFires(t), TabShares(t)
    PROVE  TabShares(t)'
<1>1. /\ memory' = memory /\ persisted' = persisted /\ props' = props /\ idleAt' = idleAt
      /\ now' = now
      /\ \/ t \in pending' /\ storage' = storage
         \/ storage' = props[t]
    BY SaveMoves DEF SaveOther, SaveFires
<1>2. props[t].activity \in Nat
    BY TypedFields, EntryFields
<1>3. CASE t \in pending' /\ storage' = storage
  <2>1. /\ Covers(props[t], t)' <=> Covers(props[t], t)
        /\ IsStored(props[t])' <=> IsStored(props[t])
        /\ OnlyIn(t)' <=> OnlyIn(t)
      BY <1>1, <1>3 DEF Covers, IsStored, OnlyIn
  <2>. QED BY <1>1, <1>3, <2>1 DEF TabShares
<1>4. CASE storage' = props[t]
  <2>1. /\ Covers(props[t], t)' <=> Covers(props[t], t)
        /\ Covers(storage, t)' <=> Covers(props[t], t)
        /\ IsStored(props[t])'
      BY <1>1, <1>2, <1>4 DEF Covers, IsStored
  <2>. QED BY <1>1, <2>1 DEF TabShares
<1>. QED BY <1>1, <1>3, <1>4

\* The timer of a tab that follows the storage: what it finds there is the session that
\* the tab has, or the tab is idle.
LEMMA FollowShares ==
    ASSUME TypeOK, TabsInv, ~Loses, NEW t \in Tabs, TabShares(t), now' = now,
           idleAt[t] # 0, idleAt[t] <= now,
           memory' = memory, persisted'[t] = persisted[t], props'[t] = storage,
           idleAt'[t] = now + IdleTimeout + 1, storage' = storage, pending' = pending
    PROVE  TabShares(t)'
<1>1. /\ now \in Nat /\ persisted[t] \in Nat /\ storage.activity \in Nat /\ idleAt[t] \in Nat
      /\ props[t].activity \in Nat /\ memory[t].activity \in Nat
      /\ persisted[t] <= memory[t].activity
      /\ \/ idleAt[t] > memory[t].activity + IdleTimeout
         \/ memory[t].id # 0 /\ memory[t].activity = persisted[t]
    BY TypedFields, EntryFields DEF TabsInv, TabKeeps
<1>2. t \in pending /\ memory[t].id # 0 => storage.id = props[t].id
    BY DEF Loses
<1>3. memory[t].activity # 0 /\ storage.id # memory[t].id => now - memory[t].activity > IdleTimeout
  <2>. SUFFICES ASSUME memory[t].activity # 0, storage.id # memory[t].id
                PROVE  now - memory[t].activity > IdleTimeout
      OBVIOUS
  <2>1. CASE idleAt[t] > memory[t].activity + IdleTimeout
      BY <1>1, <2>1, TabNumbers
  <2>2. CASE memory[t].id # 0 /\ memory[t].activity = persisted[t]
    <3>1. CASE t \in pending
        BY <1>2, <2>2, <3>1 DEF TabShares
    <3>2. CASE t \notin pending
        BY <2>2, <3>2 DEF TabShares, Covers
    <3>. QED BY <3>1, <3>2
  <2>. QED BY <1>1, <2>1, <2>2
<1>4. memory[t].id # 0 => Covers(storage, t)
  <2>. SUFFICES ASSUME memory[t].id # 0, t \in pending PROVE Covers(storage, t)
      BY DEF TabShares
  <2>1. storage.id = props[t].id /\ memory[t].activity # 0
      BY <1>2 DEF TabsInv, EntriesDated, HeldEntries
  <2>2. CASE props[t].id # memory[t].id
    <3>1. now - memory[t].activity > IdleTimeout
        BY <2>1, <2>2 DEF TabShares
    <3>. QED BY <1>1, <3>1, TabNumbers DEF Covers
  <2>3. CASE props[t].id = memory[t].id
    <3>1. IsStored(props[t]) /\ Covers(props[t], t)
        BY <2>1 DEF TabShares, OnlyIn
    <3>2. \/ storage.activity >= props[t].activity
          \/ now - props[t].activity > IdleTimeout
        BY <2>3, <3>1 DEF IsStored
    <3>3. \/ props[t].activity >= persisted[t]
          \/ now - persisted[t] > IdleTimeout
        BY <3>1 DEF Covers
    <3>4. storage.activity >= persisted[t] \/ now - persisted[t] > IdleTimeout
        BY <1>1, <3>2, <3>3, TabNumbers
    <3>. QED BY <2>1, <2>3, <3>4 DEF Covers
  <2>. QED BY <2>2, <2>3
<1>5. /\ Covers(props[t], t)' <=> Covers(storage, t)
      /\ Covers(storage, t)' <=> Covers(storage, t)
      /\ IsStored(props[t])'
    BY <1>1 DEF Covers, IsStored
<1>6. ~(idleAt'[t] <= now')
    BY <1>1, TabNumbers
<1>. QED BY <1>3, <1>4, <1>5, <1>6 DEF TabShares

\* An event that looks in the storage is later than what the tab knew, and is saved.
LEMMA LookingIsNotQuiet ==
    ASSUME TypeOK, TabsInv, NEW t \in Tabs, NEW readOnly \in BOOLEAN, NEW read \in Entries,
           NEW entry \in Entries, NEW new \in BOOLEAN, EventSets(t, readOnly, read, entry, new),
           \/ entry.activity = memory[t].activity
           \/ BelowGranularity(t, entry.activity)
    PROVE  read = props[t]
<1>. SUFFICES ASSUME read = storage, ~readOnly, IdleTooLong(Freshest(t, props[t]))
              PROVE  FALSE
    BY DEF EventSets
<1>. DEFINE seen == Freshest(t, props[t])
<1>1. /\ now \in Nat /\ persisted[t] \in Nat /\ memory[t].activity \in Nat
      /\ props[t] \in Entries /\ memory[t] \in Entries /\ props[t].activity \in Nat
      /\ persisted[t] <= memory[t].activity
      /\ memory[t].activity <= now /\ props[t].activity <= now
    BY TypedFields, EntryFields DEF TabsInv, TabKeeps, EntriesDated, HeldEntries
<1>2. /\ seen \in Nat /\ seen >= memory[t].activity
      /\ seen = props[t].activity \/ seen = memory[t].activity
    BY <1>1, FreshestIs
<1>. HIDE DEF seen
<1>3. now - seen > IdleTimeout
  <2>1. seen <= now
      BY <1>1, <1>2
  <2>. QED BY <1>1, <1>2, <2>1, ApartNow DEF IdleTooLong, seen
<1>4. entry.activity = now
    BY EventEntry
<1>5. now - memory[t].activity > IdleTimeout /\ now - persisted[t] > IdleTimeout
    BY <1>1, <1>2, <1>3, TabNumbers
<1>6. CASE entry.activity = memory[t].activity
    BY <1>1, <1>4, <1>5, <1>6, TabNumbers
<1>7. CASE BelowGranularity(t, entry.activity)
  <2>1. Apart(now, persisted[t]) = now - persisted[t]
      BY <1>1, ApartNow
  <2>. QED BY <1>1, <1>4, <1>5, <1>7, <2>1, TabNumbers DEF BelowGranularity
<1>. QED BY <1>6, <1>7

LEMMA EventShares ==
    ASSUME TypeOK, TabsInv, NEW t \in Tabs, NEW readOnly \in BOOLEAN, Event(t, readOnly),
           TabShares(t)
    PROVE  TabShares(t)'
<1>1. now' = now /\ OthersSame(t)
    BY StepIsOfOneTab DEF TabStep
<1>2. PICK read \in Entries, entry \in Entries, new \in BOOLEAN :
          EventSets(t, readOnly, read, entry, new)
    BY EventMoves
<1>. DEFINE m == memory[t]
            c == props[t]
            p == persisted[t]
<1>3. /\ now \in Nat /\ p \in Nat /\ idleAt[t] \in Nat /\ entry.activity \in Nat
      /\ c \in HeldEntries /\ m \in HeldEntries /\ storage \in HeldEntries
      /\ ~Debounced => t \notin pending
    BY TypedFields, EntryFields DEF HeldEntries, TabsInv, TabKeeps
<1>4. /\ memory'[t] = entry
      /\ idleAt'[t] = IF readOnly THEN idleAt[t] ELSE now + IdleTimeout + 1
      /\ \/ /\ entry.id = m.id /\ entry.start = m.start
            /\ entry.activity = m.activity \/ BelowGranularity(t, entry.activity)
            /\ props'[t] = read /\ persisted'[t] = p
            /\ pending' = pending /\ storage' = storage
         \/ /\ ~(entry.id = m.id /\ entry.start = m.start /\ entry.activity = m.activity)
            /\ props'[t] = entry /\ persisted'[t] = entry.activity
            /\ \/ Debounced /\ t \in pending' /\ storage' = storage
               \/ ~Debounced /\ pending' = pending /\ storage' = entry
    BY <1>2, EventFields
<1>5. /\ 1 <= entry.activity
      /\ entry.activity = now \/ entry.activity = c.activity \/ entry.activity = m.activity
      /\ entry.activity # now => readOnly
      /\ readOnly => entry.id # 0 /\ read = c
      /\ new => \A f \in HeldEntries : f.id # entry.id
      /\ ~new => /\ entry.id = read.id
                 /\ \A f \in HeldEntries : f.id = entry.id /\ f.id # 0 => f.start = entry.start
      /\ ~new /\ entry.activity = now /\ readOnly => c.activity = now \/ m.activity = now
    BY <1>2, EventEntry
<1>6. idleAt'[t] <= now' => readOnly
    BY <1>1, <1>3, <1>4, TabNumbers
<1>7. CASE /\ entry.id = m.id /\ entry.start = m.start
           /\ entry.activity = m.activity \/ BelowGranularity(t, entry.activity)
           /\ props'[t] = read /\ persisted'[t] = p
           /\ pending' = pending /\ storage' = storage
  <2>1. read = c
      BY <1>2, <1>7, LookingIsNotQuiet
  <2>2. ~new
      BY <1>3, <1>5, <1>7
  <2>3. props'[t] = c /\ props'[t].id = memory'[t].id
      BY <1>4, <1>5, <1>7, <2>1, <2>2
  <2>4. /\ Covers(props[t], t)' <=> Covers(props[t], t)
        /\ Covers(storage, t)' <=> Covers(storage, t)
      BY <1>1, <1>4, <1>7, <2>3 DEF Covers
  <2>5. IsStored(props[t])' <=> IsStored(props[t])
      BY <1>1, <1>7, <2>3 DEF IsStored
  <2>6. OnlyIn(t)' <=> OnlyIn(t)
      BY <1>1, <1>7, <2>3 DEF OnlyIn, OthersSame
  <2>7. t \in pending' /\ idleAt'[t] # 0 /\ idleAt'[t] <= now' =>
            t \in pending /\ idleAt[t] # 0 /\ idleAt[t] <= now
      BY <1>1, <1>4, <1>6, <1>7
  <2>. QED BY <1>4, <1>7, <2>3, <2>4, <2>5, <2>6, <2>7 DEF TabShares
<1>8. CASE /\ ~(entry.id = m.id /\ entry.start = m.start /\ entry.activity = m.activity)
           /\ props'[t] = entry /\ persisted'[t] = entry.activity
           /\ \/ Debounced /\ t \in pending' /\ storage' = storage
              \/ ~Debounced /\ pending' = pending /\ storage' = entry
  <2>1. Covers(props[t], t)'
      BY <1>3, <1>4, <1>8 DEF Covers
  <2>2. t \notin pending' => Covers(storage, t)' /\ IsStored(props[t])'
      BY <1>3, <1>4, <1>8 DEF Covers, IsStored
  <2>3. ASSUME t \in pending', idleAt'[t] # 0, idleAt'[t] <= now'
        PROVE  IsStored(props[t])' \/ OnlyIn(t)'
    <3>1. readOnly /\ entry.id # 0 /\ read = c /\ storage' = storage /\ idleAt[t] # 0
            /\ idleAt[t] <= now
        BY <1>1, <1>3, <1>4, <1>5, <1>6, <1>8, <2>3
    <3>2. CASE new
      <4>1. \A u \in Tabs \ {t} : props'[u] \in HeldEntries /\ memory'[u] \in HeldEntries
          BY <1>1 DEF OthersSame, HeldEntries
      <4>. QED BY <1>3, <1>5, <1>8, <3>1, <3>2, <4>1 DEF OnlyIn
    <3>3. CASE ~new
      <4>1. entry.id = c.id /\ (entry.activity = c.activity \/ entry.activity = m.activity)
          BY <1>5, <3>1, <3>3
      <4>2. CASE OnlyIn(t)
          BY <1>1, <1>8, <3>1, <4>1, <4>2 DEF OnlyIn, OthersSame
      <4>3. CASE ~OnlyIn(t)
        <5>1. IsStored(c)
            BY <3>1, <4>3 DEF TabShares
        <5>2. CASE entry.activity = c.activity
            BY <1>1, <1>8, <3>1, <4>1, <5>1, <5>2 DEF IsStored
        <5>3. CASE entry.activity = m.activity
          <6>1. m.id # c.id
              BY <1>3, <1>5, <1>8, <3>1, <3>3, <4>1, <5>3
          <6>2. now - m.activity > IdleTimeout
              BY <1>3, <1>5, <5>3, <6>1 DEF TabShares
          <6>. QED BY <1>1, <1>8, <5>3, <6>2 DEF IsStored
        <5>. QED BY <4>1, <5>2, <5>3
      <4>. QED BY <4>2, <4>3
    <3>. QED BY <3>2, <3>3
  <2>. QED BY <1>4, <1>8, <2>1, <2>2, <2>3 DEF TabShares
<1>. QED BY <1>4, <1>7, <1>8

\* The ids that a step of a tab leaves.
LEMMA IdsStay ==
    ASSUME TypeOK, NEW t \in Tabs, TabStep(t)
    PROVE  storage'.id \in IdsOf(t) /\ props'[t].id \in IdsOf(t) /\ memory'[t].id \in IdsOf(t)
<1>0. NoEntry.id = 0
    BY EntryFields
<1>1. CASE Open(t)
    BY <1>1, SaveMoves DEF Open, IdsOf, TypeOK
<1>2. CASE Close(t)
  <2>1. /\ storage' \in {storage, props[t], memory[t]}
        /\ props'[t] = NoEntry /\ memory'[t] = NoEntry
      BY <1>2 DEF Close, TypeOK
  <2>. QED BY <1>0, <2>1 DEF IdsOf
<1>3. CASE ResetCall(t)
    BY <1>0, <1>3, ResetFields DEF ResetCall, IdsOf
<1>4. CASE IdleTimerFires(t)
    BY <1>0, <1>4, IdleTimerMoves, ResetFields, SaveMoves DEF IdsOf
<1>5. CASE SaveOther(t) \/ SaveFires(t)
    BY <1>5, SaveMoves DEF SaveOther, SaveFires, IdsOf
<1>6. ASSUME NEW readOnly \in BOOLEAN, Event(t, readOnly)
      PROVE  storage'.id \in IdsOf(t) /\ props'[t].id \in IdsOf(t) /\ memory'[t].id \in IdsOf(t)
  <2>1. PICK read \in Entries, entry \in Entries, new \in BOOLEAN :
            EventSets(t, readOnly, read, entry, new)
      BY <1>6, EventMoves
  <2>2. read.id \in IdsOf(t) /\ entry.id \in IdsOf(t)
      BY <2>1 DEF EventSets, IdsOf
  <2>3. memory'[t] = entry /\ props'[t] \in {read, entry} /\ storage' \in {storage, entry}
      BY <2>1, EventFields
  <2>. QED BY <2>2, <2>3 DEF IdsOf
<1>. QED BY <1>1, <1>2, <1>3, <1>4, <1>5, <1>6 DEF TabStep

LEMMA TabStepShares ==
    ASSUME TypeOK, TypeOK', TabsInv, SharedInv, NEW t \in Tabs, TabStep(t)
    PROVE  SharedInv'
<1>. SUFFICES ASSUME ~lost' PROVE \A u \in Tabs : TabShares(u)'
    BY DEF SharedInv
<1>1. OthersSame(t) /\ now' = now /\ Track
    BY StepIsOfOneTab
<1>2. ~lost /\ ~Loses /\ \A u \in Tabs : TabShares(u)
    BY <1>1, NothingLost DEF SharedInv
<1>3. \A u \in Tabs \ {t} : TabShares(u)'
    BY <1>1, <1>2, IdsStay, OthersShare
<1>4. TabShares(t)'
  <2>1. CASE Open(t)
      BY <2>1, OpenShares
  <2>2. CASE Close(t)
      BY <2>2, EmptyShares DEF Close, TypeOK
  <2>3. CASE ResetCall(t)
      BY <2>3, ResetFields, EmptyShares DEF ResetCall
  <2>4. CASE IdleTimerFires(t)
    <3>1. CASE ResetSessionId(t)
        BY <3>1, ResetFields, EmptyShares
    <3>2. CASE ~ResetSessionId(t)
        BY <1>1, <1>2, <2>4, <3>2, IdleTimerMoves, FollowShares
    <3>. QED BY <3>1, <3>2
  <2>5. CASE SaveOther(t) \/ SaveFires(t)
      BY <1>2, <2>5, SavesShare
  <2>6. CASE \E readOnly \in BOOLEAN : Event(t, readOnly)
      BY <1>2, <2>6, EventShares
  <2>. QED BY <2>1, <2>2, <2>3, <2>4, <2>5, <2>6 DEF TabStep
<1>. QED BY <1>3, <1>4

LEMMA TickShares ==
    ASSUME TypeOK, TabsInv, SharedInv, Tick
    PROVE  SharedInv'
<1>. SUFFICES ASSUME ~lost', NEW t \in Tabs PROVE TabShares(t)'
    BY DEF SharedInv
<1>1. /\ UNCHANGED <<sessions, storage, props, pending, memory, persisted, idleAt, open>>
      /\ now' = now + 1 /\ pending = {} /\ Track
    BY DEF Tick
<1>2. TabShares(t)
    BY <1>1, NothingLost DEF SharedInv
<1>3. now \in Nat /\ persisted[t] \in Nat /\ memory[t].activity \in Nat /\ props[t].activity \in Nat
    BY TypedFields, EntryFields
<1>4. /\ now - persisted[t] > IdleTimeout => now' - persisted'[t] > IdleTimeout
      /\ now - memory[t].activity > IdleTimeout => now' - memory'[t].activity > IdleTimeout
      /\ now - props[t].activity > IdleTimeout => now' - props'[t].activity > IdleTimeout
    BY <1>1, <1>3, TabNumbers
<1>. QED BY <1>1, <1>2, <1>4 DEF TabShares, Covers, IsStored

LEMMA SharedInit == Init => SharedInv
<1>. SUFFICES ASSUME Init, NEW t \in Tabs PROVE TabShares(t)
    BY DEF SharedInv
<1>1. memory[t] = NoEntry /\ props[t] = NoEntry /\ pending = {}
    BY DEF Init
<1>. QED BY <1>1, EntryFields DEF TabShares, IsStored

LEMMA SharedStep == TypeOK /\ TypeOK' /\ TabsInv /\ SharedInv /\ [Next]_vars => SharedInv'
<1>. SUFFICES ASSUME TypeOK, TypeOK', TabsInv, SharedInv, [Next]_vars PROVE SharedInv'
    OBVIOUS
<1>1. CASE UNCHANGED vars
    BY <1>1 DEF vars, SharedInv, TabShares, Covers, IsStored, OnlyIn
<1>2. CASE Tick
    BY <1>2, TickShares
<1>3. ASSUME NEW t \in Tabs, TabStep(t) PROVE SharedInv'
    BY <1>3, TabStepShares
<1>. QED BY <1>1, <1>2, <1>3 DEF Next, TabStep


--------------------------------------------------------------------------------
(* The properties.                                                           *)

TabsCorrect == TypeOK /\ TabsInv /\ SharedInv

LEMMA InvInit == Init => TabsCorrect
BY TypeInit, TabsInvInit, SharedInit DEF TabsCorrect

LEMMA InvStep == TabsCorrect /\ [Next]_vars => TabsCorrect'
BY TypeStep, TabsInvStep, SharedStep DEF TabsCorrect

LEMMA TabsAlwaysCorrect == Spec => []TabsCorrect
BY InvInit, InvStep, PTL DEF Spec

LEMMA InUseIsCovered ==
    ASSUME TabsCorrect, ~lost, pending = {}, NEW t \in Tabs, memory[t].id # 0,
           now - memory[t].activity <= IdleTimeout - Granularity
    PROVE  storage.id = memory[t].id
<1>1. /\ now \in Nat /\ persisted[t] \in Nat /\ memory[t].activity \in Nat
      /\ memory[t].activity - persisted[t] < Granularity
      /\ Covers(storage, t)
    BY TypedFields, EntryFields DEF TabsCorrect, TabsInv, TabKeeps, SharedInv, TabShares
<1>2. ~(now - persisted[t] > IdleTimeout)
    BY <1>1, TabNumbers
<1>. QED BY <1>1, <1>2 DEF Covers

\* OneSession of SessionTabs: however the saves, the idle timers and the throttles of
\* any number of tabs interleave, tabs in use at the same time have the same session id,
\* unless a live session has been overwritten.
THEOREM OneSessionAlways == Spec => []OneSession
<1>1. TabsCorrect => OneSession
    BY InUseIsCovered DEF OneSession, TabsCorrect, TypeOK
<1>. QED BY <1>1, TabsAlwaysCorrect, PTL

\* Only an event gives a tab a session that it did not have.
LEMMA EventsChangeSessions ==
    ASSUME TypeOK, [Next]_vars, NEW t \in Tabs, memory'[t] # memory[t], memory'[t].id # 0
    PROVE  \E readOnly \in BOOLEAN : Event(t, readOnly)
<1>0. NoEntry.id = 0
    BY EntryFields
<1>1. ASSUME NEW u \in Tabs, TabStep(u) PROVE \E readOnly \in BOOLEAN : Event(t, readOnly)
  <2>1. OthersSame(u)
      BY <1>1, StepIsOfOneTab
  <2>2. u = t
      BY <2>1 DEF OthersSame
  <2>3. ~Open(t) /\ ~SaveOther(t) /\ ~SaveFires(t)
      BY DEF Open, SaveOther, SaveFires
  <2>4. ~Close(t)
      BY <1>0 DEF Close, TypeOK
  <2>5. ~ResetCall(t)
      BY <1>0, ResetFields DEF ResetCall
  <2>6. ~IdleTimerFires(t)
      BY <1>0, ResetFields, IdleTimerMoves
  <2>. QED BY <1>1, <2>2, <2>3, <2>4, <2>5, <2>6 DEF TabStep
<1>2. ~Tick /\ ~(UNCHANGED vars)
    BY DEF Tick, vars
<1>. QED BY <1>1, <1>2 DEF Next, TabStep

\* A tab that is idle for a rotation has looked in the storage: all that share its
\* session are idle.
LEMMA RotationHasReason ==
    ASSUME TabsCorrect, ~lost, NEW t \in Tabs, NEW readOnly \in BOOLEAN, Event(t, readOnly),
           memory[t].id # 0, props[t].id # 0, now - props[t].start <= MaxLength,
           memory'[t].id > sessions,
           NEW u \in open \ pending, memory[u].id = memory[t].id
    PROVE  now - memory[u].activity > IdleTimeout - Granularity
<1>1. PICK read \in Entries, entry \in Entries, new \in BOOLEAN :
          EventSets(t, readOnly, read, entry, new)
    BY EventMoves DEF TabsCorrect
<1>2. u \in Tabs /\ TabShares(u)
    BY DEF TabsCorrect, TypeOK, SharedInv
<1>3. /\ now \in Nat /\ sessions \in Nat /\ storage \in Entries /\ storage.activity \in Nat
      /\ persisted[u] \in Nat /\ memory[u].activity \in Nat /\ memory[t].activity \in Nat
      /\ props[t].start \in Nat /\ props[t].start <= now /\ storage.activity <= now
      /\ memory[t].activity <= now /\ memory[u].activity <= now
      /\ storage.id # 0 => storage.activity # 0
      /\ memory[u].activity - persisted[u] < Granularity /\ persisted[u] <= memory[u].activity
    BY <1>2, TypedFields, EntryFields
       DEF TabsCorrect, TabsInv, TabKeeps, EntriesDated, HeldEntries
<1>4. new
  <2>1. memory'[t] = entry
      BY <1>1, EventFields DEF TabsCorrect
  <2>2. ~new => entry.id = read.id /\ read \in HeldEntries
      BY <1>1, EventEntry DEF TabsCorrect
  <2>3. ~new => entry.id <= sessions /\ entry.id \in Nat
      BY <2>2, EntryFields DEF TabsCorrect, TabsInv, EntriesDated
  <2>. QED BY <1>3, <2>1, <2>3
<1>5. ~PastMaximum(props[t].start)
    BY <1>3, ApartNow, TabNumbers DEF PastMaximum
<1>6. IdleTooLong(Freshest(t, storage))
    BY <1>1, <1>4, <1>5 DEF EventSets
<1>7. now - storage.activity > IdleTimeout
  <2>. DEFINE f == Freshest(t, storage)
  <2>1. f \in Nat /\ f >= storage.activity /\ (f = storage.activity \/ f = memory[t].activity)
      BY <1>3, FreshestIs DEF TabsCorrect
  <2>. HIDE DEF f
  <2>2. f <= now
      BY <1>3, <2>1
  <2>3. now - f > IdleTimeout
      BY <1>3, <1>6, <2>1, <2>2, ApartNow DEF IdleTooLong, f
  <2>. QED BY <1>3, <2>1, <2>2, <2>3, TabNumbers
<1>8. Covers(storage, u)
    BY <1>2 DEF TabShares
<1>9. now - persisted[u] > IdleTimeout
    BY <1>3, <1>7, <1>8, TabNumbers DEF Covers
<1>. QED BY <1>3, <1>9, TabNumbers

LEMMA RotationStep ==
    ASSUME TabsCorrect, [Next]_vars, NEW t \in Tabs
    PROVE  LET i == memory[t].id IN
           (/\ ~lost /\ i # 0 /\ props[t].id # 0 /\ now - props[t].start <= MaxLength
            /\ memory'[t].id > sessions)
              => \A u \in open \ pending :
                   memory[u].id = i => now - memory[u].activity > IdleTimeout - Granularity
<1>. SUFFICES ASSUME ~lost, memory[t].id # 0, props[t].id # 0,
                     now - props[t].start <= MaxLength, memory'[t].id > sessions
              PROVE  \A u \in open \ pending : memory[u].id = memory[t].id =>
                          now - memory[u].activity > IdleTimeout - Granularity
    OBVIOUS
<1>1. sessions \in Nat /\ memory[t].id \in Nat /\ memory[t].id <= sessions
    BY TypedFields, EntryFields DEF TabsCorrect, TabsInv, EntriesDated, HeldEntries
<1>2. memory'[t].id # memory[t].id /\ memory'[t].id # 0
    BY <1>1
<1>3. PICK readOnly \in BOOLEAN : Event(t, readOnly)
    BY <1>2, EventsChangeSessions DEF TabsCorrect
<1>. QED BY <1>3, RotationHasReason

LEMMA HeardStep ==
    ASSUME TabsCorrect, [Next]_vars, NEW t \in Tabs
    PROVE  LET i == memory'[t].id IN
           (/\ i \notin {0, memory[t].id} /\ props[t].id = memory[t].id)
              => heard'[t] = i
<1>. SUFFICES ASSUME memory'[t].id # 0, memory'[t].id # memory[t].id,
                     props[t].id = memory[t].id
              PROVE  heard'[t] = memory'[t].id
    OBVIOUS
<1>1. PICK readOnly \in BOOLEAN : Event(t, readOnly)
    BY EventsChangeSessions DEF TabsCorrect
<1>2. PICK read \in Entries, entry \in Entries, new \in BOOLEAN :
          EventSets(t, readOnly, read, entry, new)
    BY <1>1, EventMoves DEF TabsCorrect
<1>3. memory'[t] = entry
    BY <1>2, EventFields DEF TabsCorrect
<1>4. ~(~new /\ entry.id = props[t].id)
    BY <1>3
<1>5. heard' = [heard EXCEPT ![t] = entry.id]
    BY <1>2, <1>4 DEF EventSets
<1>. QED BY <1>3, <1>5 DEF TabsCorrect, TypeOK

\* SessionsChangeOpenly of SessionTabs: until a save overwrites a live session, a tab that
\* has an entry of its session, not past the maximum length, does not rotate it while
\* another tab has it in use and has saved that; and a tab whose session changes at a call
\* tells its consumers, unless the idle timer's refresh put the other id in its props first.
THEOREM SessionsChangeOpenlyAlways == Spec => SessionsChangeOpenly
<1>1. TabsCorrect /\ [Next]_vars =>
        [\A t \in Tabs :
           LET i == memory[t].id IN
           (/\ ~lost /\ i # 0 /\ props[t].id # 0 /\ now - props[t].start <= MaxLength
            /\ memory'[t].id > sessions)
              => \A u \in open \ pending :
                   memory[u].id = i => now - memory[u].activity > IdleTimeout - Granularity]_vars
    BY RotationStep
<1>2. TabsCorrect /\ [Next]_vars =>
        [\A t \in Tabs :
           LET i == memory'[t].id IN
           (/\ i \notin {0, memory[t].id} /\ props[t].id = memory[t].id)
              => heard'[t] = i]_vars
    BY HeardStep
<1>3. Spec => NoSpuriousRotation
    BY <1>1, TabsAlwaysCorrect, PTL DEF NoSpuriousRotation, Spec
<1>4. Spec => ChangesAreHeard
    BY <1>2, TabsAlwaysCorrect, PTL DEF ChangesAreHeard, Spec
<1>. QED BY <1>3, <1>4 DEF SessionsChangeOpenly


LEMMA BoundedStep ==
    ASSUME TabsCorrect, [Next]_vars, NEW t \in Tabs
    PROVE  LET i == memory'[t].id IN
           (memory'[t] # memory[t] /\ i # 0)
              => /\ i = props[t].id => now - memory'[t].start <= MaxLength
                 /\ \A e \in Views(i) : e.start = memory'[t].start
<1>. SUFFICES ASSUME memory'[t] # memory[t], memory'[t].id # 0
              PROVE  /\ memory'[t].id = props[t].id => now - memory'[t].start <= MaxLength
                     /\ \A e \in Views(memory'[t].id) : e.start = memory'[t].start
    OBVIOUS
<1>1. PICK readOnly \in BOOLEAN : Event(t, readOnly)
    BY EventsChangeSessions DEF TabsCorrect
<1>2. PICK read \in Entries, entry \in Entries, new \in BOOLEAN :
          EventSets(t, readOnly, read, entry, new)
    BY <1>1, EventMoves DEF TabsCorrect
<1>3. memory'[t] = entry
    BY <1>2, EventFields DEF TabsCorrect
<1>4. /\ new => \A f \in HeldEntries : f.id # entry.id
      /\ ~new => \A f \in HeldEntries : f.id = entry.id /\ f.id # 0 => f.start = entry.start
    BY <1>2, EventEntry DEF TabsCorrect
<1>5. Views(entry.id) \subseteq {f \in HeldEntries : f.id = entry.id}
    BY DEF Views, HeldEntries, TabsCorrect, TypeOK
<1>6. \A e \in Views(entry.id) : e.start = entry.start
    BY <1>3, <1>4, <1>5
<1>7. ASSUME entry.id = props[t].id PROVE now - entry.start <= MaxLength
  <2>1. props[t] \in HeldEntries
      BY DEF HeldEntries
  <2>2. ~new /\ entry.start = props[t].start
      BY <1>3, <1>4, <1>7, <2>1
  <2>3. ~PastMaximum(props[t].start)
      BY <1>2, <2>2 DEF EventSets
  <2>4. /\ now \in Nat /\ props[t].start \in Nat /\ props[t].start <= now
        /\ props[t].start # 0
      BY <1>3, <1>7, <2>1, TypedFields, EntryFields DEF TabsCorrect, TabsInv, EntriesDated
  <2>. QED BY <2>2, <2>3, <2>4, ApartNow, TabNumbers DEF PastMaximum
<1>. QED BY <1>3, <1>6, <1>7

\* An event extends a session that is live in the storage or in the tab.
LEMMA LiveStep ==
    ASSUME TabsCorrect, [Next]_vars, NEW t \in Tabs
    PROVE  LET i == memory'[t].id IN
           (/\ ~lost /\ memory'[t] # memory[t]
            /\ i \in 1..sessions /\ memory'[t].activity = now)
              => \E e \in Views(i) : Live(e)
<1>. SUFFICES ASSUME ~lost, memory'[t] # memory[t], memory'[t].id \in 1..sessions,
                     memory'[t].activity = now
              PROVE  \E e \in Views(memory'[t].id) : Live(e)
    OBVIOUS
<1>. DEFINE m == memory[t]
            c == props[t]
<1>0. sessions \in Nat /\ memory'[t].id # 0
    BY TypedFields DEF TabsCorrect
<1>1. PICK readOnly \in BOOLEAN : Event(t, readOnly)
    BY <1>0, EventsChangeSessions DEF TabsCorrect
<1>2. t \in open
    BY <1>1, EventMoves DEF TabsCorrect
<1>3. PICK read \in Entries, entry \in Entries, new \in BOOLEAN :
          EventSets(t, readOnly, read, entry, new)
    BY <1>1, EventMoves DEF TabsCorrect
<1>4. memory'[t] = entry
    BY <1>3, EventFields DEF TabsCorrect
<1>5. ~new
    BY <1>0, <1>3, <1>4 DEF EventSets
<1>6. /\ entry.id = read.id /\ (readOnly => read = c)
      /\ readOnly => c.activity = now \/ m.activity = now
    BY <1>3, <1>4, <1>5, EventEntry DEF TabsCorrect
<1>7. /\ c.id # 0 /\ (readOnly \/ ~IdleTooLong(Freshest(t, read)))
      /\ read = c \/ (read = storage /\ IdleTooLong(Freshest(t, c)))
    BY <1>3, <1>5 DEF EventSets
<1>8. /\ now \in Nat /\ now >= 1 /\ read \in HeldEntries /\ read.id # 0
      /\ c \in Entries /\ c \in HeldEntries /\ m \in HeldEntries
      /\ c.activity \in Nat /\ m.activity \in Nat /\ read.activity \in Nat
      /\ c.activity <= now /\ m.activity <= now /\ read.activity <= now
      /\ read.activity # 0 /\ c.activity # 0
  <2>1. now \in Nat /\ now >= 1 /\ c \in HeldEntries /\ m \in HeldEntries /\ storage \in HeldEntries
      BY TypedFields DEF HeldEntries, TabsCorrect
  <2>2. read \in HeldEntries /\ read.id # 0
      BY <1>0, <1>4, <1>6, <1>7, <2>1
  <2>. QED BY <1>7, <2>1, <2>2, TypedFields, EntryFields DEF TabsCorrect, TabsInv, EntriesDated
<1>9. /\ read \in Views(entry.id)
      /\ m.id = entry.id => m \in Views(entry.id)
    BY <1>2, <1>6, <1>7 DEF Views
<1>10. m.activity # 0 /\ c.id # m.id => now - m.activity > IdleTimeout
    BY DEF TabsCorrect, SharedInv, TabShares
<1>. HIDE DEF m, c
<1>11. CASE readOnly
  <2>1. CASE c.activity = now
      BY <1>4, <1>6, <1>8, <1>9, <1>11, <2>1, TabNumbers DEF Live
  <2>2. CASE m.activity = now
    <3>1. c.id = m.id
        BY <1>8, <1>10, <2>2, TabNumbers
    <3>2. now - m.activity <= IdleTimeout /\ m.id # 0
        BY <1>7, <1>8, <2>2, <3>1, TabNumbers
    <3>. QED BY <1>4, <1>6, <1>9, <1>11, <3>1, <3>2 DEF Live
  <2>. QED BY <1>6, <1>11, <2>1, <2>2
<1>12. CASE ~readOnly
  <2>. DEFINE f == Freshest(t, read)
  <2>1. f \in Nat /\ f >= read.activity /\ (f = read.activity \/ f = m.activity)
      BY FreshestIs DEF TabsCorrect, m
  <2>2. now - f <= IdleTimeout
    <3>. HIDE DEF f
    <3>1. f > 0 /\ f <= now
        BY <1>8, <2>1
    <3>2. ~(Apart(now, f) > IdleTimeout)
        BY <1>7, <1>12, <3>1 DEF IdleTooLong, f
    <3>. QED BY <1>8, <2>1, <3>1, <3>2, ApartNow, TabNumbers
  <2>. HIDE DEF f
  <2>3. CASE f = read.activity
      BY <1>4, <1>8, <1>9, <2>2, <2>3 DEF Live
  <2>4. CASE f = m.activity
    <3>1. ~(now - m.activity > IdleTimeout) /\ m.activity # 0
        BY <1>8, <2>1, <2>2, <2>4, TabNumbers
    <3>2. ~(read = storage /\ IdleTooLong(Freshest(t, c)))
      <4>. DEFINE g == Freshest(t, c)
      <4>1. g \in Nat /\ g >= m.activity /\ (g = c.activity \/ g = m.activity)
          BY <1>8, FreshestIs DEF TabsCorrect, m, c
      <4>. HIDE DEF g
      <4>2. g <= now
          BY <1>8, <4>1
      <4>3. ~(now - g > IdleTimeout)
          BY <1>8, <3>1, <4>1, <4>2, TabNumbers
      <4>4. ~IdleTooLong(g)
          BY <1>8, <4>1, <4>2, <4>3, ApartNow DEF IdleTooLong
      <4>. QED BY <4>4 DEF g
    <3>3. read = c /\ c.id = m.id
        BY <1>7, <1>10, <3>1, <3>2
    <3>4. m.id = entry.id /\ m.id # 0 /\ now - m.activity <= IdleTimeout
        BY <1>6, <1>7, <2>2, <2>4, <3>3
    <3>. QED BY <1>4, <1>9, <3>4 DEF Live
  <2>. QED BY <2>1, <2>3, <2>4
<1>. QED BY <1>11, <1>12

\* SessionsEnd of SessionTabs: no event of a tab goes on, past the maximum length, with the
\* session that the tab had before it looked in the storage, and storage and tabs give one
\* start to the session it goes on with; and, until a save overwrites a live session, no
\* event revives a session that is idle in the storage and in every tab.
THEOREM SessionsEndAlways == Spec => SessionsEnd
<1>1. TabsCorrect /\ [Next]_vars =>
        [\A t \in Tabs :
           LET i == memory'[t].id IN
           (memory'[t] # memory[t] /\ i # 0)
              => /\ i = props[t].id => now - memory'[t].start <= MaxLength
                 /\ \A e \in Views(i) : e.start = memory'[t].start]_vars
    BY BoundedStep
<1>2. TabsCorrect /\ [Next]_vars =>
        [\A t \in Tabs :
           LET i == memory'[t].id IN
           (/\ ~lost /\ memory'[t] # memory[t]
            /\ i \in 1..sessions /\ memory'[t].activity = now)
              => \E e \in Views(i) : Live(e)]_vars
    BY LiveStep
<1>3. Spec => SessionsAreBounded
    BY <1>1, TabsAlwaysCorrect, PTL DEF SessionsAreBounded, Spec
<1>4. Spec => IdleSessionsEnd
    BY <1>2, TabsAlwaysCorrect, PTL DEF IdleSessionsEnd, Spec
<1>. QED BY <1>3, <1>4 DEF SessionsEnd

--------------------------------------------------------------------------------
(* What it takes for an event to have no session.                             *)

\* An entry without a session is empty.
NullsAreEmpty == \A e \in HeldEntries : e.id = 0 => e = NoEntry

\* An event of a tab that has had none of its own since it was opened or reset, of
\* which the props name a session that seems idle, and the storage none.
ReadsNothing(t) ==
    /\ Event(t, FALSE)
    /\ memory[t] = NoEntry
    /\ props[t].id # 0 /\ IdleTooLong(props[t].activity)
    /\ storage.id = 0

\* What steps other than events leave is what was held, or nothing.
LEMMA OtherStepsHold ==
    ASSUME TypeOK, NEW t \in Tabs, TabStep(t), ~\E readOnly \in BOOLEAN : Event(t, readOnly)
    PROVE  HeldEntries' \subseteq HeldEntries \cup {NoEntry}
<1>1. OthersSame(t)
    BY StepIsOfOneTab
<1>2. storage \in HeldEntries /\ props[t] \in HeldEntries /\ memory[t] \in HeldEntries
    BY DEF HeldEntries
<1>3. /\ memory'[t] \in HeldEntries \cup {NoEntry}
      /\ props'[t] \in HeldEntries \cup {NoEntry}
      /\ storage' \in HeldEntries \cup {NoEntry}
  <2>1. CASE Open(t)
    <3>1. memory' = memory /\ props'[t] = storage /\ Save(t, storage)
        BY <2>1 DEF Open, TypeOK
    <3>. QED BY <1>2, <3>1, SaveMoves
  <2>2. CASE Close(t)
    <3>1. memory'[t] = NoEntry /\ props'[t] = NoEntry
          /\ storage' \in {storage, props[t], memory[t]}
        BY <2>2 DEF Close, TypeOK
    <3>. QED BY <1>2, <3>1
  <2>3. CASE ResetCall(t)
      BY <2>3, ResetFields DEF ResetCall
  <2>4. CASE IdleTimerFires(t)
      BY <1>2, <2>4, IdleTimerMoves, ResetFields, SaveMoves
  <2>5. CASE SaveOther(t)
      BY <1>2, <2>5, SaveMoves DEF SaveOther
  <2>6. CASE SaveFires(t)
      BY <1>2, <2>6 DEF SaveFires
  <2>. QED BY <2>1, <2>2, <2>3, <2>4, <2>5, <2>6 DEF TabStep
<1>4. HeldEntries' \subseteq HeldEntries \cup {NoEntry, NoEntry}
    BY <1>1, <1>3, EntriesOfOneTab
<1>. QED BY <1>4

\* An event that reads some entry has a session: its own is idle only with the entry
\* that it read first.
LEMMA EventHasSession ==
    ASSUME TypeOK, TabsInv, NullsAreEmpty, NEW t \in Tabs, NEW readOnly \in BOOLEAN,
           Event(t, readOnly), ~ReadsNothing(t), NEW read \in Entries, NEW entry \in Entries,
           NEW new \in BOOLEAN, EventSets(t, readOnly, read, entry, new)
    PROVE  entry.id # 0
<1>. SUFFICES ASSUME entry.id = 0 PROVE FALSE
    OBVIOUS
<1>. DEFINE cached == props[t]
            seen == Freshest(t, cached)
<1>1. /\ now \in Nat /\ sessions \in Nat
      /\ storage \in HeldEntries /\ cached \in HeldEntries /\ memory[t] \in HeldEntries
      /\ storage \in Entries /\ cached \in Entries /\ memory[t] \in Entries
    BY TypedFields DEF HeldEntries
<1>2. ~new
    BY <1>1 DEF EventSets
<1>3. ~readOnly
    BY EventEntry
<1>4. /\ read.id = 0 /\ cached.id # 0 /\ ~IdleTooLong(Freshest(t, read))
      /\ read # cached => read = storage /\ IdleTooLong(seen)
    BY <1>2, <1>3 DEF EventSets
<1>5. read = storage /\ IdleTooLong(seen) /\ storage.id = 0 /\ storage = NoEntry
    BY <1>1, <1>4 DEF NullsAreEmpty
<1>6. Event(t, FALSE)
    BY <1>3
<1>7. memory[t] # NoEntry /\ memory[t].id # 0
  <2>1. memory[t] # NoEntry \/ seen = cached.activity
      BY <1>1, EntryFields DEF Freshest, Later
  <2>. QED BY <1>1, <1>4, <1>5, <1>6, <2>1 DEF ReadsNothing, NullsAreEmpty
<1>8. /\ memory[t].activity \in Nat /\ memory[t].activity # 0 /\ memory[t].activity <= now
      /\ cached.activity \in Nat /\ cached.activity <= now
    BY <1>1, <1>7, EntryFields DEF TabsInv, EntriesDated
<1>9. Freshest(t, read) = memory[t].activity
    BY <1>5, <1>8, EntryFields DEF Freshest, Later
<1>10. seen \in Nat /\ seen >= memory[t].activity /\ seen <= now
    BY <1>1, <1>8, FreshestIs
<1>. HIDE DEF seen, cached
<1>11. now - seen > IdleTimeout
    BY <1>1, <1>5, <1>10, ApartNow DEF IdleTooLong
<1>12. ~(now - memory[t].activity > IdleTimeout)
  <2>1. Apart(now, memory[t].activity) = now - memory[t].activity
      BY <1>1, <1>8, ApartNow
  <2>2. memory[t].activity > 0
      BY <1>8
  <2>. QED BY <1>4, <1>9, <2>1, <2>2 DEF IdleTooLong
<1>. QED BY <1>1, <1>8, <1>10, <1>11, <1>12, TabNumbers

LEMMA NullsStep ==
    TypeOK /\ TabsInv /\ NullsAreEmpty /\ [Next /\ ~\E t \in Tabs : ReadsNothing(t)]_vars
        => NullsAreEmpty'
<1>. SUFFICES ASSUME TypeOK, TabsInv, NullsAreEmpty,
                     [Next /\ ~\E t \in Tabs : ReadsNothing(t)]_vars
              PROVE  NullsAreEmpty'
    OBVIOUS
<1>1. CASE UNCHANGED vars \/ Tick
  <2>1. UNCHANGED <<storage, props, memory>>
      BY <1>1 DEF vars, Tick
  <2>. QED BY <2>1 DEF NullsAreEmpty, HeldEntries
<1>2. ASSUME NEW t \in Tabs, TabStep(t), \A u \in Tabs : ~ReadsNothing(u) PROVE NullsAreEmpty'
  <2>1. CASE ~\E readOnly \in BOOLEAN : Event(t, readOnly)
    <3>1. HeldEntries' \subseteq HeldEntries \cup {NoEntry}
        BY <1>2, <2>1, OtherStepsHold
    <3>. QED BY <3>1 DEF NullsAreEmpty
  <2>2. ASSUME NEW readOnly \in BOOLEAN, Event(t, readOnly) PROVE NullsAreEmpty'
    <3>1. PICK read \in Entries, entry \in Entries, new \in BOOLEAN :
              EventSets(t, readOnly, read, entry, new)
        BY <2>2, EventMoves
    <3>2. entry.id # 0
        BY <1>2, <2>2, <3>1, EventHasSession
    <3>3. read \in HeldEntries /\ storage \in HeldEntries
        BY <3>1, EventEntry DEF HeldEntries
    <3>4. memory'[t] = entry /\ props'[t] \in {read, entry} /\ storage' \in {storage, entry}
        BY <3>1, EventFields
    <3>5. OthersSame(t)
        BY <1>2, StepIsOfOneTab
    <3>6. HeldEntries' \subseteq HeldEntries \cup {NoEntry, entry}
        BY <3>3, <3>4, <3>5, EntriesOfOneTab
    <3>. QED BY <3>2, <3>6 DEF NullsAreEmpty
  <2>. QED BY <2>1, <2>2
<1>. QED BY <1>1, <1>2 DEF Next, TabStep

\* An event has a null session (sessionid.ts, "if the sessionId or windowId is not set, it
\* will generate a new one") only if it is the first of its tab, which names an idle
\* session in its props, and finds none in the storage: without such events every tab
\* that has had one is in a session, whatever tabs, timers, resets and kills do.  With
\* them the property fails (run session_tabs_null).
THEOREM NullSessionNeedsEmptyStorage ==
    Init /\ [][Next /\ ~\E t \in Tabs : ReadsNothing(t)]_vars => []EventsHaveSession
<1>1. Init => NullsAreEmpty
  <2>. SUFFICES ASSUME Init PROVE NullsAreEmpty
      OBVIOUS
  <2>1. HeldEntries \subseteq {NoEntry}
      BY DEF Init, HeldEntries
  <2>. QED BY <2>1 DEF NullsAreEmpty
<1>2. TypeOK /\ TabsInv /\ [Next /\ ~\E t \in Tabs : ReadsNothing(t)]_vars
        => TypeOK' /\ TabsInv'
    BY TypeStep, TabsInvStep
<1>3. TypeOK /\ NullsAreEmpty => EventsHaveSession
  <2>. SUFFICES ASSUME TypeOK, NullsAreEmpty, NEW t \in open, memory[t].id = 0
                PROVE  memory[t] = NoEntry
      BY DEF EventsHaveSession
  <2>1. memory[t] \in HeldEntries
      BY DEF HeldEntries, TypeOK
  <2>. QED BY <2>1 DEF NullsAreEmpty
<1>. QED BY <1>1, <1>2, <1>3, TypeInit, TabsInvInit, NullsStep, PTL

================================================================================
