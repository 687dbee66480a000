------------------------------ MODULE DurableQueue ------------------------------
(***************************************************************************)
(* A delivery queue kept in the storage of posthog-react-native            *)
(* (packages/react-native/src/storage.ts): a cache in memory, one          *)
(* debounced write of all of it, writes in flight, waitForPersist, crashes *)
(* and restarts.  The event and the log pipelines both advance their queue *)
(* in the cache and wait for the storage before they take what was sent    *)
(* for sent (flushStorage, posthog-rn.ts).                                 *)
(*                                                                         *)
(* Messages are numbered in the order of their captures.  The backend of   *)
(* the storage is external: it writes a value at once, or later, and then  *)
(* may also fail or finish after a later write.                            *)
(***************************************************************************)
EXTENDS Naturals, FiniteSets

CONSTANTS
    MaxMessages,  \* bound: messages captured
    MaxWrites,    \* bound: asynchronous writes started
    MaxCrashes    \* bound: crashes of the app

ASSUME DurableAssumption ==
    MaxMessages \in Nat /\ MaxWrites \in Nat /\ MaxCrashes \in Nat

VARIABLES
    syncBackend,  \* setItem of the backend returns no promise (external)
    running,      \* the app runs
    captured,     \* history: the number of messages captured
    cache,        \* the queue in memoryCache
    persistTimer, \* _persistTimer is set
    written,      \* history: asynchronous writes started
    writes,       \* _pendingPromises: what each write in flight carries
    disk,         \* the queue in the storage (external)
    delivery,     \* the flush of the pipeline: its batch and what it awaits
    drain,        \* a waitForPersist of the app's lifecycle
    answered,     \* history: messages in an answered batch
    settled,      \* history: messages whose flush went on after the storage
    drained,      \* history: messages that a returned waitForPersist covers
    faulty,       \* history: a write has failed, or finished after a later one
    crashes       \* history: crashes so far

duVars == <<syncBackend, running, captured, cache, persistTimer, written, writes, disk,
            delivery, drain, answered, settled, drained, faulty, crashes>>

Messages == 1..MaxMessages
WriteIds == 1..MaxWrites
NoWrites == [id \in {} |-> {}]
Idle == [at |-> "idle", batch |-> {}, awaits |-> {}]

DurableTypeOK ==
    /\ syncBackend \in BOOLEAN /\ running \in BOOLEAN /\ faulty \in BOOLEAN
    /\ persistTimer \in BOOLEAN
    /\ captured \in 0..MaxMessages /\ written \in 0..MaxWrites /\ crashes \in 0..MaxCrashes
    /\ cache \subseteq Messages /\ disk \subseteq Messages
    /\ answered \subseteq Messages /\ settled \subseteq Messages /\ drained \subseteq Messages
    /\ DOMAIN writes \subseteq WriteIds
    /\ \A id \in DOMAIN writes : writes[id] \subseteq Messages
    /\ delivery \in [at : {"idle", "sending", "storing"}, batch : SUBSET Messages,
                     awaits : SUBSET WriteIds]
    /\ drain \in [at : {"idle", "storing"}, batch : SUBSET Messages, awaits : SUBSET WriteIds]

DurableInit ==
    /\ syncBackend \in BOOLEAN /\ running = TRUE
    /\ captured = 0 /\ written = 0 /\ crashes = 0
    /\ cache = {} /\ disk = {} /\ persistTimer = FALSE /\ writes = NoWrites
    /\ delivery = Idle /\ drain = Idle
    /\ answered = {} /\ settled = {} /\ drained = {} /\ faulty = FALSE

--------------------------------------------------------------------------------
(* Writes *)

\* persist: all of the cache, as it is now.  A backend that throws at once is
\* caught and logged.
Persist(content) ==
    \/ /\ syncBackend
       /\ \/ disk' = content /\ UNCHANGED faulty
          \/ faulty' = TRUE /\ UNCHANGED disk
       /\ UNCHANGED <<written, writes>>
    \/ /\ ~syncBackend /\ written < MaxWrites
       /\ written' = written + 1
       /\ writes' = [id \in DOMAIN writes \cup {written + 1} |->
                        IF id \in DOMAIN writes THEN writes[id] ELSE content]
       /\ UNCHANGED <<disk, faulty>>

PersistTimerFires ==
    /\ running /\ persistTimer
    /\ persistTimer' = FALSE
    /\ Persist(cache)
    /\ UNCHANGED <<syncBackend, running, captured, cache, delivery, drain, answered, settled,
                   drained, crashes>>

\* A write in flight ends, with or without effect.
WriteEnds(id, succeeds) ==
    /\ running /\ id \in DOMAIN writes
    /\ writes' = [other \in DOMAIN writes \ {id} |-> writes[other]]
    /\ disk' = IF succeeds THEN writes[id] ELSE disk
    /\ faulty' = (faulty \/ ~succeeds \/ \E other \in DOMAIN writes : other < id)
    /\ UNCHANGED <<syncBackend, running, captured, cache, persistTimer, written, delivery,
                   drain, answered, settled, drained, crashes>>

\* Mutant: waitForPersist leaves a scheduled write to its timer.
WaitForPersistLazily(scheduled, content) ==
    /\ persistTimer' = scheduled
    /\ UNCHANGED <<written, writes, disk, faulty>>

\* waitForPersist up to its await: a scheduled write starts now.  The caller
\* then awaits all that are in flight.
WaitForPersist(scheduled, content) ==
    IF scheduled THEN persistTimer' = FALSE /\ Persist(content)
                 ELSE UNCHANGED <<persistTimer, written, writes, disk, faulty>>

Finished(awaits) == awaits \cap DOMAIN writes = {}

--------------------------------------------------------------------------------
(* The pipeline over the cache *)

\* setItem of the queue: schedulePersist keeps a timer that is set.
CaptureMessage ==
    /\ running /\ captured < MaxMessages
    /\ captured' = captured + 1
    /\ cache' = cache \cup {captured + 1}
    /\ persistTimer' = TRUE
    /\ UNCHANGED <<syncBackend, running, written, writes, disk, delivery, drain, answered,
                   settled, drained, faulty, crashes>>

SendBatch ==
    /\ running /\ delivery = Idle
    /\ \E n \in cache : delivery' = [at |-> "sending", batch |-> {m \in cache : m <= n},
                                     awaits |-> {}]
    /\ UNCHANGED <<syncBackend, running, captured, cache, persistTimer, written, writes, disk,
                   drain, answered, settled, drained, faulty, crashes>>

\* The server answers, with a success or a refusal: the batch leaves the queue,
\* which schedules a write, and flushStorage forces it.
BatchAnswered ==
    /\ running /\ delivery.at = "sending"
    /\ cache' = cache \ delivery.batch
    /\ WaitForPersist(TRUE, cache')
    /\ delivery' = [delivery EXCEPT !.at = "storing", !.awaits = DOMAIN writes']
    /\ answered' = answered \cup delivery.batch
    /\ UNCHANGED <<syncBackend, running, captured, drain, settled, drained, crashes>>

\* No answer came: the batch stays queued.
BatchFails ==
    /\ running /\ delivery.at = "sending"
    /\ delivery' = Idle
    /\ UNCHANGED <<syncBackend, running, captured, cache, persistTimer, written, writes, disk,
                   drain, answered, settled, drained, faulty, crashes>>

\* flushStorage returns, and the flush goes on.
BatchSettles ==
    /\ running /\ delivery.at = "storing" /\ Finished(delivery.awaits)
    /\ settled' = settled \cup delivery.batch
    /\ delivery' = Idle
    /\ UNCHANGED <<syncBackend, running, captured, cache, persistTimer, written, writes, disk,
                   drain, answered, drained, faulty, crashes>>

--------------------------------------------------------------------------------
(* The life of the app *)

\* waitForPersist for the sake of the app: background, shutdown, opting out,
\* a fatal exception.
DrainStorage ==
    /\ running /\ drain = Idle
    /\ WaitForPersist(persistTimer, cache)
    /\ drain' = [at |-> "storing", batch |-> cache, awaits |-> DOMAIN writes']
    /\ UNCHANGED <<syncBackend, running, captured, cache, delivery, answered, settled,
                   drained, crashes>>

DrainReturns ==
    /\ running /\ drain.at = "storing" /\ Finished(drain.awaits)
    /\ drained' = drained \cup drain.batch
    /\ drain' = Idle
    /\ UNCHANGED <<syncBackend, running, captured, cache, persistTimer, written, writes, disk,
                   delivery, answered, settled, faulty, crashes>>

\* Each write in flight may or may not have reached the storage.
Crash ==
    /\ running /\ crashes < MaxCrashes
    /\ running' = FALSE /\ crashes' = crashes + 1
    /\ disk' \in {disk} \cup {writes[id] : id \in DOMAIN writes}
    /\ cache' = {} /\ persistTimer' = FALSE /\ writes' = NoWrites
    /\ delivery' = Idle /\ drain' = Idle
    /\ UNCHANGED <<syncBackend, captured, written, answered, settled, drained, faulty>>

\* The constructor preloads the cache, and the client waits for it.
Restart ==
    /\ ~running
    /\ running' = TRUE
    /\ cache' = disk
    /\ UNCHANGED <<syncBackend, captured, persistTimer, written, writes, disk, delivery, drain,
                   answered, settled, drained, faulty, crashes>>

--------------------------------------------------------------------------------
DurableNext ==
    \/ CaptureMessage \/ PersistTimerFires
    \/ \E id \in WriteIds, succeeds \in BOOLEAN : WriteEnds(id, succeeds)
    \/ SendBatch \/ BatchAnswered \/ BatchFails \/ BatchSettles
    \/ DrainStorage \/ DrainReturns
    \/ Crash \/ Restart

DurableSpec == DurableInit /\ [][DurableNext]_duVars

--------------------------------------------------------------------------------
(* Properties *)

\* A batch whose flush has gone on is not sent again after any crash
\* (posthog-rn.ts:586-590: "preventing duplicate events on app crash/restart"):
\* neither the storage nor a write in flight brings it back.
SettledStayGone ==
    \A m \in settled :
        m \notin cache \cup disk /\ \A id \in DOMAIN writes : m \notin writes[id]

\* What a returned waitForPersist covers is in the storage until the server
\* has it, whatever is captured, sent, written or crashes meanwhile.
DrainedSurvive == drained \ answered \subseteq disk

\* Both hold while the backend neither fails nor reorders writes.
CrashSafe == faulty \/ (SettledStayGone /\ DrainedSurvive)

\* Once the writes of W have ended, and no other, the storage is one of contents.
LastOf(W) == {id \in W : \A other \in W : other <= id}
StorageComesTo(contents, W) ==
    IF W = {} THEN disk \in contents ELSE \A id \in LastOf(W) : writes[id] \in contents

\* No change of the cache is forgotten (storage.ts:104-148): a timer or a write
\* in flight will bring it to the storage, although flushes, drains and the
\* timer all start writes; only a write that fails is not made again.
CacheIsWritten ==
    running => faulty \/ persistTimer \/ StorageComesTo({cache}, DOMAIN writes)

\* What is on disk follows the cache, and keeps its promises over a crash.
StorageFollows == CrashSafe /\ CacheIsWritten
================================================================================
