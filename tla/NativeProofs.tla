------------------------------ MODULE NativeProofs ------------------------------
(***************************************************************************)
(* What posthog-react-native promises of its storage and of its bridge.    *)
(*                                                                         *)
(* DurableQueue: what a queue finds after a crash, for any number of       *)
(* messages, writes and crashes.  A caller of waitForPersist awaits the    *)
(* writes in flight.  What it waits for is in the last of them until they  *)
(* have ended, in the storage after that, and no write that starts later   *)
(* undoes it: a Promise.                                                   *)
(*                                                                         *)
(* NativeBridge: what the native SDK has been told, for any number of      *)
(* identities, sessions and stimuli.  What a call reads before it crosses  *)
(* the bridge is right, or a command, or an evaluation, that is behind it  *)
(* will correct it.                                                        *)
(***************************************************************************)
EXTENDS DurableQueue, NativeBridge, SequenceTheorems, TLAPS

--------------------------------------------------------------------------------
(* The storage.                                                                 *)


\* What is awaited leaves one of contents in the storage, and what started later
\* keeps it so.
Promise(awaits, contents) ==
    /\ StorageComesTo(contents, awaits \cap DOMAIN writes)
    /\ \A id \in DOMAIN writes \ awaits : writes[id] \in contents

\* The contents without the messages of B, and those with all of them.
Without(B) == SUBSET (Messages \ B)
Covering(B) == {content \in SUBSET Messages : B \subseteq content}

\* What was awaited started before what is not.
Ordered(awaits) ==
    /\ awaits \subseteq 1..written
    /\ \A a \in awaits \cap DOMAIN writes, b \in DOMAIN writes \ awaits : a < b

\* Writes are numbered as they start, also for those who await them.
Numbered ==
    /\ DOMAIN writes \subseteq 1..written
    /\ syncBackend => DOMAIN writes = {}
    /\ Ordered(delivery.awaits) /\ Ordered(drain.awaits)

\* Only captured messages are anywhere.
OnlyCaptured ==
    /\ cache \subseteq 1..captured /\ disk \subseteq 1..captured
    /\ \A id \in DOMAIN writes : writes[id] \subseteq 1..captured
    /\ delivery.batch \subseteq 1..captured /\ settled \subseteq 1..captured

\* A stopped app writes nothing.
StoppedIsStill == ~running => writes = NoWrites /\ delivery = Idle /\ drain = Idle

\* A flush that awaits the storage: no write brings its batch back.
BatchLeaves ==
    delivery.at = "storing" =>
        cache \in Without(delivery.batch) /\ Promise(delivery.awaits, Without(delivery.batch))

\* A drain that awaits the storage: no write leaves out what it covers.
DrainArrives ==
    drain.at = "storing" =>
        /\ cache \in Covering(drain.batch \ answered)
        /\ Promise(drain.awaits, Covering(drain.batch \ answered))

\* What was settled stays away, also from every write.
SettledGone == cache \in Without(settled) /\ Promise({}, Without(settled))

\* What was drained stays in the cache and in every write until it is answered.
DrainedStay ==
    /\ running => cache \in Covering(drained \ answered)
    /\ Promise({}, Covering(drained \ answered))

\* The cache is what the storage comes to.
CacheArrives == running => persistTimer \/ Promise(DOMAIN writes, {cache})

StorageInv == Numbered /\ OnlyCaptured /\ StoppedIsStill
PromisesKept == BatchLeaves /\ DrainArrives /\ SettledGone /\ DrainedStay /\ CacheArrives

DQInv == DurableTypeOK /\ StorageInv /\ (~faulty => PromisesKept)

--------------------------------------------------------------------------------
(* Writes, and what has been promised of them.                              *)

\* What persist does unless it fails: it writes at once, when no write is in
\* flight, or starts the last of the writes.
WritesAtOnce(content) ==
    /\ DOMAIN writes = {}
    /\ disk' = content /\ writes' = writes /\ written' = written

StartsWrite(content) ==
    /\ written' = written + 1 /\ disk' = disk
    /\ DOMAIN writes' = DOMAIN writes \cup {written + 1}
    /\ written + 1 \notin DOMAIN writes
    /\ writes'[written + 1] = content
    /\ \A id \in DOMAIN writes : writes'[id] = writes[id]

LEMMA PersistWrites ==
    ASSUME DurableTypeOK, Numbered, NEW content, Persist(content), ~faulty'
    PROVE  WritesAtOnce(content) \/ StartsWrite(content)
<1>1. CASE syncBackend /\ disk' = content /\ UNCHANGED <<written, writes>>
    BY <1>1, Zenon DEF WritesAtOnce, Numbered
<1>2. CASE /\ written' = written + 1
           /\ writes' = [id \in DOMAIN writes \cup {written + 1} |->
                            IF id \in DOMAIN writes THEN writes[id] ELSE content]
           /\ UNCHANGED disk
  <2>1. written \in Nat /\ DOMAIN writes \subseteq 1..written
      BY DurableAssumption DEF DurableTypeOK, Numbered
  <2>2. written + 1 \notin DOMAIN writes
      BY <2>1
  <2>. QED BY <1>2, <2>2 DEF StartsWrite
<1>. QED BY <1>1, <1>2, Zenon DEF Persist

\* A later write keeps a promise that its content meets.
LEMMA PersistKeeps ==
    ASSUME DurableTypeOK, Numbered, NEW content, Persist(content), ~faulty',
           NEW awaits, awaits \subseteq 1..written, NEW contents, content \in contents,
           Promise(awaits, contents)
    PROVE  Promise(awaits, contents)'
<1>1. CASE WritesAtOnce(content)
    BY <1>1 DEF WritesAtOnce, Promise, StorageComesTo
<1>2. CASE StartsWrite(content)
  <2>1. written \in Nat
      BY DurableAssumption DEF DurableTypeOK
  <2>2. awaits \cap DOMAIN writes' = awaits \cap DOMAIN writes
      BY <1>2, <2>1 DEF StartsWrite
  <2>3. StorageComesTo(contents, awaits \cap DOMAIN writes)'
      BY <1>2, <2>2 DEF StartsWrite, Promise, StorageComesTo, LastOf
  <2>4. \A id \in DOMAIN writes' \ awaits : writes'[id] \in contents
      BY <1>2 DEF StartsWrite, Promise
  <2>. QED BY <2>3, <2>4 DEF Promise
<1>. QED BY <1>1, <1>2, PersistWrites

\* Who awaits all writes that are now in flight is promised the last content.
LEMMA PersistPromises ==
    ASSUME DurableTypeOK, Numbered, NEW content, Persist(content), ~faulty',
           NEW contents, content \in contents
    PROVE  Promise(DOMAIN writes, contents)'
<1>1. CASE WritesAtOnce(content)
    BY <1>1 DEF WritesAtOnce, Promise, StorageComesTo
<1>2. CASE StartsWrite(content)
  <2>1. written \in Nat /\ DOMAIN writes \subseteq 1..written
      BY DurableAssumption DEF DurableTypeOK, Numbered
  <2>2. LastOf(DOMAIN writes)' \subseteq {written + 1}
      BY <1>2, <2>1 DEF StartsWrite, LastOf
  <2>3. \A id \in LastOf(DOMAIN writes)' : writes'[id] \in contents
      BY <1>2, <2>2 DEF StartsWrite
  <2>. QED BY <1>2, <2>3 DEF StartsWrite, Promise, StorageComesTo
<1>. QED BY <1>1, <1>2, PersistWrites

\* persist keeps the writes in order, also when it fails.
LEMMA PersistNumbers ==
    ASSUME DurableTypeOK, Numbered, NEW content, Persist(content)
    PROVE  /\ DOMAIN writes' \subseteq 1..written'
           /\ syncBackend => DOMAIN writes' = {}
           /\ Ordered(DOMAIN writes)'
           /\ \A awaits : Ordered(awaits) => Ordered(awaits)'
<1>1. written \in Nat /\ DOMAIN writes \subseteq 1..written
    BY DurableAssumption DEF DurableTypeOK, Numbered
<1>2. CASE syncBackend /\ UNCHANGED <<written, writes>>
    BY <1>1, <1>2 DEF Numbered, Ordered
<1>3. CASE /\ ~syncBackend /\ written' = written + 1
           /\ DOMAIN writes' = DOMAIN writes \cup {written + 1}
  <2>1. \A awaits : Ordered(awaits) => Ordered(awaits)'
      BY <1>1, <1>3 DEF Ordered
  <2>. QED BY <1>1, <1>3, <2>1 DEF Ordered
<1>4. (syncBackend /\ UNCHANGED <<written, writes>>)
      \/ (/\ ~syncBackend /\ written' = written + 1
          /\ DOMAIN writes' = DOMAIN writes \cup {written + 1})
    BY DEF Persist
<1>. QED BY <1>2, <1>3, <1>4

\* A write that ends keeps every promise, if it succeeds and is the first of those
\* in flight.
LEMMA WriteEndsKeeps ==
    ASSUME DurableTypeOK, NEW id \in DOMAIN writes, NEW succeeds \in BOOLEAN,
           WriteEnds(id, succeeds), ~faulty',
           NEW awaits, Ordered(awaits), DOMAIN writes \subseteq 1..written,
           NEW contents, Promise(awaits, contents)
    PROVE  Promise(awaits, contents)'
<1>1. disk' = writes[id] /\ \A other \in DOMAIN writes : ~(other < id)
    BY Zenon DEF WriteEnds
<1>2. DOMAIN writes' = DOMAIN writes \ {id}
      /\ \A other \in DOMAIN writes \ {id} : writes'[other] = writes[other]
    BY DEF WriteEnds
<1>3. DOMAIN writes \subseteq Nat
    BY DurableAssumption DEF DurableTypeOK
<1>4. \A other \in DOMAIN writes : id <= other
    BY <1>1, <1>3
<1>5. \A other \in DOMAIN writes' \ awaits : writes'[other] \in contents
    BY <1>2 DEF Promise
<1>6. CASE id \in awaits
  <2>1. CASE awaits \cap DOMAIN writes' = {}
    <3>1. awaits \cap DOMAIN writes = {id}
        BY <1>2, <1>6, <2>1
    <3>2. id \in LastOf(awaits \cap DOMAIN writes)
        BY <1>3, <3>1 DEF LastOf
    <3>3. writes[id] \in contents
        BY <3>1, <3>2 DEF Promise, StorageComesTo
    <3>. QED BY <1>1, <1>5, <2>1, <3>3 DEF Promise, StorageComesTo
  <2>2. CASE awaits \cap DOMAIN writes' # {}
    <3>1. \A last \in LastOf(awaits \cap DOMAIN writes') :
             last \in LastOf(awaits \cap DOMAIN writes) /\ last # id
        BY <1>2, <1>3, <1>4 DEF LastOf
    <3>2. \A last \in LastOf(awaits \cap DOMAIN writes') : writes'[last] \in contents
        BY <1>2, <1>6, <3>1 DEF Promise, StorageComesTo, LastOf
    <3>. QED BY <1>5, <2>2, <3>2 DEF Promise, StorageComesTo, LastOf
  <2>. QED BY <2>1, <2>2
<1>7. CASE id \notin awaits
  <2>1. awaits \cap DOMAIN writes = {}
      BY <1>1, <1>7 DEF Ordered
  <2>2. writes[id] \in contents
      BY <1>7 DEF Promise
  <2>. QED BY <1>1, <1>2, <1>5, <2>1, <2>2 DEF Promise, StorageComesTo
<1>. QED BY <1>6, <1>7

--------------------------------------------------------------------------------
(* Types.                                                                   *)

LEMMA NothingWritten == DOMAIN NoWrites = {}
BY DEF NoWrites

\* What persist leaves of the types of the storage.
LEMMA PersistType ==
    ASSUME DurableTypeOK, NEW content \in SUBSET Messages, Persist(content)
    PROVE  /\ disk' \subseteq Messages /\ faulty' \in BOOLEAN
           /\ written' \in 0..MaxWrites /\ DOMAIN writes' \subseteq WriteIds
           /\ \A id \in DOMAIN writes' : writes'[id] \subseteq Messages
<1>1. CASE UNCHANGED <<written, writes>> /\ (disk' = content \/ UNCHANGED disk)
           /\ (UNCHANGED faulty \/ faulty' = TRUE)
  <2>1. faulty' \in BOOLEAN
      BY <1>1, Zenon DEF DurableTypeOK
  <2>. QED BY <1>1, <2>1 DEF DurableTypeOK
<1>2. CASE /\ written < MaxWrites /\ written' = written + 1
           /\ writes' = [id \in DOMAIN writes \cup {written + 1} |->
                            IF id \in DOMAIN writes THEN writes[id] ELSE content]
           /\ UNCHANGED <<disk, faulty>>
  <2>1. faulty' \in BOOLEAN
      BY <1>2, Zenon DEF DurableTypeOK
  <2>2. written' \in 0..MaxWrites /\ written + 1 \in WriteIds
      BY <1>2, DurableAssumption DEF DurableTypeOK, WriteIds
  <2>3. DOMAIN writes' = DOMAIN writes \cup {written + 1}
        /\ \A id \in DOMAIN writes' : writes'[id] \in {writes[id], content}
      BY <1>2
  <2>4. \A id \in DOMAIN writes' : writes'[id] \subseteq Messages
    <3>1. TAKE id \in DOMAIN writes'
    <3>2. CASE id \in DOMAIN writes
        BY <1>2, <3>2 DEF DurableTypeOK
    <3>3. CASE id \notin DOMAIN writes
        BY <1>2, <3>3, <2>3
    <3>. QED BY <3>2, <3>3
  <2>. QED BY <1>2, <2>1, <2>2, <2>3, <2>4 DEF DurableTypeOK
<1>. QED BY <1>1, <1>2, Zenon DEF Persist

\* Every step keeps the types.
LEMMA TypeStep == DurableTypeOK /\ [DurableNext]_duVars => DurableTypeOK'
<1> SUFFICES ASSUME DurableTypeOK, [DurableNext]_duVars PROVE DurableTypeOK'
    OBVIOUS
<1> USE DurableAssumption
<1>1. CASE CaptureMessage
    BY <1>1 DEF DurableTypeOK, CaptureMessage, Messages
<1>2. CASE PersistTimerFires
  <2>1. Persist(cache) /\ cache \in SUBSET Messages
      BY <1>2 DEF DurableTypeOK, PersistTimerFires
  <2>. QED BY <1>2, <2>1, PersistType DEF DurableTypeOK, PersistTimerFires
<1>3. ASSUME NEW id \in WriteIds, NEW succeeds \in BOOLEAN, WriteEnds(id, succeeds)
      PROVE  DurableTypeOK'
  <2>1. faulty' \in BOOLEAN
      BY <1>3, Zenon DEF WriteEnds, DurableTypeOK
  <2>2. disk' \subseteq Messages
      BY <1>3 DEF WriteEnds, DurableTypeOK
  <2>. QED BY <1>3, <2>1, <2>2 DEF DurableTypeOK, WriteEnds
<1>4. CASE SendBatch
    BY <1>4 DEF DurableTypeOK, SendBatch
<1>5. CASE BatchAnswered
  <2>1. Persist(cache') /\ cache' \in SUBSET Messages /\ persistTimer' = FALSE
      BY <1>5 DEF DurableTypeOK, BatchAnswered, WaitForPersist
  <2>2. DOMAIN writes' \subseteq WriteIds /\ disk' \subseteq Messages
        /\ faulty' \in BOOLEAN /\ written' \in 0..MaxWrites
        /\ \A id \in DOMAIN writes' : writes'[id] \subseteq Messages
      BY <2>1, PersistType
  <2>3. delivery' \in [at : {"idle", "sending", "storing"}, batch : SUBSET Messages,
                       awaits : SUBSET WriteIds]
      BY <1>5, <2>2 DEF DurableTypeOK, BatchAnswered
  <2>4. answered' \subseteq Messages /\ settled' \subseteq Messages
      BY <1>5 DEF DurableTypeOK, BatchAnswered
  <2>. QED BY <1>5, <2>1, <2>2, <2>3, <2>4 DEF DurableTypeOK, BatchAnswered
<1>6. CASE BatchFails
    BY <1>6 DEF DurableTypeOK, BatchFails, Idle
<1>7. CASE BatchSettles
  <2>1. settled' \subseteq Messages
      BY <1>7 DEF DurableTypeOK, BatchSettles
  <2>. QED BY <1>7, <2>1 DEF DurableTypeOK, BatchSettles, Idle
<1>8. CASE DrainStorage
  <2>1. WaitForPersist(persistTimer, cache) /\ cache \in SUBSET Messages
      BY <1>8 DEF DurableTypeOK, DrainStorage
  <2>2. /\ DOMAIN writes' \subseteq WriteIds /\ disk' \subseteq Messages
        /\ faulty' \in BOOLEAN /\ written' \in 0..MaxWrites
        /\ \A id \in DOMAIN writes' : writes'[id] \subseteq Messages
        /\ persistTimer' \in BOOLEAN
    <3>1. CASE persistTimer' = FALSE /\ Persist(cache)
        BY <2>1, <3>1, PersistType
    <3>2. CASE UNCHANGED <<persistTimer, written, writes, disk, faulty>>
        BY <3>2 DEF DurableTypeOK
    <3>. QED BY <2>1, <3>1, <3>2, Zenon DEF WaitForPersist
  <2>3. drain' \in [at : {"idle", "storing"}, batch : SUBSET Messages,
                    awaits : SUBSET WriteIds]
      BY <1>8, <2>1, <2>2 DEF DrainStorage
  <2>. QED BY <1>8, <2>2, <2>3 DEF DurableTypeOK, DrainStorage
<1>9. CASE DrainReturns
    BY <1>9 DEF DurableTypeOK, DrainReturns, Idle
<1>10. CASE Crash
  <2>1. disk' \subseteq Messages
      BY <1>10 DEF DurableTypeOK, Crash
  <2>2. DOMAIN writes' = {}
      BY <1>10, NothingWritten DEF Crash
  <2>3. /\ persistTimer' = FALSE /\ running' = FALSE
        /\ syncBackend' \in BOOLEAN /\ faulty' \in BOOLEAN
      BY <1>10, Zenon DEF DurableTypeOK, Crash
  <2>4. delivery' = Idle /\ drain' = Idle /\ cache' = {} /\ crashes' \in 0..MaxCrashes
      BY <1>10 DEF DurableTypeOK, Crash
  <2>5. UNCHANGED <<captured, written, answered, settled, drained>>
      BY <1>10 DEF Crash
  <2>. QED BY <2>1, <2>2, <2>3, <2>4, <2>5 DEF DurableTypeOK, Idle
<1>11. CASE Restart
    BY <1>11 DEF DurableTypeOK, Restart
<1>12. CASE UNCHANGED duVars
    BY <1>12 DEF DurableTypeOK, duVars
<1>. QED
    BY <1>1, <1>2, <1>3, <1>4, <1>5, <1>6, <1>7, <1>8, <1>9, <1>10, <1>11, <1>12, Zenon
    DEF DurableNext

LEMMA DurableTypesAtFirst == DurableInit => DurableTypeOK
<1> SUFFICES ASSUME DurableInit PROVE DurableTypeOK
    OBVIOUS
<1>1. /\ syncBackend \in BOOLEAN /\ running \in BOOLEAN /\ faulty \in BOOLEAN
      /\ persistTimer \in BOOLEAN
    BY Zenon DEF DurableInit
<1>2. DOMAIN writes = {} /\ delivery = Idle /\ drain = Idle
    BY NothingWritten DEF DurableInit
<1>3. captured \in 0..MaxMessages /\ written \in 0..MaxWrites /\ crashes \in 0..MaxCrashes
    BY DurableAssumption DEF DurableInit
<1>4. cache = {} /\ disk = {} /\ answered = {} /\ settled = {} /\ drained = {}
    BY DEF DurableInit
<1>. QED BY <1>1, <1>2, <1>3, <1>4 DEF DurableTypeOK, Idle

\* The types are as stated, whatever happens.
THEOREM DurableTypes == DurableSpec => []DurableTypeOK
BY DurableTypesAtFirst, TypeStep, PTL DEF DurableSpec

--------------------------------------------------------------------------------
(* Numbers, contents and a stopped app.                                     *)

\* Writes hold what was captured.
LEMMA PersistCaptured ==
    ASSUME OnlyCaptured, NEW content \in SUBSET (1..captured), Persist(content)
    PROVE  /\ disk' \subseteq 1..captured
           /\ \A id \in DOMAIN writes' : writes'[id] \subseteq 1..captured
<1>1. CASE UNCHANGED writes /\ (disk' = content \/ UNCHANGED disk)
    BY <1>1 DEF OnlyCaptured
<1>2. CASE /\ UNCHANGED disk
           /\ writes' = [id \in DOMAIN writes \cup {written + 1} |->
                            IF id \in DOMAIN writes THEN writes[id] ELSE content]
    BY <1>2 DEF OnlyCaptured
<1>. QED BY <1>1, <1>2, Zenon DEF Persist

\* Every step numbers the writes, and keeps a stopped app still.
LEMMA StorageStep == DurableTypeOK /\ StorageInv /\ [DurableNext]_duVars => StorageInv'
<1> SUFFICES ASSUME DurableTypeOK, StorageInv, [DurableNext]_duVars PROVE StorageInv'
    OBVIOUS
<1>a. captured \in Nat /\ written \in Nat
    BY DurableAssumption DEF DurableTypeOK
<1>b. \A content \in SUBSET (1..captured) : content \in SUBSET (1..(captured + 1))
    BY <1>a
<1>1. CASE CaptureMessage
  <2>1. Numbered'
      BY <1>1 DEF StorageInv, Numbered, Ordered, CaptureMessage
  <2>2. OnlyCaptured'
    <3>1. /\ captured' = captured + 1 /\ cache' = cache \cup {captured + 1}
          /\ UNCHANGED <<disk, writes, delivery, settled>>
        BY <1>1 DEF CaptureMessage
    <3>2. 1..captured \subseteq 1..captured' /\ captured + 1 \in 1..captured'
        BY <1>a, <3>1
    <3>3. OnlyCaptured
        BY DEF StorageInv
    <3>. QED BY <3>1, <3>2, <3>3, Zenon DEF OnlyCaptured
  <2>3. StoppedIsStill'
      BY <1>1, Zenon DEF StorageInv, StoppedIsStill, CaptureMessage
  <2>. QED BY <2>1, <2>2, <2>3 DEF StorageInv
<1>2. CASE PersistTimerFires
  <2>1. Persist(cache) /\ cache \in SUBSET (1..captured)
      BY <1>2 DEF StorageInv, OnlyCaptured, PersistTimerFires
  <2>2. Numbered'
      BY <1>2, <2>1, PersistNumbers DEF StorageInv, Numbered, Ordered, PersistTimerFires
  <2>3. OnlyCaptured'
      BY <1>2, <2>1, PersistCaptured DEF StorageInv, OnlyCaptured, PersistTimerFires
  <2>4. StoppedIsStill'
      BY <1>2, Zenon DEF StoppedIsStill, PersistTimerFires
  <2>. QED BY <2>2, <2>3, <2>4 DEF StorageInv
<1>3. ASSUME NEW id \in WriteIds, NEW succeeds \in BOOLEAN, WriteEnds(id, succeeds)
      PROVE  StorageInv'
  <2>1. Numbered'
      BY <1>3 DEF StorageInv, Numbered, Ordered, WriteEnds
  <2>2. OnlyCaptured'
      BY <1>3 DEF StorageInv, OnlyCaptured, WriteEnds
  <2>3. StoppedIsStill'
      BY <1>3, Zenon DEF StoppedIsStill, WriteEnds
  <2>. QED BY <2>1, <2>2, <2>3 DEF StorageInv
<1>4. CASE SendBatch
  <2>1. Numbered'
      BY <1>4, <1>a DEF StorageInv, Numbered, Ordered, SendBatch
  <2>2. OnlyCaptured'
      BY <1>4 DEF StorageInv, OnlyCaptured, SendBatch
  <2>3. StoppedIsStill'
      BY <1>4, Zenon DEF StoppedIsStill, SendBatch
  <2>. QED BY <2>1, <2>2, <2>3 DEF StorageInv
<1>5. CASE BatchAnswered
  <2>1. Persist(cache') /\ cache' \in SUBSET (1..captured)
      BY <1>5 DEF StorageInv, OnlyCaptured, BatchAnswered, WaitForPersist
  <2>2. PICK content : content = cache'
      OBVIOUS
  <2>3. /\ DOMAIN writes' \subseteq 1..written'
        /\ syncBackend => DOMAIN writes' = {}
        /\ Ordered(DOMAIN writes)'
        /\ \A awaits : Ordered(awaits) => Ordered(awaits)'
      BY <2>1, <2>2, PersistNumbers DEF StorageInv
  <2>4. delivery'.awaits = DOMAIN writes' /\ delivery'.batch = delivery.batch
      BY <1>5 DEF BatchAnswered, DurableTypeOK
  <2>5. Numbered'
      BY <1>5, <2>3, <2>4 DEF StorageInv, Numbered, Ordered, BatchAnswered
  <2>6. /\ disk' \subseteq 1..captured
        /\ \A id \in DOMAIN writes' : writes'[id] \subseteq 1..captured
      BY <2>1, <2>2, PersistCaptured DEF StorageInv
  <2>7. OnlyCaptured'
      BY <1>5, <2>1, <2>4, <2>6 DEF StorageInv, OnlyCaptured, BatchAnswered
  <2>8. StoppedIsStill'
      BY <1>5, Zenon DEF StoppedIsStill, BatchAnswered
  <2>. QED BY <2>5, <2>7, <2>8 DEF StorageInv
<1>6. CASE BatchFails
  <2>1. Numbered'
      BY <1>6, <1>a DEF StorageInv, Numbered, Ordered, BatchFails, Idle
  <2>2. OnlyCaptured'
      BY <1>6 DEF StorageInv, OnlyCaptured, BatchFails, Idle
  <2>3. StoppedIsStill'
      BY <1>6, Zenon DEF StoppedIsStill, BatchFails
  <2>. QED BY <2>1, <2>2, <2>3 DEF StorageInv
<1>7. CASE BatchSettles
  <2>1. Numbered'
      BY <1>7, <1>a DEF StorageInv, Numbered, Ordered, BatchSettles, Idle
  <2>2. OnlyCaptured'
      BY <1>7 DEF StorageInv, OnlyCaptured, BatchSettles, Idle
  <2>3. StoppedIsStill'
      BY <1>7, Zenon DEF StoppedIsStill, BatchSettles
  <2>. QED BY <2>1, <2>2, <2>3 DEF StorageInv
<1>8. CASE DrainStorage
  <2>1. cache \in SUBSET (1..captured)
      BY DEF StorageInv, OnlyCaptured
  <2>2. Numbered' /\ OnlyCaptured'
    <3>1. CASE Persist(cache)
      <4>1. Numbered'
          BY <1>8, <3>1, PersistNumbers DEF StorageInv, Numbered, Ordered, DrainStorage
      <4>2. OnlyCaptured'
          BY <1>8, <2>1, <3>1, PersistCaptured DEF StorageInv, OnlyCaptured, DrainStorage
      <4>. QED BY <4>1, <4>2
    <3>2. CASE UNCHANGED <<written, writes, disk>>
      <4>1. Numbered'
          BY <1>8, <1>a, <3>2 DEF StorageInv, Numbered, Ordered, DrainStorage
      <4>2. OnlyCaptured'
          BY <1>8, <3>2 DEF StorageInv, OnlyCaptured, DrainStorage
      <4>. QED BY <4>1, <4>2
    <3>. QED BY <1>8, <3>1, <3>2, Zenon DEF DrainStorage, WaitForPersist
  <2>3. StoppedIsStill'
      BY <1>8, Zenon DEF StoppedIsStill, DrainStorage
  <2>. QED BY <2>2, <2>3 DEF StorageInv
<1>9. CASE DrainReturns
  <2>1. Numbered'
      BY <1>9, <1>a DEF StorageInv, Numbered, Ordered, DrainReturns, Idle
  <2>2. OnlyCaptured'
      BY <1>9 DEF StorageInv, OnlyCaptured, DrainReturns
  <2>3. StoppedIsStill'
      BY <1>9, Zenon DEF StoppedIsStill, DrainReturns
  <2>. QED BY <2>1, <2>2, <2>3 DEF StorageInv
<1>10. CASE Crash
  <2>1. DOMAIN writes' = {} /\ delivery' = Idle /\ drain' = Idle
      BY <1>10, NothingWritten DEF Crash
  <2>2. Numbered'
      BY <1>10, <1>a, <2>1 DEF Numbered, Ordered, Idle
  <2>3. OnlyCaptured'
      BY <1>10, <2>1 DEF StorageInv, OnlyCaptured, Crash, Idle
  <2>4. StoppedIsStill'
      BY <1>10, Zenon DEF StoppedIsStill, Crash
  <2>. QED BY <2>2, <2>3, <2>4 DEF StorageInv
<1>11. CASE Restart
  <2>1. Numbered'
      BY <1>11 DEF StorageInv, Numbered, Ordered, Restart
  <2>2. OnlyCaptured'
      BY <1>11 DEF StorageInv, OnlyCaptured, Restart
  <2>3. StoppedIsStill'
      BY <1>11, Zenon DEF StoppedIsStill, Restart
  <2>. QED BY <2>1, <2>2, <2>3 DEF StorageInv
<1>12. CASE UNCHANGED duVars
    BY <1>12 DEF StorageInv, Numbered, Ordered, OnlyCaptured, StoppedIsStill, duVars
<1>. QED
    BY <1>1, <1>2, <1>3, <1>4, <1>5, <1>6, <1>7, <1>8, <1>9, <1>10, <1>11, <1>12, Zenon
    DEF DurableNext

--------------------------------------------------------------------------------
(* Promises.                                                                *)

\* A promise of some contents is one of any that include them.
LEMMA PromiseWeakens ==
    ASSUME NEW awaits, NEW contents, Promise(awaits, contents),
           NEW more, contents \subseteq more
    PROVE  Promise(awaits, more)
BY DEF Promise, StorageComesTo

\* Once all that is awaited has ended, the storage and every write meet the promise.
LEMMA PromiseMet ==
    ASSUME NEW awaits, Finished(awaits), NEW contents, Promise(awaits, contents)
    PROVE  Promise({}, contents)
BY DEF Promise, StorageComesTo, Finished

\* A promise is about the storage and the writes, and nothing else.
LEMMA PromiseStays ==
    ASSUME NEW awaits, NEW contents, Promise(awaits, contents), UNCHANGED <<disk, writes>>
    PROVE  Promise(awaits, contents)'
BY DEF Promise, StorageComesTo, LastOf

\* Who awaits nothing has nothing to fear from a crash.
LEMMA PromiseSurvives ==
    ASSUME NEW contents, Promise({}, contents), Crash
    PROVE  Promise({}, contents)'
<1>1. disk \in contents /\ \A id \in DOMAIN writes : writes[id] \in contents
    BY DEF Promise, StorageComesTo
<1>2. disk' \in contents /\ DOMAIN writes' = {}
    BY <1>1, NothingWritten DEF Crash
<1>. QED BY <1>2 DEF Promise, StorageComesTo

\* A failure is never forgotten.
LEMMA FaultyStays == [DurableNext]_duVars /\ ~faulty' => ~faulty
BY Zenon DEF DurableNext, duVars, CaptureMessage, PersistTimerFires, WriteEnds, SendBatch,
   BatchAnswered, BatchFails, BatchSettles, DrainStorage, DrainReturns, Crash, Restart,
   WaitForPersist, Persist

\* A promise that the cache meets, before and after, is kept by every step but a crash.
LEMMA PromiseKept ==
    ASSUME DurableTypeOK, StorageInv, [DurableNext]_duVars, ~faulty', ~Crash,
           NEW awaits, Ordered(awaits), NEW contents, Promise(awaits, contents),
           cache \in contents, cache' \in contents
    PROVE  Promise(awaits, contents)'
<1>0. Numbered /\ awaits \subseteq 1..written
    BY DEF StorageInv, Ordered
<1>1. CASE PersistTimerFires
    BY <1>0, <1>1, PersistKeeps DEF PersistTimerFires
<1>2. ASSUME NEW id \in WriteIds, NEW succeeds \in BOOLEAN, WriteEnds(id, succeeds)
      PROVE  Promise(awaits, contents)'
  <2>1. id \in DOMAIN writes /\ DOMAIN writes \subseteq 1..written
      BY <1>0, <1>2 DEF WriteEnds, Numbered
  <2>. QED BY <1>2, <2>1, WriteEndsKeeps
<1>3. CASE BatchAnswered
  <2>1. PICK content : content = cache'
      OBVIOUS
  <2>2. Persist(content)
      BY <1>3, <2>1 DEF BatchAnswered, WaitForPersist
  <2>. QED BY <1>0, <2>1, <2>2, PersistKeeps
<1>4. CASE DrainStorage
  <2>1. CASE Persist(cache)
      BY <1>0, <2>1, PersistKeeps
  <2>2. CASE UNCHANGED <<disk, writes>>
      BY <2>2, PromiseStays
  <2>. QED BY <1>4, <2>1, <2>2, Zenon DEF DrainStorage, WaitForPersist
<1>5. CASE UNCHANGED <<disk, writes>>
    BY <1>5, PromiseStays
<1>. QED
    BY <1>1, <1>2, <1>3, <1>4, <1>5, Zenon DEF DurableNext, duVars, CaptureMessage, SendBatch,
       BatchFails, BatchSettles, DrainReturns, Restart

\* The contents that leave out a set of messages, or have all of one.
LEMMA Contents ==
    ASSUME NEW content, NEW B, B \subseteq Messages
    PROVE  /\ content \in Without(B) <=> content \subseteq Messages /\ content \cap B = {}
           /\ content \in Covering(B) <=> content \subseteq Messages /\ B \subseteq content
BY DEF Without, Covering

\* How the cache changes.
LEMMA CacheReplaced ==
    ASSUME [DurableNext]_duVars
    PROVE  \/ cache' = cache
           \/ cache' = cache \cup {captured + 1} /\ running
           \/ cache' = cache \ delivery.batch /\ answered' = answered \cup delivery.batch
           \/ cache' = {} /\ ~running'
           \/ cache' = disk /\ ~running
BY Zenon DEF DurableNext, duVars, CaptureMessage, PersistTimerFires, WriteEnds, SendBatch,
   BatchAnswered, BatchFails, BatchSettles, DrainStorage, DrainReturns, Crash, Restart

\* What no write is awaited for is in the storage and in every write already.
LEMMA NothingAwaited ==
    ASSUME NEW contents
    PROVE  Promise({}, contents) <=>
           disk \in contents /\ \A id \in DOMAIN writes : writes[id] \in contents
BY DEF Promise, StorageComesTo

LEMMA SettledGoneStep ==
    ASSUME DurableTypeOK, StorageInv, PromisesKept, [DurableNext]_duVars, ~faulty'
    PROVE  SettledGone'
<1>0. settled \subseteq Messages /\ cache \subseteq Messages
    BY DEF DurableTypeOK
<1>1. DurableTypeOK'
    BY TypeStep
<1>2. CASE BatchSettles
  <2>1. /\ disk \in Without(settled) /\ disk \in Without(delivery.batch)
        /\ \A id \in DOMAIN writes : writes[id] \in Without(settled) \cap Without(delivery.batch)
        /\ cache \in Without(settled) \cap Without(delivery.batch)
    <3>1. Promise({}, Without(delivery.batch)) /\ cache \in Without(delivery.batch)
        BY <1>2, PromiseMet DEF BatchSettles, PromisesKept, BatchLeaves
    <3>2. Promise({}, Without(settled)) /\ cache \in Without(settled)
        BY DEF PromisesKept, SettledGone
    <3>. QED BY <3>1, <3>2, NothingAwaited
  <2>2. settled' = settled \cup delivery.batch /\ UNCHANGED <<disk, writes, cache>>
      BY <1>2 DEF BatchSettles
  <2>3. Without(settled') = Without(settled) \cap Without(delivery.batch)
      BY <2>2 DEF Without
  <2>. QED BY <2>1, <2>2, <2>3 DEF SettledGone, Promise, StorageComesTo, Without, Messages
<1>3. CASE settled' = settled
  <2>1. PICK gone : gone = settled
      OBVIOUS
  <2>2. cache \in Without(gone) /\ Promise({}, Without(gone))
      BY <2>1 DEF PromisesKept, SettledGone
  <2>3. cache' \in Without(gone)
    <3>1. captured \in Nat /\ captured + 1 \notin gone
        BY <2>1, DurableAssumption DEF DurableTypeOK, StorageInv, OnlyCaptured
    <3>2. disk \in Without(gone)
        BY <2>2, NothingAwaited
    <3>3. cache' \subseteq Messages
        BY <1>1 DEF DurableTypeOK
    <3>. QED BY <1>0, <2>1, <2>2, <3>1, <3>2, <3>3, CacheReplaced DEF Without
  <2>4. Promise({}, Without(gone))'
    <3>1. CASE Crash
        BY <2>2, <3>1, PromiseSurvives
    <3>2. CASE ~Crash
      <4>1. Ordered({})
          BY DEF Ordered
      <4>. QED BY <2>2, <2>3, <3>2, <4>1, PromiseKept
    <3>. QED BY <3>1, <3>2
  <2>. QED BY <1>3, <2>1, <2>3, <2>4 DEF SettledGone, Promise, StorageComesTo, Without, Messages
<1>. QED
    BY <1>2, <1>3, Zenon DEF DurableNext, duVars, CaptureMessage, PersistTimerFires, WriteEnds,
       SendBatch, BatchAnswered, BatchFails, DrainStorage, DrainReturns, Crash, Restart

LEMMA DrainedStayStep ==
    ASSUME DurableTypeOK, StorageInv, PromisesKept, [DurableNext]_duVars, ~faulty'
    PROVE  DrainedStay'
<1>0. PICK due : due = (drained \ answered)'
    OBVIOUS
<1>1. /\ Promise({}, Covering(due))
      /\ running => cache \in Covering(due)
  <2>1. CASE DrainReturns
    <3>1. drain.at = "storing" /\ Finished(drain.awaits) /\ due \subseteq (drained \ answered) \cup (drain.batch \ answered)
        BY <1>0, <2>1 DEF DrainReturns
    <3>2. Promise({}, Covering(drain.batch \ answered)) /\ cache \in Covering(drain.batch \ answered)
        BY <3>1, PromiseMet DEF PromisesKept, DrainArrives
    <3>3. Promise({}, Covering(drained \ answered)) /\ (running => cache \in Covering(drained \ answered))
        BY DEF PromisesKept, DrainedStay
    <3>4. \A content : content \in Covering(drained \ answered)
                       /\ content \in Covering(drain.batch \ answered)
                       => content \in Covering(due)
        BY <3>1 DEF Covering
    <3>5. Promise({}, Covering(due))
        BY <3>2, <3>3, <3>4, NothingAwaited
    <3>. QED BY <3>2, <3>3, <3>4, <3>5
  <2>2. CASE drained' = drained /\ (answered' = answered \/ answered' = answered \cup delivery.batch)
    <3>1. Covering(drained \ answered) \subseteq Covering(due)
        BY <1>0, <2>2 DEF Covering
    <3>. QED BY <3>1, PromiseWeakens DEF PromisesKept, DrainedStay
  <2>. QED
      BY <2>1, <2>2, Zenon DEF DurableNext, duVars, CaptureMessage, PersistTimerFires, WriteEnds,
         SendBatch, BatchAnswered, BatchFails, BatchSettles, DrainStorage, Crash, Restart
<1>2. running' => cache' \in Covering(due)
  <2>1. SUFFICES ASSUME running' PROVE cache' \in Covering(due)
      OBVIOUS
  <2>2. cache' \subseteq Messages
      BY TypeStep DEF DurableTypeOK
  <2>3. disk \in Covering(due)
      BY <1>1, NothingAwaited
  <2>4. CASE running
    <3>1. due \subseteq cache
        BY <1>1, <2>4 DEF Covering
    <3>2. due \subseteq cache'
        BY <1>0, <2>1, <2>3, <2>4, <3>1, CacheReplaced DEF Covering
    <3>. QED BY <2>2, <3>2 DEF Covering
  <2>5. CASE ~running
    <3>1. cache' = disk
        BY <2>1, <2>5, Zenon DEF DurableNext, duVars, CaptureMessage, PersistTimerFires,
           WriteEnds, SendBatch, BatchAnswered, BatchFails, BatchSettles, DrainStorage,
           DrainReturns, Crash, Restart
    <3>. QED BY <2>3, <3>1
  <2>. QED BY <2>4, <2>5
<1>3. Promise({}, Covering(due))'
  <2>1. CASE Crash
      BY <1>1, <2>1, PromiseSurvives
  <2>2. CASE UNCHANGED <<disk, writes>>
      BY <1>1, <2>2, PromiseStays
  <2>3. CASE running /\ running' = running /\ ~Crash
    <3>1. Ordered({})
        BY DEF Ordered
    <3>2. cache \in Covering(due) /\ cache' \in Covering(due)
        BY <1>1, <1>2, <2>3, Zenon
    <3>. QED BY <1>1, <2>3, <3>1, <3>2, PromiseKept
  <2>. QED
      BY <2>1, <2>2, <2>3, Zenon DEF DurableNext, duVars, CaptureMessage, PersistTimerFires,
         WriteEnds, SendBatch, BatchAnswered, BatchFails, BatchSettles, DrainStorage,
         DrainReturns, Restart
<1>. QED BY <1>0, <1>2, <1>3 DEF DrainedStay, Promise, StorageComesTo, Covering, Messages

LEMMA BatchLeavesStep ==
    ASSUME DurableTypeOK, StorageInv, PromisesKept, [DurableNext]_duVars, ~faulty'
    PROVE  BatchLeaves'
<1>1. CASE BatchAnswered
  <2>1. PICK content, batch : content = cache' /\ batch = delivery'.batch
      OBVIOUS
  <2>2. Persist(content) /\ content \in Without(batch) /\ Numbered
      BY <1>1, <2>1 DEF BatchAnswered, WaitForPersist, DurableTypeOK, Without, StorageInv
  <2>3. Promise(DOMAIN writes, Without(batch))'
      BY <2>2, PersistPromises
  <2>4. delivery'.awaits = DOMAIN writes'
      BY <1>1 DEF BatchAnswered, DurableTypeOK
  <2>. QED BY <2>1, <2>2, <2>3, <2>4 DEF BatchLeaves, Promise, StorageComesTo, Without, Messages
<1>2. CASE ~Crash /\ delivery' = delivery
  <2>1. SUFFICES ASSUME delivery.at = "storing" PROVE BatchLeaves'
      BY <1>2 DEF BatchLeaves
  <2>2. PICK awaits, batch : awaits = delivery.awaits /\ batch = delivery.batch
      OBVIOUS
  <2>3. cache \in Without(batch) /\ Promise(awaits, Without(batch)) /\ Ordered(awaits)
      BY <2>1, <2>2 DEF PromisesKept, BatchLeaves, StorageInv, Numbered
  <2>4. running
      BY <2>1 DEF StorageInv, StoppedIsStill, Idle
  <2>5. running' /\ cache' \subseteq Messages
    <3>1. running'
        BY <1>2, <2>4, Zenon DEF DurableNext, duVars, CaptureMessage, PersistTimerFires,
           WriteEnds, SendBatch, BatchAnswered, BatchFails, BatchSettles, DrainStorage,
           DrainReturns, Restart
    <3>. QED BY <3>1, TypeStep DEF DurableTypeOK
  <2>6. captured + 1 \notin batch
      BY <2>2, DurableAssumption DEF DurableTypeOK, StorageInv, OnlyCaptured
  <2>7. cache' \in Without(batch)
      BY <2>3, <2>4, <2>5, <2>6, CacheReplaced DEF Without
  <2>8. Promise(awaits, Without(batch))'
      BY <1>2, <2>3, <2>7, PromiseKept
  <2>. QED
      BY <1>2, <2>2, <2>7, <2>8 DEF BatchLeaves, Promise, StorageComesTo, Without, Messages
<1>3. CASE delivery'.at # "storing"
    BY <1>3 DEF BatchLeaves
<1>4. SendBatch => delivery'.at = "sending"
    BY DEF SendBatch
<1>5. Idle.at # "storing"
    BY DEF Idle
<1>6. \/ BatchAnswered \/ (~Crash /\ delivery' = delivery)
      \/ delivery'.at = "sending" \/ delivery' = Idle
    BY <1>4, Zenon DEF DurableNext, duVars, CaptureMessage, PersistTimerFires, WriteEnds,
       BatchFails, BatchSettles, DrainStorage, DrainReturns, Crash, Restart
<1>. QED BY <1>1, <1>2, <1>3, <1>5, <1>6

LEMMA DrainArrivesStep ==
    ASSUME DurableTypeOK, StorageInv, PromisesKept, [DurableNext]_duVars, ~faulty'
    PROVE  DrainArrives'
<1>1. CASE DrainStorage
  <2>1. PICK batch : batch = cache
      OBVIOUS
  <2>2. batch \subseteq Messages /\ running
      BY <1>1, <2>1 DEF DrainStorage, DurableTypeOK
  <2>3. Promise(DOMAIN writes, {batch})'
    <3>1. CASE Persist(cache)
        BY <2>1, <3>1, PersistPromises DEF StorageInv
    <3>2. CASE ~persistTimer /\ UNCHANGED <<disk, writes>>
      <4>1. Promise(DOMAIN writes, {batch})
          BY <2>1, <2>2, <3>2 DEF PromisesKept, CacheArrives
      <4>. QED BY <3>2, <4>1 DEF Promise, StorageComesTo, LastOf
    <3>. QED BY <1>1, <3>1, <3>2, Zenon DEF DrainStorage, WaitForPersist
  <2>4. drain'.batch = batch /\ drain'.awaits = DOMAIN writes' /\ cache' = batch
      BY <1>1, <2>1 DEF DrainStorage
  <2>5. batch \in Covering(batch \ answered')
      BY <2>2 DEF Covering
  <2>. QED
      BY <2>3, <2>4, <2>5 DEF DrainArrives, Promise, StorageComesTo, LastOf, Covering, Messages
<1>2. CASE ~Crash /\ drain' = drain
  <2>1. SUFFICES ASSUME drain.at = "storing" PROVE DrainArrives'
      BY <1>2 DEF DrainArrives
  <2>2. PICK awaits, due : awaits = drain.awaits /\ due = drain.batch \ answered'
      OBVIOUS
  <2>3. running
      BY <2>1 DEF StorageInv, StoppedIsStill, Idle
  <2>4. /\ answered \subseteq answered'
        /\ running'
      BY <1>2, <2>3, Zenon DEF DurableNext, duVars, CaptureMessage, PersistTimerFires,
         WriteEnds, SendBatch, BatchAnswered, BatchFails, BatchSettles, DrainStorage,
         DrainReturns, Restart
  <2>5. Covering(drain.batch \ answered) \subseteq Covering(due)
      BY <2>2, <2>4 DEF Covering
  <2>6. cache \in Covering(due) /\ Promise(awaits, Covering(due)) /\ Ordered(awaits)
      BY <2>1, <2>2, <2>5, PromiseWeakens DEF PromisesKept, DrainArrives, StorageInv, Numbered
  <2>7. cache' \in Covering(due)
    <3>1. cache' \subseteq Messages
        BY TypeStep DEF DurableTypeOK
    <3>. QED BY <2>2, <2>3, <2>4, <2>6, <3>1, CacheReplaced DEF Covering
  <2>8. Promise(awaits, Covering(due))'
      BY <1>2, <2>6, <2>7, PromiseKept
  <2>. QED
      BY <1>2, <2>2, <2>7, <2>8 DEF DrainArrives, Promise, StorageComesTo, Covering, Messages
<1>3. CASE drain' = Idle
    BY <1>3 DEF DrainArrives, Idle
<1>. QED
    BY <1>1, <1>2, <1>3, Zenon DEF DurableNext, duVars, CaptureMessage, PersistTimerFires,
       WriteEnds, SendBatch, BatchAnswered, BatchFails, BatchSettles, DrainReturns, Crash,
       Restart

LEMMA CacheArrivesStep ==
    ASSUME DurableTypeOK, StorageInv, PromisesKept, [DurableNext]_duVars, ~faulty'
    PROVE  CacheArrives'
<1>1. ASSUME NEW content, content = cache', Persist(content)
      PROVE  CacheArrives'
  <2>1. Promise(DOMAIN writes, {content})'
      BY <1>1, PersistPromises DEF StorageInv
  <2>. QED BY <1>1, <2>1 DEF CacheArrives, Promise, StorageComesTo, LastOf
<1>2. CASE cache' = cache /\ (Persist(cache) \/ Persist(cache'))
    BY <1>1, <1>2
<1>3. CASE BatchAnswered
  <2>1. PICK content : content = cache'
      OBVIOUS
  <2>. QED BY <1>1, <1>3, <2>1 DEF BatchAnswered, WaitForPersist
<1>4. CASE persistTimer' \/ ~running'
    BY <1>4, Zenon DEF CacheArrives
<1>5. ASSUME NEW id \in WriteIds, NEW succeeds \in BOOLEAN, WriteEnds(id, succeeds)
      PROVE  CacheArrives'
  <2>1. /\ running /\ cache' = cache /\ persistTimer' = persistTimer
        /\ DOMAIN writes' \subseteq DOMAIN writes /\ id \in DOMAIN writes
        /\ DOMAIN writes \subseteq 1..written
      BY <1>5 DEF WriteEnds, StorageInv, Numbered
  <2>2. PICK awaits, contents : awaits = DOMAIN writes /\ contents = {cache}
      OBVIOUS
  <2>3. CASE Promise(awaits, contents)
    <3>1. Ordered(awaits)
        BY <2>1, <2>2 DEF Ordered
    <3>2. Promise(awaits, contents)'
        BY <1>5, <2>1, <2>2, <2>3, <3>1, WriteEndsKeeps
    <3>. QED BY <2>1, <2>2, <3>2 DEF CacheArrives, Promise, StorageComesTo, LastOf
  <2>4. CASE persistTimer
      BY <1>4, <2>1, <2>4, Zenon
  <2>. QED BY <2>1, <2>2, <2>3, <2>4 DEF PromisesKept, CacheArrives
<1>6. CASE Restart
  <2>1. DOMAIN writes' = {} /\ disk' = cache'
      BY <1>6, NothingWritten DEF Restart, StorageInv, StoppedIsStill
  <2>. QED BY <2>1 DEF CacheArrives, Promise, StorageComesTo
<1>7. CASE UNCHANGED <<cache, disk, writes, persistTimer, running>>
    BY <1>7 DEF PromisesKept, CacheArrives, Promise, StorageComesTo, LastOf
<1>8. CASE DrainStorage
    BY <1>2, <1>7, <1>8, Zenon DEF DrainStorage, WaitForPersist
<1>. QED
    BY <1>2, <1>3, <1>4, <1>5, <1>6, <1>7, <1>8, Zenon DEF DurableNext, duVars, CaptureMessage,
       PersistTimerFires, SendBatch, BatchFails, BatchSettles, DrainReturns, Crash

--------------------------------------------------------------------------------
(* The theorem.                                                             *)

LEMMA DQInit == DurableInit => DQInv
<1> SUFFICES ASSUME DurableInit PROVE DQInv
    OBVIOUS
<1>1. DurableTypeOK
    BY DurableTypesAtFirst
<1>2. /\ DOMAIN writes = {} /\ delivery = Idle /\ drain = Idle /\ written = 0 /\ captured = 0
      /\ cache = {} /\ disk = {} /\ answered = {} /\ settled = {} /\ drained = {}
    BY NothingWritten DEF DurableInit
<1>3. StorageInv
  <2>1. StoppedIsStill
      BY Zenon DEF DurableInit, StoppedIsStill
  <2>. QED BY <1>2, <2>1 DEF StorageInv, Numbered, Ordered, OnlyCaptured, Idle
<1>4. \A awaits, contents : {} \in contents => Promise(awaits, contents)
    BY <1>2 DEF Promise, StorageComesTo
<1>5. BatchLeaves /\ DrainArrives
    BY <1>2 DEF BatchLeaves, DrainArrives, Idle
<1>6. SettledGone /\ DrainedStay /\ CacheArrives
    BY <1>2, <1>4 DEF SettledGone, DrainedStay, CacheArrives, Without, Covering
<1>. QED BY <1>1, <1>3, <1>5, <1>6 DEF DQInv, PromisesKept

LEMMA DQStep == DQInv /\ [DurableNext]_duVars => DQInv'
<1> SUFFICES ASSUME DQInv, [DurableNext]_duVars PROVE DQInv'
    OBVIOUS
<1>1. DurableTypeOK' /\ StorageInv'
    BY TypeStep, StorageStep DEF DQInv
<1>2. ASSUME ~faulty' PROVE PromisesKept'
  <2>1. DurableTypeOK /\ StorageInv /\ PromisesKept
      BY <1>2, FaultyStays DEF DQInv
  <2>. QED
      BY <1>2, <2>1, SettledGoneStep, DrainedStayStep, BatchLeavesStep, DrainArrivesStep,
         CacheArrivesStep DEF PromisesKept
<1>. QED BY <1>1, <1>2, Zenon DEF DQInv

LEMMA DQImplies == DQInv => StorageFollows
<1> SUFFICES ASSUME DQInv, ~faulty PROVE StorageFollows
    BY Zenon DEF StorageFollows, CrashSafe, CacheIsWritten
<1>1. SettledGone /\ DrainedStay /\ CacheArrives
    BY DEF DQInv, PromisesKept
<1>2. SettledStayGone
    BY <1>1 DEF SettledGone, Promise, StorageComesTo, Without, SettledStayGone
<1>3. DrainedSurvive
    BY <1>1 DEF DrainedStay, Promise, StorageComesTo, Covering, DrainedSurvive
<1>4. CacheIsWritten
  <2>1. Promise(DOMAIN writes, {cache}) => StorageComesTo({cache}, DOMAIN writes)
      BY DEF Promise
  <2>. QED BY <1>1, <2>1, Zenon DEF CacheArrives, CacheIsWritten
<1>. QED BY <1>2, <1>3, <1>4, Zenon DEF StorageFollows, CrashSafe

\* A settled batch is never sent again after a crash, what a drain has covered is in
\* the storage until the server answers, and the storage follows the cache: for any
\* number of messages, of overlapping writes and of crashes (storage.ts:84-148).
THEOREM StorageFollowsAlways == DurableSpec => []StorageFollows
BY DQInit, DQStep, DQImplies, PTL DEF DurableSpec

--------------------------------------------------------------------------------
(* The bridge: its invariant.                                                   *)

\* How the two chains stand: who is at work has work, a command that waits does
\* so for jobs that are there, and calls go to a native SDK that is set up.
ChainsInStep ==
    /\ command.at # "idle" => commands # <<>> /\ started
    /\ command.at \in {"idle", "calling"} => command.ahead = 0
    /\ command.ahead <= Len(evals)
    /\ command.at = "calling" => NativeReady
    /\ eval.at # "idle" => evals # <<>>
    /\ eval.at # "idle" => started
    /\ NativeReady => started
    /\ recording \/ eval.at \in {"start", "stop"} => replayUp

\* Which commands are queued: at all, behind the head, and to be dispatched after
\* the job that is in progress.
Pending(kinds) == \E k \in DOMAIN commands : commands[k].does \in kinds
Later(kinds) == \E k \in DOMAIN commands : k > 1 /\ commands[k].does \in kinds
Late(kinds) ==
    \E k \in DOMAIN commands : /\ commands[k].does \in kinds
                               /\ k > 1 \/ command.at = "idle" \/ command.ahead > 0

Identifying == {"identify", "reset"}

\* Whom the native SDK may know once commands of these kinds are through: the
\* client's identity, and after a reset nobody of before.
Right(kinds) == IF "identify" \in kinds THEN {client.user}
                ELSE {u \in Identities : u >= loggedOut}

\* What was read for the native SDK is right, or a command corrects it.
Told(kinds) ==
    /\ NativeReady /\ "identity" \notin stale /\ ~Pending(kinds) => native.user \in Right(kinds)
    /\ eval.at = "setup" /\ ~Late(kinds) => eval.user \in Right(kinds)
    /\ eval.at = "consent" /\ "identity" \notin stale /\ ~Late(kinds) =>
          native.user \in Right(kinds)
    /\ command.at = "calling" /\ Head(commands).does \in Identifying /\ ~Later(kinds) =>
          command.user \in Right(kinds)

IdentityTold == Told(Identifying) /\ Told({"reset"}) /\ loggedOut <= client.user

ConsentTold ==
    /\ NativeReady /\ "consent" \notin stale /\ ~Pending({"consent"}) =>
          native.optedOut = client.optedOut
    /\ eval.at = "consent" /\ ~Late({"consent"}) => eval.optedOut = client.optedOut
    /\ command.at = "calling" /\ Head(commands).does = "consent" /\ ~Later({"consent"}) =>
          command.optedOut = client.optedOut

Words == {"register", "unregister"}

\* The last word about the token.
Word(k) == commands[k].does \in Words /\ \A l \in DOMAIN commands :
              l > k => commands[l].does \notin Words

\* Before there is a native SDK no command has been dispatched.
Undispatched ==
    /\ client.registered <=> native.token # 0
    /\ \A k \in DOMAIN commands :
          commands[k].does \in {"reset", "unregister"} => commands[k].boot = client.registered

\* A register is booted, and is followed by an unregister once the user has opted
\* out; the last word is the application's.
WordsInOrder ==
    /\ \A k \in DOMAIN commands : commands[k].does = "register" => commands[k].boot
    /\ \A k \in DOMAIN commands :
          commands[k].does = "register" /\ client.optedOut =>
             \E l \in DOMAIN commands : l > k /\ commands[l].does = "unregister"
    /\ \A k \in DOMAIN commands : Word(k) => (wanted <=> commands[k].does = "register")

TokenTold ==
    /\ WordsInOrder
    /\ ~NativeReady => Undispatched
    /\ ~skipped /\ "token" \notin stale /\ ~Pending(Words) => (wanted <=> native.token # 0)
    /\ ~skipped /\ "token" \notin stale /\ ~Pending({"reset"}) =>
          native.token \in {0} \cup Right({"reset"})

\* An evaluation is asked for that has not read its gate.
Unread == \E k \in DOMAIN evals : evals[k] = "evaluate" /\ (k > 1 \/ eval.at = "idle")

\* Every evaluation that was asked for has read the recorder's gate: what it found
\* closed is closed, and what it found open is, if the session is the same.
GateIsRead == options.replay /\ ~flagsDue /\ started /\ ~Unread
SessionIsKnown == options.triggers => current \in {0, client.session}

InSetup == eval.at \in {"setup", "consent"}

RecorderShape ==
    /\ client.activated <= client.session /\ client.session # 0
    /\ current <= client.session
    /\ current = 0 <=> ~NativeReady
    /\ options.triggers => options.replay
    /\ replayUp => options.replay
    /\ native.up /\ ~NativeReady /\ eval.at # "consent" => "recorder" \in stale
    /\ InSetup /\ eval.replay => ~NativeReady /\ options.replay
    /\ InSetup => /\ eval.session <= client.session /\ eval.session # 0
                  /\ eval.replay \/ eval.push
                  /\ ~recording \/ "recorder" \in stale
    /\ eval.at = "stop" => recording
    /\ eval.at = "start" => ~recording
    /\ started /\ options.triggers /\ ~armed => Unread

RecorderTold ==
    /\ "recorder" \notin stale =>
          (native.recording <=> recording \/ (eval.at = "consent" /\ eval.replay))
    /\ GateIsRead =>
          /\ eval.at = "stop" => ~GateIsOpen
          /\ /\ "recorder" \notin stale /\ ~recording
             /\ eval.at # "start" /\ ~(InSetup /\ eval.replay)
             => ~GateIsOpen
    /\ GateIsRead /\ SessionIsKnown =>
          /\ eval.at = "start" => GateIsOpen
          /\ /\ InSetup /\ eval.replay
             /\ options.triggers => eval.session = client.session
             => GateIsOpen
          /\ "recorder" \notin stale /\ recording /\ eval.at # "stop" => GateIsOpen

NbInv == BridgeTypeOK /\ ChainsInStep /\ IdentityTold /\ ConsentTold /\ TokenTold
            /\ RecorderShape /\ RecorderTold

\* The bounds, and the sets they make.
LEMMA BridgeConstants ==
    /\ MaxIdentities \in Nat /\ MaxRotations \in Nat /\ MaxStimuli \in Nat
    /\ 1 \in Identities /\ Identities \subseteq Nat /\ NativeSessions \subseteq Nat
    /\ 0 \in NativeSessions /\ 1 \in NativeSessions
<1>1. MaxIdentities \in Nat \ {0} /\ MaxRotations \in Nat \ {0} /\ MaxStimuli \in Nat
    BY BridgeAssumption
<1>. QED BY <1>1 DEF Identities, NativeSessions

\* Every variable by itself.
LEMMA BridgeFields ==
    ASSUME BridgeTypeOK
    PROVE  /\ options.replay \in BOOLEAN /\ options.push \in BOOLEAN
           /\ options.triggers \in BOOLEAN
           /\ started \in BOOLEAN /\ armed \in BOOLEAN /\ replayUp \in BOOLEAN
           /\ pushUp \in BOOLEAN /\ recording \in BOOLEAN /\ flagsDue \in BOOLEAN
           /\ wanted \in BOOLEAN /\ skipped \in BOOLEAN
           /\ client.user \in Identities /\ client.optedOut \in BOOLEAN
           /\ client.registered \in BOOLEAN /\ client.linked \in BOOLEAN
           /\ client.session \in NativeSessions /\ client.activated \in NativeSessions
           /\ command.ahead \in Nat /\ command.user \in Identities
           /\ command.optedOut \in BOOLEAN
           /\ eval.replay \in BOOLEAN /\ eval.push \in BOOLEAN /\ eval.user \in Identities
           /\ eval.optedOut \in BOOLEAN /\ eval.session \in NativeSessions
           /\ native.up \in BOOLEAN /\ native.user \in Identities
           /\ native.optedOut \in BOOLEAN /\ native.token \in 0..MaxIdentities
           /\ native.recording \in BOOLEAN
           /\ NativeReady \in BOOLEAN
BY Zenon DEF BridgeTypeOK, NativeReady

\* Both chains are sequences, whose heads are their first elements.
LEMMA BridgeChains ==
    ASSUME BridgeTypeOK
    PROVE  /\ commands \in Seq(Command) /\ Len(commands) \in Nat
           /\ DOMAIN commands = 1..Len(commands)
           /\ \A k \in DOMAIN commands : commands[k] \in Command
           /\ evals \in Seq({"evaluate", "boot"}) /\ Len(evals) \in Nat
           /\ DOMAIN evals = 1..Len(evals)
           /\ \A k \in DOMAIN evals : evals[k] \in {"evaluate", "boot"}
           /\ commands # <<>> => /\ 1 \in DOMAIN commands /\ Head(commands) = commands[1]
                                 /\ Head(commands) \in Command
           /\ evals # <<>> => 1 \in DOMAIN evals /\ Head(evals) = evals[1]
<1>1. commands \in Seq(Command) /\ evals \in Seq({"evaluate", "boot"})
    BY DEF BridgeTypeOK
<1>. QED BY <1>1, ElementOfSeq

\* A queue that is asked for more.
LEMMA Joined ==
    ASSUME NEW S, NEW s \in Seq(S), NEW t \in Seq(S)
    PROVE  /\ s \o t \in Seq(S) /\ Len(s \o t) = Len(s) + Len(t)
           /\ DOMAIN (s \o t) = 1..(Len(s) + Len(t))
           /\ \A k \in 1..Len(s) : k \in DOMAIN (s \o t) /\ (s \o t)[k] = s[k]
           /\ \A k \in 1..Len(t) : /\ Len(s) + k \in DOMAIN (s \o t)
                                   /\ (s \o t)[Len(s) + k] = t[k]
           /\ \A k \in DOMAIN (s \o t) :
                 \/ k \in 1..Len(s) /\ (s \o t)[k] = s[k]
                 \/ k - Len(s) \in 1..Len(t) /\ (s \o t)[k] = t[k - Len(s)]
OBVIOUS

\* A queue whose head is done.
LEMMA Advanced ==
    ASSUME NEW S, NEW s \in Seq(S), s # <<>>
    PROVE  /\ Tail(s) \in Seq(S) /\ Len(Tail(s)) = Len(s) - 1 /\ Len(s) > 0
           /\ DOMAIN Tail(s) = 1..(Len(s) - 1)
           /\ \A k \in 1..(Len(s) - 1) : Tail(s)[k] = s[k + 1]
OBVIOUS

--------------------------------------------------------------------------------
(* What the steps do to the command queue.                                      *)

\* A kind is at the head, behind it, or not there.
LEMMA HeadOrLater ==
    ASSUME BridgeTypeOK, ChainsInStep, NEW kinds
    PROVE  /\ commands # <<>> =>
                 (Pending(kinds) <=> Head(commands).does \in kinds \/ Later(kinds))
           /\ commands # <<>> =>
                 (Late(kinds) <=> \/ Later(kinds)
                                  \/ /\ Head(commands).does \in kinds
                                     /\ command.at = "idle" \/ command.ahead > 0)
           /\ commands = <<>> => ~Pending(kinds) /\ ~Later(kinds) /\ ~Late(kinds)
           /\ Later(kinds) => Late(kinds)
           /\ Late(kinds) => Pending(kinds)
           /\ Pending(kinds) \in BOOLEAN /\ Later(kinds) \in BOOLEAN /\ Late(kinds) \in BOOLEAN
<1>1. /\ Len(commands) \in Nat /\ DOMAIN commands = 1..Len(commands)
      /\ commands # <<>> => 1 \in DOMAIN commands /\ Head(commands) = commands[1]
    BY BridgeChains
<1>2. commands = <<>> => DOMAIN commands = {}
    BY <1>1
<1>. QED BY <1>1, <1>2 DEF Pending, Later, Late

\* A step that leaves the queue and its head alone.
LEMMA QueueRests ==
    ASSUME UNCHANGED <<commands, command>>
    PROVE  \A kinds : /\ Pending(kinds)' <=> Pending(kinds)
                      /\ Later(kinds)' <=> Later(kinds)
                      /\ Late(kinds)' <=> Late(kinds)
BY DEF Pending, Later, Late

\* A step that leaves the queue alone, but not what its head awaits.
LEMMA QueueStays ==
    ASSUME UNCHANGED commands
    PROVE  \A kinds : /\ Pending(kinds)' <=> Pending(kinds)
                      /\ Later(kinds)' <=> Later(kinds)
BY DEF Pending, Later

\* Commands are asked for.
LEMMA QueueGrows ==
    ASSUME BridgeTypeOK, ChainsInStep, NEW more \in Seq(Command), Enqueue(more),
           command' = command
    PROVE  /\ commands' \in Seq(Command) /\ (commands # <<>> => commands' # <<>>)
           /\ commands # <<>> => Head(commands') = Head(commands)
           /\ \A kinds :
                (\E k \in 1..Len(more) : more[k].does \in kinds) =>
                   /\ Pending(kinds)' /\ Late(kinds)'
                   /\ command.at # "idle" => Later(kinds)'
           /\ \A kinds :
                (\A k \in 1..Len(more) : more[k].does \notin kinds) =>
                   /\ Pending(kinds)' <=> Pending(kinds)
                   /\ Late(kinds)' <=> Late(kinds)
                   /\ Later(kinds)' <=> Later(kinds)
<1>1. /\ commands \in Seq(Command) /\ Len(commands) \in Nat /\ Len(more) \in Nat
      /\ DOMAIN commands = 1..Len(commands)
      /\ commands # <<>> => 1 \in DOMAIN commands /\ Head(commands) = commands[1]
    BY BridgeChains
<1>2. commands' = commands \o more
    BY DEF Enqueue
<1>3. /\ commands' \in Seq(Command)
      /\ \A k \in 1..Len(commands) : k \in DOMAIN commands' /\ commands'[k] = commands[k]
      /\ \A k \in 1..Len(more) : /\ Len(commands) + k \in DOMAIN commands'
                                 /\ commands'[Len(commands) + k] = more[k]
      /\ \A k \in DOMAIN commands' :
            \/ k \in 1..Len(commands) /\ commands'[k] = commands[k]
            \/ /\ k - Len(commands) \in 1..Len(more)
               /\ commands'[k] = more[k - Len(commands)]
      /\ DOMAIN commands' = 1..(Len(commands) + Len(more))
    BY <1>1, <1>2, Joined
<1>4. /\ commands # <<>> => commands' # <<>>
      /\ commands # <<>> => Head(commands') = Head(commands)
  <2>1. SUFFICES ASSUME commands # <<>> PROVE commands' # <<>> /\ Head(commands') = Head(commands)
      OBVIOUS
  <2>2. 1 \in DOMAIN commands' /\ commands'[1] = commands[1]
      BY <1>1, <1>3, <2>1
  <2>. QED BY <1>1, <1>3, <2>1, <2>2
<1>5. ASSUME NEW kinds, NEW k \in 1..Len(more), more[k].does \in kinds
      PROVE  /\ Pending(kinds)' /\ Late(kinds)'
             /\ command.at # "idle" => Later(kinds)'
  <2>. DEFINE at == Len(commands) + k
  <2>1. at \in DOMAIN commands' /\ commands'[at].does \in kinds
      BY <1>3, <1>5
  <2>2. command.at # "idle" => at > 1
      BY <1>1, <1>5 DEF ChainsInStep
  <2>. QED BY <2>1, <2>2 DEF Pending, Late, Later
<1>6. ASSUME NEW kinds, \A k \in 1..Len(more) : more[k].does \notin kinds
      PROVE  \A k \in DOMAIN commands' :
                commands'[k].does \in kinds => k \in DOMAIN commands /\ commands'[k] = commands[k]
    BY <1>1, <1>3, <1>6
<1>7. ASSUME NEW kinds, \A k \in 1..Len(more) : more[k].does \notin kinds
      PROVE  /\ Pending(kinds)' <=> Pending(kinds)
             /\ Late(kinds)' <=> Late(kinds)
             /\ Later(kinds)' <=> Later(kinds)
  <2>1. \A k \in DOMAIN commands : k \in DOMAIN commands' /\ commands'[k] = commands[k]
      BY <1>1, <1>3
  <2>. QED BY <1>6, <1>7, <2>1 DEF Pending, Late, Later
<1>. QED BY <1>3, <1>4, <1>5, <1>7

\* The head is done.
LEMMA QueueAdvances ==
    ASSUME BridgeTypeOK, ChainsInStep, commands # <<>>, CommandIsDone
    PROVE  /\ commands' \in Seq(Command)
           /\ \A kinds : /\ Pending(kinds)' <=> Later(kinds)
                         /\ Late(kinds)' <=> Later(kinds)
<1>1. /\ commands \in Seq(Command) /\ Len(commands) \in Nat
      /\ DOMAIN commands = 1..Len(commands)
    BY BridgeChains
<1>2. /\ commands' \in Seq(Command) /\ DOMAIN commands' = 1..(Len(commands) - 1)
      /\ \A k \in 1..(Len(commands) - 1) : commands'[k] = commands[k + 1]
      /\ command'.at = "idle"
    BY <1>1, Advanced DEF CommandIsDone, Resting
<1>3. ASSUME NEW kinds PROVE Pending(kinds)' <=> Later(kinds)
  <2>1. ASSUME Later(kinds) PROVE Pending(kinds)'
    <3>1. PICK k \in DOMAIN commands : k > 1 /\ commands[k].does \in kinds
        BY <2>1 DEF Later
    <3>2. k - 1 \in DOMAIN commands' /\ commands'[k - 1] = commands[k]
        BY <1>1, <1>2, <3>1
    <3>. QED BY <3>1, <3>2 DEF Pending
  <2>2. ASSUME Pending(kinds)' PROVE Later(kinds)
    <3>1. PICK k \in DOMAIN commands' : commands'[k].does \in kinds
        BY <2>2 DEF Pending
    <3>2. k + 1 \in DOMAIN commands /\ k + 1 > 1 /\ commands'[k] = commands[k + 1]
        BY <1>1, <1>2, <3>1
    <3>. QED BY <3>1, <3>2 DEF Later
  <2>. QED BY <2>1, <2>2
<1>4. \A kinds : Late(kinds)' <=> Pending(kinds)'
    BY <1>2 DEF Late, Pending
<1>. QED BY <1>2, <1>3, <1>4

--------------------------------------------------------------------------------
(* What the steps do to the evaluations.                                        *)

JobTypes == [at : {"idle", "setup", "consent", "start", "stop"}, replay : BOOLEAN,
             push : BOOLEAN, user : Identities, optedOut : BOOLEAN, session : NativeSessions]
HeadTypes == [at : {"idle", "waiting", "booting", "calling"}, ahead : Nat,
              user : Identities, optedOut : BOOLEAN]

\* Nothing at work.
LEMMA RestingTyped == NoJob \in JobTypes /\ Resting \in HeadTypes
BY BridgeConstants DEF NoJob, Resting, JobTypes, HeadTypes

\* The job at the head is done.
LEMMA JobDone ==
    ASSUME BridgeTypeOK, evals # <<>>, JobIsDone
    PROVE  /\ evals' \in Seq({"evaluate", "boot"}) /\ Len(evals') = Len(evals) - 1
           /\ command' \in HeadTypes /\ command'.at = command.at
           /\ command'.user = command.user /\ command'.optedOut = command.optedOut
           /\ command'.ahead = IF command.ahead > 0 THEN command.ahead - 1 ELSE 0
           /\ eval' \in JobTypes /\ eval' = NoJob /\ eval'.at = "idle"
<1>1. command \in HeadTypes /\ command.ahead \in Nat
    BY BridgeFields DEF BridgeTypeOK, HeadTypes
<1>2. IF command.ahead > 0 THEN command.ahead - 1 \in Nat ELSE 0 \in Nat
    BY <1>1
<1>3. command' = [command EXCEPT !.ahead = IF @ > 0 THEN @ - 1 ELSE 0]
    BY DEF JobIsDone
<1>4. evals' \in Seq({"evaluate", "boot"}) /\ Len(evals') = Len(evals) - 1
    BY BridgeChains, Advanced DEF JobIsDone
<1>5. eval' \in JobTypes /\ eval' = NoJob /\ eval'.at = "idle"
    BY RestingTyped DEF JobIsDone, NoJob
<1>. QED BY <1>1, <1>2, <1>3, <1>4, <1>5 DEF HeadTypes

\* What initializeNativePlugin does up to its first await: nothing, a recorder
\* that starts, or a setup.
Resumes ==
    /\ ~replayUp /\ NativeReady /\ replayUp' = TRUE
    /\ UNCHANGED <<evals, command>>
    /\ eval' \in JobTypes /\ eval'.at = "start"
SetsUp(replay) ==
    /\ started /\ (replay /\ ~replayUp => ~NativeReady)
    /\ UNCHANGED <<evals, command, replayUp>>
    /\ eval' \in JobTypes /\ eval'.at = "setup" /\ eval'.replay = replay
    /\ eval'.replay \/ eval'.push
    /\ eval'.user = client.user /\ eval'.session = client.session
NothingToInit == JobIsDone /\ replayUp' = replayUp

\* initializeNativePlugin does one of the three.
LEMMA InitFacts ==
    ASSUME BridgeTypeOK, ChainsInStep, NEW replay \in BOOLEAN, NEW push \in BOOLEAN,
           InitNative(replay, push)
    PROVE  NothingToInit \/ (replay /\ Resumes) \/ SetsUp(replay)
<1>1. client.user \in Identities /\ client.session \in NativeSessions
      /\ replayUp \in BOOLEAN /\ NativeReady \in BOOLEAN
    BY BridgeFields
<1>. DEFINE starts == [NoJob EXCEPT !.at = "start"]
            setup == [NoJob EXCEPT !.at = "setup", !.replay = replay, !.push = push,
                                   !.user = client.user, !.session = client.session]
<1>2. starts \in JobTypes /\ starts.at = "start" /\ ~starts.replay
    BY RestingTyped DEF JobTypes, NoJob
<1>3. /\ setup \in JobTypes /\ setup.at = "setup"
      /\ setup.replay = replay /\ setup.push = push
      /\ setup.user = client.user /\ setup.session = client.session
    BY <1>1, RestingTyped DEF JobTypes, NoJob
<1>. HIDE DEF setup
<1>4. \/ JobIsDone /\ replayUp' = replayUp
      \/ /\ replay /\ ~replayUp /\ NativeReady /\ replayUp' = TRUE
         /\ eval' = starts
         /\ UNCHANGED <<evals, command>>
      \/ /\ ~(replay /\ ~replayUp /\ NativeReady) /\ started /\ (replay \/ push)
         /\ eval' = setup
         /\ UNCHANGED <<evals, command, replayUp>>
    BY <1>1 DEF InitNative, setup
<1>5. NothingToInit \/ (replay /\ Resumes) \/ SetsUp(replay)
    BY <1>1, <1>2, <1>3, <1>4 DEF NothingToInit, Resumes, SetsUp
<1>. QED BY <1>5

--------------------------------------------------------------------------------
(* What the head of the command queue does.                                     *)

Clients == [user : Identities, optedOut : BOOLEAN, registered : BOOLEAN,
            linked : BOOLEAN, session : NativeSessions, activated : NativeSessions]
Natives == [up : BOOLEAN, user : Identities, optedOut : BOOLEAN,
            token : 0..MaxIdentities, recording : BOOLEAN]

\* A command that is dispatched reads the client.
Dispatched ==
    /\ commands' = commands /\ command' \in HeadTypes
    /\ command'.at = "calling" /\ command'.ahead = 0
    /\ Head(commands).does \in Identifying => command'.user = client.user
    /\ Head(commands).does = "consent" => command'.optedOut = client.optedOut
    /\ ~(Head(commands).does = "register" /\ client.optedOut)
    /\ client' \in Clients
    /\ client' = [client EXCEPT !.registered =
                     /\ @ \/ Head(commands).does = "register"
                     /\ Head(commands).does # "unregister"]

\* A command that has its turn goes out, or a registration is refused.
LEMMA DispatchFacts ==
    ASSUME BridgeTypeOK, commands # <<>>, Dispatch
    PROVE  /\ \/ Dispatched
              \/ /\ Head(commands).does = "register" /\ client.optedOut
                 /\ CommandIsDone /\ client' = client
           /\ UNCHANGED <<evals, skipped>>
<1>1. /\ client \in Clients /\ client.user \in Identities /\ client.optedOut \in BOOLEAN
      /\ client.registered \in BOOLEAN /\ 1 \in Identities
    BY BridgeFields, BridgeConstants DEF BridgeTypeOK, Clients
<1>. DEFINE does == Head(commands).does
            calling == [at |-> "calling", ahead |-> 0,
                        user |-> IF does \in {"identify", "reset"} THEN client.user ELSE 1,
                        optedOut |-> does = "consent" /\ client.optedOut]
            told == (client.registered \/ does = "register") /\ does # "unregister"
<1>2. /\ calling.at = "calling" /\ calling.ahead = 0 /\ 0 \in Nat
      /\ does \in Identifying => calling.user = client.user
      /\ does = "consent" => calling.optedOut = client.optedOut
    BY <1>1 DEF Identifying
<1>3. (does = "consent" /\ client.optedOut) \in BOOLEAN /\ told \in BOOLEAN
    BY Zenon
<1>4. calling \in HeadTypes
  <2>1. (IF does \in {"identify", "reset"} THEN client.user ELSE 1) \in Identities
      BY <1>1
  <2>. HIDE DEF does
  <2>. QED BY <1>2, <1>3, <2>1 DEF HeadTypes
<1>5. [client EXCEPT !.registered = told] \in Clients
    BY <1>1, <1>3 DEF Clients
<1>6. UNCHANGED <<evals, skipped>>
    BY DEF Dispatch
<1>7. CASE does = "register" /\ client.optedOut
    BY <1>6, <1>7 DEF Dispatch
<1>8. CASE ~(does = "register" /\ client.optedOut)
  <2>1. /\ command' = calling /\ commands' = commands
        /\ client' = [client EXCEPT !.registered = told]
      BY <1>8 DEF Dispatch
  <2>. HIDE DEF calling
  <2>. QED BY <1>2, <1>4, <1>5, <1>6, <1>8, <2>1 DEF Dispatched
<1>. QED BY <1>7, <1>8

\* What the native SDK is after a command.
LEMMA NativeAfterFacts ==
    ASSUME BridgeTypeOK, NEW does \in {"identify", "reset", "consent", "register", "unregister"},
           NEW after, after = NativeAfter(does)
    PROVE  /\ after \in Natives /\ after.up = native.up
           /\ after.recording = native.recording
           /\ after.user = IF does \in Identifying THEN command.user ELSE native.user
           /\ after.optedOut = IF does = "consent" THEN command.optedOut ELSE native.optedOut
           /\ after.token = CASE does = "reset" -> IF native.token = 0 THEN 0 ELSE command.user
                              [] does = "register" -> native.user
                              [] does = "unregister" -> 0
                              [] OTHER -> native.token
<1>1. /\ native \in Natives /\ native.user \in Identities /\ command.user \in Identities
      /\ command.optedOut \in BOOLEAN /\ native.token \in 0..MaxIdentities
      /\ Identities \subseteq 0..MaxIdentities /\ 0 \in 0..MaxIdentities
    BY BridgeFields, BridgeConstants DEF BridgeTypeOK, Natives, Identities
<1>2. CASE does = "identify"
    BY <1>1, <1>2 DEF NativeAfter, Natives, Identifying
<1>3. CASE does = "reset"
    BY <1>1, <1>3 DEF NativeAfter, Natives, Identifying
<1>4. CASE does = "consent"
    BY <1>1, <1>4 DEF NativeAfter, Natives, Identifying
<1>5. CASE does = "register"
    BY <1>1, <1>5 DEF NativeAfter, Natives, Identifying
<1>6. CASE does = "unregister"
    BY <1>1, <1>6 DEF NativeAfter, Natives, Identifying
<1>. QED BY <1>2, <1>3, <1>4, <1>5, <1>6

--------------------------------------------------------------------------------
(* Types.                                                                       *)

ApiTypes ==
    /\ client' \in Clients /\ commands' \in Seq(Command) /\ stimuli' \in 0..MaxStimuli
    /\ current' \in NativeSessions /\ evals' \in Seq({"evaluate", "boot"})
    /\ flagsDue' \in BOOLEAN /\ loggedOut' \in Identities /\ wanted' \in BOOLEAN

\* A step outside the chains: types.
LEMMA ApiTyped ==
    ASSUME BridgeTypeOK, ApiTypes,
           UNCHANGED <<options, armed, replayUp, pushUp, recording, command, eval, native,
                       stale, skipped>>,
           started' \in BOOLEAN
    PROVE  BridgeTypeOK'
BY DEF BridgeTypeOK, ApiTypes, Clients

\* A step of the chains: types.
LEMMA OtherTyped ==
    ASSUME BridgeTypeOK,
           UNCHANGED <<options, started, flagsDue, loggedOut, wanted>>,
           client' \in Clients, commands' \in Seq(Command), evals' \in Seq({"evaluate", "boot"}),
           command' \in HeadTypes, eval' \in JobTypes, native' \in Natives,
           armed' \in BOOLEAN, replayUp' \in BOOLEAN, pushUp' \in BOOLEAN,
           recording' \in BOOLEAN, skipped' \in BOOLEAN,
           current' \in NativeSessions, stimuli' \in 0..MaxStimuli, stale' \subseteq Aspects
    PROVE  BridgeTypeOK'
BY DEF BridgeTypeOK, Clients, HeadTypes, JobTypes, Natives

\* The state, by the names of the types.
LEMMA BridgeNamed ==
    ASSUME BridgeTypeOK
    PROVE  /\ client \in Clients /\ command \in HeadTypes /\ eval \in JobTypes
           /\ native \in Natives /\ current \in NativeSessions /\ stimuli \in 0..MaxStimuli
           /\ loggedOut \in Identities /\ stale \subseteq Aspects
           /\ commands \in Seq(Command) /\ evals \in Seq({"evaluate", "boot"})
BY DEF BridgeTypeOK, Clients, HeadTypes, JobTypes, Natives

\* Stimuli are bounded, and what is lost is an aspect.
LEMMA Counted ==
    ASSUME BridgeTypeOK
    PROVE  /\ Stimulus => stimuli' \in 0..MaxStimuli
           /\ UNCHANGED stimuli => stimuli' \in 0..MaxStimuli
           /\ \A aspects \in SUBSET Aspects :
                 Lands(aspects) \/ IsLost(aspects) =>
                    stimuli' \in 0..MaxStimuli /\ stale' \subseteq Aspects
<1>1. stimuli \in 0..MaxStimuli /\ MaxStimuli \in Nat /\ stale \subseteq Aspects
    BY BridgeNamed, BridgeConstants
<1>2. Stimulus => stimuli' \in 0..MaxStimuli
    BY <1>1 DEF Stimulus
<1>3. UNCHANGED stimuli => stimuli' \in 0..MaxStimuli
    BY <1>1
<1>4. ASSUME NEW aspects \in SUBSET Aspects, Lands(aspects) \/ IsLost(aspects)
      PROVE  stimuli' \in 0..MaxStimuli /\ stale' \subseteq Aspects
    BY <1>1, <1>2, <1>3, <1>4 DEF Lands, IsLost
<1>. QED BY <1>2, <1>3, <1>4

\* The commands that calls of the API ask for.
LEMMA CommandsTyped ==
    /\ \A does \in {"identify", "reset", "consent", "register", "unregister"},
          boot \in BOOLEAN : [does |-> does, boot |-> boot] \in Command
    /\ \A does, boot : /\ [does |-> does, boot |-> boot].does = does
                       /\ [does |-> does, boot |-> boot].boot = boot
BY DEF Command

\* One command, and one before consent.
LEMMA MoreTyped ==
    ASSUME NEW c \in Command, NEW d \in Command
    PROVE  /\ <<c>> \in Seq(Command) /\ Len(<<c>>) = 1 /\ <<c>>[1] = c
           /\ <<c>> \o <<d>> \in Seq(Command) /\ Len(<<c>> \o <<d>>) = 2
           /\ (<<c>> \o <<d>>)[1] = c /\ (<<c>> \o <<d>>)[2] = d
           /\ <<>> \o <<d>> = <<d>>
<1>1. /\ <<c>> \in Seq(Command) /\ Len(<<c>>) = 1 /\ <<c>>[1] = c
      /\ <<d>> \in Seq(Command) /\ Len(<<d>>) = 1 /\ <<d>>[1] = d
    OBVIOUS
<1>2. /\ <<c>> \o <<d>> \in Seq(Command) /\ Len(<<c>> \o <<d>>) = 2
      /\ (<<c>> \o <<d>>)[1] = c /\ (<<c>> \o <<d>>)[1 + 1] = d
    BY <1>1, Joined
<1>3. <<>> \o <<d>> = <<d>>
    BY <1>1, ConcatEmptySeq
<1>. QED BY <1>1, <1>2, <1>3

\* What is asked of the evaluations.
LEMMA EvaluationsTyped ==
    ASSUME BridgeTypeOK
    PROVE  /\ Append(evals, "evaluate") \in Seq({"evaluate", "boot"})
           /\ Append(evals, "boot") \in Seq({"evaluate", "boot"})
           /\ \A asked \in Seq({"evaluate"}) : evals \o asked \in Seq({"evaluate", "boot"})
<1>1. evals \in Seq({"evaluate", "boot"})
    BY BridgeNamed
<1>2. ASSUME NEW asked \in Seq({"evaluate"}) PROVE evals \o asked \in Seq({"evaluate", "boot"})
  <2>1. asked \in Seq({"evaluate", "boot"})
      OBVIOUS
  <2>. QED BY <1>1, <2>1, Joined
<1>. QED BY <1>1, <1>2

\* Numbers that grow within their bounds.
LEMMA OneMore ==
    ASSUME BridgeTypeOK
    PROVE  /\ client.user < MaxIdentities => client.user + 1 \in Identities
           /\ client.session < MaxRotations => client.session + 1 \in NativeSessions
           /\ client.user \in Nat /\ client.session \in Nat /\ client.activated \in Nat
           /\ loggedOut \in Nat /\ current \in Nat /\ eval.session \in Nat
           /\ client.user >= 1 /\ loggedOut >= 1
<1>1. client.user \in Identities /\ client.session \in NativeSessions
      /\ client.activated \in NativeSessions /\ loggedOut \in Identities
      /\ current \in NativeSessions /\ eval.session \in NativeSessions
    BY BridgeFields, BridgeNamed
<1>. QED BY <1>1, BridgeConstants DEF Identities, NativeSessions

\* propagateNativeOptOut may ask for a setup.
LEMMA PropagatedTypes ==
    ASSUME BridgeTypeOK, NEW more, PropagateOptOut(more)
    PROVE  /\ evals' \in Seq({"evaluate", "boot"})
           /\ evals' = evals \/ evals' = Append(evals, "boot")
BY BridgeNamed, EvaluationsTyped DEF PropagateOptOut

\* What calls of the API ask the native SDK for.
Asked(more) ==
    \/ BridgeIdentify /\ more = <<[does |-> "identify", boot |-> FALSE]>>
    \/ BridgeReset /\ more = <<[does |-> "reset", boot |-> client.registered]>>
                               \o <<[does |-> "consent", boot |-> FALSE]>>
    \/ OptIn /\ more = <<[does |-> "consent", boot |-> FALSE]>>
    \/ OptOut /\ more = <<[does |-> "unregister", boot |-> client.registered]>>
                          \o <<[does |-> "consent", boot |-> FALSE]>>
    \/ RegisterToken /\ more = <<[does |-> "register", boot |-> TRUE]>>
    \/ UnregisterToken /\ more = <<[does |-> "unregister", boot |-> client.registered]>>

Calls == \/ BridgeIdentify \/ BridgeReset \/ OptIn \/ OptOut \/ RegisterToken
         \/ UnregisterToken

\* Every call of the API asks for commands.
LEMMA AskedTyped ==
    ASSUME BridgeTypeOK, Calls
    PROVE  \E more \in Seq(Command) : Asked(more) /\ Enqueue(more)
<1>1. /\ client.registered \in BOOLEAN /\ TRUE \in BOOLEAN /\ FALSE \in BOOLEAN
    BY BridgeFields
<1>. DEFINE identify == [does |-> "identify", boot |-> FALSE]
            reset == [does |-> "reset", boot |-> client.registered]
            consent == [does |-> "consent", boot |-> FALSE]
            register == [does |-> "register", boot |-> TRUE]
            unregister == [does |-> "unregister", boot |-> client.registered]
<1>2. /\ identify \in Command /\ reset \in Command /\ consent \in Command
      /\ register \in Command /\ unregister \in Command
    BY <1>1, CommandsTyped
<1>3. /\ <<identify>> \in Seq(Command) /\ <<register>> \in Seq(Command)
      /\ <<unregister>> \in Seq(Command) /\ <<consent>> \in Seq(Command)
      /\ <<reset>> \o <<consent>> \in Seq(Command)
      /\ <<unregister>> \o <<consent>> \in Seq(Command)
      /\ <<>> \o <<consent>> = <<consent>>
    BY <1>2, MoreTyped
<1>4. CASE BridgeIdentify
    BY <1>3, <1>4 DEF BridgeIdentify, Asked
<1>5. CASE BridgeReset
    BY <1>3, <1>5 DEF BridgeReset, PropagateOptOut, Asked
<1>6. CASE OptIn
    BY <1>3, <1>6 DEF OptIn, PropagateOptOut, Asked
<1>7. CASE OptOut
    BY <1>3, <1>7 DEF OptOut, PropagateOptOut, Asked
<1>8. CASE RegisterToken
    BY <1>3, <1>8 DEF RegisterToken, Asked
<1>9. CASE UnregisterToken
    BY <1>3, <1>9 DEF UnregisterToken, Asked
<1>. QED BY <1>4, <1>5, <1>6, <1>7, <1>8, <1>9 DEF Calls

\* Calls of the API: types, and what they leave alone.
LEMMA CallsTyped ==
    ASSUME BridgeTypeOK, Calls
    PROVE  /\ BridgeTypeOK' /\ command' = command /\ eval' = eval /\ native' = native
           /\ stale' = stale /\ skipped' = skipped /\ current' = current
           /\ UNCHANGED <<options, started, armed, replayUp, pushUp, recording>>
           /\ evals' = evals \/ evals' = Append(evals, "boot")
<1>1. PICK more \in Seq(Command) : Enqueue(more)
    BY AskedTyped
<1>2. commands' \in Seq(Command)
    BY <1>1, BridgeNamed, Joined DEF Enqueue
<1>3. UNCHANGED <<options, armed, replayUp, pushUp, recording, command, eval, native,
                  stale, skipped, started, current>>
    BY DEF Calls, BridgeIdentify, BridgeReset, OptIn, OptOut, RegisterToken, UnregisterToken,
           apiVars
<1>4. stimuli' \in 0..MaxStimuli
  <2>1. Stimulus
      BY DEF Calls, BridgeIdentify, BridgeReset, OptIn, OptOut, RegisterToken, UnregisterToken
  <2>. QED BY <2>1, Counted
<1>5. client' \in Clients /\ loggedOut' \in Identities /\ flagsDue' \in BOOLEAN
      /\ wanted' \in BOOLEAN
  <2>1. /\ client \in Clients /\ loggedOut \in Identities /\ flagsDue \in BOOLEAN
        /\ wanted \in BOOLEAN /\ options.replay \in BOOLEAN /\ client.linked \in BOOLEAN
        /\ 0 \in NativeSessions
      BY BridgeNamed, BridgeFields, BridgeConstants
  <2>2. CASE BridgeIdentify
    <3>1. client' = [client EXCEPT !.user = client.user + 1] /\ client.user + 1 \in Identities
        BY <2>2, OneMore DEF BridgeIdentify
    <3>. QED BY <2>1, <2>2, <3>1 DEF BridgeIdentify, Clients
  <2>3. CASE BridgeReset
    <3>1. PICK linked \in {FALSE, client.linked} :
             client' = [client EXCEPT !.user = client.user + 1, !.optedOut = FALSE,
                                      !.linked = linked, !.session = client.session + 1,
                                      !.activated = 0]
        BY <2>3 DEF BridgeReset
    <3>2. client.user + 1 \in Identities /\ client.session + 1 \in NativeSessions
        BY <2>3, OneMore DEF BridgeReset
    <3>3. client' \in Clients /\ client'.user \in Identities
        BY <2>1, <3>1, <3>2 DEF Clients
    <3>. QED BY <2>1, <2>3, <3>3 DEF BridgeReset
  <2>4. CASE OptIn
      BY <2>1, <2>4 DEF OptIn, Clients
  <2>5. CASE OptOut
      BY <2>1, <2>5 DEF OptOut, Clients
  <2>6. CASE RegisterToken
      BY <2>1, <2>6 DEF RegisterToken
  <2>7. CASE UnregisterToken
      BY <2>1, <2>7 DEF UnregisterToken
  <2>. QED BY <2>2, <2>3, <2>4, <2>5, <2>6, <2>7 DEF Calls
<1>6. evals' = evals \/ evals' = Append(evals, "boot")
  <2>1. (\E first : PropagateOptOut(first)) \/ evals' = evals
      BY DEF Calls, BridgeIdentify, BridgeReset, OptIn, OptOut, RegisterToken, UnregisterToken
  <2>. QED BY <2>1, PropagatedTypes
<1>7. current' \in NativeSessions /\ evals' \in Seq({"evaluate", "boot"}) /\ started' \in BOOLEAN
    BY <1>3, <1>6, BridgeNamed, BridgeFields, EvaluationsTyped
<1>8. BridgeTypeOK'
    BY <1>2, <1>3, <1>4, <1>5, <1>7, ApiTyped DEF ApiTypes
<1>. QED BY <1>3, <1>6, <1>8

\* Evaluations are asked for.
LEMMA EvalsGrow ==
    ASSUME BridgeTypeOK, ChainsInStep, eval' = eval,
           NEW asked \in Seq({"evaluate", "boot"}), evals' = evals \o asked
    PROVE  /\ evals' \in Seq({"evaluate", "boot"}) /\ Len(evals') >= Len(evals)
           /\ evals # <<>> => evals' # <<>>
           /\ (\E k \in 1..Len(asked) : asked[k] = "evaluate") => Unread'
           /\ (\A k \in 1..Len(asked) : asked[k] = "boot") => (Unread' <=> Unread)
<1>1. /\ evals \in Seq({"evaluate", "boot"}) /\ Len(evals) \in Nat
      /\ DOMAIN evals = 1..Len(evals) /\ Len(asked) \in Nat
    BY BridgeChains
<1>2. /\ evals' \in Seq({"evaluate", "boot"}) /\ Len(evals') = Len(evals) + Len(asked)
      /\ DOMAIN evals' = 1..(Len(evals) + Len(asked))
      /\ \A k \in 1..Len(evals) : k \in DOMAIN evals' /\ evals'[k] = evals[k]
      /\ \A k \in 1..Len(asked) : /\ Len(evals) + k \in DOMAIN evals'
                                  /\ evals'[Len(evals) + k] = asked[k]
      /\ \A k \in DOMAIN evals' :
            \/ k \in 1..Len(evals) /\ evals'[k] = evals[k]
            \/ k - Len(evals) \in 1..Len(asked) /\ evals'[k] = asked[k - Len(evals)]
    BY <1>1, Joined
<1>3. Len(evals') >= Len(evals) /\ (evals # <<>> => evals' # <<>>)
    BY <1>1, <1>2
<1>4. ASSUME NEW k \in 1..Len(asked), asked[k] = "evaluate" PROVE Unread'
  <2>1. Len(evals) + k \in DOMAIN evals' /\ evals'[Len(evals) + k] = "evaluate"
      BY <1>2, <1>4
  <2>2. Len(evals) + k > 1 \/ eval'.at = "idle"
      BY <1>1, <1>4 DEF ChainsInStep
  <2>. QED BY <2>1, <2>2 DEF Unread
<1>5. ASSUME \A k \in 1..Len(asked) : asked[k] = "boot" PROVE Unread' <=> Unread
  <2>1. \A k \in DOMAIN evals' :
           evals'[k] = "evaluate" => k \in DOMAIN evals /\ evals'[k] = evals[k]
      BY <1>1, <1>2, <1>5
  <2>2. \A k \in DOMAIN evals : k \in DOMAIN evals' /\ evals'[k] = evals[k]
      BY <1>1, <1>2
  <2>. QED BY <2>1, <2>2 DEF Unread
<1>. QED BY <1>2, <1>3, <1>4, <1>5

\* One evaluation, or setup, is asked for.
LEMMA OneAsked ==
    ASSUME BridgeTypeOK, ChainsInStep, eval' = eval, NEW job \in {"evaluate", "boot"},
           evals' = Append(evals, job)
    PROVE  /\ evals' \in Seq({"evaluate", "boot"}) /\ Len(evals') = Len(evals) + 1
           /\ evals' # <<>>
           /\ job = "evaluate" => Unread'
           /\ job = "boot" => (Unread' <=> Unread)
<1>1. evals' = evals \o <<job>> /\ Len(evals') = Len(evals) + 1
    BY BridgeNamed, AppendProperties
<1>2. <<job>> \in Seq({"evaluate", "boot"}) /\ Len(<<job>>) = 1 /\ <<job>>[1] = job
    OBVIOUS
<1>3. Len(evals) \in Nat
    BY BridgeChains
<1>4. /\ evals' \in Seq({"evaluate", "boot"})
      /\ (\E k \in 1..Len(<<job>>) : <<job>>[k] = "evaluate") => Unread'
      /\ (\A k \in 1..Len(<<job>>) : <<job>>[k] = "boot") => (Unread' <=> Unread)
    BY <1>1, <1>2, EvalsGrow
<1>5. job = "evaluate" => Unread'
    BY <1>2, <1>4
<1>6. job = "boot" => (Unread' <=> Unread)
    BY <1>2, <1>4
<1>. QED BY <1>1, <1>3, <1>4, <1>5, <1>6

\* What remains unread when the head is done, or at work.
LEMMA UnreadBehind ==
    ASSUME BridgeTypeOK, evals # <<>>
    PROVE  /\ JobIsDone => (Unread' <=> \E k \in DOMAIN evals : k > 1 /\ evals[k] = "evaluate")
           /\ evals' = evals /\ eval'.at # "idle" =>
                 (Unread' <=> \E k \in DOMAIN evals : k > 1 /\ evals[k] = "evaluate")
           /\ Unread <=> \/ \E k \in DOMAIN evals : k > 1 /\ evals[k] = "evaluate"
                         \/ eval.at = "idle" /\ Head(evals) = "evaluate"
<1>1. /\ evals \in Seq({"evaluate", "boot"}) /\ Len(evals) \in Nat
      /\ DOMAIN evals = 1..Len(evals) /\ 1 \in DOMAIN evals /\ Head(evals) = evals[1]
    BY BridgeChains
<1>2. ASSUME JobIsDone
      PROVE  Unread' <=> \E k \in DOMAIN evals : k > 1 /\ evals[k] = "evaluate"
  <2>1. /\ DOMAIN evals' = 1..(Len(evals) - 1) /\ eval'.at = "idle"
        /\ \A k \in 1..(Len(evals) - 1) : evals'[k] = evals[k + 1]
      BY <1>1, <1>2, Advanced, JobDone DEF JobIsDone
  <2>2. ASSUME NEW k \in DOMAIN evals, k > 1, evals[k] = "evaluate" PROVE Unread'
    <3>1. k - 1 \in DOMAIN evals' /\ evals'[k - 1] = evals[k]
        BY <1>1, <2>1, <2>2
    <3>. QED BY <2>1, <2>2, <3>1 DEF Unread
  <2>3. ASSUME NEW k \in DOMAIN evals', evals'[k] = "evaluate"
        PROVE  \E l \in DOMAIN evals : l > 1 /\ evals[l] = "evaluate"
    <3>1. k + 1 \in DOMAIN evals /\ k + 1 > 1 /\ evals[k + 1] = evals'[k]
        BY <1>1, <2>1, <2>3
    <3>. QED BY <2>3, <3>1
  <2>. QED BY <2>2, <2>3 DEF Unread
<1>3. \A k \in DOMAIN evals : k > 1 \/ k = 1
    BY <1>1
<1>. QED BY <1>1, <1>2, <1>3 DEF Unread

\* Flags, events and sessions ask for evaluations.
Stirs ==
    \/ BridgeStarts \/ (\E linked \in BOOLEAN : FlagsArrive(linked)) \/ SessionExpires
    \/ (\E matches \in BOOLEAN : CaptureEvent(matches))

\* What an event asks for.
LEMMA EventAsks ==
    ASSUME NEW matches \in BOOLEAN, CaptureEvent(matches)
    PROVE  \E rotates \in BOOLEAN, fires \in BOOLEAN : \E asked \in Seq({"evaluate"}) :
              /\ rotates <=> SessionRotates
              /\ fires => armed
              /\ current' = IF rotates THEN client.session ELSE current
              /\ client' = [client EXCEPT !.activated = IF fires THEN client.session ELSE @]
              /\ evals' = evals \o asked
              /\ fires \/ (rotates /\ armed) =>
                    \E k \in 1..Len(asked) : asked[k] = "evaluate"
<1>. DEFINE fires == /\ matches /\ armed /\ ~client.optedOut
                     /\ ~(client.activated = client.session /\ recording)
            one == IF SessionRotates /\ armed THEN <<"evaluate">> ELSE <<>>
            two == IF fires THEN <<"evaluate">> ELSE <<>>
            asked == one \o two
<1>1. /\ current' = IF SessionRotates THEN client.session ELSE current
      /\ client' = [client EXCEPT !.activated = IF fires THEN client.session ELSE @]
      /\ evals' = evals \o asked
    BY DEF CaptureEvent
<1>2. /\ <<"evaluate">> \in Seq({"evaluate"}) /\ Len(<<"evaluate">>) = 1
      /\ <<"evaluate">>[1] = "evaluate" /\ <<>> \in Seq({"evaluate"})
      /\ Len(<<>>) = 0
    OBVIOUS
<1>3. one \in Seq({"evaluate"}) /\ two \in Seq({"evaluate"})
    BY <1>2
<1>4. /\ asked \in Seq({"evaluate"}) /\ Len(asked) = Len(one) + Len(two)
      /\ Len(one) \in Nat /\ Len(two) \in Nat /\ DOMAIN asked = 1..(Len(one) + Len(two))
      /\ \A k \in DOMAIN asked : asked[k] = "evaluate"
  <2>1. /\ asked \in Seq({"evaluate"}) /\ Len(asked) = Len(one) + Len(two)
        /\ DOMAIN asked = 1..(Len(one) + Len(two))
      BY <1>3, Joined
  <2>2. \A k \in DOMAIN asked : asked[k] \in {"evaluate"}
      BY <2>1, ElementOfSeq
  <2>. QED BY <1>3, <2>1, <2>2
<1>5. fires \/ (SessionRotates /\ armed) => Len(asked) >= 1
  <2>1. fires => Len(two) = 1
      BY <1>2
  <2>2. SessionRotates /\ armed => Len(one) = 1
      BY <1>2
  <2>. QED BY <1>4, <2>1, <2>2
<1>6. fires \/ (SessionRotates /\ armed) => \E k \in 1..Len(asked) : asked[k] = "evaluate"
  <2>1. SUFFICES ASSUME fires \/ (SessionRotates /\ armed)
                 PROVE  \E k \in 1..Len(asked) : asked[k] = "evaluate"
      OBVIOUS
  <2>2. 1 \in 1..Len(asked) /\ 1 \in DOMAIN asked
      BY <1>4, <1>5, <2>1
  <2>. QED BY <1>4, <2>2
<1>7. SessionRotates \in BOOLEAN /\ fires \in BOOLEAN
    BY Zenon DEF SessionRotates
<1>8. fires => armed
    OBVIOUS
<1>. HIDE DEF fires, asked
<1>. QED BY <1>1, <1>4, <1>6, <1>7, <1>8

\* Flags, events and sessions: types, and what they leave alone.
LEMMA StirsTyped ==
    ASSUME BridgeTypeOK, ChainsInStep, Stirs
    PROVE  /\ BridgeTypeOK'
           /\ UNCHANGED <<options, armed, replayUp, pushUp, recording, commands, command, eval,
                          native, stale, skipped, loggedOut, wanted>>
           /\ client'.user = client.user /\ client'.optedOut = client.optedOut
           /\ client'.registered = client.registered
           /\ started => started'
           /\ Len(evals') >= Len(evals) /\ (evals # <<>> => evals' # <<>>)
<1>1. UNCHANGED <<options, armed, replayUp, pushUp, recording, commands, command, eval,
                  native, stale, skipped, loggedOut, wanted>>
    BY DEF Stirs, BridgeStarts, FlagsArrive, SessionExpires, CaptureEvent, apiVars
<1>2. started' \in BOOLEAN /\ (started => started')
  <2>1. started \in BOOLEAN
      BY BridgeFields
  <2>2. started' = TRUE \/ UNCHANGED started
      BY DEF Stirs, BridgeStarts, FlagsArrive, SessionExpires, CaptureEvent, apiVars
  <2>. QED BY <2>1, <2>2, Zenon
<1>3. stimuli' \in 0..MaxStimuli
  <2>1. Stimulus \/ UNCHANGED stimuli
      BY DEF Stirs, BridgeStarts, FlagsArrive, SessionExpires, CaptureEvent
  <2>. QED BY <2>1, Counted
<1>4. /\ client \in Clients /\ flagsDue \in BOOLEAN /\ current \in NativeSessions
      /\ loggedOut \in Identities /\ wanted \in BOOLEAN /\ commands \in Seq(Command)
      /\ client.session \in NativeSessions /\ client.activated \in NativeSessions
      /\ evals \in Seq({"evaluate", "boot"}) /\ Len(evals) \in Nat
    BY BridgeNamed, BridgeFields, BridgeChains
<1>5. /\ client' \in Clients /\ client'.user = client.user
      /\ client'.optedOut = client.optedOut /\ client'.registered = client.registered
      /\ current' \in NativeSessions /\ flagsDue' \in BOOLEAN
      /\ evals' \in Seq({"evaluate", "boot"})
      /\ Len(evals') >= Len(evals) /\ (evals # <<>> => evals' # <<>>)
  <2>1. CASE BridgeStarts
    <3>1. /\ evals' \in Seq({"evaluate", "boot"}) /\ Len(evals') = Len(evals) + 1
          /\ evals' # <<>>
        BY <1>1, <2>1, OneAsked DEF BridgeStarts
    <3>. QED BY <1>4, <2>1, <3>1 DEF BridgeStarts
  <2>2. ASSUME NEW linked \in BOOLEAN, FlagsArrive(linked)
        PROVE  <1>5!:
    <3>1. /\ evals' \in Seq({"evaluate", "boot"}) /\ Len(evals') = Len(evals) + 1
          /\ evals' # <<>>
        BY <1>1, <2>2, OneAsked DEF FlagsArrive
    <3>2. client' = [client EXCEPT !.linked = linked] /\ current' = current
        BY <2>2 DEF FlagsArrive
    <3>3. flagsDue' \in BOOLEAN
        BY <2>2, Zenon DEF FlagsArrive
    <3>4. client' \in Clients /\ client'.user = client.user
          /\ client'.optedOut = client.optedOut /\ client'.registered = client.registered
        BY <1>4, <3>2 DEF Clients
    <3>5. current' \in NativeSessions /\ Len(evals') >= Len(evals)
        BY <1>4, <3>1, <3>2
    <3>. QED BY <3>1, <3>3, <3>4, <3>5
  <2>3. CASE SessionExpires
    <3>1. /\ client' = [client EXCEPT !.session = client.session + 1] /\ current' = current
          /\ flagsDue' = flagsDue /\ evals' = evals /\ client.session + 1 \in NativeSessions
        BY <2>3, OneMore DEF SessionExpires
    <3>. QED BY <1>4, <3>1 DEF Clients
  <2>4. ASSUME NEW matches \in BOOLEAN, CaptureEvent(matches)
        PROVE  <1>5!:
    <3>1. PICK rotates \in BOOLEAN, fires \in BOOLEAN : \E asked \in Seq({"evaluate"}) :
              /\ current' = IF rotates THEN client.session ELSE current
              /\ client' = [client EXCEPT !.activated = IF fires THEN client.session ELSE @]
              /\ evals' = evals \o asked
        BY <2>4, EventAsks
    <3>2. PICK asked \in Seq({"evaluate"}) : evals' = evals \o asked
        BY <3>1
    <3>3. asked \in Seq({"evaluate", "boot"})
        OBVIOUS
    <3>4. /\ evals' \in Seq({"evaluate", "boot"}) /\ Len(evals') >= Len(evals)
          /\ evals # <<>> => evals' # <<>>
        BY <1>1, <3>2, <3>3, EvalsGrow
    <3>5. flagsDue' = flagsDue
        BY <2>4 DEF CaptureEvent
    <3>6. (IF fires THEN client.session ELSE client.activated) \in NativeSessions
        BY <1>4
    <3>7. client' = [client EXCEPT !.activated = IF fires THEN client.session
                                                             ELSE client.activated]
        BY <3>1
    <3>8. /\ client' \in Clients /\ client'.user = client.user
          /\ client'.optedOut = client.optedOut /\ client'.registered = client.registered
        BY <1>4, <3>6, <3>7 DEF Clients
    <3>. QED BY <1>4, <3>1, <3>4, <3>5, <3>8
  <2>. QED BY <2>1, <2>2, <2>3, <2>4 DEF Stirs
<1>6. BridgeTypeOK'
    BY <1>1, <1>2, <1>3, <1>4, <1>5, ApiTyped DEF ApiTypes
<1>. QED BY <1>1, <1>2, <1>5, <1>6

\* What the head of the evaluations does.
LEMMA BootFacts ==
    ASSUME BridgeTypeOK, ChainsInStep, BootStarts
    PROVE  /\ eval.at = "idle" /\ evals # <<>> /\ Head(evals) = "boot"
           /\ NothingToInit \/ (SetsUp(FALSE) /\ ~NativeReady)
           /\ UNCHANGED <<evalKeeps, current, armed, pushUp, recording, native, stimuli, stale>>
<1>1. (~NativeReady /\ PushEnabled(client.optedOut, TRUE)) \in BOOLEAN /\ FALSE \in BOOLEAN
    BY Zenon
<1>2. NothingToInit \/ SetsUp(FALSE)
    BY <1>1, InitFacts DEF BootStarts
<1>3. NativeReady => NothingToInit
  <2>1. SUFFICES ASSUME NativeReady PROVE NothingToInit
      OBVIOUS
  <2>2. InitNative(FALSE, ~NativeReady /\ PushEnabled(client.optedOut, TRUE))
      BY DEF BootStarts
  <2>. QED BY <2>1, <2>2, Zenon DEF InitNative, NothingToInit
<1>. QED BY <1>2, <1>3 DEF BootStarts

\* An evaluation reads the gate, and starts, stops or initializes.
LEMMA EvaluationFacts ==
    ASSUME BridgeTypeOK, ChainsInStep, EvaluationStarts
    PROVE  /\ eval.at = "idle" /\ evals # <<>> /\ Head(evals) = "evaluate"
           /\ armed' = (options.replay /\ options.triggers)
           /\ UNCHANGED <<evalKeeps, current, pushUp, recording, native, stimuli, stale>>
           /\ \/ /\ ~options.replay \/ (~GateIsOpen /\ ~recording)
                 /\ NothingToInit \/ SetsUp(FALSE)
              \/ options.replay /\ GateIsOpen /\ recording /\ NothingToInit
              \/ /\ options.replay /\ GateIsOpen /\ ~recording /\ ~replayUp
                 /\ Resumes \/ SetsUp(TRUE) \/ (NothingToInit /\ ~started)
              \/ /\ options.replay /\ GateIsOpen /\ ~recording /\ replayUp
                 /\ eval' \in JobTypes /\ eval'.at = "start" /\ ~eval'.replay
                 /\ UNCHANGED <<evals, command, replayUp>>
              \/ /\ options.replay /\ ~GateIsOpen /\ recording
                 /\ eval' \in JobTypes /\ eval'.at = "stop" /\ ~eval'.replay
                 /\ UNCHANGED <<evals, command, replayUp>>
<1>1. PushEnabled(client.optedOut, FALSE) \in BOOLEAN /\ FALSE \in BOOLEAN /\ TRUE \in BOOLEAN
    BY Zenon DEF PushEnabled
<1>2. /\ eval.at = "idle" /\ evals # <<>> /\ Head(evals) = "evaluate"
      /\ armed' = (options.replay /\ options.triggers)
      /\ UNCHANGED <<evalKeeps, current, pushUp, recording, native, stimuli, stale>>
    BY DEF EvaluationStarts
<1>3. CASE (~options.replay \/ (~GateIsOpen /\ ~recording))
           /\ InitNative(FALSE, PushEnabled(client.optedOut, FALSE))
    BY <1>1, <1>2, <1>3, InitFacts
<1>4. CASE options.replay /\ GateIsOpen /\ recording /\ JobIsDone /\ UNCHANGED replayUp
    BY <1>2, <1>4 DEF NothingToInit
<1>5. CASE /\ options.replay /\ GateIsOpen /\ ~recording /\ ~replayUp
           /\ InitNative(TRUE, PushEnabled(client.optedOut, FALSE))
  <2>1. NothingToInit \/ Resumes \/ SetsUp(TRUE)
      BY <1>1, <1>5, InitFacts
  <2>2. NothingToInit /\ started => Resumes \/ SetsUp(TRUE)
    <3>1. SUFFICES ASSUME NothingToInit, started, ~Resumes PROVE SetsUp(TRUE)
        OBVIOUS
    <3>. DEFINE setup == [NoJob EXCEPT !.at = "setup", !.replay = TRUE,
                             !.push = PushEnabled(client.optedOut, FALSE),
                             !.user = client.user, !.session = client.session]
    <3>2. eval'.at = "idle"
        BY <1>2, <3>1, JobDone DEF NothingToInit
    <3>3. eval' = [NoJob EXCEPT !.at = "start"] \/ eval' = setup
        BY <1>5, <3>1 DEF InitNative
    <3>. QED BY <3>2, <3>3 DEF NoJob
  <2>. QED BY <1>2, <1>5, <2>1, <2>2
<1>6. CASE /\ options.replay /\ GateIsOpen /\ ~recording /\ replayUp
           /\ eval' = [NoJob EXCEPT !.at = "start"]
           /\ UNCHANGED <<evals, command, replayUp>>
  <2>1. eval' \in JobTypes /\ eval'.at = "start" /\ ~eval'.replay
      BY <1>6, RestingTyped DEF JobTypes, NoJob
  <2>. QED BY <1>2, <1>6, <2>1
<1>7. CASE /\ options.replay /\ ~GateIsOpen /\ recording
           /\ eval' = [NoJob EXCEPT !.at = "stop", !.push = PushEnabled(client.optedOut, FALSE)]
           /\ UNCHANGED <<evals, command, replayUp>>
  <2>1. eval' \in JobTypes /\ eval'.at = "stop" /\ ~eval'.replay
      BY <1>1, <1>7, RestingTyped DEF JobTypes, NoJob
  <2>. QED BY <1>2, <1>7, <2>1
<1>. QED BY <1>3, <1>4, <1>5, <1>6, <1>7 DEF EvaluationStarts

\* A recorder that is stopped may make room for a setup of push.
LEMMA StopFacts ==
    ASSUME BridgeTypeOK, ChainsInStep, RecorderStops
    PROVE  /\ eval.at = "stop"
           /\ \/ /\ Lands({"recorder"})
                 /\ native' = [native EXCEPT !.recording = FALSE] /\ ~recording'
              \/ IsLost({"recorder"}) /\ UNCHANGED <<native, recording>>
           /\ NothingToInit \/ SetsUp(FALSE)
           /\ UNCHANGED <<evalKeeps, current, armed, pushUp>>
<1>1. (eval.push /\ PushEnabled(client.optedOut, FALSE)) \in BOOLEAN /\ FALSE \in BOOLEAN
    BY Zenon
<1>2. NothingToInit \/ SetsUp(FALSE)
    BY <1>1, InitFacts DEF RecorderStops
<1>. QED BY <1>2 DEF RecorderStops

\* The evaluation chain goes on.
Works ==
    \/ BootStarts \/ EvaluationStarts
    \/ SetupLands \/ SetupIsLost \/ SetupEnds \/ SetupConsentIsLost
    \/ RecorderStarts \/ RecorderStops

\* Its head ends its job, or has one in hand.
Worked ==
    \/ JobIsDone
    \/ UNCHANGED <<evals, command>> /\ eval' \in JobTypes /\ eval'.at # "idle" /\ started

\* Initialization is work of the head.
LEMMA InitWorked ==
    ASSUME BridgeTypeOK, ChainsInStep, NEW replay \in BOOLEAN,
           NothingToInit \/ Resumes \/ SetsUp(replay)
    PROVE  Worked /\ replayUp' \in BOOLEAN /\ (replayUp => replayUp')
<1>1. replayUp \in BOOLEAN /\ (NativeReady => started)
    BY BridgeFields DEF ChainsInStep
<1>2. CASE NothingToInit
    BY <1>1, <1>2 DEF NothingToInit, Worked
<1>3. CASE Resumes
    BY <1>1, <1>3 DEF Resumes, Worked
<1>4. CASE SetsUp(replay)
    BY <1>1, <1>4 DEF SetsUp, Worked
<1>. QED BY <1>2, <1>3, <1>4

\* The evaluations: types, and what they leave alone.
LEMMA WorksTyped ==
    ASSUME BridgeTypeOK, ChainsInStep, Works
    PROVE  /\ BridgeTypeOK' /\ Worked /\ evals # <<>>
           /\ UNCHANGED <<options, started, client, commands, flagsDue, loggedOut, wanted,
                          skipped>>
           /\ native'.token = native.token
           /\ NativeReady => NativeReady'
<1>1. /\ UNCHANGED <<options, started, client, commands, flagsDue, loggedOut, wanted, skipped>>
      /\ evals # <<>>
    BY DEF Works, BootStarts, EvaluationStarts, SetupLands, SetupIsLost, SetupEnds,
           SetupConsentIsLost, RecorderStarts, RecorderStops, evalKeeps, ChainsInStep
<1>2. Worked /\ replayUp' \in BOOLEAN /\ (replayUp => replayUp')
  <2>1. /\ replayUp \in BOOLEAN /\ eval.replay \in BOOLEAN /\ eval \in JobTypes
        /\ (eval.at # "idle" => started) /\ FALSE \in BOOLEAN /\ TRUE \in BOOLEAN
        /\ client.optedOut \in BOOLEAN /\ 1 \in Identities
      BY BridgeFields, BridgeNamed, BridgeConstants DEF ChainsInStep
  <2>2. CASE BootStarts
      BY <2>1, <2>2, BootFacts, InitWorked
  <2>3. CASE EvaluationStarts
    <3>1. CASE NothingToInit \/ Resumes \/ SetsUp(FALSE) \/ SetsUp(TRUE)
        BY <2>1, <3>1, InitWorked
    <3>2. CASE ~(NothingToInit \/ Resumes \/ SetsUp(FALSE) \/ SetsUp(TRUE))
      <4>1. /\ options.replay /\ eval' \in JobTypes /\ eval'.at \in {"start", "stop"}
            /\ UNCHANGED <<evals, command, replayUp>> /\ (replayUp \/ recording)
          BY <2>3, <3>2, EvaluationFacts
      <4>2. started
          BY <4>1 DEF ChainsInStep, NativeReady
      <4>3. Worked
          BY <4>1, <4>2 DEF Worked
      <4>. QED BY <2>1, <4>1, <4>3
    <3>. QED BY <3>1, <3>2
  <2>4. CASE SetupLands
    <3>1. eval' = [eval EXCEPT !.at = "consent", !.user = 1, !.optedOut = client.optedOut]
        BY <2>4 DEF SetupLands
    <3>2. eval' \in JobTypes /\ eval'.at = "consent"
        BY <2>1, <3>1 DEF JobTypes
    <3>. QED BY <2>1, <2>4, <3>2 DEF SetupLands, Worked
  <2>5. CASE SetupIsLost
      BY <2>1, <2>5 DEF SetupIsLost, Worked
  <2>6. CASE SetupEnds
    <3>1. replayUp' \in BOOLEAN /\ (replayUp => replayUp')
        BY <2>1, <2>6, Zenon DEF SetupEnds
    <3>. QED BY <2>6, <3>1 DEF SetupEnds, Worked
  <2>7. CASE SetupConsentIsLost
      BY <2>1, <2>7 DEF SetupConsentIsLost, Worked
  <2>8. CASE RecorderStarts
      BY <2>1, <2>8 DEF RecorderStarts, Worked
  <2>9. CASE RecorderStops
      BY <2>1, <2>9, StopFacts, InitWorked
  <2>. QED BY <2>2, <2>3, <2>4, <2>5, <2>6, <2>7, <2>8, <2>9 DEF Works
<1>3. /\ evals' \in Seq({"evaluate", "boot"}) /\ command' \in HeadTypes /\ eval' \in JobTypes
    BY <1>1, <1>2, BridgeNamed, JobDone DEF Worked
<1>4. /\ native' \in Natives /\ native'.token = native.token
      /\ pushUp' \in BOOLEAN /\ (pushUp => pushUp') /\ recording' \in BOOLEAN
      /\ armed' \in BOOLEAN /\ current' \in NativeSessions
      /\ stimuli' \in 0..MaxStimuli /\ stale' \subseteq Aspects
  <2>1. /\ native \in Natives /\ pushUp \in BOOLEAN /\ recording \in BOOLEAN /\ armed \in BOOLEAN
        /\ current \in NativeSessions /\ stimuli \in 0..MaxStimuli /\ stale \subseteq Aspects
        /\ eval.user \in Identities /\ eval.optedOut \in BOOLEAN
        /\ eval.session \in NativeSessions /\ native.up \in BOOLEAN
        /\ native.recording \in BOOLEAN
        /\ native.token \in 0..MaxIdentities /\ native.user \in Identities
        /\ eval.replay \in BOOLEAN /\ eval.push \in BOOLEAN
      BY BridgeNamed, BridgeFields
  <2>2. \A flag \in BOOLEAN, other \in BOOLEAN : (flag \/ other) \in BOOLEAN
      BY Zenon
  <2>3. \A aspects \in SUBSET Aspects :
           Lands(aspects) \/ IsLost(aspects) =>
              stimuli' \in 0..MaxStimuli /\ stale' \subseteq Aspects
      BY Counted
  <2>4. /\ {"identity"} \in SUBSET Aspects /\ {"recorder"} \in SUBSET Aspects
        /\ {"consent"} \in SUBSET Aspects /\ {"consent", "recorder"} \in SUBSET Aspects
        /\ {} \in SUBSET Aspects
      BY DEF Aspects
  <2>5. CASE BootStarts
      BY <2>1, <2>5, BootFacts
  <2>6. CASE EvaluationStarts
    <3>1. armed' \in BOOLEAN
        BY <2>6, Zenon, EvaluationFacts
    <3>. QED BY <2>1, <2>6, <3>1, EvaluationFacts
  <2>7. CASE SetupLands
    <3>1. (native.recording \/ (eval.replay /\ ~native.up)) \in BOOLEAN
        BY Zenon
    <3>2. native' = [native EXCEPT !.up = TRUE, !.user = eval.user,
                         !.recording = native.recording \/ (eval.replay /\ ~native.up)]
        BY <2>7 DEF SetupLands
    <3>3. native' \in Natives /\ native'.token = native.token
        BY <2>1, <3>1, <3>2 DEF Natives
    <3>. QED BY <2>1, <2>3, <2>4, <2>7, <3>3 DEF SetupLands
  <2>8. CASE SetupIsLost
    <3>1. IsLost({"recorder"}) \/ IsLost({})
        BY <2>8 DEF SetupIsLost
    <3>. QED BY <2>1, <2>3, <2>4, <2>8, <3>1 DEF SetupIsLost
  <2>9. CASE SetupEnds
    <3>1. native' \in Natives /\ native'.token = native.token
        BY <2>1, <2>9 DEF SetupEnds, Natives
    <3>2. pushUp' \in BOOLEAN /\ (pushUp => pushUp') /\ recording' \in BOOLEAN
        BY <2>1, <2>9, Zenon DEF SetupEnds
    <3>. QED BY <2>1, <2>3, <2>4, <2>9, <3>1, <3>2 DEF SetupEnds
  <2>10. CASE SetupConsentIsLost
      BY <2>1, <2>3, <2>4, <2>10 DEF SetupConsentIsLost
  <2>11. CASE RecorderStarts
    <3>1. native' \in Natives /\ native'.token = native.token
        BY <2>1, <2>11 DEF RecorderStarts, Natives
    <3>2. recording' \in BOOLEAN
        BY <2>1, <2>11, Zenon DEF RecorderStarts
    <3>. QED BY <2>1, <2>3, <2>4, <2>11, <3>1, <3>2 DEF RecorderStarts
  <2>12. CASE RecorderStops
    <3>1. native' \in Natives /\ native'.token = native.token
        BY <2>1, <2>12, StopFacts DEF Natives
    <3>2. recording' \in BOOLEAN
        BY <2>1, <2>12, Zenon DEF RecorderStops
    <3>. QED BY <2>1, <2>3, <2>4, <2>12, <3>1, <3>2, StopFacts
  <2>. QED BY <2>5, <2>6, <2>7, <2>8, <2>9, <2>10, <2>11, <2>12 DEF Works
<1>5. /\ client' \in Clients /\ commands' \in Seq(Command) /\ skipped' \in BOOLEAN
    BY <1>1, BridgeNamed, BridgeFields
<1>6. BridgeTypeOK'
    BY <1>1, <1>2, <1>3, <1>4, <1>5, OtherTyped
<1>7. NativeReady => NativeReady'
    BY <1>2, <1>4 DEF NativeReady
<1>. QED BY <1>1, <1>2, <1>4, <1>6, <1>7

\* The command queue goes on.
Heads == \/ CommandTakesTurn \/ CommandResumes \/ CommandIsBooted \/ CommandLands
         \/ CommandIsLost

\* What its head does: it takes its turn, asks for a setup, goes out, is dropped or
\* skipped, or has crossed the bridge.
TakesTurn ==
    /\ command.at = "idle" /\ commands' = commands /\ started
    /\ command' \in HeadTypes /\ command'.at = "waiting" /\ command'.ahead = Len(evals)
    /\ UNCHANGED <<client, evals, native, stale, skipped>>
AsksForBoot ==
    /\ command.at = "waiting" /\ commands' = commands
    /\ evals' = Append(evals, "boot")
    /\ command' \in HeadTypes /\ command'.at = "booting" /\ command'.ahead = Len(evals) + 1
    /\ UNCHANGED <<client, native, stale, skipped>>
GoesOut ==
    /\ command.at \in {"waiting", "booting"} /\ command.ahead = 0 /\ NativeReady
    /\ Dispatched /\ UNCHANGED <<evals, native, stale, skipped>>
IsRefused ==
    /\ command.at \in {"waiting", "booting"} /\ command.ahead = 0
    /\ NativeReady /\ Head(commands).does = "register" /\ client.optedOut
    /\ CommandIsDone /\ UNCHANGED <<client, evals, native, stale, skipped>>
IsDropped ==
    /\ command.at \in {"waiting", "booting"} /\ command.ahead = 0
    /\ ~NativeReady /\ (~Head(commands).boot \/ skipped')
    /\ CommandIsDone /\ (skipped => skipped')
    /\ UNCHANGED <<client, evals, native, stale>>
HasLanded ==
    /\ command.at = "calling" /\ CommandIsDone
    /\ native' = NativeAfter(Head(commands).does)
    /\ IF Head(commands).does = "register" /\ "identity" \in stale
       THEN stale' = stale \cup {"token"}
       ELSE stale' = stale \ (IF Head(commands).does = "reset" THEN {"identity"}
                              ELSE Concerns(Head(commands).does))
    /\ UNCHANGED <<client, evals, skipped>>
WasLost ==
    /\ command.at = "calling" /\ CommandIsDone
    /\ stale' = stale \cup Concerns(Head(commands).does)
    /\ UNCHANGED <<client, evals, native, skipped>>

HeadMoves == \/ TakesTurn \/ AsksForBoot \/ GoesOut \/ IsRefused \/ IsDropped \/ HasLanded
             \/ WasLost

\* Every step of the command queue is one of those.
LEMMA HeadsMove ==
    ASSUME BridgeTypeOK, ChainsInStep, Heads
    PROVE  /\ HeadMoves /\ commands # <<>> /\ skipped' \in BOOLEAN
           /\ stimuli' \in 0..MaxStimuli /\ stale' \subseteq Aspects
           /\ UNCHANGED commandKeeps
<1>1. /\ commands # <<>> /\ UNCHANGED commandKeeps /\ skipped \in BOOLEAN
      /\ stimuli \in 0..MaxStimuli /\ stale \subseteq Aspects
  <2>1. skipped \in BOOLEAN
      BY BridgeFields
  <2>2. stimuli \in 0..MaxStimuli /\ stale \subseteq Aspects
      BY BridgeNamed
  <2>. QED BY <2>1, <2>2 DEF Heads, CommandTakesTurn, CommandResumes, CommandIsBooted,
              CommandLands, CommandIsLost, ChainsInStep
<1>2. /\ Head(commands).does \in {"identify", "reset", "consent", "register", "unregister"}
      /\ Resting \in HeadTypes /\ Len(evals) \in Nat /\ command \in HeadTypes
      /\ Len(evals) + 1 \in Nat
    BY <1>1, BridgeChains, RestingTyped, BridgeNamed DEF Command
<1>3. \A aspects \in SUBSET Aspects :
           Lands(aspects) \/ IsLost(aspects) =>
              stimuli' \in 0..MaxStimuli /\ stale' \subseteq Aspects
    BY Counted
<1>4. Concerns(Head(commands).does) \in SUBSET Aspects /\ {"identity"} \in SUBSET Aspects
    BY <1>2 DEF Concerns, Aspects
<1>5. CASE CommandTakesTurn
  <2>1. command' = [Resting EXCEPT !.at = "waiting", !.ahead = Len(evals)] /\ command.at = "idle"
        /\ UNCHANGED <<commands, client, evals, native, stimuli, stale, skipped>> /\ started
      BY <1>5 DEF CommandTakesTurn
  <2>2. command' \in HeadTypes /\ command'.at = "waiting" /\ command'.ahead = Len(evals)
      BY <1>2, <2>1 DEF HeadTypes
  <2>. QED BY <1>1, <2>1, <2>2 DEF HeadMoves, TakesTurn
<1>6. CASE CommandResumes
  <2>1. /\ command.at = "waiting" /\ command.ahead = 0
        /\ UNCHANGED <<native, stimuli, stale>>
      BY <1>6 DEF CommandResumes
  <2>2. CASE NativeReady /\ Dispatch
    <3>1. UNCHANGED <<evals, skipped>>
          /\ (Dispatched \/ (/\ Head(commands).does = "register" /\ client.optedOut
                             /\ CommandIsDone /\ client' = client))
        BY <1>1, <2>2, DispatchFacts
    <3>. QED BY <1>1, <2>1, <2>2, <3>1 DEF HeadMoves, GoesOut, IsRefused
  <2>3. CASE ~NativeReady /\ ~Head(commands).boot /\ CommandIsDone
             /\ UNCHANGED <<client, evals, skipped>>
      BY <1>1, <2>1, <2>3 DEF HeadMoves, IsDropped
  <2>4. CASE /\ evals' = Append(evals, "boot")
             /\ command' = [command EXCEPT !.at = "booting", !.ahead = Len(evals) + 1]
             /\ UNCHANGED <<commands, client, skipped>>
    <3>1. command' \in HeadTypes /\ command'.at = "booting" /\ command'.ahead = Len(evals) + 1
        BY <1>2, <2>4 DEF HeadTypes
    <3>. QED BY <1>1, <2>1, <2>4, <3>1 DEF HeadMoves, AsksForBoot
  <2>. QED BY <1>6, <2>2, <2>3, <2>4 DEF CommandResumes
<1>7. CASE CommandIsBooted
  <2>1. /\ command.at = "booting" /\ command.ahead = 0
        /\ UNCHANGED <<native, stimuli, stale>>
      BY <1>7 DEF CommandIsBooted
  <2>2. CASE NativeReady /\ Dispatch
    <3>1. UNCHANGED <<evals, skipped>>
          /\ (Dispatched \/ (/\ Head(commands).does = "register" /\ client.optedOut
                             /\ CommandIsDone /\ client' = client))
        BY <1>1, <2>2, DispatchFacts
    <3>. QED BY <1>1, <2>1, <2>2, <3>1 DEF HeadMoves, GoesOut, IsRefused
  <2>3. CASE ~NativeReady /\ skipped' = TRUE /\ CommandIsDone /\ UNCHANGED <<client, evals>>
    <3>1. skipped' \in BOOLEAN /\ skipped'
        BY <2>3, Zenon
    <3>. QED BY <1>1, <2>1, <2>3, <3>1 DEF HeadMoves, IsDropped
  <2>. QED BY <1>7, <2>2, <2>3 DEF CommandIsBooted
<1>8. CASE CommandLands
  <2>. DEFINE does == Head(commands).does
  <2>1. /\ command.at = "calling" /\ native' = NativeAfter(does) /\ CommandIsDone
        /\ UNCHANGED <<client, evals, skipped>>
        /\ \/ /\ does = "register" /\ "identity" \in stale
              /\ stale' = stale \cup {"token"} /\ UNCHANGED stimuli
           \/ /\ ~(does = "register" /\ "identity" \in stale)
              /\ Lands(IF does = "reset" THEN {"identity"} ELSE Concerns(does))
      BY <1>8 DEF CommandLands
  <2>2. "token" \in Aspects
      BY DEF Aspects
  <2>3. stimuli' \in 0..MaxStimuli /\ stale' \subseteq Aspects
      BY <1>1, <1>3, <1>4, <2>1, <2>2
  <2>4. HasLanded
      BY <2>1 DEF HasLanded, Lands
  <2>. QED BY <1>1, <2>1, <2>3, <2>4 DEF HeadMoves
<1>9. CASE CommandIsLost
  <2>1. /\ command.at = "calling" /\ CommandIsDone
        /\ IsLost(Concerns(Head(commands).does))
        /\ UNCHANGED <<client, evals, native, skipped>>
      BY <1>9 DEF CommandIsLost
  <2>2. stimuli' \in 0..MaxStimuli /\ stale' \subseteq Aspects
      BY <1>3, <1>4, <2>1
  <2>3. WasLost
      BY <2>1 DEF WasLost, IsLost
  <2>. QED BY <1>1, <2>1, <2>2, <2>3 DEF HeadMoves
<1>. QED BY <1>5, <1>6, <1>7, <1>8, <1>9 DEF Heads

\* The command queue: types.
LEMMA HeadsTyped ==
    ASSUME BridgeTypeOK, ChainsInStep, Heads
    PROVE  BridgeTypeOK'
<1>1. /\ HeadMoves /\ commands # <<>> /\ skipped' \in BOOLEAN
      /\ stimuli' \in 0..MaxStimuli /\ stale' \subseteq Aspects
      /\ UNCHANGED commandKeeps
    BY HeadsMove
<1>2. /\ client \in Clients /\ commands \in Seq(Command) /\ native \in Natives
      /\ command \in HeadTypes /\ eval \in JobTypes /\ current \in NativeSessions
      /\ evals \in Seq({"evaluate", "boot"}) /\ Resting \in HeadTypes
      /\ Head(commands).does \in {"identify", "reset", "consent", "register", "unregister"}
    BY <1>1, BridgeNamed, RestingTyped, BridgeChains DEF Command
<1>3. CommandIsDone => commands' \in Seq(Command) /\ command' \in HeadTypes
    BY <1>1, <1>2, Advanced DEF CommandIsDone
<1>4. /\ client' \in Clients /\ commands' \in Seq(Command) /\ command' \in HeadTypes
      /\ evals' \in Seq({"evaluate", "boot"})
    BY <1>1, <1>2, <1>3, EvaluationsTyped
       DEF HeadMoves, TakesTurn, AsksForBoot, GoesOut, Dispatched, IsRefused, IsDropped,
           HasLanded, WasLost
<1>5. native' \in Natives
  <2>1. CASE HasLanded
      BY <1>2, <2>1, NativeAfterFacts DEF HasLanded
  <2>2. CASE ~HasLanded
      BY <1>1, <1>2, <2>2
         DEF HeadMoves, TakesTurn, AsksForBoot, GoesOut, IsRefused, IsDropped, WasLost
  <2>. QED BY <2>1, <2>2
<1>6. /\ armed' \in BOOLEAN /\ replayUp' \in BOOLEAN /\ pushUp' \in BOOLEAN
      /\ recording' \in BOOLEAN /\ current' \in NativeSessions /\ eval' \in JobTypes
      /\ UNCHANGED <<options, started, flagsDue, loggedOut, wanted>>
    BY <1>1, <1>2, BridgeFields DEF commandKeeps
<1>. QED BY <1>1, <1>4, <1>5, <1>6, OtherTyped

\* Every step is of one of four sorts.
LEMMA FourSorts ==
    ASSUME [BridgeNext]_nbVars
    PROVE  Calls \/ Stirs \/ Works \/ Heads \/ UNCHANGED nbVars
BY DEF BridgeNext, BridgeStep, Calls, Stirs, Works, Heads

\* Types, over every step.
LEMMA TypesNext ==
    ASSUME BridgeTypeOK, ChainsInStep, [BridgeNext]_nbVars
    PROVE  BridgeTypeOK'
<1>1. CASE UNCHANGED nbVars
    BY <1>1 DEF BridgeTypeOK, nbVars
<1>. QED BY <1>1, FourSorts, CallsTyped, StirsTyped, WorksTyped, HeadsTyped

\* The chains stay in step.
LEMMA ChainsNext ==
    ASSUME BridgeTypeOK, ChainsInStep, [BridgeNext]_nbVars
    PROVE  ChainsInStep'
<1>1. /\ command.ahead \in Nat /\ Len(evals) \in Nat /\ started \in BOOLEAN
      /\ evals \in Seq({"evaluate", "boot"}) /\ command \in HeadTypes
      /\ (evals = <<>> <=> Len(evals) = 0)
    BY BridgeFields, BridgeChains, BridgeNamed
<1>2. CASE UNCHANGED nbVars
    BY <1>2 DEF ChainsInStep, nbVars, NativeReady
<1>3. CASE Calls
  <2>1. /\ UNCHANGED <<command, eval, started, replayUp, pushUp, recording>>
        /\ evals' = evals \/ evals' = Append(evals, "boot")
      BY <1>3, CallsTyped
  <2>2. commands # <<>> => commands' # <<>>
      BY <1>3, <2>1, AskedTyped, QueueGrows
  <2>3. Len(evals') >= Len(evals) /\ (evals # <<>> => evals' # <<>>) /\ Len(evals') \in Nat
      BY <1>1, <2>1
  <2>4. command.ahead <= Len(evals')
      BY <1>1, <2>3 DEF ChainsInStep
  <2>. QED BY <2>1, <2>2, <2>3, <2>4 DEF ChainsInStep, NativeReady
<1>4. CASE Stirs
  <2>1. /\ UNCHANGED <<commands, command, eval, replayUp, pushUp, recording>>
        /\ started => started'
        /\ Len(evals') >= Len(evals) /\ (evals # <<>> => evals' # <<>>) /\ BridgeTypeOK'
      BY <1>4, StirsTyped
  <2>2. Len(evals') \in Nat
      BY <2>1 DEF BridgeTypeOK
  <2>3. command.ahead <= Len(evals')
      BY <1>1, <2>1, <2>2 DEF ChainsInStep
  <2>. QED BY <2>1, <2>3 DEF ChainsInStep, NativeReady
<1>5. CASE Works
  <2>1. /\ Worked /\ evals # <<>> /\ UNCHANGED <<started, commands>>
        /\ NativeReady => NativeReady'
      BY <1>5, WorksTyped
  <2>2. /\ command'.at # "idle" => commands' # <<>> /\ started'
        /\ command'.at \in {"idle", "calling"} => command'.ahead = 0
        /\ command'.ahead <= Len(evals')
        /\ command'.at = "calling" => NativeReady'
        /\ eval'.at # "idle" => evals' # <<>>
        /\ eval'.at # "idle" => started'
    <3>1. CASE JobIsDone
      <4>1. /\ Len(evals') = Len(evals) - 1 /\ command'.at = command.at
            /\ command'.ahead = (IF command.ahead > 0 THEN command.ahead - 1 ELSE 0)
            /\ eval'.at = "idle"
          BY <2>1, <3>1, JobDone
      <4>2. command'.ahead <= Len(evals')
          BY <1>1, <2>1, <4>1 DEF ChainsInStep
      <4>. QED BY <1>1, <2>1, <4>1, <4>2 DEF ChainsInStep
    <3>2. CASE ~JobIsDone
        BY <2>1, <3>2 DEF ChainsInStep, Worked
    <3>. QED BY <3>1, <3>2
  <2>3. NativeReady' => started'
    <3>1. CASE BootStarts \/ EvaluationStarts \/ RecorderStops
      <4>1. pushUp' = pushUp /\ (replayUp' = replayUp \/ NativeReady)
          BY <3>1, BootFacts, EvaluationFacts, StopFacts
             DEF NothingToInit, Resumes, SetsUp
      <4>. QED BY <2>1, <4>1 DEF ChainsInStep, NativeReady
    <3>2. CASE SetupLands \/ SetupIsLost \/ SetupConsentIsLost \/ RecorderStarts
        BY <2>1, <3>2 DEF SetupLands, SetupIsLost, SetupConsentIsLost, RecorderStarts,
                          ChainsInStep, NativeReady
    <3>3. CASE SetupEnds
        BY <2>1, <3>3 DEF SetupEnds, ChainsInStep
    <3>. QED BY <1>5, <3>1, <3>2, <3>3 DEF Works
  <2>4. recording' \/ eval'.at \in {"start", "stop"} => replayUp'
    <3>1. CASE BootStarts
      <4>1. /\ recording' = recording /\ replayUp' = replayUp
            /\ eval'.at \in {"idle", "setup"}
          BY <2>1, <3>1, BootFacts, JobDone DEF NothingToInit, SetsUp
      <4>. QED BY <4>1 DEF ChainsInStep
    <3>2. CASE EvaluationStarts
      <4>0. NothingToInit => eval'.at = "idle"
          BY <2>1, JobDone DEF NothingToInit
      <4>1. /\ recording' = recording
            /\ replayUp' = replayUp \/ replayUp' = TRUE
            /\ \/ eval'.at \in {"idle", "setup"}
               \/ replayUp' = TRUE
               \/ replayUp' = replayUp /\ (replayUp \/ recording)
          BY <2>1, <3>2, <4>0, EvaluationFacts DEF NothingToInit, SetsUp, Resumes
      <4>. QED BY <4>1 DEF ChainsInStep
    <3>3. CASE RecorderStops
      <4>1. replayUp' = replayUp /\ eval'.at \in {"idle", "setup"}
          BY <2>1, <3>3, StopFacts, JobDone DEF NothingToInit, SetsUp
      <4>2. recording' => recording
          BY <3>3, StopFacts, Zenon
      <4>. QED BY <4>1, <4>2 DEF ChainsInStep
    <3>4. CASE SetupLands
      <4>1. eval'.at = "consent" /\ UNCHANGED <<recording, replayUp>>
          BY <3>4, BridgeNamed DEF SetupLands, JobTypes
      <4>. QED BY <4>1 DEF ChainsInStep
    <3>5. CASE SetupIsLost \/ SetupConsentIsLost \/ RecorderStarts \/ SetupEnds
      <4>1. eval'.at = "idle"
          BY <2>1, <3>5, JobDone DEF SetupIsLost, SetupConsentIsLost, RecorderStarts, SetupEnds
      <4>2. recording' => replayUp'
        <5>1. CASE SetupEnds
            BY <5>1 DEF SetupEnds, ChainsInStep
        <5>2. CASE RecorderStarts
            BY <5>2 DEF RecorderStarts, ChainsInStep
        <5>3. CASE SetupIsLost \/ SetupConsentIsLost
            BY <5>3 DEF SetupIsLost, SetupConsentIsLost, ChainsInStep
        <5>. QED BY <3>5, <5>1, <5>2, <5>3
      <4>. QED BY <4>1, <4>2
    <3>. QED BY <1>5, <3>1, <3>2, <3>3, <3>4, <3>5 DEF Works
  <2>. QED BY <2>2, <2>3, <2>4 DEF ChainsInStep
<1>6. CASE Heads
  <2>1. /\ HeadMoves /\ commands # <<>> /\ UNCHANGED commandKeeps
      BY <1>6, HeadsMove
  <2>2. UNCHANGED <<started, replayUp, pushUp, recording, eval>>
      BY <2>1 DEF commandKeeps
  <2>3. CASE TakesTurn
      BY <1>1, <2>1, <2>2, <2>3 DEF TakesTurn, ChainsInStep, NativeReady
  <2>4. CASE AsksForBoot
    <3>1. Len(evals') = Len(evals) + 1 /\ evals' # <<>> /\ commands' = commands
          /\ command'.at = "booting" /\ command'.ahead = Len(evals) + 1
          /\ command.at = "waiting"
        BY <1>1, <2>4 DEF AsksForBoot
    <3>2. command'.ahead <= Len(evals')
        BY <1>1, <3>1
    <3>. QED BY <2>1, <2>2, <3>1, <3>2 DEF ChainsInStep, NativeReady
  <2>5. CASE GoesOut
    <3>1. /\ commands' = commands /\ command'.at = "calling" /\ command'.ahead = 0
          /\ evals' = evals /\ NativeReady /\ command.at # "idle"
        BY <2>5 DEF GoesOut, Dispatched
    <3>. QED BY <1>1, <2>1, <2>2, <3>1 DEF ChainsInStep, NativeReady
  <2>6. CASE CommandIsDone /\ evals' = evals
    <3>1. command'.at = "idle" /\ command'.ahead = 0
        BY <2>6 DEF CommandIsDone, Resting
    <3>. QED BY <1>1, <2>1, <2>2, <2>6, <3>1 DEF ChainsInStep, NativeReady
  <2>. QED BY <2>1, <2>3, <2>4, <2>5, <2>6 DEF HeadMoves, IsRefused, IsDropped, HasLanded, WasLost
<1>. QED BY <1>2, <1>3, <1>4, <1>5, <1>6, FourSorts

--------------------------------------------------------------------------------
(* Identity.                                                                    *)

Kinds == {Identifying, {"reset"}}

\* A reset tells of an identity, too.
LEMMA KindsFacts ==
    ASSUME NEW kinds \in Kinds
    PROVE  kinds \subseteq Identifying /\ "reset" \in kinds
BY DEF Kinds, Identifying

\* Whom the native SDK may know changes with the client alone.
LEMMA RightStays ==
    ASSUME client'.user = client.user, loggedOut' = loggedOut
    PROVE  \A kinds : Right(kinds)' = Right(kinds)
BY DEF Right

\* A step of the command queue.
LEMMA ToldByHeads ==
    ASSUME BridgeTypeOK, ChainsInStep, Heads, NEW kinds \in Kinds,
           Told(kinds), client.user \in Right(kinds)
    PROVE  Told(kinds)'
<1>. DEFINE does == Head(commands).does
<1>1. /\ HeadMoves /\ commands # <<>>
      /\ UNCHANGED <<replayUp, pushUp, eval, loggedOut>>
      /\ NativeReady' <=> NativeReady
    BY HeadsMove DEF commandKeeps, NativeReady
<1>2. /\ does \in {"identify", "reset", "consent", "register", "unregister"}
      /\ does \in kinds => does \in Identifying
      /\ Len(evals) \in Nat /\ (evals # <<>> => Len(evals) > 0)
    BY <1>1, BridgeChains, KindsFacts DEF Command
<1>3. client'.user = client.user
    BY <1>1, BridgeNamed DEF HeadMoves, TakesTurn, AsksForBoot, GoesOut, Dispatched, IsRefused,
                IsDropped, HasLanded, WasLost, Clients
<1>4. Right(kinds)' = Right(kinds)
    BY <1>1, <1>3, RightStays
<1>5. /\ Pending(kinds) <=> does \in kinds \/ Later(kinds)
      /\ Late(kinds) <=> \/ Later(kinds)
                         \/ does \in kinds /\ (command.at = "idle" \/ command.ahead > 0)
    BY <1>1, HeadOrLater
<1>6. commands' = commands => /\ Pending(kinds)' <=> Pending(kinds)
                              /\ Later(kinds)' <=> Later(kinds)
    BY QueueStays
<1>7. CommandIsDone => /\ Pending(kinds)' <=> Later(kinds)
                       /\ Late(kinds)' <=> Later(kinds)
                       /\ command'.at = "idle"
    BY <1>1, QueueAdvances DEF CommandIsDone, Resting
<1>8. CASE TakesTurn \/ AsksForBoot
  <2>1. /\ commands' = commands /\ UNCHANGED <<native, stale>>
        /\ command'.at # "calling"
      BY <1>8 DEF TakesTurn, AsksForBoot
  <2>2. eval.at # "idle" => command'.ahead > 0
      BY <1>2, <1>8 DEF TakesTurn, AsksForBoot, ChainsInStep
  <2>3. eval.at # "idle" /\ Late(kinds) => Late(kinds)'
      BY <2>1, <2>2 DEF Late
  <2>. QED BY <1>1, <1>4, <1>6, <2>1, <2>3 DEF Told
<1>9. CASE GoesOut
  <2>1. /\ commands' = commands /\ UNCHANGED <<native, stale>>
        /\ command.at \in {"waiting", "booting"} /\ command.ahead = 0
        /\ command'.at = "calling" /\ command'.ahead = 0
        /\ does \in Identifying => command'.user = client.user
      BY <1>9 DEF GoesOut, Dispatched
  <2>2. Late(kinds) => Late(kinds)'
      BY <2>1 DEF Late
  <2>. QED BY <1>1, <1>4, <1>6, <2>1, <2>2 DEF Told
<1>10. CASE IsRefused
  <2>1. /\ CommandIsDone /\ UNCHANGED <<native, stale>> /\ does \notin kinds
      BY <1>10, <1>2 DEF IsRefused, Identifying
  <2>. QED BY <1>1, <1>4, <1>5, <1>7, <2>1 DEF Told
<1>11. CASE IsDropped
  <2>1. /\ CommandIsDone /\ UNCHANGED <<native, stale>> /\ ~NativeReady
        /\ command.at # "idle" /\ command.ahead = 0
      BY <1>11 DEF IsDropped
  <2>. QED BY <1>1, <1>4, <1>5, <1>7, <2>1 DEF Told
<1>12. CASE HasLanded
  <2>1. /\ CommandIsDone /\ command.at = "calling" /\ command.ahead = 0
      BY <1>12 DEF HasLanded, ChainsInStep
  <2>2. native'.user = IF does \in Identifying THEN command.user ELSE native.user
      BY <1>2, <1>12, NativeAfterFacts DEF HasLanded
  <2>3. does \notin Identifying => ("identity" \in stale => "identity" \in stale')
      BY <1>2, <1>12 DEF HasLanded, Concerns, Identifying
  <2>4. CASE does \in Identifying
      BY <1>1, <1>4, <1>5, <1>7, <2>1, <2>2, <2>4 DEF Told
  <2>5. CASE does \notin Identifying
      BY <1>1, <1>2, <1>4, <1>5, <1>7, <2>1, <2>2, <2>3, <2>5 DEF Told
  <2>. QED BY <2>4, <2>5
<1>13. CASE WasLost
  <2>1. /\ CommandIsDone /\ command.at = "calling" /\ command.ahead = 0
        /\ native' = native /\ stale \subseteq stale'
      BY <1>13 DEF WasLost, ChainsInStep
  <2>2. does \in Identifying => "identity" \in stale'
      BY <1>13 DEF WasLost, Concerns, Identifying
  <2>. QED BY <1>1, <1>2, <1>4, <1>5, <1>7, <2>1, <2>2 DEF Told
<1>. QED BY <1>1, <1>8, <1>9, <1>10, <1>11, <1>12, <1>13 DEF HeadMoves

\* A step of the evaluations.
LEMMA ToldByWorks ==
    ASSUME BridgeTypeOK, ChainsInStep, Works, NEW kinds \in Kinds,
           Told(kinds), client.user \in Right(kinds)
    PROVE  Told(kinds)'
<1>1. /\ Worked /\ evals # <<>>
      /\ UNCHANGED <<started, client, commands, loggedOut>>
    BY WorksTyped
<1>2. /\ Right(kinds)' = Right(kinds)
      /\ Pending(kinds)' <=> Pending(kinds)
      /\ Later(kinds)' <=> Later(kinds)
    BY <1>1, RightStays, QueueStays
<1>3. Late(kinds) => Pending(kinds)
    BY HeadOrLater
<1>4. /\ JobIsDone => /\ command'.at = command.at /\ command'.user = command.user
                      /\ eval'.at = "idle"
      /\ ~JobIsDone => command' = command
    BY <1>1, JobDone DEF Worked
<1>5. command'.at = command.at /\ command'.user = command.user
    BY <1>4
<1>6. command' = command => (Late(kinds)' <=> Late(kinds))
    BY <1>1, QueueRests
<1>7. CASE BootStarts \/ EvaluationStarts \/ RecorderStops
  <2>1. native'.user = native.user /\ ("identity" \in stale' <=> "identity" \in stale)
        /\ pushUp' = pushUp
    <3>1. CASE BootStarts \/ EvaluationStarts
        BY <3>1, BootFacts, EvaluationFacts
    <3>2. CASE RecorderStops
        BY <3>2, StopFacts, BridgeNamed DEF Lands, IsLost, Natives
    <3>. QED BY <1>7, <3>1, <3>2
  <2>2. NativeReady' <=> NativeReady
    <3>1. replayUp' = replayUp \/ (NativeReady /\ replayUp' = TRUE)
        BY <1>7, BootFacts, EvaluationFacts, StopFacts DEF NothingToInit, Resumes, SetsUp
    <3>. QED BY <2>1, <3>1 DEF NativeReady
  <2>3. CASE eval'.at = "setup"
    <3>1. command' = command
        BY <1>4, <2>3
    <3>2. eval'.user = client.user
        BY <1>4, <1>7, <2>3, BootFacts, EvaluationFacts, StopFacts
           DEF NothingToInit, Resumes, SetsUp
    <3>. QED BY <1>2, <1>5, <1>6, <1>1, <2>1, <2>2, <2>3, <3>1, <3>2 DEF Told
  <2>4. CASE eval'.at # "setup"
    <3>1. eval'.at # "consent"
        BY <1>4, <1>7, <2>4, BootFacts, EvaluationFacts, StopFacts
           DEF NothingToInit, Resumes, SetsUp
    <3>. QED BY <1>2, <1>5, <1>1, <2>1, <2>2, <2>4, <3>1 DEF Told
  <2>. QED BY <2>3, <2>4
<1>8. CASE SetupLands
  <2>1. /\ native'.user = eval.user /\ eval'.at = "consent" /\ eval.at = "setup"
        /\ UNCHANGED <<replayUp, pushUp, command>>
      BY <1>8, BridgeNamed DEF SetupLands, Natives, JobTypes
  <2>2. NativeReady' <=> NativeReady
      BY <2>1 DEF NativeReady
  <2>. QED BY <1>1, <1>2, <1>3, <1>6, <2>1, <2>2 DEF Told
<1>9. CASE SetupEnds
  <2>1. /\ native'.user = native.user /\ eval'.at = "idle" /\ eval.at = "consent"
        /\ ("identity" \in stale' <=> "identity" \in stale)
      BY <1>4, <1>9, BridgeNamed DEF SetupEnds, Natives, Lands
  <2>. QED BY <1>1, <1>2, <1>3, <1>5, <2>1 DEF Told
<1>10. CASE SetupIsLost \/ SetupConsentIsLost \/ RecorderStarts
  <2>1. /\ native'.user = native.user /\ eval'.at = "idle"
        /\ ("identity" \in stale => "identity" \in stale')
        /\ UNCHANGED <<replayUp, pushUp>>
      BY <1>4, <1>10, BridgeNamed
         DEF SetupIsLost, SetupConsentIsLost, RecorderStarts, Natives, Lands, IsLost
  <2>2. NativeReady' <=> NativeReady
      BY <2>1 DEF NativeReady
  <2>. QED BY <1>1, <1>2, <1>5, <2>1, <2>2 DEF Told
<1>. QED BY <1>7, <1>8, <1>9, <1>10 DEF Works

\* What a call of the API asks for, command by command.
LEMMA AskedCases ==
    ASSUME BridgeTypeOK, NEW more \in Seq(Command), Asked(more)
    PROVE  \/ /\ BridgeIdentify /\ Len(more) = 1 /\ more[1].does = "identify"
           \/ /\ BridgeReset /\ Len(more) = 2
              /\ more[1].does = "reset" /\ more[1].boot = client.registered
              /\ more[2].does = "consent"
           \/ /\ OptIn /\ Len(more) = 1 /\ more[1].does = "consent"
           \/ /\ OptOut /\ Len(more) = 2
              /\ more[1].does = "unregister" /\ more[1].boot = client.registered
              /\ more[2].does = "consent"
           \/ /\ RegisterToken /\ Len(more) = 1 /\ more[1].does = "register" /\ more[1].boot
           \/ /\ UnregisterToken /\ Len(more) = 1
              /\ more[1].does = "unregister" /\ more[1].boot = client.registered
<1>1. /\ client.registered \in BOOLEAN /\ TRUE \in BOOLEAN /\ FALSE \in BOOLEAN
    BY BridgeFields
<1>. DEFINE identify == [does |-> "identify", boot |-> FALSE]
            reset == [does |-> "reset", boot |-> client.registered]
            consent == [does |-> "consent", boot |-> FALSE]
            register == [does |-> "register", boot |-> TRUE]
            unregister == [does |-> "unregister", boot |-> client.registered]
<1>2. /\ identify \in Command /\ reset \in Command /\ consent \in Command
      /\ register \in Command /\ unregister \in Command
    BY <1>1, CommandsTyped
<1>3. /\ identify.does = "identify" /\ consent.does = "consent"
      /\ reset.does = "reset" /\ reset.boot = client.registered
      /\ register.does = "register" /\ register.boot
      /\ unregister.does = "unregister" /\ unregister.boot = client.registered
    OBVIOUS
<1>4. \/ BridgeIdentify /\ more = <<identify>>
      \/ BridgeReset /\ more = <<reset>> \o <<consent>>
      \/ OptIn /\ more = <<consent>>
      \/ OptOut /\ more = <<unregister>> \o <<consent>>
      \/ RegisterToken /\ more = <<register>>
      \/ UnregisterToken /\ more = <<unregister>>
    BY DEF Asked
<1>. HIDE DEF identify, reset, consent, register, unregister
<1>5. \A c, d \in Command :
         /\ Len(<<c>>) = 1 /\ <<c>>[1] = c
         /\ Len(<<c>> \o <<d>>) = 2 /\ (<<c>> \o <<d>>)[1] = c /\ (<<c>> \o <<d>>)[2] = d
    BY MoreTyped
<1>6. CASE BridgeReset /\ more = <<reset>> \o <<consent>>
    BY <1>2, <1>3, <1>5, <1>6
<1>7. CASE OptOut /\ more = <<unregister>> \o <<consent>>
    BY <1>2, <1>3, <1>5, <1>7
<1>8. CASE BridgeIdentify /\ more = <<identify>>
    BY <1>2, <1>3, <1>5, <1>8
<1>9. CASE OptIn /\ more = <<consent>>
    BY <1>2, <1>3, <1>5, <1>9
<1>10. CASE RegisterToken /\ more = <<register>>
    BY <1>2, <1>3, <1>5, <1>10
<1>11. CASE UnregisterToken /\ more = <<unregister>>
    BY <1>2, <1>3, <1>5, <1>11
<1>. QED BY <1>4, <1>6, <1>7, <1>8, <1>9, <1>10, <1>11

\* Commands that are asked for correct what was read.
LEMMA ToldByCalls ==
    ASSUME BridgeTypeOK, ChainsInStep, Calls, NEW kinds \in Kinds, Told(kinds)
    PROVE  Told(kinds)'
<1>1. PICK more \in Seq(Command) : Asked(more) /\ Enqueue(more)
    BY AskedTyped
<1>2. /\ UNCHANGED <<command, eval, native, stale, replayUp, pushUp>>
      /\ NativeReady' <=> NativeReady
    BY CallsTyped DEF NativeReady
<1>3. /\ commands # <<>> => Head(commands') = Head(commands)
      /\ command.at = "calling" => commands # <<>>
      /\ (\E k \in 1..Len(more) : more[k].does \in kinds) =>
            /\ Pending(kinds)' /\ Late(kinds)'
            /\ command.at # "idle" => Later(kinds)'
      /\ (\A k \in 1..Len(more) : more[k].does \notin kinds) =>
            /\ Pending(kinds)' <=> Pending(kinds)
            /\ Late(kinds)' <=> Late(kinds)
            /\ Later(kinds)' <=> Later(kinds)
    BY <1>1, <1>2, QueueGrows DEF ChainsInStep
<1>4. CASE \E k \in 1..Len(more) : more[k].does \in kinds
    BY <1>2, <1>3, <1>4 DEF Told
<1>5. CASE \A k \in 1..Len(more) : more[k].does \notin kinds
  <2>1. Right(kinds)' = Right(kinds)
    <3>1. CASE BridgeIdentify /\ Len(more) = 1 /\ more[1].does = "identify"
      <4>1. 1 \in 1..Len(more)
          BY <3>1
      <4>2. loggedOut' = loggedOut /\ "identify" \notin kinds
          BY <1>5, <3>1, <4>1 DEF BridgeIdentify
      <4>. QED BY <4>2 DEF Right
    <3>2. ~(BridgeReset /\ Len(more) = 2 /\ more[1].does = "reset")
      <4>1. Len(more) = 2 => 1 \in 1..Len(more)
          OBVIOUS
      <4>. QED BY <1>5, <4>1, KindsFacts
    <3>3. CASE OptIn \/ OptOut \/ RegisterToken \/ UnregisterToken
      <4>1. loggedOut' = loggedOut /\ client'.user = client.user
          BY <3>3, BridgeNamed DEF OptIn, OptOut, RegisterToken, UnregisterToken, Clients
      <4>. QED BY <4>1, RightStays
    <3>. QED BY <1>1, <3>1, <3>2, <3>3, AskedCases
  <2>. QED BY <1>2, <1>3, <1>5, <2>1 DEF Told
<1>. QED BY <1>4, <1>5

\* Identity, over every step.
LEMMA IdentityNext ==
    ASSUME BridgeTypeOK, ChainsInStep, IdentityTold, [BridgeNext]_nbVars
    PROVE  IdentityTold'
<1>1. /\ Identifying \in Kinds /\ {"reset"} \in Kinds
      /\ \A kinds \in Kinds : Told(kinds)
      /\ client.user \in Identities /\ client.user \in Nat /\ loggedOut \in Nat
      /\ loggedOut <= client.user
    BY OneMore, BridgeFields DEF IdentityTold, Kinds
<1>2. \A kinds \in Kinds : client.user \in Right(kinds)
    BY <1>1 DEF Kinds, Right
<1>3. loggedOut' <= client'.user
  <2>1. CASE Calls
    <3>1. CASE BridgeIdentify
      <4>1. client'.user = client.user + 1 /\ loggedOut' = loggedOut
          BY <3>1, BridgeNamed DEF BridgeIdentify, Clients
      <4>. QED BY <1>1, <4>1
    <3>2. CASE BridgeReset
      <4>1. loggedOut' = client'.user /\ client'.user = client.user + 1
          BY <3>2, BridgeNamed DEF BridgeReset, Clients
      <4>. QED BY <1>1, <4>1
    <3>3. CASE ~BridgeReset /\ ~BridgeIdentify
        BY <1>1, <2>1, <3>3, BridgeNamed
           DEF Calls, OptIn, OptOut, RegisterToken, UnregisterToken, Clients
    <3>. QED BY <3>1, <3>2, <3>3
  <2>2. CASE Stirs
      BY <1>1, <2>2, StirsTyped
  <2>3. CASE Works
      BY <1>1, <2>3, WorksTyped
  <2>4. CASE Heads
    <3>1. HeadMoves /\ loggedOut' = loggedOut
        BY <2>4, HeadsMove DEF commandKeeps
    <3>2. client'.user = client.user
        BY <3>1, BridgeNamed DEF HeadMoves, TakesTurn, AsksForBoot, GoesOut, Dispatched,
                IsRefused, IsDropped, HasLanded, WasLost, Clients
    <3>. QED BY <1>1, <3>1, <3>2
  <2>5. CASE UNCHANGED nbVars
      BY <1>1, <2>5 DEF nbVars
  <2>. QED BY <2>1, <2>2, <2>3, <2>4, <2>5, FourSorts
<1>4. ASSUME NEW kinds \in Kinds PROVE Told(kinds)'
  <2>1. CASE Stirs \/ UNCHANGED nbVars
    <3>1. /\ UNCHANGED <<commands, command, eval, native, stale, replayUp, pushUp, loggedOut>>
          /\ client'.user = client.user
        BY <2>1, StirsTyped DEF nbVars
    <3>2. /\ Right(kinds)' = Right(kinds) /\ (NativeReady' <=> NativeReady)
          /\ Pending(kinds)' <=> Pending(kinds)
          /\ Late(kinds)' <=> Late(kinds)
          /\ Later(kinds)' <=> Later(kinds)
        BY <3>1, RightStays, QueueRests DEF NativeReady
    <3>. QED BY <1>1, <3>1, <3>2 DEF Told
  <2>. QED BY <1>1, <1>2, <2>1, FourSorts, ToldByCalls, ToldByWorks, ToldByHeads
<1>. QED BY <1>1, <1>3, <1>4 DEF IdentityTold

--------------------------------------------------------------------------------
(* Consent.                                                                     *)

\* A step of the command queue.
LEMMA ConsentByHeads ==
    ASSUME BridgeTypeOK, ChainsInStep, Heads, ConsentTold
    PROVE  ConsentTold'
<1>. DEFINE does == Head(commands).does
<1>1. /\ HeadMoves /\ commands # <<>>
      /\ UNCHANGED <<replayUp, pushUp, eval>>
      /\ NativeReady' <=> NativeReady
    BY HeadsMove DEF commandKeeps, NativeReady
<1>2. /\ does \in {"identify", "reset", "consent", "register", "unregister"}
      /\ Len(evals) \in Nat /\ (evals # <<>> => Len(evals) > 0)
    BY <1>1, BridgeChains DEF Command
<1>3. client'.optedOut = client.optedOut
    BY <1>1, BridgeNamed DEF HeadMoves, TakesTurn, AsksForBoot, GoesOut, Dispatched, IsRefused,
                IsDropped, HasLanded, WasLost, Clients
<1>4. /\ Pending({"consent"}) <=> does = "consent" \/ Later({"consent"})
      /\ Late({"consent"}) <=> \/ Later({"consent"})
                               \/ does = "consent" /\ (command.at = "idle" \/ command.ahead > 0)
  <2>1. does \in {"consent"} <=> does = "consent"
      OBVIOUS
  <2>. QED BY <1>1, <2>1, HeadOrLater
<1>5. commands' = commands => /\ Pending({"consent"})' <=> Pending({"consent"})
                              /\ Later({"consent"})' <=> Later({"consent"})
    BY QueueStays
<1>6. CommandIsDone => /\ Pending({"consent"})' <=> Later({"consent"})
                       /\ Late({"consent"})' <=> Later({"consent"})
                       /\ command'.at = "idle"
    BY <1>1, QueueAdvances DEF CommandIsDone, Resting
<1>7. CASE TakesTurn \/ AsksForBoot
  <2>1. /\ commands' = commands /\ UNCHANGED <<native, stale>>
        /\ command'.at # "calling"
      BY <1>7 DEF TakesTurn, AsksForBoot
  <2>2. eval.at # "idle" => command'.ahead > 0
      BY <1>2, <1>7 DEF TakesTurn, AsksForBoot, ChainsInStep
  <2>3. eval.at # "idle" /\ Late({"consent"}) => Late({"consent"})'
      BY <2>1, <2>2 DEF Late
  <2>. QED BY <1>1, <1>3, <1>5, <2>1, <2>3 DEF ConsentTold
<1>8. CASE GoesOut
  <2>1. /\ commands' = commands /\ UNCHANGED <<native, stale>>
        /\ command.at \in {"waiting", "booting"} /\ command.ahead = 0
        /\ command'.at = "calling" /\ command'.ahead = 0
        /\ does = "consent" => command'.optedOut = client.optedOut
      BY <1>8 DEF GoesOut, Dispatched
  <2>2. Late({"consent"}) => Late({"consent"})'
      BY <2>1 DEF Late
  <2>. QED BY <1>1, <1>3, <1>5, <2>1, <2>2 DEF ConsentTold
<1>9. CASE IsRefused
  <2>1. /\ CommandIsDone /\ UNCHANGED <<native, stale>> /\ does # "consent"
      BY <1>9 DEF IsRefused
  <2>. QED BY <1>1, <1>3, <1>4, <1>6, <2>1 DEF ConsentTold
<1>10. CASE IsDropped
  <2>1. /\ CommandIsDone /\ UNCHANGED <<native, stale>> /\ ~NativeReady
        /\ command.at # "idle" /\ command.ahead = 0
      BY <1>10 DEF IsDropped
  <2>. QED BY <1>1, <1>3, <1>4, <1>6, <2>1 DEF ConsentTold
<1>11. CASE HasLanded
  <2>1. /\ CommandIsDone /\ command.at = "calling" /\ command.ahead = 0
      BY <1>11 DEF HasLanded, ChainsInStep
  <2>2. native'.optedOut = IF does = "consent" THEN command.optedOut ELSE native.optedOut
      BY <1>2, <1>11, NativeAfterFacts DEF HasLanded
  <2>3. does # "consent" => ("consent" \in stale => "consent" \in stale')
      BY <1>2, <1>11 DEF HasLanded, Concerns
  <2>. QED BY <1>1, <1>3, <1>4, <1>6, <2>1, <2>2, <2>3 DEF ConsentTold
<1>12. CASE WasLost
  <2>1. /\ CommandIsDone /\ command.at = "calling" /\ command.ahead = 0
        /\ native' = native /\ stale \subseteq stale'
      BY <1>12 DEF WasLost, ChainsInStep
  <2>2. does = "consent" => "consent" \in stale'
      BY <1>12 DEF WasLost, Concerns
  <2>. QED BY <1>1, <1>3, <1>4, <1>6, <2>1, <2>2 DEF ConsentTold
<1>. QED BY <1>1, <1>7, <1>8, <1>9, <1>10, <1>11, <1>12 DEF HeadMoves

\* A step of the evaluations.
LEMMA ConsentByWorks ==
    ASSUME BridgeTypeOK, ChainsInStep, Works, ConsentTold
    PROVE  ConsentTold'
<1>1. /\ Worked /\ evals # <<>> /\ UNCHANGED <<started, client, commands>>
    BY WorksTyped
<1>2. /\ Pending({"consent"})' <=> Pending({"consent"})
      /\ Later({"consent"})' <=> Later({"consent"})
    BY <1>1, QueueStays
<1>3. Late({"consent"}) => Pending({"consent"})
    BY HeadOrLater
<1>4. /\ command'.at = command.at /\ command'.optedOut = command.optedOut
      /\ JobIsDone => eval'.at = "idle"
    BY <1>1, JobDone DEF Worked
<1>5. CASE BootStarts \/ EvaluationStarts \/ RecorderStops
  <2>1. native'.optedOut = native.optedOut /\ ("consent" \in stale' <=> "consent" \in stale)
        /\ pushUp' = pushUp
    <3>1. CASE BootStarts \/ EvaluationStarts
        BY <3>1, BootFacts, EvaluationFacts
    <3>2. CASE RecorderStops
        BY <3>2, StopFacts, BridgeNamed DEF Lands, IsLost, Natives
    <3>. QED BY <1>5, <3>1, <3>2
  <2>2. NativeReady' <=> NativeReady
    <3>1. replayUp' = replayUp \/ (NativeReady /\ replayUp' = TRUE)
        BY <1>5, BootFacts, EvaluationFacts, StopFacts DEF NothingToInit, Resumes, SetsUp
    <3>. QED BY <2>1, <3>1 DEF NativeReady
  <2>3. eval'.at # "consent"
      BY <1>4, <1>5, BootFacts, EvaluationFacts, StopFacts DEF NothingToInit, Resumes, SetsUp
  <2>. QED BY <1>1, <1>2, <1>4, <2>1, <2>2, <2>3 DEF ConsentTold
<1>6. CASE SetupLands
  <2>1. /\ native'.optedOut = native.optedOut /\ eval'.optedOut = client.optedOut
        /\ UNCHANGED <<replayUp, pushUp, command>>
        /\ ("consent" \in stale' <=> "consent" \in stale)
      BY <1>6, BridgeNamed DEF SetupLands, Lands, Natives, JobTypes
  <2>2. NativeReady' <=> NativeReady
      BY <2>1 DEF NativeReady
  <2>. QED BY <1>1, <1>2, <1>4, <2>1, <2>2 DEF ConsentTold
<1>7. CASE SetupEnds
  <2>1. /\ native'.optedOut = eval.optedOut /\ eval'.at = "idle" /\ eval.at = "consent"
      BY <1>4, <1>7, BridgeNamed DEF SetupEnds, Natives
  <2>. QED BY <1>1, <1>2, <1>3, <1>4, <2>1 DEF ConsentTold
<1>8. CASE SetupIsLost \/ SetupConsentIsLost \/ RecorderStarts
  <2>1. /\ native'.optedOut = native.optedOut /\ eval'.at = "idle"
        /\ ("consent" \in stale => "consent" \in stale')
        /\ UNCHANGED <<replayUp, pushUp>>
      BY <1>4, <1>8, BridgeNamed
         DEF SetupIsLost, SetupConsentIsLost, RecorderStarts, Natives, Lands, IsLost
  <2>2. NativeReady' <=> NativeReady
      BY <2>1 DEF NativeReady
  <2>. QED BY <1>1, <1>2, <1>4, <2>1, <2>2 DEF ConsentTold
<1>. QED BY <1>5, <1>6, <1>7, <1>8 DEF Works

\* Consent, over every step.
LEMMA ConsentNext ==
    ASSUME BridgeTypeOK, ChainsInStep, ConsentTold, [BridgeNext]_nbVars
    PROVE  ConsentTold'
<1>1. CASE Stirs \/ UNCHANGED nbVars
  <2>1. /\ UNCHANGED <<commands, command, eval, native, stale, replayUp, pushUp>>
        /\ client'.optedOut = client.optedOut
      BY <1>1, StirsTyped DEF nbVars
  <2>2. /\ NativeReady' <=> NativeReady
        /\ Pending({"consent"})' <=> Pending({"consent"})
        /\ Late({"consent"})' <=> Late({"consent"})
        /\ Later({"consent"})' <=> Later({"consent"})
      BY <2>1, QueueRests DEF NativeReady
  <2>. QED BY <2>1, <2>2 DEF ConsentTold
<1>2. CASE Calls
  <2>1. PICK more \in Seq(Command) : Asked(more) /\ Enqueue(more)
      BY <1>2, AskedTyped
  <2>2. /\ UNCHANGED <<command, eval, native, stale, replayUp, pushUp>>
        /\ NativeReady' <=> NativeReady
      BY <1>2, CallsTyped DEF NativeReady
  <2>3. /\ commands # <<>> => Head(commands') = Head(commands)
        /\ command.at = "calling" => commands # <<>>
        /\ (\E k \in 1..Len(more) : more[k].does \in {"consent"}) =>
              /\ Pending({"consent"})' /\ Late({"consent"})'
              /\ command.at # "idle" => Later({"consent"})'
        /\ (\A k \in 1..Len(more) : more[k].does \notin {"consent"}) =>
              /\ Pending({"consent"})' <=> Pending({"consent"})
              /\ Late({"consent"})' <=> Late({"consent"})
              /\ Later({"consent"})' <=> Later({"consent"})
      BY <2>1, <2>2, QueueGrows DEF ChainsInStep
  <2>4. CASE \E k \in 1..Len(more) : more[k].does \in {"consent"}
      BY <2>2, <2>3, <2>4 DEF ConsentTold
  <2>5. CASE \A k \in 1..Len(more) : more[k].does \notin {"consent"}
    <3>1. /\ Len(more) = 1 => 1 \in 1..Len(more)
          /\ Len(more) = 2 => 2 \in 1..Len(more)
        OBVIOUS
    <3>2. /\ ~(Len(more) = 1 /\ more[1].does = "consent")
          /\ ~(Len(more) = 2 /\ more[2].does = "consent")
        BY <2>5, <3>1
    <3>3. BridgeIdentify \/ RegisterToken \/ UnregisterToken
        BY <2>1, <3>2, AskedCases
    <3>4. client'.optedOut = client.optedOut
        BY <3>3, BridgeNamed DEF BridgeIdentify, RegisterToken, UnregisterToken, Clients
    <3>. QED BY <2>2, <2>3, <2>5, <3>4 DEF ConsentTold
  <2>. QED BY <2>4, <2>5
<1>. QED BY <1>1, <1>2, FourSorts, ConsentByWorks, ConsentByHeads

--------------------------------------------------------------------------------
(* The token.                                                                   *)

\* The words stay in order when the head is done.
LEMMA WordsAdvance ==
    ASSUME BridgeTypeOK, commands # <<>>, CommandIsDone, WordsInOrder,
           client'.optedOut = client.optedOut, wanted' = wanted
    PROVE  /\ WordsInOrder'
           /\ \A k \in DOMAIN commands' :
                 k + 1 \in DOMAIN commands /\ commands'[k] = commands[k + 1]
<1>1. /\ Len(commands) \in Nat /\ DOMAIN commands = 1..Len(commands)
      /\ DOMAIN commands' = 1..(Len(commands) - 1)
      /\ \A k \in 1..(Len(commands) - 1) : commands'[k] = commands[k + 1]
    BY BridgeChains, Advanced DEF CommandIsDone
<1>2. /\ \A k \in DOMAIN commands' :
            k \in Nat /\ k + 1 \in DOMAIN commands /\ commands'[k] = commands[k + 1]
      /\ \A l \in DOMAIN commands : l \in Nat
      /\ \A l \in DOMAIN commands :
            l > 1 => l - 1 \in DOMAIN commands' /\ commands'[l - 1] = commands[l]
    BY <1>1
<1>3. ASSUME NEW k \in DOMAIN commands', commands'[k].does = "register", client.optedOut
      PROVE  \E l \in DOMAIN commands' : l > k /\ commands'[l].does = "unregister"
  <2>1. k + 1 \in DOMAIN commands /\ commands[k + 1].does = "register"
      BY <1>2, <1>3
  <2>2. PICK l \in DOMAIN commands : l > k + 1 /\ commands[l].does = "unregister"
      BY <1>3, <2>1 DEF WordsInOrder
  <2>3. l - 1 \in DOMAIN commands' /\ l - 1 > k /\ commands'[l - 1] = commands[l]
      BY <1>2, <2>2
  <2>. QED BY <2>2, <2>3
<1>4. ASSUME NEW k \in DOMAIN commands', Word(k)'
      PROVE  wanted <=> commands'[k].does = "register"
  <2>1. k + 1 \in DOMAIN commands /\ commands'[k] = commands[k + 1]
      BY <1>2
  <2>2. ASSUME NEW l \in DOMAIN commands, l > k + 1 PROVE commands[l].does \notin Words
    <3>1. l - 1 \in DOMAIN commands' /\ l - 1 > k /\ commands'[l - 1] = commands[l]
        BY <1>2, <2>2
    <3>. QED BY <1>4, <3>1 DEF Word
  <2>3. Word(k + 1)
      BY <1>4, <2>1, <2>2 DEF Word
  <2>. QED BY <2>1, <2>3 DEF WordsInOrder
<1>. QED BY <1>2, <1>3, <1>4 DEF WordsInOrder

\* What is wanted, by the head when no other word follows.
LEMMA LastWord ==
    ASSUME BridgeTypeOK, commands # <<>>, WordsInOrder, Head(commands).does \in Words,
           ~Later(Words)
    PROVE  /\ wanted <=> Head(commands).does = "register"
           /\ ~(Head(commands).does = "register" /\ client.optedOut)
<1>1. 1 \in DOMAIN commands /\ Head(commands) = commands[1]
    BY BridgeChains
<1>2. \A l \in DOMAIN commands : l > 1 => commands[l].does \notin Words
    BY DEF Later
<1>3. Word(1)
    BY <1>1, <1>2 DEF Word
<1>4. \A l \in DOMAIN commands : l > 1 => commands[l].does # "unregister"
    BY <1>2 DEF Words
<1>. QED BY <1>1, <1>3, <1>4 DEF WordsInOrder

\* A step of the command queue.
LEMMA TokenByHeads ==
    ASSUME BridgeTypeOK, ChainsInStep, IdentityTold, TokenTold, Heads
    PROVE  TokenTold'
<1>. DEFINE does == Head(commands).does
<1>1. /\ HeadMoves /\ commands # <<>> /\ skipped' \in BOOLEAN
      /\ UNCHANGED <<replayUp, pushUp, eval, loggedOut, wanted>>
      /\ NativeReady' <=> NativeReady
    BY HeadsMove DEF commandKeeps, NativeReady
<1>2. /\ does \in {"identify", "reset", "consent", "register", "unregister"}
      /\ 1 \in DOMAIN commands /\ Head(commands) = commands[1]
      /\ does \in Words <=> does \in {"register", "unregister"}
      /\ does \in {"reset"} <=> does = "reset"
    BY <1>1, BridgeChains DEF Command, Words
<1>3. client'.user = client.user /\ client'.optedOut = client.optedOut
    BY <1>1, BridgeNamed DEF HeadMoves, TakesTurn, AsksForBoot, GoesOut, Dispatched, IsRefused,
                IsDropped, HasLanded, WasLost, Clients
<1>4. Right({"reset"})' = Right({"reset"})
    BY <1>1, <1>3, RightStays
<1>5. \A kinds : Pending(kinds) <=> does \in kinds \/ Later(kinds)
    BY <1>1, HeadOrLater
<1>6. commands' = commands => \A kinds : Pending(kinds)' <=> Pending(kinds)
    BY QueueStays
<1>7. CommandIsDone => /\ \A kinds : Pending(kinds)' <=> Later(kinds)
                       /\ WordsInOrder'
                       /\ \A k \in DOMAIN commands' :
                             k + 1 \in DOMAIN commands /\ commands'[k] = commands[k + 1]
    BY <1>1, <1>3, QueueAdvances, WordsAdvance DEF TokenTold
<1>8. CASE TakesTurn \/ AsksForBoot \/ GoesOut
  <2>1. /\ commands' = commands /\ UNCHANGED <<native, stale, skipped>>
        /\ ~NativeReady => client' = client
      BY <1>8 DEF TakesTurn, AsksForBoot, GoesOut, Dispatched
  <2>2. WordsInOrder'
      BY <1>1, <1>3, <2>1 DEF TokenTold, WordsInOrder, Word
  <2>3. ~NativeReady' => Undispatched'
      BY <1>1, <2>1 DEF TokenTold, Undispatched
  <2>. QED BY <1>1, <1>4, <1>6, <2>1, <2>2, <2>3 DEF TokenTold
<1>9. CASE IsRefused
  <2>1. /\ CommandIsDone /\ UNCHANGED <<native, stale, skipped>> /\ NativeReady
        /\ does = "register" /\ client.optedOut
      BY <1>9 DEF IsRefused
  <2>2. Later(Words)
      BY <1>1, <1>2, <2>1, LastWord DEF TokenTold
  <2>. QED BY <1>1, <1>2, <1>4, <1>5, <1>7, <2>1, <2>2 DEF TokenTold
<1>10. CASE IsDropped
  <2>1. /\ CommandIsDone /\ UNCHANGED <<client, native, stale>> /\ ~NativeReady
        /\ ~Head(commands).boot \/ skipped'
        /\ skipped => skipped'
      BY <1>10 DEF IsDropped
  <2>2. /\ Undispatched
        /\ does = "register" => Head(commands).boot
        /\ does \in {"reset", "unregister"} => Head(commands).boot = client.registered
      BY <1>2, <2>1 DEF TokenTold, WordsInOrder, Undispatched
  <2>3. does \in {"reset", "unregister"} /\ ~skipped' => native.token = 0
      BY <2>1, <2>2 DEF Undispatched
  <2>4. Undispatched'
      BY <1>7, <2>1, <2>2 DEF Undispatched
  <2>5. ~skipped' /\ does \in Words => does = "unregister"
      BY <1>2, <2>1, <2>2
  <2>6. ~skipped' /\ "token" \notin stale' /\ ~Pending(Words)' => (wanted' <=> native'.token # 0)
    <3>1. SUFFICES ASSUME ~skipped', "token" \notin stale', ~Later(Words)
                   PROVE  wanted <=> native.token # 0
        BY <1>1, <1>7, <2>1
    <3>2. CASE does \in Words
        BY <1>1, <1>2, <2>3, <2>5, <3>1, <3>2, LastWord DEF TokenTold
    <3>3. CASE does \notin Words
        BY <1>1, <1>5, <2>1, <3>1, <3>3 DEF TokenTold
    <3>. QED BY <3>2, <3>3
  <2>7. ~skipped' /\ "token" \notin stale' /\ ~Pending({"reset"})' =>
           native'.token \in {0} \cup Right({"reset"})'
    <3>1. SUFFICES ASSUME ~skipped', "token" \notin stale', ~Later({"reset"})
                   PROVE  native.token \in {0} \cup Right({"reset"})
        BY <1>1, <1>4, <1>7, <2>1
    <3>2. CASE does = "reset"
        BY <2>3, <3>1, <3>2
    <3>3. CASE does # "reset"
        BY <1>1, <1>2, <1>5, <2>1, <3>1, <3>3 DEF TokenTold
    <3>. QED BY <3>2, <3>3
  <2>. QED BY <1>7, <2>1, <2>4, <2>6, <2>7 DEF TokenTold
<1>11. CASE HasLanded
  <2>1. /\ CommandIsDone /\ command.at = "calling" /\ NativeReady
        /\ UNCHANGED <<client, skipped>>
      BY <1>11 DEF HasLanded, ChainsInStep
  <2>2. native'.token = CASE does = "reset" -> IF native.token = 0 THEN 0 ELSE command.user
                          [] does = "register" -> native.user
                          [] does = "unregister" -> 0
                          [] OTHER -> native.token
      BY <1>2, <1>11, NativeAfterFacts DEF HasLanded
  <2>3. /\ does \notin Words => ("token" \in stale' <=> "token" \in stale)
        /\ does = "register" /\ "identity" \in stale => "token" \in stale'
      BY <1>2, <1>11 DEF HasLanded, Concerns, Words
  <2>4. native.user # 0 /\ command.user # 0 /\ Told({"reset"})
    <3>1. native.user \in Identities /\ command.user \in Identities
        BY BridgeFields
    <3>. QED BY <3>1 DEF Identities, IdentityTold
  <2>5. ~skipped' /\ "token" \notin stale' /\ ~Pending(Words)' => (wanted' <=> native'.token # 0)
    <3>1. SUFFICES ASSUME ~skipped, "token" \notin stale', ~Later(Words)
                   PROVE  wanted <=> native'.token # 0
        BY <1>1, <1>7, <2>1
    <3>2. CASE does \in Words
        BY <1>1, <1>2, <2>2, <2>4, <3>1, <3>2, LastWord DEF TokenTold
    <3>3. CASE does \notin Words
      <4>1. wanted <=> native.token # 0
          BY <1>5, <2>3, <3>1, <3>3 DEF TokenTold
      <4>2. native'.token # 0 <=> native.token # 0
          BY <1>2, <2>2, <2>4, <3>3
      <4>. QED BY <4>1, <4>2
    <3>. QED BY <3>2, <3>3
  <2>6. ~skipped' /\ "token" \notin stale' /\ ~Pending({"reset"})' =>
           native'.token \in {0} \cup Right({"reset"})'
    <3>1. SUFFICES ASSUME ~skipped, "token" \notin stale', ~Later({"reset"})
                   PROVE  native'.token \in {0} \cup Right({"reset"})
        BY <1>1, <1>4, <1>7, <2>1
    <3>2. CASE does = "reset"
      <4>1. command.user \in Right({"reset"})
          BY <2>1, <2>4, <3>1, <3>2 DEF Told, Identifying
      <4>. QED BY <2>2, <3>2, <4>1
    <3>3. CASE does = "register"
      <4>1. native.user \in Right({"reset"})
          BY <1>2, <1>5, <2>1, <2>3, <2>4, <3>1, <3>3 DEF Told
      <4>. QED BY <2>2, <3>3, <4>1
    <3>4. CASE does = "unregister"
        BY <2>2, <3>4
    <3>5. CASE does \in {"identify", "consent"}
      <4>1. native'.token = native.token
          BY <2>2, <3>5
      <4>2. "token" \notin stale /\ ~Pending({"reset"})
          BY <1>2, <1>5, <2>3, <3>1, <3>5
      <4>. QED BY <3>1, <4>1, <4>2 DEF TokenTold
    <3>. QED BY <1>2, <3>2, <3>3, <3>4, <3>5
  <2>. QED BY <1>1, <1>7, <2>1, <2>5, <2>6 DEF TokenTold
<1>12. CASE WasLost
  <2>1. /\ CommandIsDone /\ NativeReady
        /\ UNCHANGED <<client, native, skipped>> /\ stale \subseteq stale'
      BY <1>12 DEF WasLost, ChainsInStep
  <2>2. does \in {"reset", "register", "unregister"} => "token" \in stale'
      BY <1>12 DEF WasLost, Concerns
  <2>. QED BY <1>1, <1>2, <1>4, <1>5, <1>7, <2>1, <2>2 DEF TokenTold
<1>. QED BY <1>1, <1>8, <1>9, <1>10, <1>11, <1>12 DEF HeadMoves

\* The words stay in order when more commands are asked for.
LEMMA WordsGrow ==
    ASSUME BridgeTypeOK, WordsInOrder, NEW more \in Seq(Command), Enqueue(more),
           \A k \in 1..Len(more) : more[k].does = "register" => more[k].boot,
           \/ /\ \A k \in 1..Len(more) : more[k].does \notin Words
              /\ wanted' = wanted /\ (client'.optedOut => client.optedOut)
           \/ /\ 1 \in 1..Len(more) /\ more[1].does = "unregister"
              /\ \A k \in 1..Len(more) : more[k].does # "register"
              /\ ~wanted'
           \/ /\ Len(more) = 1 /\ more[1].does = "register"
              /\ wanted' /\ ~client'.optedOut
    PROVE  WordsInOrder'
<1>. DEFINE n == Len(commands)
<1>1. /\ n \in Nat /\ DOMAIN commands = 1..n /\ Len(more) \in Nat
      /\ DOMAIN commands' = 1..(n + Len(more))
      /\ \A k \in DOMAIN commands : k \in DOMAIN commands' /\ commands'[k] = commands[k]
      /\ \A k \in 1..Len(more) : n + k \in DOMAIN commands' /\ commands'[n + k] = more[k]
      /\ \A k \in DOMAIN commands' :
            \/ k \in DOMAIN commands /\ commands'[k] = commands[k]
            \/ k - n \in 1..Len(more) /\ commands'[k] = more[k - n]
    BY BridgeChains, Joined DEF Enqueue
<1>2. \A k \in DOMAIN commands : k \in Nat /\ n + 1 > k
    BY <1>1
<1>3. \A k \in DOMAIN commands' : k \in Nat
    BY <1>1
<1>. HIDE DEF n
<1>4. \A k \in DOMAIN commands' : commands'[k].does = "register" => commands'[k].boot
    BY <1>1 DEF WordsInOrder
<1>5. CASE /\ \A k \in 1..Len(more) : more[k].does \notin Words
           /\ wanted' = wanted /\ (client'.optedOut => client.optedOut)
  <2>1. \A k \in DOMAIN commands' : commands'[k].does \in Words => k \in DOMAIN commands
      BY <1>1, <1>5
  <2>2. ASSUME NEW k \in DOMAIN commands', commands'[k].does = "register", client'.optedOut
        PROVE  \E l \in DOMAIN commands' : l > k /\ commands'[l].does = "unregister"
    <3>1. k \in DOMAIN commands /\ commands[k].does = "register"
        BY <1>1, <2>1, <2>2 DEF Words
    <3>2. PICK l \in DOMAIN commands : l > k /\ commands[l].does = "unregister"
        BY <1>5, <2>2, <3>1 DEF WordsInOrder
    <3>. QED BY <1>1, <3>2
  <2>3. ASSUME NEW k \in DOMAIN commands', Word(k)'
        PROVE  wanted' <=> commands'[k].does = "register"
    <3>1. k \in DOMAIN commands /\ commands'[k] = commands[k]
        BY <1>1, <2>1, <2>3 DEF Word
    <3>2. Word(k)
        BY <1>1, <2>3, <3>1 DEF Word
    <3>. QED BY <1>5, <3>1, <3>2 DEF WordsInOrder
  <2>. QED BY <1>4, <2>2, <2>3 DEF WordsInOrder
<1>6. CASE /\ 1 \in 1..Len(more) /\ more[1].does = "unregister"
           /\ \A k \in 1..Len(more) : more[k].does # "register"
           /\ ~wanted'
  <2>1. n + 1 \in DOMAIN commands' /\ commands'[n + 1].does = "unregister"
      BY <1>1, <1>6
  <2>2. \A k \in DOMAIN commands' : commands'[k].does = "register" => n + 1 > k
      BY <1>1, <1>2, <1>6
  <2>3. ASSUME NEW k \in DOMAIN commands', Word(k)' PROVE commands'[k].does # "register"
      BY <2>1, <2>2, <2>3 DEF Word, Words
  <2>. QED BY <1>4, <1>6, <2>1, <2>2, <2>3 DEF WordsInOrder
<1>7. CASE /\ Len(more) = 1 /\ more[1].does = "register"
           /\ wanted' /\ ~client'.optedOut
  <2>1. n + 1 \in DOMAIN commands' /\ commands'[n + 1].does = "register"
      BY <1>1, <1>7
  <2>2. ASSUME NEW k \in DOMAIN commands', Word(k)' PROVE commands'[k].does = "register"
    <3>1. CASE k \in DOMAIN commands
        BY <1>2, <2>1, <2>2, <3>1 DEF Word, Words
    <3>2. CASE k - n \in 1..Len(more) /\ commands'[k] = more[k - n]
        BY <1>7, <3>2
    <3>. QED BY <1>1, <3>1, <3>2
  <2>. QED BY <1>4, <1>7, <2>2 DEF WordsInOrder
<1>. QED BY <1>5, <1>6, <1>7

\* What calls of the API say about the token, and which words they add.
LEMMA TokenCalls ==
    ASSUME BridgeTypeOK, NEW more \in Seq(Command), Asked(more)
    PROVE  /\ client'.registered = client.registered
           /\ \A k \in 1..Len(more) :
                 /\ more[k].does = "register" => more[k].boot
                 /\ more[k].does \in {"reset", "unregister"} => more[k].boot = client.registered
           /\ loggedOut' = loggedOut \/ \E k \in 1..Len(more) : more[k].does = "reset"
           /\ \/ /\ \A k \in 1..Len(more) : more[k].does \notin Words
                 /\ wanted' = wanted /\ (client'.optedOut => client.optedOut)
              \/ /\ 1 \in 1..Len(more) /\ more[1].does = "unregister"
                 /\ \A k \in 1..Len(more) : more[k].does # "register"
                 /\ ~wanted'
              \/ /\ 1 \in 1..Len(more) /\ Len(more) = 1 /\ more[1].does = "register"
                 /\ wanted' /\ ~client'.optedOut
<1>1. /\ client \in Clients
      /\ Len(more) = 1 => 1 \in 1..Len(more) /\ \A k \in 1..Len(more) : k = 1
      /\ Len(more) = 2 => 1 \in 1..Len(more) /\ \A k \in 1..Len(more) : k = 1 \/ k = 2
  <2>1. Len(more) = 1 => 1 \in 1..Len(more) /\ \A k \in 1..Len(more) : k = 1
      OBVIOUS
  <2>2. Len(more) = 2 => 1 \in 1..Len(more) /\ \A k \in 1..Len(more) : k = 1 \/ k = 2
    <3>1. ASSUME Len(more) = 2, NEW k \in 1..Len(more) PROVE k = 1 \/ k = 2
      <4>1. k \in 1..2
          BY <3>1
      <4>. QED BY <4>1
    <3>. QED BY <3>1
  <2>. QED BY <2>1, <2>2, BridgeNamed
<1>2. CASE BridgeIdentify /\ Len(more) = 1 /\ more[1].does = "identify"
  <2>1. /\ client'.registered = client.registered /\ client'.optedOut = client.optedOut
        /\ UNCHANGED <<loggedOut, wanted>>
      BY <1>1, <1>2 DEF BridgeIdentify, Clients
  <2>. QED BY <1>1, <1>2, <2>1 DEF Words
<1>3. CASE /\ BridgeReset /\ Len(more) = 2
           /\ more[1].does = "reset" /\ more[1].boot = client.registered
           /\ more[2].does = "consent"
  <2>1. client'.registered = client.registered /\ wanted' = wanted
      BY <1>1, <1>3 DEF BridgeReset, Clients
  <2>2. client'.optedOut = FALSE
      BY <1>1, <1>3 DEF BridgeReset, Clients
  <2>. QED BY <1>1, <1>3, <2>1, <2>2 DEF Words
<1>4. CASE OptIn /\ Len(more) = 1 /\ more[1].does = "consent"
  <2>1. client'.registered = client.registered /\ UNCHANGED <<loggedOut, wanted>>
      BY <1>1, <1>4 DEF OptIn, Clients
  <2>2. client'.optedOut = FALSE
      BY <1>1, <1>4 DEF OptIn, Clients
  <2>. QED BY <1>1, <1>4, <2>1, <2>2 DEF Words
<1>5. CASE /\ OptOut /\ Len(more) = 2
           /\ more[1].does = "unregister" /\ more[1].boot = client.registered
           /\ more[2].does = "consent"
  <2>1. client'.registered = client.registered /\ loggedOut' = loggedOut
      BY <1>1, <1>5 DEF OptOut, Clients
  <2>2. ~wanted'
      BY <1>5, Zenon DEF OptOut
  <2>. QED BY <1>1, <1>5, <2>1, <2>2 DEF Words
<1>6. CASE RegisterToken /\ Len(more) = 1 /\ more[1].does = "register" /\ more[1].boot
  <2>1. /\ client' = client /\ loggedOut' = loggedOut /\ ~client.optedOut
      BY <1>6 DEF RegisterToken
  <2>2. wanted'
      BY <1>6, Zenon DEF RegisterToken
  <2>. QED BY <1>1, <1>6, <2>1, <2>2 DEF Words
<1>7. CASE /\ UnregisterToken /\ Len(more) = 1
           /\ more[1].does = "unregister" /\ more[1].boot = client.registered
  <2>1. client' = client /\ loggedOut' = loggedOut
      BY <1>7 DEF UnregisterToken
  <2>2. ~wanted'
      BY <1>7, Zenon DEF UnregisterToken
  <2>. QED BY <1>1, <1>7, <2>1, <2>2 DEF Words
<1>. QED BY <1>2, <1>3, <1>4, <1>5, <1>6, <1>7, AskedCases

\* Calls of the API.
LEMMA TokenByCalls ==
    ASSUME BridgeTypeOK, ChainsInStep, TokenTold, Calls
    PROVE  TokenTold'
<1>1. PICK more \in Seq(Command) : Asked(more) /\ Enqueue(more)
    BY AskedTyped
<1>2. /\ UNCHANGED <<command, native, stale, skipped, replayUp, pushUp>>
      /\ NativeReady' <=> NativeReady
    BY CallsTyped DEF NativeReady
<1>3. /\ client'.registered = client.registered
      /\ \A k \in 1..Len(more) :
            /\ more[k].does = "register" => more[k].boot
            /\ more[k].does \in {"reset", "unregister"} => more[k].boot = client.registered
      /\ loggedOut' = loggedOut \/ \E k \in 1..Len(more) : more[k].does = "reset"
      /\ \/ /\ \A k \in 1..Len(more) : more[k].does \notin Words
            /\ wanted' = wanted /\ (client'.optedOut => client.optedOut)
         \/ /\ 1 \in 1..Len(more) /\ more[1].does = "unregister"
            /\ \A k \in 1..Len(more) : more[k].does # "register"
            /\ ~wanted'
         \/ /\ 1 \in 1..Len(more) /\ Len(more) = 1 /\ more[1].does = "register"
            /\ wanted' /\ ~client'.optedOut
    BY <1>1, TokenCalls
<1>4. \A kinds : /\ (\E k \in 1..Len(more) : more[k].does \in kinds) => Pending(kinds)'
                 /\ (\A k \in 1..Len(more) : more[k].does \notin kinds) =>
                       (Pending(kinds)' <=> Pending(kinds))
    BY <1>1, <1>2, QueueGrows
<1>5. WordsInOrder'
    BY <1>1, <1>3, WordsGrow DEF TokenTold
<1>6. ~NativeReady' => Undispatched'
  <2>1. SUFFICES ASSUME ~NativeReady PROVE Undispatched'
      BY <1>2
  <2>2. \A k \in DOMAIN commands' :
           \/ k \in DOMAIN commands /\ commands'[k] = commands[k]
           \/ k - Len(commands) \in 1..Len(more) /\ commands'[k] = more[k - Len(commands)]
      BY <1>1, BridgeChains, Joined DEF Enqueue
  <2>3. Undispatched
      BY <2>1 DEF TokenTold
  <2>4. \A k \in DOMAIN commands' :
           commands'[k].does \in {"reset", "unregister"} => commands'[k].boot = client.registered
      BY <1>3, <2>2, <2>3 DEF Undispatched
  <2>. QED BY <1>2, <1>3, <2>3, <2>4 DEF Undispatched
<1>7. ~skipped' /\ "token" \notin stale' /\ ~Pending(Words)' => (wanted' <=> native'.token # 0)
  <2>1. CASE \A k \in 1..Len(more) : more[k].does \notin Words
    <3>1. wanted' = wanted \/ (1 \in 1..Len(more) /\ more[1].does \in Words)
        BY <1>3 DEF Words
    <3>. QED BY <1>2, <1>4, <2>1, <3>1 DEF TokenTold
  <2>2. CASE \E k \in 1..Len(more) : more[k].does \in Words
      BY <1>4, <2>2
  <2>. QED BY <2>1, <2>2
<1>8. ~skipped' /\ "token" \notin stale' /\ ~Pending({"reset"})' =>
         native'.token \in {0} \cup Right({"reset"})'
  <2>1. CASE \A k \in 1..Len(more) : more[k].does # "reset"
    <3>1. loggedOut' = loggedOut /\ "identify" \notin {"reset"}
        BY <1>3, <2>1
    <3>2. Right({"reset"})' = Right({"reset"})
        BY <3>1 DEF Right
    <3>3. Pending({"reset"})' <=> Pending({"reset"})
        BY <1>4, <2>1
    <3>. QED BY <1>2, <3>2, <3>3 DEF TokenTold
  <2>2. CASE \E k \in 1..Len(more) : more[k].does = "reset"
      BY <1>4, <2>2
  <2>. QED BY <2>1, <2>2
<1>. QED BY <1>5, <1>6, <1>7, <1>8 DEF TokenTold

\* A step of the evaluations leaves commands, client and token as they are.
LEMMA TokenByWorks ==
    ASSUME BridgeTypeOK, ChainsInStep, TokenTold, Works
    PROVE  TokenTold'
<1>1. /\ UNCHANGED <<client, commands, loggedOut, wanted, skipped>>
      /\ native'.token = native.token /\ (NativeReady => NativeReady')
    BY WorksTyped
<1>2. "token" \in stale' <=> "token" \in stale
  <2>1. CASE BootStarts \/ EvaluationStarts
      BY <2>1, BootFacts, EvaluationFacts
  <2>2. CASE RecorderStops
      BY <2>2, StopFacts DEF Lands, IsLost
  <2>3. CASE ~(BootStarts \/ EvaluationStarts \/ RecorderStops)
      BY <2>3 DEF Works, SetupLands, SetupIsLost, SetupEnds, SetupConsentIsLost,
                  RecorderStarts, Lands, IsLost
  <2>. QED BY <2>1, <2>2, <2>3
<1>3. /\ Right({"reset"})' = Right({"reset"})
      /\ \A kinds : Pending(kinds)' <=> Pending(kinds)
    BY <1>1, RightStays, QueueStays
<1>4. WordsInOrder'
    BY <1>1 DEF TokenTold, WordsInOrder, Word
<1>5. ~NativeReady' => Undispatched'
    BY <1>1 DEF TokenTold, Undispatched
<1>. QED BY <1>1, <1>2, <1>3, <1>4, <1>5 DEF TokenTold

\* The token, over every step.
LEMMA TokenNext ==
    ASSUME BridgeTypeOK, ChainsInStep, IdentityTold, TokenTold, [BridgeNext]_nbVars
    PROVE  TokenTold'
<1>1. CASE Stirs \/ UNCHANGED nbVars
  <2>1. /\ UNCHANGED <<commands, command, native, stale, skipped, replayUp, pushUp, loggedOut,
                       wanted>>
        /\ client'.user = client.user /\ client'.optedOut = client.optedOut
        /\ client'.registered = client.registered
      BY <1>1, StirsTyped DEF nbVars
  <2>2. /\ Right({"reset"})' = Right({"reset"}) /\ (NativeReady' <=> NativeReady)
        /\ \A kinds : Pending(kinds)' <=> Pending(kinds)
      BY <2>1, RightStays, QueueRests DEF NativeReady
  <2>3. WordsInOrder'
      BY <2>1 DEF TokenTold, WordsInOrder, Word
  <2>4. ~NativeReady' => Undispatched'
      BY <2>1, <2>2 DEF TokenTold, Undispatched
  <2>. QED BY <2>1, <2>2, <2>3, <2>4 DEF TokenTold
<1>. QED BY <1>1, FourSorts, TokenByCalls, TokenByWorks, TokenByHeads

--------------------------------------------------------------------------------
(* The recorder.                                                                *)

\* What is unread changes only when an evaluation reads the gate.
LEMMA WorksUnread ==
    ASSUME BridgeTypeOK, ChainsInStep, Works, ~EvaluationStarts
    PROVE  Unread' <=> Unread
<1>1. Worked /\ evals # <<>>
    BY WorksTyped
<1>2. ~(eval.at = "idle" /\ Head(evals) = "evaluate")
  <2>1. CASE BootStarts
      BY <2>1 DEF BootStarts
  <2>2. CASE ~BootStarts
      BY <2>2 DEF Works, SetupLands, SetupIsLost, SetupEnds, SetupConsentIsLost,
                  RecorderStarts, RecorderStops
  <2>. QED BY <2>1, <2>2
<1>3. JobIsDone \/ (evals' = evals /\ eval'.at # "idle")
    BY <1>1 DEF Worked
<1>. QED BY <1>1, <1>2, <1>3, UnreadBehind

\* Commands do not concern the recorder.
LEMMA HeadsSpareRecorder ==
    ASSUME BridgeTypeOK, ChainsInStep, Heads
    PROVE  /\ UNCHANGED <<options, started, current, armed, replayUp, pushUp, recording, eval,
                          flagsDue>>
           /\ client'.linked = client.linked /\ client'.session = client.session
           /\ client'.activated = client.activated
           /\ native'.recording = native.recording /\ native'.up = native.up
           /\ "recorder" \in stale' <=> "recorder" \in stale
           /\ Unread' <=> Unread
<1>1. HeadMoves /\ commands # <<>> /\ UNCHANGED commandKeeps
    BY HeadsMove
<1>2. UNCHANGED <<options, started, current, armed, replayUp, pushUp, recording, eval, flagsDue>>
    BY <1>1 DEF commandKeeps
<1>3. Head(commands).does \in {"identify", "reset", "consent", "register", "unregister"}
    BY <1>1, BridgeChains DEF Command
<1>4. /\ client'.linked = client.linked /\ client'.session = client.session
      /\ client'.activated = client.activated
    BY <1>1, BridgeNamed DEF HeadMoves, TakesTurn, AsksForBoot, GoesOut, Dispatched, IsRefused,
                IsDropped, HasLanded, WasLost, Clients
<1>5. Unread' <=> Unread
  <2>1. CASE AsksForBoot
      BY <1>2, <2>1, OneAsked DEF AsksForBoot
  <2>2. CASE ~AsksForBoot
    <3>1. evals' = evals
        BY <1>1, <2>2 DEF HeadMoves, TakesTurn, GoesOut, IsRefused, IsDropped, HasLanded, WasLost
    <3>. QED BY <1>2, <3>1 DEF Unread
  <2>. QED BY <2>1, <2>2
<1>6. /\ native'.recording = native.recording /\ native'.up = native.up
      /\ "recorder" \in stale' <=> "recorder" \in stale
  <2>1. "recorder" \notin Concerns(Head(commands).does)
      BY <1>3 DEF Concerns
  <2>2. CASE HasLanded
    <3>1. native'.recording = native.recording /\ native'.up = native.up
        BY <1>3, <2>2, NativeAfterFacts DEF HasLanded
    <3>. QED BY <2>1, <2>2, <3>1 DEF HasLanded
  <2>3. CASE ~HasLanded
      BY <1>1, <2>1, <2>3
         DEF HeadMoves, TakesTurn, AsksForBoot, GoesOut, IsRefused, IsDropped, WasLost
  <2>. QED BY <2>2, <2>3
<1>. QED BY <1>2, <1>4, <1>5, <1>6

\* Nor do calls of the API, but for a reset.
LEMMA CallsSpareRecorder ==
    ASSUME BridgeTypeOK, ChainsInStep, Calls
    PROVE  /\ UNCHANGED <<options, started, current, armed, replayUp, pushUp, recording, eval,
                          native, stale>>
           /\ Unread' <=> Unread
           /\ ~BridgeReset => /\ client'.linked = client.linked
                              /\ client'.session = client.session
                              /\ client'.activated = client.activated /\ flagsDue' = flagsDue
           /\ BridgeReset => /\ client'.session = client.session + 1 /\ client'.activated = 0
                             /\ flagsDue' = options.replay
<1>1. /\ UNCHANGED <<options, started, current, armed, replayUp, pushUp, recording, eval,
                     native, stale>>
      /\ evals' = evals \/ evals' = Append(evals, "boot")
    BY CallsTyped
<1>2. Unread' <=> Unread
  <2>1. CASE evals' = evals
      BY <1>1, <2>1 DEF Unread
  <2>2. CASE evals' = Append(evals, "boot")
      BY <1>1, <2>2, OneAsked
  <2>. QED BY <1>1, <2>1, <2>2
<1>3. ~BridgeReset => /\ client'.linked = client.linked
                      /\ client'.session = client.session
                      /\ client'.activated = client.activated /\ flagsDue' = flagsDue
    BY BridgeNamed DEF Calls, BridgeIdentify, OptIn, OptOut, RegisterToken, UnregisterToken,
                       Clients
<1>4. BridgeReset => /\ client'.session = client.session + 1 /\ client'.activated = 0
                     /\ flagsDue' = options.replay
    BY BridgeNamed DEF BridgeReset, Clients
<1>. QED BY <1>1, <1>2, <1>3, <1>4

\* What stirs the recorder: an evaluation that has yet to read the gate, the end of a
\* session, or a session id that the native side is told of.
Quiet ==
    /\ UNCHANGED <<client, started, flagsDue>>
    /\ Unread' <=> Unread
Expires ==
    /\ client'.session = client.session + 1 /\ client'.linked = client.linked
    /\ client'.activated = client.activated
    /\ UNCHANGED <<started, flagsDue, current>> /\ (Unread' <=> Unread)
    /\ options.replay

\* Each of them is one of these.
LEMMA StirsCases ==
    ASSUME BridgeTypeOK, ChainsInStep, Stirs
    PROVE  /\ UNCHANGED <<options, armed, replayUp, pushUp, recording, eval, native, stale>>
           /\ Unread => Unread'
           /\ \/ /\ Unread' /\ client'.session = client.session
                 /\ client'.activated \in {client.activated, client.session}
                 /\ current' \in {current, client.session}
                 /\ current' # current => current # 0
              \/ Expires
              \/ Quiet /\ started /\ current' = current
              \/ /\ Quiet /\ started /\ current # 0 /\ current' = client.session /\ ~armed
<1>1. /\ UNCHANGED <<options, armed, replayUp, pushUp, recording, commands, command, eval,
                     native, stale, skipped, loggedOut, wanted>>
      /\ client \in Clients
    BY StirsTyped, BridgeNamed
<1>2. CASE BridgeStarts
    BY <1>1, <1>2, OneAsked DEF BridgeStarts
<1>3. ASSUME NEW linked \in BOOLEAN, FlagsArrive(linked)
      PROVE  /\ Unread' /\ client'.session = client.session
             /\ client'.activated = client.activated /\ current' = current
  <2>1. Unread'
      BY <1>1, <1>3, OneAsked DEF FlagsArrive
  <2>. QED BY <1>1, <1>3, <2>1 DEF FlagsArrive, Clients
<1>4. CASE SessionExpires
  <2>1. Unread' <=> Unread
      BY <1>1, <1>4 DEF SessionExpires, Unread
  <2>. QED BY <1>1, <1>4, <2>1 DEF SessionExpires, Expires, apiVars, Clients
<1>5. ASSUME NEW matches \in BOOLEAN, CaptureEvent(matches)
      PROVE  /\ Unread => Unread'
             /\ \/ /\ Unread' /\ client'.session = client.session
                   /\ client'.activated \in {client.activated, client.session}
                   /\ current' \in {current, client.session}
                   /\ current' # current => current # 0
                \/ Quiet /\ started /\ current' = current
                \/ /\ Quiet /\ started /\ current # 0 /\ current' = client.session /\ ~armed
  <2>1. PICK rotates \in BOOLEAN, fires \in BOOLEAN : \E asked \in Seq({"evaluate"}) :
              /\ rotates <=> SessionRotates
              /\ fires => armed
              /\ current' = IF rotates THEN client.session ELSE current
              /\ client' = [client EXCEPT !.activated = IF fires THEN client.session ELSE @]
              /\ evals' = evals \o asked
              /\ fires \/ (rotates /\ armed) =>
                    \E k \in 1..Len(asked) : asked[k] = "evaluate"
      BY <1>5, EventAsks
  <2>2. PICK asked \in Seq({"evaluate"}) :
              /\ evals' = evals \o asked
              /\ fires \/ (rotates /\ armed) =>
                    \E k \in 1..Len(asked) : asked[k] = "evaluate"
      BY <2>1
  <2>3. asked \in Seq({"evaluate", "boot"})
      OBVIOUS
  <2>4. /\ (\E k \in 1..Len(asked) : asked[k] = "evaluate") => Unread'
        /\ (\A k \in 1..Len(asked) : asked[k] = "boot") => (Unread' <=> Unread)
      BY <1>1, <2>2, <2>3, EvalsGrow
  <2>5. (\E k \in 1..Len(asked) : asked[k] = "evaluate")
           \/ \A k \in 1..Len(asked) : asked[k] = "boot"
    <3>1. \A k \in 1..Len(asked) : asked[k] \in {"evaluate"}
        BY ElementOfSeq
    <3>. QED BY <3>1
  <2>6. started /\ UNCHANGED <<started, flagsDue>> /\ (rotates => current # 0)
      BY <1>5, <2>1 DEF CaptureEvent, apiVars, SessionRotates
  <2>7. /\ client'.session = client.session
        /\ client'.activated = (IF fires THEN client.session ELSE client.activated)
        /\ ~fires => client' = client
    <3>1. client' = [client EXCEPT !.activated = IF fires THEN client.session
                                                         ELSE client.activated]
        BY <2>1
    <3>. QED BY <1>1, <3>1 DEF Clients
  <2>8. CASE Unread'
      BY <2>1, <2>6, <2>7, <2>8
  <2>9. CASE ~Unread'
    <3>1. Quiet /\ ~fires /\ ~(rotates /\ armed)
        BY <2>2, <2>4, <2>5, <2>6, <2>7, <2>9 DEF Quiet
    <3>. QED BY <2>1, <2>6, <2>9, <3>1 DEF Quiet
  <2>. QED BY <2>8, <2>9
<1>. QED BY <1>1, <1>2, <1>3, <1>4, <1>5 DEF Stirs, Expires

\* The steps of the evaluations, as the recorder sees them.
LEMMA SetupFacts ==
    ASSUME BridgeTypeOK, ChainsInStep
    PROVE  /\ SetupLands =>
                 /\ eval.at = "setup" /\ eval'.at = "consent"
                 /\ eval'.replay = eval.replay /\ eval'.push = eval.push
                 /\ eval'.session = eval.session
                 /\ native'.up
                 /\ native'.recording <=> native.recording \/ (eval.replay /\ ~native.up)
                 /\ "recorder" \in stale' <=> "recorder" \in stale
                 /\ UNCHANGED <<current, armed, replayUp, pushUp, recording>>
           /\ SetupIsLost \/ SetupConsentIsLost =>
                 /\ eval.at \in {"setup", "consent"} /\ eval'.at = "idle" /\ ~eval'.replay
                 /\ eval.replay \/ eval.at = "consent" => "recorder" \in stale'
                 /\ "recorder" \in stale => "recorder" \in stale'
                 /\ UNCHANGED <<native, current, armed, replayUp, pushUp, recording>>
           /\ SetupEnds =>
                 /\ eval.at = "consent" /\ eval'.at = "idle" /\ ~eval'.replay
                 /\ current' = eval.session
                 /\ replayUp' <=> replayUp \/ eval.replay
                 /\ pushUp' <=> pushUp \/ eval.push
                 /\ recording' <=> recording \/ eval.replay
                 /\ native'.up = native.up /\ native'.recording = native.recording
                 /\ "recorder" \in stale' <=> "recorder" \in stale
                 /\ armed' = armed
           /\ RecorderStarts =>
                 /\ eval.at = "start" /\ eval'.at = "idle" /\ ~eval'.replay
                 /\ \/ recording' /\ native'.recording /\ native'.up = native.up
                    \/ "recorder" \in stale' /\ UNCHANGED <<native, recording>>
                 /\ UNCHANGED <<current, armed, replayUp, pushUp>>
<1>1. /\ eval \in JobTypes /\ native \in Natives /\ replayUp \in BOOLEAN /\ pushUp \in BOOLEAN
      /\ recording \in BOOLEAN /\ eval.replay \in BOOLEAN /\ eval.push \in BOOLEAN
      /\ native.recording \in BOOLEAN /\ native.up \in BOOLEAN
    BY BridgeNamed, BridgeFields
<1>2. NoJob.at = "idle" /\ ~NoJob.replay
    BY DEF NoJob
<1>3. ASSUME SetupLands
      PROVE  /\ eval.at = "setup" /\ eval'.at = "consent"
             /\ eval'.replay = eval.replay /\ eval'.push = eval.push
             /\ eval'.session = eval.session
             /\ native'.up
             /\ native'.recording <=> native.recording \/ (eval.replay /\ ~native.up)
             /\ "recorder" \in stale' <=> "recorder" \in stale
             /\ UNCHANGED <<current, armed, replayUp, pushUp, recording>>
  <2>1. /\ eval.at = "setup" /\ UNCHANGED <<current, armed, replayUp, pushUp, recording>>
        /\ "recorder" \in stale' <=> "recorder" \in stale
      BY <1>3 DEF SetupLands, Lands
  <2>2. /\ eval'.at = "consent" /\ eval'.replay = eval.replay /\ eval'.push = eval.push
        /\ eval'.session = eval.session
      BY <1>1, <1>3 DEF SetupLands, JobTypes
  <2>3. /\ native'.up = TRUE
        /\ native'.recording = (native.recording \/ (eval.replay /\ ~native.up))
      BY <1>1, <1>3 DEF SetupLands, Natives
  <2>. QED BY <2>1, <2>2, <2>3, Zenon
<1>4. ASSUME SetupIsLost \/ SetupConsentIsLost
      PROVE  /\ eval.at \in {"setup", "consent"} /\ eval'.at = "idle" /\ ~eval'.replay
             /\ eval.replay \/ eval.at = "consent" => "recorder" \in stale'
             /\ "recorder" \in stale => "recorder" \in stale'
             /\ UNCHANGED <<native, current, armed, replayUp, pushUp, recording>>
    BY <1>2, <1>4 DEF SetupIsLost, SetupConsentIsLost, IsLost, JobIsDone
<1>5. ASSUME SetupEnds
      PROVE  /\ eval.at = "consent" /\ eval'.at = "idle" /\ ~eval'.replay
             /\ current' = eval.session
             /\ replayUp' <=> replayUp \/ eval.replay
             /\ pushUp' <=> pushUp \/ eval.push
             /\ recording' <=> recording \/ eval.replay
             /\ native'.up = native.up /\ native'.recording = native.recording
             /\ "recorder" \in stale' <=> "recorder" \in stale
             /\ armed' = armed
  <2>1. /\ eval.at = "consent" /\ eval'.at = "idle" /\ ~eval'.replay
        /\ current' = eval.session /\ armed' = armed
        /\ "recorder" \in stale' <=> "recorder" \in stale
      BY <1>2, <1>5 DEF SetupEnds, Lands, JobIsDone, evalKeeps
  <2>2. native'.up = native.up /\ native'.recording = native.recording
      BY <1>1, <1>5 DEF SetupEnds, Natives
  <2>3. /\ replayUp' <=> replayUp \/ eval.replay
        /\ pushUp' <=> pushUp \/ eval.push
        /\ recording' <=> recording \/ eval.replay
      BY <1>5, Zenon DEF SetupEnds
  <2>. QED BY <2>1, <2>2, <2>3
<1>6. ASSUME RecorderStarts
      PROVE  /\ eval.at = "start" /\ eval'.at = "idle" /\ ~eval'.replay
             /\ \/ recording' /\ native'.recording /\ native'.up = native.up
                \/ "recorder" \in stale' /\ UNCHANGED <<native, recording>>
             /\ UNCHANGED <<current, armed, replayUp, pushUp>>
  <2>1. /\ eval.at = "start" /\ eval'.at = "idle" /\ ~eval'.replay
        /\ UNCHANGED <<current, armed, replayUp, pushUp>>
      BY <1>2, <1>6 DEF RecorderStarts, JobIsDone
  <2>2. CASE /\ Lands({"recorder"})
             /\ native' = [native EXCEPT !.recording = TRUE] /\ recording' = TRUE
    <3>1. native'.recording = TRUE /\ native'.up = native.up
        BY <1>1, <2>2 DEF Natives
    <3>. QED BY <2>1, <2>2, <3>1, Zenon
  <2>3. CASE IsLost({"recorder"}) /\ UNCHANGED <<native, recording>>
      BY <2>1, <2>3 DEF IsLost
  <2>. QED BY <1>6, <2>2, <2>3 DEF RecorderStarts
<1>. QED BY <1>3, <1>4, <1>5, <1>6

\* And those that initialize the native side, or read the gate.
LEMMA GateFacts ==
    ASSUME BridgeTypeOK, ChainsInStep
    PROVE  /\ BootStarts =>
                 /\ eval.at = "idle" /\ UNCHANGED <<current, armed, replayUp, pushUp, recording,
                                                    native, stale>>
                 /\ \/ eval'.at = "idle"
                    \/ /\ eval'.at = "setup" /\ ~eval'.replay /\ eval'.push /\ ~NativeReady
                       /\ eval'.session = client.session
           /\ EvaluationStarts =>
                 /\ eval.at = "idle" /\ UNCHANGED <<current, pushUp, recording, native, stale>>
                 /\ armed' <=> options.replay /\ options.triggers
                 /\ \/ /\ ~options.replay \/ (~GateIsOpen /\ ~recording)
                       /\ replayUp' = replayUp
                       /\ \/ eval'.at = "idle"
                          \/ /\ eval'.at = "setup" /\ ~eval'.replay /\ eval'.push
                             /\ eval'.session = client.session
                    \/ /\ options.replay /\ GateIsOpen /\ recording
                       /\ replayUp' = replayUp /\ eval'.at = "idle"
                    \/ /\ options.replay /\ GateIsOpen /\ ~recording
                       /\ \/ eval'.at = "start" /\ replayUp' = replayUp
                          \/ eval'.at = "start" /\ NativeReady /\ replayUp'
                          \/ /\ eval'.at = "setup" /\ eval'.replay /\ ~NativeReady
                             /\ eval'.session = client.session /\ replayUp' = replayUp
                          \/ eval'.at = "idle" /\ ~started /\ replayUp' = replayUp
                    \/ /\ options.replay /\ ~GateIsOpen /\ recording
                       /\ eval'.at = "stop" /\ replayUp' = replayUp
           /\ RecorderStops =>
                 /\ eval.at = "stop" /\ UNCHANGED <<current, armed, replayUp, pushUp>>
                 /\ \/ ~recording' /\ ~native'.recording /\ native'.up = native.up
                    \/ "recorder" \in stale' /\ UNCHANGED <<native, recording>>
                 /\ \/ eval'.at = "idle"
                    \/ /\ eval'.at = "setup" /\ ~eval'.replay /\ eval'.push
                       /\ eval'.session = client.session
<1>1. \A replay \in BOOLEAN :
         SetsUp(replay) => /\ eval'.at = "setup" /\ eval'.replay = replay
                           /\ eval'.replay \/ eval'.push
                           /\ eval'.session = client.session /\ replayUp' = replayUp
    BY DEF SetsUp
<1>2. TRUE \in BOOLEAN /\ FALSE \in BOOLEAN
    OBVIOUS
<1>3. SetsUp(FALSE) => /\ eval'.at = "setup" /\ ~eval'.replay /\ eval'.push
                       /\ eval'.session = client.session /\ replayUp' = replayUp
    BY <1>1, <1>2
<1>4. SetsUp(TRUE) => /\ eval'.at = "setup" /\ eval'.replay
                      /\ eval'.session = client.session /\ replayUp' = replayUp
                      /\ ~replayUp => ~NativeReady
    BY <1>1, <1>2 DEF SetsUp
<1>5. NothingToInit => eval'.at = "idle" /\ replayUp' = replayUp
    BY DEF NothingToInit, JobIsDone, NoJob
<1>6. Resumes => eval'.at = "start" /\ NativeReady /\ replayUp'
  <2>1. ASSUME Resumes PROVE replayUp'
      BY <2>1, Zenon DEF Resumes
  <2>. QED BY <2>1 DEF Resumes
<1>7. ASSUME BootStarts
      PROVE  /\ eval.at = "idle" /\ UNCHANGED <<current, armed, replayUp, pushUp, recording,
                                                    native, stale>>
             /\ \/ eval'.at = "idle"
                \/ /\ eval'.at = "setup" /\ ~eval'.replay /\ eval'.push /\ ~NativeReady
                   /\ eval'.session = client.session
  <2>1. /\ eval.at = "idle"
        /\ NothingToInit \/ (SetsUp(FALSE) /\ ~NativeReady)
        /\ UNCHANGED <<current, armed, pushUp, recording, native, stale>>
      BY <1>7, BootFacts
  <2>. QED BY <1>3, <1>5, <2>1
<1>8. ASSUME EvaluationStarts
      PROVE  /\ eval.at = "idle" /\ UNCHANGED <<current, pushUp, recording, native, stale>>
             /\ armed' <=> options.replay /\ options.triggers
             /\ \/ /\ ~options.replay \/ (~GateIsOpen /\ ~recording)
                   /\ replayUp' = replayUp
                   /\ \/ eval'.at = "idle"
                      \/ /\ eval'.at = "setup" /\ ~eval'.replay /\ eval'.push
                         /\ eval'.session = client.session
                \/ /\ options.replay /\ GateIsOpen /\ recording
                   /\ replayUp' = replayUp /\ eval'.at = "idle"
                \/ /\ options.replay /\ GateIsOpen /\ ~recording
                   /\ \/ eval'.at = "start" /\ replayUp' = replayUp
                      \/ eval'.at = "start" /\ NativeReady /\ replayUp'
                      \/ /\ eval'.at = "setup" /\ eval'.replay /\ ~NativeReady
                         /\ eval'.session = client.session /\ replayUp' = replayUp
                      \/ eval'.at = "idle" /\ ~started /\ replayUp' = replayUp
                \/ /\ options.replay /\ ~GateIsOpen /\ recording
                   /\ eval'.at = "stop" /\ replayUp' = replayUp
  <2>1. eval.at = "idle" /\ UNCHANGED <<current, pushUp, recording, native, stale>>
      BY <1>8, EvaluationFacts
  <2>2. armed' <=> options.replay /\ options.triggers
    <3>1. armed' = (options.replay /\ options.triggers)
        BY <1>8, EvaluationFacts
    <3>. QED BY <3>1, Zenon
  <2>3. CASE /\ ~options.replay \/ (~GateIsOpen /\ ~recording)
             /\ NothingToInit \/ SetsUp(FALSE)
      BY <1>3, <1>5, <2>1, <2>2, <2>3
  <2>4. CASE options.replay /\ GateIsOpen /\ recording /\ NothingToInit
      BY <1>5, <2>1, <2>2, <2>4
  <2>5. CASE /\ options.replay /\ GateIsOpen /\ ~recording /\ ~replayUp
             /\ Resumes \/ SetsUp(TRUE) \/ (NothingToInit /\ ~started)
      BY <1>4, <1>5, <1>6, <2>1, <2>2, <2>5
  <2>6. CASE /\ options.replay /\ GateIsOpen /\ ~recording /\ eval'.at = "start"
             /\ replayUp' = replayUp
      BY <2>1, <2>2, <2>6
  <2>7. CASE /\ options.replay /\ ~GateIsOpen /\ recording /\ eval'.at = "stop"
             /\ replayUp' = replayUp
      BY <2>1, <2>2, <2>7
  <2>. QED BY <1>8, <2>3, <2>4, <2>5, <2>6, <2>7, EvaluationFacts
<1>9. ASSUME RecorderStops
      PROVE  /\ eval.at = "stop" /\ UNCHANGED <<current, armed, replayUp, pushUp>>
             /\ \/ ~recording' /\ ~native'.recording /\ native'.up = native.up
                \/ "recorder" \in stale' /\ UNCHANGED <<native, recording>>
             /\ \/ eval'.at = "idle"
                \/ /\ eval'.at = "setup" /\ ~eval'.replay /\ eval'.push
                   /\ eval'.session = client.session
  <2>1. /\ eval.at = "stop"
        /\ NothingToInit \/ SetsUp(FALSE)
        /\ UNCHANGED <<current, armed, pushUp>>
      BY <1>9, StopFacts
  <2>2. CASE native' = [native EXCEPT !.recording = FALSE] /\ ~recording'
    <3>1. native'.recording = FALSE /\ native'.up = native.up
        BY <2>2, BridgeNamed DEF Natives
    <3>. QED BY <1>3, <1>5, <2>1, <2>2, <3>1, Zenon
  <2>3. CASE IsLost({"recorder"}) /\ UNCHANGED <<native, recording>>
      BY <1>3, <1>5, <2>1, <2>3 DEF IsLost
  <2>. QED BY <1>9, <2>2, <2>3, StopFacts
<1>. QED BY <1>7, <1>8, <1>9

\* What holds of the recorder's variables whatever its gate says.
LEMMA ShapeByWorks ==
    ASSUME BridgeTypeOK, ChainsInStep, RecorderShape, Works
    PROVE  RecorderShape'
<1>1. /\ UNCHANGED <<options, started, client, flagsDue>>
      /\ NativeReady \in BOOLEAN /\ client.session \in Nat /\ client.activated \in Nat
      /\ current \in Nat /\ eval.session \in Nat
      /\ eval.at \in {"idle", "setup", "consent", "start", "stop"}
      /\ client.session <= client.session
    BY WorksTyped, BridgeFields, OneMore, BridgeNamed DEF JobTypes
<1>2. /\ client.activated <= client.session /\ client.session # 0
      /\ options.triggers => options.replay
    BY DEF RecorderShape
<1>3. replayUp => NativeReady
    BY DEF NativeReady
<1>4. recording => replayUp
    BY DEF ChainsInStep
<1>5. ~EvaluationStarts => (Unread' <=> Unread)
    BY WorksUnread
<1>6. CASE BootStarts
  <2>1. NativeReady' <=> NativeReady
      BY <1>6, GateFacts DEF NativeReady
  <2>2. ~EvaluationStarts
      BY <1>6 DEF BootStarts, EvaluationStarts
  <2>. QED BY <1>1, <1>2, <1>3, <1>4, <1>5, <1>6, <2>1, <2>2, GateFacts
         DEF RecorderShape, InSetup
<1>7. CASE EvaluationStarts
  <2>1. pushUp' = pushUp
      BY <1>7, GateFacts
  <2>2. replayUp' = replayUp \/ (NativeReady /\ replayUp' /\ options.replay)
      BY <1>7, GateFacts
  <2>3. NativeReady' <=> NativeReady
      BY <2>1, <2>2 DEF NativeReady
  <2>4. started' /\ options'.triggers /\ ~armed' => Unread'
      BY <1>1, <1>2, <1>7, GateFacts
  <2>5. replayUp' => options'.replay
      BY <1>1, <2>2 DEF RecorderShape
  <2>6. recording => options.replay
      BY <1>4 DEF RecorderShape
  <2>. QED BY <1>1, <1>2, <1>3, <1>4, <1>7, <2>3, <2>4, <2>5, <2>6, GateFacts
         DEF RecorderShape, InSetup
<1>8. CASE RecorderStops
  <2>1. NativeReady' <=> NativeReady
      BY <1>8, GateFacts DEF NativeReady
  <2>2. ~EvaluationStarts
      BY <1>8 DEF RecorderStops, EvaluationStarts
  <2>3. NativeReady
      BY <1>3, <1>8, GateFacts DEF ChainsInStep
  <2>. QED BY <1>1, <1>2, <1>5, <1>8, <2>1, <2>2, <2>3, GateFacts DEF RecorderShape, InSetup
<1>9. CASE SetupLands
  <2>1. NativeReady' <=> NativeReady
      BY <1>9, SetupFacts DEF NativeReady
  <2>2. ~EvaluationStarts
      BY <1>9 DEF SetupLands, EvaluationStarts
  <2>. QED BY <1>1, <1>2, <1>5, <1>9, <2>1, <2>2, SetupFacts DEF RecorderShape, InSetup
<1>10. CASE SetupIsLost \/ SetupConsentIsLost
  <2>1. NativeReady' <=> NativeReady
      BY <1>10, SetupFacts DEF NativeReady
  <2>2. ~EvaluationStarts
      BY <1>10 DEF SetupIsLost, SetupConsentIsLost, EvaluationStarts
  <2>. QED BY <1>1, <1>2, <1>5, <1>10, <2>1, <2>2, SetupFacts DEF RecorderShape, InSetup
<1>11. CASE SetupEnds
  <2>1. NativeReady'
      BY <1>11, SetupFacts DEF NativeReady, RecorderShape, InSetup
  <2>2. ~EvaluationStarts
      BY <1>11 DEF SetupEnds, EvaluationStarts
  <2>3. /\ current' = eval.session /\ eval.session <= client.session /\ eval.session # 0
        /\ replayUp' => options.replay
      BY <1>11, SetupFacts DEF RecorderShape, InSetup
  <2>. QED BY <1>1, <1>2, <1>5, <1>11, <2>1, <2>2, <2>3, SetupFacts DEF RecorderShape, InSetup
<1>12. CASE RecorderStarts
  <2>1. NativeReady' <=> NativeReady
      BY <1>12, SetupFacts DEF NativeReady
  <2>2. ~EvaluationStarts
      BY <1>12 DEF RecorderStarts, EvaluationStarts
  <2>3. NativeReady
      BY <1>3, <1>12, SetupFacts DEF ChainsInStep
  <2>. QED BY <1>1, <1>2, <1>5, <1>12, <2>1, <2>2, <2>3, SetupFacts DEF RecorderShape, InSetup
<1>. QED BY <1>6, <1>7, <1>8, <1>9, <1>10, <1>11, <1>12 DEF Works

\* Other steps change sessions, triggers and what is unread.
LEMMA ShapeByOthers ==
    ASSUME BridgeTypeOK, ChainsInStep, RecorderShape, Calls \/ Stirs \/ Heads \/ UNCHANGED nbVars
    PROVE  RecorderShape'
<1>1. /\ NativeReady \in BOOLEAN /\ client.session \in Nat /\ client.activated \in Nat
      /\ current \in Nat /\ eval.session \in Nat
    BY BridgeFields, OneMore
<1>2. /\ client.activated <= client.session /\ client.session # 0 /\ current <= client.session
      /\ InSetup => eval.session <= client.session
    BY DEF RecorderShape
<1>3. /\ UNCHANGED <<options, armed, replayUp, pushUp, recording, eval>>
      /\ native'.up = native.up /\ ("recorder" \in stale' <=> "recorder" \in stale)
      /\ Unread => Unread'
    BY CallsSpareRecorder, StirsCases, HeadsSpareRecorder DEF nbVars, Unread
<1>4. (NativeReady' <=> NativeReady) /\ (InSetup' <=> InSetup) /\ eval'.session \in Nat
    BY <1>1, <1>3 DEF NativeReady, InSetup
<1>5. /\ client'.activated <= client'.session /\ client'.session # 0
      /\ current' <= client'.session /\ (InSetup => eval.session <= client'.session)
      /\ current' = 0 <=> current = 0
      /\ started' /\ options.triggers /\ ~armed => Unread'
  <2>1. CASE client' = client /\ UNCHANGED <<current, started>>
      BY <1>2, <1>3, <2>1 DEF RecorderShape
  <2>2. CASE /\ client'.session = client.session + 1
             /\ client'.activated \in {0, client.activated} /\ UNCHANGED <<current, started>>
    <3>1. client'.session \in Nat /\ client'.session >= client.session /\ client'.session # 0
        BY <1>1, <2>2
    <3>2. client'.activated <= client'.session
        BY <1>1, <1>2, <2>2
    <3>3. current' <= client'.session /\ (InSetup => eval.session <= client'.session)
        BY <1>1, <1>2, <2>2, <3>1
    <3>. QED BY <1>3, <2>2, <3>1, <3>2, <3>3 DEF RecorderShape
  <2>3. CASE /\ client'.session = client.session
             /\ client'.activated = client.activated /\ UNCHANGED <<current, started>>
      BY <1>2, <1>3, <2>3 DEF RecorderShape
  <2>4. CASE /\ client'.session = client.session
             /\ client'.activated \in {client.activated, client.session}
             /\ current' \in {current, client.session}
             /\ current' # current => current # 0
             /\ Unread'
    <3>1. client'.activated <= client'.session
        BY <1>1, <1>2, <2>4
    <3>2. current' <= client'.session
        BY <1>1, <1>2, <2>4
    <3>. QED BY <1>2, <2>4, <3>1, <3>2
  <2>5. CASE /\ Quiet /\ started /\ current' = current
    <3>1. client' = client /\ UNCHANGED started
        BY <2>5 DEF Quiet
    <3>. QED BY <2>1, <2>5, <3>1
  <2>6. CASE /\ Quiet /\ started /\ current # 0 /\ current' = client.session /\ ~armed
    <3>1. client' = client /\ started' = started
        BY <2>6 DEF Quiet
    <3>2. current' <= client'.session
        BY <1>1, <2>6, <3>1
    <3>. QED BY <1>2, <1>3, <2>6, <3>1, <3>2 DEF RecorderShape
  <2>7. CASE Calls
    <3>1. UNCHANGED <<current, started>>
        BY <2>7, CallsSpareRecorder
    <3>. QED BY <2>2, <2>3, <2>7, <3>1, CallsSpareRecorder
  <2>8. CASE Heads
      BY <2>3, <2>8, HeadsSpareRecorder
  <2>9. CASE UNCHANGED nbVars
      BY <2>1, <2>9 DEF nbVars
  <2>10. CASE Stirs
      BY <2>2, <2>4, <2>5, <2>6, <2>10, StirsCases DEF Expires
  <2>. QED BY <2>7, <2>8, <2>9, <2>10
<1>. QED BY <1>3, <1>4, <1>5 DEF RecorderShape

\* Over every step.
LEMMA ShapeNext ==
    ASSUME BridgeTypeOK, ChainsInStep, RecorderShape, [BridgeNext]_nbVars
    PROVE  RecorderShape'
BY FourSorts, ShapeByWorks, ShapeByOthers

\* The gate, and what was read of it, while neither changes.
LEMMA GateStays ==
    ASSUME options' = options, flagsDue' = flagsDue, started' = started, Unread' <=> Unread,
           client'.linked = client.linked, client'.session = client.session,
           client'.activated = client.activated
    PROVE  /\ GateIsRead' <=> GateIsRead
           /\ GateIsOpen' <=> GateIsOpen
           /\ current' = current => (SessionIsKnown' <=> SessionIsKnown)
BY DEF GateIsRead, GateIsOpen, SessionIsKnown

\* An evaluation that starts reads the gate; the others act on what was read.
LEMMA ToldOfRecorderByWorks ==
    ASSUME BridgeTypeOK, ChainsInStep, RecorderShape, RecorderTold, Works
    PROVE  RecorderTold'
<1>1. UNCHANGED <<options, started, client, flagsDue>>
    BY WorksTyped
<1>2. /\ GateIsOpen' <=> GateIsOpen
      /\ current' = current => (SessionIsKnown' <=> SessionIsKnown)
      /\ ~EvaluationStarts => (GateIsRead' <=> GateIsRead)
    BY <1>1, WorksUnread DEF GateIsRead, GateIsOpen, SessionIsKnown
<1>3. recording => NativeReady
    BY DEF ChainsInStep, NativeReady
<1>4. CASE BootStarts
  <2>1. ~EvaluationStarts
      BY <1>4 DEF BootStarts, EvaluationStarts
  <2>. QED BY <1>2, <1>4, <2>1, GateFacts DEF RecorderTold, InSetup
<1>5. CASE EvaluationStarts
  <2>1. GateIsRead' => options.replay /\ started
      BY <1>1 DEF GateIsRead
  <2>2. current' = current /\ UNCHANGED <<recording, native, stale>> /\ eval.at = "idle"
      BY <1>5, GateFacts
  <2>3. "recorder" \notin stale' =>
           (native'.recording <=> recording' \/ (eval'.at = "consent" /\ eval'.replay))
    <3>1. eval'.at # "consent"
        BY <1>5, GateFacts
    <3>. QED BY <2>2, <3>1 DEF RecorderTold
  <2>4. GateIsRead' =>
           /\ eval'.at = "stop" => ~GateIsOpen
           /\ ~recording /\ eval'.at # "start" /\ ~(InSetup' /\ eval'.replay) => ~GateIsOpen
           /\ eval'.at = "start" => GateIsOpen
           /\ InSetup' /\ eval'.replay => GateIsOpen
           /\ recording /\ eval'.at # "stop" => GateIsOpen
      BY <1>5, <2>1, GateFacts DEF InSetup
  <2>. QED BY <1>2, <2>2, <2>3, <2>4 DEF RecorderTold
<1>6. CASE RecorderStops
  <2>1. ~EvaluationStarts
      BY <1>6 DEF RecorderStops, EvaluationStarts
  <2>2. /\ eval.at = "stop" /\ current' = current
        /\ eval'.at \in {"idle", "setup"} /\ ~(InSetup' /\ eval'.replay)
        /\ \/ ~recording' /\ ~native'.recording
           \/ "recorder" \in stale'
      BY <1>6, GateFacts DEF InSetup
  <2>. QED BY <1>2, <2>1, <2>2 DEF RecorderTold
<1>7. CASE SetupLands
  <2>1. ~EvaluationStarts
      BY <1>7 DEF SetupLands, EvaluationStarts
  <2>2. /\ eval.at = "setup" /\ eval'.at = "consent" /\ eval'.replay = eval.replay
        /\ eval'.session = eval.session /\ current' = current /\ recording' = recording
        /\ "recorder" \in stale' <=> "recorder" \in stale
        /\ native'.recording <=> native.recording \/ (eval.replay /\ ~native.up)
      BY <1>7, SetupFacts
  <2>3. "recorder" \notin stale /\ eval.replay => ~native.up
      BY <2>2 DEF RecorderShape, InSetup
  <2>4. (InSetup' /\ InSetup) /\ options'.triggers = options.triggers
        /\ client'.session = client.session
      BY <1>1, <2>2 DEF InSetup
  <2>. QED BY <1>2, <2>1, <2>2, <2>3, <2>4 DEF RecorderTold
<1>8. CASE SetupIsLost \/ SetupConsentIsLost
  <2>1. ~EvaluationStarts
      BY <1>8 DEF SetupIsLost, SetupConsentIsLost, EvaluationStarts
  <2>2. /\ InSetup /\ eval.at # "stop" /\ eval.at # "start" /\ eval'.at = "idle"
        /\ eval.replay \/ eval.at = "consent" => "recorder" \in stale'
        /\ "recorder" \in stale => "recorder" \in stale'
        /\ UNCHANGED <<native, current, recording>>
      BY <1>8, SetupFacts DEF InSetup
  <2>. QED BY <1>2, <2>1, <2>2 DEF RecorderTold, InSetup
<1>9. CASE SetupEnds
  <2>1. ~EvaluationStarts
      BY <1>9 DEF SetupEnds, EvaluationStarts
  <2>2. /\ eval.at = "consent" /\ eval'.at = "idle" /\ current' = eval.session
        /\ recording' <=> recording \/ eval.replay
        /\ native'.recording = native.recording
        /\ "recorder" \in stale' <=> "recorder" \in stale
      BY <1>9, SetupFacts
  <2>3. /\ InSetup /\ ~InSetup'
        /\ eval.session # 0 /\ (~recording \/ "recorder" \in stale)
        /\ eval.replay => current = 0
      BY <2>2 DEF RecorderShape, InSetup
  <2>4. SessionIsKnown' /\ options.triggers => eval.session = client.session
      BY <1>1, <2>2, <2>3 DEF SessionIsKnown
  <2>5. eval.replay => SessionIsKnown
      BY <2>3 DEF SessionIsKnown
  <2>. QED BY <1>2, <2>1, <2>2, <2>3, <2>4, <2>5 DEF RecorderTold
<1>10. CASE RecorderStarts
  <2>1. ~EvaluationStarts
      BY <1>10 DEF RecorderStarts, EvaluationStarts
  <2>2. /\ eval.at = "start" /\ eval'.at = "idle" /\ current' = current
        /\ \/ recording' /\ native'.recording
           \/ "recorder" \in stale'
      BY <1>10, SetupFacts
  <2>. QED BY <1>2, <2>1, <2>2 DEF RecorderTold, InSetup
<1>. QED BY <1>4, <1>5, <1>6, <1>7, <1>8, <1>9, <1>10 DEF Works

\* A gate that changes in the session that is known has an evaluation to come; a
\* session that ends closes it.
LEMMA ToldOfRecorderByOthers ==
    ASSUME BridgeTypeOK, ChainsInStep, RecorderShape, RecorderTold,
           Calls \/ Stirs \/ Heads \/ UNCHANGED nbVars
    PROVE  RecorderTold'
<1>1. /\ UNCHANGED <<options, armed, replayUp, pushUp, recording, eval>>
      /\ native'.recording = native.recording
      /\ "recorder" \in stale' <=> "recorder" \in stale
      /\ Unread => Unread'
    BY CallsSpareRecorder, StirsCases, HeadsSpareRecorder DEF nbVars, Unread
<1>2. InSetup' <=> InSetup
    BY <1>1 DEF InSetup
<1>3. CASE ~GateIsRead'
    BY <1>1, <1>3 DEF RecorderTold
<1>4. CASE /\ UNCHANGED <<flagsDue, started, current>> /\ (Unread' <=> Unread)
           /\ client'.linked = client.linked /\ client'.session = client.session
           /\ client'.activated = client.activated
  <2>1. /\ GateIsRead' <=> GateIsRead
        /\ GateIsOpen' <=> GateIsOpen
        /\ SessionIsKnown' <=> SessionIsKnown
      BY <1>1, <1>4, GateStays
  <2>. QED BY <1>1, <1>2, <1>4, <2>1 DEF RecorderTold
<1>5. CASE Expires
  <2>1. /\ client'.session = client.session + 1 /\ client'.linked = client.linked
        /\ client'.activated = client.activated
        /\ UNCHANGED <<started, flagsDue, current>> /\ (Unread' <=> Unread)
      BY <1>5 DEF Expires
  <2>2. GateIsRead' <=> GateIsRead
      BY <1>1, <2>1 DEF GateIsRead
  <2>3. CASE ~options.triggers
    <3>1. /\ GateIsOpen' <=> GateIsOpen
          /\ SessionIsKnown' <=> SessionIsKnown
        BY <1>1, <2>1, <2>3 DEF GateIsOpen, SessionIsKnown
    <3>. QED BY <1>1, <1>2, <2>2, <2>3, <3>1 DEF RecorderTold
  <2>4. CASE options.triggers
    <3>1. /\ client.session \in Nat /\ client.activated \in Nat /\ current \in Nat
          /\ eval.session \in Nat
        BY OneMore
    <3>2. /\ client.activated <= client.session /\ current <= client.session
          /\ InSetup => eval.session <= client.session
        BY DEF RecorderShape
    <3>3. ~GateIsOpen'
        BY <1>1, <2>1, <2>4, <3>1, <3>2 DEF GateIsOpen
    <3>4. SessionIsKnown' => ~NativeReady
      <4>1. current # client.session + 1
          BY <3>1, <3>2
      <4>. QED BY <1>1, <2>1, <2>4, <4>1 DEF SessionIsKnown, RecorderShape
    <3>5. ~NativeReady => ~recording /\ eval.at # "start"
        BY DEF ChainsInStep, NativeReady
    <3>6. InSetup => eval.session # client'.session
        BY <2>1, <3>1, <3>2
    <3>. QED BY <1>1, <1>2, <2>1, <2>2, <2>4, <3>3, <3>4, <3>5, <3>6 DEF RecorderTold
  <2>. QED BY <2>3, <2>4
<1>6. CASE /\ Quiet /\ started /\ current # 0 /\ current' = client.session /\ ~armed
  <2>1. client' = client /\ UNCHANGED <<started, flagsDue>> /\ (Unread' <=> Unread)
      BY <1>6 DEF Quiet
  <2>2. CASE options.triggers
    <3>1. ~GateIsRead'
        BY <1>6, <2>1, <2>2 DEF RecorderShape, GateIsRead
    <3>. QED BY <1>3, <3>1
  <2>3. CASE ~options.triggers
    <3>1. /\ GateIsRead' <=> GateIsRead
          /\ GateIsOpen' <=> GateIsOpen
        BY <1>1, <2>1, GateStays
    <3>2. SessionIsKnown' /\ SessionIsKnown
        BY <1>1, <2>3 DEF SessionIsKnown
    <3>. QED BY <1>1, <1>2, <2>1, <2>3, <3>1, <3>2 DEF RecorderTold
  <2>. QED BY <2>2, <2>3
<1>7. CASE Calls
  <2>1. CASE BridgeReset
    <3>1. ~GateIsRead'
        BY <1>1, <1>7, <2>1, CallsSpareRecorder DEF GateIsRead
    <3>. QED BY <1>3, <3>1
  <2>2. CASE ~BridgeReset
      BY <1>4, <1>7, <2>2, CallsSpareRecorder
  <2>. QED BY <2>1, <2>2
<1>8. CASE Heads
    BY <1>4, <1>8, HeadsSpareRecorder
<1>9. CASE UNCHANGED nbVars
  <2>1. UNCHANGED <<flagsDue, started, current, client>> /\ (Unread' <=> Unread)
      BY <1>9 DEF nbVars, Unread
  <2>. QED BY <1>4, <2>1
<1>10. CASE Stirs
  <2>1. CASE Unread'
      BY <1>3, <2>1 DEF GateIsRead
  <2>2. CASE Quiet /\ started /\ current' = current
    <3>1. UNCHANGED <<flagsDue, started, current, client>> /\ (Unread' <=> Unread)
        BY <2>2 DEF Quiet
    <3>. QED BY <1>4, <3>1
  <2>. QED BY <1>5, <1>6, <1>10, <2>1, <2>2, StirsCases
<1>. QED BY <1>7, <1>8, <1>9, <1>10

--------------------------------------------------------------------------------
(* The invariant, and what it implies.                                          *)

\* The invariant holds at launch.
LEMMA NbInit ==
    ASSUME BridgeInit
    PROVE  NbInv
<1>1. /\ 1 \in Identities /\ 0 \in NativeSessions /\ 1 \in NativeSessions
      /\ MaxIdentities \in Nat \ {0} /\ MaxStimuli \in Nat
      /\ 0 \in 0..MaxStimuli /\ 0 \in 0..MaxIdentities /\ 1 \in 0..MaxIdentities
    BY BridgeConstants, BridgeAssumption
<1>2. PICK optedOut, registered, linked \in BOOLEAN :
          /\ client = [user |-> 1, optedOut |-> optedOut, registered |-> registered,
                       linked |-> linked, session |-> 1, activated |-> 0]
          /\ native = [up |-> FALSE, user |-> 1, optedOut |-> FALSE,
                       token |-> IF registered THEN 1 ELSE 0, recording |-> FALSE]
          /\ wanted = registered
    BY DEF BridgeInit
<1>3. /\ client \in Clients /\ native \in Natives /\ Resting \in HeadTypes /\ NoJob \in JobTypes
    BY <1>1, <1>2, RestingTyped DEF Clients, Natives
<1>4. /\ commands = <<>> /\ evals = <<>> /\ command = Resting /\ eval = NoJob
      /\ stale = {} /\ stimuli = 0 /\ loggedOut = 1 /\ current = 0
      /\ options \in [replay : BOOLEAN, push : BOOLEAN, triggers : BOOLEAN]
      /\ options.triggers => options.replay
    BY DEF BridgeInit
<1>5. /\ ~started /\ ~armed /\ ~replayUp /\ ~pushUp /\ ~recording /\ ~flagsDue /\ ~skipped
      /\ started \in BOOLEAN /\ armed \in BOOLEAN /\ replayUp \in BOOLEAN
      /\ pushUp \in BOOLEAN /\ recording \in BOOLEAN /\ flagsDue \in BOOLEAN
      /\ skipped \in BOOLEAN
    BY Zenon DEF BridgeInit
<1>6. BridgeTypeOK
    BY <1>1, <1>2, <1>3, <1>4, <1>5
       DEF BridgeTypeOK, Clients, Natives, HeadTypes, JobTypes
<1>7. /\ DOMAIN commands = {} /\ DOMAIN evals = {} /\ Len(evals) = 0
    BY <1>4
<1>8. /\ command.at = "idle" /\ command.ahead = 0 /\ eval.at = "idle" /\ ~NativeReady
      /\ client.user = 1 /\ client.session = 1 /\ client.activated = 0
      /\ client.registered <=> native.token # 0
      /\ wanted <=> native.token # 0
      /\ native.token \in {0, 1} /\ ~native.up /\ ~native.recording
    BY <1>2, <1>4, <1>5 DEF Resting, NoJob, NativeReady
<1>9. ChainsInStep
    BY <1>4, <1>5, <1>7, <1>8 DEF ChainsInStep
<1>10. IdentityTold /\ ConsentTold
    BY <1>4, <1>8 DEF IdentityTold, ConsentTold, Told
<1>11. TokenTold
  <2>1. native.token \in {0} \cup Right({"reset"})
      BY <1>1, <1>4, <1>8 DEF Right
  <2>. QED BY <1>7, <1>8, <2>1 DEF TokenTold, WordsInOrder, Undispatched
<1>12. RecorderShape
    BY <1>4, <1>5, <1>8 DEF RecorderShape, InSetup
<1>13. RecorderTold
    BY <1>5, <1>8 DEF RecorderTold, GateIsRead
<1>. QED BY <1>6, <1>9, <1>10, <1>11, <1>12, <1>13 DEF NbInv

\* Every step keeps it.
LEMMA NbNext ==
    ASSUME NbInv, [BridgeNext]_nbVars
    PROVE  NbInv'
<1>1. /\ BridgeTypeOK /\ ChainsInStep /\ IdentityTold /\ ConsentTold /\ TokenTold
      /\ RecorderShape /\ RecorderTold
    BY DEF NbInv
<1>2. RecorderTold'
    BY <1>1, FourSorts, ToldOfRecorderByWorks, ToldOfRecorderByOthers
<1>. QED BY <1>1, <1>2, TypesNext, ChainsNext, IdentityNext, ConsentNext, TokenNext, ShapeNext
        DEF NbInv

\* What the invariant says of the chains at rest.
LEMMA NbFollows ==
    ASSUME NbInv
    PROVE  NativeFollowsClient
<1>1. /\ BridgeTypeOK /\ ChainsInStep /\ IdentityTold /\ ConsentTold /\ TokenTold
      /\ RecorderShape /\ RecorderTold
    BY DEF NbInv
<1>2. NoWaitIsVain
    BY <1>1 DEF ChainsInStep, NoWaitIsVain
<1>3. SUFFICES ASSUME ChainsAtRest
               PROVE  IdentityFollows /\ ConsentFollows /\ TokenFollows /\ RecorderFollows
    BY <1>2 DEF NativeFollowsClient
<1>4. /\ started /\ commands = <<>> /\ evals = <<>> /\ eval.at = "idle"
      /\ \A kinds : ~Pending(kinds)
    BY <1>1, <1>3, HeadOrLater DEF ChainsAtRest, ChainsInStep
<1>5. IdentityFollows
    BY <1>1, <1>4 DEF IdentityFollows, IdentityTold, Told, Right, Identifying
<1>6. ConsentFollows
    BY <1>1, <1>4 DEF ConsentFollows, ConsentTold
<1>7. TokenFollows
    BY <1>1, <1>4 DEF TokenFollows, TokenTold, Right
<1>8. RecorderFollows
  <2>1. SUFFICES ASSUME options.replay, ~flagsDue, "recorder" \notin stale, SessionIsKnown
                 PROVE  native.recording <=> GateIsOpen
    <3>1. native.recording \in BOOLEAN
        BY <1>1, BridgeFields
    <3>2. GateIsOpen \in BOOLEAN
        BY Zenon, <1>1, BridgeFields DEF GateIsOpen
    <3>3. \A a, b \in BOOLEAN : (a <=> b) => a = b
        OBVIOUS
    <3>4. (native.recording <=> GateIsOpen) => native.recording = GateIsOpen
        BY <3>1, <3>2, <3>3
    <3>. QED BY <3>4, Zenon DEF RecorderFollows, SessionIsKnown
  <2>2. ~Unread
    <3>1. DOMAIN evals = {}
        BY <1>4
    <3>. QED BY <3>1 DEF Unread
  <2>3. GateIsRead
      BY <1>4, <2>1, <2>2 DEF GateIsRead
  <2>. QED BY <1>1, <1>4, <2>1, <2>3 DEF RecorderTold, InSetup
<1>. QED BY <1>5, <1>6, <1>7, <1>8

\* The invariant, of every state.
LEMMA NbAlways == BridgeSpec => []NbInv
<1>1. BridgeInit => NbInv
    BY NbInit
<1>2. NbInv /\ [BridgeNext]_nbVars => NbInv'
    BY NbNext
<1>. QED BY <1>1, <1>2, PTL DEF BridgeSpec

\* Whatever calls, flags, events, sessions and losses do, the two chains stay within
\* their types.
THEOREM BridgeTypes == BridgeSpec => []BridgeTypeOK
<1>1. NbInv => BridgeTypeOK
    BY DEF NbInv
<1>. QED BY <1>1, NbAlways, PTL

\* Whenever both chains have run out, the native SDK has the client's identity and
\* consent, the token that the application wants, and a recorder that runs exactly
\* while its gate is open, unless the last call about it was lost
\* (posthog-rn.ts _enqueueNative, _evaluateAndStartSessionReplay).
THEOREM NativeFollowsAlways == BridgeSpec => []NativeFollowsClient
<1>1. NbInv => NativeFollowsClient
    BY NbFollows
<1>. QED BY <1>1, NbAlways, PTL

================================================================================
