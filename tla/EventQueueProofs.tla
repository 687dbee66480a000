---------------------------- MODULE EventQueueProofs ---------------------------
(* Proofs about EventQueue, for every value of its constants.                  *)
EXTENDS EventQueue, FiniteSetTheorems, WellFoundedInduction, TLAPS

-------------------------------------------------------------------------------
(* Facts about the helpers.                                                    *)

\* The oldest message of a queue that is not empty is one of its messages, and
\* none is older: what queue.shift() removes.
LEMMA SmallestIsLeast ==
    ASSUME NEW S, S \subseteq Nat, S # {}
    PROVE  Smallest(S) \in S /\ \A k \in S : Smallest(S) <= k
<1>1. PICK x \in S : \A y \in S : <<y, x>> \notin OpToRel(<, Nat)
    BY WFMin, NatLessThanWellFounded, Zenon
<1>2. \A y \in Nat : y \in S => ~(y < x)
    BY <1>1, Zenon DEF OpToRel
<1>3. \A y \in S : x <= y
    BY <1>2
<1>. QED BY <1>3 DEF Smallest

\* A batch is part of its queue.
LEMMA SliceIsSubset == \A q, n : Slice(q, n) \subseteq q
BY DEF Slice

\* A set of enqueue numbers is finite, so the length of a queue is a number.
LEMMA FiniteInterval ==
    ASSUME NEW n \in Nat, NEW S \in SUBSET (1..n)
    PROVE  IsFiniteSet(S) /\ Cardinality(S) \in Nat
<1>1. IsFiniteSet(1..n)
    BY FS_Interval
<1>2. IsFiniteSet(S)
    BY <1>1, FS_Subset
<1>. QED BY <1>2, FS_CardinalityType

-------------------------------------------------------------------------------
(* Types.                                                                      *)

\* Every message was captured, at most once: pending captures are not messages.
CapturesCounted == IsFiniteSet(preparing) /\ tickets + Cardinality(preparing) <= begun

\* A batch holds messages, and a flush that sends has a route.
BatchesTyped == \A f \in Flushes :
    /\ run[f].batch \subseteq 1..tickets
    /\ pc[f] \in {"sending", "storing"} => run[f].route \in Routes

TInv == TypeOK /\ CapturesCounted /\ BatchesTyped

\* The flush promises and the shutdown, and the messages, change separately.
FlushTypeOK ==
    /\ created \in 0..MaxFlushes
    /\ pending \in 0..created
    /\ last \in 0..created
    /\ pc \in [Flushes -> FlushPC]
    /\ prev \in [Flushes -> 0..MaxFlushes]
    /\ waits \in [Flushes -> SUBSET Captures]
    /\ covers \in [Flushes -> SUBSET Messages]

\* Assigning one local variable of a flush keeps the others.
LEMMA RunRecordExcept ==
    ASSUME NEW rec \in RunRecord
    PROVE  /\ \A b \in BOOLEAN : [rec EXCEPT !.thrown = b] \in RunRecord
           /\ \A n \in 0..RetryCount : [rec EXCEPT !.tries = n] \in RunRecord
           /\ \A B \in SUBSET Messages :
                [rec EXCEPT !.batch = B, !.tries = 0] \in RunRecord
<1>1. ASSUME NEW b \in BOOLEAN PROVE [rec EXCEPT !.thrown = b] \in RunRecord
    BY DEF RunRecord
<1>2. ASSUME NEW n \in 0..RetryCount PROVE [rec EXCEPT !.tries = n] \in RunRecord
    BY DEF RunRecord
<1>3. ASSUME NEW B \in SUBSET Messages
      PROVE  [rec EXCEPT !.batch = B, !.tries = 0] \in RunRecord
  <2>1. [rec EXCEPT !.batch = B] \in RunRecord
      BY DEF RunRecord
  <2>2. 0 \in 0..RetryCount
      BY ConstantsAssumption
  <2>3. [[rec EXCEPT !.batch = B] EXCEPT !.tries = 0] \in RunRecord
      BY <1>2, <2>1, <2>2 DEF RunRecord
  <2>. QED BY <2>3
<1>. QED BY <1>1, <1>2, <1>3

\* What is queued was pushed.
LEMMA QueuedAreMessages == TypeOK => Queued \subseteq 1..tickets /\ Queued \subseteq Messages
BY ConstantsAssumption DEF TypeOK, Queued, Messages, Captures

\* flushInternal numbers the new promise created + 1.
LEMMA NewFlushType ==
    ASSUME TypeOK, NEW covered \in [Flushes -> SUBSET Messages], NewFlush(covered)
    PROVE  FlushTypeOK'
<1>1. created + 1 \in Flushes /\ created' = created + 1
    BY ConstantsAssumption DEF TypeOK, NewFlush, Flushes
<1>2. preparing \subseteq Captures
    BY ConstantsAssumption DEF TypeOK, Captures
<1>3. pc' \in [Flushes -> FlushPC]
    BY <1>1 DEF TypeOK, NewFlush, FlushPC
<1>4. prev' \in [Flushes -> 0..MaxFlushes]
    BY <1>1, ConstantsAssumption DEF TypeOK, NewFlush
<1>5. waits' \in [Flushes -> SUBSET Captures]
    BY <1>1, <1>2 DEF TypeOK, NewFlush
<1>6. covers' \in [Flushes -> SUBSET Messages]
    BY <1>1, QueuedAreMessages DEF NewFlush
<1>7. created' \in 0..MaxFlushes /\ pending' \in 0..created' /\ last' \in 0..created'
    BY <1>1, ConstantsAssumption DEF TypeOK, NewFlush, Flushes
<1>. QED BY <1>3, <1>4, <1>5, <1>6, <1>7 DEF FlushTypeOK

\* flush() hands out the pending flush or a new one.
LEMMA FlushType == ASSUME TypeOK, Flush PROVE FlushTypeOK'
<1>1. CASE JoinFlush
    BY <1>1, QueuedAreMessages, ConstantsAssumption
       DEF TypeOK, FlushTypeOK, JoinFlush, Join, Flushes, flushVars
<1>2. CASE NewFlush(covers)
    BY <1>2, NewFlushType DEF TypeOK
<1>. QED BY <1>1, <1>2 DEF Flush

\* flushBackground keeps the pending flush or creates one.
LEMMA FlushBackgroundType ==
    ASSUME TypeOK, NEW covered \in [Flushes -> SUBSET Messages],
           FlushBackground(covered)
    PROVE  FlushTypeOK'
<1>1. CASE covers' = covered /\ UNCHANGED flushVars
    BY <1>1 DEF TypeOK, FlushTypeOK, flushVars
<1>2. CASE NewFlush(covered)
    BY <1>2, NewFlushType
<1>. QED BY <1>1, <1>2 DEF FlushBackground

MessageTypeOK ==
    /\ tickets \in 0..MaxCaptures
    /\ queue \in [Routes -> SUBSET (1..tickets)]
    /\ accepted \in [Routes -> SUBSET (1..tickets)]
    /\ acked \subseteq 1..tickets
    /\ refused \subseteq 1..tickets
    /\ overflowed \subseteq 1..tickets

RunTypeOK ==
    /\ run \in [Flushes -> RunRecord]
    /\ BatchesTyped

ShutdownTypeOK ==
    sd \in [pc : ShutdownPC, joined : SUBSET Flushes,
            joinedCaptures : SUBSET Captures, flush : 0..MaxFlushes,
            progress : BOOLEAN, caught : BOOLEAN, timedOut : BOOLEAN,
            owed : SUBSET Messages, awaited : SUBSET Captures]

OtherTypeOK ==
    /\ optedOut \in BOOLEAN
    /\ begun \in 0..MaxCaptures
    /\ preparing \subseteq 1..begun
    /\ maxBatch \in Nat \ {0}
    /\ timer \in {"none", "armed", "fired"}
    /\ calls \in 0..MaxFlushCalls
    /\ CapturesCounted

\* The parts of the type invariant.
LEMMA TypeParts ==
    FlushTypeOK' /\ MessageTypeOK' /\ RunTypeOK' /\ ShutdownTypeOK' /\ OtherTypeOK' => TInv'
BY DEF TInv, TypeOK, FlushTypeOK, MessageTypeOK, RunTypeOK, ShutdownTypeOK, OtherTypeOK

\* A message is pushed under the number of a capture not yet counted.
LEMMA PushType ==
    ASSUME TInv, NEW c \in Captures, NEW r \in Routes, Push(c, r),
           tickets < MaxCaptures
    PROVE  FlushTypeOK' /\ MessageTypeOK' /\ RunTypeOK' /\ ShutdownTypeOK'
<1>. DEFINE evicted == IF Cardinality(queue[r]) >= MaxQueueSize
                       THEN {Smallest(queue[r])} ELSE {}
            covered == [f \in Flushes |-> IF c \in waits[f] THEN covers[f] \cup {tickets + 1}
                                                            ELSE covers[f]]
<1>1. tickets' = tickets + 1 /\ tickets + 1 \in Messages
    BY ConstantsAssumption DEF Push, TInv, TypeOK, Messages
<1>2. queue[r] \subseteq 1..tickets
    BY DEF TInv, TypeOK
<1>3. evicted \subseteq queue[r]
  <2>1. CASE queue[r] = {}
      BY <2>1, FS_EmptySet, ConstantsAssumption
  <2>2. CASE queue[r] # {}
      BY <2>2, <1>2, SmallestIsLeast, ConstantsAssumption DEF TInv, TypeOK
  <2>. QED BY <2>1, <2>2
<1>4. MessageTypeOK'
  <2>1. queue' = [queue EXCEPT ![r] = (queue[r] \ evicted) \cup {tickets + 1}]
      BY DEF Push
  <2>2. overflowed' = overflowed \cup evicted
      BY DEF Push
  <2>3. UNCHANGED <<accepted, acked, refused>>
      BY DEF Push, serverVars
  <2>. HIDE DEF evicted
  <2>4. tickets' \in 0..MaxCaptures /\ 1..tickets \subseteq 1..tickets' /\ tickets' \in 1..tickets'
      BY <1>1, ConstantsAssumption DEF TInv, TypeOK, Messages
  <2>5. queue' \in [Routes -> SUBSET (1..tickets')]
      BY <1>1, <1>2, <2>1, <2>4 DEF TInv, TypeOK
  <2>. QED BY <1>2, <1>3, <2>2, <2>3, <2>4, <2>5 DEF MessageTypeOK, TInv, TypeOK
<1>5. covered \in [Flushes -> SUBSET Messages]
    BY <1>1 DEF TInv, TypeOK
<1>6. FlushTypeOK'
  <2>1. CASE FlushBackground(covered)
      BY <2>1, <1>5, FlushBackgroundType DEF TInv
  <2>2. CASE covers' = covered /\ UNCHANGED flushVars
      BY <2>2, <1>5 DEF TInv, TypeOK, FlushTypeOK, flushVars
  <2>. QED BY <2>1, <2>2 DEF Push
<1>7. ShutdownTypeOK'
    BY <1>1 DEF Push, TInv, TypeOK, ShutdownTypeOK
<1>8. RunTypeOK'
  <2>1. run' = run
      BY DEF Push
  <2>2. \A f \in Flushes : pc'[f] \in {"sending", "storing"} => pc'[f] = pc[f]
    <3>1. CASE UNCHANGED flushVars
        BY <3>1 DEF flushVars
    <3>2. CASE \E cov : NewFlush(cov)
        BY <3>2 DEF NewFlush, TInv, TypeOK
    <3>. QED BY <3>1, <3>2 DEF Push, FlushBackground
  <2>3. \A f \in Flushes : run[f].batch \subseteq 1..tickets'
      BY <1>1, ConstantsAssumption DEF TInv, TypeOK, BatchesTyped
  <2>. QED BY <2>1, <2>2, <2>3 DEF TInv, TypeOK, RunTypeOK, BatchesTyped
<1>. QED BY <1>4, <1>6, <1>7, <1>8

\* A flush goes on with a route that has messages, or settles.
LEMMA ProceedType ==
    ASSUME TInv, NEW f \in Flushes, NEW k \in Nat \ {0}, NEW failed \in BOOLEAN,
           Proceed(f, k, failed), UNCHANGED <<created, pending, tickets>>
    PROVE  FlushTypeOK' /\ RunTypeOK'
<1>. DEFINE rest == {r \in k..NRoutes : queue[r] # {}}
            r == Smallest(rest)
<1>1. CASE rest # {}
  <2>1. r \in Routes /\ queue[r] \subseteq 1..tickets
    <3>1. rest \subseteq Nat /\ rest \subseteq Routes
        BY ConstantsAssumption DEF Routes
    <3>2. r \in rest
        BY <1>1, <3>1, SmallestIsLeast
    <3>. HIDE DEF r, rest
    <3>. QED BY <3>1, <3>2 DEF TInv, TypeOK
  <2>2. /\ pc' = [pc EXCEPT ![f] = "sending"]
        /\ run' = [run EXCEPT ![f] = NextBatch(r, Cardinality(queue[r]), failed)]
        /\ UNCHANGED <<last, prev, waits, covers>>
      BY <1>1 DEF Proceed
  <2>3. Slice(queue[r], maxBatch) \subseteq 1..tickets
      BY <2>1, SliceIsSubset
  <2>4. Cardinality(queue[r]) \in Int
    <3>1. tickets \in Nat
        BY ConstantsAssumption DEF TInv, TypeOK
    <3>2. Cardinality(queue[r]) \in Nat
        BY <2>1, <3>1, FiniteInterval
    <3>. QED BY <3>2
  <2>. HIDE DEF r
  <2>5. FlushTypeOK'
      BY <2>2 DEF TInv, TypeOK, FlushTypeOK, FlushPC, Running
  <2>6. RunTypeOK'
    <3>1. Slice(queue[r], maxBatch) \subseteq Messages
        BY <2>3, ConstantsAssumption DEF TInv, TypeOK, Messages
    <3>2. r \in 0..NRoutes
        BY <2>1 DEF Routes
    <3>. DEFINE run2 == NextBatch(r, Cardinality(queue[r]), failed)
    <3>3. run' = [run EXCEPT ![f] = run2]
        BY <2>2
    <3>4. run2 \in RunRecord
        BY <3>1, <3>2, <2>4, ConstantsAssumption DEF RunRecord, NextBatch
    <3>5. run2.batch \subseteq 1..tickets /\ run2.route \in Routes
        BY <2>1, <2>3 DEF NextBatch
    <3>. HIDE DEF run2
    <3>. QED BY <3>3, <3>4, <3>5, <2>2 DEF TInv, TypeOK, RunTypeOK, BatchesTyped
  <2>. QED BY <2>5, <2>6
<1>2. CASE rest = {}
  <2>1. /\ pc' = [pc EXCEPT ![f] = IF failed THEN "rejected" ELSE "resolved"]
        /\ run' = [run EXCEPT ![f] = IdleRun]
        /\ last' = IF last = f THEN 0 ELSE last
        /\ prev' = [prev EXCEPT ![f] = 0]
        /\ waits' = [waits EXCEPT ![f] = {}]
        /\ covers' = [covers EXCEPT ![f] = {}]
      BY <1>2 DEF Proceed
  <2>2. FlushTypeOK'
      BY <2>1, ConstantsAssumption DEF TInv, TypeOK, FlushTypeOK, FlushPC, Settled
  <2>3. IdleRun \in RunRecord /\ IdleRun.batch = {}
      BY ConstantsAssumption DEF RunRecord, IdleRun
  <2>4. RunTypeOK'
      BY <2>1, <2>3 DEF TInv, TypeOK, RunTypeOK, BatchesTyped
  <2>. QED BY <2>2, <2>4
<1>. QED BY <1>1, <1>2

\* persistQueueChange only takes messages out of a queue.
LEMMA PersistType ==
    ASSUME TInv, NEW f \in Flushes, pc[f] = "sending", NEW thrown \in BOOLEAN,
           PersistQueueChange(f, thrown), UNCHANGED <<created, pending, tickets>>
    PROVE  /\ FlushTypeOK' /\ RunTypeOK' /\ ShutdownTypeOK'
           /\ queue' \in [Routes -> SUBSET (1..tickets)]
<1>1. /\ queue' = [queue EXCEPT ![run[f].route] = @ \ run[f].batch]
      /\ sd' = [sd EXCEPT !.progress = (sd.pc = "flushing")]
      /\ pc' = [pc EXCEPT ![f] = "storing"]
      /\ run' = [run EXCEPT ![f].thrown = thrown]
      /\ UNCHANGED <<last, prev, waits, covers>>
    BY DEF PersistQueueChange, RemoveFromQueue
<1>2. queue' \in [Routes -> SUBSET (1..tickets)]
    BY <1>1 DEF TInv, TypeOK
<1>3. FlushTypeOK'
    BY <1>1 DEF TInv, TypeOK, FlushTypeOK, FlushPC, Running
<1>4. ShutdownTypeOK'
    BY <1>1 DEF TInv, TypeOK, ShutdownTypeOK
<1>5. RunTypeOK'
  <2>1. run' \in [Flushes -> RunRecord]
    <3>1. [run[f] EXCEPT !.thrown = thrown] \in RunRecord
        BY RunRecordExcept, ConstantsAssumption DEF TInv, TypeOK
    <3>2. run' = [run EXCEPT ![f] = [run[f] EXCEPT !.thrown = thrown]]
        BY <1>1
    <3>. QED BY <3>1, <3>2 DEF TInv, TypeOK
  <2>2. \A g \in Flushes : run'[g].batch = run[g].batch /\ run'[g].route = run[g].route
      BY <1>1 DEF TInv, TypeOK
  <2>3. \A g \in Flushes : pc'[g] \in {"sending", "storing"}
                                => pc[g] \in {"sending", "storing"}
      BY <1>1 DEF TInv, TypeOK
  <2>. QED BY <2>1, <2>2, <2>3 DEF TInv, RunTypeOK, BatchesTyped
<1>. QED BY <1>2, <1>3, <1>4, <1>5

\* The constructor leaves every variable in its type.
LEMMA TypeInit == Init => TInv
<1>. SUFFICES ASSUME Init PROVE TInv
    OBVIOUS
<1>1. TypeOK
  <2>1. IdleRun \in RunRecord
      BY ConstantsAssumption DEF RunRecord, IdleRun
  <2>2. IdleShutdown \in [pc : ShutdownPC, joined : SUBSET Flushes,
               joinedCaptures : SUBSET Captures, flush : 0..MaxFlushes,
               progress : BOOLEAN, caught : BOOLEAN, timedOut : BOOLEAN,
               owed : SUBSET Messages, awaited : SUBSET Captures]
      BY ConstantsAssumption DEF IdleShutdown, ShutdownPC
  <2>3. InitialBatchSize \in Nat \ {0} /\ MaxCaptures \in Nat /\ MaxFlushCalls \in Nat
        /\ MaxFlushes \in Nat
      BY ConstantsAssumption
  <2>4. run \in [Flushes -> RunRecord]
      BY <2>1 DEF Init
  <2>5. pc \in [Flushes -> FlushPC] /\ sd = IdleShutdown
      BY DEF Init, FlushPC
  <2>6. /\ prev \in [Flushes -> 0..MaxFlushes]
        /\ waits \in [Flushes -> SUBSET Captures]
        /\ covers \in [Flushes -> SUBSET Messages]
      BY <2>3 DEF Init
  <2>7. /\ queue \in [Routes -> SUBSET (1..tickets)]
        /\ accepted \in [Routes -> SUBSET (1..tickets)]
        /\ acked = {} /\ refused = {} /\ overflowed = {}
      BY DEF Init
  <2>8. /\ optedOut \in BOOLEAN /\ begun = 0 /\ preparing = {} /\ tickets = 0
        /\ calls = 0 /\ created = 0 /\ pending = 0 /\ last = 0 /\ timer = "none"
        /\ maxBatch \in Nat \ {0}
      BY <2>3, ConstantsAssumption DEF Init
  <2>. QED BY <2>2, <2>3, <2>4, <2>5, <2>6, <2>7, <2>8 DEF TypeOK
<1>2. CapturesCounted
    BY FS_EmptySet DEF Init, CapturesCounted
<1>3. BatchesTyped
    BY DEF Init, BatchesTyped, IdleRun
<1>. QED BY <1>1, <1>2, <1>3 DEF TInv

\* The application's calls keep the types.
LEMMA ApplicationType == ASSUME TInv, Application PROVE TInv'
<1>1. ASSUME NEW r \in Routes, Capture(r) PROVE TInv'
  <2>1. begun + 1 \in Captures /\ tickets < MaxCaptures
      BY <1>1, FS_CardinalityType, ConstantsAssumption
         DEF Capture, TInv, TypeOK, CapturesCounted, Captures
  <2>2. Push(begun + 1, r)
      BY <1>1 DEF Capture
  <2>3. OtherTypeOK'
    <3>1. CapturesCounted'
      <4>1. tickets' = tickets + 1
          BY <2>2 DEF Push
      <4>2. Cardinality(preparing) \in Nat
          BY FS_CardinalityType DEF TInv, CapturesCounted
      <4>. QED BY <1>1, <4>1, <4>2, ConstantsAssumption
               DEF Capture, TInv, TypeOK, CapturesCounted
    <3>2. timer' \in {"none", "armed", "fired"} /\ UNCHANGED <<optedOut, calls, maxBatch>>
        BY <2>2 DEF Push, TInv, TypeOK
    <3>3. begun' \in 0..MaxCaptures /\ preparing' \subseteq 1..begun'
        BY <1>1, ConstantsAssumption DEF Capture, TInv, TypeOK
    <3>. QED BY <3>1, <3>2, <3>3 DEF TInv, TypeOK, OtherTypeOK
  <2>. QED BY <2>1, <2>2, <2>3, PushType, TypeParts
<1>2. CASE BeginCapture
  <2>1. OtherTypeOK'
    <3>1. begun + 1 \notin preparing
        BY ConstantsAssumption DEF TInv, TypeOK
    <3>2. /\ IsFiniteSet(preparing \cup {begun + 1})
          /\ Cardinality(preparing \cup {begun + 1}) = Cardinality(preparing) + 1
          /\ Cardinality(preparing) \in Nat
        BY <3>1, FS_AddElement, FS_CardinalityType DEF TInv, CapturesCounted
    <3>3. begun' = begun + 1 /\ preparing' = preparing \cup {begun + 1} /\ tickets' = tickets
        BY <1>2 DEF BeginCapture, queueVars
    <3>4. CapturesCounted'
        BY <3>2, <3>3, ConstantsAssumption DEF TInv, TypeOK, CapturesCounted
    <3>. QED BY <1>2, <3>4, ConstantsAssumption
             DEF BeginCapture, TInv, TypeOK, OtherTypeOK
  <2>2. FlushTypeOK' /\ MessageTypeOK' /\ RunTypeOK' /\ ShutdownTypeOK'
      BY <1>2 DEF BeginCapture, TInv, TypeOK, BatchesTyped, FlushTypeOK, MessageTypeOK,
                  RunTypeOK, ShutdownTypeOK, queueVars, serverVars, flushVars
  <2>. QED BY <2>1, <2>2, TypeParts
<1>3. ASSUME NEW value \in BOOLEAN, SetOptedOut(value) PROVE TInv'
    BY <1>3 DEF SetOptedOut, TInv, TypeOK, CapturesCounted, BatchesTyped,
                queueVars, serverVars, flushVars
<1>4. CASE CallFlush
  <2>1. FlushTypeOK'
      BY <1>4, FlushType DEF CallFlush, TInv
  <2>2. OtherTypeOK' /\ MessageTypeOK' /\ ShutdownTypeOK'
      BY <1>4, ConstantsAssumption
         DEF CallFlush, TInv, TypeOK, CapturesCounted, OtherTypeOK, MessageTypeOK,
             ShutdownTypeOK, queueVars, serverVars
  <2>3. \A f \in Flushes : pc'[f] \in {"sending", "storing"} => pc'[f] = pc[f]
      BY <1>4 DEF CallFlush, Flush, JoinFlush, Join, NewFlush, flushVars, TInv, TypeOK
  <2>4. RunTypeOK'
      BY <1>4, <2>3 DEF CallFlush, TInv, TypeOK, BatchesTyped, RunTypeOK, queueVars
  <2>. QED BY <2>1, <2>2, <2>4, TypeParts
<1>5. CASE BeginShutdown
  <2>1. Unsettled \subseteq Flushes /\ preparing \subseteq Captures
      BY ConstantsAssumption DEF Unsettled, TInv, TypeOK, Captures
  <2>2. ShutdownTypeOK'
      BY <1>5, <2>1, QueuedAreMessages
         DEF BeginShutdown, TInv, TypeOK, ShutdownTypeOK, ShutdownPC
  <2>3. FlushTypeOK' /\ MessageTypeOK' /\ RunTypeOK' /\ OtherTypeOK'
      BY <1>5 DEF BeginShutdown, others, TInv, TypeOK, CapturesCounted, BatchesTyped,
                  FlushTypeOK, MessageTypeOK, RunTypeOK, OtherTypeOK,
                  queueVars, serverVars, flushVars
  <2>. QED BY <2>2, <2>3, TypeParts
<1>. QED BY <1>1, <1>2, <1>3, <1>4, <1>5 DEF Application

\* A pending capture ends, with or without a message.
LEMMA CaptureSettlesType == ASSUME TInv, CaptureSettles PROVE TInv'
<1>. SUFFICES ASSUME NEW c \in Captures,
                     DiscardCapture(c) \/ \E r \in Routes : FinishCapture(c, r)
              PROVE  TInv'
    BY DEF CaptureSettles
<1>1. c \in preparing /\ preparing' = preparing \ {c} /\ begun' = begun
    BY DEF DiscardCapture, FinishCapture
<1>2. /\ IsFiniteSet(preparing')
      /\ Cardinality(preparing') = Cardinality(preparing) - 1
      /\ Cardinality(preparing) \in Nat /\ Cardinality(preparing') \in Nat
    BY <1>1, FS_RemoveElement, FS_CardinalityType DEF TInv, CapturesCounted
<1>3. ASSUME DiscardCapture(c) PROVE TInv'
  <2>1. CapturesCounted'
      BY <1>1, <1>2, <1>3 DEF DiscardCapture, TInv, TypeOK, CapturesCounted, queueVars
  <2>. QED BY <1>1, <1>3, <2>1 DEF DiscardCapture, TInv, TypeOK, BatchesTyped,
                                   queueVars, serverVars, flushVars
<1>4. ASSUME NEW r \in Routes, FinishCapture(c, r) PROVE TInv'
  <2>1. Push(c, r) /\ tickets' = tickets + 1
      BY <1>4 DEF FinishCapture, Push
  <2>2. CapturesCounted' /\ tickets < MaxCaptures
      BY <1>1, <1>2, <2>1, ConstantsAssumption DEF TInv, TypeOK, CapturesCounted
  <2>3. timer' \in {"none", "armed", "fired"} /\ UNCHANGED <<optedOut, calls, maxBatch>>
      BY <2>1 DEF Push, TInv, TypeOK
  <2>4. OtherTypeOK'
      BY <1>1, <2>2, <2>3 DEF TInv, TypeOK, OtherTypeOK
  <2>. QED BY <2>1, <2>2, <2>4, PushType, TypeParts
<1>. QED BY <1>3, <1>4

\* The timer only adds a flush.
LEMMA TimerFiresType == ASSUME TInv, TimerFires PROVE TInv'
<1>1. FlushTypeOK'
    BY FlushBackgroundType DEF TimerFires, TInv, TypeOK
<1>2. \A f \in Flushes : pc'[f] \in {"sending", "storing"} => pc'[f] = pc[f]
    BY DEF TimerFires, FlushBackground, NewFlush, flushVars, TInv, TypeOK
<1>3. RunTypeOK'
    BY <1>2 DEF TimerFires, TInv, TypeOK, BatchesTyped, RunTypeOK, queueVars
<1>4. MessageTypeOK' /\ ShutdownTypeOK' /\ OtherTypeOK'
    BY DEF TimerFires, TInv, TypeOK, CapturesCounted, MessageTypeOK,
           ShutdownTypeOK, OtherTypeOK, queueVars, serverVars
<1>. QED BY <1>1, <1>3, <1>4, TypeParts

\* A retry changes nothing but its count.
LEMMA RetryType ==
    ASSUME TInv, NEW f \in Flushes, RetryBatch(f), UNCHANGED <<created, pending, tickets>>
    PROVE  FlushTypeOK' /\ RunTypeOK'
<1>1. run' = [run EXCEPT ![f] = [run[f] EXCEPT !.tries = run[f].tries + 1]]
    BY DEF RetryBatch
<1>2. [run[f] EXCEPT !.tries = run[f].tries + 1] \in
          RunRecord
  <2>1. run[f] \in RunRecord
      BY DEF TInv, TypeOK
  <2>2. run[f].tries + 1 \in 0..RetryCount
      BY <2>1, ConstantsAssumption DEF RetryBatch, RunRecord
  <2>. QED BY <2>1, <2>2, RunRecordExcept
<1>3. \A g \in Flushes : run'[g].batch = run[g].batch /\ run'[g].route = run[g].route
    BY <1>1 DEF TInv, TypeOK
<1>4. FlushTypeOK'
    BY DEF RetryBatch, TInv, TypeOK, FlushTypeOK
<1>5. RunTypeOK'
  <2>1. run' \in [Flushes -> RunRecord]
      BY <1>1, <1>2 DEF TInv, TypeOK
  <2>2. BatchesTyped'
      BY <1>3 DEF RetryBatch, TInv, BatchesTyped
  <2>. QED BY <2>1, <2>2 DEF RunTypeOK
<1>. QED BY <1>4, <1>5

\* Half of a batch of two messages or more is at least one.
LEMMA TooLargeType == ASSUME TInv, NEW f \in Flushes, BatchTooLarge(f) PROVE TInv'
<1>. DEFINE batch2 == Slice(queue[run[f].route], Half(f))
<1>1. run[f].route \in Routes /\ run[f].batch \subseteq 1..tickets /\ tickets \in Nat
    BY ConstantsAssumption DEF BatchTooLarge, Shrink, TInv, TypeOK, BatchesTyped
<1>2. Cardinality(run[f].batch) \in Nat /\ Cardinality(run[f].batch) > 1
    BY <1>1, FiniteInterval DEF BatchTooLarge
<1>3. Half(f) \in Nat \ {0}
    BY <1>2 DEF Half
<1>4. batch2 \subseteq 1..tickets /\ batch2 \subseteq Messages
  <2>1. queue[run[f].route] \subseteq 1..tickets
      BY <1>1 DEF TInv, TypeOK
  <2>2. 1..tickets \subseteq Messages
      BY ConstantsAssumption DEF TInv, TypeOK, Messages
  <2>. QED BY <2>1, <2>2, SliceIsSubset
<1>5. run' = [run EXCEPT ![f] = [run[f] EXCEPT !.batch = batch2, !.tries = 0]]
    BY DEF BatchTooLarge, Shrink
<1>. HIDE DEF batch2
<1>6. [run[f] EXCEPT !.batch = batch2, !.tries = 0] \in
          RunRecord
    BY <1>4, RunRecordExcept, ConstantsAssumption DEF TInv, TypeOK
<1>7. \A g \in Flushes : /\ run'[g].batch \subseteq 1..tickets
                         /\ run'[g].route = run[g].route
    BY <1>4, <1>5 DEF TInv, TypeOK, BatchesTyped
<1>8. RunTypeOK'
  <2>1. run' \in [Flushes -> RunRecord]
      BY <1>5, <1>6 DEF TInv, TypeOK
  <2>2. BatchesTyped'
      BY <1>7 DEF BatchTooLarge, Shrink, queueVars, flushVars, TInv, BatchesTyped
  <2>. QED BY <2>1, <2>2 DEF RunTypeOK
<1>9. FlushTypeOK' /\ MessageTypeOK' /\ ShutdownTypeOK' /\ OtherTypeOK'
    BY <1>3 DEF BatchTooLarge, Shrink, queueVars, serverVars, flushVars,
                TInv, TypeOK, CapturesCounted,
                FlushTypeOK, MessageTypeOK, ShutdownTypeOK, OtherTypeOK
<1>. QED BY <1>8, <1>9, TypeParts

\* The next batch of the route, or the next route.
LEMMA StorageFlushedType == ASSUME TInv, NEW f \in Flushes, StorageFlushed(f) PROVE TInv'
<1>. DEFINE r == run[f].route
            left2 == run[f].left - Cardinality(run[f].batch)
<1>1. r \in Routes /\ run[f].batch \subseteq 1..tickets /\ tickets \in Nat
    BY ConstantsAssumption DEF StorageFlushed, TInv, TypeOK, BatchesTyped
<1>2. left2 \in Int
  <2>1. Cardinality(run[f].batch) \in Nat
      BY <1>1, FiniteInterval
  <2>. QED BY <2>1 DEF RunRecord, TInv, TypeOK
<1>3. MessageTypeOK' /\ ShutdownTypeOK' /\ OtherTypeOK'
    BY DEF StorageFlushed, TInv, TypeOK, CapturesCounted, MessageTypeOK,
           ShutdownTypeOK, OtherTypeOK, queueVars, serverVars
<1>4. CASE Proceed(f, r + 1, run[f].failed \/ run[f].thrown)
  <2>1. r + 1 \in Nat \ {0} /\ (run[f].failed \/ run[f].thrown) \in BOOLEAN
      BY <1>1, ConstantsAssumption DEF Routes
  <2>2. UNCHANGED <<created, pending, tickets>>
      BY DEF StorageFlushed, queueVars
  <2>. QED BY <1>3, <1>4, <2>1, <2>2, ProceedType, TypeParts
<1>5. CASE /\ pc' = [pc EXCEPT ![f] = "sending"]
           /\ run' = [run EXCEPT ![f] = NextBatch(r, left2, run[f].failed)]
           /\ UNCHANGED <<last, prev, waits, covers>>
  <2>. DEFINE run2 == NextBatch(r, left2, run[f].failed)
  <2>1. Slice(queue[r], maxBatch) \subseteq 1..tickets
      BY <1>1, SliceIsSubset DEF TInv, TypeOK
  <2>2. 1..tickets \subseteq Messages
      BY ConstantsAssumption DEF TInv, TypeOK, Messages
  <2>3. run2 \in RunRecord
      BY <1>1, <1>2, <2>1, <2>2, ConstantsAssumption DEF RunRecord, NextBatch, TInv, TypeOK, Routes
  <2>4. run2.batch \subseteq 1..tickets /\ run2.route \in Routes
      BY <1>1, <2>1 DEF NextBatch
  <2>. HIDE DEF run2
  <2>5. RunTypeOK'
    <3>1. run' = [run EXCEPT ![f] = run2]
        BY <1>5 DEF run2
    <3>. QED BY <3>1, <2>3, <2>4, <1>5
             DEF StorageFlushed, queueVars, TInv, TypeOK, RunTypeOK, BatchesTyped
  <2>6. FlushTypeOK'
      BY <1>5 DEF StorageFlushed, TInv, TypeOK, FlushTypeOK, FlushPC, Running
  <2>. QED BY <1>3, <2>5, <2>6, TypeParts
<1>. QED BY <1>4, <1>5 DEF StorageFlushed

\* The steps of a flush.
LEMMA FlushStepType == ASSUME TInv, NEW f \in Flushes, FlushStep(f) PROVE TInv'
<1>1. CASE StartFlush(f)
  <2>1. Start(f, "none")
      BY <1>1 DEF StartFlush
  <2>2. FlushTypeOK'
      BY <2>1, ConstantsAssumption DEF Start, TInv, TypeOK, FlushTypeOK, FlushPC, Running
  <2>3. RunTypeOK'
      BY <2>1 DEF Start, TInv, TypeOK, BatchesTyped, RunTypeOK, queueVars
  <2>4. MessageTypeOK' /\ ShutdownTypeOK' /\ OtherTypeOK'
      BY <2>1 DEF Start, TInv, TypeOK, CapturesCounted, MessageTypeOK,
                  ShutdownTypeOK, OtherTypeOK, queueVars, serverVars
  <2>. QED BY <2>2, <2>3, <2>4, TypeParts
<1>2. CASE BeginFlush(f)
  <2>1. FlushTypeOK' /\ RunTypeOK'
    <3>1. Proceed(f, 1, FALSE) /\ UNCHANGED <<created, pending, tickets>>
        BY <1>2 DEF BeginFlush, queueVars
    <3>2. 1 \in Nat \ {0} /\ FALSE \in BOOLEAN
        OBVIOUS
    <3>. QED BY <3>1, <3>2, ProceedType
  <2>2. MessageTypeOK' /\ ShutdownTypeOK' /\ OtherTypeOK'
      BY <1>2 DEF BeginFlush, TInv, TypeOK, CapturesCounted, MessageTypeOK,
                  ShutdownTypeOK, OtherTypeOK, queueVars, serverVars
  <2>. QED BY <2>1, <2>2, TypeParts
<1>3. CASE BatchAccepted(f)
  <2>1. /\ FlushTypeOK' /\ RunTypeOK' /\ ShutdownTypeOK'
        /\ queue' \in [Routes -> SUBSET (1..tickets)]
      BY <1>3, PersistType DEF BatchAccepted
  <2>2. run[f].batch \subseteq 1..tickets
      BY DEF TInv, BatchesTyped
  <2>3. MessageTypeOK'
      BY <1>3, <2>1, <2>2 DEF BatchAccepted, ServerTakes, TInv, TypeOK, MessageTypeOK
  <2>4. OtherTypeOK'
      BY <1>3 DEF BatchAccepted, TInv, TypeOK, CapturesCounted, OtherTypeOK
  <2>. QED BY <2>1, <2>3, <2>4, TypeParts
<1>4. CASE BatchLost(f)
  <2>1. run[f].batch \subseteq 1..tickets /\ run[f].route + 1 \in Nat \ {0}
        /\ run[f].route \in Routes
      BY <1>4, ConstantsAssumption DEF BatchLost, TInv, TypeOK, BatchesTyped, Routes
  <2>2. MessageTypeOK'
    <3>1. UNCHANGED <<tickets, queue, acked, refused, overflowed>>
        BY <1>4 DEF BatchLost, RetryBatch
    <3>2. accepted' \in [Routes -> SUBSET (1..tickets)]
        BY <1>4, <2>1 DEF BatchLost, ServerTakes, TInv, TypeOK
    <3>. QED BY <3>1, <3>2 DEF TInv, TypeOK, MessageTypeOK
  <2>3. OtherTypeOK' /\ ShutdownTypeOK'
      BY <1>4 DEF BatchLost, RetryBatch, TInv, TypeOK, CapturesCounted, OtherTypeOK,
                  ShutdownTypeOK
  <2>4. FlushTypeOK' /\ RunTypeOK'
    <3>1. CASE RetryBatch(f)
        BY <1>4, <3>1, RetryType DEF BatchLost
    <3>2. CASE Proceed(f, run[f].route + 1, TRUE)
        BY <1>4, <3>2, <2>1, ProceedType DEF BatchLost
    <3>. QED BY <1>4, <3>1, <3>2 DEF BatchLost
  <2>. QED BY <2>2, <2>3, <2>4, TypeParts
<1>5. CASE BatchRefused(f)
  <2>1. run[f].batch \subseteq 1..tickets
      BY DEF TInv, BatchesTyped
  <2>2. OtherTypeOK'
      BY <1>5 DEF BatchRefused, TInv, TypeOK, CapturesCounted, OtherTypeOK
  <2>3. CASE RetryBatch(f) /\ UNCHANGED refused
    <3>1. FlushTypeOK' /\ RunTypeOK'
        BY <1>5, <2>3, RetryType DEF BatchRefused
    <3>2. MessageTypeOK' /\ ShutdownTypeOK'
        BY <1>5, <2>3 DEF BatchRefused, RetryBatch, TInv, TypeOK, MessageTypeOK,
                          ShutdownTypeOK
    <3>. QED BY <2>2, <3>1, <3>2, TypeParts
  <2>4. CASE DropBatch(f)
    <3>1. /\ FlushTypeOK' /\ RunTypeOK' /\ ShutdownTypeOK'
          /\ queue' \in [Routes -> SUBSET (1..tickets)]
        BY <1>5, <2>4, PersistType DEF BatchRefused, DropBatch
    <3>2. MessageTypeOK'
        BY <1>5, <2>1, <2>4, <3>1 DEF BatchRefused, DropBatch, TInv, TypeOK, MessageTypeOK
    <3>. QED BY <2>2, <3>1, <3>2, TypeParts
  <2>. QED BY <1>5, <2>3, <2>4 DEF BatchRefused
<1>6. CASE BatchTooLarge(f)
    BY <1>6, TooLargeType
<1>7. CASE StorageFlushed(f)
    BY <1>7, StorageFlushedType
<1>. QED BY <1>1, <1>2, <1>3, <1>4, <1>5, <1>6, <1>7 DEF FlushStep, Answer

\* The steps of shutdown change the flushes only through flush().
LEMMA ShutdownType == ASSUME TInv, ShutdownStep \/ ShutdownTimesOut PROVE TInv'
<1>1. ASSUME UNCHANGED <<others, timer, covers, flushVars>>, ShutdownTypeOK'
      PROVE  TInv'
  <2>1. FlushTypeOK' /\ MessageTypeOK' /\ RunTypeOK' /\ OtherTypeOK'
      BY <1>1 DEF others, TInv, TypeOK, CapturesCounted, BatchesTyped,
                  FlushTypeOK, MessageTypeOK, RunTypeOK, OtherTypeOK,
                  queueVars, serverVars, flushVars
  <2>. QED BY <1>1, <2>1, TypeParts
<1>2. CASE JoinRejected
  <2>1. ShutdownTypeOK'
      BY <1>2 DEF JoinRejected, TInv, TypeOK, ShutdownTypeOK, ShutdownPC
  <2>. QED BY <1>1, <1>2, <2>1 DEF JoinRejected
<1>3. CASE JoinResolved
  <2>1. Unsettled \subseteq Flushes /\ preparing \subseteq Captures
      BY ConstantsAssumption DEF Unsettled, TInv, TypeOK, Captures
  <2>2. ShutdownTypeOK'
      BY <1>3, <2>1 DEF JoinResolved, JoinAgain, TInv, TypeOK, ShutdownTypeOK, ShutdownPC
  <2>. QED BY <1>1, <1>3, <2>2 DEF JoinResolved, JoinAgain
<1>4. CASE DrainFlush
  <2>1. FlushTypeOK'
      BY <1>4, FlushType DEF DrainFlush, TInv
  <2>2. pending' \in 0..MaxFlushes
      BY <2>1, ConstantsAssumption DEF FlushTypeOK
  <2>3. ShutdownTypeOK'
      BY <1>4, <2>2 DEF DrainFlush, TInv, TypeOK, ShutdownTypeOK, ShutdownPC
  <2>4. MessageTypeOK' /\ OtherTypeOK'
      BY <1>4 DEF DrainFlush, others, TInv, TypeOK, CapturesCounted, MessageTypeOK,
                  OtherTypeOK, queueVars, serverVars
  <2>5. \A f \in Flushes : pc'[f] \in {"sending", "storing"} => pc'[f] = pc[f]
      BY <1>4 DEF DrainFlush, Flush, JoinFlush, Join, NewFlush, flushVars, TInv, TypeOK
  <2>6. RunTypeOK'
      BY <1>4, <2>5 DEF DrainFlush, others, TInv, TypeOK, BatchesTyped, RunTypeOK, queueVars
  <2>. QED BY <2>1, <2>3, <2>4, <2>6, TypeParts
<1>5. CASE DrainFinished
  <2>1. ShutdownTypeOK'
      BY <1>5 DEF DrainFinished, TInv, TypeOK, ShutdownTypeOK, ShutdownPC
  <2>. QED BY <1>1, <1>5, <2>1 DEF DrainFinished
<1>6. CASE DrainFlushed
  <2>1. ShutdownTypeOK'
    <3>1. PICK p \in {"draining", "done"}, c \in BOOLEAN :
            sd' = [sd EXCEPT !.pc = p, !.caught = c, !.flush = 0, !.progress = FALSE]
      <4>1. (pc[sd.flush] = "rejected") \in BOOLEAN
          OBVIOUS
      <4>. QED BY <1>6, <4>1 DEF DrainFlushed
    <3>2. 0 \in 0..MaxFlushes /\ p \in ShutdownPC
        BY ConstantsAssumption DEF ShutdownPC
    <3>. QED BY <3>1, <3>2 DEF TInv, TypeOK, ShutdownTypeOK
  <2>. QED BY <1>1, <1>6, <2>1 DEF DrainFlushed
<1>7. CASE ShutdownTimesOut
  <2>1. ShutdownTypeOK'
      BY <1>7 DEF ShutdownTimesOut, TInv, TypeOK, ShutdownTypeOK
  <2>. QED BY <1>1, <1>7, <2>1 DEF ShutdownTimesOut
<1>. QED BY <1>2, <1>3, <1>4, <1>5, <1>6, <1>7 DEF ShutdownStep

\* Every step keeps the types.
LEMMA TypeNext == TInv /\ [Next]_vars => TInv'
<1>1. ASSUME TInv, UNCHANGED vars PROVE TInv'
    BY <1>1 DEF vars, TInv, TypeOK, CapturesCounted, BatchesTyped,
                queueVars, serverVars, flushVars
<1>. QED BY <1>1, ApplicationType, CaptureSettlesType, TimerFiresType,
            FlushStepType, ShutdownType DEF Next

\* The variables keep their types; in particular every batch holds messages that
\* were pushed, and a capture becomes at most one message.
THEOREM TypeCorrect == Spec => [](TypeOK /\ CapturesCounted /\ BatchesTyped)
<1>1. TInv => TypeOK /\ CapturesCounted /\ BatchesTyped
    BY DEF TInv
<1>. QED BY <1>1, TypeInit, TypeNext, PTL DEF Spec

-------------------------------------------------------------------------------
(* The chain of flush promises.                                                *)

\* Flushes are numbered as created; flushPromise is the latest until it settles.
ChainEnd ==
    /\ \A f \in Flushes : pc[f] = "none" <=> f > created
    /\ last # 0 => last = created
    /\ last = 0 => \A f \in Flushes : f <= created => pc[f] \in Settled

\* A flush that waits is chained to the one before it, or to nothing because
\* that one settled; one that has started follows settled flushes only.
Chained == \A f \in Flushes :
    /\ pc[f] = "waiting" =>
        \/ prev[f] = f - 1 /\ prev[f] # 0
        \/ prev[f] = 0 /\ \A g \in Flushes : g < f => pc[g] \in Settled
    /\ pc[f] \in Running \cup Settled =>
        \A g \in Flushes : g < f => pc[g] \in Settled

\* pendingFlushPromise is a flush that has not started.
PendingWaits == pending # 0 => pc[pending] = "waiting"

ChainInv == ChainEnd /\ Chained /\ PendingWaits /\ StaleTimerIsCleared

\* No flush exists at first.
LEMMA ChainInit == Init => ChainInv
BY ConstantsAssumption
   DEF Init, ChainInv, ChainEnd, Chained, PendingWaits, StaleTimerIsCleared, Flushes,
       Running, Settled

\* A new flush is chained to the last one.
LEMMA ChainNewFlush ==
    ASSUME TInv, ChainInv, NEW covered, NewFlush(covered)
    PROVE  ChainEnd' /\ Chained' /\ pending' # 0 /\ pc'[pending'] = "waiting"
<1>. DEFINE f == created + 1
<1>1. /\ f \in Flushes /\ created' = f /\ pending' = f /\ last' = f
      /\ pc' = [pc EXCEPT ![f] = "waiting"]
      /\ prev' = [prev EXCEPT ![f] = last]
    BY ConstantsAssumption DEF NewFlush, TInv, TypeOK, Flushes
<1>2. created \in Nat /\ Flushes \subseteq Nat
    BY ConstantsAssumption DEF TInv, TypeOK, Flushes
<1>3. pc'[f] = "waiting" /\ prev'[f] = last /\ pc[f] = "none"
    BY <1>1, <1>2 DEF TInv, TypeOK, ChainInv, ChainEnd
<1>4. \A g \in Flushes : g # f => pc'[g] = pc[g] /\ prev'[g] = prev[g]
    BY <1>1 DEF TInv, TypeOK
<1>. HIDE DEF f
<1>5. ChainEnd'
  <2>1. \A g \in Flushes : g > created' <=> g > created /\ g # f
      BY <1>1, <1>2 DEF f
  <2>. QED BY <1>1, <1>2, <1>3, <1>4, <2>1 DEF ChainInv, ChainEnd, Settled, f
<1>6. \A g \in Flushes : g < f /\ last = 0 => pc[g] \in Settled
    BY <1>2 DEF f, ChainInv, ChainEnd
<1>7. last # 0 => last = f - 1
    BY <1>2 DEF f, ChainInv, ChainEnd
<1>8. Chained'
  <2>2. \A h \in Flushes : pc[h] \in Settled => pc'[h] \in Settled
      BY <1>3, <1>4 DEF Settled
  <2>. QED BY <1>3, <1>4, <1>6, <1>7, <2>2, <1>1
           DEF ChainInv, Chained, Settled, Running
<1>. QED BY <1>1, <1>3, <1>5, <1>8, <1>2 DEF f

\* flush() keeps the chain.
LEMMA ChainFlush ==
    ASSUME TInv, ChainInv, Flush, timer' = timer
    PROVE  ChainInv'
<1>1. CASE JoinFlush
    BY <1>1 DEF JoinFlush, Join, flushVars, ChainInv, ChainEnd, Chained, PendingWaits,
                StaleTimerIsCleared
<1>2. CASE NewFlush(covers)
    BY <1>2, ChainNewFlush DEF ChainInv, PendingWaits, StaleTimerIsCleared
<1>. QED BY <1>1, <1>2 DEF Flush

\* flushBackground leaves a flush pending, so the timer may be stale after it.
LEMMA ChainFlushBackground ==
    ASSUME TInv, ChainInv, NEW covered, FlushBackground(covered)
    PROVE  ChainInv'
<1>1. CASE pending # 0 /\ UNCHANGED flushVars
    BY <1>1 DEF flushVars, ChainInv, ChainEnd, Chained, PendingWaits, StaleTimerIsCleared
<1>2. CASE NewFlush(covered)
    BY <1>2, ChainNewFlush DEF ChainInv, PendingWaits, StaleTimerIsCleared
<1>. QED BY <1>1, <1>2 DEF FlushBackground

\* A flush that goes on sending, or settles as the last one of the chain.
LEMMA ChainProceed ==
    ASSUME TInv, ChainInv, NEW f \in Flushes, pc[f] \in Running,
           NEW k, NEW failed, Proceed(f, k, failed), UNCHANGED <<created, pending, timer>>
    PROVE  ChainInv'
<1>1. created \in Nat /\ Flushes \subseteq Nat \ {0}
    BY ConstantsAssumption DEF TInv, TypeOK, Flushes
<1>2. \A g \in Flushes : g # f => pc'[g] = pc[g] /\ prev'[g] = prev[g]
    BY DEF Proceed, TInv, TypeOK
<1>3. pc'[f] \in Running \cup Settled
    BY DEF Proceed, TInv, TypeOK, Running, Settled
<1>4. \A g \in Flushes : g < f => pc[g] \in Settled
    BY DEF ChainInv, Chained
<1>5. \A g \in Flushes : pc[g] \in Settled => pc'[g] \in Settled
    BY <1>2, <1>3 DEF Running, Settled
<1>6. Chained'
    BY <1>2, <1>3, <1>4, <1>5, <1>1 DEF ChainInv, Chained, Running, Settled
<1>7. pc[f] # "none" /\ pc'[f] # "none" /\ f <= created
    BY <1>1, <1>3 DEF ChainInv, ChainEnd, Running, Settled
<1>8. last' # 0 => last' = created
    BY DEF Proceed, ChainInv, ChainEnd
<1>9. last' = 0 => \A g \in Flushes : g <= created => pc'[g] \in Settled
  <2>1. CASE last = 0
      BY <2>1, <1>5, <1>7 DEF ChainInv, ChainEnd, Running, Settled
  <2>2. CASE last # 0 /\ last' = 0
    <3>1. last = f /\ f = created /\ pc'[f] \in Settled
        BY <2>2 DEF Proceed, ChainInv, ChainEnd, TInv, TypeOK, Settled
    <3>2. \A g \in Flushes : g <= f => g = f \/ g < f
        BY <1>1
    <3>. QED BY <1>4, <1>5, <3>1, <3>2
  <2>. QED BY <2>1, <2>2
<1>10. ChainEnd'
    BY <1>2, <1>7, <1>8, <1>9 DEF ChainInv, ChainEnd
<1>11. PendingWaits' /\ StaleTimerIsCleared'
  <2>1. pending # 0 => pending \in Flushes /\ pending # f
      BY <1>1, ConstantsAssumption DEF ChainInv, PendingWaits, Running, TInv, TypeOK, Flushes
  <2>. QED BY <2>1, <1>2 DEF ChainInv, PendingWaits, StaleTimerIsCleared
<1>. QED BY <1>6, <1>10, <1>11 DEF ChainInv

\* Steps that only move a running flush between its own states.
LEMMA ChainRunning ==
    ASSUME TInv, ChainInv, NEW f \in Flushes, pc[f] \in Running,
           NEW value \in Running, pc' = [pc EXCEPT ![f] = value],
           UNCHANGED <<created, pending, last, prev, timer>>
    PROVE  ChainInv'
<1>1. pc'[f] = value /\ \A g \in Flushes : g # f => pc'[g] = pc[g]
    BY DEF TInv, TypeOK
<1>2. \A g \in Flushes : /\ pc'[g] \in Settled <=> pc[g] \in Settled
                         /\ pc'[g] = "none" <=> pc[g] = "none"
                         /\ pc'[g] = "waiting" <=> pc[g] = "waiting"
                         /\ pc'[g] \in Running <=> pc[g] \in Running
    BY <1>1 DEF Running, Settled
<1>3. pending # 0 => pending \in Flushes
    BY ConstantsAssumption DEF TInv, TypeOK, Flushes
<1>. QED BY <1>2, <1>3 DEF ChainInv, ChainEnd, Chained, PendingWaits, StaleTimerIsCleared

\* A flush starts when the flush it is chained to, hence every earlier one, has
\* settled.
LEMMA ChainStart ==
    ASSUME TInv, ChainInv, NEW f \in Flushes, StartFlush(f)
    PROVE  ChainInv'
<1>1. created \in Nat /\ Flushes \subseteq Nat \ {0} /\ f - 1 \in Nat
    BY ConstantsAssumption DEF TInv, TypeOK, Flushes
<1>2. /\ pc[f] = "waiting" /\ pc' = [pc EXCEPT ![f] = "starting"] /\ timer' = "none"
      /\ pending' = IF pending = f THEN 0 ELSE pending
      /\ UNCHANGED <<created, last, prev>>
    BY DEF StartFlush, Start
<1>3. \A g \in Flushes : g < f => pc[g] \in Settled
  <2>1. CASE prev[f] = f - 1 /\ prev[f] # 0
    <3>1. f - 1 \in Flushes /\ pc[f - 1] \in Settled
        BY <2>1, <1>1, ConstantsAssumption DEF StartFlush, PreviousDone, Flushes
    <3>2. \A g \in Flushes : g < f - 1 => pc[g] \in Settled
        BY <3>1 DEF ChainInv, Chained
    <3>3. \A g \in Flushes : g < f => g = f - 1 \/ g < f - 1
        BY <1>1
    <3>. QED BY <3>1, <3>2, <3>3
  <2>. QED BY <2>1, <1>2 DEF ChainInv, Chained
<1>4. pc'[f] = "starting" /\ \A g \in Flushes : g # f => pc'[g] = pc[g]
    BY <1>2 DEF TInv, TypeOK
<1>5. \A g \in Flushes : /\ pc'[g] \in Settled <=> pc[g] \in Settled
                         /\ pc'[g] = "none" <=> pc[g] = "none"
                         /\ g # f => (pc'[g] = "waiting" <=> pc[g] = "waiting")
    BY <1>2, <1>4 DEF Settled
<1>6. ChainEnd'
    BY <1>2, <1>5 DEF ChainInv, ChainEnd
<1>7. Chained'
    BY <1>2, <1>3, <1>4, <1>5 DEF ChainInv, Chained, Running, Settled
<1>8. PendingWaits' /\ StaleTimerIsCleared'
  <2>1. pending # 0 => pending \in Flushes
      BY ConstantsAssumption DEF TInv, TypeOK, Flushes
  <2>. QED BY <1>2, <1>4, <2>1 DEF ChainInv, PendingWaits, StaleTimerIsCleared
<1>. QED BY <1>6, <1>7, <1>8 DEF ChainInv

\* Every step keeps the chain.
LEMMA ChainNext == TInv /\ ChainInv /\ [Next]_vars => ChainInv'
<1>. SUFFICES ASSUME TInv, ChainInv, [Next]_vars PROVE ChainInv'
    OBVIOUS
<1>1. ASSUME UNCHANGED <<created, pending, last, pc, prev>>,
             timer' = timer \/ timer' = "none" \/ (timer = "none" /\ timer' = "armed")
      PROVE  ChainInv'
    BY <1>1 DEF ChainInv, ChainEnd, Chained, PendingWaits, StaleTimerIsCleared
<1>2. ASSUME NEW c, NEW r, Push(c, r) PROVE ChainInv'
  <2>1. timer' = timer \/ (timer = "none" /\ timer' = "armed")
      BY <1>2 DEF Push
  <2>2. CASE UNCHANGED flushVars
      BY <2>1, <2>2, <1>1 DEF flushVars
  <2>3. CASE \E covered : FlushBackground(covered)
      BY <2>3, ChainFlushBackground
  <2>. QED BY <1>2, <2>2, <2>3 DEF Push
<1>3. ASSUME Application PROVE ChainInv'
  <2>1. CASE CallFlush
      BY <2>1, ChainFlush DEF CallFlush
  <2>2. CASE BeginCapture \/ \E value \in BOOLEAN : SetOptedOut(value)
      BY <2>2, <1>1 DEF BeginCapture, SetOptedOut, flushVars
  <2>3. CASE BeginShutdown
      BY <2>3, <1>1 DEF BeginShutdown, flushVars
  <2>4. CASE \E r \in Routes : Capture(r)
      BY <2>4, <1>2 DEF Capture
  <2>. QED BY <1>3, <2>1, <2>2, <2>3, <2>4 DEF Application
<1>4. ASSUME CaptureSettles PROVE ChainInv'
    BY <1>4, <1>1, <1>2 DEF CaptureSettles, DiscardCapture, FinishCapture, flushVars
<1>5. ASSUME TimerFires PROVE ChainInv'
    BY <1>5, ChainFlushBackground DEF TimerFires
<1>6. ASSUME NEW f \in Flushes, FlushStep(f) PROVE ChainInv'
  <2>1. CASE StartFlush(f)
      BY <2>1, ChainStart
  <2>2. CASE BeginFlush(f)
      BY <2>2, ChainProceed DEF BeginFlush, Running
  <2>3. CASE StorageFlushed(f)
    <3>1. CASE pc' = [pc EXCEPT ![f] = "sending"] /\ UNCHANGED <<last, prev>>
        BY <2>3, <3>1, ChainRunning DEF StorageFlushed, Running
    <3>2. CASE \E k, failed : Proceed(f, k, failed)
        BY <2>3, <3>2, ChainProceed DEF StorageFlushed, Running
    <3>. QED BY <2>3, <3>1, <3>2 DEF StorageFlushed
  <2>4. CASE BatchTooLarge(f)
      BY <2>4, <1>1 DEF BatchTooLarge, Shrink, flushVars
  <2>5. ASSUME pc[f] = "sending", NEW thrown, PersistQueueChange(f, thrown),
               UNCHANGED <<created, pending, timer>>
        PROVE  ChainInv'
      BY <2>5, ChainRunning DEF PersistQueueChange, RemoveFromQueue, Running
  <2>6. ASSUME RetryBatch(f), UNCHANGED <<created, pending, timer>>
        PROVE  ChainInv'
      BY <2>6, <1>1 DEF RetryBatch
  <2>7. CASE BatchAccepted(f)
      BY <2>7, <2>5 DEF BatchAccepted
  <2>8. CASE BatchLost(f)
      BY <2>8, <2>6, ChainProceed DEF BatchLost, Running
  <2>9. CASE BatchRefused(f)
      BY <2>9, <2>5, <2>6 DEF BatchRefused, DropBatch
  <2>. QED BY <1>6, <2>1, <2>2, <2>3, <2>4, <2>7, <2>8, <2>9 DEF FlushStep, Answer
<1>7. ASSUME ShutdownStep \/ ShutdownTimesOut PROVE ChainInv'
  <2>1. CASE DrainFlush
      BY <2>1, ChainFlush DEF DrainFlush
  <2>2. CASE UNCHANGED <<timer, flushVars>>
      BY <2>2, <1>1 DEF flushVars
  <2>. QED BY <1>7, <2>1, <2>2 DEF ShutdownStep, JoinRejected, JoinResolved, JoinAgain,
                DrainFinished, DrainFlushed, ShutdownTimesOut
<1>8. CASE UNCHANGED vars
    BY <1>8, <1>1 DEF vars, flushVars
<1>. QED BY <1>3, <1>4, <1>5, <1>6, <1>7, <1>8 DEF Next

\* The chain holds in every reachable state.
LEMMA ChainCorrect == Spec => []ChainInv
BY TypeInit, ChainInit, TypeNext, ChainNext, PTL DEF Spec

\* At most one flush runs: every earlier one has settled.
LEMMA RunningAlone == ChainInv => OneFlushRuns
<1>. SUFFICES ASSUME ChainInv, NEW f \in Flushes, NEW g \in Flushes,
                     pc[f] \in Running, pc[g] \in Running
              PROVE  f = g
    BY DEF OneFlushRuns
<1>1. f \in Int /\ g \in Int
    BY DEF Flushes
<1>2. ~(f < g) /\ ~(g < f)
    BY DEF ChainInv, Chained, Running, Settled
<1>. QED BY <1>1, <1>2

\* flushInternal chains the flushes: at most one runs at a time, however many
\* flush promises exist.
THEOREM OneFlushAtATime == Spec => []OneFlushRuns
BY RunningAlone, ChainCorrect, PTL

\* While the timer's handle is stale, a flush that will clear it has yet to start.
THEOREM StaleTimerCleared == Spec => []StaleTimerIsCleared
<1>1. ChainInv => StaleTimerIsCleared
    BY DEF ChainInv
<1>. QED BY <1>1, ChainCorrect, PTL

-------------------------------------------------------------------------------
(* No message is lost.                                                         *)

\* The fates of a message that is not queued.
Ended == Taken \cup refused \cup overflowed

\* It is enough that nothing leaves the queues or the fates but into a fate, and
\* that a new message is queued.
LEMMA NothingLost ==
    ASSUME NoMessageLost, Queued \cup Ended \subseteq (Queued \cup Ended)',
           \A m \in 1..tickets' : m \in 1..tickets \/ m \in (Queued \cup Ended)'
    PROVE  NoMessageLost'
BY DEF NoMessageLost, Ended

\* enqueue evicts into overflowed and queues the new message.
LEMMA PushLosesNothing ==
    ASSUME TInv, NoMessageLost, NEW c, NEW r \in Routes, Push(c, r)
    PROVE  NoMessageLost'
<1>. DEFINE evicted == IF Cardinality(queue[r]) >= MaxQueueSize
                       THEN {Smallest(queue[r])} ELSE {}
<1>1. /\ tickets' = tickets + 1
      /\ queue' = [queue EXCEPT ![r] = (queue[r] \ evicted) \cup {tickets + 1}]
      /\ overflowed' = overflowed \cup evicted
      /\ UNCHANGED <<accepted, refused>>
    BY DEF Push, serverVars
<1>. HIDE DEF evicted
<1>2. /\ tickets + 1 \in queue'[r]
      /\ \A s \in Routes : queue[s] \subseteq queue'[s] \cup evicted
    BY <1>1 DEF TInv, TypeOK
<1>3. Queued \subseteq Queued' \cup evicted /\ tickets + 1 \in Queued'
    BY <1>2 DEF Queued
<1>4. Queued \cup Ended \subseteq (Queued \cup Ended)'
    BY <1>1, <1>3 DEF Ended, Taken
<1>5. \A m \in 1..tickets' : m \in 1..tickets \/ m = tickets + 1
    BY <1>1, ConstantsAssumption DEF TInv, TypeOK
<1>6. \A m \in 1..tickets' : m \in 1..tickets \/ m \in (Queued \cup Ended)'
    BY <1>3, <1>5
<1>. QED BY <1>4, <1>6, NothingLost

\* What persistQueueChange removes is the batch, whose fate is known.
LEMMA PersistLosesNothing ==
    ASSUME TInv, NoMessageLost, NEW f \in Flushes, pc[f] = "sending", NEW thrown,
           PersistQueueChange(f, thrown), run[f].batch \subseteq Ended',
           Ended \subseteq Ended', UNCHANGED tickets
    PROVE  NoMessageLost'
<1>1. \A s \in Routes : queue[s] \subseteq queue'[s] \cup run[f].batch
    BY DEF PersistQueueChange, RemoveFromQueue, TInv, TypeOK
<1>2. Queued \subseteq Queued' \cup run[f].batch
    BY <1>1 DEF Queued
<1>3. Queued \cup Ended \subseteq (Queued \cup Ended)'
    BY <1>2
<1>4. \A m \in 1..tickets' : m \in 1..tickets
    OBVIOUS
<1>. QED BY <1>3, <1>4, NothingLost

\* No step loses a message.
LEMMA NoLossNext == TInv /\ NoMessageLost /\ [Next]_vars => NoMessageLost'
<1>. SUFFICES ASSUME TInv, NoMessageLost, [Next]_vars PROVE NoMessageLost'
    OBVIOUS
<1>1. ASSUME UNCHANGED <<queueVars, serverVars>> PROVE NoMessageLost'
    BY <1>1 DEF NoMessageLost, Queued, Taken, queueVars, serverVars
<1>2. ASSUME Application \/ CaptureSettles \/ TimerFires PROVE NoMessageLost'
  <2>1. CASE \E c, r : r \in Routes /\ Push(c, r)
      BY <2>1, PushLosesNothing
  <2>2. CASE UNCHANGED <<queueVars, serverVars>>
      BY <2>2, <1>1
  <2>. QED BY <1>2, <2>1, <2>2
           DEF Application, CaptureSettles, TimerFires, Capture, BeginCapture, SetOptedOut,
               CallFlush, BeginShutdown, DiscardCapture, FinishCapture, others
<1>3. ASSUME NEW f \in Flushes, FlushStep(f) PROVE NoMessageLost'
  <2>. /\ pc[f] = "sending" => run[f].route \in Routes
       /\ accepted \in [Routes -> SUBSET (1..tickets)]
      BY DEF TInv, TypeOK, BatchesTyped
  <2>1. CASE StartFlush(f) \/ BeginFlush(f) \/ StorageFlushed(f) \/ BatchTooLarge(f)
      BY <2>1, <1>1 DEF StartFlush, Start, BeginFlush, StorageFlushed, BatchTooLarge, Shrink
  <2>2. CASE BatchAccepted(f)
    <3>1. /\ accepted' = [accepted EXCEPT ![run[f].route] = @ \cup run[f].batch]
          /\ UNCHANGED <<tickets, refused, overflowed>> /\ pc[f] = "sending"
          /\ PersistQueueChange(f, FALSE)
        BY <2>2 DEF BatchAccepted, ServerTakes
    <3>2. run[f].batch \subseteq Ended' /\ Ended \subseteq Ended'
      <4>1. /\ run[f].batch \subseteq accepted'[run[f].route]
            /\ \A s \in Routes : accepted[s] \subseteq accepted'[s]
          BY <3>1
      <4>. QED BY <3>1, <4>1 DEF Ended, Taken
    <3>. QED BY <3>1, <3>2, PersistLosesNothing
  <2>3. CASE BatchLost(f)
    <3>1. UNCHANGED <<tickets, queue, refused, overflowed>>
        BY <2>3 DEF BatchLost, RetryBatch
    <3>2. \A s \in Routes : accepted[s] \subseteq accepted'[s]
        BY <2>3 DEF BatchLost, ServerTakes
    <3>3. Queued = Queued'
        BY <3>1 DEF Queued
    <3>4. Ended \subseteq Ended'
        BY <3>1, <3>2 DEF Ended, Taken
    <3>. QED BY <3>1, <3>3, <3>4, NothingLost
  <2>4. CASE BatchRefused(f)
    <3>1. CASE RetryBatch(f) /\ UNCHANGED refused
        BY <2>4, <3>1, <1>1 DEF BatchRefused, RetryBatch, queueVars, serverVars
    <3>2. CASE DropBatch(f)
      <4>1. /\ UNCHANGED <<tickets, accepted, overflowed>> /\ pc[f] = "sending"
            /\ refused' = refused \cup run[f].batch /\ PersistQueueChange(f, TRUE)
          BY <2>4, <3>2 DEF BatchRefused, DropBatch
      <4>2. run[f].batch \subseteq Ended' /\ Ended \subseteq Ended'
          BY <4>1 DEF Ended, Taken
      <4>. QED BY <4>1, <4>2, PersistLosesNothing
    <3>. QED BY <2>4, <3>1, <3>2 DEF BatchRefused
  <2>. QED BY <1>3, <2>1, <2>2, <2>3, <2>4 DEF FlushStep, Answer
<1>4. ASSUME ShutdownStep \/ ShutdownTimesOut PROVE NoMessageLost'
    BY <1>4, <1>1 DEF ShutdownStep, JoinRejected, JoinResolved, JoinAgain, DrainFlush,
                DrainFinished, DrainFlushed, ShutdownTimesOut, others
<1>5. CASE UNCHANGED vars
    BY <1>5, <1>1 DEF vars
<1>. QED BY <1>2, <1>3, <1>4, <1>5 DEF Next

\* Whatever is captured, evicted, retried, halved or refused, and in whatever
\* order: a message leaves the queue only to the server, on the server's answer,
\* or to make room.
THEOREM NoLoss == Spec => []NoMessageLost
<1>1. Init => NoMessageLost
    BY DEF Init, NoMessageLost
<1>. QED BY <1>1, TypeInit, TypeNext, NoLossNext, PTL DEF Spec

-------------------------------------------------------------------------------
(* The oldest messages first, and once.                                        *)

\* A batch is a prefix of its queue: slice(0, n) leaves out no older message.
LEMMA SliceIsPrefix ==
    ASSUME NEW q, IsFiniteSet(q), q \subseteq Nat, NEW n \in Nat,
           NEW b \in Slice(q, n), NEW m \in q, m < b
    PROVE  m \in Slice(q, n)
<1>. DEFINE older(x) == {k \in q : k < x}
<1>1. older(m) \subseteq older(b)
  <2>1. b \in q
      BY DEF Slice
  <2>2. \A k \in q : k \in Nat /\ (k < m => k < b)
      BY <2>1
  <2>. QED BY <2>2
<1>2. IsFiniteSet(older(b))
    BY FS_Subset
<1>3. /\ IsFiniteSet(older(m)) /\ Cardinality(older(m)) <= Cardinality(older(b))
    BY <1>1, <1>2, FS_Subset
<1>4. Cardinality(older(m)) \in Nat /\ Cardinality(older(b)) \in Nat
    BY <1>2, <1>3, FS_CardinalityType
<1>5. Cardinality(older(b)) < n
    BY DEF Slice
<1>. QED BY <1>3, <1>4, <1>5 DEF Slice

\* A message is queued on one route, and not after its batch was acknowledged.
QueuesApart == \A r, s \in Routes : r # s => queue[r] \cap queue[s] = {}
AckedLeft == acked \cap Queued = {}

\* A batch in flight holds, of what is queued now, the oldest messages of its
\* route, nothing of another route and nothing acknowledged.
InFlight == \A f \in Flushes : pc[f] = "sending" =>
    /\ \A b \in run[f].batch, m \in queue[run[f].route] : m < b => m \in run[f].batch
    /\ \A s \in Routes : s # run[f].route => run[f].batch \cap queue[s] = {}
    /\ run[f].batch \cap acked = {}

OrderInv == QueuesApart /\ AckedLeft /\ InFlight /\ AcceptedInOrder

\* Nothing is queued at first.
LEMMA OrderInit == Init => OrderInv
BY DEF Init, OrderInv, QueuesApart, AckedLeft, InFlight, AcceptedInOrder, Queued

\* A queue holds the numbers of messages.
LEMMA QueueIsFinite ==
    ASSUME TypeOK, NEW r \in Routes
    PROVE  /\ queue[r] \subseteq 1..tickets /\ queue[r] \subseteq Nat
           /\ IsFiniteSet(queue[r]) /\ Cardinality(queue[r]) \in Nat
<1>1. tickets \in Nat /\ queue[r] \in SUBSET (1..tickets)
    BY ConstantsAssumption DEF TypeOK
<1>2. 1..tickets \subseteq Nat
    OBVIOUS
<1>. QED BY <1>1, <1>2, FiniteInterval

\* The two ways a flush gets a batch to send: it keeps the one it has, or takes a
\* slice of the queue as it is now.
KeepsBatch(f) == pc[f] = "sending" /\ run'[f].batch = run[f].batch
                 /\ run'[f].route = run[f].route
TakesSlice(f) == /\ run'[f].route \in Routes
                 /\ \E n \in Nat : run'[f].batch = Slice(queue[run'[f].route], n)

\* Either way the batch is in order with the queues.
LEMMA OrderSlices ==
    ASSUME TInv, OrderInv, UNCHANGED <<queue, acked>>,
           \A f \in Flushes : pc'[f] = "sending" => KeepsBatch(f) \/ TakesSlice(f)
    PROVE  QueuesApart' /\ AckedLeft' /\ InFlight'
<1>1. QueuesApart' /\ AckedLeft'
    BY DEF OrderInv, QueuesApart, AckedLeft, Queued
<1>2. ASSUME NEW f \in Flushes, pc'[f] = "sending"
      PROVE  /\ \A b \in run'[f].batch, m \in queue[run'[f].route] :
                    m < b => m \in run'[f].batch
             /\ \A s \in Routes : s # run'[f].route => run'[f].batch \cap queue[s] = {}
             /\ run'[f].batch \cap acked = {}
  <2>1. CASE KeepsBatch(f)
      BY <2>1 DEF KeepsBatch, OrderInv, InFlight
  <2>2. CASE TakesSlice(f)
    <3>. DEFINE r == run'[f].route
    <3>1. PICK n \in Nat : run'[f].batch = Slice(queue[r], n)
        BY <2>2 DEF TakesSlice
    <3>2. r \in Routes
        BY <2>2 DEF TakesSlice
    <3>3. run'[f].batch \subseteq queue[r]
        BY <3>1, SliceIsSubset
    <3>4. \A b \in run'[f].batch, m \in queue[r] : m < b => m \in run'[f].batch
        BY <3>1, <3>2, QueueIsFinite, SliceIsPrefix DEF TInv
    <3>. QED BY <3>2, <3>3, <3>4 DEF OrderInv, QueuesApart, AckedLeft, Queued
  <2>. QED BY <1>2, <2>1, <2>2
<1>3. InFlight'
    BY <1>2 DEF InFlight
<1>. QED BY <1>1, <1>3

\* Steps that leave the messages alone.
LEMMA OrderSameMessages ==
    ASSUME TInv, OrderInv, UNCHANGED <<queue, accepted, acked>>,
           \A f \in Flushes : pc'[f] = "sending" => KeepsBatch(f) \/ TakesSlice(f)
    PROVE  OrderInv'
<1>1. AcceptedInOrder'
    BY DEF OrderInv, AcceptedInOrder
<1>. QED BY <1>1, OrderSlices DEF OrderInv

\* What the server takes is in order with what is queued.
LEMMA OrderTakes ==
    ASSUME TInv, OrderInv, NEW f \in Flushes, pc[f] = "sending", ServerTakes(f)
    PROVE  \A r \in Routes : \A a \in accepted'[r] : \A m \in queue[r] :
                m < a => m \in accepted'[r]
<1>. DEFINE r == run[f].route
<1>1. r \in Routes /\ accepted \in [Routes -> SUBSET (1..tickets)]
    BY DEF TInv, TypeOK, BatchesTyped
<1>2. /\ accepted'[r] = accepted[r] \cup run[f].batch
      /\ \A s \in Routes : s # r => accepted'[s] = accepted[s]
    BY <1>1 DEF ServerTakes
<1>3. \A b \in run[f].batch, m \in queue[r] : m < b => m \in run[f].batch
    BY DEF OrderInv, InFlight
<1>. QED BY <1>2, <1>3 DEF OrderInv, AcceptedInOrder

\* Messages leave one queue, and none is acknowledged but they.
LEMMA OrderPersist ==
    ASSUME TInv, ChainInv, OrderInv, NEW f \in Flushes, pc[f] = "sending", NEW thrown,
           PersistQueueChange(f, thrown), UNCHANGED accepted \/ ServerTakes(f),
           UNCHANGED acked \/ acked' = acked \cup run[f].batch
    PROVE  OrderInv'
<1>. DEFINE r == run[f].route
            B == run[f].batch
<1>1. /\ queue' = [queue EXCEPT ![r] = @ \ B] /\ pc' = [pc EXCEPT ![f] = "storing"]
      /\ run' = [run EXCEPT ![f].thrown = thrown]
    BY DEF PersistQueueChange, RemoveFromQueue
<1>2. r \in Routes /\ accepted \in [Routes -> SUBSET (1..tickets)]
    BY DEF TInv, TypeOK, BatchesTyped
<1>3. queue'[r] = queue[r] \ B /\ \A s \in Routes : s # r => queue'[s] = queue[s]
    BY <1>1, <1>2 DEF TInv, TypeOK
<1>4. \A g \in Flushes : pc'[g] # "sending"
  <2>1. OneFlushRuns
      BY RunningAlone
  <2>2. pc'[f] = "storing" /\ \A g \in Flushes : g # f => pc'[g] = pc[g]
      BY <1>1 DEF TInv, TypeOK
  <2>. QED BY <2>1, <2>2 DEF OneFlushRuns, Running
<1>5. InFlight'
    BY <1>4 DEF InFlight
<1>6. QueuesApart'
    BY <1>3 DEF OrderInv, QueuesApart
<1>7. AckedLeft'
  <2>1. \A s \in Routes : B \cap queue'[s] = {}
      BY <1>3 DEF OrderInv, InFlight
  <2>2. \A s \in Routes : queue'[s] \subseteq queue[s]
      BY <1>3
  <2>. QED BY <2>1, <2>2 DEF OrderInv, AckedLeft, Queued
<1>8. AcceptedInOrder'
  <2>1. \A s \in Routes : queue'[s] \subseteq queue[s]
      BY <1>3
  <2>2. CASE UNCHANGED accepted
      BY <2>1, <2>2 DEF OrderInv, AcceptedInOrder
  <2>3. CASE ServerTakes(f)
      BY <1>2, <2>1, <2>3, OrderTakes DEF AcceptedInOrder
  <2>. QED BY <2>2, <2>3
<1>. QED BY <1>5, <1>6, <1>7, <1>8 DEF OrderInv

\* A new flush does not send yet.
LEMMA PushKeepsSending ==
    ASSUME TInv, NEW c, NEW r, Push(c, r)
    PROVE  \A f \in Flushes : pc'[f] \in Running \cup Settled => pc'[f] = pc[f]
<1>1. CASE UNCHANGED flushVars
    BY <1>1 DEF flushVars
<1>2. CASE \E cov : NewFlush(cov)
    BY <1>2 DEF NewFlush, TInv, TypeOK, Running, Settled
<1>. QED BY <1>1, <1>2 DEF Push, FlushBackground

\* A new message is the newest of all, and an evicted one leaves no gap.
LEMMA OrderPush ==
    ASSUME TInv, OrderInv, NEW c, NEW r \in Routes, Push(c, r)
    PROVE  OrderInv'
<1>. DEFINE evicted == IF Cardinality(queue[r]) >= MaxQueueSize
                       THEN {Smallest(queue[r])} ELSE {}
            t == tickets + 1
<1>1. /\ queue' = [queue EXCEPT ![r] = (queue[r] \ evicted) \cup {t}]
      /\ UNCHANGED <<accepted, acked, refused, run>>
    BY DEF Push, serverVars
<1>. HIDE DEF evicted
<1>2. /\ queue'[r] \subseteq queue[r] \cup {t}
      /\ \A s \in Routes : s # r => queue'[s] = queue[s]
    BY <1>1 DEF TInv, TypeOK
<1>3. tickets \in Nat /\ \A s \in Routes : queue[s] \subseteq 1..tickets
    BY ConstantsAssumption DEF TInv, TypeOK
<1>4. /\ \A s \in Routes : accepted[s] \subseteq 1..tickets
      /\ acked \subseteq 1..tickets
      /\ \A f \in Flushes : run[f].batch \subseteq 1..tickets
    BY DEF TInv, TypeOK, BatchesTyped
<1>5. t \notin 1..tickets /\ \A m \in 1..tickets : ~(t < m)
    BY <1>3
<1>. HIDE DEF t
<1>6. QueuesApart'
    BY <1>2, <1>3, <1>5 DEF OrderInv, QueuesApart
<1>7. AckedLeft'
    BY <1>1, <1>2, <1>4, <1>5 DEF OrderInv, AckedLeft, Queued
<1>8. AcceptedInOrder'
    BY <1>1, <1>2, <1>4, <1>5 DEF OrderInv, AcceptedInOrder
<1>9. \A f \in Flushes : pc'[f] = "sending" => pc[f] = "sending"
    BY PushKeepsSending DEF Running, Settled
<1>10. InFlight'
  <2>. SUFFICES ASSUME NEW f \in Flushes, pc'[f] = "sending"
                PROVE  /\ \A b \in run[f].batch, m \in queue'[run[f].route] :
                              m < b => m \in run[f].batch
                       /\ \A s \in Routes : s # run[f].route
                              => run[f].batch \cap queue'[s] = {}
                       /\ run[f].batch \cap acked = {}
      BY <1>1 DEF InFlight
  <2>1. pc[f] = "sending" /\ run[f].route \in Routes
      BY <1>9 DEF TInv, BatchesTyped
  <2>. QED BY <2>1, <1>2, <1>4, <1>5 DEF OrderInv, InFlight
<1>. QED BY <1>6, <1>7, <1>8, <1>10 DEF OrderInv

\* Proceeding takes a slice of the next queue that holds something.
LEMMA ProceedSlices ==
    ASSUME TInv, NEW f \in Flushes, NEW k \in Nat \ {0}, NEW failed, Proceed(f, k, failed)
    PROVE  /\ pc'[f] = "sending" => TakesSlice(f)
           /\ \A g \in Flushes : g # f => pc'[g] = pc[g] /\ run'[g] = run[g]
<1>. DEFINE rest == {s \in k..NRoutes : queue[s] # {}}
            r == Smallest(rest)
<1>1. \A g \in Flushes : g # f => pc'[g] = pc[g] /\ run'[g] = run[g]
    BY DEF Proceed, TInv, TypeOK
<1>2. ASSUME pc'[f] = "sending" PROVE TakesSlice(f)
  <2>1. rest # {} /\ run' = [run EXCEPT ![f] = NextBatch(r, Cardinality(queue[r]), failed)]
      BY <1>2 DEF Proceed, TInv, TypeOK
  <2>2. r \in Routes
    <3>1. rest \subseteq Nat /\ rest \subseteq Routes
        BY ConstantsAssumption DEF Routes
    <3>2. r \in rest
        BY <2>1, <3>1, SmallestIsLeast
    <3>. QED BY <3>1, <3>2
  <2>. HIDE DEF r, rest
  <2>3. run'[f].route = r /\ run'[f].batch = Slice(queue[r], maxBatch)
      BY <2>1 DEF NextBatch, TInv, TypeOK
  <2>. QED BY <2>2, <2>3 DEF TakesSlice, TInv, TypeOK
<1>. QED BY <1>1, <1>2

\* The steps of a flush.
LEMMA OrderFlushStep ==
    ASSUME TInv, ChainInv, OrderInv, NEW f \in Flushes, FlushStep(f)
    PROVE  OrderInv'
<1>1. ASSUME NEW k \in Nat \ {0}, NEW failed, Proceed(f, k, failed),
             UNCHANGED <<queue, accepted, acked>>
      PROVE  OrderInv'
  <2>1. \A g \in Flushes : pc'[g] = "sending" => KeepsBatch(g) \/ TakesSlice(g)
      BY <1>1, ProceedSlices DEF KeepsBatch
  <2>. QED BY <1>1, <2>1, OrderSameMessages
<1>2. CASE StartFlush(f)
  <2>1. \A g \in Flushes : pc'[g] = "sending" => KeepsBatch(g)
      BY <1>2 DEF StartFlush, Start, TInv, TypeOK, KeepsBatch
  <2>2. UNCHANGED <<queue, accepted, acked>>
      BY <1>2 DEF StartFlush, Start, queueVars, serverVars
  <2>. QED BY <2>1, <2>2, OrderSameMessages
<1>3. CASE BeginFlush(f)
  <2>1. Proceed(f, 1, FALSE) /\ UNCHANGED <<queue, accepted, acked>>
      BY <1>3 DEF BeginFlush, queueVars, serverVars
  <2>2. 1 \in Nat \ {0}
      OBVIOUS
  <2>. QED BY <2>1, <2>2, <1>1
<1>4. CASE StorageFlushed(f)
  <2>. DEFINE r == run[f].route
              left2 == run[f].left - Cardinality(run[f].batch)
  <2>1. r \in Routes /\ r + 1 \in Nat \ {0} /\ UNCHANGED <<queue, accepted, acked>>
      BY <1>4, ConstantsAssumption
         DEF StorageFlushed, TInv, BatchesTyped, Routes, queueVars, serverVars
  <2>2. CASE Proceed(f, r + 1, run[f].failed \/ run[f].thrown)
      BY <1>1, <2>1, <2>2
  <2>3. CASE /\ pc' = [pc EXCEPT ![f] = "sending"]
             /\ run' = [run EXCEPT ![f] = NextBatch(r, left2, run[f].failed)]
    <3>1. run'[f].route = r /\ run'[f].batch = Slice(queue[r], maxBatch)
        BY <2>3 DEF NextBatch, TInv, TypeOK
    <3>2. TakesSlice(f)
        BY <2>1, <3>1 DEF TakesSlice, TInv, TypeOK
    <3>3. \A g \in Flushes : g # f => pc'[g] = pc[g] /\ run'[g] = run[g]
        BY <2>3 DEF TInv, TypeOK
    <3>. QED BY <2>1, <3>2, <3>3, OrderSameMessages DEF KeepsBatch
  <2>. QED BY <1>4, <2>2, <2>3 DEF StorageFlushed
<1>5. CASE BatchTooLarge(f)
  <2>1. /\ run' = [run EXCEPT ![f].batch = Slice(queue[run[f].route], Half(f)),
                              ![f].tries = 0]
        /\ pc[f] = "sending" /\ UNCHANGED <<pc, queue, accepted, acked>>
      BY <1>5 DEF BatchTooLarge, Shrink, flushVars, queueVars, serverVars
  <2>2. run[f].route \in Routes
      BY <2>1 DEF TInv, BatchesTyped
  <2>3. Half(f) \in Nat
    <3>1. run[f].batch \subseteq 1..tickets /\ tickets \in Nat
        BY ConstantsAssumption DEF TInv, TypeOK, BatchesTyped
    <3>2. Cardinality(run[f].batch) \in Nat
        BY <3>1, FiniteInterval
    <3>. QED BY <3>2 DEF Half
  <2>4. TakesSlice(f) /\ \A g \in Flushes : g # f => run'[g] = run[g]
      BY <2>1, <2>2, <2>3 DEF TakesSlice, TInv, TypeOK, RunRecord
  <2>. QED BY <2>1, <2>4, OrderSameMessages DEF KeepsBatch
<1>6. ASSUME RetryBatch(f), UNCHANGED <<accepted, acked>> PROVE OrderInv'
  <2>1. \A g \in Flushes : run'[g].batch = run[g].batch /\ run'[g].route = run[g].route
      BY <1>6 DEF RetryBatch, TInv, TypeOK
  <2>. QED BY <1>6, <2>1, OrderSameMessages DEF RetryBatch, KeepsBatch
<1>7. CASE BatchAccepted(f)
    BY <1>7, OrderPersist DEF BatchAccepted
<1>8. CASE BatchLost(f)
    \* The server's part, if any, comes before the client's.
  <2>0. pc[f] = "sending" /\ UNCHANGED <<queue, acked>>
      BY <1>8 DEF BatchLost, RetryBatch
  <2>1. run[f].route \in Routes /\ run[f].route + 1 \in Nat \ {0}
      BY <2>0, ConstantsAssumption DEF TInv, BatchesTyped, Routes
  <2>2. \A g \in Flushes : pc'[g] = "sending" => KeepsBatch(g) \/ TakesSlice(g)
    <3>1. CASE RetryBatch(f)
      <4>1. \A g \in Flushes : run'[g].batch = run[g].batch /\ run'[g].route = run[g].route
          BY <3>1 DEF RetryBatch, TInv, TypeOK
      <4>. QED BY <3>1, <4>1 DEF RetryBatch, KeepsBatch
    <3>2. CASE Proceed(f, run[f].route + 1, TRUE)
        BY <2>1, <3>2, ProceedSlices DEF KeepsBatch
    <3>. QED BY <1>8, <3>1, <3>2 DEF BatchLost
  <2>3. AcceptedInOrder'
      BY <1>8, <2>0, OrderTakes DEF BatchLost, OrderInv, AcceptedInOrder
  <2>4. QueuesApart' /\ AckedLeft' /\ InFlight'
      BY <2>0, <2>2, OrderSlices
  <2>. QED BY <2>3, <2>4 DEF OrderInv
<1>9. CASE BatchRefused(f)
    BY <1>6, <1>9, OrderPersist DEF BatchRefused, DropBatch
<1>. QED BY <1>2, <1>3, <1>4, <1>5, <1>7, <1>8, <1>9 DEF FlushStep, Answer

\* Every step keeps the order.
LEMMA OrderNext == TInv /\ ChainInv /\ OrderInv /\ [Next]_vars => OrderInv'
<1>. SUFFICES ASSUME TInv, ChainInv, OrderInv, [Next]_vars PROVE OrderInv'
    OBVIOUS
<1>1. ASSUME UNCHANGED <<queueVars, serverVars, run>>,
             \A f \in Flushes : pc'[f] = "sending" => pc[f] = "sending"
      PROVE  OrderInv'
    BY <1>1, OrderSameMessages DEF KeepsBatch, queueVars, serverVars
<1>2. ASSUME Application \/ CaptureSettles \/ TimerFires \/ ShutdownStep \/ ShutdownTimesOut
      PROVE  OrderInv'
  <2>1. CASE \E c, r : r \in Routes /\ Push(c, r)
      BY <2>1, OrderPush
  <2>2. ASSUME UNCHANGED <<queueVars, serverVars, run>>,
               (\E cov : NewFlush(cov)) \/ UNCHANGED pc
        PROVE  OrderInv'
    <3>1. \A f \in Flushes : pc'[f] = "sending" => pc[f] = "sending"
        BY <2>2 DEF NewFlush, TInv, TypeOK
    <3>. QED BY <2>2, <3>1, <1>1
  <2>3. CASE CallFlush \/ DrainFlush
      BY <2>2, <2>3 DEF CallFlush, DrainFlush, Flush, JoinFlush, Join, flushVars, others
  <2>4. CASE TimerFires
      BY <2>2, <2>4 DEF TimerFires, FlushBackground, flushVars
  <2>5. CASE UNCHANGED <<queueVars, serverVars, run, flushVars>>
      BY <2>2, <2>5 DEF flushVars
  <2>. QED BY <1>2, <2>1, <2>3, <2>4, <2>5
           DEF Application, CaptureSettles, Capture, BeginCapture, SetOptedOut,
               BeginShutdown, DiscardCapture, FinishCapture, ShutdownStep, JoinRejected,
               JoinResolved, JoinAgain, DrainFinished, DrainFlushed, ShutdownTimesOut, others
<1>3. CASE \E f \in Flushes : FlushStep(f)
    BY <1>3, OrderFlushStep
<1>4. CASE UNCHANGED vars
    BY <1>4, <1>1 DEF vars, flushVars
<1>. QED BY <1>2, <1>3, <1>4 DEF Next

\* The order holds in every reachable state.
LEMMA OrderCorrect == Spec => []OrderInv
BY TypeInit, ChainInit, OrderInit, TypeNext, ChainNext, OrderNext, PTL DEF Spec

\* The server never takes a message while an older one of its route, which it has not
\* taken, is still queued, and a message whose acknowledgement was heard is never in a
\* batch again: not across halved batches, retries, evictions, failed flushes or several
\* routes.  (One whose answer was lost is sent again.)
THEOREM SentInOrder == Spec => []SentOnceInOrder
<1>1. OrderInv => SentOnceInOrder
    BY DEF OrderInv, SentOnceInOrder, InFlight, NoResend
<1>. QED BY <1>1, OrderCorrect, PTL

-------------------------------------------------------------------------------
(* The pipeline implements DeliveryQueue.                                      *)

\* Nothing is submitted at first.
LEMMA DeliveryInit == Init => Delivery!DQInit
BY DEF Init, Delivery!DQInit, Routes

\* DeliveryQueue counts messages as EventQueue does: the instance has a copy of
\* the definition.
LEMMA SameCount == \A S : Delivery!Cardinality(S) = Cardinality(S)
BY DEF Delivery!Cardinality, Cardinality

\* enqueue submits a message; the one it evicts is the oldest.
LEMMA PushSubmits ==
    ASSUME TInv, NEW c, NEW r \in Routes, Push(c, r)
    PROVE  Delivery!Submit(r)
<1>. DEFINE evicted == IF Cardinality(queue[r]) >= MaxQueueSize
                       THEN {Smallest(queue[r])} ELSE {}
            kept == IF Cardinality(queue[r]) < MaxQueueSize THEN queue[r]
                    ELSE {m \in queue[r] : \E k \in queue[r] : k < m}
<1>1. /\ tickets' = tickets + 1 /\ UNCHANGED accepted
      /\ queue' = [queue EXCEPT ![r] = (queue[r] \ evicted) \cup {tickets'}]
    BY DEF Push, serverVars
<1>2. /\ queue[r] \subseteq Nat /\ IsFiniteSet(queue[r]) /\ Cardinality(queue[r]) \in Nat
    BY QueueIsFinite DEF TInv
<1>3. MaxQueueSize \in Nat /\ MaxQueueSize > 0
    BY ConstantsAssumption
<1>4. queue[r] \ evicted = kept
  <2>1. CASE Cardinality(queue[r]) < MaxQueueSize
      BY <2>1, <1>2, <1>3
  <2>2. CASE Cardinality(queue[r]) >= MaxQueueSize
    <3>1. queue[r] # {}
        BY <2>2, <1>2, <1>3, FS_EmptySet
    <3>. DEFINE s == Smallest(queue[r])
    <3>2. s \in queue[r] /\ \A k \in queue[r] : s <= k
        BY <3>1, <1>2, SmallestIsLeast
    <3>3. evicted = {s} /\ kept = {m \in queue[r] : \E k \in queue[r] : k < m}
        BY <2>2, <1>2, <1>3
    <3>. HIDE DEF s, evicted, kept
    <3>4. \A m \in queue[r] : m # s <=> \E k \in queue[r] : k < m
        BY <3>2, <1>2
    <3>. QED BY <3>3, <3>4
  <2>. QED BY <2>1, <2>2, <1>2, <1>3
<1>5. queue' = [queue EXCEPT ![r] = kept \cup {tickets'}]
    BY <1>1, <1>4
<1>. QED BY <1>1, <1>5, SameCount DEF Delivery!Submit

\* A batch in flight is one DeliveryQueue may deliver.
LEMMA InFlightIsBatch ==
    ASSUME TInv, OrderInv, NEW f \in Flushes, pc[f] = "sending"
    PROVE  run[f].route \in Routes /\ run[f].batch \in Delivery!Batches(run[f].route)
BY DEF TInv, BatchesTyped, OrderInv, InFlight, Delivery!Batches

\* The steps of a flush deliver a batch, give one up, or are invisible.
LEMMA FlushStepDelivers ==
    ASSUME TInv, OrderInv, NEW f \in Flushes, FlushStep(f)
    PROVE  \/ UNCHANGED <<tickets, queue, accepted>>
           \/ \E r \in Routes : Delivery!Deliver(r) \/ Delivery!GiveUp(r)
<1>. DEFINE r == run[f].route
<1>1. CASE StartFlush(f) \/ BeginFlush(f) \/ StorageFlushed(f) \/ BatchTooLarge(f)
    BY <1>1 DEF StartFlush, Start, BeginFlush, StorageFlushed, BatchTooLarge, Shrink,
                queueVars, serverVars
<1>2. CASE BatchAccepted(f)
  <2>1. /\ pc[f] = "sending" /\ UNCHANGED tickets
        /\ accepted' = [accepted EXCEPT ![r] = @ \cup run[f].batch]
        /\ queue' = [queue EXCEPT ![r] = @ \ run[f].batch]
      BY <1>2 DEF BatchAccepted, ServerTakes, PersistQueueChange, RemoveFromQueue
  <2>2. Delivery!Deliver(r)
      BY <2>1, InFlightIsBatch DEF Delivery!Deliver
  <2>. QED BY <2>1, <2>2, InFlightIsBatch
<1>3. CASE BatchLost(f)
  <2>1. pc[f] = "sending" /\ UNCHANGED <<tickets, queue>>
      BY <1>3 DEF BatchLost, RetryBatch
  <2>2. CASE UNCHANGED accepted
      BY <2>1, <2>2
  <2>3. CASE ServerTakes(f)
    <3>1. Delivery!Deliver(r)
        BY <2>1, <2>3, InFlightIsBatch DEF Delivery!Deliver, ServerTakes
    <3>. QED BY <2>1, <3>1, InFlightIsBatch
  <2>. QED BY <1>3, <2>2, <2>3 DEF BatchLost
<1>4. CASE BatchRefused(f)
  <2>1. pc[f] = "sending" /\ UNCHANGED <<tickets, accepted>>
      BY <1>4 DEF BatchRefused
  <2>2. CASE RetryBatch(f)
      BY <2>1, <2>2 DEF RetryBatch
  <2>3. CASE DropBatch(f)
    <3>1. Delivery!GiveUp(r)
        BY <2>1, <2>3, InFlightIsBatch
           DEF DropBatch, PersistQueueChange, RemoveFromQueue, Delivery!GiveUp
    <3>. QED BY <2>1, <3>1, InFlightIsBatch
  <2>. QED BY <1>4, <2>2, <2>3 DEF BatchRefused
<1>. QED BY <1>1, <1>2, <1>3, <1>4 DEF FlushStep, Answer

\* Every step is a step of DeliveryQueue, or invisible to it.
LEMMA DeliveryNext ==
    TInv /\ OrderInv /\ [Next]_vars => [Delivery!DQNext]_(Delivery!dqVars)
<1>. SUFFICES ASSUME TInv, OrderInv, [Next]_vars
              PROVE  \/ UNCHANGED <<tickets, queue, accepted>>
                     \/ \E r \in 1..NRoutes : \/ Delivery!Submit(r)
                                              \/ Delivery!Deliver(r)
                                              \/ Delivery!GiveUp(r)
    BY DEF Delivery!DQNext, Delivery!dqVars
<1>1. ASSUME Application \/ CaptureSettles \/ TimerFires
      PROVE  \/ UNCHANGED <<tickets, queue, accepted>>
             \/ \E r \in Routes : Delivery!Submit(r)
  <2>1. CASE \E c, r : r \in Routes /\ Push(c, r)
      BY <2>1, PushSubmits
  <2>2. CASE UNCHANGED <<queueVars, serverVars>>
      BY <2>2 DEF queueVars, serverVars
  <2>. QED BY <1>1, <2>1, <2>2
           DEF Application, CaptureSettles, TimerFires, Capture, BeginCapture, SetOptedOut,
               CallFlush, BeginShutdown, DiscardCapture, FinishCapture, others
<1>2. CASE \E f \in Flushes : FlushStep(f)
    BY <1>2, FlushStepDelivers DEF Routes
<1>3. CASE ShutdownStep \/ ShutdownTimesOut \/ UNCHANGED vars
    BY <1>3 DEF ShutdownStep, JoinRejected, JoinResolved, JoinAgain, DrainFlush,
                DrainFinished, DrainFlushed, ShutdownTimesOut, others, vars, queueVars,
                serverVars
<1>. QED BY <1>1, <1>2, <1>3 DEF Next, Routes

\* The event pipeline, with its promises, timer, retries and halved batches, does
\* to messages only what a bounded first-in first-out queue with at-least-once
\* delivery does.
THEOREM DeliveryCorrect == Spec => ImplementsDelivery
BY TypeInit, ChainInit, OrderInit, TypeNext, ChainNext, OrderNext, DeliveryInit,
   DeliveryNext, PTL DEF Spec, ImplementsDelivery, Delivery!DQSpec

-------------------------------------------------------------------------------
(* Nothing queued is stranded.                                                 *)

\* While no message arrives, a flush empties the routes in turn: the earlier ones
\* are empty, and `left` counts at least what is queued on its own.
Drains(f) ==
    /\ \A s \in Routes : s < run[f].route => queue[s] = {}
    /\ pc[f] = "sending" => /\ run[f].batch \subseteq queue[run[f].route]
                            /\ Cardinality(queue[run[f].route]) <= run[f].left
    /\ pc[f] = "storing" => Cardinality(queue[run[f].route])
                                <= run[f].left - Cardinality(run[f].batch)

\* A flush has failed, will fail, or empties the queues.
WillDrain(f) ==
    \/ pc[f] \in {"starting", "rejected"}
    \/ /\ pc[f] \in {"sending", "storing"}
       /\ run[f].failed \/ (pc[f] = "storing" /\ run[f].thrown) \/ Drains(f)

\* A message that arrives arms the timer, or finds it armed, or stale with the
\* flush pending that will clear it: otherwise the flush under way takes all.
StrandInv ==
    Periodic /\ sd.pc = "none" /\ timer # "armed" /\ (\A f \in Flushes : pc[f] # "waiting")
        => Queued = {} \/ \E f \in Flushes : WillDrain(f)

\* Nothing is queued at first.
LEMMA StrandInit == Init => StrandInv
BY DEF Init, StrandInv, Queued

\* _flush goes on to the next route that holds something, or all are empty.
LEMMA ProceedDrains ==
    ASSUME TInv, NEW f \in Flushes, NEW k \in Nat \ {0}, NEW failed \in BOOLEAN,
           Proceed(f, k, failed), UNCHANGED queue,
           failed \/ \A s \in Routes : s < k => queue[s] = {}
    PROVE  WillDrain(f)' \/ Queued' = {}
<1>. DEFINE rest == {s \in k..NRoutes : queue[s] # {}}
            r == Smallest(rest)
<1>1. CASE rest # {}
  <2>1. /\ pc' = [pc EXCEPT ![f] = "sending"]
        /\ run' = [run EXCEPT ![f] = NextBatch(r, Cardinality(queue[r]), failed)]
      BY <1>1 DEF Proceed
  <2>2. r \in Routes /\ \A s \in rest : r <= s
    <3>1. rest \subseteq Nat /\ rest \subseteq Routes
        BY ConstantsAssumption DEF Routes
    <3>. QED BY <1>1, <3>1, SmallestIsLeast
  <2>3. \A s \in Routes : s < r /\ ~failed => queue[s] = {}
    <3>1. \A s \in Routes : s < r => s \notin rest /\ s \in Int
        BY <2>2 DEF Routes
    <3>2. \A s \in Routes : s \in rest \/ s < k \/ queue[s] = {}
        BY ConstantsAssumption DEF Routes
    <3>. QED BY <3>1, <3>2
  <2>. HIDE DEF r, rest
  <2>4. /\ pc'[f] = "sending" /\ run'[f].route = r /\ run'[f].failed = failed
        /\ run'[f].left = Cardinality(queue[r])
        /\ run'[f].batch = Slice(queue[r], maxBatch)
      BY <2>1 DEF NextBatch, TInv, TypeOK
  <2>5. Cardinality(queue[r]) \in Nat
      BY <2>2, QueueIsFinite DEF TInv
  <2>. QED BY <2>3, <2>4, <2>5, SliceIsSubset DEF WillDrain, Drains
<1>2. CASE rest = {}
  <2>1. pc'[f] = IF failed THEN "rejected" ELSE "resolved"
      BY <1>2 DEF Proceed, TInv, TypeOK
  <2>2. CASE failed
      BY <2>1, <2>2 DEF WillDrain
  <2>3. CASE \A s \in Routes : s < k => queue[s] = {}
    <3>1. \A s \in Routes : s < k \/ s \in k..NRoutes
        BY ConstantsAssumption DEF Routes
    <3>. QED BY <1>2, <2>3, <3>1 DEF Queued
  <2>. QED BY <2>2, <2>3
<1>. QED BY <1>1, <1>2

\* An accepted batch leaves the queue shorter by its length.
LEMMA AcceptedDrains ==
    ASSUME TInv, NEW f \in Flushes, WillDrain(f), BatchAccepted(f)
    PROVE  WillDrain(f)'
<1>. DEFINE r == run[f].route
            B == run[f].batch
<1>1. /\ queue' = [queue EXCEPT ![r] = @ \ B] /\ pc' = [pc EXCEPT ![f] = "storing"]
      /\ run' = [run EXCEPT ![f].thrown = FALSE] /\ pc[f] = "sending"
    BY DEF BatchAccepted, PersistQueueChange, RemoveFromQueue
<1>2. r \in Routes
    BY <1>1 DEF TInv, BatchesTyped
<1>3. queue'[r] = queue[r] \ B /\ \A s \in Routes : s # r => queue'[s] = queue[s]
    BY <1>1, <1>2 DEF TInv, TypeOK
<1>4. /\ pc'[f] = "storing" /\ run'[f].route = r /\ run'[f].batch = B
      /\ run'[f].left = run[f].left /\ run'[f].failed = run[f].failed
    BY <1>1 DEF TInv, TypeOK
<1>5. CASE run[f].failed
    BY <1>4, <1>5 DEF WillDrain
<1>6. CASE Drains(f)
  <2>1. B \subseteq queue[r] /\ Cardinality(queue[r]) <= run[f].left
      BY <1>1, <1>6 DEF Drains
  <2>2. IsFiniteSet(queue[r]) /\ Cardinality(queue[r]) \in Nat
      BY <1>2, QueueIsFinite DEF TInv
  <2>3. queue[r] \cap B = B
      BY <2>1
  <2>4. Cardinality(queue'[r]) = Cardinality(queue[r]) - Cardinality(B)
    <3>1. Cardinality(queue[r] \ B) = Cardinality(queue[r]) - Cardinality(queue[r] \cap B)
        BY <2>2, FS_Difference
    <3>. QED BY <3>1, <1>3, <2>3
  <2>5. Cardinality(B) \in Nat /\ run[f].left \in Int
      BY <2>1, <2>2, FS_Subset, FS_CardinalityType DEF TInv, TypeOK, RunRecord
  <2>6. \A s \in Routes : s < r => queue'[s] = {}
      BY <1>2, <1>3, <1>6 DEF Drains, Routes
  <2>. QED BY <1>4, <2>1, <2>2, <2>4, <2>5, <2>6 DEF WillDrain, Drains
<1>. QED BY <1>1, <1>5, <1>6 DEF WillDrain

\* A route is left when it is empty, as `left` counts all that is queued.
LEMMA StorageDrains ==
    ASSUME TInv, NEW f \in Flushes, WillDrain(f), StorageFlushed(f)
    PROVE  WillDrain(f)' \/ Queued' = {}
<1>. DEFINE r == run[f].route
            left2 == run[f].left - Cardinality(run[f].batch)
            again == ~run[f].thrown /\ queue[r] # {} /\ left2 > 0
<1>1. pc[f] = "storing" /\ UNCHANGED queue
    BY DEF StorageFlushed, queueVars
<1>2. /\ r \in Routes /\ r + 1 \in Nat \ {0}
      /\ IsFiniteSet(queue[r]) /\ Cardinality(queue[r]) \in Nat
    BY <1>1, QueueIsFinite, ConstantsAssumption DEF TInv, BatchesTyped, Routes
<1>3. run[f].failed \in BOOLEAN /\ run[f].thrown \in BOOLEAN /\ left2 \in Int
  <2>1. run[f].batch \subseteq 1..tickets /\ tickets \in Nat
      BY ConstantsAssumption DEF TInv, TypeOK, BatchesTyped
  <2>2. Cardinality(run[f].batch) \in Nat
      BY <2>1, FiniteInterval
  <2>. QED BY <2>2 DEF TInv, TypeOK, RunRecord
<1>4. CASE again
  <2>1. /\ pc' = [pc EXCEPT ![f] = "sending"]
        /\ run' = [run EXCEPT ![f] = NextBatch(r, left2, run[f].failed)]
      BY <1>4 DEF StorageFlushed
  <2>2. /\ pc'[f] = "sending" /\ run'[f].route = r /\ run'[f].left = left2
        /\ run'[f].failed = run[f].failed /\ run'[f].batch = Slice(queue[r], maxBatch)
      BY <2>1 DEF NextBatch, TInv, TypeOK
  <2>. QED BY <1>1, <1>4, <2>2, SliceIsSubset DEF WillDrain, Drains
<1>5. CASE ~again
  <2>1. Proceed(f, r + 1, run[f].failed \/ run[f].thrown)
      BY <1>5 DEF StorageFlushed
  <2>2. (run[f].failed \/ run[f].thrown) \/ \A s \in Routes : s < r + 1 => queue[s] = {}
    <3>1. SUFFICES ASSUME ~run[f].failed, ~run[f].thrown
                   PROVE  \A s \in Routes : s < r + 1 => queue[s] = {}
        OBVIOUS
    <3>2. Drains(f)
        BY <1>1, <3>1 DEF WillDrain
    <3>3. queue[r] = {}
      <4>1. Cardinality(queue[r]) <= left2
          BY <1>1, <3>2 DEF Drains
      <4>2. queue[r] = {} \/ Cardinality(queue[r]) = 0
          BY <1>2, <1>3, <1>5, <3>1, <4>1
      <4>. QED BY <1>2, <4>2, FS_EmptySet
    <3>4. \A s \in Routes : s < r + 1 => s = r \/ s < r
        BY <1>2 DEF Routes
    <3>. QED BY <3>2, <3>3, <3>4 DEF Drains
  <2>3. (run[f].failed \/ run[f].thrown) \in BOOLEAN
      BY <1>3
  <2>. QED BY <1>1, <1>2, <2>1, <2>2, <2>3, ProceedDrains
<1>. QED BY <1>4, <1>5

\* Once it has started, a flush keeps draining, whatever the answers.
LEMMA AnswerDrains ==
    ASSUME TInv, NEW f \in Flushes, WillDrain(f),
           BeginFlush(f) \/ Answer(f) \/ StorageFlushed(f)
    PROVE  WillDrain(f)' \/ Queued' = {}
<1>1. CASE BeginFlush(f)
  <2>1. Proceed(f, 1, FALSE) /\ UNCHANGED queue
      BY <1>1 DEF BeginFlush, queueVars
  <2>2. 1 \in Nat \ {0} /\ FALSE \in BOOLEAN /\ \A s \in Routes : ~(s < 1)
      BY DEF Routes
  <2>. QED BY <2>1, <2>2, ProceedDrains
<1>2. ASSUME RetryBatch(f), pc[f] = "sending" PROVE WillDrain(f)'
  <2>1. /\ run'[f].route = run[f].route /\ run'[f].left = run[f].left
        /\ run'[f].batch = run[f].batch /\ run'[f].failed = run[f].failed
      BY <1>2 DEF RetryBatch, TInv, TypeOK
  <2>2. UNCHANGED <<queue, pc>>
      BY <1>2 DEF RetryBatch
  <2>. QED BY <2>1, <2>2, <1>2 DEF WillDrain, Drains
<1>3. CASE BatchAccepted(f)
    BY <1>3, AcceptedDrains
<1>4. CASE BatchLost(f)
  <2>1. /\ pc[f] = "sending" /\ run[f].route + 1 \in Nat \ {0}
      BY <1>4, ConstantsAssumption DEF BatchLost, TInv, BatchesTyped, Routes
  <2>2. CASE RetryBatch(f)
      BY <1>2, <2>1, <2>2
  <2>3. CASE Proceed(f, run[f].route + 1, TRUE) /\ UNCHANGED queue
    <3>1. TRUE \in BOOLEAN
        OBVIOUS
    <3>. QED BY <2>1, <2>3, <3>1, ProceedDrains
  <2>. QED BY <1>4, <2>2, <2>3 DEF BatchLost
<1>5. CASE BatchRefused(f)
  <2>1. CASE DropBatch(f)
    <3>1. pc'[f] = "storing" /\ run'[f].thrown
        BY <2>1 DEF DropBatch, PersistQueueChange, RemoveFromQueue, TInv, TypeOK, RunRecord
    <3>. QED BY <3>1 DEF WillDrain
  <2>. QED BY <1>2, <1>5, <2>1 DEF BatchRefused
<1>6. CASE BatchTooLarge(f)
  <2>. DEFINE B == Slice(queue[run[f].route], Half(f))
  <2>1. /\ run' = [run EXCEPT ![f].batch = B, ![f].tries = 0]
        /\ pc[f] = "sending" /\ UNCHANGED <<pc, queue>>
      BY <1>6 DEF BatchTooLarge, Shrink, flushVars, queueVars
  <2>2. /\ run'[f].route = run[f].route /\ run'[f].left = run[f].left
        /\ run'[f].failed = run[f].failed /\ run'[f].batch \subseteq queue[run[f].route]
    <3>. HIDE DEF B
    <3>1. /\ run'[f].route = run[f].route /\ run'[f].left = run[f].left
          /\ run'[f].failed = run[f].failed /\ run'[f].batch = B
        BY <2>1 DEF TInv, TypeOK, RunRecord
    <3>. QED BY <3>1, SliceIsSubset DEF B
  <2>. QED BY <2>1, <2>2 DEF WillDrain, Drains
<1>7. CASE StorageFlushed(f)
    BY <1>7, StorageDrains
<1>. QED BY <1>1, <1>3, <1>4, <1>5, <1>6, <1>7 DEF Answer

\* A running flush touches neither the other flushes nor the timer.
LEMMA AnswerFrame ==
    ASSUME TInv, NEW f \in Flushes, BeginFlush(f) \/ Answer(f) \/ StorageFlushed(f)
    PROVE  /\ UNCHANGED timer /\ sd'.pc = sd.pc /\ pc[f] \in Running /\ pc'[f] # "waiting"
           /\ \A g \in Flushes : g # f => pc'[g] = pc[g] /\ run'[g] = run[g]
           /\ \A r \in Routes : queue'[r] \subseteq queue[r]
<1>1. /\ UNCHANGED timer /\ sd'.pc = sd.pc /\ pc[f] \in Running
    BY DEF BeginFlush, Answer, BatchAccepted, BatchLost, BatchRefused, BatchTooLarge,
           Shrink, DropBatch, RetryBatch, PersistQueueChange, RemoveFromQueue,
           StorageFlushed, Running, TInv, TypeOK
<1>2. /\ pc'[f] # "waiting"
      /\ \A g \in Flushes : g # f => pc'[g] = pc[g] /\ run'[g] = run[g]
  <2>1. ASSUME NEW k, NEW failed, Proceed(f, k, failed)
        PROVE  /\ pc'[f] # "waiting"
               /\ \A g \in Flushes : g # f => pc'[g] = pc[g] /\ run'[g] = run[g]
      BY <2>1 DEF Proceed, TInv, TypeOK
  <2>2. CASE StorageFlushed(f)
    <3>1. CASE \E left : /\ pc' = [pc EXCEPT ![f] = "sending"]
                   /\ run' = [run EXCEPT ![f] = NextBatch(run[f].route, left, run[f].failed)]
        BY <3>1 DEF TInv, TypeOK
    <3>. QED BY <2>1, <2>2, <3>1 DEF StorageFlushed
  <2>. QED BY <2>1, <2>2
           DEF BeginFlush, Answer, BatchAccepted, BatchLost, BatchRefused, BatchTooLarge,
               Shrink, DropBatch, RetryBatch, PersistQueueChange, RemoveFromQueue,
               flushVars, TInv, TypeOK
<1>3. \A r \in Routes : queue'[r] \subseteq queue[r]
  <2>1. CASE UNCHANGED queue
      BY <2>1
  <2>2. CASE queue' = [queue EXCEPT ![run[f].route] = @ \ run[f].batch]
      BY <2>2 DEF TInv, TypeOK
  <2>. QED BY <2>1, <2>2
           DEF BeginFlush, Answer, BatchAccepted, BatchLost, BatchRefused, BatchTooLarge,
               Shrink, DropBatch, RetryBatch, PersistQueueChange, RemoveFromQueue,
               StorageFlushed, queueVars
<1>. QED BY <1>1, <1>2, <1>3

\* A flush that is new, or about to start, is in time for what is queued.
LEMMA StrandNewFlush ==
    ASSUME TInv, ChainInv, NEW f \in Flushes, pc'[f] = "waiting"
    PROVE  StrandInv'
BY DEF StrandInv

\* enqueue leaves the timer armed, or a flush pending.
LEMMA StrandPush ==
    ASSUME TInv, ChainInv, NEW c, NEW r, Push(c, r)
    PROVE  StrandInv'
<1>1. CASE timer = "fired"
  <2>1. pending \in Flushes /\ pc[pending] = "waiting"
      BY <1>1, ConstantsAssumption DEF ChainInv, StaleTimerIsCleared, TInv, TypeOK, Flushes
  <2>2. UNCHANGED flushVars
      BY <2>1, ConstantsAssumption DEF Push, FlushBackground, TInv, TypeOK, Flushes,
         ChainInv, StaleTimerIsCleared
  <2>. QED BY <2>1, <2>2 DEF StrandInv, flushVars
<1>2. CASE timer # "fired"
    BY <1>2 DEF Push, StrandInv, TInv, TypeOK
<1>. QED BY <1>1, <1>2

\* Every step keeps what is queued attended.
LEMMA StrandNext == TInv /\ ChainInv /\ StrandInv /\ [Next]_vars => StrandInv'
<1>. SUFFICES ASSUME TInv, ChainInv, StrandInv, [Next]_vars PROVE StrandInv'
    OBVIOUS
<1>1. ASSUME UNCHANGED <<queue, timer, pc, run>>, sd'.pc = sd.pc \/ sd'.pc # "none"
      PROVE  StrandInv'
    BY <1>1 DEF StrandInv, WillDrain, Drains, Queued
<1>2. ASSUME NEW cov, NewFlush(cov) PROVE StrandInv'
  <2>1. created + 1 \in Flushes /\ pc'[created + 1] = "waiting"
      BY <1>2, ConstantsAssumption DEF NewFlush, Flushes, TInv, TypeOK
  <2>. QED BY <2>1, StrandNewFlush
<1>3. ASSUME Application \/ CaptureSettles PROVE StrandInv'
  <2>1. CASE \E c, r : Push(c, r)
      BY <2>1, StrandPush
  <2>2. CASE CallFlush
      BY <1>1, <1>2, <2>2 DEF CallFlush, Flush, JoinFlush, Join, flushVars, queueVars
  <2>3. CASE BeginShutdown
    <3>1. sd'.pc = "joining"
        BY <2>3 DEF BeginShutdown, TInv, TypeOK
    <3>. QED BY <3>1 DEF StrandInv
  <2>4. CASE UNCHANGED <<queue, timer, pc, run, sd>>
      BY <1>1, <2>4
  <2>. QED BY <1>3, <2>1, <2>2, <2>3, <2>4
           DEF Application, CaptureSettles, Capture, BeginCapture, SetOptedOut,
               DiscardCapture, FinishCapture, flushVars, queueVars
<1>4. CASE TimerFires
  <2>1. CASE pending # 0 /\ UNCHANGED flushVars
    <3>1. pending \in Flushes /\ pc'[pending] = "waiting"
        BY <2>1, ConstantsAssumption
           DEF ChainInv, PendingWaits, flushVars, TInv, TypeOK, Flushes
    <3>. QED BY <3>1, StrandNewFlush
  <2>. QED BY <1>2, <1>4, <2>1 DEF TimerFires, FlushBackground
<1>5. ASSUME NEW f \in Flushes, FlushStep(f) PROVE StrandInv'
  <2>1. CASE StartFlush(f)
    <3>1. pc'[f] = "starting"
        BY <2>1 DEF StartFlush, Start, TInv, TypeOK
    <3>. QED BY <3>1 DEF StrandInv, WillDrain
  <2>2. CASE BeginFlush(f) \/ Answer(f) \/ StorageFlushed(f)
    <3>1. SUFFICES ASSUME Periodic, sd.pc = "none", timer # "armed",
                          \A g \in Flushes : pc[g] # "waiting"
                   PROVE  Queued' = {} \/ \E g \in Flushes : WillDrain(g)'
      <4>1. (\A g \in Flushes : pc'[g] # "waiting")
                => \A g \in Flushes : pc[g] # "waiting"
          BY <2>2, AnswerFrame DEF Running
      <4>. QED BY <2>2, <4>1, AnswerFrame DEF StrandInv
    <3>2. CASE Queued = {}
        BY <2>2, <3>2, AnswerFrame DEF Queued
    <3>3. ASSUME NEW g \in Flushes, WillDrain(g) PROVE WillDrain(g)' \/ Queued' = {}
      <4>1. CASE pc[g] \in Running
        <5>1. g = f
            BY <2>2, <4>1, AnswerFrame, RunningAlone DEF OneFlushRuns
        <5>. QED BY <2>2, <3>3, <5>1, AnswerDrains
      <4>2. CASE pc[g] = "rejected"
        <5>1. pc'[g] = "rejected"
            BY <2>2, <4>2, AnswerFrame DEF Running
        <5>. QED BY <5>1 DEF WillDrain
      <4>. QED BY <3>3, <4>1, <4>2 DEF WillDrain, Running
    <3>. QED BY <3>1, <3>2, <3>3 DEF StrandInv
  <2>. QED BY <1>5, <2>1, <2>2 DEF FlushStep
<1>6. ASSUME ShutdownStep \/ ShutdownTimesOut PROVE StrandInv'
  <2>. SUFFICES sd'.pc # "none"
      BY DEF StrandInv
  <2>1. CASE JoinRejected \/ JoinResolved
      BY <2>1 DEF JoinRejected, JoinResolved, JoinAgain, TInv, TypeOK
  <2>2. CASE DrainFlush \/ DrainFinished \/ ShutdownTimesOut
      BY <2>2 DEF DrainFlush, DrainFinished, ShutdownTimesOut, TInv, TypeOK
  <2>3. CASE DrainFlushed
      BY <2>3 DEF DrainFlushed, TInv, TypeOK
  <2>. QED BY <1>6, <2>1, <2>2, <2>3 DEF ShutdownStep
<1>7. CASE UNCHANGED vars
    BY <1>1, <1>7 DEF vars, flushVars, queueVars
<1>. QED BY <1>3, <1>4, <1>5, <1>6, <1>7 DEF Next

\* With a timer for flushes (Periodic), while no flush has failed and shutdown was not
\* called, whatever is queued, the timer is armed or a flush is under way: the handle that outlives its callback
\* never keeps a message from being flushed.
THEOREM NothingIsStranded == Spec => []NothingStranded
<1>1. TypeOK /\ StrandInv => NothingStranded
  <2>. SUFFICES ASSUME TypeOK, StrandInv, Periodic, Queued # {}, sd.pc = "none",
                       \A f \in Flushes : pc[f] # "rejected", timer # "armed"
                PROVE  Unsettled # {}
      BY DEF NothingStranded
  <2>1. PICK f \in Flushes : pc[f] \in {"waiting", "starting", "sending", "storing"}
      BY DEF StrandInv, WillDrain
  <2>. QED BY <2>1 DEF Unsettled, Settled
<1>2. TInv => TypeOK
    BY DEF TInv
<1>. QED BY <1>1, <1>2, TypeInit, ChainInit, StrandInit, TypeNext, ChainNext, StrandNext,
            PTL DEF Spec

-------------------------------------------------------------------------------
(* flush() keeps its promise.                                                  *)

\* A promise is about captures begun and messages pushed, and no capture is
\* waited for once the flush has started.
WaitInv == \A f \in Flushes :
    /\ waits[f] \subseteq 1..begun /\ covers[f] \subseteq 1..tickets
    /\ pc[f] \in Running => waits[f] \cap preparing = {}

\* What is as old as something promised, on one route.
Older(f, r) == {m \in queue[r] : \E c \in covers[f] \cap queue[r] : m <= c}

\* A flush that has not failed has emptied the earlier routes of what it
\* promised, and `left` bounds what its own route still holds of that: the batch
\* in flight holds all of it, or counts against `left` no more than it takes.
Keeps(f) ==
    LET r == run[f].route
        old == Older(f, r)
        after == run[f].left - Cardinality(run[f].batch)
    IN  /\ \A s \in Routes : s < r => covers[f] \cap queue[s] = {}
        /\ pc[f] = "sending" =>
              /\ Cardinality(old) <= run[f].left
              /\ old \subseteq run[f].batch \/ Cardinality(old \ run[f].batch) <= after
        /\ pc[f] = "storing" => old = {} \/ Cardinality(old) <= after

WillKeep(f) == run[f].failed \/ (pc[f] = "storing" /\ run[f].thrown) \/ Keeps(f)

KeepInv == \A f \in Flushes : pc[f] \in {"sending", "storing"} => WillKeep(f)

\* No flush exists at first.
LEMMA KeepInit == Init => WaitInv /\ KeepInv
BY DEF Init, WaitInv, KeepInv, Running

\* A new flush waits for pending captures, and promises what is queued.
LEMMA WaitNewFlush ==
    ASSUME TInv, NEW covered \in [Flushes -> SUBSET Nat], NewFlush(covered)
    PROVE  \A f \in Flushes :
             \/ waits'[f] = waits[f] /\ covers'[f] = covered[f] /\ pc'[f] = pc[f]
             \/ /\ waits'[f] \subseteq 1..begun /\ covers'[f] \subseteq 1..tickets
                /\ pc'[f] \notin Running
<1>1. Queued \subseteq 1..tickets /\ preparing \subseteq 1..begun
    BY QueuedAreMessages DEF TInv, TypeOK
<1>. QED BY <1>1 DEF NewFlush, TInv, TypeOK, Running

\* enqueue adds its message to the promises of the flushes that wait for it.
LEMMA WaitPush ==
    ASSUME TInv, WaitInv, NEW c, NEW r \in Routes, Push(c, r),
           c \in preparing \/ c = begun + 1
    PROVE  \A f \in Flushes :
             /\ waits'[f] \subseteq 1..begun /\ covers'[f] \subseteq 1..tickets'
             /\ pc'[f] \in Running => /\ pc'[f] = pc[f] /\ waits'[f] = waits[f]
                                      /\ covers'[f] = covers[f]
<1>. DEFINE t == tickets + 1
            covered == [f \in Flushes |-> IF c \in waits[f] THEN covers[f] \cup {t}
                                                            ELSE covers[f]]
<1>1. tickets' = t /\ tickets \in Nat /\ begun \in Nat
    BY ConstantsAssumption DEF Push, TInv, TypeOK
<1>2. 1..tickets \subseteq 1..t /\ t \in 1..t /\ begun + 1 \notin 1..begun
    BY <1>1
<1>3. \A f \in Flushes : covered[f] \subseteq 1..t
    BY <1>2 DEF WaitInv
<1>4. \A f \in Flushes : pc[f] \in Running => covered[f] = covers[f]
    BY <1>2 DEF WaitInv
<1>. covered \in [Flushes -> SUBSET Nat]
  <2>1. 1..t \subseteq Nat
      BY <1>1
  <2>. QED BY <1>3, <2>1
<1>5. CASE covers' = covered /\ UNCHANGED flushVars
    BY <1>1, <1>3, <1>4, <1>5 DEF WaitInv, flushVars
<1>6. CASE NewFlush(covered)
    BY <1>1, <1>2, <1>3, <1>4, <1>6, WaitNewFlush DEF WaitInv
<1>. QED BY <1>1, <1>5, <1>6 DEF Push, FlushBackground

\* A running flush neither captures nor pushes.
LEMMA AnswerCounts ==
    ASSUME NEW f, BeginFlush(f) \/ Answer(f) \/ StorageFlushed(f)
    PROVE  UNCHANGED <<begun, tickets, preparing>>
BY DEF BeginFlush, Answer, BatchAccepted, BatchLost, BatchRefused, BatchTooLarge,
       Shrink, StorageFlushed, queueVars

\* A flush that proceeds has its promises, or gives them up with its promise.
LEMMA WaitAnswer ==
    ASSUME TInv, WaitInv, NEW f \in Flushes, BeginFlush(f) \/ Answer(f) \/ StorageFlushed(f)
    PROVE  /\ UNCHANGED <<begun, tickets, preparing>>
           /\ \A g \in Flushes :
                \/ waits'[g] = waits[g] /\ covers'[g] = covers[g]
                \/ waits'[g] = {} /\ covers'[g] = {} /\ pc'[g] \in Settled
           /\ pc'[f] \in Running => covers'[f] = covers[f]
<1>1. UNCHANGED <<begun, tickets, preparing>>
    BY AnswerCounts
<1>2. ASSUME NEW k, NEW failed, Proceed(f, k, failed)
      PROVE  /\ \A g \in Flushes :
                \/ waits'[g] = waits[g] /\ covers'[g] = covers[g]
                \/ waits'[g] = {} /\ covers'[g] = {} /\ pc'[g] \in Settled
             /\ pc'[f] \in Running => covers'[f] = covers[f]
    BY <1>2 DEF Proceed, TInv, TypeOK, Settled, Running
<1>3. CASE UNCHANGED <<waits, covers>>
    BY <1>1, <1>3
<1>. QED BY <1>1, <1>2, <1>3
         DEF BeginFlush, Answer, BatchAccepted, BatchLost, BatchRefused, BatchTooLarge,
             Shrink, DropBatch, RetryBatch, PersistQueueChange, RemoveFromQueue,
             StorageFlushed, flushVars

\* Every step keeps it.
LEMMA WaitNext == TInv /\ ChainInv /\ WaitInv /\ [Next]_vars => WaitInv'
<1>. SUFFICES ASSUME TInv, ChainInv, WaitInv, [Next]_vars PROVE WaitInv'
    OBVIOUS
<1>1. tickets \in Nat /\ begun \in Nat /\ preparing \subseteq 1..begun
      /\ 1..begun \subseteq 1..(begun + 1) /\ begun + 1 \notin 1..begun
    BY ConstantsAssumption DEF TInv, TypeOK
<1>. covers \in [Flushes -> SUBSET Nat]
  <2>1. Messages \subseteq Nat
      BY DEF Messages
  <2>. QED BY <2>1 DEF TInv, TypeOK
<1>2. ASSUME NEW c, NEW r \in Routes, Push(c, r),
             \/ c \in preparing /\ begun' = begun /\ preparing' = preparing \ {c}
             \/ c = begun + 1 /\ begun' = begun + 1 /\ preparing' = preparing
      PROVE  WaitInv'
    BY <1>1, <1>2, WaitPush DEF WaitInv
<1>3. ASSUME UNCHANGED <<tickets, waits, covers, pc>>,
             \/ begun' = begun + 1 /\ preparing' = preparing \cup {begun + 1}
             \/ begun' = begun /\ preparing' \subseteq preparing
      PROVE  WaitInv'
    BY <1>1, <1>3 DEF WaitInv
<1>4. ASSUME NewFlush(covers), UNCHANGED <<tickets, begun, preparing>> PROVE WaitInv'
    BY <1>1, <1>4, WaitNewFlush DEF WaitInv
<1>5. ASSUME Flush, UNCHANGED <<tickets, begun, preparing>> PROVE WaitInv'
  <2>1. CASE JoinFlush
    <3>1. Queued \subseteq 1..tickets
        BY QueuedAreMessages DEF TInv
    <3>2. \A f \in Flushes : covers'[f] \subseteq covers[f] \cup Queued
        BY <2>1 DEF JoinFlush, Join, TInv, TypeOK
    <3>. QED BY <1>5, <2>1, <3>1, <3>2 DEF JoinFlush, Join, flushVars, WaitInv
  <2>. QED BY <1>4, <1>5, <2>1 DEF Flush
<1>6. CASE Application \/ CaptureSettles
  <2>1. CASE \E r \in Routes : Capture(r)
      BY <1>2, <2>1 DEF Capture
  <2>2. CASE BeginCapture
      BY <1>3, <2>2 DEF BeginCapture, queueVars, flushVars
  <2>3. CASE \E v \in BOOLEAN : SetOptedOut(v)
      BY <1>3, <2>3 DEF SetOptedOut, queueVars, flushVars
  <2>4. CASE CallFlush
      BY <1>5, <2>4 DEF CallFlush, queueVars
  <2>5. CASE BeginShutdown
      BY <1>3, <2>5 DEF BeginShutdown, others, queueVars, flushVars
  <2>6. CASE CaptureSettles
    <3>1. ASSUME NEW c \in Captures, DiscardCapture(c) PROVE WaitInv'
        BY <1>3, <3>1 DEF DiscardCapture, queueVars, flushVars
    <3>2. ASSUME NEW c \in Captures, NEW r \in Routes, FinishCapture(c, r) PROVE WaitInv'
        BY <1>2, <3>2 DEF FinishCapture
    <3>. QED BY <2>6, <3>1, <3>2 DEF CaptureSettles
  <2>. QED BY <1>6, <2>1, <2>2, <2>3, <2>4, <2>5, <2>6 DEF Application
<1>7. CASE TimerFires
    BY <1>3, <1>4, <1>7 DEF TimerFires, FlushBackground, queueVars, flushVars
<1>8. ASSUME NEW f \in Flushes, FlushStep(f) PROVE WaitInv'
  <2>1. CASE StartFlush(f)
      BY <2>1 DEF StartFlush, Start, CapturesDone, WaitInv, queueVars, TInv, TypeOK
  <2>2. CASE BeginFlush(f) \/ Answer(f) \/ StorageFlushed(f)
    <3>1. \A g \in Flushes : pc'[g] \in Running => pc[g] \in Running
        BY <2>2, AnswerFrame
    <3>2. \A g \in Flushes : pc'[g] \in Settled => pc'[g] \notin Running
        BY DEF Settled, Running
    <3>. QED BY <2>2, <3>1, <3>2, WaitAnswer DEF WaitInv
  <2>. QED BY <1>8, <2>1, <2>2 DEF FlushStep
<1>9. CASE ShutdownStep \/ ShutdownTimesOut \/ UNCHANGED vars
  <2>1. CASE DrainFlush
      BY <1>5, <2>1 DEF DrainFlush, others, queueVars
  <2>2. CASE UNCHANGED <<others, covers, flushVars>>
      BY <1>3, <2>2 DEF others, queueVars, flushVars
  <2>. QED BY <1>9, <2>1, <2>2
           DEF ShutdownStep, JoinRejected, JoinResolved, JoinAgain, DrainFinished,
               DrainFlushed, ShutdownTimesOut, vars, others
<1>. QED BY <1>6, <1>7, <1>8, <1>9 DEF Next

\* A batch taken from the front of a queue holds all that is as old as something
\* promised, or nothing else.
LEMMA BatchCounts ==
    ASSUME TInv, NEW f \in Flushes, NEW r \in Routes, NEW n \in Nat, NEW left \in Int,
           Cardinality(Older(f, r)) <= left
    PROVE  LET B == Slice(queue[r], n) IN
           \/ Older(f, r) \subseteq B
           \/ Cardinality(Older(f, r) \ B) <= left - Cardinality(B)
<1>. DEFINE B == Slice(queue[r], n)
            old == Older(f, r)
<1>. SUFFICES ASSUME NEW o \in old, o \notin B
              PROVE  Cardinality(old \ B) <= left - Cardinality(B)
    OBVIOUS
<1>1. queue[r] \subseteq Nat /\ IsFiniteSet(queue[r])
    BY QueueIsFinite DEF TInv
<1>2. old \subseteq queue[r] /\ B \subseteq queue[r]
    BY SliceIsSubset DEF Older
<1>3. ASSUME NEW b \in B PROVE b \in old
  <2>1. ~(o < b)
      BY <1>1, <1>2, SliceIsPrefix
  <2>2. PICK c \in covers[f] \cap queue[r] : o <= c
      BY DEF Older
  <2>3. b \in Nat /\ o \in Nat /\ c \in Nat
      BY <1>1, <1>2
  <2>4. b <= c
      BY <2>1, <2>2, <2>3
  <2>. QED BY <1>2, <2>2, <2>4 DEF Older
<1>4. IsFiniteSet(old) /\ Cardinality(old) \in Nat
    BY <1>1, <1>2, FS_Subset, FS_CardinalityType
<1>5. old \cap B = B
    BY <1>3
<1>. HIDE DEF B, old
<1>6. IsFiniteSet(B) /\ Cardinality(B) \in Nat
    BY <1>4, <1>5, FS_Intersection, FS_CardinalityType
<1>7. Cardinality(old \ B) = Cardinality(old) - Cardinality(B)
  <2>1. Cardinality(old \ B) = Cardinality(old) - Cardinality(old \cap B)
      BY <1>4, FS_Difference
  <2>. QED BY <1>5, <2>1
<1>8. Cardinality(old) <= left
    BY DEF old
<1>. QED BY <1>4, <1>6, <1>7, <1>8

\* So the bound holds for a batch just taken.
LEMMA TakenKeeps ==
    ASSUME TInv, NEW f \in Flushes, pc'[f] = "sending", UNCHANGED queue,
           covers'[f] = covers[f], NEW r \in Routes, NEW n \in Nat, run'[f].route = r,
           run'[f].batch = Slice(queue[r], n), run'[f].left \in Int,
           Cardinality(Older(f, r)) <= run'[f].left,
           \A s \in Routes : s < r => covers[f] \cap queue[s] = {}
    PROVE  Keeps(f)'
<1>1. Older(f, r)' = Older(f, r)
    BY DEF Older
<1>2. \/ Older(f, r) \subseteq run'[f].batch
      \/ Cardinality(Older(f, r) \ run'[f].batch) <= run'[f].left - Cardinality(run'[f].batch)
    BY BatchCounts
<1>. QED BY <1>1, <1>2 DEF Keeps

\* What is promised on a route counts as much as what is queued on it, at most.
LEMMA OlderCount ==
    ASSUME TInv, NEW f \in Flushes, NEW r \in Routes
    PROVE  /\ IsFiniteSet(Older(f, r)) /\ Cardinality(Older(f, r)) \in Nat
           /\ Cardinality(Older(f, r)) <= Cardinality(queue[r])
           /\ covers[f] \cap queue[r] \subseteq Older(f, r)
<1>1. IsFiniteSet(queue[r]) /\ queue[r] \subseteq Nat /\ Older(f, r) \subseteq queue[r]
    BY QueueIsFinite DEF TInv, Older
<1>2. covers[f] \cap queue[r] \subseteq Older(f, r)
    BY <1>1 DEF Older
<1>. QED BY <1>1, <1>2, FS_Subset, FS_CardinalityType

\* What a settling flush has kept.
Kept(f) == pc'[f] = "resolved" => covers[f] \cap Queued' = {}

\* _flush goes on to the next route that holds something, or has kept its promise.
LEMMA ProceedKeeps ==
    ASSUME TInv, NEW f \in Flushes, NEW k \in Nat \ {0}, NEW failed \in BOOLEAN,
           Proceed(f, k, failed), UNCHANGED queue,
           failed \/ \A s \in Routes : s < k => covers[f] \cap queue[s] = {}
    PROVE  Kept(f) /\ (pc'[f] \in {"sending", "storing"} => WillKeep(f)')
<1>. DEFINE rest == {s \in k..NRoutes : queue[s] # {}}
            r == Smallest(rest)
<1>1. CASE rest # {}
  <2>1. /\ pc' = [pc EXCEPT ![f] = "sending"] /\ UNCHANGED covers
        /\ run' = [run EXCEPT ![f] = NextBatch(r, Cardinality(queue[r]), failed)]
      BY <1>1 DEF Proceed
  <2>2. r \in Routes /\ \A s \in rest : r <= s
    <3>1. rest \subseteq Nat /\ rest \subseteq Routes
        BY ConstantsAssumption DEF Routes
    <3>. QED BY <1>1, <3>1, SmallestIsLeast
  <2>3. \A s \in Routes : s < r /\ ~failed => covers[f] \cap queue[s] = {}
    <3>1. \A s \in Routes : s < r => s \notin rest /\ s \in Int
        BY <2>2 DEF Routes
    <3>2. \A s \in Routes : s \in rest \/ s < k \/ queue[s] = {}
        BY ConstantsAssumption DEF Routes
    <3>. QED BY <3>1, <3>2
  <2>. HIDE DEF r, rest
  <2>4. /\ pc'[f] = "sending" /\ run'[f].route = r /\ run'[f].failed = failed
        /\ run'[f].left = Cardinality(queue[r])
        /\ run'[f].batch = Slice(queue[r], maxBatch) /\ maxBatch \in Nat
      BY <2>1 DEF NextBatch, TInv, TypeOK
  <2>5. Cardinality(queue[r]) \in Nat /\ Cardinality(Older(f, r)) <= Cardinality(queue[r])
      BY <2>2, QueueIsFinite, OlderCount DEF TInv
  <2>6. ~failed => Keeps(f)'
      BY <2>1, <2>2, <2>3, <2>4, <2>5, TakenKeeps
  <2>. QED BY <2>4, <2>6 DEF WillKeep, Kept
<1>2. CASE rest = {}
  <2>1. pc'[f] = IF failed THEN "rejected" ELSE "resolved"
      BY <1>2 DEF Proceed, TInv, TypeOK
  <2>2. ~failed => covers[f] \cap Queued' = {}
    <3>1. \A s \in Routes : s < k \/ s \in k..NRoutes
        BY ConstantsAssumption DEF Routes
    <3>. QED BY <1>2, <3>1 DEF Queued
  <2>. QED BY <2>1, <2>2 DEF Kept
<1>. QED BY <1>1, <1>2

\* An accepted batch takes with it all that is promised, or only that.
LEMMA AcceptedKeeps ==
    ASSUME TInv, NEW f \in Flushes, WillKeep(f), BatchAccepted(f)
    PROVE  WillKeep(f)'
<1>. DEFINE r == run[f].route
            B == run[f].batch
            old == Older(f, r)
<1>1. /\ queue' = [queue EXCEPT ![r] = @ \ B] /\ pc' = [pc EXCEPT ![f] = "storing"]
      /\ run' = [run EXCEPT ![f].thrown = FALSE] /\ pc[f] = "sending" /\ UNCHANGED covers
    BY DEF BatchAccepted, PersistQueueChange, RemoveFromQueue
<1>2. r \in Routes
    BY <1>1 DEF TInv, BatchesTyped
<1>3. queue'[r] = queue[r] \ B /\ \A s \in Routes : s # r => queue'[s] = queue[s]
    BY <1>1, <1>2 DEF TInv, TypeOK
<1>4. /\ pc'[f] = "storing" /\ run'[f].route = r /\ run'[f].batch = B
      /\ run'[f].left = run[f].left /\ run'[f].failed = run[f].failed
    BY <1>1 DEF TInv, TypeOK
<1>5. CASE run[f].failed
    BY <1>4, <1>5 DEF WillKeep
<1>6. CASE Keeps(f)
  <2>. DEFINE after == run[f].left - Cardinality(B)
  <2>1. old \subseteq B \/ Cardinality(old \ B) <= after
      BY <1>1, <1>6 DEF Keeps
  <2>2. Older(f, r)' \subseteq old \ B
      BY <1>1, <1>3 DEF Older
  <2>3. IsFiniteSet(old \ B)
      BY <1>2, OlderCount, FS_Difference
  <2>4. Cardinality(Older(f, r)') <= Cardinality(old \ B)
        /\ Cardinality(Older(f, r)') \in Nat /\ Cardinality(old \ B) \in Nat
      BY <2>2, <2>3, FS_Subset, FS_CardinalityType
  <2>5. after \in Int
    <3>1. B \subseteq 1..tickets /\ tickets \in Nat
        BY ConstantsAssumption DEF TInv, TypeOK, BatchesTyped
    <3>2. Cardinality(B) \in Nat
        BY <3>1, FiniteInterval
    <3>. QED BY <3>2 DEF TInv, TypeOK, RunRecord
  <2>6. Older(f, r)' = {} \/ Cardinality(Older(f, r)') <= after
    <3>. HIDE DEF after, old
    <3>. QED BY <2>1, <2>2, <2>4, <2>5
  <2>7. \A s \in Routes : s < r => covers[f] \cap queue'[s] = {}
      BY <1>2, <1>3, <1>6 DEF Keeps, Routes
  <2>. QED BY <1>1, <1>4, <2>6, <2>7 DEF WillKeep, Keeps
<1>. QED BY <1>1, <1>5, <1>6 DEF WillKeep

\* A route is left when nothing promised is left on it.
LEMMA StorageKeeps ==
    ASSUME TInv, NEW f \in Flushes, WillKeep(f), StorageFlushed(f)
    PROVE  Kept(f) /\ (pc'[f] \in {"sending", "storing"} => WillKeep(f)')
<1>. DEFINE r == run[f].route
            left2 == run[f].left - Cardinality(run[f].batch)
            again == ~run[f].thrown /\ queue[r] # {} /\ left2 > 0
<1>1. pc[f] = "storing" /\ UNCHANGED queue
    BY DEF StorageFlushed, queueVars
<1>2. r \in Routes /\ r + 1 \in Nat \ {0}
    BY <1>1, ConstantsAssumption DEF TInv, BatchesTyped, Routes
<1>3. run[f].failed \in BOOLEAN /\ run[f].thrown \in BOOLEAN /\ left2 \in Int
  <2>1. run[f].batch \subseteq 1..tickets /\ tickets \in Nat
      BY ConstantsAssumption DEF TInv, TypeOK, BatchesTyped
  <2>2. Cardinality(run[f].batch) \in Nat
      BY <2>1, FiniteInterval
  <2>. QED BY <2>2 DEF TInv, TypeOK, RunRecord
<1>4. CASE again
  <2>1. /\ pc' = [pc EXCEPT ![f] = "sending"] /\ UNCHANGED covers
        /\ run' = [run EXCEPT ![f] = NextBatch(r, left2, run[f].failed)]
      BY <1>4 DEF StorageFlushed
  <2>2. /\ pc'[f] = "sending" /\ run'[f].route = r /\ run'[f].left = left2
        /\ run'[f].failed = run[f].failed /\ run'[f].batch = Slice(queue[r], maxBatch)
        /\ maxBatch \in Nat
      BY <2>1 DEF NextBatch, TInv, TypeOK
  <2>3. Keeps(f) => Keeps(f)'
    <3>. SUFFICES ASSUME Keeps(f) PROVE Keeps(f)'
        OBVIOUS
    <3>1. Older(f, r) = {} \/ Cardinality(Older(f, r)) <= left2
        BY <1>1 DEF Keeps
    <3>2. Cardinality(Older(f, r)) <= left2
        BY <1>3, <1>4, <3>1, FS_EmptySet
    <3>3. \A s \in Routes : s < r => covers[f] \cap queue[s] = {}
        BY DEF Keeps
    <3>. HIDE DEF r, left2
    <3>. QED BY <1>1, <1>2, <1>3, <2>1, <2>2, <3>2, <3>3, TakenKeeps
  <2>. QED BY <1>4, <2>2, <2>3 DEF WillKeep, Kept
<1>5. CASE ~again
  <2>1. Proceed(f, r + 1, run[f].failed \/ run[f].thrown)
      BY <1>5 DEF StorageFlushed
  <2>2. \/ run[f].failed \/ run[f].thrown
        \/ \A s \in Routes : s < r + 1 => covers[f] \cap queue[s] = {}
    <3>1. SUFFICES ASSUME ~run[f].failed, ~run[f].thrown
                   PROVE  \A s \in Routes : s < r + 1 => covers[f] \cap queue[s] = {}
        OBVIOUS
    <3>2. Keeps(f)
        BY <1>1, <3>1 DEF WillKeep
    <3>3. covers[f] \cap queue[r] = {}
      <4>1. Older(f, r) = {} \/ Cardinality(Older(f, r)) <= left2
          BY <1>1, <3>2 DEF Keeps
      <4>2. queue[r] = {} \/ Older(f, r) = {} \/ Cardinality(Older(f, r)) = 0
          BY <1>2, <1>3, <1>5, <3>1, <4>1, OlderCount
      <4>. QED BY <1>2, <4>2, OlderCount, FS_EmptySet
    <3>4. \A s \in Routes : s < r + 1 => s = r \/ s < r
        BY <1>2 DEF Routes
    <3>. QED BY <3>2, <3>3, <3>4 DEF Keeps
  <2>3. (run[f].failed \/ run[f].thrown) \in BOOLEAN
      BY <1>3
  <2>. QED BY <1>1, <1>2, <2>1, <2>2, <2>3, ProceedKeeps
<1>. QED BY <1>4, <1>5

\* Whatever the answer, a flush goes on keeping its promise, or has kept it.
LEMMA AnswerKeeps ==
    ASSUME TInv, NEW f \in Flushes, pc[f] \in {"sending", "storing"} => WillKeep(f),
           BeginFlush(f) \/ Answer(f) \/ StorageFlushed(f)
    PROVE  Kept(f) /\ (pc'[f] \in {"sending", "storing"} => WillKeep(f)')
<1>1. CASE BeginFlush(f)
  <2>1. Proceed(f, 1, FALSE) /\ UNCHANGED queue
      BY <1>1 DEF BeginFlush, queueVars
  <2>2. 1 \in Nat \ {0} /\ FALSE \in BOOLEAN /\ \A s \in Routes : ~(s < 1)
      BY DEF Routes
  <2>. QED BY <2>1, <2>2, ProceedKeeps
<1>2. ASSUME RetryBatch(f), pc[f] = "sending"
      PROVE  Kept(f) /\ WillKeep(f)'
  <2>1. /\ run'[f].route = run[f].route /\ run'[f].left = run[f].left
        /\ run'[f].batch = run[f].batch /\ run'[f].failed = run[f].failed
      BY <1>2 DEF RetryBatch, TInv, TypeOK
  <2>2. UNCHANGED <<queue, pc, covers>>
      BY <1>2 DEF RetryBatch
  <2>. QED BY <2>1, <2>2, <1>2 DEF WillKeep, Keeps, Kept, Older
<1>3. CASE BatchAccepted(f)
  <2>1. pc[f] = "sending" /\ pc'[f] = "storing"
      BY <1>3 DEF BatchAccepted, PersistQueueChange, RemoveFromQueue, TInv, TypeOK
  <2>. QED BY <1>3, <2>1, AcceptedKeeps DEF Kept
<1>4. CASE BatchLost(f)
  <2>1. /\ pc[f] = "sending" /\ run[f].route + 1 \in Nat \ {0}
      BY <1>4, ConstantsAssumption DEF BatchLost, TInv, BatchesTyped, Routes
  <2>2. CASE RetryBatch(f)
      BY <1>2, <2>1, <2>2
  <2>3. CASE Proceed(f, run[f].route + 1, TRUE) /\ UNCHANGED queue
    <3>1. TRUE \in BOOLEAN
        OBVIOUS
    <3>. QED BY <2>1, <2>3, <3>1, ProceedKeeps
  <2>. QED BY <1>4, <2>2, <2>3 DEF BatchLost
<1>5. CASE BatchRefused(f)
  <2>1. CASE DropBatch(f)
    <3>1. pc'[f] = "storing" /\ run'[f].thrown
        BY <2>1 DEF DropBatch, PersistQueueChange, RemoveFromQueue, TInv, TypeOK, RunRecord
    <3>. QED BY <3>1 DEF WillKeep, Kept
  <2>. QED BY <1>2, <1>5, <2>1 DEF BatchRefused
<1>6. CASE BatchTooLarge(f)
  <2>. DEFINE r == run[f].route
              B == Slice(queue[r], Half(f))
  <2>1. /\ run' = [run EXCEPT ![f].batch = B, ![f].tries = 0]
        /\ pc[f] = "sending" /\ UNCHANGED <<pc, queue, covers>>
      BY <1>6 DEF BatchTooLarge, Shrink, flushVars, queueVars
  <2>2. r \in Routes
      BY <2>1 DEF TInv, BatchesTyped
  <2>3. Half(f) \in Nat
    <3>1. run[f].batch \subseteq 1..tickets /\ tickets \in Nat
        BY ConstantsAssumption DEF TInv, TypeOK, BatchesTyped
    <3>2. Cardinality(run[f].batch) \in Nat
        BY <3>1, FiniteInterval
    <3>. QED BY <3>2 DEF Half
  <2>4. /\ run'[f].route = r /\ run'[f].left = run[f].left /\ run'[f].left \in Int
        /\ run'[f].failed = run[f].failed /\ run'[f].batch = B
    <3>. HIDE DEF B
    <3>. QED BY <2>1 DEF TInv, TypeOK, RunRecord
  <2>5. Keeps(f) => Keeps(f)'
    <3>. SUFFICES ASSUME Keeps(f) PROVE Keeps(f)'
        OBVIOUS
    <3>1. /\ Cardinality(Older(f, r)) <= run[f].left
          /\ \A s \in Routes : s < r => covers[f] \cap queue[s] = {}
        BY <2>1 DEF Keeps
    <3>. HIDE DEF r
    <3>. QED BY <2>1, <2>2, <2>3, <2>4, <3>1, TakenKeeps
  <2>. QED BY <2>1, <2>4, <2>5 DEF WillKeep, Kept
<1>7. CASE StorageFlushed(f)
  <2>1. pc[f] = "storing"
      BY <1>7 DEF StorageFlushed
  <2>. QED BY <1>7, <2>1, StorageKeeps
<1>. QED BY <1>1, <1>3, <1>4, <1>5, <1>6, <1>7 DEF Answer

\* Messages that arrive are newer than all that is promised, and evictions only
\* shorten the queue.
LEMMA PushKeeps ==
    ASSUME TInv, WaitInv, KeepInv, NEW c, NEW r \in Routes, Push(c, r),
           c \in preparing \/ c = begun + 1
    PROVE  KeepInv'
<1>. SUFFICES ASSUME NEW f \in Flushes, pc'[f] \in {"sending", "storing"}
              PROVE  WillKeep(f)'
    BY DEF KeepInv
<1>. DEFINE t == tickets + 1
            own == run[f].route
<1>1. /\ pc'[f] = pc[f] /\ covers'[f] = covers[f] /\ run' = run
      /\ covers[f] \subseteq 1..tickets /\ own \in Routes
  <2>1. pc'[f] = pc[f] /\ covers'[f] = covers[f]
      BY WaitPush DEF Running
  <2>. QED BY <2>1 DEF Push, WaitInv, TInv, BatchesTyped
<1>2. \A s \in Routes : queue'[s] \subseteq queue[s] \cup {t}
    BY DEF Push, TInv, TypeOK
<1>3. tickets \in Nat
    BY ConstantsAssumption DEF TInv, TypeOK
<1>4. \A s \in Routes : covers[f] \cap queue'[s] \subseteq covers[f] \cap queue[s]
    BY <1>1, <1>2, <1>3
<1>5. \A s \in Routes : Older(f, s)' \subseteq Older(f, s)
  <2>. SUFFICES ASSUME NEW s \in Routes, NEW m \in queue'[s],
                       NEW k \in covers[f] \cap queue'[s], m <= k
                PROVE  m \in Older(f, s)
      BY <1>1 DEF Older
  <2>1. k \in covers[f] \cap queue[s] /\ k \in 1..tickets
      BY <1>1, <1>4
  <2>2. m # t
      BY <1>3, <2>1
  <2>. QED BY <1>2, <2>1, <2>2 DEF Older
<1>6. Keeps(f) => Keeps(f)'
  <2>. SUFFICES ASSUME Keeps(f) PROVE Keeps(f)'
      OBVIOUS
  <2>. DEFINE old == Older(f, own)
              old2 == Older(f, own)'
              B == run[f].batch
  <2>1. old2 \subseteq old /\ IsFiniteSet(old) /\ Cardinality(old) \in Nat
      BY <1>1, <1>5, OlderCount
  <2>2. /\ Cardinality(old2) <= Cardinality(old) /\ Cardinality(old2) \in Nat
      BY <2>1, FS_Subset, FS_CardinalityType
  <2>3. IsFiniteSet(old \ B) /\ old2 \ B \subseteq old \ B
      BY <2>1, FS_Difference
  <2>4. /\ Cardinality(old2 \ B) <= Cardinality(old \ B)
        /\ Cardinality(old2 \ B) \in Nat /\ Cardinality(old \ B) \in Nat
      BY <2>3, FS_Subset, FS_CardinalityType
  <2>5. run[f].left \in Int /\ run[f].left - Cardinality(B) \in Int
    <3>1. B \subseteq 1..tickets
        BY DEF TInv, BatchesTyped
    <3>2. Cardinality(B) \in Nat
        BY <1>3, <3>1, FiniteInterval
    <3>. QED BY <3>2 DEF TInv, TypeOK, RunRecord
  <2>6. \A s \in Routes : s < own => covers[f] \cap queue'[s] = {}
      BY <1>4 DEF Keeps
  <2>7. pc[f] = "sending" =>
           /\ Cardinality(old2) <= run[f].left
           /\ old2 \subseteq B \/ Cardinality(old2 \ B) <= run[f].left - Cardinality(B)
    <3>1. pc[f] = "sending" =>
             /\ Cardinality(old) <= run[f].left
             /\ old \subseteq B \/ Cardinality(old \ B) <= run[f].left - Cardinality(B)
        BY DEF Keeps
    <3>. HIDE DEF old, old2
    <3>. QED BY <2>1, <2>2, <2>4, <2>5, <3>1
  <2>8. pc[f] = "storing" =>
            old2 = {} \/ Cardinality(old2) <= run[f].left - Cardinality(B)
    <3>1. pc[f] = "storing" =>
              old = {} \/ Cardinality(old) <= run[f].left - Cardinality(B)
        BY DEF Keeps
    <3>. HIDE DEF old, old2
    <3>. QED BY <2>1, <2>2, <2>5, <3>1
  <2>. QED BY <1>1, <2>6, <2>7, <2>8 DEF Keeps
<1>7. WillKeep(f)
    BY <1>1 DEF KeepInv
<1>. QED BY <1>1, <1>6, <1>7 DEF WillKeep

\* A flush that does not run yet has promised nothing that is being sent.
LEMMA KeepSame ==
    ASSUME TInv, KeepInv, UNCHANGED <<queue, run>>,
           \A f \in Flushes : pc'[f] \in {"sending", "storing"}
                => pc'[f] = pc[f] /\ covers'[f] = covers[f]
    PROVE  KeepInv'
BY DEF KeepInv, WillKeep, Keeps, Older

\* flush() never adds to the promise of a flush that runs.
LEMMA KeepFlush ==
    ASSUME TInv, ChainInv, KeepInv, Flush, UNCHANGED <<queue, run>>
    PROVE  KeepInv'
<1>1. CASE JoinFlush
  <2>1. pending \in Flushes /\ pc[pending] = "waiting" /\ UNCHANGED pc
      BY <1>1, ConstantsAssumption
         DEF JoinFlush, Join, ChainInv, PendingWaits, TInv, TypeOK, Flushes, flushVars
  <2>2. \A f \in Flushes : f # pending => covers'[f] = covers[f]
      BY <1>1 DEF JoinFlush, Join, TInv, TypeOK
  <2>. QED BY <2>1, <2>2, KeepSame
<1>2. CASE NewFlush(covers)
  <2>1. \A f \in Flushes : pc'[f] \in {"sending", "storing"}
                => pc'[f] = pc[f] /\ covers'[f] = covers[f]
      BY <1>2 DEF NewFlush, TInv, TypeOK
  <2>. QED BY <2>1, KeepSame
<1>. QED BY <1>1, <1>2 DEF Flush

\* Every step keeps the promises.
LEMMA KeepNext == TInv /\ ChainInv /\ WaitInv /\ KeepInv /\ [Next]_vars => KeepInv'
<1>. SUFFICES ASSUME TInv, ChainInv, WaitInv, KeepInv, [Next]_vars PROVE KeepInv'
    OBVIOUS
<1>1. ASSUME UNCHANGED <<queue, run, pc, covers>> PROVE KeepInv'
    BY <1>1, KeepSame
<1>2. CASE Application \/ CaptureSettles
  <2>1. CASE \E r \in Routes : Capture(r)
      BY <2>1, PushKeeps DEF Capture
  <2>2. ASSUME NEW c \in Captures, NEW r \in Routes, FinishCapture(c, r) PROVE KeepInv'
      BY <2>2, PushKeeps DEF FinishCapture
  <2>3. CASE CallFlush
      BY <2>3, KeepFlush DEF CallFlush, queueVars
  <2>4. CASE UNCHANGED <<queue, run, pc, covers>>
      BY <2>4, <1>1
  <2>. QED BY <1>2, <2>1, <2>2, <2>3, <2>4
           DEF Application, CaptureSettles, BeginCapture, SetOptedOut, BeginShutdown,
               DiscardCapture, others, queueVars, flushVars
<1>3. CASE TimerFires
  <2>1. CASE NewFlush(covers)
    <3>1. \A f \in Flushes : pc'[f] \in {"sending", "storing"}
                => pc'[f] = pc[f] /\ covers'[f] = covers[f]
        BY <2>1 DEF NewFlush, TInv, TypeOK
    <3>. QED BY <1>3, <3>1, KeepSame DEF TimerFires, queueVars
  <2>. QED BY <1>1, <1>3, <2>1 DEF TimerFires, FlushBackground, queueVars, flushVars
<1>4. ASSUME NEW f \in Flushes, FlushStep(f) PROVE KeepInv'
  <2>1. CASE StartFlush(f)
    <3>1. \A g \in Flushes : pc'[g] \in {"sending", "storing"} => pc'[g] = pc[g]
        BY <2>1 DEF StartFlush, Start, TInv, TypeOK
    <3>. QED BY <2>1, <3>1, KeepSame DEF StartFlush, Start, queueVars
  <2>2. CASE BeginFlush(f) \/ Answer(f) \/ StorageFlushed(f)
    <3>. SUFFICES ASSUME NEW g \in Flushes, pc'[g] \in {"sending", "storing"}
                  PROVE  WillKeep(g)'
        BY DEF KeepInv
    <3>1. g = f
        BY <2>2, AnswerFrame, RunningAlone DEF OneFlushRuns, Running
    <3>. QED BY <2>2, <3>1, AnswerKeeps DEF KeepInv
  <2>. QED BY <1>4, <2>1, <2>2 DEF FlushStep
<1>5. CASE ShutdownStep \/ ShutdownTimesOut \/ UNCHANGED vars
  <2>1. CASE DrainFlush
      BY <2>1, KeepFlush DEF DrainFlush, others, queueVars
  <2>. QED BY <1>1, <1>5, <2>1
           DEF ShutdownStep, JoinRejected, JoinResolved, JoinAgain, DrainFinished,
               DrainFlushed, ShutdownTimesOut, others, vars, queueVars, flushVars
<1>. QED BY <1>2, <1>3, <1>4, <1>5 DEF Next

\* A promise resolves by a step of its flush.
LEMMA ResolvedByAnswer ==
    ASSUME TInv, [Next]_vars, NEW f \in Flushes, pc[f] \notin Settled, pc'[f] \in Settled
    PROVE  BeginFlush(f) \/ Answer(f) \/ StorageFlushed(f)
<1>1. CASE UNCHANGED pc
    BY <1>1
<1>2. CASE \E cov : NewFlush(cov)
    BY <1>2 DEF NewFlush, TInv, TypeOK, Settled
<1>3. ASSUME NEW g \in Flushes, FlushStep(g)
      PROVE  BeginFlush(f) \/ Answer(f) \/ StorageFlushed(f)
  <2>1. CASE StartFlush(g)
      BY <2>1 DEF StartFlush, Start, TInv, TypeOK, Settled
  <2>2. CASE BeginFlush(g) \/ Answer(g) \/ StorageFlushed(g)
      BY <2>2, AnswerFrame
  <2>. QED BY <1>3, <2>1, <2>2 DEF FlushStep
<1>. QED BY <1>1, <1>2, <1>3
         DEF Next, Application, CaptureSettles, TimerFires, Capture, BeginCapture,
             SetOptedOut, CallFlush, BeginShutdown, DiscardCapture, FinishCapture, Push,
             Flush, JoinFlush, Join, FlushBackground, ShutdownStep, JoinRejected,
             JoinResolved, JoinAgain, DrainFlush, DrainFinished, DrainFlushed,
             ShutdownTimesOut, others, vars, flushVars

\* flush() resolves only when everything promised at the call has left the queue,
\* captures that were still being prepared included.
THEOREM PromisesKept == Spec => FlushKeepsPromise
<1>. DEFINE Promise(f) == pc[f] \notin Settled /\ pc'[f] = "resolved"
                => covers[f] \cap Queued' = {} /\ waits[f] \cap preparing' = {}
<1>1. TInv /\ ChainInv /\ WaitInv /\ KeepInv /\ [Next]_vars => \A f \in Flushes : Promise(f)
  <2>. SUFFICES ASSUME TInv, ChainInv, WaitInv, KeepInv, [Next]_vars, NEW f \in Flushes,
                       pc[f] \notin Settled, pc'[f] = "resolved"
                PROVE  covers[f] \cap Queued' = {} /\ waits[f] \cap preparing' = {}
      OBVIOUS
  <2>1. BeginFlush(f) \/ Answer(f) \/ StorageFlushed(f)
      BY ResolvedByAnswer DEF Settled
  <2>2. covers[f] \cap Queued' = {}
      BY <2>1, AnswerKeeps DEF KeepInv, Kept
  <2>3. waits[f] \cap preparing' = {}
      BY <2>1, AnswerFrame, WaitAnswer DEF WaitInv
  <2>. QED BY <2>2, <2>3
<1>2. TInv /\ ChainInv /\ WaitInv /\ KeepInv /\ [Next]_vars
        => [\A f \in Flushes : Promise(f)]_vars
    BY <1>1
<1>. QED BY <1>2, TypeInit, ChainInit, KeepInit, TypeNext, ChainNext, WaitNext, KeepNext,
            PTL DEF Spec, FlushKeepsPromise

-------------------------------------------------------------------------------
(* Shutdown drains the queue.                                                  *)

\* A drain that has not seen anything leave the queue waits for a flush that will
\* send something, or fail.
DrainInv == sd.pc = "flushing" =>
    /\ sd.flush \in Flushes
    /\ ~sd.progress => /\ Queued # {}
                       /\ pc[sd.flush] \in {"waiting", "starting", "sending", "rejected"}

\* What shutdown was called for: the captures then under way are joined before
\* the drain, and a drain that ends well finds the queue empty.
OwedInv ==
    /\ sd.owed \subseteq 1..tickets /\ sd.awaited \subseteq 1..begun
    /\ sd.pc = "joining" => sd.awaited \cap preparing \subseteq sd.joinedCaptures
    /\ sd.pc \in {"draining", "flushing"} => sd.awaited \cap preparing = {}
    /\ sd.pc = "done" /\ ~sd.caught /\ ~sd.timedOut
            => sd.owed \cap Queued = {} /\ sd.awaited \cap preparing = {}

\* Shutdown has not been called.
LEMMA ShutdownInit == Init => DrainInv /\ OwedInv
BY DEF Init, DrainInv, OwedInv, IdleShutdown

\* A queue that gets a message is not empty.
LEMMA PushQueues ==
    ASSUME TInv, NEW c, NEW r \in Routes, Push(c, r)
    PROVE  tickets' \in queue'[r] /\ Queued' # {} /\ Queued' \subseteq Queued \cup {tickets'}
<1>1. tickets' \in queue'[r] /\ \A s \in Routes : queue'[s] \subseteq queue[s] \cup {tickets'}
    BY DEF Push, TInv, TypeOK
<1>. QED BY <1>1 DEF Queued

\* A flush with something to send sends it, and settles only by failing or after
\* something has left the queue.
LEMMA DrainAnswer ==
    ASSUME TInv, ChainInv, DrainInv, NEW f \in Flushes,
           BeginFlush(f) \/ Answer(f) \/ StorageFlushed(f)
    PROVE  DrainInv'
<1>. SUFFICES ASSUME sd'.pc = "flushing" PROVE DrainInv'
    BY DEF DrainInv
<1>1. sd.pc = "flushing" /\ sd.flush \in Flushes
    BY AnswerFrame DEF DrainInv
<1>2. ASSUME UNCHANGED <<queue, sd>>,
             pc[f] # "storing" => pc'[f] \in {"waiting", "starting", "sending", "rejected"}
             \/ Queued = {}
      PROVE  DrainInv'
  <2>1. \A g \in Flushes : g # f => pc'[g] = pc[g]
      BY AnswerFrame
  <2>2. Queued' = Queued
      BY <1>2 DEF Queued
  <2>. QED BY <1>1, <1>2, <2>1, <2>2 DEF DrainInv
<1>3. ASSUME NEW thrown, PersistQueueChange(f, thrown) PROVE DrainInv'
  <2>1. sd' = [sd EXCEPT !.progress = TRUE]
      BY <1>1, <1>3 DEF PersistQueueChange, RemoveFromQueue
  <2>. QED BY <1>1, <2>1 DEF DrainInv, TInv, TypeOK
<1>4. CASE BeginFlush(f)
  <2>1. Proceed(f, 1, FALSE) /\ UNCHANGED <<queue, sd>>
      BY <1>4 DEF BeginFlush, queueVars
  <2>2. pc'[f] = "sending" \/ Queued = {}
    <3>. DEFINE rest == {r \in 1..NRoutes : queue[r] # {}}
    <3>1. rest # {} => pc' = [pc EXCEPT ![f] = "sending"]
        BY <2>1 DEF Proceed
    <3>2. rest = {} => Queued = {}
        BY DEF Queued, Routes
    <3>. QED BY <3>1, <3>2 DEF TInv, TypeOK
  <2>. QED BY <1>2, <2>1, <2>2
<1>5. ASSUME RetryBatch(f), pc[f] = "sending" PROVE DrainInv'
    BY <1>2, <1>5 DEF RetryBatch
<1>6. CASE BatchLost(f)
  <2>1. ASSUME NEW k, Proceed(f, k, TRUE), UNCHANGED <<queue, sd>> PROVE DrainInv'
    <3>1. pc'[f] \in {"sending", "rejected"}
        BY <2>1 DEF Proceed, TInv, TypeOK
    <3>. QED BY <1>2, <2>1, <3>1
  <2>. QED BY <1>5, <1>6, <2>1 DEF BatchLost
<1>7. CASE BatchAccepted(f)
    BY <1>3, <1>7 DEF BatchAccepted
<1>8. CASE BatchRefused(f)
    BY <1>3, <1>5, <1>8 DEF BatchRefused, DropBatch
<1>9. CASE BatchTooLarge(f)
    BY <1>2, <1>9 DEF BatchTooLarge, Shrink, queueVars, flushVars
<1>10. CASE StorageFlushed(f)
    BY <1>2, <1>10 DEF StorageFlushed, queueVars
<1>. QED BY <1>4, <1>6, <1>7, <1>8, <1>9, <1>10 DEF Answer

\* Every step keeps the drain going.
LEMMA DrainNext == TInv /\ ChainInv /\ DrainInv /\ [Next]_vars => DrainInv'
<1>. SUFFICES ASSUME TInv, ChainInv, DrainInv, [Next]_vars PROVE DrainInv'
    OBVIOUS
<1>1. ASSUME UNCHANGED <<queue, sd>>,
             \A f \in Flushes : pc[f] # "none" => pc'[f] = pc[f]
      PROVE  DrainInv'
  <2>1. Queued' = Queued
      BY <1>1 DEF Queued
  <2>2. pc[sd.flush] \in {"waiting", "starting", "sending", "rejected"}
            => pc[sd.flush] # "none"
      OBVIOUS
  <2>. QED BY <1>1, <2>1, <2>2 DEF DrainInv
<1>2. ASSUME NEW cov, NewFlush(cov) PROVE \A f \in Flushes : pc[f] # "none" => pc'[f] = pc[f]
    BY <1>2, ConstantsAssumption DEF NewFlush, ChainInv, ChainEnd, TInv, TypeOK, Flushes
<1>3. ASSUME NEW c, NEW r \in Routes, Push(c, r) PROVE DrainInv'
  <2>1. \A f \in Flushes : pc[f] # "none" => pc'[f] = pc[f]
      BY <1>2, <1>3 DEF Push, FlushBackground, flushVars
  <2>2. sd'.pc = sd.pc /\ sd'.flush = sd.flush /\ sd'.progress = sd.progress
      BY <1>3 DEF Push, TInv, TypeOK
  <2>3. pc[sd.flush] \in {"waiting", "starting", "sending", "rejected"}
            => pc[sd.flush] # "none"
      OBVIOUS
  <2>. QED BY <1>3, <2>1, <2>2, <2>3, PushQueues DEF DrainInv
<1>4. ASSUME sd'.pc # "flushing" PROVE DrainInv'
    BY <1>4 DEF DrainInv
<1>5. CASE Application \/ CaptureSettles
  <2>1. CASE \E c, r : r \in Routes /\ Push(c, r)
      BY <1>3, <2>1
  <2>2. CASE CallFlush
      BY <1>1, <1>2, <2>2 DEF CallFlush, Flush, JoinFlush, Join, queueVars, flushVars
  <2>3. CASE BeginShutdown
      BY <1>4, <2>3 DEF BeginShutdown, TInv, TypeOK
  <2>4. CASE UNCHANGED <<queue, sd, pc>>
      BY <1>1, <2>4
  <2>. QED BY <1>5, <2>1, <2>2, <2>3, <2>4
           DEF Application, CaptureSettles, Capture, BeginCapture, SetOptedOut,
               DiscardCapture, FinishCapture, queueVars, flushVars
<1>6. CASE TimerFires
    BY <1>1, <1>2, <1>6 DEF TimerFires, FlushBackground, queueVars, flushVars
<1>7. ASSUME NEW f \in Flushes, FlushStep(f) PROVE DrainInv'
  <2>1. CASE StartFlush(f)
    <3>1. /\ pc[f] = "waiting" /\ pc'[f] = "starting" /\ UNCHANGED <<queue, sd>>
          /\ \A g \in Flushes : g # f => pc'[g] = pc[g]
        BY <2>1 DEF StartFlush, Start, queueVars, TInv, TypeOK
    <3>2. Queued' = Queued
        BY <3>1 DEF Queued
    <3>. QED BY <3>1, <3>2 DEF DrainInv
  <2>. QED BY <1>7, <2>1, DrainAnswer DEF FlushStep
<1>8. CASE DrainFlush
  <2>1. /\ Queued # {} /\ UNCHANGED queue
        /\ sd' = [sd EXCEPT !.pc = "flushing", !.flush = pending', !.progress = FALSE]
      BY <1>8 DEF DrainFlush, others, queueVars
  <2>2. pending' \in Flushes /\ pc'[pending'] = "waiting"
    <3>1. CASE JoinFlush
        BY <3>1, ConstantsAssumption
           DEF JoinFlush, Join, flushVars, ChainInv, PendingWaits, TInv, TypeOK, Flushes
    <3>2. CASE NewFlush(covers)
        BY <3>2, ConstantsAssumption DEF NewFlush, TInv, TypeOK, Flushes
    <3>. QED BY <1>8, <3>1, <3>2 DEF DrainFlush, Flush
  <2>3. Queued' = Queued
      BY <2>1 DEF Queued
  <2>4. sd'.flush = pending'
      BY <2>1 DEF TInv, TypeOK
  <2>. QED BY <2>1, <2>2, <2>3, <2>4 DEF DrainInv
<1>9. CASE JoinRejected \/ JoinResolved \/ DrainFinished
    BY <1>4, <1>9 DEF JoinRejected, JoinResolved, JoinAgain, DrainFinished, TInv, TypeOK
<1>10. CASE DrainFlushed
    BY <1>4, <1>10 DEF DrainFlushed, TInv, TypeOK
<1>11. CASE ShutdownTimesOut
  <2>1. /\ sd'.pc = sd.pc /\ sd'.flush = sd.flush /\ sd'.progress = sd.progress
        /\ UNCHANGED <<queue, pc>>
      BY <1>11 DEF ShutdownTimesOut, others, queueVars, flushVars, TInv, TypeOK
  <2>. QED BY <2>1 DEF DrainInv, Queued
<1>12. CASE UNCHANGED vars
    BY <1>1, <1>12 DEF vars, queueVars, flushVars
<1>. QED BY <1>5, <1>6, <1>7, <1>8, <1>9, <1>10, <1>11, <1>12 DEF Next, ShutdownStep

\* Every step keeps what shutdown owes.
LEMMA OwedNext == TInv /\ ChainInv /\ DrainInv /\ OwedInv /\ [Next]_vars => OwedInv'
<1>. SUFFICES ASSUME TInv, ChainInv, DrainInv, OwedInv, [Next]_vars PROVE OwedInv'
    OBVIOUS
<1>1. /\ tickets \in Nat /\ begun \in Nat /\ preparing \subseteq 1..begun
      /\ 1..begun \subseteq 1..(begun + 1) /\ begun + 1 \notin 1..begun
      /\ 1..tickets \subseteq 1..(tickets + 1) /\ tickets + 1 \in 1..(tickets + 1)
      /\ tickets + 1 \notin 1..tickets
    BY ConstantsAssumption DEF TInv, TypeOK
<1>2. ASSUME NEW c, NEW r \in Routes, Push(c, r),
             \/ c \in preparing /\ begun' = begun /\ preparing' = preparing \ {c}
             \/ c = begun + 1 /\ begun' = begun + 1 /\ preparing' = preparing
      PROVE  OwedInv'
  <2>1. /\ tickets' = tickets + 1
        /\ sd' = [sd EXCEPT !.owed = IF c \in sd.awaited THEN sd.owed \cup {tickets + 1}
                                                         ELSE sd.owed]
      BY <1>2 DEF Push
  <2>2. /\ sd'.pc = sd.pc /\ sd'.awaited = sd.awaited /\ sd'.caught = sd.caught
        /\ sd'.timedOut = sd.timedOut /\ sd'.joinedCaptures = sd.joinedCaptures
        /\ sd'.owed = IF c \in sd.awaited THEN sd.owed \cup {tickets + 1} ELSE sd.owed
      BY <2>1 DEF TInv, TypeOK
  <2>3. sd.pc = "done" /\ ~sd.caught /\ ~sd.timedOut => c \notin sd.awaited
      BY <1>1, <1>2 DEF OwedInv
  <2>4. sd.awaited \cap preparing' \subseteq sd.awaited \cap preparing
      BY <1>2
  <2>5. sd.owed \cap Queued' \subseteq sd.owed \cap Queued
      BY <1>1, <1>2, <2>1, PushQueues DEF OwedInv
  <2>6. sd'.owed \subseteq 1..tickets' /\ sd'.awaited \subseteq 1..begun'
      BY <1>1, <1>2, <2>1, <2>2 DEF OwedInv
  <2>. QED BY <2>2, <2>3, <2>4, <2>5, <2>6 DEF OwedInv
<1>3. ASSUME /\ sd'.pc = sd.pc /\ sd'.awaited = sd.awaited /\ sd'.caught = sd.caught
             /\ sd'.joinedCaptures = sd.joinedCaptures /\ sd'.owed = sd.owed,
             sd'.timedOut = sd.timedOut \/ sd.pc # "done",
             UNCHANGED tickets, Queued' \subseteq Queued,
             \/ begun' = begun + 1 /\ preparing' = preparing \cup {begun + 1}
             \/ begun' = begun /\ preparing' \subseteq preparing
      PROVE  OwedInv'
  <2>1. /\ sd.awaited \cap preparing' \subseteq sd.awaited \cap preparing
        /\ sd.awaited \subseteq 1..begun'
      BY <1>1, <1>3 DEF OwedInv
  <2>. QED BY <1>3, <2>1 DEF OwedInv
<1>4. CASE Application \/ CaptureSettles
  <2>1. CASE \E r \in Routes : Capture(r)
      BY <1>2, <2>1 DEF Capture
  <2>2. CASE BeginCapture \/ \E v \in BOOLEAN : SetOptedOut(v)
      BY <1>3, <2>2 DEF BeginCapture, SetOptedOut, queueVars, Queued
  <2>3. CASE CallFlush
      BY <1>3, <2>3 DEF CallFlush, queueVars, Queued
  <2>4. CASE BeginShutdown
    <3>1. /\ sd'.pc = "joining" /\ sd'.owed = Queued /\ sd'.awaited = preparing
          /\ sd'.joinedCaptures = preparing /\ UNCHANGED <<tickets, begun, preparing>>
        BY <2>4 DEF BeginShutdown, others, queueVars, TInv, TypeOK
    <3>. QED BY <1>1, <3>1, QueuedAreMessages DEF OwedInv, TInv
  <2>5. CASE CaptureSettles
    <3>1. ASSUME NEW c \in Captures, DiscardCapture(c) PROVE OwedInv'
        BY <1>3, <3>1 DEF DiscardCapture, queueVars, Queued
    <3>2. ASSUME NEW c \in Captures, NEW r \in Routes, FinishCapture(c, r) PROVE OwedInv'
        BY <1>2, <3>2 DEF FinishCapture
    <3>. QED BY <2>5, <3>1, <3>2 DEF CaptureSettles
  <2>. QED BY <1>4, <2>1, <2>2, <2>3, <2>4, <2>5 DEF Application
<1>5. CASE TimerFires \/ UNCHANGED vars
    BY <1>3, <1>5 DEF TimerFires, vars, queueVars, Queued
<1>6. ASSUME NEW f \in Flushes, FlushStep(f) PROVE OwedInv'
  <2>1. CASE StartFlush(f)
      BY <1>3, <2>1 DEF StartFlush, Start, queueVars, Queued
  <2>2. CASE BeginFlush(f) \/ Answer(f) \/ StorageFlushed(f)
    <3>1. sd' = sd \/ \E b : sd' = [sd EXCEPT !.progress = b]
        BY <2>2 DEF BeginFlush, Answer, BatchAccepted, BatchLost, BatchRefused,
           BatchTooLarge, Shrink, DropBatch, RetryBatch, PersistQueueChange,
           RemoveFromQueue, StorageFlushed
    <3>2. /\ sd'.pc = sd.pc /\ sd'.awaited = sd.awaited /\ sd'.caught = sd.caught
          /\ sd'.joinedCaptures = sd.joinedCaptures /\ sd'.owed = sd.owed
          /\ sd'.timedOut = sd.timedOut
        BY <3>1 DEF TInv, TypeOK
    <3>3. Queued' \subseteq Queued
        BY <2>2, AnswerFrame DEF Queued
    <3>. QED BY <1>3, <2>2, <3>2, <3>3, AnswerCounts
  <2>. QED BY <1>6, <2>1, <2>2 DEF FlushStep
<1>7. ASSUME UNCHANGED <<tickets, queue, begun, preparing>>,
             sd'.owed = sd.owed /\ sd'.awaited = sd.awaited,
             sd'.pc \in {"joining", "done", "draining", "flushing"},
             sd'.pc = "joining" => sd.awaited \cap preparing \subseteq sd'.joinedCaptures,
             sd'.pc \in {"draining", "flushing"} => sd.awaited \cap preparing = {},
             sd'.pc = "done" /\ ~sd'.caught /\ ~sd'.timedOut
                => sd.owed \cap Queued = {} /\ sd.awaited \cap preparing = {}
      PROVE  OwedInv'
    BY <1>7 DEF OwedInv, Queued
<1>8. CASE ShutdownStep \/ ShutdownTimesOut
  <2>0. UNCHANGED <<tickets, queue, begun, preparing>>
      BY <1>8 DEF ShutdownStep, JoinRejected, JoinResolved, JoinAgain, DrainFlush,
                  DrainFinished, DrainFlushed, ShutdownTimesOut, others, queueVars
  <2>1. CASE JoinRejected
    <3>1. /\ sd'.pc = "done" /\ sd'.caught /\ sd'.owed = sd.owed /\ sd'.awaited = sd.awaited
        BY <2>1 DEF JoinRejected, TInv, TypeOK
    <3>. QED BY <1>7, <2>0, <3>1
  <2>2. CASE JoinResolved
    <3>1. /\ sd.pc = "joining" /\ sd.joinedCaptures \cap preparing = {}
          /\ sd'.pc \in {"joining", "draining"}
          /\ sd'.owed = sd.owed /\ sd'.awaited = sd.awaited
        BY <2>2 DEF JoinResolved, JoinAgain, TInv, TypeOK
    <3>2. sd.awaited \cap preparing = {}
        BY <3>1 DEF OwedInv
    <3>. QED BY <1>7, <2>0, <3>1, <3>2
  <2>3. CASE DrainFlush \/ DrainFinished
    <3>1. /\ sd.pc = "draining" /\ sd'.pc \in {"flushing", "done"}
          /\ sd'.owed = sd.owed /\ sd'.awaited = sd.awaited
          /\ sd'.pc = "done" => Queued = {}
        BY <2>3 DEF DrainFlush, DrainFinished, TInv, TypeOK
    <3>2. sd.awaited \cap preparing = {}
        BY <3>1 DEF OwedInv
    <3>. QED BY <1>7, <2>0, <3>1, <3>2
  <2>4. CASE DrainFlushed
    <3>1. /\ sd.pc = "flushing" /\ pc[sd.flush] \in Settled
          /\ sd' = [sd EXCEPT
               !.pc = IF pc[sd.flush] = "resolved" /\ sd.progress /\ ~sd.timedOut
                      THEN "draining" ELSE "done",
               !.caught = (pc[sd.flush] = "rejected"), !.flush = 0, !.progress = FALSE]
        BY <2>4 DEF DrainFlushed
    <3>2. pc[sd.flush] = "resolved" => sd.progress
        BY <3>1 DEF DrainInv
    <3>3. /\ sd'.pc \in {"draining", "done"}
          /\ sd'.owed = sd.owed /\ sd'.awaited = sd.awaited /\ sd'.timedOut = sd.timedOut
          /\ sd'.caught = (pc[sd.flush] = "rejected")
          /\ sd'.pc = "done" => pc[sd.flush] # "resolved" \/ ~sd.progress \/ sd.timedOut
        BY <3>1 DEF TInv, TypeOK
    <3>4. sd.awaited \cap preparing = {}
        BY <3>1 DEF OwedInv
    <3>5. sd'.pc = "done" => sd'.caught \/ sd'.timedOut
        BY <3>1, <3>2, <3>3 DEF Settled
    <3>. QED BY <1>7, <2>0, <3>3, <3>4, <3>5
  <2>5. CASE ShutdownTimesOut
    <3>1. /\ sd.pc # "done"
          /\ sd'.pc = sd.pc /\ sd'.awaited = sd.awaited /\ sd'.caught = sd.caught
          /\ sd'.joinedCaptures = sd.joinedCaptures /\ sd'.owed = sd.owed
        BY <2>5 DEF ShutdownTimesOut, TInv, TypeOK
    <3>. QED BY <1>3, <2>0, <3>1 DEF Queued
  <2>. QED BY <1>8, <2>1, <2>2, <2>3, <2>4, <2>5 DEF ShutdownStep
<1>. QED BY <1>4, <1>5, <1>6, <1>8 DEF Next

\* The drain never stops for want of progress, and a shutdown without error or
\* timeout leaves nothing of what was queued or being captured at the call.
THEOREM ShutdownLeavesNothing == Spec => []ShutdownDrains
<1>1. DrainInv /\ OwedInv => ShutdownDrains
    BY DEF DrainInv, OwedInv, ShutdownDrains
<1>. QED BY <1>1, TypeInit, ChainInit, ShutdownInit, TypeNext, ChainNext, DrainNext,
            OwedNext, PTL DEF Spec
-------------------------------------------------------------------------------
(* A queue keeps to its capacity.                                              *)

QueuesBounded == \A r \in Routes : Cardinality(queue[r]) <= MaxQueueSize

\* A message that is pushed takes the place of one that is evicted, or a free one.
LEMMA PushBounded ==
    ASSUME TInv, QueuesBounded, NEW c, NEW r \in Routes, Push(c, r)
    PROVE  QueuesBounded'
<1>. DEFINE q == queue[r]
            t == tickets + 1
            evicted == IF Cardinality(q) >= MaxQueueSize THEN {Smallest(q)} ELSE {}
<1>1. queue' = [queue EXCEPT ![r] = (q \ evicted) \cup {t}]
    BY DEF Push
<1>2. queue'[r] = (q \ evicted) \cup {t} /\ \A s \in Routes : s # r => queue'[s] = queue[s]
    BY <1>1 DEF TInv, TypeOK
<1>3. /\ q \subseteq 1..tickets /\ q \subseteq Nat /\ IsFiniteSet(q) /\ Cardinality(q) \in Nat
      /\ tickets \in Nat /\ MaxQueueSize \in Nat /\ MaxQueueSize >= 1
    BY QueueIsFinite, ConstantsAssumption DEF TInv, TypeOK
<1>4. t \notin q \ evicted
  <2>1. t \notin 1..tickets
      BY <1>3
  <2>. QED BY <1>3, <2>1
<1>5. Cardinality(q) <= MaxQueueSize
    BY DEF QueuesBounded
<1>6. IsFiniteSet(q \ evicted) /\ Cardinality(q \ evicted) + 1 <= MaxQueueSize
  <2>1. CASE Cardinality(q) >= MaxQueueSize
    <3>1. q # {}
        BY <1>3, <2>1, FS_EmptySet
    <3>2. Smallest(q) \in q
        BY <1>3, <3>1, SmallestIsLeast
    <3>3. IsFiniteSet(q \ {Smallest(q)})
          /\ Cardinality(q \ {Smallest(q)}) = Cardinality(q) - 1
        BY <1>3, <3>2, FS_RemoveElement
    <3>. QED BY <1>3, <1>5, <2>1, <3>3
  <2>2. CASE Cardinality(q) < MaxQueueSize
    <3>1. evicted = {}
        BY <1>3, <2>2
    <3>2. q \ evicted = q
        BY <3>1
    <3>. HIDE DEF q, evicted
    <3>. QED BY <1>3, <2>2, <3>2
  <2>. QED BY <1>3, <2>1, <2>2
<1>. HIDE DEF evicted, t, q
<1>7. Cardinality((q \ evicted) \cup {t}) = Cardinality(q \ evicted) + 1
    BY <1>4, <1>6, FS_AddElement
<1>. QED BY <1>2, <1>6, <1>7 DEF QueuesBounded

\* Only enqueue makes a queue longer.
LEMMA OnlyPushAdds ==
    ASSUME TInv, [Next]_vars
    PROVE  \/ \E c \in Captures : \E r \in Routes : Push(c, r)
           \/ \A r \in Routes : queue'[r] \subseteq queue[r]
<1>1. CASE UNCHANGED queue
    BY <1>1
<1>2. ASSUME NEW f \in Flushes, FlushStep(f)
      PROVE  \A r \in Routes : queue'[r] \subseteq queue[r]
    BY <1>2, AnswerFrame DEF FlushStep, StartFlush, Start, queueVars
<1>3. ASSUME NEW r \in Routes, Capture(r)
      PROVE  \E c \in Captures : Push(c, r)
    BY <1>3, ConstantsAssumption DEF Capture, Captures, TInv, TypeOK
<1>. QED BY <1>1, <1>2, <1>3
         DEF Next, Application, CaptureSettles, TimerFires, BeginCapture,
             SetOptedOut, CallFlush, BeginShutdown, DiscardCapture, FinishCapture,
             ShutdownStep, JoinRejected, JoinResolved, JoinAgain, DrainFlush, DrainFinished,
             DrainFlushed, ShutdownTimesOut, others, vars, queueVars

\* The persisted queue of a route never holds more than maxQueueSize messages, whatever
\* flushes and captures overlap (enqueue shifts the oldest out first).
THEOREM CapacityIsKept == Spec => []QueuesBounded
<1>1. Init => QueuesBounded
    BY FS_EmptySet, ConstantsAssumption DEF Init, QueuesBounded
<1>2. TInv /\ QueuesBounded /\ [Next]_vars => QueuesBounded'
  <2>. SUFFICES ASSUME TInv, QueuesBounded, [Next]_vars PROVE QueuesBounded'
      OBVIOUS
  <2>1. CASE \A r \in Routes : queue'[r] \subseteq queue[r]
    <3>. SUFFICES ASSUME NEW r \in Routes PROVE Cardinality(queue'[r]) <= MaxQueueSize
        BY DEF QueuesBounded
    <3>1. IsFiniteSet(queue[r]) /\ Cardinality(queue[r]) \in Nat /\ MaxQueueSize \in Nat
        BY QueueIsFinite, ConstantsAssumption DEF TInv
    <3>2. IsFiniteSet(queue'[r]) /\ Cardinality(queue'[r]) <= Cardinality(queue[r])
        BY <2>1, <3>1, FS_Subset
    <3>3. Cardinality(queue'[r]) \in Nat /\ Cardinality(queue[r]) <= MaxQueueSize
        BY <3>2, FS_CardinalityType DEF QueuesBounded
    <3>. QED BY <3>1, <3>2, <3>3
  <2>. QED BY <2>1, OnlyPushAdds, PushBounded
<1>. QED BY <1>1, <1>2, TypeInit, TypeNext, PTL DEF Spec

-------------------------------------------------------------------------------
(* Flushes advance: what fairness needs to bring them to an end.               *)

\* The n oldest messages of a queue that is not empty are some ...
LEMMA SliceHoldsSome ==
    ASSUME NEW q, IsFiniteSet(q), q \subseteq Nat, q # {}, NEW n \in Nat \ {0}
    PROVE  Slice(q, n) # {}
<1>1. Smallest(q) \in q /\ \A k \in q : Smallest(q) <= k
    BY SmallestIsLeast
<1>. DEFINE s == Smallest(q)
<1>. HIDE DEF s
<1>2. s \in Nat /\ \A k \in q : k \in Nat /\ s <= k
    BY <1>1 DEF s
<1>3. {k \in q : k < s} = {}
  <2>. SUFFICES ASSUME NEW k \in q, k < s PROVE FALSE
      OBVIOUS
  <2>. QED BY <1>2
<1>4. Cardinality({k \in q : k < s}) = 0
    BY <1>3, FS_EmptySet
<1>. QED BY <1>1, <1>4 DEF Slice, s

\* A set of enqueue numbers has a newest one.
LEMMA NewestExists ==
    ASSUME NEW N \in Nat, NEW S \in SUBSET (1..N), S # {}
    PROVE  \E b \in S : \A k \in S : k <= b
<1>. DEFINE ups == {j \in Nat : \A x \in S : x <= j}
            u == Smallest(ups)
<1>1. N \in ups
    OBVIOUS
<1>2. u \in ups /\ \A j \in ups : u <= j
    BY <1>1, SmallestIsLeast
<1>. HIDE DEF u
<1>3. u \in S
  <2>. SUFFICES ASSUME u \notin S PROVE FALSE
      OBVIOUS
  <2>1. \A x \in S : x \in Nat /\ x >= 1 /\ x <= u /\ x # u
      BY <1>2
  <2>2. u \in Nat /\ \A x \in S : x <= u - 1 /\ u - 1 \in Nat
      BY <1>2, <2>1
  <2>3. u - 1 \in ups
      BY <2>2
  <2>. QED BY <1>2, <2>2, <2>3
<1>. QED BY <1>2, <1>3

\* ... and no more than n.
LEMMA SliceIsShort ==
    ASSUME NEW N \in Nat, NEW q \in SUBSET (1..N), NEW n \in Nat
    PROVE  IsFiniteSet(Slice(q, n)) /\ Cardinality(Slice(q, n)) \in Nat
           /\ Cardinality(Slice(q, n)) <= n
<1>. DEFINE S == Slice(q, n)
<1>1. S \subseteq q /\ IsFiniteSet(q) /\ S \in SUBSET (1..N)
    BY SliceIsSubset, FiniteInterval
<1>2. IsFiniteSet(S) /\ Cardinality(S) \in Nat
    BY <1>1, FiniteInterval
<1>3. CASE S = {}
    BY <1>3, FS_EmptySet
<1>4. CASE S # {}
  <2>1. PICK b \in S : \A k \in S : k <= b
      BY <1>1, <1>4, NewestExists
  <2>. DEFINE older == {k \in q : k < b}
  <2>2. Cardinality(older) < n
      BY <2>1 DEF Slice
  <2>3. IsFiniteSet(older) /\ Cardinality(older) \in Nat
      BY <1>1, FS_Subset, FS_CardinalityType
  <2>4. S \ {b} \subseteq older
    <3>1. \A k \in S : k \in Nat /\ k \in q /\ (k <= b /\ k # b => k < b)
        BY <1>1, <2>1
    <3>. QED BY <2>1, <3>1
  <2>. HIDE DEF S, older
  <2>5. Cardinality(S \ {b}) = Cardinality(S) - 1 /\ IsFiniteSet(S \ {b})
      BY <1>2, <2>1, FS_RemoveElement
  <2>6. Cardinality(S \ {b}) <= Cardinality(older)
      BY <2>3, <2>4, FS_Subset
  <2>. QED BY <1>2, <2>2, <2>3, <2>5, <2>6 DEF S
<1>. QED BY <1>2, <1>3, <1>4

\* A flush that sends has something to send: its batch holds messages, also the batch
\* that it would take now, and `left` counts some.
HasWork(f) ==
    /\ pc[f] = "sending" => queue[run[f].route] # {}
    /\ pc[f] \in {"sending", "storing"} => run[f].batch # {} /\ run[f].left > 0

\* The order in which a running flush works off what it has: routes, what is left of a
\* route, the size of the batch, the answer to it and the storage, the tries.
Onward(f) ==
    \/ run'[f].route > run[f].route
    \/ /\ run'[f].route = run[f].route
       /\ \/ run'[f].left < run[f].left
          \/ /\ run'[f].left = run[f].left
             /\ \/ Cardinality(run'[f].batch) < Cardinality(run[f].batch)
                \/ /\ run'[f].batch = run[f].batch
                   /\ \/ pc[f] = "sending" /\ pc'[f] = "storing"
                      \/ pc'[f] = pc[f] /\ run'[f].tries > run[f].tries

\* A step of a flush ends it, starts it, or takes it onward.
Advances(f) ==
    \/ pc[f] = "none" /\ pc'[f] = "waiting"
    \/ pc[f] = "waiting" /\ pc'[f] = "starting"
    \/ pc[f] = "starting" /\ pc'[f] \in {"sending", "resolved"}
    \/ pc[f] \in {"sending", "storing"} /\ pc'[f] \in Settled
    \/ {pc[f], pc'[f]} \subseteq {"sending", "storing"} /\ Onward(f)

\* The next batch, if there is one.
LEMMA ProceedAdvances ==
    ASSUME TInv, NEW f \in Flushes, NEW k \in Nat \ {0}, NEW failed, Proceed(f, k, failed),
           UNCHANGED queue
    PROVE  /\ HasWork(f)'
           /\ \/ pc'[f] = "sending" /\ run'[f].route \in Nat /\ run'[f].route >= k
              \/ pc'[f] = IF failed THEN "rejected" ELSE "resolved"
<1>. DEFINE rest == {s \in k..NRoutes : queue[s] # {}}
            r == Smallest(rest)
<1>1. CASE rest # {}
  <2>1. /\ pc' = [pc EXCEPT ![f] = "sending"]
        /\ run' = [run EXCEPT ![f] = NextBatch(r, Cardinality(queue[r]), failed)]
      BY <1>1 DEF Proceed
  <2>2. r \in Routes /\ r \in Nat /\ r >= k /\ queue[r] # {}
    <3>1. rest \subseteq Nat /\ rest \subseteq Routes
        BY ConstantsAssumption DEF Routes
    <3>2. r \in rest
        BY <1>1, <3>1, SmallestIsLeast
    <3>. QED BY <3>1, <3>2
  <2>. HIDE DEF r, rest
  <2>3. /\ pc'[f] = "sending" /\ run'[f].route = r
        /\ run'[f].left = Cardinality(queue[r])
        /\ run'[f].batch = Slice(queue[r], maxBatch)
      BY <2>1 DEF NextBatch, TInv, TypeOK
  <2>4. IsFiniteSet(queue[r]) /\ queue[r] \subseteq Nat /\ Cardinality(queue[r]) \in Nat
      BY <2>2, QueueIsFinite DEF TInv
  <2>5. Cardinality(queue[r]) > 0
      BY <2>2, <2>4, FS_EmptySet
  <2>6. Slice(queue[r], maxBatch) # {}
    <3>1. maxBatch \in Nat \ {0}
        BY DEF TInv, TypeOK
    <3>. QED BY <2>2, <2>4, <3>1, SliceHoldsSome
  <2>. QED BY <2>2, <2>3, <2>5, <2>6 DEF HasWork
<1>2. CASE rest = {}
  <2>1. pc'[f] = IF failed THEN "rejected" ELSE "resolved"
      BY <1>2 DEF Proceed, TInv, TypeOK
  <2>. QED BY <2>1 DEF HasWork
<1>. QED BY <1>1, <1>2

\* An answer that removes the batch.
LEMMA PersistAdvances ==
    ASSUME TInv, NEW f \in Flushes, HasWork(f), pc[f] = "sending", NEW thrown,
           PersistQueueChange(f, thrown)
    PROVE  HasWork(f)' /\ Advances(f)
<1>1. /\ pc'[f] = "storing" /\ run'[f].batch = run[f].batch
      /\ run'[f].route = run[f].route /\ run'[f].left = run[f].left
    BY DEF PersistQueueChange, RemoveFromQueue, TInv, TypeOK, RunRecord
<1>. QED BY <1>1 DEF HasWork, Advances, Onward

\* Another try of the same batch.
LEMMA RetryAdvances ==
    ASSUME TInv, NEW f \in Flushes, HasWork(f), pc[f] = "sending", RetryBatch(f)
    PROVE  HasWork(f)' /\ Advances(f)
<1>1. /\ pc'[f] = pc[f] /\ run'[f].batch = run[f].batch /\ run'[f].tries = run[f].tries + 1
      /\ run'[f].route = run[f].route /\ run'[f].left = run[f].left /\ UNCHANGED queue
    BY DEF RetryBatch, TInv, TypeOK, RunRecord
<1>2. run[f].tries \in Nat
    BY ConstantsAssumption DEF TInv, TypeOK, RunRecord
<1>. QED BY <1>1, <1>2 DEF HasWork, Advances, Onward

\* Half of a batch is shorter, and not empty, even when part of it was evicted.
LEMMA TooLargeAdvances ==
    ASSUME TInv, NEW f \in Flushes, HasWork(f), BatchTooLarge(f)
    PROVE  HasWork(f)' /\ Advances(f)
<1>. DEFINE r == run[f].route
            B == Slice(queue[r], Half(f))
<1>1. /\ pc[f] = "sending" /\ UNCHANGED <<pc, queue>>
      /\ run' = [run EXCEPT ![f].batch = B, ![f].tries = 0]
      /\ Cardinality(run[f].batch) > 1
    BY DEF BatchTooLarge, Shrink, flushVars, queueVars
<1>2. run[f].batch \subseteq 1..tickets /\ tickets \in Nat /\ r \in Routes
    BY <1>1, ConstantsAssumption DEF TInv, TypeOK, BatchesTyped
<1>3. Cardinality(run[f].batch) \in Nat
    BY <1>2, FiniteInterval
<1>4. Half(f) \in Nat \ {0} /\ Half(f) < Cardinality(run[f].batch)
    BY <1>1, <1>3 DEF Half
<1>5. queue[r] \subseteq 1..tickets /\ IsFiniteSet(queue[r]) /\ queue[r] \subseteq Nat
      /\ queue[r] # {}
    BY <1>1, <1>2, QueueIsFinite DEF TInv, HasWork
<1>6. B # {}
    BY <1>4, <1>5, SliceHoldsSome
<1>7. Cardinality(B) \in Nat /\ Cardinality(B) <= Half(f)
    BY <1>2, <1>4, <1>5, SliceIsShort
<1>. HIDE DEF B
<1>8. /\ run'[f].batch = B /\ run'[f].route = r /\ run'[f].left = run[f].left
    BY <1>1 DEF TInv, TypeOK, RunRecord
<1>9. Cardinality(B) < Cardinality(run[f].batch)
    BY <1>3, <1>4, <1>7
<1>. QED BY <1>1, <1>5, <1>6, <1>8, <1>9 DEF HasWork, Advances, Onward

\* The storage has the rest: the batch, which held some, no longer counts.
LEMMA StorageAdvances ==
    ASSUME TInv, NEW f \in Flushes, HasWork(f), StorageFlushed(f)
    PROVE  HasWork(f)' /\ Advances(f)
<1>. DEFINE r == run[f].route
            left2 == run[f].left - Cardinality(run[f].batch)
            again == ~run[f].thrown /\ queue[r] # {} /\ left2 > 0
            failed == run[f].failed \/ run[f].thrown
<1>1. pc[f] = "storing" /\ UNCHANGED queue
    BY DEF StorageFlushed, queueVars
<1>2. /\ r \in Routes /\ r \in Nat /\ r + 1 \in Nat \ {0}
      /\ IsFiniteSet(queue[r]) /\ queue[r] \subseteq Nat
    BY <1>1, QueueIsFinite, ConstantsAssumption DEF TInv, BatchesTyped, Routes
<1>3. left2 \in Int /\ left2 < run[f].left /\ run[f].left \in Int
  <2>1. run[f].batch \subseteq 1..tickets /\ tickets \in Nat
      BY ConstantsAssumption DEF TInv, TypeOK, BatchesTyped
  <2>2. IsFiniteSet(run[f].batch) /\ Cardinality(run[f].batch) \in Nat
      BY <2>1, FiniteInterval
  <2>3. Cardinality(run[f].batch) > 0
      BY <1>1, <2>2, FS_EmptySet DEF HasWork
  <2>4. run[f].left \in Int
      BY DEF TInv, TypeOK, RunRecord
  <2>. QED BY <2>2, <2>3, <2>4
<1>4. CASE again
  <2>1. /\ pc' = [pc EXCEPT ![f] = "sending"]
        /\ run' = [run EXCEPT ![f] = NextBatch(r, left2, run[f].failed)]
      BY <1>4 DEF StorageFlushed
  <2>2. /\ pc'[f] = "sending" /\ run'[f].route = r /\ run'[f].left = left2
        /\ run'[f].batch = Slice(queue[r], maxBatch)
      BY <2>1 DEF NextBatch, TInv, TypeOK
  <2>3. maxBatch \in Nat \ {0} /\ queue[r] # {}
      BY <1>4 DEF TInv, TypeOK
  <2>4. Slice(queue[r], maxBatch) # {}
      BY <1>2, <2>3, SliceHoldsSome
  <2>. HIDE DEF left2
  <2>. QED BY <1>1, <1>3, <1>4, <2>2, <2>3, <2>4 DEF HasWork, Advances, Onward, left2
<1>5. CASE ~again
  <2>1. Proceed(f, r + 1, failed)
      BY <1>5 DEF StorageFlushed
  <2>2. /\ HasWork(f)'
        /\ \/ pc'[f] = "sending" /\ run'[f].route \in Nat /\ run'[f].route >= r + 1
           \/ pc'[f] \in Settled
      BY <1>1, <1>2, <2>1, ProceedAdvances DEF Settled
  <2>3. run'[f].route \in Nat /\ run'[f].route >= r + 1 => run'[f].route > run[f].route
      BY <1>2
  <2>. QED BY <1>1, <2>2, <2>3 DEF Advances, Onward
<1>. QED BY <1>4, <1>5

\* Every step of a flush, up to the settling of its promise, takes it onward.
LEMMA FlushStepAdvances ==
    ASSUME TInv, NEW f \in Flushes, HasWork(f),
           BeginFlush(f) \/ Answer(f) \/ StorageFlushed(f)
    PROVE  HasWork(f)' /\ Advances(f)
<1>1. CASE BeginFlush(f)
  <2>1. pc[f] = "starting" /\ Proceed(f, 1, FALSE) /\ UNCHANGED queue
      BY <1>1 DEF BeginFlush, queueVars
  <2>2. 1 \in Nat \ {0}
      OBVIOUS
  <2>3. HasWork(f)' /\ pc'[f] \in {"sending", "resolved"}
      BY <2>1, <2>2, ProceedAdvances
  <2>. QED BY <2>1, <2>3 DEF Advances
<1>2. CASE BatchAccepted(f)
    BY <1>2, PersistAdvances DEF BatchAccepted
<1>3. CASE BatchLost(f)
  <2>1. CASE RetryBatch(f)
      BY <1>3, <2>1, RetryAdvances DEF BatchLost
  <2>2. CASE Proceed(f, run[f].route + 1, TRUE) /\ UNCHANGED queue
    <3>1. /\ pc[f] = "sending" /\ run[f].route \in Nat /\ run[f].route + 1 \in Nat \ {0}
        BY <1>3, ConstantsAssumption DEF BatchLost, TInv, BatchesTyped, Routes
    <3>2. /\ HasWork(f)'
          /\ \/ /\ pc'[f] = "sending" /\ run'[f].route \in Nat
                /\ run'[f].route >= run[f].route + 1
             \/ pc'[f] \in Settled
        BY <2>2, <3>1, ProceedAdvances DEF Settled
    <3>3. run'[f].route \in Nat /\ run'[f].route >= run[f].route + 1
              => run'[f].route > run[f].route
        BY <3>1
    <3>. QED BY <3>1, <3>2, <3>3 DEF Advances, Onward
  <2>. QED BY <1>3, <2>1, <2>2 DEF BatchLost
<1>4. CASE BatchRefused(f)
    BY <1>4, RetryAdvances, PersistAdvances DEF BatchRefused, DropBatch
<1>5. CASE BatchTooLarge(f)
    BY <1>5, TooLargeAdvances
<1>6. CASE StorageFlushed(f)
    BY <1>6, StorageAdvances
<1>. QED BY <1>1, <1>2, <1>3, <1>4, <1>5, <1>6 DEF Answer

WorkInv == \A f \in Flushes : HasWork(f)

\* What others do leaves a running flush its work: nothing but the flush itself takes
\* from a queue, a push leaves at least its own message.
LEMMA PushLeavesWork ==
    ASSUME TInv, WorkInv, NEW c, NEW r \in Routes, Push(c, r)
    PROVE  WorkInv'
<1>. SUFFICES ASSUME NEW f \in Flushes PROVE HasWork(f)'
    BY DEF WorkInv
<1>1. UNCHANGED run /\ (pc'[f] \in {"sending", "storing"} => pc'[f] = pc[f])
    BY PushKeepsSending DEF Push, Running, Settled
<1>2. queue'[r] # {} /\ \A s \in Routes : s # r => queue'[s] = queue[s]
    BY PushQueues DEF Push, TInv, TypeOK
<1>3. pc[f] = "sending" => run[f].route \in Routes
    BY DEF TInv, BatchesTyped
<1>. QED BY <1>1, <1>2, <1>3 DEF WorkInv, HasWork

\* Creating a flush, or nothing of the flushes: the other steps.
FlushesAlone == UNCHANGED run /\ \A f \in Flushes :
    pc'[f] = pc[f] \/ (pc[f] = "none" /\ pc'[f] = "waiting")


\* The steps outside the flushes.
LEMMA OtherSteps ==
    ASSUME TInv, ChainInv, [Next]_vars
    PROVE  \/ \E f \in Flushes : FlushStep(f)
           \/ /\ FlushesAlone
              /\ \/ UNCHANGED queue
                 \/ \E c \in Captures : \E r \in Routes : Push(c, r)
<1>1. ASSUME NEW cov, NewFlush(cov), UNCHANGED run PROVE FlushesAlone
  <2>1. \A f \in Flushes : pc'[f] = pc[f] \/ (f = created + 1 /\ pc'[f] = "waiting")
      BY <1>1 DEF NewFlush, TInv, TypeOK
  <2>2. \A f \in Flushes : f = created + 1 => f > created
      BY ConstantsAssumption DEF TInv, TypeOK, Flushes
  <2>. QED BY <1>1, <2>1, <2>2 DEF FlushesAlone, ChainInv, ChainEnd
<1>2. UNCHANGED <<pc, run>> => FlushesAlone
    BY DEF FlushesAlone
<1>3. ASSUME NEW c \in Captures, NEW r \in Routes, Push(c, r) PROVE FlushesAlone
    BY <1>1, <1>2, <1>3 DEF Push, FlushBackground, flushVars
<1>4. ASSUME Flush, UNCHANGED run PROVE FlushesAlone
    BY <1>1, <1>2, <1>4 DEF Flush, JoinFlush, Join, flushVars
<1>5. ASSUME NEW r \in Routes, Capture(r) PROVE begun + 1 \in Captures /\ Push(begun + 1, r)
    BY <1>5, ConstantsAssumption DEF Capture, Captures, TInv, TypeOK
<1>6. CASE Application
    BY <1>2, <1>3, <1>4, <1>5, <1>6
    DEF Application, BeginCapture, SetOptedOut, CallFlush, BeginShutdown, others, queueVars,
        flushVars
<1>7. CASE CaptureSettles
    BY <1>2, <1>3, <1>7
    DEF CaptureSettles, DiscardCapture, FinishCapture, queueVars, flushVars
<1>8. CASE TimerFires
    BY <1>1, <1>2, <1>8 DEF TimerFires, FlushBackground, queueVars, flushVars
<1>9. CASE ShutdownStep
    BY <1>2, <1>4, <1>9
    DEF ShutdownStep, JoinRejected, JoinResolved, JoinAgain, DrainFlush, DrainFinished,
        DrainFlushed, others, queueVars, flushVars
<1>10. CASE ShutdownTimesOut
    BY <1>2, <1>10 DEF ShutdownTimesOut, others, queueVars, flushVars
<1>11. CASE UNCHANGED vars
    BY <1>2, <1>11 DEF vars, queueVars, flushVars
<1>. QED BY <1>6, <1>7, <1>8, <1>9, <1>10, <1>11 DEF Next

\* In every step each flush stands still or advances, and has its work after it.
LEMMA WorkNext ==
    TInv /\ ChainInv /\ WorkInv /\ [Next]_vars =>
      WorkInv' /\ \A f \in Flushes : (pc'[f] = pc[f] /\ run'[f] = run[f]) \/ Advances(f)
<1>. SUFFICES ASSUME TInv, ChainInv, WorkInv, [Next]_vars
              PROVE  /\ WorkInv'
                     /\ \A f \in Flushes : (pc'[f] = pc[f] /\ run'[f] = run[f]) \/ Advances(f)
    OBVIOUS
<1>1. CASE FlushesAlone /\ (UNCHANGED queue \/ \E c \in Captures : \E r \in Routes : Push(c, r))
  <2>1. \A f \in Flushes : (pc'[f] = pc[f] /\ run'[f] = run[f]) \/ Advances(f)
      BY <1>1 DEF FlushesAlone, Advances
  <2>2. CASE UNCHANGED queue
      BY <1>1, <2>1, <2>2 DEF FlushesAlone, WorkInv, HasWork
  <2>3. CASE \E c \in Captures : \E r \in Routes : Push(c, r)
      BY <2>1, <2>3, PushLeavesWork
  <2>. QED BY <1>1, <2>2, <2>3
<1>2. ASSUME NEW f \in Flushes, FlushStep(f)
      PROVE  /\ WorkInv'
             /\ \A g \in Flushes : (pc'[g] = pc[g] /\ run'[g] = run[g]) \/ Advances(g)
  <2>1. CASE StartFlush(f)
    <3>1. /\ UNCHANGED <<run, queue>> /\ pc[f] = "waiting" /\ pc'[f] = "starting"
          /\ \A g \in Flushes : g # f => pc'[g] = pc[g]
        BY <2>1 DEF StartFlush, Start, queueVars, TInv, TypeOK
    <3>. QED BY <3>1 DEF WorkInv, HasWork, Advances
  <2>2. CASE BeginFlush(f) \/ Answer(f) \/ StorageFlushed(f)
    <3>1. /\ pc[f] \in Running
          /\ \A g \in Flushes : g # f => pc'[g] = pc[g] /\ run'[g] = run[g]
        BY <2>2, AnswerFrame
    <3>2. \A g \in Flushes : g # f => pc[g] \notin Running
        BY <3>1, RunningAlone DEF OneFlushRuns
    <3>3. HasWork(f)' /\ Advances(f)
        BY <2>2, FlushStepAdvances DEF WorkInv
    <3>4. \A g \in Flushes : g # f => HasWork(g)'
        BY <3>1, <3>2 DEF HasWork, Running
    <3>. QED BY <3>1, <3>3, <3>4 DEF WorkInv
  <2>. QED BY <1>2, <2>1, <2>2 DEF FlushStep
<1>. QED BY <1>1, <1>2, OtherSteps

LEMMA WorkInit == Init => WorkInv
BY DEF Init, WorkInv, HasWork

\* A flush that has begun to send is never left with nothing to send: its batch, the
\* batch it would slice now and the rest of its route are not empty, even after the queue
\* evicted what it is sending (_flushRoute sends no empty batch and halves no batch to one).
THEOREM FlushesHaveWork == Spec => []WorkInv
BY WorkInit, WorkNext, TypeInit, ChainInit, TypeNext, ChainNext, PTL DEF Spec

\* A flush takes finitely many steps, and no other step sets it back: each of its steps
\* goes to a later route, leaves less on the route, makes the batch smaller, gets it
\* answered, or uses up a try, in that order of weight.  Routes end with NRoutes, tries with
\* RetryCount, and the rest of a route and the batch are not empty (FlushesHaveWork): with
\* its requests answered, a flush settles (_flush, fetchWithRetry).
THEOREM FlushesAdvance ==
    Spec => [][\A f \in Flushes : UNCHANGED <<pc[f], run[f]>> \/ Advances(f)]_vars
<1>1. TInv /\ ChainInv /\ WorkInv /\ [Next]_vars
        => [\A f \in Flushes : UNCHANGED <<pc[f], run[f]>> \/ Advances(f)]_vars
    BY WorkNext
<1>. QED BY <1>1, WorkInit, WorkNext, TypeInit, ChainInit, TypeNext, ChainNext, PTL DEF Spec

-------------------------------------------------------------------------------
(* Nobody waits for somebody who waits: what fairness needs, too.              *)

\* While a flush is not settled, one of them can go on at once, unless a capture is still
\* being prepared; and when none is left, shutdown can.
NobodyWaitsInVain ==
    /\ Unsettled # {} /\ preparing = {} => \E f \in Unsettled :
          pc[f] \in Running \/ (CapturesDone(f) /\ PreviousDone(f))
    /\ Unsettled = {} /\ preparing = {} =>
          /\ sd.pc = "joining" => \/ \E f \in sd.joined : pc[f] = "rejected"
                                  \/ \A f \in sd.joined : pc[f] = "resolved"
          /\ sd.pc = "flushing" => pc[sd.flush] \in Settled

\* What shutdown awaits are flushes that exist.
AwaitsFlushes ==
    /\ \A f \in sd.joined : pc[f] # "none"
    /\ sd.pc = "flushing" => sd.flush \in Flushes /\ pc[sd.flush] # "none"

\* The oldest flush that is not settled has no other to wait for.
LEMMA OldestGoesOn ==
    ASSUME TInv, ChainInv, Unsettled # {}, preparing = {}
    PROVE  \E f \in Unsettled : pc[f] \in Running \/ (CapturesDone(f) /\ PreviousDone(f))
<1>. DEFINE f == Smallest(Unsettled)
<1>1. Unsettled \subseteq Flushes /\ Unsettled \subseteq Nat
    BY ConstantsAssumption DEF Unsettled, Flushes
<1>2. f \in Unsettled /\ \A g \in Unsettled : f <= g
    BY <1>1, SmallestIsLeast
<1>. HIDE DEF f
<1>3. CapturesDone(f)
    BY DEF CapturesDone
<1>4. pc[f] \in Running \cup {"waiting"} /\ f \in Flushes /\ ~(f > created) /\ created \in Nat
    BY <1>1, <1>2, ConstantsAssumption
    DEF Unsettled, TInv, TypeOK, FlushPC, ChainInv, ChainEnd
<1>5. CASE pc[f] = "waiting" /\ prev[f] # 0
  <2>1. prev[f] = f - 1 /\ f - 1 # 0
      BY <1>4, <1>5 DEF ChainInv, Chained
  <2>2. f - 1 \in Flushes /\ ~(f - 1 > created) /\ ~(f <= f - 1)
      BY <1>4, <2>1, ConstantsAssumption DEF Flushes
  <2>3. pc[f - 1] # "none" /\ f - 1 \notin Unsettled
      BY <1>2, <2>2 DEF ChainInv, ChainEnd
  <2>4. pc[prev[f]] \in Settled
      BY <2>1, <2>2, <2>3 DEF Unsettled
  <2>. QED BY <1>2, <1>3, <2>4 DEF PreviousDone
<1>6. CASE prev[f] = 0
    BY <1>2, <1>3, <1>6 DEF PreviousDone
<1>. QED BY <1>2, <1>4, <1>5, <1>6

\* The flushes that shutdown awaits: those of its snapshot, and the one it asked for.
LEMMA AwaitsNext ==
    TInv /\ ChainInv /\ WorkInv /\ AwaitsFlushes /\ [Next]_vars => AwaitsFlushes'
<1>. SUFFICES ASSUME TInv, ChainInv, WorkInv, AwaitsFlushes, [Next]_vars PROVE AwaitsFlushes'
    OBVIOUS
<1>1. \A f \in Flushes : pc[f] # "none" => pc'[f] # "none"
    BY WorkNext DEF Advances, Settled
<1>2. sd.joined \subseteq Flushes
    BY DEF TInv, TypeOK
<1>3. ASSUME sd'.joined \subseteq sd.joined \cup Unsettled,
             sd'.pc = "flushing" => sd.pc = "flushing" /\ sd'.flush = sd.flush
      PROVE  AwaitsFlushes'
  <2>1. \A f \in sd'.joined : f \in Flushes /\ pc[f] # "none"
      BY <1>2, <1>3 DEF AwaitsFlushes, Unsettled
  <2>. QED BY <1>1, <1>3, <2>1 DEF AwaitsFlushes
<1>4. CASE UNCHANGED sd
    BY <1>3, <1>4
<1>5. ASSUME NEW c, NEW r, Push(c, r) PROVE AwaitsFlushes'
  <2>1. sd'.joined = sd.joined /\ sd'.pc = sd.pc /\ sd'.flush = sd.flush
      BY <1>5 DEF Push, TInv, TypeOK
  <2>. QED BY <1>3, <2>1
<1>6. ASSUME NEW f \in Flushes, FlushStep(f) PROVE AwaitsFlushes'
  <2>1. sd'.joined = sd.joined /\ sd'.pc = sd.pc /\ sd'.flush = sd.flush
      BY <1>6 DEF FlushStep, StartFlush, Start, BeginFlush, Answer, BatchAccepted, BatchLost,
                  BatchRefused, BatchTooLarge, Shrink, DropBatch, RetryBatch,
                  PersistQueueChange, RemoveFromQueue, StorageFlushed, TInv, TypeOK
  <2>. QED BY <1>3, <2>1
<1>7. CASE BeginShutdown \/ JoinRejected \/ JoinResolved \/ DrainFinished \/ DrainFlushed
             \/ ShutdownTimesOut
  <2>1. CASE BeginShutdown
    <3>1. sd'.joined = Unsettled /\ sd'.pc = "joining"
        BY <2>1 DEF BeginShutdown, TInv, TypeOK
    <3>. QED BY <3>1, <1>3
  <2>2. CASE JoinRejected
    <3>1. sd'.joined = {} /\ sd'.pc = "done"
        BY <2>2 DEF JoinRejected, TInv, TypeOK
    <3>. QED BY <3>1, <1>3
  <2>3. CASE JoinResolved
    <3>1. sd'.joined = Unsettled /\ sd'.pc \in {"draining", "joining"}
        BY <2>3 DEF JoinResolved, JoinAgain, TInv, TypeOK
    <3>. QED BY <3>1, <1>3
  <2>4. CASE DrainFinished \/ DrainFlushed
    <3>1. sd'.joined = sd.joined /\ sd'.pc \in {"draining", "done"}
        BY <2>4 DEF DrainFinished, DrainFlushed, TInv, TypeOK
    <3>. QED BY <3>1, <1>3
  <2>5. CASE ShutdownTimesOut
    <3>1. sd'.joined = sd.joined /\ sd'.pc = sd.pc /\ sd'.flush = sd.flush
        BY <2>5 DEF ShutdownTimesOut, TInv, TypeOK
    <3>. QED BY <3>1, <1>3
  <2>. QED BY <1>7, <2>1, <2>2, <2>3, <2>4, <2>5
<1>8. CASE DrainFlush
  <2>1. sd'.joined = sd.joined /\ sd'.flush = pending' /\ Flush
      BY <1>8 DEF DrainFlush, TInv, TypeOK
  <2>2. pending' \in Flushes /\ pc'[pending'] # "none"
    <3>1. CASE JoinFlush
      <4>1. pending' = pending /\ pending # 0 /\ pc' = pc
          BY <3>1 DEF JoinFlush, Join, flushVars
      <4>2. pending \in Flushes
          BY <4>1, ConstantsAssumption DEF TInv, TypeOK, Flushes
      <4>. QED BY <4>1, <4>2 DEF ChainInv, PendingWaits
    <3>2. CASE NewFlush(covers)
      <4>1. created + 1 \in Flushes
          BY <3>2, ConstantsAssumption DEF NewFlush, TInv, TypeOK, Flushes
      <4>. QED BY <3>2, <4>1 DEF NewFlush, TInv, TypeOK
    <3>. QED BY <2>1, <3>1, <3>2 DEF Flush
  <2>. QED BY <1>1, <1>2, <2>1, <2>2 DEF AwaitsFlushes
<1>. QED
    BY <1>4, <1>5, <1>6, <1>7, <1>8
    DEF Next, Application, CaptureSettles, Capture, BeginCapture, SetOptedOut, CallFlush,
        DiscardCapture, FinishCapture, TimerFires, ShutdownStep, vars

\* The waits of the pipeline are never circular: of the flushes that are not settled the
\* oldest waits for no other, and shutdown, which awaits flushes and captures and is awaited
\* by neither, goes on when they have ended (flushInternal, promiseQueue.join, _shutdown).
THEOREM WaitsEnd == Spec => []NobodyWaitsInVain
<1>1. Init => AwaitsFlushes
    BY DEF Init, AwaitsFlushes, IdleShutdown
<1>2. TInv /\ ChainInv /\ AwaitsFlushes => NobodyWaitsInVain
  <2>. SUFFICES ASSUME TInv, ChainInv, AwaitsFlushes PROVE NobodyWaitsInVain
      OBVIOUS
  <2>1. ASSUME NEW f \in Flushes, pc[f] # "none", Unsettled = {}
        PROVE  pc[f] \in Settled
      BY <2>1 DEF Unsettled
  <2>2. sd.joined \subseteq Flushes
      BY DEF TInv, TypeOK
  <2>3. CASE Unsettled # {} /\ preparing = {}
      BY <2>3, OldestGoesOn DEF NobodyWaitsInVain
  <2>4. CASE Unsettled = {}
    <3>1. \A f \in sd.joined : pc[f] \in Settled
        BY <2>1, <2>2, <2>4 DEF AwaitsFlushes
    <3>2. sd.pc = "flushing" => pc[sd.flush] \in Settled
        BY <2>1, <2>4 DEF AwaitsFlushes
    <3>. QED BY <2>4, <3>1, <3>2 DEF NobodyWaitsInVain, Settled
  <2>. QED BY <2>3, <2>4 DEF NobodyWaitsInVain
<1>. QED BY <1>1, <1>2, AwaitsNext, TypeInit, ChainInit, WorkInit, TypeNext, ChainNext,
            WorkNext, PTL DEF Spec

===============================================================================
