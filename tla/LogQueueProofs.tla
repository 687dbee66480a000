----------------------------- MODULE LogQueueProofs -----------------------------
(* Proofs about LogQueue, for every value of its constants.                    *)
EXTENDS LogQueue, FiniteSetTheorems, WellFoundedInduction, TLAPS

-------------------------------------------------------------------------------
(* Facts about slice(0, n).                                                    *)

\* A set of enqueue numbers is finite, and holds no more than were given out.
LEMMA RecordsFinite ==
    ASSUME NEW n \in Nat, NEW S \in SUBSET (1..n)
    PROVE  IsFiniteSet(S) /\ Cardinality(S) \in 0..n
<1>1. IsFiniteSet(1..n) /\ Cardinality(1..n) = n
    BY FS_Interval, 1 \in Int, n \in Int
<1>2. IsFiniteSet(S) /\ Cardinality(S) <= n
    BY <1>1, FS_Subset
<1>. QED BY <1>2, FS_CardinalityType

\* Part of a set of records has no more of them.
LEMMA SubsetCount ==
    ASSUME NEW n \in Nat, NEW S \in SUBSET (1..n), NEW T \in SUBSET S
    PROVE  /\ Cardinality(T) \in Nat /\ Cardinality(S) \in Nat
           /\ Cardinality(T) <= Cardinality(S)
<1>1. IsFiniteSet(S) /\ Cardinality(S) \in Nat
    BY RecordsFinite
<1>2. IsFiniteSet(T) /\ Cardinality(T) <= Cardinality(S)
    BY <1>1, FS_Subset
<1>. QED BY <1>1, <1>2, FS_CardinalityType

LEMMA SliceIsSubset == \A q, n : Slice(q, n) \subseteq q
BY DEF Slice

\* A slice is taken from the front of the queue.
LEMMA SliceIsFront ==
    ASSUME NEW n \in Nat, NEW q \in SUBSET (1..n), NEW size \in Int,
           NEW b \in Slice(q, size), NEW m \in q, m < b
    PROVE  m \in Slice(q, size)
<1>. DEFINE Below(x) == {k \in q : k < x}
<1>1. b \in q /\ Cardinality(Below(b)) < size
    BY DEF Slice
<1>0. \A x \in q : x \in Int
    OBVIOUS
<1>2. Below(m) \in SUBSET Below(b) /\ Below(b) \in SUBSET (1..n)
  <2>1. \A k \in q : k < m => k < b
      BY <1>0, <1>1
  <2>. QED BY <2>1
<1>. HIDE DEF Below
<1>3. /\ Cardinality(Below(m)) <= Cardinality(Below(b))
      /\ Cardinality(Below(m)) \in Nat /\ Cardinality(Below(b)) \in Nat
    BY <1>2, SubsetCount
<1>4. Cardinality(Below(m)) < size
    BY <1>1, <1>3
<1>. QED BY <1>4 DEF Slice, Below

\* A slice is no longer than asked for.
LEMMA SliceIsShort ==
    ASSUME NEW n \in Nat, NEW q \in SUBSET (1..n), NEW size \in Nat
    PROVE  Cardinality(Slice(q, size)) <= size
<1>. DEFINE S == Slice(q, size)
            Below(x) == {k \in q : k < x}
            rank == [m \in S |-> Cardinality(Below(m))]
<1>0. \A x \in q : x \in Int
    OBVIOUS
<1>1. ASSUME NEW m \in S
      PROVE  /\ m \in q /\ IsFiniteSet(Below(m))
             /\ Cardinality(Below(m)) \in Nat /\ Cardinality(Below(m)) < size
  <2>1. m \in q /\ Cardinality(Below(m)) < size
      BY DEF Slice
  <2>2. Below(m) \in SUBSET (1..n)
      OBVIOUS
  <2>3. IsFiniteSet(Below(m)) /\ Cardinality(Below(m)) \in Nat
      BY <2>2, RecordsFinite
  <2>. QED BY <2>1, <2>3
<1>2. rank \in [S -> 0..(size - 1)]
    BY <1>1
<1>3. ASSUME NEW a \in S, NEW b \in S, a < b
      PROVE  rank[a] # rank[b]
  <2>1. a \in q /\ b \in q
      BY <1>1
  <2>2. (\A k \in q : k < a => k < b) /\ ~(a < a)
      BY <1>0, <1>3, <2>1
  <2>5. Below(a) \in SUBSET Below(b) /\ Below(a) # Below(b)
      BY <1>3, <2>1, <2>2
  <2>3. IsFiniteSet(Below(b))
      BY <1>1
  <2>. HIDE DEF Below
  <2>4. Cardinality(Below(b)) # Cardinality(Below(a))
      BY <2>3, <2>5, FS_Subset
  <2>. QED BY <2>4
<1>4. \A a, b \in S : rank[a] = rank[b] => a = b
  <2>1. S \subseteq q
      BY <1>1
  <2>2. \A a, b \in q : a < b \/ a = b \/ b < a
      BY <1>0
  <2>. HIDE DEF S, rank
  <2>. QED BY <2>1, <2>2, <1>3
<1>. HIDE DEF rank, S
<1>5. rank \in Injection(S, 0..(size - 1))
    BY <1>2, <1>4 DEF Injection, IsInjective
<1>6. size - 1 \in Int /\ 0 \in Int
    OBVIOUS
<1>7. IsFiniteSet(0..(size - 1)) /\ Cardinality(0..(size - 1)) = size
    BY <1>6, FS_Interval
<1>8. Cardinality(S) <= Cardinality(0..(size - 1))
    BY <1>5, <1>7, FS_Injection
<1>. QED BY <1>7, <1>8 DEF S

\* A slice as long as part of the front holds it ...
LEMMA SliceHolds ==
    ASSUME NEW n \in Nat, NEW q \in SUBSET (1..n), NEW size \in Int,
           NEW P \in SUBSET q, \A b \in P, m \in q : m < b => m \in P,
           Cardinality(P) <= size
    PROVE  P \subseteq Slice(q, size)
<1>. SUFFICES ASSUME NEW m \in P PROVE m \in Slice(q, size)
    OBVIOUS
<1>. DEFINE Below == {k \in q : k < m}
<1>0. \A x \in q : x \in Int
    OBVIOUS
<1>1. Below \in SUBSET P /\ m \notin Below
  <2>1. m \in q /\ ~(m < m)
      BY <1>0
  <2>. QED BY <2>1
<1>2. P \in SUBSET (1..n)
    OBVIOUS
<1>. HIDE DEF Below
<1>3. IsFiniteSet(P)
    BY <1>2, RecordsFinite
<1>4. Cardinality(Below) <= Cardinality(P) /\ Cardinality(Below) # Cardinality(P)
    BY <1>1, <1>3, FS_Subset
<1>5. Cardinality(Below) \in Nat /\ Cardinality(P) \in Nat
    BY <1>1, <1>2, SubsetCount
<1>6. Cardinality(Below) < size
    BY <1>4, <1>5
<1>. QED BY <1>6 DEF Slice, Below

\* ... and one that is no longer holds nothing else.
LEMMA SliceWithin ==
    ASSUME NEW n \in Nat, NEW q \in SUBSET (1..n), NEW size \in Int,
           NEW P \in SUBSET q, \A b \in P, m \in q : m < b => m \in P,
           size <= Cardinality(P)
    PROVE  Slice(q, size) \subseteq P
<1>. SUFFICES ASSUME NEW m \in Slice(q, size), m \notin P PROVE FALSE
    OBVIOUS
<1>. DEFINE Below == {k \in q : k < m}
<1>0. \A x \in q : x \in Int
    OBVIOUS
<1>1. m \in q /\ Cardinality(Below) < size
    BY DEF Slice
<1>2. P \in SUBSET Below /\ Below \in SUBSET (1..n)
  <2>1. \A k \in P : k \in q /\ k # m /\ ~(m < k)
      BY <1>1
  <2>2. \A k \in P : k < m
      BY <1>0, <1>1, <2>1
  <2>. QED BY <2>1, <2>2
<1>. HIDE DEF Below
<1>3. /\ Cardinality(P) <= Cardinality(Below)
      /\ Cardinality(P) \in Nat /\ Cardinality(Below) \in Nat
    BY <1>2, SubsetCount
<1>. QED BY <1>1, <1>3

-------------------------------------------------------------------------------
(* Types.                                                                      *)

CoreRecord == [timer : NoTimer..MaxExponent, promise : 0..NumFlushes,
               maxBatch : 1..MaxBatch, evicted : 0..MaxRecords,
               failures : 0..MaxFailures]

RunRecord == [pc : {"none", "ending"} \cup Sending, core : Cores,
              array : SUBSET Records, live : BOOLEAN, batch : SUBSET Records,
              left : Int, failed : BOOLEAN, background : 0..MaxFailures]

\* A pipeline counts evictions that took place, and no record is evicted twice.
EvictionsCounted ==
    /\ queue \cap overflowed = {}
    /\ \A c \in Cores : core[c].evicted <= Cardinality(overflowed)

\* Requests hold at most MaxBatch records, of those enqueued.
RunsTyped(runs, n) ==
    /\ runs \in [Flushes -> RunRecord]
    /\ \A f \in Flushes : /\ Cardinality(runs[f].batch) <= MaxBatch
                          /\ runs[f].batch \subseteq 1..n
                          /\ runs[f].array \subseteq 1..n

\* The pipelines have their types and have counted no more than e evictions.
CoresTyped(cs, e) ==
    /\ cs \in [Cores -> CoreRecord]
    /\ \A c \in Cores : cs[c].evicted <= e

HistoryTyped(n) ==
    \A s \in {taken, acked, refused, overflowed, withdrawn} : s \subseteq 1..n

TInv == TypeOK /\ EvictionsCounted /\ RunsTyped(run, enqueued)

LEMMA TypeParts ==
    TInv <=> /\ host \in Hosts /\ optedOut \in BOOLEAN
             /\ enqueued \in 0..MaxRecords /\ queue \subseteq 1..enqueued
             /\ current \in Cores
             /\ CoresTyped(core, Cardinality(overflowed))
             /\ RunsTyped(run, enqueued)
             /\ HistoryTyped(enqueued)
             /\ queue \cap overflowed = {}
BY DEF TInv, TypeOK, EvictionsCounted, RunsTyped, CoresTyped, HistoryTyped,
       CoreRecord, RunRecord

LEMMA TypePartsNext ==
    ASSUME host' \in Hosts, optedOut' \in BOOLEAN,
           enqueued' \in 0..MaxRecords, queue' \subseteq 1..enqueued',
           current' \in Cores, CoresTyped(core', Cardinality(overflowed')),
           RunsTyped(run', enqueued'), HistoryTyped(enqueued)',
           queue' \cap overflowed' = {}
    PROVE  TInv'
BY DEF TInv, TypeOK, EvictionsCounted, RunsTyped, CoresTyped, HistoryTyped,
       CoreRecord, RunRecord

\* Assigning a field of a pipeline or of a flush keeps the others.
LEMMA CoreFields ==
    ASSUME NEW rec \in CoreRecord
    PROVE  /\ \A t \in NoTimer..MaxExponent : [rec EXCEPT !.timer = t] \in CoreRecord
           /\ \A f \in 0..NumFlushes : [rec EXCEPT !.promise = f] \in CoreRecord
           /\ \A n \in 1..MaxBatch : [rec EXCEPT !.maxBatch = n] \in CoreRecord
           /\ \A n \in 0..MaxRecords : [rec EXCEPT !.evicted = n] \in CoreRecord
           /\ \A n \in 0..MaxFailures : [rec EXCEPT !.failures = n] \in CoreRecord
BY DEF CoreRecord

\* A new pipeline has none of an earlier one's evictions, timer or flush.
LEMMA NewCoreType == NewCore \in CoreRecord /\ NewCore.evicted = 0
<1>1. MaxBatch \in 1..MaxBatch /\ 0 \in 0..NumFlushes /\ 0 \in 0..MaxRecords
    BY LogConstants
<1>2. 0 \in 0..MaxFailures /\ NoTimer \in NoTimer..MaxExponent
    BY LogConstants DEF NoTimer, MaxFailures
<1>. QED BY <1>1, <1>2 DEF NewCore, CoreRecord

LEMMA NoRunType == NoRun \in RunRecord
<1>1. 1 \in Cores /\ 0 \in 0..MaxFailures
    BY LogConstants DEF MaxFailures, Cores
<1>. QED BY <1>1 DEF NoRun, RunRecord

\* The numbers of records are among Records.
LEMMA EnqueuedAreRecords ==
    ASSUME NEW n \in 0..MaxRecords, NEW S \in SUBSET (1..n)
    PROVE  S \in SUBSET Records /\ n \in Nat
BY LogConstants DEF Records

\* What a flush sends first is a slice of the queue it found.
LEMMA NewRunType ==
    ASSUME NEW n \in 0..MaxRecords, NEW q \in SUBSET (1..n), NEW c \in Cores,
           NEW size \in 1..MaxBatch, NEW background \in 0..MaxFailures
    PROVE  /\ NewRun(c, q, size, background) \in RunRecord
           /\ Cardinality(NewRun(c, q, size, background).batch) <= MaxBatch
           /\ NewRun(c, q, size, background).batch \subseteq 1..n
           /\ NewRun(c, q, size, background).array = {}
<1>0. n \in Nat /\ size \in Nat
    BY LogConstants
<1>1. Slice(q, size) \in SUBSET (1..n)
    BY SliceIsSubset
<1>2. Cardinality(Slice(q, size)) <= size /\ Cardinality(Slice(q, size)) \in Nat
  <2>1. Cardinality(Slice(q, size)) <= size
      BY <1>0, SliceIsShort
  <2>2. Cardinality(Slice(q, size)) \in 0..n
      BY <1>0, <1>1, RecordsFinite
  <2>. QED BY <1>0, <2>1, <2>2
<1>3. Cardinality(q) \in Int
    BY <1>0, RecordsFinite
<1>4. Slice(q, size) \in SUBSET Records
    BY <1>1, EnqueuedAreRecords
<1>5. NewRun(c, q, size, background) \in RunRecord
    BY <1>3, <1>4 DEF NewRun, RunRecord, Sending
<1>6. Cardinality(Slice(q, size)) <= MaxBatch
    BY <1>0, <1>2, LogConstants
<1>. QED BY <1>1, <1>5, <1>6 DEF NewRun

\* flush() joins the flush under way or starts one.
LEMMA FlushType ==
    ASSUME NEW n \in 0..MaxRecords, NEW q \in SUBSET (1..n), NEW c \in Cores,
           NEW cs, NEW e \in Nat, CoresTyped(cs, e), RunsTyped(run, n),
           NEW background \in 0..MaxFailures, Flush(c, cs, q, background)
    PROVE  CoresTyped(core', e) /\ RunsTyped(run', n)
<1>. DEFINE joined == cs[c].promise
<1>1. cs[c] \in CoreRecord /\ joined \in 0..NumFlushes
    BY DEF CoresTyped, CoreRecord
<1>2. CASE joined # 0
  <2>1. joined \in Flushes /\ run[joined] \in RunRecord
      BY <1>1, <1>2 DEF Flushes, RunsTyped
  <2>2. core' = cs /\ run' = [run EXCEPT ![joined].background =
                                Least(@ + background, MaxFailures)]
      BY <1>2 DEF Flush, FlushOrJoin
  <2>3. Least(run[joined].background + background, MaxFailures) \in 0..MaxFailures
      BY <2>1, LogConstants DEF RunRecord, Least, MaxFailures
  <2>4. ASSUME NEW f \in Flushes
        PROVE  /\ run'[f] \in RunRecord /\ run'[f].batch = run[f].batch
               /\ run'[f].array = run[f].array
    <3>1. run[f] \in RunRecord
        BY DEF RunsTyped
    <3>. QED BY <2>1, <2>2, <2>3, <3>1 DEF RunRecord, RunsTyped
  <2>5. run' \in [Flushes -> RunRecord]
      BY <2>1, <2>2, <2>4 DEF RunsTyped
  <2>. QED BY <2>2, <2>4, <2>5 DEF RunsTyped
<1>3. CASE joined = 0
  <2>1. PICK f \in Flushes :
          /\ core' = [cs EXCEPT ![c].timer = NoTimer, ![c].promise = f,
                                ![c].evicted = IF q = {} THEN @ ELSE 0]
          /\ run' = [run EXCEPT ![f] = NewRun(c, q, cs[c].maxBatch, background)]
      BY <1>3 DEF Flush, FlushOrJoin
  <2>2. cs[c].maxBatch \in 1..MaxBatch
      BY <1>1 DEF CoreRecord
  <2>3. RunsTyped(run', n)
      BY <2>1, <2>2, NewRunType DEF RunsTyped
  <2>4. NoTimer \in NoTimer..MaxExponent /\ f \in 0..NumFlushes /\ 0 \in 0..MaxRecords
      BY LogConstants DEF NoTimer, Flushes
  <2>5. ASSUME NEW d \in Cores
        PROVE  core'[d] \in CoreRecord /\ core'[d].evicted <= e
    <3>1. cs[d] \in CoreRecord /\ cs[d].evicted <= e
        BY DEF CoresTyped
    <3>2. CASE d # c
        BY <2>1, <3>1, <3>2 DEF CoresTyped
    <3>3. CASE d = c
      <4>. DEFINE evicted == IF q = {} THEN cs[d].evicted ELSE 0
      <4>1. core'[d] = [cs[d] EXCEPT !.timer = NoTimer, !.promise = f,
                                     !.evicted = evicted]
          BY <2>1, <3>1, <3>3 DEF CoresTyped, CoreRecord
      <4>2. evicted \in 0..MaxRecords /\ evicted <= e
          BY <2>4, <3>1 DEF CoreRecord
      <4>. HIDE DEF evicted
      <4>3. core'[d] \in CoreRecord /\ core'[d].evicted = evicted
          BY <2>4, <3>1, <4>1, <4>2 DEF CoreRecord
      <4>. QED BY <4>2, <4>3
    <3>. QED BY <3>2, <3>3
  <2>. QED BY <2>1, <2>3, <2>5 DEF CoresTyped
<1>. QED BY <1>2, <1>3

\* A pending timer stays, another one has an exponent of the backoff.
LEMMA ArmedType ==
    ASSUME NEW c \in Cores, NEW cs, NEW e \in Nat, CoresTyped(cs, e),
           NEW exponent \in 0..MaxExponent
    PROVE  CoresTyped(Armed(c, cs, exponent), e)
<1>1. exponent \in NoTimer..MaxExponent
    BY LogConstants DEF NoTimer
<1>2. ASSUME NEW d \in Cores
      PROVE  /\ Armed(c, cs, exponent)[d] \in CoreRecord
             /\ Armed(c, cs, exponent)[d].evicted = cs[d].evicted
    BY <1>1, CoreFields DEF Armed, CoresTyped, CoreRecord
<1>. QED BY <1>2 DEF CoresTyped, Armed

\* A full queue evicts its oldest record, which the pipeline counts.
LEMMA EnqueueType ==
    ASSUME TInv, NEW c \in Cores, NEW cs, CoresTyped(cs, Cardinality(overflowed)),
           Enqueue(c, cs)
    PROVE  /\ enqueued' = enqueued + 1 /\ enqueued' \in 0..MaxRecords
           /\ queue' \subseteq 1..enqueued'
           /\ overflowed' \subseteq 1..enqueued' /\ queue' \cap overflowed' = {}
           /\ CoresTyped(core', Cardinality(overflowed'))
           /\ RunsTyped(run', enqueued')
<1>. DEFINE evicted == IF Cardinality(queue) >= MaxQueueSize THEN Slice(queue, 1) ELSE {}
            q == (queue \ evicted) \cup {enqueued + 1}
            counted == [cs EXCEPT ![c].evicted = @ + Cardinality(evicted)]
<1>1. /\ enqueued' = enqueued + 1 /\ queue' = q
      /\ overflowed' = overflowed \cup evicted
      /\ \/ Flush(c, counted, q, 1)
         \/ core' = Armed(c, counted, 0) /\ UNCHANGED run
    BY DEF Enqueue
<1>2. enqueued \in Nat /\ enqueued' \in 0..MaxRecords /\ MaxRecords \in Nat
    BY <1>1, TypeParts, LogConstants DEF Enqueue, RecordLimit
<1>3. /\ evicted \in SUBSET queue /\ queue \in SUBSET (1..enqueued)
      /\ overflowed \in SUBSET (1..enqueued) /\ queue \cap overflowed = {}
    BY SliceIsSubset, TypeParts DEF HistoryTyped
<1>4. RunsTyped(run, enqueued) /\ CoresTyped(cs, Cardinality(overflowed))
    BY TypeParts
<1>. HIDE DEF evicted
<1>5. evicted \in SUBSET (1..enqueued) /\ overflowed' \in SUBSET (1..enqueued)
    BY <1>1, <1>3
<1>6. /\ Cardinality(overflowed') = Cardinality(overflowed) + Cardinality(evicted)
      /\ Cardinality(overflowed) \in Nat /\ Cardinality(evicted) \in Nat
      /\ Cardinality(overflowed') \in 0..enqueued
  <2>1. /\ IsFiniteSet(overflowed) /\ IsFiniteSet(evicted)
        /\ Cardinality(overflowed) \in 0..enqueued /\ Cardinality(evicted) \in 0..enqueued
        /\ Cardinality(overflowed') \in 0..enqueued
      BY <1>2, <1>3, <1>5, RecordsFinite
  <2>2. overflowed \cap evicted = {}
      BY <1>3
  <2>3. Cardinality(overflowed \cup evicted)
          = Cardinality(overflowed) + Cardinality(evicted) - Cardinality({})
      BY <2>1, <2>2, FS_Union
  <2>4. Cardinality({}) = 0
      BY FS_EmptySet
  <2>. QED BY <1>1, <2>1, <2>3, <2>4
<1>7. queue' \in SUBSET (1..enqueued') /\ q \in SUBSET (1..enqueued')
    BY <1>1, <1>2, <1>3
<1>8. overflowed' \subseteq 1..enqueued' /\ queue' \cap overflowed' = {}
  <2>1. overflowed' \subseteq 1..enqueued'
      BY <1>1, <1>2, <1>5
  <2>2. enqueued + 1 \notin overflowed'
      BY <1>2, <1>5
  <2>. QED BY <1>1, <1>3, <2>1, <2>2
<1>9. CoresTyped(counted, Cardinality(overflowed'))
  <2>1. ASSUME NEW d \in Cores
        PROVE  /\ counted[d] \in CoreRecord
               /\ counted[d].evicted <= Cardinality(overflowed')
    <3>1. /\ cs[d] \in CoreRecord /\ cs[d].evicted <= Cardinality(overflowed)
          /\ cs[d].evicted \in Nat
        BY <1>4 DEF CoresTyped, CoreRecord
    <3>2. CASE d # c
        BY <1>4, <1>6, <3>1, <3>2 DEF CoresTyped
    <3>3. CASE d = c
      <4>1. counted[d] = [cs[d] EXCEPT !.evicted = @ + Cardinality(evicted)]
          BY <1>4, <3>3 DEF CoresTyped
      <4>2. /\ cs[d].evicted + Cardinality(evicted) <= Cardinality(overflowed')
            /\ cs[d].evicted + Cardinality(evicted) \in 0..MaxRecords
          BY <1>2, <1>6, <3>1, LogConstants, <1>1
      <4>. QED BY <3>1, <4>1, <4>2 DEF CoreRecord
    <3>. QED BY <3>2, <3>3
  <2>. QED BY <1>4, <2>1 DEF CoresTyped
<1>10. RunsTyped(run, enqueued')
  <2>1. 1..enqueued \subseteq 1..enqueued'
      BY <1>1, <1>2
  <2>. QED BY <1>4, <2>1 DEF RunsTyped
<1>11. 0 \in 0..MaxExponent /\ 1 \in 0..MaxFailures /\ Cardinality(overflowed') \in Nat
    BY <1>6, LogConstants, <1>2 DEF MaxFailures
<1>. HIDE DEF counted, q
<1>12. CASE Flush(c, counted, q, 1)
    BY <1>1, <1>2, <1>7, <1>8, <1>9, <1>10, <1>11, <1>12, FlushType
<1>13. CASE core' = Armed(c, counted, 0) /\ UNCHANGED run
  <2>1. CoresTyped(core', Cardinality(overflowed'))
      BY <1>9, <1>11, <1>13, ArmedType
  <2>. QED BY <1>1, <1>2, <1>7, <1>8, <1>10, <1>13, <2>1
<1>. QED BY <1>1, <1>12, <1>13

\* A flush whose queue is replaced keeps what it had read.
LEMMA DetachedType ==
    ASSUME NEW n \in 0..MaxRecords, NEW runs, RunsTyped(runs, n), queue \subseteq 1..n
    PROVE  RunsTyped(Detached(runs), n)
<1>1. queue \in SUBSET Records
    BY EnqueuedAreRecords
<1>2. ASSUME NEW f \in Flushes
      PROVE  /\ Detached(runs)[f] \in RunRecord
             /\ Detached(runs)[f].batch = runs[f].batch
             /\ Detached(runs)[f].array \subseteq 1..n
  <2>1. runs[f] \in RunRecord /\ runs[f].array \subseteq 1..n
      BY DEF RunsTyped
  <2>2. Detached(runs)[f] = IF runs[f].pc = "sending" /\ runs[f].live
                            THEN [runs[f] EXCEPT !.live = FALSE, !.array = queue]
                            ELSE runs[f]
      BY DEF Detached
  <2>. QED BY <1>1, <2>1, <2>2 DEF RunRecord
<1>. QED BY <1>2 DEF RunsTyped, Detached

\* What leaves the queue after a batch leaves the types alone.
LEMMA AdvanceType ==
    ASSUME TInv, NEW f \in Flushes, NEW failed \in BOOLEAN,
           PersistQueueAdvance(f, failed)
    PROVE  queue' \subseteq queue /\ RunsTyped(run', enqueued)
<1>. DEFINE persisting == [run EXCEPT ![f].pc = "persisting"]
<1>1. /\ queue' \subseteq queue
      /\ run' = [Detached(persisting) EXCEPT ![f].failed = failed]
    BY DEF PersistQueueAdvance, Drop
<1>2. RunsTyped(run, enqueued) /\ enqueued \in 0..MaxRecords /\ queue \subseteq 1..enqueued
    BY TypeParts
<1>3. RunsTyped(persisting, enqueued)
  <2>1. ASSUME NEW g \in Flushes
        PROVE  /\ persisting[g] \in RunRecord /\ persisting[g].batch = run[g].batch
               /\ persisting[g].array = run[g].array
    <3>1. run[g] \in RunRecord
        BY <1>2 DEF RunsTyped
    <3>. QED BY <1>2, <3>1 DEF RunsTyped, RunRecord, Sending
  <2>. QED BY <1>2, <2>1 DEF RunsTyped
<1>. HIDE DEF persisting
<1>4. RunsTyped(Detached(persisting), enqueued)
    BY <1>2, <1>3, DetachedType
<1>5. ASSUME NEW runs, RunsTyped(runs, enqueued)
      PROVE  RunsTyped([runs EXCEPT ![f].failed = failed], enqueued)
  <2>1. ASSUME NEW g \in Flushes
        PROVE  /\ [runs EXCEPT ![f].failed = failed][g] \in RunRecord
               /\ [runs EXCEPT ![f].failed = failed][g].batch = runs[g].batch
               /\ [runs EXCEPT ![f].failed = failed][g].array = runs[g].array
    <3>1. runs[g] \in RunRecord
        BY <1>5 DEF RunsTyped
    <3>. QED BY <1>5, <3>1 DEF RunsTyped, RunRecord
  <2>. QED BY <1>5, <2>1 DEF RunsTyped
<1>. QED BY <1>1, <1>4, <1>5

LEMMA TypeInit == Init => TInv
<1>. SUFFICES ASSUME Init PROVE TInv
    OBVIOUS
<1>1. 1 \in Cores /\ 0 \in 0..MaxRecords /\ 0 \in Nat
    BY LogConstants DEF Cores
<1>2. Cardinality({}) = 0
    BY FS_EmptySet
<1>3. CoresTyped(core, Cardinality(overflowed))
    BY <1>2, NewCoreType DEF Init, CoresTyped
<1>4. RunsTyped(run, enqueued)
  <2>1. NoRun.batch = {} /\ NoRun.array = {} /\ 0 <= MaxBatch
      BY LogConstants DEF NoRun
  <2>. QED BY <1>2, <2>1, NoRunType DEF Init, RunsTyped
<1>. QED BY <1>1, <1>3, <1>4, TypeParts DEF Init, HistoryTyped

\* A call that flushes changes pipelines and flushes alone.
LEMMA FlushCallType ==
    ASSUME TInv, NEW c \in Cores, NEW cs, CoresTyped(cs, Cardinality(overflowed)),
           NEW background \in {0, 1}, Flush(c, cs, queue, background),
           UNCHANGED <<host, optedOut, enqueued, queue, current, history>>
    PROVE  TInv'
<1>1. enqueued \in 0..MaxRecords /\ enqueued \in Nat /\ queue \in SUBSET (1..enqueued)
    BY TypeParts, LogConstants
<1>2. Cardinality(overflowed) \in Nat /\ background \in 0..MaxFailures
  <2>1. overflowed \in SUBSET (1..enqueued)
      BY TypeParts DEF HistoryTyped
  <2>2. Cardinality(overflowed) \in 0..enqueued
      BY <1>1, <2>1, RecordsFinite
  <2>. QED BY <2>2, LogConstants DEF MaxFailures
<1>3. RunsTyped(run, enqueued)
    BY TypeParts
<1>4. CoresTyped(core', Cardinality(overflowed)) /\ RunsTyped(run', enqueued)
    BY <1>1, <1>2, <1>3, FlushType
<1>. QED BY <1>4, TypeParts, TypePartsNext DEF history, HistoryTyped

\* A pipeline with some of its fields as new counts no more evictions.
LEMMA CoreUpdateType ==
    ASSUME TInv, NEW c \in Cores, NEW rec \in CoreRecord,
           rec.evicted \in {core[c].evicted, 0}
    PROVE  CoresTyped([core EXCEPT ![c] = rec], Cardinality(overflowed))
<1>1. CoresTyped(core, Cardinality(overflowed))
    BY TypeParts
<1>2. core[c].evicted \in Nat
    BY <1>1 DEF CoresTyped, CoreRecord
<1>3. Cardinality(overflowed) \in Nat
  <2>1. overflowed \in SUBSET (1..enqueued) /\ enqueued \in Nat
      BY TypeParts, LogConstants DEF HistoryTyped
  <2>. QED BY <2>1, RecordsFinite
<1>4. \A d \in Cores : core[d].evicted <= Cardinality(overflowed)
    BY <1>1 DEF CoresTyped
<1>. QED BY <1>1, <1>2, <1>3, <1>4 DEF CoresTyped

LEMMA FlushCallsType ==
    ASSUME TInv, CallFlush \/ Shutdown \/ OnReconnect \/ \E c \in Cores : TimerFires(c)
    PROVE  TInv'
<1>. DEFINE e == Cardinality(overflowed)
<1>1. CoresTyped(core, e) /\ current \in Cores
    BY TypeParts
<1>2. /\ NoTimer \in NoTimer..MaxExponent /\ 0 \in 0..MaxFailures
    BY LogConstants DEF NoTimer, MaxFailures
<1>3. ASSUME NEW c \in Cores
      PROVE  /\ CoresTyped([core EXCEPT ![c].timer = NoTimer], e)
             /\ CoresTyped([core EXCEPT ![c].failures = 0], e)
  <2>1. core[c] \in CoreRecord
      BY <1>1 DEF CoresTyped
  <2>2. [core[c] EXCEPT !.timer = NoTimer] \in CoreRecord
        /\ [core[c] EXCEPT !.timer = NoTimer].evicted = core[c].evicted
      BY <1>2, <2>1 DEF CoreRecord
  <2>3. [core[c] EXCEPT !.failures = 0] \in CoreRecord
        /\ [core[c] EXCEPT !.failures = 0].evicted = core[c].evicted
      BY <1>2, <2>1 DEF CoreRecord
  <2>4. /\ [core EXCEPT ![c].timer = NoTimer] = [core EXCEPT ![c] = [@ EXCEPT !.timer = NoTimer]]
        /\ [core EXCEPT ![c].failures = 0] = [core EXCEPT ![c] = [@ EXCEPT !.failures = 0]]
      OBVIOUS
  <2>5. CoresTyped([core EXCEPT ![c] = [core[c] EXCEPT !.timer = NoTimer]], e)
      BY <2>2, CoreUpdateType
  <2>6. CoresTyped([core EXCEPT ![c] = [core[c] EXCEPT !.failures = 0]], e)
      BY <2>3, CoreUpdateType
  <2>. QED BY <1>1, <2>4, <2>5, <2>6 DEF CoresTyped
<1>4. CASE CallFlush
    BY <1>1, <1>4, FlushCallType DEF CallFlush
<1>5. CASE Shutdown
    BY <1>1, <1>3, <1>5, FlushCallType DEF Shutdown
<1>6. CASE OnReconnect
    BY <1>1, <1>3, <1>6, FlushCallType DEF OnReconnect
<1>7. ASSUME NEW c \in Cores, TimerFires(c) PROVE TInv'
    BY <1>3, <1>7, FlushCallType DEF TimerFires
<1>. QED BY <1>4, <1>5, <1>6, <1>7

LEMMA CaptureType ==
    ASSUME TInv, Capture \/ CaptureAfterChange PROVE TInv'
<1>1. CoresTyped(core, Cardinality(overflowed)) /\ current \in Cores
    BY TypeParts
<1>2. ASSUME NEW c \in Cores, NEW cs, CoresTyped(cs, Cardinality(overflowed)),
             Enqueue(c, cs), current' \in Cores,
             UNCHANGED <<host, optedOut, taken, acked, refused, withdrawn>>
      PROVE  TInv'
  <2>1. /\ enqueued' = enqueued + 1 /\ enqueued' \in 0..MaxRecords
        /\ queue' \subseteq 1..enqueued'
        /\ overflowed' \subseteq 1..enqueued' /\ queue' \cap overflowed' = {}
        /\ CoresTyped(core', Cardinality(overflowed'))
        /\ RunsTyped(run', enqueued')
      BY <1>2, EnqueueType
  <2>2. 1..enqueued \subseteq 1..enqueued'
      BY <2>1, TypeParts, LogConstants
  <2>3. HistoryTyped(enqueued)'
      BY <1>2, <2>1, <2>2, TypeParts DEF HistoryTyped
  <2>4. host' \in Hosts /\ optedOut' \in BOOLEAN
      BY <1>2, TypeParts
  <2>. QED BY <1>2, <2>1, <2>3, <2>4, TypePartsNext
<1>3. CASE Capture
    BY <1>1, <1>2, <1>3 DEF Capture
<1>4. CASE CaptureAfterChange
  <2>. DEFINE cs == [core EXCEPT ![current] = NewCore]
  <2>1. current' \in Cores
      BY <1>1, <1>4, LogConstants DEF CaptureAfterChange, Cores
  <2>2. CoresTyped(cs, Cardinality(overflowed))
      BY <1>1, NewCoreType, CoreUpdateType
  <2>3. CASE Enqueue(current', cs)
      BY <1>2, <1>4, <2>1, <2>2, <2>3 DEF CaptureAfterChange
  <2>4. CASE core' = cs /\ UNCHANGED <<enqueued, queue, run, overflowed>>
      BY <1>4, <2>1, <2>2, <2>4, TypeParts, TypePartsNext
         DEF CaptureAfterChange, HistoryTyped
  <2>. QED BY <1>4, <2>3, <2>4 DEF CaptureAfterChange
<1>. QED BY <1>3, <1>4

\* The host takes the queue.
LEMMA HostType == ASSUME TInv, Reset \/ FlushViaTransport PROVE TInv'
<1>1. /\ queue' = {} /\ withdrawn' = withdrawn \cup queue /\ run' = Detached(run)
      /\ core' \in {core, [core EXCEPT ![current] = NewCore]}
      /\ UNCHANGED <<host, optedOut, enqueued, current, taken, acked, refused, overflowed>>
    BY DEF Reset, FlushViaTransport
<1>2. RunsTyped(run', enqueued)
    BY <1>1, TypeParts, DetachedType
<1>3. CoresTyped(core', Cardinality(overflowed))
  <2>1. current \in Cores
      BY TypeParts
  <2>2. CoresTyped([core EXCEPT ![current] = NewCore], Cardinality(overflowed))
      BY <2>1, NewCoreType, CoreUpdateType
  <2>. QED BY <1>1, <2>2, TypeParts
<1>. QED BY <1>1, <1>2, <1>3, TypeParts, TypePartsNext DEF HistoryTyped

\* What a flush in the state of the invariant is known to hold.
LEMMA RunFacts ==
    ASSUME TInv, NEW f \in Flushes
    PROVE  /\ run[f] \in RunRecord /\ run[f].core \in Cores
           /\ core[run[f].core] \in CoreRecord
           /\ run[f].batch \in SUBSET (1..enqueued) /\ run[f].array \in SUBSET (1..enqueued)
           /\ queue \in SUBSET (1..enqueued) /\ enqueued \in Nat
           /\ Cardinality(run[f].batch) \in Nat /\ Cardinality(run[f].batch) <= MaxBatch
<1>1. /\ RunsTyped(run, enqueued) /\ CoresTyped(core, Cardinality(overflowed))
      /\ enqueued \in Nat /\ queue \in SUBSET (1..enqueued)
    BY TypeParts, LogConstants
<1>2. /\ run[f] \in RunRecord /\ run[f].core \in Cores
      /\ run[f].batch \in SUBSET (1..enqueued) /\ run[f].array \in SUBSET (1..enqueued)
      /\ Cardinality(run[f].batch) <= MaxBatch
    BY <1>1 DEF RunsTyped, RunRecord
<1>3. Cardinality(run[f].batch) \in Nat
    BY <1>1, <1>2, RecordsFinite
<1>4. core[run[f].core] \in CoreRecord
    BY <1>1, <1>2 DEF CoresTyped
<1>. QED BY <1>1, <1>2, <1>3, <1>4

\* The next batch of a flush is a slice of the array it holds.
LEMMA NextBatchType ==
    ASSUME TInv, NEW f \in Flushes, NEW array \in SUBSET (1..enqueued),
           NEW size \in 1..MaxBatch
    PROVE  /\ Slice(array, size) \in SUBSET (1..enqueued)
           /\ Slice(array, size) \in SUBSET Records
           /\ Cardinality(Slice(array, size)) <= MaxBatch
<1>1. enqueued \in 0..MaxRecords
    BY TypeParts
<1>2. enqueued \in Nat /\ size \in Nat
    BY <1>1, LogConstants
<1>3. Slice(array, size) \in SUBSET (1..enqueued)
    BY SliceIsSubset
<1>4. Cardinality(Slice(array, size)) <= size /\ Cardinality(Slice(array, size)) \in 0..enqueued
    BY <1>2, <1>3, SliceIsShort, RecordsFinite
<1>5. Cardinality(Slice(array, size)) <= MaxBatch
    BY <1>2, <1>4, LogConstants
<1>. QED BY <1>1, <1>3, <1>5, EnqueuedAreRecords

LEMMA RunUpdateType ==
    ASSUME TInv, NEW f \in Flushes, NEW rec \in RunRecord,
           Cardinality(rec.batch) <= MaxBatch, rec.batch \subseteq 1..enqueued,
           rec.array \subseteq 1..enqueued
    PROVE  RunsTyped([run EXCEPT ![f] = rec], enqueued)
<1>1. RunsTyped(run, enqueued)
    BY TypeParts
<1>. QED BY <1>1 DEF RunsTyped

LEMMA AnswerType == ASSUME TInv, NEW f \in Flushes, Answer(f) PROVE TInv'
<1>. DEFINE c == run[f].core
<1>1. /\ run[f] \in RunRecord /\ c \in Cores /\ core[c] \in CoreRecord
      /\ run[f].batch \in SUBSET (1..enqueued) /\ run[f].array \in SUBSET (1..enqueued)
      /\ queue \in SUBSET (1..enqueued) /\ enqueued \in Nat
      /\ Cardinality(run[f].batch) \in Nat /\ Cardinality(run[f].batch) <= MaxBatch
    BY RunFacts
<1>2. host \in Hosts /\ optedOut \in BOOLEAN /\ current \in Cores
      /\ enqueued \in 0..MaxRecords
      /\ CoresTyped(core, Cardinality(overflowed)) /\ HistoryTyped(enqueued)
      /\ queue \cap overflowed = {}
    BY TypeParts
<1>3. CASE Accepted(f)
  <2>1. queue' \subseteq queue /\ RunsTyped(run', enqueued)
      BY <1>3, AdvanceType DEF Accepted
  <2>2. Least(core[c].maxBatch + 1, MaxBatch) \in 1..MaxBatch
      BY <1>1, LogConstants DEF CoreRecord, Least
  <2>. DEFINE rec == [core[c] EXCEPT !.maxBatch = Least(@ + 1, MaxBatch)]
  <2>3. rec \in CoreRecord /\ rec.evicted = core[c].evicted
      BY <1>1, <2>2 DEF CoreRecord
  <2>4. core' = [core EXCEPT ![c] = rec]
      BY <1>3 DEF Accepted
  <2>. HIDE DEF rec
  <2>5. CoresTyped(core', Cardinality(overflowed))
      BY <1>1, <2>3, <2>4, CoreUpdateType
  <2>6. HistoryTyped(enqueued)'
      BY <1>1, <1>2, <1>3 DEF Accepted, HistoryTyped
  <2>7. UNCHANGED <<host, optedOut, enqueued, current, overflowed>>
      BY <1>3 DEF Accepted
  <2>. QED BY <1>1, <1>2, <2>1, <2>5, <2>6, <2>7, TypePartsNext
<1>4. CASE GivenUp(f)
  <2>1. queue' \subseteq queue /\ RunsTyped(run', enqueued)
      BY <1>4, AdvanceType DEF GivenUp
  <2>2. HistoryTyped(enqueued)'
      BY <1>1, <1>2, <1>4 DEF GivenUp, HistoryTyped
  <2>3. UNCHANGED <<host, optedOut, enqueued, current, core, overflowed>>
      BY <1>4 DEF GivenUp
  <2>. QED BY <1>1, <1>2, <2>1, <2>2, <2>3, TypePartsNext
<1>5. CASE RetryLater(f)
  <2>1. RunsTyped(run', enqueued)
    <3>. DEFINE rec == [run[f] EXCEPT !.pc = "ending", !.failed = TRUE]
    <3>1. rec \in RunRecord /\ rec.batch = run[f].batch /\ rec.array = run[f].array
        BY <1>1 DEF RunRecord
    <3>2. run' = [run EXCEPT ![f] = rec]
        BY <1>5 DEF RetryLater
    <3>. HIDE DEF rec
    <3>. QED BY <1>1, <3>1, <3>2, RunUpdateType
  <2>2. HistoryTyped(enqueued)'
      BY <1>1, <1>2, <1>5 DEF RetryLater, HistoryTyped
  <2>3. UNCHANGED <<host, optedOut, enqueued, queue, current, core, overflowed>>
      BY <1>5 DEF RetryLater
  <2>. QED BY <1>1, <1>2, <2>1, <2>2, <2>3, TypePartsNext
<1>6. CASE TooLarge(f)
  <2>. DEFINE half == Cardinality(run[f].batch) \div 2
              array == IF run[f].live THEN queue ELSE run[f].array
              rec == [run[f] EXCEPT !.pc = "sending", !.batch = Slice(array, half)]
              shrunk == [core[c] EXCEPT !.maxBatch = half, !.evicted = 0]
  <2>1. half \in 1..MaxBatch
      BY <1>1, <1>6, LogConstants DEF TooLarge
  <2>2. array \in SUBSET (1..enqueued)
      BY <1>1
  <2>3. core' = [core EXCEPT ![c] = shrunk]
      BY <1>6 DEF TooLarge, Shrink
  <2>4. run' = [run EXCEPT ![f] = rec]
    <3>1. run' = [run EXCEPT ![f] = [run[f] EXCEPT !.pc = "sending",
                       !.batch = Slice(array, half), !.left = run[f].left]]
        BY <1>6 DEF TooLarge, Shrink, SendNext
    <3>2. [run[f] EXCEPT !.pc = "sending", !.batch = Slice(array, half),
                         !.left = run[f].left] = rec
        BY <1>1 DEF RunRecord
    <3>. QED BY <3>1, <3>2
  <2>. HIDE DEF half, array
  <2>5. /\ Slice(array, half) \in SUBSET (1..enqueued)
        /\ Slice(array, half) \in SUBSET Records
        /\ Cardinality(Slice(array, half)) <= MaxBatch
      BY <2>1, <2>2, NextBatchType
  <2>6. rec \in RunRecord /\ rec.batch = Slice(array, half) /\ rec.array = run[f].array
      BY <1>1, <2>5 DEF RunRecord, Sending
  <2>7. shrunk \in CoreRecord /\ shrunk.evicted = 0
    <3>1. 0 \in 0..MaxRecords
        BY LogConstants
    <3>. QED BY <1>1, <2>1, <3>1 DEF CoreRecord
  <2>. HIDE DEF rec, shrunk
  <2>8. RunsTyped(run', enqueued)
      BY <1>1, <2>4, <2>5, <2>6, RunUpdateType
  <2>9. CoresTyped(core', Cardinality(overflowed))
      BY <1>1, <2>3, <2>7, CoreUpdateType
  <2>10. UNCHANGED <<host, optedOut, enqueued, queue, current, history>>
      BY <1>6 DEF TooLarge, Shrink
  <2>. QED BY <1>1, <1>2, <2>8, <2>9, <2>10, TypePartsNext DEF history, HistoryTyped
<1>. QED BY <1>3, <1>4, <1>5, <1>6 DEF Answer

LEMMA PersistedType == ASSUME TInv, NEW f \in Flushes, Persisted(f) PROVE TInv'
<1>. DEFINE c == run[f].core
            left == run[f].left - Cardinality(run[f].batch)
            again == ~run[f].failed /\ left > 0 /\ queue # {}
            batch == IF again THEN Slice(queue, core[c].maxBatch) ELSE {}
            rec == [run[f] EXCEPT !.pc = IF again THEN "sending" ELSE "ending",
                                  !.live = again, !.array = {}, !.left = left,
                                  !.batch = batch]
            counted == [core[c] EXCEPT !.evicted = IF again THEN 0 ELSE @]
<1>1. /\ run[f] \in RunRecord /\ c \in Cores /\ core[c] \in CoreRecord
      /\ queue \in SUBSET (1..enqueued) /\ enqueued \in Nat
      /\ Cardinality(run[f].batch) \in Nat
    BY RunFacts
<1>2. run' = [run EXCEPT ![f] = rec] /\ core' = [core EXCEPT ![c] = counted]
    BY DEF Persisted, GoOn
<1>3. core[c].maxBatch \in 1..MaxBatch
    BY <1>1 DEF CoreRecord
<1>4. /\ batch \in SUBSET (1..enqueued) /\ batch \in SUBSET Records
      /\ Cardinality(batch) <= MaxBatch
  <2>1. CASE batch = {}
    <3>. HIDE DEF batch
    <3>1. Cardinality({}) = 0 /\ 0 <= MaxBatch
        BY FS_EmptySet, LogConstants
    <3>. QED BY <2>1, <3>1
  <2>2. CASE batch = Slice(queue, core[c].maxBatch)
    <3>. HIDE DEF batch
    <3>. QED BY <1>1, <1>3, <2>2, NextBatchType
  <2>. QED BY <2>1, <2>2
<1>5. left \in Int /\ again \in BOOLEAN
    BY <1>1 DEF RunRecord
<1>6. counted \in CoreRecord /\ counted.evicted \in {core[c].evicted, 0}
    BY <1>1, LogConstants DEF CoreRecord
<1>. HIDE DEF batch, left, again
<1>7. rec \in RunRecord /\ rec.batch = batch /\ rec.array = {}
    BY <1>1, <1>4, <1>5 DEF RunRecord, Sending
<1>. HIDE DEF rec, counted
<1>8. RunsTyped(run', enqueued)
    BY <1>2, <1>4, <1>7, RunUpdateType
<1>9. CoresTyped(core', Cardinality(overflowed))
    BY <1>1, <1>2, <1>6, CoreUpdateType
<1>10. UNCHANGED <<host, optedOut, enqueued, queue, current, history>>
    BY DEF Persisted, GoOn
<1>. QED BY <1>8, <1>9, <1>10, TypeParts, TypePartsNext DEF history, HistoryTyped

LEMMA EndType == ASSUME TInv, NEW f \in Flushes, End(f) PROVE TInv'
<1>. DEFINE c == run[f].core
            failures == IF run[f].failed
                        THEN Least(core[c].failures + run[f].background, MaxFailures)
                        ELSE 0
            released == [core EXCEPT ![c].promise = 0]
            settled == [released EXCEPT ![c].failures = failures]
            exponent == IF failures = 0 THEN 0 ELSE failures - 1
<1>1. /\ run[f] \in RunRecord /\ c \in Cores /\ core[c] \in CoreRecord
    BY RunFacts
<1>2. /\ run' = [run EXCEPT ![f] = NoRun]
      /\ core' \in {released, settled, Armed(c, settled, exponent)}
      /\ UNCHANGED <<host, optedOut, enqueued, queue, current, history>>
    BY DEF End, Settle
<1>3. failures \in 0..MaxFailures
    BY <1>1, LogConstants DEF RunRecord, CoreRecord, Least, MaxFailures
<1>. HIDE DEF failures
<1>4. exponent \in 0..MaxExponent
    BY <1>3, LogConstants DEF MaxFailures
<1>. HIDE DEF exponent
<1>5. RunsTyped(run', enqueued)
    BY <1>2, NoRunType, TypeParts, FS_EmptySet, LogConstants DEF RunsTyped, NoRun
<1>6. Cardinality(overflowed) \in Nat
  <2>1. overflowed \in SUBSET (1..enqueued) /\ enqueued \in Nat
      BY TypeParts, LogConstants DEF HistoryTyped
  <2>. QED BY <2>1, RecordsFinite
<1>7. CoresTyped(released, Cardinality(overflowed))
  <2>1. [core[c] EXCEPT !.promise = 0] \in CoreRecord
        /\ [core[c] EXCEPT !.promise = 0].evicted = core[c].evicted
      BY <1>1, LogConstants DEF CoreRecord
  <2>2. released = [core EXCEPT ![c] = [core[c] EXCEPT !.promise = 0]]
      OBVIOUS
  <2>. HIDE DEF released
  <2>. QED BY <1>1, <2>1, <2>2, CoreUpdateType
<1>8. CoresTyped(settled, Cardinality(overflowed))
  <2>1. ASSUME NEW d \in Cores
        PROVE  settled[d] \in CoreRecord /\ settled[d].evicted = released[d].evicted
    <3>1. released[d] \in CoreRecord
        BY <1>7 DEF CoresTyped
    <3>2. settled[d] \in {released[d], [released[d] EXCEPT !.failures = failures]}
        BY <1>7 DEF CoresTyped
    <3>. HIDE DEF released, settled
    <3>. QED BY <1>3, <3>1, <3>2 DEF CoreRecord
  <2>2. settled \in [Cores -> CoreRecord]
      BY <1>7, <2>1 DEF CoresTyped
  <2>. HIDE DEF released, settled
  <2>. QED BY <1>7, <2>1, <2>2 DEF CoresTyped
<1>. HIDE DEF released, settled
<1>9. CoresTyped(core', Cardinality(overflowed))
    BY <1>1, <1>2, <1>4, <1>6, <1>7, <1>8, ArmedType
<1>. QED BY <1>2, <1>5, <1>9, TypeParts, TypePartsNext DEF history, HistoryTyped

LEMMA TypeNext == TInv /\ [Next]_vars => TInv'
<1>. SUFFICES ASSUME TInv, [Next]_vars PROVE TInv'
    OBVIOUS
<1>1. CASE UNCHANGED vars
    BY <1>1 DEF TInv, TypeOK, EvictionsCounted, vars, history
<1>2. ASSUME NEW value \in BOOLEAN, SetOptedOut(value) PROVE TInv'
    BY <1>2, TypeParts, TypePartsNext DEF SetOptedOut, history, HistoryTyped
<1>3. ASSUME NEW f \in Flushes, FlushStep(f) PROVE TInv'
    BY <1>3, AnswerType, PersistedType, EndType DEF FlushStep
<1>. QED BY <1>1, <1>2, <1>3, CaptureType, FlushCallsType, HostType DEF Next

\* The variables keep their types; requests stay within the batch size, which a
\* 413 halves but never to 0, and a pipeline counts no more evictions than the
\* queue has seen.
THEOREM TypeCorrect == Spec => []TypeOK
<1>1. TInv => TypeOK
    BY DEF TInv
<1>. QED BY <1>1, TypeInit, TypeNext, PTL DEF Spec

-------------------------------------------------------------------------------
(* What a flush removes is what it sent.                                       *)

\* S is, of what q holds up to the newest record of S, everything.
FrontOf(S, q) == \A b \in S, m \in q : m < b => m \in S

\* A batch in flight, or the array its flush still reads, starts at the oldest
\* record of the queue; of the batch at least as many records have left the queue
\* as its pipeline has counted, unless all have.
Front(r, q, e) ==
    /\ FrontOf(r.batch, q)
    /\ r.batch \cap q = {} \/ e <= Cardinality(r.batch \ q)
    /\ ~r.live => FrontOf(r.array, q)

FrontsHeld(runs, q, cs) ==
    \A f \in Flushes : runs[f].pc = "sending" => Front(runs[f], q, cs[runs[f].core].evicted)

FrontInv == FrontsHeld(run, queue, core)

\* The queue may lose records, and the pipeline forget evictions.
LEMMA FrontShrinks ==
    ASSUME NEW n \in Nat, NEW r, r.batch \in SUBSET (1..n), NEW q, NEW e \in Int,
           Front(r, q, e), NEW q2 \in SUBSET q, NEW e2 \in Int, e2 <= e
    PROVE  Front(r, q2, e2)
<1>1. r.batch \ q \in SUBSET (r.batch \ q2) /\ r.batch \ q2 \in SUBSET (1..n)
    OBVIOUS
<1>2. /\ Cardinality(r.batch \ q) <= Cardinality(r.batch \ q2)
      /\ Cardinality(r.batch \ q) \in Nat /\ Cardinality(r.batch \ q2) \in Nat
    BY <1>1, SubsetCount
<1>3. r.batch \cap q2 = {} \/ e2 <= Cardinality(r.batch \ q2)
    BY <1>2 DEF Front
<1>. QED BY <1>3 DEF Front, FrontOf

\* A batch cut from the queue starts at its oldest record.
LEMMA SliceFront ==
    ASSUME NEW n \in Nat, NEW q \in SUBSET (1..n), NEW size \in Int, NEW r,
           r.batch = Slice(q, size), r.live
    PROVE  Front(r, q, 0)
<1>1. FrontOf(r.batch, q)
    BY SliceIsFront DEF FrontOf
<1>2. r.batch \ q = {}
    BY SliceIsSubset
<1>3. 0 <= Cardinality(r.batch \ q)
    BY <1>2, FS_EmptySet
<1>. QED BY <1>1, <1>3 DEF Front

\* The fields of a pipeline, whatever evictions it has counted.
CountingRecord == [timer : NoTimer..MaxExponent, promise : 0..NumFlushes,
                   maxBatch : 1..MaxBatch, evicted : Nat, failures : 0..MaxFailures]

LEMMA CoresCount == CoreRecord \subseteq CountingRecord
BY DEF CoreRecord, CountingRecord

\* A flush joined or started by a call leaves the others' batches as they are.
LEMMA FrontFlush ==
    ASSUME TInv, NEW n \in Nat, NEW q \in SUBSET (1..n), NEW c \in Cores,
           NEW cs \in [Cores -> CountingRecord], NEW background,
           \A f \in Flushes : run[f].batch \in SUBSET (1..n),
           FrontsHeld(run, q, cs), Flush(c, cs, q, background)
    PROVE  FrontsHeld(run', q, core')
<1>. DEFINE joined == cs[c].promise
<1>1. ASSUME NEW f \in Flushes PROVE run[f] \in RunRecord /\ run[f].core \in Cores
    BY RunFacts
<1>2. joined \in 0..NumFlushes /\ cs[c].maxBatch \in Int
    BY DEF CountingRecord
<1>3. CASE joined # 0
  <2>1. joined \in Flushes
      BY <1>2, <1>3 DEF Flushes
  <2>2. core' = cs /\ run' = [run EXCEPT ![joined].background =
                                Least(@ + background, MaxFailures)]
      BY <1>3 DEF Flush, FlushOrJoin
  <2>3. ASSUME NEW f \in Flushes
        PROVE  /\ run'[f].pc = run[f].pc /\ run'[f].core = run[f].core
               /\ run'[f].batch = run[f].batch /\ run'[f].array = run[f].array
               /\ run'[f].live = run[f].live
    <3>1. run \in [Flushes -> RunRecord]
        BY DEF TInv, RunsTyped
    <3>. QED BY <1>1, <2>1, <2>2, <3>1 DEF RunRecord
  <2>. QED BY <2>2, <2>3 DEF FrontsHeld, Front
<1>4. CASE joined = 0
  <2>1. PICK f \in Flushes :
          /\ core' = [cs EXCEPT ![c].timer = NoTimer, ![c].promise = f,
                                ![c].evicted = IF q = {} THEN @ ELSE 0]
          /\ run' = [run EXCEPT ![f] = NewRun(c, q, cs[c].maxBatch, background)]
      BY <1>4 DEF Flush, FlushOrJoin
  <2>2. ASSUME NEW d \in Cores
        PROVE  /\ core'[d].evicted \in Int /\ core'[d].evicted <= cs[d].evicted
               /\ cs[d].evicted \in Int
               /\ d = c /\ q # {} => core'[d].evicted = 0
    <3>1. cs[d].evicted \in Nat
        BY DEF CountingRecord
    <3>2. CASE d # c
        BY <2>1, <3>1, <3>2
    <3>3. CASE d = c
      <4>1. core'[d].evicted = IF q = {} THEN cs[d].evicted ELSE 0
          BY <2>1, <3>3 DEF CountingRecord
      <4>2. CASE q = {}
          BY <3>1, <3>3, <4>1, <4>2
      <4>3. CASE q # {}
        <5>1. core'[d].evicted = 0
            BY <4>1, <4>3
        <5>. QED BY <3>1, <4>3, <5>1
      <4>. QED BY <4>2, <4>3
    <3>. QED BY <3>2, <3>3
  <2>3. run \in [Flushes -> RunRecord]
      BY DEF TInv, RunsTyped
  <2>4. ASSUME NEW g \in Flushes, run'[g].pc = "sending"
        PROVE  Front(run'[g], q, core'[run'[g].core].evicted)
    <3>1. CASE g = f
      <4>1. run'[g] = NewRun(c, q, cs[c].maxBatch, background)
          BY <2>1, <2>3, <3>1
      <4>2. /\ run'[g].core = c /\ run'[g].batch = Slice(q, cs[c].maxBatch)
            /\ run'[g].live /\ q # {}
          BY <2>4, <4>1 DEF NewRun
      <4>3. Front(run'[g], q, 0)
          BY <1>2, <4>2, SliceFront
      <4>. QED BY <2>2, <4>2, <4>3
    <3>2. CASE g # f
      <4>1. run'[g] = run[g]
          BY <2>1, <2>3, <3>2
      <4>2. Front(run[g], q, cs[run[g].core].evicted)
          BY <2>4, <4>1 DEF FrontsHeld
      <4>. HIDE <2>1
      <4>. QED BY <1>1, <2>2, <4>1, <4>2, FrontShrinks
    <3>. QED BY <3>1, <3>2
  <2>. QED BY <2>4 DEF FrontsHeld
<1>. QED BY <1>3, <1>4

\* A record evicted for a new one is of the batch in flight, if any of that is
\* still queued, so both counts go up.
LEMMA FrontEnqueue ==
    ASSUME TInv, NEW c \in Cores, NEW cs \in [Cores -> CoreRecord],
           FrontsHeld(run, queue, cs),
           CoresTyped(cs, Cardinality(overflowed)), Enqueue(c, cs)
    PROVE  FrontsHeld(run', queue', core')
<1>. DEFINE evicted == IF Cardinality(queue) >= MaxQueueSize THEN Slice(queue, 1) ELSE {}
            q == (queue \ evicted) \cup {enqueued + 1}
            counted == [cs EXCEPT ![c].evicted = @ + Cardinality(evicted)]
<1>1. /\ enqueued' = enqueued + 1 /\ queue' = q
      /\ \/ Flush(c, counted, q, 1)
         \/ core' = Armed(c, counted, 0) /\ UNCHANGED run
    BY DEF Enqueue
<1>2. enqueued \in Nat /\ queue \in SUBSET (1..enqueued) /\ evicted \in SUBSET queue
      /\ enqueued + 1 \in Nat /\ enqueued + 1 \notin queue
    BY SliceIsSubset, TypeParts, LogConstants
<1>3. Cardinality(evicted) \in {0, 1} /\ \A x \in evicted, m \in queue : x <= m
  <2>1. CASE evicted = {}
    <3>. HIDE DEF evicted
    <3>. QED BY <2>1, FS_EmptySet
  <2>2. CASE evicted = Slice(queue, 1)
    <3>1. Cardinality(Slice(queue, 1)) <= 1 /\ Cardinality(Slice(queue, 1)) \in 0..enqueued
      <4>1. 1 \in Nat /\ Slice(queue, 1) \in SUBSET (1..enqueued)
          BY <1>2, SliceIsSubset
      <4>. QED BY <1>2, <4>1, SliceIsShort, RecordsFinite
    <3>2. ASSUME NEW x \in Slice(queue, 1), NEW m \in queue, ~(x <= m) PROVE FALSE
      <4>. DEFINE Below == {k \in queue : k < x}
      <4>1. x \in queue /\ Cardinality(Below) < 1 /\ Below \in SUBSET (1..enqueued)
          BY <1>2 DEF Slice
      <4>2. m \in Below
          BY <1>2, <3>2, <4>1
      <4>. HIDE DEF Below
      <4>3. IsFiniteSet(Below) /\ Cardinality(Below) \in 0..enqueued
          BY <1>2, <4>1, RecordsFinite
      <4>4. Cardinality(Below) = 0
          BY <1>2, <4>1, <4>3
      <4>. QED BY <4>2, <4>3, <4>4, FS_EmptySet
    <3>. HIDE DEF evicted
    <3>. QED BY <1>2, <2>2, <3>1, <3>2
  <2>. QED BY <2>1, <2>2
<1>4. Cardinality(evicted) = 0 => evicted = {}
  <2>1. evicted \in SUBSET (1..enqueued)
      BY <1>2
  <2>. HIDE DEF evicted
  <2>2. IsFiniteSet(evicted)
      BY <1>2, <2>1, RecordsFinite
  <2>. QED BY <2>2, FS_EmptySet
<1>. HIDE DEF evicted
<1>5. counted \in [Cores -> CountingRecord]
    BY <1>3 DEF CoreRecord, CountingRecord
<1>6. \A d \in Cores : /\ cs[d].evicted \in Nat
                       /\ counted[d].evicted \in Int
                       /\ counted[d].evicted <= cs[d].evicted + Cardinality(evicted)
                       /\ counted[d].maxBatch = cs[d].maxBatch
                       /\ counted[d].promise = cs[d].promise
    BY <1>3 DEF CoreRecord
<1>. HIDE DEF counted
<1>7. FrontsHeld(run, q, counted)
  <2>. SUFFICES ASSUME NEW f \in Flushes, run[f].pc = "sending"
                PROVE  Front(run[f], q, counted[run[f].core].evicted)
      BY DEF FrontsHeld
  <2>. DEFINE B == run[f].batch
              e == cs[run[f].core].evicted
              e2 == counted[run[f].core].evicted
  <2>1. Front(run[f], queue, e)
      BY DEF FrontsHeld
  <2>2. /\ B \in SUBSET (1..enqueued) /\ run[f].array \in SUBSET (1..enqueued)
        /\ run[f].core \in Cores
      BY RunFacts
  <2>3. e \in Nat /\ e2 \in Int /\ e2 <= e + Cardinality(evicted)
      BY <1>6, <2>2
  <2>. HIDE DEF e2
  <2>4. FrontOf(B, q)
      BY <1>2, <2>1, <2>2 DEF Front, FrontOf
  <2>5. ~run[f].live => FrontOf(run[f].array, q)
      BY <1>2, <2>1, <2>2 DEF Front, FrontOf
  <2>6. B \cap q = B \cap (queue \ evicted)
      BY <1>2, <2>2
  <2>7. B \cap q = {} \/ e2 <= Cardinality(B \ q)
    <3>1. CASE B \cap queue = {}
        BY <2>6, <3>1
    <3>2. CASE evicted = {} /\ B \cap queue # {}
      <4>1. B \ q = B \ queue
          BY <2>6, <3>2
      <4>2. e <= Cardinality(B \ queue)
          BY <2>1, <3>2 DEF Front
      <4>3. Cardinality(evicted) = 0
          BY <3>2, FS_EmptySet
      <4>4. Cardinality(B \ queue) \in Nat
        <5>1. B \ queue \in SUBSET (1..enqueued)
            BY <2>2
        <5>. QED BY <1>2, <5>1, RecordsFinite
      <4>5. e2 <= e
          BY <2>3, <4>3
      <4>6. e2 <= Cardinality(B \ queue)
          BY <2>3, <4>2, <4>4, <4>5
      <4>. QED BY <4>1, <4>6
    <3>3. CASE evicted # {} /\ B \cap queue # {}
      <4>1. PICK x : x \in evicted /\ x \in queue
          BY <1>2, <3>3
      <4>2. evicted = {x}
          <5>1. \A y \in evicted : y = x
              BY <1>2, <1>3, <4>1
          <5>. QED BY <4>1, <5>1
      <4>3. x \in B
        <5>1. PICK b \in B : b \in queue
            BY <3>3
        <5>2. x <= b /\ x \in Int /\ b \in Int
            BY <1>2, <1>3, <4>1, <5>1
        <5>. QED BY <2>1, <4>1, <5>1, <5>2 DEF Front, FrontOf
      <4>4. B \ q = (B \ queue) \cup {x} /\ x \notin B \ queue
          BY <2>6, <4>1, <4>2, <4>3
      <4>5. IsFiniteSet(B \ queue) /\ Cardinality(B \ queue) \in 0..enqueued
        <5>1. B \ queue \in SUBSET (1..enqueued)
            BY <2>2
        <5>. QED BY <1>2, <5>1, RecordsFinite
      <4>6. Cardinality(B \ q) = Cardinality(B \ queue) + 1
          BY <4>4, <4>5, FS_AddElement
      <4>7. e <= Cardinality(B \ queue)
          BY <2>1, <3>3 DEF Front
      <4>. QED BY <1>2, <1>3, <2>3, <4>5, <4>6, <4>7
    <3>. QED BY <3>1, <3>2, <3>3
  <2>. QED BY <2>4, <2>5, <2>7 DEF Front, e2
<1>8. \A f \in Flushes : run[f].batch \in SUBSET (1..(enqueued + 1))
  <2>. SUFFICES ASSUME NEW f \in Flushes PROVE run[f].batch \in SUBSET (1..(enqueued + 1))
      OBVIOUS
  <2>1. run[f].batch \in SUBSET (1..enqueued)
      BY RunFacts
  <2>. QED BY <1>2, <2>1
<1>9. q \in SUBSET (1..(enqueued + 1))
    BY <1>2
<1>. HIDE DEF q
<1>10. CASE Flush(c, counted, q, 1)
    BY <1>1, <1>2, <1>5, <1>7, <1>8, <1>9, <1>10, FrontFlush
<1>11. CASE core' = Armed(c, counted, 0) /\ UNCHANGED run
  <2>1. \A d \in Cores : core'[d].evicted = counted[d].evicted
      BY <1>5, <1>11 DEF Armed, CountingRecord
  <2>2. \A f \in Flushes : run[f].core \in Cores
      BY RunFacts
  <2>. QED BY <1>1, <1>7, <1>11, <2>1, <2>2 DEF FrontsHeld
<1>. QED BY <1>1, <1>10, <1>11

\* What leaves the queue after an answer holds all of the batch that is left
\* there, and nothing else if the pipeline has counted every record of the batch
\* that has gone.
LEMMA AdvanceRemoves ==
    ASSUME TInv, FrontInv, NEW f \in Flushes, run[f].pc = "sending", NEW failed,
           PersistQueueAdvance(f, failed)
    PROVE  /\ queue' \subseteq queue /\ run[f].batch \cap queue' = {}
           /\ Cardinality(run[f].batch \ queue) <= core[run[f].core].evicted
                => queue' = queue \ run[f].batch
<1>. DEFINE B == run[f].batch
            P == B \cap queue
            e == core[run[f].core].evicted
            drop == Cardinality(B) - e
<1>1. /\ B \in SUBSET (1..enqueued) /\ queue \in SUBSET (1..enqueued)
      /\ enqueued \in Nat /\ Cardinality(B) \in Nat /\ e \in Nat
    BY RunFacts DEF CoreRecord
<1>2. queue' = queue \ Slice(queue, drop)
    BY DEF PersistQueueAdvance, Drop
<1>3. Front(run[f], queue, e)
    BY DEF FrontInv, FrontsHeld
<1>4. \A b \in P, m \in queue : m < b => m \in P
    BY <1>3 DEF Front, FrontOf
<1>5. /\ Cardinality(B) = Cardinality(P) + Cardinality(B \ queue)
      /\ Cardinality(P) \in Nat /\ Cardinality(B \ queue) \in Nat
  <2>1. IsFiniteSet(B)
      BY <1>1, RecordsFinite
  <2>2. Cardinality(B \ queue) = Cardinality(B) - Cardinality(B \cap queue)
      BY <2>1, FS_Difference
  <2>3. P \in SUBSET (1..enqueued) /\ B \ queue \in SUBSET (1..enqueued)
      BY <1>1
  <2>4. Cardinality(P) \in 0..enqueued /\ Cardinality(B \ queue) \in 0..enqueued
      BY <1>1, <2>3, RecordsFinite
  <2>. QED BY <1>1, <2>2, <2>4
<1>6. drop \in Int /\ P \in SUBSET queue
    BY <1>1
<1>. HIDE DEF P, drop, e
<1>7. P \subseteq Slice(queue, drop)
  <2>1. CASE P = {}
      BY <2>1
  <2>2. CASE P # {}
    <3>1. e <= Cardinality(B \ queue)
        BY <1>3, <2>2 DEF Front, P
    <3>2. Cardinality(P) <= drop
        BY <1>1, <1>5, <3>1 DEF drop
    <3>. QED BY <1>1, <1>4, <1>6, <3>2, SliceHolds
  <2>. QED BY <2>1, <2>2
<1>8. ASSUME Cardinality(B \ queue) <= e PROVE queue' = queue \ B
  <2>1. drop <= Cardinality(P)
      BY <1>1, <1>5, <1>8 DEF drop
  <2>2. Slice(queue, drop) \subseteq P
      BY <1>1, <1>4, <1>6, <2>1, SliceWithin
  <2>. QED BY <1>2, <1>7, <2>2 DEF P
<1>. QED BY <1>2, <1>7, <1>8 DEF P, e

\* A flush that is still sending after the queue was replaced keeps its batch,
\* and reads the old array from now on.
LEMMA DetachedKeeps ==
    ASSUME NEW runs \in [Flushes -> RunRecord], NEW f \in Flushes,
           Detached(runs)[f].pc = "sending"
    PROVE  LET r == Detached(runs)[f]
           IN  /\ runs[f].pc = "sending" /\ r.batch = runs[f].batch
               /\ r.core = runs[f].core /\ ~r.live
               /\ r.array = IF runs[f].live THEN queue ELSE runs[f].array
<1>1. Detached(runs)[f] = IF runs[f].pc = "sending" /\ runs[f].live
                          THEN [runs[f] EXCEPT !.live = FALSE, !.array = queue]
                          ELSE runs[f]
    BY DEF Detached
<1>2. runs[f] \in RunRecord
    OBVIOUS
<1>3. CASE runs[f].pc = "sending" /\ runs[f].live
  <2>1. Detached(runs)[f] = [runs[f] EXCEPT !.live = FALSE, !.array = queue]
      BY <1>1, <1>3
  <2>. QED BY <1>2, <1>3, <2>1 DEF RunRecord
<1>4. CASE ~(runs[f].pc = "sending" /\ runs[f].live)
    BY <1>1, <1>2, <1>4 DEF RunRecord
<1>. QED BY <1>3, <1>4

\* The flush that advances the queue sends no longer.
LEMMA AdvanceKeeps ==
    ASSUME TInv, NEW f \in Flushes, NEW failed \in BOOLEAN,
           PersistQueueAdvance(f, failed), NEW g \in Flushes, run'[g].pc = "sending"
    PROVE  /\ g # f /\ run[g].pc = "sending" /\ run'[g].batch = run[g].batch
           /\ run'[g].core = run[g].core /\ ~run'[g].live
           /\ run'[g].array = IF run[g].live THEN queue ELSE run[g].array
<1>. DEFINE persisting == [run EXCEPT ![f].pc = "persisting"]
<1>1. run' = [Detached(persisting) EXCEPT ![f].failed = failed]
    BY DEF PersistQueueAdvance, Drop
<1>2. run \in [Flushes -> RunRecord] /\ run[f] \in RunRecord
    BY RunFacts DEF TInv, RunsTyped
<1>3. persisting \in [Flushes -> RunRecord] /\ persisting[f].pc = "persisting"
    BY <1>2 DEF RunRecord, Sending
<1>4. Detached(persisting)[f] = persisting[f]
    BY <1>3 DEF Detached
<1>5. run'[f].pc = "persisting"
    BY <1>1, <1>3, <1>4 DEF Detached, RunRecord
<1>6. g # f
    BY <1>5
<1>7. run'[g] = Detached(persisting)[g] /\ persisting[g] = run[g]
    BY <1>1, <1>2, <1>6 DEF Detached
<1>. HIDE DEF persisting
<1>. QED BY <1>3, <1>6, <1>7, DetachedKeeps

\* Every action keeps the batches and arrays at the front of the queue.
LEMMA FrontReplaced ==
    ASSUME TInv, FrontInv, queue' \subseteq queue,
           NEW g \in Flushes, run[g].pc = "sending", run'[g].pc = "sending",
           run'[g].batch = run[g].batch, run'[g].core = run[g].core, ~run'[g].live,
           run'[g].array = IF run[g].live THEN queue ELSE run[g].array,
           core'[run[g].core].evicted \in {core[run[g].core].evicted, 0}
    PROVE  Front(run'[g], queue', core'[run'[g].core].evicted)
<1>1. /\ run[g].batch \in SUBSET (1..enqueued) /\ enqueued \in Nat
      /\ core[run[g].core].evicted \in Nat
    BY RunFacts DEF CoreRecord
<1>2. Front(run[g], queue, core[run[g].core].evicted)
    BY DEF FrontInv, FrontsHeld
<1>3. core'[run[g].core].evicted \in Int
      /\ core'[run[g].core].evicted <= core[run[g].core].evicted
    BY <1>1
<1>4. Front(run[g], queue', core'[run[g].core].evicted)
    BY <1>1, <1>2, <1>3, FrontShrinks
<1>5. FrontOf(run'[g].array, queue')
    BY <1>2 DEF Front, FrontOf
<1>. QED BY <1>4, <1>5 DEF Front

\* A call changes no evictions before it flushes.
LEMMA FrontFlushCall ==
    ASSUME TInv, FrontInv, NEW c \in Cores, NEW cs \in [Cores -> CoreRecord],
           \A d \in Cores : cs[d].evicted = core[d].evicted,
           NEW background, Flush(c, cs, queue, background), UNCHANGED queue
    PROVE  FrontInv'
<1>1. /\ enqueued \in Nat /\ queue \in SUBSET (1..enqueued)
      /\ \A f \in Flushes : run[f].batch \in SUBSET (1..enqueued) /\ run[f].core \in Cores
  <2>1. enqueued \in Nat /\ queue \in SUBSET (1..enqueued)
      BY TypeParts, LogConstants
  <2>. QED BY <2>1, RunFacts
<1>2. FrontsHeld(run, queue, cs)
    BY <1>1 DEF FrontInv, FrontsHeld
<1>3. cs \in [Cores -> CountingRecord]
    BY CoresCount
<1>4. FrontsHeld(run', queue, core')
    BY <1>1, <1>2, <1>3, FrontFlush
<1>. QED BY <1>4 DEF FrontInv

LEMMA FrontCalls ==
    ASSUME TInv, FrontInv,
           CallFlush \/ Shutdown \/ OnReconnect \/ \E c \in Cores : TimerFires(c)
    PROVE  FrontInv'
<1>1. core \in [Cores -> CoreRecord] /\ current \in Cores
    BY TypeParts DEF CoresTyped
<1>2. NoTimer \in NoTimer..MaxExponent /\ 0 \in 0..MaxFailures
    BY LogConstants DEF NoTimer, MaxFailures
<1>3. ASSUME NEW c \in Cores
      PROVE  /\ [core EXCEPT ![c].timer = NoTimer] \in [Cores -> CoreRecord]
             /\ [core EXCEPT ![c].failures = 0] \in [Cores -> CoreRecord]
             /\ \A d \in Cores : /\ [core EXCEPT ![c].timer = NoTimer][d].evicted
                                       = core[d].evicted
                                 /\ [core EXCEPT ![c].failures = 0][d].evicted
                                       = core[d].evicted
    BY <1>1, <1>2 DEF CoreRecord
<1>4. CASE CallFlush
    BY <1>1, <1>4, FrontFlushCall DEF CallFlush
<1>5. CASE Shutdown
    BY <1>1, <1>3, <1>5, FrontFlushCall DEF Shutdown
<1>6. CASE OnReconnect
    BY <1>1, <1>3, <1>6, FrontFlushCall DEF OnReconnect
<1>7. ASSUME NEW c \in Cores, TimerFires(c) PROVE FrontInv'
    BY <1>3, <1>7, FrontFlushCall DEF TimerFires
<1>. QED BY <1>4, <1>5, <1>6, <1>7

LEMMA FrontCapture ==
    ASSUME TInv, FrontInv, Capture \/ CaptureAfterChange PROVE FrontInv'
<1>1. CoresTyped(core, Cardinality(overflowed)) /\ current \in Cores
      /\ core \in [Cores -> CoreRecord]
    BY TypeParts DEF CoresTyped
<1>2. CASE Capture
    BY <1>1, <1>2, FrontEnqueue DEF Capture, FrontInv
<1>3. CASE CaptureAfterChange
  <2>. DEFINE cs == [core EXCEPT ![current] = NewCore]
  <2>1. CoresTyped(cs, Cardinality(overflowed)) /\ cs \in [Cores -> CoreRecord]
      BY <1>1, NewCoreType, CoreUpdateType
  <2>2. ASSUME NEW d \in Cores
        PROVE  /\ cs[d].evicted \in Int /\ core[d].evicted \in Int
               /\ cs[d].evicted <= core[d].evicted
    <3>1. core[d].evicted \in Nat
        BY <1>1 DEF CoreRecord
    <3>2. cs[d].evicted \in {core[d].evicted, 0}
        BY <1>1, NewCoreType
    <3>. HIDE DEF cs
    <3>. QED BY <3>1, <3>2
  <2>3. FrontsHeld(run, queue, cs)
    <3>1. ASSUME NEW f \in Flushes, run[f].pc = "sending"
          PROVE  Front(run[f], queue, cs[run[f].core].evicted)
      <4>1. run[f].core \in Cores /\ run[f].batch \in SUBSET (1..enqueued) /\ enqueued \in Nat
          BY RunFacts
      <4>. HIDE DEF cs
      <4>2. Front(run[f], queue, core[run[f].core].evicted)
          BY <3>1 DEF FrontInv, FrontsHeld
      <4>. QED BY <2>2, <4>1, <4>2, FrontShrinks
    <3>. QED BY <3>1 DEF FrontsHeld
  <2>4. CASE current' \in Cores /\ Enqueue(current', cs)
    <3>. HIDE DEF cs
    <3>. QED BY <2>1, <2>3, <2>4, FrontEnqueue DEF FrontInv
  <2>5. CASE core' = cs /\ UNCHANGED <<enqueued, queue, run, overflowed>>
      BY <2>3, <2>5 DEF FrontInv
  <2>6. current' \in Cores
      BY <1>1, <1>3, LogConstants DEF CaptureAfterChange, Cores
  <2>. QED BY <1>3, <2>4, <2>5, <2>6 DEF CaptureAfterChange
<1>. QED BY <1>2, <1>3

LEMMA FrontHost == ASSUME TInv, FrontInv, Reset \/ FlushViaTransport PROVE FrontInv'
<1>1. queue' = {} /\ run' = Detached(run)
      /\ core' \in {core, [core EXCEPT ![current] = NewCore]}
    BY DEF Reset, FlushViaTransport
<1>2. run \in [Flushes -> RunRecord] /\ core \in [Cores -> CoreRecord]
    BY TypeParts DEF RunsTyped, CoresTyped
<1>3. ASSUME NEW g \in Flushes, run'[g].pc = "sending"
      PROVE  Front(run'[g], queue', core'[run'[g].core].evicted)
    BY <1>1 DEF Front, FrontOf
<1>. QED BY <1>3 DEF FrontInv, FrontsHeld

LEMMA FrontAnswer ==
    ASSUME TInv, FrontInv, NEW f \in Flushes, Answer(f) PROVE FrontInv'
<1>. DEFINE c == run[f].core
<1>1. /\ run \in [Flushes -> RunRecord] /\ core \in [Cores -> CoreRecord]
      /\ run[f] \in RunRecord /\ c \in Cores /\ core[c] \in CoreRecord
      /\ run[f].batch \in SUBSET (1..enqueued) /\ run[f].array \in SUBSET (1..enqueued)
      /\ queue \in SUBSET (1..enqueued) /\ enqueued \in Nat
      /\ Cardinality(run[f].batch) \in Nat
    BY RunFacts, TypeParts DEF RunsTyped, CoresTyped
<1>2. ASSUME NEW failed \in BOOLEAN, run[f].pc = "sending",
             PersistQueueAdvance(f, failed),
             \A d \in Cores : core'[d].evicted = core[d].evicted
      PROVE  FrontInv'
  <2>1. queue' \subseteq queue
      BY <1>2, AdvanceRemoves
  <2>2. ASSUME NEW g \in Flushes, run'[g].pc = "sending"
        PROVE  Front(run'[g], queue', core'[run'[g].core].evicted)
    <3>1. /\ run[g].pc = "sending" /\ run'[g].batch = run[g].batch
          /\ run'[g].core = run[g].core /\ ~run'[g].live
          /\ run'[g].array = IF run[g].live THEN queue ELSE run[g].array
        BY <1>2, <2>2, AdvanceKeeps
    <3>2. run[g].core \in Cores
        BY RunFacts
    <3>. QED BY <1>2, <2>1, <2>2, <3>1, <3>2, FrontReplaced
  <2>. QED BY <2>2 DEF FrontInv, FrontsHeld
<1>3. CASE Accepted(f)
  <2>1. \A d \in Cores : core'[d].evicted = core[d].evicted
      BY <1>1, <1>3 DEF Accepted, CoreRecord
  <2>. QED BY <1>2, <1>3, <2>1 DEF Accepted
<1>4. CASE GivenUp(f)
  <2>1. \A d \in Cores : core'[d].evicted = core[d].evicted
      BY <1>4 DEF GivenUp
  <2>. QED BY <1>2, <1>4, <2>1 DEF GivenUp
<1>5. CASE RetryLater(f)
  <2>1. UNCHANGED <<queue, core>>
      BY <1>5 DEF RetryLater
  <2>2. run' = [run EXCEPT ![f] = [run[f] EXCEPT !.pc = "ending", !.failed = TRUE]]
      BY <1>5 DEF RetryLater
  <2>3. run'[f].pc = "ending" /\ \A g \in Flushes : g # f => run'[g] = run[g]
      BY <1>1, <2>2 DEF RunRecord
  <2>4. ASSUME NEW g \in Flushes, run'[g].pc = "sending"
        PROVE  Front(run'[g], queue', core'[run'[g].core].evicted)
    <3>1. g # f
        BY <2>3, <2>4
    <3>2. run'[g] = run[g]
        BY <2>3, <3>1
    <3>. QED BY <2>1, <2>4, <3>2 DEF FrontInv, FrontsHeld
  <2>. QED BY <2>4 DEF FrontInv, FrontsHeld
<1>6. CASE TooLarge(f)
  <2>. DEFINE half == Cardinality(run[f].batch) \div 2
              array == IF run[f].live THEN queue ELSE run[f].array
  <2>1. /\ core' = [core EXCEPT ![c].maxBatch = half, ![c].evicted = 0]
        /\ run' = [run EXCEPT ![f] = [run[f] EXCEPT !.pc = "sending",
                       !.batch = Slice(array, half), !.left = run[f].left]]
        /\ UNCHANGED queue /\ run[f].pc = "sending"
      BY <1>6 DEF TooLarge, Shrink, SendNext
  <2>2. half \in Int /\ array \in SUBSET (1..enqueued)
      BY <1>1
  <2>. HIDE DEF half
  <2>3. \A d \in Cores : core'[d].evicted = IF d = c THEN 0 ELSE core[d].evicted
      BY <1>1, <2>1 DEF CoreRecord
  <2>4. /\ run'[f].batch = Slice(array, half) /\ run'[f].array = run[f].array
        /\ run'[f].live = run[f].live /\ run'[f].core = c
        /\ \A g \in Flushes : g # f => run'[g] = run[g]
      BY <1>1, <2>1 DEF RunRecord
  <2>5. ASSUME NEW g \in Flushes, run'[g].pc = "sending"
        PROVE  Front(run'[g], queue', core'[run'[g].core].evicted)
    <3>1. CASE g = f
      <4>1. Front(run[f], queue, core[c].evicted)
          BY <2>1 DEF FrontInv, FrontsHeld
      <4>2. ~run[f].live => FrontOf(run'[f].array, queue)
          BY <2>4, <4>1 DEF Front
      <4>3. FrontOf(run'[f].batch, queue)
        <5>1. ASSUME NEW b \in Slice(array, half), NEW m \in queue, m < b
              PROVE  m \in Slice(array, half)
          <6>1. b \in array
              BY SliceIsSubset
          <6>2. m \in array
              BY <4>2, <2>4, <5>1, <6>1 DEF FrontOf
          <6>. HIDE DEF array
          <6>. QED BY <1>1, <2>2, <5>1, <6>2, SliceIsFront
        <5>. QED BY <2>4, <5>1 DEF FrontOf
      <4>4. 0 <= Cardinality(run'[f].batch \ queue)
        <5>1. run'[f].batch \ queue \in SUBSET (1..enqueued)
            BY <2>2, <2>4, SliceIsSubset
        <5>2. Cardinality(run'[f].batch \ queue) \in 0..enqueued
            BY <1>1, <5>1, RecordsFinite
        <5>. QED BY <1>1, <5>2
      <4>5. core'[run'[f].core].evicted = 0
          BY <1>1, <2>3, <2>4
      <4>. QED BY <2>1, <2>4, <3>1, <4>2, <4>3, <4>4, <4>5 DEF Front
    <3>2. CASE g # f
      <4>1. run'[g] = run[g] /\ run[g].pc = "sending"
          BY <2>4, <2>5, <3>2
      <4>2. /\ run[g].core \in Cores /\ run[g].batch \in SUBSET (1..enqueued)
            /\ core[run[g].core].evicted \in Nat
          BY RunFacts DEF CoreRecord
      <4>3. Front(run[g], queue, core[run[g].core].evicted)
          BY <4>1 DEF FrontInv, FrontsHeld
      <4>4. /\ core'[run[g].core].evicted \in Int
            /\ core'[run[g].core].evicted <= core[run[g].core].evicted
          BY <2>3, <4>2
      <4>5. Front(run[g], queue, core'[run[g].core].evicted)
          BY <1>1, <4>2, <4>3, <4>4, FrontShrinks
      <4>. QED BY <2>1, <4>1, <4>5
    <3>. QED BY <3>1, <3>2
  <2>. QED BY <2>5 DEF FrontInv, FrontsHeld
<1>. QED BY <1>3, <1>4, <1>5, <1>6 DEF Answer

\* Once the storage has the queue, the next batch is cut from its front.
LEMMA FrontGoesOn ==
    ASSUME TInv, FrontInv, NEW f \in Flushes, Persisted(f) PROVE FrontInv'
<1>. DEFINE c == run[f].core
            left == run[f].left - Cardinality(run[f].batch)
            again == ~run[f].failed /\ left > 0 /\ queue # {}
            batch == IF again THEN Slice(queue, core[c].maxBatch) ELSE {}
<1>1. /\ run \in [Flushes -> RunRecord] /\ core \in [Cores -> CoreRecord]
      /\ run[f] \in RunRecord /\ c \in Cores /\ core[c] \in CoreRecord
      /\ queue \in SUBSET (1..enqueued) /\ enqueued \in Nat
    BY RunFacts, TypeParts DEF RunsTyped, CoresTyped
<1>2. /\ run' = [run EXCEPT ![f] = [run[f] EXCEPT !.pc = IF again THEN "sending" ELSE "ending",
                     !.live = again, !.array = {}, !.left = left, !.batch = batch]]
      /\ core' = [core EXCEPT ![c].evicted = IF again THEN 0 ELSE @]
      /\ UNCHANGED queue
    BY DEF Persisted, GoOn
<1>. HIDE DEF left
<1>3. \A d \in Cores : core'[d].evicted = IF again /\ d = c THEN 0 ELSE core[d].evicted
    BY <1>1, <1>2 DEF CoreRecord
<1>4. /\ run'[f].batch = batch /\ run'[f].core = c
      /\ run'[f].pc = "sending" => again /\ run'[f].live
      /\ \A g \in Flushes : g # f => run'[g] = run[g]
    BY <1>1, <1>2 DEF RunRecord
<1>5. ASSUME NEW g \in Flushes, run'[g].pc = "sending"
      PROVE  Front(run'[g], queue', core'[run'[g].core].evicted)
  <2>1. CASE g = f
    <3>1. again /\ run'[f].live /\ run'[f].batch = Slice(queue, core[c].maxBatch)
        BY <1>4, <1>5, <2>1
    <3>2. core'[run'[f].core].evicted = 0
        BY <1>1, <1>3, <1>4, <3>1
    <3>3. core[c].maxBatch \in Int
        BY <1>1 DEF CoreRecord
    <3>4. Front(run'[f], queue, 0)
        BY <1>1, <3>1, <3>3, SliceFront
    <3>. QED BY <1>2, <2>1, <3>2, <3>4
  <2>2. CASE g # f
    <3>1. run'[g] = run[g] /\ run[g].pc = "sending"
        BY <1>4, <1>5, <2>2
    <3>2. /\ run[g].core \in Cores /\ run[g].batch \in SUBSET (1..enqueued)
          /\ core[run[g].core].evicted \in Nat
        BY RunFacts DEF CoreRecord
    <3>3. Front(run[g], queue, core[run[g].core].evicted)
        BY <3>1 DEF FrontInv, FrontsHeld
    <3>. HIDE DEF again
    <3>4. /\ core'[run[g].core].evicted \in Int
          /\ core'[run[g].core].evicted <= core[run[g].core].evicted
        BY <1>3, <3>2
    <3>5. Front(run[g], queue, core'[run[g].core].evicted)
        BY <1>1, <3>2, <3>3, <3>4, FrontShrinks
    <3>. QED BY <1>2, <3>1, <3>5
  <2>. QED BY <2>1, <2>2
<1>. QED BY <1>5 DEF FrontInv, FrontsHeld

LEMMA FrontEnds ==
    ASSUME TInv, FrontInv, NEW f \in Flushes, End(f) PROVE FrontInv'
<1>1. /\ run \in [Flushes -> RunRecord] /\ core \in [Cores -> CoreRecord]
      /\ run[f].core \in Cores
    BY RunFacts, TypeParts DEF RunsTyped, CoresTyped
<1>2. run' = [run EXCEPT ![f] = NoRun] /\ UNCHANGED queue
    BY DEF End, Settle
<1>3. \A d \in Cores : core'[d].evicted = core[d].evicted
    BY <1>1 DEF End, Settle, Armed, CoreRecord
<1>4. ASSUME NEW g \in Flushes, run'[g].pc = "sending"
      PROVE  run'[g] = run[g]
    BY <1>1, <1>2, <1>4 DEF NoRun
<1>5. \A g \in Flushes : run[g].core \in Cores
    BY RunFacts
<1>. QED BY <1>2, <1>3, <1>4, <1>5 DEF FrontInv, FrontsHeld

LEMMA FrontNext == TInv /\ FrontInv /\ [Next]_vars => FrontInv'
<1>. SUFFICES ASSUME TInv, FrontInv, [Next]_vars PROVE FrontInv'
    OBVIOUS
<1>1. CASE UNCHANGED vars
    BY <1>1 DEF FrontInv, vars
<1>2. ASSUME NEW value \in BOOLEAN, SetOptedOut(value) PROVE FrontInv'
    BY <1>2 DEF SetOptedOut, FrontInv
<1>3. ASSUME NEW f \in Flushes, FlushStep(f) PROVE FrontInv'
    BY <1>3, FrontAnswer, FrontGoesOn, FrontEnds DEF FlushStep
<1>. QED BY <1>1, <1>2, <1>3, FrontCapture, FrontCalls, FrontHost DEF Next

LEMMA FrontInit == Init => FrontInv
BY DEF Init, FrontInv, FrontsHeld, NoRun

\* Nothing settled is left in the queue and the server took the oldest first.
OrderInv == NothingSettledQueued /\ TakenInOrder

LEMMA OrderInit == Init => OrderInv
BY DEF Init, OrderInv, NothingSettledQueued, TakenInOrder

LEMMA OrderAnswer ==
    ASSUME TInv, FrontInv, OrderInv, NEW f \in Flushes, Answer(f) PROVE OrderInv'
<1>. DEFINE B == run[f].batch
<1>1. run[f].pc = "sending"
    BY DEF Answer, Accepted, GivenUp, RetryLater, TooLarge, Shrink
<1>2. \A b \in B, m \in queue : m < b => m \in B
    BY <1>1 DEF FrontInv, FrontsHeld, Front, FrontOf
<1>3. CASE Accepted(f)
  <2>1. queue' \subseteq queue /\ B \cap queue' = {}
      BY <1>1, <1>3, AdvanceRemoves DEF Accepted
  <2>2. taken' = taken \cup B /\ acked' = acked \cup B /\ UNCHANGED refused
      BY <1>3 DEF Accepted
  <2>. QED BY <1>2, <2>1, <2>2 DEF OrderInv, NothingSettledQueued, TakenInOrder
<1>4. CASE GivenUp(f)
  <2>1. queue' \subseteq queue /\ B \cap queue' = {}
      BY <1>1, <1>4, AdvanceRemoves DEF GivenUp
  <2>2. refused' = refused \cup B /\ UNCHANGED <<taken, acked>>
      BY <1>4 DEF GivenUp
  <2>. QED BY <1>2, <2>1, <2>2 DEF OrderInv, NothingSettledQueued, TakenInOrder
<1>5. CASE RetryLater(f)
  <2>1. taken' \in {taken, taken \cup B} /\ UNCHANGED <<queue, acked, refused>>
      BY <1>5 DEF RetryLater
  <2>. QED BY <1>2, <2>1 DEF OrderInv, NothingSettledQueued, TakenInOrder
<1>6. CASE TooLarge(f)
    BY <1>6 DEF TooLarge, Shrink, history, OrderInv, NothingSettledQueued, TakenInOrder
<1>. QED BY <1>3, <1>4, <1>5, <1>6 DEF Answer

LEMMA OrderEnqueue ==
    ASSUME TInv, OrderInv, NEW c, NEW cs, Enqueue(c, cs),
           UNCHANGED <<taken, acked, refused>>
    PROVE  OrderInv'
<1>1. queue' \subseteq queue \cup {enqueued + 1}
    BY DEF Enqueue
<1>2. /\ enqueued \in Nat /\ taken \subseteq 1..enqueued /\ acked \subseteq 1..enqueued
      /\ refused \subseteq 1..enqueued
    BY TypeParts, LogConstants DEF HistoryTyped
<1>3. enqueued + 1 \notin acked \cup refused
      /\ \A a \in taken : ~(enqueued + 1 < a)
    BY <1>2
<1>. QED BY <1>1, <1>3 DEF OrderInv, NothingSettledQueued, TakenInOrder

LEMMA OrderNext == TInv /\ FrontInv /\ OrderInv /\ [Next]_vars => OrderInv'
<1>. SUFFICES ASSUME TInv, FrontInv, OrderInv, [Next]_vars PROVE OrderInv'
    OBVIOUS
<1>1. ASSUME queue' \in {queue, {}}, UNCHANGED <<taken, acked, refused>> PROVE OrderInv'
    BY <1>1 DEF OrderInv, NothingSettledQueued, TakenInOrder
<1>2. CASE Capture
    BY <1>2, OrderEnqueue DEF Capture
<1>3. CASE CaptureAfterChange
  <2>1. UNCHANGED <<taken, acked, refused>>
      BY <1>3 DEF CaptureAfterChange
  <2>. DEFINE cs == [core EXCEPT ![current] = NewCore]
  <2>2. Enqueue(current', cs) \/ queue' = queue
      BY <1>3 DEF CaptureAfterChange
  <2>. HIDE DEF cs
  <2>. QED BY <1>1, <2>1, <2>2, OrderEnqueue
<1>4. ASSUME NEW f \in Flushes, FlushStep(f) PROVE OrderInv'
  <2>1. CASE Answer(f)
      BY <2>1, OrderAnswer
  <2>2. CASE Persisted(f) \/ End(f)
      BY <1>1, <2>2 DEF Persisted, GoOn, End, Settle, history
  <2>. QED BY <1>4, <2>1, <2>2 DEF FlushStep
<1>5. CASE UNCHANGED vars \/ \E value \in BOOLEAN : SetOptedOut(value)
    BY <1>1, <1>5 DEF vars, history, SetOptedOut
<1>6. CASE CallFlush \/ Shutdown \/ OnReconnect \/ \E c \in Cores : TimerFires(c)
    BY <1>1, <1>6 DEF CallFlush, Shutdown, OnReconnect, TimerFires, history
<1>7. CASE Reset \/ FlushViaTransport
    BY <1>1, <1>7 DEF Reset, FlushViaTransport
<1>. QED BY <1>2, <1>3, <1>4, <1>5, <1>6, <1>7 DEF Next

-------------------------------------------------------------------------------
(* A host that neither replaces the queue nor the pipeline.                    *)

\* There is one pipeline, and the one flush it has under way is the one that
\* flush() joins.
OneFlush ==
    /\ current = 1
    /\ \A c \in Cores : c # 1 => core[c].timer = NoTimer
    /\ \A f \in Flushes : run[f].pc # "none" => core[1].promise = f /\ run[f].core = 1

\* The flush reads the live queue, and every record of its batch that has gone
\* was counted as evicted.
GoneIsCounted == \A f \in Flushes :
    run[f].pc = "sending"
        => /\ run[f].live
           /\ Cardinality(run[f].batch \ queue) <= core[run[f].core].evicted

SteadyInv == Steady => OneFlush /\ GoneIsCounted /\ DuplicateNeverLoss

LEMMA SteadyInit == Init => SteadyInv
BY DEF Init, SteadyInv, OneFlush, GoneIsCounted, DuplicateNeverLoss, NoRun, NewCore

\* A flush joined or started is the one flush.
LEMMA SteadyFlush ==
    ASSUME TInv, NEW n \in Nat, NEW q \in SUBSET (1..n), NEW background,
           NEW cs \in [Cores -> CountingRecord],
           \A d \in Cores : d # 1 => cs[d].timer = NoTimer,
           \A f \in Flushes : run[f].pc # "none" => cs[1].promise = f /\ run[f].core = 1,
           \A f \in Flushes : run[f].pc = "sending"
               => run[f].live /\ Cardinality(run[f].batch \ q) <= cs[run[f].core].evicted,
           Flush(1, cs, q, background)
    PROVE  /\ \A d \in Cores : d # 1 => core'[d].timer = NoTimer
           /\ \A f \in Flushes : run'[f].pc # "none"
                 => core'[1].promise = f /\ run'[f].core = 1
           /\ \A f \in Flushes : run'[f].pc = "sending"
                 => /\ run'[f].live
                    /\ Cardinality(run'[f].batch \ q) <= core'[run'[f].core].evicted
<1>. DEFINE joined == cs[1].promise
<1>0. 1 \in Cores
    BY LogConstants DEF Cores
<1>1. run \in [Flushes -> RunRecord]
    BY DEF TInv, RunsTyped
<1>2. joined \in 0..NumFlushes /\ cs[1].maxBatch \in Int /\ cs[1].evicted \in Nat
    BY <1>0 DEF CountingRecord
<1>3. CASE joined # 0
  <2>1. joined \in Flushes
      BY <1>2, <1>3 DEF Flushes
  <2>2. core' = cs /\ run' = [run EXCEPT ![joined].background =
                                Least(@ + background, MaxFailures)]
      BY <1>3 DEF Flush, FlushOrJoin
  <2>3. ASSUME NEW f \in Flushes
        PROVE  /\ run'[f].pc = run[f].pc /\ run'[f].core = run[f].core
               /\ run'[f].batch = run[f].batch /\ run'[f].live = run[f].live
      BY <1>1, <2>1, <2>2 DEF RunRecord
  <2>. QED BY <2>2, <2>3
<1>4. CASE joined = 0
  <2>1. PICK f \in Flushes :
          /\ core' = [cs EXCEPT ![1].timer = NoTimer, ![1].promise = f,
                                ![1].evicted = IF q = {} THEN @ ELSE 0]
          /\ run' = [run EXCEPT ![f] = NewRun(1, q, cs[1].maxBatch, background)]
      BY <1>4 DEF Flush, FlushOrJoin
  <2>2. \A g \in Flushes : run[g].pc = "none"
    <3>1. 0 \notin Flushes
        BY DEF Flushes
    <3>. QED BY <1>4, <3>1
  <2>3. run'[f] = NewRun(1, q, cs[1].maxBatch, background)
        /\ \A g \in Flushes : g # f => run'[g] = run[g]
      BY <1>1, <2>1
  <2>4. core'[1].promise = f /\ core'[1].evicted \in Nat
        /\ \A d \in Cores : d # 1 => core'[d] = cs[d]
      BY <1>0, <1>2, <2>1 DEF CountingRecord
  <2>5. run'[f].core = 1 /\ run'[f].live /\ Cardinality(run'[f].batch \ q) = 0
    <3>1. run'[f].batch \ q = {}
        BY <2>3, SliceIsSubset DEF NewRun
    <3>2. Cardinality(run'[f].batch \ q) = 0
        BY <3>1, FS_EmptySet
    <3>. QED BY <2>3, <3>2 DEF NewRun
  <2>6. ASSUME NEW g \in Flushes, run'[g].pc # "none" PROVE g = f
      BY <2>2, <2>3, <2>6
  <2>7. Cardinality(run'[f].batch \ q) <= core'[run'[f].core].evicted
    <3>1. run'[f].core = 1 /\ core'[1].evicted \in Nat
        BY <2>4, <2>5
    <3>2. 0 <= core'[1].evicted
        BY <3>1
    <3>. HIDE <2>1
    <3>. QED BY <2>5, <3>1, <3>2
  <2>8. \A g \in Flushes : run'[g].pc = "sending" => g = f
    <3>1. "sending" # "none"
        OBVIOUS
    <3>. QED BY <2>6, <3>1
  <2>9. \A g \in Flushes : run'[g].pc # "none" => core'[1].promise = g /\ run'[g].core = 1
    <3>. HIDE <2>1
    <3>. QED BY <2>4, <2>5, <2>6
  <2>10. \A d \in Cores : d # 1 => core'[d].timer = NoTimer
      BY <2>4
  <2>. HIDE <2>1
  <2>. QED BY <2>5, <2>7, <2>8, <2>9, <2>10
<1>. QED BY <1>3, <1>4

LEMMA SteadyCalls ==
    ASSUME TInv, OneFlush, GoneIsCounted, DuplicateNeverLoss,
           CallFlush \/ Shutdown \/ OnReconnect \/ \E c \in Cores : TimerFires(c)
    PROVE  (OneFlush /\ GoneIsCounted /\ DuplicateNeverLoss)'
<1>1. core \in [Cores -> CoreRecord] /\ 1 \in Cores /\ current = 1
    BY TypeParts, LogConstants DEF CoresTyped, Cores, OneFlush
<1>2. NoTimer \in NoTimer..MaxExponent /\ 0 \in 0..MaxFailures
    BY LogConstants DEF NoTimer, MaxFailures
<1>3. enqueued \in Nat /\ queue \in SUBSET (1..enqueued)
    BY TypeParts, LogConstants
<1>4. ASSUME NEW cs \in [Cores -> CoreRecord],
             \A d \in Cores : /\ cs[d].evicted = core[d].evicted
                              /\ cs[d].promise = core[d].promise
                              /\ d # 1 => cs[d].timer = NoTimer,
             NEW background, Flush(1, cs, queue, background),
             UNCHANGED <<host, optedOut, enqueued, queue, current, history>>
      PROVE  (OneFlush /\ GoneIsCounted /\ DuplicateNeverLoss)'
  <2>1. cs \in [Cores -> CountingRecord]
      BY CoresCount
  <2>2. \A f \in Flushes : run[f].pc # "none" => cs[1].promise = f /\ run[f].core = 1
      BY <1>1, <1>4 DEF OneFlush
  <2>3. \A f \in Flushes : run[f].pc = "sending"
            => run[f].live /\ Cardinality(run[f].batch \ queue) <= cs[run[f].core].evicted
    <3>1. \A f \in Flushes : run[f].core \in Cores
        BY RunFacts
    <3>. QED BY <1>4, <3>1 DEF GoneIsCounted
  <2>4. \A d \in Cores : d # 1 => cs[d].timer = NoTimer
      BY <1>4
  <2>5. /\ \A d \in Cores : d # 1 => core'[d].timer = NoTimer
        /\ \A f \in Flushes : run'[f].pc # "none"
              => core'[1].promise = f /\ run'[f].core = 1
        /\ \A f \in Flushes : run'[f].pc = "sending"
              => /\ run'[f].live
                 /\ Cardinality(run'[f].batch \ queue) <= core'[run'[f].core].evicted
    <3>1. Flush(1, cs, queue, background)
        BY <1>4
    <3>. HIDE <1>4
    <3>. QED BY <1>3, <2>1, <2>2, <2>3, <2>4, <3>1, SteadyFlush
  <2>. QED BY <1>1, <1>4, <2>5 DEF OneFlush, GoneIsCounted, DuplicateNeverLoss, history
<1>5. \A d \in Cores : d # 1 => core[d].timer = NoTimer
    BY DEF OneFlush
<1>6. /\ [core EXCEPT ![1].timer = NoTimer] \in [Cores -> CoreRecord]
      /\ [core EXCEPT ![1].failures = 0] \in [Cores -> CoreRecord]
    BY <1>1, <1>2 DEF CoreRecord
<1>7. \A d \in Cores :
        /\ [core EXCEPT ![1].timer = NoTimer][d].evicted = core[d].evicted
        /\ [core EXCEPT ![1].timer = NoTimer][d].promise = core[d].promise
        /\ d # 1 => [core EXCEPT ![1].timer = NoTimer][d].timer = core[d].timer
        /\ [core EXCEPT ![1].failures = 0][d].evicted = core[d].evicted
        /\ [core EXCEPT ![1].failures = 0][d].promise = core[d].promise
        /\ [core EXCEPT ![1].failures = 0][d].timer = core[d].timer
    BY <1>1 DEF CoreRecord
<1>8. CASE CallFlush
    BY <1>1, <1>4, <1>5, <1>8 DEF CallFlush
<1>9. CASE Shutdown
    BY <1>1, <1>4, <1>5, <1>6, <1>7, <1>9 DEF Shutdown
<1>10. CASE OnReconnect
    BY <1>1, <1>4, <1>5, <1>6, <1>7, <1>10 DEF OnReconnect
<1>11. ASSUME NEW c \in Cores, TimerFires(c)
       PROVE  (OneFlush /\ GoneIsCounted /\ DuplicateNeverLoss)'
  <2>1. c = 1
      BY <1>5, <1>11 DEF TimerFires
  <2>. QED BY <1>4, <1>5, <1>6, <1>7, <1>11, <2>1 DEF TimerFires
<1>. QED BY <1>8, <1>9, <1>10, <1>11

LEMMA SteadyCapture ==
    ASSUME TInv, OneFlush, GoneIsCounted, DuplicateNeverLoss, Capture
    PROVE  (OneFlush /\ GoneIsCounted /\ DuplicateNeverLoss)'
<1>. DEFINE evicted == IF Cardinality(queue) >= MaxQueueSize THEN Slice(queue, 1) ELSE {}
            q == (queue \ evicted) \cup {enqueued + 1}
            counted == [core EXCEPT ![1].evicted = @ + Cardinality(evicted)]
<1>1. core \in [Cores -> CoreRecord] /\ 1 \in Cores /\ current = 1
    BY TypeParts, LogConstants DEF CoresTyped, Cores, OneFlush
<1>2. /\ enqueued' = enqueued + 1 /\ queue' = q /\ overflowed' = overflowed \cup evicted
      /\ \/ Flush(1, counted, q, 1)
         \/ core' = Armed(1, counted, 0) /\ UNCHANGED run
      /\ UNCHANGED <<host, optedOut, current, taken, acked, refused, withdrawn>>
    BY <1>1 DEF Capture, Enqueue
<1>3. enqueued \in Nat /\ queue \in SUBSET (1..enqueued) /\ evicted \in SUBSET queue
      /\ enqueued + 1 \in Nat
    BY SliceIsSubset, TypeParts, LogConstants
<1>. HIDE DEF evicted
<1>4. evicted \in SUBSET (1..enqueued) /\ Cardinality(evicted) \in Nat
      /\ IsFiniteSet(evicted)
  <2>1. evicted \in SUBSET (1..enqueued)
      BY <1>3
  <2>. QED BY <1>3, <2>1, RecordsFinite
<1>5. counted \in [Cores -> CountingRecord]
    BY <1>1, <1>4 DEF CoreRecord, CountingRecord
<1>6. /\ counted[1].evicted = core[1].evicted + Cardinality(evicted)
      /\ counted[1].promise = core[1].promise
      /\ \A d \in Cores : d # 1 => counted[d] = core[d]
      /\ core[1].evicted \in Nat
    BY <1>1, <1>4 DEF CoreRecord
<1>7. (DuplicateNeverLoss)'
  <2>1. 1..enqueued' = (1..enqueued) \cup {enqueued + 1}
      BY <1>2, <1>3
  <2>. QED BY <1>2, <2>1 DEF DuplicateNeverLoss
<1>. HIDE DEF counted
<1>8. ASSUME NEW f \in Flushes, run[f].pc = "sending"
      PROVE  run[f].live /\ Cardinality(run[f].batch \ q) <= counted[run[f].core].evicted
  <2>. DEFINE B == run[f].batch
              gone == B \ queue
              more == B \cap evicted
  <2>1. /\ run[f].live /\ Cardinality(gone) <= core[run[f].core].evicted
      BY <1>8 DEF GoneIsCounted
  <2>2. run[f].core = 1
      BY <1>8 DEF OneFlush
  <2>3. B \in SUBSET (1..enqueued)
      BY RunFacts
  <2>4. /\ gone \in SUBSET (1..enqueued) /\ gone \cup evicted \in SUBSET (1..enqueued)
        /\ B \ q \in SUBSET (gone \cup evicted)
      BY <1>3, <1>4, <2>3
  <2>. HIDE DEF q, gone
  <2>5. IsFiniteSet(gone) /\ Cardinality(gone) \in 0..enqueued
      BY <1>3, <2>4, RecordsFinite
  <2>6. Cardinality(gone \cup evicted)
           = Cardinality(gone) + Cardinality(evicted) - Cardinality(gone \cap evicted)
      BY <1>4, <2>5, FS_Union
  <2>7. Cardinality(gone \cap evicted) \in Nat
      BY <2>5, FS_Intersection, FS_CardinalityType
  <2>8. /\ Cardinality(B \ q) <= Cardinality(gone \cup evicted)
        /\ Cardinality(B \ q) \in Nat /\ Cardinality(gone \cup evicted) \in Nat
      BY <1>3, <2>4, SubsetCount
  <2>9. Cardinality(B \ q) <= core[1].evicted + Cardinality(evicted)
      BY <1>3, <1>4, <1>6, <2>1, <2>2, <2>5, <2>6, <2>7, <2>8
  <2>. QED BY <1>6, <2>1, <2>2, <2>9
<1>9. \A f \in Flushes : run[f].pc # "none" => counted[1].promise = f /\ run[f].core = 1
    BY <1>6 DEF OneFlush
<1>10. \A d \in Cores : d # 1 => counted[d].timer = NoTimer
    BY <1>6 DEF OneFlush
<1>11. q \in SUBSET (1..(enqueued + 1))
    BY <1>3
<1>. HIDE DEF q
<1>12. CASE Flush(1, counted, q, 1)
  <2>1. /\ \A d \in Cores : d # 1 => core'[d].timer = NoTimer
        /\ \A f \in Flushes : run'[f].pc # "none"
              => core'[1].promise = f /\ run'[f].core = 1
        /\ \A f \in Flushes : run'[f].pc = "sending"
              => /\ run'[f].live
                 /\ Cardinality(run'[f].batch \ q) <= core'[run'[f].core].evicted
      BY <1>3, <1>5, <1>8, <1>9, <1>10, <1>11, <1>12, SteadyFlush
  <2>. QED BY <1>1, <1>2, <1>7, <2>1 DEF OneFlush, GoneIsCounted
<1>13. CASE core' = Armed(1, counted, 0) /\ UNCHANGED run
  <2>1. /\ \A d \in Cores : core'[d].evicted = counted[d].evicted
        /\ \A d \in Cores : core'[d].promise = counted[d].promise
        /\ \A d \in Cores : d # 1 => core'[d].timer = counted[d].timer
      BY <1>5, <1>13 DEF Armed, CountingRecord
  <2>2. \A f \in Flushes : run[f].core \in Cores
      BY RunFacts
  <2>. QED BY <1>1, <1>2, <1>7, <1>8, <1>9, <1>10, <1>13, <2>1, <2>2
           DEF OneFlush, GoneIsCounted
<1>. QED BY <1>2, <1>12, <1>13

\* While its answer is processed, the flush is the only one.
LEMMA SteadyAlone ==
    ASSUME OneFlush, NEW f \in Flushes, run[f].pc # "none"
    PROVE  /\ run[f].core = 1 /\ core[1].promise = f
           /\ \A g \in Flushes : g # f => run[g].pc = "none"
BY DEF OneFlush

LEMMA SteadyAnswer ==
    ASSUME TInv, FrontInv, OneFlush, GoneIsCounted, DuplicateNeverLoss,
           NEW f \in Flushes, Answer(f)
    PROVE  (OneFlush /\ GoneIsCounted /\ DuplicateNeverLoss)'
<1>. DEFINE B == run[f].batch
<1>1. run[f].pc = "sending"
    BY DEF Answer, Accepted, GivenUp, RetryLater, TooLarge, Shrink
<1>2. /\ run[f].core = 1 /\ core[1].promise = f
      /\ \A g \in Flushes : g # f => run[g].pc = "none"
  <2>1. run[f].pc # "none"
      BY <1>1
  <2>. QED BY <2>1, SteadyAlone
<1>3. /\ run \in [Flushes -> RunRecord] /\ core \in [Cores -> CoreRecord]
      /\ run[f] \in RunRecord /\ 1 \in Cores /\ current = 1
      /\ enqueued \in Nat /\ queue \in SUBSET (1..enqueued)
    BY RunFacts, TypeParts, LogConstants DEF RunsTyped, CoresTyped, OneFlush, Cores
<1>4. run[f].live /\ Cardinality(B \ queue) <= core[1].evicted
    BY <1>1, <1>2 DEF GoneIsCounted
<1>5. \A d \in Cores : d # 1 => core[d].timer = NoTimer
    BY DEF OneFlush
<1>6. ASSUME NEW failed \in BOOLEAN, PersistQueueAdvance(f, failed),
             \A d \in Cores : /\ core'[d].promise = core[d].promise
                              /\ core'[d].timer = core[d].timer,
             UNCHANGED current
      PROVE  OneFlush' /\ GoneIsCounted' /\ queue' = queue \ B
  <2>1. queue' = queue \ B
      BY <1>1, <1>2, <1>4, <1>6, AdvanceRemoves
  <2>. DEFINE persisting == [run EXCEPT ![f].pc = "persisting"]
  <2>2. run' = [Detached(persisting) EXCEPT ![f].failed = failed]
      BY <1>6 DEF PersistQueueAdvance, Drop
  <2>3. /\ persisting \in [Flushes -> RunRecord] /\ persisting[f].pc = "persisting"
        /\ persisting[f].core = 1
        /\ \A g \in Flushes : g # f => persisting[g] = run[g]
      BY <1>2, <1>3 DEF RunRecord, Sending
  <2>. HIDE DEF persisting
  <2>4. \A g \in Flushes : Detached(persisting)[g] = persisting[g]
      BY <1>2, <2>3 DEF Detached
  <2>5. run'[f].core = 1 /\ run'[f].pc = "persisting"
        /\ \A g \in Flushes : g # f => run'[g].pc = "none"
    <3>1. run'[f] = [persisting[f] EXCEPT !.failed = failed]
        BY <2>2, <2>4 DEF Detached
    <3>2. \A g \in Flushes : g # f => run'[g] = run[g]
        BY <2>2, <2>3, <2>4 DEF Detached
    <3>3. persisting[f] \in RunRecord
        BY <2>3
    <3>. HIDE <2>2
    <3>. QED BY <1>2, <2>3, <3>1, <3>2, <3>3 DEF RunRecord
  <2>. HIDE <2>2
  <2>. QED BY <1>2, <1>3, <1>5, <1>6, <2>1, <2>5 DEF OneFlush, GoneIsCounted
<1>7. CASE Accepted(f)
  <2>1. \A d \in Cores : /\ core'[d].promise = core[d].promise
                         /\ core'[d].timer = core[d].timer
      BY <1>2, <1>3, <1>7 DEF Accepted, CoreRecord
  <2>2. /\ taken' = taken \cup B /\ PersistQueueAdvance(f, FALSE)
        /\ UNCHANGED <<enqueued, current, refused, overflowed, withdrawn>>
      BY <1>7 DEF Accepted
  <2>3. OneFlush' /\ GoneIsCounted' /\ queue' = queue \ B
      BY <1>6, <2>1, <2>2
  <2>. QED BY <2>2, <2>3 DEF DuplicateNeverLoss
<1>8. CASE GivenUp(f)
  <2>1. /\ refused' = refused \cup B
        /\ \E failed \in BOOLEAN : PersistQueueAdvance(f, failed)
        /\ UNCHANGED <<enqueued, current, core, taken, overflowed, withdrawn>>
      BY <1>8 DEF GivenUp
  <2>2. OneFlush' /\ GoneIsCounted' /\ queue' = queue \ B
      BY <1>6, <2>1
  <2>. QED BY <2>1, <2>2 DEF DuplicateNeverLoss
<1>9. CASE RetryLater(f)
  <2>1. /\ taken' \in {taken, taken \cup B}
        /\ UNCHANGED <<enqueued, queue, current, core, refused, overflowed, withdrawn>>
        /\ run' = [run EXCEPT ![f] = [run[f] EXCEPT !.pc = "ending", !.failed = TRUE]]
      BY <1>9 DEF RetryLater
  <2>2. run'[f].core = 1 /\ run'[f].pc = "ending"
        /\ \A g \in Flushes : g # f => run'[g].pc = "none"
      BY <1>2, <1>3, <2>1 DEF RunRecord
  <2>3. OneFlush' /\ GoneIsCounted'
    <3>1. "ending" # "sending" /\ "none" # "sending"
        OBVIOUS
    <3>. QED BY <1>2, <1>3, <1>5, <2>1, <2>2, <3>1 DEF OneFlush, GoneIsCounted
  <2>4. DuplicateNeverLoss'
      BY <2>1 DEF DuplicateNeverLoss
  <2>. QED BY <2>3, <2>4
<1>10. CASE TooLarge(f)
  <2>. DEFINE half == Cardinality(B) \div 2
  <2>1. /\ core' = [core EXCEPT ![1].maxBatch = half, ![1].evicted = 0]
        /\ run' = [run EXCEPT ![f] = [run[f] EXCEPT !.pc = "sending",
                       !.batch = Slice(queue, half), !.left = run[f].left]]
        /\ UNCHANGED <<enqueued, queue, current, history>>
      BY <1>2, <1>4, <1>10 DEF TooLarge, Shrink, SendNext
  <2>. HIDE DEF half
  <2>2. /\ \A d \in Cores : /\ core'[d].promise = core[d].promise
                            /\ core'[d].timer = core[d].timer
        /\ core'[1].evicted = 0
      BY <1>3, <2>1 DEF CoreRecord
  <2>3. /\ run'[f].core = 1 /\ run'[f].live /\ run'[f].batch = Slice(queue, half)
        /\ \A g \in Flushes : g # f => run'[g].pc = "none"
      BY <1>2, <1>3, <1>4, <2>1 DEF RunRecord
  <2>4. Cardinality(run'[f].batch \ queue') = 0
    <3>1. run'[f].batch \ queue' = {}
        BY <2>1, <2>3, SliceIsSubset
    <3>. QED BY <3>1, FS_EmptySet
  <2>5. OneFlush'
      BY <1>2, <1>3, <1>5, <2>1, <2>2, <2>3 DEF OneFlush
  <2>6. GoneIsCounted'
    <3>1. Cardinality(run'[f].batch \ queue') <= core'[run'[f].core].evicted
        BY <2>2, <2>3, <2>4
    <3>2. \A g \in Flushes : run'[g].pc = "sending" => g = f
      <4>1. "none" # "sending"
          OBVIOUS
      <4>. QED BY <2>3, <4>1
    <3>. HIDE <2>1
    <3>. QED BY <2>3, <3>1, <3>2 DEF GoneIsCounted
  <2>7. DuplicateNeverLoss'
      BY <2>1 DEF DuplicateNeverLoss, history
  <2>. QED BY <2>5, <2>6, <2>7
<1>. QED BY <1>7, <1>8, <1>9, <1>10 DEF Answer

LEMMA SteadyGoesOn ==
    ASSUME TInv, OneFlush, GoneIsCounted, DuplicateNeverLoss,
           NEW f \in Flushes, Persisted(f) \/ End(f)
    PROVE  (OneFlush /\ GoneIsCounted /\ DuplicateNeverLoss)'
<1>1. run[f].pc \in {"persisting", "ending"}
    BY DEF Persisted, GoOn, End, Settle
<1>2. /\ run[f].core = 1 /\ core[1].promise = f
      /\ \A g \in Flushes : g # f => run[g].pc = "none"
  <2>1. run[f].pc # "none"
      BY <1>1
  <2>. QED BY <2>1, SteadyAlone
<1>3. /\ run \in [Flushes -> RunRecord] /\ core \in [Cores -> CoreRecord]
      /\ run[f] \in RunRecord /\ 1 \in Cores /\ current = 1
      /\ enqueued \in Nat /\ queue \in SUBSET (1..enqueued)
    BY RunFacts, TypeParts, LogConstants DEF RunsTyped, CoresTyped, OneFlush, Cores
<1>4. \A d \in Cores : d # 1 => core[d].timer = NoTimer
    BY DEF OneFlush
<1>5. /\ DuplicateNeverLoss' /\ UNCHANGED <<queue, current>>
    BY DEF DuplicateNeverLoss, Persisted, GoOn, End, Settle, history
<1>6. CASE Persisted(f)
  <2>. DEFINE left == run[f].left - Cardinality(run[f].batch)
              again == ~run[f].failed /\ left > 0 /\ queue # {}
              batch == IF again THEN Slice(queue, core[1].maxBatch) ELSE {}
  <2>1. /\ run' = [run EXCEPT ![f] = [run[f] EXCEPT
                     !.pc = IF again THEN "sending" ELSE "ending",
                     !.live = again, !.array = {}, !.left = left, !.batch = batch]]
        /\ core' = [core EXCEPT ![1].evicted = IF again THEN 0 ELSE @]
      BY <1>2, <1>6 DEF Persisted, GoOn
  <2>2. batch \ queue = {}
      BY SliceIsSubset
  <2>. HIDE DEF again, left, batch
  <2>3. /\ \A d \in Cores : /\ core'[d].promise = core[d].promise
                            /\ core'[d].timer = core[d].timer
        /\ again => core'[1].evicted = 0
      BY <1>3, <2>1 DEF CoreRecord
  <2>4. /\ run'[f].core = 1 /\ run'[f].live = again /\ run'[f].batch = batch
        /\ run'[f].pc = "sending" => again
        /\ \A g \in Flushes : g # f => run'[g].pc = "none"
      BY <1>2, <1>3, <2>1 DEF RunRecord
  <2>. HIDE <2>1
  <2>5. OneFlush'
      BY <1>2, <1>3, <1>4, <1>5, <2>3, <2>4 DEF OneFlush
  <2>6. GoneIsCounted'
    <3>1. again => Cardinality(run'[f].batch \ queue') <= core'[run'[f].core].evicted
      <4>1. run'[f].batch \ queue' = {}
          BY <1>5, <2>2, <2>4
      <4>2. Cardinality(run'[f].batch \ queue') = 0
          BY <4>1, FS_EmptySet
      <4>. QED BY <2>3, <2>4, <4>2
    <3>2. "none" # "sending"
        OBVIOUS
    <3>. QED BY <2>4, <3>1, <3>2 DEF GoneIsCounted
  <2>. QED BY <1>5, <2>5, <2>6
<1>7. CASE End(f)
  <2>1. run' = [run EXCEPT ![f] = NoRun]
      BY <1>7 DEF End, Settle
  <2>2. \A g \in Flushes : run'[g].pc = "none"
      BY <1>2, <1>3, <2>1 DEF NoRun
  <2>3. \A d \in Cores : d # 1 => core'[d].timer = core[d].timer
      BY <1>2, <1>3, <1>7 DEF End, Settle, Armed, CoreRecord
  <2>4. "none" # "sending"
      OBVIOUS
  <2>. QED BY <1>3, <1>4, <1>5, <2>2, <2>3, <2>4 DEF OneFlush, GoneIsCounted
<1>. QED BY <1>6, <1>7

LEMMA SteadyNext == TInv /\ FrontInv /\ SteadyInv /\ [Next]_vars => SteadyInv'
<1>. SUFFICES ASSUME TInv, FrontInv, SteadyInv, [Next]_vars PROVE SteadyInv'
    OBVIOUS
<1>1. UNCHANGED host
    BY DEF Next, vars, Capture, CaptureAfterChange, SetOptedOut, CallFlush, Shutdown,
           OnReconnect, Reset, FlushViaTransport, TimerFires, FlushStep, Answer, Accepted,
           GivenUp, RetryLater, TooLarge, Shrink, Persisted, GoOn, End, Settle
<1>. SUFFICES ASSUME Steady PROVE (OneFlush /\ GoneIsCounted /\ DuplicateNeverLoss)'
    BY <1>1 DEF SteadyInv, Steady
<1>2. OneFlush /\ GoneIsCounted /\ DuplicateNeverLoss
    BY DEF SteadyInv
<1>3. ~CaptureAfterChange /\ ~Reset /\ ~FlushViaTransport
    BY DEF Steady, CaptureAfterChange, Reset, FlushViaTransport
<1>4. CASE UNCHANGED vars \/ \E value \in BOOLEAN : SetOptedOut(value)
  <2>1. UNCHANGED <<enqueued, queue, current, core, run, taken, refused, overflowed,
                    withdrawn>>
      BY <1>4 DEF vars, history, SetOptedOut
  <2>. QED BY <1>2, <2>1 DEF OneFlush, GoneIsCounted, DuplicateNeverLoss
<1>5. ASSUME NEW f \in Flushes, FlushStep(f)
      PROVE  (OneFlush /\ GoneIsCounted /\ DuplicateNeverLoss)'
    BY <1>2, <1>5, SteadyAnswer, SteadyGoesOn DEF FlushStep
<1>. QED BY <1>2, <1>3, <1>4, <1>5, SteadyCapture, SteadyCalls DEF Next

LogInv == TInv /\ FrontInv /\ OrderInv /\ SteadyInv

LEMMA LogCorrect == Spec => []LogInv
<1>1. Init => LogInv
    BY TypeInit, FrontInit, OrderInit, SteadyInit DEF LogInv
<1>2. LogInv /\ [Next]_vars => LogInv'
    BY TypeNext, FrontNext, OrderNext, SteadyNext DEF LogInv
<1>. QED BY <1>1, <1>2, PTL DEF Spec

\* What a flush removes from the queue after an answer is what it sent, although
\* records were enqueued and evicted meanwhile: with a steady host no record is
\* lost, and with any host nothing that was settled is left to be sent again.
THEOREM RemovesItsBatch == Spec => []FlushRemovesItsBatch
<1>1. LogInv => FlushRemovesItsBatch
    BY DEF LogInv, OrderInv, SteadyInv, FlushRemovesItsBatch, NoRecordLost
<1>. QED BY <1>1, LogCorrect, PTL

\* In the hands of a steady host no record is in two requests at a time; with any host
\* the server takes none while an older one that it has not taken is still queued.
THEOREM TakenOnce == Spec => []TakenOnceInOrder
<1>1. LogInv => NoDoubleSend
  <2>1. OneFlush => \A f, g \in Flushes :
            run[f].pc = "sending" /\ run[g].pc = "sending" => f = g
    <3>1. "sending" # "none"
        OBVIOUS
    <3>. QED BY <3>1 DEF OneFlush
  <2>. QED BY <2>1 DEF LogInv, SteadyInv, NoDoubleSend
<1>2. LogInv => TakenOnceInOrder
    BY <1>1 DEF LogInv, OrderInv, TakenOnceInOrder
<1>. QED BY <1>2, LogCorrect, PTL

-------------------------------------------------------------------------------
(* The refinement of DeliveryQueue.                                            *)

\* The abstract queue counts as this one does.
LEMMA SameCount == \A S : Delivery!Cardinality(S) = Cardinality(S)
BY DEF Delivery!Cardinality, Cardinality

LEMMA DeliveryInit == Init => Delivery!DQInit
BY DEF Init, Delivery!DQInit

\* The oldest record of a full queue makes room.
LEMMA EvictsOldest ==
    ASSUME NEW n \in Nat, NEW q \in SUBSET (1..n)
    PROVE  q \ Slice(q, 1) = {m \in q : \E k \in q : k < m}
<1>1. ASSUME NEW m \in q
      PROVE  m \in Slice(q, 1) <=> ~\E k \in q : k < m
  <2>. DEFINE Below == {k \in q : k < m}
  <2>1. Below \in SUBSET (1..n)
      OBVIOUS
  <2>2. m \in Slice(q, 1) <=> Cardinality(Below) < 1
      BY DEF Slice
  <2>3. Below = {} <=> ~\E k \in q : k < m
      OBVIOUS
  <2>. HIDE DEF Below
  <2>4. IsFiniteSet(Below) /\ Cardinality(Below) \in 0..n
      BY <2>1, RecordsFinite
  <2>5. Cardinality(Below) < 1 <=> Cardinality(Below) = 0
      BY <2>4
  <2>6. Cardinality(Below) = 0 <=> Below = {}
      BY <2>4, FS_EmptySet
  <2>. QED BY <2>2, <2>3, <2>5, <2>6
<1>. QED BY <1>1

\* An enqueued record is submitted.
LEMMA CaptureSubmits == ASSUME LogInv, Steady, Steady', Capture PROVE Delivery!Submit(1)
<1>1. Enqueue(current, core) /\ UNCHANGED taken
    BY DEF Capture
<1>2. enqueued \in Nat /\ queue \in SUBSET (1..enqueued)
    BY TypeParts, LogConstants DEF LogInv
<1>. DEFINE kept == IF Cardinality(queue) < MaxQueueSize THEN queue
                    ELSE {m \in queue : \E k \in queue : k < m}
<1>3. Cardinality(queue) \in Nat /\ MaxQueueSize \in Nat
    BY <1>2, RecordsFinite, LogConstants
<1>4. queue' = kept \cup {enqueued + 1} /\ enqueued' = enqueued + 1
  <2>1. CASE Cardinality(queue) < MaxQueueSize
    <3>1. ~(Cardinality(queue) >= MaxQueueSize)
        BY <1>3, <2>1
    <3>. QED BY <1>1, <2>1, <3>1 DEF Enqueue
  <2>2. CASE ~(Cardinality(queue) < MaxQueueSize)
    <3>1. Cardinality(queue) >= MaxQueueSize
        BY <1>3, <2>2
    <3>2. kept = queue \ Slice(queue, 1)
        BY <1>2, <2>2, EvictsOldest
    <3>. HIDE DEF kept
    <3>. QED BY <1>1, <3>1, <3>2 DEF Enqueue
  <2>. QED BY <2>1, <2>2
<1>. QED BY <1>1, <1>4, SameCount DEF Delivery!Submit

\* An answer takes or gives up the batch, or leaves it.
LEMMA AnswerDelivers ==
    ASSUME LogInv, Steady, Steady', NEW f \in Flushes, Answer(f)
    PROVE  Delivery!Deliver(1) \/ Delivery!GiveUp(1) \/ UNCHANGED Delivery!dqVars
<1>. DEFINE B == run[f].batch
<1>1. run[f].pc = "sending"
    BY DEF Answer, Accepted, GivenUp, RetryLater, TooLarge, Shrink
<1>2. TInv /\ FrontInv /\ GoneIsCounted
    BY DEF LogInv, SteadyInv
<1>3. B \in SUBSET (1..enqueued) /\ \A b \in B, m \in queue : m < b => m \in B
    BY <1>1, <1>2, RunFacts DEF FrontInv, FrontsHeld, Front, FrontOf
<1>4. B \in Delivery!Batches(1)
    BY <1>3 DEF Delivery!Batches
<1>5. ASSUME NEW failed, PersistQueueAdvance(f, failed) PROVE queue' = queue \ B
    BY <1>1, <1>2, <1>5, AdvanceRemoves DEF GoneIsCounted
<1>. DEFINE held == [r \in 1..1 |-> IF Steady THEN queue ELSE {}]
            delivered == [r \in 1..1 |-> IF Steady THEN taken ELSE {}]
<1>6. ASSUME queue' = queue \ B PROVE held' = [held EXCEPT ![1] = @ \ B]
    BY <1>6
<1>7. ASSUME taken' = taken \cup B
      PROVE  delivered' = [delivered EXCEPT ![1] = @ \cup B]
    BY <1>7
<1>8. CASE Accepted(f)
  <2>1. taken' = taken \cup B /\ queue' = queue \ B /\ UNCHANGED enqueued
      BY <1>5, <1>8 DEF Accepted
  <2>2. /\ held' = [held EXCEPT ![1] = @ \ B]
        /\ delivered' = [delivered EXCEPT ![1] = @ \cup B]
      BY <1>6, <1>7, <2>1
  <2>. QED BY <1>4, <2>1, <2>2, Zenon DEF Delivery!Deliver
<1>9. CASE GivenUp(f)
  <2>1. queue' = queue \ B /\ UNCHANGED <<enqueued, taken>>
      BY <1>5, <1>9 DEF GivenUp
  <2>2. held' = [held EXCEPT ![1] = @ \ B] /\ UNCHANGED delivered
      BY <1>6, <2>1
  <2>. QED BY <1>4, <2>1, <2>2, Zenon DEF Delivery!GiveUp
<1>10. CASE RetryLater(f)
  <2>1. UNCHANGED <<enqueued, queue>>
      BY <1>10 DEF RetryLater
  <2>2. CASE taken' = taken \cup B
    <3>1. delivered' = [delivered EXCEPT ![1] = @ \cup B] /\ UNCHANGED held
        BY <1>7, <2>1, <2>2
    <3>. QED BY <1>4, <2>1, <3>1, Zenon DEF Delivery!Deliver
  <2>3. CASE UNCHANGED taken
      BY <2>1, <2>3 DEF Delivery!dqVars
  <2>. QED BY <1>10, <2>2, <2>3 DEF RetryLater
<1>11. CASE TooLarge(f)
    BY <1>11 DEF TooLarge, Shrink, history, Delivery!dqVars
<1>. QED BY <1>8, <1>9, <1>10, <1>11 DEF Answer

LEMMA DeliveryNext ==
    LogInv /\ [Next]_vars => [Delivery!DQNext]_(Delivery!dqVars)
<1>. SUFFICES ASSUME LogInv, [Next]_vars PROVE [Delivery!DQNext]_(Delivery!dqVars)
    OBVIOUS
<1>1. UNCHANGED host
    BY DEF Next, vars, Capture, CaptureAfterChange, SetOptedOut, CallFlush, Shutdown,
           OnReconnect, Reset, FlushViaTransport, TimerFires, FlushStep, Answer, Accepted,
           GivenUp, RetryLater, TooLarge, Shrink, Persisted, GoOn, End, Settle
<1>2. Steady' <=> Steady
    BY <1>1 DEF Steady
<1>3. CASE ~Steady
    BY <1>2, <1>3 DEF Delivery!dqVars
<1>4. CASE Steady
  <2>1. ~CaptureAfterChange /\ ~Reset /\ ~FlushViaTransport
      BY <1>4 DEF Steady, CaptureAfterChange, Reset, FlushViaTransport
  <2>2. ASSUME UNCHANGED <<enqueued, queue, taken>> PROVE UNCHANGED Delivery!dqVars
      BY <1>2, <2>2 DEF Delivery!dqVars
  <2>3. 1 \in 1..1
      OBVIOUS
  <2>4. CASE Capture
      BY <1>2, <1>4, <2>3, <2>4, CaptureSubmits DEF Delivery!DQNext
  <2>5. ASSUME NEW f \in Flushes, Answer(f)
        PROVE  [Delivery!DQNext]_(Delivery!dqVars)
      BY <1>2, <1>4, <2>3, <2>5, AnswerDelivers DEF Delivery!DQNext
  <2>6. ASSUME NEW f \in Flushes, Persisted(f) \/ End(f)
        PROVE  UNCHANGED Delivery!dqVars
      BY <2>2, <2>6 DEF Persisted, GoOn, End, Settle, history
  <2>7. CASE \/ UNCHANGED vars \/ \E value \in BOOLEAN : SetOptedOut(value)
             \/ CallFlush \/ Shutdown \/ OnReconnect \/ \E c \in Cores : TimerFires(c)
      BY <2>2, <2>7 DEF vars, history, SetOptedOut, CallFlush, Shutdown, OnReconnect,
                        TimerFires
  <2>. QED BY <2>1, <2>4, <2>5, <2>6, <2>7 DEF Next, FlushStep
<1>. QED BY <1>3, <1>4

\* In the hands of a steady host the pipeline is the bounded first-in first-out
\* queue that the events pipeline implements too: what leaves it was delivered,
\* given up or evicted for a newer record, from the oldest on.
THEOREM DeliveryCorrect == Spec => ImplementsDelivery
<1>. QED BY LogCorrect, DeliveryInit, DeliveryNext, PTL
         DEF Spec, ImplementsDelivery, Delivery!DQSpec

-------------------------------------------------------------------------------
(* The queue's capacity.                                                       *)

\* The n oldest records of a queue that is not empty are some.
LEMMA SliceHoldsSome ==
    ASSUME NEW n \in Nat, NEW q \in SUBSET (1..n), q # {}, NEW size \in Nat \ {0}
    PROVE  Slice(q, size) # {}
<1>1. q \subseteq Nat
    OBVIOUS
<1>2. PICK x \in q : \A y \in q : <<y, x>> \notin OpToRel(<, Nat)
    BY <1>1, WFMin, NatLessThanWellFounded, Zenon
<1>3. \A y \in Nat : y \in q => ~(y < x)
    BY <1>1, <1>2, Zenon DEF OpToRel
<1>4. {k \in q : k < x} = {}
    BY <1>1, <1>3
<1>5. Cardinality({k \in q : k < x}) = 0
    BY <1>4, FS_EmptySet
<1>. QED BY <1>5 DEF Slice

\* No more records wait than maxQueueSize allows.
CapacityKept == Cardinality(queue) <= MaxQueueSize

\* A full queue makes room before it takes a record.
LEMMA EnqueueBounded ==
    ASSUME TInv, CapacityKept, NEW c, NEW cs, Enqueue(c, cs)
    PROVE  CapacityKept'
<1>. DEFINE evicted == IF Cardinality(queue) >= MaxQueueSize THEN Slice(queue, 1) ELSE {}
            rest == queue \ evicted
            t == enqueued + 1
<1>1. /\ enqueued \in Nat /\ queue \in SUBSET (1..enqueued)
      /\ MaxQueueSize \in Nat /\ MaxQueueSize >= 1
    BY TypeParts, LogConstants
<1>2. IsFiniteSet(queue) /\ Cardinality(queue) \in Nat /\ Cardinality(queue) <= MaxQueueSize
    BY <1>1, RecordsFinite DEF CapacityKept
<1>3. rest \in SUBSET queue /\ t \notin rest
    BY <1>1
<1>4. rest \in SUBSET (1..enqueued)
    BY <1>1, <1>3
<1>5. queue' = rest \cup {t}
    BY DEF Enqueue
<1>6. Cardinality(rest) < MaxQueueSize
  <2>1. CASE Cardinality(queue) >= MaxQueueSize
    <3>1. queue # {}
        BY <1>1, <1>2, <2>1, FS_EmptySet
    <3>2. 1 \in Nat \ {0}
        OBVIOUS
    <3>3. Slice(queue, 1) # {} /\ Slice(queue, 1) \subseteq queue
        BY <1>1, <3>1, <3>2, SliceHoldsSome, SliceIsSubset
    <3>4. rest # queue
        BY <2>1, <3>3
    <3>. HIDE DEF rest
    <3>5. Cardinality(rest) <= Cardinality(queue) /\ Cardinality(rest) # Cardinality(queue)
        BY <1>2, <1>3, <3>4, FS_Subset
    <3>6. Cardinality(rest) \in Nat
        BY <1>1, <1>4, RecordsFinite
    <3>. QED BY <1>1, <1>2, <3>5, <3>6
  <2>2. CASE ~(Cardinality(queue) >= MaxQueueSize)
    <3>1. rest = queue
        BY <2>2
    <3>. HIDE DEF rest
    <3>. QED BY <1>1, <1>2, <2>2, <3>1
  <2>. QED BY <2>1, <2>2
<1>. HIDE DEF rest, t
<1>7. IsFiniteSet(rest) /\ Cardinality(rest) \in Nat
    BY <1>1, <1>4, RecordsFinite
<1>8. Cardinality(rest \cup {t}) = Cardinality(rest) + 1
    BY <1>3, <1>7, FS_AddElement
<1>. QED BY <1>1, <1>5, <1>6, <1>7, <1>8 DEF CapacityKept

\* Nothing but capturing makes the queue longer.
LEMMA OnlyEnqueueAdds ==
    ASSUME [Next]_vars
    PROVE  queue' \subseteq queue \/ \E c, cs : Enqueue(c, cs)
<1>1. CASE Capture
    BY <1>1 DEF Capture
<1>2. CASE CaptureAfterChange
    BY <1>2 DEF CaptureAfterChange
<1>3. ASSUME NEW f \in Flushes, FlushStep(f) PROVE queue' \subseteq queue
    BY <1>3 DEF FlushStep, Answer, Accepted, GivenUp, RetryLater, TooLarge, Shrink,
                PersistQueueAdvance, Drop, Persisted, GoOn, End, Settle
<1>4. CASE ~(Capture \/ CaptureAfterChange \/ \E f \in Flushes : FlushStep(f))
    BY <1>4 DEF Next, SetOptedOut, CallFlush, Shutdown, OnReconnect, Reset,
                FlushViaTransport, TimerFires, vars
<1>. QED BY <1>1, <1>2, <1>3, <1>4

\* The queue never holds more than maxQueueSize records, whatever flushes, captures and
\* hosts overlap (_enqueue shifts the oldest out first).
THEOREM LogCapacityIsKept == Spec => []CapacityKept
<1>1. Init => CapacityKept
    BY FS_EmptySet, LogConstants DEF Init, CapacityKept
<1>2. TInv /\ CapacityKept /\ [Next]_vars => CapacityKept'
  <2>. SUFFICES ASSUME TInv, CapacityKept, [Next]_vars PROVE CapacityKept'
      OBVIOUS
  <2>1. CASE queue' \subseteq queue
    <3>1. enqueued \in Nat /\ queue \in SUBSET (1..enqueued) /\ MaxQueueSize \in Nat
        BY TypeParts, LogConstants
    <3>2. queue' \in SUBSET queue
        BY <2>1
    <3>3. /\ Cardinality(queue') <= Cardinality(queue)
          /\ Cardinality(queue') \in Nat /\ Cardinality(queue) \in Nat
        BY <3>1, <3>2, SubsetCount
    <3>. QED BY <3>1, <3>3 DEF CapacityKept
  <2>. QED BY <2>1, OnlyEnqueueAdds, EnqueueBounded
<1>. QED BY <1>1, <1>2, TypeInit, TypeNext, PTL DEF Spec

-------------------------------------------------------------------------------
(* Flushes advance: what fairness needs to bring them to an end.               *)

\* A flush that is sending has a batch, and records in the array it reads.
HasWork(r, q) ==
    /\ r.pc = "sending" => (IF r.live THEN q ELSE r.array) # {}
    /\ r.pc \in Sending => r.batch # {} /\ r.left > 0

WorkInv == \A f \in Flushes : HasWork(run[f], queue)

\* From one state of a flush to the next: it ends, or it sends fewer records than it
\* had left, or the same in a smaller batch.
Onward(r, s) ==
    \/ s.pc = r.pc /\ s.batch = r.batch /\ s.left = r.left
    \/ r.pc = "none" /\ s.pc \in {"sending", "ending"}
    \/ r.pc = "sending" /\ s.pc \in {"persisting", "ending"}
    \/ r.pc = "persisting" /\ s.pc = "ending"
    \/ r.pc = "persisting" /\ s.pc = "sending" /\ s.left < r.left
    \/ r.pc = "ending" /\ s.pc = "none"
    \/ /\ r.pc = "sending" /\ s.pc = "sending" /\ s.left = r.left
       /\ Cardinality(s.batch) < Cardinality(r.batch)

Advances == \A f \in Flushes : Onward(run[f], run'[f])

\* A flush joined or started by a call: the queue may have grown before.
LEMMA FlushWorks ==
    ASSUME TInv, WorkInv, NEW n \in Nat, NEW q \in SUBSET (1..n), queue # {} => q # {},
           NEW c \in Cores, NEW cs \in [Cores -> CountingRecord], NEW background,
           Flush(c, cs, q, background), queue' = q
    PROVE  WorkInv' /\ Advances
<1>. DEFINE joined == cs[c].promise
<1>1. run \in [Flushes -> RunRecord]
    BY DEF TInv, RunsTyped
<1>2. joined \in 0..NumFlushes /\ cs[c].maxBatch \in Nat \ {0}
    BY LogConstants DEF CountingRecord
<1>3. ASSUME NEW f \in Flushes, run'[f].pc = run[f].pc, run'[f].batch = run[f].batch,
             run'[f].left = run[f].left, run'[f].live = run[f].live,
             run'[f].array = run[f].array
      PROVE  HasWork(run'[f], queue') /\ Onward(run[f], run'[f])
    BY <1>3 DEF WorkInv, HasWork, Onward
<1>4. CASE joined # 0
  <2>1. joined \in Flushes
      BY <1>2, <1>4 DEF Flushes
  <2>2. run' = [run EXCEPT ![joined].background = Least(@ + background, MaxFailures)]
      BY <1>4 DEF Flush, FlushOrJoin
  <2>3. ASSUME NEW f \in Flushes
        PROVE  /\ run'[f].pc = run[f].pc /\ run'[f].batch = run[f].batch
               /\ run'[f].left = run[f].left /\ run'[f].live = run[f].live
               /\ run'[f].array = run[f].array
    <3>1. run[f] \in RunRecord
        BY <1>1
    <3>. QED BY <1>1, <2>1, <2>2, <3>1 DEF RunRecord
  <2>. QED BY <1>3, <2>3 DEF WorkInv, Advances
<1>5. CASE joined = 0
  <2>. DEFINE new == NewRun(c, q, cs[c].maxBatch, background)
  <2>1. PICK f \in Flushes : run[f].pc = "none" /\ run' = [run EXCEPT ![f] = new]
      BY <1>5 DEF Flush, FlushOrJoin
  <2>2. HasWork(new, q) /\ new.pc \in {"sending", "ending"}
    <3>1. /\ new.pc = IF q = {} THEN "ending" ELSE "sending"
          /\ new.batch = Slice(q, cs[c].maxBatch) /\ new.left = Cardinality(q) /\ new.live
        BY DEF NewRun
    <3>2. CASE q = {}
        BY <3>1, <3>2 DEF HasWork, Sending
    <3>3. CASE q # {}
      <4>1. Slice(q, cs[c].maxBatch) # {}
          BY <1>2, <3>3, SliceHoldsSome
      <4>2. Cardinality(q) \in Nat /\ Cardinality(q) # 0
        <5>1. IsFiniteSet(q) /\ Cardinality(q) \in 0..n
            BY RecordsFinite
        <5>. QED BY <3>3, <5>1, FS_EmptySet
      <4>3. Cardinality(q) > 0
          BY <4>2
      <4>. QED BY <3>1, <3>3, <4>1, <4>3 DEF HasWork
    <3>. QED BY <3>2, <3>3
  <2>. HIDE DEF new
  <2>3. ASSUME NEW g \in Flushes
        PROVE  HasWork(run'[g], queue') /\ Onward(run[g], run'[g])
    <3>1. CASE g = f
      <4>1. run'[g] = new
          BY <1>1, <2>1, <3>1
      <4>. QED BY <2>1, <2>2, <3>1, <4>1 DEF Onward
    <3>2. CASE g # f
        BY <1>1, <1>3, <2>1, <3>2
    <3>. QED BY <3>1, <3>2
  <2>. QED BY <2>3 DEF WorkInv, Advances
<1>. QED BY <1>4, <1>5

\* The host replaces the queue: a flush that is sending reads the old array, which held
\* records, from now on.
LEMMA DetachedWorks ==
    ASSUME TInv, NEW g \in Flushes, HasWork(run[g], queue), NEW runs, runs[g] = run[g],
           NEW q
    PROVE  HasWork(Detached(runs)[g], q) /\ Onward(run[g], Detached(runs)[g])
<1>1. run[g] \in RunRecord
    BY DEF TInv, RunsTyped
<1>2. CASE run[g].pc = "sending" /\ run[g].live
  <2>1. Detached(runs)[g] = [run[g] EXCEPT !.live = FALSE, !.array = queue]
      BY <1>2 DEF Detached
  <2>2. /\ Detached(runs)[g].pc = run[g].pc /\ Detached(runs)[g].batch = run[g].batch
        /\ Detached(runs)[g].left = run[g].left /\ ~Detached(runs)[g].live
        /\ Detached(runs)[g].array = queue
      BY <1>1, <2>1 DEF RunRecord
  <2>. QED BY <1>2, <2>2 DEF HasWork, Onward
<1>3. CASE ~(run[g].pc = "sending" /\ run[g].live)
  <2>1. Detached(runs)[g] = run[g]
      BY <1>3 DEF Detached
  <2>. QED BY <1>3, <2>1 DEF HasWork, Onward
<1>. QED BY <1>2, <1>3

LEMMA HostWorks == ASSUME TInv, WorkInv, Reset \/ FlushViaTransport PROVE WorkInv' /\ Advances
<1>1. run' = Detached(run)
    BY DEF Reset, FlushViaTransport
<1>. QED BY <1>1, DetachedWorks DEF WorkInv, Advances

\* An answer that settles the batch: the flush waits for the storage.
LEMMA AdvanceWorks ==
    ASSUME TInv, WorkInv, NEW f \in Flushes, NEW failed \in BOOLEAN, run[f].pc = "sending",
           PersistQueueAdvance(f, failed)
    PROVE  WorkInv' /\ Advances
<1>. DEFINE persisting == [run EXCEPT ![f].pc = "persisting"]
<1>1. run' = [Detached(persisting) EXCEPT ![f].failed = failed]
    BY DEF PersistQueueAdvance, Drop
<1>2. run \in [Flushes -> RunRecord] /\ run[f] \in RunRecord
    BY RunFacts DEF TInv, RunsTyped
<1>3. persisting[f] = [run[f] EXCEPT !.pc = "persisting"]
    BY <1>2
<1>4. Detached(persisting)[f] = persisting[f]
    BY <1>2, <1>3 DEF Detached, RunRecord
<1>5. run'[f] = [run[f] EXCEPT !.pc = "persisting", !.failed = failed]
    BY <1>1, <1>2, <1>3, <1>4 DEF Detached, RunRecord
<1>6. run'[f].pc = "persisting" /\ run'[f].batch = run[f].batch /\ run'[f].left = run[f].left
    BY <1>2, <1>5 DEF RunRecord
<1>7. HasWork(run'[f], queue') /\ Onward(run[f], run'[f])
    BY <1>6 DEF WorkInv, HasWork, Onward, Sending
<1>8. ASSUME NEW g \in Flushes, g # f
      PROVE  HasWork(run'[g], queue') /\ Onward(run[g], run'[g])
  <2>1. run'[g] = Detached(persisting)[g] /\ persisting[g] = run[g]
      BY <1>1, <1>2, <1>8 DEF Detached
  <2>2. HasWork(run[g], queue)
      BY DEF WorkInv
  <2>. HIDE DEF persisting
  <2>. QED BY <2>1, <2>2, DetachedWorks
<1>. QED BY <1>7, <1>8 DEF WorkInv, Advances

\* One flush moves over the queue as it is.
LEMMA OneMoves ==
    ASSUME TInv, WorkInv, NEW f \in Flushes, NEW rec, run' = [run EXCEPT ![f] = rec],
           UNCHANGED queue, HasWork(rec, queue), Onward(run[f], rec)
    PROVE  WorkInv' /\ Advances
<1>1. run \in [Flushes -> RunRecord]
    BY DEF TInv, RunsTyped
<1>2. ASSUME NEW g \in Flushes
      PROVE  HasWork(run'[g], queue') /\ Onward(run[g], run'[g])
  <2>1. CASE g = f
      BY <1>1, <2>1
  <2>2. CASE g # f
      BY <1>1, <2>2 DEF WorkInv, Onward
  <2>. QED BY <2>1, <2>2
<1>. QED BY <1>2 DEF WorkInv, Advances

LEMMA AnswerWorks ==
    ASSUME TInv, WorkInv, NEW f \in Flushes, Answer(f) PROVE WorkInv' /\ Advances
<1>1. /\ run[f] \in RunRecord /\ run[f].batch \in SUBSET (1..enqueued)
      /\ run[f].array \in SUBSET (1..enqueued) /\ queue \in SUBSET (1..enqueued)
      /\ enqueued \in Nat /\ Cardinality(run[f].batch) \in Nat
    BY RunFacts
<1>2. HasWork(run[f], queue)
    BY DEF WorkInv
<1>3. CASE Accepted(f)
    BY <1>3, AdvanceWorks DEF Accepted
<1>4. CASE GivenUp(f)
    BY <1>4, AdvanceWorks DEF GivenUp
<1>5. CASE RetryLater(f)
  <2>. DEFINE rec == [run[f] EXCEPT !.pc = "ending", !.failed = TRUE]
  <2>1. rec.pc = "ending" /\ run[f].pc = "sending"
      BY <1>1, <1>5 DEF RetryLater, RunRecord
  <2>2. run' = [run EXCEPT ![f] = rec] /\ UNCHANGED queue
      BY <1>5 DEF RetryLater
  <2>. HIDE DEF rec
  <2>3. HasWork(rec, queue) /\ Onward(run[f], rec)
      BY <2>1 DEF HasWork, Onward, Sending
  <2>. QED BY <2>2, <2>3, OneMoves
<1>6. CASE TooLarge(f)
  <2>. DEFINE half == Cardinality(run[f].batch) \div 2
              array == IF run[f].live THEN queue ELSE run[f].array
              batch == Slice(array, half)
              rec == [run[f] EXCEPT !.pc = "sending", !.batch = batch, !.left = run[f].left]
  <2>1. run' = [run EXCEPT ![f] = rec] /\ UNCHANGED queue /\ run[f].pc = "sending"
      BY <1>6 DEF TooLarge, Shrink, SendNext
  <2>2. half \in Nat \ {0} /\ half < Cardinality(run[f].batch)
      BY <1>1, <1>6 DEF TooLarge
  <2>3. array \in SUBSET (1..enqueued) /\ array # {}
      BY <1>1, <1>2, <2>1 DEF HasWork
  <2>4. /\ rec.pc = "sending" /\ rec.batch = batch /\ rec.left = run[f].left
        /\ rec.live = run[f].live
        /\ rec.array = run[f].array
      BY <1>1 DEF RunRecord
  <2>. HIDE DEF half, array
  <2>5. batch # {}
      BY <1>1, <2>2, <2>3, SliceHoldsSome
  <2>6. Cardinality(batch) <= half /\ Cardinality(batch) \in Nat
    <3>1. batch \in SUBSET (1..enqueued)
        BY <2>3, SliceIsSubset
    <3>2. Cardinality(batch) \in 0..enqueued
        BY <1>1, <3>1, RecordsFinite
    <3>3. half \in Nat
        BY <2>2
    <3>4. Cardinality(batch) <= half
        BY <1>1, <2>3, <3>3, SliceIsShort
    <3>. HIDE DEF batch
    <3>. QED BY <1>1, <3>2, <3>4
  <2>. HIDE DEF batch, rec
  <2>7. Cardinality(batch) < Cardinality(run[f].batch)
      BY <1>1, <2>2, <2>6
  <2>8. HasWork(rec, queue) /\ Onward(run[f], rec)
      BY <1>2, <2>1, <2>4, <2>5, <2>7 DEF HasWork, Onward, Sending
  <2>. QED BY <2>1, <2>8, OneMoves
<1>. QED BY <1>3, <1>4, <1>5, <1>6 DEF Answer

\* The storage is done: the flush goes on with fewer records left, or ends.
LEMMA PersistedWorks ==
    ASSUME TInv, WorkInv, NEW f \in Flushes, Persisted(f) PROVE WorkInv' /\ Advances
<1>. DEFINE c == run[f].core
            left == run[f].left - Cardinality(run[f].batch)
            again == ~run[f].failed /\ left > 0 /\ queue # {}
            batch == IF again THEN Slice(queue, core[c].maxBatch) ELSE {}
            rec == [run[f] EXCEPT !.pc = IF again THEN "sending" ELSE "ending",
                                  !.live = again, !.array = {}, !.left = left,
                                  !.batch = batch]
<1>1. /\ run[f] \in RunRecord /\ core[c] \in CoreRecord
      /\ run[f].batch \in SUBSET (1..enqueued)
      /\ queue \in SUBSET (1..enqueued) /\ enqueued \in Nat
    BY RunFacts
<1>2. run' = [run EXCEPT ![f] = rec] /\ UNCHANGED queue /\ run[f].pc = "persisting"
    BY DEF Persisted, GoOn
<1>3. core[c].maxBatch \in Nat \ {0}
    BY <1>1, LogConstants DEF CoreRecord
<1>4. /\ rec.pc = IF again THEN "sending" ELSE "ending"
      /\ rec.live = again /\ rec.left = left /\ rec.batch = batch
    BY <1>1 DEF RunRecord
<1>5. left < run[f].left
  <2>1. run[f].batch # {}
      BY <1>2 DEF WorkInv, HasWork, Sending
  <2>2. /\ IsFiniteSet(run[f].batch)
        /\ Cardinality(run[f].batch) \in 0..enqueued
      BY <1>1, RecordsFinite
  <2>3. Cardinality(run[f].batch) # 0
      BY <2>1, <2>2, FS_EmptySet
  <2>4. run[f].left \in Int
      BY <1>1 DEF RunRecord
  <2>. QED BY <1>1, <2>2, <2>3, <2>4
<1>6. again => batch # {} /\ left > 0 /\ queue # {}
    BY <1>1, <1>3, SliceHoldsSome
<1>. HIDE DEF left, batch, rec, again
<1>7. HasWork(rec, queue) /\ Onward(run[f], rec)
  <2>1. CASE again
      BY <1>2, <1>4, <1>5, <1>6, <2>1 DEF HasWork, Onward, Sending
  <2>2. CASE ~again
      BY <1>2, <1>4, <2>2 DEF HasWork, Onward, Sending
  <2>. QED BY <2>1, <2>2
<1>. QED BY <1>2, <1>7, OneMoves

LEMMA EndWorks ==
    ASSUME TInv, WorkInv, NEW f \in Flushes, End(f) PROVE WorkInv' /\ Advances
<1>1. run' = [run EXCEPT ![f] = NoRun] /\ UNCHANGED queue /\ run[f].pc = "ending"
    BY DEF End, Settle
<1>2. HasWork(NoRun, queue) /\ Onward(run[f], NoRun)
    BY <1>1 DEF NoRun, HasWork, Onward, Sending
<1>. QED BY <1>1, <1>2, OneMoves

\* A flush that is not touched.
LEMMA NoneMoves ==
    ASSUME TInv, WorkInv, UNCHANGED run, queue # {} => queue' # {} PROVE WorkInv' /\ Advances
BY DEF WorkInv, HasWork, Advances, Onward

LEMMA EnqueueWorks ==
    ASSUME TInv, WorkInv, NEW c \in Cores, NEW cs \in [Cores -> CoreRecord], Enqueue(c, cs)
    PROVE  WorkInv' /\ Advances
<1>. DEFINE evicted == IF Cardinality(queue) >= MaxQueueSize THEN Slice(queue, 1) ELSE {}
            q == (queue \ evicted) \cup {enqueued + 1}
            counted == [cs EXCEPT ![c].evicted = @ + Cardinality(evicted)]
<1>1. /\ queue' = q
      /\ Flush(c, counted, q, 1) \/ UNCHANGED run
    BY DEF Enqueue
<1>2. enqueued \in Nat /\ queue \in SUBSET (1..enqueued)
    BY TypeParts, LogConstants
<1>3. evicted \in SUBSET (1..enqueued)
    BY <1>2, SliceIsSubset
<1>. HIDE DEF evicted
<1>4. q \in SUBSET (1..(enqueued + 1)) /\ q # {} /\ enqueued + 1 \in Nat
  <2>1. 1..enqueued \subseteq 1..(enqueued + 1) /\ enqueued + 1 \in 1..(enqueued + 1)
      BY <1>2
  <2>2. q \subseteq 1..(enqueued + 1) /\ q # {}
      BY <1>2, <2>1, Zenon
  <2>. QED BY <1>2, <2>2
<1>5. counted \in [Cores -> CountingRecord]
  <2>1. Cardinality(evicted) \in Nat
      BY <1>2, <1>3, RecordsFinite
  <2>2. ASSUME NEW d \in Cores PROVE counted[d] \in CountingRecord
    <3>1. cs[d] \in CoreRecord
        OBVIOUS
    <3>. QED BY <2>1, <3>1 DEF CoreRecord, CountingRecord
  <2>. QED BY <2>2
<1>. HIDE DEF q, counted
<1>6. CASE Flush(c, counted, q, 1)
    BY <1>1, <1>2, <1>4, <1>5, <1>6, FlushWorks
<1>. QED BY <1>1, <1>4, <1>6, NoneMoves

LEMMA CaptureWorks ==
    ASSUME TInv, WorkInv, Capture \/ CaptureAfterChange PROVE WorkInv' /\ Advances
<1>1. core \in [Cores -> CoreRecord] /\ current \in Cores
    BY TypeParts DEF CoresTyped
<1>2. CASE Capture
    BY <1>1, <1>2, EnqueueWorks DEF Capture
<1>3. CASE CaptureAfterChange
  <2>. DEFINE cs == [core EXCEPT ![current] = NewCore]
  <2>1. current' \in Cores
      BY <1>1, <1>3, LogConstants DEF CaptureAfterChange, Cores
  <2>2. cs \in [Cores -> CoreRecord]
      BY <1>1, NewCoreType
  <2>3. Enqueue(current', cs) \/ UNCHANGED <<queue, run>>
      BY <1>3 DEF CaptureAfterChange
  <2>. HIDE DEF cs
  <2>4. CASE Enqueue(current', cs)
      BY <2>1, <2>2, <2>4, EnqueueWorks
  <2>5. CASE UNCHANGED <<queue, run>>
      BY <2>5, NoneMoves
  <2>. QED BY <2>3, <2>4, <2>5
<1>. QED BY <1>2, <1>3

LEMMA CallsWork ==
    ASSUME TInv, WorkInv,
           CallFlush \/ Shutdown \/ OnReconnect \/ \E c \in Cores : TimerFires(c)
    PROVE  WorkInv' /\ Advances
<1>1. core \in [Cores -> CoreRecord] /\ current \in Cores
    BY TypeParts DEF CoresTyped
<1>2. NoTimer \in NoTimer..MaxExponent /\ 0 \in 0..MaxFailures
    BY LogConstants DEF NoTimer, MaxFailures
<1>3. enqueued \in Nat /\ queue \in SUBSET (1..enqueued)
    BY TypeParts, LogConstants
<1>4. ASSUME NEW c \in Cores, NEW cs \in [Cores -> CoreRecord], NEW background,
             Flush(c, cs, queue, background), UNCHANGED queue
      PROVE  WorkInv' /\ Advances
  <2>1. cs \in [Cores -> CountingRecord]
      BY CoresCount
  <2>. QED BY <1>3, <1>4, <2>1, FlushWorks
<1>5. ASSUME NEW c \in Cores
      PROVE  /\ [core EXCEPT ![c].timer = NoTimer] \in [Cores -> CoreRecord]
             /\ [core EXCEPT ![c].failures = 0] \in [Cores -> CoreRecord]
    BY <1>1, <1>2 DEF CoreRecord
<1>6. CASE CallFlush
    BY <1>1, <1>4, <1>6 DEF CallFlush
<1>7. CASE Shutdown
    BY <1>1, <1>4, <1>5, <1>7 DEF Shutdown
<1>8. CASE OnReconnect
    BY <1>1, <1>4, <1>5, <1>8 DEF OnReconnect
<1>9. ASSUME NEW c \in Cores, TimerFires(c) PROVE WorkInv' /\ Advances
    BY <1>4, <1>5, <1>9 DEF TimerFires
<1>. QED BY <1>6, <1>7, <1>8, <1>9

LEMMA WorkInit == Init => WorkInv
BY DEF Init, WorkInv, HasWork, NoRun, Sending

LEMMA WorkNext == TInv /\ WorkInv /\ [Next]_vars => WorkInv' /\ Advances
<1>. SUFFICES ASSUME TInv, WorkInv, [Next]_vars PROVE WorkInv' /\ Advances
    OBVIOUS
<1>1. CASE UNCHANGED vars \/ \E value \in BOOLEAN : SetOptedOut(value)
  <2>1. UNCHANGED <<queue, run>>
      BY <1>1 DEF vars, SetOptedOut
  <2>. QED BY <2>1, NoneMoves
<1>2. ASSUME NEW f \in Flushes, FlushStep(f) PROVE WorkInv' /\ Advances
    BY <1>2, AnswerWorks, PersistedWorks, EndWorks DEF FlushStep
<1>. QED BY <1>1, <1>2, CaptureWorks, CallsWork, HostWorks DEF Next

\* A flush that is sending sends a batch that is not empty, of an array with records in
\* it, and has records left, also after evictions, a reset, or a beacon that took the
\* queue it was reading (_flushInner's loop ends when records or the queue run out).
THEOREM LogFlushesHaveWork == Spec => []WorkInv
<1>. QED BY TypeInit, TypeNext, WorkInit, WorkNext, PTL DEF Spec

\* No step takes a flush back: it sends with fewer records left than before, or the same
\* in a smaller batch, which ends at one record, or it is nearer to its end.
THEOREM LogFlushesAdvance == Spec => [][Advances]_vars
<1>1. TInv /\ WorkInv /\ [Next]_vars => [Advances]_vars
    BY WorkNext
<1>. QED BY <1>1, TypeInit, TypeNext, WorkInit, WorkNext, PTL DEF Spec

-------------------------------------------------------------------------------
(* Records that nobody flushes for.                                            *)

\* A pipeline's promise is of a flush of its own that has not ended.
PromiseRuns == \A c \in Cores : core[c].promise # 0 =>
    /\ core[c].promise \in Flushes
    /\ run[core[c].promise].pc # "none" /\ run[core[c].promise].core = c

\* The application does not flush, and the pipeline is not replaced.
Unattended == host \cap {"flush", "shutdown", "swap"} = {}

\* A record that is queued is waited for by a timer, or by a flush that has a background
\* caller, which sets the timer again for what the flush leaves.
Awaited == queue # {} =>
    \/ core[current].timer # NoTimer
    \/ \E f \in Flushes : run[f].pc # "none" /\ run[f].background > 0

RecordsAwaited == Unattended => Awaited

\* There is one pipeline, and every flush of it has a background caller.
OnlyBackground ==
    /\ current = 1
    /\ \A c \in Cores : c # 1 => core[c].timer = NoTimer
    /\ \A f \in Flushes : run[f].pc # "none" => run[f].core = 1 /\ run[f].background > 0

AwaitInv == PromiseRuns /\ (Unattended => OnlyBackground /\ Awaited)

\* Pipelines may forget their promises, and flushes run on.
LEMMA PromisesDrop ==
    ASSUME PromiseRuns, \A d \in Cores : core'[d].promise \in {core[d].promise, 0},
           \A g \in Flushes : run[g].pc # "none"
               => run'[g].pc # "none" /\ run'[g].core = run[g].core
    PROVE  PromiseRuns'
BY DEF PromiseRuns

\* flush() for a background caller: the flush it joins or starts has one.
LEMMA FlushAwaits ==
    ASSUME TInv, PromiseRuns, NEW c \in Cores, NEW cs \in [Cores -> CountingRecord],
           \A d \in Cores : cs[d].promise \in {core[d].promise, 0},
           NEW q, NEW background \in {0, 1}, Flush(c, cs, q, background)
    PROVE  /\ PromiseRuns'
           /\ /\ OnlyBackground /\ c = 1 /\ background = 1 /\ UNCHANGED current
              /\ \A d \in Cores : d # 1 => cs[d].timer = NoTimer
              => OnlyBackground' /\ Awaited'
<1>. DEFINE joined == cs[c].promise
<1>1. run \in [Flushes -> RunRecord]
    BY DEF TInv, RunsTyped
<1>2. CASE joined # 0
  <2>1. joined \in Flushes /\ run[joined].pc # "none"
      BY <1>2 DEF PromiseRuns
  <2>2. core' = cs /\ run' = [run EXCEPT ![joined].background =
                                Least(@ + background, MaxFailures)]
      BY <1>2 DEF Flush, FlushOrJoin
  <2>3. ASSUME NEW f \in Flushes
        PROVE  /\ run'[f].pc = run[f].pc /\ run'[f].core = run[f].core
               /\ f # joined => run'[f].background = run[f].background
               /\ f = joined /\ background = 1 => run'[f].background > 0
    <3>1. run[f] \in RunRecord /\ run[f].background \in Nat
        BY <1>1, LogConstants DEF RunRecord, MaxFailures
    <3>2. CASE f # joined
        BY <1>1, <2>2, <3>1, <3>2
    <3>3. CASE f = joined
      <4>. DEFINE b == Least(run[f].background + background, MaxFailures)
      <4>1. background = 1 => b > 0
          BY <3>1, LogConstants DEF Least, MaxFailures
      <4>. HIDE DEF b
      <4>2. run'[f] = [run[f] EXCEPT !.background = b]
          BY <1>1, <2>2, <3>3 DEF b
      <4>3. run'[f].pc = run[f].pc /\ run'[f].core = run[f].core /\ run'[f].background = b
          BY <3>1, <4>2 DEF RunRecord
      <4>. QED BY <3>3, <4>1, <4>3
    <3>. QED BY <3>2, <3>3
  <2>4. PromiseRuns'
      BY <2>2, <2>3, PromisesDrop
  <2>5. OnlyBackground /\ background = 1 /\ UNCHANGED current
          /\ (\A d \in Cores : d # 1 => cs[d].timer = NoTimer)
          => OnlyBackground' /\ Awaited'
      BY <2>1, <2>2, <2>3 DEF OnlyBackground, Awaited
  <2>. QED BY <2>4, <2>5
<1>3. CASE joined = 0
  <2>. DEFINE new == NewRun(c, q, cs[c].maxBatch, background)
              kept == IF q = {} THEN cs[c].evicted ELSE 0
  <2>1. PICK f \in Flushes :
          /\ run[f].pc = "none" /\ run' = [run EXCEPT ![f] = new]
          /\ core' = [cs EXCEPT ![c].timer = NoTimer, ![c].promise = f,
                                ![c].evicted = IF q = {} THEN @ ELSE 0]
      BY <1>3 DEF Flush, FlushOrJoin
  <2>2. new.pc # "none" /\ new.core = c /\ new.background = background
      BY DEF NewRun
  <2>. HIDE DEF new
  <2>3. run'[f] = new /\ \A g \in Flushes : g # f => run'[g] = run[g]
      BY <1>1, <2>1
  <2>4. core'[c].promise = f /\ core'[c].timer = NoTimer
    <3>1. cs[c] \in CountingRecord
        OBVIOUS
    <3>2. core'[c] = [cs[c] EXCEPT !.timer = NoTimer, !.promise = f, !.evicted = kept]
        BY <2>1, <3>1
    <3>. QED BY <3>1, <3>2 DEF CountingRecord
  <2>5. \A d \in Cores : d # c => core'[d] = cs[d]
      BY <2>1
  <2>6. PromiseRuns'
      BY <2>1, <2>2, <2>3, <2>4, <2>5 DEF PromiseRuns
  <2>7. /\ OnlyBackground /\ c = 1 /\ background = 1 /\ UNCHANGED current
        /\ \A d \in Cores : d # 1 => cs[d].timer = NoTimer
        => OnlyBackground' /\ Awaited'
    <3>. SUFFICES ASSUME OnlyBackground, c = 1, background = 1, UNCHANGED current,
                         \A d \in Cores : d # 1 => cs[d].timer = NoTimer
                  PROVE  OnlyBackground' /\ Awaited'
        OBVIOUS
    <3>1. run'[f].pc # "none" /\ run'[f].core = 1 /\ run'[f].background > 0
        BY <2>2, <2>3
    <3>. QED BY <2>3, <2>5, <3>1 DEF OnlyBackground, Awaited
  <2>. QED BY <2>6, <2>7
<1>. QED BY <1>2, <1>3

\* Steps that neither start nor end a flush.
LEMMA AwaitKept ==
    ASSUME AwaitInv, UNCHANGED <<host, current>>,
           \A d \in Cores : /\ core'[d].promise \in {core[d].promise, 0}
                            /\ core'[d].timer \in {core[d].timer, NoTimer},
           queue' = {} \/ (queue # {} /\ \A d \in Cores : core'[d].timer = core[d].timer),
           \A g \in Flushes : /\ run'[g].pc = "none" <=> run[g].pc = "none"
                              /\ run'[g].core = run[g].core
                              /\ run'[g].background = run[g].background,
           current \in Cores
    PROVE  AwaitInv'
<1>1. PromiseRuns'
    BY PromisesDrop DEF AwaitInv
<1>2. ASSUME Unattended' PROVE OnlyBackground' /\ Awaited'
  <2>1. OnlyBackground /\ Awaited
      BY <1>2 DEF AwaitInv, Unattended
  <2>2. OnlyBackground'
      BY <2>1 DEF OnlyBackground
  <2>3. Awaited'
      BY <2>1 DEF Awaited
  <2>. QED BY <2>2, <2>3
<1>. QED BY <1>1, <1>2 DEF AwaitInv

\* What an advance of the queue leaves of the flushes.
LEMMA AdvanceRuns ==
    ASSUME TInv, NEW f \in Flushes, NEW failed \in BOOLEAN, run[f].pc = "sending",
           PersistQueueAdvance(f, failed), NEW g \in Flushes
    PROVE  /\ run'[g].pc = "none" <=> run[g].pc = "none"
           /\ run'[g].core = run[g].core /\ run'[g].background = run[g].background
<1>. DEFINE persisting == [run EXCEPT ![f].pc = "persisting"]
<1>1. run' = [Detached(persisting) EXCEPT ![f].failed = failed]
    BY DEF PersistQueueAdvance, Drop
<1>2. run \in [Flushes -> RunRecord] /\ run[f] \in RunRecord /\ run[g] \in RunRecord
    BY RunFacts DEF TInv, RunsTyped
<1>3. CASE g = f
  <2>1. persisting[f] = [run[f] EXCEPT !.pc = "persisting"]
      BY <1>2
  <2>2. Detached(persisting)[f] = persisting[f]
      BY <1>2, <2>1 DEF Detached, RunRecord
  <2>3. run'[f] = [run[f] EXCEPT !.pc = "persisting", !.failed = failed]
      BY <1>1, <1>2, <2>1, <2>2 DEF Detached, RunRecord
  <2>. QED BY <1>2, <1>3, <2>3 DEF RunRecord
<1>4. CASE g # f
  <2>1. persisting[g] = run[g]
      BY <1>2, <1>4
  <2>2. run'[g] = Detached(persisting)[g]
      BY <1>1, <1>4 DEF Detached
  <2>3. run'[g] \in {run[g], [run[g] EXCEPT !.live = FALSE, !.array = queue]}
      BY <2>1, <2>2 DEF Detached
  <2>. QED BY <1>2, <2>3 DEF RunRecord
<1>. QED BY <1>3, <1>4

LEMMA AnswerAwaits ==
    ASSUME TInv, AwaitInv, NEW f \in Flushes, Answer(f) PROVE AwaitInv'
<1>. DEFINE c == run[f].core
<1>1. /\ run \in [Flushes -> RunRecord] /\ core \in [Cores -> CoreRecord]
      /\ run[f] \in RunRecord /\ c \in Cores /\ core[c] \in CoreRecord /\ current \in Cores
    BY RunFacts, TypeParts DEF RunsTyped, CoresTyped
<1>2. run[f].pc = "sending" /\ UNCHANGED <<host, current>> /\ queue' \subseteq queue
    BY DEF Answer, Accepted, GivenUp, RetryLater, TooLarge, Shrink, PersistQueueAdvance, Drop
<1>3. \A d \in Cores : core'[d].promise = core[d].promise /\ core'[d].timer = core[d].timer
  <2>1. CASE UNCHANGED core
      BY <2>1
  <2>2. ASSUME NEW m, NEW e, core' = [core EXCEPT ![c].maxBatch = m, ![c].evicted = e]
        PROVE  \A d \in Cores : /\ core'[d].promise = core[d].promise
                                /\ core'[d].timer = core[d].timer
    <3>1. core'[c] = [core[c] EXCEPT !.maxBatch = m, !.evicted = e]
        BY <1>1, <2>2 DEF CoreRecord
    <3>2. \A d \in Cores : d # c => core'[d] = core[d]
        BY <1>1, <2>2
    <3>. QED BY <1>1, <3>1, <3>2 DEF CoreRecord
  <2>3. ASSUME NEW m, core' = [core EXCEPT ![c].maxBatch = m]
        PROVE  \A d \in Cores : /\ core'[d].promise = core[d].promise
                                /\ core'[d].timer = core[d].timer
    <3>1. core'[c] = [core[c] EXCEPT !.maxBatch = m]
        BY <1>1, <2>3
    <3>2. \A d \in Cores : d # c => core'[d] = core[d]
        BY <1>1, <2>3
    <3>. QED BY <1>1, <3>1, <3>2 DEF CoreRecord
  <2>4. CASE Accepted(f)
    <3>. DEFINE m == Least(core[c].maxBatch + 1, MaxBatch)
    <3>1. core' = [core EXCEPT ![c].maxBatch = m]
        BY <2>4 DEF Accepted
    <3>. HIDE DEF m
    <3>. QED BY <2>3, <3>1
  <2>5. CASE TooLarge(f)
    <3>. DEFINE m == Cardinality(run[f].batch) \div 2
    <3>1. core' = [core EXCEPT ![c].maxBatch = m, ![c].evicted = 0]
        BY <2>5 DEF TooLarge, Shrink
    <3>. HIDE DEF m
    <3>. QED BY <2>2, <3>1
  <2>. QED BY <2>1, <2>4, <2>5 DEF Answer, GivenUp, RetryLater
<1>4. ASSUME NEW g \in Flushes
      PROVE  /\ run'[g].pc = "none" <=> run[g].pc = "none"
             /\ run'[g].core = run[g].core /\ run'[g].background = run[g].background
  <2>1. CASE Accepted(f) \/ GivenUp(f)
      BY <1>2, <2>1, AdvanceRuns DEF Accepted, GivenUp
  <2>2. CASE RetryLater(f)
    <3>1. run' = [run EXCEPT ![f] = [run[f] EXCEPT !.pc = "ending", !.failed = TRUE]]
        BY <2>2 DEF RetryLater
    <3>2. [run[f] EXCEPT !.pc = "ending", !.failed = TRUE].pc # "none"
          /\ [run[f] EXCEPT !.pc = "ending", !.failed = TRUE].core = run[f].core
          /\ [run[f] EXCEPT !.pc = "ending", !.failed = TRUE].background = run[f].background
        BY <1>1 DEF RunRecord
    <3>. QED BY <1>1, <1>2, <3>1, <3>2
  <2>3. CASE TooLarge(f)
    <3>. DEFINE b == Slice(IF run[f].live THEN queue ELSE run[f].array,
                           Cardinality(run[f].batch) \div 2)
                rec == [run[f] EXCEPT !.pc = "sending", !.batch = b, !.left = run[f].left]
    <3>1. run' = [run EXCEPT ![f] = rec]
        BY <2>3 DEF TooLarge, Shrink, SendNext
    <3>. HIDE DEF b
    <3>2. rec.pc # "none" /\ rec.core = run[f].core /\ rec.background = run[f].background
        BY <1>1 DEF RunRecord
    <3>. HIDE DEF rec
    <3>. QED BY <1>1, <1>2, <3>1, <3>2
  <2>. QED BY <2>1, <2>2, <2>3 DEF Answer
<1>. QED BY <1>1, <1>2, <1>3, <1>4, AwaitKept

LEMMA PersistedAwaits ==
    ASSUME TInv, AwaitInv, NEW f \in Flushes, Persisted(f) PROVE AwaitInv'
<1>. DEFINE c == run[f].core
            left == run[f].left - Cardinality(run[f].batch)
            again == ~run[f].failed /\ left > 0 /\ queue # {}
            pc == IF again THEN "sending" ELSE "ending"
            batch == IF again THEN Slice(queue, core[c].maxBatch) ELSE {}
            rec == [run[f] EXCEPT !.pc = pc, !.live = again, !.array = {}, !.left = left,
                                  !.batch = batch]
            evicted == IF again THEN 0 ELSE core[c].evicted
            counted == [core[c] EXCEPT !.evicted = evicted]
<1>1. /\ run \in [Flushes -> RunRecord] /\ core \in [Cores -> CoreRecord]
      /\ run[f] \in RunRecord /\ c \in Cores /\ core[c] \in CoreRecord /\ current \in Cores
    BY RunFacts, TypeParts DEF RunsTyped, CoresTyped
<1>2. /\ run' = [run EXCEPT ![f] = rec] /\ core' = [core EXCEPT ![c] = counted]
      /\ UNCHANGED <<host, current, queue>> /\ run[f].pc # "none"
    BY DEF Persisted, GoOn
<1>3. pc # "none"
    OBVIOUS
<1>. HIDE DEF left, again, pc, batch, evicted
<1>4. /\ rec.pc = pc /\ rec.core = run[f].core /\ rec.background = run[f].background
      /\ counted.promise = core[c].promise /\ counted.timer = core[c].timer
    BY <1>1 DEF RunRecord, CoreRecord
<1>. HIDE DEF rec, counted
<1>5. ASSUME NEW g \in Flushes
      PROVE  /\ run'[g].pc = "none" <=> run[g].pc = "none"
             /\ run'[g].core = run[g].core /\ run'[g].background = run[g].background
  <2>1. CASE g = f
      BY <1>1, <1>2, <1>3, <1>4, <2>1
  <2>2. CASE g # f
      BY <1>1, <1>2, <2>2
  <2>. QED BY <2>1, <2>2
<1>6. \A d \in Cores : core'[d].promise = core[d].promise /\ core'[d].timer = core[d].timer
    BY <1>1, <1>2, <1>4
<1>. QED BY <1>1, <1>2, <1>5, <1>6, AwaitKept

\* A flush that ends with records left sets the timer for its background callers.
LEMMA EndAwaits == ASSUME TInv, AwaitInv, NEW f \in Flushes, End(f) PROVE AwaitInv'
<1>. DEFINE c == run[f].core
            failures == IF run[f].failed
                        THEN Least(core[c].failures + run[f].background, MaxFailures)
                        ELSE 0
            exponent == IF failures = 0 THEN 0 ELSE failures - 1
            released == [core EXCEPT ![c].promise = 0]
            settled == [released EXCEPT ![c].failures = failures]
<1>1. /\ run \in [Flushes -> RunRecord] /\ core \in [Cores -> CoreRecord]
      /\ run[f] \in RunRecord /\ c \in Cores /\ core[c] \in CoreRecord /\ current \in Cores
    BY RunFacts, TypeParts DEF RunsTyped, CoresTyped
<1>2. /\ run' = [run EXCEPT ![f] = NoRun] /\ run[f].pc # "none"
      /\ core' = IF run[f].background = 0 THEN released
                 ELSE IF queue # {} THEN Armed(c, settled, exponent) ELSE settled
      /\ UNCHANGED <<host, current, queue>>
    BY DEF End, Settle
<1>3. failures \in 0..MaxFailures
    BY <1>1, LogConstants DEF RunRecord, CoreRecord, Least, MaxFailures
<1>. HIDE DEF failures
<1>4. exponent # NoTimer
    BY <1>3, LogConstants DEF NoTimer, MaxFailures
<1>. HIDE DEF exponent
<1>5. /\ \A d \in Cores : d # c => released[d] = core[d] /\ settled[d] = core[d]
      /\ released[c] = [core[c] EXCEPT !.promise = 0]
      /\ settled[c] = [released[c] EXCEPT !.failures = failures]
    BY <1>1
<1>6. /\ released[c].promise = 0 /\ released[c].timer = core[c].timer
      /\ settled[c].promise = 0 /\ settled[c].timer = core[c].timer
    BY <1>1, <1>5 DEF CoreRecord
<1>7. /\ \A d \in Cores : d # c => Armed(c, settled, exponent)[d] = core[d]
      /\ Armed(c, settled, exponent)[c].promise = 0
      /\ Armed(c, settled, exponent)[c].timer # NoTimer
  <2>1. settled[c] \in CoreRecord
      BY <1>1, <1>3, <1>5, LogConstants DEF CoreRecord
  <2>2. settled \in [Cores -> CoreRecord]
      BY <1>1, <1>5, <2>1
  <2>3. \A d \in Cores : d # c => Armed(c, settled, exponent)[d] = settled[d]
      BY <2>2 DEF Armed
  <2>. DEFINE timer == IF settled[c].timer = NoTimer THEN exponent ELSE settled[c].timer
  <2>4. Armed(c, settled, exponent)[c] = [settled[c] EXCEPT !.timer = timer]
      BY <1>1, <2>2 DEF Armed
  <2>5. timer # NoTimer
      BY <1>4
  <2>. HIDE DEF settled, released, timer
  <2>6. /\ Armed(c, settled, exponent)[c].promise = settled[c].promise
        /\ Armed(c, settled, exponent)[c].timer = timer
      BY <2>1, <2>4 DEF CoreRecord
  <2>. QED BY <1>5, <1>6, <2>3, <2>5, <2>6
<1>. HIDE DEF released, settled
<1>8. /\ \A d \in Cores : d # c => core'[d] = core[d]
      /\ core'[c].promise = 0
      /\ run[f].background # 0 /\ queue # {} => core'[c].timer # NoTimer
    BY <1>2, <1>5, <1>6, <1>7
<1>9. run'[f].pc = "none" /\ \A g \in Flushes : g # f => run'[g] = run[g]
    BY <1>1, <1>2 DEF NoRun
<1>10. PromiseRuns'
  <2>. SUFFICES ASSUME NEW d \in Cores, core'[d].promise # 0
                PROVE  /\ core'[d].promise \in Flushes
                       /\ run'[core'[d].promise].pc # "none"
                       /\ run'[core'[d].promise].core = d
      BY DEF PromiseRuns
  <2>1. d # c /\ core'[d] = core[d]
      BY <1>8
  <2>2. /\ core[d].promise \in Flushes /\ run[core[d].promise].pc # "none"
        /\ run[core[d].promise].core = d
      BY <2>1 DEF AwaitInv, PromiseRuns
  <2>3. core[d].promise # f
      BY <2>1, <2>2
  <2>. QED BY <1>9, <2>1, <2>2, <2>3
<1>11. ASSUME Unattended' PROVE OnlyBackground' /\ Awaited'
  <2>1. OnlyBackground /\ Awaited
      BY <1>2, <1>11 DEF AwaitInv, Unattended
  <2>2. c = 1 /\ run[f].background # 0 /\ current = 1
      BY <1>2, <2>1 DEF OnlyBackground
  <2>3. OnlyBackground'
      BY <1>2, <1>8, <1>9, <2>1, <2>2 DEF OnlyBackground
  <2>4. Awaited'
      BY <1>2, <1>8, <2>2 DEF Awaited
  <2>. QED BY <2>3, <2>4
<1>. QED BY <1>10, <1>11 DEF AwaitInv

LEMMA HostAwaits ==
    ASSUME TInv, AwaitInv, Reset \/ FlushViaTransport PROVE AwaitInv'
<1>1. /\ run \in [Flushes -> RunRecord] /\ core \in [Cores -> CoreRecord] /\ current \in Cores
    BY TypeParts DEF RunsTyped, CoresTyped
<1>2. /\ queue' = {} /\ run' = Detached(run) /\ UNCHANGED <<host, current>>
      /\ core' \in {core, [core EXCEPT ![current] = NewCore]}
    BY DEF Reset, FlushViaTransport
<1>3. ASSUME NEW g \in Flushes
      PROVE  /\ run'[g].pc = "none" <=> run[g].pc = "none"
             /\ run'[g].core = run[g].core /\ run'[g].background = run[g].background
  <2>1. run'[g] \in {run[g], [run[g] EXCEPT !.live = FALSE, !.array = queue]}
      BY <1>2 DEF Detached
  <2>2. run[g] \in RunRecord
      BY <1>1
  <2>. QED BY <2>1, <2>2 DEF RunRecord
<1>4. \A d \in Cores : /\ core'[d].promise \in {core[d].promise, 0}
                       /\ core'[d].timer \in {core[d].timer, NoTimer}
    BY <1>1, <1>2 DEF NewCore
<1>. QED BY <1>1, <1>2, <1>3, <1>4, AwaitKept

\* A capture flushes, or its record waits for the timer.
LEMMA EnqueueAwaits ==
    ASSUME TInv, PromiseRuns, NEW c \in Cores, NEW cs \in [Cores -> CoreRecord],
           \A d \in Cores : cs[d].promise \in {core[d].promise, 0}, Enqueue(c, cs)
    PROVE  /\ PromiseRuns'
           /\ OnlyBackground /\ c = 1 /\ cs = core /\ UNCHANGED current
                => OnlyBackground' /\ Awaited'
<1>. DEFINE evicted == IF Cardinality(queue) >= MaxQueueSize THEN Slice(queue, 1) ELSE {}
            q == (queue \ evicted) \cup {enqueued + 1}
            counted == [cs EXCEPT ![c].evicted = @ + Cardinality(evicted)]
<1>1. \/ Flush(c, counted, q, 1)
      \/ core' = Armed(c, counted, 0) /\ UNCHANGED run
    BY DEF Enqueue
<1>2. enqueued \in Nat /\ queue \in SUBSET (1..enqueued)
    BY TypeParts, LogConstants
<1>3. evicted \in SUBSET (1..enqueued)
    BY <1>2, SliceIsSubset
<1>. HIDE DEF evicted
<1>4. ASSUME NEW d \in Cores
      PROVE  /\ counted[d] \in CountingRecord /\ counted[d].promise = cs[d].promise
             /\ counted[d].timer = cs[d].timer
  <2>1. Cardinality(evicted) \in Nat
      BY <1>2, <1>3, RecordsFinite
  <2>2. cs[d] \in CoreRecord
      OBVIOUS
  <2>. QED BY <2>1, <2>2 DEF CoreRecord, CountingRecord
<1>5. counted \in [Cores -> CountingRecord]
    BY <1>4
<1>. HIDE DEF q, counted
<1>6. CASE Flush(c, counted, q, 1)
    BY <1>4, <1>5, <1>6, FlushAwaits DEF OnlyBackground
<1>7. CASE core' = Armed(c, counted, 0) /\ UNCHANGED run
  <2>. DEFINE timer == IF counted[c].timer = NoTimer THEN 0 ELSE counted[c].timer
  <2>1. \A d \in Cores : d # c => core'[d] = counted[d]
      BY <1>5, <1>7 DEF Armed
  <2>2. core'[c] = [counted[c] EXCEPT !.timer = timer]
      BY <1>5, <1>7 DEF Armed
  <2>3. timer # NoTimer
      BY DEF NoTimer
  <2>. HIDE DEF timer
  <2>4. core'[c].timer = timer /\ core'[c].promise = counted[c].promise
      BY <1>4, <2>2 DEF CountingRecord
  <2>5. \A d \in Cores : core'[d].promise \in {core[d].promise, 0}
      BY <1>4, <2>1, <2>4
  <2>6. PromiseRuns'
      BY <1>7, <2>5, PromisesDrop
  <2>7. OnlyBackground /\ c = 1 /\ cs = core /\ UNCHANGED current
            => OnlyBackground' /\ Awaited'
    <3>. SUFFICES ASSUME OnlyBackground, c = 1, cs = core, UNCHANGED current
                  PROVE  OnlyBackground' /\ Awaited'
        OBVIOUS
    <3>1. \A d \in Cores : d # 1 => core'[d].timer = NoTimer
        BY <1>4, <2>1 DEF OnlyBackground
    <3>2. current' = 1 /\ core'[1].timer # NoTimer
        BY <2>3, <2>4 DEF OnlyBackground
    <3>. QED BY <1>7, <3>1, <3>2 DEF OnlyBackground, Awaited
  <2>. QED BY <2>6, <2>7
<1>. QED BY <1>1, <1>6, <1>7

LEMMA CaptureAwaits ==
    ASSUME TInv, AwaitInv, Capture \/ CaptureAfterChange PROVE AwaitInv'
<1>1. core \in [Cores -> CoreRecord] /\ current \in Cores
    BY TypeParts DEF CoresTyped
<1>2. CASE Capture
  <2>1. Enqueue(current, core) /\ UNCHANGED <<host, current>>
      BY <1>2 DEF Capture
  <2>2. /\ PromiseRuns'
        /\ OnlyBackground /\ current = 1 => OnlyBackground' /\ Awaited'
      BY <1>1, <2>1, EnqueueAwaits DEF AwaitInv
  <2>3. Unattended' => OnlyBackground /\ current = 1
      BY <2>1 DEF AwaitInv, Unattended, OnlyBackground
  <2>. QED BY <2>2, <2>3 DEF AwaitInv
<1>3. CASE CaptureAfterChange
  <2>. DEFINE cs == [core EXCEPT ![current] = NewCore]
  <2>1. current' \in Cores /\ ~Unattended'
      BY <1>1, <1>3, LogConstants DEF CaptureAfterChange, Cores, Unattended
  <2>2. cs \in [Cores -> CoreRecord]
      BY <1>1, NewCoreType
  <2>3. \A d \in Cores : cs[d].promise \in {core[d].promise, 0}
      BY <1>1 DEF NewCore
  <2>4. Enqueue(current', cs) \/ (core' = cs /\ UNCHANGED run)
      BY <1>3 DEF CaptureAfterChange
  <2>. HIDE DEF cs
  <2>5. CASE Enqueue(current', cs)
      BY <2>1, <2>2, <2>3, <2>5, EnqueueAwaits DEF AwaitInv
  <2>6. CASE core' = cs /\ UNCHANGED run
      BY <2>1, <2>3, <2>6, PromisesDrop DEF AwaitInv
  <2>. QED BY <2>4, <2>5, <2>6
<1>. QED BY <1>2, <1>3

LEMMA CallsAwait ==
    ASSUME TInv, AwaitInv,
           CallFlush \/ Shutdown \/ OnReconnect \/ \E c \in Cores : TimerFires(c)
    PROVE  AwaitInv'
<1>1. core \in [Cores -> CoreRecord] /\ current \in Cores
    BY TypeParts DEF CoresTyped
<1>2. NoTimer \in NoTimer..MaxExponent /\ 0 \in 0..MaxFailures
    BY LogConstants DEF NoTimer, MaxFailures
<1>3. ASSUME NEW c \in Cores, NEW cs \in [Cores -> CoreRecord], NEW background \in {0, 1},
             \A d \in Cores : /\ cs[d].promise = core[d].promise
                              /\ d # c => cs[d].timer = core[d].timer,
             Flush(c, cs, queue, background), UNCHANGED <<host, current>>,
             Unattended /\ OnlyBackground => c = 1 /\ background = 1
      PROVE  AwaitInv'
  <2>1. cs \in [Cores -> CountingRecord]
      BY CoresCount
  <2>2. /\ PromiseRuns'
        /\ OnlyBackground /\ c = 1 /\ background = 1 /\ UNCHANGED current
              /\ (\A d \in Cores : d # 1 => cs[d].timer = NoTimer)
             => OnlyBackground' /\ Awaited'
      BY <1>3, <2>1, FlushAwaits DEF AwaitInv
  <2>3. ASSUME Unattended'
        PROVE  /\ OnlyBackground /\ c = 1 /\ background = 1 /\ UNCHANGED current
               /\ \A d \in Cores : d # 1 => cs[d].timer = NoTimer
    <3>1. Unattended /\ OnlyBackground
        BY <1>3, <2>3 DEF AwaitInv, Unattended
    <3>. QED BY <1>3, <3>1 DEF OnlyBackground
  <2>. QED BY <2>2, <2>3 DEF AwaitInv
<1>. DEFINE stopped(c) == [core EXCEPT ![c].timer = NoTimer]
            forgiven(c) == [core EXCEPT ![c].failures = 0]
<1>4. ASSUME NEW c \in Cores
      PROVE  /\ stopped(c) \in [Cores -> CoreRecord] /\ forgiven(c) \in [Cores -> CoreRecord]
             /\ \A d \in Cores : /\ stopped(c)[d].promise = core[d].promise
                                 /\ forgiven(c)[d].promise = core[d].promise
                                 /\ d # c => stopped(c)[d].timer = core[d].timer
                                 /\ forgiven(c)[d].timer = core[d].timer
    BY <1>1, <1>2 DEF CoreRecord
<1>5. CASE CallFlush
    BY <1>1, <1>3, <1>5 DEF CallFlush, Unattended
<1>6. CASE Shutdown
  <2>1. /\ Flush(current, stopped(current), queue, 0) /\ ~Unattended
        /\ UNCHANGED <<host, current, queue>>
      BY <1>6 DEF Shutdown, Unattended
  <2>. HIDE DEF stopped
  <2>2. /\ stopped(current) \in [Cores -> CoreRecord]
        /\ \A d \in Cores : /\ stopped(current)[d].promise = core[d].promise
                            /\ d # current => stopped(current)[d].timer = core[d].timer
      BY <1>1, <1>4
  <2>3. /\ UNCHANGED <<host, current>> /\ 0 \in {0, 1}
        /\ Unattended /\ OnlyBackground => current = 1 /\ 0 = 1
      BY <2>1
  <2>. QED BY <1>1, <1>3, <2>1, <2>2, <2>3
<1>7. CASE OnReconnect
  <2>1. /\ Flush(current, forgiven(current), queue, 1)
        /\ UNCHANGED <<host, current, queue>>
        /\ OnlyBackground => current = 1
      BY <1>7 DEF OnReconnect, OnlyBackground
  <2>. HIDE DEF forgiven
  <2>2. /\ forgiven(current) \in [Cores -> CoreRecord]
        /\ \A d \in Cores : /\ forgiven(current)[d].promise = core[d].promise
                            /\ d # current => forgiven(current)[d].timer = core[d].timer
      BY <1>1, <1>4
  <2>3. /\ UNCHANGED <<host, current>> /\ 1 \in {0, 1}
        /\ Unattended /\ OnlyBackground => current = 1 /\ 1 = 1
      BY <2>1
  <2>. QED BY <1>1, <1>3, <2>1, <2>2, <2>3
<1>8. ASSUME NEW c \in Cores, TimerFires(c) PROVE AwaitInv'
  <2>1. /\ Flush(c, stopped(c), queue, 1) /\ UNCHANGED <<host, current, queue>>
        /\ OnlyBackground => c = 1
      BY <1>8 DEF TimerFires, OnlyBackground
  <2>. HIDE DEF stopped
  <2>2. /\ stopped(c) \in [Cores -> CoreRecord]
        /\ \A d \in Cores : /\ stopped(c)[d].promise = core[d].promise
                            /\ d # c => stopped(c)[d].timer = core[d].timer
      BY <1>1, <1>4
  <2>3. /\ UNCHANGED <<host, current>> /\ 1 \in {0, 1}
        /\ Unattended /\ OnlyBackground => c = 1 /\ 1 = 1
      BY <2>1
  <2>. QED BY <1>3, <2>1, <2>2, <2>3
<1>. QED BY <1>5, <1>6, <1>7, <1>8

LEMMA AwaitInit == Init => AwaitInv
<1>1. 1 \in Cores
    BY LogConstants DEF Cores
<1>. QED BY <1>1 DEF Init, AwaitInv, PromiseRuns, OnlyBackground, Awaited, NewCore, NoRun

LEMMA AwaitNext == TInv /\ AwaitInv /\ [Next]_vars => AwaitInv'
<1>. SUFFICES ASSUME TInv, AwaitInv, [Next]_vars PROVE AwaitInv'
    OBVIOUS
<1>1. CASE UNCHANGED vars \/ \E value \in BOOLEAN : SetOptedOut(value)
  <2>1. UNCHANGED <<host, current, core, queue, run>>
      BY <1>1 DEF vars, SetOptedOut
  <2>. QED BY <2>1 DEF AwaitInv, PromiseRuns, Unattended, OnlyBackground, Awaited
<1>2. ASSUME NEW f \in Flushes, FlushStep(f) PROVE AwaitInv'
    BY <1>2, AnswerAwaits, PersistedAwaits, EndAwaits DEF FlushStep
<1>. QED BY <1>1, <1>2, CaptureAwaits, CallsAwait, HostAwaits DEF Next

\* Unless the application flushes or shuts down, or config.logs changes, no record is
\* ever queued with nobody waiting for it: a timer is pending, or a flush is under way
\* with a background caller, which sets the timer again (_flushInBackground).
THEOREM LogRecordsAwaited == Spec => []RecordsAwaited
<1>1. AwaitInv => RecordsAwaited
    BY DEF AwaitInv, RecordsAwaited
<1>. QED BY <1>1, TypeInit, TypeNext, AwaitInit, AwaitNext, PTL DEF Spec

===============================================================================
