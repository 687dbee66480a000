-------------------------------- MODULE WaitUntil --------------------------------
(***************************************************************************)
(* The node client in a serverless function (packages/node/src/client.ts,  *)
(* scheduleDebouncedFlush): the platform keeps an invocation alive until   *)
(* the promises given to waitUntil settle.  A capture that is queued gives *)
(* it one for a cycle of captures, which a debounced flush ends, or the    *)
(* cap on the delay, or shutdown; a flush without a cycle gives its own.   *)
(*                                                                         *)
(* A flush stands for the steps of EventQueue: it waits for the captures   *)
(* under way and for the flush before it, and sends what is queued.        *)
(* waitUntil throws outside of a request.  Timers are punctual.            *)
(***************************************************************************)
EXTENDS Naturals, Sequences, FiniteSets

CONSTANTS
    DebounceTicks,    \* waitUntilDebounceMs, in ticks
    MaxDelayTicks,    \* waitUntilMaxWaitMs, in ticks
    FlushThreshold,   \* flushAt
    MaxHosted,        \* bound: captures
    MaxHostFlushes    \* bound: flushes that the application and the flush timer ask for

ASSUME WaitUntilAssumption ==
    /\ DebounceTicks \in Nat /\ MaxDelayTicks \in Nat /\ FlushThreshold \in Nat \ {0}
    /\ MaxHosted \in Nat /\ MaxHostFlushes \in Nat

VARIABLES
    hosted,     \* captures so far, and flushes asked for
    underway,   \* captures being prepared
    stored,     \* the persisted queue
    cycle,      \* _waitUntilCycle: its age, and what is left of its timer
    chain,      \* the flushes that have not settled, the oldest first
    closing,    \* shutdown, and whether it resolves the promise of a cycle
    tried,      \* history: queued messages whose flush has failed
    loose       \* history: messages queued outside of a request, or left in the queue by
                \* a shutdown that met an error or its timeout

wuVars == <<hosted, underway, stored, cycle, chain, closing, tried, loose>>

--------------------------------------------------------------------------------
Hosted == 1..MaxHosted
NoCycle == [on |-> FALSE, age |-> 0, left |-> 0]
NoClosing == [pc |-> "none", holds |-> FALSE, late |-> FALSE, behind |-> 0, awaits |-> {}]

WaitUntilTypeOK ==
    /\ hosted \in [captures : 0..MaxHosted, flushes : 0..MaxHostFlushes]
    /\ {underway, stored, tried, loose} \subseteq SUBSET Hosted
    /\ cycle \in [on : BOOLEAN, age : 0..(MaxDelayTicks + DebounceTicks),
                  left : 0..DebounceTicks]
    /\ chain \in Seq([kept : BOOLEAN, awaits : SUBSET Hosted, running : BOOLEAN,
                      batch : SUBSET Hosted])
    /\ closing \in [pc : {"none", "joining", "draining", "flushing", "done"}, holds : BOOLEAN,
                    late : BOOLEAN, behind : 0..Len(chain), awaits : SUBSET Hosted]

WaitUntilInit ==
    /\ hosted = [captures |-> 0, flushes |-> 0]
    /\ underway = {} /\ stored = {} /\ cycle = NoCycle /\ chain = <<>>
    /\ closing = NoClosing /\ tried = {} /\ loose = {}

--------------------------------------------------------------------------------
(* Flushes *)

\* flushWithPendingPromises: one more flush, which waitUntil keeps alive or not.
Flushed(flushes, keeps) ==
    Append(flushes, [kept |-> keeps, awaits |-> underway, running |-> FALSE, batch |-> {}])

\* flush registers its promise unless a cycle keeps the runtime alive already.
FlushCalled(inRequest) == Flushed(chain, inRequest /\ ~cycle.on)

\* flushBackground: nothing if a flush has yet to start.
FlushBackground(inRequest) ==
    IF chain # <<>> /\ ~chain[Len(chain)].running THEN chain ELSE FlushCalled(inRequest)

CallHostFlush ==
    /\ hosted.flushes < MaxHostFlushes
    /\ hosted' = [hosted EXCEPT !.flushes = @ + 1]
    /\ \E inRequest \in BOOLEAN :
          chain' \in {FlushCalled(inRequest), FlushBackground(inRequest)}
    /\ chain' # chain
    /\ UNCHANGED <<underway, stored, cycle, closing, tried, loose>>

\* _flush, when the captures it awaits and the flushes before it have settled.
FlushBegins ==
    /\ chain # <<>> /\ ~chain[1].running /\ chain[1].awaits \cap underway = {}
    /\ chain' = [chain EXCEPT ![1].running = TRUE, ![1].batch = stored]
    /\ UNCHANGED <<hosted, underway, stored, cycle, closing, tried, loose>>

\* Shutdown gives up: what is left is nobody's.
GivesUp(later) ==
    /\ closing' = later
    /\ loose' = IF closing.holds THEN stored' ELSE loose \cap stored'

Done == [NoClosing EXCEPT !.pc = "done"]

\* The oldest flush settles; one that fails may have got some of its batches through.
\* Shutdown, if it waits for that flush, goes on or gives up.
FlushEnds ==
    /\ chain # <<>> /\ chain[1].running
    /\ chain' = Tail(chain)
    /\ \E failed \in BOOLEAN :
         /\ \E first \in IF failed THEN 0..MaxHosted ELSE {MaxHosted} :
               stored' = stored \ {m \in chain[1].batch : m <= first}
         /\ tried' = (IF failed THEN tried \cup chain[1].batch ELSE tried) \cap stored'
         /\ \/ /\ closing.behind = 0 /\ UNCHANGED closing /\ loose' = loose \cap stored'
            \/ /\ failed /\ closing.behind > 0
               /\ closing.pc = "joining" \/ closing.behind = 1
               /\ GivesUp(Done)
            \/ /\ closing.behind > 0
               /\ failed => closing.pc = "flushing" /\ closing.behind > 1
               /\ closing' = [closing EXCEPT !.behind = @ - 1,
                    !.pc = IF @ = "joining" \/ closing.behind > 1 THEN @
                           ELSE IF closing.late THEN "done" ELSE "draining"]
               /\ loose' = loose \cap stored'
    /\ UNCHANGED <<hosted, underway, cycle>>

--------------------------------------------------------------------------------
(* Captures *)

BeginHosted ==
    /\ hosted.captures < MaxHosted
    /\ hosted' = [hosted EXCEPT !.captures = @ + 1]
    /\ underway' = underway \cup {hosted'.captures}
    /\ UNCHANGED <<stored, cycle, chain, closing, tried, loose>>

\* Mutant: the promise of the cycle is resolved by the flush call, not by its end.
ResolveAtFlush(flushes) == Flushed(flushes, FALSE)

\* resolveWaitUntilFlush: the promise of the cycle goes to its flush.
ResolveWaitUntilFlush(flushes) == Flushed(flushes, TRUE)

\* scheduleDebouncedFlush: the timer starts again, up to the cap.
ScheduleDebouncedFlush(flushes, inRequest) ==
    IF ~cycle.on /\ ~inRequest THEN chain' = flushes /\ UNCHANGED cycle
    ELSE IF cycle.age >= MaxDelayTicks
         THEN cycle' = NoCycle /\ chain' = ResolveWaitUntilFlush(flushes)
         ELSE cycle' = [cycle EXCEPT !.on = TRUE, !.left = DebounceTicks] /\ chain' = flushes

\* enqueue, of a message that before_send may have dropped.
EnqueueHosted(c) ==
    /\ c \in underway
    /\ underway' = underway \ {c}
    /\ \E keeps \in BOOLEAN, inRequest \in BOOLEAN :
         /\ stored' = IF keeps THEN stored \cup {c} ELSE stored
         /\ ScheduleDebouncedFlush(
                IF keeps /\ Cardinality(stored') >= FlushThreshold
                THEN FlushBackground(inRequest) ELSE chain, inRequest)
         /\ loose' = IF keeps /\ ~cycle.on /\ ~inRequest THEN loose \cup {c} ELSE loose
    /\ UNCHANGED <<hosted, closing, tried>>

\* Preparing failed, or the client is opted out.
DiscardHosted(c) ==
    /\ c \in underway
    /\ underway' = underway \ {c}
    /\ UNCHANGED <<hosted, stored, cycle, chain, closing, tried, loose>>

HostTick ==
    /\ cycle.on /\ cycle.left > 0
    /\ cycle' = [cycle EXCEPT !.age = @ + 1, !.left = @ - 1]
    /\ UNCHANGED <<hosted, underway, stored, chain, closing, tried, loose>>

DebounceFires ==
    /\ cycle.on /\ cycle.left = 0
    /\ cycle' = NoCycle /\ chain' = ResolveWaitUntilFlush(chain)
    /\ UNCHANGED <<hosted, underway, stored, closing, tried, loose>>

--------------------------------------------------------------------------------
(* Shutdown *)

\* _shutdown takes the cycle's promise over ...
BeginClosing ==
    /\ closing.pc = "none"
    /\ closing' = [NoClosing EXCEPT !.pc = "joining", !.holds = cycle.on]
    /\ cycle' = NoCycle
    /\ UNCHANGED <<hosted, underway, stored, chain, tried, loose>>

\* ... joins what is pending, round by round ...
ClosingJoins ==
    /\ closing.pc = "joining" /\ closing.behind = 0 /\ closing.awaits \cap underway = {}
    /\ closing' = IF chain = <<>> /\ underway = {}
                  THEN [closing EXCEPT !.pc = "draining", !.awaits = {}]
                  ELSE [closing EXCEPT !.behind = Len(chain), !.awaits = underway]
    /\ UNCHANGED <<hosted, underway, stored, cycle, chain, tried, loose>>

\* ... flushes until nothing is queued, and resolves the promise.
ClosingDrains ==
    /\ closing.pc = "draining"
    /\ IF stored = {} THEN closing' = Done /\ UNCHANGED chain
       ELSE /\ \E inRequest \in BOOLEAN : chain' = FlushCalled(inRequest)
            /\ closing' = [closing EXCEPT !.pc = "flushing", !.behind = Len(chain')]
    /\ UNCHANGED <<hosted, underway, stored, cycle, tried, loose>>

\* The caller is told, and the promise resolved; the drain notices after its flush.
ClosingTimesOut ==
    /\ closing.pc \notin {"none", "done"} /\ ~closing.late
    /\ UNCHANGED <<hosted, underway, stored, cycle, chain, tried>>
    /\ GivesUp([closing EXCEPT !.late = TRUE, !.holds = FALSE])

WaitUntilNext ==
    \/ CallHostFlush \/ FlushBegins \/ FlushEnds
    \/ BeginHosted \/ \E c \in Hosted : EnqueueHosted(c) \/ DiscardHosted(c)
    \/ HostTick \/ DebounceFires
    \/ BeginClosing \/ ClosingJoins \/ ClosingDrains \/ ClosingTimesOut

WaitUntilSpec == WaitUntilInit /\ [][WaitUntilNext]_wuVars

--------------------------------------------------------------------------------
(* Properties *)

\* A promise that waitUntil has settles only after a flush that takes m.
Held(m) ==
    \/ cycle.on \/ closing.holds
    \/ \E i \in DOMAIN chain :
          chain[i].kept /\ (chain[i].running => m \in chain[i].batch)

\* A message that no flush has failed with is in the queue of a live invocation.
HeldUntilTried == \A m \in stored \ (tried \cup loose) : Held(m)

\* Captures in quick succession do not put the flush off for ever: it comes within the
\* cap and one debounce.
DelayIsCapped == cycle.on => cycle.age < MaxDelayTicks + DebounceTicks

(* Whatever captures, flushes, their ends and shutdown do in which order, the   *)
(* invocation lives until each queued message has been tried ("extend the       *)
(* lifetime of a serverless invocation until background work ... completes",    *)
(* types.ts:294-296), and that is not put off indefinitely (client.ts:309-311). *)
InvocationIsHeld == HeldUntilTried /\ DelayIsCapped
================================================================================
