----------------------------- MODULE MetricsWindow -----------------------------
(***************************************************************************)
(* The aggregating metrics client (packages/core/src/metrics/index.ts) and *)
(* its browser host (packages/browser/src/posthog-metrics.ts).             *)
(*                                                                         *)
(* Samples are numbered as they are captured.  A window maps each series   *)
(* to what was folded into it: a count to the set of its samples, a gauge  *)
(* to the newest; a series with nothing is not in the window.  Histograms  *)
(* fold as counts do.                                                      *)
(***************************************************************************)
EXTENDS Naturals, Sequences, FiniteSets

CONSTANTS
    MaxSamples,    \* bound: samples captured
    MaxFlushes,    \* bound: flush promises created
    MaxResets      \* bound: calls of reset and changes of config.metrics

ASSUME MetricsAssumption ==
    MaxSamples \in Nat \ {0} /\ MaxFlushes \in Nat \ {0} /\ MaxResets \in Nat

VARIABLES
    seriesCap,    \* _config.maxSeriesPerFlush
    samples,      \* history: the number of samples captured so far
    counted,      \* history: those that were counts
    window,       \* _series
    windowTimer,  \* _flushTimer is set
    flushes,      \* every flush promise, in the order of the calls
    flushTail,    \* _flushPromise
    generation,   \* _generation
    metricsCore,  \* the core that captures go to; set_config builds another
    sent,         \* history: counted samples in a window that was accepted
    writtenOff,   \* history: counted samples dropped for a reason of the code
    newestGauge,  \* history: the newest gauge in an accepted window
    bypassed      \* history: a reset or a drain came between a flush and its end

mwVars == <<seriesCap, samples, counted, window, windowTimer, flushes, flushTail, generation,
            metricsCore, sent, writtenOff, newestGauge, bypassed>>

--------------------------------------------------------------------------------
Series == {"count", "gauge"}
Samples == 1..MaxSamples
Window == [Series -> SUBSET Samples]
NoSeries == [series \in Series |-> {}]
SeriesIn(w) == {series \in Series : w[series] # {}}

\* A flush waits for the one before it, sends the window it took, has nothing
\* left to do but run its finally, or is done.
MetricsFlush == [phase : {"waiting", "sending", "ending", "done"}, after : 0..MaxFlushes,
                 taken : Window, born : Nat, core : Nat]
SettledFlush == [phase |-> "done", after |-> 0, taken |-> NoSeries, born |-> 0, core |-> 0]

MetricsTypeOK ==
    /\ seriesCap \in 1..Cardinality(Series)
    /\ samples \in 0..MaxSamples /\ counted \subseteq Samples
    /\ window \in Window /\ Cardinality(SeriesIn(window)) <= seriesCap
    /\ windowTimer \in BOOLEAN /\ bypassed \in BOOLEAN
    /\ flushes \in Seq(MetricsFlush) /\ Len(flushes) <= MaxFlushes
    /\ flushTail \in 0..Len(flushes)
    /\ generation \in 0..MaxResets /\ metricsCore \in 0..MaxResets
    /\ sent \subseteq Samples /\ writtenOff \subseteq Samples
    /\ newestGauge \in 0..MaxSamples

MetricsInit ==
    /\ seriesCap \in 1..Cardinality(Series)
    /\ samples = 0 /\ counted = {} /\ window = NoSeries /\ windowTimer = FALSE
    /\ flushes = <<>> /\ flushTail = 0
    /\ generation = 0 /\ metricsCore = 0
    /\ sent = {} /\ writtenOff = {} /\ newestGauge = 0 /\ bypassed = FALSE

FlushesAt(phase) == {f \in DOMAIN flushes : flushes[f].phase = phase}

--------------------------------------------------------------------------------
(* Captures *)

\* _admitNewSeries.
Admits(w, series) == w[series] # {} \/ Cardinality(SeriesIn(w)) < seriesCap

\* _fold.
Folded(w, series, n) ==
    [w EXCEPT ![series] = IF series = "gauge" THEN {n} ELSE @ \cup {n}]

\* _capture of a sample that passes beforeSend.
CaptureMetric(series) ==
    /\ samples < MaxSamples
    /\ samples' = samples + 1
    /\ counted' = IF series = "count" THEN counted \cup {samples + 1} ELSE counted
    /\ IF Admits(window, series)
       THEN /\ window' = Folded(window, series, samples + 1)
            /\ windowTimer' = TRUE
            /\ UNCHANGED writtenOff
       ELSE /\ writtenOff' = writtenOff \cup (counted' \ counted)
            /\ UNCHANGED <<window, windowTimer>>
    /\ UNCHANGED <<seriesCap, flushes, flushTail, generation, metricsCore, sent,
                   newestGauge, bypassed>>

--------------------------------------------------------------------------------
(* Flushes *)

\* _doFlush up to its await, for flush f of list: it takes the window of its
\* core and sends it, unless the window is empty.
DoFlush(list, f) ==
    IF list[f].core = metricsCore /\ SeriesIn(window) # {}
    THEN /\ flushes' = [list EXCEPT ![f].phase = "sending", ![f].taken = window,
                                    ![f].born = generation]
         /\ window' = NoSeries
    ELSE /\ flushes' = [list EXCEPT ![f].phase = "ending"]
         /\ UNCHANGED window

\* Mutant: a flush does not wait for the one before it.
NewMetricsFlushUnchained ==
    LET list == Append(flushes, [phase |-> "waiting", after |-> flushTail,
                                 taken |-> NoSeries, born |-> generation,
                                 core |-> metricsCore]) IN
    /\ Len(list) <= MaxFlushes
    /\ flushTail' = Len(list)
    /\ DoFlush(list, Len(list))

\* flush: behind the last promise, or at once.
NewMetricsFlush ==
    LET list == Append(flushes, [phase |-> "waiting", after |-> flushTail,
                                 taken |-> NoSeries, born |-> generation,
                                 core |-> metricsCore]) IN
    /\ Len(list) <= MaxFlushes
    /\ flushTail' = Len(list)
    /\ IF flushTail = 0 THEN DoFlush(list, Len(list))
                        ELSE flushes' = list /\ UNCHANGED window

FlushMetrics ==
    /\ NewMetricsFlush
    /\ UNCHANGED <<seriesCap, samples, counted, windowTimer, generation, metricsCore, sent,
                   writtenOff, newestGauge, bypassed>>

WindowTimerFires ==
    /\ windowTimer
    /\ windowTimer' = FALSE
    /\ NewMetricsFlush
    /\ UNCHANGED <<seriesCap, samples, counted, generation, metricsCore, sent,
                   writtenOff, newestGauge, bypassed>>

\* The await of the previous promise returns.
FlushTurn(f) ==
    /\ flushes[f].phase = "waiting" /\ flushes[flushes[f].after].phase = "done"
    /\ DoFlush(flushes, f)
    /\ UNCHANGED <<seriesCap, samples, counted, windowTimer, flushTail, generation,
                   metricsCore, sent, writtenOff, newestGauge, bypassed>>

\* Mutant: the window merged back comes on top of a full one.
MergedBackUncapped(old) ==
    [series \in Series |->
        IF series = "gauge" /\ window[series] # {} THEN window[series]
        ELSE window[series] \cup old[series]]

\* _mergeWindowBack: counts add up, a newer gauge stays, and what would go
\* past the cap is dropped.
MergedBack(old) ==
    [series \in Series |->
        IF ~Admits(window, series) THEN {}
        ELSE IF series = "gauge" /\ window[series] # {} THEN window[series]
        ELSE window[series] \cup old[series]]

\* The send settles: accepted, to be retried, or given up (too large, fatal).
\* After a reset the window is dropped whatever the outcome.
SendSettles(f, outcome) ==
    /\ flushes[f].phase = "sending"
    /\ flushes' = [flushes EXCEPT ![f].phase = "ending", ![f].taken = NoSeries]
    /\ LET old == flushes[f].taken
           merging == outcome = "retry-later" /\ flushes[f].born = generation IN
       /\ IF merging THEN window' = MergedBack(old) /\ windowTimer' = TRUE
                     ELSE UNCHANGED <<window, windowTimer>>
       /\ IF outcome = "ok"
          THEN /\ sent' = sent \cup old["count"]
               /\ newestGauge' = IF old["gauge"] = {} THEN newestGauge
                                 ELSE CHOOSE n \in old["gauge"] : TRUE
               /\ UNCHANGED writtenOff
          ELSE /\ writtenOff' = writtenOff \cup
                     (old["count"] \ IF merging THEN window'["count"] ELSE {})
               /\ UNCHANGED <<sent, newestGauge>>
    /\ UNCHANGED <<seriesCap, samples, counted, flushTail, generation, metricsCore, bypassed>>

\* finally.
FlushSettles(f) ==
    /\ flushes[f].phase = "ending"
    /\ flushes' = [flushes EXCEPT ![f] = SettledFlush]
    /\ flushTail' = IF flushTail = f THEN 0 ELSE flushTail
    /\ UNCHANGED <<seriesCap, samples, counted, window, windowTimer, generation, metricsCore,
                   sent, writtenOff, newestGauge, bypassed>>

--------------------------------------------------------------------------------
(* Drains and resets *)

Unsettled == DOMAIN flushes \ FlushesAt("done")

\* flush with a transport: the window is handed to a beacon, once.  The timer
\* stays as it is.
DrainWindow ==
    /\ SeriesIn(window) # {}
    /\ window' = NoSeries
    /\ sent' = sent \cup window["count"]
    /\ newestGauge' = IF window["gauge"] = {} THEN newestGauge
                      ELSE CHOOSE n \in window["gauge"] : TRUE
    /\ bypassed' = (bypassed \/ Unsettled # {})
    /\ UNCHANGED <<seriesCap, samples, counted, windowTimer, flushes, flushTail, generation,
                   metricsCore, writtenOff>>

\* reset of the core in use.
ClearMetrics ==
    /\ generation < MaxResets
    /\ generation' = generation + 1
    /\ windowTimer' = FALSE /\ window' = NoSeries /\ flushTail' = 0
    /\ writtenOff' = writtenOff \cup window["count"]
    /\ bypassed' = (bypassed \/ Unsettled # {})
    /\ UNCHANGED <<seriesCap, samples, counted, flushes, sent, newestGauge>>

ResetMetrics == ClearMetrics /\ UNCHANGED metricsCore

\* A capture after config.metrics was changed: the old core is reset, and a
\* new one, which knows of no flush, takes over.
RebuildMetrics == ClearMetrics /\ metricsCore' = metricsCore + 1

--------------------------------------------------------------------------------
SendOutcomes == {"ok", "retry-later", "given up"}

MetricsNext ==
    \/ \E series \in Series : CaptureMetric(series)
    \/ FlushMetrics \/ WindowTimerFires
    \/ \E f \in DOMAIN flushes :
          \/ FlushTurn(f) \/ FlushSettles(f)
          \/ \E outcome \in SendOutcomes : SendSettles(f, outcome)
    \/ DrainWindow \/ ResetMetrics \/ RebuildMetrics

--------------------------------------------------------------------------------
(* Properties *)

\* Where a counted sample is held or what became of it.
Homes(n) ==
    {<<"flush", f>> : f \in {f \in FlushesAt("sending") : n \in flushes[f].taken["count"]}}
    \cup {<<"window", x>> : x \in {n} \cap window["count"]}
    \cup {<<"sent", x>> : x \in {n} \cap sent}
    \cup {<<"writtenOff", x>> : x \in {n} \cap writtenOff}

\* No counted sample is lost or counted twice (core/src/metrics/index.ts:306-343,
\* 415-451): it is in the live window, in one window being sent, accepted once,
\* or dropped for a reason the code states; and a live window that is not empty
\* has a timer or a flush that will take it, also after a failed send, a drain
\* or a reset.
SamplesAreKept ==
    /\ \A n \in counted : Cardinality(Homes(n)) = 1
    /\ SeriesIn(window) # {} =>
          windowTimer \/ \E f \in FlushesAt("waiting") : flushes[f].core = metricsCore

\* Merging back never makes an older gauge overtake a newer one that was
\* accepted ("the live window's value is newer", index.ts:432), as long as no
\* reset or drain came between a flush and its end: flushes are serialized.
GaugesGoForward ==
    ~bypassed =>
        \A w \in {window} \cup {flushes[f].taken : f \in FlushesAt("sending")} :
            \A n \in w["gauge"] : n > newestGauge

\* Both, for counters and for gauges.
WindowsAreKept == SamplesAreKept /\ GaugesGoForward
================================================================================
