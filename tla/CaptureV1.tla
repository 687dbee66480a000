------------------------------- MODULE CaptureV1 -------------------------------
(***************************************************************************)
(* One call of sendV1Batch (packages/node/src/capture-v1/sender.ts): a     *)
(* batch goes out in several attempts, each with the events that the       *)
(* server asked for again.  The caller's queue takes the batch as consumed *)
(* when the call resolves, so that all that did not get through has to be  *)
(* reported.                                                               *)
(***************************************************************************)
EXTENDS Integers

CONSTANTS
    V1Events,      \* the events of the batch
    FetchRetries   \* options.fetchRetryCount, which may be negative

ASSUME V1Assumption == FetchRetries \in Int

VARIABLES
    pendingEvents,  \* pending
    requested,      \* the events in the payload of the attempt
    attempt,        \* attempt
    sending,        \* what the loop awaits: headers, the body, a sleep; or it is over
    drops,          \* drops
    delivered,       \* history: events whose verdict was a success
    reports,        \* history: calls of onError
    reported        \* history: what the last one named, as dropped and exhausted

cvVars == <<pendingEvents, requested, attempt, sending, drops, delivered, reports, reported>>

--------------------------------------------------------------------------------
\* maxAttempts: at least one.
AttemptBudget == IF FetchRetries + 1 > 1 THEN FetchRetries + 1 ELSE 1

V1TypeOK ==
    /\ pendingEvents \subseteq V1Events /\ requested \subseteq V1Events
    /\ attempt \in 1..AttemptBudget
    /\ sending \in {"headers", "body", "sleep", "over"}
    /\ drops \subseteq V1Events /\ delivered \subseteq V1Events
    /\ reports \in Nat
    /\ reported \in [dropped : SUBSET V1Events, exhausted : SUBSET V1Events]

V1Init ==
    /\ pendingEvents = V1Events /\ requested = V1Events
    /\ attempt = 1
    /\ sending = IF V1Events = {} THEN "over" ELSE "headers"
    /\ drops = {} /\ delivered = {}
    /\ reports = 0 /\ reported = [dropped |-> {}, exhausted |-> {}]

LastAttempt == attempt = AttemptBudget

\* onError with the drops so far and the events given up.
Report(dropped, exhausted) ==
    /\ sending' = "over"
    /\ reports' = reports + 1
    /\ reported' = [dropped |-> dropped, exhausted |-> exhausted]

Quietly == UNCHANGED <<reports, reported>>

--------------------------------------------------------------------------------
\* A timeout in either phase, or no connection: the same events go out again.
TransportFails ==
    /\ sending \in {"headers", "body"}
    /\ IF LastAttempt THEN Report(drops, pendingEvents)
                      ELSE sending' = "sleep" /\ Quietly
    /\ UNCHANGED <<pendingEvents, requested, attempt, drops, delivered>>

\* 408, 500, 502, 503, 504.  After the last attempt it ends the batch.
RetryableStatus ==
    /\ sending = "headers"
    /\ IF LastAttempt THEN Report(drops, pendingEvents)
                      ELSE sending' = "sleep" /\ Quietly
    /\ UNCHANGED <<pendingEvents, requested, attempt, drops, delivered>>

\* Any other status that is not a success, 413 and 429 included.
TerminalStatus ==
    /\ sending = "headers"
    /\ Report(drops, pendingEvents)
    /\ UNCHANGED <<pendingEvents, requested, attempt, drops, delivered>>

SuccessStatus ==
    /\ sending = "headers"
    /\ sending' = "body"
    /\ Quietly
    /\ UNCHANGED <<pendingEvents, requested, attempt, drops, delivered>>

\* A success whose body is not what it should be is not retried.
BodyUnparseable ==
    /\ sending = "body"
    /\ Report(drops, pendingEvents)
    /\ UNCHANGED <<pendingEvents, requested, attempt, drops, delivered>>

\* Mutant: the events of the attempt stay pending after a partial answer.
ClassifyKeepingPending(dropping, retrying) ==
    /\ drops' = drops \cup dropping
    /\ delivered' = delivered \cup (pendingEvents \ (dropping \cup retrying))
    /\ pendingEvents' = IF retrying = {} THEN {} ELSE pendingEvents

\* classify: an event with any other verdict, or none, is delivered.
Classify(dropping, retrying) ==
    /\ drops' = drops \cup dropping
    /\ delivered' = delivered \cup (pendingEvents \ (dropping \cup retrying))
    /\ pendingEvents' = retrying

\* The body is read: what is to be retried goes on, or is given up.
VerdictsRead(dropping, retrying) ==
    /\ sending = "body"
    /\ Classify(dropping, retrying)
    /\ IF retrying = {} THEN IF drops' = {} THEN sending' = "over" /\ Quietly
                                            ELSE Report(drops', {})
       ELSE IF LastAttempt THEN Report(drops', retrying)
       ELSE sending' = "sleep" /\ Quietly
    /\ UNCHANGED <<requested, attempt>>

\* The backoff passes; the next payload is built from what is pending.
NextAttempt ==
    /\ sending = "sleep"
    /\ sending' = "headers"
    /\ attempt' = attempt + 1
    /\ requested' = pendingEvents
    /\ Quietly
    /\ UNCHANGED <<pendingEvents, drops, delivered>>

V1Next ==
    \/ TransportFails \/ RetryableStatus \/ TerminalStatus \/ SuccessStatus
    \/ BodyUnparseable \/ NextAttempt
    \/ \E dropping, retrying \in SUBSET pendingEvents :
          dropping \cap retrying = {} /\ VerdictsRead(dropping, retrying)

V1Spec == V1Init /\ [][V1Next]_cvVars

--------------------------------------------------------------------------------
(* Properties *)

\* Every event of the batch is pending, delivered or dropped, and only one of
\* these, over all attempts and partial answers.
VerdictsAreFinal ==
    /\ V1Events = pendingEvents \cup delivered \cup drops
    /\ delivered \cap drops = {}
    /\ pendingEvents \cap (delivered \cup drops) = {}

\* A request carries no event that an answer has already settled.
SettledNotRequested ==
    sending = "headers" => requested = pendingEvents

\* The batch is over with one report that names all that did not get through
\* and nothing else, or none if all did.
ReportIsComplete ==
    IF sending # "over" THEN reports = 0
    ELSE IF drops \cup pendingEvents = {} THEN reports = 0
    ELSE reports = 1 /\ reported = [dropped |-> drops, exhausted |-> pendingEvents]

\* No event of a batch is lost in silence, settled twice, or sent again after
\* its verdict (sender.ts:68-70: "Never throws for a handled outcome: after exhausting
\* its own attempt budget it reports the failure via onError and resolves").  An onError
\* that throws itself is not modelled.
BatchIsAccounted == VerdictsAreFinal /\ SettledNotRequested /\ ReportIsComplete
================================================================================
