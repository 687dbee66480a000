------------------------------ MODULE BrowserFlags ------------------------------
(***************************************************************************)
(* Loading of feature flags in the browser                                 *)
(* (packages/browser/src/posthog-featureflags.ts), with what identify,     *)
(* reset and the remote config do to it.  A reload waits in a debouncer of *)
(* a few milliseconds; a reload that finds a request in flight is noted    *)
(* and done after it.  A breaker stops reloads when requests fail without  *)
(* an answer although the browser is online.                               *)
(*                                                                         *)
(* A user stands for the distinct id.  reset forgets the request in        *)
(* flight, not its callback, so that an answer may be that of an earlier   *)
(* user.                                                                   *)
(***************************************************************************)
EXTENDS Naturals, Sequences, SequencesExt

CONSTANTS
    MaxUsers,           \* bound: distinct ids the page goes through
    MaxStatusZero,      \* MAX_CONSECUTIVE_FLAGS_STATUS_ZERO_FAILURES
    MaxInFlight         \* bound: answers that are awaited together

ASSUME BrowserFlagsAssumption ==
    /\ MaxUsers \in Nat \ {0} /\ MaxStatusZero \in Nat \ {0} /\ MaxInFlight \in Nat \ {0}

VARIABLES
    user,         \* distinct_id
    known,        \* $user_state: FALSE while the user is anonymous
    storedFor,    \* the users that the persisted flags were computed for
    hasLoaded,    \* _hasLoadedFlags
    debouncer,    \* _reloadDebouncer is set
    inFlight,     \* _requestInFlight
    requests,     \* requests whose callback is still to run
    additional,   \* _additionalReloadRequested
    anonId,       \* $anon_distinct_id, 0 when undefined
    statusZeros,  \* _consecutiveStatusZeroFailures
    online,       \* navigator.onLine
    limited,      \* the server has rate limited the client's requests
    configDue,    \* the remote config is still to arrive
    lastAnswer,   \* history: the last answer that settled a request
    overtaken,    \* history: a request that a reset forgot is, or was, still to be answered
    swallowed,    \* history: the limiter dropped the request that is in flight
    linkDue       \* history: the anonymous id no successful request has carried

bfVars == <<user, known, storedFor, hasLoaded, debouncer, inFlight, requests, additional,
            anonId, statusZeros, online, limited, configDue, lastAnswer, overtaken,
            swallowed, linkDue>>

--------------------------------------------------------------------------------
Users == 1..MaxUsers
FlagAnswers == {"complete", "partial", "quota", "refused", "zero"}
FlagsCall == [user : Users, link : 0..MaxUsers]

BrowserFlagsTypeOK ==
    /\ user \in Users /\ storedFor \subseteq Users
    /\ {known, hasLoaded, debouncer, inFlight, additional, online, limited, configDue,
        overtaken, swallowed} \subseteq BOOLEAN
    /\ requests \in Seq(FlagsCall) /\ Len(requests) <= MaxInFlight
    /\ anonId \in 0..MaxUsers /\ linkDue \in 0..MaxUsers
    /\ statusZeros \in 0..MaxStatusZero
    /\ lastAnswer \in FlagAnswers \cup {"none"}

BrowserFlagsInit ==
    /\ user = 1 /\ storedFor = {} /\ requests = <<>>
    /\ known = FALSE /\ hasLoaded = FALSE /\ debouncer = FALSE /\ inFlight = FALSE
    /\ additional = FALSE /\ limited = FALSE /\ overtaken = FALSE /\ swallowed = FALSE
    /\ online = TRUE /\ configDue = TRUE
    /\ anonId = 0 /\ linkDue = 0 /\ statusZeros = 0 /\ lastAnswer = "none"

--------------------------------------------------------------------------------
(* Asking for a reload *)

\* isStatusZeroFailureCircuitBreakerTripped.
Tripped(zeros) == zeros >= MaxStatusZero /\ online
BreakerTripped == Tripped(statusZeros)

\* reloadFeatureFlags: the first call sets the debouncer, others ride on it.
ReloadFeatureFlags == debouncer' = (debouncer \/ ~BreakerTripped)

\* The application, the refresh interval and stale flags ask for a reload.
AskForReload ==
    /\ ReloadFeatureFlags
    /\ UNCHANGED <<user, known, storedFor, hasLoaded, inFlight, requests, additional, anonId,
                   statusZeros, online, limited, configDue, lastAnswer, overtaken, swallowed,
                   linkDue>>

\* identify with another id: an anonymous user leaves an id to link.
IdentifyUser ==
    /\ user < MaxUsers
    /\ user' = user + 1
    /\ known' = TRUE
    /\ anonId' = IF known THEN anonId ELSE user
    /\ linkDue' = IF known THEN linkDue ELSE user
    /\ ReloadFeatureFlags
    /\ UNCHANGED <<storedFor, hasLoaded, inFlight, requests, additional, statusZeros, online,
                   limited, configDue, lastAnswer, overtaken, swallowed>>

\* identify with the id an anonymous user already has: no id to link, and a reload only
\* with properties.
IdentifySameUser ==
    /\ ~known /\ known' = TRUE
    /\ ReloadFeatureFlags \/ UNCHANGED debouncer
    /\ UNCHANGED <<user, storedFor, hasLoaded, inFlight, requests, additional, anonId,
                   statusZeros, online, limited, configDue, lastAnswer, overtaken, swallowed,
                   linkDue>>

\* reset: the persisted flags go, loading starts anew, a reload is asked for.
ResetUser ==
    /\ user < MaxUsers
    /\ user' = user + 1
    /\ known' = FALSE
    /\ storedFor' = {} /\ hasLoaded' = FALSE
    /\ inFlight' = FALSE /\ additional' = FALSE /\ swallowed' = FALSE
    /\ anonId' = 0 /\ linkDue' = 0
    /\ statusZeros' = 0
    /\ debouncer' = TRUE
    /\ overtaken' = (overtaken \/ requests # <<>>)
    /\ UNCHANGED <<requests, online, limited, configDue, lastAnswer>>

\* _onRemoteConfig: flags are loaded unless the config says there are none;
\* ensureFlagsLoaded leaves a load that is under way alone.
RemoteConfigArrives ==
    /\ configDue /\ configDue' = FALSE
    /\ \E hasFlags \in BOOLEAN :
          IF hasFlags /\ ~hasLoaded /\ ~inFlight THEN ReloadFeatureFlags ELSE UNCHANGED debouncer
    /\ UNCHANGED <<user, known, storedFor, hasLoaded, inFlight, requests, additional, anonId,
                   statusZeros, online, limited, lastAnswer, overtaken, swallowed, linkDue>>

--------------------------------------------------------------------------------
(* The request *)

\* What _callFlagsEndpoint reads, when it is called from the debouncer.
AtRest == [flying |-> inFlight, more |-> additional, zeros |-> statusZeros, others |-> requests]

\* Mutant: a reload during a request is dropped.
CallFlagsEndpointUnnoted(s) ==
    IF s.flying \/ Tripped(s.zeros)
    THEN /\ inFlight' = s.flying /\ additional' = s.more /\ requests' = s.others
         /\ UNCHANGED <<overtaken, swallowed>>
    ELSE /\ inFlight' = TRUE /\ additional' = s.more
         /\ Len(s.others) < MaxInFlight
         /\ requests' = Append(s.others, [user |-> user, link |-> anonId'])
         /\ overtaken' = (overtaken /\ s.others # <<>>)
         /\ swallowed' = FALSE

\* _callFlagsEndpoint.  The limiter drops a request without a callback.
CallFlagsEndpoint(s) ==
    \/ /\ s.flying \/ Tripped(s.zeros)
       /\ inFlight' = s.flying /\ requests' = s.others
       /\ additional' = (s.more \/ ~Tripped(s.zeros))
       /\ UNCHANGED <<overtaken, swallowed>>
    \/ /\ ~s.flying /\ ~Tripped(s.zeros)
       /\ inFlight' = TRUE /\ additional' = s.more
       /\ swallowed' = limited
       /\ IF limited
          THEN requests' = s.others /\ UNCHANGED overtaken
          ELSE /\ Len(s.others) < MaxInFlight
               /\ requests' = Append(s.others, [user |-> user, link |-> anonId'])
               /\ overtaken' = (overtaken /\ s.others # <<>>)

DebouncerFires ==
    /\ debouncer /\ debouncer' = FALSE
    /\ UNCHANGED anonId
    /\ CallFlagsEndpoint(AtRest)
    /\ UNCHANGED <<user, known, storedFor, hasLoaded, statusZeros, online, limited, configDue,
                   lastAnswer, linkDue>>

--------------------------------------------------------------------------------
(* The answer *)

Succeeded(answer) == answer \in {"complete", "partial", "quota"}

\* updateStatusZeroFailureCount: a failure while offline says nothing.
StatusZerosAfter(answer) ==
    IF answer # "zero" THEN 0
    ELSE IF online /\ statusZeros < MaxStatusZero THEN statusZeros + 1 ELSE statusZeros

\* receivedFeatureFlags: flags are replaced, or added to those that were
\* computed; an answer without flags changes none.
FlagsAfter(answer, call) ==
    CASE answer = "complete" -> {call.user}
      [] answer = "partial"  -> storedFor \cup {call.user}
      [] OTHER               -> storedFor

\* The id is given up after a success, unless another reload will follow.
AnonIdAfter(answer) == IF Succeeded(answer) /\ ~additional THEN 0 ELSE anonId

\* A quota answer returns early: the additional reload stays noted.
FlagsAnswer(i, answer) ==
    LET call == requests[i]
        rest == RemoveAt(requests, i)
        zeros == StatusZerosAfter(answer) IN
    /\ statusZeros' = zeros
    /\ anonId' = AnonIdAfter(answer)
    /\ linkDue' = IF Succeeded(answer) /\ call.link = linkDue THEN 0 ELSE linkDue
    /\ storedFor' = FlagsAfter(answer, call)
    /\ hasLoaded' = (hasLoaded \/ answer # "quota")
    /\ lastAnswer' = answer
    /\ IF additional /\ answer # "quota"
       THEN /\ debouncer' = FALSE
            /\ CallFlagsEndpoint([flying |-> FALSE, more |-> FALSE, zeros |-> zeros,
                                  others |-> rest])
       ELSE /\ inFlight' = FALSE /\ requests' = rest
            /\ UNCHANGED <<additional, debouncer, overtaken, swallowed>>
    /\ UNCHANGED <<user, known, online, limited, configDue>>

--------------------------------------------------------------------------------
(* The environment *)

\* _onOnline: connectivity that returns closes the breaker and tries again.
\* The event comes with navigator.onLine already true.
BackOnline ==
    /\ ~online /\ online' = TRUE
    /\ statusZeros' = 0
    /\ debouncer' = (debouncer \/ statusZeros >= MaxStatusZero)
    /\ UNCHANGED <<user, known, storedFor, hasLoaded, inFlight, requests, additional, anonId,
                   limited, configDue, lastAnswer, overtaken, swallowed, linkDue>>

GoOffline ==
    /\ online /\ online' = FALSE
    /\ UNCHANGED <<user, known, storedFor, hasLoaded, debouncer, inFlight, requests, additional,
                   anonId, statusZeros, limited, configDue, lastAnswer, overtaken, swallowed,
                   linkDue>>

\* checkForLimiting on some answer, and the end of the limit.
LimitChanges ==
    /\ limited' = ~limited
    /\ UNCHANGED <<user, known, storedFor, hasLoaded, debouncer, inFlight, requests, additional,
                   anonId, statusZeros, online, configDue, lastAnswer, overtaken, swallowed,
                   linkDue>>

BrowserFlagsNext ==
    \/ AskForReload \/ IdentifyUser \/ IdentifySameUser \/ ResetUser
    \/ RemoteConfigArrives \/ DebouncerFires
    \/ \E i \in DOMAIN requests, answer \in FlagAnswers : FlagsAnswer(i, answer)
    \/ BackOnline \/ GoOffline \/ LimitChanges

BrowserFlagsSpec == BrowserFlagsInit /\ [][BrowserFlagsNext]_bfVars

--------------------------------------------------------------------------------
(* Properties *)

\* Once no reload waits and none is awaited, and the last answer brought all
\* flags, the stored flags are those of the current user, although identify
\* was called while requests of earlier users were in flight
\* (posthog-featureflags.ts:552-555: calls are batched, not dropped).  An
\* answer that a reset has forgotten may still overtake.
FlagsFollowUser ==
    ~debouncer /\ ~inFlight /\ lastAnswer = "complete" /\ ~overtaken
        => storedFor = {user}

\* Reloads are held back only for a request whose answer will let them go
\* (posthog-featureflags.ts:614-617), unless the limiter has dropped it.
AwaitsAnAnswer == inFlight => requests # <<>> \/ swallowed

\* Reloads reach the current user, and none is held back in vain.
FlagsAreLoaded == FlagsFollowUser /\ AwaitsAnAnswer

\* An anonymous id is kept until it was sent (posthog-featureflags.ts:676-677:
\* "reset anon_distinct_id after at least a single request with it makes it
\* through").
AnonIdMakesItThrough == linkDue # 0 => anonId = linkDue
================================================================================
