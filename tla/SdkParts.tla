-------------------------------- MODULE SdkParts --------------------------------
(***************************************************************************)
(* The parts of the SDKs that share no state with one another, side by     *)
(* side for one run of the model checker.  A behaviour exercises one part, *)
(* chosen in its initial state, and leaves the others in theirs: a state   *)
(* of the whole is a state of one part, and their products, which would    *)
(* show nothing, are not explored.                                         *)
(***************************************************************************)
EXTENDS FlagReloads, MetricsWindow, BurstLimiter, FlagPoller, CaptureV1, DurableQueue,
        BrowserFlags, SessionRecorder, NativeBridge, Conversations, SurveyDisplay,
        WaitUntil

VARIABLE part  \* the part that this behaviour exercises

Parts == {"reloads", "metrics", "limiter", "poller", "captureV1", "storage", "flags",
          "recorder", "bridge", "conversations", "surveys", "waitUntil"}

sdkVars == <<part, frVars, mwVars, blVars, fpVars, cvVars, duVars, bfVars, srVars, nbVars,
             cnVars, sdVars, wuVars>>

\* What the other parts were configured with makes no difference: it is fixed.
SdkInit ==
    /\ part \in Parts
    /\ FlagReloadsInit
    /\ MetricsInit /\ (part # "metrics" => seriesCap = 1)
    /\ LimiterInit
    /\ PollerInit /\ (part # "poller" => ~hasCache)
    /\ V1Init
    /\ DurableInit /\ (part # "storage" => ~syncBackend)
    /\ BrowserFlagsInit
    /\ RecorderInit
    /\ part # "recorder" => ~everVisible /\ rec.verdict[1] = "disabled" /\ ~rec.async
    /\ BridgeInit
    /\ part # "bridge" => ~options.replay /\ ~options.push /\ ~client.optedOut /\ ~wanted
    /\ ConversationsInit /\ (part # "conversations" => owners = <<>>)
    /\ SurveysInit  \* surveys that differ in their numbers only are the same
    /\ \A s, t \in SurveyIds :
          s < t /\ survey[s].repeats = survey[t].repeats /\ survey[t].delay => survey[s].delay
    /\ part # "surveys" =>
         /\ ~transitions
         /\ \A s \in SurveyIds :
               ~survey[s].delay /\ ~survey[s].thanks /\ ~survey[s].repeats
    /\ WaitUntilInit

--------------------------------------------------------------------------------
(* A step of one part *)

ReloadsPart ==
    /\ part = "reloads" /\ FlagReloadsNext
    /\ UNCHANGED <<part, mwVars, blVars, fpVars, cvVars, duVars, bfVars, srVars, nbVars,
                   cnVars, sdVars, wuVars>>

MetricsPart ==
    /\ part = "metrics" /\ MetricsNext
    /\ UNCHANGED <<part, frVars, blVars, fpVars, cvVars, duVars, bfVars, srVars, nbVars,
                   cnVars, sdVars, wuVars>>

LimiterPart ==
    /\ part = "limiter" /\ LimiterNext
    /\ UNCHANGED <<part, frVars, mwVars, fpVars, cvVars, duVars, bfVars, srVars, nbVars,
                   cnVars, sdVars, wuVars>>

PollerPart ==
    /\ part = "poller" /\ PollerNext
    /\ UNCHANGED <<part, frVars, mwVars, blVars, cvVars, duVars, bfVars, srVars, nbVars,
                   cnVars, sdVars, wuVars>>

CapturePart ==
    /\ part = "captureV1" /\ V1Next
    /\ UNCHANGED <<part, frVars, mwVars, blVars, fpVars, duVars, bfVars, srVars, nbVars,
                   cnVars, sdVars, wuVars>>

StoragePart ==
    /\ part = "storage" /\ DurableNext
    /\ UNCHANGED <<part, frVars, mwVars, blVars, fpVars, cvVars, bfVars, srVars, nbVars,
                   cnVars, sdVars, wuVars>>

FlagsPart ==
    /\ part = "flags" /\ BrowserFlagsNext
    /\ UNCHANGED <<part, frVars, mwVars, blVars, fpVars, cvVars, duVars, srVars, nbVars,
                   cnVars, sdVars, wuVars>>

RecorderPart ==
    /\ part = "recorder" /\ RecorderNext
    /\ UNCHANGED <<part, frVars, mwVars, blVars, fpVars, cvVars, duVars, bfVars, nbVars,
                   cnVars, sdVars, wuVars>>

BridgePart ==
    /\ part = "bridge" /\ BridgeNext
    /\ UNCHANGED <<part, frVars, mwVars, blVars, fpVars, cvVars, duVars, bfVars, srVars,
                   cnVars, sdVars, wuVars>>

ConversationsPart ==
    /\ part = "conversations" /\ ConversationsNext
    /\ UNCHANGED <<part, frVars, mwVars, blVars, fpVars, cvVars, duVars, bfVars, srVars, nbVars,
                   sdVars, wuVars>>

SurveysPart ==
    /\ part = "surveys" /\ SurveysNext
    /\ UNCHANGED <<part, frVars, mwVars, blVars, fpVars, cvVars, duVars, bfVars, srVars, nbVars,
                   cnVars, wuVars>>

WaitUntilPart ==
    /\ part = "waitUntil" /\ WaitUntilNext
    /\ UNCHANGED <<part, frVars, mwVars, blVars, fpVars, cvVars, duVars, bfVars, srVars, nbVars,
                   cnVars, sdVars>>

SdkNext ==
    \/ ReloadsPart \/ MetricsPart \/ LimiterPart \/ PollerPart \/ CapturePart
    \/ StoragePart \/ FlagsPart \/ RecorderPart \/ BridgePart
    \/ ConversationsPart \/ SurveysPart \/ WaitUntilPart

SdkSpec == SdkInit /\ [][SdkNext]_sdkVars

--------------------------------------------------------------------------------
(* Fairness *)

\* Promises that are settled run what awaits them, and requests are answered
\* or time out.
ReloadsFairness ==
    WF_frVars(/\ part = "reloads"
              /\ \/ InitSettles \/ EnterFlagsAsync \/ SendFlagsRequest \/ SettleFlagsRequest
                 \/ \E outcome \in FlagOutcomes : FlagsAnswered(outcome))

\* The poller's timer fires and its requests are answered; the definitions
\* come through if requests are possible again and again.
PollerFairness ==
    /\ WF_fpVars(part = "poller" /\ (PollTimerFires \/ LoadStep))
    /\ SF_fpVars(part = "poller" /\ Loaded)

SdkFairSpec == SdkSpec /\ ReloadsFairness /\ PollerFairness

--------------------------------------------------------------------------------
(* Properties that the parts have only here *)

\* The part that moves stays within its types.
PartsTypeOK ==
    /\ part \in Parts
    /\ part = "reloads" => FlagReloadsTypeOK
    /\ part = "metrics" => MetricsTypeOK
    /\ part = "limiter" => LimiterTypeOK
    /\ part = "poller" => PollerTypeOK
    /\ part = "captureV1" => V1TypeOK
    /\ part = "storage" => DurableTypeOK
    /\ part = "flags" => BrowserFlagsTypeOK
    /\ part = "recorder" => RecorderTypeOK
    /\ part = "bridge" => BridgeTypeOK
    /\ part = "conversations" => ConversationsTypeOK
    /\ part = "surveys" => SurveysTypeOK
    /\ part = "waitUntil" => WaitUntilTypeOK

\* The definitions that the poller has follow the server's (FlagPoller), in the
\* behaviours of that part.
PollerCatchesUp == part = "poller" => DefinitionsCatchUp
================================================================================
