----------------------------- MODULE SdkPartsProofs -----------------------------
(***************************************************************************)
(* The parts of SdkParts side by side.  Each behaviour of the whole is a   *)
(* behaviour of each part: the part moves by its own steps or not at all.  *)
(* What the other modules prove of a part alone holds of it in the whole.  *)
(***************************************************************************)
EXTENDS SdkParts, CoreProofs, NativeProofs, BrowserProofs

--------------------------------------------------------------------------------
(* The whole and its parts *)

\* The initial states: a restriction of each part's.
LEMMA EveryPartStarts ==
    SdkInit =>
      /\ part \in Parts
      /\ FlagReloadsInit /\ MetricsInit /\ LimiterInit /\ PollerInit /\ V1Init
      /\ DurableInit /\ BrowserFlagsInit /\ RecorderInit /\ BridgeInit
      /\ ConversationsInit /\ SurveysInit /\ WaitUntilInit
BY DEF SdkInit

\* The steps: a step of one part leaves the others, and which part moves, as they were.
LEMMA OnePartMoves ==
    [SdkNext]_sdkVars =>
      /\ part' = part
      /\ [FlagReloadsNext]_frVars /\ [MetricsNext]_mwVars /\ [LimiterNext]_blVars
      /\ [PollerNext]_fpVars /\ [V1Next]_cvVars /\ [DurableNext]_duVars
      /\ [BrowserFlagsNext]_bfVars /\ [RecorderNext]_srVars /\ [BridgeNext]_nbVars
      /\ [ConversationsNext]_cnVars /\ [SurveysNext]_sdVars /\ [WaitUntilNext]_wuVars
BY DEF SdkNext, sdkVars, ReloadsPart, MetricsPart, LimiterPart, PollerPart, CapturePart,
       StoragePart, FlagsPart, RecorderPart, BridgePart, ConversationsPart, SurveysPart,
       WaitUntilPart

\* The whole implements each of its parts, for every value of their constants.
THEOREM PartsImplemented ==
    SdkSpec =>
      /\ [](part \in Parts)
      /\ FlagReloadsSpec /\ MetricsSpec /\ LimiterSpec /\ PollerSpec /\ V1Spec /\ DurableSpec
      /\ BrowserFlagsSpec /\ RecorderSpec /\ BridgeSpec /\ ConversationsSpec /\ SurveysSpec
      /\ WaitUntilSpec
<1>1. part \in Parts /\ part' = part => (part \in Parts)'
    OBVIOUS
<1>2. SdkSpec => [](part \in Parts)
    BY <1>1, EveryPartStarts, OnePartMoves, PTL DEF SdkSpec
<1>3. SdkSpec => FlagReloadsSpec /\ MetricsSpec /\ LimiterSpec /\ PollerSpec
    BY EveryPartStarts, OnePartMoves, PTL
    DEF SdkSpec, FlagReloadsSpec, MetricsSpec, LimiterSpec, PollerSpec
<1>4. SdkSpec => V1Spec /\ DurableSpec /\ BrowserFlagsSpec /\ RecorderSpec
    BY EveryPartStarts, OnePartMoves, PTL
    DEF SdkSpec, V1Spec, DurableSpec, BrowserFlagsSpec, RecorderSpec
<1>5. SdkSpec => BridgeSpec /\ ConversationsSpec /\ SurveysSpec /\ WaitUntilSpec
    BY EveryPartStarts, OnePartMoves, PTL
    DEF SdkSpec, BridgeSpec, ConversationsSpec, SurveysSpec, WaitUntilSpec
<1>. QED BY <1>2, <1>3, <1>4, <1>5

--------------------------------------------------------------------------------
(* What the parts keep in the whole *)

\* The part that moves stays within its types, whichever it is.
THEOREM PartsTyped == SdkSpec => []PartsTypeOK
<1>. DEFINE Types ==
       /\ part \in Parts
       /\ FlagReloadsTypeOK /\ MetricsTypeOK /\ LimiterTypeOK /\ PollerTypeOK /\ V1TypeOK
       /\ DurableTypeOK /\ BrowserFlagsTypeOK /\ RecorderTypeOK /\ BridgeTypeOK
       /\ ConversationsTypeOK /\ SurveysTypeOK /\ WaitUntilTypeOK
<1>1. SdkSpec => []Types
    BY PartsImplemented, FlagReloadsTypes, MetricsTyped, LimiterTyped, PollerTypeCorrect,
       V1TypeCorrect, DurableTypes, BrowserFlagsTypes, RecorderTypes, BridgeTypes,
       ConversationsTypes, SurveysTypes, WaitUntilTypes, PTL
<1>2. Types => PartsTypeOK
    BY DEF PartsTypeOK
<1>. QED BY <1>1, <1>2, PTL

\* The promises of the parts in one, each with the exceptions that it names itself: those of the core (no reload dropped, configs told
\* once, samples and windows kept, the rate of captures), of Node (polling goes on, each
\* event has a verdict, the invocation is held), of the browser (flags loaded, recordings
\* kept, conversations whole, surveys in turn) and of React Native (what is persisted
\* survives a crash, the native SDK follows).
THEOREM PartsKeepTheirPromises ==
    SdkSpec =>
      [](/\ ReloadsAreServed /\ ConfigToldOnce /\ WindowsAreKept /\ RateIsKept
         /\ PollingGoesOn /\ BatchIsAccounted /\ InvocationIsHeld
         /\ FlagsAreLoaded /\ RecordingsAreKept /\ ConversationIsWhole /\ SurveysTakeTurns
         /\ StorageFollows /\ NativeFollowsClient)
<1>1. SdkSpec => []ReloadsAreServed /\ []ConfigToldOnce /\ []WindowsAreKept
    BY PartsImplemented, ReloadsServedAlways, ConfigToldAlways, WindowsKeptAlways
<1>2. SdkSpec => []RateIsKept
    BY PartsImplemented, RateIsKeptAlways
<1>3. SdkSpec => []PollingGoesOn /\ []BatchIsAccounted /\ []InvocationIsHeld
    BY PartsImplemented, PollingGoesOnAlways, BatchAlwaysAccounted, InvocationIsHeldAlways
<1>4. SdkSpec => []FlagsAreLoaded /\ []RecordingsAreKept
    BY PartsImplemented, FlagsAreLoadedAlways, RecordingsAreKeptAlways
<1>5. SdkSpec => []ConversationIsWhole /\ []SurveysTakeTurns
    BY PartsImplemented, ConversationIsWholeAlways, SurveysTakeTurnsAlways
<1>6. SdkSpec => []StorageFollows /\ []NativeFollowsClient
    BY PartsImplemented, StorageFollowsAlways, NativeFollowsAlways
<1>. QED BY <1>1, <1>2, <1>3, <1>4, <1>5, <1>6, PTL

================================================================================
