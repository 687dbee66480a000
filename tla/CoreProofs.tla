------------------------------- MODULE CoreProofs -------------------------------
(***************************************************************************)
(* Proofs about the parts of packages/core that are small machines of their *)
(* own, and those of the Node SDK.                                          *)
(*                                                                          *)
(*   FlagReloads    no reload is dropped by the slot that they share, and   *)
(*                  each remote config is told once, for any number of      *)
(*                  contexts, calls and remote config loads                 *)
(*   MetricsWindow  every counted sample is in one place and every window   *)
(*                  is awaited, for any number of samples and flushes       *)
(*   BurstLimiter   a bucket of any size, refilled at any rate, passes no   *)
(*                  more than a burst and its refills                       *)
(*   FlagPoller     polling goes on after every load                        *)
(*   CaptureV1      every event of a batch has one verdict                  *)
(*   WaitUntil      the platform holds the invocation while a flush is owed *)
(***************************************************************************)
EXTENDS FlagReloads, MetricsWindow, BurstLimiter, FlagPoller, CaptureV1, WaitUntil,
        SequenceTheorems, FiniteSetTheorems, TLAPS

--------------------------------------------------------------------------------
(* FlagReloads: what its invariant says.                                    *)

\* The calls that the application and the loads of the remote config may make.
CallsCounted ==
    /\ Len(replies) <= MaxReloads + loads
    /\ configLoading => loads < MaxConfigLoads

\* Every call has its number, the slot is taken only behind a request, and a request
\* that was sent has read a context.
CallsKnown ==
    /\ \A i \in DOMAIN flagCalls : flagCalls[i].id \in DOMAIN replies
    /\ pendingReload # NoCall => pendingReload.id \in DOMAIN replies
    /\ flagsRequest # NoFlagsRequest => flagsRequest.call.id \in DOMAIN replies
    /\ flagsRequest = NoFlagsRequest => pendingReload = NoCall
    /\ flagsRequest.phase \in {"sent", "answered"} => flagsRequest.reads \in 1..MaxContexts

FRTypes == FlagReloadsTypeOK /\ CallsCounted /\ CallsKnown

\* A request reads a context no older than its call; who rides with it lost the slot.
RequestIsFresh ==
    /\ \A id \in DOMAIN askedIn : askedIn[id] <= context
    /\ flagsRequest.phase \in {"sent", "answered"} =>
          flagsRequest.reads >= askedIn[flagsRequest.call.id]
    /\ riders \subseteq replaced

\* A request is still to be made: it will read the context of that time.
Coming ==
    flagCalls # <<>> \/ pendingReload # NoCall \/ flagsRequest.phase = "starting"

\* Unless one is, the request in flight or the stored flags are of this context.
NoContextIsMissed ==
    \/ Coming
    \/ flagsRequest.phase = "sent" /\ flagsRequest.reads = context
    \/ /\ flagsRequest.phase \in {"none", "answered"}
       /\ lastOutcome = "complete" => knownFlags = {context}

\* A link that is owed waits in a call, unless one was replaced.
LinkWaits ==
    linkOwed =>
        \/ replaced # {}
        \/ \E i \in DOMAIN flagCalls : flagCalls[i].link
        \/ pendingReload.link
        \/ flagsRequest.phase = "starting" /\ flagsRequest.call.link


--------------------------------------------------------------------------------
(* Calls.                                                                   *)

LEMMA CallsAreNotNoCall == \A call \in FlagCall : call # NoCall /\ call.id >= 1
BY FlagReloadsAssumption DEF FlagCall, NoCall

\* A call that awaits _initPromise: it has the next number, and no answer.
LEMMA NewReload ==
    ASSUME FRTypes, NEW link \in BOOLEAN, NEW tell \in BOOLEAN, CallFlagsAsync(link, tell),
           Len(replies) < MaxReloads + MaxConfigLoads, context' \in 1..MaxContexts
    PROVE  /\ flagCalls' \in Seq(FlagCall) /\ flagCalls' # <<>>
           /\ replies' \in Seq(0..MaxContexts) /\ askedIn' \in Seq(1..MaxContexts)
           /\ Len(replies') = Len(replies) + 1 /\ Len(askedIn') = Len(replies')
           /\ \A id \in DOMAIN replies :
                 /\ id \in DOMAIN replies' /\ replies'[id] = replies[id]
                 /\ askedIn'[id] = askedIn[id]
           /\ \A id \in DOMAIN replies' \ DOMAIN replies :
                 replies'[id] = 0 /\ askedIn'[id] = context'
           /\ \A i \in DOMAIN flagCalls :
                 i \in DOMAIN flagCalls' /\ flagCalls'[i] = flagCalls[i]
           /\ \A i \in DOMAIN flagCalls' : flagCalls'[i].id \in DOMAIN replies'
           /\ link => \E i \in DOMAIN flagCalls' : flagCalls'[i].link
<1>. DEFINE call == [id |-> Len(replies) + 1, link |-> link, tell |-> tell]
<1>1. /\ replies \in Seq(0..MaxContexts) /\ askedIn \in Seq(1..MaxContexts)
      /\ Len(askedIn) = Len(replies) /\ flagCalls \in Seq(FlagCall)
      /\ \A i \in DOMAIN flagCalls : flagCalls[i].id \in DOMAIN replies
    BY DEF FRTypes, FlagReloadsTypeOK, CallsKnown
<1>2. call \in FlagCall
  <2>1. Len(replies) + 1 \in 1..(MaxReloads + MaxConfigLoads)
      BY <1>1, FlagReloadsAssumption
  <2>. QED BY <2>1 DEF FlagCall
<1>3. flagCalls' = Append(flagCalls, call) /\ replies' = Append(replies, 0)
      /\ askedIn' = Append(askedIn, context')
    BY DEF CallFlagsAsync
<1>4. /\ replies' \in Seq(0..MaxContexts) /\ askedIn' \in Seq(1..MaxContexts)
      /\ Len(replies') = Len(replies) + 1 /\ Len(askedIn') = Len(replies')
  <2>1. 0 \in 0..MaxContexts
      BY FlagReloadsAssumption
  <2>. QED BY <1>1, <1>3, <2>1
<1>5. \A id \in DOMAIN replies :
         /\ id \in DOMAIN replies' /\ replies'[id] = replies[id]
         /\ askedIn'[id] = askedIn[id]
    BY <1>1, <1>3
<1>6. \A id \in DOMAIN replies' \ DOMAIN replies :
         id = Len(replies) + 1 /\ replies'[id] = 0 /\ askedIn'[id] = context'
    BY <1>1, <1>3
<1>7. /\ flagCalls' \in Seq(FlagCall) /\ Len(flagCalls') = Len(flagCalls) + 1
      /\ flagCalls'[Len(flagCalls) + 1] = call
      /\ \A i \in DOMAIN flagCalls : i \in DOMAIN flagCalls' /\ flagCalls'[i] = flagCalls[i]
      /\ \A i \in DOMAIN flagCalls' : i \in DOMAIN flagCalls \/ i = Len(flagCalls) + 1
      /\ Len(flagCalls) + 1 \in DOMAIN flagCalls'
  <2>. HIDE DEF call
  <2>. QED BY <1>1, <1>2, <1>3
<1>8. call.id = Len(replies) + 1 /\ call.link = link /\ Len(replies) + 1 \in DOMAIN replies'
    BY <1>1, <1>3
<1>9. \A i \in DOMAIN flagCalls' : flagCalls'[i].id \in DOMAIN replies'
    BY <1>1, <1>5, <1>7, <1>8
<1>10. link => \E i \in DOMAIN flagCalls' : flagCalls'[i].link
    BY <1>7, <1>8, Zenon
<1>11. flagCalls' # <<>>
    BY <1>1, <1>7
<1>. QED BY <1>4, <1>5, <1>6, <1>7, <1>9, <1>10, <1>11

\* The first call that awaits _initPromise, and the others.
LEMMA FirstCall ==
    ASSUME FRTypes, flagCalls # <<>>
    PROVE  /\ Head(flagCalls) \in FlagCall /\ Head(flagCalls).id \in DOMAIN replies
           /\ Tail(flagCalls) \in Seq(FlagCall)
           /\ \A i \in DOMAIN Tail(flagCalls) : Tail(flagCalls)[i].id \in DOMAIN replies
           /\ (\E i \in DOMAIN flagCalls : flagCalls[i].link)
                 => Head(flagCalls).link
                    \/ \E i \in DOMAIN Tail(flagCalls) : Tail(flagCalls)[i].link
<1>1. /\ flagCalls \in Seq(FlagCall)
      /\ \A i \in DOMAIN flagCalls : flagCalls[i].id \in DOMAIN replies
    BY DEF FRTypes, FlagReloadsTypeOK, CallsKnown
<1>2. /\ Len(flagCalls) \in Nat /\ Len(flagCalls) >= 1 /\ Head(flagCalls) = flagCalls[1]
      /\ 1 \in DOMAIN flagCalls /\ Len(Tail(flagCalls)) = Len(flagCalls) - 1
      /\ Tail(flagCalls) \in Seq(FlagCall) /\ DOMAIN flagCalls = 1..Len(flagCalls)
      /\ DOMAIN Tail(flagCalls) = 1..(Len(flagCalls) - 1)
      /\ \A i \in 1..(Len(flagCalls) - 1) : Tail(flagCalls)[i] = flagCalls[i + 1]
    BY <1>1
<1>3. \A i \in DOMAIN flagCalls : i = 1 \/
         (i - 1 \in DOMAIN Tail(flagCalls) /\ Tail(flagCalls)[i - 1] = flagCalls[i])
    BY <1>2
<1>4. \A i \in DOMAIN Tail(flagCalls) : Tail(flagCalls)[i].id \in DOMAIN replies
    BY <1>1, <1>2
<1>5. Head(flagCalls) \in FlagCall
    BY <1>1, <1>2
<1>6. ASSUME NEW i \in DOMAIN flagCalls, flagCalls[i].link
      PROVE  \/ Head(flagCalls).link
             \/ \E k \in DOMAIN Tail(flagCalls) : Tail(flagCalls)[k].link
    BY <1>2, <1>3, <1>6, Zenon
<1>. QED BY <1>1, <1>2, <1>4, <1>5, <1>6

--------------------------------------------------------------------------------
(* Types.                                                                   *)

\* What a new call leaves of the types, if the rest of the step keeps its own.
LEMMA NewCallTypes ==
    ASSUME FRTypes, NEW link \in BOOLEAN, NEW tell \in BOOLEAN, CallFlagsAsync(link, tell),
           Len(replies) < MaxReloads + MaxConfigLoads, Len(replies) < MaxReloads + loads',
           context' \in 1..MaxContexts, loads' \in 0..MaxConfigLoads, told' = told,
           (configLoading' = configLoading /\ loads' = loads) \/ configLoading' = FALSE,
           knownFlags' = knownFlags \/ knownFlags' = {},
           lastOutcome' = lastOutcome \/ lastOutcome' = "cleared",
           linkOwed' \in BOOLEAN,
           UNCHANGED <<ready, flagsRequest, pendingReload, riders, replaced, forfeited>>
    PROVE  FRTypes'
<1>0. /\ flagCalls' \in Seq(FlagCall)
      /\ replies' \in Seq(0..MaxContexts) /\ askedIn' \in Seq(1..MaxContexts)
      /\ Len(replies') = Len(replies) + 1 /\ Len(askedIn') = Len(replies')
      /\ DOMAIN replies \subseteq DOMAIN replies'
      /\ \A i \in DOMAIN flagCalls' : flagCalls'[i].id \in DOMAIN replies'
    BY NewReload
<1>1. ready' \in BOOLEAN /\ configLoading' \in BOOLEAN /\ linkOwed' \in BOOLEAN
    BY Zenon DEF FRTypes, FlagReloadsTypeOK
<1>2. /\ flagsRequest' \in FlagsRequest \cup {NoFlagsRequest}
      /\ pendingReload' \in FlagCall \cup {NoCall}
      /\ knownFlags' \subseteq 1..MaxContexts
      /\ lastOutcome' \in FlagOutcomes \cup {"cleared"}
      /\ told' \in Nat /\ forfeited' \in Nat
      /\ riders' \subseteq DOMAIN replies' /\ replaced' \subseteq DOMAIN replies'
    BY <1>0 DEF FRTypes, FlagReloadsTypeOK
<1>3. FlagReloadsTypeOK'
    BY <1>0, <1>1, <1>2 DEF FlagReloadsTypeOK, FlagsRequest, FlagCall
<1>4. CallsKnown'
    BY <1>0 DEF FRTypes, CallsKnown
<1>5. Len(replies) \in Nat /\ loads' \in Nat
    BY FlagReloadsAssumption DEF FRTypes, FlagReloadsTypeOK
<1>6. Len(replies') <= MaxReloads + loads'
    BY <1>0, <1>5, FlagReloadsAssumption
<1>7. configLoading' => loads' < MaxConfigLoads
  <2>1. configLoading => loads < MaxConfigLoads
      BY DEF FRTypes, CallsCounted
  <2>. QED BY <2>1, Zenon
<1>. QED BY <1>3, <1>4, <1>6, <1>7 DEF FRTypes, CallsCounted

\* What a step without a new call has to keep of the types.
LEMMA OldCallsTypes ==
    ASSUME FRTypes, DOMAIN replies' = DOMAIN replies, replies' \in Seq(0..MaxContexts),
           UNCHANGED <<context, askedIn>>,
           flagCalls' \in Seq(FlagCall),
           \A i \in DOMAIN flagCalls' : flagCalls'[i].id \in DOMAIN replies,
           ready' \in BOOLEAN, configLoading' \in BOOLEAN, linkOwed' \in BOOLEAN,
           knownFlags' \subseteq 1..MaxContexts,
           flagsRequest' \in FlagsRequest \cup {NoFlagsRequest},
           flagsRequest' # NoFlagsRequest => flagsRequest'.call.id \in DOMAIN replies,
           pendingReload' \in FlagCall \cup {NoCall},
           pendingReload' # NoCall => pendingReload'.id \in DOMAIN replies,
           flagsRequest' = NoFlagsRequest => pendingReload' = NoCall,
           flagsRequest'.phase \in {"sent", "answered"} => flagsRequest'.reads \in 1..MaxContexts,
           riders' \subseteq DOMAIN replies, replaced' \subseteq DOMAIN replies,
           lastOutcome' \in FlagOutcomes \cup {"cleared"},
           loads' \in 0..MaxConfigLoads, loads <= loads', told' \in Nat, forfeited' \in Nat,
           configLoading' => loads' < MaxConfigLoads
    PROVE  FRTypes'
<1>1. Len(replies') = Len(replies) /\ Len(replies) \in Nat
    BY DEF FRTypes, FlagReloadsTypeOK
<1>2. FlagReloadsTypeOK'
    BY <1>1 DEF FRTypes, FlagReloadsTypeOK, FlagsRequest, FlagCall
<1>3. CallsKnown'
    BY DEF CallsKnown
<1>4. loads \in Nat /\ loads' \in Nat /\ Len(replies) <= MaxReloads + loads
    BY FlagReloadsAssumption DEF FRTypes, FlagReloadsTypeOK, CallsCounted
<1>5. Len(replies') <= MaxReloads + loads'
    BY <1>1, <1>4, FlagReloadsAssumption
<1>. QED BY <1>2, <1>3, <1>5 DEF FRTypes, CallsCounted

\* Flags are computed for contexts that have been.
LEMMA StoredFlagsTyped ==
    ASSUME FRTypes, NEW outcome \in FlagOutcomes, FlagsAnswered(outcome)
    PROVE  knownFlags' \subseteq 1..MaxContexts
<1>1. flagsRequest.reads \in 1..MaxContexts
    BY DEF FlagsAnswered, FRTypes, CallsKnown
<1>2. knownFlags \subseteq 1..MaxContexts
    BY DEF FRTypes, FlagReloadsTypeOK
<1>. QED BY <1>1, <1>2 DEF FlagsAnswered

LEMMA TypesStep == FRTypes /\ [FlagReloadsNext]_frVars => FRTypes'
<1> SUFFICES ASSUME FRTypes, [FlagReloadsNext]_frVars PROVE FRTypes'
    OBVIOUS
<1>a. /\ replies \in Seq(0..MaxContexts) /\ Len(replies) \in Nat
      /\ flagCalls \in Seq(FlagCall) /\ askedIn \in Seq(1..MaxContexts)
      /\ context \in 1..MaxContexts /\ knownFlags \subseteq 1..MaxContexts
      /\ flagsRequest \in FlagsRequest \cup {NoFlagsRequest}
      /\ pendingReload \in FlagCall \cup {NoCall}
      /\ riders \subseteq DOMAIN replies /\ replaced \subseteq DOMAIN replies
      /\ lastOutcome \in FlagOutcomes \cup {"cleared"}
      /\ loads \in 0..MaxConfigLoads /\ loads \in Nat /\ told \in Nat /\ forfeited \in Nat
      /\ Len(replies) <= MaxReloads + loads
    BY FlagReloadsAssumption DEF FRTypes, FlagReloadsTypeOK, CallsCounted
<1>b. ready \in BOOLEAN /\ configLoading \in BOOLEAN /\ linkOwed \in BOOLEAN
    BY DEF FRTypes, FlagReloadsTypeOK
<1>c. configLoading => loads < MaxConfigLoads
    BY DEF FRTypes, CallsCounted
<1>d. /\ \A i \in DOMAIN flagCalls : flagCalls[i].id \in DOMAIN replies
      /\ pendingReload # NoCall => pendingReload.id \in DOMAIN replies
      /\ flagsRequest # NoFlagsRequest => flagsRequest.call.id \in DOMAIN replies
      /\ flagsRequest = NoFlagsRequest => pendingReload = NoCall
      /\ flagsRequest.phase \in {"sent", "answered"} => flagsRequest.reads \in 1..MaxContexts
    BY DEF FRTypes, CallsKnown
<1>1. ASSUME NEW link \in BOOLEAN, ReloadFlags(link) PROVE FRTypes'
  <2>1. CallFlagsAsync(link, FALSE) /\ Len(replies) < MaxReloads + loads
        /\ UNCHANGED <<ready, context, configLoading, linkOwed, knownFlags, lastOutcome, loads,
                       told, flagsRequest, pendingReload, riders, replaced, forfeited>>
      BY <1>1 DEF ReloadFlags, MayCall
  <2>2. Len(replies) < MaxReloads + MaxConfigLoads
      BY <1>a, <2>1, FlagReloadsAssumption
  <2>3. linkOwed' \in BOOLEAN /\ configLoading' = configLoading /\ FALSE \in BOOLEAN
      BY <1>b, <2>1, Zenon
  <2>4. loads' \in 0..MaxConfigLoads /\ Len(replies) < MaxReloads + loads'
        /\ context' \in 1..MaxContexts
      BY <1>a, <2>1
  <2>. QED BY <2>1, <2>2, <2>3, <2>4, NewCallTypes
<1>2. ASSUME NEW identifies \in BOOLEAN, ChangeContext(identifies) PROVE FRTypes'
  <2>1. CallFlagsAsync(TRUE, FALSE) /\ Len(replies) < MaxReloads + loads
        /\ UNCHANGED <<ready, configLoading, knownFlags, lastOutcome, loads,
                       told, flagsRequest, pendingReload, riders, replaced, forfeited>>
      BY <1>2 DEF ChangeContext, MayCall
  <2>2. Len(replies) < MaxReloads + MaxConfigLoads
      BY <1>a, <2>1, FlagReloadsAssumption
  <2>3. linkOwed' \in BOOLEAN /\ configLoading' = configLoading
        /\ FALSE \in BOOLEAN /\ TRUE \in BOOLEAN
      BY <1>2, <2>1, Zenon DEF ChangeContext
  <2>4. loads' \in 0..MaxConfigLoads /\ Len(replies) < MaxReloads + loads'
        /\ context' \in 1..MaxContexts
      BY <1>2, <1>a, <2>1, FlagReloadsAssumption DEF ChangeContext
  <2>. QED BY <2>1, <2>2, <2>3, <2>4, NewCallTypes
<1>3. CASE ResetClient
  <2>1. CallFlagsAsync(TRUE, FALSE) /\ Len(replies) < MaxReloads + loads
        /\ knownFlags' = {} /\ lastOutcome' = "cleared"
        /\ UNCHANGED <<ready, configLoading, loads,
                       told, flagsRequest, pendingReload, riders, replaced, forfeited>>
      BY <1>3 DEF ResetClient, MayCall
  <2>2. Len(replies) < MaxReloads + MaxConfigLoads
      BY <1>a, <2>1, FlagReloadsAssumption
  <2>3. linkOwed' \in BOOLEAN /\ configLoading' = configLoading
        /\ FALSE \in BOOLEAN /\ TRUE \in BOOLEAN
      BY <1>3, <2>1, Zenon DEF ResetClient
  <2>4. loads' \in 0..MaxConfigLoads /\ Len(replies) < MaxReloads + loads'
        /\ context' \in 1..MaxContexts
      BY <1>3, <1>a, <2>1, FlagReloadsAssumption DEF ResetClient
  <2>. QED BY <2>1, <2>2, <2>3, <2>4, NewCallTypes
<1>4. CASE RemoteConfigWithFlags
  <2>1. CallFlagsAsync(TRUE, TRUE) /\ configLoading /\ configLoading' = FALSE
        /\ loads' = loads + 1
        /\ UNCHANGED <<ready, context, knownFlags, lastOutcome, linkOwed,
                       told, flagsRequest, pendingReload, riders, replaced, forfeited>>
      BY <1>4 DEF RemoteConfigWithFlags
  <2>2. loads < MaxConfigLoads
      BY <1>c, <2>1, Zenon
  <2>3. Len(replies) < MaxReloads + MaxConfigLoads /\ Len(replies) < MaxReloads + loads'
        /\ loads' \in 0..MaxConfigLoads /\ context' \in 1..MaxContexts
      BY <1>a, <2>1, <2>2, FlagReloadsAssumption
  <2>4. linkOwed' \in BOOLEAN /\ TRUE \in BOOLEAN
      BY <1>b, <2>1, Zenon
  <2>. QED BY <2>1, <2>3, <2>4, NewCallTypes
<1>5. CASE EnterFlagsAsync
  <2>1. Head(flagCalls) \in FlagCall /\ Head(flagCalls).id \in DOMAIN replies
        /\ Tail(flagCalls) \in Seq(FlagCall)
        /\ \A i \in DOMAIN Tail(flagCalls) : Tail(flagCalls)[i].id \in DOMAIN replies
      BY <1>5, FirstCall DEF EnterFlagsAsync
  <2>2. flagCalls' = Tail(flagCalls)
        /\ UNCHANGED <<ready, context, knownFlags, configLoading, replies, askedIn,
                       lastOutcome, linkOwed, loads, told>>
      BY <1>5 DEF EnterFlagsAsync
  <2>3. ready' \in BOOLEAN /\ configLoading' \in BOOLEAN /\ linkOwed' \in BOOLEAN
        /\ (configLoading' => loads' < MaxConfigLoads)
      BY <1>b, <1>c, <2>2, Zenon
  <2>4. CASE StartFlagsRequest
    <3>1. flagsRequest' \in FlagsRequest /\ flagsRequest'.call = Head(flagCalls)
          /\ flagsRequest' # NoFlagsRequest /\ flagsRequest'.phase = "starting"
        BY <2>1, <2>4, FlagReloadsAssumption
           DEF StartFlagsRequest, FlagsRequest, NoFlagsRequest
    <3>2. UNCHANGED <<pendingReload, riders, replaced, forfeited>>
        BY <2>4 DEF StartFlagsRequest
    <3>. QED BY <1>a, <1>d, <2>1, <2>2, <2>3, <3>1, <3>2, OldCallsTypes
  <2>5. CASE QueueReload
    <3>1. pendingReload' = Head(flagCalls) /\ flagsRequest # NoFlagsRequest
          /\ UNCHANGED flagsRequest
        BY <2>5 DEF QueueReload
    <3>2. riders' \subseteq DOMAIN replies /\ replaced' \subseteq DOMAIN replies
          /\ forfeited' \in Nat
        BY <1>a, <1>d, <2>5 DEF QueueReload
    <3>. QED BY <1>a, <1>d, <2>1, <2>2, <2>3, <3>1, <3>2, OldCallsTypes
  <2>. QED BY <1>5, <2>4, <2>5, Zenon DEF EnterFlagsAsync
<1>6. CASE SendFlagsRequest
  <2>1. flagsRequest \in FlagsRequest
      BY <1>6, <1>a DEF SendFlagsRequest, NoFlagsRequest
  <2>2. flagsRequest' \in FlagsRequest /\ flagsRequest'.call = flagsRequest.call
        /\ flagsRequest' # NoFlagsRequest /\ flagsRequest # NoFlagsRequest
        /\ flagsRequest'.reads = context
    <3>1. context \in 0..MaxContexts
        BY <1>a
    <3>2. flagsRequest' = [call |-> flagsRequest.call, reads |-> context, phase |-> "sent"]
        BY <1>6, <2>1 DEF SendFlagsRequest, FlagsRequest
    <3>3. flagsRequest.call \in FlagCall /\ flagsRequest.phase = "starting"
        BY <1>6, <2>1 DEF SendFlagsRequest, FlagsRequest
    <3>. QED BY <2>1, <3>1, <3>2, <3>3 DEF FlagsRequest, NoFlagsRequest
  <2>3. ready' \in BOOLEAN /\ configLoading' \in BOOLEAN /\ linkOwed' \in BOOLEAN
        /\ (configLoading' => loads < MaxConfigLoads)
      BY <1>6, <1>b, <1>c, Zenon DEF SendFlagsRequest
  <2>4. UNCHANGED <<context, knownFlags, flagCalls, pendingReload, riders,
                    replies, askedIn, replaced, lastOutcome, loads, told, forfeited>>
      BY <1>6 DEF SendFlagsRequest
  <2>. QED BY <1>a, <1>d, <2>2, <2>3, <2>4, OldCallsTypes
<1>7. ASSUME NEW outcome \in FlagOutcomes, FlagsAnswered(outcome) PROVE FRTypes'
  <2>1. flagsRequest \in FlagsRequest
      BY <1>7, <1>a DEF FlagsAnswered, NoFlagsRequest
  <2>2. flagsRequest' \in FlagsRequest /\ flagsRequest'.call = flagsRequest.call
        /\ flagsRequest' # NoFlagsRequest /\ flagsRequest # NoFlagsRequest
        /\ flagsRequest'.reads = flagsRequest.reads /\ flagsRequest.phase = "sent"
      BY <1>7, <2>1 DEF FlagsAnswered, FlagsRequest, NoFlagsRequest
  <2>3. ready' \in BOOLEAN /\ configLoading' \in BOOLEAN /\ linkOwed' \in BOOLEAN
        /\ (configLoading' => loads < MaxConfigLoads)
      BY <1>7, <1>b, <1>c, Zenon DEF FlagsAnswered
  <2>4. UNCHANGED <<context, flagCalls, pendingReload, riders,
                    replies, askedIn, replaced, loads>>
        /\ lastOutcome' = outcome
      BY <1>7 DEF FlagsAnswered
  <2>5. told' \in Nat /\ forfeited' \in Nat
      BY <1>7, <1>a DEF FlagsAnswered, TellOnce
  <2>. QED BY <1>a, <1>d, <2>2, <2>3, <2>4, <2>5, StoredFlagsTyped, OldCallsTypes, <1>7
<1>8. CASE SettleFlagsRequest
  <2>1. flagsRequest \in FlagsRequest /\ flagsRequest # NoFlagsRequest
      BY <1>8, <1>a DEF SettleFlagsRequest, NoFlagsRequest
  <2>2. DOMAIN replies' = DOMAIN replies /\ replies' \in Seq(0..MaxContexts)
    <3>1. DOMAIN replies = 1..Len(replies) /\ Len(replies) \in Nat
          /\ \A id \in 1..Len(replies) : replies[id] \in 0..MaxContexts
        BY <1>a, ElementOfSeq, LenProperties
    <3>2. flagsRequest.reads \in 0..MaxContexts
        BY <2>1 DEF FlagsRequest
    <3>3. DOMAIN replies' = 1..Len(replies)
          /\ replies' \in [1..Len(replies) -> 0..MaxContexts]
        BY <1>8, <3>1, <3>2 DEF SettleFlagsRequest
    <3>4. replies' \in Seq(0..MaxContexts)
        BY <3>1, <3>3, SeqDef, Zenon
    <3>. QED BY <3>1, <3>3, <3>4
  <2>3. flagCalls' \in Seq(FlagCall)
        /\ \A i \in DOMAIN flagCalls' : flagCalls'[i].id \in DOMAIN replies
    <3>1. CASE pendingReload = NoCall
        BY <1>8, <1>a, <1>d, <3>1 DEF SettleFlagsRequest
    <3>2. CASE pendingReload # NoCall
      <4>1. pendingReload \in FlagCall /\ flagCalls' = Append(flagCalls, pendingReload)
          BY <1>8, <1>a, <3>2 DEF SettleFlagsRequest
      <4>. QED BY <1>a, <1>d, <3>2, <4>1
    <3>. QED BY <3>1, <3>2
  <2>4. ready' \in BOOLEAN /\ configLoading' \in BOOLEAN /\ linkOwed' \in BOOLEAN
        /\ (configLoading' => loads < MaxConfigLoads)
      BY <1>8, <1>b, <1>c, Zenon DEF SettleFlagsRequest
  <2>5. flagsRequest' = NoFlagsRequest /\ pendingReload' = NoCall /\ riders' = {}
        /\ NoFlagsRequest.phase = "none"
        /\ UNCHANGED <<context, knownFlags, askedIn, replaced, lastOutcome, loads, told,
                       forfeited>>
      BY <1>8 DEF SettleFlagsRequest, NoFlagsRequest
  <2>. QED BY <1>a, <2>2, <2>3, <2>4, <2>5, OldCallsTypes
<1>9. CASE InitSettles \/ LoadRemoteConfig \/ RemoteConfigFails
           \/ (\E hasFlags \in BOOLEAN : RemoteConfigAlone(hasFlags))
  <2>1. /\ ready' \in BOOLEAN /\ configLoading' \in BOOLEAN /\ linkOwed' \in BOOLEAN
        /\ configLoading' => loads' = loads /\ loads < MaxConfigLoads
    <3>1. CASE InitSettles
        BY <3>1, <1>b, <1>c, Zenon DEF InitSettles
    <3>2. CASE LoadRemoteConfig
        BY <3>2, <1>b, Zenon DEF LoadRemoteConfig
    <3>3. CASE RemoteConfigFails \/ \E hasFlags \in BOOLEAN : RemoteConfigAlone(hasFlags)
        BY <3>3, <1>b, Zenon DEF RemoteConfigFails, RemoteConfigAlone
    <3>. QED BY <1>9, <3>1, <3>2, <3>3
  <2>2. loads' = loads \/ (configLoading /\ loads' = loads + 1)
      BY <1>9, Zenon DEF InitSettles, LoadRemoteConfig, RemoteConfigFails, RemoteConfigAlone
  <2>3. loads' \in 0..MaxConfigLoads /\ loads <= loads'
      BY <1>a, <1>c, <2>2, FlagReloadsAssumption
  <2>4. UNCHANGED <<context, flagCalls, flagsRequest, pendingReload, riders, replies, askedIn,
                    replaced, forfeited>>
        /\ \/ UNCHANGED <<knownFlags, lastOutcome>>
           \/ knownFlags' = {} /\ lastOutcome' = "cleared"
        /\ (told' = told \/ told' = told + 1)
      BY <1>9 DEF InitSettles, LoadRemoteConfig, RemoteConfigFails, RemoteConfigAlone
  <2>5. told' \in Nat
      BY <1>a, <2>4
  <2>. QED BY <1>a, <1>d, <2>1, <2>3, <2>4, <2>5, OldCallsTypes
<1>10. CASE UNCHANGED frVars
  <2>1. ready' \in BOOLEAN /\ configLoading' \in BOOLEAN /\ linkOwed' \in BOOLEAN
        /\ (configLoading' => loads < MaxConfigLoads)
      BY <1>10, <1>b, <1>c, Zenon DEF frVars
  <2>. QED BY <1>10, <1>a, <1>d, <2>1, OldCallsTypes DEF frVars
<1>. QED
    BY <1>1, <1>2, <1>3, <1>4, <1>5, <1>6, <1>7, <1>8, <1>9, <1>10, Zenon
    DEF FlagReloadsNext, FlagReloadsStep

--------------------------------------------------------------------------------
(* Answers, contexts and links.                                             *)

ServedInv == AnswersAreFresh /\ RequestIsFresh /\ NoContextIsMissed /\ LinkWaits

LEMMA ReloadAskTyped ==
    ASSUME FRTypes
    PROVE  /\ DOMAIN askedIn = DOMAIN replies /\ context \in Nat
           /\ \A id \in DOMAIN askedIn : askedIn[id] \in Nat
BY LenProperties, ElementOfSeq, FlagReloadsAssumption DEF FRTypes, FlagReloadsTypeOK

\* A new call misses nothing, and carries the link if it may.
LEMMA NewCallServes ==
    ASSUME FRTypes, ServedInv,
           NEW link \in BOOLEAN, NEW tell \in BOOLEAN, CallFlagsAsync(link, tell),
           Len(replies) < MaxReloads + MaxConfigLoads, context' \in 1..MaxContexts,
           context <= context',
           link \/ (linkOwed' => linkOwed),
           UNCHANGED <<flagsRequest, pendingReload, riders, replaced>>
    PROVE  ServedInv'
<1>0. /\ flagCalls' # <<>>
      /\ Len(replies') = Len(replies) + 1 /\ Len(askedIn') = Len(replies')
      /\ replies' \in Seq(0..MaxContexts) /\ askedIn' \in Seq(1..MaxContexts)
      /\ \A id \in DOMAIN replies :
            /\ id \in DOMAIN replies' /\ replies'[id] = replies[id]
            /\ askedIn'[id] = askedIn[id]
      /\ \A id \in DOMAIN replies' \ DOMAIN replies :
            replies'[id] = 0 /\ askedIn'[id] = context'
      /\ \A i \in DOMAIN flagCalls :
            i \in DOMAIN flagCalls' /\ flagCalls'[i] = flagCalls[i]
      /\ link => \E i \in DOMAIN flagCalls' : flagCalls'[i].link
    BY NewReload
<1>1. /\ DOMAIN askedIn = DOMAIN replies /\ DOMAIN askedIn' = DOMAIN replies'
      /\ context \in Nat /\ context' \in Nat
      /\ \A id \in DOMAIN askedIn : askedIn[id] \in Nat
  <2>1. DOMAIN askedIn' = 1..Len(askedIn') /\ DOMAIN replies' = 1..Len(replies')
      BY <1>0, LenProperties
  <2>2. context' \in Nat
      BY FlagReloadsAssumption
  <2>. QED BY <1>0, <2>1, <2>2, ReloadAskTyped
<1>2. AnswersAreFresh'
    BY <1>0 DEF ServedInv, AnswersAreFresh
<1>3. RequestIsFresh'
  <2>1. \A id \in DOMAIN askedIn' : askedIn'[id] <= context'
      BY <1>0, <1>1 DEF ServedInv, RequestIsFresh
  <2>2. flagsRequest.phase \in {"sent", "answered"} => flagsRequest.call.id \in DOMAIN replies
      BY DEF FRTypes, CallsKnown, NoFlagsRequest
  <2>. QED BY <1>0, <2>1, <2>2 DEF ServedInv, RequestIsFresh
<1>4. NoContextIsMissed'
    BY <1>0 DEF NoContextIsMissed, Coming
<1>5. LinkWaits'
  <2>1. CASE link
      BY <1>0, <2>1, Zenon DEF LinkWaits
  <2>2. CASE linkOwed' => linkOwed
    <3>1. (\E i \in DOMAIN flagCalls : flagCalls[i].link)
              => \E i \in DOMAIN flagCalls' : flagCalls'[i].link
        BY <1>0, Zenon
    <3>2. pendingReload' = pendingReload /\ flagsRequest' = flagsRequest
          /\ replaced' = replaced
        OBVIOUS
    <3>. QED BY <2>2, <3>1, <3>2, Zenon DEF ServedInv, LinkWaits
  <2>. QED BY <2>1, <2>2, Zenon
<1>. QED BY <1>2, <1>3, <1>4, <1>5 DEF ServedInv

\* A call enters flagsAsync: it becomes the request, or takes the slot.
LEMMA EnterServes == ASSUME FRTypes, ServedInv, EnterFlagsAsync PROVE ServedInv'
<1>0. /\ Head(flagCalls) \in FlagCall /\ Head(flagCalls) # NoCall
      /\ (\E i \in DOMAIN flagCalls : flagCalls[i].link)
             => Head(flagCalls).link
                \/ \E i \in DOMAIN Tail(flagCalls) : Tail(flagCalls)[i].link
    BY FirstCall, CallsAreNotNoCall DEF EnterFlagsAsync
<1>1. /\ flagCalls' = Tail(flagCalls)
      /\ UNCHANGED <<context, knownFlags, replies, askedIn, lastOutcome, linkOwed>>
    BY DEF EnterFlagsAsync
<1>2. CASE StartFlagsRequest
  <2>1. /\ flagsRequest' = [call |-> Head(flagCalls), reads |-> 0, phase |-> "starting"]
        /\ flagsRequest'.phase = "starting" /\ flagsRequest'.call = Head(flagCalls)
        /\ UNCHANGED <<pendingReload, riders, replaced>>
      BY <1>2 DEF StartFlagsRequest
  <2>2. AnswersAreFresh' /\ RequestIsFresh' /\ NoContextIsMissed'
      BY <1>1, <2>1 DEF ServedInv, AnswersAreFresh, RequestIsFresh, NoContextIsMissed, Coming
  <2>3. flagsRequest.phase = "none"
      BY <1>2 DEF StartFlagsRequest, NoFlagsRequest
  <2>4. LinkWaits'
      BY <1>0, <1>1, <2>1, <2>3, Zenon DEF ServedInv, LinkWaits
  <2>. QED BY <2>2, <2>4 DEF ServedInv
<1>3. CASE QueueReload
  <2>1. /\ pendingReload' = Head(flagCalls) /\ flagsRequest' = flagsRequest
        /\ replaced \subseteq replaced'
        /\ pendingReload = NoCall \/ replaced' # {}
        /\ riders' \subseteq replaced'
      BY <1>3 DEF QueueReload, ServedInv, RequestIsFresh
  <2>2. AnswersAreFresh' /\ RequestIsFresh' /\ NoContextIsMissed'
      BY <1>0, <1>1, <2>1
         DEF ServedInv, AnswersAreFresh, RequestIsFresh, NoContextIsMissed, Coming
  <2>3. LinkWaits'
    <3>1. SUFFICES ASSUME replaced' = {} PROVE LinkWaits'
        BY Zenon DEF LinkWaits
    <3>2. ~NoCall.link
        BY Zenon DEF NoCall
    <3>3. pendingReload = NoCall /\ replaced = {}
        BY <2>1, <3>1
    <3>. QED BY <1>0, <1>1, <2>1, <3>2, <3>3, Zenon DEF ServedInv, LinkWaits
  <2>. QED BY <2>2, <2>3 DEF ServedInv
<1>. QED BY <1>2, <1>3, Zenon DEF EnterFlagsAsync

\* The request is sent for the context of this moment.
LEMMA SendServes == ASSUME FRTypes, ServedInv, SendFlagsRequest PROVE ServedInv'
<1>1. /\ flagsRequest \in FlagsRequest /\ flagsRequest.call.id \in DOMAIN replies
      /\ flagsRequest.phase = "starting"
    BY DEF SendFlagsRequest, FRTypes, FlagReloadsTypeOK, CallsKnown, NoFlagsRequest
<1>2. /\ flagsRequest'.call = flagsRequest.call /\ flagsRequest'.reads = context
      /\ flagsRequest'.phase = "sent"
    BY <1>1 DEF SendFlagsRequest, FlagsRequest
<1>3. UNCHANGED <<context, knownFlags, flagCalls, pendingReload, riders, replies, askedIn,
                  replaced, lastOutcome>>
    BY DEF SendFlagsRequest
<1>4. DOMAIN askedIn = DOMAIN replies /\ context \in Nat
      /\ \A id \in DOMAIN askedIn : askedIn[id] \in Nat
    BY ReloadAskTyped
<1>5. AnswersAreFresh'
    BY <1>3 DEF ServedInv, AnswersAreFresh
<1>6. RequestIsFresh'
  <2>1. context >= askedIn[flagsRequest.call.id]
      BY <1>1, <1>4 DEF ServedInv, RequestIsFresh
  <2>. QED BY <1>2, <1>3, <2>1 DEF ServedInv, RequestIsFresh
<1>7. NoContextIsMissed'
    BY <1>2, <1>3 DEF NoContextIsMissed
<1>8. LinkWaits'
  <2>1. linkOwed' => linkOwed /\ ~flagsRequest.call.link
      BY Zenon DEF SendFlagsRequest
  <2>. QED BY <1>3, <2>1, Zenon DEF ServedInv, LinkWaits
<1>. QED BY <1>5, <1>6, <1>7, <1>8 DEF ServedInv

\* An answer is of the context that its request has read.
LEMMA AnswerServes ==
    ASSUME FRTypes, ServedInv, NEW outcome \in FlagOutcomes, FlagsAnswered(outcome)
    PROVE  ServedInv'
<1>1. flagsRequest \in FlagsRequest /\ flagsRequest.phase = "sent"
    BY DEF FlagsAnswered, FRTypes, FlagReloadsTypeOK, NoFlagsRequest
<1>2. /\ flagsRequest'.call = flagsRequest.call /\ flagsRequest'.reads = flagsRequest.reads
      /\ flagsRequest'.phase = "answered"
    BY <1>1 DEF FlagsAnswered, FlagsRequest
<1>3. UNCHANGED <<context, flagCalls, pendingReload, riders, replies, askedIn, replaced,
                  linkOwed>>
      /\ lastOutcome' = outcome
    BY DEF FlagsAnswered
<1>4. AnswersAreFresh' /\ RequestIsFresh'
    BY <1>1, <1>2, <1>3 DEF ServedInv, AnswersAreFresh, RequestIsFresh
<1>5. NoContextIsMissed'
  <2>1. Coming => Coming'
      BY <1>1, <1>3 DEF Coming
  <2>2. CASE flagsRequest.reads = context
    <3>1. outcome = "complete" => knownFlags' = {context}
        BY <2>2 DEF FlagsAnswered
    <3>. QED BY <1>2, <1>3, <3>1 DEF NoContextIsMissed
  <2>. QED BY <1>1, <2>1, <2>2 DEF ServedInv, NoContextIsMissed
<1>6. LinkWaits'
    BY <1>1, <1>2, <1>3, Zenon DEF ServedInv, LinkWaits
<1>. QED BY <1>4, <1>5, <1>6 DEF ServedInv

\* The end of a request answers its callers and makes the pending reload a call.
LEMMA SettleServes == ASSUME FRTypes, ServedInv, SettleFlagsRequest PROVE ServedInv'
<1>1. /\ flagsRequest \in FlagsRequest /\ flagsRequest.phase = "answered"
      /\ flagsRequest.call.id \in DOMAIN replies
    BY DEF SettleFlagsRequest, FRTypes, FlagReloadsTypeOK, CallsKnown, NoFlagsRequest
<1>2. /\ flagsRequest'.phase = "none" /\ ~pendingReload'.link
      /\ riders' = {} /\ UNCHANGED <<context, knownFlags, askedIn, replaced, lastOutcome>>
    BY DEF SettleFlagsRequest, NoFlagsRequest, NoCall
<1>3. linkOwed' = linkOwed
    BY DEF SettleFlagsRequest
<1>4. AnswersAreFresh'
    BY <1>1 DEF SettleFlagsRequest, ServedInv, AnswersAreFresh, RequestIsFresh
<1>5. RequestIsFresh'
    BY <1>2 DEF ServedInv, RequestIsFresh
<1>6. pendingReload \in FlagCall \cup {NoCall} /\ flagCalls \in Seq(FlagCall)
    BY DEF FRTypes, FlagReloadsTypeOK
<1>7. CASE pendingReload = NoCall
  <2>1. flagCalls' = flagCalls
      BY <1>7 DEF SettleFlagsRequest
  <2>2. NoContextIsMissed'
      BY <1>1, <1>2, <1>7, <2>1 DEF ServedInv, NoContextIsMissed, Coming
  <2>3. ~NoCall.link
      BY DEF NoCall
  <2>4. LinkWaits'
      BY <1>1, <1>2, <1>3, <1>7, <2>1, <2>3, Zenon DEF ServedInv, LinkWaits
  <2>. QED BY <1>4, <1>5, <2>2, <2>4 DEF ServedInv
<1>8. CASE pendingReload # NoCall
  <2>1. /\ flagCalls' = Append(flagCalls, pendingReload) /\ pendingReload \in FlagCall
      BY <1>6, <1>8 DEF SettleFlagsRequest
  <2>2. /\ Len(flagCalls) + 1 \in DOMAIN flagCalls' /\ flagCalls' # <<>>
        /\ flagCalls'[Len(flagCalls) + 1] = pendingReload
        /\ \A i \in DOMAIN flagCalls : i \in DOMAIN flagCalls' /\ flagCalls'[i] = flagCalls[i]
      BY <1>6, <2>1
  <2>3. NoContextIsMissed'
      BY <2>2 DEF NoContextIsMissed, Coming
  <2>4. LinkWaits'
      BY <1>1, <1>2, <1>3, <2>2, Zenon DEF ServedInv, LinkWaits
  <2>. QED BY <1>4, <1>5, <2>3, <2>4 DEF ServedInv
<1>. QED BY <1>7, <1>8

\* Steps that touch neither calls nor requests.
LEMMA OthersServe ==
    ASSUME ServedInv,
           UNCHANGED <<context, flagCalls, flagsRequest, pendingReload, riders, replies,
                       askedIn, replaced, linkOwed>>,
           UNCHANGED <<knownFlags, lastOutcome>> \/ lastOutcome' = "cleared"
    PROVE  ServedInv'
<1>1. AnswersAreFresh' /\ RequestIsFresh'
    BY DEF ServedInv, AnswersAreFresh, RequestIsFresh
<1>2. NoContextIsMissed'
    BY DEF ServedInv, NoContextIsMissed, Coming
<1>3. LinkWaits'
    BY Zenon DEF ServedInv, LinkWaits
<1>. QED BY <1>1, <1>2, <1>3 DEF ServedInv

LEMMA ServedStep == FRTypes /\ ServedInv /\ [FlagReloadsNext]_frVars => ServedInv'
<1> SUFFICES ASSUME FRTypes, ServedInv, [FlagReloadsNext]_frVars PROVE ServedInv'
    OBVIOUS
<1>a. /\ Len(replies) \in Nat /\ Len(replies) <= MaxReloads + loads
      /\ loads \in 0..MaxConfigLoads /\ context \in 1..MaxContexts
      /\ configLoading => loads < MaxConfigLoads
    BY DEF FRTypes, FlagReloadsTypeOK, CallsCounted
<1>b. TRUE \in BOOLEAN /\ FALSE \in BOOLEAN
    OBVIOUS
<1>1. ASSUME NEW link \in BOOLEAN, ReloadFlags(link) PROVE ServedInv'
  <2>1. CallFlagsAsync(link, FALSE) /\ Len(replies) < MaxReloads + loads
        /\ UNCHANGED <<context, linkOwed, flagsRequest, pendingReload, riders, replaced>>
      BY <1>1 DEF ReloadFlags, MayCall
  <2>2. Len(replies) < MaxReloads + MaxConfigLoads
        /\ context' \in 1..MaxContexts /\ context <= context'
      BY <1>a, <2>1, FlagReloadsAssumption
  <2>3. linkOwed' => linkOwed
      BY <2>1, Zenon
  <2>. QED BY <1>b, <2>1, <2>2, <2>3, NewCallServes
<1>2. ASSUME CallFlagsAsync(TRUE, FALSE), Len(replies) < MaxReloads + loads,
             context < MaxContexts, context' = context + 1,
             UNCHANGED <<flagsRequest, pendingReload, riders, replaced>>
      PROVE  ServedInv'
  <2>1. Len(replies) < MaxReloads + MaxConfigLoads
        /\ context' \in 1..MaxContexts /\ context <= context'
      BY <1>a, <1>2, FlagReloadsAssumption
  <2>. QED BY <1>b, <1>2, <2>1, NewCallServes
<1>3. ASSUME NEW identifies \in BOOLEAN, ChangeContext(identifies) PROVE ServedInv'
    BY <1>2, <1>3 DEF ChangeContext, MayCall
<1>4. CASE ResetClient
    BY <1>2, <1>4 DEF ResetClient, MayCall
<1>5. CASE RemoteConfigWithFlags
  <2>1. CallFlagsAsync(TRUE, TRUE) /\ configLoading
        /\ UNCHANGED <<context, flagsRequest, pendingReload, riders, replaced>>
      BY <1>5 DEF RemoteConfigWithFlags
  <2>2. loads < MaxConfigLoads
      BY <1>a, <2>1, Zenon
  <2>3. Len(replies) < MaxReloads + MaxConfigLoads
        /\ context' \in 1..MaxContexts /\ context <= context'
      BY <1>a, <2>1, <2>2, FlagReloadsAssumption
  <2>. QED BY <1>b, <2>1, <2>3, NewCallServes
<1>6. ASSUME \/ InitSettles \/ LoadRemoteConfig \/ RemoteConfigFails
             \/ \E hasFlags \in BOOLEAN : RemoteConfigAlone(hasFlags)
             \/ UNCHANGED frVars
      PROVE  ServedInv'
    BY <1>6, OthersServe
       DEF InitSettles, LoadRemoteConfig, RemoteConfigFails, RemoteConfigAlone, frVars
<1>. QED
    BY <1>1, <1>3, <1>4, <1>5, <1>6, EnterServes, SendServes, AnswerServes, SettleServes, Zenon
    DEF FlagReloadsNext, FlagReloadsStep

--------------------------------------------------------------------------------
(* The theorem.                                                             *)

FRInv == FRTypes /\ ServedInv

LEMMA FRInit == FlagReloadsInit => FRInv
<1> SUFFICES ASSUME FlagReloadsInit PROVE FRInv
    OBVIOUS
<1>1. ready \in BOOLEAN /\ configLoading \in BOOLEAN /\ linkOwed \in BOOLEAN
      /\ ~configLoading /\ ~linkOwed
    BY Zenon DEF FlagReloadsInit
<1>2. /\ context = 1 /\ knownFlags = {} /\ lastOutcome = "cleared" /\ flagCalls = <<>>
      /\ flagsRequest = NoFlagsRequest /\ pendingReload = NoCall /\ riders = {}
      /\ replaced = {} /\ replies = <<>> /\ askedIn = <<>> /\ loads = 0 /\ told = 0
      /\ forfeited = 0
    BY DEF FlagReloadsInit
<1>3. FlagReloadsTypeOK
    BY <1>1, <1>2, FlagReloadsAssumption DEF FlagReloadsTypeOK
<1>4. CallsCounted /\ CallsKnown
  <2>1. Len(replies) <= MaxReloads + loads
      BY <1>2, FlagReloadsAssumption
  <2>2. CallsCounted
      BY <1>1, <2>1, Zenon DEF CallsCounted
  <2>3. CallsKnown
      BY <1>2 DEF CallsKnown, NoFlagsRequest
  <2>. QED BY <2>2, <2>3
<1>5. AnswersAreFresh /\ RequestIsFresh /\ NoContextIsMissed
    BY <1>2 DEF AnswersAreFresh, RequestIsFresh, NoContextIsMissed, NoFlagsRequest
<1>6. LinkWaits
    BY <1>1, Zenon DEF LinkWaits
<1>. QED BY <1>3, <1>4, <1>5, <1>6 DEF FRInv, FRTypes, ServedInv

LEMMA FRImplies == FRInv => ReloadsAreServed
<1> SUFFICES ASSUME FRInv PROVE ReloadsAreServed
    OBVIOUS
<1>1. ASSUME FlagsAtRest
      PROVE  ~Coming /\ flagsRequest.phase = "none" /\ flagCalls = <<>> /\ pendingReload = NoCall
    BY <1>1 DEF FlagsAtRest, FRInv, FRTypes, CallsKnown, NoFlagsRequest, Coming
<1>2. FlagsFollowContext
    BY <1>1 DEF FlagsFollowContext, FRInv, ServedInv, NoContextIsMissed
<1>3. LinkIsSent
  <2>1. ~NoCall.link /\ DOMAIN <<>> = {}
      BY DEF NoCall
  <2>2. ASSUME FlagsAtRest, linkOwed PROVE replaced # {}
    <3>1. \A i \in DOMAIN flagCalls : FALSE
        BY <1>1, <2>1, <2>2
    <3>2. flagsRequest.phase # "starting"
        BY <1>1, <2>2
    <3>. QED BY <1>1, <2>1, <2>2, <3>1, <3>2, Zenon DEF FRInv, ServedInv, LinkWaits
  <2>. QED BY <2>2, Zenon DEF LinkIsSent
<1>. QED BY <1>2, <1>3 DEF ReloadsAreServed, FRInv, ServedInv

\* The fields stay within their types, and calls are numbered (posthog-core.ts:641-667).
THEOREM FlagReloadsTypes == FlagReloadsSpec => []FlagReloadsTypeOK
<1>1. FlagReloadsInit => FRTypes
    BY FRInit DEF FRInv
<1>2. FRTypes => FlagReloadsTypeOK
    BY DEF FRTypes
<1>. QED BY <1>1, <1>2, TypesStep, PTL DEF FlagReloadsSpec

\* Calls of flagsAsync that share the slot for a pending reload lose nothing but what
\* the slot itself gives up: the flags come to those of the current context, answers are
\* no older than their calls, and an owed link goes out, for any number of contexts and
\* calls (posthog-core.ts:652-667 and 899-917).
THEOREM ReloadsServedAlways == FlagReloadsSpec => []ReloadsAreServed
<1>1. FRInv /\ [FlagReloadsNext]_frVars => FRInv'
    BY TypesStep, ServedStep DEF FRInv
<1>. QED BY <1>1, FRInit, FRImplies, PTL DEF FlagReloadsSpec

--------------------------------------------------------------------------------
(* No caller is left without an answer.                                     *)

\* Who serves a call: it awaits _initPromise, has the slot, is in flight, or rides along.
CallIsHeld(id) ==
    \/ \E i \in DOMAIN flagCalls : flagCalls[i].id = id
    \/ pendingReload.id = id
    \/ flagsRequest.call.id = id
    \/ id \in riders

\* The slot and those who ride along are there only behind a request.
UnansweredAreHeld ==
    /\ \A id \in DOMAIN replies : replies[id] = 0 => CallIsHeld(id)
    /\ riders # {} \/ pendingReload # NoCall => flagsRequest # NoFlagsRequest

\* At rest every caller has its answer.
CallersAreServed ==
    UnansweredAreHeld /\ (FlagsAtRest => \A id \in DOMAIN replies : replies[id] # 0)

\* A new call is the last that awaits.
LEMMA NewCallHeld ==
    ASSUME FRTypes, UnansweredAreHeld, NEW link, NEW tell, CallFlagsAsync(link, tell),
           UNCHANGED <<flagsRequest, pendingReload, riders>>
    PROVE  UnansweredAreHeld'
<1>. DEFINE new == [id |-> Len(replies) + 1, link |-> link, tell |-> tell]
<1>1. flagCalls \in Seq(FlagCall) /\ replies \in Seq(0..MaxContexts)
    BY DEF FRTypes, FlagReloadsTypeOK
<1>2. flagCalls' = Append(flagCalls, new) /\ replies' = Append(replies, 0)
    BY DEF CallFlagsAsync
<1>3. new.id = Len(replies) + 1
    OBVIOUS
<1>. HIDE DEF new
<1>4. /\ \A i \in DOMAIN flagCalls : i \in DOMAIN flagCalls' /\ flagCalls'[i] = flagCalls[i]
      /\ Len(flagCalls) + 1 \in DOMAIN flagCalls' /\ flagCalls'[Len(flagCalls) + 1] = new
    BY <1>1, <1>2, AppendProperties
<1>5. \A id \in DOMAIN replies' :
          id = Len(replies) + 1 \/ (id \in DOMAIN replies /\ replies'[id] = replies[id])
    BY <1>1, <1>2, AppendProperties
<1>6. ASSUME NEW id \in DOMAIN replies', replies'[id] = 0 PROVE CallIsHeld(id)'
  <2>1. CASE id = Len(replies) + 1
      BY <1>3, <1>4, <2>1 DEF CallIsHeld
  <2>2. CASE id \in DOMAIN replies /\ replies[id] = 0
    <3>1. CallIsHeld(id)
        BY <2>2 DEF UnansweredAreHeld
    <3>. QED BY <1>4, <3>1, Zenon DEF CallIsHeld
  <2>. QED BY <1>5, <1>6, <2>1, <2>2
<1>. QED BY <1>6 DEF UnansweredAreHeld

\* A call that enters is in flight, or has the slot, whose last holder rides along.
LEMMA EnterHeld == ASSUME FRTypes, UnansweredAreHeld, EnterFlagsAsync PROVE UnansweredAreHeld'
<1>1. /\ flagCalls \in Seq(FlagCall) /\ flagCalls # <<>> /\ flagCalls' = Tail(flagCalls)
      /\ UNCHANGED replies
    BY DEF EnterFlagsAsync, FRTypes, FlagReloadsTypeOK
<1>2. ASSUME NEW id, \E i \in DOMAIN flagCalls : flagCalls[i].id = id
      PROVE  Head(flagCalls).id = id \/ \E i \in DOMAIN flagCalls' : flagCalls'[i].id = id
  <2>1. PICK i \in DOMAIN flagCalls : flagCalls[i].id = id
      BY <1>2
  <2>2. CASE i = 1
      BY <1>1, <2>1, <2>2
  <2>3. CASE i # 1
    <3>1. i - 1 \in DOMAIN flagCalls' /\ flagCalls'[i - 1] = flagCalls[i]
        BY <1>1, <2>3
    <3>. QED BY <2>1, <3>1
  <2>. QED BY <2>2, <2>3
<1>3. CASE StartFlagsRequest
  <2>1. /\ flagsRequest'.call = Head(flagCalls) /\ flagsRequest' # NoFlagsRequest
        /\ flagsRequest.call = NoCall /\ UNCHANGED <<pendingReload, riders>>
      BY <1>3 DEF StartFlagsRequest, NoFlagsRequest
  <2>2. NoCall.id = 0 /\ \A id \in DOMAIN replies : id # 0
      BY DEF NoCall, FRTypes, FlagReloadsTypeOK
  <2>3. ASSUME NEW id \in DOMAIN replies, CallIsHeld(id) PROVE CallIsHeld(id)'
      BY <1>2, <2>1, <2>2, <2>3 DEF CallIsHeld
  <2>. QED BY <1>1, <2>1, <2>3 DEF UnansweredAreHeld
<1>4. CASE QueueReload
  <2>1. /\ pendingReload' = Head(flagCalls) /\ UNCHANGED flagsRequest
        /\ flagsRequest # NoFlagsRequest /\ riders \subseteq riders'
        /\ pendingReload # NoCall => pendingReload.id \in riders'
      BY <1>4 DEF QueueReload
  <2>2. NoCall.id = 0 /\ \A id \in DOMAIN replies : id # 0
      BY DEF NoCall, FRTypes, FlagReloadsTypeOK
  <2>3. ASSUME NEW id \in DOMAIN replies, CallIsHeld(id) PROVE CallIsHeld(id)'
      BY <1>2, <2>1, <2>2, <2>3 DEF CallIsHeld
  <2>. QED BY <1>1, <2>1, <2>3 DEF UnansweredAreHeld
<1>. QED BY <1>3, <1>4, Zenon DEF EnterFlagsAsync

\* The end of a request answers it and those who ride along; the slot's holder calls again.
LEMMA SettleHeld ==
    ASSUME FRTypes, UnansweredAreHeld, SettleFlagsRequest PROVE UnansweredAreHeld'
<1>1. /\ flagCalls \in Seq(FlagCall) /\ pendingReload \in FlagCall \cup {NoCall}
      /\ replies \in Seq(0..MaxContexts) /\ flagsRequest.phase = "answered"
      /\ flagsRequest.reads \in 1..MaxContexts
    BY DEF SettleFlagsRequest, FRTypes, FlagReloadsTypeOK, CallsKnown
<1>2. /\ riders' = {} /\ pendingReload' = NoCall
      /\ flagCalls' = IF pendingReload = NoCall THEN flagCalls
                                                ELSE Append(flagCalls, pendingReload)
      /\ DOMAIN replies' = DOMAIN replies
      /\ \A id \in DOMAIN replies : replies'[id] =
             IF id \in riders \cup {flagsRequest.call.id} THEN flagsRequest.reads
                                                          ELSE replies[id]
    BY DEF SettleFlagsRequest
<1>3. /\ \A i \in DOMAIN flagCalls : i \in DOMAIN flagCalls' /\ flagCalls'[i] = flagCalls[i]
      /\ pendingReload # NoCall => \E i \in DOMAIN flagCalls' : flagCalls'[i] = pendingReload
  <2>1. CASE pendingReload = NoCall
      BY <1>2, <2>1
  <2>2. CASE pendingReload # NoCall
    <3>1. flagCalls' = Append(flagCalls, pendingReload) /\ pendingReload \in FlagCall
        BY <1>1, <1>2, <2>2
    <3>2. /\ \A i \in DOMAIN flagCalls : i \in DOMAIN flagCalls'
                                         /\ flagCalls'[i] = flagCalls[i]
          /\ Len(flagCalls) + 1 \in DOMAIN flagCalls'
          /\ flagCalls'[Len(flagCalls) + 1] = pendingReload
        BY <1>1, <3>1
    <3>. QED BY <3>2
  <2>. QED BY <2>1, <2>2
<1>4. NoCall.id = 0 /\ \A id \in DOMAIN replies : id # 0
    BY <1>1 DEF NoCall
<1>5. ASSUME NEW id \in DOMAIN replies', replies'[id] = 0 PROVE CallIsHeld(id)'
  <2>1. id \in DOMAIN replies /\ id \notin riders /\ id # flagsRequest.call.id
        /\ replies[id] = 0
      BY <1>1, <1>2, <1>5
  <2>2. (\E i \in DOMAIN flagCalls : flagCalls[i].id = id) \/ pendingReload.id = id
      BY <2>1 DEF UnansweredAreHeld, CallIsHeld
  <2>3. \E i \in DOMAIN flagCalls' : flagCalls'[i].id = id
      BY <1>3, <1>4, <2>1, <2>2
  <2>. QED BY <2>3 DEF CallIsHeld
<1>6. ~(riders' # {} \/ pendingReload' # NoCall)
    BY <1>2
<1>. QED BY <1>5, <1>6 DEF UnansweredAreHeld

LEMMA HeldStep ==
    FRTypes /\ UnansweredAreHeld /\ [FlagReloadsNext]_frVars => UnansweredAreHeld'
<1>. SUFFICES ASSUME FRTypes, UnansweredAreHeld, [FlagReloadsNext]_frVars
              PROVE  UnansweredAreHeld'
    OBVIOUS
<1>1. ASSUME UNCHANGED <<flagCalls, pendingReload, riders, replies>>,
             flagsRequest'.call = flagsRequest.call,
             flagsRequest # NoFlagsRequest => flagsRequest' # NoFlagsRequest
      PROVE  UnansweredAreHeld'
    BY <1>1 DEF UnansweredAreHeld, CallIsHeld
<1>2. CASE SendFlagsRequest
  <2>1. flagsRequest \in FlagsRequest
      BY <1>2 DEF SendFlagsRequest, FRTypes, FlagReloadsTypeOK, NoFlagsRequest
  <2>2. flagsRequest'.call = flagsRequest.call /\ flagsRequest' # NoFlagsRequest
      BY <1>2, <2>1 DEF SendFlagsRequest, FlagsRequest, NoFlagsRequest
  <2>. QED BY <1>1, <1>2, <2>2 DEF SendFlagsRequest
<1>3. ASSUME NEW outcome \in FlagOutcomes, FlagsAnswered(outcome) PROVE UnansweredAreHeld'
  <2>1. flagsRequest \in FlagsRequest
      BY <1>3 DEF FlagsAnswered, FRTypes, FlagReloadsTypeOK, NoFlagsRequest
  <2>2. flagsRequest'.call = flagsRequest.call /\ flagsRequest' # NoFlagsRequest
      BY <1>3, <2>1 DEF FlagsAnswered, FlagsRequest, NoFlagsRequest
  <2>. QED BY <1>1, <1>3, <2>2 DEF FlagsAnswered
<1>4. ASSUME \/ InitSettles \/ LoadRemoteConfig \/ RemoteConfigFails
             \/ \E hasFlags \in BOOLEAN : RemoteConfigAlone(hasFlags)
             \/ UNCHANGED frVars
      PROVE  UnansweredAreHeld'
    BY <1>1, <1>4 DEF InitSettles, LoadRemoteConfig, RemoteConfigFails, RemoteConfigAlone,
                      frVars
<1>5. ASSUME \/ \E link \in BOOLEAN : ReloadFlags(link)
             \/ \E identifies \in BOOLEAN : ChangeContext(identifies)
             \/ ResetClient \/ RemoteConfigWithFlags
      PROVE  UnansweredAreHeld'
    BY <1>5, NewCallHeld DEF ReloadFlags, ChangeContext, ResetClient, RemoteConfigWithFlags
<1>. QED BY <1>2, <1>3, <1>4, <1>5, EnterHeld, SettleHeld, Zenon
         DEF FlagReloadsNext, FlagReloadsStep

\* A promise that flagsAsync returned and that has not settled is always owed by someone:
\* by a call that awaits _initPromise, by the holder of the slot, by the request in
\* flight or by its answer, so that at rest there is none (posthog-core.ts:652-667,
\* 899-917).
THEOREM CallersServedAlways == FlagReloadsSpec => []CallersAreServed
<1>1. FlagReloadsInit => FRTypes /\ UnansweredAreHeld
    BY FRInit DEF FRInv, FlagReloadsInit, UnansweredAreHeld
<1>2. FRTypes /\ UnansweredAreHeld => CallersAreServed
  <2>. SUFFICES ASSUME FRTypes, UnansweredAreHeld, FlagsAtRest,
                       NEW id \in DOMAIN replies, replies[id] = 0
                PROVE  FALSE
      BY DEF CallersAreServed
  <2>1. NoCall.id = 0 /\ id # 0 /\ DOMAIN <<>> = {} /\ NoFlagsRequest.call = NoCall
      BY DEF NoCall, NoFlagsRequest, FRTypes, FlagReloadsTypeOK
  <2>2. flagCalls = <<>> /\ flagsRequest = NoFlagsRequest /\ riders = {}
        /\ pendingReload = NoCall
      BY DEF FlagsAtRest, UnansweredAreHeld
  <2>3. CallIsHeld(id)
      BY DEF UnansweredAreHeld
  <2>. QED BY <2>1, <2>2, <2>3 DEF CallIsHeld
<1>. QED BY <1>1, <1>2, TypesStep, HeldStep, PTL DEF FlagReloadsSpec

--------------------------------------------------------------------------------
(* The remote config is told once.                                          *)

\* A call is in one place: it awaits _initPromise, has the slot or is in flight.
DistinctCalls ==
    /\ \A i, k \in DOMAIN flagCalls : flagCalls[i].id = flagCalls[k].id => i = k
    /\ \A i \in DOMAIN flagCalls :
          flagCalls[i].id # pendingReload.id /\ flagCalls[i].id # flagsRequest.call.id
    /\ pendingReload # NoCall => pendingReload.id # flagsRequest.call.id

ToldInv == DistinctCalls /\ ConfigToldOnce

\* A call that waits will tell, if it was made to.
Waiting(id) == \E i \in DOMAIN flagCalls : flagCalls[i].id = id /\ flagCalls[i].tell
InSlot(id) == pendingReload.id = id /\ pendingReload.tell
InRequest(id) ==
    flagsRequest.call.id = id /\ flagsRequest.call.tell /\ flagsRequest.phase # "answered"

LEMMA TellingIs ==
    \A id : id \in TellingCalls <=>
                id \in DOMAIN replies /\ (Waiting(id) \/ InSlot(id) \/ InRequest(id))
BY Zenon DEF TellingCalls, Waiting, InSlot, InRequest

LEMMA TellingIsNext ==
    \A id : id \in TellingCalls' <=>
                id \in DOMAIN replies' /\ (Waiting(id)' \/ InSlot(id)' \/ InRequest(id)')
BY Zenon DEF TellingCalls, Waiting, InSlot, InRequest

LEMMA TellingFinite ==
    ASSUME FRTypes
    PROVE  /\ IsFiniteSet(TellingCalls) /\ Cardinality(TellingCalls) \in Nat
           /\ DOMAIN replies = 1..Len(replies) /\ Len(replies) \in Nat
           /\ loads \in Nat /\ told \in Nat /\ forfeited \in Nat
<1>1. DOMAIN replies = 1..Len(replies) /\ Len(replies) \in Nat
    BY LenProperties DEF FRTypes, FlagReloadsTypeOK
<1>2. IsFiniteSet(1..Len(replies))
    BY <1>1, FS_Interval
<1>3. TellingCalls \subseteq 1..Len(replies)
    BY <1>1 DEF TellingCalls
<1>4. IsFiniteSet(TellingCalls)
    BY <1>2, <1>3, FS_Subset
<1>5. Cardinality(TellingCalls) \in Nat
    BY <1>4, FS_CardinalityType
<1>6. loads \in Nat /\ told \in Nat /\ forfeited \in Nat
    BY FlagReloadsAssumption DEF FRTypes, FlagReloadsTypeOK
<1>. QED BY <1>1, <1>4, <1>5, <1>6

\* Calls in the queue, the slot and the request, with NoCall for none.
LEMMA FlagCallsTyped ==
    ASSUME FRTypes
    PROVE  /\ flagCalls \in Seq(FlagCall)
           /\ \A i \in DOMAIN flagCalls :
                flagCalls[i] \in FlagCall /\ flagCalls[i].id \in DOMAIN replies
           /\ pendingReload \in FlagCall \cup {NoCall}
           /\ flagsRequest.call \in FlagCall \cup {NoCall}
           /\ pendingReload # NoCall => pendingReload.id \in DOMAIN replies
           /\ flagsRequest # NoFlagsRequest => flagsRequest.call.id \in DOMAIN replies
           /\ NoCall.id = 0 /\ ~NoCall.tell /\ 0 \notin DOMAIN replies
           /\ NoFlagsRequest.call = NoCall
<1>1. /\ flagCalls \in Seq(FlagCall) /\ pendingReload \in FlagCall \cup {NoCall}
      /\ flagsRequest \in FlagsRequest \cup {NoFlagsRequest}
    BY DEF FRTypes, FlagReloadsTypeOK
<1>2. flagsRequest.call \in FlagCall \cup {NoCall}
    BY <1>1 DEF FlagsRequest, NoFlagsRequest
<1>3. NoCall.id = 0 /\ ~NoCall.tell /\ 0 \notin DOMAIN replies
    BY TellingFinite DEF NoCall
<1>4. NoFlagsRequest.call = NoCall
    BY DEF NoFlagsRequest
<1>5. \A i \in DOMAIN flagCalls : flagCalls[i] \in FlagCall
    BY <1>1
<1>. QED BY <1>1, <1>2, <1>3, <1>4, <1>5 DEF FRTypes, CallsKnown

\* A new call is in the queue alone, and tells if it was made to.
LEMMA NewCallTells ==
    ASSUME FRTypes, DistinctCalls, NEW link \in BOOLEAN, NEW tell \in BOOLEAN,
           CallFlagsAsync(link, tell), UNCHANGED <<flagsRequest, pendingReload>>
    PROVE  /\ DistinctCalls'
           /\ Len(replies) + 1 \notin TellingCalls
           /\ tell => TellingCalls' = TellingCalls \cup {Len(replies) + 1}
           /\ ~tell => TellingCalls' = TellingCalls
<1>. DEFINE call == [id |-> Len(replies) + 1, link |-> link, tell |-> tell]
            last == Len(flagCalls) + 1
            new == Len(replies) + 1
<1>1. /\ DOMAIN replies = 1..Len(replies) /\ Len(replies) \in Nat
      /\ flagCalls \in Seq(FlagCall) /\ DOMAIN flagCalls = 1..Len(flagCalls)
      /\ Len(flagCalls) \in Nat /\ replies \in Seq(0..MaxContexts)
    BY TellingFinite, FlagCallsTyped, LenProperties DEF FRTypes, FlagReloadsTypeOK
<1>2. new \notin DOMAIN replies /\ new # 0
    BY <1>1
<1>3. DOMAIN replies' = DOMAIN replies \cup {new}
  <2>1. replies' = Append(replies, 0)
      BY DEF CallFlagsAsync
  <2>. QED BY <1>1, <2>1
<1>4. /\ DOMAIN flagCalls' = DOMAIN flagCalls \cup {last} /\ last \notin DOMAIN flagCalls
      /\ \A i \in DOMAIN flagCalls : flagCalls'[i] = flagCalls[i]
      /\ flagCalls'[last] = call
  <2>1. flagCalls' = Append(flagCalls, call)
      BY DEF CallFlagsAsync
  <2>. HIDE DEF call
  <2>. QED BY <1>1, <2>1
<1>5. flagCalls'[last].id = new /\ flagCalls'[last].tell = tell
    BY <1>4
<1>. HIDE DEF call, last, new
<1>6. \A i \in DOMAIN flagCalls : flagCalls[i].id # new
    BY <1>2, FlagCallsTyped
<1>7. pendingReload.id # new /\ flagsRequest.call.id # new
    BY <1>2, FlagCallsTyped DEF NoFlagsRequest
<1>8. DistinctCalls'
    BY <1>4, <1>5, <1>6, <1>7 DEF DistinctCalls
<1>9. \A id : Waiting(id)' <=> Waiting(id) \/ (id = new /\ tell)
    BY <1>4, <1>5, Zenon DEF Waiting
<1>10. \A id : (InSlot(id)' <=> InSlot(id)) /\ (InRequest(id)' <=> InRequest(id))
    BY DEF InSlot, InRequest
<1>11. ~Waiting(new) /\ ~InSlot(new) /\ ~InRequest(new)
    BY <1>6, <1>7, Zenon DEF Waiting, InSlot, InRequest
<1>12. \A id : id \in TellingCalls' <=> id \in TellingCalls \/ (id = new /\ tell)
    BY <1>3, <1>9, <1>10, <1>11, TellingIs, TellingIsNext, Zenon
<1>13. new \notin TellingCalls
    BY <1>11, TellingIs, Zenon
<1>14. tell => TellingCalls' = TellingCalls \cup {new}
    BY <1>12, Zenon
<1>15. ~tell => TellingCalls' = TellingCalls
    BY <1>12, Zenon
<1>. QED BY <1>8, <1>13, <1>14, <1>15, Zenon DEF new

\* The queue without its first call.
LEMMA QueueTells ==
    ASSUME FRTypes, DistinctCalls, flagCalls # <<>>, flagCalls' = Tail(flagCalls)
    PROVE  /\ \A i, k \in DOMAIN flagCalls' : flagCalls'[i].id = flagCalls'[k].id => i = k
           /\ \A i \in DOMAIN flagCalls' :
                /\ flagCalls'[i].id # pendingReload.id
                /\ flagCalls'[i].id # flagsRequest.call.id
                /\ flagCalls'[i].id # Head(flagCalls).id
           /\ Head(flagCalls).id # pendingReload.id
           /\ Head(flagCalls).id # flagsRequest.call.id
           /\ \A id : Waiting(id) <=>
                Waiting(id)' \/ (id = Head(flagCalls).id /\ Head(flagCalls).tell)
<1>1. /\ Len(flagCalls) \in Nat /\ Len(flagCalls) >= 1 /\ Head(flagCalls) = flagCalls[1]
      /\ 1 \in DOMAIN flagCalls /\ DOMAIN flagCalls = 1..Len(flagCalls)
      /\ DOMAIN flagCalls' = 1..(Len(flagCalls) - 1)
      /\ \A i \in 1..(Len(flagCalls) - 1) : flagCalls'[i] = flagCalls[i + 1]
    BY FlagCallsTyped
<1>2. \A i \in DOMAIN flagCalls' :
         /\ i \in Int /\ i + 1 \in DOMAIN flagCalls /\ i + 1 # 1
         /\ flagCalls'[i] = flagCalls[i + 1]
    BY <1>1
<1>3. \A i \in DOMAIN flagCalls : i = 1 \/
         (i - 1 \in DOMAIN flagCalls' /\ flagCalls'[i - 1] = flagCalls[i])
    BY <1>1
<1>4. \A i, k \in DOMAIN flagCalls' : flagCalls'[i].id = flagCalls'[k].id => i = k
  <2>1. TAKE i, k \in DOMAIN flagCalls'
  <2>2. HAVE flagCalls'[i].id = flagCalls'[k].id
  <2>3. i + 1 = k + 1
      BY <1>2, <2>2 DEF DistinctCalls
  <2>. QED BY <1>2, <2>3
<1>5. \A i \in DOMAIN flagCalls' :
         /\ flagCalls'[i].id # pendingReload.id /\ flagCalls'[i].id # flagsRequest.call.id
         /\ flagCalls'[i].id # Head(flagCalls).id
    BY <1>1, <1>2 DEF DistinctCalls
<1>6. Head(flagCalls).id # pendingReload.id /\ Head(flagCalls).id # flagsRequest.call.id
    BY <1>1 DEF DistinctCalls
<1>7. ASSUME NEW id
      PROVE  Waiting(id) <=> Waiting(id)' \/ (id = Head(flagCalls).id /\ Head(flagCalls).tell)
  <2>1. Waiting(id) => Waiting(id)' \/ (id = Head(flagCalls).id /\ Head(flagCalls).tell)
      BY <1>1, <1>3, Zenon DEF Waiting
  <2>2. Waiting(id)' => Waiting(id)
      BY <1>2, Zenon DEF Waiting
  <2>3. id = Head(flagCalls).id /\ Head(flagCalls).tell => Waiting(id)
      BY <1>1, Zenon DEF Waiting
  <2>. QED BY <2>1, <2>2, <2>3
<1>. QED BY <1>4, <1>5, <1>6, <1>7

\* flagsAsync goes on: the first call starts a request, or takes the slot. One that
\* it finds there, and that was to tell, forfeits.
LEMMA EnterTells == ASSUME FRTypes, ToldInv, EnterFlagsAsync PROVE ToldInv'
<1>1. DistinctCalls /\ ConfigToldOnce /\ flagCalls # <<>> /\ flagCalls' = Tail(flagCalls)
      /\ UNCHANGED <<replies, loads, told>>
    BY DEF ToldInv, EnterFlagsAsync
<1>. DEFINE head == Head(flagCalls)
<1>2. /\ \A i, k \in DOMAIN flagCalls' : flagCalls'[i].id = flagCalls'[k].id => i = k
      /\ \A i \in DOMAIN flagCalls' :
           /\ flagCalls'[i].id # pendingReload.id /\ flagCalls'[i].id # flagsRequest.call.id
           /\ flagCalls'[i].id # head.id
      /\ head.id # pendingReload.id /\ head.id # flagsRequest.call.id
      /\ \A id : Waiting(id) <=> Waiting(id)' \/ (id = head.id /\ head.tell)
    BY <1>1, QueueTells
<1>3. head \in FlagCall /\ head.id \in DOMAIN replies /\ head # NoCall
    BY <1>1, FirstCall, CallsAreNotNoCall
<1>. HIDE DEF head
<1>4. CASE StartFlagsRequest
  <2>1. /\ flagsRequest = NoFlagsRequest /\ flagsRequest.call = NoCall
        /\ flagsRequest'.call = head /\ flagsRequest'.phase # "answered"
        /\ UNCHANGED <<pendingReload, forfeited>> /\ pendingReload = NoCall
      BY <1>4 DEF StartFlagsRequest, NoFlagsRequest, head, FRTypes, CallsKnown
  <2>2. DistinctCalls'
      BY <1>2, <2>1 DEF DistinctCalls
  <2>3. ASSUME NEW id PROVE id \in TellingCalls' <=> id \in TellingCalls
    <3>1. InRequest(id)' <=> id = head.id /\ head.tell
        BY <2>1, Zenon DEF InRequest
    <3>2. ~InRequest(id)
        BY <2>1, FlagCallsTyped DEF InRequest
    <3>3. InSlot(id)' <=> InSlot(id)
        BY <2>1 DEF InSlot
    <3>. QED BY <1>1, <1>2, <3>1, <3>2, <3>3, TellingIs, TellingIsNext, Zenon
  <2>4. TellingCalls' = TellingCalls
      BY <2>3, Zenon
  <2>. QED BY <1>1, <2>1, <2>2, <2>4 DEF ToldInv, ConfigToldOnce
<1>5. CASE QueueReload
  <2>1. /\ flagsRequest # NoFlagsRequest /\ UNCHANGED flagsRequest /\ pendingReload' = head
        /\ pendingReload = NoCall => forfeited' = forfeited
        /\ pendingReload # NoCall =>
              forfeited' = IF pendingReload.tell THEN forfeited + 1 ELSE forfeited
      BY <1>5 DEF QueueReload, head
  <2>2. DistinctCalls'
      BY <1>2, <1>3, <2>1 DEF DistinctCalls
  <2>3. ASSUME NEW id
        PROVE  /\ (InSlot(id)' <=> id = head.id /\ head.tell)
               /\ (InRequest(id)' <=> InRequest(id))
      BY <2>1, Zenon DEF InSlot, InRequest
  <2>4. ASSUME NEW id PROVE id \in TellingCalls' <=> id \in TellingCalls /\ ~InSlot(id)
    <3>1. ASSUME InSlot(id)
          PROVE  ~Waiting(id)' /\ ~InRequest(id)' /\ ~InSlot(id)'
      <4>1. pendingReload # NoCall /\ id = pendingReload.id
          BY <3>1, FlagCallsTyped DEF InSlot
      <4>2. id # flagsRequest.call.id /\ id # head.id
          BY <1>1, <1>2, <4>1 DEF DistinctCalls
      <4>3. ~InRequest(id)
          BY <4>2 DEF InRequest
      <4>4. ~Waiting(id)'
          BY <1>2, <4>1, Zenon DEF Waiting
      <4>. QED BY <2>3, <4>2, <4>3, <4>4, Zenon
    <3>. QED BY <1>1, <1>2, <2>3, <3>1, TellingIs, TellingIsNext, Zenon
  <2>5. CASE pendingReload # NoCall /\ pendingReload.tell
    <3>1. \A id : InSlot(id) <=> id = pendingReload.id
        BY <2>5, Zenon DEF InSlot
    <3>2. pendingReload.id \in TellingCalls
        BY <2>5, <3>1, FlagCallsTyped, TellingIs, Zenon
    <3>3. TellingCalls' = TellingCalls \ {pendingReload.id}
        BY <2>4, <3>1, Zenon
    <3>4. Cardinality(TellingCalls \ {pendingReload.id}) = Cardinality(TellingCalls) - 1
        BY <3>2, TellingFinite, FS_RemoveElement
    <3>5. Cardinality(TellingCalls') = Cardinality(TellingCalls) - 1
          /\ forfeited' = forfeited + 1
        BY <2>1, <2>5, <3>3, <3>4
    <3>6. ConfigToldOnce'
        BY <1>1, <3>5, TellingFinite DEF ConfigToldOnce
    <3>. QED BY <2>2, <3>6 DEF ToldInv
  <2>6. CASE ~(pendingReload # NoCall /\ pendingReload.tell)
    <3>1. \A id : ~InSlot(id)
        BY <2>6, FlagCallsTyped, Zenon DEF InSlot
    <3>2. TellingCalls' = TellingCalls
        BY <2>4, <3>1, Zenon
    <3>3. forfeited' = forfeited
        BY <2>1, <2>6
    <3>4. ConfigToldOnce'
        BY <1>1, <3>2, <3>3 DEF ConfigToldOnce
    <3>. QED BY <2>2, <3>4 DEF ToldInv
  <2>. QED BY <2>5, <2>6
<1>. QED BY <1>4, <1>5, Zenon DEF EnterFlagsAsync

LEMMA SendTells == ASSUME FRTypes, ToldInv, SendFlagsRequest PROVE ToldInv'
<1>1. /\ flagsRequest \in FlagsRequest /\ flagsRequest.phase = "starting"
      /\ UNCHANGED <<flagCalls, pendingReload, replies, loads, told, forfeited>>
    BY DEF SendFlagsRequest, FRTypes, FlagReloadsTypeOK, NoFlagsRequest
<1>2. flagsRequest'.call = flagsRequest.call /\ flagsRequest'.phase = "sent"
    BY <1>1 DEF SendFlagsRequest, FlagsRequest
<1>3. DistinctCalls'
    BY <1>1, <1>2 DEF ToldInv, DistinctCalls
<1>4. \A id : (Waiting(id)' <=> Waiting(id)) /\ (InSlot(id)' <=> InSlot(id))
    BY <1>1, Zenon DEF Waiting, InSlot
<1>5. \A id : InRequest(id)' <=> InRequest(id)
    BY <1>1, <1>2 DEF InRequest
<1>6. \A id : id \in TellingCalls' <=> id \in TellingCalls
    BY <1>1, <1>4, <1>5, TellingIs, TellingIsNext, Zenon
<1>7. TellingCalls' = TellingCalls
    BY <1>6, Zenon
<1>. QED BY <1>1, <1>3, <1>7 DEF ToldInv, ConfigToldOnce

\* The answer tells the config, or forfeits when it has failed.
LEMMA AnswerTells ==
    ASSUME FRTypes, ToldInv, NEW outcome \in FlagOutcomes, FlagsAnswered(outcome)
    PROVE  ToldInv'
<1>1. /\ flagsRequest \in FlagsRequest /\ flagsRequest.phase = "sent"
      /\ flagsRequest # NoFlagsRequest
      /\ UNCHANGED <<flagCalls, pendingReload, replies, loads>> /\ TellOnce(outcome)
    BY DEF FlagsAnswered, FRTypes, FlagReloadsTypeOK, NoFlagsRequest
<1>2. flagsRequest'.call = flagsRequest.call /\ flagsRequest'.phase = "answered"
    BY <1>1 DEF FlagsAnswered, FlagsRequest
<1>3. DistinctCalls /\ DistinctCalls'
    BY <1>1, <1>2 DEF ToldInv, DistinctCalls
<1>4. \A id : (Waiting(id)' <=> Waiting(id)) /\ (InSlot(id)' <=> InSlot(id))
    BY <1>1, Zenon DEF Waiting, InSlot
<1>5. \A id : ~InRequest(id)'
    BY <1>2 DEF InRequest
<1>6. CASE flagsRequest.call.tell
  <2>. DEFINE answered == flagsRequest.call.id
  <2>1. \A id : InRequest(id) <=> id = answered
      BY <1>1, <1>6 DEF InRequest
  <2>2. ~Waiting(answered) /\ ~InSlot(answered)
    <3>1. ~Waiting(answered)
        BY <1>3, Zenon DEF Waiting, DistinctCalls
    <3>2. ~InSlot(answered)
        BY <1>3, FlagCallsTyped DEF InSlot, DistinctCalls
    <3>. QED BY <3>1, <3>2
  <2>3. answered \in TellingCalls
      BY <1>1, <2>1, FlagCallsTyped, TellingIs, Zenon
  <2>. HIDE DEF answered
  <2>4. \A id : id \in TellingCalls' <=> id \in TellingCalls /\ id # answered
      BY <1>1, <1>4, <1>5, <2>1, <2>2, TellingIs, TellingIsNext, Zenon
  <2>5. TellingCalls' = TellingCalls \ {answered}
      BY <2>4, Zenon
  <2>6. Cardinality(TellingCalls') = Cardinality(TellingCalls) - 1
      BY <2>3, <2>5, TellingFinite, FS_RemoveElement
  <2>7. \/ told' = told /\ forfeited' = forfeited + 1
        \/ told' = told + 1 /\ forfeited' = forfeited
      BY <1>1, <1>6 DEF TellOnce
  <2>8. ConfigToldOnce
      BY DEF ToldInv
  <2>9. ConfigToldOnce'
      BY <1>1, <2>6, <2>7, <2>8, TellingFinite DEF ConfigToldOnce
  <2>. QED BY <1>3, <2>9 DEF ToldInv
<1>7. CASE ~flagsRequest.call.tell
  <2>1. \A id : ~InRequest(id)
      BY <1>7, Zenon DEF InRequest
  <2>2. \A id : id \in TellingCalls' <=> id \in TellingCalls
      BY <1>1, <1>4, <1>5, <2>1, TellingIs, TellingIsNext, Zenon
  <2>3. TellingCalls' = TellingCalls
      BY <2>2, Zenon
  <2>4. UNCHANGED <<told, forfeited>>
      BY <1>1, <1>7 DEF TellOnce
  <2>. QED BY <1>1, <1>3, <2>3, <2>4 DEF ToldInv, ConfigToldOnce
<1>. QED BY <1>6, <1>7

\* The answered request goes, and the call in the slot joins the queue.
LEMMA SettleTells == ASSUME FRTypes, ToldInv, SettleFlagsRequest PROVE ToldInv'
<1>1. /\ flagsRequest.phase = "answered" /\ flagsRequest'.call = NoCall
      /\ pendingReload' = NoCall /\ DOMAIN replies' = DOMAIN replies
      /\ pendingReload = NoCall => flagCalls' = flagCalls
      /\ pendingReload # NoCall => flagCalls' = Append(flagCalls, pendingReload)
      /\ UNCHANGED <<loads, told, forfeited>> /\ DistinctCalls /\ ConfigToldOnce
    BY DEF SettleFlagsRequest, NoFlagsRequest, ToldInv
<1>2. \A id : ~InRequest(id) /\ ~InRequest(id)' /\ ~InSlot(id)'
    BY <1>1, FlagCallsTyped DEF InRequest, InSlot
<1>3. CASE pendingReload = NoCall
  <2>1. DistinctCalls'
      BY <1>1, <1>3, FlagCallsTyped DEF DistinctCalls
  <2>2. \A id : (Waiting(id)' <=> Waiting(id)) /\ ~InSlot(id)
      BY <1>1, <1>3, FlagCallsTyped, Zenon DEF Waiting, InSlot
  <2>3. \A id : id \in TellingCalls' <=> id \in TellingCalls
      BY <1>1, <1>2, <2>2, TellingIs, TellingIsNext, Zenon
  <2>4. TellingCalls' = TellingCalls
      BY <2>3, Zenon
  <2>. QED BY <1>1, <2>1, <2>4 DEF ToldInv, ConfigToldOnce
<1>4. CASE pendingReload # NoCall
  <2>. DEFINE last == Len(flagCalls) + 1
  <2>1. /\ flagCalls \in Seq(FlagCall) /\ DOMAIN flagCalls = 1..Len(flagCalls)
        /\ Len(flagCalls) \in Nat
      BY FlagCallsTyped, LenProperties
  <2>2. /\ DOMAIN flagCalls' = DOMAIN flagCalls \cup {last}
        /\ \A i \in DOMAIN flagCalls : flagCalls'[i] = flagCalls[i]
        /\ flagCalls'[last] = pendingReload /\ last \notin DOMAIN flagCalls
      BY <1>1, <1>4, <2>1
  <2>. HIDE DEF last
  <2>3. /\ pendingReload.id # 0 /\ NoCall.id = 0
        /\ \A i \in DOMAIN flagCalls : flagCalls[i].id # 0
      BY <1>4, FlagCallsTyped
  <2>4. DistinctCalls'
      BY <1>1, <2>2, <2>3 DEF DistinctCalls
  <2>5. \A id : Waiting(id)' <=> Waiting(id) \/ InSlot(id)
      BY <2>2, Zenon DEF Waiting, InSlot
  <2>6. \A id : id \in TellingCalls' <=> id \in TellingCalls
      BY <1>1, <1>2, <2>5, TellingIs, TellingIsNext, Zenon
  <2>7. TellingCalls' = TellingCalls
      BY <2>6, Zenon
  <2>. QED BY <1>1, <2>4, <2>7 DEF ToldInv, ConfigToldOnce
<1>. QED BY <1>3, <1>4

\* A call of the application's tells nothing.
LEMMA PlainCallTells ==
    ASSUME FRTypes, ToldInv, NEW link \in BOOLEAN, CallFlagsAsync(link, FALSE),
           UNCHANGED <<flagsRequest, pendingReload, loads, told, forfeited>>
    PROVE  ToldInv'
<1>1. DistinctCalls' /\ TellingCalls' = TellingCalls
    BY NewCallTells, Zenon DEF ToldInv
<1>. QED BY <1>1 DEF ToldInv, ConfigToldOnce

\* The config that comes with flags is one more to tell, by one more call.
LEMMA ConfigTells == ASSUME FRTypes, ToldInv, RemoteConfigWithFlags PROVE ToldInv'
<1>1. CallFlagsAsync(TRUE, TRUE) /\ loads' = loads + 1
      /\ UNCHANGED <<flagsRequest, pendingReload, told, forfeited>>
    BY DEF RemoteConfigWithFlags
<1>2. TRUE \in BOOLEAN
    OBVIOUS
<1>3. DistinctCalls' /\ TellingCalls' = TellingCalls \cup {Len(replies) + 1}
      /\ Len(replies) + 1 \notin TellingCalls
    BY <1>1, <1>2, NewCallTells, Zenon DEF ToldInv
<1>4. Cardinality(TellingCalls') = Cardinality(TellingCalls) + 1
    BY <1>3, TellingFinite, FS_AddElement
<1>5. ConfigToldOnce
    BY DEF ToldInv
<1>6. ConfigToldOnce'
    BY <1>1, <1>4, <1>5, TellingFinite DEF ConfigToldOnce
<1>. QED BY <1>3, <1>6 DEF ToldInv

\* Steps without calls: the config alone is loaded and told in one.
LEMMA OthersTell ==
    ASSUME FRTypes, ToldInv,
           UNCHANGED <<flagCalls, flagsRequest, pendingReload, replies, forfeited>>,
           UNCHANGED <<loads, told>> \/ (loads' = loads + 1 /\ told' = told + 1)
    PROVE  ToldInv'
<1>1. DistinctCalls' /\ TellingCalls' = TellingCalls
    BY DEF ToldInv, DistinctCalls, TellingCalls
<1>. QED BY <1>1, TellingFinite DEF ToldInv, ConfigToldOnce

LEMMA ToldStep == FRTypes /\ ToldInv /\ [FlagReloadsNext]_frVars => ToldInv'
<1> SUFFICES ASSUME FRTypes, ToldInv, [FlagReloadsNext]_frVars PROVE ToldInv'
    OBVIOUS
<1>1. ASSUME NEW link \in BOOLEAN, ReloadFlags(link) PROVE ToldInv'
    BY <1>1, PlainCallTells DEF ReloadFlags
<1>2. ASSUME \/ ResetClient
             \/ \E identifies \in BOOLEAN : ChangeContext(identifies)
      PROVE  ToldInv'
  <2>1. TRUE \in BOOLEAN
      OBVIOUS
  <2>. QED BY <1>2, <2>1, PlainCallTells DEF ChangeContext, ResetClient
<1>3. ASSUME \/ InitSettles \/ LoadRemoteConfig \/ RemoteConfigFails
             \/ \E hasFlags \in BOOLEAN : RemoteConfigAlone(hasFlags)
             \/ UNCHANGED frVars
      PROVE  ToldInv'
    BY <1>3, OthersTell
       DEF InitSettles, LoadRemoteConfig, RemoteConfigFails, RemoteConfigAlone, frVars
<1>. QED
    BY <1>1, <1>2, <1>3, EnterTells, SendTells, AnswerTells, SettleTells, ConfigTells, Zenon
    DEF FlagReloadsNext, FlagReloadsStep

LEMMA ToldInit == FlagReloadsInit => ToldInv
<1> SUFFICES ASSUME FlagReloadsInit PROVE ToldInv
    OBVIOUS
<1>1. flagCalls = <<>> /\ replies = <<>> /\ pendingReload = NoCall
      /\ loads = 0 /\ told = 0 /\ forfeited = 0
    BY DEF FlagReloadsInit
<1>2. DistinctCalls
    BY <1>1 DEF DistinctCalls
<1>3. TellingCalls = {}
    BY <1>1 DEF TellingCalls
<1>4. Cardinality(TellingCalls) = 0
    BY <1>3, FS_EmptySet
<1>. QED BY <1>1, <1>2, <1>4 DEF ToldInv, ConfigToldOnce

\* onRemoteConfig is called once for each remote config that was loaded, unless the one
\* call that is to tell it fails or loses the slot (posthog-core.ts:669-694): a call is
\* never in two places, so it cannot tell twice.
THEOREM ConfigToldAlways == FlagReloadsSpec => []ConfigToldOnce
<1>1. FlagReloadsInit => FRTypes /\ ToldInv
    BY FRInit, ToldInit DEF FRInv
<1>2. FRTypes /\ ToldInv /\ [FlagReloadsNext]_frVars => (FRTypes /\ ToldInv)'
    BY TypesStep, ToldStep
<1>3. FRTypes /\ ToldInv => ConfigToldOnce
    BY DEF ToldInv
<1>. QED BY <1>1, <1>2, <1>3, PTL DEF FlagReloadsSpec

--------------------------------------------------------------------------------
(* MetricsWindow: what its invariant says.                                  *)

\* The counted samples in windows that flushes hold.
InFlight == {n \in Samples : \E f \in DOMAIN flushes : n \in flushes[f].taken["count"]}

\* Only a flush that sends holds a window, and no window has more series than the cap.
TakenWhole ==
    /\ \A f \in DOMAIN flushes :
         /\ flushes[f].phase # "sending" => flushes[f].taken = NoSeries
         /\ Cardinality(SeriesIn(flushes[f].taken)) <= seriesCap
    /\ metricsCore <= generation

\* Samples are numbered as they are captured.
FlushesNumbered ==
    /\ counted \subseteq 1..samples /\ newestGauge <= samples
    /\ \A n \in window["gauge"] : n <= samples
    /\ \A f \in DOMAIN flushes : \A n \in flushes[f].taken["gauge"] : n <= samples

\* A counted sample is in the live window, in flight, sent or written off, in one
\* of these only and in flight in one flush only.
OneHome ==
    /\ counted = window["count"] \cup InFlight \cup sent \cup writtenOff
    /\ window["count"] \cap InFlight = {} /\ window["count"] \cap sent = {}
    /\ window["count"] \cap writtenOff = {} /\ InFlight \cap sent = {}
    /\ InFlight \cap writtenOff = {} /\ sent \cap writtenOff = {}
    /\ \A f, g \in DOMAIN flushes :
         f # g => flushes[f].taken["count"] \cap flushes[g].taken["count"] = {}

\* Something will take the live window.
WindowAwaited ==
    SeriesIn(window) # {} =>
        \/ windowTimer
        \/ \E f \in DOMAIN flushes : flushes[f].phase = "waiting" /\ flushes[f].core = metricsCore

\* Flushes follow one another, unless one was bypassed.
FlushesFollow ==
    /\ flushTail = 0 => \A f \in DOMAIN flushes : flushes[f].phase = "done"
    /\ flushTail # 0 => flushTail = Len(flushes)
    /\ \A f \in DOMAIN flushes : flushes[f].phase = "waiting" => f > 1 /\ flushes[f].after = f - 1
    /\ \A f, g \in DOMAIN flushes :
         f < g /\ flushes[g].phase # "waiting" => flushes[f].phase = "done"

\* Gauges are newer than what was accepted, and the live one is newer than that
\* of a flush.
GaugesNewer ==
    /\ \A n \in window["gauge"] : n > newestGauge
    /\ \A f \in DOMAIN flushes : \A n \in flushes[f].taken["gauge"] :
         n > newestGauge /\ \A m \in window["gauge"] : m > n

Serialized == ~bypassed => FlushesFollow /\ GaugesNewer

MetricsInv ==
    MetricsTypeOK /\ TakenWhole /\ FlushesNumbered /\ OneHome /\ WindowAwaited /\ Serialized

--------------------------------------------------------------------------------
(* Series and windows.                                                      *)

LEMMA MetricsConstants ==
    /\ MaxSamples \in Nat /\ MaxSamples >= 1 /\ MaxFlushes \in Nat /\ MaxResets \in Nat
    /\ seriesCap \in 1..Cardinality(Series) => seriesCap \in Nat
<1>1. Cardinality(Series) \in Nat
  <2>1. IsFiniteSet({"count"} \cup {"gauge"})
      BY FS_Singleton, FS_Union
  <2>2. Series = {"count"} \cup {"gauge"}
      BY DEF Series
  <2>3. IsFiniteSet(Series)
      BY <2>1, <2>2
  <2>. QED BY <2>3, FS_CardinalityType
<1>. QED BY <1>1, MetricsAssumption

LEMMA SeriesFinite ==
    ASSUME NEW w
    PROVE  /\ IsFiniteSet(SeriesIn(w)) /\ Cardinality(SeriesIn(w)) \in Nat
           /\ SeriesIn(w) \subseteq Series
<1>1. IsFiniteSet({"count"} \cup {"gauge"})
    BY FS_Singleton, FS_Union
<1>2. Series = {"count"} \cup {"gauge"}
    BY DEF Series
<1>3. SeriesIn(w) \subseteq Series /\ IsFiniteSet(Series)
    BY <1>1, <1>2 DEF SeriesIn
<1>4. IsFiniteSet(SeriesIn(w))
    BY <1>3, FS_Subset
<1>. QED BY <1>3, <1>4, FS_CardinalityType

LEMMA NoSeriesIsWindow ==
    ASSUME seriesCap \in Nat
    PROVE  /\ NoSeries \in Window /\ SeriesIn(NoSeries) = {}
           /\ NoSeries["count"] = {} /\ NoSeries["gauge"] = {}
           /\ Cardinality(SeriesIn(NoSeries)) <= seriesCap
<1>1. SeriesIn(NoSeries) = {}
    BY DEF SeriesIn, NoSeries
<1>2. Cardinality({}) = 0
    BY FS_EmptySet
<1>. QED BY <1>1, <1>2 DEF NoSeries, Window, Series

\* A window whose series are among those of one within the cap is within it.
LEMMA FewerSeries ==
    ASSUME NEW v, NEW w, SeriesIn(v) \subseteq SeriesIn(w), seriesCap \in Nat,
           Cardinality(SeriesIn(w)) <= seriesCap
    PROVE  Cardinality(SeriesIn(v)) <= seriesCap
<1>1. Cardinality(SeriesIn(v)) <= Cardinality(SeriesIn(w))
    BY SeriesFinite, FS_Subset
<1>2. Cardinality(SeriesIn(v)) \in Nat /\ Cardinality(SeriesIn(w)) \in Nat
    BY SeriesFinite
<1>. QED BY <1>1, <1>2

\* A series that is admitted leaves the window within the cap.
LEMMA AdmittedFits ==
    ASSUME NEW v, NEW w, NEW series \in Series, seriesCap \in Nat,
           Cardinality(SeriesIn(w)) <= seriesCap, Admits(w, series),
           SeriesIn(v) \subseteq SeriesIn(w) \cup {series}
    PROVE  Cardinality(SeriesIn(v)) <= seriesCap
<1>1. CASE series \in SeriesIn(w)
    BY <1>1, FewerSeries
<1>2. CASE series \notin SeriesIn(w)
  <2>1. Cardinality(SeriesIn(w)) < seriesCap
      BY <1>2 DEF Admits, SeriesIn
  <2>2. /\ IsFiniteSet(SeriesIn(w) \cup {series})
        /\ Cardinality(SeriesIn(w) \cup {series}) = Cardinality(SeriesIn(w)) + 1
      BY <1>2, SeriesFinite, FS_AddElement
  <2>3. Cardinality(SeriesIn(v)) <= Cardinality(SeriesIn(w) \cup {series})
      BY <2>2, FS_Subset
  <2>4. Cardinality(SeriesIn(v)) \in Nat /\ Cardinality(SeriesIn(w)) \in Nat
      BY SeriesFinite
  <2>. QED BY <2>1, <2>2, <2>3, <2>4
<1>. QED BY <1>1, <1>2

\* Merging back keeps the window within the cap, and loses nothing of it.
LEMMA MergeFits ==
    ASSUME NEW old \in Window, window \in Window, seriesCap \in Nat,
           Cardinality(SeriesIn(window)) <= seriesCap,
           Cardinality(SeriesIn(old)) <= seriesCap
    PROVE  /\ MergedBack(old) \in Window
           /\ Cardinality(SeriesIn(MergedBack(old))) <= seriesCap
           /\ window["count"] \subseteq MergedBack(old)["count"]
           /\ MergedBack(old)["count"] \subseteq window["count"] \cup old["count"]
           /\ MergedBack(old)["gauge"] \subseteq window["gauge"] \cup old["gauge"]
<1>. DEFINE m == MergedBack(old)
<1>1. /\ m \in Window /\ \A s \in Series : m[s] \subseteq window[s] \cup old[s]
      /\ \A s \in Series : ~Admits(window, s) => m[s] = {}
    BY DEF MergedBack, Window
<1>2. window["count"] \subseteq m["count"]
    BY DEF MergedBack, Admits, Series
<1>3. Cardinality(SeriesIn(m)) <= seriesCap
  <2>1. CASE SeriesIn(window) = {}
    <3>1. SeriesIn(m) \subseteq SeriesIn(old)
        BY <1>1, <2>1 DEF SeriesIn
    <3>. QED BY <3>1, FewerSeries
  <2>2. CASE SeriesIn(window) # {}
    <3>1. PICK s \in Series : s \in SeriesIn(window)
        BY <2>2 DEF SeriesIn
    <3>2. PICK t \in Series : Series = {s, t}
        BY <3>1 DEF Series
    <3>3. CASE Admits(window, t)
      <4>1. SeriesIn(m) \subseteq SeriesIn(window) \cup {t}
          BY <3>1, <3>2 DEF SeriesIn
      <4>. QED BY <3>3, <4>1, AdmittedFits
    <3>4. CASE ~Admits(window, t)
      <4>1. SeriesIn(m) \subseteq SeriesIn(window)
          BY <1>1, <3>1, <3>2, <3>4 DEF SeriesIn
      <4>. QED BY <4>1, FewerSeries
    <3>. QED BY <3>3, <3>4
  <2>. QED BY <2>1, <2>2
<1>. QED BY <1>1, <1>2, <1>3 DEF Series

--------------------------------------------------------------------------------
(* Steps of one flush.                                                      *)

MTypes == MetricsTypeOK /\ TakenWhole

\* What the types say of a flush.
LEMMA FlushFields ==
    ASSUME MTypes
    PROVE  /\ DOMAIN flushes = 1..Len(flushes) /\ Len(flushes) \in Nat
           /\ Len(flushes) <= MaxFlushes /\ flushTail \in 0..Len(flushes)
           /\ \A f \in DOMAIN flushes : flushes[f] \in MetricsFlush /\ f \in Nat
           /\ \A f \in DOMAIN flushes :
                /\ flushes[f].taken \in Window /\ flushes[f].after \in 0..MaxFlushes
                /\ flushes[f].phase \in {"waiting", "sending", "ending", "done"}
           /\ seriesCap \in Nat /\ window \in Window
           /\ NoSeries \in Window /\ NoSeries["count"] = {} /\ NoSeries["gauge"] = {}
<1>1. flushes \in Seq(MetricsFlush) /\ seriesCap \in Nat
    BY MetricsConstants DEF MTypes, MetricsTypeOK
<1>2. \A f \in DOMAIN flushes : flushes[f] \in MetricsFlush
    BY <1>1
<1>3. DOMAIN flushes = 1..Len(flushes) /\ Len(flushes) \in Nat
    BY <1>1
<1>. QED BY <1>1, <1>2, <1>3, NoSeriesIsWindow
         DEF MTypes, MetricsTypeOK, MetricsFlush

\* One flush, f, is new or changed.
OneChanges(f) ==
    /\ DOMAIN flushes' = DOMAIN flushes \cup {f} /\ flushes' \in Seq(MetricsFlush)
    /\ \A g \in DOMAIN flushes : g # f => flushes'[g] = flushes[g]

\* It takes the live window or none.
Takes(f) ==
    \/ /\ flushes'[f].phase = "sending" /\ flushes'[f].taken = window /\ window' = NoSeries
       /\ SeriesIn(window) # {}
    \/ flushes'[f].phase # "sending" /\ flushes'[f].taken = NoSeries /\ window' = window

\* _doFlush of a flush of the list that holds no window.
LEMMA DoFlushTakes ==
    ASSUME MTypes, NEW list \in Seq(MetricsFlush), NEW f \in DOMAIN list,
           list[f].taken = NoSeries, DoFlush(list, f)
    PROVE  /\ flushes' \in Seq(MetricsFlush) /\ DOMAIN flushes' = DOMAIN list
           /\ Len(flushes') = Len(list)
           /\ \A g \in DOMAIN list : g # f => flushes'[g] = list[g]
           /\ Takes(f) /\ flushes'[f].phase \in {"sending", "ending"}
           /\ flushes'[f].after = list[f].after /\ flushes'[f].core = list[f].core
           /\ list[f].core = metricsCore => window' = NoSeries \/ SeriesIn(window) = {}
           /\ list[f].core # metricsCore => window' = window
<1>1. list[f] \in MetricsFlush /\ DOMAIN list = 1..Len(list) /\ Len(list) \in Nat
    OBVIOUS
<1>2. window \in Window /\ generation \in Nat
    BY FlushFields, MetricsConstants DEF MTypes, MetricsTypeOK
<1>3. CASE list[f].core = metricsCore /\ SeriesIn(window) # {}
  <2>. DEFINE new == [list[f] EXCEPT !.phase = "sending", !.taken = window,
                                     !.born = generation]
  <2>1. flushes' = [list EXCEPT ![f] = new] /\ window' = NoSeries
      BY <1>1, <1>3 DEF DoFlush
  <2>2. /\ new \in MetricsFlush /\ new.phase = "sending" /\ new.taken = window
        /\ new.after = list[f].after /\ new.core = list[f].core
      BY <1>1, <1>2 DEF MetricsFlush
  <2>. HIDE DEF new
  <2>3. /\ flushes' \in Seq(MetricsFlush) /\ DOMAIN flushes' = DOMAIN list
        /\ Len(flushes') = Len(list) /\ flushes'[f] = new
        /\ \A g \in DOMAIN list : g # f => flushes'[g] = list[g]
      BY <1>1, <2>1, <2>2
  <2>. QED BY <1>3, <2>1, <2>2, <2>3 DEF Takes
<1>4. CASE ~(list[f].core = metricsCore /\ SeriesIn(window) # {})
  <2>. DEFINE new == [list[f] EXCEPT !.phase = "ending"]
  <2>1. flushes' = [list EXCEPT ![f] = new] /\ window' = window
      BY <1>1, <1>4 DEF DoFlush
  <2>2. /\ new \in MetricsFlush /\ new.phase = "ending" /\ new.taken = NoSeries
        /\ new.after = list[f].after /\ new.core = list[f].core
      BY <1>1 DEF MetricsFlush
  <2>. HIDE DEF new
  <2>3. /\ flushes' \in Seq(MetricsFlush) /\ DOMAIN flushes' = DOMAIN list
        /\ Len(flushes') = Len(list) /\ flushes'[f] = new
        /\ \A g \in DOMAIN list : g # f => flushes'[g] = list[g]
      BY <1>1, <2>1, <2>2
  <2>. QED BY <1>4, <2>1, <2>2, <2>3 DEF Takes
<1>. QED BY <1>3, <1>4

\* A new flush waits for the last one, or does its work at once.
LEMMA NewFlushTakes ==
    ASSUME MTypes, NewMetricsFlush
    PROVE  LET n == Len(flushes) + 1
           IN  /\ n \notin DOMAIN flushes /\ n <= MaxFlushes /\ n \in Nat
               /\ OneChanges(n) /\ Takes(n) /\ flushTail' = n /\ Len(flushes') = n
               /\ flushTail # 0 =>
                    /\ flushes'[n].phase = "waiting" /\ flushes'[n].after = flushTail
                    /\ flushes'[n].core = metricsCore /\ window' = window
               /\ flushTail = 0 =>
                    /\ flushes'[n].phase \in {"sending", "ending"}
                    /\ window' = NoSeries \/ SeriesIn(window) = {}
<1>. DEFINE n == Len(flushes) + 1
            new == [phase |-> "waiting", after |-> flushTail, taken |-> NoSeries,
                    born |-> generation, core |-> metricsCore]
            list == Append(flushes, new)
<1>1. /\ Len(list) <= MaxFlushes /\ flushTail' = Len(list)
      /\ IF flushTail = 0 THEN DoFlush(list, Len(list))
                          ELSE flushes' = list /\ UNCHANGED window
    BY DEF NewMetricsFlush
<1>2. /\ flushes \in Seq(MetricsFlush) /\ Len(flushes) \in Nat
      /\ DOMAIN flushes = 1..Len(flushes)
    BY FlushFields DEF MTypes, MetricsTypeOK
<1>3. /\ new \in MetricsFlush /\ new.phase = "waiting" /\ new.taken = NoSeries
      /\ new.after = flushTail /\ new.core = metricsCore
  <2>1. flushTail \in 0..MaxFlushes /\ generation \in Nat /\ metricsCore \in Nat
      BY FlushFields, MetricsConstants DEF MTypes, MetricsTypeOK
  <2>. QED BY <2>1, FlushFields DEF MetricsFlush
<1>. HIDE DEF new
<1>4. /\ list \in Seq(MetricsFlush) /\ Len(list) = n /\ DOMAIN list = 1..n /\ list[n] = new
      /\ \A g \in DOMAIN flushes : list[g] = flushes[g]
    BY <1>2, <1>3
<1>5. n \notin DOMAIN flushes /\ n \in DOMAIN list /\ DOMAIN list = DOMAIN flushes \cup {n}
    BY <1>2, <1>4
<1>. HIDE DEF list, n
<1>6. CASE flushTail # 0
  <2>1. flushes' = list /\ window' = window
      BY <1>1, <1>6
  <2>. QED BY <1>1, <1>2, <1>3, <1>4, <1>5, <1>6, <2>1 DEF OneChanges, Takes, n
<1>7. CASE flushTail = 0
  <2>1. /\ flushes' \in Seq(MetricsFlush) /\ DOMAIN flushes' = DOMAIN list
        /\ Len(flushes') = Len(list)
        /\ \A g \in DOMAIN list : g # n => flushes'[g] = list[g]
        /\ Takes(n) /\ flushes'[n].phase \in {"sending", "ending"}
        /\ window' = NoSeries \/ SeriesIn(window) = {}
    <3>1. DoFlush(list, n)
        BY <1>1, <1>4, <1>7
    <3>. QED BY <1>3, <1>4, <1>5, <3>1, DoFlushTakes
  <2>2. OneChanges(n)
      BY <1>4, <1>5, <2>1 DEF OneChanges
  <2>. QED BY <1>1, <1>2, <1>4, <1>5, <1>7, <2>1, <2>2 DEF n
<1>. QED BY <1>6, <1>7

LEMMA TurnTakes ==
    ASSUME MTypes, NEW f \in DOMAIN flushes, FlushTurn(f)
    PROVE  /\ OneChanges(f) /\ Takes(f) /\ Len(flushes') = Len(flushes)
           /\ flushes[f].phase = "waiting" /\ flushes[f].taken = NoSeries
           /\ flushes'[f].phase \in {"sending", "ending"}
           /\ flushes[f].core = metricsCore => window' = NoSeries \/ SeriesIn(window) = {}
           /\ flushes[f].core # metricsCore => window' = window
<1>1. flushes \in Seq(MetricsFlush) /\ flushes[f].phase = "waiting" /\ DoFlush(flushes, f)
    BY DEF FlushTurn, MTypes, MetricsTypeOK
<1>2. flushes[f].taken = NoSeries
    BY <1>1 DEF MTypes, TakenWhole
<1>. QED BY <1>1, <1>2, DoFlushTakes DEF OneChanges

\* A flush that stops holding a window.
LEMMA LetsGo ==
    ASSUME MTypes, NEW f \in DOMAIN flushes, NEW new \in MetricsFlush,
           flushes' = [flushes EXCEPT ![f] = new]
    PROVE  OneChanges(f) /\ Len(flushes') = Len(flushes) /\ flushes'[f] = new
<1>1. flushes \in Seq(MetricsFlush)
    BY DEF MTypes, MetricsTypeOK
<1>2. /\ flushes' \in Seq(MetricsFlush) /\ DOMAIN flushes' = DOMAIN flushes
      /\ Len(flushes') = Len(flushes) /\ flushes'[f] = new
      /\ \A g \in DOMAIN flushes : g # f => flushes'[g] = flushes[g]
    BY <1>1
<1>. QED BY <1>2 DEF OneChanges

LEMMA SendEnds ==
    ASSUME MTypes, NEW f \in DOMAIN flushes,
           flushes' = [flushes EXCEPT ![f].phase = "ending", ![f].taken = NoSeries]
    PROVE  /\ OneChanges(f) /\ Len(flushes') = Len(flushes)
           /\ flushes'[f].phase = "ending" /\ flushes'[f].taken = NoSeries
<1>. DEFINE new == [flushes[f] EXCEPT !.phase = "ending", !.taken = NoSeries]
<1>1. flushes[f] \in MetricsFlush /\ NoSeries \in Window
    BY FlushFields
<1>2. flushes' = [flushes EXCEPT ![f] = new]
    BY <1>1
<1>3. new \in MetricsFlush /\ new.phase = "ending" /\ new.taken = NoSeries
    BY <1>1 DEF MetricsFlush
<1>. HIDE DEF new
<1>. QED BY <1>2, <1>3, LetsGo

LEMMA FlushEndsAlone ==
    ASSUME MTypes, NEW f \in DOMAIN flushes, flushes' = [flushes EXCEPT ![f] = SettledFlush]
    PROVE  /\ OneChanges(f) /\ Len(flushes') = Len(flushes)
           /\ flushes'[f].phase = "done" /\ flushes'[f].taken = NoSeries
<1>1. SettledFlush \in MetricsFlush
    BY FlushFields, MetricsConstants DEF SettledFlush, MetricsFlush
<1>. QED BY <1>1, LetsGo DEF SettledFlush

--------------------------------------------------------------------------------
(* Counted samples and gauges, as flushes take windows and end.             *)

\* What the types say of what was changed.
LEMMA ChangedFields ==
    ASSUME MTypes, NEW f, OneChanges(f)
    PROVE  /\ f \in DOMAIN flushes'
           /\ \A g \in DOMAIN flushes' : g # f => g \in DOMAIN flushes /\ flushes'[g] = flushes[g]
           /\ \A g \in DOMAIN flushes : g \in DOMAIN flushes'
           /\ \A g \in DOMAIN flushes' : g \in Nat /\ flushes'[g] \in MetricsFlush
           /\ \A g \in DOMAIN flushes' : g <= Len(flushes')
           /\ DOMAIN flushes' = 1..Len(flushes') /\ Len(flushes') \in Nat
<1>1. /\ DOMAIN flushes' = DOMAIN flushes \cup {f} /\ flushes' \in Seq(MetricsFlush)
      /\ \A g \in DOMAIN flushes : g # f => flushes'[g] = flushes[g]
    BY DEF OneChanges
<1>2. /\ DOMAIN flushes' = 1..Len(flushes') /\ Len(flushes') \in Nat
      /\ \A g \in DOMAIN flushes' : flushes'[g] \in MetricsFlush
  <2>1. \A s \in Seq(MetricsFlush) : /\ DOMAIN s = 1..Len(s) /\ Len(s) \in Nat
                                    /\ \A g \in DOMAIN s : s[g] \in MetricsFlush
      OBVIOUS
  <2>. QED BY <1>1, <2>1
<1>3. \A g \in DOMAIN flushes' : g \in Nat /\ g <= Len(flushes')
    BY <1>2
<1>. QED BY <1>1, <1>2, <1>3

\* The samples in flight are those of the other flushes and of the one that changed.
LEMMA InFlightChanges ==
    ASSUME MTypes, NEW f, OneChanges(f), flushes'[f].taken["count"] \subseteq Samples
    PROVE  /\ \A n \in Samples :
                n \in InFlight' <=> \/ n \in flushes'[f].taken["count"]
                                    \/ \E g \in DOMAIN flushes :
                                         g # f /\ n \in flushes[g].taken["count"]
           /\ InFlight' \subseteq Samples
BY ChangedFields DEF InFlight

LEMMA TakesKeeps ==
    ASSUME MTypes, FlushesNumbered, OneHome, NEW f, OneChanges(f), Takes(f),
           f \in DOMAIN flushes => flushes[f].taken = NoSeries,
           UNCHANGED <<seriesCap, samples, counted, generation, metricsCore, sent,
                       writtenOff, newestGauge>>
    PROVE  TakenWhole' /\ FlushesNumbered' /\ OneHome' /\ window' \in Window
           /\ Cardinality(SeriesIn(window')) <= seriesCap
<1>1. /\ window \in Window /\ seriesCap \in Nat /\ Cardinality(SeriesIn(window)) <= seriesCap
      /\ NoSeries \in Window /\ NoSeries["count"] = {} /\ NoSeries["gauge"] = {}
      /\ Cardinality(SeriesIn(NoSeries)) <= seriesCap
      /\ window["count"] \subseteq Samples /\ window["gauge"] \subseteq Samples
    BY FlushFields, NoSeriesIsWindow DEF MTypes, MetricsTypeOK, Window, Series
<1>2. /\ flushes'[f].taken \in {window, NoSeries} /\ window' \in {window, NoSeries}
      /\ flushes'[f].phase # "sending" => flushes'[f].taken = NoSeries
      /\ \/ flushes'[f].taken = window /\ window' = NoSeries
         \/ flushes'[f].taken = NoSeries /\ window' = window
    BY DEF Takes
<1>3. /\ f \in DOMAIN flushes'
      /\ \A g \in DOMAIN flushes' : g # f => g \in DOMAIN flushes /\ flushes'[g] = flushes[g]
    BY ChangedFields
<1>4. TakenWhole'
  <2>1. \A g \in DOMAIN flushes' :
          /\ flushes'[g].phase # "sending" => flushes'[g].taken = NoSeries
          /\ Cardinality(SeriesIn(flushes'[g].taken)) <= seriesCap
      BY <1>1, <1>2, <1>3 DEF MTypes, TakenWhole
  <2>2. metricsCore' <= generation'
      BY DEF MTypes, TakenWhole
  <2>3. Cardinality(SeriesIn(window')) <= seriesCap
      BY <1>1, <1>2
  <2>. QED BY <2>1, <2>2 DEF TakenWhole, SeriesIn
<1>5. FlushesNumbered'
    BY <1>1, <1>2, <1>3 DEF FlushesNumbered
<1>6. OneHome'
  <2>1. \A n \in Samples :
          n \in InFlight <=> \E g \in DOMAIN flushes : g # f /\ n \in flushes[g].taken["count"]
      BY <1>1 DEF InFlight
  <2>2. /\ InFlight' \subseteq Samples /\ InFlight \subseteq Samples
        /\ \A n \in Samples :
              n \in InFlight' <=> n \in InFlight \/ n \in flushes'[f].taken["count"]
      BY <1>1, <1>2, <2>1, InFlightChanges DEF InFlight
  <2>3. InFlight' = InFlight \cup flushes'[f].taken["count"]
      BY <1>1, <1>2, <2>2
  <2>4. \A g, h \in DOMAIN flushes' :
          g # h => flushes'[g].taken["count"] \cap flushes'[h].taken["count"] = {}
    <3>1. ASSUME NEW g \in DOMAIN flushes', g # f
          PROVE  flushes'[g].taken["count"] \cap flushes'[f].taken["count"] = {}
      <4>1. flushes'[g].taken["count"] \cap Samples \subseteq InFlight
          BY <1>3, <3>1 DEF InFlight
      <4>2. flushes'[f].taken["count"] \in {window["count"], {}}
          BY <1>1, <1>2
      <4>. QED BY <1>1, <4>1, <4>2 DEF OneHome
    <3>2. \A g, h \in DOMAIN flushes' : g # f /\ h # f /\ g # h =>
            flushes'[g].taken["count"] \cap flushes'[h].taken["count"] = {}
        BY <1>3 DEF OneHome
    <3>. QED BY <3>1, <3>2
  <2>5. /\ window'["count"] \cup flushes'[f].taken["count"] = window["count"]
        /\ window'["count"] \cap flushes'[f].taken["count"] = {}
      BY <1>1, <1>2
  <2>. QED BY <2>3, <2>4, <2>5 DEF OneHome
<1>. QED BY <1>1, <1>2, <1>4, <1>5, <1>6

\* With flushes that follow one another, no other holds a window.
LEMMA TakesKeepsGauges ==
    ASSUME MTypes, GaugesNewer, NEW f, OneChanges(f), Takes(f), FlushesFollow', TakenWhole',
           newestGauge' = newestGauge
    PROVE  GaugesNewer'
<1>1. NoSeries["gauge"] = {}
    BY FlushFields
<1>2. /\ f \in DOMAIN flushes' /\ f \in Nat
      /\ \A g \in DOMAIN flushes' : g \in Nat
      /\ \A g \in DOMAIN flushes' : g # f => g \in DOMAIN flushes /\ flushes'[g] = flushes[g]
    BY ChangedFields
<1>3. CASE /\ flushes'[f].phase = "sending" /\ flushes'[f].taken = window
           /\ window' = NoSeries
  <2>1. ASSUME NEW g \in DOMAIN flushes', g # f
        PROVE  flushes'[g].phase # "sending"
    <3>1. CASE g < f
        BY <1>2, <1>3, <2>1, <3>1 DEF FlushesFollow
    <3>2. CASE f < g
        BY <1>2, <1>3, <2>1, <3>2 DEF FlushesFollow
    <3>. QED BY <1>2, <2>1, <3>1, <3>2
  <2>2. \A g \in DOMAIN flushes' : g # f => flushes'[g].taken["gauge"] = {}
      BY <1>1, <2>1 DEF TakenWhole
  <2>. QED BY <1>1, <1>2, <1>3, <2>2 DEF GaugesNewer
<1>4. CASE flushes'[f].taken = NoSeries /\ window' = window
    BY <1>1, <1>2, <1>4 DEF GaugesNewer
<1>. QED BY <1>3, <1>4 DEF Takes

\* A flush whose send has settled lets its window go; its counted samples are sent,
\* written off or back in the live window.
LEMMA SendKeeps ==
    ASSUME MTypes, FlushesNumbered, OneHome, NEW f \in DOMAIN flushes, NEW outcome,
           SendSettles(f, outcome)
    PROVE  /\ TakenWhole' /\ FlushesNumbered' /\ OneHome' /\ window' \in Window
           /\ Cardinality(SeriesIn(window')) <= seriesCap
           /\ sent' \subseteq Samples /\ writtenOff' \subseteq Samples
           /\ newestGauge' \in 0..MaxSamples
<1>. DEFINE old == flushes[f].taken
            merging == outcome = "retry-later" /\ flushes[f].born = generation
<1>1. /\ flushes[f].phase = "sending"
      /\ flushes' = [flushes EXCEPT ![f].phase = "ending", ![f].taken = NoSeries]
      /\ IF merging THEN window' = MergedBack(old) /\ windowTimer' = TRUE
                    ELSE UNCHANGED <<window, windowTimer>>
      /\ IF outcome = "ok"
         THEN /\ sent' = sent \cup old["count"]
              /\ newestGauge' = IF old["gauge"] = {} THEN newestGauge
                                ELSE CHOOSE n \in old["gauge"] : TRUE
              /\ UNCHANGED writtenOff
         ELSE /\ writtenOff' = writtenOff \cup
                    (old["count"] \ IF merging THEN window'["count"] ELSE {})
              /\ UNCHANGED <<sent, newestGauge>>
      /\ UNCHANGED <<seriesCap, samples, counted, flushTail, generation, metricsCore,
                     bypassed>>
    BY DEF SendSettles
<1>2. OneChanges(f) /\ flushes'[f].phase = "ending" /\ flushes'[f].taken = NoSeries
    BY <1>1, SendEnds
<1>3. /\ window \in Window /\ seriesCap \in Nat /\ old \in Window
      /\ Cardinality(SeriesIn(window)) <= seriesCap /\ Cardinality(SeriesIn(old)) <= seriesCap
      /\ NoSeries["count"] = {} /\ NoSeries["gauge"] = {}
      /\ Cardinality(SeriesIn(NoSeries)) <= seriesCap
      /\ window["count"] \subseteq Samples /\ old["count"] \subseteq Samples
      /\ window["gauge"] \subseteq Samples /\ old["gauge"] \subseteq Samples
    BY FlushFields, NoSeriesIsWindow DEF MTypes, TakenWhole, MetricsTypeOK, Window, Series
<1>4. /\ window' \in Window /\ Cardinality(SeriesIn(window')) <= seriesCap
      /\ window["count"] \subseteq window'["count"]
      /\ window'["count"] \subseteq window["count"] \cup old["count"]
      /\ window'["gauge"] \subseteq window["gauge"] \cup old["gauge"]
      /\ ~merging => window' = window
  <2>1. CASE merging
      BY <1>1, <1>3, <2>1, MergeFits
  <2>2. CASE ~merging
      BY <1>1, <1>3, <2>2
  <2>. QED BY <2>1, <2>2
<1>5. \A g \in DOMAIN flushes' : g # f => g \in DOMAIN flushes /\ flushes'[g] = flushes[g]
    BY <1>2, ChangedFields
<1>6. TakenWhole'
  <2>1. \A g \in DOMAIN flushes' :
          /\ flushes'[g].phase # "sending" => flushes'[g].taken = NoSeries
          /\ Cardinality(SeriesIn(flushes'[g].taken)) <= seriesCap
      BY <1>2, <1>3, <1>5 DEF MTypes, TakenWhole
  <2>2. metricsCore' <= generation' /\ seriesCap' = seriesCap
      BY <1>1 DEF MTypes, TakenWhole
  <2>. QED BY <2>1, <2>2 DEF TakenWhole, SeriesIn
<1>7. newestGauge' \in old["gauge"] \cup {newestGauge}
    BY <1>1
<1>8. newestGauge' \in 0..MaxSamples /\ newestGauge' <= samples
  <2>1. newestGauge \in 0..MaxSamples /\ newestGauge <= samples
      BY DEF FlushesNumbered, MTypes, MetricsTypeOK
  <2>2. \A n \in old["gauge"] : n \in 0..MaxSamples /\ n <= samples
    <3>1. \A n \in Samples : n \in 0..MaxSamples
        BY MetricsConstants DEF Samples
    <3>. QED BY <1>3, <3>1 DEF FlushesNumbered
  <2>. QED BY <1>7, <2>1, <2>2
<1>9. FlushesNumbered'
  <2>1. counted' \subseteq 1..samples' /\ samples' = samples
      BY <1>1 DEF FlushesNumbered
  <2>2. \A n \in window'["gauge"] : n <= samples'
      BY <1>1, <1>4 DEF FlushesNumbered
  <2>3. \A g \in DOMAIN flushes' : \A n \in flushes'[g].taken["gauge"] : n <= samples'
      BY <1>1, <1>2, <1>3, <1>5 DEF FlushesNumbered
  <2>. QED BY <1>1, <1>8, <2>1, <2>2, <2>3 DEF FlushesNumbered
<1>10. /\ old["count"] \subseteq InFlight
       /\ \A n \in Samples : n \in InFlight' <=> n \in InFlight /\ n \notin old["count"]
       /\ InFlight' \subseteq Samples /\ InFlight \subseteq Samples
  <2>1. old["count"] \subseteq InFlight
      BY <1>3 DEF InFlight
  <2>2. \A n \in Samples :
          n \in InFlight' <=> \E g \in DOMAIN flushes : g # f /\ n \in flushes[g].taken["count"]
      BY <1>2, <1>3, InFlightChanges
  <2>3. \A g \in DOMAIN flushes : g # f => flushes[g].taken["count"] \cap old["count"] = {}
      BY DEF OneHome
  <2>4. InFlight' \subseteq Samples /\ InFlight \subseteq Samples
      BY DEF InFlight
  <2>. QED BY <2>1, <2>2, <2>3, <2>4 DEF InFlight
<1>11. InFlight' = InFlight \ old["count"]
    BY <1>10
<1>12. /\ sent' \cup writtenOff' \cup window'["count"]
            = sent \cup writtenOff \cup window["count"] \cup old["count"]
       /\ sent' \subseteq sent \cup old["count"]
       /\ writtenOff' \subseteq writtenOff \cup old["count"]
       /\ sent \subseteq sent' /\ writtenOff \subseteq writtenOff'
       /\ sent' \cap writtenOff' = {} /\ sent' \cap window'["count"] = {}
       /\ writtenOff' \cap window'["count"] = {}
  <2>1. /\ window["count"] \cap old["count"] = {} /\ sent \cap old["count"] = {}
        /\ writtenOff \cap old["count"] = {} /\ sent \cap writtenOff = {}
        /\ window["count"] \cap sent = {} /\ window["count"] \cap writtenOff = {}
      BY <1>10 DEF OneHome
  <2>. HIDE DEF old
  <2>2. CASE outcome = "ok"
    <3>1. ~merging /\ sent' = sent \cup old["count"] /\ writtenOff' = writtenOff
        BY <1>1, <2>2
    <3>. QED BY <1>4, <2>1, <3>1
  <2>3. CASE outcome # "ok" /\ merging
    <3>1. sent' = sent /\ writtenOff' = writtenOff \cup (old["count"] \ window'["count"])
        BY <1>1, <2>3
    <3>. HIDE DEF merging
    <3>. QED BY <1>4, <2>1, <3>1
  <2>4. CASE outcome # "ok" /\ ~merging
    <3>1. sent' = sent /\ writtenOff' = writtenOff \cup old["count"] /\ window' = window
        BY <1>1, <1>4, <2>4
    <3>. HIDE DEF merging
    <3>. QED BY <2>1, <3>1
  <2>. QED BY <2>2, <2>3, <2>4
<1>13. OneHome'
  <2>1. \A g, h \in DOMAIN flushes' :
          g # h => flushes'[g].taken["count"] \cap flushes'[h].taken["count"] = {}
      BY <1>2, <1>3, <1>5 DEF OneHome
  <2>2. counted' = counted
      BY <1>1
  <2>3. counted = window["count"] \cup InFlight \cup sent \cup writtenOff
      BY DEF OneHome
  <2>4. /\ window["count"] \cap InFlight = {} /\ InFlight \cap sent = {}
        /\ InFlight \cap writtenOff = {}
      BY DEF OneHome
  <2>. HIDE DEF old
  <2>5. counted' = window'["count"] \cup InFlight' \cup sent' \cup writtenOff'
      BY <1>10, <1>11, <1>12, <2>2, <2>3
  <2>6. /\ window'["count"] \cap InFlight' = {} /\ InFlight' \cap sent' = {}
        /\ InFlight' \cap writtenOff' = {}
      BY <1>4, <1>11, <1>12, <2>4
  <2>. QED BY <1>12, <2>1, <2>5, <2>6 DEF OneHome
<1>14. sent' \subseteq Samples /\ writtenOff' \subseteq Samples
    BY <1>3, <1>12 DEF MTypes, MetricsTypeOK
<1>. QED BY <1>4, <1>6, <1>8, <1>9, <1>13, <1>14

--------------------------------------------------------------------------------
(* Every step of the metrics client keeps the invariant.                    *)

LEMMA MetricsBegins == MetricsInit => MetricsInv
<1>. SUFFICES ASSUME MetricsInit PROVE MetricsInv
    OBVIOUS
<1>1. /\ seriesCap \in Nat /\ seriesCap \in 1..Cardinality(Series) /\ samples = 0
      /\ counted = {} /\ window = NoSeries /\ windowTimer = FALSE /\ flushes = <<>>
      /\ flushTail = 0 /\ generation = 0 /\ metricsCore = 0 /\ sent = {} /\ writtenOff = {}
      /\ newestGauge = 0 /\ bypassed = FALSE
    BY MetricsConstants DEF MetricsInit
<1>2. /\ NoSeries \in Window /\ SeriesIn(NoSeries) = {} /\ NoSeries["count"] = {}
      /\ NoSeries["gauge"] = {} /\ Cardinality(SeriesIn(NoSeries)) <= seriesCap
    BY <1>1, NoSeriesIsWindow
<1>3. DOMAIN flushes = {} /\ Len(flushes) = 0 /\ flushes \in Seq(MetricsFlush)
    BY <1>1
<1>4. InFlight = {}
    BY <1>3 DEF InFlight
<1>5. MetricsTypeOK
  <2>1. Cardinality(SeriesIn(window)) <= seriesCap /\ window \in Window
      BY <1>1, <1>2
  <2>2. /\ samples \in 0..MaxSamples /\ newestGauge \in 0..MaxSamples
        /\ generation \in 0..MaxResets /\ metricsCore \in 0..MaxResets
        /\ flushTail \in 0..Len(flushes) /\ Len(flushes) <= MaxFlushes
      BY <1>1, <1>3, MetricsConstants
  <2>. QED BY <1>1, <1>3, <2>1, <2>2 DEF MetricsTypeOK
<1>6. TakenWhole /\ FlushesNumbered /\ OneHome /\ WindowAwaited /\ Serialized
    BY <1>1, <1>2, <1>3, <1>4
       DEF TakenWhole, FlushesNumbered, OneHome, WindowAwaited, Serialized, FlushesFollow,
           GaugesNewer
<1>. QED BY <1>5, <1>6 DEF MetricsInv

\* Steps that leave the flushes alone.
LEMMA FlushesSame ==
    ASSUME UNCHANGED flushes
    PROVE  /\ InFlight' = InFlight
           /\ TakenWhole /\ UNCHANGED <<seriesCap>> /\ metricsCore' <= generation' => TakenWhole'
           /\ FlushesFollow /\ UNCHANGED flushTail => FlushesFollow'
BY DEF InFlight, TakenWhole, FlushesFollow, SeriesIn

LEMMA CaptureMetricKeeps ==
    ASSUME MetricsInv, NEW series \in Series, CaptureMetric(series)
    PROVE  MetricsInv'
<1>. DEFINE n == samples + 1
<1>1. /\ samples < MaxSamples /\ samples' = n
      /\ counted' = IF series = "count" THEN counted \cup {n} ELSE counted
      /\ UNCHANGED <<seriesCap, flushes, flushTail, generation, metricsCore, sent,
                     newestGauge, bypassed>>
    BY DEF CaptureMetric
<1>2. /\ MTypes /\ MetricsTypeOK /\ TakenWhole /\ FlushesNumbered /\ OneHome
      /\ WindowAwaited /\ Serialized
    BY DEF MetricsInv, MTypes
<1>3. /\ window \in Window /\ seriesCap \in Nat /\ Cardinality(SeriesIn(window)) <= seriesCap
      /\ window["count"] \subseteq Samples /\ window["gauge"] \subseteq Samples
    BY <1>2, FlushFields DEF MetricsTypeOK, Window, Series
<1>4. n \in Samples /\ n \in 0..MaxSamples /\ samples \in Nat /\ n \in Nat /\ n > samples
    BY <1>1, <1>2, MetricsConstants DEF MetricsTypeOK, Samples
<1>5. n \notin counted /\ n \notin window["gauge"] /\ counted' \subseteq Samples
      /\ counted' \subseteq 1..n
    BY <1>1, <1>2, <1>4 DEF FlushesNumbered, MetricsTypeOK
<1>6. /\ InFlight' = InFlight /\ TakenWhole'
      /\ FlushesFollow => FlushesFollow'
    BY <1>1, <1>2, FlushesSame DEF TakenWhole
<1>12. \A f \in DOMAIN flushes : \A m \in flushes[f].taken["gauge"] : m \in Nat /\ m <= samples
  <2>1. ASSUME NEW f \in DOMAIN flushes, NEW m \in flushes[f].taken["gauge"]
        PROVE  m \in Nat /\ m <= samples
    <3>1. flushes[f].taken \in Window
        BY <1>2, FlushFields
    <3>2. m \in Samples
        BY <2>1, <3>1 DEF Window, Series
    <3>. QED BY <1>2, <3>2 DEF FlushesNumbered, Samples
  <2>. QED BY <2>1
<1>. HIDE DEF n
<1>7. /\ window' \in Window /\ Cardinality(SeriesIn(window')) <= seriesCap
      /\ windowTimer' \in BOOLEAN /\ writtenOff' \subseteq Samples
      /\ WindowAwaited'
      /\ window'["gauge"] \subseteq window["gauge"] \cup {n}
      /\ window["count"] \subseteq window'["count"]
      /\ window'["count"] \cup writtenOff'
           = window["count"] \cup writtenOff \cup (counted' \ counted)
      /\ window'["count"] \subseteq window["count"] \cup (counted' \ counted)
      /\ writtenOff' \subseteq writtenOff \cup (counted' \ counted)
      /\ writtenOff' = writtenOff \/ window' = window
  <2>1. counted' \ counted = IF series = "count" THEN {n} ELSE {}
      BY <1>1, <1>5
  <2>2. CASE Admits(window, series)
    <3>1. /\ window' = Folded(window, series, n) /\ windowTimer' = TRUE
          /\ writtenOff' = writtenOff
        BY <2>2 DEF CaptureMetric, n
    <3>2. /\ window' \in Window
          /\ \A s \in Series : s # series => window'[s] = window[s]
          /\ window'[series] = IF series = "gauge" THEN {n} ELSE window[series] \cup {n}
      <4>1. window' = [window EXCEPT ![series] = IF series = "gauge" THEN {n}
                                                 ELSE window[series] \cup {n}]
          BY <3>1 DEF Folded
      <4>2. (IF series = "gauge" THEN {n} ELSE window[series] \cup {n}) \in SUBSET Samples
          BY <1>3, <1>4 DEF Series
      <4>. QED BY <1>3, <4>1, <4>2 DEF Window
    <3>3. SeriesIn(window') \subseteq SeriesIn(window) \cup {series}
        BY <3>2 DEF SeriesIn
    <3>4. Cardinality(SeriesIn(window')) <= seriesCap
        BY <1>3, <2>2, <3>3, AdmittedFits
    <3>5. WindowAwaited'
        BY <3>1 DEF WindowAwaited
    <3>6. CASE series = "count"
        BY <1>2, <2>1, <3>1, <3>2, <3>4, <3>5, <3>6 DEF Series, MetricsTypeOK
    <3>7. CASE series = "gauge"
        BY <1>2, <2>1, <3>1, <3>2, <3>4, <3>5, <3>7 DEF Series, MetricsTypeOK
    <3>. QED BY <3>6, <3>7 DEF Series
  <2>3. CASE ~Admits(window, series)
    <3>1. /\ writtenOff' = writtenOff \cup (counted' \ counted)
          /\ UNCHANGED <<window, windowTimer>>
        BY <2>3 DEF CaptureMetric
    <3>2. WindowAwaited'
        BY <1>1, <1>2, <3>1 DEF WindowAwaited, SeriesIn
    <3>3. writtenOff' \subseteq Samples /\ windowTimer' \in BOOLEAN
        BY <1>2, <1>5, <3>1 DEF MetricsTypeOK
    <3>. QED BY <1>3, <3>1, <3>2, <3>3
  <2>. QED BY <2>2, <2>3
<1>8. MetricsTypeOK'
    BY <1>1, <1>2, <1>4, <1>5, <1>7 DEF MetricsTypeOK
<1>9. FlushesNumbered'
  <2>1. newestGauge <= n
      BY <1>2, <1>4 DEF FlushesNumbered, MetricsTypeOK
  <2>2. \A m \in window'["gauge"] : m <= n
    <3>1. \A m \in window["gauge"] : m \in Nat /\ m <= samples
        BY <1>2, <1>3 DEF FlushesNumbered, Samples
    <3>. QED BY <1>4, <1>7, <3>1
  <2>3. \A f \in DOMAIN flushes : \A m \in flushes[f].taken["gauge"] : m <= n
    <3>. QED BY <1>4, <1>12
  <2>. QED BY <1>1, <1>5, <2>1, <2>2, <2>3 DEF FlushesNumbered
<1>10. OneHome'
  <2>1. (counted' \ counted) \cap (window["count"] \cup InFlight \cup sent \cup writtenOff) = {}
      BY <1>2 DEF OneHome
  <2>2. counted \subseteq counted'
      BY <1>1
  <2>. QED BY <1>1, <1>2, <1>6, <1>7, <2>1, <2>2 DEF OneHome
<1>11. Serialized'
  <2>1. ASSUME ~bypassed PROVE GaugesNewer'
    <3>1. GaugesNewer
        BY <1>2, <2>1 DEF Serialized
    <3>2. n > newestGauge
        BY <1>2, <1>4 DEF FlushesNumbered, MetricsTypeOK
    <3>3. \A f \in DOMAIN flushes : \A m \in flushes[f].taken["gauge"] : n > m
      <4>. QED BY <1>4, <1>12
    <3>. QED BY <1>1, <1>7, <3>1, <3>2, <3>3 DEF GaugesNewer
  <2>. QED BY <1>1, <1>2, <1>6, <2>1 DEF Serialized
<1>. QED BY <1>6, <1>7, <1>8, <1>9, <1>10, <1>11 DEF MetricsInv

\* The new flush is the last; all before it had settled unless it waits.
LEMMA NewFlushFollows ==
    ASSUME MTypes, FlushesFollow, NewMetricsFlush
    PROVE  FlushesFollow'
<1>. DEFINE n == Len(flushes) + 1
<1>1. /\ OneChanges(n) /\ n \notin DOMAIN flushes /\ n \in Nat /\ flushTail' = n
      /\ Len(flushes') = n
      /\ flushTail # 0 => flushes'[n].phase = "waiting" /\ flushes'[n].after = flushTail
      /\ flushTail = 0 => flushes'[n].phase \in {"sending", "ending"}
    BY NewFlushTakes
<1>2. /\ \A g \in DOMAIN flushes' : g # n => g \in DOMAIN flushes /\ flushes'[g] = flushes[g]
      /\ n \in DOMAIN flushes' /\ \A g \in DOMAIN flushes' : g \in Nat /\ g <= n
    BY <1>1, ChangedFields
<1>3. flushTail \in Nat /\ (flushTail # 0 => flushTail = n - 1 /\ n > 1) /\ Len(flushes) \in Nat
    BY FlushFields DEF FlushesFollow
<1>. HIDE DEF n
<1>4. n # 0 /\ (flushTail' # 0 => flushTail' = Len(flushes'))
    BY <1>1, <1>3 DEF n
<1>5. ASSUME NEW f \in DOMAIN flushes', flushes'[f].phase = "waiting"
      PROVE  f > 1 /\ flushes'[f].after = f - 1
  <2>1. CASE f = n
      BY <1>1, <1>3, <1>5, <2>1
  <2>2. CASE f # n
      BY <1>2, <1>5, <2>2 DEF FlushesFollow
  <2>. QED BY <2>1, <2>2
<1>6. ASSUME NEW f \in DOMAIN flushes', NEW g \in DOMAIN flushes', f < g,
             flushes'[g].phase # "waiting"
      PROVE  flushes'[f].phase = "done"
  <2>1. f # n
      BY <1>1, <1>2, <1>6
  <2>2. CASE g = n
      BY <1>1, <1>2, <1>6, <2>1, <2>2 DEF FlushesFollow
  <2>3. CASE g # n
      BY <1>2, <1>6, <2>1, <2>3 DEF FlushesFollow
  <2>. QED BY <2>2, <2>3
<1>. QED BY <1>1, <1>4, <1>5, <1>6 DEF FlushesFollow

LEMMA NewFlushKeeps ==
    ASSUME MetricsInv, NewMetricsFlush, windowTimer' \in BOOLEAN,
           UNCHANGED <<seriesCap, samples, counted, generation, metricsCore, sent, writtenOff,
                       newestGauge, bypassed>>
    PROVE  MetricsInv'
<1>. DEFINE n == Len(flushes) + 1
<1>1. MTypes /\ MetricsTypeOK /\ TakenWhole /\ FlushesNumbered /\ OneHome /\ Serialized
    BY DEF MetricsInv, MTypes
<1>2. /\ n \notin DOMAIN flushes /\ n <= MaxFlushes /\ n \in Nat
      /\ OneChanges(n) /\ Takes(n) /\ flushTail' = n /\ Len(flushes') = n
      /\ flushTail # 0 => /\ flushes'[n].phase = "waiting" /\ flushes'[n].core = metricsCore
      /\ flushTail = 0 => window' = NoSeries \/ SeriesIn(window) = {}
    BY <1>1, NewFlushTakes
<1>. HIDE DEF n
<1>3. /\ TakenWhole' /\ FlushesNumbered' /\ OneHome' /\ window' \in Window
      /\ Cardinality(SeriesIn(window')) <= seriesCap
    BY <1>1, <1>2, TakesKeeps
<1>4. MetricsTypeOK'
  <2>1. flushTail' \in 0..Len(flushes') /\ Len(flushes') <= MaxFlushes
      BY <1>2
  <2>. QED BY <1>1, <1>2, <1>3, <2>1 DEF MetricsTypeOK, OneChanges
<1>5. WindowAwaited'
  <2>1. CASE flushTail # 0
    <3>1. n \in DOMAIN flushes'
        BY <1>1, <1>2, ChangedFields
    <3>. QED BY <1>2, <2>1, <3>1 DEF WindowAwaited
  <2>2. CASE flushTail = 0
    <3>1. SeriesIn(window') = {}
      <4>1. SeriesIn(NoSeries) = {}
          BY <1>1, FlushFields, NoSeriesIsWindow
      <4>2. window' = NoSeries \/ (window' = window /\ SeriesIn(window) = {})
          BY <1>2, <2>2 DEF Takes
      <4>. QED BY <4>1, <4>2 DEF SeriesIn
    <3>. QED BY <3>1 DEF WindowAwaited, SeriesIn
  <2>. QED BY <2>1, <2>2
<1>6. Serialized'
    BY <1>1, <1>2, <1>3, NewFlushFollows, TakesKeepsGauges DEF Serialized
<1>. QED BY <1>3, <1>4, <1>5, <1>6 DEF MetricsInv

\* A flush that has its turn follows settled ones only.
LEMMA TurnFollows ==
    ASSUME MTypes, FlushesFollow, NEW f \in DOMAIN flushes, FlushTurn(f)
    PROVE  FlushesFollow'
<1>1. /\ OneChanges(f) /\ Len(flushes') = Len(flushes) /\ flushes[f].phase = "waiting"
      /\ flushes'[f].phase \in {"sending", "ending"}
      /\ flushes[flushes[f].after].phase = "done" /\ flushTail' = flushTail
    BY TurnTakes DEF FlushTurn
<1>2. /\ \A g \in DOMAIN flushes' : g # f => g \in DOMAIN flushes /\ flushes'[g] = flushes[g]
      /\ \A g \in DOMAIN flushes' : g \in Nat /\ g <= Len(flushes) /\ g >= 1
      /\ DOMAIN flushes = 1..Len(flushes) /\ Len(flushes) \in Nat
    BY <1>1, ChangedFields, FlushFields
<1>3. f \in Nat /\ f > 1 /\ flushes[f - 1].phase = "done" /\ f - 1 \in DOMAIN flushes
  <2>1. f > 1 /\ flushes[f].after = f - 1
      BY <1>1 DEF FlushesFollow
  <2>. QED BY <1>1, <1>2, <2>1
<1>4. flushTail # 0
    BY <1>1 DEF FlushesFollow
<1>5. ASSUME NEW g \in DOMAIN flushes', flushes'[g].phase = "waiting"
      PROVE  g > 1 /\ flushes'[g].after = g - 1
    BY <1>1, <1>2, <1>5 DEF FlushesFollow
<1>6. ASSUME NEW g \in DOMAIN flushes', NEW h \in DOMAIN flushes', g < h,
             flushes'[h].phase # "waiting"
      PROVE  flushes'[g].phase = "done"
  <2>1. CASE h = f
    <3>1. g \in DOMAIN flushes /\ flushes'[g] = flushes[g] /\ g \in Nat /\ g <= f - 1
        BY <1>2, <1>3, <1>6, <2>1
    <3>2. CASE g = f - 1
        BY <1>3, <3>1, <3>2
    <3>3. CASE g < f - 1
        BY <1>3, <3>1, <3>3 DEF FlushesFollow
    <3>. QED BY <1>3, <3>1, <3>2, <3>3
  <2>2. CASE h # f
    <3>1. flushes[h].phase # "waiting" /\ h \in DOMAIN flushes
        BY <1>2, <1>6, <2>2
    <3>2. g # f
        BY <1>1, <1>6, <3>1 DEF FlushesFollow
    <3>. QED BY <1>2, <1>6, <3>1, <3>2 DEF FlushesFollow
  <2>. QED BY <2>1, <2>2
<1>. QED BY <1>1, <1>4, <1>5, <1>6 DEF FlushesFollow

LEMMA TurnKeeps ==
    ASSUME MetricsInv, NEW f \in DOMAIN flushes, FlushTurn(f)
    PROVE  MetricsInv'
<1>1. /\ MTypes /\ MetricsTypeOK /\ TakenWhole /\ FlushesNumbered /\ OneHome /\ WindowAwaited
      /\ Serialized
    BY DEF MetricsInv, MTypes
<1>2. /\ OneChanges(f) /\ Takes(f) /\ Len(flushes') = Len(flushes)
      /\ flushes[f].phase = "waiting" /\ flushes[f].taken = NoSeries
      /\ flushes[f].core = metricsCore => window' = NoSeries \/ SeriesIn(window) = {}
      /\ flushes[f].core # metricsCore => window' = window
    BY <1>1, TurnTakes
<1>3. UNCHANGED <<seriesCap, samples, counted, windowTimer, flushTail, generation,
                  metricsCore, sent, writtenOff, newestGauge, bypassed>>
    BY DEF FlushTurn
<1>4. /\ TakenWhole' /\ FlushesNumbered' /\ OneHome' /\ window' \in Window
      /\ Cardinality(SeriesIn(window')) <= seriesCap
    BY <1>1, <1>2, <1>3, TakesKeeps
<1>5. MetricsTypeOK'
    BY <1>1, <1>2, <1>3, <1>4 DEF MetricsTypeOK, OneChanges
<1>6. WindowAwaited'
  <2>1. CASE window' = NoSeries \/ SeriesIn(window) = {}
    <3>1. SeriesIn(window') = {}
      <4>1. SeriesIn(NoSeries) = {}
          BY <1>1, FlushFields, NoSeriesIsWindow
      <4>2. window' = NoSeries \/ (window' = window /\ SeriesIn(window) = {})
          BY <1>2, <2>1 DEF Takes
      <4>. QED BY <4>1, <4>2 DEF SeriesIn
    <3>. QED BY <3>1 DEF WindowAwaited, SeriesIn
  <2>2. CASE flushes[f].core # metricsCore
    <3>1. window' = window
        BY <1>2, <2>2
    <3>2. \A g \in DOMAIN flushes : g # f => g \in DOMAIN flushes' /\ flushes'[g] = flushes[g]
        BY <1>1, <1>2, ChangedFields
    <3>. QED BY <1>1, <1>3, <2>2, <3>1, <3>2 DEF WindowAwaited, SeriesIn
  <2>. QED BY <1>2, <2>1, <2>2
<1>7. Serialized'
    BY <1>1, <1>2, <1>3, <1>4, TurnFollows, TakesKeepsGauges DEF Serialized
<1>. QED BY <1>4, <1>5, <1>6, <1>7 DEF MetricsInv

\* A flush that has started ends, which lets none overtake it.
LEMMA EndFollows ==
    ASSUME MTypes, FlushesFollow, NEW f \in DOMAIN flushes, OneChanges(f),
           Len(flushes') = Len(flushes),
           flushes[f].phase \in {"sending", "ending"},
           \/ flushes'[f].phase = "ending" /\ flushTail' = flushTail
           \/ flushes'[f].phase = "done" /\ flushTail' = IF flushTail = f THEN 0 ELSE flushTail
    PROVE  FlushesFollow'
<1>1. /\ \A g \in DOMAIN flushes' : g # f => g \in DOMAIN flushes /\ flushes'[g] = flushes[g]
      /\ \A g \in DOMAIN flushes' : g \in Nat /\ g <= Len(flushes)
      /\ f \in Nat /\ flushTail # 0 /\ flushTail = Len(flushes)
    BY ChangedFields, FlushFields DEF FlushesFollow
<1>2. \A g \in DOMAIN flushes : g < f => flushes[g].phase = "done"
    BY DEF FlushesFollow
<1>3. \A g \in DOMAIN flushes : f < g => flushes[g].phase = "waiting"
    BY DEF FlushesFollow
<1>4. flushTail' = 0 => \A g \in DOMAIN flushes' : flushes'[g].phase = "done"
  <2>1. ASSUME flushTail' = 0, NEW g \in DOMAIN flushes' PROVE flushes'[g].phase = "done"
    <3>1. f = Len(flushes) /\ flushes'[f].phase = "done"
        BY <1>1, <2>1
    <3>2. g = f \/ g < f
        BY <1>1, <2>1, <3>1
    <3>. QED BY <1>1, <1>2, <2>1, <3>1, <3>2
  <2>. QED BY <2>1
<1>5. flushTail' # 0 => flushTail' = Len(flushes')
    BY <1>1
<1>6. \A g \in DOMAIN flushes' :
        flushes'[g].phase = "waiting" => g > 1 /\ flushes'[g].after = g - 1
    BY <1>1 DEF FlushesFollow
<1>7. ASSUME NEW g \in DOMAIN flushes', NEW h \in DOMAIN flushes', g < h,
             flushes'[h].phase # "waiting"
      PROVE  flushes'[g].phase = "done"
  <2>1. CASE h = f
      BY <1>1, <1>2, <1>7, <2>1
  <2>2. CASE h # f
    <3>1. h \in DOMAIN flushes /\ flushes[h].phase # "waiting"
        BY <1>1, <1>7, <2>2
    <3>2. g # f
        BY <1>3, <1>7, <3>1
    <3>. QED BY <1>1, <1>7, <3>1, <3>2 DEF FlushesFollow
  <2>. QED BY <2>1, <2>2
<1>. QED BY <1>4, <1>5, <1>6, <1>7 DEF FlushesFollow

LEMMA SendSettlesKeeps ==
    ASSUME MetricsInv, NEW f \in DOMAIN flushes, NEW outcome, SendSettles(f, outcome)
    PROVE  MetricsInv'
<1>. DEFINE old == flushes[f].taken
            merging == outcome = "retry-later" /\ flushes[f].born = generation
<1>1. /\ MTypes /\ MetricsTypeOK /\ TakenWhole /\ FlushesNumbered /\ OneHome /\ WindowAwaited
      /\ Serialized
    BY DEF MetricsInv, MTypes
<1>2. /\ TakenWhole' /\ FlushesNumbered' /\ OneHome' /\ window' \in Window
      /\ Cardinality(SeriesIn(window')) <= seriesCap
      /\ sent' \subseteq Samples /\ writtenOff' \subseteq Samples
      /\ newestGauge' \in 0..MaxSamples
    BY <1>1, SendKeeps
<1>3. /\ flushes[f].phase = "sending"
      /\ flushes' = [flushes EXCEPT ![f].phase = "ending", ![f].taken = NoSeries]
      /\ IF merging THEN window' = MergedBack(old) /\ windowTimer' = TRUE
                    ELSE UNCHANGED <<window, windowTimer>>
      /\ IF outcome = "ok"
         THEN newestGauge' = IF old["gauge"] = {} THEN newestGauge
                             ELSE CHOOSE n \in old["gauge"] : TRUE
         ELSE UNCHANGED newestGauge
      /\ UNCHANGED <<seriesCap, samples, counted, flushTail, generation, metricsCore,
                     bypassed>>
    BY DEF SendSettles
<1>4. /\ OneChanges(f) /\ Len(flushes') = Len(flushes)
      /\ flushes'[f].phase = "ending" /\ flushes'[f].taken = NoSeries
    BY <1>1, <1>3, SendEnds
<1>5. MetricsTypeOK'
    BY <1>1, <1>2, <1>3, <1>4 DEF MetricsTypeOK, OneChanges
<1>6. /\ \A g \in DOMAIN flushes' : g # f => g \in DOMAIN flushes /\ flushes'[g] = flushes[g]
      /\ \A g \in DOMAIN flushes : g \in DOMAIN flushes' /\ g \in Nat
    BY <1>1, <1>4, ChangedFields, FlushFields
<1>7. WindowAwaited'
  <2>1. CASE merging
      BY <1>3, <2>1 DEF WindowAwaited
  <2>2. CASE ~merging
    <3>1. \A g \in DOMAIN flushes : flushes[g].phase = "waiting" =>
            g \in DOMAIN flushes' /\ flushes'[g] = flushes[g]
        BY <1>3, <1>4, <1>6 DEF OneChanges
    <3>. QED BY <1>1, <1>3, <2>2, <3>1 DEF WindowAwaited, SeriesIn
  <2>. QED BY <2>1, <2>2
<1>8. ASSUME ~bypassed PROVE FlushesFollow' /\ GaugesNewer'
  <2>1. FlushesFollow /\ GaugesNewer
      BY <1>1, <1>8 DEF Serialized
  <2>2. FlushesFollow'
      BY <1>1, <1>3, <1>4, <2>1, EndFollows
  <2>3. \A g \in DOMAIN flushes : g # f => flushes[g].taken = NoSeries
    <3>1. ASSUME NEW g \in DOMAIN flushes, g # f PROVE flushes[g].phase # "sending"
      <4>1. CASE g < f
          BY <1>3, <2>1, <4>1 DEF FlushesFollow
      <4>2. CASE f < g
          BY <1>3, <2>1, <4>2 DEF FlushesFollow
      <4>. QED BY <1>6, <3>1, <4>1, <4>2
    <3>. QED BY <1>1, <3>1 DEF TakenWhole
  <2>4. NoSeries["gauge"] = {} /\ old \in Window /\ window \in Window /\ seriesCap \in Nat
      BY <1>1, FlushFields
  <2>5. \A g \in DOMAIN flushes' : flushes'[g].taken["gauge"] = {}
      BY <1>4, <1>6, <2>3, <2>4
  <2>6. \A n \in window'["gauge"] : n > newestGauge'
    <3>1. CASE outcome = "ok" /\ old["gauge"] # {}
      <4>1. newestGauge' \in old["gauge"] /\ window' = window
          BY <1>3, <3>1
      <4>. QED BY <2>1, <4>1 DEF GaugesNewer
    <3>2. CASE ~(outcome = "ok" /\ old["gauge"] # {})
      <4>1. newestGauge' = newestGauge
          BY <1>3, <3>2
      <4>2. window'["gauge"] \subseteq window["gauge"] \cup old["gauge"]
        <5>1. CASE merging
          <6>1. /\ Cardinality(SeriesIn(window)) <= seriesCap
                /\ Cardinality(SeriesIn(old)) <= seriesCap
              BY <1>1 DEF MetricsTypeOK, TakenWhole
          <6>. QED BY <1>3, <2>4, <5>1, <6>1, MergeFits
        <5>2. CASE ~merging
            BY <1>3, <5>2
        <5>. QED BY <5>1, <5>2
      <4>. QED BY <2>1, <4>1, <4>2 DEF GaugesNewer
    <3>. QED BY <3>1, <3>2
  <2>. QED BY <2>2, <2>5, <2>6 DEF GaugesNewer
<1>9. Serialized'
    BY <1>3, <1>8 DEF Serialized
<1>. QED BY <1>2, <1>5, <1>7, <1>9 DEF MetricsInv

LEMMA FlushSettlesKeeps ==
    ASSUME MetricsInv, NEW f \in DOMAIN flushes, FlushSettles(f)
    PROVE  MetricsInv'
<1>1. /\ MTypes /\ MetricsTypeOK /\ TakenWhole /\ FlushesNumbered /\ OneHome /\ WindowAwaited
      /\ Serialized
    BY DEF MetricsInv, MTypes
<1>2. /\ flushes[f].phase = "ending" /\ flushes' = [flushes EXCEPT ![f] = SettledFlush]
      /\ flushTail' = IF flushTail = f THEN 0 ELSE flushTail
      /\ UNCHANGED <<seriesCap, samples, counted, window, windowTimer, generation, metricsCore,
                     sent, writtenOff, newestGauge, bypassed>>
    BY DEF FlushSettles
<1>3. /\ OneChanges(f) /\ Len(flushes') = Len(flushes)
      /\ flushes'[f].phase = "done" /\ flushes'[f].taken = NoSeries /\ Takes(f)
    BY <1>1, <1>2, FlushEndsAlone DEF Takes
<1>4. flushes[f].taken = NoSeries
    BY <1>1, <1>2 DEF TakenWhole
<1>5. TakenWhole' /\ FlushesNumbered' /\ OneHome'
    BY <1>1, <1>2, <1>3, <1>4, TakesKeeps
<1>6. MetricsTypeOK'
  <2>1. flushTail' \in 0..Len(flushes')
      BY <1>1, <1>2, <1>3, FlushFields
  <2>2. Cardinality(SeriesIn(window')) <= seriesCap'
      BY <1>1, <1>2 DEF MetricsTypeOK, SeriesIn
  <2>. QED BY <1>1, <1>2, <1>3, <2>1, <2>2 DEF MetricsTypeOK, OneChanges
<1>7. WindowAwaited'
  <2>1. \A g \in DOMAIN flushes : flushes[g].phase = "waiting" =>
          g \in DOMAIN flushes' /\ flushes'[g] = flushes[g]
      BY <1>2, <1>3 DEF OneChanges
  <2>. QED BY <1>1, <1>2, <2>1 DEF WindowAwaited, SeriesIn
<1>8. Serialized'
    BY <1>1, <1>2, <1>3, <1>5, EndFollows, TakesKeepsGauges DEF Serialized
<1>. QED BY <1>5, <1>6, <1>7, <1>8 DEF MetricsInv

\* Nothing is in flight when no flush is unsettled.
LEMMA NoneUnsettled ==
    ASSUME MTypes, Unsettled = {}
    PROVE  \A f \in DOMAIN flushes : flushes[f].phase = "done" /\ flushes[f].taken = NoSeries
BY DEF Unsettled, FlushesAt, MTypes, TakenWhole

LEMMA DrainKeeps ==
    ASSUME MetricsInv, DrainWindow
    PROVE  MetricsInv'
<1>1. /\ MTypes /\ MetricsTypeOK /\ TakenWhole /\ FlushesNumbered /\ OneHome /\ WindowAwaited
      /\ Serialized
    BY DEF MetricsInv, MTypes
<1>2. /\ window' = NoSeries /\ sent' = sent \cup window["count"]
      /\ newestGauge' = IF window["gauge"] = {} THEN newestGauge
                        ELSE CHOOSE n \in window["gauge"] : TRUE
      /\ bypassed' = (bypassed \/ Unsettled # {})
      /\ UNCHANGED <<seriesCap, samples, counted, windowTimer, flushes, flushTail, generation,
                     metricsCore, writtenOff>>
    BY DEF DrainWindow
<1>3. /\ window \in Window /\ seriesCap \in Nat /\ NoSeries \in Window
      /\ NoSeries["count"] = {} /\ NoSeries["gauge"] = {} /\ SeriesIn(NoSeries) = {}
      /\ Cardinality(SeriesIn(NoSeries)) <= seriesCap
      /\ window["count"] \subseteq Samples /\ window["gauge"] \subseteq Samples
    BY <1>1, FlushFields, NoSeriesIsWindow DEF Window, Series
<1>4. SeriesIn(window') = SeriesIn(NoSeries)
    BY <1>2 DEF SeriesIn
<1>5. InFlight' = InFlight /\ TakenWhole' /\ (FlushesFollow => FlushesFollow')
    BY <1>1, <1>2, FlushesSame DEF TakenWhole
<1>6. newestGauge' \in 0..MaxSamples /\ newestGauge' <= samples
  <2>1. newestGauge' \in window["gauge"] \cup {newestGauge}
      BY <1>2
  <2>2. \A n \in Samples : n \in 0..MaxSamples
      BY MetricsConstants DEF Samples
  <2>. QED BY <1>1, <1>3, <2>1, <2>2 DEF FlushesNumbered, MetricsTypeOK
<1>7. MetricsTypeOK'
  <2>1. sent' \subseteq Samples /\ bypassed' \in BOOLEAN
      BY <1>1, <1>2, <1>3 DEF MetricsTypeOK
  <2>2. Cardinality(SeriesIn(window')) <= seriesCap'
      BY <1>2, <1>3, <1>4
  <2>. QED BY <1>1, <1>2, <1>3, <1>6, <2>1, <2>2 DEF MetricsTypeOK
<1>8. FlushesNumbered'
    BY <1>1, <1>2, <1>3, <1>6 DEF FlushesNumbered
<1>9. OneHome'
    BY <1>1, <1>2, <1>3, <1>5 DEF OneHome
<1>10. WindowAwaited'
    BY <1>3, <1>4 DEF WindowAwaited
<1>11. ASSUME ~bypassed' PROVE FlushesFollow' /\ GaugesNewer'
  <2>1. ~bypassed /\ Unsettled = {}
      BY <1>1, <1>2, <1>11 DEF MetricsTypeOK
  <2>2. FlushesFollow'
      BY <1>1, <1>5, <2>1 DEF Serialized
  <2>3. GaugesNewer'
      BY <1>1, <1>2, <1>3, <2>1, NoneUnsettled DEF GaugesNewer
  <2>. QED BY <2>2, <2>3
<1>. QED BY <1>5, <1>7, <1>8, <1>9, <1>10, <1>11 DEF MetricsInv, Serialized

LEMMA ClearKeeps ==
    ASSUME MetricsInv, ClearMetrics, metricsCore' = metricsCore \/ metricsCore' = metricsCore + 1
    PROVE  MetricsInv'
<1>1. /\ MTypes /\ MetricsTypeOK /\ TakenWhole /\ FlushesNumbered /\ OneHome /\ Serialized
    BY DEF MetricsInv, MTypes
<1>2. /\ generation < MaxResets /\ generation' = generation + 1
      /\ windowTimer' = FALSE /\ window' = NoSeries /\ flushTail' = 0
      /\ writtenOff' = writtenOff \cup window["count"]
      /\ bypassed' = (bypassed \/ Unsettled # {})
      /\ UNCHANGED <<seriesCap, samples, counted, flushes, sent, newestGauge>>
    BY DEF ClearMetrics
<1>3. /\ window \in Window /\ seriesCap \in Nat /\ NoSeries \in Window
      /\ NoSeries["count"] = {} /\ NoSeries["gauge"] = {} /\ SeriesIn(NoSeries) = {}
      /\ Cardinality(SeriesIn(NoSeries)) <= seriesCap
      /\ window["count"] \subseteq Samples
    BY <1>1, FlushFields, NoSeriesIsWindow DEF Window, Series
<1>4. SeriesIn(window') = SeriesIn(NoSeries)
    BY <1>2 DEF SeriesIn
<1>5. /\ generation' \in 0..MaxResets /\ metricsCore' \in 0..MaxResets
      /\ metricsCore' <= generation'
    BY <1>1, <1>2, MetricsConstants DEF MetricsTypeOK, TakenWhole
<1>6. InFlight' = InFlight /\ TakenWhole'
    BY <1>1, <1>2, <1>5, FlushesSame
<1>7. MetricsTypeOK'
  <2>1. writtenOff' \subseteq Samples /\ bypassed' \in BOOLEAN /\ windowTimer' \in BOOLEAN
      BY <1>1, <1>2, <1>3 DEF MetricsTypeOK
  <2>2. Cardinality(SeriesIn(window')) <= seriesCap'
      BY <1>2, <1>3, <1>4
  <2>3. flushTail' \in 0..Len(flushes')
      BY <1>1, <1>2, FlushFields
  <2>. QED BY <1>1, <1>2, <1>3, <1>5, <2>1, <2>2, <2>3 DEF MetricsTypeOK
<1>8. FlushesNumbered'
    BY <1>1, <1>2, <1>3 DEF FlushesNumbered
<1>9. OneHome'
    BY <1>1, <1>2, <1>3, <1>6 DEF OneHome
<1>10. WindowAwaited'
    BY <1>3, <1>4 DEF WindowAwaited
<1>11. ASSUME ~bypassed' PROVE FlushesFollow' /\ GaugesNewer'
  <2>1. ~bypassed /\ Unsettled = {}
      BY <1>1, <1>2, <1>11 DEF MetricsTypeOK
  <2>2. FlushesFollow'
      BY <1>1, <1>2, <2>1, NoneUnsettled DEF Serialized, FlushesFollow
  <2>3. GaugesNewer'
      BY <1>1, <1>2, <1>3, <2>1, NoneUnsettled DEF GaugesNewer
  <2>. QED BY <2>2, <2>3
<1>. QED BY <1>6, <1>7, <1>8, <1>9, <1>10, <1>11 DEF MetricsInv, Serialized

LEMMA MetricsSame ==
    ASSUME MetricsInv, UNCHANGED mwVars
    PROVE  MetricsInv'
BY DEF MetricsInv, mwVars, MetricsTypeOK, TakenWhole, FlushesNumbered, OneHome, InFlight,
       WindowAwaited, Serialized, FlushesFollow, GaugesNewer, SeriesIn

LEMMA MetricsKeeps == MetricsInv /\ [MetricsNext]_mwVars => MetricsInv'
<1>. SUFFICES ASSUME MetricsInv, [MetricsNext]_mwVars PROVE MetricsInv'
    OBVIOUS
<1>1. ASSUME NEW series \in Series, CaptureMetric(series) PROVE MetricsInv'
    BY <1>1, CaptureMetricKeeps
<1>2. CASE FlushMetrics
  <2>1. windowTimer' \in BOOLEAN
      BY <1>2 DEF FlushMetrics, MetricsInv, MetricsTypeOK
  <2>. QED BY <1>2, <2>1, NewFlushKeeps DEF FlushMetrics
<1>3. CASE WindowTimerFires
  <2>1. windowTimer' \in BOOLEAN
      BY <1>3 DEF WindowTimerFires
  <2>. QED BY <1>3, <2>1, NewFlushKeeps DEF WindowTimerFires
<1>4. ASSUME NEW f \in DOMAIN flushes, FlushTurn(f) PROVE MetricsInv'
    BY <1>4, TurnKeeps
<1>5. ASSUME NEW f \in DOMAIN flushes, FlushSettles(f) PROVE MetricsInv'
    BY <1>5, FlushSettlesKeeps
<1>6. ASSUME NEW f \in DOMAIN flushes, NEW outcome \in SendOutcomes, SendSettles(f, outcome)
      PROVE  MetricsInv'
    BY <1>6, SendSettlesKeeps
<1>7. CASE DrainWindow
    BY <1>7, DrainKeeps
<1>8. CASE ResetMetrics
    BY <1>8, ClearKeeps DEF ResetMetrics
<1>9. CASE RebuildMetrics
    BY <1>9, ClearKeeps DEF RebuildMetrics
<1>10. CASE UNCHANGED mwVars
    BY <1>10, MetricsSame
<1>. QED BY <1>1, <1>2, <1>3, <1>4, <1>5, <1>6, <1>7, <1>8, <1>9, <1>10 DEF MetricsNext

\* The metrics client by itself.
MetricsSpec == MetricsInit /\ [][MetricsNext]_mwVars

LEMMA MetricsSafe == MetricsSpec => []MetricsInv
BY MetricsBegins, MetricsKeeps, PTL DEF MetricsSpec

\* Every variable has its type, and no window has more series than the cap, also
\* after one is merged back.
THEOREM MetricsTyped == MetricsSpec => []MetricsTypeOK
<1>1. MetricsInv => MetricsTypeOK
    BY DEF MetricsInv
<1>. QED BY <1>1, MetricsSafe, PTL

\* A counted sample is in one place: the live window, one window being sent, sent or
\* written off.
LEMMA OneHomeCounted ==
    ASSUME MetricsInv, NEW n \in counted
    PROVE  Cardinality(Homes(n)) = 1
<1>1. n \in Samples /\ OneHome /\ TakenWhole /\ MTypes
    BY DEF MetricsInv, MetricsTypeOK, MTypes
<1>2. NoSeries["count"] = {}
    BY <1>1, FlushFields
<1>3. \A f \in DOMAIN flushes : n \in flushes[f].taken["count"] => f \in FlushesAt("sending")
    BY <1>1, <1>2 DEF TakenWhole, FlushesAt
<1>4. FlushesAt("sending") \subseteq DOMAIN flushes
    BY DEF FlushesAt
<1>. DEFINE here == {f \in FlushesAt("sending") : n \in flushes[f].taken["count"]}
<1>5. Homes(n) = {<<"flush", f>> : f \in here}
                 \cup (IF n \in window["count"] THEN {<<"window", n>>} ELSE {})
                 \cup (IF n \in sent THEN {<<"sent", n>>} ELSE {})
                 \cup (IF n \in writtenOff THEN {<<"writtenOff", n>>} ELSE {})
    BY DEF Homes
<1>6. n \in InFlight <=> here # {}
    BY <1>1, <1>3, <1>4 DEF InFlight
<1>7. \A f, g \in here : f = g
    BY <1>1, <1>4 DEF OneHome
<1>8. n \in window["count"] \/ here # {} \/ n \in sent \/ n \in writtenOff
    BY <1>1, <1>6 DEF OneHome
<1>9. /\ ~(n \in window["count"] /\ here # {}) /\ ~(n \in window["count"] /\ n \in sent)
      /\ ~(n \in window["count"] /\ n \in writtenOff) /\ ~(here # {} /\ n \in sent)
      /\ ~(here # {} /\ n \in writtenOff) /\ ~(n \in sent /\ n \in writtenOff)
    BY <1>1, <1>6 DEF OneHome
<1>. HIDE DEF here
<1>10. \E x : Homes(n) = {x}
  <2>1. CASE n \in window["count"]
    <3>1. Homes(n) = {<<"window", n>>}
        BY <1>5, <1>9, <2>1
    <3>. QED BY <3>1
  <2>2. CASE here # {}
    <3>1. PICK f \in here : here = {f}
        BY <1>7, <2>2
    <3>2. Homes(n) = {<<"flush", f>>}
        BY <1>5, <1>9, <3>1
    <3>. QED BY <3>2
  <2>3. CASE n \in sent
    <3>1. Homes(n) = {<<"sent", n>>}
        BY <1>5, <1>9, <2>3
    <3>. QED BY <3>1
  <2>4. CASE n \in writtenOff
    <3>1. Homes(n) = {<<"writtenOff", n>>}
        BY <1>5, <1>9, <2>4
    <3>. QED BY <3>1
  <2>. QED BY <1>8, <2>1, <2>2, <2>3, <2>4
<1>. QED BY <1>10, FS_Singleton

\* No counted sample is lost or counted twice, a live window is awaited, and no older
\* gauge overtakes one that was accepted.
THEOREM WindowsKeptAlways == MetricsSpec => []WindowsAreKept
<1>1. ASSUME MetricsInv PROVE WindowsAreKept
  <2>1. SamplesAreKept
    <3>1. SeriesIn(window) # {} =>
            windowTimer \/ \E f \in FlushesAt("waiting") : flushes[f].core = metricsCore
        BY <1>1 DEF MetricsInv, WindowAwaited, FlushesAt
    <3>. QED BY <1>1, <3>1, OneHomeCounted DEF SamplesAreKept
  <2>2. GaugesGoForward
      BY <1>1 DEF MetricsInv, Serialized, GaugesNewer, GaugesGoForward, FlushesAt
  <2>. QED BY <2>1, <2>2 DEF WindowsAreKept
<1>. QED BY <1>1, MetricsSafe, PTL


--------------------------------------------------------------------------------
(* Whole intervals.                                                         *)

LEMMA LimiterConstants ==
    /\ BucketSize \in Nat /\ BucketSize >= 1
    /\ RefillRate \in Nat /\ 1 <= RefillRate /\ RefillRate <= BucketSize
    /\ RefillInterval \in Nat /\ RefillInterval >= 1 /\ MaxWatch \in Nat
BY LimiterAssumption

\* What _applyRefill counts, and what it keeps of the age.
LEMMA IntervalsOfAge ==
    ASSUME NEW a \in Nat, NEW d \in Nat, d >= 1
    PROVE  /\ a \div d \in Nat /\ a % d \in Nat /\ a % d < d /\ a % d <= a
           /\ a - (a \div d) * d = a % d
           /\ a >= d => a \div d >= 1
           /\ a < d => a \div d = 0 /\ a % d = a
           /\ a \div d = 0 => a % d = a
OBVIOUS

\* A tick, which may end an interval.
LEMMA AgeTicks ==
    ASSUME NEW a \in Nat, NEW d \in Nat, d >= 1
    PROVE  /\ (a % d) + 1 < d => (a + 1) \div d = a \div d /\ (a + 1) % d = (a % d) + 1
           /\ (a % d) + 1 = d => (a + 1) \div d = (a \div d) + 1 /\ (a + 1) % d = 0
<1>. DEFINE q == a \div d
            r == a % d
<1>1. q \in Nat /\ r \in Nat /\ r < d /\ a = d * q + r
    OBVIOUS
<1>. HIDE DEF q, r
<1>2. CASE r + 1 < d
  <2>1. a + 1 = d * q + (r + 1)
      BY <1>1
  <2>2. (d * q + (r + 1)) \div d = q /\ (d * q + (r + 1)) % d = r + 1
      BY <1>1, <1>2
  <2>. QED BY <1>2, <2>1, <2>2 DEF q, r
<1>3. CASE r + 1 = d
  <2>1. a + 1 = d * (q + 1)
      BY <1>1, <1>3
  <2>2. (d * (q + 1)) \div d = q + 1 /\ (d * (q + 1)) % d = 0
      BY <1>1
  <2>. QED BY <1>3, <2>1, <2>2 DEF q, r
<1>. QED BY <1>1, <1>2, <1>3 DEF q, r

LEMMA DivisionGrows ==
    ASSUME NEW a \in Nat, NEW b \in Nat, NEW d \in Nat, d >= 1, a <= b
    PROVE  a \div d <= b \div d
OBVIOUS

\* An age that fills any bucket holds as many intervals as the bucket has tokens.
LEMMA FullAgeFills ==
    ASSUME NEW a \in Nat, NEW d \in Nat, d >= 1, NEW n \in Nat, a >= n * d
    PROVE  a \div d >= n
OBVIOUS

LEMMA WholeIntervals ==
    ASSUME NEW a \in Nat, NEW d \in Nat, d >= 1
    PROVE  (a + d) % d = a % d
<1>. DEFINE q == a \div d
            r == a % d
<1>1. q \in Nat /\ r \in Nat /\ r < d /\ a = d * q + r
    OBVIOUS
<1>. HIDE DEF q, r
<1>2. a + d = d * (q + 1) + r
    BY <1>1
<1>3. (d * (q + 1) + r) % d = r
    BY <1>1
<1>. QED BY <1>2, <1>3 DEF r

LEMMA IntervalEnds ==
    ASSUME NEW t \in Nat, NEW d \in Nat, d >= 1
    PROVE  (t + d) \div d = (t \div d) + 1
OBVIOUS

LEMMA RefillsTimes ==
    ASSUME NEW x \in Nat, NEW y \in Nat, NEW z \in Nat
    PROVE  /\ x * z \in Nat /\ (x + 1) * z = x * z + z
           /\ x <= y => x * z <= y * z
           /\ z >= 1 => x <= x * z
OBVIOUS

--------------------------------------------------------------------------------
(* What a bucket will let through.                                          *)

Buckets == [tokens : 0..BucketSize, age : 0..(FullAge + RefillInterval)]

\* The tokens of a bucket when it is refilled now.
Value(b) ==
    LET refilled == b.tokens + (b.age \div RefillInterval) * RefillRate
    IN  IF refilled < BucketSize THEN refilled ELSE BucketSize

Room(b) == IF Value(b) < 1 THEN 1 ELSE Value(b)

\* How many of the intervals of b end in a window of t ticks.
Ended(b, t) == (t + RefillInterval - 1 - (b.age % RefillInterval)) \div RefillInterval

\* What was let through in the window and what the bucket still lets through came
\* from a full bucket and the intervals that ended.
BoundInv ==
    /\ bucket = NoBucket => watch.passed = 0
    /\ bucket # NoBucket =>
         watch.passed + Room(bucket) <= BucketSize + Ended(bucket, watch.ticks) * RefillRate

\* A bucket has aged since the last call, but for what was cut of a full age; a call of
\* a burst that was refused left the age below an interval, and an age of an interval
\* refills more than the token that is refused.
TrickleInv ==
    /\ idle >= RefillInterval => waited = 0
    /\ bucket = NoBucket => waited <= idle
    /\ bucket # NoBucket =>
         IF idle < RefillInterval
         THEN /\ RefillRate >= 2 => waited <= bucket.age
              /\ idle <= bucket.age /\ bucket.age < RefillInterval + idle
         ELSE /\ bucket.age >= RefillInterval
              /\ BucketSize >= 2 => idle <= bucket.age

LEMMA BucketFields ==
    ASSUME NEW b \in Buckets
    PROVE  /\ b.tokens \in Nat /\ b.tokens <= BucketSize /\ b.tokens \in 0..BucketSize
           /\ b.age \in Nat /\ b.age <= FullAge + RefillInterval
           /\ b # NoBucket /\ b = [tokens |-> b.tokens, age |-> b.age]
           /\ FullAge \in Nat /\ RefillInterval <= FullAge
<1>1. FullAge \in Nat /\ RefillInterval <= FullAge
    BY LimiterConstants, RefillsTimes DEF FullAge
<1>. QED BY <1>1, LimiterConstants DEF Buckets, NoBucket

LEMMA ValueOfBucket ==
    ASSUME NEW b \in Buckets
    PROVE  /\ Value(b) \in Nat /\ Value(b) <= BucketSize
           /\ b.tokens + (b.age \div RefillInterval) * RefillRate \in Nat
           /\ Room(b) \in Nat /\ Room(b) >= 1 /\ Room(b) >= Value(b) /\ Room(b) <= BucketSize
           /\ Room(b) = 1 \/ Room(b) = Value(b)
<1>1. b.age \div RefillInterval \in Nat
    BY BucketFields, LimiterConstants, IntervalsOfAge
<1>2. (b.age \div RefillInterval) * RefillRate \in Nat
    BY <1>1, LimiterConstants, RefillsTimes
<1>. QED BY <1>2, BucketFields, LimiterConstants DEF Value, Room

LEMMA EndedIsNat ==
    ASSUME NEW b \in Buckets, NEW t \in Nat
    PROVE  Ended(b, t) \in Nat /\ Ended(b, t) * RefillRate \in Nat
<1>. DEFINE p == b.age % RefillInterval
<1>1. p \in Nat /\ p < RefillInterval
    BY BucketFields, LimiterConstants, IntervalsOfAge
<1>. HIDE DEF p
<1>2. t + RefillInterval - 1 - p \in Nat
    BY <1>1, LimiterConstants
<1>3. (t + RefillInterval - 1 - p) \div RefillInterval \in Nat
    BY <1>2, LimiterConstants, IntervalsOfAge
<1>. QED BY <1>3, LimiterConstants, RefillsTimes DEF Ended, p

\* _applyRefill makes the value of a bucket its tokens, and keeps the phase of its
\* intervals.
LEMMA RefillKeepsValue ==
    ASSUME NEW b \in Buckets
    PROVE  AppliedRefill(b) = [tokens |-> Value(b), age |-> b.age % RefillInterval]
<1>1. b.age - (b.age \div RefillInterval) * RefillInterval = b.age % RefillInterval
    BY BucketFields, LimiterConstants, IntervalsOfAge
<1>. QED BY <1>1 DEF AppliedRefill, Value

\* A bucket whose age is below an interval has its tokens for value.
LEMMA FreshBucket ==
    ASSUME NEW n \in 0..BucketSize, NEW a \in Nat, a < RefillInterval
    PROVE  LET b == [tokens |-> n, age |-> a]
           IN  /\ b \in Buckets /\ b.tokens = n /\ b.age = a
               /\ Value(b) = n /\ b.age % RefillInterval = a
<1>. DEFINE b == [tokens |-> n, age |-> a]
<1>1. FullAge \in Nat
    BY LimiterConstants, RefillsTimes DEF FullAge
<1>2. a \in 0..(FullAge + RefillInterval)
    BY <1>1, LimiterConstants
<1>3. b \in Buckets /\ b.tokens = n /\ b.age = a
    BY <1>2 DEF Buckets
<1>4. a \div RefillInterval = 0 /\ a % RefillInterval = a
    BY LimiterConstants, IntervalsOfAge
<1>5. 0 * RefillRate = 0
    BY LimiterConstants
<1>. HIDE DEF b
<1>6. Value(b) = n
    BY <1>3, <1>4, <1>5, LimiterConstants DEF Value
<1>. QED BY <1>3, <1>4, <1>6 DEF b

\* The bucket that a call finds, whose value and phase are those of the one before.
LEMMA CallFinds ==
    ASSUME LimiterTypeOK
    PROVE  \E n \in 0..BucketSize : \E a \in Nat :
             LET b == IF bucket = NoBucket THEN [tokens |-> BucketSize, age |-> 0]
                                           ELSE AppliedRefill(bucket)
             IN  /\ b = [tokens |-> n, age |-> a] /\ a < RefillInterval
                 /\ bucket = NoBucket => n = BucketSize /\ a = 0
                 /\ bucket # NoBucket =>
                      /\ bucket \in Buckets /\ n = Value(bucket)
                      /\ a = bucket.age % RefillInterval
<1>1. CASE bucket = NoBucket
  <2>1. BucketSize \in 0..BucketSize /\ 0 \in Nat /\ 0 < RefillInterval
      BY LimiterConstants
  <2>. QED BY <1>1, <2>1
<1>2. CASE bucket # NoBucket
  <2>1. bucket \in Buckets
      BY <1>2 DEF LimiterTypeOK, Buckets
  <2>2. Value(bucket) \in 0..BucketSize
      BY <2>1, ValueOfBucket, LimiterConstants
  <2>3. /\ bucket.age % RefillInterval \in Nat
        /\ bucket.age % RefillInterval < RefillInterval
      BY <2>1, BucketFields, LimiterConstants, IntervalsOfAge
  <2>. QED BY <1>2, <2>1, <2>2, <2>3, RefillKeepsValue
<1>. QED BY <1>1, <1>2

\* A call leaves one token less, and none when it took the last.
LEMMA CallLeaves ==
    ASSUME LimiterTypeOK, ConsumeRateLimit
    PROVE  \E n \in 0..BucketSize : \E a \in Nat : \E left \in 0..BucketSize :
             /\ a < RefillInterval
             /\ bucket = NoBucket => n = BucketSize /\ a = 0
             /\ bucket # NoBucket =>
                  /\ bucket \in Buckets /\ n = Value(bucket)
                  /\ a = bucket.age % RefillInterval
             /\ left = IF n = 0 THEN 0 ELSE n - 1
             /\ bucket' = [tokens |-> left, age |-> a]
             /\ IF left = 0 THEN watch' = watch /\ waited' = waited
                ELSE watch' = [watch EXCEPT !.passed = @ + 1] /\ waited' = 0
             /\ idle' = 0
<1>. DEFINE b == IF bucket = NoBucket THEN [tokens |-> BucketSize, age |-> 0]
                                      ELSE AppliedRefill(bucket)
<1>1. PICK n \in 0..BucketSize, a \in Nat :
        /\ b = [tokens |-> n, age |-> a] /\ a < RefillInterval
        /\ bucket = NoBucket => n = BucketSize /\ a = 0
        /\ bucket # NoBucket =>
             /\ bucket \in Buckets /\ n = Value(bucket)
             /\ a = bucket.age % RefillInterval
    BY CallFinds
<1>. DEFINE left == IF b.tokens = 0 THEN 0 ELSE b.tokens - 1
<1>2. /\ bucket' = [b EXCEPT !.tokens = left]
      /\ watch' = IF left = 0 THEN watch ELSE [watch EXCEPT !.passed = @ + 1]
      /\ waited' = IF left = 0 THEN waited ELSE 0
      /\ idle' = 0
    BY DEF ConsumeRateLimit
<1>3. b.tokens = n
    BY <1>1
<1>4. left \in 0..BucketSize /\ left = IF n = 0 THEN 0 ELSE n - 1
    BY <1>3, LimiterConstants
<1>. HIDE DEF left, b
<1>5. bucket' = [tokens |-> left, age |-> a]
    BY <1>1, <1>2
<1>. QED BY <1>1, <1>2, <1>4, <1>5


--------------------------------------------------------------------------------
(* Every step keeps the bounds.                                             *)

LimiterInv == LimiterTypeOK /\ BoundInv /\ TrickleInv

LEMMA WatchFields ==
    ASSUME LimiterTypeOK
    PROVE  /\ watch.ticks \in Nat /\ watch.ticks <= MaxWatch /\ watch.passed \in Nat
           /\ watch = [ticks |-> watch.ticks, passed |-> watch.passed]
           /\ waited \in Nat /\ idle \in Nat /\ idle <= RestTicks
           /\ RestTicks \in Nat /\ RestTicks = RefillInterval + RefillInterval
           /\ bucket # NoBucket => bucket \in Buckets
           /\ MaxWait \in Nat /\ RefillInterval < MaxWait /\ RestTicks < MaxWait
BY LimiterConstants DEF LimiterTypeOK, MaxWait, RestTicks, Buckets

LEMMA CallKeepsTypes ==
    ASSUME LimiterTypeOK, ConsumeRateLimit
    PROVE  LimiterTypeOK'
<1>1. PICK n \in 0..BucketSize, a \in Nat, left \in 0..BucketSize :
        /\ a < RefillInterval
        /\ bucket' = [tokens |-> left, age |-> a]
        /\ IF left = 0 THEN watch' = watch /\ waited' = waited
           ELSE watch' = [watch EXCEPT !.passed = @ + 1] /\ waited' = 0
        /\ idle' = 0
    BY CallLeaves
<1>2. bucket' \in Buckets
    BY <1>1, FreshBucket
<1>3. watch' \in [ticks : 0..MaxWatch, passed : Nat]
    BY <1>1 DEF LimiterTypeOK
<1>4. waited' \in 0..MaxWait /\ idle' \in 0..RestTicks
    BY <1>1, WatchFields, LimiterConstants DEF LimiterTypeOK
<1>. QED BY <1>2, <1>3, <1>4 DEF LimiterTypeOK, Buckets

LEMMA CallKeepsBound ==
    ASSUME LimiterTypeOK, BoundInv, ConsumeRateLimit
    PROVE  BoundInv'
<1>1. PICK n \in 0..BucketSize, a \in Nat, left \in 0..BucketSize :
        /\ a < RefillInterval
        /\ bucket = NoBucket => n = BucketSize /\ a = 0
        /\ bucket # NoBucket =>
             /\ bucket \in Buckets /\ n = Value(bucket)
             /\ a = bucket.age % RefillInterval
        /\ left = IF n = 0 THEN 0 ELSE n - 1
        /\ bucket' = [tokens |-> left, age |-> a]
        /\ IF left = 0 THEN watch' = watch
           ELSE watch' = [watch EXCEPT !.passed = @ + 1]
    BY CallLeaves
<1>. DEFINE b == [tokens |-> left, age |-> a]
            t == watch.ticks
            bound == BucketSize + Ended(b, t) * RefillRate
<1>2. /\ b \in Buckets /\ Value(b) = left /\ b.age % RefillInterval = a /\ bucket' = b
    BY <1>1, FreshBucket
<1>. HIDE DEF b
<1>3. b # NoBucket /\ Ended(b, t) * RefillRate \in Nat /\ Room(b) = IF left < 1 THEN 1 ELSE left
    BY <1>2, BucketFields, EndedIsNat, WatchFields DEF Room
<1>4. watch'.ticks = t /\ watch'.passed = IF left = 0 THEN watch.passed ELSE watch.passed + 1
    BY <1>1, WatchFields
<1>5. watch.passed + (IF n < 1 THEN 1 ELSE n) <= bound
  <2>1. CASE bucket = NoBucket
      BY <1>1, <1>3, <2>1, LimiterConstants DEF BoundInv
  <2>2. CASE bucket # NoBucket
    <3>1. Ended(b, t) = Ended(bucket, t)
        BY <1>1, <1>2, <2>2 DEF Ended
    <3>2. Room(bucket) = IF n < 1 THEN 1 ELSE n
        BY <1>1, <2>2 DEF Room
    <3>. QED BY <2>2, <3>1, <3>2 DEF BoundInv
  <2>. QED BY <2>1, <2>2
<1>6. bound \in Nat /\ watch.passed \in Nat
    BY <1>3, LimiterConstants, WatchFields
<1>. HIDE DEF bound
<1>7. watch'.passed + Room(b) <= bound
    BY <1>1, <1>3, <1>4, <1>5, <1>6
<1>8. bucket' = b /\ watch'.ticks = t
    BY <1>2, <1>4
<1>. QED BY <1>3, <1>7, <1>8 DEF BoundInv, bound, Room, Value, Ended

LEMMA CallKeepsTrickle ==
    ASSUME LimiterTypeOK, TrickleInv, ConsumeRateLimit
    PROVE  TrickleInv'
<1>1. PICK n \in 0..BucketSize, a \in Nat, left \in 0..BucketSize :
        /\ a < RefillInterval
        /\ bucket = NoBucket => n = BucketSize /\ a = 0
        /\ bucket # NoBucket =>
             /\ bucket \in Buckets /\ n = Value(bucket)
             /\ a = bucket.age % RefillInterval
        /\ left = IF n = 0 THEN 0 ELSE n - 1
        /\ bucket' = [tokens |-> left, age |-> a]
        /\ waited' = IF left = 0 THEN waited ELSE 0
        /\ idle' = 0
    BY CallLeaves
<1>2. bucket' # NoBucket /\ bucket'.age = a
    BY <1>1, FreshBucket, BucketFields
<1>3. ASSUME RefillRate >= 2 PROVE waited' <= a
  <2>1. CASE left # 0
      BY <1>1, <2>1
  <2>2. CASE left = 0
    <3>1. n <= 1 /\ BucketSize >= 2
        BY <1>1, <1>3, <2>2, LimiterConstants
    <3>2. bucket # NoBucket /\ bucket \in Buckets /\ Value(bucket) <= 1
        BY <1>1, <3>1, LimiterConstants
    <3>. DEFINE k == bucket.age \div RefillInterval
    <3>3. k \in Nat /\ bucket.age \in Nat /\ bucket.tokens \in Nat
        BY <3>2, BucketFields, LimiterConstants, IntervalsOfAge
    <3>4. bucket.tokens + k * RefillRate <= 1
        BY <3>1, <3>2, ValueOfBucket, LimiterConstants DEF Value
    <3>. HIDE DEF k
    <3>5. k = 0
      <4>1. k * RefillRate <= 1
          BY <3>3, <3>4, LimiterConstants, RefillsTimes
      <4>2. k >= 1 => RefillRate <= k * RefillRate
          BY <3>3, LimiterConstants
      <4>. QED BY <1>3, <3>3, <4>1, <4>2, LimiterConstants, RefillsTimes
    <3>6. a = bucket.age /\ bucket.age < RefillInterval
        BY <1>1, <3>2, <3>3, <3>5, LimiterConstants, IntervalsOfAge DEF k
    <3>7. idle < RefillInterval
        BY <3>2, <3>3, <3>6, WatchFields, LimiterConstants DEF TrickleInv
    <3>. QED BY <1>1, <1>3, <2>2, <3>2, <3>6, <3>7 DEF TrickleInv
  <2>. QED BY <2>1, <2>2
<1>. QED BY <1>1, <1>2, <1>3, LimiterConstants DEF TrickleInv

\* A tick ages the bucket; an age of more than fills it is cut by an interval.
LEMMA TickAges ==
    ASSUME LimiterTypeOK, LimiterTick, bucket # NoBucket
    PROVE  \E a \in Nat :
             /\ bucket' = [tokens |-> bucket.tokens, age |-> a] /\ bucket' \in Buckets
             /\ bucket'.tokens = bucket.tokens /\ bucket'.age = a
             /\ \/ a = bucket.age + 1
                \/ a = bucket.age + 1 - RefillInterval /\ a >= FullAge
<1>. DEFINE a == IF bucket.age + 1 < FullAge + RefillInterval THEN bucket.age + 1
                 ELSE bucket.age + 1 - RefillInterval
<1>1. bucket \in Buckets
    BY WatchFields
<1>2. /\ bucket.age \in Nat /\ bucket.age <= FullAge + RefillInterval /\ FullAge \in Nat
      /\ bucket = [tokens |-> bucket.tokens, age |-> bucket.age]
      /\ bucket.tokens \in 0..BucketSize /\ RefillInterval <= FullAge
    BY <1>1, BucketFields
<1>3. a \in Nat /\ a \in 0..(FullAge + RefillInterval)
    BY <1>2, LimiterConstants
<1>4. \/ a = bucket.age + 1
      \/ a = bucket.age + 1 - RefillInterval /\ a >= FullAge
    BY <1>2, LimiterConstants
<1>5. bucket' = [bucket EXCEPT !.age = a]
    BY DEF LimiterTick
<1>. HIDE DEF a
<1>6. bucket' = [tokens |-> bucket.tokens, age |-> a]
    BY <1>2, <1>5
<1>. QED BY <1>2, <1>3, <1>4, <1>6 DEF Buckets

LEMMA LimiterTickFields ==
    ASSUME LimiterTypeOK, LimiterTick
    PROVE  /\ watch'.ticks = watch.ticks + 1 /\ watch'.passed = watch.passed
           /\ watch' \in [ticks : 0..MaxWatch, passed : Nat]
           /\ idle' = IF idle < RestTicks THEN idle + 1 ELSE idle
           /\ idle' \in 0..RestTicks /\ waited' \in 0..MaxWait
           /\ waited' <= waited + 1 /\ idle' >= RefillInterval => waited' = 0
           /\ bucket = NoBucket => bucket' = NoBucket
<1>1. /\ watch.ticks < MaxWatch /\ watch' = [watch EXCEPT !.ticks = @ + 1]
      /\ idle' = IF idle < RestTicks THEN idle + 1 ELSE idle
      /\ waited' = IF idle' >= RefillInterval THEN 0
                   ELSE IF waited < MaxWait THEN waited + 1 ELSE waited
      /\ bucket = NoBucket => bucket' = NoBucket
    BY DEF LimiterTick
<1>2. watch'.ticks = watch.ticks + 1 /\ watch'.passed = watch.passed
    BY <1>1, WatchFields
<1>3. watch' \in [ticks : 0..MaxWatch, passed : Nat]
    BY <1>1, LimiterConstants DEF LimiterTypeOK
<1>4. idle' \in 0..RestTicks
    BY <1>1, WatchFields, LimiterConstants
<1>5. waited' \in 0..MaxWait /\ waited' <= waited + 1
    BY <1>1, WatchFields, LimiterConstants DEF LimiterTypeOK
<1>. QED BY <1>1, <1>2, <1>3, <1>4, <1>5

\* A tick adds at most one end of an interval to the window.
LEMMA EndedTicks ==
    ASSUME NEW b \in Buckets, NEW c \in Buckets, NEW t \in Nat,
           c.age % RefillInterval = (b.age + 1) % RefillInterval
    PROVE  Ended(c, t + 1) = Ended(b, t) + IF (b.age % RefillInterval) + 1 = RefillInterval
                                           THEN 1 ELSE 0
<1>. DEFINE p == b.age % RefillInterval
<1>1. /\ b.age \in Nat /\ p \in Nat /\ p < RefillInterval
      /\ RefillInterval \in Nat /\ RefillInterval >= 1
    BY BucketFields, LimiterConstants, IntervalsOfAge
<1>2. /\ p + 1 < RefillInterval => c.age % RefillInterval = p + 1
      /\ p + 1 = RefillInterval => c.age % RefillInterval = 0
    BY <1>1, AgeTicks
<1>. HIDE DEF p
<1>3. CASE p + 1 < RefillInterval
  <2>1. (t + 1) + RefillInterval - 1 - (p + 1) = t + RefillInterval - 1 - p
      BY <1>1
  <2>2. p + 1 # RefillInterval
      BY <1>1, <1>3
  <2>3. Ended(c, t + 1) = Ended(b, t)
      BY <1>2, <1>3, <2>1 DEF Ended, p
  <2>4. Ended(b, t) \in Nat
      BY EndedIsNat
  <2>. QED BY <2>2, <2>3, <2>4 DEF p
<1>4. CASE p + 1 = RefillInterval
  <2>1. /\ (t + 1) + RefillInterval - 1 - 0 = t + RefillInterval
        /\ t + RefillInterval - 1 - p = t
      BY <1>1, <1>4
  <2>2. (t + RefillInterval) \div RefillInterval = (t \div RefillInterval) + 1
      BY <1>1, IntervalEnds
  <2>3. Ended(c, t + 1) = (t + RefillInterval) \div RefillInterval
      BY <1>2, <1>4, <2>1 DEF Ended
  <2>4. Ended(b, t) = t \div RefillInterval
      BY <2>1 DEF Ended, p
  <2>. QED BY <1>4, <2>2, <2>3, <2>4 DEF p
<1>. QED BY <1>1, <1>3, <1>4

\* A tick adds at most one refill to the value of a bucket, at the end of an interval.
LEMMA ValueTicks ==
    ASSUME NEW b \in Buckets, NEW c \in Buckets, c.tokens = b.tokens,
           \/ c.age = b.age + 1
           \/ c.age = b.age + 1 - RefillInterval /\ c.age >= FullAge
    PROVE  /\ c.age % RefillInterval = (b.age + 1) % RefillInterval
           /\ Value(c) <= Value(b) + IF (b.age % RefillInterval) + 1 = RefillInterval
                                     THEN RefillRate ELSE 0
<1>. DEFINE k == b.age \div RefillInterval
            p == b.age % RefillInterval
<1>1. /\ b.age \in Nat /\ c.age \in Nat /\ b.tokens \in Nat /\ k \in Nat /\ p \in Nat
      /\ p < RefillInterval /\ RefillInterval \in Nat /\ RefillInterval >= 1
      /\ b.tokens <= BucketSize
    BY BucketFields, LimiterConstants, IntervalsOfAge
<1>2. /\ p + 1 < RefillInterval => (b.age + 1) \div RefillInterval = k
      /\ p + 1 = RefillInterval => (b.age + 1) \div RefillInterval = k + 1
    BY <1>1, AgeTicks
<1>3. k * RefillRate \in Nat /\ (k + 1) * RefillRate = k * RefillRate + RefillRate
    BY <1>1, LimiterConstants, RefillsTimes
<1>4. Value(b) \in Nat /\ Value(c) \in Nat /\ Value(b) <= BucketSize /\ Value(c) <= BucketSize
    BY ValueOfBucket
<1>5. CASE c.age = b.age + 1
  <2>1. CASE p + 1 < RefillInterval
    <3>1. Value(c) = Value(b)
        BY <1>2, <1>5, <2>1 DEF Value
    <3>2. p + 1 # RefillInterval
        BY <1>1, <2>1
    <3>. QED BY <1>4, <1>5, <3>1, <3>2
  <2>2. CASE p + 1 = RefillInterval
    <3>. HIDE DEF k, p
    <3>1. c.age \div RefillInterval = k + 1
        BY <1>2, <1>5, <2>2
    <3>2. Value(c) <= Value(b) + RefillRate
        BY <1>1, <1>3, <3>1, LimiterConstants DEF Value, k
    <3>. QED BY <1>5, <2>2, <3>2 DEF p
  <2>. QED BY <1>1, <2>1, <2>2
<1>6. CASE c.age = b.age + 1 - RefillInterval /\ c.age >= FullAge
  <2>1. c.age + RefillInterval = b.age + 1
      BY <1>1, <1>6
  <2>2. (c.age + RefillInterval) % RefillInterval = c.age % RefillInterval
      BY <1>1, WholeIntervals
  <2>3. c.age % RefillInterval = (b.age + 1) % RefillInterval
      BY <2>1, <2>2
  <2>4. b.age >= FullAge /\ FullAge \in Nat
      BY <1>1, <1>6, BucketFields
  <2>5. k >= BucketSize
      BY <1>1, <2>4, LimiterConstants, FullAgeFills DEF FullAge
  <2>6. k * RefillRate >= BucketSize
      BY <1>1, <2>5, LimiterConstants, RefillsTimes
  <2>. HIDE DEF k
  <2>7. Value(b) = BucketSize
      BY <1>1, <1>3, <2>6, LimiterConstants DEF Value, k
  <2>. QED BY <1>4, <2>3, <2>7, LimiterConstants
<1>. QED BY <1>5, <1>6

LEMMA TickKeepsBound ==
    ASSUME LimiterTypeOK, BoundInv, LimiterTick
    PROVE  BoundInv'
<1>1. CASE bucket = NoBucket
    BY <1>1, LimiterTickFields DEF BoundInv
<1>2. CASE bucket # NoBucket
  <2>1. PICK c \in Buckets :
          /\ bucket' = c /\ c.tokens = bucket.tokens
          /\ \/ c.age = bucket.age + 1
             \/ c.age = bucket.age + 1 - RefillInterval /\ c.age >= FullAge
      BY <1>2, TickAges
  <2>. DEFINE t == watch.ticks
              last == (bucket.age % RefillInterval) + 1 = RefillInterval
              more == IF last THEN 1 ELSE 0
  <2>2. bucket \in Buckets /\ c # NoBucket /\ t \in Nat /\ watch.passed \in Nat
      BY <1>2, WatchFields, BucketFields
  <2>3. /\ c.age % RefillInterval = (bucket.age + 1) % RefillInterval
        /\ Value(c) <= Value(bucket) + IF last THEN RefillRate ELSE 0
      BY <2>1, <2>2, ValueTicks
  <2>4. Ended(c, t + 1) = Ended(bucket, t) + IF last THEN 1 ELSE 0
      BY <2>2, <2>3, EndedTicks
  <2>5. /\ Value(c) \in Nat /\ Value(bucket) \in Nat
        /\ Ended(bucket, t) \in Nat /\ Ended(bucket, t) * RefillRate \in Nat
        /\ (Ended(bucket, t) + 1) * RefillRate = Ended(bucket, t) * RefillRate + RefillRate
      BY <2>2, ValueOfBucket, EndedIsNat, RefillsTimes, LimiterConstants
  <2>6. watch.passed + Room(bucket) <= BucketSize + Ended(bucket, t) * RefillRate
      BY <1>2 DEF BoundInv
  <2>. HIDE DEF last, t
  <2>7. watch.passed + Room(c) <= BucketSize + Ended(c, t + 1) * RefillRate
    <3>1. CASE last
        BY <2>2, <2>3, <2>4, <2>5, <2>6, <3>1, LimiterConstants DEF Room
    <3>2. CASE ~last
        BY <2>2, <2>3, <2>4, <2>5, <2>6, <3>2, LimiterConstants DEF Room
    <3>. QED BY <3>1, <3>2
  <2>8. watch'.ticks = t + 1 /\ watch'.passed = watch.passed
      BY LimiterTickFields DEF t
  <2>. QED BY <2>1, <2>2, <2>7, <2>8 DEF BoundInv, Room, Value, Ended
<1>. QED BY <1>1, <1>2

LEMMA TickKeepsTrickle ==
    ASSUME LimiterTypeOK, TrickleInv, LimiterTick
    PROVE  TrickleInv'
<1>1. /\ idle' = IF idle < RestTicks THEN idle + 1 ELSE idle
      /\ idle' \in Nat /\ waited' \in Nat /\ waited' <= waited + 1
      /\ idle' >= RefillInterval => waited' = 0
      /\ bucket = NoBucket => bucket' = NoBucket
      /\ waited \in Nat /\ idle \in Nat /\ idle <= RestTicks
      /\ RestTicks \in Nat /\ RestTicks = RefillInterval + RefillInterval
  <2>1. idle' \in 0..RestTicks /\ waited' \in 0..MaxWait
      BY LimiterTickFields
  <2>2. /\ waited \in Nat /\ idle \in Nat /\ idle <= RestTicks /\ MaxWait \in Nat
        /\ RestTicks \in Nat /\ RestTicks = RefillInterval + RefillInterval
      BY WatchFields
  <2>3. idle' \in Nat /\ waited' \in Nat
      BY <2>1, <2>2, LimiterConstants
  <2>4. /\ idle' = IF idle < RestTicks THEN idle + 1 ELSE idle
        /\ idle' >= RefillInterval => waited' = 0
        /\ bucket = NoBucket => bucket' = NoBucket
      BY DEF LimiterTick
  <2>5. waited' <= waited + 1
      BY <2>2, <2>3 DEF LimiterTick
  <2>. QED BY <2>2, <2>3, <2>4, <2>5
<1>2. CASE bucket = NoBucket
    BY <1>1, <1>2, LimiterConstants DEF TrickleInv
<1>3. CASE bucket # NoBucket
  <2>1. PICK a \in Nat : /\ bucket'.age = a /\ bucket' # NoBucket
                         /\ \/ a = bucket.age + 1
                            \/ a = bucket.age + 1 - RefillInterval /\ a >= FullAge
      BY <1>3, TickAges, BucketFields
  <2>2. bucket.age \in Nat /\ FullAge \in Nat /\ RefillInterval <= FullAge
      BY <1>3, WatchFields, BucketFields
  <2>3. CASE idle < RefillInterval
    <3>1. /\ RefillRate >= 2 => waited <= bucket.age
          /\ idle <= bucket.age /\ bucket.age < RefillInterval + idle
        BY <1>3, <2>3 DEF TrickleInv
    <3>2. a = bucket.age + 1
        BY <1>1, <2>1, <2>2, <2>3, <3>1, LimiterConstants
    <3>3. /\ idle' = idle + 1 /\ idle' <= a /\ a < RefillInterval + idle'
          /\ RefillRate >= 2 => waited' <= a
        BY <1>1, <2>2, <2>3, <3>1, <3>2, LimiterConstants
    <3>4. idle' >= RefillInterval => a >= RefillInterval
        BY <1>1, <2>2, <3>3, LimiterConstants
    <3>. QED BY <1>1, <2>1, <3>3, <3>4, LimiterConstants DEF TrickleInv
  <2>4. CASE idle >= RefillInterval
    <3>1. bucket.age >= RefillInterval /\ (BucketSize >= 2 => idle <= bucket.age)
        BY <1>1, <1>3, <2>4, LimiterConstants DEF TrickleInv
    <3>2. a >= RefillInterval
        BY <2>1, <2>2, <3>1, LimiterConstants
    <3>3. ~(idle' < RefillInterval) /\ idle' <= idle + 1 /\ idle' <= RestTicks
        BY <1>1, <2>4, LimiterConstants
    <3>4. BucketSize >= 2 => RestTicks <= FullAge
      <4>1. BucketSize >= 2 => 2 * RefillInterval <= BucketSize * RefillInterval
          BY LimiterConstants, RefillsTimes
      <4>. QED BY <4>1 DEF RestTicks, FullAge
    <3>5. BucketSize >= 2 => idle' <= a
        BY <1>1, <2>1, <2>2, <3>1, <3>3, <3>4, LimiterConstants
    <3>. QED BY <1>1, <2>1, <3>2, <3>3, <3>5 DEF TrickleInv
  <2>. QED BY <1>1, <2>3, <2>4, LimiterConstants
<1>. QED BY <1>2, <1>3


LEMMA LimiterBegins == LimiterInit => LimiterInv
<1>. SUFFICES ASSUME LimiterInit PROVE LimiterInv
    OBVIOUS
<1>1. bucket = NoBucket /\ watch = [ticks |-> 0, passed |-> 0] /\ waited = 0 /\ idle = 0
    BY DEF LimiterInit
<1>2. LimiterTypeOK
  <2>1. 0 \in 0..MaxWatch /\ 0 \in 0..MaxWait /\ 0 \in 0..RestTicks
      BY LimiterConstants DEF MaxWait, RestTicks
  <2>. QED BY <1>1, <2>1 DEF LimiterTypeOK
<1>3. BoundInv /\ TrickleInv
    BY <1>1, LimiterConstants DEF BoundInv, TrickleInv
<1>. QED BY <1>2, <1>3 DEF LimiterInv

LEMMA WatchKeeps ==
    ASSUME LimiterTypeOK, WatchFromNow
    PROVE  LimiterTypeOK' /\ BoundInv'
<1>1. watch' = [ticks |-> 0, passed |-> 0] /\ UNCHANGED <<bucket, waited, idle>>
    BY DEF WatchFromNow
<1>2. 0 \in 0..MaxWatch
    BY LimiterConstants
<1>3. LimiterTypeOK'
    BY <1>1, <1>2 DEF LimiterTypeOK
<1>5. bucket # NoBucket => Room(bucket) <= BucketSize + Ended(bucket, 0) * RefillRate
  <2>1. ASSUME bucket # NoBucket
        PROVE  Room(bucket) <= BucketSize + Ended(bucket, 0) * RefillRate
    <3>1. bucket \in Buckets
        BY <2>1, WatchFields
    <3>2. Room(bucket) \in Nat /\ Room(bucket) <= BucketSize
        BY <3>1, ValueOfBucket
    <3>3. Ended(bucket, 0) * RefillRate \in Nat
        BY <3>1, EndedIsNat
    <3>. QED BY <3>2, <3>3, LimiterConstants
  <2>. QED BY <2>1
<1>6. bucket # NoBucket => Room(bucket) \in Nat
    BY WatchFields, ValueOfBucket
<1>7. BoundInv'
    BY <1>1, <1>5, <1>6 DEF BoundInv, Room, Value, Ended
<1>. QED BY <1>3, <1>7

LEMMA TickKeepsTypes ==
    ASSUME LimiterTypeOK, LimiterTick
    PROVE  LimiterTypeOK'
<1>1. bucket' \in Buckets \cup {NoBucket}
    BY TickAges, LimiterTickFields
<1>. QED BY <1>1, LimiterTickFields DEF LimiterTypeOK, Buckets

\* The bound holds for any refill.
LEMMA BoundNext ==
    LimiterTypeOK /\ BoundInv /\ [LimiterNext]_blVars => LimiterTypeOK' /\ BoundInv'
<1>. SUFFICES ASSUME LimiterTypeOK, BoundInv, [LimiterNext]_blVars
              PROVE  LimiterTypeOK' /\ BoundInv'
    OBVIOUS
<1>1. CASE ConsumeRateLimit
    BY <1>1, CallKeepsTypes, CallKeepsBound
<1>2. CASE StopLimiter
  <2>1. 0 \in 0..MaxWatch /\ 0 \in 0..MaxWait
      BY LimiterConstants DEF MaxWait
  <2>. QED BY <1>2, <2>1 DEF StopLimiter, LimiterTypeOK, BoundInv
<1>3. CASE LimiterTick
    BY <1>3, TickKeepsTypes, TickKeepsBound
<1>4. CASE WatchFromNow
    BY <1>4, WatchKeeps
<1>5. CASE UNCHANGED blVars
    BY <1>5 DEF blVars, LimiterTypeOK, BoundInv, Room, Value, Ended
<1>. QED BY <1>1, <1>2, <1>3, <1>4, <1>5 DEF LimiterNext

LEMMA TrickleNext ==
    LimiterTypeOK /\ TrickleInv /\ [LimiterNext]_blVars => TrickleInv'
<1>. SUFFICES ASSUME LimiterTypeOK, TrickleInv, [LimiterNext]_blVars
              PROVE  TrickleInv'
    OBVIOUS
<1>1. CASE ConsumeRateLimit
    BY <1>1, CallKeepsTrickle
<1>2. CASE StopLimiter
    BY <1>2, WatchFields DEF StopLimiter, TrickleInv
<1>3. CASE LimiterTick
    BY <1>3, TickKeepsTrickle
<1>4. CASE WatchFromNow
    BY <1>4 DEF WatchFromNow, TrickleInv
<1>5. CASE UNCHANGED blVars
    BY <1>5 DEF blVars, TrickleInv
<1>. QED BY <1>1, <1>2, <1>3, <1>4, <1>5 DEF LimiterNext

\* The types of the limiter hold.
THEOREM LimiterTyped == LimiterSpec => []LimiterTypeOK
<1>1. LimiterInit => LimiterTypeOK /\ BoundInv
    BY LimiterBegins DEF LimiterInv
<1>. QED BY <1>1, BoundNext, PTL DEF LimiterSpec

\* Whatever the size, the refill and the interval, the calls let through in any
\* window are fewer than a full bucket and the refills of the window.
THEOREM BurstsBounded == LimiterSpec => []BurstIsBounded
<1>1. LimiterInit => LimiterTypeOK /\ BoundInv
    BY LimiterBegins DEF LimiterInv
<1>2. LimiterTypeOK /\ BoundInv => BurstIsBounded
  <2>. SUFFICES ASSUME LimiterTypeOK, BoundInv PROVE BurstIsBounded
      OBVIOUS
  <2>. DEFINE t == watch.ticks
              most == (t + RefillInterval - 1) \div RefillInterval
  <2>1. t \in Nat /\ watch.passed \in Nat
      BY WatchFields
  <2>2. t + RefillInterval - 1 \in Nat
      BY <2>1, LimiterConstants
  <2>3. most \in Nat /\ most * RefillRate \in Nat
      BY <2>2, LimiterConstants, IntervalsOfAge, RefillsTimes
  <2>4. CASE bucket = NoBucket
      BY <2>3, <2>4, LimiterConstants DEF BoundInv, BurstIsBounded
  <2>5. CASE bucket # NoBucket
    <3>. DEFINE p == bucket.age % RefillInterval
    <3>1. bucket \in Buckets /\ Room(bucket) \in Nat /\ Room(bucket) >= 1
        BY <2>5, WatchFields, ValueOfBucket
    <3>2. p \in Nat /\ p < RefillInterval
        BY <3>1, BucketFields, LimiterConstants, IntervalsOfAge
    <3>3. Ended(bucket, t) \in Nat /\ Ended(bucket, t) * RefillRate \in Nat
        BY <2>1, <3>1, EndedIsNat
    <3>4. watch.passed + Room(bucket) <= BucketSize + Ended(bucket, t) * RefillRate
        BY <2>5 DEF BoundInv
    <3>5. Ended(bucket, t) <= most
      <4>. HIDE DEF p, t
      <4>1. /\ t + RefillInterval - 1 - p \in Nat
            /\ t + RefillInterval - 1 - p <= t + RefillInterval - 1
          BY <2>1, <3>2, LimiterConstants
      <4>. QED BY <2>2, <4>1, DivisionGrows, LimiterConstants DEF Ended, p
    <3>. HIDE DEF p, most
    <3>6. Ended(bucket, t) * RefillRate <= most * RefillRate
        BY <2>3, <3>3, <3>5, RefillsTimes, LimiterConstants
    <3>7. watch.passed < BucketSize + most * RefillRate
        BY <2>1, <2>3, <3>1, <3>3, <3>4, <3>6, LimiterConstants
    <3>. QED BY <3>7 DEF BurstIsBounded, most
  <2>. QED BY <2>4, <2>5
<1>. QED BY <1>1, <1>2, BoundNext, PTL DEF LimiterSpec

\* Whatever the size, the refill and the interval: the bound holds; with a refill of two
\* tokens or more a burst that goes on is not starved; and with any refill, also that of
\* one, whose token is the one that is refused, a call after a rest is let through.
THEOREM RateIsKeptAlways == LimiterSpec => []RateIsKept
<1>1. LimiterInit => LimiterTypeOK /\ TrickleInv
    BY LimiterBegins DEF LimiterInv
<1>2. LimiterTypeOK /\ TrickleInv => BurstsTrickle /\ RestIsRewarded
  <2>. SUFFICES ASSUME LimiterTypeOK, TrickleInv PROVE BurstsTrickle /\ RestIsRewarded
      OBVIOUS
  <2>1. /\ waited \in Nat /\ idle \in Nat /\ idle <= RestTicks /\ MaxWait \in Nat
        /\ RestTicks < MaxWait /\ RestTicks = RefillInterval + RefillInterval
      BY WatchFields
  <2>2. CASE bucket = NoBucket
      BY <2>1, <2>2, LimiterConstants DEF TrickleInv, BurstsTrickle, RestIsRewarded
  <2>3. CASE bucket # NoBucket
    <3>1. bucket \in Buckets /\ bucket.age \in Nat
        BY <2>3, WatchFields, BucketFields
    <3>2. BurstsTrickle
        BY <2>1, <2>3, <3>1, LimiterConstants DEF TrickleInv, BurstsTrickle
    <3>3. ASSUME idle = RestTicks, BucketSize >= 2 PROVE Value(bucket) >= 2
      <4>1. bucket.age >= 2 * RefillInterval
          BY <2>1, <2>3, <3>1, <3>3, LimiterConstants DEF TrickleInv
      <4>. DEFINE k == bucket.age \div RefillInterval
      <4>2. k \in Nat /\ k >= 2
          BY <3>1, <4>1, LimiterConstants, FullAgeFills, IntervalsOfAge
      <4>. HIDE DEF k
      <4>3. k * RefillRate \in Nat /\ k <= k * RefillRate
          BY <4>2, LimiterConstants, RefillsTimes
      <4>4. bucket.tokens \in Nat
          BY <3>1, BucketFields
      <4>5. bucket.tokens + k * RefillRate >= 2
          BY <4>2, <4>3, <4>4
      <4>. QED BY <3>3, <4>5, LimiterConstants DEF Value, k
    <3>4. AppliedRefill(bucket).tokens = Value(bucket)
        BY <3>1, RefillKeepsValue
    <3>. QED BY <3>2, <3>3, <3>4 DEF RestIsRewarded
  <2>. QED BY <2>2, <2>3
<1>3. LimiterTypeOK /\ TrickleInv /\ [LimiterNext]_blVars => TrickleInv'
    BY TrickleNext
<1>4. LimiterSpec => []TrickleInv
    BY <1>1, <1>3, LimiterTyped, PTL DEF LimiterSpec
<1>. QED BY <1>2, <1>4, LimiterTyped, BurstsBounded, PTL DEF RateIsKept


-------------------------------------------------------------------------------
(* FlagPoller, for every number of versions on the server.                      *)

\* The end of a load, before and after stopPoller: it sets the only timer.
LEMMA OneTimerAtTheEnd ==
    ASSUME PollingGoesOn, stopped \in BOOLEAN, load # "none", EndLoad, UNCHANGED stopped
    PROVE  PollingGoesOn' /\ load' = "none" /\ pollTimer' \in 0..1
BY DEF PollingGoesOn, EndLoad

\* The start of a load clears the timer.
LEMMA NoTimerInALoad ==
    ASSUME BeginLoad
    PROVE  PollingGoesOn' /\ load' \in {"deciding", "requesting"} /\ pollTimer' \in 0..1
           /\ shouldFetch' \in BOOLEAN
BY DEF PollingGoesOn, BeginLoad

\* The numbers that the poller and the server count with.
LEMMA SmallNumbers ==
    /\ 0 \in 0..1 /\ 0 \in Versions /\ 1 \in Versions \ {0}
    /\ \A v \in Versions : v < MaxVersions => v + 1 \in Versions \ {0}
BY PollerAssumption DEF Versions

PollerIInv == PollerTypeOK /\ PollingGoesOn

LEMMA PollerInitIInv == PollerInit => PollerIInv
<1>1. ASSUME PollerInit PROVE load \in {"deciding", "requesting"} /\ PollingGoesOn
    BY <1>1 DEF PollerInit, PollingGoesOn
<1>2. ASSUME PollerInit PROVE PollerTypeOK
    BY <1>1, <1>2, SmallNumbers, Zenon DEF PollerInit, PollerTypeOK
<1>. QED BY <1>1, <1>2 DEF PollerIInv

LEMMA PollerNextIInv == PollerIInv /\ [PollerNext]_fpVars => PollerIInv'
<1>. SUFFICES ASSUME PollerIInv, [PollerNext]_fpVars PROVE PollerIInv'
    OBVIOUS
<1>. USE DEF PollerIInv, PollerTypeOK
<1>1. CASE LoadOnDemand
    BY <1>1, NoTimerInALoad DEF LoadOnDemand
<1>2. CASE ReloadDefinitions
    BY <1>2, NoTimerInALoad DEF ReloadDefinitions
<1>3. CASE PollTimerFires
    BY <1>3, NoTimerInALoad DEF PollTimerFires
<1>4. CASE BackoffPasses
    BY <1>4 DEF BackoffPasses, PollingGoesOn
<1>5. CASE LoadStep
  <2>1. ASSUME NEW fetch \in BOOLEAN, CacheDecides(fetch) PROVE PollerIInv'
      BY <2>1 DEF CacheDecides, PollingGoesOn
  <2>2. CASE CacheHit
      BY <2>2, OneTimerAtTheEnd DEF CacheHit
  <2>3. CASE CacheMiss /\ loadedOnce
      BY <2>3, OneTimerAtTheEnd DEF CacheMiss
  <2>4. CASE CacheMiss /\ ~loadedOnce
      BY <2>4 DEF CacheMiss, PollingGoesOn
  <2>5. ASSUME NEW tagged \in BOOLEAN, Fetched(tagged) PROVE PollerIInv'
    <3>1. etag' \in Versions /\ definitions' \in Versions
        BY <2>5, PollerAssumption DEF Fetched, Versions
    <3>2. CASE hasCache /\ shouldFetch
        BY <2>5, <3>1, <3>2 DEF Fetched, PollingGoesOn
    <3>3. CASE ~(hasCache /\ shouldFetch)
        BY <2>5, <3>1, <3>3, OneTimerAtTheEnd DEF Fetched
    <3>. QED BY <3>2, <3>3
  <2>6. CASE NotModified
      BY <2>6, OneTimerAtTheEnd DEF NotModified
  <2>7. CASE QuotaExceeded
    <3>1. definitions' \in Versions
        BY <2>7, PollerAssumption DEF QuotaExceeded, Versions
    <3>. QED BY <2>7, <3>1, OneTimerAtTheEnd DEF QuotaExceeded
  <2>8. CASE Rejected
      BY <2>8, OneTimerAtTheEnd DEF Rejected
  <2>9. CASE RequestFails
      BY <2>9, OneTimerAtTheEnd DEF RequestFails
  <2>10. ASSUME NEW succeeds \in BOOLEAN, Stored(succeeds) PROVE PollerIInv'
      BY <2>10, OneTimerAtTheEnd DEF Stored
  <2>. QED BY <1>5, <2>1, <2>2, <2>3, <2>4, <2>5, <2>6, <2>7, <2>8, <2>9, <2>10
           DEF LoadStep, Loaded
<1>6. CASE StopPoller
  <2>1. PollingGoesOn'
      BY <1>6 DEF StopPoller, PollingGoesOn
  <2>. QED BY <1>6, <2>1, SmallNumbers, Zenon DEF StopPoller
<1>7. CASE DefinitionsChange
  <2>1. PollingGoesOn'
      BY <1>7, Zenon DEF DefinitionsChange, PollingGoesOn
  <2>. QED BY <1>7, <2>1, SmallNumbers, Zenon DEF DefinitionsChange
<1>8. ASSUME NEW version \in Versions, CacheChanges(version) PROVE PollerIInv'
    BY <1>8 DEF CacheChanges, PollingGoesOn
<1>9. CASE UNCHANGED fpVars
    BY <1>9 DEF fpVars, PollingGoesOn
<1>. QED BY <1>1, <1>2, <1>3, <1>4, <1>5, <1>6, <1>7, <1>8, <1>9 DEF PollerNext

--------------------------------------------------------------------------------
\* The poller's fields and its timer stay within their types.
THEOREM PollerTypeCorrect == PollerSpec => []PollerTypeOK
<1>1. PollerIInv => PollerTypeOK
    BY DEF PollerIInv
<1>. QED BY <1>1, PollerInitIInv, PollerNextIInv, PTL DEF PollerSpec

\* Polling goes on until it is stopped, and by one timer only
\* (feature-flags.ts:977-981), however loads, answers and stopPoller interleave.
THEOREM PollingGoesOnAlways == PollerSpec => []PollingGoesOn
<1>1. PollerIInv => PollingGoesOn
    BY DEF PollerIInv
<1>. QED BY <1>1, PollerInitIInv, PollerNextIInv, PTL DEF PollerSpec

--------------------------------------------------------------------------------
(* FlagPoller: what it takes for a 304 to leave the poller without definitions. *)

\* Without a cache the entity tag stands for the definitions that the poller holds.
TagIsHeld ==
    ~hasCache => /\ load \notin {"deciding", "reading cache"}
                 /\ etag # 0 => definitions = etag
                 /\ notModified => definitions # 0

LEMMA TagInit == PollerInit => TagIsHeld
BY DEF PollerInit, TagIsHeld

LEMMA TagNext ==
    PollerIInv /\ TagIsHeld /\ [PollerNext /\ ~QuotaExceeded]_fpVars => TagIsHeld'
<1>. SUFFICES ASSUME PollerIInv, TagIsHeld, [PollerNext /\ ~QuotaExceeded]_fpVars
              PROVE  TagIsHeld'
    OBVIOUS
<1>0. /\ serverVersion # 0
      /\ hasCache' = hasCache
  <2>1. serverVersion # 0
      BY DEF PollerIInv, PollerTypeOK
  <2>2. hasCache' = hasCache
      BY DEF PollerNext, LoadStep, Loaded, LoadOnDemand, ReloadDefinitions, PollTimerFires,
             BackoffPasses, CacheDecides, CacheHit, CacheMiss, Fetched, NotModified,
             QuotaExceeded, Rejected, RequestFails, Stored, StopPoller, DefinitionsChange,
             CacheChanges, fpVars
  <2>. QED BY <2>1, <2>2
<1>. SUFFICES ASSUME ~hasCache
              PROVE  /\ load' \notin {"deciding", "reading cache"}
                     /\ etag' # 0 => definitions' = etag'
                     /\ notModified' => definitions' # 0
    BY <1>0 DEF TagIsHeld
<1>1. CASE LoadOnDemand \/ ReloadDefinitions \/ PollTimerFires \/ BackoffPasses
  <2>1. UNCHANGED <<etag, definitions, notModified>>
      BY <1>1 DEF LoadOnDemand, ReloadDefinitions, PollTimerFires, BackoffPasses
  <2>2. load' \in {load, "requesting"}
      BY <1>1 DEF LoadOnDemand, ReloadDefinitions, PollTimerFires, BackoffPasses, BeginLoad
  <2>. QED BY <2>1, <2>2, Zenon DEF TagIsHeld
<1>2. CASE LoadStep /\ ~QuotaExceeded
  <2>1. ~(\E fetch \in BOOLEAN : CacheDecides(fetch)) /\ ~CacheHit /\ ~CacheMiss
      BY DEF TagIsHeld, CacheDecides, CacheHit, CacheMiss
  <2>2. ASSUME NEW tagged \in BOOLEAN, Fetched(tagged)
        PROVE  /\ load' \notin {"deciding", "reading cache"}
               /\ etag' # 0 => definitions' = etag'
               /\ notModified' => definitions' # 0
      BY <1>0, <2>2 DEF Fetched, EndLoad
  <2>3. CASE NotModified
      BY <1>0, <2>3 DEF TagIsHeld, NotModified, EndLoad
  <2>4. CASE Rejected \/ RequestFails
      BY <2>4 DEF TagIsHeld, Rejected, RequestFails, EndLoad
  <2>5. ASSUME NEW succeeds \in BOOLEAN, Stored(succeeds)
        PROVE  /\ load' \notin {"deciding", "reading cache"}
               /\ etag' # 0 => definitions' = etag'
               /\ notModified' => definitions' # 0
      BY <2>5 DEF TagIsHeld, Stored, EndLoad
  <2>. QED BY <1>2, <2>1, <2>2, <2>3, <2>4, <2>5 DEF LoadStep, Loaded
<1>3. CASE StopPoller \/ DefinitionsChange \/ \E version \in Versions : CacheChanges(version)
  <2>1. UNCHANGED <<etag, definitions, notModified, load>>
      BY <1>3 DEF StopPoller, DefinitionsChange, CacheChanges
  <2>. QED BY <2>1, Zenon DEF TagIsHeld
<1>4. CASE UNCHANGED fpVars
    BY <1>4 DEF TagIsHeld, fpVars
<1>. QED BY <1>1, <1>2, <1>3, <1>4 DEF PollerNext

\* A quota answer is the only cause of a 304 that finds no definitions to keep (the
\* comment at feature-flags.ts:888): a poller that never gets one keeps, without a cache,
\* the definitions that its entity tag names, whatever else fails and however loads
\* interleave.  With quota answers the property fails (run flag_poller_etag).
THEOREM NotModifiedNeedsQuota ==
    PollerInit /\ [][PollerNext /\ ~QuotaExceeded]_fpVars => []NotModifiedKeepsData
<1>1. PollerIInv /\ [PollerNext /\ ~QuotaExceeded]_fpVars => PollerIInv'
    BY PollerNextIInv
<1>2. TagIsHeld => NotModifiedKeepsData
    BY DEF TagIsHeld, NotModifiedKeepsData
<1>. QED BY <1>1, <1>2, PollerInitIInv, TagInit, TagNext, PTL

-------------------------------------------------------------------------------
(* CaptureV1, for every batch and every configured retry count.                 *)

\* While a batch is under way some of its events are pending, also when the
\* answer to them is awaited, and a sleep is followed by an attempt that is left.
UnderWay ==
    /\ sending # "over" => pendingEvents # {}
    /\ sending = "sleep" => attempt < AttemptBudget
    /\ reports \in {0, 1}

V1IInv == V1TypeOK /\ BatchIsAccounted /\ UnderWay

\* There is at least one attempt, whatever the configuration says.
LEMMA BudgetIsPositive == AttemptBudget \in Nat /\ AttemptBudget >= 1
BY V1Assumption DEF AttemptBudget

LEMMA V1InitIInv == V1Init => V1IInv
BY BudgetIsPositive
   DEF V1Init, V1IInv, V1TypeOK, BatchIsAccounted, VerdictsAreFinal, SettledNotRequested,
       ReportIsComplete, UnderWay

\* A report that names the drops and all that is pending ends the batch well.
LEMMA ReportEnds ==
    ASSUME V1IInv, sending # "over", Report(drops, pendingEvents),
           UNCHANGED <<pendingEvents, requested, attempt, drops, delivered>>
    PROVE  V1IInv'
BY DEF V1IInv, V1TypeOK, BatchIsAccounted, VerdictsAreFinal, SettledNotRequested,
       ReportIsComplete, UnderWay, Report

\* An attempt that brought no verdicts is followed by another, if one is left.
LEMMA SleepOn ==
    ASSUME V1IInv, sending # "over", ~LastAttempt, sending' = "sleep", Quietly,
           UNCHANGED <<pendingEvents, requested, attempt, drops, delivered>>
    PROVE  V1IInv'
<1>1. attempt < AttemptBudget
    BY BudgetIsPositive DEF V1IInv, V1TypeOK, LastAttempt
<1>2. AttemptBudget' = AttemptBudget
    BY DEF AttemptBudget
<1>. QED BY <1>1, <1>2
         DEF V1IInv, V1TypeOK, BatchIsAccounted, VerdictsAreFinal, SettledNotRequested,
             ReportIsComplete, UnderWay, Quietly

\* The verdicts of an answer: each pending event is settled or stays pending.
LEMMA VerdictsIInv ==
    ASSUME V1IInv, NEW dropping \in SUBSET pendingEvents, NEW retrying \in SUBSET pendingEvents,
           dropping \cap retrying = {}, VerdictsRead(dropping, retrying)
    PROVE  V1IInv'
<1>1. /\ drops' = drops \cup dropping
      /\ delivered' = delivered \cup (pendingEvents \ (dropping \cup retrying))
      /\ pendingEvents' = retrying
      /\ requested' = requested /\ attempt' = attempt /\ sending = "body"
    BY DEF VerdictsRead, Classify
<1>2. /\ drops' \subseteq V1Events /\ delivered' \subseteq V1Events
      /\ pendingEvents' \subseteq V1Events
    BY <1>1 DEF V1IInv, V1TypeOK
<1>3. VerdictsAreFinal'
    BY <1>1 DEF V1IInv, BatchIsAccounted, VerdictsAreFinal
<1>4. AttemptBudget' = AttemptBudget
    BY DEF AttemptBudget
<1>5. reports = 0
    BY <1>1 DEF V1IInv, BatchIsAccounted, ReportIsComplete
<1>6. CASE retrying = {} /\ drops' = {}
    BY <1>1, <1>2, <1>3, <1>4, <1>5, <1>6
       DEF V1IInv, V1TypeOK, BatchIsAccounted, SettledNotRequested, ReportIsComplete,
           UnderWay, VerdictsRead, Quietly
<1>7. CASE retrying = {} /\ drops' # {}
    BY <1>1, <1>2, <1>3, <1>4, <1>5, <1>7
       DEF V1IInv, V1TypeOK, BatchIsAccounted, SettledNotRequested, ReportIsComplete,
           UnderWay, VerdictsRead, Report
<1>8. CASE retrying # {} /\ LastAttempt
    BY <1>1, <1>2, <1>3, <1>4, <1>5, <1>8
       DEF V1IInv, V1TypeOK, BatchIsAccounted, SettledNotRequested, ReportIsComplete,
           UnderWay, VerdictsRead, Report
<1>9. CASE retrying # {} /\ ~LastAttempt
  <2>1. attempt < AttemptBudget
      BY <1>9, BudgetIsPositive DEF V1IInv, V1TypeOK, LastAttempt
  <2>. QED BY <1>1, <1>2, <1>3, <1>4, <1>5, <1>9, <2>1
           DEF V1IInv, V1TypeOK, BatchIsAccounted, SettledNotRequested, ReportIsComplete,
               UnderWay, VerdictsRead, Quietly
<1>. QED BY <1>6, <1>7, <1>8, <1>9

LEMMA V1NextIInv == V1IInv /\ [V1Next]_cvVars => V1IInv'
<1>. SUFFICES ASSUME V1IInv, [V1Next]_cvVars PROVE V1IInv'
    OBVIOUS
<1>0. AttemptBudget' = AttemptBudget
    BY DEF AttemptBudget
<1>1. CASE TransportFails
    BY <1>1, ReportEnds, SleepOn DEF TransportFails
<1>2. CASE RetryableStatus
    BY <1>2, ReportEnds, SleepOn DEF RetryableStatus
<1>3. CASE TerminalStatus
    BY <1>3, ReportEnds DEF TerminalStatus
<1>4. CASE SuccessStatus
    BY <1>0, <1>4
       DEF SuccessStatus, Quietly, V1IInv, V1TypeOK, BatchIsAccounted, VerdictsAreFinal,
           SettledNotRequested, ReportIsComplete, UnderWay
<1>5. CASE BodyUnparseable
    BY <1>5, ReportEnds DEF BodyUnparseable
<1>6. CASE NextAttempt
  <2>1. attempt' \in 1..AttemptBudget
      BY <1>6, BudgetIsPositive DEF NextAttempt, V1IInv, V1TypeOK, UnderWay
  <2>. QED BY <1>0, <1>6, <2>1
           DEF NextAttempt, Quietly, V1IInv, V1TypeOK, BatchIsAccounted, VerdictsAreFinal,
               SettledNotRequested, ReportIsComplete, UnderWay
<1>7. ASSUME NEW dropping \in SUBSET pendingEvents, NEW retrying \in SUBSET pendingEvents,
             dropping \cap retrying = {}, VerdictsRead(dropping, retrying)
      PROVE  V1IInv'
    BY <1>7, VerdictsIInv
<1>8. CASE UNCHANGED cvVars
    BY <1>0, <1>8
       DEF cvVars, V1IInv, V1TypeOK, BatchIsAccounted, VerdictsAreFinal,
           SettledNotRequested, ReportIsComplete, UnderWay
<1>. QED BY <1>1, <1>2, <1>3, <1>4, <1>5, <1>6, <1>7, <1>8 DEF V1Next

--------------------------------------------------------------------------------
\* The sender's fields stay within their types: the attempt under way is numbered within
\* a budget of one or more, whatever retry count is configured (sender.ts:113).
THEOREM V1TypeCorrect == V1Spec => []V1TypeOK
<1>1. V1IInv => V1TypeOK
    BY DEF V1IInv
<1>. QED BY <1>1, V1InitIInv, V1NextIInv, PTL DEF V1Spec

\* No event of a batch is lost in silence, settled twice or sent again after its
\* verdict (sender.ts:68-70), for any batch and any retry count.
THEOREM BatchAlwaysAccounted == V1Spec => []BatchIsAccounted
<1>1. V1IInv => BatchIsAccounted
    BY DEF V1IInv
<1>. QED BY <1>1, V1InitIInv, V1NextIInv, PTL DEF V1Spec

-------------------------------------------------------------------------------
(* WaitUntil, for every debounce, cap, threshold and bound.                     *)

FlushRecord == [kept : BOOLEAN, awaits : SUBSET Hosted, running : BOOLEAN, batch : SUBSET Hosted]

CycleRecord == [on : BOOLEAN, age : Nat, left : Nat]

ClosingRecord ==
    [pc : {"none", "joining", "draining", "flushing", "done"}, holds : BOOLEAN, late : BOOLEAN,
     behind : Nat, awaits : SUBSET Hosted]

\* What a chain of flushes does for a message.
TakenBy(chained, m) ==
    \E i \in DOMAIN chained :
       chained[i].kept /\ (chained[i].running => m \in chained[i].batch)

\* What is left of the timer is over before the cap and one debounce are; and a shutdown
\* that has not begun has no promise to resolve, or it would lose it when it begins.
WaitUntilIInv ==
    /\ WaitUntilTypeOK
    /\ cycle.on => cycle.age + cycle.left < MaxDelayTicks + DebounceTicks
    /\ closing.pc = "none" => ~closing.holds
    /\ HeldUntilTried

--------------------------------------------------------------------------------
(* What the steps do to the chain *)

\* One more flush takes nothing from what the others do.
LEMMA FlushAdded ==
    ASSUME NEW chained \in Seq(FlushRecord), NEW keeps \in BOOLEAN, underway \subseteq Hosted
    PROVE  /\ Flushed(chained, keeps) \in Seq(FlushRecord)
           /\ Len(chained) <= Len(Flushed(chained, keeps))
           /\ \A m : TakenBy(chained, m) => TakenBy(Flushed(chained, keeps), m)
           /\ keeps => \A m : TakenBy(Flushed(chained, keeps), m)
<1>. DEFINE new == [kept |-> keeps, awaits |-> underway, running |-> FALSE, batch |-> {}]
            after == Append(chained, new)
<1>1. new \in FlushRecord
    BY DEF FlushRecord
<1>2. /\ after \in Seq(FlushRecord) /\ Len(after) = Len(chained) + 1
      /\ DOMAIN after = 1..Len(chained) + 1 /\ DOMAIN chained = 1..Len(chained)
      /\ \A i \in 1..Len(chained) : after[i] = chained[i]
      /\ after[Len(chained) + 1] = new
    BY <1>1
<1>3. /\ Len(chained) \in Nat /\ Len(chained) <= Len(after)
      /\ Len(chained) + 1 \in DOMAIN after /\ DOMAIN chained \subseteq DOMAIN after
    BY <1>2, LenProperties
<1>. HIDE DEF after
<1>4. \A m : TakenBy(chained, m) => TakenBy(after, m)
    BY <1>2, <1>3 DEF TakenBy
<1>5. keeps => \A m : TakenBy(after, m)
    BY <1>2, <1>3 DEF TakenBy
<1>. QED BY <1>2, <1>3, <1>4, <1>5 DEF after, Flushed

\* So does any way to ask for one.
LEMMA FlushAsked ==
    ASSUME chain \in Seq(FlushRecord), NEW inRequest \in BOOLEAN, underway \subseteq Hosted,
           cycle.on \in BOOLEAN,
           NEW after \in {FlushCalled(inRequest), FlushBackground(inRequest), chain}
    PROVE  /\ after \in Seq(FlushRecord) /\ Len(chain) <= Len(after)
           /\ \A m : TakenBy(chain, m) => TakenBy(after, m)
<1>1. (inRequest /\ ~cycle.on) \in BOOLEAN
    OBVIOUS
<1>2. after \in {Flushed(chain, inRequest /\ ~cycle.on), chain}
    BY DEF FlushBackground, FlushCalled
<1>3. CASE after = chain
    <2>1. Len(chain) \in Nat
        BY LenProperties
    <2>2. Len(chain) <= Len(chain)
        BY <2>1
    <2>. QED BY <1>3, <2>2
<1>4. CASE after = Flushed(chain, inRequest /\ ~cycle.on)
    BY <1>1, <1>4, FlushAdded
<1>. QED BY <1>2, <1>3, <1>4

\* The oldest flush that begins takes all that is queued, and no other changes.
LEMMA FlushTakes ==
    ASSUME chain \in Seq(FlushRecord), chain # <<>>, ~chain[1].running, stored \subseteq Hosted,
           chain' = [chain EXCEPT ![1].running = TRUE, ![1].batch = stored]
    PROVE  /\ chain' \in Seq(FlushRecord) /\ Len(chain) <= Len(chain')
           /\ \A m \in stored : TakenBy(chain, m) => TakenBy(chain', m)
<1>1. /\ DOMAIN chain = 1..Len(chain) /\ 1 \in DOMAIN chain
      /\ \A i \in DOMAIN chain : chain[i] \in FlushRecord
    BY EmptySeq
<1>2. /\ DOMAIN chain' = DOMAIN chain
      /\ chain'[1] = [kept |-> chain[1].kept, awaits |-> chain[1].awaits,
                      running |-> TRUE, batch |-> stored]
      /\ \A i \in DOMAIN chain \ {1} : chain'[i] = chain[i]
    BY <1>1 DEF FlushRecord
<1>3. \A i \in DOMAIN chain : chain'[i] \in FlushRecord
    <2>1. chain[1] \in FlushRecord
        BY <1>1
    <2>2. chain[1].kept \in BOOLEAN /\ chain[1].awaits \in SUBSET Hosted
        BY <2>1 DEF FlushRecord
    <2>3. \A k \in BOOLEAN, a \in SUBSET Hosted :
              [kept |-> k, awaits |-> a, running |-> TRUE, batch |-> stored] \in FlushRecord
        BY DEF FlushRecord
    <2>4. chain'[1] \in FlushRecord
        BY <1>2, <2>2, <2>3, Zenon
    <2>5. ASSUME NEW i \in DOMAIN chain, i # 1
          PROVE  chain'[i] \in FlushRecord
        BY <1>1, <1>2, <2>5
    <2>. QED BY <2>4, <2>5
<1>4. PICK e \in FlushRecord : chain' = [chain EXCEPT ![1] = e]
    BY <1>1, <1>2, <1>3
<1>5. chain' \in Seq(FlushRecord) /\ Len(chain) <= Len(chain')
    <2>1. Len(chain) \in Nat /\ 1 \in 1..Len(chain)
        BY <1>1, LenProperties
    <2>2. /\ [chain EXCEPT ![1] = e] \in Seq(FlushRecord)
          /\ Len([chain EXCEPT ![1] = e]) = Len(chain)
        BY <2>1, ExceptSeq
    <2>3. Len(chain') = Len(chain) /\ chain' \in Seq(FlushRecord)
        BY <1>4, <2>2, Zenon
    <2>. QED BY <2>1, <2>3
<1>6. ASSUME NEW m \in stored, TakenBy(chain, m) PROVE TakenBy(chain', m)
    <2>1. PICK i \in DOMAIN chain : chain[i].kept /\ (chain[i].running => m \in chain[i].batch)
        BY <1>6 DEF TakenBy
    <2>2. chain'[i].kept /\ (chain'[i].running => m \in chain'[i].batch)
        BY <1>2, <2>1
    <2>. QED BY <1>2, <2>2 DEF TakenBy
<1>. QED BY <1>5, <1>6

\* The oldest flush settles: what it did not have is left to the others.
LEMMA FlushLeaves ==
    ASSUME chain \in Seq(FlushRecord), chain # <<>>, chain[1].running
    PROVE  /\ Tail(chain) \in Seq(FlushRecord) /\ Len(Tail(chain)) = Len(chain) - 1
           /\ chain[1].batch \subseteq Hosted
           /\ \A m : TakenBy(chain, m) => m \in chain[1].batch \/ TakenBy(Tail(chain), m)
<1>1. /\ DOMAIN chain = 1..Len(chain) /\ Len(chain) \in Nat \ {0}
      /\ \A i \in DOMAIN chain : chain[i] \in FlushRecord
    BY EmptySeq
<1>2. /\ Tail(chain) \in Seq(FlushRecord) /\ Len(Tail(chain)) = Len(chain) - 1
      /\ DOMAIN Tail(chain) = 1..(Len(chain) - 1)
      /\ \A i \in 1..(Len(chain) - 1) : Tail(chain)[i] = chain[i + 1]
    BY <1>1, HeadTailProperties
<1>3. ASSUME NEW m, TakenBy(chain, m), m \notin chain[1].batch PROVE TakenBy(Tail(chain), m)
    <2>1. PICK i \in DOMAIN chain : chain[i].kept /\ (chain[i].running => m \in chain[i].batch)
        BY <1>3 DEF TakenBy
    <2>2. i # 1 /\ i \in Nat /\ i >= 1 /\ i <= Len(chain)
        BY <1>1, <1>3, <2>1
    <2>3. i - 1 \in 1..(Len(chain) - 1) /\ (i - 1) + 1 = i
        BY <1>1, <2>2
    <2>4. i - 1 \in DOMAIN Tail(chain) /\ Tail(chain)[i - 1] = chain[i]
        BY <1>2, <2>3
    <2>. QED BY <2>1, <2>4 DEF TakenBy
<1>4. chain[1].batch \subseteq Hosted
    BY <1>1 DEF FlushRecord
<1>. QED BY <1>2, <1>3, <1>4

--------------------------------------------------------------------------------
(* What the steps do to the cycle and to shutdown *)

\* The timer runs: what its end will make of the age stays the same.
LEMMA TimerRuns ==
    ASSUME NEW c \in CycleRecord, c.left > 0, c.left <= DebounceTicks,
           c.age + c.left < MaxDelayTicks + DebounceTicks,
           NEW after, after = [c EXCEPT !.age = @ + 1, !.left = @ - 1]
    PROVE  /\ after \in CycleRecord /\ after.on = c.on /\ after.left <= DebounceTicks
           /\ after.age + after.left < MaxDelayTicks + DebounceTicks
           /\ after.age <= MaxDelayTicks + DebounceTicks
<1>1. c.age + 1 \in Nat /\ c.left - 1 \in Nat /\ c.age \in Nat /\ c.left \in Nat
    BY DEF CycleRecord
<1>2. after.age = c.age + 1 /\ after.left = c.left - 1 /\ after.on = c.on
    BY <1>1 DEF CycleRecord
<1>3. after \in CycleRecord
    BY <1>1 DEF CycleRecord
<1>. QED BY <1>1, <1>2, <1>3, WaitUntilAssumption

\* The timer starts again: the cap has not been reached.
LEMMA TimerStarts ==
    ASSUME NEW c \in CycleRecord, ~(c.age >= MaxDelayTicks),
           NEW after, after = [c EXCEPT !.on = TRUE, !.left = DebounceTicks]
    PROVE  /\ after \in CycleRecord /\ after.on /\ after.left <= DebounceTicks
           /\ after.age + after.left < MaxDelayTicks + DebounceTicks
           /\ after.age <= MaxDelayTicks + DebounceTicks
<1>1. after \in CycleRecord /\ after.on
    BY WaitUntilAssumption DEF CycleRecord
<1>2. after.age = c.age /\ after.left = DebounceTicks /\ c.age \in Nat
    BY DEF CycleRecord
<1>. QED BY <1>1, <1>2, WaitUntilAssumption

--------------------------------------------------------------------------------
(* Each step *)

\* The parts of the invariant, with Held in terms of TakenBy.
LEMMA WaitUntilUnfolded ==
    WaitUntilIInv =>
      /\ hosted \in [captures : 0..MaxHosted, flushes : 0..MaxHostFlushes]
      /\ {underway, stored, tried, loose} \subseteq SUBSET Hosted
      /\ cycle \in CycleRecord /\ cycle.left <= DebounceTicks
      /\ cycle.age <= MaxDelayTicks + DebounceTicks
      /\ chain \in Seq(FlushRecord) /\ Len(chain) \in Nat
      /\ closing \in ClosingRecord /\ closing.behind <= Len(chain)
      /\ cycle.on => cycle.age + cycle.left < MaxDelayTicks + DebounceTicks
      /\ closing.pc = "none" => ~closing.holds
      /\ \A m \in stored \ (tried \cup loose) : cycle.on \/ closing.holds \/ TakenBy(chain, m)
<1>1. ASSUME WaitUntilTypeOK
      PROVE  /\ cycle \in CycleRecord /\ cycle.left <= DebounceTicks
             /\ cycle.age <= MaxDelayTicks + DebounceTicks
             /\ chain \in Seq(FlushRecord) /\ Len(chain) \in Nat
             /\ closing \in ClosingRecord /\ closing.behind <= Len(chain)
    <2>1. chain \in Seq(FlushRecord) /\ Len(chain) \in Nat
        BY <1>1, LenProperties DEF WaitUntilTypeOK, FlushRecord
    <2>. QED BY <1>1, <2>1, WaitUntilAssumption DEF WaitUntilTypeOK, CycleRecord, ClosingRecord
<1>. QED BY <1>1 DEF WaitUntilIInv, WaitUntilTypeOK, HeldUntilTried, Held, TakenBy

LEMMA WaitUntilInitIInv == WaitUntilInit => WaitUntilIInv
<1>. SUFFICES ASSUME WaitUntilInit PROVE WaitUntilIInv
    OBVIOUS
<1>1. /\ 0 \in 0..MaxHosted /\ 0 \in 0..MaxHostFlushes /\ 0 \in 0..DebounceTicks
      /\ 0 \in 0..(MaxDelayTicks + DebounceTicks)
    BY WaitUntilAssumption
<1>2. <<>> \in Seq(FlushRecord) /\ 0 \in 0..Len(<<>>)
    BY EmptySeq
<1>3. WaitUntilTypeOK
    BY <1>1, <1>2 DEF WaitUntilInit, WaitUntilTypeOK, NoCycle, NoClosing, FlushRecord
<1>. QED BY <1>3 DEF WaitUntilInit, WaitUntilIInv, HeldUntilTried, NoCycle, NoClosing

\* The same after a step: what is to be shown of each.
LEMMA WaitUntilStep ==
    ASSUME hosted' \in [captures : 0..MaxHosted, flushes : 0..MaxHostFlushes],
           {underway', stored', tried', loose'} \subseteq SUBSET Hosted,
           cycle' \in CycleRecord, cycle'.left <= DebounceTicks,
           cycle'.age <= MaxDelayTicks + DebounceTicks,
           chain' \in Seq(FlushRecord),
           closing' \in ClosingRecord, closing'.behind <= Len(chain'),
           cycle'.on => cycle'.age + cycle'.left < MaxDelayTicks + DebounceTicks,
           closing'.pc = "none" => ~closing'.holds,
           \A m \in stored' \ (tried' \cup loose') :
              cycle'.on \/ closing'.holds \/ TakenBy(chain', m)
    PROVE  WaitUntilIInv'
<1>1. Len(chain') \in Nat
    BY LenProperties
<1>2. cycle'.age \in 0..(MaxDelayTicks + DebounceTicks) /\ cycle'.left \in 0..DebounceTicks
      /\ closing'.behind \in 0..Len(chain')
    BY <1>1, WaitUntilAssumption DEF CycleRecord, ClosingRecord
<1>3. WaitUntilTypeOK'
    BY <1>2 DEF WaitUntilTypeOK, CycleRecord, ClosingRecord, FlushRecord
<1>. QED BY <1>3 DEF WaitUntilIInv, HeldUntilTried, Held, TakenBy

\* Every step keeps the invariant.
LEMMA WaitUntilNextIInv == WaitUntilIInv /\ [WaitUntilNext]_wuVars => WaitUntilIInv'
<1>. SUFFICES ASSUME WaitUntilIInv, [WaitUntilNext]_wuVars PROVE WaitUntilIInv'
    OBVIOUS
<1>1. /\ hosted \in [captures : 0..MaxHosted, flushes : 0..MaxHostFlushes]
      /\ underway \subseteq Hosted /\ stored \subseteq Hosted
      /\ tried \subseteq Hosted /\ loose \subseteq Hosted
      /\ cycle \in CycleRecord /\ cycle.left <= DebounceTicks
      /\ cycle.age <= MaxDelayTicks + DebounceTicks
      /\ chain \in Seq(FlushRecord) /\ Len(chain) \in Nat
      /\ closing \in ClosingRecord /\ closing.behind <= Len(chain)
      /\ cycle.on => cycle.age + cycle.left < MaxDelayTicks + DebounceTicks
      /\ closing.pc = "none" => ~closing.holds
      /\ \A m \in stored \ (tried \cup loose) : cycle.on \/ closing.holds \/ TakenBy(chain, m)
    BY WaitUntilUnfolded
<1>2. /\ MaxHosted \in Nat /\ MaxHostFlushes \in Nat
      /\ DebounceTicks \in Nat /\ MaxDelayTicks \in Nat
    BY WaitUntilAssumption
<1>3. /\ NoCycle \in CycleRecord /\ ~NoCycle.on /\ NoCycle.left <= DebounceTicks
      /\ NoCycle.age <= MaxDelayTicks + DebounceTicks
    BY <1>2 DEF NoCycle, CycleRecord
<1>0. chain \in Seq(FlushRecord) /\ underway \subseteq Hosted /\ cycle.on \in BOOLEAN
    BY <1>1 DEF CycleRecord
<1>a. /\ cycle \in CycleRecord /\ cycle.left <= DebounceTicks
      /\ cycle.on => cycle.age + cycle.left < MaxDelayTicks + DebounceTicks
    BY <1>1
<1>b. closing \in ClosingRecord /\ closing.behind <= Len(chain) /\ Len(chain) \in Nat
    BY <1>1
\* Steps that add flushes, if any, leave room for what shutdown waits for.
<1>4. ASSUME NEW after \in Seq(FlushRecord), Len(chain) <= Len(after)
      PROVE  closing.behind <= Len(after)
    BY <1>1, <1>4, LenProperties DEF ClosingRecord
<1>5. CASE CallHostFlush
    <2>1. /\ hosted' \in [captures : 0..MaxHosted, flushes : 0..MaxHostFlushes]
          /\ UNCHANGED <<underway, stored, cycle, closing, tried, loose>>
        BY <1>1, <1>2, <1>5 DEF CallHostFlush
    <2>2. PICK inRequest \in BOOLEAN :
              chain' \in {FlushCalled(inRequest), FlushBackground(inRequest)}
        BY <1>5 DEF CallHostFlush
    <2>3. /\ chain' \in Seq(FlushRecord) /\ Len(chain) <= Len(chain')
          /\ \A m : TakenBy(chain, m) => TakenBy(chain', m)
        BY <1>0, <2>2, FlushAsked, Zenon
    <2>. QED BY <1>1, <1>4, <2>1, <2>3, WaitUntilStep
<1>6. CASE FlushBegins
    <2>1. /\ chain # <<>> /\ ~chain[1].running
          /\ chain' = [chain EXCEPT ![1].running = TRUE, ![1].batch = stored]
          /\ UNCHANGED <<hosted, underway, stored, cycle, closing, tried, loose>>
        BY <1>6 DEF FlushBegins
    <2>2. /\ chain' \in Seq(FlushRecord) /\ Len(chain) <= Len(chain')
          /\ \A m \in stored : TakenBy(chain, m) => TakenBy(chain', m)
        BY <1>1, <2>1, FlushTakes
    <2>. QED BY <1>1, <1>4, <2>1, <2>2, WaitUntilStep
<1>7. CASE FlushEnds
    <2>1. chain # <<>> /\ chain[1].running /\ chain' = Tail(chain)
          /\ UNCHANGED <<hosted, underway, cycle>>
        BY <1>7 DEF FlushEnds
    <2>2. /\ chain' \in Seq(FlushRecord) /\ chain[1].batch \subseteq Hosted
          /\ Len(chain') = Len(chain) - 1
          /\ \A m : TakenBy(chain, m) => m \in chain[1].batch \/ TakenBy(chain', m)
        BY <1>1, <2>1, FlushLeaves
    <2>3. PICK failed \in BOOLEAN :
            /\ \E first \in IF failed THEN 0..MaxHosted ELSE {MaxHosted} :
                  stored' = stored \ {m \in chain[1].batch : m <= first}
            /\ tried' = (IF failed THEN tried \cup chain[1].batch ELSE tried) \cap stored'
            /\ \/ /\ closing.behind = 0 /\ UNCHANGED closing /\ loose' = loose \cap stored'
               \/ GivesUp(Done)
               \/ /\ closing.behind > 0
                  /\ closing' = [closing EXCEPT !.behind = @ - 1,
                       !.pc = IF @ = "joining" \/ closing.behind > 1 THEN @
                              ELSE IF closing.late THEN "done" ELSE "draining"]
                  /\ loose' = loose \cap stored'
        BY <1>7 DEF FlushEnds
    \* The batch is gone, or has been tried.
    <2>4. /\ stored' \subseteq stored /\ tried \cap stored' \subseteq tried'
          /\ chain[1].batch \cap stored' \subseteq tried'
          /\ tried' \subseteq Hosted
        <3>1. CASE failed
            BY <1>1, <2>2, <2>3, <3>1
        <3>2. CASE ~failed
            <4>1. \A m \in Hosted : m <= MaxHosted
                BY <1>2 DEF Hosted
            <4>. QED BY <1>1, <2>2, <2>3, <3>2, <4>1
        <3>. QED BY <3>1, <3>2
    <2>5. /\ closing' \in ClosingRecord /\ closing'.behind <= Len(chain')
          /\ closing'.pc = "none" => ~closing'.holds
          /\ loose' \subseteq Hosted
          /\ \A m \in stored' \ loose' : m \notin loose /\ (closing.holds => closing'.holds)
        <3>1. CASE closing.behind = 0 /\ UNCHANGED closing /\ loose' = loose \cap stored'
            BY <1>1, <2>2, <3>1
        <3>2. CASE GivesUp(Done)
            <4>1. Len(chain') \in Nat
                BY <2>2, LenProperties
            <4>2. closing' = Done /\ Done \in ClosingRecord /\ Done.behind = 0 /\ Done.pc = "done"
                BY <3>2 DEF GivesUp, Done, NoClosing, ClosingRecord
            <4>3. loose' = IF closing.holds THEN stored' ELSE loose \cap stored'
                BY <3>2 DEF GivesUp
            <4>. QED BY <1>1, <2>4, <4>1, <4>2, <4>3
        <3>3. CASE /\ closing.behind > 0
                   /\ closing' = [closing EXCEPT !.behind = @ - 1,
                        !.pc = IF @ = "joining" \/ closing.behind > 1 THEN @
                               ELSE IF closing.late THEN "done" ELSE "draining"]
                   /\ loose' = loose \cap stored'
            <4>1. closing.behind - 1 \in Nat /\ closing.behind - 1 <= Len(chain')
                BY <1>b, <2>2, <3>3 DEF ClosingRecord
            <4>2. closing' \in ClosingRecord
                BY <1>b, <3>3, <4>1 DEF ClosingRecord
            <4>3. /\ closing'.behind = closing.behind - 1 /\ closing'.holds = closing.holds
                  /\ closing'.pc \in {closing.pc, "done", "draining"}
                BY <1>b, <3>3 DEF ClosingRecord
            <4>. QED BY <1>1, <2>4, <3>3, <4>1, <4>2, <4>3
        <3>. QED BY <2>3, <3>1, <3>2, <3>3
    <2>6. \A m \in stored' \ (tried' \cup loose') :
             cycle'.on \/ closing'.holds \/ TakenBy(chain', m)
        BY <1>1, <2>1, <2>2, <2>4, <2>5
    <2>. QED BY <1>1, <2>1, <2>2, <2>4, <2>5, <2>6, WaitUntilStep
<1>8. CASE BeginHosted
    <2>1. /\ hosted' \in [captures : 0..MaxHosted, flushes : 0..MaxHostFlushes]
          /\ hosted'.captures \in Hosted
          /\ underway' = underway \cup {hosted'.captures}
          /\ UNCHANGED <<stored, cycle, chain, closing, tried, loose>>
        BY <1>1, <1>2, <1>8 DEF BeginHosted, Hosted
    <2>. QED BY <1>1, <2>1, WaitUntilStep
<1>9. ASSUME NEW c \in Hosted, EnqueueHosted(c) PROVE WaitUntilIInv'
    <2>1. PICK keeps \in BOOLEAN, inRequest \in BOOLEAN :
            /\ stored' = IF keeps THEN stored \cup {c} ELSE stored
            /\ ScheduleDebouncedFlush(
                   IF keeps /\ Cardinality(stored') >= FlushThreshold
                   THEN FlushBackground(inRequest) ELSE chain, inRequest)
            /\ loose' = IF keeps /\ ~cycle.on /\ ~inRequest THEN loose \cup {c} ELSE loose
        BY <1>9 DEF EnqueueHosted
    <2>2. underway' = underway \ {c} /\ UNCHANGED <<hosted, closing, tried>>
        BY <1>9 DEF EnqueueHosted
    <2>. DEFINE asked == IF keeps /\ Cardinality(stored') >= FlushThreshold
                         THEN FlushBackground(inRequest) ELSE chain
    <2>3. asked \in {FlushCalled(inRequest), FlushBackground(inRequest), chain}
        OBVIOUS
    <2>4. /\ asked \in Seq(FlushRecord) /\ Len(chain) <= Len(asked)
          /\ \A m : TakenBy(chain, m) => TakenBy(asked, m)
        BY <1>0, <2>3, FlushAsked, Zenon
    <2>5. ScheduleDebouncedFlush(asked, inRequest)
        BY <2>1
    <2>. HIDE DEF asked
    <2>6. stored' \subseteq Hosted /\ loose' \subseteq Hosted /\ underway' \subseteq Hosted
          /\ stored' \subseteq stored \cup {c} /\ loose \subseteq loose'
        BY <1>1, <2>1, <2>2
    <2>7. CASE ~cycle.on /\ ~inRequest
        <3>1. chain' = asked /\ UNCHANGED cycle
            BY <2>5, <2>7 DEF ScheduleDebouncedFlush
        <3>2. \A m \in stored' \ loose' : m \in stored
            BY <2>1, <2>7
        <3>3. \A m \in stored' \ (tried' \cup loose') :
                 cycle'.on \/ closing'.holds \/ TakenBy(chain', m)
            BY <1>1, <2>2, <2>4, <2>6, <3>1, <3>2
        <3>. QED BY <1>1, <1>4, <2>2, <2>4, <2>6, <3>1, <3>3, WaitUntilStep
    <2>8. CASE (cycle.on \/ inRequest) /\ cycle.age >= MaxDelayTicks
        <3>1. cycle' = NoCycle /\ chain' = Flushed(asked, TRUE)
            BY <2>5, <2>8 DEF ScheduleDebouncedFlush, ResolveWaitUntilFlush
        <3>2. /\ chain' \in Seq(FlushRecord) /\ Len(chain) <= Len(chain')
              /\ \A m : TakenBy(chain', m)
            <4>1. /\ chain' \in Seq(FlushRecord) /\ Len(asked) <= Len(chain')
                  /\ \A m : TakenBy(chain', m)
                BY <1>0, <2>4, <3>1, FlushAdded, Zenon
            <4>2. Len(asked) \in Nat /\ Len(chain') \in Nat
                BY <2>4, <4>1, LenProperties
            <4>. QED BY <1>b, <2>4, <4>1, <4>2
        <3>. QED BY <1>1, <1>3, <1>4, <2>2, <2>6, <3>1, <3>2, WaitUntilStep
    <2>9. CASE (cycle.on \/ inRequest) /\ ~(cycle.age >= MaxDelayTicks)
        <3>1. cycle' = [cycle EXCEPT !.on = TRUE, !.left = DebounceTicks] /\ chain' = asked
            BY <2>5, <2>9 DEF ScheduleDebouncedFlush
        <3>2. /\ cycle' \in CycleRecord /\ cycle'.left <= DebounceTicks
              /\ cycle'.on /\ cycle'.age + cycle'.left < MaxDelayTicks + DebounceTicks
              /\ cycle'.age <= MaxDelayTicks + DebounceTicks
            BY <1>a, <2>9, <3>1, TimerStarts
        <3>. QED BY <1>1, <1>4, <2>2, <2>4, <2>6, <3>1, <3>2, WaitUntilStep
    <2>. QED BY <2>7, <2>8, <2>9
<1>10. ASSUME NEW c \in Hosted, DiscardHosted(c) PROVE WaitUntilIInv'
    <2>1. /\ underway' = underway \ {c}
          /\ UNCHANGED <<hosted, stored, cycle, chain, closing, tried, loose>>
        BY <1>10 DEF DiscardHosted
    <2>. QED BY <1>1, <2>1, WaitUntilStep
<1>11. CASE HostTick
    <2>1. /\ cycle' = [cycle EXCEPT !.age = @ + 1, !.left = @ - 1] /\ cycle.on /\ cycle.left > 0
          /\ UNCHANGED <<hosted, underway, stored, chain, closing, tried, loose>>
        BY <1>11 DEF HostTick
    <2>2. /\ cycle' \in CycleRecord /\ cycle'.left <= DebounceTicks
          /\ cycle'.on /\ cycle'.age + cycle'.left < MaxDelayTicks + DebounceTicks
          /\ cycle'.age <= MaxDelayTicks + DebounceTicks
        BY <1>a, <2>1, TimerRuns
    <2>. QED BY <1>1, <2>1, <2>2, WaitUntilStep
<1>12. CASE DebounceFires
    <2>1. /\ cycle' = NoCycle /\ chain' = Flushed(chain, TRUE)
          /\ UNCHANGED <<hosted, underway, stored, closing, tried, loose>>
        BY <1>12 DEF DebounceFires, ResolveWaitUntilFlush
    <2>2. /\ chain' \in Seq(FlushRecord) /\ Len(chain) <= Len(chain')
          /\ \A m : TakenBy(chain', m)
        BY <1>1, <2>1, FlushAdded
    <2>. QED BY <1>1, <1>3, <1>4, <2>1, <2>2, WaitUntilStep
<1>13. CASE BeginClosing
    <2>1. /\ closing.pc = "none" /\ cycle' = NoCycle
          /\ closing' = [NoClosing EXCEPT !.pc = "joining", !.holds = cycle.on]
          /\ UNCHANGED <<hosted, underway, stored, chain, tried, loose>>
        BY <1>13 DEF BeginClosing
    <2>2. /\ closing' \in ClosingRecord /\ closing'.behind <= Len(chain)
          /\ closing'.pc = "joining" /\ closing'.holds = cycle.on
        <3>1. closing' \in ClosingRecord /\ closing'.behind = 0
              /\ closing'.pc = "joining" /\ closing'.holds = cycle.on
            BY <1>0, <2>1 DEF NoClosing, ClosingRecord
        <3>. QED BY <1>b, <3>1
    <2>. QED BY <1>1, <1>3, <2>1, <2>2, WaitUntilStep
<1>14. CASE ClosingJoins
    <2>1. /\ closing.pc = "joining"
          /\ closing' \in {[closing EXCEPT !.pc = "draining", !.awaits = {}],
                           [closing EXCEPT !.behind = Len(chain), !.awaits = underway]}
          /\ UNCHANGED <<hosted, underway, stored, cycle, chain, tried, loose>>
        BY <1>14 DEF ClosingJoins
    <2>2. /\ closing' \in ClosingRecord /\ closing'.behind <= Len(chain)
          /\ closing'.pc # "none" /\ closing'.holds = closing.holds
        <3>1. CASE closing' = [closing EXCEPT !.pc = "draining", !.awaits = {}]
            BY <1>b, <3>1 DEF ClosingRecord
        <3>2. CASE closing' = [closing EXCEPT !.behind = Len(chain), !.awaits = underway]
            <4>1. /\ closing' \in ClosingRecord /\ closing'.behind = Len(chain)
                  /\ closing'.pc = closing.pc /\ closing'.holds = closing.holds
                BY <1>0, <1>b, <3>2 DEF ClosingRecord
            <4>. QED BY <1>b, <2>1, <4>1
        <3>. QED BY <2>1, <3>1, <3>2
    <2>. QED BY <1>1, <2>1, <2>2, WaitUntilStep
<1>15. CASE ClosingDrains
    <2>1. UNCHANGED <<hosted, underway, stored, cycle, tried, loose>>
        BY <1>15 DEF ClosingDrains
    <2>2. CASE stored = {}
        <3>1. closing' = Done /\ UNCHANGED chain
            BY <1>15, <2>2 DEF ClosingDrains
        <3>2. /\ closing' \in ClosingRecord /\ closing'.behind <= Len(chain)
              /\ closing'.pc # "none"
            <4>1. Done \in ClosingRecord /\ Done.behind = 0 /\ Done.pc = "done"
                BY DEF Done, NoClosing, ClosingRecord
            <4>. QED BY <1>b, <3>1, <4>1
        <3>. QED BY <1>1, <2>1, <2>2, <3>1, <3>2, WaitUntilStep
    <2>3. CASE stored # {}
        <3>1. PICK inRequest \in BOOLEAN : chain' = FlushCalled(inRequest)
            BY <1>15, <2>3 DEF ClosingDrains
        <3>2. closing' = [closing EXCEPT !.pc = "flushing", !.behind = Len(chain')]
            BY <1>15, <2>3 DEF ClosingDrains
        <3>3. /\ chain' \in Seq(FlushRecord) /\ Len(chain') \in Nat
              /\ \A m : TakenBy(chain, m) => TakenBy(chain', m)
            BY <1>0, <3>1, FlushAsked, LenProperties, Zenon
        <3>4. /\ closing' \in ClosingRecord /\ closing'.behind <= Len(chain')
              /\ closing'.pc # "none" /\ closing'.holds = closing.holds
            <4>1. /\ closing' \in ClosingRecord /\ closing'.behind = Len(chain')
                  /\ closing'.pc = "flushing" /\ closing'.holds = closing.holds
                BY <1>b, <3>2, <3>3 DEF ClosingRecord
            <4>. QED BY <3>3, <4>1
        <3>. QED BY <1>1, <2>1, <3>3, <3>4, WaitUntilStep
    <2>. QED BY <2>2, <2>3
<1>16. CASE ClosingTimesOut
    <2>1. /\ closing.pc # "none" /\ UNCHANGED <<hosted, underway, stored, cycle, chain, tried>>
          /\ closing' = [closing EXCEPT !.late = TRUE, !.holds = FALSE]
          /\ loose' = IF closing.holds THEN stored' ELSE loose \cap stored'
        BY <1>16 DEF ClosingTimesOut, GivesUp
    <2>2. /\ closing' \in ClosingRecord /\ closing'.behind <= Len(chain)
          /\ closing'.pc # "none"
        BY <1>b, <2>1 DEF ClosingRecord
    <2>. QED BY <1>1, <2>1, <2>2, WaitUntilStep
<1>17. CASE UNCHANGED wuVars
    BY <1>1, <1>17, WaitUntilStep DEF wuVars
<1>. QED
    BY <1>5, <1>6, <1>7, <1>8, <1>9, <1>10, <1>11, <1>12, <1>13, <1>14, <1>15, <1>16, <1>17
    DEF WaitUntilNext

--------------------------------------------------------------------------------
(* Theorems *)

\* The captures, the cycle, the flushes and shutdown keep their types in every behaviour;
\* in particular shutdown waits for no more flushes than there are.
THEOREM WaitUntilTypes == WaitUntilSpec => []WaitUntilTypeOK
<1>1. WaitUntilIInv => WaitUntilTypeOK
    BY DEF WaitUntilIInv
<1>. QED BY <1>1, WaitUntilInitIInv, WaitUntilNextIInv, PTL DEF WaitUntilSpec

\* For any debounce, cap and flushAt, and any number of captures and flushes: the
\* invocation is kept alive until each message queued in a request has been tried, up to a
\* shutdown that gives up, and the cap bounds the debounce (client.ts, _waitUntilCycle).
THEOREM InvocationIsHeldAlways == WaitUntilSpec => []InvocationIsHeld
<1>1. WaitUntilIInv => InvocationIsHeld
    <2>1. WaitUntilIInv => DelayIsCapped
        <3>1. WaitUntilIInv => cycle.age \in Nat /\ cycle.left \in Nat
            BY WaitUntilAssumption DEF WaitUntilIInv, WaitUntilTypeOK
        <3>. QED BY <3>1, WaitUntilAssumption DEF WaitUntilIInv, DelayIsCapped
    <2>. QED BY <2>1 DEF WaitUntilIInv, InvocationIsHeld
<1>. QED BY <1>1, WaitUntilInitIInv, WaitUntilNextIInv, PTL DEF WaitUntilSpec

================================================================================
