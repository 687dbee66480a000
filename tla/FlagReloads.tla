------------------------------ MODULE FlagReloads ------------------------------
(***************************************************************************)
(* Reloads of the feature flags and loads of the remote config in the      *)
(* stateful core client (packages/core/src/posthog-core.ts), which         *)
(* posthog-react-native and posthog-web share.  One request for flags is   *)
(* in flight at a time.  A call made meanwhile waits in one slot, and a    *)
(* later one takes that slot over.                                         *)
(*                                                                         *)
(* A context stands for all that flags are computed from (distinct id,     *)
(* groups, person properties): identify, group and reset make a new one.   *)
(***************************************************************************)
EXTENDS Naturals, Sequences, FiniteSets

CONSTANTS
    MaxContexts,    \* bound: contexts the application goes through
    MaxReloads,     \* bound: calls of flagsAsync from outside
    MaxConfigLoads  \* bound: loads of the remote config

ASSUME FlagReloadsAssumption ==
    MaxContexts \in Nat \ {0} /\ MaxReloads \in Nat /\ MaxConfigLoads \in Nat

VARIABLES
    ready,          \* _initPromise has settled
    context,        \* the current context
    knownFlags,     \* the contexts that the stored flags were computed for
    flagCalls,      \* calls of flagsAsync that still await _initPromise, in order
    flagsRequest,   \* _flagsResponsePromise: the call, what it read, its phase
    pendingReload,  \* _pendingFlagsRequest
    riders,         \* replaced calls that get the answer in flight
    configLoading,  \* _remoteConfigResponsePromise is set
    replies,        \* history: per call, the context its answer was computed for
    askedIn,        \* history: per call, the context it was made in
    replaced,       \* history: calls that lost the slot
    lastOutcome,    \* history: what last happened to the stored flags
    linkOwed,        \* history: an identify whose anonymous id was not yet sent
    loads,          \* history: remote configs loaded
    told,           \* history: calls of onRemoteConfig
    forfeited       \* history: notifications that went with a call or a failure

frVars == <<ready, context, knownFlags, flagCalls, flagsRequest, pendingReload,
            riders, configLoading, replies, askedIn, replaced, lastOutcome,
            linkOwed, loads, told, forfeited>>

--------------------------------------------------------------------------------
\* FlagsAsyncOptions: the number of the call, sendAnonDistinctId and
\* triggerOnRemoteConfig.
FlagCall == [id : 1..(MaxReloads + MaxConfigLoads), link : BOOLEAN, tell : BOOLEAN]
NoCall == [id |-> 0, link |-> FALSE, tell |-> FALSE]

\* _flagsResponsePromise.
FlagsRequest == [call : FlagCall, reads : 0..MaxContexts,
                 phase : {"starting", "sent", "answered"}]
NoFlagsRequest == [call |-> NoCall, reads |-> 0, phase |-> "none"]

FlagOutcomes == {"complete", "partial", "quota", "failed"}

\* A reply of 0 is a promise that has not settled.
FlagReloadsTypeOK ==
    /\ ready \in BOOLEAN /\ configLoading \in BOOLEAN /\ linkOwed \in BOOLEAN
    /\ context \in 1..MaxContexts
    /\ knownFlags \subseteq 1..MaxContexts
    /\ flagCalls \in Seq(FlagCall)
    /\ flagsRequest \in FlagsRequest \cup {NoFlagsRequest}
    /\ pendingReload \in FlagCall \cup {NoCall}
    /\ riders \subseteq DOMAIN replies /\ replaced \subseteq DOMAIN replies
    /\ replies \in Seq(0..MaxContexts)
    /\ askedIn \in Seq(1..MaxContexts) /\ Len(askedIn) = Len(replies)
    /\ lastOutcome \in FlagOutcomes \cup {"cleared"}
    /\ loads \in 0..MaxConfigLoads /\ told \in Nat /\ forfeited \in Nat

FlagReloadsInit ==
    /\ ready = FALSE /\ configLoading = FALSE /\ linkOwed = FALSE
    /\ context = 1 /\ knownFlags = {} /\ lastOutcome = "cleared"
    /\ flagCalls = <<>> /\ flagsRequest = NoFlagsRequest /\ pendingReload = NoCall
    /\ riders = {} /\ replaced = {} /\ replies = <<>> /\ askedIn = <<>>
    /\ loads = 0 /\ told = 0 /\ forfeited = 0

--------------------------------------------------------------------------------
(* Calls *)

\* flagsAsync up to its first await.
CallFlagsAsync(link, tell) ==
    /\ flagCalls' = Append(flagCalls, [id |-> Len(replies) + 1, link |-> link, tell |-> tell])
    /\ replies' = Append(replies, 0)
    /\ askedIn' = Append(askedIn, context')

\* Calls the application makes are bounded; the config's own calls come on top.
MayCall == Len(replies) < MaxReloads + loads

\* reloadFeatureFlags and reloadFeatureFlagsAsync, before initialization too.
ReloadFlags(link) ==
    /\ MayCall
    /\ UNCHANGED context
    /\ CallFlagsAsync(link, FALSE)
    /\ UNCHANGED <<ready, knownFlags, flagsRequest, pendingReload, riders, configLoading,
                   replaced, lastOutcome, linkOwed, loads, told, forfeited>>

\* identify with another id (it leaves an anonymous id to link), or a new
\* group or changed person properties (no link of their own).
ChangeContext(identifies) ==
    /\ ready /\ context < MaxContexts /\ MayCall
    /\ context' = context + 1
    /\ linkOwed' = (linkOwed \/ identifies)
    /\ CallFlagsAsync(TRUE, FALSE)
    /\ UNCHANGED <<ready, knownFlags, flagsRequest, pendingReload, riders, configLoading,
                   replaced, lastOutcome, loads, told, forfeited>>

\* reset: the stored flags go with the rest, and a reload is asked for.
ResetClient ==
    /\ ready /\ context < MaxContexts /\ MayCall
    /\ context' = context + 1
    /\ knownFlags' = {} /\ lastOutcome' = "cleared"
    /\ linkOwed' = FALSE
    /\ CallFlagsAsync(TRUE, FALSE)
    /\ UNCHANGED <<ready, flagsRequest, pendingReload, riders, configLoading,
                   replaced, loads, told, forfeited>>

InitSettles ==
    /\ ~ready
    /\ ready' = TRUE
    /\ UNCHANGED <<context, knownFlags, flagCalls, flagsRequest, pendingReload, riders,
                   configLoading, replies, askedIn, replaced, lastOutcome, linkOwed,
                   loads, told, forfeited>>

--------------------------------------------------------------------------------
(* The request for flags *)

\* flagsAsync after its await, with nothing in flight: _flagsAsync starts.
StartFlagsRequest ==
    /\ flagsRequest = NoFlagsRequest
    /\ flagsRequest' = [call |-> Head(flagCalls), reads |-> 0, phase |-> "starting"]
    /\ UNCHANGED <<pendingReload, riders, replaced, forfeited>>

\* With a request in flight the call takes the slot; the one it finds there
\* will get the answer in flight.
QueueReload ==
    /\ flagsRequest # NoFlagsRequest
    /\ pendingReload' = Head(flagCalls)
    /\ IF pendingReload = NoCall
       THEN UNCHANGED <<riders, replaced, forfeited>>
       ELSE /\ riders' = riders \cup {pendingReload.id}
            /\ replaced' = replaced \cup {pendingReload.id}
            /\ forfeited' = IF pendingReload.tell THEN forfeited + 1 ELSE forfeited
    /\ UNCHANGED flagsRequest

EnterFlagsAsync ==
    /\ ready /\ flagCalls # <<>>
    /\ StartFlagsRequest \/ QueueReload
    /\ flagCalls' = Tail(flagCalls)
    /\ UNCHANGED <<ready, context, knownFlags, configLoading, replies, askedIn,
                   lastOutcome, linkOwed, loads, told>>

\* _flagsAsync reads the identity when its own await has returned.
SendFlagsRequest ==
    /\ flagsRequest.phase = "starting"
    /\ flagsRequest' = [flagsRequest EXCEPT !.reads = context, !.phase = "sent"]
    /\ linkOwed' = (linkOwed /\ ~flagsRequest.call.link)
    /\ UNCHANGED <<ready, context, knownFlags, flagCalls, pendingReload, riders, configLoading,
                   replies, askedIn, replaced, lastOutcome, loads, told, forfeited>>

\* Mutant: the config is told by every request for flags.
TellAlways(outcome) ==
    IF outcome = "failed" THEN told' = told /\ forfeited' = forfeited + 1
    ELSE told' = told + 1 /\ forfeited' = forfeited

\* maybeNotifyRemoteConfig at the end of _flagsAsync; a failed request returns
\* before it.
TellOnce(outcome) ==
    IF ~flagsRequest.call.tell THEN UNCHANGED <<told, forfeited>>
    ELSE IF outcome = "failed" THEN told' = told /\ forfeited' = forfeited + 1
    ELSE told' = told + 1 /\ forfeited' = forfeited

\* The answer: flags are replaced, or added to those that were computed, or kept.
FlagsAnswered(outcome) ==
    /\ flagsRequest.phase = "sent"
    /\ flagsRequest' = [flagsRequest EXCEPT !.phase = "answered"]
    /\ lastOutcome' = outcome
    /\ knownFlags' = CASE outcome = "complete" -> {flagsRequest.reads}
                       [] outcome = "partial" -> knownFlags \cup {flagsRequest.reads}
                       [] OTHER -> knownFlags
    /\ TellOnce(outcome)
    /\ UNCHANGED <<ready, context, flagCalls, pendingReload, riders, configLoading, replies,
                   askedIn, replaced, linkOwed, loads>>

\* Mutant: the pending reload is not issued again.
SettleFlagsRequestOnly ==
    /\ flagsRequest.phase = "answered"
    /\ flagsRequest' = NoFlagsRequest
    /\ replies' = [id \in DOMAIN replies |->
                      IF id \in riders \cup {flagsRequest.call.id} THEN flagsRequest.reads
                                                                   ELSE replies[id]]
    /\ riders' = {} /\ pendingReload' = NoCall
    /\ UNCHANGED <<ready, context, knownFlags, flagCalls, configLoading, askedIn, replaced,
                   lastOutcome, linkOwed, loads, told, forfeited>>

\* finally: the promise is given up, its callers are answered, and the pending
\* reload calls flagsAsync again with its own options.
SettleFlagsRequest ==
    /\ flagsRequest.phase = "answered"
    /\ flagsRequest' = NoFlagsRequest
    /\ replies' = [id \in DOMAIN replies |->
                      IF id \in riders \cup {flagsRequest.call.id} THEN flagsRequest.reads
                                                                   ELSE replies[id]]
    /\ riders' = {}
    /\ flagCalls' = IF pendingReload = NoCall THEN flagCalls
                                              ELSE Append(flagCalls, pendingReload)
    /\ pendingReload' = NoCall
    /\ UNCHANGED <<ready, context, knownFlags, configLoading, askedIn, replaced, lastOutcome,
                   linkOwed, loads, told, forfeited>>

--------------------------------------------------------------------------------
(* The remote config *)

\* remoteConfigAsync: a second call joins the load in flight.
LoadRemoteConfig ==
    /\ ready /\ ~configLoading /\ loads < MaxConfigLoads
    /\ configLoading' = TRUE
    /\ UNCHANGED <<ready, context, knownFlags, flagCalls, flagsRequest, pendingReload, riders,
                   replies, askedIn, replaced, lastOutcome, linkOwed, loads, told, forfeited>>

RemoteConfigFails ==
    /\ configLoading
    /\ configLoading' = FALSE
    /\ UNCHANGED <<ready, context, knownFlags, flagCalls, flagsRequest, pendingReload, riders,
                   replies, askedIn, replaced, lastOutcome, linkOwed, loads, told, forfeited>>

\* The config says that there are no flags (they are cleared), or flags are
\* not preloaded: onRemoteConfig is called at once.
RemoteConfigAlone(hasFlags) ==
    /\ configLoading
    /\ configLoading' = FALSE
    /\ loads' = loads + 1 /\ told' = told + 1
    /\ IF hasFlags THEN UNCHANGED <<knownFlags, lastOutcome>>
                   ELSE knownFlags' = {} /\ lastOutcome' = "cleared"
    /\ UNCHANGED <<ready, context, flagCalls, flagsRequest, pendingReload, riders,
                   replies, askedIn, replaced, linkOwed, forfeited>>

\* The config says that there are flags: loading them will call onRemoteConfig.
RemoteConfigWithFlags ==
    /\ configLoading
    /\ configLoading' = FALSE
    /\ loads' = loads + 1
    /\ UNCHANGED context
    /\ CallFlagsAsync(TRUE, TRUE)
    /\ UNCHANGED <<ready, knownFlags, flagsRequest, pendingReload, riders, replaced,
                   lastOutcome, linkOwed, told, forfeited>>

--------------------------------------------------------------------------------
FlagReloadsStep ==
    \/ InitSettles \/ EnterFlagsAsync \/ SendFlagsRequest \/ SettleFlagsRequest
    \/ \E outcome \in FlagOutcomes : FlagsAnswered(outcome)
    \/ RemoteConfigFails \/ RemoteConfigWithFlags
    \/ \E hasFlags \in BOOLEAN : RemoteConfigAlone(hasFlags)

FlagReloadsNext ==
    \/ FlagReloadsStep
    \/ \E link \in BOOLEAN : ReloadFlags(link)
    \/ \E identifies \in BOOLEAN : ChangeContext(identifies)
    \/ ResetClient \/ LoadRemoteConfig

FlagReloadsSpec == FlagReloadsInit /\ [][FlagReloadsNext]_frVars

--------------------------------------------------------------------------------
(* Properties *)

FlagsAtRest == ready /\ flagCalls = <<>> /\ flagsRequest = NoFlagsRequest

\* No reload is dropped (posthog-core.ts:653-663): once every call has been
\* served and the last request brought all flags, the stored flags are those
\* of the current context, although contexts changed while requests of older
\* ones were in flight.
FlagsFollowContext ==
    FlagsAtRest /\ lastOutcome = "complete" => knownFlags = {context}

\* A promise that flagsAsync returned is answered with flags computed for the
\* context of the call or a later one, except when its call lost the slot
\* (posthog-core.ts:657-663).
AnswersAreFresh ==
    \A id \in DOMAIN replies :
        replies[id] # 0 => replies[id] >= askedIn[id] \/ id \in replaced

TellingCalls ==
    {id \in DOMAIN replies :
        \/ \E i \in DOMAIN flagCalls : flagCalls[i].id = id /\ flagCalls[i].tell
        \/ pendingReload.id = id /\ pendingReload.tell
        \/ flagsRequest.call.id = id /\ flagsRequest.call.tell /\ flagsRequest.phase # "answered"}

\* onRemoteConfig is called once per remote config (posthog-core.ts:669-694):
\* each loaded one has been told, or one call of flagsAsync will tell it, or
\* its call failed or lost the slot.
ConfigToldOnce == loads = told + forfeited + Cardinality(TellingCalls)

\* The anonymous id that identify leaves goes out with a request for flags
\* (posthog-core.ts:653-654), unless a call has lost the slot meanwhile.
LinkIsSent == FlagsAtRest /\ linkOwed => replaced # {}

\* What the slot for a pending reload promises.
ReloadsAreServed == FlagsFollowContext /\ AnswersAreFresh /\ LinkIsSent

\* Every promise of flagsAsync settles, those of replaced calls included, so
\* that, calls being bounded, none is left in the end.
ReloadsAnswered == []<>(\A id \in DOMAIN replies : replies[id] # 0)
================================================================================
