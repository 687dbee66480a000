------------------------------ MODULE NativeBridge ------------------------------
(***************************************************************************)
(* How posthog-react-native keeps its native SDK in step                   *)
(* (packages/react-native/src/posthog-rn.ts): _nativeChain, the queue of   *)
(* commands that carry identity, consent and the push token over the       *)
(* bridge one at a time, and _sessionReplayEvalChain, on which the native  *)
(* SDK is set up and its recorder follows the linked flag and the event    *)
(* triggers.                                                               *)
(*                                                                         *)
(* Identities are numbered in the order in which the client takes them on. *)
(* A call over the bridge lands, or is lost (it rejects, or never settles  *)
(* and is given up by raceWithTimeout); the native side is external and    *)
(* modelled from what packages/react-native-plugin does with its calls.    *)
(***************************************************************************)
EXTENDS Naturals, Sequences

CONSTANTS
    MaxIdentities,   \* bound: identities the client takes on
    MaxRotations,    \* bound: session ids
    MaxStimuli       \* bound: calls of the API, loads of flags, expiries of sessions and
                     \* native calls that fail or hang

ASSUME BridgeAssumption ==
    /\ MaxIdentities \in Nat \ {0} /\ MaxRotations \in Nat \ {0}
    /\ MaxStimuli \in Nat

VARIABLES
    options,    \* constant: enableSessionReplay, automatic push, remote event triggers
    started,      \* _initPromise has settled
    client,     \* the persisted state: distinctId, OptedOut, PushRegistered, the
                \* linked flag's verdict, the session and the one that a trigger activated
    current,    \* _currentSessionId; 0 before the first setup
    armed,      \* _sessionReplayEventTriggers is not empty
    replayUp,   \* _sessionReplayNativeInitialized
    pushUp,     \* _pushNativeInitialized
    recording,  \* _sessionReplayRecordingActive === true
    commands,   \* _nativeChain: its commands, the head in progress or next
    command,    \* what the head awaits, and what it read when it was dispatched
    evals,      \* _sessionReplayEvalChain: its jobs, the head in progress or next
    eval,       \* what the head awaits, and what it read
    native,     \* the native SDK (external): set up, identity, consent, token, recorder
    stimuli,    \* history: calls of the API, loads of flags, expiries and losses
    flagsDue,   \* history: a reset whose reload of the flags has not ended
    loggedOut,  \* history: the first identity after the last reset
    wanted,     \* history: the application wants the device's token registered
    stale,      \* history: what the last native call about it has lost
    skipped     \* history: a command found no native SDK, and none could be set up

nbVars == <<options, started, client, current, armed, replayUp, pushUp, recording, commands,
            command, evals, eval, native, stimuli, flagsDue, loggedOut, wanted,
            stale, skipped>>

Identities == 1..MaxIdentities
NativeSessions == 0..MaxRotations
PendingEvals == 2  \* bound: evaluations that wait when an event asks for more
Aspects == {"identity", "consent", "token", "recorder"}

\* A command of _enqueueNative: boot is requireInit.
Command == [does : {"identify", "reset", "consent", "register", "unregister"}, boot : BOOLEAN]

\* at: where the head of _nativeChain stands; ahead: the jobs of the evaluation
\* chain that it waits for.
Resting == [at |-> "idle", ahead |-> 0, user |-> 1, optedOut |-> FALSE]

\* replay, push: what the setup in progress enables.
NoJob == [at |-> "idle", replay |-> FALSE, push |-> FALSE, user |-> 1, optedOut |-> FALSE,
          session |-> 0]

BridgeTypeOK ==
    /\ options \in [replay : BOOLEAN, push : BOOLEAN, triggers : BOOLEAN]
    /\ \A flag \in {started, armed, replayUp, pushUp, recording, flagsDue, wanted, skipped} :
          flag \in BOOLEAN
    /\ client \in [user : Identities, optedOut : BOOLEAN, registered : BOOLEAN,
                   linked : BOOLEAN, session : NativeSessions, activated : NativeSessions]
    /\ current \in NativeSessions
    /\ commands \in Seq(Command)
    /\ command \in [at : {"idle", "waiting", "booting", "calling"}, ahead : Nat,
                    user : Identities, optedOut : BOOLEAN]
    /\ evals \in Seq({"evaluate", "boot"})
    /\ eval \in [at : {"idle", "setup", "consent", "start", "stop"}, replay : BOOLEAN,
                 push : BOOLEAN, user : Identities, optedOut : BOOLEAN,
                 session : NativeSessions]
    /\ native \in [up : BOOLEAN, user : Identities, optedOut : BOOLEAN,
                   token : 0..MaxIdentities, recording : BOOLEAN]
    /\ stimuli \in 0..MaxStimuli
    /\ loggedOut \in Identities /\ stale \subseteq Aspects

\* A launch: consent and the subscription are those of the last one.  The native
\* SDK's own consent is an earlier optIn, or its default.
BridgeInit ==
    /\ options \in [replay : BOOLEAN, push : BOOLEAN, triggers : BOOLEAN]
    /\ options.triggers => options.replay
    /\ started = FALSE
    /\ \E optedOut, registered, linked \in BOOLEAN :
          /\ linked => options.replay
          /\ client = [user |-> 1, optedOut |-> optedOut, registered |-> registered,
                       linked |-> linked, session |-> 1, activated |-> 0]
          /\ native = [up |-> FALSE, user |-> 1, optedOut |-> FALSE,
                       token |-> IF registered THEN 1 ELSE 0, recording |-> FALSE]
          /\ wanted = registered
    /\ current = 0 /\ armed = FALSE
    /\ replayUp = FALSE /\ pushUp = FALSE /\ recording = FALSE
    /\ commands = <<>> /\ command = Resting /\ evals = <<>> /\ eval = NoJob
    /\ stimuli = 0 /\ flagsDue = FALSE /\ loggedOut = 1
    /\ stale = {} /\ skipped = FALSE

--------------------------------------------------------------------------------
(* What calls read *)

\* _isNativePluginInitialized.
NativeReady == replayUp \/ pushUp

\* _isPushNativeEnabled: before initialization there are no options to switch it off.
PushEnabled(optedOut, force) == ~optedOut /\ (force \/ options.push \/ ~started)

\* The gate of the recorder: the linked flag, and an event trigger that fired in
\* this session.
GateIsOpen ==
    client.linked /\ (options.triggers => client.activated = client.session)

Stimulus == stimuli < MaxStimuli /\ stimuli' = stimuli + 1

\* A native call: it lands, or it is lost, which leaves these aspects stale.
Lands(aspects) == stale' = stale \ aspects /\ UNCHANGED stimuli
IsLost(aspects) ==
    /\ Stimulus
    /\ stale' = stale \cup aspects

apiVars == <<options, started, armed, replayUp, pushUp, recording, command, eval, native,
             stale, skipped>>

--------------------------------------------------------------------------------
(* Calls of the API *)

Enqueue(more) == commands' = commands \o more

\* _propagateNativeOptOut: the command, and a setup where consent was what
\* stood in its way.
PropagateOptOut(first) ==
    /\ Enqueue(first \o <<[does |-> "consent", boot |-> FALSE]>>)
    /\ evals' = IF PushEnabled(client'.optedOut, FALSE) THEN Append(evals, "boot") ELSE evals

\* identify with another id.
BridgeIdentify ==
    /\ Stimulus /\ client.user < MaxIdentities
    /\ client' = [client EXCEPT !.user = @ + 1]
    /\ Enqueue(<<[does |-> "identify", boot |-> FALSE]>>)
    /\ UNCHANGED <<apiVars, current, evals, flagsDue, loggedOut, wanted>>

\* reset: identity, consent (defaultOptIn is left TRUE), session and activation
\* go; whether the device is registered is kept.  A linked flag is off until flags
\* are loaded again.
BridgeReset ==
    /\ Stimulus /\ client.user < MaxIdentities /\ client.session < MaxRotations
    /\ \E linked \in {FALSE, client.linked} :
          client' = [client EXCEPT !.user = @ + 1, !.optedOut = FALSE, !.linked = linked,
                                   !.session = @ + 1, !.activated = 0]
    /\ loggedOut' = client'.user
    /\ flagsDue' = options.replay
    /\ PropagateOptOut(<<[does |-> "reset", boot |-> client.registered]>>)
    /\ UNCHANGED <<apiVars, current, wanted>>

OptIn ==
    /\ Stimulus
    /\ client' = [client EXCEPT !.optedOut = FALSE]
    /\ PropagateOptOut(<<>>)
    /\ UNCHANGED <<apiVars, current, flagsDue, loggedOut, wanted>>

\* optOut unregisters first: both go through the queue.
OptOut ==
    /\ Stimulus
    /\ client' = [client EXCEPT !.optedOut = TRUE]
    /\ wanted' = FALSE
    /\ PropagateOptOut(<<[does |-> "unregister", boot |-> client.registered]>>)
    /\ UNCHANGED <<apiVars, current, flagsDue, loggedOut>>

\* registerPushNotificationToken, refused to a user who has opted out.
RegisterToken ==
    /\ Stimulus /\ ~client.optedOut
    /\ wanted' = TRUE
    /\ Enqueue(<<[does |-> "register", boot |-> TRUE]>>)
    /\ UNCHANGED <<apiVars, client, current, evals, flagsDue, loggedOut>>

UnregisterToken ==
    /\ Stimulus
    /\ wanted' = FALSE
    /\ Enqueue(<<[does |-> "unregister", boot |-> client.registered]>>)
    /\ UNCHANGED <<apiVars, client, current, evals, flagsDue, loggedOut>>

--------------------------------------------------------------------------------
(* Flags, events and sessions ask for evaluations *)

\* Initialization ends: startSessionReplay asks for the first evaluation.
BridgeStarts ==
    /\ ~started /\ started' = TRUE
    /\ evals' = Append(evals, "evaluate")
    /\ UNCHANGED <<options, client, current, armed, replayUp, pushUp, recording, commands,
                   command, eval, native, stimuli, flagsDue, loggedOut, wanted,
                   stale, skipped>>

\* onFeatureFlags is told of a load.
FlagsArrive(linked) ==
    /\ started /\ options.replay /\ Stimulus
    /\ flagsDue' = FALSE
    /\ client' = [client EXCEPT !.linked = linked]
    /\ evals' = Append(evals, "evaluate")
    /\ UNCHANGED <<apiVars, commands, current, loggedOut, wanted>>

\* The session expires; whoever asks for its id next gets another.
SessionExpires ==
    /\ started /\ options.replay /\ Stimulus /\ client.session < MaxRotations
    /\ client' = [client EXCEPT !.session = @ + 1]
    /\ UNCHANGED <<apiVars, commands, current, evals, flagsDue, loggedOut,
                   wanted>>

\* getSessionId finds a session that the native side does not know.
SessionRotates ==
    /\ options.replay \/ NativeReady
    /\ current # 0 /\ current # client.session

\* An event reads the session id, which tells the native side of a new one, and
\* may be a trigger (_maybeActivateEventTrigger).  An event that changes neither
\* is left out.
CaptureEvent(matches) ==
    /\ started
    /\ LET fires == /\ matches /\ armed /\ ~client.optedOut
                    /\ ~(client.activated = client.session /\ recording)
           asked == (IF SessionRotates /\ armed THEN <<"evaluate">> ELSE <<>>)
                    \o (IF fires THEN <<"evaluate">> ELSE <<>>)
       IN  /\ SessionRotates \/ fires
           /\ current' = IF SessionRotates THEN client.session ELSE current
           /\ client' = [client EXCEPT !.activated = IF fires THEN client.session ELSE @]
           /\ evals' = evals \o asked
           /\ Len(evals) < PendingEvals \/ asked = <<>>
    /\ UNCHANGED <<apiVars, commands, stimuli, flagsDue, loggedOut, wanted>>

--------------------------------------------------------------------------------
(* The evaluation chain *)

evalKeeps == <<options, started, client, commands, flagsDue, loggedOut, wanted, skipped>>

\* The job is done; a command that waits for it is one nearer.
JobIsDone ==
    /\ evals' = Tail(evals)
    /\ eval' = NoJob
    /\ command' = [command EXCEPT !.ahead = IF @ > 0 THEN @ - 1 ELSE 0]

\* initializeNativePlugin up to its first await: nothing to do, replay resumes on
\* an instance that is there, or setup with what is read now.  Nothing is set up
\* before there is a session id.
InitNative(replay, push) ==
    LET nothingToDo == (replay => replayUp) /\ (push => pushUp)
        resumes == replay /\ ~replayUp /\ NativeReady
    IN  \/ /\ nothingToDo \/ (~started /\ ~resumes)
           /\ JobIsDone /\ UNCHANGED replayUp
        \/ /\ ~nothingToDo /\ resumes
           /\ replayUp' = TRUE
           /\ eval' = [NoJob EXCEPT !.at = "start"]
           /\ UNCHANGED <<evals, command>>
        \/ /\ ~nothingToDo /\ ~resumes /\ started
           /\ eval' = [NoJob EXCEPT !.at = "setup", !.replay = replay, !.push = push,
                                    !.user = client.user, !.session = client.session]
           /\ UNCHANGED <<evals, command, replayUp>>

\* _ensureNativeInitialized.
BootStarts ==
    /\ eval.at = "idle" /\ evals # <<>> /\ Head(evals) = "boot"
    /\ InitNative(FALSE, ~NativeReady /\ PushEnabled(client.optedOut, TRUE))
    /\ UNCHANGED <<evalKeeps, current, armed, pushUp, recording, native, stimuli, stale>>

\* _evaluateAndStartSessionReplayInternal up to its first native call.
EvaluationStarts ==
    /\ eval.at = "idle" /\ evals # <<>> /\ Head(evals) = "evaluate"
    /\ armed' = (options.replay /\ options.triggers)
    /\ \/ /\ ~options.replay \/ (~GateIsOpen /\ ~recording)
          /\ InitNative(FALSE, PushEnabled(client.optedOut, FALSE))
       \/ /\ options.replay /\ GateIsOpen /\ recording
          /\ JobIsDone /\ UNCHANGED replayUp
       \/ /\ options.replay /\ GateIsOpen /\ ~recording /\ ~replayUp
          /\ InitNative(TRUE, PushEnabled(client.optedOut, FALSE))
       \/ /\ options.replay /\ GateIsOpen /\ ~recording /\ replayUp
          /\ eval' = [NoJob EXCEPT !.at = "start"]
          /\ UNCHANGED <<evals, command, replayUp>>
       \/ /\ options.replay /\ ~GateIsOpen /\ recording
          /\ eval' = [NoJob EXCEPT !.at = "stop", !.push = PushEnabled(client.optedOut, FALSE)]
          /\ UNCHANGED <<evals, command, replayUp>>
    /\ UNCHANGED <<evalKeeps, current, pushUp, recording, native, stimuli, stale>>

\* setup: the native SDK takes on the identity that was read before, and starts
\* recording if it was not up.  Its own consent outlives the one it is given, so
\* the consent of now is asserted next.
SetupLands ==
    /\ eval.at = "setup" /\ Lands({"identity"})
    /\ native' = [native EXCEPT !.up = TRUE, !.user = eval.user,
                                !.recording = @ \/ (eval.replay /\ ~native.up)]
    /\ eval' = [eval EXCEPT !.at = "consent", !.user = 1, !.optedOut = client.optedOut]
    /\ UNCHANGED <<evalKeeps, current, armed, replayUp, pushUp, recording, command, evals>>

SetupIsLost ==
    /\ eval.at = "setup" /\ IsLost(IF eval.replay THEN {"recorder"} ELSE {})
    /\ JobIsDone
    /\ UNCHANGED <<evalKeeps, current, armed, replayUp, pushUp, recording, native>>

SetupEnds ==
    /\ eval.at = "consent" /\ Lands({"consent"})
    /\ native' = [native EXCEPT !.optedOut = eval.optedOut]
    /\ current' = eval.session
    /\ replayUp' = (replayUp \/ eval.replay) /\ pushUp' = (pushUp \/ eval.push)
    /\ recording' = (recording \/ eval.replay)
    /\ JobIsDone
    /\ UNCHANGED <<evalKeeps, armed>>

\* The instance is there, and the client does not know.
SetupConsentIsLost ==
    /\ eval.at = "consent" /\ IsLost({"consent", "recorder"})
    /\ JobIsDone
    /\ UNCHANGED <<evalKeeps, current, armed, replayUp, pushUp, recording, native>>

RecorderStarts ==
    /\ eval.at = "start"
    /\ \/ /\ Lands({"recorder"})
          /\ native' = [native EXCEPT !.recording = TRUE] /\ recording' = TRUE
       \/ /\ IsLost({"recorder"}) /\ UNCHANGED <<native, recording>>
    /\ JobIsDone
    /\ UNCHANGED <<evalKeeps, current, armed, replayUp, pushUp>>

\* A stop that fails leaves recording set, so that the next evaluation retries.
RecorderStops ==
    /\ eval.at = "stop"
    /\ \/ /\ Lands({"recorder"})
          /\ native' = [native EXCEPT !.recording = FALSE] /\ recording' = FALSE
       \/ /\ IsLost({"recorder"}) /\ UNCHANGED <<native, recording>>
    /\ InitNative(FALSE, eval.push /\ PushEnabled(client.optedOut, FALSE))
    /\ UNCHANGED <<evalKeeps, current, armed, pushUp>>

--------------------------------------------------------------------------------
(* The command queue *)

commandKeeps == <<options, started, current, armed, replayUp, pushUp, recording, eval,
                  flagsDue, loggedOut, wanted>>

\* Mutant: the head does not wait for the evaluations, and misses a setup in
\* progress.
CommandTakesTurnAtOnce ==
    /\ command.at = "idle" /\ commands # <<>> /\ started
    /\ command' = [Resting EXCEPT !.at = "waiting"]
    /\ UNCHANGED <<commandKeeps, commands, client, evals, native, stimuli, stale, skipped>>

\* The head has its turn: it awaits _initPromise, then the evaluations asked for so far.
CommandTakesTurn ==
    /\ command.at = "idle" /\ commands # <<>> /\ started
    /\ command' = [Resting EXCEPT !.at = "waiting", !.ahead = Len(evals)]
    /\ UNCHANGED <<commandKeeps, commands, client, evals, native, stimuli, stale, skipped>>

\* What a command tells the native SDK about.
Concerns(does) ==
    CASE does = "identify" -> {"identity"}
      [] does = "reset" -> {"identity", "token"}
      [] does = "consent" -> {"consent"}
      [] OTHER -> {"token"}

CommandIsDone == commands' = Tail(commands) /\ command' = Resting

\* run: live state is read when the command is dispatched; a token is not
\* registered for a user who has opted out meanwhile.
Dispatch ==
    /\ LET does == Head(commands).does
       IN  IF does = "register" /\ client.optedOut
           THEN CommandIsDone /\ UNCHANGED client
           ELSE /\ command' = [at |-> "calling", ahead |-> 0,
                               user |-> IF does \in {"identify", "reset"}
                                        THEN client.user ELSE 1,
                               optedOut |-> does = "consent" /\ client.optedOut]
                /\ client' = [client EXCEPT !.registered =
                                 (@ \/ does = "register") /\ does # "unregister"]
                /\ UNCHANGED commands
    /\ UNCHANGED <<evals, skipped>>

\* The evaluations are done: the command goes out, asks for a setup, or is dropped.
CommandResumes ==
    /\ command.at = "waiting" /\ command.ahead = 0
    /\ \/ NativeReady /\ Dispatch
       \/ /\ ~NativeReady /\ ~Head(commands).boot
          /\ CommandIsDone /\ UNCHANGED <<client, evals, skipped>>
       \/ /\ ~NativeReady /\ Head(commands).boot
          /\ evals' = Append(evals, "boot")
          /\ command' = [command EXCEPT !.at = "booting", !.ahead = Len(evals) + 1]
          /\ UNCHANGED <<commands, client, skipped>>
    /\ UNCHANGED <<commandKeeps, native, stimuli, stale>>

CommandIsBooted ==
    /\ command.at = "booting" /\ command.ahead = 0
    /\ \/ NativeReady /\ Dispatch
       \/ /\ ~NativeReady /\ skipped' = TRUE
          /\ CommandIsDone /\ UNCHANGED <<client, evals>>
    /\ UNCHANGED <<commandKeeps, native, stimuli, stale>>

\* What the native SDK does with a command: reset moves a registered token to the
\* identity it is given; identify writes the identity alone.
NativeAfter(does) ==
    CASE does = "identify" -> [native EXCEPT !.user = command.user]
      [] does = "reset" ->
            [native EXCEPT !.user = command.user,
                           !.token = IF @ = 0 THEN 0 ELSE command.user]
      [] does = "consent" -> [native EXCEPT !.optedOut = command.optedOut]
      [] does = "register" -> [native EXCEPT !.token = native.user]
      [] does = "unregister" -> [native EXCEPT !.token = 0]

CommandLands ==
    /\ command.at = "calling"
    /\ LET does == Head(commands).does
       IN  /\ native' = NativeAfter(does)
           /\ IF does = "register" /\ "identity" \in stale
              THEN stale' = stale \cup {"token"} /\ UNCHANGED stimuli
              ELSE Lands(IF does = "reset" THEN {"identity"} ELSE Concerns(does))
    /\ CommandIsDone
    /\ UNCHANGED <<commandKeeps, client, evals, skipped>>

CommandIsLost ==
    /\ command.at = "calling"
    /\ IsLost(Concerns(Head(commands).does))
    /\ CommandIsDone
    /\ UNCHANGED <<commandKeeps, client, evals, native, skipped>>

BridgeStep ==
    \/ BridgeStarts \/ BootStarts \/ EvaluationStarts
    \/ SetupLands \/ SetupIsLost \/ SetupEnds \/ SetupConsentIsLost
    \/ RecorderStarts \/ RecorderStops
    \/ CommandTakesTurn \/ CommandResumes \/ CommandIsBooted \/ CommandLands \/ CommandIsLost

BridgeNext ==
    \/ BridgeStep
    \/ BridgeIdentify \/ BridgeReset \/ OptIn \/ OptOut \/ RegisterToken \/ UnregisterToken
    \/ (\E linked \in BOOLEAN : FlagsArrive(linked)) \/ SessionExpires
    \/ (\E matches \in BOOLEAN : CaptureEvent(matches))

BridgeSpec == BridgeInit /\ [][BridgeNext]_nbVars

--------------------------------------------------------------------------------
(* Correctness *)

ChainsAtRest == started /\ commands = <<>> /\ evals = <<>>

\* Every call that crossed the bridge read what was true when it was dispatched,
\* so the last one leaves the native SDK with the client's identity and consent.
IdentityFollows ==
    NativeReady /\ "identity" \notin stale => native.user = client.user
ConsentFollows ==
    NativeReady /\ "consent" \notin stale => native.optedOut = client.optedOut

\* The device's token is registered if the application's last word was to
\* register it, and never for the user who has logged out.
TokenFollows ==
    ~skipped /\ "token" \notin stale =>
       /\ wanted <=> native.token # 0
       /\ native.token # 0 => native.token >= loggedOut

\* The recorder runs exactly while its gate is open, in the session that the
\* client has told the native side of.
RecorderFollows ==
    /\ options.replay /\ ~flagsDue /\ "recorder" \notin stale
    /\ options.triggers => current \in {0, client.session}
    => native.recording = GateIsOpen

\* A command counts only evaluations that are asked for.  They wait for nobody, so
\* one of the two chains can always go on.
NoWaitIsVain == command.ahead <= Len(evals)

(* Calls, flags, events, sessions and failures interleave with two chains of    *)
(* promises; when both chains have run out, the native SDK has converged on     *)
(* what the client says, and neither chain waits for what will not come         *)
(* (posthog-rn.ts _enqueueNative, _evaluateAndStartSessionReplay).              *)
NativeFollowsClient ==
    /\ ChainsAtRest => IdentityFollows /\ ConsentFollows /\ TokenFollows /\ RecorderFollows
    /\ NoWaitIsVain

(* A user who opts out leaves no token behind that a manual registration has    *)
(* persisted, in this launch or an earlier one (posthog-rn.ts optOut,           *)
(* unregisterPushNotificationToken).                                            *)
OptOutUnregisters ==
    ChainsAtRest /\ client.optedOut /\ ~wanted /\ stale = {} => native.token = 0
================================================================================
