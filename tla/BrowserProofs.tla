---------------------------- MODULE BrowserProofs -----------------------------
(* Proofs about the parts of the browser SDK that share no state with others.   *)
EXTENDS BrowserFlags, SurveyDisplay, Conversations, SessionRecorder, SequenceTheorems,
        WellFoundedInduction, TLAPS

-------------------------------------------------------------------------------
(* BrowserFlags, for any number of users and any limits.                        *)

\* What makes FlagsAreLoaded inductive.  Unless a reset has forgotten a request,
\* one request at most is awaited, the breaker has not tripped while it is, and
\* its answer is for the current user unless another reload is on its way.
OneAtATime ==
    ~overtaken =>
        /\ Len(requests) <= 1
        /\ requests # <<>> => inFlight /\ ~BreakerTripped
        /\ requests # <<>> /\ ~debouncer /\ ~additional => requests[1].user = user

\* A breaker that has tripped was tripped by the last answer.
AnswersCloseTheBreaker == lastAnswer = "complete" => statusZeros = 0

RequestsTyped == requests \in Seq(FlagsCall)

BFInv == RequestsTyped /\ FlagsAreLoaded /\ OneAtATime /\ AnswersCloseTheBreaker

\* A breaker without failures has not tripped.
LEMMA ZeroIsNotTripped == ~Tripped(0)
BY BrowserFlagsAssumption DEF Tripped

\* The only request of a list of one.
LEMMA OnlyIndex ==
    ASSUME NEW n \in Nat, n <= 1, NEW i \in 1..n
    PROVE  i = 1 /\ n = 1
OBVIOUS

\* The callback of an answered request takes it off the list of those awaited.
LEMMA AnsweredIsRemoved ==
    ASSUME RequestsTyped, NEW i \in DOMAIN requests
    PROVE  /\ RemoveAt(requests, i) \in Seq(FlagsCall)
           /\ Len(requests) <= 1 => RemoveAt(requests, i) = <<>>
<1>1. i \in 1..Len(requests) /\ Len(requests) \in Nat
    BY LenProperties DEF RequestsTyped
<1>2. SubSeq(requests, 1, i - 1) \in Seq(FlagsCall)
    BY <1>1, SubSeqProperties DEF RequestsTyped
<1>3. SubSeq(requests, i + 1, Len(requests)) \in Seq(FlagsCall)
    BY <1>1, SubSeqProperties DEF RequestsTyped
<1>4. RemoveAt(requests, i) \in Seq(FlagsCall)
    BY <1>2, <1>3, ConcatProperties DEF RemoveAt
<1>5. ASSUME Len(requests) <= 1 PROVE RemoveAt(requests, i) = <<>>
  <2>1. i = 1 /\ Len(requests) = 1
      BY <1>1, <1>5, OnlyIndex, Zenon
  <2>2. SubSeq(requests, 1, i - 1) = <<>> /\ SubSeq(requests, i + 1, Len(requests)) = <<>>
      BY <2>1, SubSeqEmpty, SMT
  <2>3. <<>> \o <<>> = <<>>
      BY ConcatEmptySeq, EmptySeq
  <2>. QED BY <2>2, <2>3, Zenon DEF RemoveAt
<1>. QED BY <1>4, <1>5

LEMMA BFInitInv == BrowserFlagsInit => BFInv
<1>. SUFFICES ASSUME BrowserFlagsInit PROVE BFInv
    OBVIOUS
<1>1. RequestsTyped
    BY EmptySeq DEF BrowserFlagsInit, RequestsTyped
<1>. QED BY <1>1 DEF BrowserFlagsInit, BFInv, FlagsAreLoaded, FlagsFollowUser, AwaitsAnAnswer,
              OneAtATime, AnswersCloseTheBreaker

--------------------------------------------------------------------------------
(* The request *)

\* The call that is made for the current user.
LEMMA NewFlagsCall ==
    ASSUME NEW others \in Seq(FlagsCall), NEW link \in 0..MaxUsers, user \in Users
    PROVE  LET call == [user |-> user, link |-> link] IN
           /\ Append(others, call) \in Seq(FlagsCall)
           /\ Append(others, call) # <<>>
           /\ others = <<>> => /\ Len(Append(others, call)) = 1
                               /\ Append(others, call)[1].user = user
<1>1. [user |-> user, link |-> link] \in FlagsCall
    BY DEF FlagsCall
<1>. QED BY <1>1, AppendProperties

\* _callFlagsEndpoint when nothing is in flight: it makes a request for the
\* current user, has it dropped by the limiter, or finds the breaker tripped.
LEMMA CallAlone ==
    ASSUME NEW others \in Seq(FlagsCall), NEW zeros, NEW more \in BOOLEAN,
           ~overtaken => others = <<>>, overtaken \in BOOLEAN,
           user \in Users, anonId' \in 0..MaxUsers, UNCHANGED <<user, online>>,
           statusZeros' = zeros,
           CallFlagsEndpoint([flying |-> FALSE, more |-> more, zeros |-> zeros,
                              others |-> others])
    PROVE  /\ RequestsTyped' /\ OneAtATime' /\ AwaitsAnAnswer'
           /\ ~inFlight' => Tripped(zeros)
<1>. DEFINE s == [flying |-> FALSE, more |-> more, zeros |-> zeros, others |-> others]
            call == [user |-> user, link |-> anonId']
<1>1. s.flying = FALSE /\ s.more = more /\ s.zeros = zeros /\ s.others = others
    OBVIOUS
<1>2. BreakerTripped' = Tripped(zeros)
    BY DEF BreakerTripped, Tripped
<1>. HIDE DEF s
<1>3. CASE Tripped(zeros)
  <2>1. inFlight' = FALSE /\ requests' = others /\ overtaken' = overtaken
      BY <1>1, <1>3 DEF CallFlagsEndpoint, s
  <2>. QED BY <1>3, <2>1 DEF RequestsTyped, OneAtATime, AwaitsAnAnswer
<1>4. CASE ~Tripped(zeros) /\ limited
  <2>1. /\ inFlight' = TRUE /\ swallowed' = limited
        /\ requests' = others /\ overtaken' = overtaken
      BY <1>1, <1>4 DEF CallFlagsEndpoint, s
  <2>. QED BY <1>4, <2>1 DEF RequestsTyped, OneAtATime, AwaitsAnAnswer
<1>5. CASE ~Tripped(zeros) /\ ~limited
  <2>1. /\ inFlight' = TRUE
        /\ requests' = Append(others, call)
        /\ overtaken' = (overtaken /\ others # <<>>)
      BY <1>1, <1>5 DEF CallFlagsEndpoint, s
  <2>2. ~overtaken' => others = <<>>
      BY <2>1
  <2>3. requests' # <<>> /\ RequestsTyped'
      BY <2>1, NewFlagsCall DEF RequestsTyped
  <2>4. others = <<>> => Len(requests') = 1 /\ requests'[1].user = user
      BY <2>1, NewFlagsCall
  <2>. QED BY <1>2, <1>5, <2>1, <2>2, <2>3, <2>4 DEF OneAtATime, AwaitsAnAnswer
<1>. QED BY <1>3, <1>4, <1>5

--------------------------------------------------------------------------------
(* Every step *)

\* Types that the argument needs, next to RequestsTyped.
BFTypes ==
    /\ user \in Users /\ anonId \in 0..MaxUsers
    /\ overtaken \in BOOLEAN /\ additional \in BOOLEAN /\ inFlight \in BOOLEAN

LEMMA BFInitTypes == BrowserFlagsInit => BFTypes
<1>1. 1 \in Users /\ 0 \in 0..MaxUsers
    BY BrowserFlagsAssumption DEF Users
<1>. QED BY <1>1, Zenon DEF BrowserFlagsInit, BFTypes

LEMMA BFNextTypes == BFTypes /\ [BrowserFlagsNext]_bfVars => BFTypes'
<1>. SUFFICES ASSUME BFTypes, [BrowserFlagsNext]_bfVars PROVE BFTypes'
    OBVIOUS
<1>1. CASE AskForReload \/ IdentifySameUser
    BY <1>1 DEF AskForReload, IdentifySameUser, BFTypes
<1>2. CASE IdentifyUser
  <2>1. user' \in Users /\ anonId' \in 0..MaxUsers
      BY <1>2, BrowserFlagsAssumption DEF IdentifyUser, BFTypes, Users
  <2>. QED BY <1>2, <2>1 DEF IdentifyUser, BFTypes
<1>3. CASE ResetUser
  <2>1. user' \in Users /\ anonId' \in 0..MaxUsers
      BY <1>3, BrowserFlagsAssumption DEF ResetUser, BFTypes, Users
  <2>2. overtaken' \in BOOLEAN /\ additional' \in BOOLEAN /\ inFlight' \in BOOLEAN
      BY <1>3 DEF ResetUser, BFTypes
  <2>. QED BY <2>1, <2>2 DEF BFTypes
<1>4. CASE RemoteConfigArrives
    BY <1>4 DEF RemoteConfigArrives, BFTypes
<1>5. CASE DebouncerFires
    BY <1>5 DEF DebouncerFires, CallFlagsEndpoint, AtRest, BFTypes
<1>6. ASSUME NEW i \in DOMAIN requests, NEW answer \in FlagAnswers, FlagsAnswer(i, answer)
      PROVE  BFTypes'
  <2>1. user' = user /\ anonId' \in 0..MaxUsers
      BY <1>6, BrowserFlagsAssumption DEF FlagsAnswer, AnonIdAfter, BFTypes
  <2>2. overtaken' \in BOOLEAN /\ additional' \in BOOLEAN /\ inFlight' \in BOOLEAN
      BY <1>6 DEF FlagsAnswer, CallFlagsEndpoint, BFTypes
  <2>. QED BY <2>1, <2>2 DEF BFTypes
<1>7. CASE BackOnline \/ GoOffline \/ LimitChanges
    BY <1>7 DEF BackOnline, GoOffline, LimitChanges, BFTypes
<1>8. CASE UNCHANGED bfVars
    BY <1>8 DEF bfVars, BFTypes
<1>. QED BY <1>1, <1>2, <1>3, <1>4, <1>5, <1>6, <1>7, <1>8 DEF BrowserFlagsNext

\* The debouncer calls _callFlagsEndpoint: with a request in flight it is noted.
LEMMA DebouncedInv ==
    ASSUME BFInv, BFTypes, DebouncerFires
    PROVE  BFInv'
<1>. USE DEF BFInv
<1>1. /\ ~debouncer' /\ lastAnswer' = lastAnswer /\ storedFor' = storedFor
      /\ anonId' = anonId /\ user' = user /\ online' = online
      /\ statusZeros' = statusZeros
    BY DEF DebouncerFires
<1>2. AnswersCloseTheBreaker'
    BY <1>1 DEF AnswersCloseTheBreaker
<1>3. CASE inFlight
  <2>1. /\ inFlight' = inFlight /\ requests' = requests
        /\ additional' = (additional \/ ~Tripped(statusZeros))
        /\ overtaken' = overtaken /\ swallowed' = swallowed
      BY <1>3 DEF DebouncerFires, CallFlagsEndpoint, AtRest
  <2>2. BreakerTripped' = BreakerTripped
      BY <1>1 DEF BreakerTripped, Tripped
  <2>3. OneAtATime'
    <3>1. requests # <<>> /\ ~overtaken => additional'
        BY <2>1 DEF OneAtATime, BreakerTripped
    <3>. QED BY <1>1, <1>3, <2>1, <2>2, <3>1, Zenon DEF OneAtATime
  <2>. QED BY <1>2, <1>3, <2>1, <2>3
           DEF RequestsTyped, FlagsAreLoaded, FlagsFollowUser, AwaitsAnAnswer
<1>4. CASE ~inFlight
  <2>1. ~overtaken => requests = <<>>
      BY <1>4 DEF OneAtATime
  <2>2. AtRest = [flying |-> FALSE, more |-> additional, zeros |-> statusZeros,
                  others |-> requests]
      BY <1>4, Zenon DEF AtRest, BFTypes
  <2>3. /\ RequestsTyped' /\ OneAtATime' /\ AwaitsAnAnswer'
        /\ ~inFlight' => Tripped(statusZeros)
      BY <1>1, <2>1, <2>2, CallAlone DEF BFTypes, DebouncerFires, RequestsTyped
  <2>4. FlagsFollowUser'
      BY <1>1, <1>2, <2>3, ZeroIsNotTripped DEF FlagsFollowUser, AnswersCloseTheBreaker
  <2>. QED BY <1>2, <2>3, <2>4 DEF FlagsAreLoaded
<1>. QED BY <1>3, <1>4

\* The answer to a request: the flags are stored, and a noted reload follows.
LEMMA AnswerInv ==
    ASSUME BFInv, BFTypes, NEW i \in DOMAIN requests, NEW answer \in FlagAnswers,
           FlagsAnswer(i, answer)
    PROVE  BFInv'
<1>. DEFINE rest == RemoveAt(requests, i)
            zeros == StatusZerosAfter(answer)
<1>. USE DEF BFInv
<1>1. rest \in Seq(FlagsCall) /\ (Len(requests) <= 1 => rest = <<>>)
    BY AnsweredIsRemoved
<1>2. ~overtaken => rest = <<>> /\ i = 1
  <2>1. ~overtaken => Len(requests) <= 1
      BY DEF OneAtATime
  <2>2. i \in 1..Len(requests) /\ Len(requests) \in Nat
      BY LenProperties DEF RequestsTyped
  <2>. QED BY <1>1, <2>1, <2>2
<1>3. /\ statusZeros' = zeros /\ lastAnswer' = answer /\ user' = user /\ online' = online
      /\ storedFor' = FlagsAfter(answer, requests[i])
    BY DEF FlagsAnswer
<1>4. answer = "complete" => zeros = 0 /\ storedFor' = {requests[i].user}
    BY <1>3 DEF StatusZerosAfter, FlagsAfter
<1>5. AnswersCloseTheBreaker'
    BY <1>3, <1>4 DEF AnswersCloseTheBreaker
<1>6. CASE additional /\ answer # "quota"
  <2>1. CallFlagsEndpoint([flying |-> FALSE, more |-> FALSE, zeros |-> zeros,
                           others |-> rest])
      BY <1>6 DEF FlagsAnswer
  <2>2. anonId' \in 0..MaxUsers
      BY BrowserFlagsAssumption DEF FlagsAnswer, AnonIdAfter, BFTypes
  <2>3. /\ RequestsTyped' /\ OneAtATime' /\ AwaitsAnAnswer'
        /\ ~inFlight' => Tripped(zeros)
    <3>. HIDE DEF rest, zeros
    <3>. QED BY <1>1, <1>2, <1>3, <2>1, <2>2, CallAlone DEF BFTypes
  <2>4. FlagsFollowUser'
      BY <1>3, <1>4, <2>3, ZeroIsNotTripped DEF FlagsFollowUser
  <2>. QED BY <1>5, <2>3, <2>4 DEF FlagsAreLoaded
<1>7. CASE ~(additional /\ answer # "quota")
  <2>1. /\ inFlight' = FALSE /\ requests' = rest
        /\ additional' = additional /\ debouncer' = debouncer /\ overtaken' = overtaken
      BY <1>7 DEF FlagsAnswer
  <2>2. RequestsTyped' /\ AwaitsAnAnswer'
      BY <1>1, <2>1 DEF RequestsTyped, AwaitsAnAnswer
  <2>3. OneAtATime'
      BY <1>2, <2>1 DEF OneAtATime
  <2>4. ASSUME ~debouncer, answer = "complete", ~overtaken PROVE storedFor' = {user}
    <3>1. requests # <<>>
        BY LenProperties DEF RequestsTyped
    <3>2. requests[1].user = user
        BY <1>7, <2>4, <3>1 DEF OneAtATime
    <3>. QED BY <1>2, <1>4, <2>4, <3>2
  <2>. QED BY <1>3, <1>5, <2>1, <2>2, <2>3, <2>4 DEF FlagsAreLoaded, FlagsFollowUser
<1>. QED BY <1>6, <1>7

LEMMA BFNextInv == BFInv /\ BFTypes /\ [BrowserFlagsNext]_bfVars => BFInv'
<1>. SUFFICES ASSUME BFInv, BFTypes, [BrowserFlagsNext]_bfVars PROVE BFInv'
    OBVIOUS
<1>. USE DEF BFInv, RequestsTyped, FlagsAreLoaded, FlagsFollowUser, AwaitsAnAnswer, OneAtATime,
             AnswersCloseTheBreaker, BreakerTripped
<1>1. CASE AskForReload
    BY <1>1 DEF AskForReload, ReloadFeatureFlags, Tripped
<1>11. CASE IdentifySameUser
  <2>1. /\ UNCHANGED <<user, storedFor, inFlight, additional, requests, statusZeros, online,
                       lastAnswer, overtaken, swallowed>>
        /\ BreakerTripped' = BreakerTripped
      BY <1>11 DEF IdentifySameUser, Tripped
  <2>2. debouncer => debouncer'
      BY <1>11 DEF IdentifySameUser, ReloadFeatureFlags
  <2>. QED BY <2>1, <2>2
<1>2. CASE IdentifyUser
  <2>1. BreakerTripped' = BreakerTripped
      BY <1>2 DEF IdentifyUser, Tripped
  <2>2. debouncer' = (debouncer \/ ~BreakerTripped)
      BY <1>2 DEF IdentifyUser, ReloadFeatureFlags
  <2>3. lastAnswer = "complete" => ~BreakerTripped
      BY ZeroIsNotTripped
  <2>4. /\ lastAnswer' = lastAnswer /\ statusZeros' = statusZeros /\ inFlight' = inFlight
        /\ requests' = requests /\ swallowed' = swallowed /\ overtaken' = overtaken
      BY <1>2 DEF IdentifyUser
  <2>5. ~overtaken /\ requests # <<>> => debouncer'
      BY <2>2 DEF BreakerTripped
  <2>6. OneAtATime'
      BY <2>1, <2>4, <2>5
  <2>7. FlagsFollowUser'
      BY <2>2, <2>3, <2>4
  <2>8. RequestsTyped' /\ AwaitsAnAnswer' /\ AnswersCloseTheBreaker'
      BY <2>4
  <2>. QED BY <2>6, <2>7, <2>8
<1>3. CASE ResetUser
    BY <1>3 DEF ResetUser, Tripped
<1>4. CASE RemoteConfigArrives
    BY <1>4 DEF RemoteConfigArrives, ReloadFeatureFlags, Tripped
<1>5. CASE DebouncerFires
    BY <1>5, DebouncedInv
<1>6. ASSUME NEW i \in DOMAIN requests, NEW answer \in FlagAnswers, FlagsAnswer(i, answer)
      PROVE  BFInv'
    BY <1>6, AnswerInv
<1>7. CASE BackOnline
  <2>1. ~BreakerTripped'
      BY <1>7, BrowserFlagsAssumption DEF BackOnline, Tripped
  <2>. QED BY <1>7, <2>1 DEF BackOnline
<1>8. CASE GoOffline
    BY <1>8 DEF GoOffline, Tripped
<1>9. CASE LimitChanges
    BY <1>9 DEF LimitChanges, Tripped
<1>10. CASE UNCHANGED bfVars
    BY <1>10 DEF bfVars, Tripped
<1>. QED BY <1>1, <1>2, <1>3, <1>4, <1>5, <1>6, <1>7, <1>8, <1>9, <1>10, <1>11 DEF BrowserFlagsNext

--------------------------------------------------------------------------------
\* Reloads reach the current user: once none waits or is awaited, and the last answer
\* brought all flags, the stored flags are that user's, unless an answer that a reset has
\* forgotten overtakes or is still to come; and none is held back for an answer that will
\* not come, unless the limiter has dropped the request (posthog-featureflags.ts:552-555,
\* 614-617); for any number of users, failures and requests that a reset forgot.
THEOREM FlagsAreLoadedAlways == BrowserFlagsSpec => []FlagsAreLoaded
<1>1. BFInv /\ BFTypes => FlagsAreLoaded
    BY DEF BFInv
<1>. QED BY <1>1, BFInitInv, BFInitTypes, BFNextInv, BFNextTypes, PTL DEF BrowserFlagsSpec

--------------------------------------------------------------------------------
(* Types *)

\* BrowserFlagsTypeOK, a flag at a time.
BrowserFlagsTyped ==
    /\ user \in Users /\ storedFor \subseteq Users
    /\ known \in BOOLEAN /\ hasLoaded \in BOOLEAN /\ debouncer \in BOOLEAN
    /\ inFlight \in BOOLEAN /\ additional \in BOOLEAN /\ online \in BOOLEAN
    /\ limited \in BOOLEAN /\ configDue \in BOOLEAN /\ overtaken \in BOOLEAN
    /\ swallowed \in BOOLEAN
    /\ requests \in Seq(FlagsCall) /\ Len(requests) <= MaxInFlight
    /\ anonId \in 0..MaxUsers /\ linkDue \in 0..MaxUsers
    /\ statusZeros \in 0..MaxStatusZero
    /\ lastAnswer \in FlagAnswers \cup {"none"}

LEMMA FlagByFlag == BrowserFlagsTyped <=> BrowserFlagsTypeOK
BY Zenon DEF BrowserFlagsTyped, BrowserFlagsTypeOK

\* Numbers of users and of failures.
LEMMA BrowserFlagsNumbers ==
    /\ 1 \in Users /\ 0 \in 0..MaxUsers /\ 0 \in 0..MaxStatusZero
    /\ MaxUsers \in Nat /\ MaxInFlight \in Nat /\ MaxStatusZero \in Nat
    /\ \A u \in Users : u \in 0..MaxUsers /\ (u < MaxUsers => u + 1 \in Users)
    /\ \A n \in 0..MaxStatusZero : n < MaxStatusZero => n + 1 \in 0..MaxStatusZero
BY BrowserFlagsAssumption DEF Users

LEMMA BFInitTyped == BrowserFlagsInit => BrowserFlagsTyped
<1>. SUFFICES ASSUME BrowserFlagsInit PROVE BrowserFlagsTyped
    OBVIOUS
<1>1. <<>> \in Seq(FlagsCall) /\ Len(<<>>) = 0 /\ Len(<<>>) <= MaxInFlight
    BY EmptySeq, BrowserFlagsNumbers
<1>. QED BY <1>1, BrowserFlagsNumbers DEF BrowserFlagsInit, BrowserFlagsTyped

\* _callFlagsEndpoint keeps the types, whatever it was called with.
LEMMA CallTyped ==
    ASSUME BrowserFlagsTyped, NEW others \in Seq(FlagsCall), Len(others) <= MaxInFlight, NEW zeros,
           NEW more \in BOOLEAN, NEW flying \in BOOLEAN, anonId' \in 0..MaxUsers,
           CallFlagsEndpoint([flying |-> flying, more |-> more, zeros |-> zeros,
                              others |-> others])
    PROVE  /\ inFlight' \in BOOLEAN /\ additional' \in BOOLEAN
           /\ overtaken' \in BOOLEAN /\ swallowed' \in BOOLEAN
           /\ requests' \in Seq(FlagsCall) /\ Len(requests') <= MaxInFlight
<1>. DEFINE s == [flying |-> flying, more |-> more, zeros |-> zeros, others |-> others]
            call == [user |-> user, link |-> anonId']
<1>1. s.flying = flying /\ s.more = more /\ s.zeros = zeros /\ s.others = others
    OBVIOUS
<1>. HIDE DEF s
<1>2. /\ inFlight' \in BOOLEAN /\ additional' \in BOOLEAN
      /\ overtaken' \in BOOLEAN /\ swallowed' \in BOOLEAN
    BY <1>1, Zenon DEF CallFlagsEndpoint, BrowserFlagsTyped, s
<1>3. requests' = others \/ (Len(others) < MaxInFlight /\ requests' = Append(others, call))
    BY <1>1, Zenon DEF CallFlagsEndpoint, s
<1>4. /\ Append(others, call) \in Seq(FlagsCall)
      /\ Len(Append(others, call)) = Len(others) + 1 /\ Len(others) \in Nat
  <2>1. call \in FlagsCall
      BY DEF FlagsCall, BrowserFlagsTyped
  <2>. QED BY <2>1, AppendProperties, LenProperties
<1>5. requests' \in Seq(FlagsCall) /\ Len(requests') <= MaxInFlight
  <2>. HIDE DEF call
  <2>. QED BY <1>3, <1>4, BrowserFlagsNumbers
<1>. QED BY <1>2, <1>5

\* The answers to come are no more than those that were awaited.
LEMMA AnsweredShortens ==
    ASSUME BrowserFlagsTyped, NEW i \in DOMAIN requests
    PROVE  Len(RemoveAt(requests, i)) <= MaxInFlight
<1>. DEFINE front == SubSeq(requests, 1, i - 1)
            back == SubSeq(requests, i + 1, Len(requests))
<1>1. i \in 1..Len(requests) /\ Len(requests) \in Nat
    BY LenProperties DEF BrowserFlagsTyped
<1>2. front \in Seq(FlagsCall) /\ Len(front) = i - 1
    BY <1>1, SubSeqProperties DEF BrowserFlagsTyped
<1>3. back \in Seq(FlagsCall) /\ Len(back) = Len(requests) - i
    BY <1>1, SubSeqProperties DEF BrowserFlagsTyped
<1>4. RemoveAt(requests, i) = front \o back
    BY Zenon DEF RemoveAt
<1>. HIDE DEF front, back
<1>5. Len(front \o back) = Len(front) + Len(back)
    BY <1>2, <1>3, ConcatProperties
<1>6. Len(RemoveAt(requests, i)) = (i - 1) + (Len(requests) - i)
    BY <1>2, <1>3, <1>4, <1>5
<1>. QED BY <1>1, <1>6, BrowserFlagsNumbers DEF BrowserFlagsTyped

LEMMA BFNextTyped == BrowserFlagsTyped /\ [BrowserFlagsNext]_bfVars => BrowserFlagsTyped'
<1>. SUFFICES ASSUME BrowserFlagsTyped, [BrowserFlagsNext]_bfVars PROVE BrowserFlagsTyped'
    OBVIOUS
<1>1. CASE AskForReload \/ IdentifySameUser
    BY <1>1, Zenon DEF AskForReload, IdentifySameUser, ReloadFeatureFlags, BrowserFlagsTyped
<1>2. CASE IdentifyUser
  <2>1. user' \in Users /\ anonId' \in 0..MaxUsers /\ linkDue' \in 0..MaxUsers
      BY <1>2, BrowserFlagsNumbers, Zenon DEF IdentifyUser, BrowserFlagsTyped
  <2>. QED BY <1>2, <2>1, Zenon DEF IdentifyUser, ReloadFeatureFlags, BrowserFlagsTyped
<1>3. CASE ResetUser
  <2>1. /\ user' \in Users /\ anonId' \in 0..MaxUsers /\ linkDue' \in 0..MaxUsers
        /\ statusZeros' \in 0..MaxStatusZero
      BY <1>3, BrowserFlagsNumbers, Zenon DEF ResetUser, BrowserFlagsTyped
  <2>2. /\ known' = FALSE /\ hasLoaded' = FALSE /\ inFlight' = FALSE /\ additional' = FALSE
        /\ swallowed' = FALSE /\ debouncer' = TRUE /\ overtaken' \in BOOLEAN
        /\ storedFor' \subseteq Users
      BY <1>3 DEF ResetUser
  <2>3. /\ known' \in BOOLEAN /\ hasLoaded' \in BOOLEAN /\ inFlight' \in BOOLEAN
        /\ additional' \in BOOLEAN /\ swallowed' \in BOOLEAN /\ debouncer' \in BOOLEAN
      BY <2>2
  <2>4. /\ requests' = requests /\ online' = online /\ limited' = limited
        /\ configDue' = configDue /\ lastAnswer' = lastAnswer
      BY <1>3, Zenon DEF ResetUser
  <2>. QED BY <2>1, <2>2, <2>3, <2>4, Zenon DEF BrowserFlagsTyped
<1>4. CASE RemoteConfigArrives
  <2>1. debouncer' \in BOOLEAN
      BY <1>4, Zenon DEF RemoteConfigArrives, ReloadFeatureFlags, BrowserFlagsTyped
  <2>2. configDue' \in BOOLEAN
      BY <1>4 DEF RemoteConfigArrives
  <2>. QED BY <1>4, <2>1, <2>2, Zenon DEF RemoteConfigArrives, BrowserFlagsTyped
<1>5. CASE DebouncerFires
  <2>1. /\ inFlight' \in BOOLEAN /\ additional' \in BOOLEAN
        /\ overtaken' \in BOOLEAN /\ swallowed' \in BOOLEAN
        /\ requests' \in Seq(FlagsCall) /\ Len(requests') <= MaxInFlight
      BY <1>5, CallTyped DEF DebouncerFires, AtRest, BrowserFlagsTyped
  <2>2. debouncer' \in BOOLEAN
      BY <1>5 DEF DebouncerFires
  <2>. QED BY <1>5, <2>1, <2>2, Zenon DEF DebouncerFires, BrowserFlagsTyped
<1>6. ASSUME NEW i \in DOMAIN requests, NEW answer \in FlagAnswers, FlagsAnswer(i, answer)
      PROVE  BrowserFlagsTyped'
  <2>. DEFINE rest == RemoveAt(requests, i)
              zeros == StatusZerosAfter(answer)
  <2>1. rest \in Seq(FlagsCall) /\ Len(rest) <= MaxInFlight
      BY AnsweredIsRemoved, AnsweredShortens DEF BrowserFlagsTyped, RequestsTyped
  <2>2. /\ anonId' = AnonIdAfter(answer) /\ storedFor' = FlagsAfter(answer, requests[i])
        /\ statusZeros' = zeros /\ lastAnswer' = answer
        /\ linkDue' = IF Succeeded(answer) /\ requests[i].link = linkDue THEN 0 ELSE linkDue
        /\ hasLoaded' = (hasLoaded \/ answer # "quota")
        /\ user' = user /\ known' = known /\ online' = online /\ limited' = limited
        /\ configDue' = configDue
        /\ IF additional /\ answer # "quota"
           THEN /\ debouncer' = FALSE
                /\ CallFlagsEndpoint([flying |-> FALSE, more |-> FALSE, zeros |-> zeros,
                                      others |-> rest])
           ELSE /\ inFlight' = FALSE /\ requests' = rest
                /\ UNCHANGED <<additional, debouncer, overtaken, swallowed>>
      BY <1>6 DEF FlagsAnswer
  <2>3. anonId' \in 0..MaxUsers /\ linkDue' \in 0..MaxUsers
      BY <2>2, BrowserFlagsNumbers, Zenon DEF AnonIdAfter, BrowserFlagsTyped
  <2>4. storedFor' \subseteq Users
    <3>1. requests[i].user \in Users
      <4>1. requests[i] \in FlagsCall
          BY LenProperties, ElementOfSeq DEF BrowserFlagsTyped
      <4>. QED BY <4>1 DEF FlagsCall
    <3>. QED BY <2>2, <3>1 DEF FlagsAfter, BrowserFlagsTyped
  <2>5. zeros \in 0..MaxStatusZero
      BY BrowserFlagsNumbers, Zenon DEF StatusZerosAfter, BrowserFlagsTyped
  <2>. HIDE DEF rest, zeros
  <2>6. /\ inFlight' \in BOOLEAN /\ additional' \in BOOLEAN /\ debouncer' \in BOOLEAN
        /\ overtaken' \in BOOLEAN /\ swallowed' \in BOOLEAN
        /\ requests' \in Seq(FlagsCall) /\ Len(requests') <= MaxInFlight
    <3>1. CASE additional /\ answer # "quota"
      <4>1. debouncer' = FALSE /\ debouncer' \in BOOLEAN
          BY <2>2, <3>1
      <4>. QED BY <2>1, <2>2, <2>3, <3>1, <4>1, CallTyped
    <3>2. CASE ~(additional /\ answer # "quota")
      <4>1. inFlight' = FALSE /\ inFlight' \in BOOLEAN
          BY <2>2, <3>2
      <4>. QED BY <2>1, <2>2, <3>2, <4>1, Zenon DEF BrowserFlagsTyped
    <3>. QED BY <3>1, <3>2
  <2>7. hasLoaded' \in BOOLEAN
      BY <2>2
  <2>. QED BY <1>6, <2>2, <2>3, <2>4, <2>5, <2>6, <2>7, Zenon DEF BrowserFlagsTyped
<1>7. CASE BackOnline
  <2>1. statusZeros' \in 0..MaxStatusZero /\ online' \in BOOLEAN /\ debouncer' \in BOOLEAN
      BY <1>7, BrowserFlagsNumbers DEF BackOnline
  <2>. QED BY <1>7, <2>1, Zenon DEF BackOnline, BrowserFlagsTyped
<1>8. CASE GoOffline
  <2>1. online' \in BOOLEAN
      BY <1>8 DEF GoOffline
  <2>. QED BY <1>8, <2>1, Zenon DEF GoOffline, BrowserFlagsTyped
<1>9. CASE LimitChanges
  <2>1. limited' \in BOOLEAN
      BY <1>9 DEF LimitChanges
  <2>. QED BY <1>9, <2>1, Zenon DEF LimitChanges, BrowserFlagsTyped
<1>10. CASE UNCHANGED bfVars
    BY <1>10, Zenon DEF bfVars, BrowserFlagsTyped
<1>. QED BY <1>1, <1>2, <1>3, <1>4, <1>5, <1>6, <1>7, <1>8, <1>9, <1>10 DEF BrowserFlagsNext

\* The user, what is stored for whom, the requests and the counters of the flags stay
\* within their types.
THEOREM BrowserFlagsTypes == BrowserFlagsSpec => []BrowserFlagsTypeOK
BY BFInitTyped, BFNextTyped, FlagByFlag, PTL DEF BrowserFlagsSpec

--------------------------------------------------------------------------------
(* What it takes for an anonymous id to be given up before it was sent.         *)

\* While an id is due, it is the one that is kept, and requests carry nothing else.
IdIsCarried ==
    linkDue # 0 => /\ anonId = linkDue
                   /\ \A i \in 1..Len(requests) : requests[i].link = linkDue

\* An anonymous user is identified while an answer is awaited.
IdentifiesInFlight == IdentifyUser /\ ~known /\ requests # <<>>

\* The requests that are left were awaited before.
LEMMA LeftWereAwaited ==
    ASSUME RequestsTyped, NEW i \in DOMAIN requests
    PROVE  \A k \in 1..Len(RemoveAt(requests, i)) :
              \E j \in 1..Len(requests) : RemoveAt(requests, i)[k] = requests[j]
<1>. DEFINE front == SubSeq(requests, 1, i - 1)
            back == SubSeq(requests, i + 1, Len(requests))
<1>1. i \in 1..Len(requests) /\ Len(requests) \in Nat
    BY LenProperties DEF RequestsTyped
<1>2. /\ front \in Seq(FlagsCall) /\ Len(front) = i - 1
      /\ \A k \in 1..(i - 1) : front[k] = requests[k]
    BY <1>1, SubSeqProperties DEF RequestsTyped
<1>3. /\ back \in Seq(FlagsCall) /\ Len(back) = Len(requests) - i
      /\ \A k \in 1..(Len(requests) - i) : back[k] = requests[i + k]
    BY <1>1, SubSeqProperties DEF RequestsTyped
<1>4. RemoveAt(requests, i) = front \o back
    BY Zenon DEF RemoveAt
<1>. HIDE DEF front, back
<1>5. /\ Len(front \o back) = Len(front) + Len(back)
      /\ \A k \in 1..(Len(front) + Len(back)) :
            (front \o back)[k] = IF k <= Len(front) THEN front[k] ELSE back[k - Len(front)]
    BY <1>2, <1>3, ConcatProperties
<1>6. SUFFICES ASSUME NEW k \in 1..Len(front \o back)
               PROVE  \E j \in 1..Len(requests) : (front \o back)[k] = requests[j]
    BY <1>4
<1>7. CASE k <= i - 1
  <2>1. k \in 1..(i - 1) /\ k \in 1..Len(requests)
      BY <1>1, <1>7
  <2>2. (front \o back)[k] = requests[k]
      BY <1>2, <1>5, <1>7, <2>1
  <2>. QED BY <2>1, <2>2
<1>8. CASE ~(k <= i - 1)
  <2>1. /\ k - (i - 1) \in 1..(Len(requests) - i) /\ k + 1 \in 1..Len(requests)
        /\ i + (k - (i - 1)) = k + 1
    <3>1. Len(front \o back) = (i - 1) + (Len(requests) - i)
        BY <1>2, <1>3, <1>5
    <3>2. k \in Nat /\ k <= Len(requests) - 1
        BY <1>1, <3>1
    <3>. QED BY <1>1, <1>8, <3>2
  <2>2. (front \o back)[k] = back[k - (i - 1)]
      BY <1>2, <1>5, <1>8
  <2>3. (front \o back)[k] = requests[k + 1]
      BY <1>3, <2>1, <2>2
  <2>. QED BY <2>1, <2>3
<1>. QED BY <1>7, <1>8

\* _callFlagsEndpoint adds no request but one with the id that is kept.
LEMMA CallCarries ==
    ASSUME NEW s, s.others \in Seq(FlagsCall), CallFlagsEndpoint(s),
           user \in Users, anonId' \in 0..MaxUsers,
           NEW due, anonId' = due, \A k \in 1..Len(s.others) : s.others[k].link = due
    PROVE  \A k \in 1..Len(requests') : requests'[k].link = due
<1>. DEFINE call == [user |-> user, link |-> anonId']
<1>1. call \in FlagsCall /\ call.link = due
    BY DEF FlagsCall
<1>2. requests' = s.others \/ requests' = Append(s.others, call)
    BY DEF CallFlagsEndpoint
<1>. HIDE DEF call
<1>3. CASE requests' = Append(s.others, call)
  <2>1. /\ Len(requests') = Len(s.others) + 1 /\ Len(s.others) \in Nat
        /\ \A k \in 1..Len(s.others) : requests'[k] = s.others[k]
        /\ requests'[Len(s.others) + 1] = call
      BY <1>1, <1>3, AppendProperties, LenProperties
  <2>. QED BY <1>1, <2>1
<1>. QED BY <1>2, <1>3

\* A request that carries the id that is due settles it when it succeeds.
LEMMA AnswerCarries ==
    ASSUME BFInv, BFTypes, BrowserFlagsTyped, IdIsCarried,
           NEW i \in DOMAIN requests, NEW answer \in FlagAnswers, FlagsAnswer(i, answer)
    PROVE  IdIsCarried'
<1>. DEFINE rest == RemoveAt(requests, i)
            zeros == StatusZerosAfter(answer)
<1>1. /\ anonId' = AnonIdAfter(answer) /\ user' = user
      /\ linkDue' = IF Succeeded(answer) /\ requests[i].link = linkDue THEN 0 ELSE linkDue
      /\ IF additional /\ answer # "quota"
         THEN CallFlagsEndpoint([flying |-> FALSE, more |-> FALSE, zeros |-> zeros,
                                 others |-> rest])
         ELSE requests' = rest
    BY DEF FlagsAnswer
<1>2. i \in 1..Len(requests)
    BY LenProperties DEF BFInv, RequestsTyped
<1>. SUFFICES ASSUME linkDue' # 0
              PROVE  /\ anonId' = linkDue'
                     /\ \A k \in 1..Len(requests') : requests'[k].link = linkDue'
    BY DEF IdIsCarried
<1>3. linkDue' = linkDue /\ ~(Succeeded(answer) /\ requests[i].link = linkDue)
    BY <1>1
<1>4. anonId = linkDue /\ \A k \in 1..Len(requests) : requests[k].link = linkDue
    BY <1>3 DEF IdIsCarried
<1>5. anonId' = linkDue
    BY <1>1, <1>2, <1>3, <1>4 DEF AnonIdAfter
<1>6. rest \in Seq(FlagsCall) /\ \A k \in 1..Len(rest) : rest[k].link = linkDue
    BY <1>4, AnsweredIsRemoved, LeftWereAwaited DEF BFInv
<1>. HIDE DEF rest, zeros
<1>7. CASE additional /\ answer # "quota"
  <2>. DEFINE s == [flying |-> FALSE, more |-> FALSE, zeros |-> zeros, others |-> rest]
  <2>1. s.others = rest /\ CallFlagsEndpoint(s)
      BY <1>1, <1>7
  <2>. HIDE DEF s
  <2>2. user \in Users /\ anonId' \in 0..MaxUsers
      BY <1>5, <1>4 DEF BFTypes
  <2>3. \A k \in 1..Len(requests') : requests'[k].link = linkDue
      BY <1>5, <1>6, <2>1, <2>2, CallCarries
  <2>. QED BY <1>3, <1>5, <2>3
<1>8. CASE ~(additional /\ answer # "quota")
    BY <1>1, <1>3, <1>5, <1>6, <1>8
<1>. QED BY <1>7, <1>8

LEMMA CarriedNext ==
    BFInv /\ BFTypes /\ BrowserFlagsTyped /\ IdIsCarried
        /\ [BrowserFlagsNext /\ ~IdentifiesInFlight]_bfVars => IdIsCarried'
<1>. SUFFICES ASSUME BFInv, BFTypes, BrowserFlagsTyped, IdIsCarried,
                     [BrowserFlagsNext /\ ~IdentifiesInFlight]_bfVars
              PROVE  IdIsCarried'
    OBVIOUS
<1>1. CASE UNCHANGED <<anonId, linkDue, requests>>
    BY <1>1 DEF IdIsCarried
<1>2. CASE IdentifyUser
  <2>1. known \/ requests = <<>>
      BY <1>2, LenProperties DEF IdentifiesInFlight, IdentifyUser, bfVars
  <2>2. CASE known
      BY <1>1, <1>2, <2>2 DEF IdentifyUser
  <2>3. CASE ~known
    <3>1. anonId' = user /\ linkDue' = user /\ requests' = <<>>
        BY <1>2, <2>1, <2>3 DEF IdentifyUser
    <3>2. Len(<<>>) = 0
        BY EmptySeq
    <3>. QED BY <3>1, <3>2 DEF IdIsCarried
  <2>. QED BY <2>2, <2>3
<1>3. CASE ResetUser
    BY <1>3 DEF ResetUser, IdIsCarried
<1>4. CASE DebouncerFires
  <2>1. /\ AtRest.others = requests /\ requests \in Seq(FlagsCall) /\ CallFlagsEndpoint(AtRest)
        /\ anonId' = anonId /\ linkDue' = linkDue /\ user \in Users /\ anonId' \in 0..MaxUsers
      BY <1>4 DEF DebouncerFires, AtRest, BFInv, RequestsTyped, BFTypes
  <2>2. SUFFICES ASSUME linkDue # 0
                 PROVE  \A k \in 1..Len(requests') : requests'[k].link = linkDue
      BY <2>1 DEF IdIsCarried
  <2>3. anonId' = linkDue /\ \A k \in 1..Len(AtRest.others) : AtRest.others[k].link = linkDue
      BY <2>1, <2>2 DEF IdIsCarried
  <2>. HIDE DEF AtRest
  <2>. QED BY <2>1, <2>3, CallCarries
<1>5. ASSUME NEW i \in DOMAIN requests, NEW answer \in FlagAnswers, FlagsAnswer(i, answer)
      PROVE  IdIsCarried'
    BY <1>5, AnswerCarries
<1>6. CASE AskForReload \/ IdentifySameUser \/ RemoteConfigArrives \/ BackOnline
              \/ GoOffline \/ LimitChanges
    BY <1>1, <1>6
       DEF AskForReload, IdentifySameUser, RemoteConfigArrives, BackOnline, GoOffline, LimitChanges
<1>7. CASE UNCHANGED bfVars
    BY <1>1, <1>7 DEF bfVars
<1>. QED BY <1>2, <1>3, <1>4, <1>5, <1>6, <1>7 DEF BrowserFlagsNext

\* An anonymous id is lost before a request made it through
\* (posthog-featureflags.ts:676-677) only if an anonymous user was identified while an
\* earlier request, which cannot carry the id, was in flight: without such a call it is
\* kept and every request carries it, whatever fails, waits or is forgotten by a reset.
\* With such calls the property fails (run browser_flags_anon).
THEOREM AnonIdNeedsRequestInFlight ==
    BrowserFlagsInit /\ [][BrowserFlagsNext /\ ~IdentifiesInFlight]_bfVars
        => []AnonIdMakesItThrough
<1>1. BrowserFlagsInit => IdIsCarried
    BY DEF BrowserFlagsInit, IdIsCarried
<1>2. BFInv /\ BFTypes /\ BrowserFlagsTyped
        /\ [BrowserFlagsNext /\ ~IdentifiesInFlight]_bfVars
        => BFInv' /\ BFTypes' /\ BrowserFlagsTyped'
    BY BFNextInv, BFNextTypes, BFNextTyped
<1>3. IdIsCarried => AnonIdMakesItThrough
    BY DEF IdIsCarried, AnonIdMakesItThrough
<1>. QED
    BY <1>1, <1>2, <1>3, BFInitInv, BFInitTypes, BFInitTyped, CarriedNext, PTL

-------------------------------------------------------------------------------
(* SurveyDisplay, for every number of surveys and of acts.                      *)

\* The values of stage.
Stages == [focus : 0..NumSurveys, pending : SUBSET SurveyIds, popup : [SurveyIds -> Popup]]

\* One survey has the stage to itself, waiting or shown.
Alone(st) ==
    \A s \in SurveyIds :
       /\ s \in st.pending \/ st.popup[s] # "none" => st.focus = s
       /\ s \in st.pending => st.popup[s] = "none"

\* The survey in focus waits or is shown, or is the orphan.
FocusHeld(st, o) ==
    st.focus \notin {0, o} => st.focus \in st.pending \/ st.popup[st.focus] # "none"

\* Alone adds to OneSurveyAtATime that what waits is not shown, without which the end
\* of its delay, which frees the focus, would leave a popup behind.
SurveysIInv ==
    /\ SurveysTypeOK
    /\ ~forced /\ ~stray => Alone(stage)
    /\ FocusHeld(stage, orphan)

--------------------------------------------------------------------------------
(* What the manager does to the stage *)

LEMMA SurveyNumbers ==
    /\ 0 \in 0..NumSurveys /\ 0 \in 0..MaxSurveyActs
    /\ \A s \in SurveyIds : s \in 0..NumSurveys /\ s # 0
    /\ \A n \in 0..MaxSurveyActs : n < MaxSurveyActs => n + 1 \in 0..MaxSurveyActs
BY SurveyAssumption DEF SurveyIds

\* A survey takes the focus, and waits or is shown.
LEMMA PopoverHandled ==
    ASSUME NEW st \in Stages, NEW s \in SurveyIds, NEW waits \in BOOLEAN
    PROVE  /\ HandlePopover(st, s, waits) \in Stages
           /\ \A o : FocusHeld(HandlePopover(st, s, waits), o)
           /\ Alone(st) /\ st.focus = 0 => Alone(HandlePopover(st, s, waits))
<1>. DEFINE after == HandlePopover(st, s, waits)
<1>1. after \in Stages /\ after.focus = s
    BY SurveyNumbers DEF HandlePopover, Shown, Stages, Popup
<1>2. /\ after.pending = (st.pending \ {s}) \cup (IF waits THEN {s} ELSE {})
      /\ \A t \in SurveyIds \ {s} : after.popup[t] = st.popup[t]
      /\ waits => after.popup[s] = st.popup[s]
      /\ ~waits => after.popup[s] # "none"
    BY DEF HandlePopover, Shown, Stages, Popup
<1>. HIDE DEF after
<1>3. \A o : FocusHeld(after, o)
    BY <1>1, <1>2 DEF FocusHeld
<1>4. ASSUME Alone(st), st.focus = 0 PROVE Alone(after)
    BY <1>1, <1>2, <1>4, SurveyNumbers DEF Alone
<1>. QED BY <1>1, <1>3, <1>4 DEF after

\* A cancellation leaves the popups, and frees the focus of what it cancels.
LEMMA DelaysCancelled ==
    ASSUME NEW st \in Stages, NEW some \in SUBSET SurveyIds
    PROVE  /\ Cancelled(st, some) \in Stages
           /\ \A o : FocusHeld(st, o) => FocusHeld(Cancelled(st, some), o)
           /\ Alone(st) => Alone(Cancelled(st, some))
<1>. DEFINE after == Cancelled(st, some)
<1>1. /\ after \in Stages /\ after.popup = st.popup
      /\ after.pending = st.pending \ some
      /\ after.focus = IF st.focus \in st.pending \cap some THEN 0 ELSE st.focus
    BY SurveyNumbers DEF Cancelled, Stages
<1>. HIDE DEF after
<1>2. \A o : FocusHeld(st, o) => FocusHeld(after, o)
    BY <1>1 DEF FocusHeld
<1>3. ASSUME Alone(st) PROVE Alone(after)
    BY <1>1, <1>3, SurveyNumbers DEF Alone
<1>. QED BY <1>1, <1>2, <1>3 DEF after

\* A removal frees the focus, which leaves nothing if no other survey had it.
LEMMA SurveyRemoved ==
    ASSUME NEW st \in Stages, NEW s \in SurveyIds
    PROVE  /\ Removed(st, s) \in Stages
           /\ \A o : FocusHeld(Removed(st, s), o)
           /\ Alone(st) /\ st.focus \in {0, s} => Alone(Removed(st, s))
<1>. DEFINE after == Removed(st, s)
<1>1. /\ after \in Stages /\ after.focus = 0 /\ after.pending = st.pending \ {s}
      /\ after.popup[s] = "none"
      /\ \A t \in SurveyIds \ {s} : after.popup[t] = st.popup[t]
    BY SurveyNumbers, ZenonT(60) DEF Removed, Stages, Popup
<1>. HIDE DEF after
<1>2. \A o : FocusHeld(after, o)
    BY <1>1 DEF FocusHeld
<1>3. ASSUME Alone(st), st.focus \in {0, s} PROVE Alone(after)
    BY <1>1, <1>3, SurveyNumbers DEF Alone
<1>. QED BY <1>1, <1>2, <1>3 DEF after

\* A popup that is hidden goes with the focus, or fades and keeps it.
LEMMA PopupHidden ==
    ASSUME NEW st \in Stages, NEW s \in SurveyIds, NEW was \in Popup, was # "none",
           Hide(st, s, was), removals \in [SurveyIds -> Nat]
    PROVE  /\ stage' \in Stages /\ removals' \in [SurveyIds -> Nat]
           /\ \A o : FocusHeld(st, o) => FocusHeld(stage', o)
           /\ Alone(st) /\ (transitions \/ st.focus \in {0, s}) => Alone(stage')
<1>1. CASE ~transitions
    BY <1>1, SurveyRemoved DEF Hide
<1>2. CASE transitions
    <2>1. /\ stage' \in Stages /\ removals' \in [SurveyIds -> Nat]
          /\ stage'.focus = st.focus /\ stage'.pending = st.pending
          /\ \A t \in SurveyIds : stage'.popup[t] = "none" <=> st.popup[t] = "none"
        BY <1>2 DEF Hide, Stages, Popup
    <2>2. ASSUME NEW o, FocusHeld(st, o) PROVE FocusHeld(stage', o)
        <3>1. st.focus \in 0..NumSurveys
            BY DEF Stages
        <3>2. st.focus # 0 => st.focus \in SurveyIds
            BY <3>1, SurveyAssumption DEF SurveyIds
        <3>. QED BY <2>1, <2>2, <3>2 DEF FocusHeld
    <2>3. ASSUME Alone(st) PROVE Alone(stage')
        BY <2>1, <2>3 DEF Alone
    <2>. QED BY <2>1, <2>2, <2>3
<1>. QED BY <1>1, <1>2

--------------------------------------------------------------------------------
(* Each step *)

LEMMA SurveysInitIInv == SurveysInit => SurveysIInv
<1>. SUFFICES ASSUME SurveysInit PROVE SurveysIInv
    OBVIOUS
<1>. USE DEF SurveysInit
<1>1. stage \in Stages /\ stage.focus = 0 /\ stage.pending = {}
      /\ \A s \in SurveyIds : stage.popup[s] = "none"
    BY SurveyNumbers DEF EmptyStage, Stages, Popup
<1>2. SurveysTypeOK
    BY <1>1, SurveyNumbers, Zenon DEF SurveysTypeOK, Stages
<1>3. Alone(stage) /\ FocusHeld(stage, orphan)
    BY <1>1 DEF Alone, FocusHeld
<1>. QED BY <1>2, <1>3 DEF SurveysIInv

\* The excuses after a step that adds to the first two, or not.
LEMMA HistoryKept ==
    ASSUME NEW forces \in BOOLEAN, NEW strays \in BOOLEAN, History(forces, strays),
           SurveysIInv, stage' \in Stages, FocusHeld(stage', orphan),
           Alone(stage) /\ ~forces /\ ~strays => Alone(stage')
    PROVE  /\ {forced', stray'} \subseteq BOOLEAN /\ orphan' \in 0..NumSurveys
           /\ ~forced' /\ ~stray' => Alone(stage')
           /\ FocusHeld(stage', orphan')
<1>1. {forced', stray'} \subseteq BOOLEAN /\ orphan' \in 0..NumSurveys
    BY SurveyNumbers DEF History, SurveysIInv, SurveysTypeOK
<1>2. FocusHeld(stage', orphan')
    BY DEF FocusHeld, History
<1>3. Alone(EmptyStage)
    BY DEF Alone, EmptyStage
<1>4. ASSUME ~forced', ~stray', stage' # EmptyStage PROVE Alone(stage')
    BY <1>4 DEF History, SurveysIInv, SurveysTypeOK
<1>. QED BY <1>1, <1>2, <1>3, <1>4

\* A step that changes the stage as the excuses expect, and nothing out of its type.
LEMMA StageStep ==
    ASSUME SurveysIInv, NEW forces \in BOOLEAN, NEW strays \in BOOLEAN,
           History(forces, strays), UNCHANGED fixed,
           fades' \in [SurveyIds -> Nat], removals' \in [SurveyIds -> Nat],
           {seenSurveys', targeted', matching'} \subseteq SUBSET SurveyIds,
           surveyActs' \in 0..MaxSurveyActs,
           stage' \in Stages, FocusHeld(stage', orphan),
           Alone(stage) /\ ~forces /\ ~strays => Alone(stage')
    PROVE  SurveysIInv'
<1>1. /\ {forced', stray'} \subseteq BOOLEAN /\ orphan' \in 0..NumSurveys
      /\ ~forced' /\ ~stray' => Alone(stage')
      /\ FocusHeld(stage', orphan')
    BY HistoryKept
<1>2. SurveysTypeOK'
    BY <1>1 DEF SurveysIInv, SurveysTypeOK, Stages, fixed
<1>. QED BY <1>1, <1>2 DEF SurveysIInv

\* Every step keeps the invariant.
LEMMA SurveysNextIInv == SurveysIInv /\ [SurveysNext]_sdVars => SurveysIInv'
<1>. SUFFICES ASSUME SurveysIInv, [SurveysNext]_sdVars PROVE SurveysIInv'
    OBVIOUS
<1>1. /\ stage \in Stages /\ FocusHeld(stage, orphan)
      /\ fades \in [SurveyIds -> Nat] /\ removals \in [SurveyIds -> Nat]
      /\ seenSurveys \subseteq SurveyIds /\ targeted \subseteq SurveyIds
      /\ matching \subseteq SurveyIds /\ surveyActs \in 0..MaxSurveyActs
      /\ {transitions, forced, stray} \subseteq BOOLEAN /\ orphan \in 0..NumSurveys
      /\ \A s \in SurveyIds : survey[s].delay \in BOOLEAN
    BY DEF SurveysIInv, SurveysTypeOK, Stages
<1>2. SurveyAct => surveyActs' \in 0..MaxSurveyActs
    BY <1>1, SurveyNumbers DEF SurveyAct
<1>3. {"asking", "thanking", "fading"} \subseteq Popup \ {"none"}
    BY DEF Popup
<1>4. CASE EvaluateDisplayLogic
    <2>. DEFINE matched == {s \in SurveyIds : ShouldDisplay(s)}
                kept == Cancelled(stage, SurveyIds \ matched)
    <2>1. /\ kept \in Stages /\ FocusHeld(kept, orphan)
          /\ Alone(stage) => Alone(kept)
        BY <1>1, DelaysCancelled
    <2>2. /\ \/ /\ kept.focus = 0
                /\ \E s \in matched, waits \in BOOLEAN : stage' = HandlePopover(kept, s, waits)
             \/ stage' = kept
          /\ History(FALSE, FALSE) /\ UNCHANGED <<fixed, fades, removals, audience, surveyActs>>
        BY <1>4 DEF EvaluateDisplayLogic
    <2>. HIDE DEF kept
    <2>3. /\ stage' \in Stages /\ FocusHeld(stage', orphan)
          /\ Alone(stage) => Alone(stage')
        <3>1. CASE stage' = kept
            BY <2>1, <3>1
        <3>2. CASE /\ kept.focus = 0
                   /\ \E s \in matched, waits \in BOOLEAN : stage' = HandlePopover(kept, s, waits)
            BY <2>1, <3>2, PopoverHandled
        <3>. QED BY <2>2, <3>1, <3>2
    <2>. QED BY <1>1, <2>2, <2>3, StageStep DEF audience
<1>5. CASE ResetSurveys
    BY <1>1, <1>2, <1>5 DEF ResetSurveys, SurveysIInv, SurveysTypeOK, fixed
<1>6. ASSUME NEW s \in SurveyIds, DelayPasses(s) PROVE SurveysIInv'
    <2>. DEFINE due == [stage EXCEPT !.pending = @ \ {s}]
    <2>1. /\ due \in Stages /\ due.focus = stage.focus /\ due.popup = stage.popup
          /\ due.pending = stage.pending \ {s}
        BY <1>1 DEF Stages
    <2>2. /\ s \in stage.pending /\ stage' \in {Shown(due, s), Removed(due, s)}
          /\ History(FALSE, FALSE) /\ UNCHANGED <<fixed, fades, removals, audience, surveyActs>>
        BY <1>6 DEF DelayPasses
    <2>. HIDE DEF due
    <2>3. CASE stage' = Removed(due, s)
        <3>1. Alone(stage) => Alone(due) /\ due.focus \in {0, s}
            BY <2>1, <2>2 DEF Alone
        <3>2. /\ stage' \in Stages /\ FocusHeld(stage', orphan)
              /\ Alone(stage) => Alone(stage')
            BY <2>1, <2>3, <3>1, SurveyRemoved
        <3>. QED BY <1>1, <2>2, <3>2, StageStep DEF audience
    <2>4. CASE stage' = Shown(due, s)
        <3>1. /\ stage' \in Stages /\ stage'.focus = stage.focus
              /\ stage'.pending = stage.pending \ {s} /\ stage'.popup[s] # "none"
              /\ \A t \in SurveyIds \ {s} : stage'.popup[t] = stage.popup[t]
            BY <2>1, <2>4, <1>3 DEF Shown, Stages
        <3>2. FocusHeld(stage', orphan)
            <4>1. stage.focus # 0 => stage.focus \in SurveyIds
                BY <1>1, SurveyAssumption DEF Stages, SurveyIds
            <4>. QED BY <1>1, <3>1, <4>1 DEF FocusHeld
        <3>3. Alone(stage) => Alone(stage')
            BY <2>2, <3>1 DEF Alone
        <3>. QED BY <1>1, <2>2, <3>1, <3>2, <3>3, StageStep DEF audience
    <2>. QED BY <2>2, <2>3, <2>4
<1>7. ASSUME NEW s \in SurveyIds, DisplaySurvey(s) PROVE SurveysIInv'
    <2>1. PICK waits \in BOOLEAN : stage' = HandlePopover(stage, s, waits)
        BY <1>1, <1>7 DEF DisplaySurvey
    <2>2. /\ stage' \in Stages /\ FocusHeld(stage', orphan)
          /\ Alone(stage) /\ ~(stage.focus # 0) => Alone(stage')
        BY <1>1, <2>1, PopoverHandled
    <2>3. /\ History(stage.focus # 0, FALSE) /\ SurveyAct
          /\ UNCHANGED <<fixed, fades, removals, audience>>
        BY <1>7 DEF DisplaySurvey
    <2>. QED BY <1>1, <1>2, <2>2, <2>3, StageStep DEF audience
<1>8. ASSUME NEW s \in SurveyIds, CancelPendingSurvey(s) PROVE SurveysIInv'
    <2>1. /\ stage' \in Stages /\ FocusHeld(stage', orphan)
          /\ Alone(stage) => Alone(stage')
        BY <1>1, <1>8, DelaysCancelled DEF CancelPendingSurvey
    <2>. QED BY <1>1, <1>2, <1>8, <2>1, StageStep DEF CancelPendingSurvey, audience
<1>9. ASSUME NEW s \in SurveyIds, DisplayAnswered(s) PROVE SurveysIInv'
    <2>. DEFINE kept == [stage EXCEPT !.pending = @ \ {s}]
    <2>1. /\ kept \in Stages /\ kept.focus = stage.focus /\ kept.popup = stage.popup
          /\ kept.pending = stage.pending \ {s}
        BY <1>1 DEF Stages
    <2>2. Alone(stage) => Alone(kept) /\ (Mounted(s) => kept.focus = s)
        BY <2>1 DEF Alone, Mounted
    <2>3. /\ IF Mounted(s) THEN Hide(kept, s, "asking") ELSE stage' = kept /\ UNCHANGED removals
          /\ seenSurveys' = seenSurveys \cup {s}
          /\ forced' = (forced /\ stage' # EmptyStage) /\ stray' = (stray /\ stage' # EmptyStage)
          /\ orphan' = IF stage'.focus = s /\ ~Mounted(s) THEN s
                       ELSE IF stage'.focus = orphan THEN orphan ELSE 0
          /\ SurveyAct /\ UNCHANGED <<fixed, fades, targeted, matching>>
        BY <1>9 DEF DisplayAnswered
    <2>. HIDE DEF kept
    <2>4. /\ stage' \in Stages /\ removals' \in [SurveyIds -> Nat]
          /\ Alone(stage) => Alone(stage')
          /\ FocusHeld(stage', orphan) \/ (stage'.focus = s /\ ~Mounted(s))
        <3>1. CASE Mounted(s)
            <4>1. FocusHeld(kept, orphan)
                BY <1>1, <2>1, <3>1 DEF FocusHeld, Mounted
            <4>. QED BY <1>1, <1>3, <2>1, <2>2, <2>3, <3>1, <4>1, PopupHidden
        <3>2. CASE ~Mounted(s)
            BY <1>1, <2>1, <2>2, <2>3, <3>2 DEF FocusHeld
        <3>. QED BY <3>1, <3>2
    <2>5. /\ {forced', stray'} \subseteq BOOLEAN /\ orphan' \in 0..NumSurveys
          /\ FocusHeld(stage', orphan')
        BY <1>1, <2>3, <2>4, SurveyNumbers DEF FocusHeld
    <2>6. ASSUME ~forced', ~stray' PROVE Alone(stage')
        <3>1. CASE stage' = EmptyStage
            BY <3>1 DEF Alone, EmptyStage
        <3>2. CASE ~forced /\ ~stray
            BY <2>4, <3>2 DEF SurveysIInv
        <3>. QED BY <1>1, <2>3, <2>6, <3>1, <3>2
    <2>7. seenSurveys' \subseteq SurveyIds
        BY <1>1, <2>3
    <2>8. SurveysTypeOK'
        BY <1>1, <1>2, <2>3, <2>4, <2>5, <2>7
        DEF SurveysIInv, SurveysTypeOK, Stages, fixed
    <2>. QED BY <2>5, <2>6, <2>8 DEF SurveysIInv
<1>10. ASSUME NEW s \in SurveyIds, Dismiss(s) PROVE SurveysIInv'
    <2>1. /\ stage' \in Stages /\ removals' \in [SurveyIds -> Nat]
          /\ FocusHeld(stage', orphan) /\ (Alone(stage) => Alone(stage'))
        <3>1. Alone(stage) => stage.focus \in {0, s}
            BY <1>10 DEF Dismiss, Alone
        <3>. QED BY <1>1, <1>3, <1>10, <3>1, PopupHidden DEF Dismiss
    <2>2. /\ seenSurveys' = seenSurveys \cup {s} /\ SurveyAct /\ History(FALSE, FALSE)
          /\ UNCHANGED <<fixed, fades, targeted, matching>>
        BY <1>10 DEF Dismiss
    <2>. QED BY <1>1, <1>2, <2>1, <2>2, StageStep
<1>11. ASSUME NEW s \in SurveyIds, Answer(s) PROVE SurveysIInv'
    <2>1. /\ stage' \in Stages
          /\ fades' \in [SurveyIds -> Nat] /\ removals' \in [SurveyIds -> Nat]
          /\ FocusHeld(stage', orphan) /\ (Alone(stage) => Alone(stage'))
        <3>1. CASE survey[s].thanks
            <4>1. /\ stage' = [stage EXCEPT !.popup[s] = "thanking"] /\ stage.popup[s] = "asking"
                  /\ fades' = [fades EXCEPT ![s] = @ + 1] /\ UNCHANGED removals
                BY <1>11, <3>1 DEF Answer
            <4>2. /\ stage' \in Stages /\ stage'.focus = stage.focus
                  /\ stage'.pending = stage.pending
                  /\ \A t \in SurveyIds : stage'.popup[t] = "none" <=> stage.popup[t] = "none"
                BY <1>1, <1>3, <4>1 DEF Stages
            <4>3. stage.focus # 0 => stage.focus \in SurveyIds
                BY <1>1, SurveyAssumption DEF Stages, SurveyIds
            <4>4. FocusHeld(stage', orphan)
                BY <1>1, <4>2, <4>3 DEF FocusHeld
            <4>5. Alone(stage) => Alone(stage')
                BY <4>2 DEF Alone
            <4>. QED BY <1>1, <4>1, <4>2, <4>4, <4>5
        <3>2. CASE ~survey[s].thanks
            <4>1. Hide(stage, s, "asking") /\ UNCHANGED fades
                BY <1>11, <3>2 DEF Answer
            <4>2. Alone(stage) => stage.focus \in {0, s}
                BY <1>11 DEF Answer, Alone
            <4>. QED BY <1>1, <1>3, <4>1, <4>2, PopupHidden
        <3>. QED BY <3>1, <3>2
    <2>2. /\ seenSurveys' = seenSurveys \cup {s} /\ SurveyAct /\ History(FALSE, FALSE)
          /\ UNCHANGED <<fixed, targeted, matching>>
        BY <1>11 DEF Answer
    <2>. QED BY <1>1, <1>2, <2>1, <2>2, StageStep
<1>12. ASSUME NEW s \in SurveyIds, CloseThanks(s) PROVE SurveysIInv'
    <2>1. /\ stage' \in Stages /\ removals' \in [SurveyIds -> Nat]
          /\ FocusHeld(stage', orphan) /\ (Alone(stage) => Alone(stage'))
        <3>1. Alone(stage) => stage.focus \in {0, s}
            BY <1>12 DEF CloseThanks, Alone
        <3>. QED BY <1>1, <1>3, <1>12, <3>1, PopupHidden DEF CloseThanks
    <2>. QED BY <1>1, <1>12, <2>1, StageStep DEF CloseThanks, audience
<1>13. ASSUME NEW s \in SurveyIds, FadeFires(s) PROVE SurveysIInv'
    <2>1. /\ Hide(stage, s, "thanking") /\ fades[s] > 0 /\ fades' = [fades EXCEPT ![s] = @ - 1]
          /\ History(FALSE, ~transitions /\ TakesFocus(s))
          /\ UNCHANGED <<fixed, audience, surveyActs>>
        BY <1>13 DEF FadeFires
    <2>2. /\ stage' \in Stages /\ removals' \in [SurveyIds -> Nat]
          /\ FocusHeld(stage', orphan)
          /\ Alone(stage) /\ ~(~transitions /\ TakesFocus(s)) => Alone(stage')
        BY <1>1, <1>3, <2>1, PopupHidden DEF TakesFocus
    <2>3. fades' \in [SurveyIds -> Nat]
        BY <1>1, <2>1
    <2>4. (~transitions /\ TakesFocus(s)) \in BOOLEAN
        OBVIOUS
    <2>. QED BY <1>1, <2>1, <2>2, <2>3, <2>4, StageStep DEF audience
<1>14. ASSUME NEW s \in SurveyIds, TransitionEnds(s) PROVE SurveysIInv'
    <2>1. /\ stage' = Removed(stage, s)
          /\ removals[s] > 0 /\ removals' = [removals EXCEPT ![s] = @ - 1]
          /\ History(FALSE, TakesFocus(s))
          /\ UNCHANGED <<fixed, fades, audience, surveyActs>>
        BY <1>14 DEF TransitionEnds
    <2>2. /\ stage' \in Stages /\ FocusHeld(stage', orphan)
          /\ Alone(stage) /\ ~TakesFocus(s) => Alone(stage')
        BY <1>1, <2>1, SurveyRemoved DEF TakesFocus
    <2>3. removals' \in [SurveyIds -> Nat]
        BY <1>1, <2>1
    <2>4. TakesFocus(s) \in BOOLEAN
        BY DEF TakesFocus
    <2>. QED BY <1>1, <2>1, <2>2, <2>3, <2>4, StageStep DEF audience
<1>15. ASSUME NEW s \in SurveyIds, Navigate(s) PROVE SurveysIInv'
    <2>. DEFINE takes == s \in matching /\ Mounted(s) /\ TakesFocus(s)
    <2>1. /\ SurveyAct /\ matching' \in {matching \ {s}, matching \cup {s}}
          /\ stage' = IF s \in matching /\ Mounted(s) THEN Removed(stage, s) ELSE stage
          /\ History(FALSE, takes)
          /\ UNCHANGED <<fixed, fades, removals, seenSurveys, targeted>>
        BY <1>15 DEF Navigate
    <2>2. /\ stage' \in Stages /\ FocusHeld(stage', orphan)
          /\ Alone(stage) /\ ~takes => Alone(stage')
        BY <1>1, <2>1, SurveyRemoved DEF TakesFocus
    <2>3. takes \in BOOLEAN /\ matching' \subseteq SurveyIds
        BY <1>1, <2>1
    <2>. QED BY <1>1, <1>2, <2>1, <2>2, <2>3, StageStep
<1>16. ASSUME NEW s \in SurveyIds, TargetingChanges(s) PROVE SurveysIInv'
    BY <1>1, <1>2, <1>16 DEF TargetingChanges, SurveysIInv, SurveysTypeOK, fixed
<1>17. CASE UNCHANGED sdVars
    BY <1>17 DEF sdVars, SurveysIInv, SurveysTypeOK, Alone, FocusHeld
<1>. QED
    BY <1>4, <1>5, <1>6, <1>7, <1>8, <1>9, <1>10, <1>11, <1>12, <1>13, <1>14, <1>15, <1>16,
       <1>17
    DEF SurveysNext

--------------------------------------------------------------------------------
(* Theorems *)

\* The variables of the survey manager keep their types in every behaviour.
THEOREM SurveysTypes == SurveysSpec => []SurveysTypeOK
<1>1. SurveysIInv => SurveysTypeOK
    BY DEF SurveysIInv
<1>. QED BY <1>1, SurveysInitIInv, SurveysNextIInv, PTL DEF SurveysSpec

\* Whatever delays, closings, transitions and navigations do, for every number of
\* surveys: the focus is held by a survey that is shown or waits (or that displaySurvey
\* answered while it waited), and, but for displaySurvey's override and timers that outlive
\* their popup, by the only one (surveys.tsx, _addSurveyToFocus, _removeSurveyFromFocus).
THEOREM SurveysTakeTurnsAlways == SurveysSpec => []SurveysTakeTurns
<1>1. SurveysIInv => SurveysTakeTurns
    BY DEF SurveysIInv, SurveysTakeTurns, OneSurveyAtATime, FocusIsHeld, Alone, FocusHeld, Mounted
<1>. QED BY <1>1, SurveysInitIInv, SurveysNextIInv, PTL DEF SurveysSpec

-------------------------------------------------------------------------------
(* Conversations, for any number of posts, requests and acts.                   *)

\* A page as its type says.
Pages == [ticket : TicketIds, cursor : 0..MaxPosts, view : {"messages", "tickets"},
          interval : BOOLEAN, loading : BOOLEAN, listing : BOOLEAN,
          starting : BOOLEAN, rendered : BOOLEAN, gone : BOOLEAN]

\* A request is about posts and tickets that the server had, and messages are
\* those of a ticket.
CallKnown(c) ==
    /\ c.ticket <= Len(owners) /\ (c.kind \in Loads => c.ticket # 0)
    /\ c.after <= Len(posts) /\ c.since <= Len(posts) /\ c.posted <= Len(posts)

PostsKnown ==
    /\ Len(owners) <= Len(posts) /\ Len(posts) <= MaxPosts
    /\ page.ticket <= Len(owners) /\ saved <= Len(owners) /\ page.cursor <= Len(posts)
    /\ \A i \in DOMAIN calls : CallKnown(calls[i])

WidgetKnown ==
    /\ ~widget.up => widget.list = {} /\ widget.shown = {} /\ ~widget.sending
    /\ widget.up => page.rendered
    /\ page.gone => ~intended

CnTypes == ConversationsTypeOK /\ PostsKnown /\ WidgetKnown

\* The facts about constants and numbers that the steps compare with.
LEMMA CnConstants ==
    /\ MaxPosts \in Nat /\ MaxPosts >= 2 /\ MaxCalls \in Nat /\ MaxActs \in Nat
    /\ 0 \in TicketIds /\ 0 \in 0..MaxPosts
<1>1. MaxPosts \in Nat \ {0, 1} /\ MaxCalls \in Nat /\ MaxActs \in Nat
    BY ConversationsAssumption
<1>2. MaxPosts >= 2
    BY <1>1
<1>. QED BY <1>1, <1>2 DEF TicketIds

\* A set of numbers that is not empty has a least.
LEMMA LeastNumber ==
    ASSUME NEW S, S \subseteq Nat, S # {}
    PROVE  \E m \in S : \A k \in S : m <= k
<1>1. PICK m \in S : \A k \in S : <<k, m>> \notin OpToRel(<, Nat)
    BY WFMin, NatLessThanWellFounded, Zenon
<1>2. \A k \in Nat : k \in S => ~(k < m)
    BY <1>1, Zenon DEF OpToRel
<1>3. \A k \in S : m <= k
    BY <1>2
<1>. QED BY <1>3

\* A set of numbers up to some number has a greatest.
LEMMA GreatestExists ==
    ASSUME NEW n \in Nat, NEW S, S \subseteq 1..n, S # {}
    PROVE  \E m \in S : \A j \in S : j <= m
<1>. DEFINE T == {n - j : j \in S}
<1>1. T \subseteq Nat
  <2>1. \A j \in S : n - j \in Nat
      OBVIOUS
  <2>. QED BY <2>1
<1>2. T # {}
    OBVIOUS
<1>. HIDE DEF T
<1>3. PICK x \in T : \A y \in T : x <= y
    BY <1>1, <1>2, LeastNumber, Zenon
<1>. USE DEF T
<1>4. PICK m \in S : x = n - m
    BY <1>3
<1>5. \A j \in S : j <= m
  <2>. TAKE j \in S
  <2>1. n - j \in T /\ j \in Nat /\ m \in Nat
      OBVIOUS
  <2>2. n - m <= n - j
      BY <1>3, <1>4, <2>1
  <2>. QED BY <2>1, <2>2
<1>. QED BY <1>4, <1>5

\* What was posted, as far as it is known.
LEMMA PostsTyped ==
    ASSUME CnTypes
    PROVE  /\ Len(posts) \in Nat /\ Len(owners) \in Nat
           /\ DOMAIN posts = 1..Len(posts) /\ DOMAIN owners = 1..Len(owners)
           /\ Len(posts) \in 0..MaxPosts /\ Len(owners) \in 0..MaxPosts
           /\ \A j \in 1..Len(posts) : /\ posts[j] \in [ticket : 1..Len(owners), agent : BOOLEAN]
                                       /\ posts[j].ticket \in 1..Len(owners)
           /\ \A t \in 1..Len(owners) : owners[t] \in Principals
<1>1. posts \in Seq([ticket : DOMAIN owners, agent : BOOLEAN]) /\ owners \in Seq(Principals)
    BY Zenon DEF CnTypes, ConversationsTypeOK
<1>2. /\ Len(posts) \in Nat /\ Len(owners) \in Nat
      /\ DOMAIN posts = 1..Len(posts) /\ DOMAIN owners = 1..Len(owners)
    BY <1>1, LenProperties
<1>3. Len(owners) <= Len(posts) /\ Len(posts) <= MaxPosts
    BY DEF CnTypes, PostsKnown
<1>4. Len(posts) \in 0..MaxPosts /\ Len(owners) \in 0..MaxPosts
    BY <1>2, <1>3, CnConstants
<1>5. \A j \in 1..Len(posts) : posts[j] \in [ticket : 1..Len(owners), agent : BOOLEAN]
    BY <1>1, <1>2, ElementOfSeq
<1>6. \A j \in 1..Len(posts) : posts[j].ticket \in 1..Len(owners)
    BY <1>5
<1>7. \A t \in 1..Len(owners) : owners[t] \in Principals
    BY <1>1, <1>2, ElementOfSeq
<1>. QED BY <1>2, <1>4, <1>5, <1>6, <1>7

\* The fields of a request.
LEMMA CallFields ==
    ASSUME CnTypes
    PROVE  /\ calls \in Seq(Call) /\ Len(calls) \in Nat /\ Len(calls) <= MaxCalls
           /\ DOMAIN calls = 1..Len(calls)
           /\ \A i \in DOMAIN calls :
                /\ calls[i] \in Call /\ CallKnown(calls[i])
                /\ calls[i].ticket \in 0..Len(owners)
                /\ calls[i].after \in 0..Len(posts)
                /\ calls[i].since \in 0..Len(posts)
                /\ calls[i].posted \in 0..Len(posts)
<1>1. calls \in Seq(Call) /\ Len(calls) <= MaxCalls
    BY DEF CnTypes, ConversationsTypeOK
<1>2. Len(calls) \in Nat /\ DOMAIN calls = 1..Len(calls)
    BY <1>1, LenProperties
<1>3. \A i \in DOMAIN calls : calls[i] \in Call /\ CallKnown(calls[i])
    BY <1>1, <1>2, ElementOfSeq DEF CnTypes, PostsKnown
<1>4. ASSUME NEW i \in DOMAIN calls
      PROVE  /\ calls[i].ticket \in 0..Len(owners)
             /\ calls[i].after \in 0..Len(posts)
             /\ calls[i].since \in 0..Len(posts)
             /\ calls[i].posted \in 0..Len(posts)
  <2>1. /\ calls[i].ticket \in Nat /\ calls[i].after \in Nat
        /\ calls[i].since \in Nat /\ calls[i].posted \in Nat
      BY <1>3, CnConstants DEF Call, TicketIds
  <2>. QED BY <1>3, <2>1, PostsTyped DEF CallKnown
<1>. QED BY <1>1, <1>2, <1>3, <1>4

Widgets == [up : BOOLEAN, list : SUBSET DOMAIN owners, shown : SUBSET DOMAIN posts,
            sending : BOOLEAN]

\* The variables one by one.
LEMMA CnFields ==
    ASSUME CnTypes
    PROVE  /\ page \in Pages /\ widget \in Widgets /\ principal \in Principals
           /\ saved \in TicketIds /\ soon \in Nat /\ acts \in 0..MaxActs
           /\ intended \in BOOLEAN /\ crossed \in BOOLEAN
           /\ undone \in BOOLEAN /\ unheard \in BOOLEAN
           /\ missed \subseteq DOMAIN posts
           /\ page.ticket \in 0..Len(owners) /\ page.cursor \in 0..Len(posts)
           /\ saved \in 0..Len(owners)
<1>1. /\ page \in Pages /\ widget \in Widgets /\ principal \in Principals
      /\ saved \in TicketIds /\ soon \in Nat /\ acts \in 0..MaxActs
      /\ missed \subseteq DOMAIN posts
    BY Zenon DEF CnTypes, ConversationsTypeOK, Pages, Widgets
<1>2. {intended, crossed, undone, unheard} \subseteq BOOLEAN
    BY Zenon DEF CnTypes, ConversationsTypeOK
<1>3. /\ intended \in BOOLEAN /\ crossed \in BOOLEAN
      /\ undone \in BOOLEAN /\ unheard \in BOOLEAN
    BY <1>2
<1>4. page.ticket \in TicketIds /\ page.cursor \in 0..MaxPosts
    BY <1>1 DEF Pages
<1>5. page.ticket <= Len(owners) /\ saved <= Len(owners) /\ page.cursor <= Len(posts)
    BY DEF CnTypes, PostsKnown
<1>6. page.ticket \in Nat /\ page.cursor \in Nat /\ saved \in Nat
    BY <1>1, <1>4, CnConstants DEF TicketIds
<1>. QED BY <1>1, <1>3, <1>5, <1>6, PostsTyped

\* Of the requests that are awaited, all but one (0: all) in some order.
Others(others, gone) ==
    /\ others \in Seq(Call) /\ Len(others) \in Nat /\ Len(others) <= Len(calls)
    /\ \E from \in [1..Len(others) -> 1..Len(calls)] :
          /\ \A k \in 1..Len(others) : /\ from[k] # gone /\ others[k] = calls[from[k]]
                                       /\ \A l \in 1..Len(others) : from[k] = from[l] => k = l
          /\ \A j \in 1..Len(calls) : j # gone => \E k \in 1..Len(others) : from[k] = j

\* A step takes one request off the list (0: none) and adds one of news, if that.
Follows(gone, news) ==
    /\ calls' \in Seq(Call) /\ Len(calls') \in Nat /\ Len(calls') <= MaxCalls
    /\ DOMAIN calls' = 1..Len(calls') /\ unheard' \in BOOLEAN
    /\ \E from \in [DOMAIN calls' -> 0..Len(calls)] :
          \A k \in DOMAIN calls' :
             /\ from[k] = 0 => calls'[k] \in news
             /\ from[k] # 0 => from[k] # gone /\ calls'[k] = calls[from[k]]
             /\ \A l \in DOMAIN calls' : from[k] = from[l] => k = l
    /\ \A j \in DOMAIN calls : j # gone => \E k \in DOMAIN calls' : calls'[k] = calls[j]
    /\ ~unheard' => ~unheard /\ \A c \in news : \E k \in DOMAIN calls' : calls'[k] = c

\* The other requests, once one is answered.
LEMMA OthersOf ==
    ASSUME CnTypes, NEW i \in DOMAIN calls
    PROVE  /\ RemoveAt(calls, i) \in Seq(Call)
           /\ Len(RemoveAt(calls, i)) = Len(calls) - 1
           /\ \A k \in 1..(Len(calls) - 1) :
                 RemoveAt(calls, i)[k] = calls[IF k < i THEN k ELSE k + 1]
<1>1. calls \in Seq(Call) /\ i \in 1..Len(calls) /\ Len(calls) \in Nat
    BY CallFields
<1>2. \A k \in 1..Len(calls) : calls[k] \in Call
    BY <1>1, ElementOfSeq
<1>. DEFINE before == SubSeq(calls, 1, i - 1)
            behind == SubSeq(calls, i + 1, Len(calls))
<1>3. /\ before \in Seq(Call) /\ Len(before) = i - 1
      /\ \A k \in 1..(i - 1) : before[k] = calls[k]
  <2>1. \A k \in 1..(i - 1) : calls[k] \in Call
      BY <1>1, <1>2
  <2>. QED BY <1>1, <2>1, SubSeqProperties
<1>4. /\ behind \in Seq(Call) /\ Len(behind) = Len(calls) - i
      /\ \A k \in 1..(Len(calls) - i) : behind[k] = calls[i + k]
  <2>1. \A k \in (i + 1)..Len(calls) : calls[k] \in Call
      BY <1>1, <1>2
  <2>. QED BY <1>1, <2>1, SubSeqProperties
<1>5. RemoveAt(calls, i) = before \o behind
    BY DEF RemoveAt
<1>. HIDE DEF before, behind
<1>6. /\ before \o behind \in Seq(Call)
      /\ Len(before \o behind) = Len(before) + Len(behind)
      /\ \A k \in 1..(Len(before) + Len(behind)) :
            (before \o behind)[k] = IF k <= Len(before) THEN before[k]
                                    ELSE behind[k - Len(before)]
    BY <1>3, <1>4, ConcatProperties
<1>7. Len(before \o behind) = Len(calls) - 1
    BY <1>1, <1>3, <1>4, <1>6
<1>8. ASSUME NEW k \in 1..(Len(calls) - 1)
      PROVE  (before \o behind)[k] = calls[IF k < i THEN k ELSE k + 1]
  <2>1. CASE k < i
    <3>1. k \in 1..(i - 1) /\ k \in 1..(Len(before) + Len(behind)) /\ k <= Len(before)
        BY <1>1, <1>3, <1>4, <2>1
    <3>2. (before \o behind)[k] = before[k]
        BY <1>6, <3>1
    <3>. QED BY <1>3, <2>1, <3>1, <3>2
  <2>2. CASE ~(k < i)
    <3>1. (before \o behind)[k] = behind[k - (i - 1)]
      <4>1. k \in 1..(Len(before) + Len(behind)) /\ ~(k <= Len(before))
          BY <1>1, <1>3, <1>4, <2>2
      <4>2. (before \o behind)[k] = behind[k - Len(before)]
          BY <1>6, <4>1
      <4>. QED BY <1>3, <4>2
    <3>2. k - (i - 1) \in 1..(Len(calls) - i) /\ i + (k - (i - 1)) = k + 1
        BY <1>1, <2>2
    <3>3. behind[k - (i - 1)] = calls[k + 1]
        BY <1>4, <3>2
    <3>. QED BY <2>2, <3>1, <3>3
  <2>. QED BY <2>1, <2>2
<1>. QED BY <1>5, <1>6, <1>7, <1>8

\* A request is answered.
LEMMA OthersWithout ==
    ASSUME CnTypes, NEW i \in DOMAIN calls
    PROVE  Others(RemoveAt(calls, i), i)
<1>. DEFINE others == RemoveAt(calls, i)
<1>1. i \in 1..Len(calls) /\ Len(calls) \in Nat
    BY CallFields
<1>2. /\ others \in Seq(Call) /\ Len(others) = Len(calls) - 1
      /\ \A k \in 1..(Len(calls) - 1) : others[k] = calls[IF k < i THEN k ELSE k + 1]
    BY OthersOf
<1>. HIDE DEF others
<1>3. Len(others) \in Nat /\ Len(others) <= Len(calls)
    BY <1>1, <1>2
<1>. DEFINE from == [k \in 1..Len(others) |-> IF k < i THEN k ELSE k + 1]
<1>4. from \in [1..Len(others) -> 1..Len(calls)]
    BY <1>1, <1>2
<1>5. \A k \in 1..Len(others) : from[k] # i /\ others[k] = calls[from[k]]
    BY <1>1, <1>2
<1>6. \A k, l \in 1..Len(others) : from[k] = from[l] => k = l
    BY <1>1, <1>2
<1>7. ASSUME NEW j \in 1..Len(calls), j # i
      PROVE  \E k \in 1..Len(others) : from[k] = j
  <2>1. CASE j < i
    <3>1. j \in 1..Len(others) /\ from[j] = j
        BY <1>1, <1>2, <2>1
    <3>. QED BY <3>1
  <2>2. CASE j > i
    <3>1. j - 1 \in 1..Len(others) /\ from[j - 1] = j
        BY <1>1, <1>2, <2>2
    <3>. QED BY <3>1
  <2>. QED BY <1>1, <1>7, <2>1, <2>2
<1>. HIDE DEF from
<1>8. Others(others, i)
    BY <1>2, <1>3, <1>4, <1>5, <1>6, <1>7 DEF Others
<1>. QED BY <1>8 DEF others

\* Nothing is answered.
LEMMA OthersAll ==
    ASSUME CnTypes
    PROVE  Others(calls, 0)
<1>1. calls \in Seq(Call) /\ Len(calls) \in Nat
    BY CallFields
<1>. DEFINE from == [k \in 1..Len(calls) |-> k]
<1>2. /\ from \in [1..Len(calls) -> 1..Len(calls)]
      /\ \A k \in 1..Len(calls) : from[k] = k /\ from[k] # 0
    BY <1>1
<1>. HIDE DEF from
<1>. QED BY <1>1, <1>2 DEF Others

\* Nothing is asked.
LEMMA OthersFollow ==
    ASSUME CnTypes, NEW gone, NEW others, Others(others, gone),
           calls' = others, unheard' = unheard
    PROVE  Follows(gone, {})
<1>1. /\ Len(calls) \in Nat /\ Len(calls) <= MaxCalls /\ DOMAIN calls = 1..Len(calls)
    BY CallFields
<1>2. others \in Seq(Call) /\ Len(others) \in Nat /\ Len(others) <= MaxCalls
    BY <1>1, CnConstants DEF Others
<1>3. DOMAIN others = 1..Len(others)
    BY <1>2, LenProperties
<1>4. PICK from \in [1..Len(others) -> 1..Len(calls)] :
          /\ \A k \in 1..Len(others) : /\ from[k] # gone /\ others[k] = calls[from[k]]
                                       /\ \A l \in 1..Len(others) : from[k] = from[l] => k = l
          /\ \A j \in 1..Len(calls) : j # gone => \E k \in 1..Len(others) : from[k] = j
    BY DEF Others
<1>5. from \in [DOMAIN calls' -> 0..Len(calls)] /\ \A k \in DOMAIN calls' : from[k] # 0
    BY <1>1, <1>3
<1>6. \E f \in [DOMAIN calls' -> 0..Len(calls)] :
          \A k \in DOMAIN calls' :
             /\ f[k] = 0 => calls'[k] \in {}
             /\ f[k] # 0 => f[k] # gone /\ calls'[k] = calls[f[k]]
             /\ \A l \in DOMAIN calls' : f[k] = f[l] => k = l
    BY <1>3, <1>4, <1>5
<1>7. \A j \in DOMAIN calls : j # gone => \E k \in DOMAIN calls' : calls'[k] = calls[j]
    BY <1>1, <1>3, <1>4
<1>8. unheard' \in BOOLEAN
    BY CnFields
<1>. QED BY <1>2, <1>3, <1>6, <1>7, <1>8 DEF Follows

\* A request is made, or dropped by the limiter.
LEMMA RequestFollows ==
    ASSUME CnTypes, NEW gone, NEW others, Others(others, gone),
           NEW call \in Call, Request(others, call)
    PROVE  Follows(gone, {call})
<1>1. /\ Len(calls) \in Nat /\ Len(calls) <= MaxCalls /\ DOMAIN calls = 1..Len(calls)
    BY CallFields
<1>2. others \in Seq(Call) /\ Len(others) \in Nat /\ Len(others) <= MaxCalls
    BY <1>1, CnConstants DEF Others
<1>3. DOMAIN others = 1..Len(others)
    BY <1>2, LenProperties
<1>4. PICK old \in [1..Len(others) -> 1..Len(calls)] :
          /\ \A k \in 1..Len(others) : /\ old[k] # gone /\ others[k] = calls[old[k]]
                                       /\ \A l \in 1..Len(others) : old[k] = old[l] => k = l
          /\ \A j \in 1..Len(calls) : j # gone => \E k \in 1..Len(others) : old[k] = j
    BY DEF Others
<1>5. CASE calls' = Append(others, call) /\ unheard' = unheard
  <2>. DEFINE n == Len(others)
  <2>1. /\ calls' \in Seq(Call) /\ Len(calls') = n + 1
        /\ \A k \in 1..n : calls'[k] = others[k]
        /\ calls'[n + 1] = call
      BY <1>2, <1>5, AppendProperties
  <2>2. Len(calls') \in Nat /\ Len(calls') <= MaxCalls /\ DOMAIN calls' = 1..(n + 1)
    <3>1. n < MaxCalls
        BY DEF Request
    <3>2. DOMAIN calls' = 1..Len(calls')
        BY <2>1, LenProperties
    <3>. QED BY <1>2, <2>1, <3>1, <3>2, CnConstants
  <2>. DEFINE from == [k \in 1..(n + 1) |-> IF k <= n THEN old[k] ELSE 0]
  <2>3. from \in [DOMAIN calls' -> 0..Len(calls)]
      BY <1>1, <1>2, <1>4, <2>2
  <2>4. ASSUME NEW k \in DOMAIN calls'
        PROVE  \/ k \in 1..n /\ from[k] = old[k] /\ from[k] # 0
               \/ k = n + 1 /\ from[k] = 0
      BY <1>1, <1>2, <1>4, <2>2
  <2>5. DOMAIN calls' = 1..Len(calls') /\ n + 1 \in DOMAIN calls' /\ 1..n \subseteq DOMAIN calls'
      BY <1>2, <2>1, <2>2
  <2>. HIDE DEF from, n
  <2>6. ASSUME NEW k \in DOMAIN calls'
        PROVE  /\ from[k] = 0 => calls'[k] \in {call}
               /\ from[k] # 0 => from[k] # gone /\ calls'[k] = calls[from[k]]
      BY <1>4, <2>1, <2>4 DEF n
  <2>7. ASSUME NEW k \in DOMAIN calls', NEW l \in DOMAIN calls', from[k] = from[l]
        PROVE  k = l
      BY <1>4, <2>4, <2>7 DEF n
  <2>8. \E f \in [DOMAIN calls' -> 0..Len(calls)] :
          \A k \in DOMAIN calls' :
             /\ f[k] = 0 => calls'[k] \in {call}
             /\ f[k] # 0 => f[k] # gone /\ calls'[k] = calls[f[k]]
             /\ \A l \in DOMAIN calls' : f[k] = f[l] => k = l
      BY <2>3, <2>6, <2>7
  <2>9. \A j \in DOMAIN calls : j # gone => \E k \in DOMAIN calls' : calls'[k] = calls[j]
      BY <1>1, <1>4, <2>1, <2>5, SMTT(30) DEF n
  <2>10. \A c \in {call} : \E k \in DOMAIN calls' : calls'[k] = c
      BY <2>1, <2>5
  <2>11. unheard' \in BOOLEAN
      BY <1>5, CnFields
  <2>. QED BY <1>5, <2>1, <2>2, <2>5, <2>8, <2>9, <2>10, <2>11 DEF Follows
<1>6. CASE calls' = others /\ unheard' = TRUE
  <2>1. old \in [DOMAIN calls' -> 0..Len(calls)] /\ \A k \in DOMAIN calls' : old[k] # 0
      BY <1>1, <1>3, <1>4, <1>6
  <2>2. \E f \in [DOMAIN calls' -> 0..Len(calls)] :
          \A k \in DOMAIN calls' :
             /\ f[k] = 0 => calls'[k] \in {call}
             /\ f[k] # 0 => f[k] # gone /\ calls'[k] = calls[f[k]]
             /\ \A l \in DOMAIN calls' : f[k] = f[l] => k = l
      BY <1>3, <1>4, <1>6, <2>1
  <2>3. \A j \in DOMAIN calls : j # gone => \E k \in DOMAIN calls' : calls'[k] = calls[j]
      BY <1>1, <1>3, <1>4, <1>6
  <2>. QED BY <1>2, <1>3, <1>6, <2>2, <2>3 DEF Follows
<1>. QED BY <1>5, <1>6 DEF Request

\* What is asked for now.
LEMMA NewCallTyped ==
    ASSUME CnTypes, NEW kind \in Loads \cup Lists \cup {"send"},
           NEW ticket \in 0..Len(owners), NEW after \in 0..Len(posts),
           kind \in Loads => ticket # 0
    PROVE  /\ NewCallOf(kind, ticket, after) \in Call
           /\ CallKnown(NewCallOf(kind, ticket, after))
<1>1. ticket \in TicketIds /\ after \in 0..MaxPosts /\ Len(posts) \in 0..MaxPosts
    BY PostsTyped, CnConstants DEF TicketIds
<1>2. 0 \in 0..MaxPosts /\ principal \in Principals
    BY CnConstants, CnFields
<1>3. NewCallOf(kind, ticket, after) \in Call
    BY <1>1, <1>2 DEF NewCallOf, Call
<1>4. 0 <= Len(posts) /\ Len(posts) <= Len(posts)
    BY PostsTyped
<1>5. ticket <= Len(owners) /\ after <= Len(posts)
    BY PostsTyped
<1>6. CallKnown(NewCallOf(kind, ticket, after))
    BY <1>4, <1>5 DEF NewCallOf, CallKnown
<1>. QED BY <1>3, <1>6

\* Another principal asks which conversation is theirs.
LEMMA ReconcileTyped ==
    ASSUME CnTypes, NEW who \in Principals
    PROVE  /\ [NewCallOf("reconcile", 0, 0) EXCEPT !.who = who] \in Call
           /\ CallKnown([NewCallOf("reconcile", 0, 0) EXCEPT !.who = who])
<1>1. 0 \in 0..Len(owners) /\ 0 \in 0..Len(posts)
    BY PostsTyped
<1>2. "reconcile" \in Loads \cup Lists \cup {"send"}
    BY DEF Lists
<1>3. NewCallOf("reconcile", 0, 0) \in Call /\ CallKnown(NewCallOf("reconcile", 0, 0))
    BY <1>1, <1>2, NewCallTyped DEF Loads
<1>. QED BY <1>3 DEF Call, CallKnown

\* The types hold after a step that leaves the server's log alone.
LEMMA TypesHold ==
    ASSUME CnTypes, UNCHANGED server, calls' \in Seq(Call), Len(calls') <= MaxCalls,
           \A k \in DOMAIN calls' : CallKnown(calls'[k]),
           page' \in Pages, page'.ticket \in 0..Len(owners), page'.cursor \in 0..Len(posts),
           widget' \in Widgets, principal' \in Principals, saved' \in 0..Len(owners),
           soon' \in Nat, acts' \in 0..MaxActs, missed' \subseteq DOMAIN posts,
           intended' \in BOOLEAN, crossed' \in BOOLEAN, undone' \in BOOLEAN,
           unheard' \in BOOLEAN, WidgetKnown'
    PROVE  CnTypes'
<1>1. posts' = posts /\ owners' = owners
    BY DEF server
<1>2. owners \in Seq(Principals) /\ posts \in Seq([ticket : DOMAIN owners, agent : BOOLEAN])
    BY Zenon DEF CnTypes, ConversationsTypeOK
<1>3. saved' \in TicketIds
    BY PostsTyped, CnConstants DEF TicketIds
<1>4. {intended', crossed', undone', unheard'} \subseteq BOOLEAN
    BY Zenon
<1>5. ConversationsTypeOK'
    BY <1>1, <1>2, <1>3, <1>4 DEF ConversationsTypeOK, Pages, Widgets
<1>6. \A k \in DOMAIN calls' : CallKnown(calls[k])'
    BY <1>1 DEF CallKnown
<1>7. /\ Len(owners) <= Len(posts) /\ Len(posts) <= MaxPosts
      /\ page'.ticket <= Len(owners) /\ saved' <= Len(owners) /\ page'.cursor <= Len(posts)
    BY PostsTyped DEF CnTypes, PostsKnown
<1>8. PostsKnown'
    BY <1>1, <1>6, <1>7 DEF PostsKnown
<1>. QED BY <1>5, <1>8 DEF CnTypes

\* A step whose requests follow from those before keeps the types.
LEMMA TypesKept ==
    ASSUME CnTypes, UNCHANGED server, NEW gone, NEW news, Follows(gone, news),
           \A c \in news : CallKnown(c),
           page' \in Pages, page'.ticket \in 0..Len(owners), page'.cursor \in 0..Len(posts),
           widget' \in Widgets, principal' \in Principals, saved' \in 0..Len(owners),
           soon' \in Nat, acts' \in 0..MaxActs, missed' \subseteq DOMAIN posts,
           intended' \in BOOLEAN, crossed' \in BOOLEAN, undone' \in BOOLEAN,
           WidgetKnown'
    PROVE  CnTypes'
<1>1. calls' \in Seq(Call) /\ Len(calls') <= MaxCalls /\ unheard' \in BOOLEAN
    BY DEF Follows
<1>2. ASSUME NEW k \in DOMAIN calls' PROVE CallKnown(calls'[k])
  <2>1. \/ calls'[k] \in news
        \/ \E j \in 1..Len(calls) : calls'[k] = calls[j]
      BY CallFields DEF Follows
  <2>. QED BY <2>1, CallFields
<1>. QED BY <1>1, <1>2, TypesHold

--------------------------------------------------------------------------------
(* What makes ConversationIsWhole inductive: which requests may be awaited.     *)

\* Requests that may open a conversation, those that send, and those that fetch
\* messages which will be shown.
Opening(c) == c.kind \in {"init", "reconcile"} /\ c.who = principal
Sending(c) == c.kind = "send"
Loading(c) == c.kind \in Loads /\ c.who = principal

\* Before the widget is rendered, and after it is hidden, at most its start is awaited.
HiddenRests ==
    ~widget.up =>
        /\ soon = 0 /\ ~page.interval /\ page.cursor = 0
        /\ calls # <<>> => page.starting
        /\ \A i, k \in DOMAIN calls : calls[i].kind = "init" /\ i = k

\* What the page will show is chosen once, and until then it shows nothing.
OpensOnce ==
    \A i \in DOMAIN calls : Opening(calls[i]) =>
        /\ page.cursor = 0 /\ widget.shown = {} /\ (widget.up => page.ticket = 0)
        /\ \A k \in DOMAIN calls :
             /\ Opening(calls[k]) => k = i
             /\ Loading(calls[k]) => calls[k].after = 0

\* One message is sent at a time; the first one of a conversation finds nothing
\* shown, and nothing is being fetched of what it starts.
SendsOnce ==
    \A i \in DOMAIN calls : Sending(calls[i]) =>
        /\ calls[i].mine /\ widget.sending
        /\ \A k \in DOMAIN calls : (Sending(calls[k]) => k = i) /\ ~Opening(calls[k])
        /\ calls[i].ticket = 0 =>
             /\ page.ticket = 0
             /\ calls[i].posted # 0 =>
                  \A k \in DOMAIN calls :
                     Loading(calls[k]) => calls[k].ticket # posts[calls[i].posted].ticket

\* What agents posted in the ticket up to a cursor is shown, or was missed.
ShownTo(ticket, cursor) == Agents(PostedIn(ticket, 0, cursor)) \subseteq widget.shown \cup missed

\* A request for what is newer has all before it shown.
LoadsContinue ==
    \A i \in DOMAIN calls :
        Loading(calls[i]) /\ calls[i].ticket = page.ticket => ShownTo(page.ticket, calls[i].after)

Whole == NothingIsMissed /\ HiddenRests /\ OpensOnce /\ SendsOnce /\ LoadsContinue
WholeInv == ~crossed => Whole

\* A hidden page awaits nothing that renders it, a destroyed one nothing that saves.
HiddenInv ==
    ~undone =>
        /\ StaysHidden
        /\ ~intended => ~Awaited({"init"})
        /\ page.gone => ~Awaited({"send", "init", "reconcile"})

HeardInv == ~unheard => FlagsFall

CnInv == CnTypes /\ WholeInv /\ HiddenInv /\ HeardInv

\* Where a request of the next state comes from.
LEMMA CallsOrigin ==
    ASSUME CnTypes, NEW gone, NEW news, Follows(gone, news), NEW k \in DOMAIN calls'
    PROVE  \/ calls'[k] \in news
           \/ \E j \in DOMAIN calls : j # gone /\ calls'[k] = calls[j]
BY CallFields DEF Follows

\* A step that opens nothing keeps OpensOnce: what loads beside an opening starts at 0.
LEMMA OpensKept ==
    ASSUME CnTypes, OpensOnce, NEW gone, NEW news, Follows(gone, news),
           principal' = principal, \A c \in news : ~Opening(c),
           \A j \in DOMAIN calls : j # gone /\ Opening(calls[j]) =>
              /\ page'.cursor = 0 /\ widget'.shown = {} /\ (widget'.up => page'.ticket = 0)
              /\ \A c \in news : Loading(c) => c.after = 0
    PROVE  OpensOnce'
<1>1. PICK from \in [DOMAIN calls' -> 0..Len(calls)] :
          \A k \in DOMAIN calls' :
             /\ from[k] = 0 => calls'[k] \in news
             /\ from[k] # 0 => from[k] # gone /\ calls'[k] = calls[from[k]]
             /\ \A l \in DOMAIN calls' : from[k] = from[l] => k = l
    BY DEF Follows
<1>2. \A k \in DOMAIN calls' : from[k] # 0 => from[k] \in DOMAIN calls
    BY CallFields
<1>3. SUFFICES ASSUME NEW i \in DOMAIN calls', Opening(calls'[i]),
                      NEW k \in DOMAIN calls'
               PROVE  /\ page'.cursor = 0 /\ widget'.shown = {}
                      /\ (widget'.up => page'.ticket = 0)
                      /\ Opening(calls'[k]) => k = i
                      /\ Loading(calls'[k]) => calls'[k].after = 0
    BY DEF OpensOnce, Opening, Loading
<1>4. from[i] # 0 /\ from[i] # gone /\ from[i] \in DOMAIN calls /\ Opening(calls[from[i]])
    BY <1>1, <1>2, <1>3
<1>5. /\ page'.cursor = 0 /\ widget'.shown = {} /\ (widget'.up => page'.ticket = 0)
      /\ \A c \in news : Loading(c) => c.after = 0
    BY <1>4
<1>6. Opening(calls'[k]) => k = i
  <2>1. SUFFICES ASSUME Opening(calls'[k]) PROVE k = i
      OBVIOUS
  <2>2. from[k] # 0 /\ from[k] \in DOMAIN calls /\ Opening(calls[from[k]])
      BY <1>1, <1>2, <2>1
  <2>3. from[k] = from[i]
      BY <1>4, <2>2 DEF OpensOnce
  <2>. QED BY <1>1, <2>3
<1>7. Loading(calls'[k]) => calls'[k].after = 0
  <2>1. CASE from[k] = 0
      BY <1>1, <1>5, <2>1
  <2>2. CASE from[k] # 0
      BY <1>1, <1>2, <1>4, <2>2 DEF OpensOnce
  <2>. QED BY <2>1, <2>2
<1>. QED BY <1>5, <1>6, <1>7

\* A step that sends nothing keeps SendsOnce while its request keeps the ticket.
LEMMA SendsKept ==
    ASSUME CnTypes, SendsOnce, NEW gone, NEW news, Follows(gone, news),
           principal' = principal, posts' = posts, \A c \in news : ~Sending(c),
           \A j \in DOMAIN calls : j # gone /\ Sending(calls[j]) =>
              /\ widget'.sending /\ page'.ticket = page.ticket
              /\ \A c \in news :
                    ~Opening(c) /\ (Loading(c) => c.ticket = page.ticket /\ c.ticket # 0)
    PROVE  SendsOnce'
<1>1. PICK from \in [DOMAIN calls' -> 0..Len(calls)] :
          \A k \in DOMAIN calls' :
             /\ from[k] = 0 => calls'[k] \in news
             /\ from[k] # 0 => from[k] # gone /\ calls'[k] = calls[from[k]]
             /\ \A l \in DOMAIN calls' : from[k] = from[l] => k = l
    BY DEF Follows
<1>2. \A k \in DOMAIN calls' : from[k] # 0 => from[k] \in DOMAIN calls
    BY CallFields
<1>3. SUFFICES ASSUME NEW i \in DOMAIN calls', Sending(calls'[i])
               PROVE  /\ calls'[i].mine /\ widget'.sending
                      /\ \A k \in DOMAIN calls' :
                            (Sending(calls'[k]) => k = i) /\ ~Opening(calls'[k])
                      /\ calls'[i].ticket = 0 =>
                           /\ page'.ticket = 0
                           /\ calls'[i].posted # 0 =>
                                \A k \in DOMAIN calls' : Loading(calls'[k]) =>
                                   calls'[k].ticket # posts[calls'[i].posted].ticket
    BY DEF SendsOnce, Opening, Loading, Sending
<1>4. /\ from[i] # 0 /\ from[i] # gone /\ from[i] \in DOMAIN calls
      /\ Sending(calls[from[i]]) /\ calls'[i] = calls[from[i]]
    BY <1>1, <1>2, <1>3
<1>5. /\ widget'.sending /\ page'.ticket = page.ticket
      /\ \A c \in news : ~Opening(c) /\ (Loading(c) => c.ticket = page.ticket /\ c.ticket # 0)
    BY <1>4
<1>6. /\ calls[from[i]].mine
      /\ \A k \in DOMAIN calls : (Sending(calls[k]) => k = from[i]) /\ ~Opening(calls[k])
      /\ calls[from[i]].ticket = 0 =>
           /\ page.ticket = 0
           /\ calls[from[i]].posted # 0 =>
                \A k \in DOMAIN calls : Loading(calls[k]) =>
                   calls[k].ticket # posts[calls[from[i]].posted].ticket
    BY <1>4 DEF SendsOnce
<1>7. ASSUME NEW k \in DOMAIN calls'
      PROVE  (Sending(calls'[k]) => k = i) /\ ~Opening(calls'[k])
  <2>1. CASE from[k] = 0
      BY <1>1, <1>5, <2>1
  <2>2. CASE from[k] # 0
      BY <1>1, <1>2, <1>6, <2>2
  <2>. QED BY <2>1, <2>2
<1>8. ASSUME calls'[i].ticket = 0, calls'[i].posted # 0, NEW k \in DOMAIN calls',
             Loading(calls'[k])
      PROVE  calls'[k].ticket # posts[calls'[i].posted].ticket
  <2>1. CASE from[k] = 0
      BY <1>1, <1>4, <1>5, <1>6, <1>8, <2>1
  <2>2. CASE from[k] # 0
      BY <1>1, <1>2, <1>4, <1>6, <1>8, <2>2
  <2>. QED BY <2>1, <2>2
<1>. QED BY <1>4, <1>5, <1>6, <1>7, <1>8

\* What loads the ticket of the page starts where all is shown or known to be missed.
LEMMA LoadsKept ==
    ASSUME CnTypes, NEW gone, NEW news, Follows(gone, news),
           principal' = principal, posts' = posts,
           \A j \in DOMAIN calls :
              j # gone /\ Loading(calls[j]) /\ calls[j].ticket = page'.ticket =>
                 Agents(PostedIn(page'.ticket, 0, calls[j].after))
                    \subseteq widget'.shown \cup missed',
           \A c \in news : Loading(c) /\ c.ticket = page'.ticket =>
              Agents(PostedIn(page'.ticket, 0, c.after)) \subseteq widget'.shown \cup missed'
    PROVE  LoadsContinue'
<1>1. ASSUME NEW k \in DOMAIN calls', Loading(calls'[k]), calls'[k].ticket = page'.ticket
      PROVE  Agents(PostedIn(page'.ticket, 0, calls'[k].after))
                \subseteq widget'.shown \cup missed'
    BY <1>1, CallsOrigin
<1>. QED BY <1>1 DEF LoadsContinue, Loading, ShownTo, Agents, PostedIn

\* A request that is awaited stays so until it is answered; one that is made, and
\* not dropped, is awaited.
LEMMA StillAwaited ==
    ASSUME CnTypes, NEW gone, NEW news, Follows(gone, news), NEW kinds, Awaited(kinds),
           gone \in DOMAIN calls => calls[gone].kind \notin kinds
    PROVE  Awaited(kinds)'
<1>1. PICK j \in DOMAIN calls : calls[j].kind \in kinds
    BY DEF Awaited
<1>2. j # gone
    BY <1>1
<1>3. PICK k \in DOMAIN calls' : calls'[k] = calls[j]
    BY <1>1, <1>2 DEF Follows
<1>. QED BY <1>1, <1>3 DEF Awaited

\* A request that was just made is awaited, unless it went unheard.
LEMMA NowAwaited ==
    ASSUME NEW gone, NEW news, Follows(gone, news), ~unheard',
           NEW kinds, NEW c \in news, c.kind \in kinds
    PROVE  Awaited(kinds)'
BY DEF Follows, Awaited

\* What nobody awaited and nobody asked for is not awaited.
LEMMA NotAwaited ==
    ASSUME CnTypes, NEW gone, NEW news, Follows(gone, news), NEW kinds, ~Awaited(kinds),
           \A c \in news : c.kind \notin kinds
    PROVE  ~Awaited(kinds)'
<1>1. ASSUME NEW k \in DOMAIN calls', calls'[k].kind \in kinds PROVE FALSE
    BY <1>1, CallsOrigin DEF Awaited
<1>. QED BY <1>1 DEF Awaited

\* A step keeps HiddenInv when it shows nothing, and starts nothing, unasked.
LEMMA HiddenKept ==
    ASSUME CnTypes, HiddenInv, NEW gone, NEW news, Follows(gone, news),
           undone' = undone, intended' = intended, page'.gone = page.gone,
           ~undone /\ ~intended => /\ ~widget'.up /\ ~page'.interval
                                   /\ \A c \in news : c.kind # "init",
           ~undone /\ page.gone => /\ saved' = 0
                                   /\ \A c \in news : c.kind \notin {"send", "init", "reconcile"}
    PROVE  HiddenInv'
<1>1. SUFFICES ASSUME ~undone
               PROVE  /\ ~intended => ~widget'.up /\ ~page'.interval
                      /\ page.gone => saved' = 0
                      /\ ~intended => ~Awaited({"init"})'
                      /\ page.gone => ~Awaited({"send", "init", "reconcile"})'
    BY DEF HiddenInv, StaysHidden
<1>2. ASSUME ~intended PROVE ~Awaited({"init"})'
    BY <1>1, <1>2, NotAwaited DEF HiddenInv
<1>3. ASSUME page.gone PROVE ~Awaited({"send", "init", "reconcile"})'
    BY <1>1, <1>3, NotAwaited DEF HiddenInv
<1>. QED BY <1>1, <1>2, <1>3

\* A step keeps HeardInv when a flag it leaves up has its request or its timer.
LEMMA HeardKept ==
    ASSUME CnTypes, HeardInv, NEW gone, NEW news, Follows(gone, news),
           page'.interval => widget'.up \/ (page.interval /\ (widget.up => widget'.up)),
           page'.loading => \/ \E c \in news : c.kind = "poll"
                            \/ /\ page.loading
                               /\ gone \in DOMAIN calls => calls[gone].kind # "poll",
           page'.listing =>
              \/ \E c \in news : c.kind = "tickets"
              \/ page.listing /\ (gone \in DOMAIN calls => calls[gone].kind # "tickets"),
           page'.starting /\ ~page'.rendered =>
              \/ \E c \in news : c.kind = "init"
              \/ /\ page.starting /\ ~page.rendered
                 /\ gone \in DOMAIN calls => calls[gone].kind # "init"
    PROVE  HeardInv'
<1>1. SUFFICES ASSUME ~unheard' PROVE FlagsFall'
    BY DEF HeardInv
<1>2. FlagsFall
    BY <1>1 DEF HeardInv, Follows
<1>3. page'.interval => widget'.up
    BY <1>2 DEF FlagsFall
<1>4. ASSUME page'.loading PROVE Awaited({"poll"})'
  <2>1. CASE \E c \in news : c.kind = "poll"
      BY <1>1, <2>1, NowAwaited
  <2>2. CASE page.loading /\ (gone \in DOMAIN calls => calls[gone].kind # "poll")
      BY <1>2, <2>2, StillAwaited DEF FlagsFall
  <2>. QED BY <1>4, <2>1, <2>2
<1>5. ASSUME page'.listing PROVE Awaited({"tickets"})'
  <2>1. CASE \E c \in news : c.kind = "tickets"
      BY <1>1, <2>1, NowAwaited
  <2>2. CASE page.listing /\ (gone \in DOMAIN calls => calls[gone].kind # "tickets")
      BY <1>2, <2>2, StillAwaited DEF FlagsFall
  <2>. QED BY <1>5, <2>1, <2>2
<1>6. ASSUME page'.starting /\ ~page'.rendered PROVE Awaited({"init"})'
  <2>1. CASE \E c \in news : c.kind = "init"
      BY <1>1, <2>1, NowAwaited
  <2>2. CASE /\ page.starting /\ ~page.rendered
             /\ gone \in DOMAIN calls => calls[gone].kind # "init"
      BY <1>2, <2>2, StillAwaited DEF FlagsFall
  <2>. QED BY <1>6, <2>1, <2>2
<1>. QED BY <1>3, <1>4, <1>5, <1>6 DEF FlagsFall

--------------------------------------------------------------------------------
(* What is polled for.                                                          *)

\* The page p, polled: what is asked, and the flags that say so.
Polled(p, gone) ==
    \E news \in SUBSET Call :
       /\ Follows(gone, news)
       /\ page' \in Pages
       /\ page'.ticket = p.ticket /\ page'.cursor = p.cursor /\ page'.view = p.view
       /\ page'.interval = p.interval /\ page'.starting = p.starting
       /\ page'.rendered = p.rendered /\ page'.gone = p.gone
       /\ page'.loading => p.loading \/ \E c \in news : c.kind = "poll"
       /\ page'.listing => p.listing \/ \E c \in news : c.kind = "tickets"
       /\ \A c \in news :
             /\ CallKnown(c) /\ c.kind \in Polls
             /\ c.kind = "poll" => c.ticket = p.ticket /\ c.ticket # 0 /\ c.after = p.cursor

\* A poll of messages adds one load of the ticket, from the cursor.
LEMMA MessagesPolled ==
    ASSUME CnTypes, NEW gone, NEW others, Others(others, gone), NEW p \in Pages,
           p.ticket \in 0..Len(owners), p.cursor \in 0..Len(posts),
           p.ticket # 0, PollMessages(p, others)
    PROVE  Polled(p, gone)
<1>. DEFINE call == NewCallOf("poll", p.ticket, p.cursor)
<1>1. "poll" \in Loads \cup Lists \cup {"send"}
    BY DEF Loads
<1>2. call \in Call /\ CallKnown(call)
    BY <1>1, NewCallTyped
<1>3. call.kind = "poll" /\ call.ticket = p.ticket /\ call.after = p.cursor
    BY DEF NewCallOf
<1>4. page' = [p EXCEPT !.loading = TRUE] /\ Request(others, call)
    BY DEF PollMessages
<1>. HIDE DEF call
<1>5. Follows(gone, {call})
    BY <1>2, <1>4, RequestFollows
<1>6. page' \in Pages
    BY <1>4 DEF Pages
<1>7. /\ page'.ticket = p.ticket /\ page'.cursor = p.cursor /\ page'.view = p.view
      /\ page'.interval = p.interval /\ page'.starting = p.starting
      /\ page'.rendered = p.rendered /\ page'.gone = p.gone /\ page'.listing = p.listing
    BY <1>4 DEF Pages
<1>8. {call} \in SUBSET Call /\ \E c \in {call} : c.kind = "poll"
    BY <1>2, <1>3
<1>9. \A c \in {call} :
         /\ CallKnown(c) /\ c.kind \in Polls
         /\ c.kind = "poll" => c.ticket = p.ticket /\ c.ticket # 0 /\ c.after = p.cursor
    BY <1>2, <1>3 DEF Polls
<1>. QED BY <1>5, <1>6, <1>7, <1>8, <1>9 DEF Polled

\* A poll asks for what its view shows, and for nothing that opens or sends.
LEMMA ViewPolled ==
    ASSUME CnTypes, NEW gone, NEW others, Others(others, gone), NEW p \in Pages,
           p.ticket \in 0..Len(owners), p.cursor \in 0..Len(posts),
           MayPoll(p), Poll(p, others)
    PROVE  Polled(p, gone)
<1>1. CASE p.view = "messages"
    BY <1>1, MessagesPolled DEF MayPoll, MayLoad, Poll
<1>2. CASE p.view # "messages"
  <2>. DEFINE call == NewCallOf("tickets", 0, 0)
  <2>1. /\ "tickets" \in Loads \cup Lists \cup {"send"} /\ "tickets" \notin Loads
        /\ 0 \in 0..Len(owners) /\ 0 \in 0..Len(posts)
      BY PostsTyped DEF Loads, Lists
  <2>2. call \in Call /\ CallKnown(call)
      BY <2>1, NewCallTyped
  <2>3. call.kind = "tickets"
      BY DEF NewCallOf
  <2>4. page' = [p EXCEPT !.listing = TRUE] /\ Request(others, call)
      BY <1>2 DEF Poll
  <2>. HIDE DEF call
  <2>5. Follows(gone, {call})
      BY <2>2, <2>4, RequestFollows
  <2>6. page' \in Pages
      BY <2>4 DEF Pages
  <2>7. /\ page'.ticket = p.ticket /\ page'.cursor = p.cursor /\ page'.view = p.view
        /\ page'.interval = p.interval /\ page'.starting = p.starting
        /\ page'.rendered = p.rendered /\ page'.gone = p.gone /\ page'.loading = p.loading
      BY <2>4 DEF Pages
  <2>8. {call} \in SUBSET Call /\ \E c \in {call} : c.kind = "tickets"
      BY <2>2, <2>3
  <2>9. \A c \in {call} :
           /\ CallKnown(c) /\ c.kind \in Polls
           /\ c.kind = "poll" => c.ticket = p.ticket /\ c.ticket # 0 /\ c.after = p.cursor
      BY <2>2, <2>3 DEF Polls
  <2>. QED BY <2>5, <2>6, <2>7, <2>8, <2>9 DEF Polled
<1>. QED BY <1>1, <1>2

\* The conversation that the listed tickets open.
LEMMA AppliedFacts ==
    ASSUME NEW n \in Nat, n <= MaxPosts, NEW p \in Pages, p.ticket \in 0..n,
           NEW found \in SUBSET (1..n)
    PROVE  LET q == Applied(p, found) IN
           /\ q \in Pages /\ q.ticket \in 0..n
           /\ q.cursor = p.cursor /\ q.interval = p.interval /\ q.loading = p.loading
           /\ q.listing = p.listing /\ q.starting = p.starting /\ q.rendered = p.rendered
           /\ q.gone = p.gone
           /\ found = {} => q.ticket = p.ticket
<1>. DEFINE several == \E t, u \in found : t # u
            view == IF several THEN "tickets" ELSE "messages"
            ticket == IF several THEN 0
                      ELSE IF found # {} THEN CHOOSE t \in found : TRUE ELSE p.ticket
<1>1. Applied(p, found) = [p EXCEPT !.view = view, !.ticket = ticket]
    BY DEF Applied, Pages
<1>2. ticket \in 0..n /\ (found = {} => ticket = p.ticket)
  <2>1. CASE found = {}
      BY <2>1
  <2>2. CASE found # {}
    <3>1. (CHOOSE t \in found : TRUE) \in 1..n
        BY <2>2
    <3>2. ticket = 0 \/ ticket = CHOOSE t \in found : TRUE
        BY <2>2
    <3>. QED BY <2>2, <3>1, <3>2
  <2>. QED BY <2>1, <2>2
<1>3. view \in {"messages", "tickets"}
    OBVIOUS
<1>4. ticket \in TicketIds
    BY <1>2, CnConstants DEF TicketIds
<1>. HIDE DEF view, ticket
<1>. QED BY <1>1, <1>2, <1>3, <1>4 DEF Pages

--------------------------------------------------------------------------------
(* A step keeps the conversation, or turns to one of which nothing is shown yet. *)

\* Before the widget is rendered only its start is answered.
LEMMA OthersAreRendered ==
    ASSUME HiddenRests, NEW i \in DOMAIN calls, calls[i].kind # "init"
    PROVE  widget.up
BY DEF HiddenRests

\* A step that leaves ticket, cursor and messages alone keeps what is whole.
LEMMA ConversationKept ==
    ASSUME CnTypes, WholeInv, UNCHANGED server, NEW gone, NEW news, Follows(gone, news),
           HiddenRests => widget.up,
           principal' = principal, crossed' = crossed, missed' = missed,
           page'.ticket = page.ticket, page'.cursor = page.cursor,
           widget'.shown = widget.shown, widget'.up = widget.up,
           \/ widget'.sending = widget.sending
           \/ gone \in DOMAIN calls /\ Sending(calls[gone]),
           \A c \in news :
              /\ ~Opening(c) /\ ~Sending(c)
              /\ Loading(c) => c.ticket = page.ticket /\ c.ticket # 0 /\ c.after = page.cursor
    PROVE  WholeInv'
<1>1. SUFFICES ASSUME ~crossed PROVE Whole'
    BY DEF WholeInv
<1>2. /\ NothingIsMissed /\ HiddenRests /\ OpensOnce /\ SendsOnce /\ LoadsContinue
      /\ widget.up /\ posts' = posts
    BY <1>1 DEF WholeInv, Whole, server
<1>3. NothingIsMissed'
    BY <1>2 DEF NothingIsMissed, Agents, PostedIn
<1>4. HiddenRests'
    BY <1>2 DEF HiddenRests
<1>5. OpensOnce'
  <2>1. ASSUME NEW j \in DOMAIN calls, Opening(calls[j])
        PROVE  /\ page'.cursor = 0 /\ widget'.shown = {} /\ (widget'.up => page'.ticket = 0)
               /\ \A c \in news : Loading(c) => c.after = 0
    <3>1. page.cursor = 0 /\ widget.shown = {} /\ page.ticket = 0
        BY <1>2, <2>1 DEF OpensOnce
    <3>. QED BY <3>1
  <2>. QED BY <1>2, <2>1, OpensKept
<1>6. SendsOnce'
  <2>1. ASSUME NEW j \in DOMAIN calls, j # gone, Sending(calls[j])
        PROVE  widget'.sending
      BY <1>2, <2>1 DEF SendsOnce
  <2>. QED BY <1>2, <2>1, SendsKept
<1>7. LoadsContinue'
  <2>1. ASSUME NEW j \in DOMAIN calls, Loading(calls[j]), calls[j].ticket = page'.ticket
        PROVE  Agents(PostedIn(page'.ticket, 0, calls[j].after))
                  \subseteq widget'.shown \cup missed'
      BY <1>2, <2>1 DEF LoadsContinue, ShownTo
  <2>2. ASSUME NEW c \in news, Loading(c), c.ticket = page'.ticket
        PROVE  Agents(PostedIn(page'.ticket, 0, c.after)) \subseteq widget'.shown \cup missed'
      BY <1>2, <2>2 DEF NothingIsMissed
  <2>. QED BY <1>2, <2>1, <2>2, LoadsKept
<1>. QED BY <1>3, <1>4, <1>5, <1>6, <1>7 DEF Whole

\* Nothing is posted before the first post.
LEMMA NothingBefore == \A ticket : PostedIn(ticket, 0, 0) = {} /\ Agents({}) = {}
<1>1. (0 + 1)..0 = {}
    OBVIOUS
<1>. QED BY <1>1 DEF PostedIn, Agents

\* A page that starts at 0 with nothing shown has missed nothing.
LEMMA ConversationTurned ==
    ASSUME CnTypes, posts' = posts, page'.cursor = 0, widget'.shown = {}, widget'.up,
           OpensOnce', SendsOnce',
           ASSUME NEW k \in DOMAIN calls', calls'[k].kind \in Loads,
                  calls'[k].who = principal', calls'[k].ticket = page'.ticket
           PROVE  calls'[k].after = 0
    PROVE  Whole'
<1>1. \A ticket : Agents(PostedIn(ticket, 0, 0)) = {}
    BY NothingBefore
<1>2. \A ticket : Agents(PostedIn(ticket, 0, 0))' = {}
    BY <1>1 DEF Agents, PostedIn
<1>3. NothingIsMissed'
  <2>1. Agents(PostedIn(page.ticket, 0, page.cursor))' = {}
      BY <1>1 DEF Agents, PostedIn
  <2>. QED BY <2>1 DEF NothingIsMissed
<1>4. HiddenRests'
    BY DEF HiddenRests
<1>5. LoadsContinue'
  <2>1. ASSUME NEW k \in DOMAIN calls', Loading(calls[k])', calls'[k].ticket = page'.ticket
        PROVE  ShownTo(page.ticket, calls[k].after)'
    <3>1. calls'[k].after = 0
        BY <2>1 DEF Loading
    <3>2. Agents(PostedIn(page.ticket, 0, calls[k].after))' = {}
        BY <1>1, <3>1 DEF Agents, PostedIn
    <3>. QED BY <3>2 DEF ShownTo
  <2>. QED BY <2>1 DEF LoadsContinue
<1>. QED BY <1>3, <1>4, <1>5 DEF Whole

--------------------------------------------------------------------------------
(* Answers that change what is shown of a conversation, and nothing else.       *)

\* What the widget's part of an answer changes.
LEMMA SettledFacts ==
    ASSUME CnTypes, NEW call \in Call
    PROVE  /\ Settled(call) \in Widgets
           /\ Settled(call).up = widget.up /\ Settled(call).list = widget.list
           /\ Settled(call).shown = widget.shown
           /\ Settled(call).sending => widget.sending
           /\ call.kind # "send" => Settled(call).sending = widget.sending
<1>. DEFINE sending == widget.sending /\ ~(call.kind = "send" /\ call.mine)
<1>1. widget \in Widgets /\ widget.sending \in BOOLEAN
    BY CnFields DEF Widgets
<1>2. Settled(call) = [widget EXCEPT !.sending = sending]
    BY DEF Settled
<1>3. sending \in BOOLEAN /\ (sending => widget.sending)
    BY Zenon
<1>4. call.kind # "send" => sending = widget.sending
    BY <1>1
<1>. HIDE DEF sending
<1>. QED BY <1>1, <1>2, <1>3, <1>4 DEF Widgets

\* A flag falls with its request.
LEMMA FlagsLowered ==
    ASSUME CnTypes, NEW loading \in BOOLEAN, NEW listing \in BOOLEAN,
           page' = [page EXCEPT !.loading = loading, !.listing = listing]
    PROVE  /\ page' \in Pages
           /\ page'.ticket = page.ticket /\ page'.cursor = page.cursor
           /\ page'.view = page.view /\ page'.interval = page.interval
           /\ page'.loading = loading /\ page'.listing = listing
           /\ page'.starting = page.starting /\ page'.rendered = page.rendered
           /\ page'.gone = page.gone
BY CnFields DEF Pages

\* A widget that stays as it is, up or not, stays known.
LEMMA WidgetKnownKept ==
    ASSUME CnTypes, widget'.up = widget.up,
           \/ widget.up
           \/ /\ widget'.list = widget.list /\ widget'.shown = widget.shown
              /\ widget'.sending => widget.sending,
           page'.rendered = page.rendered, page'.gone = page.gone, intended' = intended
    PROVE  WidgetKnown'
BY DEF CnTypes, WidgetKnown

\* A request that fails leaves the others, and lowers its own flag.
LEMMA CallFailsInv ==
    ASSUME CnInv, NEW i \in DOMAIN calls, CallFails(i)
    PROVE  CnInv'
<1>. DEFINE loading == page.loading /\ calls[i].kind # "poll"
            listing == page.listing /\ calls[i].kind # "tickets"
<1>1. CnTypes /\ WholeInv /\ HiddenInv /\ HeardInv
    BY DEF CnInv
<1>2. /\ calls[i].kind # "init" /\ calls' = RemoveAt(calls, i) /\ widget' = Settled(calls[i])
      /\ page' = [page EXCEPT !.loading = loading, !.listing = listing]
      /\ UNCHANGED <<answerKeeps, saved, missed, unheard>>
    BY DEF CallFails
<1>3. /\ UNCHANGED server /\ principal' = principal /\ soon' = soon /\ acts' = acts
      /\ intended' = intended /\ crossed' = crossed /\ undone' = undone
      /\ saved' = saved /\ missed' = missed /\ unheard' = unheard
    BY <1>2 DEF answerKeeps
<1>4. loading \in BOOLEAN /\ (loading => page.loading /\ calls[i].kind # "poll")
    BY Zenon
<1>5. listing \in BOOLEAN /\ (listing => page.listing /\ calls[i].kind # "tickets")
    BY Zenon
<1>. HIDE DEF loading, listing
<1>6. Follows(i, {})
    BY <1>1, <1>2, <1>3, OthersWithout, OthersFollow
<1>7. /\ page' \in Pages
      /\ page'.ticket = page.ticket /\ page'.cursor = page.cursor
      /\ page'.interval = page.interval /\ page'.loading = loading /\ page'.listing = listing
      /\ page'.starting = page.starting /\ page'.rendered = page.rendered
      /\ page'.gone = page.gone
    BY <1>1, <1>2, <1>4, <1>5, FlagsLowered
<1>8. /\ widget' \in Widgets /\ widget'.up = widget.up /\ widget'.list = widget.list
      /\ widget'.shown = widget.shown /\ (widget'.sending => widget.sending)
      /\ calls[i].kind # "send" => widget'.sending = widget.sending
    BY <1>1, <1>2, SettledFacts, CallFields
<1>9. WidgetKnown'
    BY <1>1, <1>3, <1>7, <1>8, WidgetKnownKept
<1>10. CnTypes'
    BY <1>1, <1>3, <1>6, <1>7, <1>8, <1>9, CnFields, TypesKept
<1>11. WholeInv'
  <2>1. HiddenRests => widget.up
      BY <1>2, OthersAreRendered
  <2>2. widget'.sending = widget.sending \/ (i \in DOMAIN calls /\ Sending(calls[i]))
      BY <1>8 DEF Sending
  <2>. QED BY <1>1, <1>3, <1>6, <1>7, <1>8, <2>1, <2>2, ConversationKept
<1>12. HiddenInv'
  <2>1. ~undone /\ ~intended => ~widget'.up /\ ~page'.interval
      BY <1>1, <1>7, <1>8 DEF HiddenInv, StaysHidden
  <2>2. ~undone /\ page.gone => saved' = 0
      BY <1>1, <1>3 DEF HiddenInv, StaysHidden
  <2>. QED BY <1>1, <1>3, <1>6, <1>7, <2>1, <2>2, HiddenKept
<1>13. HeardInv'
    BY <1>1, <1>2, <1>4, <1>5, <1>6, <1>7, <1>8, HeardKept
<1>. QED BY <1>10, <1>11, <1>12, <1>13 DEF CnInv

\* The tickets that the server lists are its own.
LEMMA TicketsFound == \A who, k : TicketsOf(who, k) \subseteq DOMAIN owners
BY DEF TicketsOf

\* An answer that lists tickets.
LEMMA TicketsAnsweredInv ==
    ASSUME CnInv, NEW i \in DOMAIN calls, TicketsAnswered(i)
    PROVE  CnInv'
<1>. DEFINE listing == page.listing /\ calls[i].kind # "tickets"
<1>1. CnTypes /\ WholeInv /\ HiddenInv /\ HeardInv
    BY DEF CnInv
<1>2. /\ calls[i].kind \in {"tickets", "back"} /\ calls' = RemoveAt(calls, i)
      /\ page' = [page EXCEPT !.listing = listing]
      /\ UNCHANGED <<answerKeeps, saved, missed, unheard>>
    BY DEF TicketsAnswered
<1>3. /\ UNCHANGED server /\ principal' = principal /\ soon' = soon /\ acts' = acts
      /\ intended' = intended /\ crossed' = crossed /\ undone' = undone
      /\ saved' = saved /\ missed' = missed /\ unheard' = unheard
    BY <1>2 DEF answerKeeps
<1>4. listing \in BOOLEAN /\ (listing => page.listing /\ calls[i].kind # "tickets")
    BY Zenon
<1>5. \E list \in SUBSET DOMAIN owners :
         widget' = IF widget.up THEN [widget EXCEPT !.list = list] ELSE widget
    BY TicketsFound DEF TicketsAnswered
<1>. HIDE DEF listing
<1>6. Follows(i, {})
    BY <1>1, <1>2, <1>3, OthersWithout, OthersFollow
<1>7. /\ page' \in Pages
      /\ page'.ticket = page.ticket /\ page'.cursor = page.cursor
      /\ page'.interval = page.interval /\ page'.loading = page.loading
      /\ page'.listing = listing
      /\ page'.starting = page.starting /\ page'.rendered = page.rendered
      /\ page'.gone = page.gone
    BY <1>1, <1>2, <1>4, CnFields DEF Pages
<1>8. /\ widget' \in Widgets /\ widget'.up = widget.up /\ widget'.shown = widget.shown
      /\ widget'.sending = widget.sending
      /\ widget.up \/ widget'.list = widget.list
  <2>1. widget \in Widgets
      BY <1>1, CnFields
  <2>2. CASE widget.up
      BY <1>5, <2>1, <2>2 DEF Widgets
  <2>3. CASE ~widget.up
      BY <1>5, <2>1, <2>3
  <2>. QED BY <2>2, <2>3
<1>9. WidgetKnown'
    BY <1>1, <1>3, <1>7, <1>8, WidgetKnownKept
<1>10. CnTypes'
    BY <1>1, <1>3, <1>6, <1>7, <1>8, <1>9, CnFields, TypesKept
<1>11. WholeInv'
  <2>1. HiddenRests => widget.up
      BY <1>2, OthersAreRendered
  <2>. QED BY <1>1, <1>3, <1>6, <1>7, <1>8, <2>1, ConversationKept
<1>12. HiddenInv'
  <2>1. ~undone /\ ~intended => ~widget'.up /\ ~page'.interval
      BY <1>1, <1>7, <1>8 DEF HiddenInv, StaysHidden
  <2>2. ~undone /\ page.gone => saved' = 0
      BY <1>1, <1>3 DEF HiddenInv, StaysHidden
  <2>. QED BY <1>1, <1>3, <1>6, <1>7, <2>1, <2>2, HiddenKept
<1>13. HeardInv'
    BY <1>1, <1>2, <1>4, <1>6, <1>7, <1>8, HeardKept
<1>. QED BY <1>10, <1>11, <1>12, <1>13 DEF CnInv

\* The newest post of an answer.
LEMMA NewestGot ==
    ASSUME CnTypes, NEW ticket \in 0..Len(owners), NEW after \in 0..Len(posts),
           NEW k \in 0..Len(posts), PostedIn(ticket, after, k) # {}
    PROVE  LET got == PostedIn(ticket, after, k)
               newest == CHOOSE m \in got : \A j \in got : j <= m
           IN  /\ got \subseteq DOMAIN posts
               /\ newest \in 1..k /\ newest \in 0..Len(posts)
<1>. DEFINE got == PostedIn(ticket, after, k)
<1>1. got \subseteq 1..k /\ k \in Nat /\ Len(posts) \in Nat /\ DOMAIN posts = 1..Len(posts)
    BY PostsTyped DEF PostedIn
<1>2. \E m \in got : \A j \in got : j <= m
    BY <1>1, GreatestExists
<1>3. (CHOOSE m \in got : \A j \in got : j <= m) \in got
    BY <1>2
<1>4. \A m \in 1..k : m \in 0..Len(posts) /\ m \in DOMAIN posts
    BY <1>1
<1>. HIDE DEF got
<1>5. got \subseteq DOMAIN posts
    BY <1>1, <1>4
<1>6. LET newest == CHOOSE m \in got : \A j \in got : j <= m
      IN  newest \in 1..k /\ newest \in 0..Len(posts)
    BY <1>1, <1>3, <1>4
<1>. QED BY <1>5, <1>6 DEF got

\* What a current answer adds to the conversation leaves no gap in it.
LEMMA MessagesShown ==
    ASSUME CnTypes, Whole, UNCHANGED server, NEW i \in DOMAIN calls, Follows(i, {}),
           calls[i].kind \in Loads, IsCurrent(calls[i]), calls[i].ticket \in DOMAIN owners,
           NEW k \in 0..Len(posts), NEW newest \in 1..k,
           \A j \in PostedIn(calls[i].ticket, calls[i].after, k) : j <= newest,
           principal' = principal, missed' = missed, soon' = soon,
           page'.ticket = page.ticket, page'.cursor = newest,
           widget'.up = widget.up, widget'.sending = widget.sending,
           widget.up => widget'.shown = widget.shown
                           \cup Agents(PostedIn(calls[i].ticket, calls[i].after, k))
    PROVE  Whole'
<1>. DEFINE call == calls[i]
            got == PostedIn(call.ticket, call.after, k)
<1>1. /\ NothingIsMissed /\ HiddenRests /\ OpensOnce /\ SendsOnce /\ LoadsContinue
      /\ posts' = posts
    BY DEF Whole, server
<1>2. /\ Loading(call) /\ call.ticket = page.ticket /\ page.ticket # 0
      /\ call.kind # "init" /\ call.kind # "send"
    BY PostsTyped DEF Loading, IsCurrent, Loads
<1>3. widget.up
    BY <1>1, <1>2, OthersAreRendered
<1>4. widget'.shown = widget.shown \cup Agents(got)
    BY <1>3
<1>5. k \in Nat /\ newest \in Nat /\ newest <= k /\ call.after \in Nat
    BY PostsTyped, CallFields
<1>6. \A j \in Agents(PostedIn(page.ticket, 0, newest)) :
         \/ j \in Agents(PostedIn(page.ticket, 0, call.after))
         \/ j \in Agents(got)
    BY <1>2, <1>5 DEF Agents, PostedIn
<1>7. Agents(PostedIn(page.ticket, 0, call.after)) \subseteq widget.shown \cup missed
    BY <1>1, <1>2 DEF LoadsContinue, ShownTo
<1>8. NothingIsMissed'
  <2>1. \A j \in Agents(got) : posts[j].ticket = page.ticket
      BY <1>2 DEF Agents, PostedIn
  <2>2. \A j \in widget'.shown : posts[j].ticket = page.ticket
      BY <1>1, <1>4, <2>1 DEF NothingIsMissed
  <2>3. Agents(PostedIn(page.ticket, 0, newest)) \subseteq widget'.shown \cup missed
      BY <1>4, <1>6, <1>7
  <2>. QED BY <1>1, <2>2, <2>3 DEF NothingIsMissed, Agents, PostedIn
<1>9. HiddenRests'
    BY <1>3 DEF HiddenRests
<1>10. OpensOnce'
  <2>1. ASSUME NEW j \in DOMAIN calls, j # i, Opening(calls[j])
        PROVE  /\ page'.cursor = 0 /\ widget'.shown = {} /\ (widget'.up => page'.ticket = 0)
               /\ \A c \in {} : Loading(c) => c.after = 0
      BY <1>1, <1>2, <1>3, <2>1 DEF OpensOnce
  <2>2. \A c \in {} : ~Opening(c)
      OBVIOUS
  <2>. QED BY <1>1, <2>1, <2>2, OpensKept
<1>11. SendsOnce'
  <2>1. ASSUME NEW j \in DOMAIN calls, j # i, Sending(calls[j])
        PROVE  /\ widget'.sending /\ page'.ticket = page.ticket
               /\ \A c \in {} :
                     ~Opening(c) /\ (Loading(c) => c.ticket = page.ticket /\ c.ticket # 0)
      BY <1>1, <2>1 DEF SendsOnce
  <2>2. \A c \in {} : ~Sending(c)
      OBVIOUS
  <2>. QED BY <1>1, <2>1, <2>2, SendsKept
<1>12. LoadsContinue'
  <2>1. ASSUME NEW j \in DOMAIN calls, j # i, Loading(calls[j]),
               calls[j].ticket = page'.ticket
        PROVE  Agents(PostedIn(page'.ticket, 0, calls[j].after))
                  \subseteq widget'.shown \cup missed'
    <3>1. Agents(PostedIn(page.ticket, 0, calls[j].after)) \subseteq widget.shown \cup missed
        BY <1>1, <2>1 DEF LoadsContinue, ShownTo
    <3>. QED BY <1>4, <3>1
  <2>2. \A c \in {} : Loading(c) /\ c.ticket = page'.ticket =>
           Agents(PostedIn(page'.ticket, 0, c.after)) \subseteq widget'.shown \cup missed'
      OBVIOUS
  <2>. QED BY <1>1, <2>1, <2>2, LoadsKept
<1>. QED BY <1>8, <1>9, <1>10, <1>11, <1>12 DEF Whole

\* Messages that arrive move the cursor over what they show, or are for another ticket.
LEMMA MessagesAnsweredInv ==
    ASSUME CnInv, NEW i \in DOMAIN calls, MessagesAnswered(i)
    PROVE  CnInv'
<1>. DEFINE call == calls[i]
            loading == page.loading /\ call.kind # "poll"
            settled == [page EXCEPT !.loading = loading]
<1>1. CnTypes /\ WholeInv /\ HiddenInv /\ HeardInv
    BY DEF CnInv
<1>2. /\ call.kind \in Loads /\ call.ticket \in DOMAIN owners /\ calls' = RemoveAt(calls, i)
      /\ UNCHANGED <<answerKeeps, saved, missed, unheard>>
    BY TicketsFound DEF MessagesAnswered
<1>3. /\ UNCHANGED server /\ principal' = principal /\ soon' = soon /\ acts' = acts
      /\ intended' = intended /\ crossed' = crossed /\ undone' = undone
      /\ saved' = saved /\ missed' = missed /\ unheard' = unheard
    BY <1>2 DEF answerKeeps
<1>4. loading \in BOOLEAN /\ (loading => page.loading /\ call.kind # "poll")
    BY Zenon
<1>5. PICK k \in call.since..Len(posts) :
         LET got == PostedIn(call.ticket, call.after, k) IN
         IF IsCurrent(call) /\ got # {}
         THEN /\ page' = [settled EXCEPT !.cursor = CHOOSE m \in got : \A j \in got : j <= m]
              /\ widget' = IF widget.up THEN [widget EXCEPT !.shown = @ \cup Agents(got)]
                           ELSE widget
         ELSE page' = settled /\ UNCHANGED widget
    BY DEF MessagesAnswered
<1>6. /\ call \in Call /\ call.ticket \in 0..Len(owners) /\ call.after \in 0..Len(posts)
      /\ k \in 0..Len(posts)
    BY <1>1, CallFields, PostsTyped
<1>7. Follows(i, {})
    BY <1>1, <1>2, <1>3, OthersWithout, OthersFollow
<1>. DEFINE got == PostedIn(call.ticket, call.after, k)
            newest == CHOOSE m \in got : \A j \in got : j <= m
            current == IsCurrent(call) /\ got # {}
<1>8. /\ current => page' = [settled EXCEPT !.cursor = newest]
      /\ ~current => page' = settled
      /\ current /\ widget.up => widget' = [widget EXCEPT !.shown = @ \cup Agents(got)]
      /\ ~current \/ ~widget.up => widget' = widget
    BY <1>5
<1>9. current => /\ got \subseteq DOMAIN posts
                 /\ newest \in 1..k /\ newest \in 0..Len(posts)
                 /\ \A j \in got : j <= newest
  <2>1. SUFFICES ASSUME got # {}
                 PROVE  /\ got \subseteq DOMAIN posts
                        /\ newest \in 1..k /\ newest \in 0..Len(posts)
                        /\ \A j \in got : j <= newest
      OBVIOUS
  <2>2. got \subseteq DOMAIN posts /\ newest \in 1..k /\ newest \in 0..Len(posts)
      BY <1>1, <1>6, <2>1, NewestGot
  <2>3. got \subseteq 1..Len(posts)
      BY <1>1, <2>2, PostsTyped
  <2>4. \E m \in got : \A j \in got : j <= m
      BY <1>1, <2>1, <2>3, GreatestExists, PostsTyped
  <2>. QED BY <2>2, <2>4
<1>10. page \in Pages /\ widget \in Widgets /\ \A c \in 0..Len(posts) : c \in 0..MaxPosts
    BY <1>1, CnFields, PostsTyped, CnConstants
<1>11. Agents(got) \subseteq got
    BY DEF Agents
<1>. HIDE DEF loading, call, got, newest, current
<1>12. settled \in Pages /\ settled = [page EXCEPT !.loading = loading]
    BY <1>4, <1>10 DEF Pages
<1>13. /\ page' \in Pages
       /\ page'.ticket = page.ticket /\ page'.interval = page.interval
       /\ page'.loading = loading /\ page'.listing = page.listing
       /\ page'.starting = page.starting /\ page'.rendered = page.rendered
       /\ page'.gone = page.gone
       /\ page'.cursor = IF current THEN newest ELSE page.cursor
  <2>1. CASE current
      BY <1>4, <1>8, <1>9, <1>10, <2>1, ZenonT(60) DEF Pages
  <2>2. CASE ~current
      BY <1>4, <1>8, <1>10, <2>2 DEF Pages
  <2>. QED BY <2>1, <2>2
<1>14. /\ widget' \in Widgets /\ widget'.up = widget.up /\ widget'.list = widget.list
       /\ widget'.sending = widget.sending
       /\ widget'.shown = IF current /\ widget.up THEN widget.shown \cup Agents(got)
                          ELSE widget.shown
  <2>1. CASE current /\ widget.up
      BY <1>8, <1>9, <1>10, <1>11, <2>1 DEF Widgets
  <2>2. CASE ~(current /\ widget.up)
      BY <1>8, <1>10, <2>2
  <2>. QED BY <2>1, <2>2
<1>15. WidgetKnown'
    BY <1>1, <1>3, <1>13, <1>14, WidgetKnownKept
<1>16. page'.cursor \in 0..Len(posts)
    BY <1>1, <1>9, <1>13, CnFields
<1>17. CnTypes'
    BY <1>1, <1>3, <1>7, <1>13, <1>14, <1>15, <1>16, CnFields, TypesKept
<1>18. WholeInv'
  <2>1. CASE current
    <3>1. SUFFICES ASSUME ~crossed PROVE Whole'
        BY <1>3 DEF WholeInv
    <3>2. Whole
        BY <1>1, <3>1 DEF WholeInv
    <3>3. /\ call.kind \in Loads /\ IsCurrent(call) /\ newest \in 1..k
          /\ \A j \in got : j <= newest
        BY <1>2, <1>9, <2>1 DEF current, call
    <3>4. widget.up => widget'.shown = widget.shown \cup Agents(got)
        BY <1>14, <2>1
    <3>5. page'.cursor = newest
        BY <1>13, <2>1
    <3>. QED BY <1>1, <1>2, <1>3, <1>6, <1>7, <1>13, <1>14, <3>2, <3>3, <3>4, <3>5, MessagesShown
             DEF call, got
  <2>2. CASE ~current
    <3>1. HiddenRests => widget.up
        BY <1>2, OthersAreRendered DEF call, Loads
    <3>2. page'.cursor = page.cursor /\ widget'.shown = widget.shown
        BY <1>13, <1>14, <2>2
    <3>3. page'.ticket = page.ticket /\ widget'.up = widget.up /\ widget'.sending = widget.sending
        BY <1>13, <1>14
    <3>. QED BY <1>1, <1>3, <1>7, <3>1, <3>2, <3>3, ConversationKept
  <2>. QED BY <2>1, <2>2
<1>19. HiddenInv'
  <2>1. ~undone /\ ~intended => ~widget'.up /\ ~page'.interval
      BY <1>1, <1>13, <1>14 DEF HiddenInv, StaysHidden
  <2>2. ~undone /\ page.gone => saved' = 0
      BY <1>1, <1>3 DEF HiddenInv, StaysHidden
  <2>. QED BY <1>1, <1>3, <1>7, <1>13, <2>1, <2>2, HiddenKept
<1>20. HeardInv'
  <2>1. calls[i].kind # "tickets" /\ calls[i].kind # "init"
      BY <1>2 DEF call, Loads
  <2>2. page'.loading => page.loading /\ calls[i].kind # "poll"
      BY <1>4, <1>13 DEF call
  <2>. QED BY <1>1, <1>7, <1>13, <1>14, <2>1, <2>2, HeardKept
<1>. QED BY <1>17, <1>18, <1>19, <1>20 DEF CnInv

--------------------------------------------------------------------------------
(* Polls.                                                                       *)

\* A poll neither opens a conversation nor sends.
LEMMA PollsOnlyAsk ==
    ASSUME NEW c, c.kind \in Polls
    PROVE  /\ ~Opening(c) /\ ~Sending(c) /\ (Loading(c) => c.kind = "poll")
           /\ c.kind \notin {"send", "init", "reconcile"}
BY DEF Polls, Opening, Sending, Loading, Loads

\* A step that only polls keeps the invariant.
LEMMA PagePolled ==
    ASSUME CnInv, Polled(page, 0), HiddenRests => widget.up, soon' \in Nat,
           UNCHANGED <<server, principal, widget, saved, acts, intended, missed, crossed, undone>>
    PROVE  CnInv'
<1>1. CnTypes /\ WholeInv /\ HiddenInv /\ HeardInv
    BY DEF CnInv
<1>2. PICK news \in SUBSET Call :
       /\ Follows(0, news)
       /\ page' \in Pages
       /\ page'.ticket = page.ticket /\ page'.cursor = page.cursor /\ page'.view = page.view
       /\ page'.interval = page.interval /\ page'.starting = page.starting
       /\ page'.rendered = page.rendered /\ page'.gone = page.gone
       /\ page'.loading => page.loading \/ \E c \in news : c.kind = "poll"
       /\ page'.listing => page.listing \/ \E c \in news : c.kind = "tickets"
       /\ \A c \in news :
             /\ CallKnown(c) /\ c.kind \in Polls
             /\ c.kind = "poll" => c.ticket = page.ticket /\ c.ticket # 0 /\ c.after = page.cursor
    BY DEF Polled
<1>3. \A c \in news : /\ ~Opening(c) /\ ~Sending(c) /\ (Loading(c) => c.kind = "poll")
                      /\ c.kind \notin {"send", "init", "reconcile"}
    BY <1>2, PollsOnlyAsk
<1>4. WidgetKnown'
    BY <1>1, <1>2, WidgetKnownKept
<1>5. CnTypes'
    BY <1>1, <1>2, <1>4, CnFields, TypesKept
<1>6. WholeInv'
    BY <1>1, <1>2, <1>3, ConversationKept
<1>7. HiddenInv'
  <2>1. ~undone /\ ~intended => ~widget'.up /\ ~page'.interval
      BY <1>1, <1>2 DEF HiddenInv, StaysHidden
  <2>2. ~undone /\ page.gone => saved' = 0
      BY <1>1, <1>2 DEF HiddenInv, StaysHidden
  <2>. QED BY <1>1, <1>2, <1>3, <2>1, <2>2, HiddenKept
<1>8. HeardInv'
  <2>1. 0 \notin DOMAIN calls
      BY <1>1, CallFields
  <2>. QED BY <1>1, <1>2, <2>1, HeardKept
<1>. QED BY <1>5, <1>6, <1>7, <1>8 DEF CnInv

\* The timer of the interval polls.
LEMMA PollTimerInv ==
    ASSUME CnInv, PollTimer
    PROVE  CnInv'
<1>1. CnTypes /\ page.interval /\ MayPoll(page) /\ Poll(page, calls)
    BY DEF CnInv, PollTimer
<1>2. Polled(page, 0)
    BY <1>1, OthersAll, CnFields, ViewPolled
<1>3. UNCHANGED <<server, principal, widget, saved, soon, acts, intended, missed, crossed,
                  undone>>
    BY DEF PollTimer, answerKeeps
<1>4. soon' \in Nat
    BY <1>1, <1>3, CnFields
<1>5. HiddenRests => widget.up
    BY <1>1 DEF HiddenRests
<1>. QED BY <1>2, <1>3, <1>4, <1>5, PagePolled

\* The timer that send and open leave behind polls.
LEMMA PollSoonInv ==
    ASSUME CnInv, PollSoon
    PROVE  CnInv'
<1>1. CnTypes /\ soon > 0 /\ soon' = soon - 1
    BY DEF CnInv, PollSoon
<1>2. Polled(page, 0)
  <2>1. CASE MayLoad(page)
    <3>1. page.ticket # 0 /\ PollMessages(page, calls)
        BY <2>1 DEF PollSoon, MayLoad
    <3>. QED BY <1>1, <3>1, OthersAll, CnFields, MessagesPolled
  <2>2. CASE ~MayLoad(page)
    <3>1. page' = page /\ calls' = calls /\ unheard' = unheard
        BY <2>2 DEF PollSoon
    <3>2. Follows(0, {})
        BY <1>1, <3>1, OthersAll, OthersFollow
    <3>3. page \in Pages /\ {} \in SUBSET Call
        BY <1>1, CnFields
    <3>. QED BY <3>1, <3>2, <3>3 DEF Polled
  <2>. QED BY <2>1, <2>2
<1>3. UNCHANGED <<server, principal, widget, saved, acts, intended, missed, crossed, undone>>
    BY DEF PollSoon
<1>4. soon \in Nat /\ soon # 0
    BY <1>1, CnFields
<1>5. soon' \in Nat
    BY <1>1, <1>4
<1>6. HiddenRests => widget.up
    BY <1>4 DEF HiddenRests
<1>. QED BY <1>2, <1>3, <1>5, <1>6, PagePolled

--------------------------------------------------------------------------------
(* What the user does.                                                          *)

\* A request that the user's act makes.
LEMMA AskedFollows ==
    ASSUME CnTypes, NEW kind \in Loads \cup Lists \cup {"send"}, NEW ticket \in 0..Len(owners),
           kind \in Loads => ticket # 0, Request(calls, NewCallOf(kind, ticket, 0))
    PROVE  \E call \in Call :
              /\ Follows(0, {call}) /\ CallKnown(call)
              /\ call.kind = kind /\ call.who = principal /\ call.ticket = ticket
              /\ call.after = 0 /\ call.posted = 0 /\ call.mine
<1>. DEFINE call == NewCallOf(kind, ticket, 0)
<1>1. 0 \in 0..Len(posts)
    BY PostsTyped
<1>2. call \in Call /\ CallKnown(call)
    BY <1>1, NewCallTyped
<1>3. /\ call.kind = kind /\ call.who = principal /\ call.ticket = ticket
      /\ call.after = 0 /\ call.posted = 0 /\ call.mine
    BY DEF NewCallOf
<1>. HIDE DEF call
<1>4. Follows(0, {call})
    BY <1>2, OthersAll, RequestFollows DEF call
<1>. QED BY <1>2, <1>3, <1>4

\* An act of the user counts once.
LEMMA ActCounted ==
    ASSUME CnTypes, Acts
    PROVE  acts' \in 0..MaxActs
<1>1. acts \in Nat /\ acts < MaxActs /\ acts' = acts + 1
    BY CnFields, CnConstants DEF Acts
<1>. QED BY <1>1, CnConstants

\* Going back to the list leaves the ticket, and its requests, behind.
LEMMA BackToTicketsInv ==
    ASSUME CnInv, BackToTickets
    PROVE  CnInv'
<1>1. CnTypes /\ WholeInv /\ HiddenInv /\ HeardInv
    BY DEF CnInv
<1>2. /\ Acts /\ widget.up /\ principal' = principal
      /\ page' = [page EXCEPT !.view = "tickets"]
      /\ Request(calls, NewCallOf("back", 0, 0))
    BY DEF BackToTickets
<1>3. /\ UNCHANGED server /\ soon' = soon /\ intended' = intended /\ crossed' = crossed
      /\ undone' = undone /\ saved' = saved /\ missed' = missed /\ widget' = widget
    BY DEF BackToTickets, actKeeps
<1>4. /\ "back" \in Loads \cup Lists \cup {"send"} /\ "back" \notin Loads
      /\ 0 \in 0..Len(owners)
    BY <1>1, PostsTyped DEF Loads, Lists
<1>5. PICK call \in Call : Follows(0, {call}) /\ CallKnown(call) /\ call.kind = "back"
    BY <1>1, <1>2, <1>4, AskedFollows, ZenonT(60)
<1>6. /\ page' \in Pages
      /\ page'.ticket = page.ticket /\ page'.cursor = page.cursor
      /\ page'.interval = page.interval /\ page'.loading = page.loading
      /\ page'.listing = page.listing
      /\ page'.starting = page.starting /\ page'.rendered = page.rendered
      /\ page'.gone = page.gone
    BY <1>1, <1>2, CnFields DEF Pages
<1>7. WidgetKnown'
    BY <1>1, <1>2, <1>3, <1>6, WidgetKnownKept
<1>8. acts' \in 0..MaxActs
    BY <1>1, <1>2, ActCounted
<1>9. CnTypes'
    BY <1>1, <1>2, <1>3, <1>5, <1>6, <1>7, <1>8, CnFields, TypesKept
<1>10. WholeInv'
  <2>1. \A c \in {call} : ~Opening(c) /\ ~Sending(c) /\ ~Loading(c)
      BY <1>5 DEF Opening, Sending, Loading, Loads
  <2>. QED BY <1>1, <1>2, <1>3, <1>5, <1>6, <2>1, ConversationKept
<1>11. HiddenInv'
  <2>1. ~undone /\ ~intended => ~widget'.up /\ ~page'.interval
      BY <1>1, <1>3, <1>6 DEF HiddenInv, StaysHidden
  <2>2. ~undone /\ page.gone => saved' = 0
      BY <1>1, <1>3 DEF HiddenInv, StaysHidden
  <2>3. \A c \in {call} : c.kind # "init" /\ c.kind \notin {"send", "init", "reconcile"}
      BY <1>5
  <2>. QED BY <1>1, <1>3, <1>5, <1>6, <2>1, <2>2, <2>3, HiddenKept
<1>12. HeardInv'
  <2>1. 0 \notin DOMAIN calls
      BY <1>1, CallFields
  <2>. QED BY <1>1, <1>3, <1>5, <1>6, <2>1, HeardKept
<1>. QED BY <1>9, <1>10, <1>11, <1>12 DEF CnInv

\* A request of a sort of which none was awaited is the only one.
LEMMA FirstOfItsSort ==
    ASSUME CnTypes, NEW call, Follows(0, {call}), NEW sort,
           \A j \in DOMAIN calls : calls[j] \notin sort,
           NEW k \in DOMAIN calls', calls'[k] \in sort
    PROVE  /\ calls'[k] = call
           /\ \A l \in DOMAIN calls' : calls'[l] \in sort => l = k
<1>1. PICK from \in [DOMAIN calls' -> 0..Len(calls)] :
          \A l \in DOMAIN calls' :
             /\ from[l] = 0 => calls'[l] \in {call}
             /\ from[l] # 0 => from[l] # 0 /\ calls'[l] = calls[from[l]]
             /\ \A m \in DOMAIN calls' : from[l] = from[m] => l = m
    BY DEF Follows
<1>2. \A l \in DOMAIN calls' : from[l] # 0 => from[l] \in DOMAIN calls
    BY CallFields
<1>3. \A l \in DOMAIN calls' : calls'[l] \in sort => from[l] = 0
    BY <1>1, <1>2
<1>. QED BY <1>1, <1>3

\* The requests of the next state are requests.
LEMMA NextCalls ==
    ASSUME NEW gone, NEW news, Follows(gone, news)
    PROVE  \A k \in DOMAIN calls' : calls'[k] \in Call
<1>1. calls' \in Seq(Call) /\ DOMAIN calls' = 1..Len(calls')
    BY DEF Follows
<1>. QED BY <1>1, ElementOfSeq

\* A message that is sent is the only one under way.
LEMMA SendMessageInv ==
    ASSUME CnInv, SendMessage
    PROVE  CnInv'
<1>1. CnTypes /\ WholeInv /\ HiddenInv /\ HeardInv
    BY DEF CnInv
<1>2. /\ Acts /\ widget.up /\ ~widget.sending /\ principal' = principal
      /\ widget' = [widget EXCEPT !.sending = TRUE]
      /\ Request(calls, NewCallOf("send", page.ticket, 0))
      /\ crossed' = (crossed \/ (page.ticket = 0 /\ Awaited({"init", "reconcile"})))
    BY DEF SendMessage
<1>3. /\ UNCHANGED server /\ soon' = soon /\ intended' = intended
      /\ undone' = undone /\ saved' = saved /\ missed' = missed /\ page' = page
    BY DEF SendMessage, actKeeps
<1>4. /\ "send" \in Loads \cup Lists \cup {"send"} /\ "send" \notin Loads
      /\ page.ticket \in 0..Len(owners)
    BY <1>1, CnFields DEF Loads
<1>5. PICK call \in Call : /\ Follows(0, {call}) /\ CallKnown(call)
                           /\ call.kind = "send" /\ call.who = principal
                           /\ call.ticket = page.ticket /\ call.posted = 0 /\ call.mine
    BY <1>1, <1>2, <1>4, AskedFollows
<1>6. /\ widget' \in Widgets /\ widget'.up = widget.up /\ widget'.list = widget.list
      /\ widget'.shown = widget.shown /\ widget'.sending
    BY <1>1, <1>2, CnFields DEF Widgets
<1>7. WidgetKnown'
    BY <1>1, <1>2, <1>3, <1>6, WidgetKnownKept
<1>8. acts' \in 0..MaxActs
    BY <1>1, <1>2, ActCounted
<1>9. crossed' \in BOOLEAN
    BY <1>2, Zenon
<1>10. CnTypes'
    BY <1>1, <1>2, <1>3, <1>5, <1>6, <1>7, <1>8, <1>9, CnFields, TypesKept
<1>11. WholeInv'
  <2>1. SUFFICES ASSUME ~crossed' PROVE Whole'
      BY DEF WholeInv
  <2>2. ~crossed /\ ~(page.ticket = 0 /\ Awaited({"init", "reconcile"}))
      BY <1>2, <2>1
  <2>3. /\ NothingIsMissed /\ OpensOnce /\ SendsOnce /\ LoadsContinue
        /\ posts' = posts
      BY <1>1, <1>3, <2>2 DEF WholeInv, Whole, server
  <2>4. \A j \in DOMAIN calls : ~Opening(calls[j])
    <3>1. ASSUME NEW j \in DOMAIN calls, Opening(calls[j]) PROVE FALSE
      <4>1. page.ticket = 0
          BY <1>2, <2>3, <3>1 DEF OpensOnce
      <4>2. Awaited({"init", "reconcile"})
          BY <3>1 DEF Opening, Awaited
      <4>. QED BY <2>2, <4>1, <4>2
    <3>. QED BY <3>1
  <2>5. ~Awaited({"send"})
      BY <1>2, <2>3 DEF SendsOnce, Sending, Awaited
  <2>6. NothingIsMissed'
      BY <1>3, <1>6, <2>3 DEF NothingIsMissed, Agents, PostedIn
  <2>7. HiddenRests'
      BY <1>2, <1>6 DEF HiddenRests
  <2>8. \A k \in DOMAIN calls' : ~Opening(calls'[k])
    <3>1. ~Opening(call)
        BY <1>5 DEF Opening
    <3>. QED BY <1>1, <1>5, <2>4, <3>1, CallsOrigin
  <2>9. OpensOnce'
      BY <1>2, <2>8 DEF OpensOnce, Opening
  <2>10. SendsOnce'
    <3>1. ASSUME NEW k \in DOMAIN calls', calls'[k].kind = "send"
          PROVE  /\ calls'[k] = call
                 /\ \A l \in DOMAIN calls' : calls'[l].kind = "send" => l = k
      <4>. DEFINE sort == {c \in Call : c.kind = "send"}
      <4>1. /\ \A j \in DOMAIN calls : calls[j] \notin sort
            /\ \A l \in DOMAIN calls' : calls'[l] \in sort <=> calls'[l].kind = "send"
          BY <1>5, <2>5, NextCalls DEF Awaited
      <4>. HIDE DEF sort
      <4>2. /\ calls'[k] = call
            /\ \A l \in DOMAIN calls' : calls'[l] \in sort => l = k
          BY <1>1, <1>5, <3>1, <4>1, FirstOfItsSort
      <4>. QED BY <4>1, <4>2
    <3>2. ASSUME NEW k \in DOMAIN calls', calls'[k].kind = "send"
          PROVE  /\ calls'[k].mine /\ calls'[k].posted = 0
                 /\ calls'[k].ticket = 0 => page'.ticket = 0
        BY <1>3, <1>5, <3>1, <3>2
    <3>. QED BY <1>2, <1>6, <2>8, <3>1, <3>2 DEF SendsOnce, Sending, Opening
  <2>11. LoadsContinue'
    <3>1. \A j \in DOMAIN calls :
             j # 0 /\ Loading(calls[j]) /\ calls[j].ticket = page'.ticket =>
                Agents(PostedIn(page'.ticket, 0, calls[j].after))
                   \subseteq widget'.shown \cup missed'
        BY <1>3, <1>6, <2>3 DEF LoadsContinue, ShownTo
    <3>2. ~Loading(call)
        BY <1>5 DEF Loading, Loads
    <3>. QED BY <1>1, <1>2, <1>5, <2>3, <3>1, <3>2, LoadsKept
  <2>. QED BY <2>6, <2>7, <2>9, <2>10, <2>11 DEF Whole
<1>12. HiddenInv'
  <2>1. ~undone /\ ~intended => ~widget'.up /\ ~page'.interval
      BY <1>1, <1>3, <1>6 DEF HiddenInv, StaysHidden
  <2>2. ~undone /\ page.gone => FALSE
      BY <1>1, <1>2 DEF HiddenInv, StaysHidden, CnTypes, WidgetKnown
  <2>3. \A c \in {call} : c.kind # "init"
      BY <1>5
  <2>. QED BY <1>1, <1>3, <1>5, <2>1, <2>2, <2>3, HiddenKept
<1>13. HeardInv'
  <2>1. 0 \notin DOMAIN calls
      BY <1>1, CallFields
  <2>. QED BY <1>1, <1>3, <1>5, <1>6, <2>1, HeardKept
<1>. QED BY <1>10, <1>11, <1>12, <1>13 DEF CnInv

\* Showing only asks for the start, unless that was asked for.
LEMMA ShowWidgetInv ==
    ASSUME CnInv, ShowWidget
    PROVE  CnInv'
<1>1. CnTypes /\ WholeInv /\ HiddenInv /\ HeardInv
    BY DEF CnInv
<1>2. /\ Acts /\ ~page.gone /\ intended' = TRUE /\ principal' = principal /\ undone' = FALSE
      /\ UNCHANGED server /\ soon' = soon /\ missed' = missed /\ widget' = widget
      /\ saved' = saved /\ crossed' = crossed
    BY DEF ShowWidget
<1>3. acts' \in 0..MaxActs
    BY <1>1, <1>2, ActCounted
<1>4. CASE page.rendered \/ page.starting
  <2>1. page' = page /\ calls' = calls /\ unheard' = unheard
      BY <1>4 DEF ShowWidget
  <2>2. Follows(0, {})
      BY <1>1, <2>1, OthersAll, OthersFollow
  <2>3. WidgetKnown'
      BY <1>1, <1>2, <2>1 DEF CnTypes, WidgetKnown
  <2>4. CnTypes'
    <3>1. /\ page' \in Pages /\ page'.ticket \in 0..Len(owners)
          /\ page'.cursor \in 0..Len(posts) /\ widget' \in Widgets
          /\ principal' \in Principals /\ saved' \in 0..Len(owners) /\ soon' \in Nat
          /\ missed' \subseteq DOMAIN posts /\ crossed' \in BOOLEAN
        BY <1>1, <1>2, <2>1, CnFields
    <3>2. \A c \in {} : CallKnown(c)
        OBVIOUS
    <3>3. intended' \in BOOLEAN /\ undone' \in BOOLEAN
        BY <1>2
    <3>. QED BY <1>1, <1>2, <1>3, <2>2, <2>3, <3>1, <3>2, <3>3, TypesKept
  <2>5. WholeInv'
      BY <1>1, <1>2, <2>1 DEF WholeInv, Whole, NothingIsMissed, HiddenRests, OpensOnce, SendsOnce,
         LoadsContinue, ShownTo, Opening, Loading, Sending, Agents, PostedIn, server
  <2>6. HiddenInv'
      BY <1>2, <2>1 DEF HiddenInv, StaysHidden
  <2>7. HeardInv'
      BY <1>1, <1>2, <2>1 DEF HeardInv, FlagsFall, Awaited
  <2>. QED BY <2>4, <2>5, <2>6, <2>7 DEF CnInv
<1>5. CASE ~(page.rendered \/ page.starting)
  <2>1. /\ page' = [page EXCEPT !.starting = TRUE]
        /\ Request(calls, NewCallOf("init", 0, 0))
      BY <1>5 DEF ShowWidget
  <2>2. /\ "init" \in Loads \cup Lists \cup {"send"} /\ "init" \notin Loads
        /\ 0 \in 0..Len(owners)
      BY <1>1, PostsTyped DEF Loads, Lists
  <2>3. PICK call \in Call : /\ Follows(0, {call}) /\ CallKnown(call) /\ call.kind = "init"
                             /\ call.who = principal
      BY <1>1, <2>1, <2>2, AskedFollows
  <2>4. /\ page' \in Pages
        /\ page'.ticket = page.ticket /\ page'.cursor = page.cursor
        /\ page'.interval = page.interval /\ page'.loading = page.loading
        /\ page'.listing = page.listing
        /\ page'.starting /\ page'.rendered = page.rendered
        /\ page'.gone = page.gone
      BY <1>1, <2>1, CnFields DEF Pages
  <2>5. WidgetKnown' /\ ~widget.up
      BY <1>1, <1>2, <1>5, <2>4 DEF CnTypes, WidgetKnown
  <2>6. CnTypes'
      BY <1>1, <1>2, <1>3, <2>3, <2>4, <2>5, CnFields, TypesKept
  <2>7. WholeInv'
    <3>1. SUFFICES ASSUME ~crossed PROVE Whole'
        BY <1>2 DEF WholeInv
    <3>2. NothingIsMissed /\ HiddenRests /\ posts' = posts
        BY <1>1, <1>2, <3>1 DEF WholeInv, Whole, server
    <3>3. /\ soon = 0 /\ ~page.interval /\ page.cursor = 0 /\ calls = <<>>
          /\ widget.shown = {}
        BY <1>1, <1>5, <2>5, <3>2 DEF HiddenRests, CnTypes, WidgetKnown
    <3>4. DOMAIN calls = {}
        BY <3>3
    <3>5. ASSUME NEW k \in DOMAIN calls'
          PROVE  calls'[k] = call /\ \A l \in DOMAIN calls' : l = k
      <4>1. \A l \in DOMAIN calls' : calls'[l] \in {call}
          BY <1>1, <2>3, <3>4, CallsOrigin
      <4>2. \A j \in DOMAIN calls : calls[j] \notin {call}
          BY <3>4
      <4>. QED BY <1>1, <2>3, <4>1, <4>2, FirstOfItsSort
    <3>6. NothingIsMissed'
        BY <1>2, <2>4, <3>2 DEF NothingIsMissed, Agents, PostedIn
    <3>7. HiddenRests'
        BY <1>2, <2>3, <2>4, <3>3, <3>5 DEF HiddenRests
    <3>8. OpensOnce'
        BY <1>2, <2>3, <2>4, <2>5, <3>3, <3>5 DEF OpensOnce, Loading, Loads
    <3>9. SendsOnce' /\ LoadsContinue'
        BY <2>3, <3>5 DEF SendsOnce, LoadsContinue, Sending, Loading, Loads
    <3>. QED BY <3>6, <3>7, <3>8, <3>9 DEF Whole
  <2>8. HiddenInv'
      BY <1>2, <2>4 DEF HiddenInv, StaysHidden
  <2>9. HeardInv'
    <3>1. 0 \notin DOMAIN calls
        BY <1>1, CallFields
    <3>. QED BY <1>1, <1>2, <2>3, <2>4, <3>1, HeardKept
  <2>. QED BY <2>6, <2>7, <2>8, <2>9 DEF CnInv
<1>. QED BY <1>4, <1>5

--------------------------------------------------------------------------------
(* What the page does: hide and reset leave the widget's requests behind.       *)

\* Orphaned requests stay in their order, for their tickets.
LEMMA OrphansStay ==
    ASSUME CnTypes, calls' = Orphaned
    PROVE  /\ calls' \in Seq(Call) /\ Len(calls') <= MaxCalls
           /\ DOMAIN calls' = DOMAIN calls
           /\ \A k \in DOMAIN calls' : CallKnown(calls'[k]) /\ calls'[k].kind = calls[k].kind
           /\ \A kinds : Awaited(kinds)' <=> Awaited(kinds)
<1>1. /\ calls \in Seq(Call) /\ Len(calls) \in Nat /\ Len(calls) <= MaxCalls
      /\ DOMAIN calls = 1..Len(calls)
      /\ \A i \in DOMAIN calls : calls[i] \in Call /\ CallKnown(calls[i])
    BY CallFields
<1>2. calls' = [i \in 1..Len(calls) |-> [calls[i] EXCEPT !.mine = FALSE]]
    BY <1>1 DEF Orphaned
<1>3. ASSUME NEW k \in 1..Len(calls)
      PROVE  /\ [calls[k] EXCEPT !.mine = FALSE] \in Call
             /\ CallKnown([calls[k] EXCEPT !.mine = FALSE])
             /\ [calls[k] EXCEPT !.mine = FALSE].kind = calls[k].kind
    BY <1>1 DEF Call, CallKnown
<1>4. calls' \in [1..Len(calls) -> Call] /\ DOMAIN calls' = DOMAIN calls
    BY <1>1, <1>2, <1>3
<1>5. calls' \in Seq(Call) /\ Len(calls') = Len(calls)
    BY <1>1, <1>2, <1>3, <1>4
<1>6. \A k \in DOMAIN calls' : CallKnown(calls'[k]) /\ calls'[k].kind = calls[k].kind
    BY <1>1, <1>2, <1>3
<1>7. \A kinds : Awaited(kinds)' <=> Awaited(kinds)
    BY <1>4, <1>6 DEF Awaited
<1>. QED BY <1>1, <1>4, <1>5, <1>6, <1>7

\* A widget that is gone with nothing awaited shows nothing, and will not.
LEMMA ConversationLeft ==
    ASSUME CnTypes, posts' = posts, widget' = NoWidget,
           soon' = 0, ~page'.interval, page'.cursor = 0, calls' = <<>>
    PROVE  Whole'
<1>1. Agents(PostedIn(page.ticket, 0, page.cursor))' = {}
    BY NothingBefore DEF Agents, PostedIn
<1>2. NothingIsMissed'
    BY <1>1 DEF NothingIsMissed, NoWidget
<1>3. HiddenRests' /\ OpensOnce' /\ SendsOnce' /\ LoadsContinue'
    BY DEF HiddenRests, OpensOnce, SendsOnce, LoadsContinue
<1>. QED BY <1>2, <1>3 DEF Whole

\* A widget that is down shows and sends nothing.
LEMMA NoWidgetFacts ==
    /\ NoWidget \in Widgets /\ ~NoWidget.up
    /\ NoWidget.list = {} /\ NoWidget.shown = {} /\ ~NoWidget.sending
BY DEF NoWidget, Widgets

\* Hiding stops the timers and orphans what the widget awaited.
LEMMA HideWidgetInv ==
    ASSUME CnInv, HideWidget
    PROVE  CnInv'
<1>1. CnTypes /\ WholeInv /\ HiddenInv /\ HeardInv
    BY DEF CnInv
<1>2. /\ Acts /\ ~page.gone /\ intended' = FALSE
      /\ page' = [page EXCEPT !.interval = FALSE, !.rendered = FALSE, !.starting = FALSE,
                              !.cursor = 0]
      /\ widget' = NoWidget /\ calls' = Orphaned
      /\ crossed' = (calls # <<>> \/ soon > 0) /\ undone' = Awaited({"init"})
      /\ UNCHANGED server /\ soon' = soon /\ missed' = missed /\ principal' = principal
      /\ saved' = saved /\ unheard' = unheard
    BY DEF HideWidget
<1>3. acts' \in 0..MaxActs /\ 0 \in 0..MaxPosts /\ 0 \in 0..Len(posts)
    BY <1>1, <1>2, ActCounted, CnConstants, PostsTyped
<1>4. /\ page' \in Pages
      /\ page'.ticket = page.ticket /\ page'.cursor = 0
      /\ ~page'.interval /\ page'.loading = page.loading /\ page'.listing = page.listing
      /\ ~page'.starting /\ page'.gone = page.gone
    BY <1>1, <1>2, <1>3, CnFields DEF Pages
<1>5. /\ calls' \in Seq(Call) /\ Len(calls') <= MaxCalls
      /\ DOMAIN calls' = DOMAIN calls
      /\ \A k \in DOMAIN calls' : CallKnown(calls'[k]) /\ calls'[k].kind = calls[k].kind
      /\ \A kinds : Awaited(kinds)' <=> Awaited(kinds)
    BY <1>1, <1>2, OrphansStay
<1>6. WidgetKnown'
    BY <1>2, <1>4, NoWidgetFacts DEF WidgetKnown
<1>7. /\ crossed' \in BOOLEAN /\ undone' \in BOOLEAN /\ intended' \in BOOLEAN
      /\ unheard' \in BOOLEAN
  <2>1. undone' \in BOOLEAN
      BY <1>2, Zenon DEF Awaited
  <2>2. crossed' \in BOOLEAN
      BY <1>2, Zenon
  <2>. QED BY <1>1, <1>2, <2>1, <2>2, CnFields
<1>8. CnTypes'
  <2>1. widget' \in Widgets
      BY <1>2, NoWidgetFacts
  <2>2. /\ page'.ticket \in 0..Len(owners) /\ principal' \in Principals
        /\ saved' \in 0..Len(owners) /\ soon' \in Nat /\ missed' \subseteq DOMAIN posts
      BY <1>1, <1>2, <1>4, CnFields
  <2>. QED BY <1>1, <1>2, <1>3, <1>4, <1>5, <1>6, <1>7, <2>1, <2>2, TypesHold
<1>9. WholeInv'
  <2>1. SUFFICES ASSUME ~crossed' PROVE Whole'
      BY DEF WholeInv
  <2>2. calls = <<>> /\ soon = 0
    <3>1. calls = <<>> /\ ~(soon > 0)
        BY <1>2, <2>1, Zenon
    <3>. QED BY <1>1, <3>1, CnFields
  <2>3. calls' = <<>>
      BY <1>2, <2>2 DEF Orphaned
  <2>. QED BY <1>1, <1>2, <1>4, <2>2, <2>3, ConversationLeft DEF server
<1>10. HiddenInv'
    BY <1>2, <1>4, <1>5, NoWidgetFacts DEF HiddenInv, StaysHidden
<1>11. HeardInv'
    BY <1>1, <1>2, <1>4, <1>5 DEF HeardInv, FlagsFall
<1>. QED BY <1>8, <1>9, <1>10, <1>11 DEF CnInv

\* A reset forgets the ticket, the widget and the timers.
LEMMA ResetConversationsInv ==
    ASSUME CnInv, ResetConversations
    PROVE  CnInv'
<1>1. CnTypes /\ WholeInv /\ HiddenInv /\ HeardInv
    BY DEF CnInv
<1>2. /\ Acts /\ ~page.gone /\ intended' = FALSE
      /\ page' = [page EXCEPT !.ticket = 0, !.cursor = 0, !.interval = FALSE, !.gone = TRUE]
      /\ widget' = NoWidget /\ calls' = Orphaned /\ saved' = 0
      /\ undone' = Awaited({"send", "init", "reconcile"})
      /\ crossed' = (calls # <<>> \/ soon > 0)
      /\ UNCHANGED server /\ soon' = soon /\ missed' = missed /\ principal' = principal
      /\ unheard' = unheard
    BY DEF ResetConversations
<1>3. /\ acts' \in 0..MaxActs /\ 0 \in 0..MaxPosts /\ 0 \in 0..Len(posts)
      /\ 0 \in 0..Len(owners) /\ 0 \in TicketIds
    BY <1>1, <1>2, ActCounted, CnConstants, PostsTyped
<1>4. /\ page' \in Pages
      /\ page'.ticket = 0 /\ page'.cursor = 0
      /\ ~page'.interval /\ page'.loading = page.loading /\ page'.listing = page.listing
      /\ page'.starting = page.starting /\ page'.rendered = page.rendered
    BY <1>1, <1>2, <1>3, CnFields DEF Pages
<1>5. /\ calls' \in Seq(Call) /\ Len(calls') <= MaxCalls
      /\ DOMAIN calls' = DOMAIN calls
      /\ \A k \in DOMAIN calls' : CallKnown(calls'[k]) /\ calls'[k].kind = calls[k].kind
      /\ \A kinds : Awaited(kinds)' <=> Awaited(kinds)
    BY <1>1, <1>2, OrphansStay
<1>6. WidgetKnown'
    BY <1>2, <1>4, NoWidgetFacts DEF WidgetKnown
<1>7. /\ crossed' \in BOOLEAN /\ undone' \in BOOLEAN /\ intended' \in BOOLEAN
      /\ unheard' \in BOOLEAN
  <2>1. undone' \in BOOLEAN
      BY <1>2, Zenon DEF Awaited
  <2>2. crossed' \in BOOLEAN
      BY <1>2, Zenon
  <2>. QED BY <1>1, <1>2, <2>1, <2>2, CnFields
<1>8. CnTypes'
  <2>1. widget' \in Widgets
      BY <1>2, NoWidgetFacts
  <2>2. /\ principal' \in Principals
        /\ saved' \in 0..Len(owners) /\ soon' \in Nat /\ missed' \subseteq DOMAIN posts
      BY <1>1, <1>2, <1>3, CnFields
  <2>. QED BY <1>1, <1>2, <1>3, <1>4, <1>5, <1>6, <1>7, <2>1, <2>2, TypesHold
<1>9. WholeInv'
  <2>1. SUFFICES ASSUME ~crossed' PROVE Whole'
      BY DEF WholeInv
  <2>2. calls = <<>> /\ soon = 0
    <3>1. calls = <<>> /\ ~(soon > 0)
        BY <1>2, <2>1, Zenon
    <3>. QED BY <1>1, <3>1, CnFields
  <2>3. calls' = <<>>
      BY <1>2, <2>2 DEF Orphaned
  <2>. QED BY <1>1, <1>2, <1>4, <2>2, <2>3, ConversationLeft DEF server
<1>10. HiddenInv'
  <2>1. ASSUME ~undone' PROVE ~Awaited({"init"}) /\ ~Awaited({"send", "init", "reconcile"})
      BY <1>2, <2>1 DEF Awaited
  <2>2. ASSUME ~undone' PROVE ~Awaited({"init"})' /\ ~Awaited({"send", "init", "reconcile"})'
      BY <1>5, <2>1, <2>2
  <2>. QED BY <1>2, <1>4, <2>2, NoWidgetFacts DEF HiddenInv, StaysHidden
<1>11. HeardInv'
    BY <1>1, <1>2, <1>4, <1>5 DEF HeardInv, FlagsFall
<1>. QED BY <1>8, <1>9, <1>10, <1>11 DEF CnInv

--------------------------------------------------------------------------------
(* The user turns to another conversation, or is somebody else.                 *)

\* A blank widget shows nothing.
LEMMA BlankFacts ==
    ASSUME CnTypes
    PROVE  /\ Blank \in Widgets /\ Blank.up = widget.up /\ Blank.list = widget.list
           /\ Blank.shown = {} /\ Blank.sending = widget.sending
BY CnFields DEF Blank, Widgets

\* When nothing is awaited that opens or sends, nothing crosses what is turned to.
LEMMA NothingCrosses ==
    ASSUME ~Awaited({"send", "init", "reconcile"})'
    PROVE  OpensOnce' /\ SendsOnce'
<1>1. \A k \in DOMAIN calls' : calls'[k].kind \notin {"send", "init", "reconcile"}
    BY DEF Awaited
<1>. QED BY <1>1 DEF OpensOnce, SendsOnce, Opening, Sending

\* The widget is up only where it was meant to be.
LEMMA UpIsMeant ==
    ASSUME CnTypes, HiddenInv, widget.up
    PROVE  ~undone => intended /\ ~page.gone
BY DEF HiddenInv, StaysHidden, CnTypes, WidgetKnown

\* A ticket that is selected is loaded from the start.
LEMMA SelectTicketInv ==
    ASSUME CnInv, NEW t \in widget.list, SelectTicket(t)
    PROVE  CnInv'
<1>1. CnTypes /\ WholeInv /\ HiddenInv /\ HeardInv
    BY DEF CnInv
<1>2. /\ Acts /\ widget.up /\ principal' = principal
      /\ page' = [page EXCEPT !.ticket = t, !.cursor = 0, !.view = "messages"]
      /\ saved' = IF t = page.ticket THEN saved ELSE t
      /\ widget' = Blank
      /\ crossed' = (\/ Awaited({"send", "init", "reconcile"})
                     \/ Continues({c \in Range(calls) : c.ticket = t}))
      /\ Request(calls, NewCallOf("load", t, 0))
    BY DEF SelectTicket
<1>3. /\ UNCHANGED server /\ soon' = soon /\ intended' = intended
      /\ undone' = undone /\ missed' = missed
    BY DEF SelectTicket, actKeeps
<1>4. t \in 1..Len(owners) /\ t \in 0..Len(owners) /\ t \in TicketIds
  <2>1. t \in 1..Len(owners)
      BY <1>1, CnFields, PostsTyped DEF Widgets
  <2>. QED BY <1>1, <2>1, PostsTyped, CnConstants DEF TicketIds
<1>5. "load" \in Loads \cup Lists \cup {"send"} /\ t # 0
    BY <1>4 DEF Loads
<1>6. PICK call \in Call : /\ Follows(0, {call}) /\ CallKnown(call) /\ call.kind = "load"
                           /\ call.after = 0
    BY <1>1, <1>2, <1>4, <1>5, AskedFollows
<1>7. /\ acts' \in 0..MaxActs /\ 0 \in 0..MaxPosts /\ 0 \in 0..Len(posts)
    BY <1>1, <1>2, ActCounted, CnConstants, PostsTyped
<1>8. /\ page' \in Pages
      /\ page'.ticket = t /\ page'.cursor = 0
      /\ page'.interval = page.interval /\ page'.loading = page.loading
      /\ page'.listing = page.listing /\ page'.starting = page.starting
      /\ page'.rendered = page.rendered /\ page'.gone = page.gone
    BY <1>1, <1>2, <1>4, <1>7, CnFields DEF Pages
<1>9. /\ widget' \in Widgets /\ widget'.up /\ widget'.shown = {}
    BY <1>1, <1>2, BlankFacts
<1>10. WidgetKnown'
    BY <1>1, <1>2, <1>3, <1>8, <1>9 DEF CnTypes, WidgetKnown
<1>11. crossed' \in BOOLEAN
    BY <1>2, Zenon
<1>12. CnTypes'
  <2>1. saved' \in 0..Len(owners)
      BY <1>1, <1>2, <1>4, CnFields
  <2>2. /\ principal' \in Principals /\ soon' \in Nat /\ missed' \subseteq DOMAIN posts
        /\ intended' \in BOOLEAN /\ undone' \in BOOLEAN
      BY <1>1, <1>2, <1>3, CnFields
  <2>. QED BY <1>1, <1>3, <1>4, <1>6, <1>7, <1>8, <1>9, <1>10, <1>11, <2>1, <2>2, TypesKept
<1>13. WholeInv'
  <2>1. SUFFICES ASSUME ~crossed' PROVE Whole'
      BY DEF WholeInv
  <2>2. /\ ~Awaited({"send", "init", "reconcile"})
        /\ ~Continues({c \in Range(calls) : c.ticket = t})
      BY <1>2, <2>1, Zenon
  <2>3. ~Awaited({"send", "init", "reconcile"})'
      BY <1>1, <1>6, <2>2, NotAwaited
  <2>4. ASSUME NEW k \in DOMAIN calls', calls'[k].ticket = page'.ticket
        PROVE  calls'[k].after = 0
    <3>1. CASE calls'[k] = call
        BY <1>6, <3>1
    <3>2. ASSUME NEW j \in DOMAIN calls, calls'[k] = calls[j]
          PROVE  calls'[k].after = 0
      <4>1. calls[j] \in {c \in Range(calls) : c.ticket = t}
          BY <1>8, <2>4, <3>2 DEF Range
      <4>2. ~(calls[j].after > 0)
          BY <2>2, <4>1 DEF Continues
      <4>3. calls[j].after \in Nat
          BY <1>1, CallFields, PostsTyped
      <4>. QED BY <3>2, <4>2, <4>3
    <3>. QED BY <1>1, <1>6, <3>1, <3>2, CallsOrigin
  <2>. QED BY <1>1, <1>3, <1>8, <1>9, <2>3, <2>4, NothingCrosses, ConversationTurned DEF server
<1>14. HiddenInv'
  <2>1. ~undone => intended /\ ~page.gone
      BY <1>1, <1>2, UpIsMeant
  <2>. QED BY <1>1, <1>3, <1>6, <1>8, <2>1, HiddenKept
<1>15. HeardInv'
  <2>1. 0 \notin DOMAIN calls
      BY <1>1, CallFields
  <2>. QED BY <1>1, <1>6, <1>8, <1>9, <2>1, HeardKept
<1>. QED BY <1>12, <1>13, <1>14, <1>15 DEF CnInv

\* A new conversation has no ticket until its message is answered.
LEMMA NewConversationInv ==
    ASSUME CnInv, NewConversation
    PROVE  CnInv'
<1>1. CnTypes /\ WholeInv /\ HiddenInv /\ HeardInv
    BY DEF CnInv
<1>2. /\ Acts /\ widget.up /\ principal' = principal /\ saved' = 0
      /\ page' = [page EXCEPT !.ticket = 0, !.cursor = 0, !.view = "messages"]
      /\ widget' = Blank
      /\ crossed' = Awaited({"send", "init", "reconcile"})
      /\ calls' = calls /\ unheard' = unheard
    BY DEF NewConversation
<1>3. /\ UNCHANGED server /\ soon' = soon /\ intended' = intended
      /\ undone' = undone /\ missed' = missed
    BY DEF NewConversation, actKeeps
<1>4. Follows(0, {})
    BY <1>1, <1>2, OthersAll, OthersFollow
<1>5. /\ acts' \in 0..MaxActs /\ 0 \in 0..MaxPosts /\ 0 \in 0..Len(posts)
      /\ 0 \in TicketIds /\ 0 \in 0..Len(owners)
    BY <1>1, <1>2, ActCounted, CnConstants, PostsTyped
<1>6. /\ page' \in Pages
      /\ page'.ticket = 0 /\ page'.cursor = 0
      /\ page'.interval = page.interval /\ page'.loading = page.loading
      /\ page'.listing = page.listing /\ page'.starting = page.starting
      /\ page'.rendered = page.rendered /\ page'.gone = page.gone
    BY <1>1, <1>2, <1>5, CnFields DEF Pages
<1>7. /\ widget' \in Widgets /\ widget'.up /\ widget'.shown = {}
    BY <1>1, <1>2, BlankFacts
<1>8. WidgetKnown'
    BY <1>1, <1>2, <1>3, <1>6, <1>7 DEF CnTypes, WidgetKnown
<1>9. crossed' \in BOOLEAN
    BY <1>2, Zenon DEF Awaited
<1>10. CnTypes'
  <2>1. /\ principal' \in Principals /\ soon' \in Nat /\ missed' \subseteq DOMAIN posts
        /\ intended' \in BOOLEAN /\ undone' \in BOOLEAN /\ saved' \in 0..Len(owners)
      BY <1>1, <1>2, <1>3, <1>5, CnFields
  <2>2. \A c \in {} : CallKnown(c)
      OBVIOUS
  <2>. QED BY <1>1, <1>3, <1>4, <1>5, <1>6, <1>7, <1>8, <1>9, <2>1, <2>2, TypesKept
<1>11. WholeInv'
  <2>1. SUFFICES ASSUME ~crossed' PROVE Whole'
      BY DEF WholeInv
  <2>2. ~Awaited({"send", "init", "reconcile"})'
      BY <1>2, <2>1 DEF Awaited
  <2>3. OpensOnce' /\ SendsOnce'
      BY <2>2, NothingCrosses
  <2>4. ASSUME NEW k \in DOMAIN calls', calls'[k].kind \in Loads, calls'[k].ticket = 0
        PROVE  FALSE
      BY <1>1, <1>2, <2>4, CallFields DEF CallKnown
  <2>. QED BY <1>1, <1>3, <1>6, <1>7, <2>3, <2>4, ConversationTurned DEF server
<1>12. HiddenInv'
  <2>1. ~undone => intended /\ ~page.gone
      BY <1>1, <1>2, UpIsMeant
  <2>. QED BY <1>1, <1>3, <1>4, <1>6, <2>1, HiddenKept
<1>13. HeardInv'
  <2>1. 0 \notin DOMAIN calls
      BY <1>1, CallFields
  <2>. QED BY <1>1, <1>4, <1>6, <1>7, <2>1, HeardKept
<1>. QED BY <1>10, <1>11, <1>12, <1>13 DEF CnInv

\* An identity that changes crosses what the old one sent or opened.
LEMMA ChangeIdentityInv ==
    ASSUME CnInv, ChangeIdentity
    PROVE  CnInv'
<1>1. CnTypes /\ WholeInv /\ HiddenInv /\ HeardInv
    BY DEF CnInv
<1>2. /\ Acts /\ ~page.gone /\ principal' \in Principals /\ saved' = 0 /\ widget' = Blank
      /\ page' = [page EXCEPT !.ticket = 0, !.cursor = 0,
                              !.view = IF widget.up /\ widget.list # {} THEN "tickets" ELSE @]
      /\ Request(calls, [NewCallOf("reconcile", 0, 0) EXCEPT !.who = principal'])
    BY DEF ChangeIdentity
<1>3. /\ UNCHANGED server /\ soon' = soon /\ intended' = intended
      /\ undone' = undone /\ missed' = missed
    BY DEF ChangeIdentity, actKeeps
<1>. DEFINE mine == {c \in Range(calls) : c.who = principal'}
<1>4. crossed' = (Awaited({"send"}) \/ ~widget.up \/ Continues(mine) \/ Opens(mine))
    BY DEF ChangeIdentity
<1>. DEFINE call == [NewCallOf("reconcile", 0, 0) EXCEPT !.who = principal']
<1>5. call \in Call /\ CallKnown(call)
    BY <1>1, <1>2, ReconcileTyped
<1>6. call.kind = "reconcile" /\ call.who = principal'
    BY DEF NewCallOf
<1>7. Follows(0, {call})
    BY <1>1, <1>2, <1>5, OthersAll, RequestFollows
<1>. HIDE DEF call
<1>8. /\ acts' \in 0..MaxActs /\ 0 \in 0..MaxPosts /\ 0 \in 0..Len(posts)
      /\ 0 \in TicketIds /\ 0 \in 0..Len(owners)
    BY <1>1, <1>2, ActCounted, CnConstants, PostsTyped
<1>9. /\ page' \in Pages
      /\ page'.ticket = 0 /\ page'.cursor = 0
      /\ page'.interval = page.interval /\ page'.loading = page.loading
      /\ page'.listing = page.listing /\ page'.starting = page.starting
      /\ page'.rendered = page.rendered /\ page'.gone = page.gone
  <2>1. page \in Pages
      BY <1>1, CnFields
  <2>2. CASE widget.up /\ widget.list # {}
      BY <1>2, <1>8, <2>1, <2>2 DEF Pages
  <2>3. CASE ~(widget.up /\ widget.list # {})
      BY <1>2, <1>8, <2>1, <2>3 DEF Pages
  <2>. QED BY <2>2, <2>3
<1>10. /\ widget' \in Widgets /\ widget'.up = widget.up /\ widget'.list = widget.list
       /\ widget'.shown = {} /\ widget'.sending = widget.sending
    BY <1>1, <1>2, BlankFacts
<1>11. WidgetKnown'
    BY <1>1, <1>3, <1>9, <1>10 DEF CnTypes, WidgetKnown
<1>12. crossed' \in BOOLEAN
    BY <1>4, Zenon
<1>13. CnTypes'
  <2>1. /\ soon' \in Nat /\ missed' \subseteq DOMAIN posts /\ saved' \in 0..Len(owners)
        /\ intended' \in BOOLEAN /\ undone' \in BOOLEAN
      BY <1>1, <1>2, <1>3, <1>8, CnFields
  <2>2. page' \in Pages /\ page'.ticket \in 0..Len(owners) /\ page'.cursor \in 0..Len(posts)
      BY <1>8, <1>9
  <2>3. widget' \in Widgets /\ acts' \in 0..MaxActs /\ principal' \in Principals
      BY <1>2, <1>8, <1>10
  <2>4. \A c \in {call} : CallKnown(c)
      BY <1>5
  <2>. QED BY <1>1, <1>3, <1>7, <1>11, <1>12, <2>1, <2>2, <2>3, <2>4, TypesKept
<1>14. WholeInv'
  <2>1. SUFFICES ASSUME ~crossed' PROVE Whole'
      BY DEF WholeInv
  <2>2. ~Awaited({"send"}) /\ widget.up /\ ~Continues(mine) /\ ~Opens(mine)
      BY <1>4, <2>1, Zenon
  <2>3. ASSUME NEW j \in DOMAIN calls, calls[j].who = principal'
        PROVE  calls[j].after = 0 /\ calls[j].kind \notin {"init", "reconcile"}
    <3>1. calls[j] \in mine
        BY <2>3 DEF Range
    <3>2. ~(calls[j].after > 0) /\ calls[j].kind \notin {"init", "reconcile"}
        BY <2>2, <3>1 DEF Continues, Opens
    <3>3. calls[j].after \in Nat
        BY <1>1, CallFields, PostsTyped
    <3>. QED BY <3>2, <3>3
  <2>. HIDE DEF mine
  <2>4. ASSUME NEW k \in DOMAIN calls', calls'[k].kind \in Loads, calls'[k].who = principal'
        PROVE  calls'[k].after = 0
    <3>1. calls'[k] # call
        BY <1>6, <2>4 DEF Loads
    <3>. QED BY <1>1, <1>7, <2>3, <2>4, <3>1, CallsOrigin
  <2>5. OpensOnce'
    <3>. DEFINE sort == {c \in Call : c.kind \in {"init", "reconcile"} /\ c.who = principal'}
    <3>1. /\ \A j \in DOMAIN calls : calls[j] \notin sort
          /\ \A l \in DOMAIN calls' : calls'[l] \in sort <=>
                calls'[l].kind \in {"init", "reconcile"} /\ calls'[l].who = principal'
        BY <1>7, <2>3, NextCalls
    <3>. HIDE DEF sort
    <3>2. ASSUME NEW k \in DOMAIN calls', calls'[k] \in sort
          PROVE  \A l \in DOMAIN calls' : calls'[l] \in sort => l = k
        BY <1>1, <1>7, <3>1, <3>2, FirstOfItsSort
    <3>. QED BY <1>9, <1>10, <2>4, <3>1, <3>2 DEF OpensOnce, Opening, Loading
  <2>6. SendsOnce'
    <3>1. ~Awaited({"send"})'
        BY <1>1, <1>6, <1>7, <2>2, NotAwaited
    <3>. QED BY <3>1 DEF SendsOnce, Sending, Awaited
  <2>. QED BY <1>1, <1>3, <1>9, <1>10, <2>2, <2>4, <2>5, <2>6, ConversationTurned DEF server
<1>15. HiddenInv'
  <2>1. ~undone /\ ~intended => ~widget'.up /\ ~page'.interval
      BY <1>1, <1>9, <1>10 DEF HiddenInv, StaysHidden
  <2>2. \A c \in {call} : c.kind # "init"
      BY <1>6
  <2>. QED BY <1>1, <1>2, <1>3, <1>7, <1>9, <2>1, <2>2, HiddenKept
<1>16. HeardInv'
  <2>1. 0 \notin DOMAIN calls
      BY <1>1, CallFields
  <2>. QED BY <1>1, <1>7, <1>9, <1>10, <2>1, HeardKept
<1>. QED BY <1>13, <1>14, <1>15, <1>16 DEF CnInv

--------------------------------------------------------------------------------
(* Answers that open a conversation.                                            *)

\* A widget that is shown on an answer shows what the page has.
LEMMA ConversationOpened ==
    ASSUME CnTypes, CnTypes', Whole, UNCHANGED server, NEW i \in DOMAIN calls, NEW news,
           Follows(i, news), Opening(calls[i]) \/ ~widget.up,
           principal' = principal, page'.cursor = page.cursor,
           widget'.up, widget'.shown = widget.shown,
           \A c \in news : ~Opening(c) /\ ~Sending(c) /\ (Loading(c) => c.after = page.cursor)
    PROVE  Whole'
<1>1. HiddenRests /\ OpensOnce /\ SendsOnce /\ posts' = posts
    BY DEF Whole, server
<1>2. /\ page.cursor = 0 /\ widget.shown = {}
      /\ \A j \in DOMAIN calls : /\ j # i => ~Opening(calls[j])
                                 /\ ~Sending(calls[j])
                                 /\ Loading(calls[j]) => calls[j].after = 0
  <2>1. CASE Opening(calls[i])
      BY <1>1, <2>1 DEF OpensOnce, SendsOnce
  <2>2. CASE ~widget.up
    <3>1. page.cursor = 0 /\ widget.shown = {}
        BY <1>1, <2>2 DEF HiddenRests, CnTypes, WidgetKnown
    <3>2. \A j \in DOMAIN calls : calls[j].kind = "init" /\ j = i
        BY <1>1, <2>2 DEF HiddenRests
    <3>. QED BY <3>1, <3>2 DEF Sending, Loading, Loads
  <2>. QED BY <2>1, <2>2
<1>3. OpensOnce'
    BY <1>1, <1>2, OpensKept
<1>4. SendsOnce'
    BY <1>1, <1>2, SendsKept
<1>5. ASSUME NEW k \in DOMAIN calls', Loading(calls'[k])
      PROVE  calls'[k].after = 0
    BY <1>2, <1>5, CallsOrigin
<1>. QED BY <1>1, <1>2, <1>3, <1>4, <1>5, ConversationTurned DEF Loading

\* The answer to a reconciliation may move the page to another ticket.
LEMMA ReconcileAnsweredInv ==
    ASSUME CnInv, NEW i \in DOMAIN calls, ReconcileAnswered(i)
    PROVE  CnInv'
<1>1. CnTypes /\ WholeInv /\ HiddenInv /\ HeardInv
    BY DEF CnInv
<1>2. calls[i].kind = "reconcile" /\ UNCHANGED <<answerKeeps, missed>>
    BY DEF ReconcileAnswered
<1>3. /\ UNCHANGED server /\ principal' = principal /\ soon' = soon /\ acts' = acts
      /\ intended' = intended /\ crossed' = crossed /\ undone' = undone /\ missed' = missed
    BY <1>2 DEF answerKeeps
<1>. DEFINE others == RemoveAt(calls, i)
<1>4. \E found \in SUBSET DOMAIN owners :
         IF calls[i].who # principal
         THEN calls' = others /\ UNCHANGED <<page, widget, saved, unheard>>
         ELSE LET p == Applied(page, found) IN
              /\ page' = p
              /\ widget' = IF widget.up THEN [widget EXCEPT !.list = found] ELSE widget
              /\ saved' = IF found # {} /\ p.ticket # 0 THEN p.ticket ELSE saved
              /\ IF p.view = "messages" /\ p.ticket # 0
                 THEN Request(others, NewCallOf("load", p.ticket, p.cursor))
                 ELSE calls' = others /\ UNCHANGED unheard
    BY TicketsFound DEF ReconcileAnswered
<1>5. Others(others, i)
    BY <1>1, OthersWithout
<1>. HIDE DEF others
<1>6. HiddenRests => widget.up
    BY <1>2, OthersAreRendered
<1>7. CASE calls[i].who # principal
  <2>1. /\ calls' = others /\ page' = page /\ widget' = widget /\ saved' = saved
        /\ unheard' = unheard
      BY <1>4, <1>7
  <2>2. Follows(i, {})
      BY <1>1, <1>5, <2>1, OthersFollow
  <2>3. WidgetKnown'
      BY <1>1, <1>3, <2>1, WidgetKnownKept
  <2>4. CnTypes'
    <3>1. /\ page' \in Pages /\ page'.ticket \in 0..Len(owners)
          /\ page'.cursor \in 0..Len(posts) /\ widget' \in Widgets
          /\ principal' \in Principals /\ saved' \in 0..Len(owners) /\ soon' \in Nat
          /\ acts' \in 0..MaxActs /\ missed' \subseteq DOMAIN posts /\ crossed' \in BOOLEAN
          /\ intended' \in BOOLEAN /\ undone' \in BOOLEAN
        BY <1>1, <1>3, <2>1, CnFields
    <3>2. \A c \in {} : CallKnown(c)
        OBVIOUS
    <3>. QED BY <1>1, <1>3, <2>2, <2>3, <3>1, <3>2, TypesKept
  <2>5. WholeInv'
    <3>1. \A c \in {} :
             /\ ~Opening(c) /\ ~Sending(c)
             /\ Loading(c) => c.ticket = page.ticket /\ c.ticket # 0 /\ c.after = page.cursor
        OBVIOUS
    <3>. QED BY <1>1, <1>3, <1>6, <2>1, <2>2, <3>1, ConversationKept
  <2>6. HiddenInv'
    <3>1. ~undone /\ ~intended => ~widget'.up /\ ~page'.interval
        BY <1>1, <2>1 DEF HiddenInv, StaysHidden
    <3>2. ~undone /\ page.gone => saved' = 0
        BY <1>1, <2>1 DEF HiddenInv, StaysHidden
    <3>. QED BY <1>1, <1>3, <2>1, <2>2, <3>1, <3>2, HiddenKept
  <2>7. HeardInv'
      BY <1>1, <1>2, <2>1, <2>2, HeardKept
  <2>. QED BY <2>4, <2>5, <2>6, <2>7 DEF CnInv
<1>8. CASE calls[i].who = principal
  <2>1. PICK found \in SUBSET DOMAIN owners :
           LET p == Applied(page, found) IN
           /\ page' = p
           /\ widget' = IF widget.up THEN [widget EXCEPT !.list = found] ELSE widget
           /\ saved' = IF found # {} /\ p.ticket # 0 THEN p.ticket ELSE saved
           /\ IF p.view = "messages" /\ p.ticket # 0
              THEN Request(others, NewCallOf("load", p.ticket, p.cursor))
              ELSE calls' = others /\ UNCHANGED unheard
      BY <1>4, <1>8
  <2>2. /\ page' \in Pages /\ page'.ticket \in 0..Len(owners) /\ page'.cursor = page.cursor
        /\ page'.interval = page.interval /\ page'.loading = page.loading
        /\ page'.listing = page.listing /\ page'.starting = page.starting
        /\ page'.rendered = page.rendered /\ page'.gone = page.gone
    <3>1. /\ page \in Pages /\ page.ticket \in 0..Len(owners) /\ Len(owners) \in Nat
          /\ Len(owners) <= MaxPosts /\ found \in SUBSET (1..Len(owners))
        BY <1>1, CnFields, PostsTyped, CnConstants
    <3>. QED BY <2>1, <3>1, AppliedFacts
  <2>3. /\ saved' = IF found # {} /\ page'.ticket # 0 THEN page'.ticket ELSE saved
        /\ IF page'.view = "messages" /\ page'.ticket # 0
           THEN Request(others, NewCallOf("load", page'.ticket, page'.cursor))
           ELSE calls' = others /\ UNCHANGED unheard
      BY <2>1
  <2>4. /\ widget' \in Widgets /\ widget'.up = widget.up /\ widget'.shown = widget.shown
        /\ widget'.sending = widget.sending
        /\ widget.up \/ widget'.list = widget.list
    <3>1. widget \in Widgets
        BY <1>1, CnFields
    <3>2. CASE widget.up
        BY <2>1, <3>1, <3>2 DEF Widgets
    <3>3. CASE ~widget.up
        BY <2>1, <3>1, <3>3
    <3>. QED BY <3>2, <3>3
  <2>5. \E news \in SUBSET Call :
           /\ Follows(i, news)
           /\ \A c \in news : CallKnown(c) /\ c.kind = "load" /\ c.after = page.cursor
    <3>1. CASE page'.view = "messages" /\ page'.ticket # 0
      <4>1. PICK ticket \in 0..Len(owners) : ticket = page'.ticket /\ ticket # 0
          BY <2>2, <3>1
      <4>. DEFINE call == NewCallOf("load", ticket, page.cursor)
      <4>2. "load" \in Loads \cup Lists \cup {"send"} /\ page.cursor \in 0..Len(posts)
          BY <1>1, CnFields DEF Loads
      <4>3. call \in Call /\ CallKnown(call)
          BY <1>1, <4>1, <4>2, NewCallTyped
      <4>4. call.kind = "load" /\ call.after = page.cursor
          BY DEF NewCallOf
      <4>5. Request(others, call)
          BY <2>2, <2>3, <3>1, <4>1
      <4>. HIDE DEF call
      <4>6. Follows(i, {call})
          BY <1>1, <1>5, <4>3, <4>5, RequestFollows
      <4>7. {call} \in SUBSET Call
          BY <4>3
      <4>. QED BY <4>3, <4>4, <4>6, <4>7
    <3>2. CASE ~(page'.view = "messages" /\ page'.ticket # 0)
      <4>1. Follows(i, {})
          BY <1>1, <1>5, <2>3, <3>2, OthersFollow
      <4>. QED BY <4>1
    <3>. QED BY <3>1, <3>2
  <2>6. PICK news \in SUBSET Call :
           /\ Follows(i, news)
           /\ \A c \in news : CallKnown(c) /\ c.kind = "load" /\ c.after = page.cursor
      BY <2>5
  <2>7. WidgetKnown'
      BY <1>1, <1>3, <2>2, <2>4, WidgetKnownKept
  <2>8. CnTypes'
    <3>1. saved' \in 0..Len(owners)
        BY <1>1, <2>2, <2>3, CnFields
    <3>2. /\ page'.cursor \in 0..Len(posts)
          /\ principal' \in Principals /\ soon' \in Nat
          /\ acts' \in 0..MaxActs /\ missed' \subseteq DOMAIN posts /\ crossed' \in BOOLEAN
          /\ intended' \in BOOLEAN /\ undone' \in BOOLEAN
        BY <1>1, <1>3, <2>2, CnFields
    <3>. QED BY <1>1, <1>3, <2>2, <2>4, <2>6, <2>7, <3>1, <3>2, TypesKept
  <2>9. WholeInv'
    <3>1. SUFFICES ASSUME ~crossed PROVE Whole'
        BY <1>3 DEF WholeInv
    <3>2. Whole /\ widget.up /\ Opening(calls[i])
        BY <1>1, <1>2, <1>6, <1>8, <3>1 DEF WholeInv, Whole, Opening
    <3>3. \A c \in news : ~Opening(c) /\ ~Sending(c) /\ (Loading(c) => c.after = page.cursor)
        BY <2>6 DEF Opening, Sending
    <3>. QED BY <1>1, <1>3, <2>2, <2>4, <2>6, <2>8, <3>2, <3>3, ConversationOpened
  <2>10. HiddenInv'
    <3>1. ~undone /\ ~intended => ~widget'.up /\ ~page'.interval
        BY <1>1, <2>2, <2>4 DEF HiddenInv, StaysHidden
    <3>2. ~undone /\ page.gone => FALSE
        BY <1>1, <1>2 DEF HiddenInv, Awaited
    <3>3. \A c \in news : c.kind # "init"
        BY <2>6
    <3>. QED BY <1>1, <1>3, <2>2, <2>6, <3>1, <3>2, <3>3, HiddenKept
  <2>11. HeardInv'
      BY <1>1, <1>2, <2>2, <2>4, <2>6, HeardKept
  <2>. QED BY <2>8, <2>9, <2>10, <2>11 DEF CnInv
<1>. QED BY <1>7, <1>8

\* The answer to the start renders the widget, unless it was undone.
LEMMA InitAnsweredInv ==
    ASSUME CnInv, NEW i \in DOMAIN calls, InitAnswered(i)
    PROVE  CnInv'
<1>1. CnTypes /\ WholeInv /\ HiddenInv /\ HeardInv
    BY DEF CnInv
<1>2. calls[i].kind = "init" /\ UNCHANGED <<answerKeeps, missed>>
    BY DEF InitAnswered
<1>3. /\ UNCHANGED server /\ principal' = principal /\ soon' = soon /\ acts' = acts
      /\ intended' = intended /\ crossed' = crossed /\ undone' = undone /\ missed' = missed
    BY <1>2 DEF answerKeeps
<1>. DEFINE others == RemoveAt(calls, i)
            Started(found) == [Applied(page, found) EXCEPT !.rendered = TRUE, !.interval = TRUE]
<1>4. \E found \in SUBSET DOMAIN owners :
         /\ calls[i].who # principal => found = {}
         /\ widget' = IF widget.up THEN widget ELSE [NoWidget EXCEPT !.up = TRUE, !.list = found]
         /\ saved' = IF found # {} /\ Started(found).ticket # 0 THEN Started(found).ticket
                     ELSE saved
         /\ IF ~page.interval /\ MayPoll(Started(found)) THEN Poll(Started(found), others)
            ELSE page' = Started(found) /\ calls' = others /\ UNCHANGED unheard
  <2>1. PICK k \in calls[i].since..Len(posts), fails \in BOOLEAN :
         LET found == IF fails \/ calls[i].who # principal THEN {}
                      ELSE TicketsOf(calls[i].who, k)
         IN  /\ widget' = IF widget.up THEN widget
                          ELSE [NoWidget EXCEPT !.up = TRUE, !.list = found]
             /\ saved' = IF found # {} /\ Started(found).ticket # 0 THEN Started(found).ticket
                         ELSE saved
             /\ IF ~page.interval /\ MayPoll(Started(found)) THEN Poll(Started(found), others)
                ELSE page' = Started(found) /\ calls' = others /\ UNCHANGED unheard
      BY DEF InitAnswered
  <2>. DEFINE found == IF fails \/ calls[i].who # principal THEN {}
                       ELSE TicketsOf(calls[i].who, k)
  <2>2. found \in SUBSET DOMAIN owners /\ (calls[i].who # principal => found = {})
      BY TicketsFound
  <2>. HIDE DEF Started, others
  <2>. QED BY <2>1, <2>2
<1>5. Others(others, i)
    BY <1>1, OthersWithout
<1>. HIDE DEF Started, others
<1>6. PICK found \in SUBSET DOMAIN owners :
         /\ calls[i].who # principal => found = {}
         /\ widget' = IF widget.up THEN widget ELSE [NoWidget EXCEPT !.up = TRUE, !.list = found]
         /\ saved' = IF found # {} /\ Started(found).ticket # 0 THEN Started(found).ticket
                     ELSE saved
         /\ IF ~page.interval /\ MayPoll(Started(found)) THEN Poll(Started(found), others)
            ELSE page' = Started(found) /\ calls' = others /\ UNCHANGED unheard
    BY <1>4
<1>. DEFINE p == Started(found)
<1>7. /\ p \in Pages /\ p.ticket \in 0..Len(owners) /\ p.cursor = page.cursor
      /\ p.interval /\ p.loading = page.loading /\ p.listing = page.listing
      /\ p.starting = page.starting /\ p.rendered /\ p.gone = page.gone
      /\ found = {} => p.ticket = page.ticket
  <2>. DEFINE q == Applied(page, found)
  <2>1. /\ page \in Pages /\ page.ticket \in 0..Len(owners) /\ Len(owners) \in Nat
        /\ Len(owners) <= MaxPosts /\ found \in SUBSET (1..Len(owners))
      BY <1>1, CnFields, PostsTyped, CnConstants
  <2>2. /\ q \in Pages /\ q.ticket \in 0..Len(owners) /\ q.cursor = page.cursor
        /\ q.loading = page.loading /\ q.listing = page.listing
        /\ q.starting = page.starting /\ q.gone = page.gone
        /\ found = {} => q.ticket = page.ticket
      BY <2>1, AppliedFacts
  <2>3. p = [q EXCEPT !.rendered = TRUE, !.interval = TRUE]
      BY DEF Started
  <2>. HIDE DEF q
  <2>. QED BY <2>2, <2>3 DEF Pages
<1>8. Polled(p, i)
  <2>1. p.cursor \in 0..Len(posts)
      BY <1>1, <1>7, CnFields
  <2>2. CASE ~page.interval /\ MayPoll(p)
      BY <1>1, <1>5, <1>6, <1>7, <2>1, <2>2, ViewPolled
  <2>3. CASE ~(~page.interval /\ MayPoll(p))
    <3>1. page' = p /\ calls' = others /\ unheard' = unheard
        BY <1>6, <2>3
    <3>2. Follows(i, {})
        BY <1>1, <1>5, <3>1, OthersFollow
    <3>3. {} \in SUBSET Call
        OBVIOUS
    <3>. QED BY <1>7, <3>1, <3>2, <3>3 DEF Polled
  <2>. QED BY <2>2, <2>3
<1>9. PICK news \in SUBSET Call :
       /\ Follows(i, news)
       /\ page' \in Pages
       /\ page'.ticket = p.ticket /\ page'.cursor = p.cursor /\ page'.view = p.view
       /\ page'.interval = p.interval /\ page'.starting = p.starting
       /\ page'.rendered = p.rendered /\ page'.gone = p.gone
       /\ page'.loading => p.loading \/ \E c \in news : c.kind = "poll"
       /\ page'.listing => p.listing \/ \E c \in news : c.kind = "tickets"
       /\ \A c \in news :
             /\ CallKnown(c) /\ c.kind \in Polls
             /\ c.kind = "poll" => c.ticket = p.ticket /\ c.ticket # 0 /\ c.after = p.cursor
    BY <1>8 DEF Polled
<1>10. \A c \in news : /\ ~Opening(c) /\ ~Sending(c) /\ (Loading(c) => c.kind = "poll")
                       /\ c.kind \notin {"send", "init", "reconcile"}
    BY <1>9, PollsOnlyAsk
<1>11. /\ saved' = IF found # {} /\ p.ticket # 0 THEN p.ticket ELSE saved
       /\ widget' = IF widget.up THEN widget ELSE [NoWidget EXCEPT !.up = TRUE, !.list = found]
    BY <1>6
<1>. HIDE DEF p
<1>12. /\ widget' \in Widgets /\ widget'.up /\ widget'.shown = widget.shown
       /\ widget'.sending = widget.sending
  <2>1. widget \in Widgets /\ widget.sending \in BOOLEAN
      BY <1>1, CnFields DEF Widgets
  <2>2. CASE widget.up
      BY <1>11, <2>1, <2>2
  <2>3. CASE ~widget.up
    <3>1. widget.shown = {} /\ widget.sending = FALSE
        BY <1>1, <2>1, <2>3 DEF CnTypes, WidgetKnown
    <3>. QED BY <1>11, <2>3, <3>1 DEF NoWidget, Widgets
  <2>. QED BY <2>2, <2>3
<1>13. WidgetKnown'
    BY <1>1, <1>3, <1>7, <1>9, <1>12 DEF CnTypes, WidgetKnown
<1>14. CnTypes'
  <2>1. saved' \in 0..Len(owners)
      BY <1>1, <1>7, <1>11, CnFields
  <2>2. page' \in Pages /\ page'.ticket \in 0..Len(owners) /\ page'.cursor \in 0..Len(posts)
      BY <1>1, <1>7, <1>9, CnFields
  <2>3. /\ principal' \in Principals /\ soon' \in Nat
        /\ acts' \in 0..MaxActs /\ missed' \subseteq DOMAIN posts /\ crossed' \in BOOLEAN
        /\ intended' \in BOOLEAN /\ undone' \in BOOLEAN
      BY <1>1, <1>3, CnFields
  <2>. QED BY <1>1, <1>3, <1>9, <1>12, <1>13, <2>1, <2>2, <2>3, TypesKept
<1>15. WholeInv'
  <2>1. SUFFICES ASSUME ~crossed PROVE Whole'
      BY <1>3 DEF WholeInv
  <2>2. Whole
      BY <1>1, <2>1 DEF WholeInv
  <2>3. CASE Opening(calls[i]) \/ ~widget.up
    <3>1. \A c \in news : ~Opening(c) /\ ~Sending(c) /\ (Loading(c) => c.after = page.cursor)
        BY <1>7, <1>9, <1>10
    <3>2. page'.cursor = page.cursor
        BY <1>7, <1>9
    <3>. QED BY <1>1, <1>3, <1>9, <1>12, <1>14, <2>2, <2>3, <3>1, <3>2, ConversationOpened
  <2>4. CASE ~Opening(calls[i]) /\ widget.up
    <3>1. found = {}
        BY <1>2, <1>6, <2>4 DEF Opening
    <3>2. /\ page'.ticket = page.ticket /\ page'.cursor = page.cursor /\ widget' = widget
        BY <1>7, <1>9, <1>11, <2>4, <3>1
    <3>3. \A c \in news :
             /\ ~Opening(c) /\ ~Sending(c)
             /\ Loading(c) => c.ticket = page.ticket /\ c.ticket # 0 /\ c.after = page.cursor
        BY <1>7, <1>9, <1>10, <3>1
    <3>4. WholeInv'
        BY <1>1, <1>3, <1>9, <2>4, <3>2, <3>3, ConversationKept
    <3>. QED BY <1>3, <2>1, <3>4 DEF WholeInv
  <2>. QED BY <2>3, <2>4
<1>16. HiddenInv'
  <2>1. ~undone => intended /\ ~page.gone
      BY <1>1, <1>2 DEF HiddenInv, Awaited
  <2>2. page'.gone = page.gone
      BY <1>7, <1>9
  <2>. QED BY <1>1, <1>3, <1>9, <2>1, <2>2, HiddenKept
<1>17. HeardInv'
  <2>1. /\ page'.loading => page.loading \/ \E c \in news : c.kind = "poll"
        /\ page'.listing => page.listing \/ \E c \in news : c.kind = "tickets"
        /\ page'.rendered
      BY <1>7, <1>9
  <2>. QED BY <1>1, <1>2, <1>9, <1>12, <2>1, HeardKept
<1>. QED BY <1>14, <1>15, <1>16, <1>17 DEF CnInv

\* The answer to a send gives a new conversation its ticket.
LEMMA SendAnsweredInv ==
    ASSUME CnInv, NEW i \in DOMAIN calls, SendAnswered(i)
    PROVE  CnInv'
<1>. DEFINE posted == calls[i].posted
            ticket == IF calls[i].ticket = 0 THEN posts[posted].ticket ELSE page.ticket
<1>1. CnTypes /\ WholeInv /\ HiddenInv /\ HeardInv
    BY DEF CnInv
<1>2. /\ calls[i].kind = "send" /\ posted # 0
      /\ page' = [page EXCEPT !.ticket = ticket, !.cursor = posted]
      /\ saved' = IF calls[i].ticket = 0 THEN ticket ELSE saved
      /\ missed' = missed \cup (Agents(PostedIn(ticket, 0, posted)) \ widget.shown)
      /\ calls' = RemoveAt(calls, i) /\ soon' = soon + 1 /\ widget' = Settled(calls[i])
    BY DEF SendAnswered
<1>3. /\ UNCHANGED server /\ principal' = principal /\ acts' = acts
      /\ intended' = intended /\ crossed' = crossed /\ undone' = undone /\ unheard' = unheard
    BY DEF SendAnswered
<1>4. posted \in 1..Len(posts) /\ posted \in 0..Len(posts) /\ posted \in 0..MaxPosts
    BY <1>1, <1>2, CallFields, PostsTyped, CnConstants
<1>5. ticket \in 0..Len(owners) /\ ticket \in TicketIds
  <2>1. CASE calls[i].ticket = 0
    <3>1. ticket \in 1..Len(owners)
        BY <1>1, <1>4, <2>1, PostsTyped
    <3>. QED BY <1>1, <3>1, PostsTyped, CnConstants DEF TicketIds
  <2>2. CASE calls[i].ticket # 0
      BY <1>1, <2>2, CnFields, PostsTyped, CnConstants DEF TicketIds
  <2>. QED BY <2>1, <2>2
<1>6. /\ calls[i].ticket = 0 => ticket = posts[posted].ticket
      /\ calls[i].ticket # 0 => ticket = page.ticket
    OBVIOUS
<1>. HIDE DEF ticket
<1>7. Follows(i, {})
    BY <1>1, <1>2, <1>3, OthersWithout, OthersFollow
<1>8. /\ page' \in Pages /\ page'.ticket = ticket /\ page'.cursor = posted
      /\ page'.interval = page.interval /\ page'.loading = page.loading
      /\ page'.listing = page.listing
      /\ page'.starting = page.starting /\ page'.rendered = page.rendered
      /\ page'.gone = page.gone
    BY <1>1, <1>2, <1>4, <1>5, CnFields DEF Pages
<1>9. /\ widget' \in Widgets /\ widget'.up = widget.up /\ widget'.list = widget.list
      /\ widget'.shown = widget.shown /\ (widget'.sending => widget.sending)
    BY <1>1, <1>2, SettledFacts, CallFields
<1>10. WidgetKnown'
    BY <1>1, <1>3, <1>8, <1>9, WidgetKnownKept
<1>11. CnTypes'
  <2>1. missed' \subseteq DOMAIN posts
    <3>1. Agents(PostedIn(ticket, 0, posted)) \subseteq 1..posted
        BY <1>4 DEF Agents, PostedIn
    <3>2. 1..posted \subseteq DOMAIN posts
        BY <1>1, <1>4, PostsTyped
    <3>. QED BY <1>1, <1>2, <3>1, <3>2, CnFields
  <2>2. saved' \in 0..Len(owners)
      BY <1>1, <1>2, <1>5, CnFields
  <2>3. soon' \in Nat
      BY <1>1, <1>2, CnFields
  <2>4. /\ principal' \in Principals /\ acts' \in 0..MaxActs /\ crossed' \in BOOLEAN
        /\ intended' \in BOOLEAN /\ undone' \in BOOLEAN
      BY <1>1, <1>3, CnFields
  <2>5. page'.ticket \in 0..Len(owners) /\ page'.cursor \in 0..Len(posts)
      BY <1>4, <1>5, <1>8
  <2>6. \A c \in {} : CallKnown(c)
      OBVIOUS
  <2>. QED BY <1>1, <1>3, <1>7, <1>8, <1>9, <1>10, <2>1, <2>2, <2>3, <2>4, <2>5, <2>6, TypesKept
<1>12. WholeInv'
  <2>1. SUFFICES ASSUME ~crossed PROVE Whole'
      BY <1>3 DEF WholeInv
  <2>2. /\ NothingIsMissed /\ HiddenRests /\ OpensOnce /\ SendsOnce /\ LoadsContinue
        /\ posts' = posts
      BY <1>1, <1>3, <2>1 DEF WholeInv, Whole, server
  <2>3. widget'.up
      BY <1>2, <1>9, <2>2, OthersAreRendered
  <2>4. \A j \in DOMAIN calls : /\ j # i => ~Sending(calls[j])
                                /\ ~Opening(calls[j])
      BY <1>2, <2>2 DEF SendsOnce, Sending
  <2>5. calls[i].ticket = 0 =>
           /\ page.ticket = 0
           /\ \A k \in DOMAIN calls : Loading(calls[k]) => calls[k].ticket # ticket
      BY <1>2, <1>6, <2>2 DEF SendsOnce, Sending
  <2>6. \A j \in widget.shown : posts[j].ticket = ticket
    <3>1. CASE calls[i].ticket = 0
      <4>1. \A j \in widget.shown : posts[j].ticket # 0
        <5>1. \A j \in widget.shown : j \in 1..Len(posts)
            BY <1>1, CnFields, PostsTyped DEF Widgets
        <5>. QED BY <1>1, <5>1, PostsTyped
      <4>. QED BY <2>2, <2>5, <3>1, <4>1 DEF NothingIsMissed
    <3>2. CASE calls[i].ticket # 0
        BY <1>6, <2>2, <3>2 DEF NothingIsMissed
    <3>. QED BY <3>1, <3>2
  <2>7. Agents(PostedIn(ticket, 0, posted)) \subseteq widget'.shown \cup missed'
      BY <1>2, <1>9
  <2>8. NothingIsMissed'
      BY <1>8, <1>9, <2>2, <2>6, <2>7 DEF NothingIsMissed, Agents, PostedIn
  <2>9. HiddenRests'
      BY <2>3 DEF HiddenRests
  <2>10. OpensOnce'
      BY <1>1, <1>3, <1>7, <2>2, <2>4, OpensKept
  <2>11. SendsOnce'
      BY <1>1, <1>3, <1>7, <2>2, <2>4, SendsKept
  <2>12. LoadsContinue'
    <3>1. ASSUME NEW j \in DOMAIN calls, j # i, Loading(calls[j]),
                 calls[j].ticket = page'.ticket
          PROVE  Agents(PostedIn(page'.ticket, 0, calls[j].after))
                    \subseteq widget'.shown \cup missed'
      <4>1. page'.ticket = page.ticket
          BY <1>6, <1>8, <2>5, <3>1
      <4>2. Agents(PostedIn(page.ticket, 0, calls[j].after)) \subseteq widget.shown \cup missed
          BY <2>2, <3>1, <4>1 DEF LoadsContinue, ShownTo
      <4>. QED BY <1>2, <1>9, <4>1, <4>2
    <3>2. \A c \in {} : Loading(c) /\ c.ticket = page'.ticket =>
             Agents(PostedIn(page'.ticket, 0, c.after)) \subseteq widget'.shown \cup missed'
        OBVIOUS
    <3>. QED BY <1>1, <1>3, <1>7, <2>2, <3>1, <3>2, LoadsKept
  <2>. QED BY <2>8, <2>9, <2>10, <2>11, <2>12 DEF Whole
<1>13. HiddenInv'
  <2>1. ~undone /\ ~intended => ~widget'.up /\ ~page'.interval
      BY <1>1, <1>8, <1>9 DEF HiddenInv, StaysHidden
  <2>2. ~undone /\ page.gone => FALSE
      BY <1>1, <1>2 DEF HiddenInv, Awaited
  <2>. QED BY <1>1, <1>3, <1>7, <1>8, <2>1, <2>2, HiddenKept
<1>14. HeardInv'
    BY <1>1, <1>2, <1>7, <1>8, <1>9, HeardKept
<1>. QED BY <1>11, <1>12, <1>13, <1>14 DEF CnInv

--------------------------------------------------------------------------------
(* The server's log grows.                                                      *)

\* A post is added, to a ticket that may be new; a send may have become it.
PostAdded(post) ==
    /\ Len(posts) < MaxPosts /\ posts' = Append(posts, post)
    /\ owners' \in Seq(Principals) /\ Len(owners') \in {Len(owners), Len(owners) + 1}
    /\ post \in [ticket : 1..Len(owners'), agent : BOOLEAN]
    /\ calls' \in Seq(Call) /\ DOMAIN calls' = DOMAIN calls /\ Len(calls') = Len(calls)
    /\ \A k \in DOMAIN calls :
          \/ calls'[k] = calls[k]
          \/ /\ calls'[k] = [calls[k] EXCEPT !.posted = Len(posts) + 1]
             /\ calls[k].ticket = 0 => post.ticket = Len(owners) + 1
    /\ UNCHANGED <<principal, page, widget, saved, soon, acts, intended, missed, crossed,
                   undone, unheard>>

\* What was posted before stays.
LEMMA PostsGrow ==
    ASSUME CnTypes, NEW post, PostAdded(post)
    PROVE  /\ Len(posts') = Len(posts) + 1 /\ posts'[Len(posts) + 1] = post
           /\ \A j \in 1..Len(posts) : posts'[j] = posts[j]
           /\ posts' \in Seq([ticket : DOMAIN owners', agent : BOOLEAN])
           /\ DOMAIN posts' = 1..(Len(posts) + 1)
           /\ Len(owners') \in Nat /\ DOMAIN owners' = 1..Len(owners')
           /\ Len(owners) <= Len(owners') /\ Len(owners') <= Len(posts')
           /\ Len(posts') <= MaxPosts
<1>1. /\ Len(posts) \in Nat /\ Len(owners) \in Nat /\ Len(owners) <= Len(posts)
      /\ posts \in Seq([ticket : 1..Len(owners), agent : BOOLEAN])
      /\ DOMAIN owners = 1..Len(owners)
  <2>1. posts \in Seq([ticket : DOMAIN owners, agent : BOOLEAN])
      BY Zenon DEF CnTypes, ConversationsTypeOK
  <2>. QED BY <2>1, PostsTyped DEF CnTypes, PostsKnown
<1>2. Len(owners') \in Nat /\ Len(owners) <= Len(owners') /\ Len(owners') <= Len(owners) + 1
    BY <1>1 DEF PostAdded
<1>3. DOMAIN owners' = 1..Len(owners')
    BY LenProperties DEF PostAdded
<1>4. posts \in Seq([ticket : DOMAIN owners', agent : BOOLEAN])
  <2>. DEFINE before == [ticket : 1..Len(owners), agent : BOOLEAN]
              after == [ticket : DOMAIN owners', agent : BOOLEAN]
  <2>1. 1..Len(owners) \subseteq DOMAIN owners'
      BY <1>1, <1>2, <1>3
  <2>2. before \subseteq after /\ posts \in Seq(before)
      BY <1>1, <2>1
  <2>. HIDE DEF before, after
  <2>3. posts \in Seq(after)
      BY <2>2, SeqMonotonic, SMTT(30)
  <2>. QED BY <2>3 DEF after
<1>5. post \in [ticket : DOMAIN owners', agent : BOOLEAN] /\ posts' = Append(posts, post)
    BY <1>3 DEF PostAdded
<1>6. /\ posts' \in Seq([ticket : DOMAIN owners', agent : BOOLEAN])
      /\ Len(posts') = Len(posts) + 1 /\ posts'[Len(posts) + 1] = post
      /\ \A j \in 1..Len(posts) : posts'[j] = posts[j]
    BY <1>4, <1>5, AppendProperties
<1>7. DOMAIN posts' = 1..(Len(posts) + 1)
    BY <1>6, LenProperties
<1>8. Len(owners') <= Len(posts') /\ Len(posts') <= MaxPosts
    BY <1>1, <1>2, <1>6, CnConstants DEF PostAdded
<1>. QED BY <1>2, <1>3, <1>6, <1>7, <1>8

\* What was in a ticket up to a cursor is what is there now.
LEMMA ShownStays ==
    ASSUME CnTypes, NEW post, PostAdded(post), NEW ticket, NEW cursor \in 0..Len(posts)
    PROVE  {j \in {j \in (0 + 1)..cursor : posts'[j].ticket = ticket} : posts'[j].agent}
              = Agents(PostedIn(ticket, 0, cursor))
<1>1. \A j \in (0 + 1)..cursor : posts'[j] = posts[j]
    BY PostsGrow, PostsTyped, SMTT(30)
<1>. QED BY <1>1 DEF Agents, PostedIn

\* A post that is added keeps the types, for every sequence only grows.
LEMMA PostAddedTypes ==
    ASSUME CnTypes, NEW post, PostAdded(post)
    PROVE  CnTypes'
<1>1. /\ Len(posts') = Len(posts) + 1
      /\ posts' \in Seq([ticket : DOMAIN owners', agent : BOOLEAN])
      /\ DOMAIN posts' = 1..(Len(posts) + 1)
      /\ DOMAIN owners' = 1..Len(owners')
      /\ Len(owners') \in Nat /\ Len(owners) <= Len(owners')
      /\ Len(owners') <= Len(posts') /\ Len(posts') <= MaxPosts
    BY PostsGrow
<1>2. /\ Len(posts) \in Nat /\ Len(owners) \in Nat
      /\ DOMAIN posts = 1..Len(posts) /\ DOMAIN owners = 1..Len(owners)
    BY PostsTyped
<1>3. /\ principal' = principal /\ page' = page /\ widget' = widget /\ saved' = saved
      /\ soon' = soon /\ acts' = acts /\ intended' = intended /\ missed' = missed
      /\ crossed' = crossed /\ undone' = undone /\ unheard' = unheard
    BY DEF PostAdded
<1>4. DOMAIN posts \subseteq DOMAIN posts' /\ DOMAIN owners \subseteq DOMAIN owners'
    BY <1>1, <1>2
<1>5. widget' \in [up : BOOLEAN, list : SUBSET DOMAIN owners', shown : SUBSET DOMAIN posts',
                   sending : BOOLEAN]
    BY <1>3, <1>4, CnFields DEF Widgets
<1>6. missed' \subseteq DOMAIN posts'
    BY <1>3, <1>4, CnFields
<1>7. /\ owners' \in Seq(Principals) /\ calls' \in Seq(Call) /\ Len(calls') <= MaxCalls
    BY CallFields DEF PostAdded
<1>8. ConversationsTypeOK'
    BY <1>1, <1>3, <1>5, <1>6, <1>7 DEF CnTypes, ConversationsTypeOK
<1>9. ASSUME NEW k \in DOMAIN calls'
      PROVE  CallKnown(calls[k])'
  <2>1. /\ k \in DOMAIN calls
        /\ \/ calls'[k] = calls[k]
           \/ calls'[k] = [calls[k] EXCEPT !.posted = Len(posts) + 1]
      BY <1>9 DEF PostAdded
  <2>2. /\ calls[k] \in Call /\ CallKnown(calls[k])
        /\ calls[k].ticket \in 0..Len(owners) /\ calls[k].after \in 0..Len(posts)
        /\ calls[k].since \in 0..Len(posts) /\ calls[k].posted \in 0..Len(posts)
      BY <2>1, CallFields
  <2>3. /\ calls'[k].kind = calls[k].kind /\ calls'[k].ticket = calls[k].ticket
        /\ calls'[k].after = calls[k].after /\ calls'[k].since = calls[k].since
        /\ calls'[k].posted = calls[k].posted \/ calls'[k].posted = Len(posts) + 1
      BY <2>1, <2>2 DEF Call
  <2>4. /\ calls[k].ticket <= Len(owners') /\ calls[k].after <= Len(posts')
        /\ calls[k].since <= Len(posts') /\ calls'[k].posted <= Len(posts')
    <3>1. /\ Len(posts) <= Len(posts') /\ Len(posts') \in Nat
          /\ Len(posts) + 1 <= Len(posts')
        BY <1>1, <1>2
    <3>2. calls[k].ticket <= Len(owners')
        BY <1>1, <1>2, <2>2
    <3>. QED BY <1>2, <2>2, <2>3, <3>1, <3>2
  <2>. QED BY <2>2, <2>3, <2>4 DEF CallKnown
<1>10. /\ page'.ticket <= Len(owners') /\ saved' <= Len(owners')
       /\ page'.cursor <= Len(posts')
    BY <1>1, <1>2, <1>3, CnFields
<1>11. PostsKnown'
    BY <1>1, <1>9, <1>10 DEF PostsKnown
<1>12. WidgetKnown'
    BY <1>3 DEF CnTypes, WidgetKnown
<1>. QED BY <1>8, <1>11, <1>12 DEF CnTypes

\* A post that is added is after every cursor, so nothing is missed by it.
LEMMA PostAddedInv ==
    ASSUME CnInv, NEW post, PostAdded(post)
    PROVE  CnInv'
<1>1. CnTypes /\ WholeInv /\ HiddenInv /\ HeardInv
    BY DEF CnInv
<1>2. CnTypes'
    BY <1>1, PostAddedTypes
<1>3. /\ principal' = principal /\ page' = page /\ widget' = widget /\ saved' = saved
      /\ soon' = soon /\ acts' = acts /\ intended' = intended /\ missed' = missed
      /\ crossed' = crossed /\ undone' = undone /\ unheard' = unheard
      /\ DOMAIN calls' = DOMAIN calls /\ Len(calls') = Len(calls)
    BY DEF PostAdded
<1>4. ASSUME NEW k \in DOMAIN calls
      PROVE  /\ calls'[k].kind = calls[k].kind /\ calls'[k].who = calls[k].who
             /\ calls'[k].ticket = calls[k].ticket /\ calls'[k].after = calls[k].after
             /\ calls'[k].mine = calls[k].mine
             /\ \/ calls'[k].posted = calls[k].posted
                \/ /\ calls'[k].posted = Len(posts) + 1
                   /\ calls[k].ticket = 0 => post.ticket = Len(owners) + 1
  <2>1. calls[k] \in Call
      BY <1>1, CallFields
  <2>. QED BY <2>1 DEF Call, PostAdded
<1>5. \A kinds : Awaited(kinds)' <=> Awaited(kinds)
    BY <1>3, <1>4 DEF Awaited
<1>6. HiddenInv' /\ HeardInv'
    BY <1>1, <1>3, <1>5 DEF HiddenInv, StaysHidden, HeardInv, FlagsFall
<1>7. WholeInv'
  <2>1. SUFFICES ASSUME ~crossed PROVE Whole'
      BY <1>3 DEF WholeInv
  <2>2. NothingIsMissed /\ HiddenRests /\ OpensOnce /\ SendsOnce /\ LoadsContinue
      BY <1>1, <2>1 DEF WholeInv, Whole
  <2>3. /\ Len(posts) \in Nat /\ Len(owners) \in Nat /\ DOMAIN posts = 1..Len(posts)
        /\ \A j \in 1..Len(posts) : posts'[j] = posts[j]
        /\ posts'[Len(posts) + 1] = post
      BY <1>1, PostsTyped, PostsGrow
  <2>4. \A cursor \in 0..Len(posts) : \A ticket :
           {j \in {j \in (0 + 1)..cursor : posts'[j].ticket = ticket} : posts'[j].agent}
              = Agents(PostedIn(ticket, 0, cursor))
      BY <1>1, ShownStays
  <2>5. NothingIsMissed'
    <3>1. \A j \in widget.shown : posts'[j].ticket = page.ticket
        BY <1>1, <2>2, <2>3, CnFields DEF NothingIsMissed, Widgets
    <3>2. Agents(PostedIn(page.ticket, 0, page.cursor))' \subseteq widget.shown \cup missed
      <4>1. Agents(PostedIn(page.ticket, 0, page.cursor))'
               = {j \in {j \in (0 + 1)..page.cursor : posts'[j].ticket = page.ticket}
                     : posts'[j].agent}
          BY <1>3 DEF Agents, PostedIn
      <4>2. page.cursor \in 0..Len(posts)
          BY <1>1, CnFields
      <4>. QED BY <2>2, <2>4, <4>1, <4>2 DEF NothingIsMissed
    <3>. QED BY <1>3, <3>1, <3>2 DEF NothingIsMissed
  <2>6. HiddenRests'
    <3>1. calls' # <<>> => calls # <<>>
        BY <1>1, <1>3, CallFields
    <3>. QED BY <1>3, <1>4, <2>2, <3>1 DEF HiddenRests
  <2>7. OpensOnce'
      BY <1>3, <1>4, <2>2 DEF OpensOnce, Opening, Loading
  <2>8. SendsOnce'
    <3>1. ASSUME NEW j \in DOMAIN calls, calls[j].kind = "send", calls[j].ticket = 0,
                 calls'[j].posted # 0,
                 NEW k \in DOMAIN calls, Loading(calls[k])
          PROVE  calls[k].ticket # posts'[calls'[j].posted].ticket
      <4>1. CASE calls'[j].posted = calls[j].posted
        <5>1. calls[j].posted \in 1..Len(posts)
            BY <1>1, <3>1, <4>1, CallFields, PostsTyped
        <5>2. calls[k].ticket # posts[calls[j].posted].ticket
            BY <2>2, <3>1, <4>1 DEF SendsOnce, Sending
        <5>. QED BY <2>3, <4>1, <5>1, <5>2
      <4>2. CASE calls'[j].posted # calls[j].posted
        <5>1. calls'[j].posted = Len(posts) + 1 /\ post.ticket = Len(owners) + 1
            BY <1>4, <3>1, <4>2
        <5>2. calls[k].ticket \in 0..Len(owners)
            BY <1>1, CallFields
        <5>. QED BY <2>3, <5>1, <5>2
      <4>. QED BY <4>1, <4>2
    <3>2. ASSUME NEW j \in DOMAIN calls, calls[j].kind = "send"
          PROVE  /\ calls'[j].mine /\ widget'.sending
                 /\ \A k \in DOMAIN calls : /\ calls[k].kind = "send" => k = j
                                            /\ ~Opening(calls[k])
                 /\ calls[j].ticket = 0 => page'.ticket = 0
        BY <1>3, <1>4, <2>2, <3>2 DEF SendsOnce, Sending
    <3>. QED BY <1>3, <1>4, <3>1, <3>2 DEF SendsOnce, Sending, Opening, Loading
  <2>9. LoadsContinue'
    <3>1. ASSUME NEW k \in DOMAIN calls, Loading(calls[k]), calls[k].ticket = page.ticket
          PROVE  ShownTo(page.ticket, calls[k].after)'
      <4>1. Agents(PostedIn(page.ticket, 0, calls[k].after)) \subseteq widget.shown \cup missed
          BY <2>2, <3>1 DEF LoadsContinue, ShownTo
      <4>2. calls[k].after \in 0..Len(posts) /\ calls'[k].after = calls[k].after
          BY <1>1, <1>4, CallFields
      <4>3. Agents(PostedIn(page.ticket, 0, calls[k].after))'
               = {j \in {j \in (0 + 1)..calls[k].after : posts'[j].ticket = page.ticket}
                     : posts'[j].agent}
          BY <1>3, <4>2 DEF Agents, PostedIn
      <4>. QED BY <1>3, <2>4, <4>1, <4>2, <4>3 DEF ShownTo
    <3>. QED BY <1>3, <1>4, <3>1 DEF LoadsContinue, Loading
  <2>. QED BY <2>5, <2>6, <2>7, <2>8, <2>9 DEF Whole
<1>. QED BY <1>2, <1>6, <1>7 DEF CnInv

\* An agent writes to a ticket that exists.
LEMMA AgentPostsInv ==
    ASSUME CnInv, AgentPosts
    PROVE  CnInv'
<1>1. CnTypes
    BY DEF CnInv
<1>2. PICK t \in DOMAIN owners : posts' = Append(posts, [ticket |-> t, agent |-> TRUE])
    BY DEF AgentPosts
<1>3. /\ Len(posts) < MaxPosts /\ owners' = owners /\ calls' = calls
      /\ UNCHANGED <<principal, page, widget, saved, soon, acts, intended, missed, crossed,
                     undone, unheard>>
    BY DEF AgentPosts
<1>4. /\ owners \in Seq(Principals) /\ DOMAIN owners = 1..Len(owners)
      /\ calls \in Seq(Call)
    BY <1>1, PostsTyped, CallFields DEF CnTypes, ConversationsTypeOK
<1>5. [ticket |-> t, agent |-> TRUE] \in [ticket : 1..Len(owners), agent : BOOLEAN]
    BY <1>4
<1>6. PostAdded([ticket |-> t, agent |-> TRUE])
    BY <1>2, <1>3, <1>4, <1>5 DEF PostAdded
<1>. QED BY <1>6, PostAddedInv

\* The server stores what a send carries, in its ticket or a new one.
LEMMA ServerPostsInv ==
    ASSUME CnInv, NEW i \in DOMAIN calls, ServerPosts(i)
    PROVE  CnInv'
<1>. DEFINE asked == calls[i].ticket
            ticket == IF asked = 0 THEN Len(owners) + 1 ELSE asked
            post == [ticket |-> ticket, agent |-> FALSE]
<1>1. CnTypes
    BY DEF CnInv
<1>2. /\ Len(posts) < MaxPosts
      /\ owners' = IF asked = 0 THEN Append(owners, calls[i].who) ELSE owners
      /\ posts' = Append(posts, post)
      /\ calls' = [calls EXCEPT ![i].posted = Len(posts) + 1]
      /\ UNCHANGED <<principal, page, widget, saved, soon, acts, intended, missed, crossed,
                     undone, unheard>>
    BY DEF ServerPosts
<1>3. /\ owners \in Seq(Principals) /\ Len(owners) \in Nat /\ Len(posts) \in Nat
      /\ calls \in Seq(Call) /\ DOMAIN calls = 1..Len(calls) /\ i \in 1..Len(calls)
      /\ calls[i] \in Call /\ asked \in 0..Len(owners)
    BY <1>1, PostsTyped, CallFields DEF CnTypes, ConversationsTypeOK
<1>4. /\ owners' \in Seq(Principals)
      /\ asked = 0 => Len(owners') = Len(owners) + 1
      /\ asked # 0 => owners' = owners
  <2>1. calls[i].who \in Principals
      BY <1>3 DEF Call
  <2>2. CASE asked = 0
      BY <1>2, <1>3, <2>1, <2>2, AppendProperties
  <2>3. CASE asked # 0
      BY <1>2, <1>3, <2>3
  <2>. QED BY <2>2, <2>3
<1>5. Len(owners') \in {Len(owners), Len(owners) + 1} /\ ticket \in 1..Len(owners')
    BY <1>3, <1>4
<1>6. post \in [ticket : 1..Len(owners'), agent : BOOLEAN]
    BY <1>5
<1>7. asked = 0 => post.ticket = Len(owners) + 1
    OBVIOUS
<1>8. calls' = [calls EXCEPT ![i] = [calls[i] EXCEPT !.posted = Len(posts) + 1]]
    BY <1>2
<1>9. [calls[i] EXCEPT !.posted = Len(posts) + 1] \in Call
  <2>1. Len(posts) + 1 \in 0..MaxPosts
      BY <1>2, <1>3, CnConstants
  <2>. QED BY <1>3, <2>1 DEF Call
<1>. HIDE DEF post
<1>10. /\ calls' \in Seq(Call) /\ Len(calls') = Len(calls)
       /\ \A k \in 1..Len(calls) :
             calls'[k] = IF k = i THEN [calls[i] EXCEPT !.posted = Len(posts) + 1] ELSE calls[k]
    BY <1>3, <1>8, <1>9, ExceptSeq
<1>11. DOMAIN calls' = DOMAIN calls
    BY <1>3, <1>10, LenProperties
<1>12. \A k \in DOMAIN calls :
          \/ calls'[k] = calls[k]
          \/ /\ calls'[k] = [calls[k] EXCEPT !.posted = Len(posts) + 1]
             /\ calls[k].ticket = 0 => post.ticket = Len(owners) + 1
    BY <1>3, <1>7, <1>10
<1>13. PostAdded(post)
    BY <1>2, <1>4, <1>5, <1>6, <1>10, <1>11, <1>12 DEF PostAdded
<1>. QED BY <1>13, PostAddedInv

--------------------------------------------------------------------------------
(* The theorem.                                                                 *)

\* Nothing is awaited or shown at the start.
LEMMA CnInitInv == ConversationsInit => CnInv
<1>. SUFFICES ASSUME ConversationsInit PROVE CnInv
    OBVIOUS
<1>1. /\ owners \in {<<>>, <<1>>, <<1, 1>>}
      /\ posts = [t \in DOMAIN owners |-> [ticket |-> t, agent |-> TRUE]]
      /\ principal = 1 /\ saved \in {0} \cup DOMAIN owners
      /\ page = [ticket |-> saved, cursor |-> 0, view |-> "messages", interval |-> FALSE,
                 loading |-> FALSE, listing |-> FALSE, starting |-> FALSE, rendered |-> FALSE,
                 gone |-> FALSE]
      /\ widget = NoWidget /\ calls = <<>> /\ soon = 0 /\ acts = 0 /\ intended = FALSE
      /\ missed = {} /\ crossed = FALSE /\ undone = FALSE /\ unheard = FALSE
    BY DEF ConversationsInit
<1>2. owners \in Seq(Principals) /\ Len(owners) \in 0..2 /\ DOMAIN owners = 1..Len(owners)
  <2>1. 1 \in Principals
      BY DEF Principals
  <2>2. CASE owners = <<>>
      BY <2>2
  <2>3. CASE owners = <<1>>
      BY <2>1, <2>3
  <2>4. CASE owners = <<1, 1>>
      BY <2>1, <2>4
  <2>. QED BY <1>1, <2>2, <2>3, <2>4
<1>3. /\ posts \in Seq([ticket : DOMAIN owners, agent : BOOLEAN])
      /\ Len(posts) = Len(owners) /\ DOMAIN posts = DOMAIN owners
    BY <1>1, <1>2
<1>4. saved \in 0..Len(owners) /\ saved \in TicketIds /\ 0 \in 0..MaxPosts
    BY <1>1, <1>2, CnConstants DEF TicketIds
<1>5. page \in Pages /\ page.ticket = saved /\ page.cursor = 0
    BY <1>1, <1>4 DEF Pages
<1>6. calls \in Seq(Call) /\ Len(calls) = 0 /\ Len(calls) <= MaxCalls /\ DOMAIN calls = {}
    BY <1>1, CnConstants
<1>7. widget \in Widgets
    BY <1>1, NoWidgetFacts
<1>8. /\ soon \in Nat /\ acts \in 0..MaxActs /\ principal \in Principals
      /\ missed \subseteq DOMAIN posts
      /\ {intended, crossed, undone, unheard} \subseteq BOOLEAN
  <2>1. {intended, crossed, undone, unheard} \subseteq BOOLEAN
      BY <1>1
  <2>2. soon \in Nat /\ acts \in 0..MaxActs /\ principal \in Principals
      BY <1>1, CnConstants DEF Principals
  <2>. QED BY <1>1, <2>1, <2>2
<1>9. ConversationsTypeOK
    BY <1>2, <1>3, <1>4, <1>5, <1>6, <1>7, <1>8 DEF ConversationsTypeOK, Pages, Widgets
<1>10. PostsKnown
  <2>1. /\ Len(owners) \in Nat /\ Len(posts) = Len(owners) /\ Len(posts) <= MaxPosts
        /\ saved \in Nat /\ saved <= Len(owners) /\ page.cursor <= Len(posts)
      BY <1>2, <1>3, <1>4, <1>5, CnConstants
  <2>. QED BY <1>5, <1>6, <2>1 DEF PostsKnown
<1>11. WidgetKnown
    BY <1>1, NoWidgetFacts DEF WidgetKnown
<1>12. Whole
  <2>1. Agents(PostedIn(page.ticket, 0, page.cursor)) = {}
      BY <1>5, NothingBefore
  <2>2. NothingIsMissed
      BY <1>1, <2>1, NoWidgetFacts DEF NothingIsMissed
  <2>3. HiddenRests /\ OpensOnce /\ SendsOnce /\ LoadsContinue
      BY <1>1, <1>6 DEF HiddenRests, OpensOnce, SendsOnce, LoadsContinue
  <2>. QED BY <2>2, <2>3 DEF Whole
<1>13. HiddenInv /\ HeardInv
    BY <1>1, <1>6, NoWidgetFacts DEF HiddenInv, HeardInv, StaysHidden, FlagsFall, Awaited
<1>. QED BY <1>9, <1>10, <1>11, <1>12, <1>13 DEF CnInv, CnTypes, WholeInv

\* Every step keeps the invariant: one case per action.
LEMMA CnNextInv == CnInv /\ [ConversationsNext]_cnVars => CnInv'
<1>. SUFFICES ASSUME CnInv, [ConversationsNext]_cnVars PROVE CnInv'
    OBVIOUS
<1>1. CASE AgentPosts
    BY <1>1, AgentPostsInv
<1>2. ASSUME NEW i \in DOMAIN calls, ServerPosts(i) PROVE CnInv'
    BY <1>2, ServerPostsInv
<1>3. ASSUME NEW i \in DOMAIN calls, CallFails(i) PROVE CnInv'
    BY <1>3, CallFailsInv
<1>4. ASSUME NEW i \in DOMAIN calls, MessagesAnswered(i) PROVE CnInv'
    BY <1>4, MessagesAnsweredInv
<1>5. ASSUME NEW i \in DOMAIN calls, TicketsAnswered(i) PROVE CnInv'
    BY <1>5, TicketsAnsweredInv
<1>6. ASSUME NEW i \in DOMAIN calls, InitAnswered(i) PROVE CnInv'
    BY <1>6, InitAnsweredInv
<1>7. ASSUME NEW i \in DOMAIN calls, ReconcileAnswered(i) PROVE CnInv'
    BY <1>7, ReconcileAnsweredInv
<1>8. ASSUME NEW i \in DOMAIN calls, SendAnswered(i) PROVE CnInv'
    BY <1>8, SendAnsweredInv
<1>9. CASE PollTimer
    BY <1>9, PollTimerInv
<1>10. CASE PollSoon
    BY <1>10, PollSoonInv
<1>11. CASE SendMessage
    BY <1>11, SendMessageInv
<1>12. ASSUME NEW t \in widget.list, SelectTicket(t) PROVE CnInv'
    BY <1>12, SelectTicketInv
<1>13. CASE NewConversation
    BY <1>13, NewConversationInv
<1>14. CASE BackToTickets
    BY <1>14, BackToTicketsInv
<1>15. CASE ShowWidget
    BY <1>15, ShowWidgetInv
<1>16. CASE HideWidget
    BY <1>16, HideWidgetInv
<1>17. CASE ChangeIdentity
    BY <1>17, ChangeIdentityInv
<1>18. CASE ResetConversations
    BY <1>18, ResetConversationsInv
<1>19. CASE UNCHANGED cnVars
    BY <1>19 DEF cnVars, CnInv, CnTypes, ConversationsTypeOK, PostsKnown, CallKnown, WidgetKnown,
       WholeInv, Whole, NothingIsMissed, HiddenRests, OpensOnce, SendsOnce, LoadsContinue, ShownTo,
       Opening, Sending, Loading, HiddenInv, StaysHidden, HeardInv, FlagsFall, Awaited, Agents,
       PostedIn
<1>. QED BY <1>1, <1>2, <1>3, <1>4, <1>5, <1>6, <1>7, <1>8, <1>9, <1>10, <1>11, <1>12, <1>13,
            <1>14, <1>15, <1>16, <1>17, <1>18, <1>19 DEF ConversationsNext

\* The widget's state stays what ConversationsTypeOK says.
THEOREM ConversationsTypes == ConversationsSpec => []ConversationsTypeOK
<1>1. CnInv => ConversationsTypeOK
    BY DEF CnInv, CnTypes
<1>. QED BY <1>1, CnInitInv, CnNextInv, PTL DEF ConversationsSpec

\* Whatever polls, sends, choices, identities, hides and resets cross, the page shows
\* its conversation whole up to the cursor, a hidden widget stays hidden, and a flag
\* that keeps a second request from being made falls with the first (index.tsx
\* _loadMessages, sendMessage, setIdentity, hide, reset).
THEOREM ConversationIsWholeAlways == ConversationsSpec => []ConversationIsWhole
<1>1. CnInv => ConversationIsWhole
    BY DEF CnInv, WholeInv, Whole, HiddenInv, HeardInv, ConversationIsWhole
<1>. QED BY <1>1, CnInitInv, CnNextInv, PTL DEF ConversationsSpec

-------------------------------------------------------------------------------
(* SessionRecorder, for any numbers of sessions and events and any size.        *)

\* The events of a line are of calls from low to high, and in the order of their calls.
Rising(line, low, high) ==
    \A i \in 1..Len(line) :
        /\ low <= line[i].n /\ line[i].n <= high
        /\ \A j \in 1..Len(line) : i < j => line[i].n <= line[j].n

\* What is buffered or being compressed is of the session that the recorder is in.
Filed(r) ==
    /\ \A i \in 1..Len(r.buffer.events) : r.buffer.events[i].target = r.session
    /\ \A i \in 1..Len(r.queue) : r.queue[i].target = r.session
    /\ r.buffer.events # <<>> => r.buffer.session = r.session

\* What was sent was sent as captured, and of sessions somebody cared about; what
\* is not held may be sent.
Cared(r) ==
    /\ \A s \in r.shipped : s[1] = s[2] /\ s[1] \in r.cared
    /\ (r.live \/ r.stopping) /\ ~r.hold => r.session \in r.cared
    /\ r.unloadShips => r.fresh

\* What was sent is not of a later call than what is buffered, nor that than what is
\* queued.
InOrder(r) ==
    /\ r.shippedTo <= r.emitted
    /\ Rising(r.buffer.events, r.shippedTo, r.emitted)
    /\ Rising(r.queue, r.shippedTo, r.emitted)
    /\ \A i \in 1..Len(r.buffer.events), j \in 1..Len(r.queue) :
          r.buffer.events[i].n <= r.queue[j].n

\* The recorder is in a session that the session manager has handed out, no snapshot
\* is of a later one, and nothing is compressed while nothing happens.
Steered(r) ==
    /\ r.session <= Len(r.verdict)
    /\ r.lastFull <= r.session /\ r.healed <= r.session
    /\ \A i \in 1..Len(r.queue) : r.queue[i].kind = "full" => r.seen
    /\ r.live => r.hears /\ ~r.stopping
    /\ r.quiet \/ r.idle = "idle" => r.queue = <<>> /\ ~r.capturing

Kept(r) == r \in Recorders /\ Filed(r) /\ Cared(r) /\ InOrder(r) /\ Steered(r)

\* What a flush, a full snapshot and an idle recorder do to the buffer: they drop
\* what came first, or send it all if it is not held.
Rest(s, t) ==
    \E k \in 0..Len(t) : Len(s) = Len(t) - k /\ \A i \in 1..Len(s) : s[i] = t[i + k]

Steady(r, q) ==
    /\ q.session = r.session /\ q.quiet = r.quiet /\ q.live = r.live /\ q.hears = r.hears
    /\ q.stopping = r.stopping /\ q.hold = r.hold /\ q.unloadShips = r.unloadShips
    /\ q.verdict = r.verdict /\ q.cared = r.cared /\ q.fresh = r.fresh
    /\ q.lastFull = r.lastFull /\ q.healed = r.healed /\ q.capturing = r.capturing

Sent(r, q) ==
    /\ ~r.hold /\ q.buffer.events = <<>> /\ r.buffer.events # <<>>
    /\ q.shippedTo = r.buffer.events[Len(r.buffer.events)].n
    /\ q.shipped = r.shipped \cup
          {<<r.buffer.session, r.buffer.events[i].target>> : i \in 1..Len(r.buffer.events)}

Cleared(r, q) ==
    /\ q \in Recorders /\ Steady(r, q)
    /\ q.queue = r.queue /\ q.emitted = r.emitted /\ q.seen = r.seen
    /\ q.idle = r.idle \/ (r.quiet /\ q.idle = "idle")
    /\ Rest(q.buffer.events, r.buffer.events)
    /\ q.buffer.events # <<>> => q.buffer.session = r.buffer.session
    /\ (q.shipped = r.shipped /\ q.shippedTo = r.shippedTo) \/ Sent(r, q)

Incremental(r) ==
    \E i \in 1..Len(r.buffer.events) : r.buffer.events[i].kind \in {"user", "mutation"}

\* NothingWaitsForever, of any recorder.
Timely(r) ==
    r.live /\ Incremental(r) /\ ~r.hold /\ r.idle # "idle" => r.timer \/ r.queue # <<>>

\* What makes the recording of a live recorder that a rotation has started playable.

Playable(r) ==
    r.live /\ ~r.fresh =>
        /\ r.session \in {r.lastFull, r.healed} => r.seen
        /\ Incremental(r) => r.seen \/ r.lastFull = 0

\* An event that may be captured next,
Fits(r, e) ==
    /\ e \in RecEvent /\ e.target = r.session
    /\ r.shippedTo <= e.n /\ e.n <= r.emitted
    /\ \A i \in 1..Len(r.buffer.events) : r.buffer.events[i].n <= e.n
    /\ \A j \in 1..Len(r.queue) : e.n <= r.queue[j].n
    /\ e.kind = "full" => r.seen

\* and one that may be after whatever the call that captures it emits before it: it is
\* of that call, or comes from the queue, which what it asks for joins.
Due(r, e) == Fits(r, e) /\ (r.capturing \/ e.n = r.emitted)

\* What is not held is of a session that somebody cared about.
Ships(r) == ~r.hold => r.session \in r.cared

\* The fields of a recorder.
LEMMA RecorderFields ==
    ASSUME NEW r \in Recorders
    PROVE  /\ r.session \in Sessions /\ r.idle \in {"unknown", "active", "idle"}
           /\ r.quiet \in BOOLEAN /\ r.live \in BOOLEAN /\ r.hears \in BOOLEAN
           /\ r.stopping \in BOOLEAN /\ r.hold \in BOOLEAN /\ r.unloadShips \in BOOLEAN
           /\ r.overflowed \in BOOLEAN /\ r.suppress \in BOOLEAN /\ r.timer \in BOOLEAN
           /\ r.buffer \in [session : Sessions, events : Seq(RecEvent)]
           /\ r.queue \in Seq(RecEvent) /\ r.lastFull \in 0..MaxSessions
           /\ r.healed \in 0..MaxSessions /\ r.verdict \in Seq(Verdicts)
           /\ r.emitted \in Nat /\ r.shippedTo \in Nat
           /\ r.shipped \in SUBSET (Sessions \X Sessions)
           /\ r.cared \in SUBSET Sessions
           /\ r.seen \in BOOLEAN /\ r.fresh \in BOOLEAN
           /\ r.async \in BOOLEAN /\ r.capturing \in BOOLEAN
           /\ r.buffer.session \in Sessions /\ r.buffer.events \in Seq(RecEvent)
BY DEF Recorders

\* A recorder with an empty buffer is in no haste.
LEMMA NothingIncremental ==
    ASSUME NEW r, r.buffer.events = <<>>
    PROVE  ~Incremental(r) /\ Timely(r)
<1>1. \A i \in 1..Len(<<>>) : FALSE
    BY EmptySeq
<1>2. ~Incremental(r)
    BY <1>1, Zenon DEF Incremental
<1>. QED BY <1>2, Zenon DEF Timely

\* The empty list, and the list itself, are what is left of a list.
LEMMA SuffixesKnown ==
    ASSUME NEW t \in Seq(RecEvent)
    PROVE  Rest(<<>>, t) /\ Rest(t, t)
<1>1. Len(t) \in Nat /\ Len(<<>>) = 0
    BY LenProperties, EmptySeq
<1>2. Rest(<<>>, t)
  <2>1. Len(t) \in 0..Len(t) /\ Len(<<>>) = Len(t) - Len(t)
      BY <1>1
  <2>. QED BY <2>1, <1>1 DEF Rest
<1>3. Rest(t, t)
  <2>1. 0 \in 0..Len(t) /\ Len(t) = Len(t) - 0
      BY <1>1
  <2>2. \A i \in 1..Len(t) : t[i] = t[i + 0]
    <3>1. \A i \in 1..Len(t) : i + 0 = i
        BY <1>1
    <3>. QED BY <3>1, Zenon
  <2>. QED BY <2>1, <2>2, Zenon DEF Rest
<1>. QED BY <1>2, <1>3

\* Clearing the buffer leaves all but the buffer and its timer as it was.
LEMMA ClearSettles ==
    ASSUME NEW r \in Recorders
    PROVE  Cleared(r, ClearBuffer(r)) /\ ClearBuffer(r).buffer.events = <<>>
           /\ ClearBuffer(r).shipped = r.shipped /\ ClearBuffer(r).shippedTo = r.shippedTo
           /\ ClearBuffer(r).timer = r.timer /\ ClearBuffer(r).idle = r.idle
<1>1. <<>> \in Seq(RecEvent) /\ r.session \in Sessions
    BY RecorderFields
<1>2. ClearBuffer(r) \in Recorders
    BY <1>1 DEF Recorders, ClearBuffer
<1>3. Steady(r, ClearBuffer(r))
    BY DEF Recorders, ClearBuffer, Steady
<1>4. r.buffer.events \in Seq(RecEvent)
    BY RecorderFields
<1>5. Rest(<<>>, r.buffer.events)
    BY <1>4, SuffixesKnown
<1>6. /\ ClearBuffer(r).buffer.events = <<>>
      /\ ClearBuffer(r).queue = r.queue /\ ClearBuffer(r).emitted = r.emitted
      /\ ClearBuffer(r).seen = r.seen /\ ClearBuffer(r).idle = r.idle
      /\ ClearBuffer(r).shipped = r.shipped /\ ClearBuffer(r).shippedTo = r.shippedTo
      /\ ClearBuffer(r).timer = r.timer
    BY DEF Recorders, ClearBuffer
<1>. QED BY <1>2, <1>3, <1>5, <1>6 DEF Cleared

\* What is captured when the buffer is flushed.
LEMMA ShipSends ==
    ASSUME NEW r \in Recorders
    PROVE  /\ Ship(r) \in Recorders /\ Steady(r, Ship(r))
           /\ Ship(r).queue = r.queue /\ Ship(r).emitted = r.emitted /\ Ship(r).seen = r.seen
           /\ Ship(r).idle = r.idle /\ Ship(r).buffer = r.buffer /\ Ship(r).timer = r.timer
           /\ r.buffer.events = <<>> => Ship(r) = r
           /\ r.buffer.events # <<>> =>
                /\ Ship(r).shippedTo = r.buffer.events[Len(r.buffer.events)].n
                /\ Ship(r).shipped = r.shipped \cup
                     {<<r.buffer.session, r.buffer.events[i].target>> :
                        i \in 1..Len(r.buffer.events)}
<1>. DEFINE events == r.buffer.events
            all == {<<r.buffer.session, events[i].target>> : i \in DOMAIN events}
<1>1. events \in Seq(RecEvent) /\ r.buffer.session \in Sessions
    BY RecorderFields
<1>2. CASE events = <<>>
  <2>1. Ship(r) = r
      BY <1>2 DEF Ship
  <2>. QED BY <2>1, <1>2 DEF Steady
<1>3. CASE events # <<>>
  <2>1. Len(events) \in 1..Len(events) /\ DOMAIN events = 1..Len(events)
      BY <1>1, <1>3, EmptySeq, LenProperties
  <2>2. events[Len(events)] \in RecEvent
      BY <1>1, <2>1, ElementOfSeq
  <2>3. events[Len(events)].n \in Nat
      BY <2>2 DEF RecEvent
  <2>4. \A i \in DOMAIN events : events[i].target \in Sessions
    <3>1. \A i \in DOMAIN events : events[i] \in RecEvent
        BY <1>1, <2>1, ElementOfSeq
    <3>. QED BY <3>1 DEF RecEvent
  <2>5. all \in SUBSET (Sessions \X Sessions)
      BY <1>1, <2>4
  <2>6. Ship(r) = [r EXCEPT !.shippedTo = events[Len(events)].n, !.shipped = @ \cup all]
      BY <1>3, Zenon DEF Ship, Last
  <2>7. r.shipped \cup all \in SUBSET (Sessions \X Sessions)
      BY <2>5, RecorderFields
  <2>. HIDE DEF all
  <2>8. /\ Ship(r) \in Recorders /\ Ship(r).shippedTo = events[Len(events)].n
        /\ Ship(r).shipped = r.shipped \cup all
    <3>. DEFINE n == events[Len(events)].n
                sent == r.shipped \cup all
    <3>1. Ship(r) = [r EXCEPT !.shippedTo = n, !.shipped = sent]
        BY <2>6, Zenon
    <3>2. n \in Nat /\ sent \in SUBSET (Sessions \X Sessions)
        BY <2>3, <2>7, Zenon
    <3>. HIDE DEF n, sent
    <3>3. Ship(r) \in Recorders
        BY <3>1, <3>2, ZenonT(60) DEF Recorders
    <3>4. Ship(r).shippedTo = n /\ Ship(r).shipped = sent
        BY <3>1 DEF Recorders
    <3>. QED BY <3>3, <3>4, Zenon DEF n, sent
  <2>9. /\ Steady(r, Ship(r))
        /\ Ship(r).queue = r.queue /\ Ship(r).emitted = r.emitted /\ Ship(r).seen = r.seen
        /\ Ship(r).idle = r.idle /\ Ship(r).buffer = r.buffer /\ Ship(r).timer = r.timer
      BY <2>6 DEF Recorders, Steady
  <2>10. all = {<<r.buffer.session, r.buffer.events[i].target>> :
                   i \in 1..Len(r.buffer.events)}
      BY <2>1, Zenon DEF all
  <2>. QED BY <1>3, <2>8, <2>9, <2>10, Zenon
<1>. QED BY <1>2, <1>3

\* A flush sends the buffer, or keeps it with a timer, or held.
LEMMA FlushClears ==
    ASSUME NEW r \in Recorders
    PROVE  /\ Cleared(r, FlushBuffer(r)) /\ FlushBuffer(r).idle = r.idle
           /\ Timely(FlushBuffer(r))
<1>. DEFINE q == FlushBuffer(r)
<1>0. r.buffer.events \in Seq(RecEvent)
    BY RecorderFields
<1>1. Rest(<<>>, r.buffer.events) /\ Rest(r.buffer.events, r.buffer.events)
    BY <1>0, SuffixesKnown
<1>2. ASSUME NEW b \in BOOLEAN
      PROVE  LET t == [r EXCEPT !.timer = b] IN
             /\ t \in Recorders /\ t.timer = b /\ Cleared(r, t) /\ t.idle = r.idle
             /\ Steady(r, t) /\ t.buffer = r.buffer /\ t.queue = r.queue
             /\ t.shipped = r.shipped /\ t.shippedTo = r.shippedTo
             /\ t.emitted = r.emitted /\ t.seen = r.seen
  <2>. DEFINE t == [r EXCEPT !.timer = b]
  <2>1. t \in Recorders /\ t.timer = b
      BY <1>2, ZenonT(60) DEF Recorders
  <2>2. /\ Steady(r, t) /\ t.buffer = r.buffer /\ t.queue = r.queue
        /\ t.shipped = r.shipped /\ t.shippedTo = r.shippedTo
        /\ t.emitted = r.emitted /\ t.seen = r.seen /\ t.idle = r.idle
      BY DEF Recorders, Steady
  <2>3. Cleared(r, t)
      BY <1>1, <2>1, <2>2 DEF Cleared
  <2>. QED BY <2>1, <2>2, <2>3, Zenon
<1>3. CASE r.hold
  <2>1. q = [r EXCEPT !.timer = FALSE]
      BY <1>3 DEF FlushBuffer
  <2>2. Cleared(r, q) /\ q.idle = r.idle /\ Steady(r, q)
      BY <1>2, <2>1, Zenon
  <2>. QED BY <1>3, <2>2 DEF Timely, Steady
<1>4. CASE ~r.hold /\ RecStatus(r) # "recording"
  <2>1. q = [r EXCEPT !.timer = TRUE]
      BY <1>4 DEF FlushBuffer
  <2>2. Cleared(r, q) /\ q.idle = r.idle /\ q.timer = TRUE
      BY <1>2, <2>1, Zenon
  <2>. QED BY <2>2, Zenon DEF Timely
<1>5. CASE ~r.hold /\ RecStatus(r) = "recording"
  <2>. DEFINE t == [r EXCEPT !.timer = FALSE]
  <2>1. q = ClearBuffer(Ship(t))
      BY <1>5 DEF FlushBuffer
  <2>2. /\ t \in Recorders /\ t.idle = r.idle
        /\ Steady(r, t) /\ t.buffer = r.buffer /\ t.queue = r.queue
        /\ t.shipped = r.shipped /\ t.shippedTo = r.shippedTo
        /\ t.emitted = r.emitted /\ t.seen = r.seen
      BY <1>2, Zenon
  <2>. HIDE DEF t
  <2>3. /\ Ship(t) \in Recorders /\ Steady(t, Ship(t))
        /\ Ship(t).queue = t.queue /\ Ship(t).emitted = t.emitted /\ Ship(t).seen = t.seen
        /\ Ship(t).idle = t.idle /\ Ship(t).buffer = t.buffer
      BY <2>2, ShipSends, Zenon
  <2>. HIDE DEF q
  <2>10. Cleared(Ship(t), ClearBuffer(Ship(t)))
      BY <2>3, ClearSettles, Zenon
  <2>4. /\ q \in Recorders /\ Steady(Ship(t), q) /\ q.buffer.events = <<>>
        /\ q.shipped = Ship(t).shipped /\ q.shippedTo = Ship(t).shippedTo
        /\ q.idle = Ship(t).idle /\ q.queue = Ship(t).queue
        /\ q.emitted = Ship(t).emitted /\ q.seen = Ship(t).seen
      BY <2>1, <2>3, <2>10, ClearSettles, SMT DEF Cleared
  <2>5. Steady(r, q)
      BY <2>2, <2>3, <2>4, Zenon DEF Steady
  <2>6. (q.shipped = r.shipped /\ q.shippedTo = r.shippedTo) \/ Sent(r, q)
    <3>1. CASE r.buffer.events = <<>>
        BY <2>2, <2>4, <3>1, ShipSends, ZenonT(60)
    <3>2. CASE r.buffer.events # <<>>
      <4>1. t.buffer.events # <<>>
          BY <2>2, <3>2, Zenon
      <4>2. /\ Ship(t).shippedTo = t.buffer.events[Len(t.buffer.events)].n
            /\ Ship(t).shipped = t.shipped \cup
                  {<<t.buffer.session, t.buffer.events[i].target>> :
                     i \in 1..Len(t.buffer.events)}
          BY <4>1, <2>2, ShipSends, Zenon
      <4>. QED BY <1>5, <2>2, <2>4, <3>2, <4>2, ZenonT(60) DEF Sent
    <3>. QED BY <3>1, <3>2
  <2>7. Rest(q.buffer.events, r.buffer.events)
      BY <1>1, <2>4, Zenon
  <2>8. Cleared(r, q)
      BY <2>2, <2>3, <2>4, <2>5, <2>6, <2>7, Zenon DEF Cleared
  <2>9. Timely(q) /\ q.idle = r.idle
      BY <2>2, <2>3, <2>4, NothingIncremental, Zenon
  <2>. QED BY <2>8, <2>9, Zenon DEF q
<1>. QED BY <1>3, <1>4, <1>5

\* What is left of a list is in it, and as ordered.
LEMMA RestIsPart ==
    ASSUME NEW s \in Seq(RecEvent), NEW t \in Seq(RecEvent), Rest(s, t)
    PROVE  /\ \A i \in 1..Len(s) : \E j \in 1..Len(t) : s[i] = t[j]
           /\ \A low, high \in Nat : Rising(t, low, high) => Rising(s, low, high)
<1>1. PICK k \in 0..Len(t) : Len(s) = Len(t) - k /\ \A i \in 1..Len(s) : s[i] = t[i + k]
    BY DEF Rest
<1>2. Len(s) \in Nat /\ Len(t) \in Nat
    BY LenProperties
<1>3. \A i \in 1..Len(s) : i + k \in 1..Len(t) /\ s[i] = t[i + k]
    BY <1>1, <1>2
<1>4. \A i, j \in 1..Len(s) : i < j => i + k < j + k
    BY <1>1, <1>2
<1>5. ASSUME NEW low \in Nat, NEW high \in Nat, Rising(t, low, high) PROVE Rising(s, low, high)
    BY <1>3, <1>4, <1>5, Zenon DEF Rising
<1>. QED BY <1>3, <1>5, Zenon

\* The events of a line have numbers and targets.
LEMMA LineFields ==
    ASSUME NEW t \in Seq(RecEvent)
    PROVE  /\ Len(t) \in Nat
           /\ \A i \in 1..Len(t) : t[i] \in RecEvent /\ t[i].n \in Nat /\ t[i].target \in Sessions
           /\ t # <<>> => Len(t) \in 1..Len(t)
<1>1. Len(t) \in Nat /\ DOMAIN t = 1..Len(t) /\ (t # <<>> => Len(t) \in 1..Len(t))
    BY EmptySeq, LenProperties
<1>2. \A i \in 1..Len(t) : t[i] \in RecEvent
    BY ElementOfSeq
<1>3. \A i \in 1..Len(t) : t[i].n \in Nat /\ t[i].target \in Sessions
    BY <1>2 DEF RecEvent
<1>. QED BY <1>1, <1>2, <1>3

\* A recorder stays as it should be when its buffer is flushed, thinned or dropped.
LEMMA ClearedKept ==
    ASSUME NEW r, NEW q, Kept(r), Cleared(r, q),
           r.live \/ r.stopping \/ r.buffer.events = <<>> \/ Ships(r)
    PROVE  Kept(q)
<1>. DEFINE b == r.buffer.events
            c == q.buffer.events
<1>1. r \in Recorders /\ q \in Recorders
    BY DEF Kept, Cleared
<1>2. b \in Seq(RecEvent) /\ c \in Seq(RecEvent) /\ r.queue \in Seq(RecEvent)
    BY <1>1, RecorderFields
<1>3. /\ \A i \in 1..Len(c) : \E j \in 1..Len(b) : c[i] = b[j]
      /\ \A low, high \in Nat : Rising(b, low, high) => Rising(c, low, high)
    BY <1>2, RestIsPart DEF Cleared
<1>4. /\ Len(b) \in Nat /\ (b # <<>> => Len(b) \in 1..Len(b)) /\ Len(c) \in Nat
      /\ \A i \in 1..Len(b) : b[i].n \in Nat
      /\ \A i \in 1..Len(r.queue) : r.queue[i].n \in Nat
    BY <1>2, LineFields
<1>5. c = <<>> => Len(c) = 0
    BY EmptySeq, LenProperties
<1>6. r.shippedTo \in Nat /\ r.emitted \in Nat /\ q.shippedTo \in Nat
    BY <1>1, RecorderFields
<1>7. Filed(q)
  <2>1. /\ \A i \in 1..Len(c) : c[i].target = r.session
        /\ \A i \in 1..Len(r.queue) : r.queue[i].target = r.session
      BY <1>3, Zenon DEF Kept, Filed
  <2>2. c # <<>> => b # <<>>
      BY <1>2, <1>3, <1>4, EmptySeq, LenProperties
  <2>3. c # <<>> => q.buffer.session = r.session
      BY <2>2, Zenon DEF Kept, Filed, Cleared
  <2>4. q.queue = r.queue /\ q.session = r.session
      BY DEF Cleared, Steady
  <2>. QED BY <2>1, <2>3, <2>4, Zenon DEF Filed
<1>8. Cared(q)
  <2>1. \A s \in q.shipped : s[1] = s[2] /\ s[1] \in r.cared
    <3>1. \A s \in r.shipped : s[1] = s[2] /\ s[1] \in r.cared
        BY DEF Kept, Cared
    <3>2. CASE q.shipped = r.shipped
        BY <3>1, <3>2, Zenon
    <3>3. CASE Sent(r, q)
      <4>1. b # <<>> /\ ~r.hold
          BY <3>3, Zenon DEF Sent
      <4>2. r.session \in r.cared /\ r.buffer.session = r.session
          BY <4>1, Zenon DEF Kept, Cared, Filed, Ships
      <4>3. \A i \in 1..Len(b) : b[i].target = r.session
          BY DEF Kept, Filed
      <4>4. ASSUME NEW i \in 1..Len(b), NEW s, s = <<r.buffer.session, b[i].target>>
            PROVE  s[1] = s[2] /\ s[1] \in r.cared
          BY <4>2, <4>3, <4>4
      <4>5. q.shipped = r.shipped \cup {<<r.buffer.session, b[i].target>> : i \in 1..Len(b)}
          BY <3>3, Zenon DEF Sent
      <4>. QED BY <3>1, <4>4, <4>5, Zenon
    <3>. QED BY <3>2, <3>3, Zenon DEF Cleared
  <2>. QED BY <2>1, Zenon DEF Kept, Cared, Cleared, Steady
<1>9. InOrder(q)
  <2>1. /\ r.shippedTo <= r.emitted /\ Rising(b, r.shippedTo, r.emitted)
        /\ Rising(r.queue, r.shippedTo, r.emitted)
        /\ \A i \in 1..Len(b), j \in 1..Len(r.queue) : b[i].n <= r.queue[j].n
      BY DEF Kept, InOrder
  <2>2. q.queue = r.queue /\ q.emitted = r.emitted
      BY DEF Cleared
  <2>3. \A i \in 1..Len(c), j \in 1..Len(r.queue) : c[i].n <= r.queue[j].n
      BY <1>3, <2>1, Zenon
  <2>4. CASE q.shippedTo = r.shippedTo
    <3>1. Rising(c, r.shippedTo, r.emitted)
        BY <1>3, <1>6, <2>1, Zenon
    <3>. QED BY <2>1, <2>2, <2>3, <2>4, <3>1, Zenon DEF InOrder
  <2>5. CASE Sent(r, q)
    <3>1. Len(b) \in 1..Len(b) /\ q.shippedTo = b[Len(b)].n /\ c = <<>>
        BY <1>4, <2>5, Zenon DEF Sent
    <3>2. q.shippedTo <= r.emitted
        BY <2>1, <3>1, Zenon DEF Rising
    <3>3. Rising(c, q.shippedTo, r.emitted)
        BY <3>1, <1>5 DEF Rising
    <3>4. \A j \in 1..Len(r.queue) : q.shippedTo <= r.queue[j].n
        BY <2>1, <3>1, Zenon
    <3>5. Rising(r.queue, q.shippedTo, r.emitted)
        BY <2>1, <3>4, Zenon DEF Rising
    <3>. QED BY <2>2, <2>3, <3>2, <3>3, <3>5, Zenon DEF InOrder
  <2>. QED BY <2>4, <2>5, Zenon DEF Cleared
<1>10. Steered(q)
  <2>1. q.idle = r.idle \/ (r.quiet /\ q.idle = "idle")
      BY DEF Cleared
  <2>2. q.quiet \/ q.idle = "idle" => q.queue = <<>> /\ ~q.capturing
      BY <2>1, Zenon DEF Kept, Steered, Cleared, Steady
  <2>. QED BY <2>2, Zenon DEF Kept, Steered, Cleared, Steady
<1>. QED BY <1>1, <1>7, <1>8, <1>9, <1>10, Zenon DEF Kept

\* It stays playable,
LEMMA ClearedPlayable ==
    ASSUME NEW r, NEW q, r \in Recorders, Cleared(r, q)
    PROVE  /\ Playable(r) => Playable(q)
           /\ Incremental(q) => Incremental(r)
           /\ r.buffer.events = <<>> => q.buffer.events = <<>>
<1>. DEFINE b == r.buffer.events
            c == q.buffer.events
<1>1. b \in Seq(RecEvent) /\ c \in Seq(RecEvent)
    BY RecorderFields DEF Cleared
<1>2. \A i \in 1..Len(c) : \E j \in 1..Len(b) : c[i] = b[j]
    BY <1>1, RestIsPart DEF Cleared
<1>3. Incremental(q) => Incremental(r)
    BY <1>2, Zenon DEF Incremental
<1>4. b = <<>> => c = <<>>
    BY <1>1, <1>2, LineFields, EmptySeq, LenProperties
<1>. QED BY <1>3, <1>4, Zenon DEF Playable, Cleared, Steady

\* and the event that is captured next still is.
LEMMA ClearedFits ==
    ASSUME NEW r, NEW q, Kept(r), Cleared(r, q), NEW e, Fits(r, e)
    PROVE  Fits(q, e) /\ (Due(r, e) => Due(q, e))
<1>. DEFINE b == r.buffer.events
            c == q.buffer.events
<1>1. r \in Recorders /\ q \in Recorders
    BY DEF Kept, Cleared
<1>2. b \in Seq(RecEvent) /\ c \in Seq(RecEvent)
    BY <1>1, RecorderFields
<1>3. \A i \in 1..Len(c) : \E j \in 1..Len(b) : c[i] = b[j]
    BY <1>2, RestIsPart DEF Cleared
<1>4. \A i \in 1..Len(c) : c[i].n <= e.n
    BY <1>3, Zenon DEF Fits
<1>5. q.shippedTo <= e.n
  <2>1. CASE q.shippedTo = r.shippedTo
      BY <2>1, Zenon DEF Fits
  <2>2. CASE Sent(r, q)
    <3>1. Len(b) \in 1..Len(b) /\ q.shippedTo = b[Len(b)].n
        BY <1>2, <2>2, LineFields, Zenon DEF Sent
    <3>. QED BY <3>1, Zenon DEF Fits
  <2>. QED BY <2>1, <2>2, Zenon DEF Cleared
<1>. QED BY <1>4, <1>5, Zenon DEF Fits, Due, Cleared, Steady

\* A quiet recorder turns idle, and sends what it may.
LEMMA GoIdleSettles ==
    ASSUME NEW r \in Recorders
    PROVE  /\ Cleared(r, GoIdle(r))
           /\ GoIdle(r).quiet => GoIdle(r).idle = "idle"
           /\ ~r.quiet => GoIdle(r) = r
           /\ Timely(r) => Timely(GoIdle(r))
<1>. DEFINE q == GoIdle(r)
<1>0. r.buffer.events \in Seq(RecEvent)
    BY RecorderFields
<1>1. Rest(r.buffer.events, r.buffer.events)
    BY <1>0, SuffixesKnown
<1>2. CASE ~(r.quiet /\ r.idle # "idle")
  <2>1. q = r
      BY <1>2 DEF GoIdle
  <2>2. Cleared(r, r)
      BY <1>1 DEF Cleared, Steady
  <2>. QED BY <1>2, <2>1, <2>2
<1>3. CASE r.quiet /\ r.idle # "idle"
  <2>. DEFINE t == [r EXCEPT !.idle = "idle"]
  <2>1. q = FlushBuffer(t)
      BY <1>3 DEF GoIdle
  <2>2. t \in Recorders /\ t.idle = "idle"
      BY DEF Recorders
  <2>3. /\ Steady(r, t) /\ t.buffer = r.buffer /\ t.queue = r.queue
        /\ t.shipped = r.shipped /\ t.shippedTo = r.shippedTo
        /\ t.emitted = r.emitted /\ t.seen = r.seen
      BY DEF Recorders, Steady
  <2>. HIDE DEF t
  <2>4. Cleared(t, q) /\ q.idle = "idle" /\ Timely(q)
      BY <2>1, <2>2, FlushClears, Zenon
  <2>. HIDE DEF q
  <2>5. Steady(r, q)
      BY <2>3, <2>4, Zenon DEF Cleared, Steady
  <2>6. (q.shipped = r.shipped /\ q.shippedTo = r.shippedTo) \/ Sent(r, q)
    <3>1. CASE q.shipped = t.shipped /\ q.shippedTo = t.shippedTo
        BY <2>3, <3>1, Zenon
    <3>2. CASE Sent(t, q)
      <4>1. ~r.hold
          BY <2>3, <3>2, Zenon DEF Sent, Steady
      <4>. QED BY <2>3, <3>2, <4>1, Zenon DEF Sent
    <3>. QED BY <2>4, <3>1, <3>2, Zenon DEF Cleared
  <2>7. Cleared(r, q)
      BY <1>3, <2>3, <2>4, <2>5, <2>6, Zenon DEF Cleared
  <2>. QED BY <1>3, <2>4, <2>7, Zenon DEF q
<1>. QED BY <1>2, <1>3

\* While a trigger is pending what came before the last Meta event is dropped.
LEMMA SinceLastSettles ==
    ASSUME NEW r \in Recorders
    PROVE  /\ Cleared(r, SinceLastMeta(r)) /\ SinceLastMeta(r).idle = r.idle
           /\ SinceLastMeta(r).shipped = r.shipped
           /\ SinceLastMeta(r).shippedTo = r.shippedTo
<1>. DEFINE q == SinceLastMeta(r)
            events == r.buffer.events
            metas == {i \in DOMAIN events : events[i].kind = "meta"}
            last == CHOOSE i \in metas : \A j \in metas : j <= i
            thinned == [r EXCEPT !.buffer.events = SubSeq(events, last, Len(events))]
<1>1. events \in Seq(RecEvent) /\ Len(events) \in Nat /\ DOMAIN events = 1..Len(events)
    BY RecorderFields, LenProperties
<1>2. Rest(events, events)
    BY <1>1, SuffixesKnown
<1>3. CASE RecStatus(r) # "buffering"
  <2>1. q = r
      BY <1>3 DEF SinceLastMeta
  <2>2. Cleared(r, r)
      BY <1>2 DEF Cleared, Steady
  <2>. QED BY <2>1, <2>2
<1>4. CASE RecStatus(r) = "buffering" /\ metas = {}
  <2>1. q = ClearBuffer(r)
      BY <1>4 DEF SinceLastMeta
  <2>. QED BY <2>1, ClearSettles, Zenon
<1>5. CASE RecStatus(r) = "buffering" /\ metas # {}
  <2>1. q = thinned
      BY <1>5 DEF SinceLastMeta
  <2>2. last \in metas
    <3>1. metas \subseteq 1..Len(events)
        BY <1>1
    <3>. HIDE DEF metas
    <3>2. \E m \in metas : \A j \in metas : j <= m
        BY <1>1, <1>5, <3>1, GreatestExists, Zenon
    <3>. QED BY <3>2
  <2>3. last \in 1..Len(events)
      BY <1>1, <2>2
  <2>. HIDE DEF metas, last
  <2>. DEFINE kept == SubSeq(events, last, Len(events))
  <2>4. /\ kept \in Seq(RecEvent) /\ Len(kept) = Len(events) - last + 1
        /\ \A i \in 1..Len(kept) : kept[i] = events[i + (last - 1)]
    <3>1. kept \in Seq(RecEvent) /\ Len(kept) = Len(events) - last + 1
        BY <1>1, <2>3, SubSeqProperties
    <3>2. \A i \in 1..Len(events) - last + 1 : kept[i] = events[last + i - 1]
        BY <1>1, <2>3, SubSeqProperties
    <3>3. ASSUME NEW i \in 1..Len(kept) PROVE kept[i] = events[i + (last - 1)]
      <4>1. i \in 1..Len(events) - last + 1 /\ last + i - 1 = i + (last - 1)
          BY <1>1, <2>3, <3>1, <3>3
      <4>. QED BY <3>2, <4>1, Zenon
    <3>. QED BY <3>1, <3>3, Zenon
  <2>. HIDE DEF kept
  <2>5. Rest(kept, events)
    <3>1. last - 1 \in 0..Len(events) /\ Len(kept) = Len(events) - (last - 1)
        BY <1>1, <2>3, <2>4
    <3>. QED BY <2>4, <3>1, Zenon DEF Rest
  <2>6. q = [r EXCEPT !.buffer.events = kept]
      BY <2>1, Zenon DEF kept
  <2>7. r.buffer \in [session : Sessions, events : Seq(RecEvent)]
      BY RecorderFields
  <2>8. /\ q.buffer \in [session : Sessions, events : Seq(RecEvent)]
        /\ q.buffer.events = kept /\ q.buffer.session = r.buffer.session
      BY <2>4, <2>6, <2>7 DEF Recorders
  <2>9. q \in Recorders
      BY <2>6, <2>8, ZenonT(60) DEF Recorders
  <2>10. /\ Steady(r, q) /\ q.queue = r.queue /\ q.emitted = r.emitted /\ q.seen = r.seen
         /\ q.idle = r.idle /\ q.shipped = r.shipped /\ q.shippedTo = r.shippedTo
      BY <2>6 DEF Recorders, Steady
  <2>. HIDE DEF q
  <2>11. Cleared(r, q)
      BY <2>5, <2>8, <2>9, <2>10, Zenon DEF Cleared
  <2>. QED BY <2>10, <2>11, Zenon DEF q
<1>. QED BY <1>3, <1>4, <1>5

\* A line goes on to rise when a later event is added to it.
LEMMA RisesOn ==
    ASSUME NEW t \in Seq(RecEvent), NEW low \in Nat, NEW high \in Nat, NEW e \in RecEvent,
           Rising(t, low, high), \A i \in 1..Len(t) : t[i].n <= e.n, low <= e.n,
           NEW top \in Nat, high <= top, e.n <= top
    PROVE  /\ Append(t, e) \in Seq(RecEvent) /\ Append(t, e) # <<>>
           /\ Rising(Append(t, e), low, top)
           /\ Len(Append(t, e)) = Len(t) + 1
           /\ \A i \in 1..Len(t) + 1 : Append(t, e)[i] = IF i <= Len(t) THEN t[i] ELSE e
<1>. DEFINE u == Append(t, e)
<1>1. /\ Len(t) \in Nat /\ \A i \in 1..Len(t) : t[i].n \in Nat
    BY LineFields
<1>2. e.n \in Nat
    BY DEF RecEvent
<1>3. /\ u \in Seq(RecEvent) /\ u # <<>> /\ Len(u) = Len(t) + 1
      /\ \A i \in 1..Len(t) : u[i] = t[i]
      /\ u[Len(t) + 1] = e
    BY AppendProperties, LenProperties, EmptySeq
<1>4. \A i \in 1..Len(t) + 1 : u[i] = IF i <= Len(t) THEN t[i] ELSE e
  <2>1. \A i \in 1..Len(t) + 1 : IF i <= Len(t) THEN i \in 1..Len(t) ELSE i = Len(t) + 1
      BY <1>1
  <2>. QED BY <1>3, <2>1, Zenon
<1>. HIDE DEF u
<1>5. \A i \in 1..Len(u) : low <= u[i].n /\ u[i].n <= top
  <2>1. \A i \in 1..Len(t) : low <= t[i].n /\ t[i].n <= top
      BY <1>1, <1>2 DEF Rising
  <2>2. \A i \in 1..Len(u) : i \in 1..Len(t) \/ i = Len(t) + 1
      BY <1>1, <1>3
  <2>. QED BY <1>3, <2>1, <2>2, Zenon
<1>6. ASSUME NEW i \in 1..Len(u), NEW j \in 1..Len(u), i < j PROVE u[i].n <= u[j].n
  <2>1. i \in 1..Len(t) /\ (j \in 1..Len(t) \/ j = Len(t) + 1)
      BY <1>1, <1>3, <1>6
  <2>. QED BY <1>3, <1>6, <2>1, Zenon DEF Rising
<1>7. Rising(u, low, top)
    BY <1>5, <1>6, Zenon DEF Rising
<1>. QED BY <1>3, <1>4, <1>7, Zenon DEF u

\* The event of the present call is of no earlier one than any there is.
LEMMA NextIsLatest ==
    ASSUME NEW r, Kept(r), NEW kind \in EventKinds
    PROVE  LET e == NextEvent(r, kind, r.session) IN
           /\ e \in RecEvent /\ e.n = r.emitted /\ e.kind = kind /\ e.target = r.session
           /\ r.shippedTo <= e.n
           /\ \A i \in 1..Len(r.buffer.events) : r.buffer.events[i].n <= e.n
           /\ \A i \in 1..Len(r.queue) : r.queue[i].n <= e.n
<1>1. r.emitted \in Nat /\ r.session \in Sessions
    BY RecorderFields DEF Kept
<1>2. /\ \A i \in 1..Len(r.buffer.events) : r.buffer.events[i].n <= r.emitted
      /\ \A i \in 1..Len(r.queue) : r.queue[i].n <= r.emitted
      /\ r.shippedTo <= r.emitted
    BY Zenon DEF Kept, InOrder, Rising
<1>. DEFINE e == NextEvent(r, kind, r.session)
<1>3. e \in RecEvent /\ e.n = r.emitted /\ e.kind = kind /\ e.target = r.session
    BY <1>1 DEF NextEvent, RecEvent
<1>. QED BY <1>2, <1>3, Zenon

\* What is in order stays so when more calls are made.
LEMMA RaisedInOrder ==
    ASSUME NEW r \in Recorders, NEW q \in Recorders, InOrder(r), q.buffer = r.buffer,
           q.queue = r.queue, q.shippedTo = r.shippedTo, r.emitted <= q.emitted
    PROVE  InOrder(q)
<1>1. /\ r.emitted \in Nat /\ q.emitted \in Nat /\ r.shippedTo \in Nat
      /\ r.buffer.events \in Seq(RecEvent) /\ r.queue \in Seq(RecEvent)
    BY RecorderFields
<1>2. /\ \A i \in 1..Len(r.buffer.events) : r.buffer.events[i].n \in Nat
      /\ \A i \in 1..Len(r.queue) : r.queue[i].n \in Nat
    BY <1>1, LineFields
<1>3. /\ r.shippedTo <= r.emitted
      /\ Rising(r.buffer.events, r.shippedTo, r.emitted)
      /\ Rising(r.queue, r.shippedTo, r.emitted)
    BY DEF InOrder
<1>4. r.shippedTo <= q.emitted
    BY <1>1, <1>3
<1>5. Rising(r.buffer.events, r.shippedTo, q.emitted)
  <2>1. \A i \in 1..Len(r.buffer.events) : r.buffer.events[i].n <= q.emitted
      BY <1>1, <1>2, <1>3 DEF Rising
  <2>. QED BY <1>3, <2>1, Zenon DEF Rising
<1>6. Rising(r.queue, r.shippedTo, q.emitted)
  <2>1. \A i \in 1..Len(r.queue) : r.queue[i].n <= q.emitted
      BY <1>1, <1>2, <1>3 DEF Rising
  <2>. QED BY <1>3, <2>1, Zenon DEF Rising
<1>. QED BY <1>4, <1>5, <1>6, Zenon DEF InOrder

\* A recorder that something is going on in stays as it should be when an event of the
\* present call joins the queue.
LEMMA QueuedKept ==
    ASSUME NEW r, Kept(r), ~r.quiet, r.idle # "idle", NEW e, e \in RecEvent,
           e.target = r.session, e.n = r.emitted, e.kind = "full" => r.seen
    PROVE  LET q == EnqueueCompression(r, e) IN
           /\ Kept(q) /\ Steady(r, q) /\ q.idle = r.idle /\ Timely(q)
           /\ q.emitted = r.emitted /\ q.seen = r.seen /\ q.buffer = r.buffer
           /\ (Playable(r) => Playable(q)) /\ (Incremental(q) => Incremental(r))
           /\ \A d : Due(r, d) => Due(q, d)
<1>. DEFINE t == r.queue
            u == Append(t, e)
            q == EnqueueCompression(r, e)
<1>1. r \in Recorders
    BY DEF Kept
<1>2. /\ r.emitted \in Nat /\ r.shippedTo \in Nat /\ t \in Seq(RecEvent)
      /\ r.buffer.events \in Seq(RecEvent)
    BY <1>1, RecorderFields
<1>3. /\ r.shippedTo <= r.emitted
      /\ Rising(r.buffer.events, r.shippedTo, r.emitted)
      /\ Rising(t, r.shippedTo, r.emitted)
      /\ \A i \in 1..Len(r.buffer.events), j \in 1..Len(t) : r.buffer.events[i].n <= t[j].n
    BY Zenon DEF Kept, InOrder
<1>4. Len(t) \in Nat /\ r.emitted <= r.emitted
    BY <1>2, LineFields
<1>5. /\ \A i \in 1..Len(t) : t[i].n <= e.n
      /\ \A i \in 1..Len(r.buffer.events) : r.buffer.events[i].n <= e.n
    BY <1>3, Zenon DEF Rising
<1>6. /\ u \in Seq(RecEvent) /\ u # <<>> /\ Rising(u, r.shippedTo, r.emitted)
      /\ Len(u) = Len(t) + 1
      /\ \A i \in 1..Len(t) + 1 : u[i] = IF i <= Len(t) THEN t[i] ELSE e
  <2>1. t \in Seq(RecEvent) /\ r.shippedTo \in Nat /\ r.emitted \in Nat /\ e \in RecEvent
      BY <1>2
  <2>2. Rising(t, r.shippedTo, r.emitted) /\ r.shippedTo <= e.n /\ e.n <= r.emitted
      BY <1>3, <1>4
  <2>. HIDE DEF t
  <2>. QED BY <1>4, <1>5, <2>1, <2>2, RisesOn
<1>7. \A i \in 1..Len(u) : u[i] = e \/ \E j \in 1..Len(t) : u[i] = t[j]
  <2>. HIDE DEF t, u
  <2>1. \A i \in 1..Len(u) : i <= Len(t) => i \in 1..Len(t)
      BY <1>4, <1>6
  <2>. QED BY <1>6, <2>1, Zenon
<1>8. q = [r EXCEPT !.queue = u]
    BY <1>1 DEF EnqueueCompression, Recorders
<1>. HIDE DEF u
<1>9. q \in Recorders /\ q.queue = u
    BY <1>1, <1>6, <1>8, ZenonT(60) DEF Recorders
<1>10. /\ Steady(r, q) /\ q.idle = r.idle /\ q.emitted = r.emitted /\ q.seen = r.seen
       /\ q.buffer = r.buffer /\ q.shipped = r.shipped /\ q.shippedTo = r.shippedTo
    BY <1>1, <1>8 DEF Recorders, Steady
<1>. HIDE DEF q
<1>11. Filed(q)
  <2>1. \A i \in 1..Len(u) : u[i].target = r.session
      BY <1>7, Zenon DEF Kept, Filed
  <2>. QED BY <1>9, <1>10, <2>1, ZenonT(60) DEF Kept, Filed, Steady
<1>12. Cared(q)
    BY <1>10, Zenon DEF Kept, Cared, Steady
<1>13. InOrder(q)
  <2>1. \A i \in 1..Len(r.buffer.events), j \in 1..Len(u) : r.buffer.events[i].n <= u[j].n
      BY <1>3, <1>5, <1>7, Zenon
  <2>. QED BY <1>3, <1>6, <1>9, <1>10, <2>1, Zenon DEF InOrder
<1>14. Steered(q)
  <2>1. \A i \in 1..Len(u) : u[i].kind = "full" => q.seen
      BY <1>7, <1>10, Zenon DEF Kept, Steered
  <2>2. ~q.quiet /\ q.idle # "idle"
      BY <1>10, Zenon DEF Steady
  <2>. QED BY <1>9, <1>10, <2>1, <2>2, Zenon DEF Kept, Steered, Steady
<1>15. (Playable(r) => Playable(q)) /\ (Incremental(q) => Incremental(r)) /\ Timely(q)
    BY <1>6, <1>9, <1>10, Zenon DEF Playable, Incremental, Timely, Steady
<1>16. ASSUME NEW d, Due(r, d) PROVE Due(q, d)
  <2>1. d.n <= e.n
      BY <1>16, Zenon DEF Due, Fits
  <2>2. \A i \in 1..Len(u) : d.n <= u[i].n
      BY <1>7, <1>16, <2>1, Zenon DEF Due, Fits
  <2>. QED BY <1>9, <1>10, <1>16, <2>2, Zenon DEF Due, Fits, Steady
<1>. QED BY <1>9, <1>10, <1>11, <1>12, <1>13, <1>14, <1>15, <1>16, Zenon DEF Kept, q

\* What an event needs to be captured: a full snapshot before it, if its epoch is
\* born of a rotation and a snapshot was ever captured.
Plays(r, e) ==
    r.live /\ ~r.fresh /\ e.kind \in {"user", "mutation"} => r.seen \/ r.lastFull = 0

\* A recorder stays as it should be when the event that is captured next is buffered.
LEMMA BufferedKept ==
    ASSUME NEW r, Kept(r), NEW e, Fits(r, e), r.buffer.session = r.session,
           NEW q \in Recorders, Steady(r, q), q.queue = r.queue, q.idle = r.idle,
           q.buffer.events = Append(r.buffer.events, e), q.buffer.session = r.buffer.session,
           q.shipped = r.shipped, q.shippedTo = r.shippedTo, q.emitted = r.emitted,
           q.seen = r.seen
    PROVE  /\ Kept(q)
           /\ Playable(r) /\ Plays(r, e) => Playable(q)
           /\ Incremental(q) => Incremental(r) \/ e.kind \in {"user", "mutation"}
           /\ \A d : Fits(r, d) /\ e.n <= d.n => Fits(q, d)
<1>. DEFINE t == r.buffer.events
            u == q.buffer.events
<1>1. r \in Recorders
    BY DEF Kept
<1>2. /\ r.emitted \in Nat /\ r.shippedTo \in Nat /\ t \in Seq(RecEvent)
      /\ r.queue \in Seq(RecEvent)
    BY <1>1, RecorderFields
<1>3. /\ e \in RecEvent /\ e.target = r.session /\ r.shippedTo <= e.n /\ e.n <= r.emitted
      /\ \A i \in 1..Len(t) : t[i].n <= e.n
      /\ \A j \in 1..Len(r.queue) : e.n <= r.queue[j].n
    BY Zenon DEF Fits
<1>4. Len(t) \in Nat /\ r.emitted <= r.emitted
    BY <1>2, LineFields
<1>5. /\ r.shippedTo <= r.emitted
      /\ Rising(t, r.shippedTo, r.emitted)
      /\ Rising(r.queue, r.shippedTo, r.emitted)
      /\ \A i \in 1..Len(t), j \in 1..Len(r.queue) : t[i].n <= r.queue[j].n
    BY Zenon DEF Kept, InOrder
<1>6. /\ Append(t, e) # <<>> /\ Rising(Append(t, e), r.shippedTo, r.emitted)
      /\ Len(Append(t, e)) = Len(t) + 1
      /\ \A i \in 1..Len(t) + 1 : Append(t, e)[i] = IF i <= Len(t) THEN t[i] ELSE e
  <2>1. t \in Seq(RecEvent) /\ r.shippedTo \in Nat /\ r.emitted \in Nat /\ e \in RecEvent
      BY <1>2, <1>3
  <2>2. Rising(t, r.shippedTo, r.emitted) /\ r.shippedTo <= e.n /\ e.n <= r.emitted
      BY <1>3, <1>5
  <2>3. \A i \in 1..Len(t) : t[i].n <= e.n
      BY <1>3, Zenon
  <2>. HIDE DEF t
  <2>. QED BY <1>4, <2>1, <2>2, <2>3, RisesOn
<1>7. u = Append(t, e)
    OBVIOUS
<1>. HIDE DEF u
<1>8. /\ Rising(u, r.shippedTo, r.emitted) /\ Len(u) = Len(t) + 1
      /\ \A i \in 1..Len(t) + 1 : u[i] = IF i <= Len(t) THEN t[i] ELSE e
    BY <1>6, <1>7
<1>9. \A i \in 1..Len(u) : u[i] = e \/ \E j \in 1..Len(t) : u[i] = t[j]
  <2>1. \A i \in 1..Len(u) : i <= Len(t) => i \in 1..Len(t)
      BY <1>4, <1>8
  <2>. QED BY <1>8, <2>1, Zenon
<1>10. Filed(q)
  <2>1. \A i \in 1..Len(u) : u[i].target = r.session
      BY <1>3, <1>9, Zenon DEF Kept, Filed
  <2>. QED BY <2>1, ZenonT(60) DEF Kept, Filed, Steady, u
<1>11. Cared(q)
    BY Zenon DEF Kept, Cared, Steady
<1>12. InOrder(q)
  <2>1. \A i \in 1..Len(u), j \in 1..Len(r.queue) : u[i].n <= r.queue[j].n
      BY <1>3, <1>5, <1>9, Zenon
  <2>. QED BY <1>5, <1>8, <2>1, Zenon DEF InOrder, u
<1>13. Steered(q)
    BY Zenon DEF Kept, Steered, Steady
<1>16. Incremental(q) => Incremental(r) \/ e.kind \in {"user", "mutation"}
    BY <1>9, Zenon DEF Incremental, u
<1>14. ASSUME Playable(r), Plays(r, e) PROVE Playable(q)
    BY <1>14, <1>16, Zenon DEF Playable, Plays, Steady
<1>15. ASSUME NEW d, Fits(r, d), e.n <= d.n PROVE Fits(q, d)
  <2>1. \A i \in 1..Len(u) : u[i].n <= d.n
      BY <1>9, <1>15, Zenon DEF Fits
  <2>. QED BY <1>15, <2>1, Zenon DEF Fits, Steady, u
<1>. QED BY <1>10, <1>11, <1>12, <1>13, <1>14, <1>15, <1>16, Zenon DEF Kept

\* The buffer is bound to the session of the event.
LEMMA ReboundSettles ==
    ASSUME NEW r, Kept(r), NEW e, Fits(r, e)
    PROVE  /\ Cleared(r, Rebound(r, e)) /\ Rebound(r, e).idle = r.idle
           /\ Rebound(r, e).buffer.session = r.session
<1>. DEFINE q == Rebound(r, e)
            f == FlushBuffer(r)
<1>1. r \in Recorders /\ e.target = r.session /\ e.target \in Sessions
    BY RecorderFields DEF Kept, Fits
<1>2. Cleared(r, f) /\ f.idle = r.idle
    BY <1>1, FlushClears, Zenon
<1>3. f \in Recorders
    BY <1>2, Zenon DEF Cleared
<1>4. r.buffer.events \in Seq(RecEvent) /\ f.buffer.events \in Seq(RecEvent)
    BY <1>1, <1>3, RecorderFields
<1>. HIDE DEF f
<1>5. CASE r.buffer.session # e.target
  <2>1. r.buffer.events = <<>>
      BY <1>1, <1>5, Zenon DEF Kept, Filed
  <2>2. q = [f EXCEPT !.buffer = [session |-> e.target, events |-> <<>>]]
      BY <1>5, Zenon DEF Rebound, f
  <2>3. f.buffer.events = <<>>
      BY <1>1, <1>2, <2>1, ClearedPlayable, Zenon
  <2>4. [session |-> e.target, events |-> <<>>] \in [session : Sessions, events : Seq(RecEvent)]
    <3>1. <<>> \in Seq(RecEvent)
        OBVIOUS
    <3>. QED BY <1>1, <3>1
  <2>10. q.buffer = [session |-> e.target, events |-> <<>>]
      BY <1>3, <2>2, Zenon DEF Recorders
  <2>5. q \in Recorders
    <3>. DEFINE b == [session |-> e.target, events |-> <<>>]
    <3>1. q = [f EXCEPT !.buffer = b] /\ b \in [session : Sessions, events : Seq(RecEvent)]
        BY <2>2, <2>4
    <3>. HIDE DEF b, q
    <3>. QED BY <1>3, <3>1, ZenonT(60) DEF Recorders
  <2>6. q.buffer.events = <<>> /\ q.buffer.session = e.target
      BY <2>10
  <2>7. /\ Steady(f, q) /\ q.queue = f.queue /\ q.emitted = f.emitted /\ q.seen = f.seen
        /\ q.idle = f.idle /\ q.shipped = f.shipped /\ q.shippedTo = f.shippedTo
      BY <1>3, <2>2 DEF Recorders, Steady
  <2>. HIDE DEF q
  <2>8. Steady(r, q)
      BY <1>2, <2>7, Zenon DEF Cleared, Steady
  <2>9. Cleared(r, q)
      BY <1>2, <2>1, <2>3, <2>5, <2>6, <2>7, <2>8, Zenon DEF Cleared, Sent
  <2>. QED BY <1>1, <1>2, <2>6, <2>7, <2>9, Zenon DEF q
<1>6. CASE r.buffer.session = e.target /\
           (r.idle # "idle" /\ ~r.hold /\ Len(r.buffer.events) >= BufferCap)
  <2>1. q = [f EXCEPT !.buffer.session = e.target]
      BY <1>6 DEF Rebound, f
  <2>2. f.buffer \in [session : Sessions, events : Seq(RecEvent)]
      BY <1>3, RecorderFields
  <2>3. /\ q.buffer \in [session : Sessions, events : Seq(RecEvent)]
        /\ q.buffer.events = f.buffer.events /\ q.buffer.session = e.target
      BY <1>1, <1>3, <2>1, <2>2, SMTT(30) DEF Recorders
  <2>4. q \in Recorders
      BY <1>3, <2>1, <2>3, ZenonT(60) DEF Recorders
  <2>5. /\ Steady(f, q) /\ q.queue = f.queue /\ q.emitted = f.emitted /\ q.seen = f.seen
        /\ q.idle = f.idle /\ q.shipped = f.shipped /\ q.shippedTo = f.shippedTo
      BY <1>3, <2>1 DEF Recorders, Steady
  <2>. HIDE DEF q
  <2>6. Steady(r, q)
      BY <1>2, <2>5, Zenon DEF Cleared, Steady
  <2>7. (q.shipped = r.shipped /\ q.shippedTo = r.shippedTo) \/ Sent(r, q)
    <3>1. CASE f.shipped = r.shipped /\ f.shippedTo = r.shippedTo
        BY <2>5, <3>1, Zenon
    <3>2. CASE Sent(r, f)
        BY <2>3, <2>5, <3>2, Zenon DEF Sent
    <3>. QED BY <1>2, <3>1, <3>2, Zenon DEF Cleared
  <2>8. Cleared(r, q)
      BY <1>2, <1>6, <2>3, <2>4, <2>5, <2>6, <2>7, Zenon DEF Cleared
  <2>. QED BY <1>1, <1>2, <2>3, <2>5, <2>8, Zenon DEF q
<1>7. CASE r.buffer.session = e.target /\
           ~(r.idle # "idle" /\ ~r.hold /\ Len(r.buffer.events) >= BufferCap)
  <2>1. q = r
      BY <1>7 DEF Rebound
  <2>2. Rest(r.buffer.events, r.buffer.events)
      BY <1>4, SuffixesKnown
  <2>3. Cleared(r, r)
      BY <1>1, <2>2 DEF Cleared, Steady
  <2>. QED BY <1>1, <1>7, <2>1, <2>3
<1>. QED BY <1>5, <1>6, <1>7

\* An event is buffered, or dropped with the buffer of a hold that is too long.
LEMMA BufferKeeps ==
    ASSUME NEW r, Kept(r), NEW e, Fits(r, e), Ships(r)
    PROVE  LET q == CaptureSnapshotBuffered(r, e) IN
           /\ Kept(q) /\ Steady(r, q) /\ Timely(q) /\ q.idle = r.idle
           /\ q.emitted = r.emitted /\ q.seen = r.seen /\ q.queue = r.queue
           /\ Playable(r) /\ Plays(r, e) => Playable(q)
           /\ Incremental(q) => Incremental(r) \/ e.kind \in {"user", "mutation"}
           /\ \A d : Fits(r, d) /\ e.n <= d.n => Fits(q, d)
<1>. DEFINE b == Rebound(r, e)
            q == CaptureSnapshotBuffered(r, e)
<1>1. r \in Recorders
    BY DEF Kept
<1>2. Cleared(r, b) /\ b.idle = r.idle /\ b.buffer.session = r.session
    BY ReboundSettles, Zenon
<1>3. Kept(b) /\ Fits(b, e) /\ \A d : Fits(r, d) => Fits(b, d)
    BY <1>2, ClearedKept, ClearedFits, Zenon
<1>4. (Playable(r) => Playable(b)) /\ (Incremental(b) => Incremental(r))
    BY <1>1, <1>2, ClearedPlayable, Zenon
<1>5. /\ b \in Recorders /\ Steady(r, b) /\ b.queue = r.queue /\ b.seen = r.seen
      /\ b.emitted = r.emitted
    BY <1>2, Zenon DEF Cleared
<1>. HIDE DEF b
<1>6. CASE b.hold /\ b.overflowed
  <2>1. q = b
      BY <1>6, Zenon DEF CaptureSnapshotBuffered, b
  <2>2. Timely(b)
      BY <1>6, Zenon DEF Timely
  <2>. QED BY <1>2, <1>3, <1>4, <1>5, <2>1, <2>2, Zenon
<1>7. CASE ~(b.hold /\ b.overflowed) /\ (b.hold /\ Len(b.buffer.events) >= BufferCap)
  <2>. DEFINE t == [b EXCEPT !.overflowed = TRUE]
  <2>1. q = ClearBuffer(t)
      BY <1>7, Zenon DEF CaptureSnapshotBuffered, b
  <2>2. t \in Recorders
      BY <1>5 DEF Recorders
  <2>3. /\ Steady(b, t) /\ t.queue = b.queue /\ t.emitted = b.emitted /\ t.seen = b.seen
        /\ t.idle = b.idle /\ t.shipped = b.shipped /\ t.shippedTo = b.shippedTo
        /\ t.buffer = b.buffer
      BY <1>5 DEF Recorders, Steady
  <2>. HIDE DEF t
  <2>4. Cleared(t, q) /\ q.buffer.events = <<>> /\ q.shipped = t.shipped
        /\ q.shippedTo = t.shippedTo /\ q.idle = t.idle
      BY <2>1, <2>2, ClearSettles, Zenon
  <2>. HIDE DEF q
  <2>5. Cleared(b, q)
      BY <2>3, <2>4, Zenon DEF Cleared, Steady
  <2>6. Ships(b)
      BY <1>5, Zenon DEF Steady, Ships
  <2>7. Kept(q) /\ \A d : Fits(b, d) => Fits(q, d)
      BY <1>3, <2>5, <2>6, ClearedKept, ClearedFits, Zenon
  <2>8. (Playable(b) => Playable(q)) /\ (Incremental(q) => Incremental(b))
      BY <1>5, <2>5, ClearedPlayable, Zenon
  <2>9. Timely(q)
      BY <2>4, NothingIncremental, Zenon DEF Timely
  <2>10. Steady(r, q) /\ q.idle = r.idle
      BY <1>2, <1>5, <2>3, <2>4, <2>5, ZenonT(60) DEF Cleared, Steady
  <2>11. q.emitted = r.emitted /\ q.seen = r.seen /\ q.queue = r.queue
      BY <1>5, <2>5, Zenon DEF Cleared
  <2>. QED BY <1>3, <1>4, <2>7, <2>8, <2>9, <2>10, <2>11, Zenon DEF q
<1>8. CASE ~(b.hold /\ b.overflowed) /\ ~(b.hold /\ Len(b.buffer.events) >= BufferCap)
  <2>. DEFINE set == b.timer \/ (b.idle # "idle" /\ ~b.hold)
  <2>1. q = [b EXCEPT !.buffer.events = Append(@, e), !.timer = set]
      BY <1>8, Zenon DEF CaptureSnapshotBuffered, b
  <2>2. /\ b.buffer \in [session : Sessions, events : Seq(RecEvent)]
        /\ b.buffer.events \in Seq(RecEvent) /\ e \in RecEvent /\ set \in BOOLEAN
      BY <1>3, <1>5, RecorderFields DEF Fits
  <2>3. Append(b.buffer.events, e) \in Seq(RecEvent)
      BY <2>2, AppendProperties
  <2>. DEFINE u == Append(b.buffer.events, e)
              c == [b.buffer EXCEPT !.events = u]
  <2>13. q = [b EXCEPT !.buffer = c, !.timer = set] /\ u \in Seq(RecEvent)
      BY <2>1, <2>3
  <2>. HIDE DEF set, u
  <2>14. /\ c \in [session : Sessions, events : Seq(RecEvent)]
         /\ c.events = u /\ c.session = b.buffer.session
      BY <2>2, <2>13
  <2>. HIDE DEF c
  <2>15. q.buffer = c
      BY <1>5, <2>13, Zenon DEF Recorders
  <2>4. /\ q.buffer \in [session : Sessions, events : Seq(RecEvent)]
        /\ q.buffer.events = Append(b.buffer.events, e)
        /\ q.buffer.session = b.buffer.session
      BY <2>14, <2>15, Zenon DEF u
  <2>5. q \in Recorders
      BY <1>5, <2>2, <2>13, <2>14, ZenonT(60) DEF Recorders
  <2>6. /\ Steady(b, q) /\ q.queue = b.queue /\ q.emitted = b.emitted /\ q.seen = b.seen
        /\ q.idle = b.idle /\ q.shipped = b.shipped /\ q.shippedTo = b.shippedTo
      BY <1>5, <2>13 DEF Recorders, Steady
  <2>7. q.timer = set
      BY <1>5, <2>13, Zenon DEF Recorders
  <2>. HIDE DEF q
  <2>8. b.session = r.session /\ b.buffer.session = b.session
      BY <1>2, <1>5, Zenon DEF Steady
  <2>9. /\ Kept(q)
        /\ Playable(b) /\ Plays(b, e) => Playable(q)
        /\ Incremental(q) => Incremental(b) \/ e.kind \in {"user", "mutation"}
        /\ \A d : Fits(b, d) /\ e.n <= d.n => Fits(q, d)
      BY <1>3, <2>4, <2>5, <2>6, <2>8, BufferedKept, Zenon
  <2>10. Plays(r, e) => Plays(b, e)
      BY <1>5, Zenon DEF Plays, Steady
  <2>11. Timely(q)
      BY <2>6, <2>7, Zenon DEF Timely, set, Steady
  <2>12. Steady(r, q) /\ q.idle = r.idle /\ q.emitted = r.emitted /\ q.seen = r.seen
         /\ q.queue = r.queue
      BY <1>2, <1>5, <2>6, Zenon DEF Steady
  <2>. QED BY <1>3, <1>4, <2>9, <2>10, <2>11, <2>12, Zenon DEF q
<1>. QED BY <1>6, <1>7, <1>8

\* Nothing but what is captured, or a snapshot that it needs, changes.
Going(r, q) ==
    /\ q.session = r.session /\ q.quiet = r.quiet /\ q.live = r.live /\ q.hears = r.hears
    /\ q.stopping = r.stopping /\ q.hold = r.hold /\ q.unloadShips = r.unloadShips
    /\ q.verdict = r.verdict /\ q.cared = r.cared /\ q.fresh = r.fresh /\ q.idle = r.idle
    /\ q.capturing = r.capturing

\* Only a recorder that something goes on in captures what happens on the page.
Awake(r, e) == e.kind \in {"user", "mutation"} => ~r.quiet /\ r.idle # "idle"

\* A live recorder, and one that stops, have nothing unheld that nobody cares about.
LEMMA LiveShips ==
    ASSUME NEW r, Kept(r), r.live \/ r.stopping
    PROVE  Ships(r)
BY Zenon DEF Kept, Cared, Ships

\* What a snapshot leaves as it is: a full one is captured with its epoch's first.
Carried(r, q) ==
    /\ q.session = r.session /\ q.quiet = r.quiet /\ q.live = r.live /\ q.hears = r.hears
    /\ q.stopping = r.stopping /\ q.hold = r.hold /\ q.unloadShips = r.unloadShips
    /\ q.verdict = r.verdict /\ q.cared = r.cared /\ q.fresh = r.fresh
    /\ q.capturing = r.capturing /\ q.healed = r.healed /\ q.emitted = r.emitted
    /\ q.idle = r.idle \/ (r.quiet /\ q.idle = "idle")
    /\ r.seen => q.seen
    /\ q.lastFull = r.lastFull \/ (q.lastFull = r.session /\ q.seen)
    /\ Playable(r) => Playable(q)
    /\ Incremental(q) => Incremental(r)
    /\ \A d : Due(r, d) => Due(q, d)

LEMMA CarriedOn ==
    ASSUME NEW r, NEW p, NEW q, Carried(r, p), Carried(p, q)
    PROVE  Carried(r, q)
<1>1. \A d : Due(r, d) => Due(q, d)
    BY Zenon DEF Carried
<1>2. q.lastFull = r.lastFull \/ (q.lastFull = r.session /\ q.seen)
    BY Zenon DEF Carried
<1>3. q.idle = r.idle \/ (r.quiet /\ q.idle = "idle")
    BY Zenon DEF Carried
<1>. QED BY <1>1, <1>2, <1>3, Zenon DEF Carried

LEMMA ClearedCarries ==
    ASSUME NEW r, NEW q, Kept(r), Cleared(r, q), Ships(r)
    PROVE  Kept(q) /\ Carried(r, q) /\ Ships(q)
<1>1. r \in Recorders /\ Kept(q)
    BY ClearedKept, Zenon DEF Kept
<1>2. (Playable(r) => Playable(q)) /\ (Incremental(q) => Incremental(r))
    BY <1>1, ClearedPlayable, Zenon
<1>3. \A d : Due(r, d) => Due(q, d)
  <2>1. SUFFICES ASSUME NEW d, Due(r, d) PROVE Due(q, d)
      OBVIOUS
  <2>2. Fits(r, d)
      BY <2>1, Zenon DEF Due
  <2>. QED BY <2>1, <2>2, ClearedFits, Zenon
<1>4. Steady(r, q) /\ q.emitted = r.emitted /\ q.seen = r.seen
    BY Zenon DEF Cleared
<1>5. q.idle = r.idle \/ (r.quiet /\ q.idle = "idle")
    BY Zenon DEF Cleared
<1>6. Carried(r, q)
    BY <1>2, <1>3, <1>4, <1>5, ZenonT(60) DEF Carried, Steady
<1>. QED BY <1>1, <1>4, <1>6, Zenon DEF Steady, Ships

\* An event that needs no snapshot before it is captured: the recorder stays as it
\* should be, whatever the status, and the events after it can be captured next.
LEMMA CaptureKeeps ==
    ASSUME NEW r, Kept(r), NEW e, Fits(r, e), Ships(r)
    PROVE  LET q == Capture(r, e) IN
           /\ Kept(q) /\ Going(r, q) /\ Timely(q)
           /\ q.emitted = r.emitted /\ q.seen = r.seen /\ q.queue = r.queue
           /\ q.healed = r.healed
           /\ q.lastFull = r.lastFull \/ (q.lastFull = r.session /\ q.seen)
           /\ Playable(r) /\ Plays(r, e) => Playable(q)
           /\ Incremental(q) => Incremental(r) \/ e.kind \in {"user", "mutation"}
           /\ \A d : Fits(r, d) /\ e.n <= d.n => Fits(q, d)
<1>. DEFINE q == Capture(r, e)
            h == IF e.kind = "full" THEN [r EXCEPT !.lastFull = e.target] ELSE r
<1>1. r \in Recorders
    BY DEF Kept
<1>2. e.target = r.session /\ r.session \in Sessions
    BY <1>1, RecorderFields DEF Fits
<1>3. r.session \in 0..MaxSessions /\ r.session <= r.session /\ r.session # 0
    BY <1>2, RecorderAssumption DEF Sessions
<1>4. CASE RecStatus(r) = "disabled"
  <2>1. q = ClearBuffer(r)
      BY <1>4, Zenon DEF Capture
  <2>2. Cleared(r, q) /\ q.buffer.events = <<>> /\ q.idle = r.idle
      BY <1>1, <2>1, ClearSettles, Zenon
  <2>. HIDE DEF q
  <2>3. Kept(q) /\ (\A d : Fits(r, d) => Fits(q, d)) /\ (Playable(r) => Playable(q))
      BY <1>1, <2>2, ClearedKept, ClearedFits, ClearedPlayable, Zenon
  <2>4. Timely(q) /\ ~Incremental(q)
      BY <2>2, NothingIncremental, Zenon
  <2>5. /\ Going(r, q) /\ q.emitted = r.emitted /\ q.seen = r.seen /\ q.queue = r.queue
        /\ q.healed = r.healed /\ q.lastFull = r.lastFull
      BY <2>2, Zenon DEF Cleared, Steady, Going
  <2>. QED BY <2>3, <2>4, <2>5, Zenon DEF q
<1>5. CASE RecStatus(r) # "disabled"
  <2>1. q = CaptureSnapshotBuffered(h, e)
      BY <1>5, Zenon DEF Capture
  <2>2. /\ Kept(h) /\ Going(r, h) /\ h.emitted = r.emitted /\ h.seen = r.seen
        /\ h.queue = r.queue /\ h.healed = r.healed /\ h.buffer = r.buffer
        /\ h.shippedTo = r.shippedTo
        /\ h.lastFull = r.lastFull \/ (h.lastFull = r.session /\ h.seen)
        /\ Playable(r) /\ Plays(r, e) => Playable(h) /\ Plays(h, e)
    <3>1. CASE e.kind # "full"
      <4>1. h = r
          BY <3>1, Zenon
      <4>. HIDE DEF h
      <4>. QED BY <4>1, Zenon DEF Going
    <3>2. CASE e.kind = "full"
      <4>1. h = [r EXCEPT !.lastFull = r.session]
          BY <1>2, <3>2, Zenon
      <4>. HIDE DEF h
      <4>2. h \in Recorders /\ h.lastFull = r.session
          BY <1>1, <1>3, <4>1, ZenonT(60) DEF Recorders
      <4>3. /\ Going(r, h) /\ h.queue = r.queue /\ h.emitted = r.emitted /\ h.seen = r.seen
            /\ h.shipped = r.shipped /\ h.shippedTo = r.shippedTo /\ h.buffer = r.buffer
            /\ h.healed = r.healed
          BY <1>1, <4>1 DEF Recorders, Going
      <4>4. Filed(h) /\ Cared(h) /\ InOrder(h)
          BY <4>3, ZenonT(60) DEF Kept, Filed, Cared, InOrder, Going
      <4>5. Steered(h)
          BY <1>3, <4>2, <4>3, Zenon DEF Kept, Steered, Going
      <4>6. Kept(h)
          BY <4>2, <4>4, <4>5, Zenon DEF Kept
      <4>7. h.seen
          BY <3>2, <4>3, Zenon DEF Fits
      <4>8. Playable(h) /\ Plays(h, e)
          BY <4>7, Zenon DEF Playable, Plays
      <4>. QED BY <4>2, <4>3, <4>6, <4>7, <4>8, Zenon
    <3>. QED BY <3>1, <3>2
  <2>. HIDE DEF h
  <2>3. /\ \A d : Fits(r, d) => Fits(h, d)
        /\ Incremental(h) <=> Incremental(r)
      BY <2>2, Zenon DEF Fits, Going, Incremental
  <2>4. Fits(h, e) /\ Ships(h)
      BY <2>2, <2>3, Zenon DEF Going, Ships
  <2>5. /\ Kept(q) /\ Steady(h, q) /\ Timely(q) /\ q.idle = h.idle
        /\ q.emitted = h.emitted /\ q.seen = h.seen /\ q.queue = h.queue
        /\ Playable(h) /\ Plays(h, e) => Playable(q)
        /\ Incremental(q) => Incremental(h) \/ e.kind \in {"user", "mutation"}
      BY <2>1, <2>2, <2>4, BufferKeeps
  <2>9. \A d : Fits(h, d) /\ e.n <= d.n => Fits(q, d)
      BY <2>1, <2>2, <2>4, BufferKeeps, ZenonT(60)
  <2>. HIDE DEF q
  <2>6. /\ Going(r, q) /\ q.emitted = r.emitted /\ q.seen = r.seen /\ q.queue = r.queue
        /\ q.healed = r.healed /\ q.lastFull = h.lastFull
      BY <2>2, <2>5, Zenon DEF Going, Steady
  <2>7. q.lastFull = r.lastFull \/ (q.lastFull = r.session /\ q.seen)
      BY <2>2, <2>6, Zenon
  <2>8. \A d : Fits(r, d) /\ e.n <= d.n => Fits(q, d)
      BY <2>3, <2>9, Zenon
  <2>. QED BY <2>2, <2>3, <2>5, <2>6, <2>7, <2>8, Zenon DEF q
<1>. QED BY <1>4, <1>5

\* A Meta event, or a full snapshot, joins the queue or is captured.
LEMMA EmitKeeps ==
    ASSUME NEW r, Kept(r), Ships(r), ~r.quiet, r.idle # "idle", NEW kind \in {"meta", "full"},
           kind = "full" => r.seen
    PROVE  LET q == Emit(r, kind) IN Kept(q) /\ Carried(r, q) /\ Timely(q) /\ q.idle = r.idle
<1>. DEFINE e == NextEvent(r, kind, r.session)
            q == Emit(r, kind)
<1>1. /\ e \in RecEvent /\ e.n = r.emitted /\ e.kind = kind /\ e.target = r.session
      /\ r.shippedTo <= e.n
      /\ \A i \in 1..Len(r.buffer.events) : r.buffer.events[i].n <= e.n
  <2>1. kind \in EventKinds
      BY DEF EventKinds
  <2>. QED BY <2>1, NextIsLatest, Zenon
<1>2. q = IF Queues(r, e) THEN EnqueueCompression(r, e) ELSE Capture(r, e)
    BY Zenon DEF Emit
<1>. HIDE DEF e
<1>3. CASE Queues(r, e)
  <2>1. q = EnqueueCompression(r, e)
      BY <1>2, <1>3, Zenon
  <2>2. /\ Kept(q) /\ Steady(r, q) /\ q.idle = r.idle /\ Timely(q)
        /\ q.emitted = r.emitted /\ q.seen = r.seen /\ q.buffer = r.buffer
        /\ (Playable(r) => Playable(q)) /\ (Incremental(q) => Incremental(r))
    <3>1. e.kind = "full" => r.seen
        BY <1>1
    <3>. QED BY <1>1, <2>1, <3>1, QueuedKept
  <2>4. \A d : Due(r, d) => Due(q, d)
    <3>1. e.kind = "full" => r.seen
        BY <1>1
    <3>. QED BY <1>1, <2>1, <3>1, QueuedKept, ZenonT(60)
  <2>. HIDE DEF q
  <2>3. Carried(r, q)
      BY <2>2, <2>4, ZenonT(60) DEF Carried, Steady
  <2>. QED BY <2>2, <2>3, Zenon DEF q
<1>4. CASE ~Queues(r, e)
  <2>1. q = Capture(r, e)
      BY <1>2, <1>4, Zenon
  <2>2. r.queue = <<>> /\ ~r.capturing
      BY <1>4, Zenon DEF Queues
  <2>3. Fits(r, e)
    <3>1. \A j \in 1..Len(r.queue) : FALSE
        BY <2>2, EmptySeq
    <3>2. r.emitted \in Nat
        BY RecorderFields DEF Kept
    <3>3. e.n <= r.emitted
        BY <1>1, <3>2
    <3>. QED BY <1>1, <3>1, <3>3, Zenon DEF Fits
  <2>4. e.kind \notin {"user", "mutation"}
      BY <1>1
  <2>5. Plays(r, e)
      BY <2>4, Zenon DEF Plays
  <2>6. /\ Kept(q) /\ Going(r, q) /\ Timely(q)
        /\ q.emitted = r.emitted /\ q.seen = r.seen /\ q.queue = r.queue
        /\ q.healed = r.healed
        /\ q.lastFull = r.lastFull \/ (q.lastFull = r.session /\ q.seen)
        /\ Playable(r) => Playable(q)
        /\ Incremental(q) => Incremental(r)
      BY <2>1, <2>3, <2>4, <2>5, CaptureKeeps
  <2>9. \A d : Fits(r, d) /\ e.n <= d.n => Fits(q, d)
      BY <2>1, <2>3, CaptureKeeps, ZenonT(60)
  <2>. HIDE DEF q
  <2>7. ASSUME NEW d, Due(r, d) PROVE Due(q, d)
    <3>1. Fits(r, d) /\ d.n = r.emitted
        BY <2>2, <2>7, Zenon DEF Due
    <3>2. r.emitted \in Nat
        BY RecorderFields DEF Kept
    <3>3. e.n <= d.n
        BY <1>1, <3>1, <3>2
    <3>. QED BY <2>6, <2>9, <3>1, <3>3, Zenon DEF Due, Going
  <2>8. Carried(r, q)
      BY <2>6, <2>7, ZenonT(60) DEF Carried, Going
  <2>. QED BY <2>6, <2>8, Zenon DEF q, Going
<1>. QED BY <1>3, <1>4

\* What a full snapshot does to a recorder: it has been seen if something goes on.
Snapped(r, q) ==
    /\ Kept(q) /\ Carried(r, q) /\ Timely(q)
    /\ ~r.quiet /\ r.idle # "idle" => q.seen /\ q.idle = r.idle

\* A full snapshot keeps the recorder well formed, and says what else it leaves.
LEMMA SnapshotKeeps ==
    ASSUME NEW r, Kept(r), Ships(r)
    PROVE  Snapped(r, SnapshotEmitted(r))
<1>. DEFINE g == GoIdle(r)
            m == Emit(g, "meta")
            h == SinceLastMeta(m)
            s == [h EXCEPT !.seen = TRUE]
            q == SnapshotEmitted(r)
<1>1. r \in Recorders
    BY DEF Kept
<1>2. Cleared(r, g) /\ (g.quiet => g.idle = "idle")
    BY <1>1, GoIdleSettles, Zenon
<1>3. q = IF g.idle = "idle" THEN SinceLastMeta(g) ELSE Emit(s, "full")
    BY Zenon DEF SnapshotEmitted
<1>. HIDE DEF g
<1>4. Kept(g) /\ Carried(r, g) /\ Ships(g)
    BY <1>2, ClearedCarries, Zenon
<1>5. g \in Recorders
    BY <1>4, Zenon DEF Kept
<1>6. g.idle = r.idle \/ (r.quiet /\ g.idle = "idle")
    BY <1>4, Zenon DEF Carried
<1>7. CASE g.idle = "idle"
  <2>1. q = SinceLastMeta(g)
      BY <1>3, <1>7, Zenon
  <2>2. Cleared(g, q) /\ q.idle = "idle"
      BY <1>5, <1>7, <2>1, SinceLastSettles, Zenon
  <2>. HIDE DEF q
  <2>3. Kept(q) /\ Carried(g, q)
      BY <1>4, <2>2, ClearedCarries, Zenon
  <2>4. Carried(r, q) /\ Timely(q)
      BY <1>4, <2>2, <2>3, CarriedOn, Zenon DEF Timely
  <2>5. ~(~r.quiet /\ r.idle # "idle")
      BY <1>6, <1>7, Zenon
  <2>. QED BY <2>3, <2>4, <2>5, Zenon DEF Snapped, q
<1>8. CASE g.idle # "idle"
  <2>1. q = Emit(s, "full")
      BY <1>3, <1>8, Zenon
  <2>2. ~g.quiet /\ "meta" \in {"meta", "full"} /\ "full" \in {"meta", "full"} /\ "meta" # "full"
      BY <1>2, <1>8
  <2>3. Kept(m) /\ Carried(g, m) /\ m.idle = g.idle
      BY <1>4, <1>8, <2>2, EmitKeeps, Zenon
  <2>. HIDE DEF m
  <2>4. m \in Recorders /\ Ships(m)
      BY <1>4, <2>3, Zenon DEF Kept, Carried, Ships
  <2>5. Cleared(m, h) /\ h.idle = m.idle
      BY <2>4, SinceLastSettles, Zenon
  <2>. HIDE DEF h
  <2>6. Kept(h) /\ Carried(m, h) /\ Ships(h)
      BY <2>3, <2>4, <2>5, ClearedCarries, Zenon
  <2>7. h \in Recorders
      BY <2>6, Zenon DEF Kept
  <2>8. s \in Recorders
      BY <2>7, ZenonT(60) DEF Recorders
  <2>9. s.seen = TRUE
      BY <2>7, Zenon DEF Recorders
  <2>10. /\ Steady(h, s) /\ s.queue = h.queue /\ s.emitted = h.emitted /\ s.buffer = h.buffer
         /\ s.idle = h.idle /\ s.shipped = h.shipped /\ s.shippedTo = h.shippedTo
      BY <2>7 DEF Recorders, Steady
  <2>. HIDE DEF s
  <2>11. Filed(s) /\ Cared(s) /\ InOrder(s)
      BY <2>6, <2>10, ZenonT(60) DEF Kept, Filed, Cared, InOrder, Steady
  <2>12. Steered(s)
      BY <2>6, <2>9, <2>10, Zenon DEF Kept, Steered, Steady
  <2>13. Kept(s) /\ Ships(s)
      BY <2>6, <2>8, <2>10, <2>11, <2>12, Zenon DEF Kept, Ships, Steady
  <2>14. Carried(h, s)
    <3>1. Playable(s) /\ (Incremental(s) => Incremental(h))
        BY <2>9, <2>10, Zenon DEF Playable, Incremental
    <3>2. \A d : Due(h, d) => Due(s, d)
        BY <2>9, <2>10, Zenon DEF Due, Fits, Steady
    <3>. QED BY <2>9, <2>10, <3>1, <3>2, ZenonT(60) DEF Carried, Steady
  <2>15. ~s.quiet /\ s.idle # "idle" /\ s.idle = g.idle
      BY <1>8, <2>2, <2>3, <2>5, <2>6, <2>10, Zenon DEF Carried, Steady
  <2>16. Kept(q) /\ Carried(s, q) /\ Timely(q) /\ q.idle = s.idle
      BY <2>1, <2>2, <2>9, <2>13, <2>15, EmitKeeps, Zenon
  <2>. HIDE DEF q
  <2>17. Carried(r, q)
    <3>1. Carried(r, m)
        BY <1>4, <2>3, CarriedOn, Zenon
    <3>2. Carried(r, h)
        BY <2>6, <3>1, CarriedOn, Zenon
    <3>3. Carried(r, s)
        BY <2>14, <3>2, CarriedOn, Zenon
    <3>. QED BY <2>16, <3>3, CarriedOn, Zenon
  <2>18. q.seen /\ q.idle = r.idle
      BY <1>6, <1>8, <2>9, <2>15, <2>16, Zenon DEF Carried
  <2>. QED BY <2>16, <2>17, <2>18, Zenon DEF Snapped, q
<1>. QED BY <1>7, <1>8

\* Asking for a full snapshot is what emitting one is.
LEMMA TakeKeeps ==
    ASSUME NEW r, Kept(r), r.live
    PROVE  Snapped(r, TakeFullSnapshot(r))
BY SnapshotKeeps, LiveShips, Zenon DEF TakeFullSnapshot

\* The heal before an event keeps the recorder, and makes the event playable.
LEMMA EnsureKeeps ==
    ASSUME NEW r, Kept(r), NEW e, Due(r, e), Awake(r, e)
    PROVE  LET q == EnsureFullSnapshot(r, e) IN
           /\ Kept(q) /\ Going(r, q)
           /\ Playable(r) => Playable(q) /\ Plays(q, e)
           /\ \A d : Due(r, d) => Due(q, d)
<1>. DEFINE q == EnsureFullSnapshot(r, e)
<1>1. r \in Recorders
    BY DEF Kept
<1>2. e.target = r.session /\ e \in RecEvent /\ r.session \in Sessions
    BY <1>1, RecorderFields DEF Due, Fits
<1>3. r.session \in 0..MaxSessions /\ r.session <= r.session /\ r.session # 0
    BY <1>2, RecorderAssumption DEF Sessions
<1>4. CASE ~NeedsSnapshot(r, e)
  <2>1. q = r
      BY <1>4 DEF EnsureFullSnapshot
  <2>2. Playable(r) => Plays(r, e)
    <3>1. SUFFICES ASSUME Playable(r), r.live, ~r.fresh, e.kind \in {"user", "mutation"}
                   PROVE  r.seen \/ r.lastFull = 0
        BY Zenon DEF Plays
    <3>2. r.session \in {r.lastFull, r.healed} => r.seen
        BY <3>1, Zenon DEF Playable
    <3>3. r.lastFull \in {0, e.target} \/ r.healed = e.target
        BY <1>4, <3>1, Zenon DEF NeedsSnapshot
    <3>. QED BY <1>2, <3>2, <3>3
  <2>3. Going(r, r)
      BY DEF Going
  <2>. QED BY <2>1, <2>2, <2>3, Zenon
<1>5. CASE NeedsSnapshot(r, e)
  <2>. DEFINE n == IF r.capturing THEN r.emitted + 1 ELSE r.emitted
              k == [r EXCEPT !.healed = r.session, !.emitted = n]
  <2>1. q = TakeFullSnapshot(k)
    <3>1. k = [r EXCEPT !.healed = e.target,
                        !.emitted = IF r.capturing THEN @ + 1 ELSE @]
        BY <1>1, <1>2, ZenonT(60) DEF Recorders
    <3>. HIDE DEF k
    <3>. QED BY <1>5, <3>1, Zenon DEF EnsureFullSnapshot
  <2>2. n \in Nat /\ r.emitted <= n /\ (r.capturing \/ n = r.emitted)
    <3>1. r.emitted \in Nat
        BY <1>1, RecorderFields
    <3>. QED BY <3>1
  <2>. HIDE DEF n
  <2>3. k \in Recorders /\ k.healed = r.session /\ k.emitted = n
      BY <1>1, <1>3, <2>2, ZenonT(60) DEF Recorders
  <2>4. /\ Going(r, k) /\ k.queue = r.queue /\ k.seen = r.seen
        /\ k.shipped = r.shipped /\ k.shippedTo = r.shippedTo /\ k.buffer = r.buffer
        /\ k.lastFull = r.lastFull
      BY <1>1 DEF Recorders, Going
  <2>. HIDE DEF k
  <2>5. Filed(k) /\ Cared(k)
      BY <2>4, ZenonT(60) DEF Kept, Filed, Cared, Going
  <2>6. InOrder(k)
      BY <1>1, <2>2, <2>3, <2>4, RaisedInOrder, Zenon DEF Kept
  <2>7. Steered(k)
      BY <1>3, <2>3, <2>4, Zenon DEF Kept, Steered, Going
  <2>8. Kept(k)
      BY <2>3, <2>5, <2>6, <2>7, Zenon DEF Kept
  <2>9. ASSUME NEW d, Due(r, d) PROVE Due(k, d)
    <3>1. d.n \in Nat /\ d.n <= r.emitted /\ r.emitted \in Nat
        BY <1>1, <2>9, RecorderFields DEF Due, Fits, RecEvent
    <3>2. d.n <= n
        BY <2>2, <3>1
    <3>3. k.capturing \/ d.n = k.emitted
        BY <2>2, <2>3, <2>4, <2>9, Zenon DEF Due, Going
    <3>. QED BY <2>3, <2>4, <2>9, <3>2, <3>3, Zenon DEF Due, Fits, Going
  <2>10. ~r.quiet /\ r.idle # "idle"
      BY <1>5, Zenon DEF Awake, NeedsSnapshot
  <2>11. CASE k.live
    <3>1. Snapped(k, q)
        BY <2>1, <2>8, <2>11, TakeKeeps, Zenon
    <3>. HIDE DEF q
    <3>2. q.seen /\ q.idle = k.idle
        BY <2>4, <2>10, <3>1, Zenon DEF Snapped, Going
    <3>3. Playable(q) /\ Plays(q, e)
        BY <3>2, Zenon DEF Playable, Plays
    <3>4. Going(r, q)
        BY <2>4, <3>1, <3>2, ZenonT(60) DEF Snapped, Carried, Going
    <3>5. \A d : Due(r, d) => Due(q, d)
        BY <2>9, <3>1, Zenon DEF Snapped, Carried
    <3>. QED BY <3>1, <3>3, <3>4, <3>5, Zenon DEF Snapped, q
  <2>12. CASE ~k.live
    <3>1. q = k
        BY <2>1, <2>12, Zenon DEF TakeFullSnapshot
    <3>2. Playable(k) /\ Plays(k, e)
        BY <2>12, Zenon DEF Playable, Plays
    <3>. QED BY <2>4, <2>8, <2>9, <3>1, <3>2, Zenon
  <2>. QED BY <2>11, <2>12
<1>. QED BY <1>4, <1>5

\* An event is captured, after the snapshot that it needs.
LEMMA ProcessedKeeps ==
    ASSUME NEW r, Kept(r), NEW e, Due(r, e), Awake(r, e), r.live \/ r.stopping, Playable(r)
    PROVE  LET q == CaptureProcessed(r, e) IN
           /\ Kept(q) /\ Going(r, q) /\ Timely(q) /\ Playable(q)
           /\ \A d : Due(r, d) /\ e.n <= d.n => Due(q, d)
<1>. DEFINE h == EnsureFullSnapshot(r, e)
            q == CaptureProcessed(r, e)
<1>1. CASE RecStatus(r) = "disabled"
  <2>1. q = Capture(r, e) /\ Capture(r, e) = ClearBuffer(r)
      BY <1>1, Zenon DEF CaptureProcessed, Capture
  <2>2. r \in Recorders
      BY DEF Kept
  <2>3. Cleared(r, q) /\ q.buffer.events = <<>> /\ q.idle = r.idle
      BY <2>1, <2>2, ClearSettles, Zenon
  <2>. HIDE DEF q
  <2>4. Ships(r)
      BY LiveShips
  <2>5. Kept(q) /\ Carried(r, q)
      BY <2>3, <2>4, ClearedCarries, Zenon
  <2>6. Timely(q)
      BY <2>3, NothingIncremental, Zenon
  <2>7. Going(r, q)
      BY <2>3, <2>5, ZenonT(60) DEF Carried, Going
  <2>. QED BY <2>5, <2>6, <2>7, Zenon DEF Carried, q
<1>2. CASE RecStatus(r) # "disabled"
  <2>1. q = Capture(h, e)
      BY <1>2, Zenon DEF CaptureProcessed
  <2>2. /\ Kept(h) /\ Going(r, h) /\ Playable(h) /\ Plays(h, e)
        /\ \A d : Due(r, d) => Due(h, d)
      BY EnsureKeeps, Zenon
  <2>. HIDE DEF h
  <2>3. Fits(h, e) /\ (h.live \/ h.stopping)
      BY <2>2, Zenon DEF Going, Due
  <2>4. Ships(h)
      BY <2>2, <2>3, LiveShips
  <2>5. /\ Kept(q) /\ Going(h, q) /\ Timely(q) /\ q.emitted = h.emitted /\ Playable(q)
        /\ \A d : Fits(h, d) /\ e.n <= d.n => Fits(q, d)
      BY <2>1, <2>2, <2>3, <2>4, CaptureKeeps, Zenon
  <2>. HIDE DEF q
  <2>6. Going(r, q)
      BY <2>2, <2>5, Zenon DEF Going
  <2>7. \A d : Due(r, d) /\ e.n <= d.n => Due(q, d)
      BY <2>2, <2>5, Zenon DEF Due, Going
  <2>. QED BY <2>5, <2>6, <2>7, Zenon DEF q
<1>. QED BY <1>1, <1>2

\* A change of the present call's mark does not disturb the rest.
LEMMA MarkKeeps ==
    ASSUME NEW r, Kept(r), NEW mark \in BOOLEAN, mark => ~r.quiet /\ r.idle # "idle"
    PROVE  LET q == [r EXCEPT !.capturing = mark] IN
           /\ Kept(q) /\ q.capturing = mark
           /\ q.session = r.session /\ q.quiet = r.quiet /\ q.live = r.live
           /\ q.hears = r.hears /\ q.stopping = r.stopping /\ q.hold = r.hold
           /\ q.unloadShips = r.unloadShips /\ q.verdict = r.verdict /\ q.cared = r.cared
           /\ q.fresh = r.fresh /\ q.idle = r.idle
           /\ (Playable(r) => Playable(q)) /\ (Timely(r) => Timely(q))
           /\ \A d : Fits(r, d) <=> Fits(q, d)
<1>. DEFINE q == [r EXCEPT !.capturing = mark]
<1>1. r \in Recorders
    BY DEF Kept
<1>2. q \in Recorders /\ q.capturing = mark
    BY <1>1, ZenonT(60) DEF Recorders
<1>3. /\ q.session = r.session /\ q.quiet = r.quiet /\ q.live = r.live
      /\ q.hears = r.hears /\ q.stopping = r.stopping /\ q.hold = r.hold
      /\ q.unloadShips = r.unloadShips /\ q.verdict = r.verdict /\ q.cared = r.cared
      /\ q.fresh = r.fresh /\ q.idle = r.idle /\ q.buffer = r.buffer /\ q.queue = r.queue
      /\ q.shipped = r.shipped /\ q.shippedTo = r.shippedTo /\ q.emitted = r.emitted
      /\ q.seen = r.seen /\ q.lastFull = r.lastFull /\ q.healed = r.healed
      /\ q.timer = r.timer
    BY <1>1 DEF Recorders
<1>. HIDE DEF q
<1>4. Filed(q) /\ Cared(q) /\ InOrder(q)
    BY <1>3, ZenonT(60) DEF Kept, Filed, Cared, InOrder
<1>5. Steered(q)
    BY <1>2, <1>3, Zenon DEF Kept, Steered
<1>6. (Playable(r) => Playable(q)) /\ (Timely(r) => Timely(q))
    BY <1>3, Zenon DEF Playable, Timely, Incremental
<1>7. \A d : Fits(r, d) <=> Fits(q, d)
    BY <1>3, Zenon DEF Fits
<1>. QED BY <1>2, <1>3, <1>4, <1>5, <1>6, <1>7, Zenon DEF Kept, q

\* So is one that comes from the queue.
LEMMA FromQueueKeeps ==
    ASSUME NEW r, Kept(r), NEW e, Fits(r, e), ~r.quiet, r.idle # "idle", ~r.capturing,
           r.live \/ r.stopping, Playable(r)
    PROVE  LET q == CaptureQueued(r, e) IN
           /\ Kept(q) /\ Going(r, q) /\ Timely(q) /\ Playable(q)
           /\ \A d : Fits(r, d) /\ e.n <= d.n => Fits(q, d)
<1>. DEFINE k == [r EXCEPT !.capturing = TRUE]
            h == CaptureProcessed(k, e)
            q == CaptureQueued(r, e)
<1>1. TRUE \in BOOLEAN /\ FALSE \in BOOLEAN
    OBVIOUS
<1>2. /\ Kept(k) /\ k.capturing = TRUE
      /\ k.session = r.session /\ k.quiet = r.quiet /\ k.live = r.live
      /\ k.hears = r.hears /\ k.stopping = r.stopping /\ k.hold = r.hold
      /\ k.unloadShips = r.unloadShips /\ k.verdict = r.verdict /\ k.cared = r.cared
      /\ k.fresh = r.fresh /\ k.idle = r.idle /\ Playable(k)
      /\ \A d : Fits(r, d) <=> Fits(k, d)
    BY <1>1, MarkKeeps, Zenon
<1>3. q = [h EXCEPT !.capturing = FALSE]
    BY Zenon DEF CaptureQueued
<1>. HIDE DEF k
<1>4. Due(k, e) /\ Awake(k, e) /\ (k.live \/ k.stopping)
    BY <1>2, Zenon DEF Due, Awake
<1>5. /\ Kept(h) /\ Going(k, h) /\ Timely(h) /\ Playable(h)
      /\ \A d : Due(k, d) /\ e.n <= d.n => Due(h, d)
    BY <1>2, <1>4, ProcessedKeeps, Zenon
<1>. HIDE DEF h, q
<1>6. /\ Kept(q) /\ q.capturing = FALSE
      /\ q.session = h.session /\ q.quiet = h.quiet /\ q.live = h.live
      /\ q.hears = h.hears /\ q.stopping = h.stopping /\ q.hold = h.hold
      /\ q.unloadShips = h.unloadShips /\ q.verdict = h.verdict /\ q.cared = h.cared
      /\ q.fresh = h.fresh /\ q.idle = h.idle /\ Playable(q) /\ Timely(q)
      /\ \A d : Fits(h, d) <=> Fits(q, d)
    BY <1>1, <1>3, <1>5, MarkKeeps, Zenon
<1>7. r.capturing = FALSE
    BY RecorderFields, Zenon DEF Kept
<1>8. Going(r, q)
    BY <1>2, <1>5, <1>6, <1>7, ZenonT(60) DEF Going
<1>9. \A d : Fits(r, d) /\ e.n <= d.n => Fits(q, d)
    BY <1>2, <1>5, <1>6, Zenon DEF Due
<1>. QED BY <1>5, <1>6, <1>8, <1>9, Zenon DEF q

\* An event that rrweb emits joins the queue, or is captured.
LEMMA RouteKeeps ==
    ASSUME NEW r, Kept(r), Playable(r), r.live, NEW kind \in {"user", "mutation", "link"},
           kind # "link" => ~r.quiet /\ r.idle # "idle"
    PROVE  LET q == Route(r, NextEvent(r, kind, r.session)) IN
           Kept(q) /\ Going(r, q) /\ Timely(q) /\ Playable(q)
<1>. DEFINE e == NextEvent(r, kind, r.session)
            q == Route(r, e)
<1>1. /\ e \in RecEvent /\ e.n = r.emitted /\ e.kind = kind /\ e.target = r.session
      /\ r.shippedTo <= e.n
      /\ \A i \in 1..Len(r.buffer.events) : r.buffer.events[i].n <= e.n
  <2>1. kind \in EventKinds
      BY DEF EventKinds
  <2>. QED BY <2>1, NextIsLatest, Zenon
<1>2. e.kind # "full"
    BY <1>1
<1>. HIDE DEF e
<1>3. CASE Queues(r, e)
  <2>1. q = EnqueueCompression(r, e)
      BY <1>3, Zenon DEF Route
  <2>2. ~r.quiet /\ r.idle # "idle"
    <3>1. CASE r.queue # <<>> \/ r.capturing
        BY <3>1, Zenon DEF Kept, Steered
    <3>2. CASE e.kind \in {"mutation", "full"}
        BY <1>1, <3>2
    <3>. QED BY <1>3, <3>1, <3>2, Zenon DEF Queues
  <2>3. /\ Kept(q) /\ Steady(r, q) /\ q.idle = r.idle /\ Timely(q) /\ Playable(q)
      BY <1>1, <1>2, <2>1, <2>2, QueuedKept, Zenon
  <2>. HIDE DEF q
  <2>4. Going(r, q)
      BY <2>3, Zenon DEF Going, Steady
  <2>. QED BY <2>3, <2>4, Zenon DEF q, e
<1>4. CASE ~Queues(r, e)
  <2>1. q = CaptureProcessed(r, e)
      BY <1>4, Zenon DEF Route
  <2>2. Due(r, e)
    <3>1. r.queue = <<>>
        BY <1>4, Zenon DEF Queues
    <3>2. \A j \in 1..Len(r.queue) : FALSE
        BY <3>1, EmptySeq
    <3>3. r.emitted \in Nat
        BY RecorderFields DEF Kept
    <3>4. e.n <= r.emitted
        BY <1>1, <3>3
    <3>. QED BY <1>1, <1>2, <3>2, <3>4, Zenon DEF Due, Fits
  <2>3. Awake(r, e)
    <3>1. e.kind \in {"user", "mutation"} => ~r.quiet /\ r.idle # "idle"
        BY <1>1
    <3>. QED BY <3>1, Zenon DEF Awake
  <2>4. Kept(q) /\ Going(r, q) /\ Timely(q) /\ Playable(q)
      BY <2>1, <2>2, <2>3, ProcessedKeeps, Zenon
  <2>. QED BY <2>4, Zenon DEF q, e
<1>. QED BY <1>3, <1>4

\* Nothing is buffered or queued by a recorder that has stopped.
Rests(r) == ~r.live /\ ~r.stopping => r.buffer.events = <<>> /\ r.queue = <<>>

\* A call in which rrweb emits leaves all else as it was.
LEMMA CalledKeeps ==
    ASSUME NEW r, Kept(r)
    PROVE  LET q == Called(r) IN
           /\ Kept(q) /\ Going(r, q) /\ q.queue = r.queue /\ q.buffer = r.buffer
           /\ q.lastFull = r.lastFull /\ q.healed = r.healed
           /\ (Playable(r) => Playable(q)) /\ (Timely(r) => Timely(q))
           /\ (Rests(r) => Rests(q))
<1>. DEFINE n == r.emitted + 1
            q == Called(r)
<1>1. r \in Recorders /\ r.emitted \in Nat
    BY RecorderFields DEF Kept
<1>2. n \in Nat /\ r.emitted <= n
    BY <1>1
<1>3. q = [r EXCEPT !.emitted = n]
    BY <1>1 DEF Called, Recorders
<1>. HIDE DEF n, q
<1>4. q \in Recorders /\ q.emitted = n
    BY <1>1, <1>2, <1>3, ZenonT(60) DEF Recorders
<1>5. /\ Going(r, q) /\ q.buffer = r.buffer /\ q.queue = r.queue /\ q.shipped = r.shipped
      /\ q.shippedTo = r.shippedTo /\ q.seen = r.seen /\ q.lastFull = r.lastFull
      /\ q.healed = r.healed /\ q.timer = r.timer
    BY <1>1, <1>3 DEF Recorders, Going
<1>6. Filed(q) /\ Cared(q)
    BY <1>5, ZenonT(60) DEF Kept, Filed, Cared, Going
<1>7. InOrder(q)
    BY <1>1, <1>2, <1>4, <1>5, RaisedInOrder, Zenon DEF Kept
<1>8. Steered(q)
    BY <1>5, Zenon DEF Kept, Steered, Going
<1>9. /\ (Playable(r) => Playable(q)) /\ (Timely(r) => Timely(q))
      /\ (Rests(r) => Rests(q))
    BY <1>5, Zenon DEF Playable, Timely, Incremental, Rests, Going
<1>. QED BY <1>4, <1>5, <1>6, <1>7, <1>8, <1>9, Zenon DEF Kept, q

\* What a stop leaves as it is.
Halted(r, q) ==
    /\ q.session = r.session /\ q.quiet = r.quiet /\ q.hold = r.hold
    /\ q.unloadShips = r.unloadShips /\ q.verdict = r.verdict /\ q.cared = r.cared
    /\ q.fresh = r.fresh /\ q.idle = r.idle /\ q.lastFull = r.lastFull
    /\ q.healed = r.healed /\ q.capturing = r.capturing /\ ~q.live

\* A recorder that is torn down has nothing left.
LEMMA TeardownKeeps ==
    ASSUME NEW r, Kept(r), r.buffer.events = <<>>
    PROVE  Kept(Teardown(r)) /\ Halted(r, Teardown(r)) /\ Rests(Teardown(r))
<1>. DEFINE q == Teardown(r)
<1>1. r \in Recorders
    BY DEF Kept
<1>2. <<>> \in Seq(RecEvent) /\ Len(<<>>) = 0
    BY EmptySeq
<1>3. q \in Recorders
    BY <1>1, <1>2, ZenonT(60) DEF Recorders, Teardown
<1>4. /\ q.buffer = r.buffer /\ q.queue = <<>> /\ q.shipped = r.shipped
      /\ q.shippedTo = r.shippedTo /\ q.emitted = r.emitted /\ q.seen = r.seen
      /\ Halted(r, q)
    BY <1>1 DEF Recorders, Teardown, Halted
<1>5. ~q.live /\ ~q.stopping
    BY <1>1 DEF Recorders, Teardown
<1>. HIDE DEF q
<1>6. \A i \in 1..0 : FALSE
    OBVIOUS
<1>7. Filed(q)
    BY <1>2, <1>4, <1>6, Zenon DEF Filed
<1>8. Cared(q)
    BY <1>4, <1>5, Zenon DEF Kept, Cared, Halted
<1>9. InOrder(q)
    BY <1>2, <1>4, <1>6, Zenon DEF Kept, InOrder, Rising
<1>10. Steered(q)
    BY <1>2, <1>4, <1>5, <1>6, Zenon DEF Kept, Steered, Halted
<1>. QED BY <1>3, <1>4, <1>5, <1>7, <1>8, <1>9, <1>10, Zenon DEF Kept, Rests, q

\* A stop that waits for nothing sends what it may and drops the rest.
LEMMA FinishKeeps ==
    ASSUME NEW r, Kept(r), Rests(r)
    PROVE  LET q == Teardown(ClearBuffer(FlushBuffer(r))) IN
           Kept(q) /\ Halted(r, q) /\ Rests(q)
<1>. DEFINE f == FlushBuffer(r)
            c == ClearBuffer(f)
<1>1. r \in Recorders /\ (r.live \/ r.stopping \/ r.buffer.events = <<>>)
    BY DEF Kept, Rests
<1>2. Cleared(r, f) /\ f.idle = r.idle
    BY <1>1, FlushClears, Zenon
<1>3. Kept(f) /\ f \in Recorders
    BY <1>1, <1>2, ClearedKept, Zenon DEF Cleared
<1>4. f.live \/ f.stopping \/ f.buffer.events = <<>>
    BY <1>1, <1>2, ClearedPlayable, Zenon DEF Cleared, Steady
<1>. HIDE DEF f
<1>5. Cleared(f, c) /\ c.buffer.events = <<>> /\ c.idle = f.idle
    BY <1>3, ClearSettles, Zenon
<1>6. Kept(c)
    BY <1>3, <1>4, <1>5, ClearedKept, Zenon
<1>. HIDE DEF c
<1>7. Kept(Teardown(c)) /\ Halted(c, Teardown(c)) /\ Rests(Teardown(c))
    BY <1>5, <1>6, TeardownKeeps, Zenon
<1>8. Halted(r, Teardown(c))
    BY <1>2, <1>5, <1>7, Zenon DEF Cleared, Steady, Halted
<1>. QED BY <1>7, <1>8, Zenon DEF c, f

\* Stopping keeps the recorder, whether its queue is empty or not.
LEMMA StopKeeps ==
    ASSUME NEW r, Kept(r), Rests(r)
    PROVE  LET q == StopRecording(r) IN Kept(q) /\ Halted(r, q) /\ Rests(q)
<1>. DEFINE q == StopRecording(r)
<1>1. r \in Recorders
    BY DEF Kept
<1>2. CASE r.queue = <<>>
    BY <1>2, FinishKeeps, Zenon DEF StopRecording
<1>3. CASE r.queue # <<>> /\ r.stopping
  <2>1. q = r
      BY <1>3, Zenon DEF StopRecording
  <2>2. ~r.live
      BY <1>3, Zenon DEF Kept, Steered
  <2>3. Halted(r, r) /\ Rests(r)
      BY <2>2, Zenon DEF Halted
  <2>. QED BY <2>1, <2>3, Zenon
<1>4. CASE r.queue # <<>> /\ ~r.stopping
  <2>1. q = [r EXCEPT !.stopping = TRUE, !.timer = FALSE, !.live = FALSE]
      BY <1>4, Zenon DEF StopRecording
  <2>2. q \in Recorders
      BY <1>1, <2>1, ZenonT(60) DEF Recorders
  <2>3. /\ q.buffer = r.buffer /\ q.queue = r.queue /\ q.shipped = r.shipped
        /\ q.shippedTo = r.shippedTo /\ q.emitted = r.emitted /\ q.seen = r.seen
      BY <1>1, <2>1 DEF Recorders
  <2>4. q.stopping /\ Halted(r, q)
      BY <1>1, <2>1 DEF Recorders, Halted
  <2>. HIDE DEF q
  <2>5. r.live
      BY <1>4, Zenon DEF Rests
  <2>6. Filed(q) /\ Cared(q) /\ InOrder(q) /\ Steered(q)
      BY <2>3, <2>4, <2>5, ZenonT(60) DEF Kept, Filed, Cared, InOrder, Steered, Halted
  <2>. QED BY <2>2, <2>4, <2>6, Zenon DEF Kept, Rests, q
<1>. QED BY <1>2, <1>3, <1>4

\* What a start makes of a recorder that has stopped.
Started(r, s, q) ==
    /\ q.session = s /\ q.live /\ q.hears /\ ~q.stopping /\ ~q.quiet /\ q.fresh
    /\ ~Incremental(q) /\ q.verdict = r.verdict /\ q.capturing = r.capturing
    /\ q.lastFull = r.lastFull \/ (q.lastFull = s /\ q.seen)
    /\ q.healed = r.healed
    /\ ~r.quiet /\ r.idle # "idle" => q.idle = r.idle

\* A recorder that has stopped starts in a session with no event of the last one left.
LEMMA StartKeeps ==
    ASSUME NEW r, Kept(r), Rests(r), ~r.live, NEW s \in Sessions, s <= Len(r.verdict),
           r.lastFull <= s, r.healed <= s
    PROVE  Kept(StartRecording(r, s)) /\ Started(r, s, StartRecording(r, s))
<1>. DEFINE cares == r.idle = "active" \/ r.suppress
            some == IF cares THEN r.cared \cup {s} ELSE r.cared
            h == [r EXCEPT !.hold = ~cares, !.unloadShips = ~cares, !.suppress = FALSE,
                           !.overflowed = FALSE, !.fresh = TRUE, !.cared = some]
            d == [h EXCEPT !.queue = <<>>, !.stopping = FALSE]
            c == IF h.stopping THEN ClearBuffer(d) ELSE h
            b == [c EXCEPT !.session = s, !.hears = TRUE]
            k == [b EXCEPT !.seen = FALSE]
            g == SnapshotEmitted(k)
            q == [g EXCEPT !.live = TRUE, !.quiet = FALSE]
<1>1. r \in Recorders
    BY DEF Kept
<1>2. <<>> \in Seq(RecEvent) /\ Len(<<>>) = 0 /\ \A i \in 1..0 : FALSE
    BY EmptySeq
<1>3. cares \in BOOLEAN /\ (~cares) \in BOOLEAN
    OBVIOUS
<1>4. some \in SUBSET Sessions /\ r.cared \subseteq some /\ (cares => s \in some)
  <2>1. r.cared \in SUBSET Sessions
      BY <1>1, RecorderFields
  <2>. HIDE DEF cares
  <2>. QED BY <2>1
<1>5. h = [r EXCEPT !.hold = ~cares, !.unloadShips = ~cares, !.suppress = FALSE,
                    !.overflowed = FALSE, !.fresh = TRUE,
                    !.cared = IF cares THEN @ \cup {s} ELSE @]
    BY <1>1 DEF Recorders
<1>. HIDE DEF cares, some
<1>6. h \in Recorders
    BY <1>1, <1>3, <1>4, ZenonT(60) DEF Recorders
<1>7. /\ h.session = r.session /\ h.idle = r.idle /\ h.quiet = r.quiet /\ h.live = r.live
      /\ h.stopping = r.stopping /\ h.buffer = r.buffer /\ h.queue = r.queue
      /\ h.lastFull = r.lastFull /\ h.healed = r.healed /\ h.verdict = r.verdict
      /\ h.emitted = r.emitted /\ h.shippedTo = r.shippedTo /\ h.shipped = r.shipped
      /\ h.cared = some /\ h.capturing = r.capturing
    BY <1>1 DEF Recorders
<1>8. h.fresh = TRUE
    BY <1>1, Zenon DEF Recorders
<1>9. h.hold = ~cares
    BY <1>1, Zenon DEF Recorders
<1>. HIDE DEF h
<1>10. d \in Recorders
    BY <1>2, <1>6 DEF Recorders
<1>11. /\ d.queue = <<>> /\ d.emitted = h.emitted
       /\ d.shippedTo = h.shippedTo /\ d.shipped = h.shipped
       /\ d.session = h.session /\ d.idle = h.idle /\ d.quiet = h.quiet /\ d.live = h.live
       /\ d.hold = h.hold /\ d.cared = h.cared /\ d.fresh = h.fresh /\ d.verdict = h.verdict
       /\ d.lastFull = h.lastFull /\ d.healed = h.healed /\ d.capturing = h.capturing
    BY <1>6 DEF Recorders
<1>12. d.stopping = FALSE
    BY <1>6, Zenon DEF Recorders
<1>. HIDE DEF d
<1>13. /\ c \in Recorders /\ c.buffer.events = <<>> /\ c.queue = <<>> /\ ~c.stopping
       /\ c.emitted = h.emitted /\ c.shippedTo = h.shippedTo /\ c.shipped = h.shipped
       /\ c.idle = h.idle /\ c.quiet = h.quiet /\ c.live = h.live
       /\ c.hold = h.hold /\ c.cared = h.cared /\ c.fresh = h.fresh /\ c.verdict = h.verdict
       /\ c.lastFull = h.lastFull /\ c.healed = h.healed /\ c.capturing = h.capturing
  <2>1. CASE h.stopping
    <3>1. c = ClearBuffer(d)
        BY <2>1, Zenon
    <3>2. /\ Cleared(d, c) /\ c.buffer.events = <<>> /\ c.shipped = d.shipped
          /\ c.shippedTo = d.shippedTo /\ c.idle = d.idle
        BY <1>10, <3>1, ClearSettles, Zenon
    <3>. HIDE DEF c
    <3>. QED BY <1>11, <1>12, <3>2, Zenon DEF Cleared, Steady
  <2>2. CASE ~h.stopping
    <3>1. c = h
        BY <2>2, Zenon
    <3>2. h.buffer.events = <<>> /\ h.queue = <<>>
        BY <1>7, <2>2, Zenon DEF Rests
    <3>. QED BY <1>6, <2>2, <3>1, <3>2, Zenon
  <2>. QED BY <2>1, <2>2
<1>14. ~c.live /\ c.fresh /\ (~c.hold => s \in c.cared) /\ r.cared \subseteq c.cared
  <2>. HIDE DEF c
  <2>. QED BY <1>4, <1>7, <1>8, <1>9, <1>13, Zenon
<1>. HIDE DEF c
<1>15. b \in Recorders /\ b.session = s
    BY <1>13 DEF Recorders
<1>16. /\ b.buffer = c.buffer /\ b.queue = c.queue /\ b.emitted = c.emitted
       /\ b.shippedTo = c.shippedTo /\ b.shipped = c.shipped /\ b.idle = c.idle
       /\ b.quiet = c.quiet /\ b.live = c.live /\ b.hold = c.hold /\ b.cared = c.cared
       /\ b.fresh = c.fresh /\ b.verdict = c.verdict /\ b.lastFull = c.lastFull
       /\ b.healed = c.healed /\ b.stopping = c.stopping /\ b.capturing = c.capturing
    BY <1>13 DEF Recorders
<1>17. b.hears = TRUE
    BY <1>13, Zenon DEF Recorders
<1>. HIDE DEF b
<1>18. k \in Recorders
    BY <1>15, ZenonT(60) DEF Recorders
<1>19. /\ k.session = b.session /\ k.hears = b.hears
       /\ k.buffer = b.buffer /\ k.queue = b.queue /\ k.emitted = b.emitted
       /\ k.shippedTo = b.shippedTo /\ k.shipped = b.shipped /\ k.idle = b.idle
       /\ k.quiet = b.quiet /\ k.live = b.live /\ k.hold = b.hold /\ k.cared = b.cared
       /\ k.fresh = b.fresh /\ k.verdict = b.verdict /\ k.lastFull = b.lastFull
       /\ k.healed = b.healed /\ k.stopping = b.stopping /\ k.capturing = b.capturing
    BY <1>15 DEF Recorders
<1>. HIDE DEF k
<1>20. k.buffer.events = <<>> /\ k.queue = <<>> /\ ~k.live /\ ~k.stopping /\ k.session = s
    BY <1>13, <1>14, <1>15, <1>16, <1>19, Zenon
<1>21. Filed(k)
    BY <1>2, <1>20, Zenon DEF Filed
<1>22. Cared(k)
  <2>1. \A t \in r.shipped : t[1] = t[2] /\ t[1] \in r.cared
      BY DEF Kept, Cared
  <2>2. k.shipped = r.shipped /\ r.cared \subseteq k.cared /\ k.fresh
      BY <1>7, <1>13, <1>14, <1>16, <1>19, Zenon
  <2>. QED BY <1>20, <2>1, <2>2, Zenon DEF Cared
<1>23. InOrder(k)
  <2>1. k.shippedTo = r.shippedTo /\ k.emitted = r.emitted /\ r.shippedTo <= r.emitted
      BY <1>7, <1>13, <1>16, <1>19, Zenon DEF Kept, InOrder
  <2>. QED BY <1>2, <1>20, <2>1, Zenon DEF InOrder, Rising
<1>24. /\ k.verdict = r.verdict /\ k.lastFull = r.lastFull /\ k.healed = r.healed
       /\ k.quiet = r.quiet /\ k.idle = r.idle /\ k.fresh /\ k.hears
       /\ (~k.hold => s \in k.cared) /\ k.capturing = r.capturing
    BY <1>7, <1>13, <1>14, <1>16, <1>17, <1>19, ZenonT(60)
<1>25. Steered(k)
  <2>1. k.quiet \/ k.idle = "idle" => ~k.capturing
      BY <1>24, Zenon DEF Kept, Steered
  <2>. QED BY <1>2, <1>20, <1>24, <2>1, Zenon DEF Steered
<1>26. Kept(k)
    BY <1>18, <1>21, <1>22, <1>23, <1>25, Zenon DEF Kept
<1>27. Snapped(k, g)
  <2>1. Ships(k)
      BY <1>20, <1>24, Zenon DEF Ships
  <2>. QED BY <1>26, <2>1, SnapshotKeeps, Zenon
<1>. HIDE DEF g
<1>28. Kept(g) /\ Carried(k, g) /\ ~Incremental(g) /\ g \in Recorders
  <2>1. ~Incremental(k)
      BY <1>20, NothingIncremental, Zenon
  <2>. QED BY <1>27, <2>1, Zenon DEF Snapped, Carried, Kept
<1>29. q \in Recorders
    BY <1>28, ZenonT(60) DEF Recorders
<1>30. /\ q.session = g.session /\ q.hears = g.hears
       /\ q.buffer = g.buffer /\ q.queue = g.queue /\ q.emitted = g.emitted
       /\ q.shippedTo = g.shippedTo /\ q.shipped = g.shipped /\ q.idle = g.idle
       /\ q.hold = g.hold /\ q.cared = g.cared /\ q.seen = g.seen
       /\ q.fresh = g.fresh /\ q.verdict = g.verdict /\ q.lastFull = g.lastFull
       /\ q.healed = g.healed /\ q.stopping = g.stopping /\ q.unloadShips = g.unloadShips
       /\ q.capturing = g.capturing
    BY <1>28 DEF Recorders
<1>31. q.live = TRUE
    BY <1>28, Zenon DEF Recorders
<1>32. q.quiet = FALSE
    BY <1>28, Zenon DEF Recorders
<1>. HIDE DEF q
<1>33. /\ g.hold = k.hold /\ g.cared = k.cared /\ g.hears = k.hears /\ g.session = s
       /\ g.stopping = k.stopping /\ g.fresh = k.fresh
       /\ g.lastFull = k.lastFull \/ (g.lastFull = s /\ g.seen)
       /\ g.healed = k.healed /\ g.verdict = k.verdict /\ g.capturing = k.capturing
       /\ g.idle = k.idle \/ g.idle = "idle"
    BY <1>20, <1>28, Zenon DEF Carried
<1>34. Filed(q) /\ InOrder(q)
    BY <1>28, <1>30, ZenonT(60) DEF Kept, Filed, InOrder
<1>35. Cared(q)
  <2>1. ~q.hold => q.session \in q.cared
      BY <1>24, <1>30, <1>33, Zenon
  <2>. QED BY <1>28, <1>30, <2>1, Zenon DEF Kept, Cared
<1>36. Steered(q)
  <2>1. q.hears /\ ~q.stopping
      BY <1>20, <1>24, <1>30, <1>33, Zenon
  <2>. QED BY <1>28, <1>30, <1>32, <2>1, Zenon DEF Kept, Steered
<1>37. ~r.quiet /\ r.idle # "idle" => q.idle = r.idle
    BY <1>24, <1>27, <1>30, Zenon DEF Snapped
<1>38. Started(r, s, q)
  <2>1. ~Incremental(q)
      BY <1>28, <1>30, Zenon DEF Incremental
  <2>. QED BY <1>20, <1>24, <1>30, <1>31, <1>32, <1>33, <1>37, <2>1, ZenonT(60) DEF Started
<1>39. StartRecording(r, s) = q
  <2>1. StartRecording(r, s) =
          IF b.live THEN b ELSE [SnapshotEmitted([b EXCEPT !.seen = FALSE])
                                     EXCEPT !.live = TRUE, !.quiet = FALSE]
      BY <1>5, Zenon DEF StartRecording, b, c, d, cares
  <2>2. ~b.live
      BY <1>19, <1>20, Zenon
  <2>. QED BY <2>1, <2>2, Zenon DEF q, g, k
<1>. QED BY <1>29, <1>34, <1>35, <1>36, <1>38, <1>39, Zenon DEF Kept

\* A recorder is restarted in a session that nothing was captured for yet, held unless
\* the user is known to be active.
LEMMA RestartKeeps ==
    ASSUME NEW r, Kept(r), Rests(r), NEW s \in Sessions, r.session < s, s <= Len(r.verdict),
           NEW held \in BOOLEAN
    PROVE  LET k == [RestartRecording(r, s, held) EXCEPT
                         !.cared = IF held THEN @ ELSE @ \cup {s}] IN
           /\ Kept(k) /\ Playable(k) /\ Timely(k) /\ k.live /\ k.session = s /\ ~k.quiet
           /\ k.verdict = r.verdict /\ k.capturing = r.capturing
           /\ ~r.quiet /\ r.idle # "idle" => k.idle = r.idle
<1>. DEFINE t == StopRecording(r)
            a == StartRecording(t, s)
            k == [RestartRecording(r, s, held) EXCEPT
                      !.cared = IF held THEN @ ELSE @ \cup {s}]
<1>1. r \in Recorders
    BY DEF Kept
<1>2. Kept(t) /\ Halted(r, t) /\ Rests(t)
    BY StopKeeps, Zenon
<1>. HIDE DEF t
<1>3. /\ ~t.live /\ t.lastFull = r.lastFull /\ t.healed = r.healed /\ t.verdict = r.verdict
      /\ t.quiet = r.quiet /\ t.idle = r.idle /\ t.capturing = r.capturing
    BY <1>2, Zenon DEF Halted
<1>4. r.lastFull < s /\ r.healed < s /\ r.lastFull <= s /\ r.healed <= s
  <2>1. r.lastFull \in 0..MaxSessions /\ r.healed \in 0..MaxSessions /\ r.session \in Sessions
      BY <1>1, RecorderFields
  <2>2. r.lastFull <= r.session /\ r.healed <= r.session
      BY DEF Kept, Steered
  <2>. QED BY <2>1, <2>2, RecorderAssumption DEF Sessions
<1>5. Kept(a) /\ Started(t, s, a)
    BY <1>2, <1>3, <1>4, StartKeeps, Zenon
<1>6. a \in Recorders
    BY <1>5, Zenon DEF Kept
<1>. HIDE DEF a
<1>7. k = [[a EXCEPT !.hold = held, !.unloadShips = FALSE, !.fresh = FALSE]
             EXCEPT !.cared = IF held THEN @ ELSE @ \cup {s}]
    BY Zenon DEF RestartRecording, a, t
<1>. HIDE DEF k
<1>. DEFINE some == IF held THEN a.cared ELSE a.cared \cup {s}
<1>8. k = [a EXCEPT !.hold = held, !.unloadShips = FALSE, !.fresh = FALSE, !.cared = some]
    BY <1>6, <1>7 DEF Recorders
<1>9. some \in SUBSET Sessions /\ a.cared \subseteq some /\ (~held => s \in some)
  <2>1. a.cared \in SUBSET Sessions
      BY <1>6, RecorderFields
  <2>. QED BY <2>1
<1>. HIDE DEF some
<1>10. k \in Recorders
    BY <1>6, <1>8, <1>9, ZenonT(60) DEF Recorders
<1>11. /\ k.session = a.session /\ k.hears = a.hears /\ k.live = a.live
       /\ k.buffer = a.buffer /\ k.queue = a.queue /\ k.emitted = a.emitted
       /\ k.shippedTo = a.shippedTo /\ k.shipped = a.shipped /\ k.idle = a.idle
       /\ k.quiet = a.quiet /\ k.seen = a.seen /\ k.cared = some
       /\ k.verdict = a.verdict /\ k.lastFull = a.lastFull
       /\ k.healed = a.healed /\ k.stopping = a.stopping /\ k.hold = held
       /\ k.capturing = a.capturing
    BY <1>6, <1>8 DEF Recorders
<1>12. k.unloadShips = FALSE
    BY <1>6, <1>8, Zenon DEF Recorders
<1>13. /\ a.session = s /\ a.live /\ a.hears /\ ~a.stopping /\ ~a.quiet
       /\ ~Incremental(a) /\ a.verdict = r.verdict /\ a.capturing = r.capturing
       /\ a.lastFull = r.lastFull \/ (a.lastFull = s /\ a.seen)
       /\ a.healed = r.healed
       /\ (~r.quiet /\ r.idle # "idle" => a.idle = r.idle)
    BY <1>3, <1>5, Zenon DEF Started
<1>14. Filed(k) /\ InOrder(k) /\ Steered(k)
  <2>1. Filed(k)
      BY <1>5, <1>11, Zenon DEF Kept, Filed
  <2>2. InOrder(k)
      BY <1>5, <1>11, Zenon DEF Kept, InOrder
  <2>3. Steered(k)
      BY <1>5, <1>11, Zenon DEF Kept, Steered
  <2>. QED BY <2>1, <2>2, <2>3
<1>15. Cared(k)
    BY <1>5, <1>9, <1>11, <1>12, <1>13, Zenon DEF Kept, Cared
<1>18. ~Incremental(k)
    BY <1>11, <1>13, Zenon DEF Incremental
<1>16. Timely(k)
    BY <1>18, Zenon DEF Timely
<1>17. Playable(k)
  <2>1. k.session \in {k.lastFull, k.healed} => k.seen
    <3>1. r.lastFull \in 0..MaxSessions /\ r.healed \in 0..MaxSessions
        BY <1>1, RecorderFields
    <3>2. k.session = s /\ (k.lastFull = r.lastFull \/ k.seen) /\ k.healed = r.healed
        BY <1>11, <1>13, Zenon
    <3>. QED BY <1>4, <3>1, <3>2, RecorderAssumption DEF Sessions
  <2>. QED BY <1>18, <2>1, Zenon DEF Playable
<1>. QED BY <1>10, <1>11, <1>13, <1>14, <1>15, <1>16, <1>17, Zenon DEF Kept, k

\* A link between sessions is captured like other events.
LEMMA LinkKeeps ==
    ASSUME NEW r, Kept(r), Playable(r)
    PROVE  LET q == Link(r, r.session) IN
           Kept(q) /\ Going(r, q) /\ Playable(q) /\ (Timely(r) => Timely(q))
<1>1. CASE r.live
  <2>1. Link(r, r.session) = Route(r, NextEvent(r, "link", r.session))
      BY <1>1, Zenon DEF Link
  <2>2. "link" \in {"user", "mutation", "link"}
      OBVIOUS
  <2>. QED BY <1>1, <2>1, <2>2, RouteKeeps, Zenon
<1>2. CASE ~r.live
  <2>1. Link(r, r.session) = r /\ Going(r, r)
      BY <1>2, Zenon DEF Link, Going
  <2>. QED BY <2>1, Zenon
<1>. QED BY <1>1, <1>2

\* A recorder that is not told to be idle may change its mind about the user.
LEMMA MindKeeps ==
    ASSUME NEW r, Kept(r), Rests(r), NEW mind \in {"unknown", "active"}
    PROVE  LET q == [r EXCEPT !.idle = mind] IN
           /\ Kept(q) /\ Rests(q) /\ q.session = r.session /\ q.verdict = r.verdict
           /\ q.quiet = r.quiet /\ q.idle = mind /\ q.capturing = r.capturing
<1>. DEFINE q == [r EXCEPT !.idle = mind]
<1>1. r \in Recorders
    BY DEF Kept
<1>2. q \in Recorders /\ q.idle = mind /\ q.idle # "idle"
  <2>1. mind \in {"unknown", "active", "idle"} /\ mind # "idle"
      OBVIOUS
  <2>2. q \in Recorders /\ q.idle = mind
      BY <1>1, <2>1, ZenonT(60) DEF Recorders
  <2>. QED BY <2>1, <2>2
<1>3. /\ Steady(r, q) /\ q.queue = r.queue /\ q.emitted = r.emitted /\ q.seen = r.seen
      /\ q.buffer = r.buffer /\ q.shipped = r.shipped /\ q.shippedTo = r.shippedTo
    BY <1>1 DEF Recorders, Steady
<1>. HIDE DEF q
<1>4. Filed(q) /\ Cared(q) /\ InOrder(q)
    BY <1>3, ZenonT(60) DEF Kept, Filed, Cared, InOrder, Steady
<1>5. Steered(q)
    BY <1>2, <1>3, Zenon DEF Kept, Steered, Steady
<1>6. Rests(q)
    BY <1>3, Zenon DEF Rests, Steady
<1>. QED BY <1>2, <1>3, <1>4, <1>5, <1>6, Zenon DEF Kept, Steady, q

\* A new session id, in whatever state of the recorder that hears of it.
LEMMA SessionIdKeeps ==
    ASSUME NEW r, Kept(r), Rests(r), Playable(r), NEW s \in Sessions, r.session < s,
           s <= Len(r.verdict), NEW linked \in BOOLEAN
    PROVE  LET q == OnSessionId(r, s, linked) IN
           /\ Kept(q) /\ Playable(q) /\ Timely(q) /\ q.live /\ q.session = s /\ ~q.quiet
           /\ q.verdict = r.verdict /\ q.capturing = r.capturing
           /\ r.live /\ ~r.quiet /\ r.idle = "active" => q.idle = "active"
<1>. DEFINE ended == IF linked THEN Link(r, r.session) ELSE r
            g == IF r.live THEN GoIdle(ended) ELSE ended
            mind == IF r.live THEN (IF g.idle = "active" THEN g.idle ELSE "unknown")
                              ELSE "unknown"
            x == [g EXCEPT !.idle = mind]
            held == g.idle # "active"
            anew == [RestartRecording(x, s, held)
                         EXCEPT !.cared = IF held THEN @ ELSE @ \cup {s}]
            q == OnSessionId(r, s, linked)
<1>1. Kept(ended) /\ Going(r, ended) /\ Playable(ended)
  <2>1. CASE linked
    <3>1. ended = Link(r, r.session)
        BY <2>1, Zenon
    <3>. HIDE DEF ended
    <3>. QED BY <3>1, LinkKeeps, Zenon
  <2>2. CASE ~linked
      BY <2>2, Zenon DEF Going
  <2>. QED BY <2>1, <2>2
<1>2. Rests(ended)
  <2>1. CASE r.live \/ r.stopping
      BY <1>1, <2>1, Zenon DEF Rests, Going
  <2>2. CASE ~r.live /\ ~r.stopping
    <3>1. Link(r, r.session) = r
        BY <2>2, Zenon DEF Link
    <3>. QED BY <3>1, Zenon
  <2>. QED BY <2>1, <2>2
<1>. HIDE DEF ended
<1>3. Kept(g) /\ Rests(g) /\ g.session = r.session /\ g.verdict = r.verdict
      /\ g.quiet = r.quiet /\ (~r.quiet => g.idle = r.idle) /\ g.capturing = r.capturing
  <2>1. CASE r.live
    <3>1. ended \in Recorders /\ ended.live
        BY <1>1, <2>1, Zenon DEF Kept, Going
    <3>2. g = GoIdle(ended)
        BY <2>1, Zenon
    <3>3. Cleared(ended, g) /\ (~ended.quiet => g = ended)
        BY <3>1, <3>2, GoIdleSettles, Zenon
    <3>. HIDE DEF g
    <3>4. Kept(g)
        BY <1>1, <3>1, <3>3, ClearedKept, Zenon
    <3>5. Rests(g)
        BY <3>1, <3>3, Zenon DEF Cleared, Steady, Rests
    <3>. QED BY <1>1, <3>3, <3>4, <3>5, Zenon DEF Cleared, Steady, Going
  <2>2. CASE ~r.live
    <3>1. g = ended
        BY <2>2, Zenon
    <3>. HIDE DEF g
    <3>. QED BY <1>1, <1>2, <3>1, Zenon DEF Going
  <2>. QED BY <2>1, <2>2
<1>4. mind \in {"unknown", "active"} /\ (g.idle = "active" /\ r.live => mind = "active")
  <2>. HIDE DEF g
  <2>. QED OBVIOUS
<1>5. held \in BOOLEAN
    OBVIOUS
<1>6. q = IF linked THEN Link(anew, s) ELSE anew
  <2>. DEFINE e1 == IF linked THEN Link(r, r.session) ELSE r
              g1 == IF r.live THEN GoIdle(e1) ELSE e1
              moved == IF r.live
                       THEN RestartRecording(
                               [g1 EXCEPT !.idle = IF @ = "active" THEN @ ELSE "unknown"], s,
                               g1.idle # "active")
                       ELSE RestartRecording([g1 EXCEPT !.idle = "unknown"], s,
                                             g1.idle # "active")
              anew1 == [moved EXCEPT !.cared = IF g1.idle = "active" THEN @ \cup {s} ELSE @]
  <2>1. s # r.session
    <3>1. r.session \in Nat /\ s \in Nat
        BY RecorderFields DEF Kept, Sessions
    <3>. QED BY <3>1
  <2>2. q = IF linked THEN Link(anew1, s) ELSE anew1
      BY <2>1, Zenon DEF OnSessionId
  <2>3. g1 = g
      BY Zenon DEF ended
  <2>4. moved = RestartRecording(x, s, held)
    <3>1. g1 \in Recorders
        BY <1>3, <2>3, Zenon DEF Kept
    <3>2. [g1 EXCEPT !.idle = IF @ = "active" THEN @ ELSE "unknown"]
            = [g1 EXCEPT !.idle = IF g1.idle = "active" THEN g1.idle ELSE "unknown"]
        BY <3>1, Zenon DEF Recorders
    <3>. HIDE DEF g1, g
    <3>3. CASE r.live
      <4>1. moved = RestartRecording(
                [g1 EXCEPT !.idle = IF g1.idle = "active" THEN g1.idle ELSE "unknown"], s,
                g1.idle # "active")
          BY <3>2, <3>3, Zenon
      <4>2. x = [g EXCEPT !.idle = IF g.idle = "active" THEN g.idle ELSE "unknown"]
          BY <3>3, Zenon
      <4>. QED BY <2>3, <4>1, <4>2, Zenon
    <3>4. CASE ~r.live
      <4>1. moved = RestartRecording([g1 EXCEPT !.idle = "unknown"], s, g1.idle # "active")
          BY <3>4, Zenon
      <4>2. x = [g EXCEPT !.idle = "unknown"]
          BY <3>4, Zenon
      <4>. QED BY <2>3, <4>1, <4>2, Zenon
    <3>. QED BY <3>3, <3>4
  <2>5. anew1 = anew
    <3>. HIDE DEF g1, g, moved, x
    <3>1. CASE g.idle = "active"
        BY <2>3, <2>4, <3>1, Zenon
    <3>2. CASE g.idle # "active"
        BY <2>3, <2>4, <3>2, Zenon
    <3>. QED BY <3>1, <3>2
  <2>. QED BY <2>2, <2>5, Zenon
<1>. HIDE DEF g, mind, held
<1>7. /\ Kept(x) /\ Rests(x) /\ x.session = r.session /\ x.verdict = r.verdict
      /\ x.quiet = r.quiet /\ x.idle = mind /\ x.capturing = r.capturing
    BY <1>3, <1>4, MindKeeps, Zenon
<1>. HIDE DEF x
<1>8. x.session < s /\ s <= Len(x.verdict)
    BY <1>7, Zenon
<1>9. /\ Kept(anew) /\ Playable(anew) /\ Timely(anew) /\ anew.live /\ anew.session = s
      /\ ~anew.quiet /\ anew.verdict = r.verdict /\ anew.capturing = r.capturing
      /\ (~r.quiet /\ x.idle # "idle" => anew.idle = x.idle)
  <2>2. /\ Kept(anew) /\ Playable(anew) /\ Timely(anew) /\ anew.live /\ anew.session = s
        /\ ~anew.quiet /\ anew.verdict = x.verdict /\ anew.capturing = x.capturing
        /\ (~x.quiet /\ x.idle # "idle" => anew.idle = x.idle)
    <3>1. Kept(x) /\ Rests(x) /\ x.session < s /\ s <= Len(x.verdict) /\ held \in BOOLEAN
        BY <1>5, <1>7, <1>8
    <3>. QED BY <3>1, RestartKeeps
  <2>. HIDE DEF anew
  <2>. QED BY <1>7, <2>2, Zenon
<1>. HIDE DEF anew
<1>10. r.live /\ ~r.quiet /\ r.idle = "active" => anew.idle = "active"
  <2>1. r.live /\ ~r.quiet /\ r.idle = "active" => x.idle = "active"
      BY <1>3, <1>4, <1>7, Zenon
  <2>2. "active" # "idle"
      OBVIOUS
  <2>. QED BY <1>9, <2>1, <2>2, Zenon
<1>11. CASE linked
  <2>1. q = Link(anew, anew.session)
      BY <1>6, <1>9, <1>11, Zenon
  <2>. HIDE DEF q
  <2>2. Kept(q) /\ Going(anew, q) /\ Playable(q) /\ Timely(q)
      BY <1>9, <2>1, LinkKeeps, Zenon
  <2>. QED BY <1>9, <1>10, <2>2, Zenon DEF Going, q
<1>12. CASE ~linked
  <2>1. q = anew
      BY <1>6, <1>12, Zenon
  <2>. HIDE DEF q
  <2>. QED BY <1>9, <1>10, <2>1, Zenon DEF q
<1>. QED BY <1>11, <1>12

\* What a hold that ends, a trigger and a change of the status leave as they are.
Steering(r, q) ==
    /\ q.session = r.session /\ q.quiet = r.quiet /\ q.live = r.live
    /\ q.stopping = r.stopping /\ Len(q.verdict) = Len(r.verdict)
    /\ q.capturing = r.capturing
    /\ ~r.quiet /\ r.idle # "idle" => q.idle = r.idle

\* Somebody anew: what was held may be sent, and will be.
LEMMA ReleaseKeeps ==
    ASSUME NEW r, Kept(r), Rests(r)
    PROVE  LET q == ReleaseHold(r) IN
           /\ Kept(q) /\ Rests(q) /\ Steering(r, q)
           /\ Playable(r) => Playable(q)
           /\ Timely(r) => Timely(q)
<1>. DEFINE s == IF r.live THEN [r EXCEPT !.cared = @ \cup {r.session}]
                 ELSE [r EXCEPT !.suppress = TRUE, !.cared = @ \cup {r.session}]
            h == [s EXCEPT !.hold = FALSE, !.unloadShips = FALSE, !.overflowed = FALSE]
            t == IF r.overflowed THEN TakeFullSnapshot(h) ELSE h
            q == ReleaseHold(r)
<1>1. r \in Recorders
    BY DEF Kept
<1>2. r.session \in Sessions /\ r.cared \in SUBSET Sessions
    BY <1>1, RecorderFields
<1>. DEFINE some == r.cared \cup {r.session}
<1>3. some \in SUBSET Sessions /\ r.cared \subseteq some /\ r.session \in some
    BY <1>2
<1>4. s = IF r.live THEN [r EXCEPT !.cared = some]
          ELSE [r EXCEPT !.suppress = TRUE, !.cared = some]
    BY <1>1 DEF Recorders
<1>. HIDE DEF some
<1>5. s \in Recorders
  <2>1. CASE r.live
    <3>1. s = [r EXCEPT !.cared = some]
        BY <1>4, <2>1, Zenon
    <3>. HIDE DEF s
    <3>. QED BY <1>1, <1>3, <3>1, ZenonT(60) DEF Recorders
  <2>2. CASE ~r.live
    <3>1. s = [r EXCEPT !.suppress = TRUE, !.cared = some]
        BY <1>4, <2>2, Zenon
    <3>. HIDE DEF s
    <3>. QED BY <1>1, <1>3, <3>1, ZenonT(60) DEF Recorders
  <2>. QED BY <2>1, <2>2
<1>6. /\ s.session = r.session /\ s.hears = r.hears /\ s.live = r.live /\ s.hold = r.hold
      /\ s.buffer = r.buffer /\ s.queue = r.queue /\ s.emitted = r.emitted
      /\ s.shippedTo = r.shippedTo /\ s.shipped = r.shipped /\ s.idle = r.idle
      /\ s.quiet = r.quiet /\ s.seen = r.seen /\ s.cared = some /\ s.timer = r.timer
      /\ s.verdict = r.verdict /\ s.lastFull = r.lastFull /\ s.fresh = r.fresh
      /\ s.healed = r.healed /\ s.stopping = r.stopping /\ s.unloadShips = r.unloadShips
      /\ s.capturing = r.capturing
  <2>1. CASE r.live
    <3>1. s = [r EXCEPT !.cared = some]
        BY <1>4, <2>1, Zenon
    <3>. HIDE DEF s
    <3>. QED BY <1>1, <3>1 DEF Recorders
  <2>2. CASE ~r.live
    <3>1. s = [r EXCEPT !.suppress = TRUE, !.cared = some]
        BY <1>4, <2>2, Zenon
    <3>. HIDE DEF s
    <3>. QED BY <1>1, <3>1 DEF Recorders
  <2>. QED BY <2>1, <2>2
<1>7. q = IF ~r.hold THEN s ELSE [t EXCEPT !.timer = TRUE]
    BY Zenon DEF ReleaseHold
<1>. HIDE DEF s
<1>8. Kept(s)
  <2>1. Filed(s) /\ InOrder(s)
      BY <1>6, ZenonT(60) DEF Kept, Filed, InOrder
  <2>2. Cared(s)
      BY <1>3, <1>6, Zenon DEF Kept, Cared
  <2>3. Steered(s)
      BY <1>6, Zenon DEF Kept, Steered
  <2>. QED BY <1>5, <2>1, <2>2, <2>3, Zenon DEF Kept
<1>9. CASE ~r.hold
  <2>1. q = s
      BY <1>7, <1>9, Zenon
  <2>2. Rests(s) /\ Steering(r, s) /\ (Playable(r) => Playable(s)) /\ (Timely(r) => Timely(s))
      BY <1>6, Zenon DEF Rests, Steering, Playable, Incremental, Timely
  <2>. QED BY <1>8, <2>1, <2>2, Zenon
<1>10. CASE r.hold
  <2>1. q = [t EXCEPT !.timer = TRUE]
      BY <1>7, <1>10, Zenon
  <2>2. h \in Recorders
      BY <1>5, ZenonT(60) DEF Recorders
  <2>3. /\ h.session = s.session /\ h.hears = s.hears /\ h.live = s.live
        /\ h.buffer = s.buffer /\ h.queue = s.queue /\ h.emitted = s.emitted
        /\ h.shippedTo = s.shippedTo /\ h.shipped = s.shipped /\ h.idle = s.idle
        /\ h.quiet = s.quiet /\ h.seen = s.seen /\ h.cared = s.cared /\ h.timer = s.timer
        /\ h.verdict = s.verdict /\ h.lastFull = s.lastFull /\ h.fresh = s.fresh
        /\ h.healed = s.healed /\ h.stopping = s.stopping /\ h.capturing = s.capturing
      BY <1>5 DEF Recorders
  <2>4. h.unloadShips = FALSE
      BY <1>5, Zenon DEF Recorders
  <2>. HIDE DEF h
  <2>5. Kept(h)
    <3>1. Filed(h) /\ InOrder(h)
        BY <1>8, <2>3, ZenonT(60) DEF Kept, Filed, InOrder
    <3>2. Cared(h)
      <4>1. h.session \in h.cared
          BY <1>3, <1>6, <2>3, Zenon
      <4>. QED BY <1>8, <2>3, <2>4, <4>1, Zenon DEF Kept, Cared
    <3>3. Steered(h)
        BY <1>8, <2>3, Zenon DEF Kept, Steered
    <3>. QED BY <2>2, <3>1, <3>2, <3>3, Zenon DEF Kept
  <2>6. Rests(h) /\ Steering(r, h) /\ (Playable(r) => Playable(h))
      BY <1>6, <2>3, ZenonT(60) DEF Rests, Steering, Playable, Incremental
  <2>7. Kept(t) /\ Rests(t) /\ Steering(r, t) /\ (Playable(r) => Playable(t))
    <3>1. CASE r.overflowed /\ h.live
      <4>1. t = TakeFullSnapshot(h)
          BY <3>1, Zenon
      <4>2. Snapped(h, t)
          BY <2>5, <3>1, <4>1, TakeKeeps, Zenon
      <4>. HIDE DEF t
      <4>3. Kept(t) /\ t.live /\ (Playable(h) => Playable(t))
          BY <3>1, <4>2, Zenon DEF Snapped, Carried
      <4>4. Steering(r, t)
          BY <2>6, <4>2, Zenon DEF Snapped, Carried, Steering
      <4>. QED BY <2>6, <4>3, <4>4, Zenon DEF Rests
    <3>2. CASE ~(r.overflowed /\ h.live)
      <4>1. t = h
          BY <3>2, Zenon DEF TakeFullSnapshot
      <4>. HIDE DEF t
      <4>. QED BY <2>5, <2>6, <4>1, Zenon
    <3>. QED BY <3>1, <3>2
  <2>. HIDE DEF t
  <2>8. t \in Recorders
      BY <2>7, Zenon DEF Kept
  <2>9. q \in Recorders
      BY <2>1, <2>8, ZenonT(60) DEF Recorders
  <2>10. /\ Steady(t, q) /\ q.queue = t.queue /\ q.emitted = t.emitted /\ q.seen = t.seen
         /\ q.buffer = t.buffer /\ q.shipped = t.shipped /\ q.shippedTo = t.shippedTo
         /\ q.idle = t.idle
      BY <2>1, <2>8 DEF Recorders, Steady
  <2>11. q.timer = TRUE
      BY <2>1, <2>8, Zenon DEF Recorders
  <2>. HIDE DEF q
  <2>12. Filed(q) /\ Cared(q) /\ InOrder(q)
      BY <2>7, <2>10, ZenonT(60) DEF Kept, Filed, Cared, InOrder, Steady
  <2>13. Steered(q)
      BY <2>7, <2>10, Zenon DEF Kept, Steered, Steady
  <2>14. Rests(q) /\ Steering(r, q) /\ (Playable(t) => Playable(q)) /\ Timely(q)
    <3>1. Rests(q) /\ (Playable(t) => Playable(q)) /\ Timely(q)
        BY <2>7, <2>10, <2>11, Zenon DEF Rests, Playable, Incremental, Timely, Steady
    <3>2. Steering(r, q)
        BY <2>7, <2>10, Zenon DEF Steady, Steering
    <3>. QED BY <3>1, <3>2
  <2>. QED BY <2>7, <2>9, <2>12, <2>13, <2>14, Zenon DEF Kept, q
<1>. QED BY <1>9, <1>10

\* An interaction is captured, and what was held with it.
LEMMA InteractionKeeps ==
    ASSUME NEW r, Kept(r), Playable(r), r.live, ~r.quiet, r.idle # "idle"
    PROVE  LET q == Interacted(r) IN
           /\ Kept(q) /\ Playable(q) /\ Timely(q) /\ q.live /\ q.session = r.session
           /\ Len(q.verdict) = Len(r.verdict) /\ q.capturing = r.capturing
<1>. DEFINE h == ReleaseHold(r)
            q == Interacted(r)
<1>1. Rests(r)
    BY Zenon DEF Rests
<1>2. Kept(h) /\ Playable(h) /\ Steering(r, h)
    BY <1>1, ReleaseKeeps, Zenon
<1>3. q = Route(h, NextEvent(h, "user", h.session))
    BY Zenon DEF Interacted
<1>. HIDE DEF h
<1>4. h.live /\ ~h.quiet /\ h.idle # "idle"
    BY <1>2, Zenon DEF Steering
<1>5. "user" \in {"user", "mutation", "link"}
    OBVIOUS
<1>6. Kept(q) /\ Going(h, q) /\ Timely(q) /\ Playable(q)
    BY <1>2, <1>3, <1>4, <1>5, RouteKeeps, Zenon
<1>. HIDE DEF q
<1>. QED BY <1>2, <1>4, <1>6, Zenon DEF Steering, Going, q

\* The status of the session changes when a trigger or an override activates it.
LEMMA VerdictKeeps ==
    ASSUME NEW r, Kept(r), Rests(r)
    PROVE  LET q == [r EXCEPT !.verdict[r.session] = "recording"] IN
           /\ Kept(q) /\ Rests(q) /\ Steering(r, q)
           /\ Playable(r) => Playable(q)
           /\ Timely(r) => Timely(q)
<1>. DEFINE v == [r.verdict EXCEPT ![r.session] = "recording"]
            q == [r EXCEPT !.verdict[r.session] = "recording"]
<1>1. r \in Recorders /\ r.verdict \in Seq(Verdicts)
    BY RecorderFields DEF Kept
<1>2. v \in Seq(Verdicts) /\ Len(v) = Len(r.verdict)
  <2>1. r.session \in Sessions /\ r.session <= Len(r.verdict) /\ Len(r.verdict) \in Nat
      BY <1>1, RecorderFields, LenProperties DEF Kept, Steered
  <2>2. r.session \in 1..Len(r.verdict) /\ "recording" \in Verdicts
      BY <2>1, RecorderAssumption DEF Sessions, Verdicts
  <2>. QED BY <1>1, <2>2, ExceptSeq
<1>3. q = [r EXCEPT !.verdict = v]
    BY <1>1 DEF Recorders
<1>. HIDE DEF v, q
<1>4. q \in Recorders /\ q.verdict = v
    BY <1>1, <1>2, <1>3, ZenonT(60) DEF Recorders
<1>5. /\ q.session = r.session /\ q.hears = r.hears /\ q.live = r.live /\ q.hold = r.hold
      /\ q.buffer = r.buffer /\ q.queue = r.queue /\ q.emitted = r.emitted
      /\ q.shippedTo = r.shippedTo /\ q.shipped = r.shipped /\ q.idle = r.idle
      /\ q.quiet = r.quiet /\ q.seen = r.seen /\ q.cared = r.cared /\ q.timer = r.timer
      /\ q.lastFull = r.lastFull /\ q.fresh = r.fresh
      /\ q.healed = r.healed /\ q.stopping = r.stopping /\ q.unloadShips = r.unloadShips
      /\ q.capturing = r.capturing
    BY <1>1, <1>3 DEF Recorders
<1>6. Filed(q) /\ InOrder(q)
    BY <1>5, ZenonT(60) DEF Kept, Filed, InOrder
<1>7. Cared(q)
    BY <1>5, Zenon DEF Kept, Cared
<1>8. Steered(q)
  <2>1. q.session <= Len(q.verdict)
      BY <1>2, <1>4, <1>5, Zenon DEF Kept, Steered
  <2>. QED BY <1>5, <2>1, Zenon DEF Kept, Steered
<1>9. Rests(q) /\ (Playable(r) => Playable(q)) /\ (Timely(r) => Timely(q))
    BY <1>5, Zenon DEF Rests, Playable, Incremental, Timely
<1>10. Steering(r, q)
    BY <1>2, <1>4, <1>5, Zenon DEF Steering
<1>. QED BY <1>4, <1>6, <1>7, <1>8, <1>9, <1>10, Zenon DEF Kept, q

\* A flush, in any state of the recorder.
LEMMA FlushKeeps ==
    ASSUME NEW r, Kept(r), Rests(r)
    PROVE  LET q == FlushBuffer(r) IN
           /\ Kept(q) /\ Rests(q) /\ Steering(r, q) /\ Timely(q)
           /\ Playable(r) => Playable(q)
<1>. DEFINE q == FlushBuffer(r)
<1>1. r \in Recorders /\ (r.live \/ r.stopping \/ r.buffer.events = <<>>)
    BY DEF Kept, Rests
<1>2. Cleared(r, q) /\ q.idle = r.idle /\ Timely(q)
    BY <1>1, FlushClears, Zenon
<1>. HIDE DEF q
<1>3. /\ Kept(q) /\ (Playable(r) => Playable(q))
      /\ r.buffer.events = <<>> => q.buffer.events = <<>>
    BY <1>1, <1>2, ClearedKept, ClearedPlayable, Zenon
<1>4. Rests(q) /\ Steering(r, q)
    BY <1>2, <1>3, Zenon DEF Rests, Steering, Cleared, Steady
<1>. QED BY <1>2, <1>3, <1>4, Zenon DEF q

\* A trigger is activated: a session that was only buffered is recorded.
LEMMA ActivationKeeps ==
    ASSUME NEW r, Kept(r), Rests(r)
    PROVE  LET q == Activated(r) IN
           /\ Kept(q) /\ Rests(q) /\ Steering(r, q)
           /\ Playable(r) => Playable(q)
           /\ Timely(r) => Timely(q)
<1>1. CASE RecStatus(r) = "buffering"
  <2>. DEFINE v == [r EXCEPT !.verdict[r.session] = "recording"]
              q == Activated(r)
  <2>1. /\ Kept(v) /\ Rests(v) /\ Steering(r, v)
        /\ Playable(r) => Playable(v)
      BY VerdictKeeps, Zenon
  <2>2. q = FlushBuffer(v)
      BY <1>1, Zenon DEF Activated
  <2>. HIDE DEF v
  <2>3. /\ Kept(q) /\ Rests(q) /\ Steering(v, q) /\ Timely(q)
        /\ Playable(v) => Playable(q)
      BY <2>1, <2>2, FlushKeeps, Zenon
  <2>. HIDE DEF q
  <2>4. Steering(r, q)
      BY <2>1, <2>3, Zenon DEF Steering
  <2>. QED BY <2>1, <2>3, <2>4, Zenon DEF q
<1>2. CASE RecStatus(r) # "buffering"
  <2>1. Activated(r) = r /\ Steering(r, r)
      BY <1>2, Zenon DEF Activated, Steering
  <2>. QED BY <2>1, Zenon
<1>. QED BY <1>1, <1>2

\* f captures the first k events of the queue of r.
Capturing(r, k, f) ==
    f = [i \in 0..k |-> IF i = 0 THEN [r EXCEPT !.queue = <<>>]
                        ELSE CaptureQueued(f[i - 1], r.queue[i])]

\* The function that CaptureAll is defined by exists: were there a length for which it
\* does not, then a least one, at which the function for one event less can be extended.
LEMMA CapturingExists ==
    ASSUME NEW r, NEW n \in Nat
    PROVE  \E f : Capturing(r, n, f)
<1>. DEFINE S == {k \in Nat : ~\E f : Capturing(r, k, f)}
            base == [r EXCEPT !.queue = <<>>]
<1>1. SUFFICES S = {}
    BY <1>1, Zenon
<1>2. SUFFICES ASSUME S # {} PROVE FALSE
    OBVIOUS
<1>3. S \subseteq Nat
    OBVIOUS
<1>4. PICK m \in S : \A k \in S : m <= k
    BY <1>2, <1>3, LeastNumber, Zenon
<1>5. m \in Nat /\ ~\E f : Capturing(r, m, f)
    BY <1>4
<1>6. CASE m = 0
  <2>. DEFINE f == [i \in 0..0 |-> base]
  <2>1. \A i \in 0..0 : i = 0
      OBVIOUS
  <2>2. f = [i \in 0..0 |-> IF i = 0 THEN base ELSE CaptureQueued(f[i - 1], r.queue[i])]
    <3>. HIDE DEF base
    <3>. QED BY <2>1, Zenon
  <2>3. Capturing(r, 0, f)
      BY <2>2, Zenon DEF Capturing
  <2>. QED BY <1>5, <1>6, <2>3, Zenon
<1>7. CASE m # 0
  <2>1. m - 1 \in Nat /\ m - 1 < m /\ ~(m <= m - 1)
      BY <1>5, <1>7
  <2>2. m - 1 \notin S
      BY <1>4, <2>1, Zenon
  <2>3. PICK f : Capturing(r, m - 1, f)
      BY <2>1, <2>2, Zenon
  <2>. DEFINE g == [i \in 0..m |-> IF i = m THEN CaptureQueued(f[m - 1], r.queue[m]) ELSE f[i]]
  <2>. HIDE DEF base
  <2>4. \A i \in 0..m - 1 :
           f[i] = IF i = 0 THEN base ELSE CaptureQueued(f[i - 1], r.queue[i])
      BY <2>3, Zenon DEF Capturing, base
  <2>5. ASSUME NEW i \in 0..m
        PROVE  g[i] = IF i = 0 THEN base ELSE CaptureQueued(g[i - 1], r.queue[i])
    <3>1. CASE i = 0
      <4>1. 0 \in 0..m - 1 /\ 0 # m
          BY <1>5, <1>7
      <4>2. f[0] = base
          BY <2>4, <4>1, Zenon
      <4>. QED BY <3>1, <4>1, <4>2, Zenon
    <3>2. CASE i # 0
      <4>1. i - 1 \in 0..m /\ i - 1 # m
          BY <1>5, <3>2
      <4>2. g[i - 1] = f[i - 1]
          BY <4>1, Zenon
      <4>3. CASE i = m
        <5>1. g[i] = CaptureQueued(f[m - 1], r.queue[m])
            BY <4>3, Zenon
        <5>. HIDE DEF g
        <5>. QED BY <3>2, <4>2, <4>3, <5>1, Zenon
      <4>4. CASE i # m
        <5>1. i \in 0..m - 1
            BY <1>5, <4>4
        <5>2. g[i] = f[i]
            BY <4>4, Zenon
        <5>3. f[i] = CaptureQueued(f[i - 1], r.queue[i])
            BY <2>4, <3>2, <5>1, Zenon
        <5>. HIDE DEF g
        <5>. QED BY <3>2, <4>2, <5>2, <5>3, Zenon
      <4>. QED BY <4>3, <4>4
    <3>. QED BY <3>1, <3>2
  <2>6. g = [i \in 0..m |-> g[i]]
      BY Zenon
  <2>. HIDE DEF g
  <2>7. g = [i \in 0..m |-> IF i = 0 THEN base ELSE CaptureQueued(g[i - 1], r.queue[i])]
      BY <2>5, <2>6, Zenon
  <2>8. Capturing(r, m, g)
      BY <2>7, Zenon DEF Capturing, base
  <2>. QED BY <1>5, <2>8, Zenon
<1>. QED BY <1>6, <1>7

\* All that waits in the queue of a recorder is captured, and it stays as it should be.
LEMMA CaptureAllKeeps ==
    ASSUME NEW r, Kept(r), Playable(r), r.live \/ r.stopping, ~r.capturing
    PROVE  LET q == CaptureAll(r) IN Kept(q) /\ Playable(q) /\ Going(r, q)
<1>. DEFINE n == Len(r.queue)
            base == [r EXCEPT !.queue = <<>>]
            after == CHOOSE f : Capturing(r, n, f)
            Good(q, i) == /\ Kept(q) /\ Playable(q) /\ Going(r, q)
                          /\ \A j \in i + 1..n : Fits(q, r.queue[j])
<1>1. r \in Recorders /\ r.queue \in Seq(RecEvent) /\ n \in Nat
    BY RecorderFields, LenProperties DEF Kept
<1>2. Capturing(r, n, after)
    BY <1>1, CapturingExists, Zenon
<1>3. CaptureAll(r) = after[n]
    BY Zenon DEF CaptureAll, Capturing
<1>. HIDE DEF after
<1>4. \A i \in 0..n : after[i] = IF i = 0 THEN base
                                  ELSE CaptureQueued(after[i - 1], r.queue[i])
    BY <1>2, Zenon DEF Capturing
<1>5. Good(after[0], 0)
  <2>1. after[0] = base
    <3>1. 0 \in 0..n
        BY <1>1
    <3>. QED BY <1>4, <3>1, Zenon
  <2>2. <<>> \in Seq(RecEvent) /\ Len(<<>>) = 0 /\ \A i \in 1..0 : FALSE
      BY EmptySeq
  <2>3. base \in Recorders /\ base.queue = <<>>
      BY <1>1, <2>2 DEF Recorders
  <2>4. /\ Going(r, base) /\ base.buffer = r.buffer /\ base.emitted = r.emitted
        /\ base.shipped = r.shipped /\ base.shippedTo = r.shippedTo /\ base.seen = r.seen
        /\ base.lastFull = r.lastFull /\ base.healed = r.healed
      BY <1>1 DEF Recorders, Going
  <2>. HIDE DEF base
  <2>5. Filed(base) /\ Cared(base)
      BY <2>2, <2>3, <2>4, ZenonT(60) DEF Kept, Filed, Cared, Going
  <2>6. InOrder(base)
      BY <2>2, <2>3, <2>4, ZenonT(60) DEF Kept, InOrder, Rising
  <2>7. Steered(base)
      BY <2>2, <2>3, <2>4, Zenon DEF Kept, Steered, Going
  <2>8. Kept(base) /\ Playable(base)
      BY <2>3, <2>4, <2>5, <2>6, <2>7, Zenon DEF Kept, Playable, Incremental, Going
  <2>9. ASSUME NEW j \in 0 + 1..n PROVE Fits(base, r.queue[j])
    <3>1. j \in 1..n
        BY <2>9
    <3>2. r.queue[j] \in RecEvent
        BY <1>1, <3>1, LineFields, Zenon
    <3>3. r.queue[j].target = r.session /\ (r.queue[j].kind = "full" => r.seen)
        BY <3>1, Zenon DEF Kept, Filed, Steered
    <3>4. /\ r.shippedTo <= r.queue[j].n /\ r.queue[j].n <= r.emitted
          /\ \A i \in 1..Len(r.buffer.events) : r.buffer.events[i].n <= r.queue[j].n
        BY <3>1, Zenon DEF Kept, InOrder, Rising
    <3>. QED BY <2>2, <2>3, <2>4, <3>2, <3>3, <3>4, Zenon DEF Fits, Going
  <2>. QED BY <2>1, <2>4, <2>8, <2>9, Zenon
<1>6. ASSUME NEW i \in 1..n, Good(after[i - 1], i - 1) PROVE Good(after[i], i)
  <2>. DEFINE p == after[i - 1]
              e == r.queue[i]
  <2>1. i \in 0..n /\ i # 0 /\ i \in (i - 1) + 1..n
      BY <1>1
  <2>2. after[i] = CaptureQueued(p, e)
      BY <1>4, <2>1, Zenon
  <2>3. Kept(p) /\ Playable(p) /\ Going(r, p) /\ Fits(p, e)
      BY <1>6, <2>1, Zenon
  <2>4. r.queue # <<>>
      BY <1>1, EmptySeq
  <2>5. ~r.quiet /\ r.idle # "idle"
      BY <2>4, Zenon DEF Kept, Steered
  <2>6. ~p.quiet /\ p.idle # "idle" /\ ~p.capturing /\ (p.live \/ p.stopping)
      BY <2>3, <2>5, Zenon DEF Going
  <2>7. \A j \in i + 1..n : Fits(p, r.queue[j]) /\ e.n <= r.queue[j].n
    <3>1. \A j \in i + 1..n : j \in (i - 1) + 1..n /\ j \in 1..n /\ i < j
        BY <1>1
    <3>2. \A j \in 1..n : i < j => e.n <= r.queue[j].n
        BY Zenon DEF Kept, InOrder, Rising
    <3>. QED BY <1>6, <3>1, <3>2, Zenon
  <2>. HIDE DEF p, e
  <2>8. /\ Kept(after[i]) /\ Going(p, after[i]) /\ Playable(after[i])
        /\ \A d : Fits(p, d) /\ e.n <= d.n => Fits(after[i], d)
      BY <2>2, <2>3, <2>6, FromQueueKeeps, Zenon
  <2>9. Going(r, after[i])
      BY <2>3, <2>8, Zenon DEF Going
  <2>. QED BY <2>7, <2>8, <2>9, Zenon
<1>7. Good(after[n], n)
  <2>. DEFINE S == {i \in 0..n : ~Good(after[i], i)}
  <2>. HIDE DEF Good
  <2>1. SUFFICES S = {}
    <3>1. n \in 0..n
        BY <1>1
    <3>. QED BY <2>1, <3>1, Zenon
  <2>2. SUFFICES ASSUME S # {} PROVE FALSE
      OBVIOUS
  <2>3. S \subseteq Nat
      BY <1>1
  <2>4. PICK m \in S : \A k \in S : m <= k
      BY <2>2, <2>3, LeastNumber, Zenon
  <2>5. m \in 0..n /\ ~Good(after[m], m)
      BY <2>4
  <2>6. m # 0
      BY <1>5, <2>5, Zenon
  <2>7. m \in 1..n /\ m - 1 \in 0..n /\ ~(m <= m - 1)
      BY <1>1, <2>5, <2>6
  <2>8. Good(after[m - 1], m - 1)
      BY <2>4, <2>7, Zenon
  <2>. QED BY <1>6, <2>5, <2>7, <2>8, Zenon
<1>. QED BY <1>3, <1>7, Zenon

\* What makes RecordingsAreKept inductive, for a recorder while c is the current session.
Sound(r, c) ==
    /\ Kept(r) /\ Playable(r) /\ Rests(r) /\ Timely(r)
    /\ Len(r.verdict) = c /\ ~r.capturing
    /\ r.live => r.session = c

RecorderInv ==
    /\ currentSession \in Sessions /\ everVisible \in BOOLEAN
    /\ Sound(rec, currentSession)

\* A recorder that has stopped is neither late nor unplayable.
LEMMA HaltedSound ==
    ASSUME NEW r, NEW q, NEW c, Kept(q), Rests(q), Halted(r, q), Len(r.verdict) = c,
           ~r.capturing
    PROVE  Sound(q, c)
BY Zenon DEF Sound, Halted, Playable, Timely

\* A recorder that goes on in its session.
LEMMA SteeringSound ==
    ASSUME NEW r, NEW q, NEW c, Sound(r, c), Kept(q), Playable(q), Rests(q), Timely(q),
           Steering(r, q)
    PROVE  Sound(q, c)
BY Zenon DEF Sound, Steering

\* A recorder that captures.
LEMMA GoingSound ==
    ASSUME NEW r, NEW q, NEW c, Kept(q), Playable(q), Timely(q), Going(r, q),
           r.live \/ r.stopping, Len(r.verdict) = c, ~r.capturing, r.live => r.session = c
    PROVE  Sound(q, c)
BY Zenon DEF Sound, Going, Rests

\* A recorder in a call in which rrweb emits.
LEMMA CalledSound ==
    ASSUME NEW r, NEW c, Sound(r, c)
    PROVE  Sound(Called(r), c)
<1>1. /\ Kept(Called(r)) /\ Going(r, Called(r)) /\ Playable(Called(r))
      /\ Timely(Called(r)) /\ Rests(Called(r))
    BY CalledKeeps, Zenon DEF Sound
<1>. QED BY <1>1, Zenon DEF Sound, Going

\* The session manager has decided on one more session.
LEMMA VerdictAdded ==
    ASSUME NEW r, Kept(r), NEW v \in Verdicts
    PROVE  LET d == [r EXCEPT !.verdict = Append(@, v)] IN
           /\ Kept(d) /\ Len(d.verdict) = Len(r.verdict) + 1
           /\ d.session = r.session /\ d.live = r.live /\ d.hears = r.hears
           /\ d.quiet = r.quiet /\ d.idle = r.idle /\ d.capturing = r.capturing
           /\ (Rests(r) => Rests(d)) /\ (Playable(r) => Playable(d)) /\ (Timely(r) => Timely(d))
<1>. DEFINE u == Append(r.verdict, v)
            d == [r EXCEPT !.verdict = Append(@, v)]
<1>1. r \in Recorders /\ r.verdict \in Seq(Verdicts) /\ Len(r.verdict) \in Nat
    BY RecorderFields, LenProperties DEF Kept
<1>2. u \in Seq(Verdicts) /\ Len(u) = Len(r.verdict) + 1
    BY <1>1, AppendProperties
<1>3. d = [r EXCEPT !.verdict = u]
    BY <1>1 DEF Recorders
<1>. HIDE DEF u, d
<1>4. d \in Recorders /\ d.verdict = u
    BY <1>1, <1>2, <1>3, ZenonT(60) DEF Recorders
<1>5. /\ d.session = r.session /\ d.hears = r.hears /\ d.live = r.live /\ d.hold = r.hold
      /\ d.buffer = r.buffer /\ d.queue = r.queue /\ d.emitted = r.emitted
      /\ d.shippedTo = r.shippedTo /\ d.shipped = r.shipped /\ d.idle = r.idle
      /\ d.quiet = r.quiet /\ d.seen = r.seen /\ d.cared = r.cared /\ d.timer = r.timer
      /\ d.lastFull = r.lastFull /\ d.fresh = r.fresh
      /\ d.healed = r.healed /\ d.stopping = r.stopping /\ d.unloadShips = r.unloadShips
      /\ d.capturing = r.capturing
    BY <1>1, <1>3 DEF Recorders
<1>6. Filed(d) /\ InOrder(d)
    BY <1>5, ZenonT(60) DEF Kept, Filed, InOrder
<1>7. Cared(d)
    BY <1>5, Zenon DEF Kept, Cared
<1>8. Steered(d)
  <2>1. r.session \in Nat /\ r.session <= Len(r.verdict)
      BY <1>1, RecorderFields DEF Kept, Steered, Sessions
  <2>2. r.session <= Len(r.verdict) + 1
      BY <1>1, <2>1
  <2>3. d.session <= Len(d.verdict)
      BY <1>2, <1>4, <1>5, <2>2, Zenon
  <2>. QED BY <1>5, <2>3, Zenon DEF Kept, Steered
<1>9. (Rests(r) => Rests(d)) /\ (Playable(r) => Playable(d)) /\ (Timely(r) => Timely(d))
    BY <1>5, Zenon DEF Rests, Playable, Incremental, Timely
<1>. QED BY <1>2, <1>4, <1>5, <1>6, <1>7, <1>8, <1>9, Zenon DEF Kept, d

\* The user is back.
LEMMA WokenKeeps ==
    ASSUME Kept(rec)
    PROVE  /\ Kept(Woken) /\ Woken.idle = "active" /\ ~Woken.quiet
           /\ Woken.session = rec.session /\ Woken.live = rec.live
           /\ Woken.verdict = rec.verdict /\ Woken.capturing = rec.capturing
           /\ (Rests(rec) => Rests(Woken)) /\ (Playable(rec) => Playable(Woken))
<1>. DEFINE c == Called(rec)
<1>1. /\ Kept(c) /\ Going(rec, c) /\ (Playable(rec) => Playable(c))
      /\ (Rests(rec) => Rests(c))
    BY CalledKeeps, Zenon
<1>2. c \in Recorders
    BY <1>1, Zenon DEF Kept
<1>3. Woken = [c EXCEPT !.idle = "active", !.quiet = FALSE]
    BY Zenon DEF Woken
<1>. HIDE DEF c
<1>4. Woken \in Recorders /\ Woken.idle = "active"
    BY <1>2, <1>3, ZenonT(60) DEF Recorders
<1>5. Woken.quiet = FALSE
    BY <1>2, <1>3, Zenon DEF Recorders
<1>6. /\ Woken.session = c.session /\ Woken.hears = c.hears /\ Woken.live = c.live
      /\ Woken.buffer = c.buffer /\ Woken.queue = c.queue /\ Woken.emitted = c.emitted
      /\ Woken.shippedTo = c.shippedTo /\ Woken.shipped = c.shipped
      /\ Woken.hold = c.hold /\ Woken.seen = c.seen /\ Woken.cared = c.cared
      /\ Woken.lastFull = c.lastFull /\ Woken.fresh = c.fresh
      /\ Woken.healed = c.healed /\ Woken.stopping = c.stopping
      /\ Woken.unloadShips = c.unloadShips /\ Woken.verdict = c.verdict
      /\ Woken.capturing = c.capturing
    BY <1>2, <1>3 DEF Recorders
<1>7. "active" # "idle"
    OBVIOUS
<1>8. Filed(Woken) /\ InOrder(Woken)
    BY <1>1, <1>6, Zenon DEF Kept, Filed, InOrder
<1>9. Cared(Woken)
    BY <1>1, <1>6, Zenon DEF Kept, Cared
<1>10. Steered(Woken)
    BY <1>1, <1>4, <1>5, <1>6, <1>7, Zenon DEF Kept, Steered
<1>11. (Rests(rec) => Rests(Woken)) /\ (Playable(rec) => Playable(Woken))
    BY <1>1, <1>6, Zenon DEF Rests, Playable, Incremental
<1>. QED BY <1>1, <1>4, <1>5, <1>6, <1>8, <1>9, <1>10, <1>11, Zenon DEF Kept, Going

\* What proves RecordingsAreKept holds initially.
LEMMA RecorderInitInv == RecorderInit => RecorderInv
<1>. SUFFICES ASSUME RecorderInit PROVE RecorderInv
    OBVIOUS
<1>1. PICK v \in Verdicts, w \in BOOLEAN : rec = StartRecording(NewRecorder(v, w), 1)
    BY DEF RecorderInit
<1>. DEFINE r == NewRecorder(v, w)
<1>2. 1 \in Sessions
    BY RecorderAssumption DEF Sessions
<1>3. <<>> \in Seq(RecEvent) /\ Len(<<>>) = 0 /\ \A i \in 1..0 : FALSE
    BY EmptySeq
<1>4. <<v>> \in Seq(Verdicts) /\ Len(<<v>>) = 1
    OBVIOUS
<1>5. r \in Recorders
  <2>. DEFINE vs == <<v>>
              b == [session |-> 1, events |-> <<>>]
  <2>1. r = [session |-> 1, idle |-> "unknown", quiet |-> FALSE, live |-> FALSE,
             hears |-> FALSE, stopping |-> FALSE, hold |-> FALSE, unloadShips |-> FALSE,
             overflowed |-> FALSE, suppress |-> FALSE, timer |-> FALSE, buffer |-> b,
             async |-> w, queue |-> <<>>, capturing |-> FALSE, lastFull |-> 0,
             healed |-> 0, verdict |-> vs, emitted |-> 1,
             shippedTo |-> 0, shipped |-> {}, cared |-> {}, seen |-> FALSE, fresh |-> TRUE]
      BY DEF NewRecorder
  <2>2. /\ vs \in Seq(Verdicts) /\ b \in [session : Sessions, events : Seq(RecEvent)]
        /\ 0 \in 0..MaxSessions /\ 0 \in Nat /\ 1 \in Nat
      BY <1>2, <1>3, <1>4, RecorderAssumption
  <2>. HIDE DEF vs, b, r
  <2>. QED BY <1>2, <1>3, <2>1, <2>2 DEF Recorders
<1>6. /\ r.session = 1 /\ r.quiet = FALSE /\ r.live = FALSE /\ r.stopping = FALSE
      /\ r.unloadShips = FALSE /\ r.buffer.events = <<>> /\ r.queue = <<>>
      /\ r.lastFull = 0 /\ r.healed = 0 /\ r.verdict = <<v>> /\ r.emitted = 1
      /\ r.capturing = FALSE /\ r.shippedTo = 0 /\ r.shipped = {} /\ r.idle = "unknown"
    BY DEF NewRecorder
<1>. HIDE DEF r
<1>7. 0 <= 0 /\ 0 <= 1 /\ 1 <= 1
    OBVIOUS
<1>8. Filed(r) /\ InOrder(r)
    BY <1>3, <1>6, <1>7, Zenon DEF Filed, InOrder, Rising
<1>9. Cared(r)
    BY <1>6, Zenon DEF Cared
<1>10. Steered(r)
    BY <1>3, <1>4, <1>6, <1>7, Zenon DEF Steered
<1>11. Kept(r) /\ Rests(r)
    BY <1>5, <1>6, <1>8, <1>9, <1>10, Zenon DEF Kept, Rests
<1>12. Kept(rec) /\ Started(r, 1, rec)
  <2>1. ~r.live /\ 1 <= Len(r.verdict) /\ r.lastFull <= 1 /\ r.healed <= 1
      BY <1>4, <1>6, <1>7, Zenon
  <2>2. Kept(StartRecording(r, 1)) /\ Started(r, 1, StartRecording(r, 1))
      BY <1>2, <1>11, <2>1, StartKeeps, Zenon
  <2>. QED BY <1>1, <2>2, Zenon DEF r
<1>13. Len(rec.verdict) = 1 /\ rec.session = 1
    BY <1>4, <1>6, <1>12, Zenon DEF Started
<1>14. Sound(rec, 1)
    BY <1>6, <1>12, <1>13, Zenon DEF Sound, Started, Playable, Rests, Timely
<1>15. currentSession = 1 /\ everVisible \in BOOLEAN
    BY DEF RecorderInit
<1>. QED BY <1>2, <1>14, <1>15, Zenon DEF RecorderInv

-------------------------------------------------------------------------------
(* SessionRecorder: every step keeps the invariant.                             *)

\* The facts that the steps need.
LEMMA SoundParts ==
    ASSUME RecorderInv
    PROVE  /\ currentSession \in Sessions /\ everVisible \in BOOLEAN
           /\ rec \in Recorders
           /\ Kept(rec) /\ Playable(rec) /\ Rests(rec) /\ Timely(rec)
           /\ Len(rec.verdict) = currentSession /\ ~rec.capturing
           /\ (rec.live => rec.session = currentSession)
           /\ Sound(rec, currentSession)
BY Zenon DEF RecorderInv, Sound, Kept

\* A step of the recorder alone.
LEMMA StaysSound ==
    ASSUME RecorderInv, Stays, Sound(rec', currentSession)
    PROVE  RecorderInv'
<1>1. currentSession' = currentSession /\ everVisible' = everVisible
    BY DEF Stays
<1>2. Sound(rec', currentSession')
    BY <1>1
<1>3. currentSession' \in Sessions /\ everVisible' \in BOOLEAN
    BY <1>1, SoundParts
<1>. QED BY <1>2, <1>3, Zenon DEF RecorderInv

\* The session that comes next.
LEMMA NextSession ==
    ASSUME RecorderInv, currentSession < MaxSessions
    PROVE  /\ currentSession + 1 \in Sessions
           /\ rec.session < currentSession + 1
           /\ Len(rec.verdict) + 1 = currentSession + 1
           /\ currentSession + 1 <= currentSession + 1
<1>1. currentSession \in Sessions /\ rec.session \in Sessions /\ Len(rec.verdict) = currentSession
    BY SoundParts, RecorderFields
<1>2. rec.session <= Len(rec.verdict)
    BY SoundParts DEF Kept, Steered
<1>. QED BY <1>1, <1>2, RecorderAssumption DEF Sessions

\* A rotation of the session keeps the invariant.
LEMMA RotateSound ==
    ASSUME RecorderInv, NEW linked \in BOOLEAN, RotateSession(linked)
    PROVE  RecorderInv'
<1>. DEFINE s == currentSession + 1
<1>1. PICK v \in Verdicts :
        rec' = IF rec.hears
               THEN OnSessionId(Called([rec EXCEPT !.verdict = Append(@, v)]), s, linked)
               ELSE [rec EXCEPT !.verdict = Append(@, v)]
  <2>1. \E v \in Verdicts :
          LET d == [rec EXCEPT !.verdict = Append(@, v)] IN
          rec' = IF rec.hears THEN OnSessionId(Called(d), s, linked) ELSE d
      BY Zenon DEF RotateSession, Rotates
  <2>. QED BY <2>1, Zenon
<1>2. currentSession < MaxSessions /\ currentSession' = s /\ everVisible' = everVisible
    BY DEF RotateSession, Rotates
<1>3. s \in Sessions /\ rec.session < s /\ Len(rec.verdict) + 1 = s /\ s <= s
    BY <1>2, NextSession, Zenon
<1>. HIDE DEF s
<1>. DEFINE d == [rec EXCEPT !.verdict = Append(@, v)]
            c == Called(d)
<1>4. /\ Kept(d) /\ Rests(d) /\ Playable(d) /\ Timely(d) /\ Len(d.verdict) = s
      /\ d.session = rec.session /\ d.live = rec.live /\ d.capturing = rec.capturing
    BY <1>3, SoundParts, VerdictAdded, Zenon
<1>5. rec' = IF rec.hears THEN OnSessionId(c, s, linked) ELSE d
    BY <1>1, Zenon
<1>. HIDE DEF d
<1>6. ~d.capturing
    BY <1>4, SoundParts, Zenon
<1>7. Sound(rec', s)
  <2>1. CASE rec.hears
    <3>1. Kept(c) /\ Going(d, c) /\ Playable(c) /\ Rests(c)
        BY <1>4, CalledKeeps, Zenon
    <3>. HIDE DEF c
    <3>2. c.session < s /\ s <= Len(c.verdict)
        BY <1>3, <1>4, <3>1, Zenon DEF Going
    <3>3. rec' = OnSessionId(c, s, linked)
        BY <1>5, <2>1, Zenon
    <3>4. /\ Kept(rec') /\ Playable(rec') /\ Timely(rec') /\ rec'.live /\ rec'.session = s
          /\ rec'.verdict = c.verdict /\ rec'.capturing = c.capturing
      <4>. DEFINE p == OnSessionId(c, s, linked)
      <4>1. /\ Kept(p) /\ Playable(p) /\ Timely(p) /\ p.live /\ p.session = s
            /\ p.verdict = c.verdict /\ p.capturing = c.capturing
          BY <1>3, <3>1, <3>2, SessionIdKeeps
      <4>. HIDE DEF p
      <4>. QED BY <3>3, <4>1, Zenon DEF p
    <3>. QED BY <1>4, <1>6, <3>1, <3>4, Zenon DEF Sound, Rests, Going
  <2>2. CASE ~rec.hears
    <3>1. rec' = d
        BY <1>5, <2>2, Zenon
    <3>2. ~rec.live
        BY <2>2, SoundParts, Zenon DEF Kept, Steered
    <3>3. Sound(d, s)
        BY <1>4, <1>6, <3>2, Zenon DEF Sound
    <3>. QED BY <3>1, <3>3, Zenon
  <2>. QED BY <2>1, <2>2
<1>8. Sound(rec', currentSession') /\ currentSession' \in Sessions /\ everVisible' \in BOOLEAN
    BY <1>2, <1>3, <1>7, SoundParts, Zenon
<1>. QED BY <1>8, Zenon DEF RecorderInv

\* So does an interaction that rotates the session.
LEMMA InteractionElsewhereSound ==
    ASSUME RecorderInv, NEW linked \in BOOLEAN, EmitInteractionInNewSession(linked)
    PROVE  RecorderInv'
<1>. DEFINE s == currentSession + 1
<1>1. PICK v \in Verdicts :
        rec' = Interacted(OnSessionId([Woken EXCEPT !.verdict = Append(@, v)], s, linked))
    BY Zenon DEF EmitInteractionInNewSession
<1>2. /\ currentSession < MaxSessions /\ currentSession' = s /\ everVisible' = everVisible
      /\ rec.live
    BY DEF EmitInteractionInNewSession
<1>3. s \in Sessions /\ rec.session < s /\ Len(rec.verdict) + 1 = s /\ s <= s
    BY <1>2, NextSession, Zenon
<1>. HIDE DEF s
<1>4. /\ Kept(Woken) /\ Woken.idle = "active" /\ ~Woken.quiet /\ Rests(Woken)
      /\ Playable(Woken) /\ Woken.session = rec.session /\ Woken.live
      /\ Woken.verdict = rec.verdict /\ Woken.capturing = rec.capturing
    BY <1>2, SoundParts, WokenKeeps, Zenon
<1>. DEFINE d == [Woken EXCEPT !.verdict = Append(@, v)]
<1>5. /\ Kept(d) /\ Rests(d) /\ Playable(d) /\ Len(d.verdict) = s /\ s <= Len(d.verdict)
      /\ d.session < s /\ d.live /\ ~d.quiet /\ d.idle = "active"
      /\ d.capturing = rec.capturing
    BY <1>3, <1>4, VerdictAdded, ZenonT(60)
<1>. DEFINE m == OnSessionId(d, s, linked)
<1>6. rec' = Interacted(m)
    BY <1>1, Zenon
<1>. HIDE DEF d
<1>7. /\ Kept(m) /\ Playable(m) /\ m.live /\ m.session = s /\ ~m.quiet
      /\ m.verdict = d.verdict /\ m.idle = "active" /\ m.capturing = d.capturing
    BY <1>3, <1>5, SessionIdKeeps
<1>8. m.idle # "idle"
    BY <1>7
<1>. HIDE DEF m
<1>9. /\ Kept(rec') /\ Playable(rec') /\ Timely(rec') /\ rec'.live /\ rec'.session = s
      /\ Len(rec'.verdict) = s /\ rec'.capturing = m.capturing
    BY <1>5, <1>6, <1>7, <1>8, InteractionKeeps, Zenon
<1>12. ~rec'.capturing
    BY <1>5, <1>7, <1>9, SoundParts, Zenon
<1>10. Sound(rec', s)
    BY <1>9, <1>12, Zenon DEF Sound, Rests
<1>11. Sound(rec', currentSession') /\ currentSession' \in Sessions /\ everVisible' \in BOOLEAN
    BY <1>2, <1>3, <1>10, SoundParts, Zenon
<1>. QED BY <1>11, Zenon DEF RecorderInv

\* So does an interaction in the session it finds.
LEMMA InteractionSound ==
    ASSUME RecorderInv, EmitInteraction
    PROVE  RecorderInv'
<1>1. rec.live /\ rec' = Interacted(Woken) /\ Stays
    BY DEF EmitInteraction
<1>2. /\ Kept(Woken) /\ Woken.idle = "active" /\ ~Woken.quiet /\ Playable(Woken)
      /\ Woken.session = rec.session /\ Woken.live /\ Woken.verdict = rec.verdict
      /\ Woken.capturing = rec.capturing
    BY <1>1, SoundParts, WokenKeeps, Zenon
<1>3. Woken.idle # "idle"
    BY <1>2
<1>4. /\ Kept(rec') /\ Playable(rec') /\ Timely(rec') /\ rec'.live
      /\ rec'.session = rec.session /\ Len(rec'.verdict) = Len(rec.verdict)
      /\ rec'.capturing = rec.capturing
    BY <1>1, <1>2, <1>3, InteractionKeeps, Zenon
<1>5. Sound(rec', currentSession)
    BY <1>1, <1>4, SoundParts, Zenon DEF Sound, Rests
<1>. QED BY <1>1, <1>5, StaysSound, Zenon

\* So does a mutation of the page.
LEMMA MutationSound ==
    ASSUME RecorderInv, EmitMutation
    PROVE  RecorderInv'
<1>. DEFINE g == GoIdle(rec)
            c == Called(g)
<1>1. /\ rec.live /\ Stays
      /\ rec' = IF g.idle = "idle" THEN g ELSE Route(c, NextEvent(c, "mutation", g.session))
    BY DEF EmitMutation
<1>2. /\ Cleared(rec, g) /\ (g.quiet => g.idle = "idle") /\ Timely(g)
    BY SoundParts, GoIdleSettles, Zenon
<1>. HIDE DEF g
<1>9. Ships(rec)
    BY <1>1, SoundParts, LiveShips
<1>3. Kept(g) /\ Carried(rec, g)
    BY <1>2, <1>9, SoundParts, ClearedCarries, Zenon
<1>4. /\ g.live /\ g.session = rec.session /\ g.verdict = rec.verdict /\ Playable(g)
      /\ g.capturing = rec.capturing
    BY <1>1, <1>3, SoundParts, Zenon DEF Carried
<1>5. Len(g.verdict) = currentSession /\ g.session = currentSession /\ ~g.capturing
    BY <1>1, <1>4, SoundParts, Zenon
<1>6. CASE g.idle = "idle"
  <2>1. Sound(g, currentSession)
      BY <1>2, <1>3, <1>4, <1>5, Zenon DEF Sound, Rests
  <2>2. Sound(rec', currentSession)
      BY <1>1, <1>6, <2>1, Zenon
  <2>. QED BY <1>1, <2>2, StaysSound, Zenon
<1>7. CASE g.idle # "idle"
  <2>1. Kept(c) /\ Going(g, c) /\ Playable(c)
      BY <1>3, <1>4, CalledKeeps, Zenon
  <2>2. rec' = Route(c, NextEvent(c, "mutation", g.session))
      BY <1>1, <1>7, Zenon
  <2>. HIDE DEF c
  <2>3. /\ c.session = g.session /\ c.live /\ ~c.quiet /\ c.idle # "idle"
        /\ Len(c.verdict) = currentSession /\ c.session = currentSession /\ ~c.capturing
      BY <1>2, <1>4, <1>5, <1>7, <2>1, Zenon DEF Going
  <2>4. rec' = Route(c, NextEvent(c, "mutation", c.session))
      BY <2>2, <2>3, Zenon
  <2>5. "mutation" \in {"user", "mutation", "link"}
      OBVIOUS
  <2>6. Kept(rec') /\ Going(c, rec') /\ Timely(rec') /\ Playable(rec')
      BY <2>1, <2>3, <2>4, <2>5, RouteKeeps, Zenon
  <2>7. Sound(rec', currentSession)
      BY <2>3, <2>6, GoingSound, Zenon
  <2>. QED BY <1>1, <2>7, StaysSound, Zenon
<1>. QED BY <1>6, <1>7

\* So does the periodic full snapshot.
LEMMA SnapshotTimerSound ==
    ASSUME RecorderInv, SnapshotTimerFires
    PROVE  RecorderInv'
<1>. DEFINE c == Called(rec)
<1>1. rec.live /\ rec' = TakeFullSnapshot(c) /\ Stays
    BY DEF SnapshotTimerFires
<1>2. Kept(c) /\ Going(rec, c) /\ Playable(c)
    BY SoundParts, CalledKeeps, Zenon
<1>. HIDE DEF c
<1>3. /\ c.live /\ c.session = currentSession /\ Len(c.verdict) = currentSession
      /\ ~c.capturing
    BY <1>1, <1>2, SoundParts, Zenon DEF Going
<1>4. Kept(rec') /\ Carried(c, rec') /\ Timely(rec')
    BY <1>1, <1>2, <1>3, TakeKeeps, Zenon DEF Snapped
<1>5. /\ Playable(rec') /\ rec'.live /\ rec'.session = currentSession
      /\ Len(rec'.verdict) = currentSession /\ ~rec'.capturing
    BY <1>2, <1>3, <1>4, Zenon DEF Carried
<1>6. Sound(rec', currentSession)
    BY <1>4, <1>5, Zenon DEF Sound, Rests
<1>. QED BY <1>1, <1>6, StaysSound, Zenon

\* So does the passing of the idle threshold.
LEMMA QuietSound ==
    ASSUME RecorderInv, ActivityThresholdPasses
    PROVE  RecorderInv'
<1>. DEFINE q == [rec EXCEPT !.quiet = TRUE]
<1>1. rec.queue = <<>> /\ rec' = q /\ Stays
    BY DEF ActivityThresholdPasses
<1>2. rec \in Recorders
    BY SoundParts
<1>3. q \in Recorders
    BY <1>2 DEF Recorders
<1>4. /\ q.session = rec.session /\ q.hears = rec.hears /\ q.live = rec.live
      /\ q.hold = rec.hold
      /\ q.buffer = rec.buffer /\ q.queue = rec.queue /\ q.emitted = rec.emitted
      /\ q.shippedTo = rec.shippedTo /\ q.shipped = rec.shipped /\ q.idle = rec.idle
      /\ q.seen = rec.seen /\ q.cared = rec.cared /\ q.timer = rec.timer
      /\ q.lastFull = rec.lastFull /\ q.fresh = rec.fresh /\ q.verdict = rec.verdict
      /\ q.healed = rec.healed /\ q.stopping = rec.stopping
      /\ q.unloadShips = rec.unloadShips /\ q.capturing = rec.capturing
    BY <1>2 DEF Recorders
<1>. HIDE DEF q
<1>5. Filed(q) /\ InOrder(q)
    BY <1>4, SoundParts, ZenonT(60) DEF Kept, Filed, InOrder
<1>6. Cared(q)
    BY <1>4, SoundParts, Zenon DEF Kept, Cared
<1>7. Steered(q)
    BY <1>1, <1>4, SoundParts, Zenon DEF Kept, Steered
<1>8. Rests(q) /\ Playable(q) /\ Timely(q)
    BY <1>4, SoundParts, Zenon DEF Rests, Playable, Incremental, Timely
<1>9. Sound(q, currentSession)
    BY <1>3, <1>4, <1>5, <1>6, <1>7, <1>8, SoundParts, Zenon DEF Sound, Kept
<1>. QED BY <1>1, <1>9, StaysSound, Zenon

\* So does the flush timer.
LEMMA FlushTimerSound ==
    ASSUME RecorderInv, FlushTimerFires
    PROVE  RecorderInv'
<1>1. rec' = FlushBuffer(rec) /\ Stays
    BY DEF FlushTimerFires
<1>2. Kept(rec') /\ Rests(rec') /\ Steering(rec, rec') /\ Timely(rec') /\ Playable(rec')
    BY <1>1, SoundParts, FlushKeeps, Zenon
<1>3. Sound(rec', currentSession)
    BY <1>2, SoundParts, SteeringSound, Zenon
<1>. QED BY <1>1, <1>3, StaysSound, Zenon

\* So does the end of a compression: the first event of the queue is captured.
LEMMA CompressionSound ==
    ASSUME RecorderInv, CompressionDone
    PROVE  RecorderInv'
<1>. DEFINE t == rec.queue
            e == Head(t)
            d == [rec EXCEPT !.queue = Tail(t)]
<1>1. t # <<>> /\ rec' = CaptureQueued(d, e) /\ Stays
  <2>1. rec \in Recorders
      BY SoundParts
  <2>2. d = [rec EXCEPT !.queue = Tail(@)]
      BY <2>1 DEF Recorders
  <2>. HIDE DEF d
  <2>. QED BY <2>2, Zenon DEF CompressionDone
<1>2. rec \in Recorders /\ t \in Seq(RecEvent) /\ rec.shippedTo \in Nat /\ rec.emitted \in Nat
    BY SoundParts, RecorderFields
<1>3. /\ Len(t) \in Nat /\ Len(t) \in 1..Len(t) /\ 1 \in 1..Len(t)
      /\ \A i \in 1..Len(t) : t[i] \in RecEvent
  <2>1. Len(t) \in Nat /\ Len(t) \in 1..Len(t) /\ \A i \in 1..Len(t) : t[i] \in RecEvent
      BY <1>1, <1>2, LineFields
  <2>. QED BY <2>1
<1>4. e = t[1]
    BY <1>1, <1>2, HeadTailProperties
<1>5. /\ Tail(t) \in Seq(RecEvent) /\ Len(Tail(t)) = Len(t) - 1
      /\ \A i \in 1..Len(Tail(t)) : Tail(t)[i] = t[i + 1]
    BY <1>1, <1>2, HeadTailProperties
<1>6. \A i \in 1..Len(Tail(t)) : i + 1 \in 1..Len(t) /\ 1 < i + 1
    BY <1>3, <1>5
<1>7. Rest(Tail(t), t)
  <2>1. 1 \in 0..Len(t)
      BY <1>3
  <2>. QED BY <1>5, <2>1, Zenon DEF Rest
<1>8. d \in Recorders
    BY <1>2, <1>5 DEF Recorders
<1>9. /\ d.session = rec.session /\ d.hears = rec.hears /\ d.live = rec.live
      /\ d.hold = rec.hold /\ d.quiet = rec.quiet
      /\ d.buffer = rec.buffer /\ d.queue = Tail(t) /\ d.emitted = rec.emitted
      /\ d.shippedTo = rec.shippedTo /\ d.shipped = rec.shipped /\ d.idle = rec.idle
      /\ d.seen = rec.seen /\ d.cared = rec.cared
      /\ d.lastFull = rec.lastFull /\ d.fresh = rec.fresh /\ d.verdict = rec.verdict
      /\ d.healed = rec.healed /\ d.stopping = rec.stopping
      /\ d.unloadShips = rec.unloadShips /\ d.capturing = rec.capturing
    BY <1>2 DEF Recorders
<1>. HIDE DEF d, e
<1>10. ~rec.quiet /\ rec.idle # "idle" /\ (rec.live \/ rec.stopping)
    BY <1>1, SoundParts, Zenon DEF Kept, Steered, Rests
<1>11. Filed(d)
  <2>1. \A i \in 1..Len(t) : t[i].target = rec.session
      BY SoundParts, Zenon DEF Kept, Filed
  <2>2. \A i \in 1..Len(Tail(t)) : Tail(t)[i].target = rec.session
    <3>1. TAKE i \in 1..Len(Tail(t))
    <3>2. Tail(t)[i] = t[i + 1] /\ i + 1 \in 1..Len(t)
        BY <1>5, <1>6, <3>1, Zenon
    <3>. QED BY <2>1, <3>2, Zenon
  <2>3. /\ \A i \in 1..Len(rec.buffer.events) : rec.buffer.events[i].target = rec.session
        /\ rec.buffer.events # <<>> => rec.buffer.session = rec.session
      BY SoundParts, Zenon DEF Kept, Filed
  <2>4. d.session = rec.session /\ d.buffer = rec.buffer /\ d.queue = Tail(t)
      BY <1>9, Zenon
  <2>. HIDE DEF t
  <2>. QED BY <2>2, <2>3, <2>4, Zenon DEF Filed
<1>12. Cared(d)
    BY <1>9, SoundParts, Zenon DEF Kept, Cared
<1>13. InOrder(d)
  <2>1. Rising(Tail(t), rec.shippedTo, rec.emitted)
      BY <1>2, <1>5, <1>7, RestIsPart, SoundParts DEF Kept, InOrder
  <2>2. \A i \in 1..Len(rec.buffer.events), j \in 1..Len(Tail(t)) :
           rec.buffer.events[i].n <= Tail(t)[j].n
      BY <1>5, <1>6, SoundParts, Zenon DEF Kept, InOrder
  <2>. QED BY <1>9, <2>1, <2>2, SoundParts, Zenon DEF Kept, InOrder
<1>14. Steered(d)
  <2>1. \A i \in 1..Len(Tail(t)) : Tail(t)[i].kind = "full" => rec.seen
      BY <1>5, <1>6, SoundParts, Zenon DEF Kept, Steered
  <2>. QED BY <1>9, <1>10, <2>1, SoundParts, Zenon DEF Kept, Steered
<1>15. Kept(d) /\ Playable(d)
    BY <1>8, <1>9, <1>11, <1>12, <1>13, <1>14, SoundParts, Zenon
       DEF Kept, Playable, Incremental
<1>16. Fits(d, e)
  <2>1. e \in RecEvent /\ e.target = rec.session /\ (e.kind = "full" => rec.seen)
      BY <1>3, <1>4, SoundParts, Zenon DEF Kept, Filed, Steered
  <2>2. rec.shippedTo <= e.n /\ e.n <= rec.emitted
      BY <1>3, <1>4, SoundParts, Zenon DEF Kept, InOrder, Rising
  <2>3. \A i \in 1..Len(rec.buffer.events) : rec.buffer.events[i].n <= e.n
      BY <1>3, <1>4, SoundParts, Zenon DEF Kept, InOrder
  <2>4. \A j \in 1..Len(Tail(t)) : e.n <= Tail(t)[j].n
      BY <1>3, <1>4, <1>5, <1>6, SoundParts, Zenon DEF Kept, InOrder, Rising
  <2>. QED BY <1>9, <2>1, <2>2, <2>3, <2>4, Zenon DEF Fits
<1>17. ~d.quiet /\ d.idle # "idle" /\ ~d.capturing /\ (d.live \/ d.stopping)
    BY <1>9, <1>10, SoundParts, Zenon
<1>18. Kept(rec') /\ Going(d, rec') /\ Timely(rec') /\ Playable(rec')
    BY <1>1, <1>15, <1>16, <1>17, FromQueueKeeps, Zenon
<1>19. Len(d.verdict) = currentSession /\ (d.live => d.session = currentSession)
    BY <1>9, SoundParts, Zenon
<1>20. Sound(rec', currentSession)
    BY <1>17, <1>18, <1>19, GoingSound, Zenon
<1>. QED BY <1>1, <1>20, StaysSound, Zenon

\* So does a change of how events are compressed.
LEMMA CompressionChangesSound ==
    ASSUME RecorderInv, CompressionChanges
    PROVE  RecorderInv'
<1>. DEFINE a == ~rec.async
            q == [rec EXCEPT !.async = a]
<1>1. rec \in Recorders
    BY SoundParts
<1>2. rec' = q /\ Stays
    BY <1>1 DEF CompressionChanges, Recorders
<1>3. a \in BOOLEAN
    OBVIOUS
<1>. HIDE DEF a
<1>4. q \in Recorders
    BY <1>1, <1>3, ZenonT(60) DEF Recorders
<1>5. /\ q.session = rec.session /\ q.hears = rec.hears /\ q.live = rec.live
      /\ q.hold = rec.hold /\ q.quiet = rec.quiet
      /\ q.buffer = rec.buffer /\ q.queue = rec.queue /\ q.emitted = rec.emitted
      /\ q.shippedTo = rec.shippedTo /\ q.shipped = rec.shipped /\ q.idle = rec.idle
      /\ q.seen = rec.seen /\ q.cared = rec.cared /\ q.timer = rec.timer
      /\ q.lastFull = rec.lastFull /\ q.fresh = rec.fresh /\ q.verdict = rec.verdict
      /\ q.healed = rec.healed /\ q.stopping = rec.stopping
      /\ q.unloadShips = rec.unloadShips /\ q.capturing = rec.capturing
    BY <1>1 DEF Recorders
<1>. HIDE DEF q
<1>6. Filed(q) /\ InOrder(q)
    BY <1>5, SoundParts, ZenonT(60) DEF Kept, Filed, InOrder
<1>7. Cared(q)
    BY <1>5, SoundParts, Zenon DEF Kept, Cared
<1>8. Steered(q)
    BY <1>5, SoundParts, Zenon DEF Kept, Steered
<1>9. Rests(q) /\ Playable(q) /\ Timely(q)
    BY <1>5, SoundParts, Zenon DEF Rests, Playable, Incremental, Timely
<1>10. Sound(q, currentSession)
    BY <1>4, <1>5, <1>6, <1>7, <1>8, <1>9, SoundParts, Zenon DEF Sound, Kept
<1>. QED BY <1>2, <1>10, StaysSound, Zenon

\* So does the end of a stop that waited for the queue.
LEMMA StopCompletesSound ==
    ASSUME RecorderInv, StopCompletes
    PROVE  RecorderInv'
<1>1. rec' = Teardown(ClearBuffer(FlushBuffer(rec))) /\ Stays
    BY DEF StopCompletes
<1>2. Kept(rec') /\ Halted(rec, rec') /\ Rests(rec')
    BY <1>1, SoundParts, FinishKeeps, Zenon
<1>3. Sound(rec', currentSession)
    BY <1>2, SoundParts, HaltedSound, Zenon
<1>. QED BY <1>1, <1>3, StaysSound, Zenon

\* So does a start.
LEMMA StartSound ==
    ASSUME RecorderInv, Start
    PROVE  RecorderInv'
<1>. DEFINE c == Called(rec)
<1>1. rec' = StartRecording(c, currentSession) /\ ~rec.live /\ Stays
    BY DEF Start
<1>2. /\ Kept(c) /\ Rests(c) /\ Going(rec, c) /\ c.lastFull = rec.lastFull
      /\ c.healed = rec.healed
    BY SoundParts, CalledKeeps, Zenon
<1>. HIDE DEF c
<1>3. /\ ~c.live /\ Len(c.verdict) = currentSession /\ ~c.capturing
    BY <1>1, <1>2, SoundParts, Zenon DEF Going
<1>4. /\ c.lastFull <= currentSession /\ c.healed <= currentSession
      /\ currentSession <= Len(c.verdict)
  <2>1. /\ rec.session \in Sessions /\ currentSession \in Sessions
        /\ rec.lastFull \in 0..MaxSessions /\ rec.healed \in 0..MaxSessions
      BY SoundParts, RecorderFields
  <2>2. /\ rec.session <= Len(rec.verdict) /\ rec.lastFull <= rec.session
        /\ rec.healed <= rec.session /\ Len(rec.verdict) = currentSession
      BY SoundParts, Zenon DEF Kept, Steered
  <2>3. /\ rec.lastFull <= currentSession /\ rec.healed <= currentSession
        /\ currentSession <= currentSession
      BY <2>1, <2>2, RecorderAssumption DEF Sessions
  <2>. QED BY <1>2, <1>3, <2>3, Zenon
<1>5. Kept(rec') /\ Started(c, currentSession, rec')
  <2>1. currentSession \in Sessions
      BY SoundParts
  <2>. QED BY <1>1, <1>2, <1>3, <1>4, <2>1, StartKeeps, Zenon
<1>6. Sound(rec', currentSession)
    BY <1>3, <1>5, Zenon DEF Sound, Started, Playable, Rests, Timely
<1>. QED BY <1>1, <1>6, StaysSound, Zenon

\* So does a stop.
LEMMA StopSound ==
    ASSUME RecorderInv, Stop
    PROVE  RecorderInv'
<1>1. rec' = StopRecording(rec) /\ Stays
    BY DEF Stop
<1>2. Kept(rec') /\ Halted(rec, rec') /\ Rests(rec')
    BY <1>1, SoundParts, StopKeeps, Zenon
<1>3. Sound(rec', currentSession)
    BY <1>2, SoundParts, HaltedSound, Zenon
<1>. QED BY <1>1, <1>3, StaysSound, Zenon

\* So does a stop that discards the buffer.
LEMMA DiscardSound ==
    ASSUME RecorderInv, Discard
    PROVE  RecorderInv'
<1>. DEFINE c == ClearBuffer(rec)
<1>1. rec' = Teardown(c) /\ Stays /\ rec.live
    BY DEF Discard
<1>2. Cleared(rec, c) /\ c.buffer.events = <<>> /\ c.idle = rec.idle
    BY SoundParts, ClearSettles, Zenon
<1>. HIDE DEF c
<1>7. Ships(rec)
    BY <1>1, SoundParts, LiveShips
<1>3. Kept(c)
    BY <1>2, <1>7, SoundParts, ClearedKept, Zenon
<1>4. Kept(rec') /\ Halted(c, rec') /\ Rests(rec')
    BY <1>1, <1>2, <1>3, TeardownKeeps, Zenon
<1>5. Len(c.verdict) = currentSession /\ ~c.capturing
    BY <1>2, SoundParts, Zenon DEF Cleared, Steady
<1>6. Sound(rec', currentSession)
    BY <1>4, <1>5, HaltedSound, Zenon
<1>. QED BY <1>1, <1>6, StaysSound, Zenon

\* So does the forced idle reset of the session manager.
LEMMA IdleResetSound ==
    ASSUME RecorderInv, ForcedIdleReset
    PROVE  RecorderInv'
<1>. DEFINE m == [rec EXCEPT !.idle = "unknown"]
            t == StopRecording(m)
            q == [t EXCEPT !.hears = TRUE]
<1>1. rec' = q /\ Stays
    BY DEF ForcedIdleReset
<1>2. "unknown" \in {"unknown", "active"}
    OBVIOUS
<1>3. Kept(m) /\ Rests(m) /\ m.verdict = rec.verdict /\ m.capturing = rec.capturing
    BY <1>2, SoundParts, MindKeeps, Zenon
<1>. HIDE DEF m
<1>4. Kept(t) /\ Halted(m, t) /\ Rests(t)
    BY <1>3, StopKeeps, Zenon
<1>. HIDE DEF t
<1>5. t \in Recorders
    BY <1>4, Zenon DEF Kept
<1>6. q \in Recorders
    BY <1>5 DEF Recorders
<1>7. /\ q.session = t.session /\ q.quiet = t.quiet /\ q.live = t.live
      /\ q.hold = t.hold
      /\ q.buffer = t.buffer /\ q.queue = t.queue /\ q.emitted = t.emitted
      /\ q.shippedTo = t.shippedTo /\ q.shipped = t.shipped /\ q.idle = t.idle
      /\ q.seen = t.seen /\ q.cared = t.cared
      /\ q.lastFull = t.lastFull /\ q.fresh = t.fresh /\ q.verdict = t.verdict
      /\ q.healed = t.healed /\ q.stopping = t.stopping
      /\ q.unloadShips = t.unloadShips /\ q.capturing = t.capturing
    BY <1>5 DEF Recorders
<1>. HIDE DEF q
<1>8. ~t.live /\ t.verdict = rec.verdict /\ ~t.capturing
    BY <1>3, <1>4, SoundParts, Zenon DEF Halted
<1>9. Filed(q) /\ InOrder(q)
    BY <1>4, <1>7, ZenonT(60) DEF Kept, Filed, InOrder
<1>10. Cared(q)
    BY <1>4, <1>7, Zenon DEF Kept, Cared
<1>11. Steered(q)
    BY <1>4, <1>7, <1>8, Zenon DEF Kept, Steered
<1>12. Rests(q) /\ Playable(q) /\ Timely(q)
    BY <1>4, <1>7, <1>8, Zenon DEF Rests, Playable, Timely
<1>13. Sound(q, currentSession)
    BY <1>6, <1>7, <1>8, <1>9, <1>10, <1>11, <1>12, SoundParts, Zenon DEF Sound, Kept
<1>. QED BY <1>1, <1>13, StaysSound, Zenon

\* So does an event trigger.
LEMMA EventTriggerSound ==
    ASSUME RecorderInv, EventTriggerMatches
    PROVE  RecorderInv'
<1>. DEFINE c == Called(rec)
            h == ReleaseHold(c)
<1>1. rec' = Activated(h) /\ Stays
    BY DEF EventTriggerMatches
<1>6. Sound(c, currentSession)
    BY SoundParts, CalledSound
<1>. HIDE DEF c
<1>2. Kept(h) /\ Rests(h) /\ Steering(c, h) /\ Playable(h) /\ Timely(h)
    BY <1>6, ReleaseKeeps, Zenon DEF Sound
<1>. HIDE DEF h
<1>3. Sound(h, currentSession)
    BY <1>2, <1>6, SteeringSound, Zenon
<1>4. Kept(rec') /\ Rests(rec') /\ Steering(h, rec') /\ Playable(rec') /\ Timely(rec')
    BY <1>1, <1>2, ActivationKeeps, Zenon
<1>5. Sound(rec', currentSession)
    BY <1>3, <1>4, SteeringSound, Zenon
<1>. QED BY <1>1, <1>5, StaysSound, Zenon

\* So does a URL trigger.
LEMMA UrlTriggerSound ==
    ASSUME RecorderInv, UrlTriggerMatches
    PROVE  RecorderInv'
<1>1. rec' = Activated(rec) /\ Stays
    BY DEF UrlTriggerMatches
<1>2. Kept(rec') /\ Rests(rec') /\ Steering(rec, rec') /\ Playable(rec') /\ Timely(rec')
    BY <1>1, SoundParts, ActivationKeeps, Zenon
<1>3. Sound(rec', currentSession)
    BY <1>2, SoundParts, SteeringSound, Zenon
<1>. QED BY <1>1, <1>3, StaysSound, Zenon

\* So does an override of the sampling decision.
LEMMA OverrideSound ==
    ASSUME RecorderInv, Override
    PROVE  RecorderInv'
<1>. DEFINE c == Called(rec)
            v == [c EXCEPT !.verdict[c.session] = "recording"]
            t == TakeFullSnapshot(v)
<1>7. c.session = rec.session
    BY SoundParts, CalledKeeps, Zenon DEF Going
<1>1. rec' = ReleaseHold(t) /\ Stays
  <2>1. v = [c EXCEPT !.verdict[rec.session] = "recording"]
      BY <1>7, Zenon
  <2>. HIDE DEF v
  <2>. QED BY <2>1, Zenon DEF Override
<1>8. Sound(c, currentSession)
    BY SoundParts, CalledSound
<1>. HIDE DEF c
<1>2. Kept(v) /\ Rests(v) /\ Steering(c, v) /\ Playable(v) /\ Timely(v)
    BY <1>8, VerdictKeeps, Zenon DEF Sound
<1>. HIDE DEF v
<1>3. Sound(v, currentSession)
    BY <1>2, <1>8, SteeringSound, Zenon
<1>4. Kept(t) /\ Rests(t) /\ Sound(t, currentSession)
  <2>1. CASE v.live
    <3>1. Snapped(v, t)
        BY <1>2, <2>1, TakeKeeps, Zenon
    <3>. HIDE DEF t
    <3>2. /\ Kept(t) /\ Timely(t) /\ Playable(t) /\ t.live
          /\ t.session = v.session /\ t.verdict = v.verdict /\ t.capturing = v.capturing
        BY <1>2, <2>1, <3>1, Zenon DEF Snapped, Carried
    <3>. QED BY <1>3, <2>1, <3>2, Zenon DEF Rests, Sound
  <2>2. CASE ~v.live
    <3>1. t = v
        BY <2>2, Zenon DEF TakeFullSnapshot
    <3>. HIDE DEF t
    <3>. QED BY <1>2, <1>3, <3>1, Zenon
  <2>. QED BY <2>1, <2>2
<1>. HIDE DEF t
<1>5. Kept(rec') /\ Rests(rec') /\ Steering(t, rec') /\ Playable(rec') /\ Timely(rec')
    BY <1>1, <1>4, ReleaseKeeps, Zenon DEF Sound
<1>6. Sound(rec', currentSession)
    BY <1>4, <1>5, SteeringSound, Zenon
<1>. QED BY <1>1, <1>6, StaysSound, Zenon

\* So does an unload.
LEMMA UnloadSound ==
    ASSUME RecorderInv, BeforeUnload
    PROVE  RecorderInv'
<1>. DEFINE ships == rec.hold /\ rec.unloadShips /\ everVisible /\ ~rec.overflowed
            held == rec.hold /\ ~ships
            some == IF ships /\ rec.fresh THEN rec.cared \cup {rec.session} ELSE rec.cared
            open == [rec EXCEPT !.hold = held, !.cared = some]
            all == CaptureAll(open)
<1>1. rec \in Recorders /\ rec.session \in Sessions /\ rec.cared \in SUBSET Sessions
    BY SoundParts, RecorderFields
<1>2. /\ rec.live \/ rec.stopping
      /\ rec' = IF RecStatus(rec) = "buffering" THEN ClearBuffer(rec) ELSE FlushBuffer(all)
      /\ Stays
  <2>1. open = [rec EXCEPT !.hold = @ /\ ~ships,
                           !.cared = IF ships /\ rec.fresh THEN @ \cup {rec.session} ELSE @]
      BY <1>1, Zenon DEF Recorders
  <2>. HIDE DEF open
  <2>. QED BY <2>1, Zenon DEF BeforeUnload
<1>3. CASE RecStatus(rec) = "buffering"
  <2>1. rec' = ClearBuffer(rec)
      BY <1>2, <1>3, Zenon
  <2>2. Cleared(rec, rec') /\ rec'.buffer.events = <<>> /\ rec'.idle = rec.idle
      BY <1>1, <2>1, ClearSettles, Zenon
  <2>6. Ships(rec)
      BY <1>2, SoundParts, LiveShips
  <2>3. Kept(rec') /\ Playable(rec')
      BY <1>1, <2>2, <2>6, SoundParts, ClearedKept, ClearedPlayable, Zenon
  <2>7. Rests(rec') /\ Steering(rec, rec')
      BY <1>2, <2>2, Zenon DEF Rests, Cleared, Steady, Steering
  <2>4. Rests(rec') /\ Timely(rec') /\ Steering(rec, rec')
      BY <2>2, <2>7, NothingIncremental, Zenon
  <2>5. Sound(rec', currentSession)
      BY <2>3, <2>4, SoundParts, SteeringSound, Zenon
  <2>. QED BY <1>2, <2>5, StaysSound, Zenon
<1>4. CASE RecStatus(rec) # "buffering"
  <2>1. rec' = FlushBuffer(all)
      BY <1>2, <1>4, Zenon
  <2>2. some \in SUBSET Sessions /\ rec.cared \subseteq some
      BY <1>1
  <2>3. held \in BOOLEAN
      OBVIOUS
  <2>4. rec.unloadShips => rec.fresh
      BY SoundParts, Zenon DEF Kept, Cared
  <2>5. ~held => rec.session \in some
    <3>1. CASE rec.hold
      <4>1. ~held => ships /\ rec.fresh
          BY <2>4, <3>1, Zenon
      <4>. HIDE DEF held, ships
      <4>. QED BY <4>1
    <3>2. CASE ~rec.hold
      <4>1. rec.session \in rec.cared
          BY <1>2, <3>2, SoundParts, Zenon DEF Kept, Cared
      <4>. HIDE DEF some
      <4>. QED BY <2>2, <4>1
    <3>. QED BY <3>1, <3>2
  <2>. HIDE DEF held, some
  <2>6. open \in Recorders
      BY <1>1, <2>2, <2>3, ZenonT(60) DEF Recorders
  <2>7. /\ open.session = rec.session /\ open.quiet = rec.quiet /\ open.live = rec.live
        /\ open.hold = held /\ open.hears = rec.hears
        /\ open.buffer = rec.buffer /\ open.queue = rec.queue /\ open.emitted = rec.emitted
        /\ open.shippedTo = rec.shippedTo /\ open.shipped = rec.shipped
        /\ open.idle = rec.idle /\ open.seen = rec.seen /\ open.cared = some
        /\ open.lastFull = rec.lastFull /\ open.fresh = rec.fresh
        /\ open.verdict = rec.verdict /\ open.healed = rec.healed
        /\ open.stopping = rec.stopping /\ open.unloadShips = rec.unloadShips
        /\ open.capturing = rec.capturing
      BY <1>1 DEF Recorders
  <2>. HIDE DEF open
  <2>8. Filed(open) /\ InOrder(open)
      BY <2>7, SoundParts, Zenon DEF Kept, Filed, InOrder
  <2>9. Cared(open)
    <3>1. \A s \in rec.shipped : s[1] = s[2] /\ s[1] \in some
        BY <2>2, SoundParts, Zenon DEF Kept, Cared
    <3>. QED BY <2>4, <2>5, <2>7, <3>1, Zenon DEF Cared
  <2>10. Steered(open)
      BY <2>7, SoundParts, Zenon DEF Kept, Steered
  <2>11. Kept(open) /\ Playable(open) /\ (open.live \/ open.stopping) /\ ~open.capturing
      BY <1>2, <2>6, <2>7, <2>8, <2>9, <2>10, SoundParts, Zenon
         DEF Kept, Playable, Incremental
  <2>12. Kept(all) /\ Playable(all) /\ Going(open, all)
      BY <2>11, CaptureAllKeeps, Zenon
  <2>. HIDE DEF all
  <2>13. Rests(all)
      BY <2>11, <2>12, Zenon DEF Rests, Going
  <2>14. Kept(rec') /\ Rests(rec') /\ Steering(all, rec') /\ Timely(rec') /\ Playable(rec')
      BY <2>1, <2>12, <2>13, FlushKeeps, Zenon
  <2>15. Sound(rec', currentSession)
      BY <2>7, <2>12, <2>14, SoundParts, Zenon DEF Sound, Steering, Going
  <2>. QED BY <1>2, <2>15, StaysSound, Zenon
<1>. QED BY <1>3, <1>4

\* So does the page becoming visible.
LEMMA VisibleSound ==
    ASSUME RecorderInv, BecomesVisible
    PROVE  RecorderInv'
<1>1. everVisible' = TRUE /\ currentSession' = currentSession /\ rec' = rec
    BY Zenon DEF BecomesVisible
<1>2. Sound(rec', currentSession') /\ currentSession' \in Sessions
    BY <1>1, SoundParts, Zenon
<1>3. everVisible' \in BOOLEAN
    BY <1>1
<1>. QED BY <1>2, <1>3, Zenon DEF RecorderInv

\* The invariant is inductive.
LEMMA RecorderNextInv == RecorderInv /\ [RecorderNext]_srVars => RecorderInv'
<1>. SUFFICES ASSUME RecorderInv, [RecorderNext]_srVars PROVE RecorderInv'
    OBVIOUS
<1>1. ASSUME NEW linked \in BOOLEAN, RotateSession(linked) PROVE RecorderInv'
    BY <1>1, RotateSound, Zenon
<1>2. ASSUME NEW linked \in BOOLEAN, EmitInteractionInNewSession(linked) PROVE RecorderInv'
    BY <1>2, InteractionElsewhereSound, Zenon
<1>3. CASE UNCHANGED srVars
  <2>1. currentSession' = currentSession /\ everVisible' = everVisible /\ rec' = rec
      BY <1>3 DEF srVars
  <2>. QED BY <2>1, Zenon DEF RecorderInv
<1>. QED BY <1>1, <1>2, <1>3, InteractionSound, MutationSound, SnapshotTimerSound, QuietSound,
            FlushTimerSound, CompressionSound, CompressionChangesSound, StopCompletesSound,
            StartSound, StopSound,
            DiscardSound, IdleResetSound, EventTriggerSound, UrlTriggerSound, OverrideSound,
            UnloadSound, VisibleSound, Zenon
         DEF RecorderNext

\* The invariant implies the property.
LEMMA SoundIsKept == RecorderInv => RecordingsAreKept /\ RecorderTypeOK
<1>. SUFFICES ASSUME RecorderInv PROVE RecordingsAreKept /\ RecorderTypeOK
    OBVIOUS
<1>. DEFINE b == rec.buffer.events
            t == rec.queue
            line == b \o t
<1>1. b \in Seq(RecEvent) /\ t \in Seq(RecEvent) /\ rec.shippedTo \in Nat
    BY SoundParts, RecorderFields
<1>2. /\ Len(b) \in Nat /\ Len(t) \in Nat
      /\ \A i \in 1..Len(b) : b[i].n \in Nat
      /\ \A i \in 1..Len(t) : t[i].n \in Nat
    BY <1>1, LineFields
<1>3. /\ DOMAIN line = 1..Len(b) + Len(t)
      /\ \A i \in 1..Len(b) + Len(t) : line[i] = IF i <= Len(b) THEN b[i] ELSE t[i - Len(b)]
  <2>1. /\ line \in Seq(RecEvent) /\ Len(line) = Len(b) + Len(t)
        /\ \A i \in 1..Len(b) + Len(t) : line[i] = IF i <= Len(b) THEN b[i] ELSE t[i - Len(b)]
      BY <1>1, ConcatProperties
  <2>. QED BY <2>1, LenProperties
<1>4. /\ Rising(b, rec.shippedTo, rec.emitted) /\ Rising(t, rec.shippedTo, rec.emitted)
      /\ \A i \in 1..Len(b), j \in 1..Len(t) : b[i].n <= t[j].n
    BY SoundParts, Zenon DEF Kept, InOrder
<1>. HIDE DEF line, b, t
<1>5. RecordedInOrder
  <2>1. SUFFICES ASSUME NEW i \in DOMAIN line
                 PROVE  line[i].n >= (IF i = 1 THEN rec.shippedTo ELSE line[i - 1].n)
      BY Zenon DEF RecordedInOrder, line, b, t
  <2>2. i \in 1..Len(b) + Len(t)
      BY <1>3, <2>1, Zenon
  <2>3. CASE i = 1
    <3>1. CASE i <= Len(b)
      <4>1. i \in 1..Len(b) /\ line[i] = b[i]
          BY <1>2, <1>3, <2>2, <3>1
      <4>2. rec.shippedTo <= b[i].n
          BY <1>4, <4>1, Zenon DEF Rising
      <4>. QED BY <1>1, <1>2, <2>3, <4>1, <4>2
    <3>2. CASE ~(i <= Len(b))
      <4>1. i - Len(b) \in 1..Len(t) /\ line[i] = t[i - Len(b)]
          BY <1>2, <1>3, <2>2, <3>2
      <4>2. rec.shippedTo <= t[i - Len(b)].n
          BY <1>4, <4>1, Zenon DEF Rising
      <4>. QED BY <1>1, <1>2, <2>3, <4>1, <4>2
    <3>. QED BY <3>1, <3>2
  <2>4. CASE i # 1
    <3>0. i - 1 \in 1..Len(b) + Len(t)
        BY <1>2, <2>2, <2>4
    <3>1. CASE i <= Len(b)
      <4>1. /\ i \in 1..Len(b) /\ i - 1 \in 1..Len(b) /\ i - 1 < i
            /\ line[i] = b[i] /\ line[i - 1] = b[i - 1]
          BY <1>2, <1>3, <2>2, <2>4, <3>0, <3>1
      <4>2. b[i - 1].n <= b[i].n
          BY <1>4, <4>1, Zenon DEF Rising
      <4>. QED BY <1>2, <2>4, <4>1, <4>2
    <3>2. CASE i = Len(b) + 1
      <4>1. /\ 1 \in 1..Len(t) /\ i - 1 \in 1..Len(b)
            /\ line[i] = t[1] /\ line[i - 1] = b[i - 1]
          BY <1>2, <1>3, <2>2, <2>4, <3>0, <3>2
      <4>2. b[i - 1].n <= t[1].n
          BY <1>4, <4>1, Zenon
      <4>. QED BY <1>2, <2>4, <4>1, <4>2
    <3>3. CASE i > Len(b) + 1
      <4>. DEFINE k == i - Len(b)
                  j == k - 1
      <4>1. /\ k \in 1..Len(t) /\ j \in 1..Len(t) /\ j < k
            /\ line[i] = t[k]
          BY <1>2, <1>3, <2>2, <3>3
      <4>2. line[i - 1] = t[j]
        <5>1. ~(i - 1 <= Len(b)) /\ i - 1 - Len(b) = j
            BY <1>2, <2>2, <3>3
        <5>. QED BY <1>3, <3>0, <5>1
      <4>. HIDE DEF k, j
      <4>3. t[j].n <= t[k].n
          BY <1>4, <4>1, Zenon DEF Rising
      <4>. QED BY <1>2, <2>4, <4>1, <4>2, <4>3
    <3>. QED BY <1>2, <2>2, <3>1, <3>2, <3>3
  <2>. QED BY <2>3, <2>4
<1>6. FiledRight /\ HeldUntilCared
    BY SoundParts, Zenon DEF FiledRight, HeldUntilCared, Kept, Cared
<1>7. HasIncremental <=> Incremental(rec)
  <2>1. DOMAIN b = 1..Len(b)
      BY <1>1, LenProperties
  <2>. QED BY <2>1, Zenon DEF HasIncremental, Incremental, b
<1>8. HealedWhenRotated /\ NothingWaitsForever
    BY <1>7, SoundParts, Zenon DEF HealedWhenRotated, NothingWaitsForever, Playable, Timely
<1>9. RecorderTypeOK
    BY SoundParts, Zenon DEF RecorderTypeOK
<1>. QED BY <1>5, <1>6, <1>7, <1>8, <1>9, Zenon
        DEF RecordingsAreKept, RecordingsAreWhole, HeldForAReason

\* What proves RecordingsAreKept always holds.
LEMMA RecorderAlwaysInv == RecorderSpec => []RecorderInv
BY RecorderInitInv, RecorderNextInv, PTL DEF RecorderSpec

\* The recorder, its buffer, its queue and what was decided stay within their types.
THEOREM RecorderTypes == RecorderSpec => []RecorderTypeOK
BY RecorderAlwaysInv, SoundIsKept, PTL

\* For any number of sessions and events and a buffer of any size, with and without
\* compression and when it changes: whatever rotates, stops, starts, idles, is held or
\* unloaded, what is sent is sent as captured, in the order of the calls that made it
\* (not within a call), and not before somebody cared; an epoch born of a rotation has
\* its full snapshot, if any was ever captured; and what may be sent will be.
THEOREM RecordingsAreKeptAlways == RecorderSpec => []RecordingsAreKept
BY RecorderAlwaysInv, SoundIsKept, PTL

===============================================================================
