------------------------- MODULE BrowserSenderProofs --------------------------
(* Proofs about BrowserSender, for any keys, retry counts and bounds.          *)
EXTENDS BrowserSender, FiniteSetTheorems, TLAPS

-------------------------------------------------------------------------------
(* Where events are.                                                           *)

In(rs, e) == \E r \in rs : e \in r.events

\* No two of the requests hold one event.
Apart(rs) == \A r, s \in rs : r # s => r.events \cap s.events = {}

\* Of the events captured up to c, those the page is not done with are each in
\* one place: the queue q, one request in flight, one waiting for its retry, or
\* one of those, rs, that are being handed to the browser.
OnePlace(q, ws, rs, c) ==
    /\ Apart(flying) /\ Apart(ws) /\ Apart(rs)
    /\ \A e \in Events :
         /\ ~(e \in q /\ In(flying, e)) /\ ~(e \in q /\ In(ws, e)) /\ ~(e \in q /\ In(rs, e))
         /\ ~(In(flying, e) /\ In(ws, e)) /\ ~(In(flying, e) /\ In(rs, e))
         /\ ~(In(ws, e) /\ In(rs, e))
         /\ (e \in q \/ In(flying, e) \/ In(ws, e) \/ In(rs, e))
              <=> (e <= c /\ fate[e] = "held")
         /\ e > c => fate[e] = "held"

\* Requests count the attempts made for their events; one in flight is itself an
\* attempt that its retries do not count yet.
Counted(q, ws, rs, c) ==
    /\ \A e \in Events :
         /\ attempts[e] <= MaxRetries + 1
         /\ fate[e] = "exhausted" => attempts[e] > MaxZeroRetries
         /\ e \in q \/ e > c => attempts[e] = 0
    /\ \A r \in flying : \A e \in r.events : attempts[e] = r.tries + 1
    /\ \A r \in ws \cup rs : \A e \in r.events : attempts[e] = r.tries

PlaceInv == OnePlace(queue, retries, {}, captured) /\ Counted(queue, retries, {}, captured)

\* Timers whose handle is overwritten are bounded by the starts; a page that
\* polls has its timeout running.
PollInv ==
    /\ leaked + startsLeft <= NumStarts
    /\ QueueIsTimed /\ RetriesArePolled
    /\ isPolling /\ ~escaped => poller

SenderInv == TypeOK /\ PlaceInv /\ PollInv

-------------------------------------------------------------------------------
(* Requests.                                                                   *)

LEMMA Constants ==
    /\ MaxZeroRetries \in Nat /\ MaxRetries \in Nat /\ MaxZeroRetries <= MaxRetries
    /\ NumEvents \in Nat /\ NumStarts \in Nat /\ NumUnloads \in Nat /\ NumOutages \in Nat
BY SenderConstants

LEMMA NewRequestType ==
    ASSUME NEW es \in SUBSET Events, NEW k \in Keys, NEW b \in BOOLEAN
    PROVE  /\ Request(es, k, b) \in Requests
           /\ Request(es, k, b).events = es /\ Request(es, k, b).tries = 0
BY Constants DEF Request, Requests

LEMMA RequestFields ==
    ASSUME NEW r \in Requests
    PROVE  /\ r.events \in SUBSET Events /\ r.tries \in 0..MaxRetries
           /\ r.tries \in Nat /\ r.tries <= MaxRetries
BY Constants DEF Requests

\* Setting a field of a request keeps its events.
LEMMA RequestUpdates ==
    ASSUME NEW r \in Requests
    PROVE  /\ \A b \in BOOLEAN : /\ [r EXCEPT !.due = b] \in Requests
                                 /\ [r EXCEPT !.due = b].events = r.events
                                 /\ [r EXCEPT !.due = b].tries = r.tries
                                 /\ [r EXCEPT !.beacon = b] \in Requests
                                 /\ [r EXCEPT !.beacon = b].events = r.events
                                 /\ [r EXCEPT !.beacon = b].tries = r.tries
BY DEF Requests

LEMMA RetriedRequest ==
    ASSUME NEW r \in Requests, r.tries < MaxRetries
    PROVE  LET s == [r EXCEPT !.tries = @ + 1, !.due = FALSE]
           IN  s \in Requests /\ s.events = r.events /\ s.tries = r.tries + 1
<1>1. r.tries + 1 \in 0..MaxRetries
    BY Constants DEF Requests
<1>. QED BY <1>1 DEF Requests

\* _formatQueue makes one request for each key, so every queued event is in one.
LEMMA BatchesApart ==
    ASSUME keyOf \in [Events -> Keys], NEW es \in SUBSET Events, NEW b \in BOOLEAN
    PROVE  /\ Batches(es, b) \subseteq Requests /\ Apart(Batches(es, b))
           /\ \A e \in Events : In(Batches(es, b), e) <=> e \in es
           /\ \A r \in Batches(es, b) : r.tries = 0 /\ r.beacon = b
<1>. DEFINE of(k) == Request({e \in es : keyOf[e] = k}, k, b)
<1>1. ASSUME NEW k \in Keys
      PROVE  /\ of(k) \in Requests /\ of(k).events = {e \in es : keyOf[e] = k}
             /\ of(k).tries = 0 /\ of(k).beacon = b
  <2>1. {e \in es : keyOf[e] = k} \in SUBSET Events
      OBVIOUS
  <2>. QED BY <2>1, NewRequestType DEF Request
<1>. HIDE DEF of
<1>2. Batches(es, b) = {of(k) : k \in {keyOf[e] : e \in es}}
    BY DEF Batches, of
<1>3. \A e \in es : keyOf[e] \in Keys
    OBVIOUS
<1>4. \A r \in Batches(es, b) : \E k \in Keys : r = of(k)
    BY <1>2, <1>3
<1>5. \A e \in es : of(keyOf[e]) \in Batches(es, b)
    BY <1>2
<1>6. Apart(Batches(es, b))
  <2>1. \A j, k \in Keys : j # k => of(j).events \cap of(k).events = {}
      BY <1>1
  <2>. QED BY <1>4, <2>1 DEF Apart
<1>7. \A e \in Events : In(Batches(es, b), e) <=> e \in es
    BY <1>1, <1>3, <1>4, <1>5 DEF In
<1>. QED BY <1>1, <1>4, <1>6, <1>7

-------------------------------------------------------------------------------
(* Handing requests to the browser.                                            *)

\* Every event of a request goes its way, and no other event is touched.
LEMMA HandEach ==
    ASSUME NEW rs \in SUBSET Requests, Apart(rs), NEW way, Hand(rs, way)
    PROVE  /\ \A e \in Events : ~In(rs, e) => fate'[e] = fate[e] /\ attempts'[e] = attempts[e]
           /\ \A r \in rs : \A e \in r.events :
                /\ fate'[e] = way[r]
                /\ attempts'[e] = IF way[r] # "dropped" THEN attempts[e] + 1 ELSE attempts[e]
<1>. DEFINE owner(e) == {r \in rs : e \in r.events}
<1>1. /\ fate' = [e \in Events |->
                    IF owner(e) = {} THEN fate[e] ELSE way[CHOOSE r \in owner(e) : TRUE]]
      /\ attempts' = [e \in Events |->
                    IF \E r \in owner(e) : way[r] # "dropped"
                    THEN attempts[e] + 1 ELSE attempts[e]]
    BY DEF Hand
<1>2. \A e \in Events : ~In(rs, e) => owner(e) = {}
    BY DEF In
<1>3. ASSUME NEW r \in rs, NEW e \in r.events
      PROVE  e \in Events /\ owner(e) = {r}
  <2>1. e \in Events
      BY RequestFields
  <2>. QED BY <2>1, <1>3 DEF Apart
<1>. HIDE DEF owner
<1>4. ASSUME NEW e \in Events, ~In(rs, e)
      PROVE  fate'[e] = fate[e] /\ attempts'[e] = attempts[e]
    BY <1>1, <1>2, <1>4
<1>5. ASSUME NEW r \in rs, NEW e \in r.events
      PROVE  /\ fate'[e] = way[r]
             /\ attempts'[e] = IF way[r] # "dropped" THEN attempts[e] + 1 ELSE attempts[e]
  <2>1. e \in Events /\ owner(e) = {r}
      BY <1>3
  <2>2. (CHOOSE s \in {r} : TRUE) = r
      OBVIOUS
  <2>. QED BY <1>1, <2>1, <2>2
<1>. QED BY <1>4, <1>5

\* What is handed on is in flight, if the browser has taken it without an answer,
\* or done with: the events are still each in one place, and counted.
LEMMA HandMoves ==
    ASSUME TypeOK, NEW q, NEW ws \in SUBSET Requests, NEW c \in 0..NumEvents,
           NEW rs \in SUBSET Requests, NEW way \in [rs -> Fates],
           \A r \in rs : way[r] # "exhausted",
           OnePlace(q, ws, rs, c), Counted(q, ws, rs, c), Hand(rs, way),
           queue' = q, retries' = ws, captured' = c
    PROVE  /\ PlaceInv'
           /\ flying' \subseteq Requests
           /\ fate' \in [Events -> Fates] /\ attempts' \in [Events -> Nat]
<1>. DEFINE held == {r \in rs : way[r] = "held"}
<1>1. flying' = flying \cup held
    BY DEF Hand
<1>2. /\ \A e \in Events : ~In(rs, e) => fate'[e] = fate[e] /\ attempts'[e] = attempts[e]
      /\ \A r \in rs : \A e \in r.events :
           /\ fate'[e] = way[r]
           /\ attempts'[e] = IF way[r] # "dropped" THEN attempts[e] + 1 ELSE attempts[e]
    BY HandEach DEF OnePlace
<1>3. \A r \in rs : r.events \in SUBSET Events /\ r.tries \in Nat /\ r.tries <= MaxRetries
    BY RequestFields
<1>4. \A e \in Events : fate[e] \in Fates /\ attempts[e] \in Nat /\ e \in Nat
    BY DEF TypeOK, Events
<1>5. MaxRetries \in Nat /\ MaxZeroRetries \in Nat /\ c \in Nat
    BY Constants
<1>6. ASSUME NEW e \in Events
      PROVE  /\ In(held, e) => In(rs, e)
             /\ In(flying', e) <=> In(flying, e) \/ In(held, e)
             /\ In(rs, e) => /\ fate'[e] = "held" <=> In(held, e)
                             /\ fate'[e] \in Fates /\ fate'[e] # "exhausted"
                             /\ attempts'[e] \in Nat /\ attempts'[e] <= MaxRetries + 1
  <2>1. In(held, e) => In(rs, e)
      BY DEF In
  <2>2. In(flying', e) <=> In(flying, e) \/ In(held, e)
      BY <1>1 DEF In
  <2>3. ASSUME In(rs, e)
        PROVE  /\ fate'[e] = "held" <=> In(held, e)
               /\ fate'[e] \in Fates /\ fate'[e] # "exhausted"
               /\ attempts'[e] \in Nat /\ attempts'[e] <= MaxRetries + 1
    <3>1. PICK r \in rs : e \in r.events
        BY <2>3 DEF In
    <3>2. fate'[e] = way[r] /\ way[r] \in Fates /\ way[r] # "exhausted"
        BY <1>2, <3>1
    <3>3. \A s \in rs : e \in s.events => s = r
        BY <3>1 DEF OnePlace, Apart
    <3>4. way[r] = "held" <=> In(held, e)
        BY <3>1, <3>3 DEF In
    <3>5. attempts[e] = r.tries
        BY <3>1 DEF Counted
    <3>6. attempts'[e] \in {r.tries, r.tries + 1}
        BY <1>2, <3>1, <3>5
    <3>. QED BY <1>3, <1>5, <3>2, <3>4, <3>6
  <2>. QED BY <2>1, <2>2, <2>3
<1>7. \A e \in Events : fate'[e] \in Fates /\ attempts'[e] \in Nat
    BY <1>2, <1>4, <1>6
<1>8. flying' \subseteq Requests
    BY <1>1 DEF TypeOK
<1>9. fate' \in [Events -> Fates] /\ attempts' \in [Events -> Nat]
    BY <1>7 DEF Hand
<1>10. Apart(flying')
  <2>1. ASSUME NEW r \in flying, NEW s \in held PROVE r.events \cap s.events = {}
    <3>1. ASSUME NEW e \in r.events, e \in s.events PROVE FALSE
      <4>1. e \in Events /\ s \in rs
          BY <1>3, <3>1
      <4>. QED BY <3>1, <4>1 DEF OnePlace, In
    <3>. QED BY <3>1
  <2>2. Apart(flying) /\ Apart(held)
      BY DEF OnePlace, Apart
  <2>. HIDE DEF held
  <2>. QED BY <1>1, <2>1, <2>2 DEF Apart
<1>. HIDE DEF held
<1>11. OnePlace(queue, retries, {}, captured)'
  <2>1. ASSUME NEW e \in Events
        PROVE  /\ ~(e \in q /\ In(flying', e)) /\ ~(e \in q /\ In(ws, e))
               /\ ~(In(flying', e) /\ In(ws, e))
               /\ (e \in q \/ In(flying', e) \/ In(ws, e))
                    <=> (e <= c /\ fate'[e] = "held")
               /\ e > c => fate'[e] = "held"
    <3>1. CASE In(rs, e)
      <4>1. e <= c /\ ~(e > c)
          BY <1>4, <1>5, <3>1 DEF OnePlace
      <4>. QED BY <1>6, <3>1, <4>1 DEF OnePlace
    <3>2. CASE ~In(rs, e)
        BY <1>2, <1>6, <3>2 DEF OnePlace
    <3>. QED BY <3>1, <3>2
  <2>2. Apart({}) /\ \A e \in Events : ~In({}, e)
      BY DEF Apart, In
  <2>3. Apart(ws)
      BY DEF OnePlace
  <2>. QED BY <1>10, <2>1, <2>2, <2>3 DEF OnePlace
<1>12. Counted(queue, retries, {}, captured)'
  <2>1. ASSUME NEW e \in Events
        PROVE  /\ attempts'[e] <= MaxRetries + 1
               /\ fate'[e] = "exhausted" => attempts'[e] > MaxZeroRetries
               /\ e \in q \/ e > c => attempts'[e] = 0
    <3>1. CASE In(rs, e)
      <4>1. e <= c /\ ~(e > c) /\ e \notin q
          BY <1>4, <1>5, <3>1 DEF OnePlace
      <4>. QED BY <1>6, <3>1, <4>1
    <3>2. CASE ~In(rs, e)
        BY <1>2, <3>2 DEF Counted
    <3>. QED BY <3>1, <3>2
  <2>2. ASSUME NEW r \in flying', NEW e \in r.events
        PROVE  attempts'[e] = r.tries + 1
    <3>1. CASE r \in flying
      <4>1. e \in Events
          BY <1>8, <2>2, RequestFields
      <4>2. ~In(rs, e)
          BY <3>1, <4>1 DEF OnePlace, In
      <4>. QED BY <1>2, <3>1, <4>1, <4>2 DEF Counted
    <3>2. CASE r \in held
      <4>1. r \in rs /\ way[r] # "dropped"
          BY <3>2 DEF held
      <4>. QED BY <1>2, <4>1 DEF Counted
    <3>. QED BY <1>1, <3>1, <3>2
  <2>3. ASSUME NEW r \in ws, NEW e \in r.events
        PROVE  attempts'[e] = r.tries
    <3>1. e \in Events
        BY RequestFields
    <3>2. ~In(rs, e)
        BY <3>1 DEF OnePlace, In
    <3>. QED BY <1>2, <3>1, <3>2 DEF Counted
  <2>. QED BY <2>1, <2>2, <2>3 DEF Counted
<1>. QED BY <1>8, <1>9, <1>11, <1>12 DEF PlaceInv

\* The same for requests that the RequestQueue or a caller hands on.
LEMMA SendMoves ==
    ASSUME TypeOK, NEW q, NEW ws \in SUBSET Requests, NEW c \in 0..NumEvents,
           NEW rs \in SUBSET Requests, OnePlace(q, ws, rs, c), Counted(q, ws, rs, c),
           Send(rs), queue' = q, retries' = ws, captured' = c
    PROVE  /\ PlaceInv'
           /\ flying' \subseteq Requests
           /\ fate' \in [Events -> Fates] /\ attempts' \in [Events -> Nat]
<1>1. PICK way \in [rs -> Fates] : (\A r \in rs : way[r] \in Ways(r)) /\ Hand(rs, way)
    BY DEF Send
<1>2. \A r \in rs : way[r] # "exhausted"
    BY <1>1 DEF Ways
<1>. QED BY <1>1, <1>2, HandMoves

\* The next event, sent at once, was nowhere before.
LEMMA SendNowMoves ==
    ASSUME TypeOK, PlaceInv, NEW b \in BOOLEAN, SendNow(b), UNCHANGED <<queue, retries>>
    PROVE  /\ PlaceInv' /\ captured' \in 0..NumEvents
           /\ flying' \subseteq Requests
           /\ fate' \in [Events -> Fates] /\ attempts' \in [Events -> Nat]
<1>. DEFINE e0 == captured + 1
            rs == {Request({e0}, keyOf[e0], b)}
<1>1. e0 \in Events /\ keyOf[e0] \in Keys /\ e0 \in 0..NumEvents /\ captured' = e0
    BY Constants DEF SendNow, TypeOK, Events
<1>2. /\ rs \subseteq Requests /\ Apart(rs) /\ \A x \in Events : In(rs, x) <=> x = e0
      /\ \A r \in rs : r.tries = 0 /\ r.events = {e0}
  <2>. DEFINE r0 == Request({e0}, keyOf[e0], b)
  <2>1. {e0} \in SUBSET Events
      BY <1>1
  <2>2. r0 \in Requests /\ r0.events = {e0} /\ r0.tries = 0
      BY <1>1, <2>1, NewRequestType
  <2>3. rs = {r0}
      OBVIOUS
  <2>. HIDE DEF r0, rs, e0
  <2>. QED BY <2>2, <2>3 DEF Apart, In
<1>3. Send(rs)
    BY DEF SendNow
<1>4. \A x \in Events : /\ x <= e0 <=> x <= captured \/ x = e0
                        /\ x > e0 => x > captured
    BY <1>1, Constants DEF TypeOK, Events
<1>5. e0 > captured /\ ~(e0 <= captured)
    BY Constants DEF TypeOK
<1>. HIDE DEF rs, e0
<1>6. OnePlace(queue, retries, rs, e0)
  <2>1. OnePlace(queue, retries, {}, captured)
      BY DEF PlaceInv
  <2>2. ASSUME NEW e \in Events
        PROVE  /\ ~(e \in queue /\ In(rs, e)) /\ ~(In(flying, e) /\ In(rs, e))
               /\ ~(In(retries, e) /\ In(rs, e))
               /\ (e \in queue \/ In(flying, e) \/ In(retries, e) \/ In(rs, e))
                    <=> (e <= e0 /\ fate[e] = "held")
               /\ e > e0 => fate[e] = "held"
    <3>1. CASE e = e0
      <4>1. fate[e] = "held" /\ ~(e \in queue) /\ ~In(flying, e) /\ ~In(retries, e)
          BY <1>5, <2>1, <3>1 DEF OnePlace
      <4>. QED BY <1>2, <1>4, <1>5, <3>1, <4>1
    <3>2. CASE e # e0
      <4>1. ~In(rs, e) /\ ~In({}, e)
          BY <1>2, <3>2 DEF In
      <4>. QED BY <1>4, <2>1, <3>2, <4>1 DEF OnePlace
    <3>. QED BY <3>1, <3>2
  <2>. QED BY <1>2, <2>1, <2>2 DEF OnePlace
<1>7. Counted(queue, retries, rs, e0)
    BY <1>1, <1>2, <1>4, <1>5 DEF PlaceInv, Counted
<1>. QED BY <1>1, <1>2, <1>3, <1>6, <1>7, SendMoves DEF TypeOK

\* A timer sends the whole queue, one request a key.
LEMMA TimerMoves ==
    ASSUME TypeOK, PlaceInv, NEW b \in BOOLEAN, Send(Batches(queue, b)), queue' = {},
           UNCHANGED <<retries, captured>>
    PROVE  /\ PlaceInv'
           /\ flying' \subseteq Requests
           /\ fate' \in [Events -> Fates] /\ attempts' \in [Events -> Nat]
<1>. DEFINE rs == Batches(queue, b)
<1>1. /\ rs \subseteq Requests /\ Apart(rs) /\ \A e \in Events : In(rs, e) <=> e \in queue
      /\ \A r \in rs : r.tries = 0
    BY BatchesApart DEF TypeOK
<1>2. Send(rs)
    OBVIOUS
<1>. HIDE DEF rs
<1>3. OnePlace({}, retries, rs, captured)
    BY <1>1 DEF PlaceInv, OnePlace, In
<1>4. Counted({}, retries, rs, captured)
  <2>1. \A r \in rs : \A e \in r.events : e \in queue
      BY <1>1, RequestFields DEF In
  <2>2. queue \subseteq Events
      BY DEF TypeOK
  <2>. QED BY <1>1, <2>1, <2>2 DEF PlaceInv, Counted
<1>. QED BY <1>1, <1>2, <1>3, <1>4, SendMoves DEF TypeOK

\* Retries that leave the queue to be sent are the same requests, with one field
\* of another value.
LEMMA RetriesMove ==
    ASSUME TypeOK, PlaceInv, NEW due \in SUBSET retries, NEW same \in [due -> Requests],
           \A r \in due : same[r].events = r.events /\ same[r].tries = r.tries,
           NEW q \in SUBSET Events, NEW rs \in SUBSET Requests, NEW c \in 0..NumEvents,
           OnePlace(q, retries, rs, c), Counted(q, retries, rs, c)
    PROVE  LET sent == {same[r] : r \in due}
           IN  /\ sent \in SUBSET Requests
               /\ OnePlace(q, retries \ due, rs \cup sent, c)
               /\ Counted(q, retries \ due, rs \cup sent, c)
<1>. DEFINE sent == {same[r] : r \in due}
<1>1. sent \in SUBSET Requests
    OBVIOUS
<1>2. \A s \in sent : \E r \in due : s.events = r.events /\ s.tries = r.tries
    OBVIOUS
<1>3. \A r \in due : \E s \in sent : s.events = r.events
    OBVIOUS
<1>4. Apart(sent)
  <2>1. \A r, s \in due : r # s => r.events \cap s.events = {}
      BY DEF PlaceInv, OnePlace, Apart
  <2>2. \A r, s \in due : same[r] # same[s] => same[r].events \cap same[s].events = {}
      BY <2>1
  <2>. QED BY <2>2 DEF Apart
<1>. HIDE DEF sent
<1>5. \A e \in Events : In(sent, e) <=> In(due, e)
    BY <1>2, <1>3 DEF In
<1>6. \A e \in Events : /\ In(retries, e) <=> In(retries \ due, e) \/ In(due, e)
                        /\ ~(In(retries \ due, e) /\ In(due, e))
  <2>1. ASSUME NEW e \in Events, In(retries \ due, e), In(due, e) PROVE FALSE
    <3>1. PICK r \in retries \ due : e \in r.events
        BY <2>1 DEF In
    <3>2. PICK s \in due : e \in s.events
        BY <2>1 DEF In
    <3>. QED BY <3>1, <3>2 DEF PlaceInv, OnePlace, Apart
  <2>2. \A e \in Events : In(retries, e) <=> In(retries \ due, e) \/ In(due, e)
      BY DEF In
  <2>. QED BY <2>1, <2>2
<1>7. \A e \in Events : In(rs \cup sent, e) <=> In(rs, e) \/ In(due, e)
    BY <1>5 DEF In
<1>8. Apart(rs \cup sent) /\ Apart(retries \ due)
  <2>1. ASSUME NEW r \in rs, NEW s \in sent PROVE r.events \cap s.events = {}
    <3>1. PICK t \in due : s.events = t.events
        BY <1>2
    <3>2. ASSUME NEW e \in r.events, e \in s.events PROVE FALSE
      <4>1. e \in Events
          BY RequestFields
      <4>2. In(rs, e) /\ In(retries, e)
          BY <3>1, <3>2 DEF In
      <4>. QED BY <4>1, <4>2 DEF OnePlace
    <3>. QED BY <3>2
  <2>2. Apart(rs) /\ Apart(retries)
      BY DEF OnePlace
  <2>. QED BY <1>4, <2>1, <2>2 DEF Apart
<1>9. OnePlace(q, retries \ due, rs \cup sent, c)
  <2>1. ASSUME NEW e \in Events
        PROVE  /\ ~(e \in q /\ In(flying, e)) /\ ~(e \in q /\ In(retries \ due, e))
               /\ ~(e \in q /\ In(rs \cup sent, e))
               /\ ~(In(flying, e) /\ In(retries \ due, e))
               /\ ~(In(flying, e) /\ In(rs \cup sent, e))
               /\ ~(In(retries \ due, e) /\ In(rs \cup sent, e))
               /\ (\/ e \in q \/ In(flying, e) \/ In(retries \ due, e)
                   \/ In(rs \cup sent, e))
                    <=> (e <= c /\ fate[e] = "held")
               /\ e > c => fate[e] = "held"
      BY <1>6, <1>7 DEF OnePlace
  <2>. QED BY <1>8, <2>1 DEF OnePlace
<1>10. Counted(q, retries \ due, rs \cup sent, c)
  <2>1. ASSUME NEW s \in sent, NEW e \in s.events PROVE attempts[e] = s.tries
    <3>1. PICK t \in due : s.events = t.events /\ s.tries = t.tries
        BY <1>2
    <3>. QED BY <3>1 DEF Counted
  <2>. QED BY <2>1 DEF Counted
<1>. QED BY <1>1, <1>9, <1>10 DEF sent

\* The due retries leave their queue before they are sent.
LEMMA FlushMoves ==
    ASSUME TypeOK, PlaceInv, Flush, UNCHANGED <<queue, captured>>
    PROVE  /\ PlaceInv' /\ retries' \subseteq retries
           /\ flying' \subseteq Requests
           /\ fate' \in [Events -> Fates] /\ attempts' \in [Events -> Nat]
<1>. DEFINE due == {r \in retries : r.due}
            same == [r \in due |-> [r EXCEPT !.due = FALSE]]
            sent == {same[r] : r \in due}
<1>1. retries \subseteq Requests /\ queue \in SUBSET Events /\ captured \in 0..NumEvents
    BY DEF TypeOK
<1>0. sent = {[r EXCEPT !.due = FALSE] : r \in due}
    OBVIOUS
<1>2. /\ retries' = retries \ due
      /\ \E way \in [sent -> Fates] :
           /\ \A r \in sent : way[r] \in Ways(r) \cup {"dropped"}
           /\ Hand(sent, way)
    BY <1>0 DEF Flush
<1>3. PICK way \in [sent -> Fates] :
        /\ \A r \in sent : way[r] \in Ways(r) \cup {"dropped"}
        /\ Hand(sent, way)
    BY <1>2
<1>4. \A r \in sent : way[r] # "exhausted"
    BY <1>3 DEF Ways
<1>5. due \in SUBSET retries /\ due \subseteq Requests
    BY <1>1
<1>6. /\ same \in [due -> Requests]
      /\ \A r \in due : same[r].events = r.events /\ same[r].tries = r.tries
    BY <1>5, RequestUpdates
<1>. HIDE DEF due, same
<1>7. OnePlace(queue, retries, {}, captured) /\ Counted(queue, retries, {}, captured)
    BY DEF PlaceInv
<1>8. /\ sent \in SUBSET Requests
      /\ OnePlace(queue, retries \ due, {} \cup sent, captured)
      /\ Counted(queue, retries \ due, {} \cup sent, captured)
  <2>1. {} \in SUBSET Requests
      OBVIOUS
  <2>. QED BY <1>1, <1>5, <1>6, <1>7, <2>1, RetriesMove
<1>. HIDE DEF sent
<1>9. {} \cup sent = sent /\ retries \ due \in SUBSET Requests
    BY <1>1
<1>10. OnePlace(queue, retries \ due, sent, captured)
       /\ Counted(queue, retries \ due, sent, captured)
    BY <1>8, <1>9
<1>11. Hand(sent, way) /\ retries' = retries \ due
    BY <1>2, <1>3
<1>. QED BY <1>1, <1>4, <1>8, <1>9, <1>10, <1>11, HandMoves

\* An unload hands on the queue, with the pageleave it may have captured, and then
\* every retry as a beacon.
LEMMA UnloadMoves ==
    ASSUME TypeOK, PlaceInv, NEW c \in 0..NumEvents, captured <= c,
           Unload(Batches(queue \cup ((captured + 1)..c), TRUE)), queue' = {}, captured' = c
    PROVE  /\ PlaceInv' /\ retries' = {}
           /\ flying' \subseteq Requests
           /\ fate' \in [Events -> Fates] /\ attempts' \in [Events -> Nat]
<1>. DEFINE es == queue \cup ((captured + 1)..c)
            rs == Batches(es, TRUE)
            same == [r \in retries |-> [r EXCEPT !.beacon = TRUE]]
            last == {same[r] : r \in retries}
<1>1. /\ captured \in Nat /\ c \in Nat /\ c <= NumEvents /\ NumEvents \in Nat
      /\ queue \in SUBSET Events /\ retries \in SUBSET Requests
    BY Constants DEF TypeOK
<1>2. \A e \in Events : e \in Nat /\ e >= 1
    BY <1>1 DEF Events
<1>3. \A e \in (captured + 1)..c : e \in Events /\ e > captured /\ e <= c
    BY <1>1 DEF Events
<1>4. es \in SUBSET Events
    BY <1>1, <1>3
<1>5. \A e \in Events : e \in es <=> e \in queue \/ (e > captured /\ e <= c)
    BY <1>1, <1>2
<1>6. /\ rs \in SUBSET Requests /\ Apart(rs) /\ \A e \in Events : In(rs, e) <=> e \in es
      /\ \A r \in rs : r.tries = 0
  <2>1. keyOf \in [Events -> Keys] /\ TRUE \in BOOLEAN
      BY DEF TypeOK
  <2>. HIDE DEF es
  <2>. QED BY <1>4, <2>1, BatchesApart
<1>7. Unload(rs)
    OBVIOUS
<1>. HIDE DEF es, rs
<1>8. OnePlace({}, retries, rs, c)
  <2>1. OnePlace(queue, retries, {}, captured)
      BY DEF PlaceInv
  <2>2. ASSUME NEW e \in Events
        PROVE  /\ ~(In(flying, e) /\ In(retries, e)) /\ ~(In(flying, e) /\ In(rs, e))
               /\ ~(In(retries, e) /\ In(rs, e))
               /\ (In(flying, e) \/ In(retries, e) \/ In(rs, e))
                    <=> (e <= c /\ fate[e] = "held")
               /\ e > c => fate[e] = "held"
    <3>1. CASE e <= captured
      <4>1. e <= c /\ ~(e > c) /\ ~(e > captured) /\ ~In({}, e)
          BY <1>1, <1>2, <3>1 DEF In
      <4>. QED BY <1>5, <1>6, <2>1, <3>1, <4>1 DEF OnePlace
    <3>2. CASE ~(e <= captured)
      <4>1. e > captured /\ (e > c <=> ~(e <= c))
          BY <1>1, <1>2, <3>2
      <4>2. fate[e] = "held" /\ e \notin queue /\ ~In(flying, e) /\ ~In(retries, e)
          BY <2>1, <3>2, <4>1 DEF OnePlace
      <4>. QED BY <1>5, <1>6, <4>1, <4>2
    <3>. QED BY <3>1, <3>2
  <2>. QED BY <1>6, <2>1, <2>2 DEF OnePlace
<1>9. Counted({}, retries, rs, c)
  <2>1. Counted(queue, retries, {}, captured)
      BY DEF PlaceInv
  <2>2. \A r \in rs : \A e \in r.events : e \in Events /\ e \in es
      BY <1>6, RequestFields DEF In
  <2>3. \A e \in Events : e > c => e > captured
      BY <1>1, <1>2
  <2>. QED BY <1>5, <1>6, <2>1, <2>2, <2>3 DEF Counted
<1>10. /\ same \in [retries -> Requests]
       /\ \A r \in retries : same[r].events = r.events /\ same[r].tries = r.tries
    BY <1>1, RequestUpdates
<1>11. last = {[r EXCEPT !.beacon = TRUE] : r \in retries}
    OBVIOUS
<1>. HIDE DEF same
<1>12. /\ last \in SUBSET Requests
       /\ OnePlace({}, retries \ retries, rs \cup last, c)
       /\ Counted({}, retries \ retries, rs \cup last, c)
  <2>1. retries \in SUBSET retries /\ {} \in SUBSET Events
      OBVIOUS
  <2>. QED BY <1>6, <1>8, <1>9, <1>10, <2>1, RetriesMove
<1>. HIDE DEF last
<1>13. PICK way \in [rs \cup last -> Fates] :
         /\ \A r \in rs : way[r] \in Ways(r)
         /\ \A r \in last \ rs : way[r] \in Ways(r) \ {"held"}
         /\ Hand(rs \cup last, way)
    BY <1>7, <1>11 DEF Unload
<1>14. \A r \in rs \cup last : way[r] # "exhausted"
    BY <1>13 DEF Ways
<1>15. retries' = {}
    BY <1>7 DEF Unload
<1>17. /\ retries \ retries = {} /\ {} \in SUBSET Requests
       /\ rs \cup last \in SUBSET Requests
    BY <1>6, <1>12
<1>. QED BY <1>12, <1>13, <1>14, <1>15, <1>17, HandMoves

-------------------------------------------------------------------------------
(* The other steps.                                                            *)

\* Steps that move no event.
LEMMA PlaceSame ==
    ASSUME PlaceInv, UNCHANGED <<queue, retries, flying, fate, attempts, captured>>
    PROVE  PlaceInv'
BY DEF PlaceInv, OnePlace, Counted

\* A captured event is queued, and was nowhere before.
LEMMA CaptureMoves ==
    ASSUME TypeOK, PlaceInv, Capture
    PROVE  PlaceInv'
<1>. DEFINE e0 == captured + 1
<1>1. /\ e0 \in Events /\ captured' = e0 /\ queue' = queue \cup {e0}
      /\ UNCHANGED <<retries, flying, fate, attempts>>
    BY Constants DEF Capture, TypeOK, Events
<1>2. \A x \in Events : /\ x <= e0 <=> x <= captured \/ x = e0
                        /\ x > e0 => x > captured
    BY <1>1, Constants DEF TypeOK, Events
<1>3. e0 > captured /\ ~(e0 <= captured) /\ ~(e0 > e0)
    BY Constants DEF TypeOK
<1>. HIDE DEF e0
<1>4. OnePlace(queue, retries, {}, captured) /\ Counted(queue, retries, {}, captured)
    BY DEF PlaceInv
<1>5. fate[e0] = "held" /\ attempts[e0] = 0 /\ ~In(flying, e0) /\ ~In(retries, e0)
    BY <1>1, <1>3, <1>4 DEF OnePlace, Counted
<1>6. OnePlace(queue \cup {e0}, retries, {}, e0)
  <2>1. \A e \in Events : ~In({}, e)
      BY DEF In
  <2>2. ASSUME NEW e \in Events
        PROVE  /\ ~(e \in queue \cup {e0} /\ In(flying, e))
               /\ ~(e \in queue \cup {e0} /\ In(retries, e))
               /\ (e \in queue \cup {e0} \/ In(flying, e) \/ In(retries, e))
                    <=> (e <= e0 /\ fate[e] = "held")
               /\ e > e0 => fate[e] = "held"
    <3>1. CASE e = e0
        BY <1>2, <1>5, <3>1
    <3>2. CASE e # e0
        BY <1>2, <1>4, <2>1, <3>2 DEF OnePlace
    <3>. QED BY <3>1, <3>2
  <2>. QED BY <1>4, <2>1, <2>2 DEF OnePlace
<1>7. Counted(queue \cup {e0}, retries, {}, e0)
    BY <1>2, <1>4, <1>5 DEF Counted
<1>. QED BY <1>1, <1>6, <1>7 DEF PlaceInv, OnePlace, Counted

\* An answered request has left the requests in flight.
LEMMA FlightEnds ==
    ASSUME TypeOK, PlaceInv, NEW r \in flying
    PROVE  /\ Apart(flying \ {r})
           /\ \A e \in Events :
                /\ In(flying, e) <=> In(flying \ {r}, e) \/ e \in r.events
                /\ ~(In(flying \ {r}, e) /\ e \in r.events)
BY DEF PlaceInv, OnePlace, Apart, In

LEMMA AnswerMoves ==
    ASSUME TypeOK, PlaceInv, NEW r \in flying, Answer(r)
    PROVE  PlaceInv' /\ retries' \subseteq Requests /\ fate' \in [Events -> Fates]
<1>. DEFINE s == [r EXCEPT !.tries = @ + 1, !.due = FALSE]
<1>1. /\ r \in Requests /\ r.events \in SUBSET Events /\ r.tries \in Nat
      /\ retries \subseteq Requests /\ fate \in [Events -> Fates]
    BY RequestFields DEF TypeOK
<1>2. /\ flying' = flying \ {r} /\ UNCHANGED <<queue, captured, attempts>>
    BY DEF Answer, requestQueue
<1>3. PICK status \in {"final", "server", "zero"} :
        IF status # "final" /\ MayRetry(r, status)
        THEN EnqueueRetry(r) /\ UNCHANGED fate
        ELSE /\ Settle(r, IF status = "final" THEN "sent" ELSE "exhausted")
             /\ UNCHANGED <<retries, polling>>
    BY DEF Answer
<1>4. /\ Apart(flying \ {r})
      /\ \A e \in Events :
           /\ In(flying, e) <=> In(flying \ {r}, e) \/ e \in r.events
           /\ ~(In(flying \ {r}, e) /\ e \in r.events)
    BY FlightEnds
<1>5. OnePlace(queue, retries, {}, captured) /\ Counted(queue, retries, {}, captured)
    BY DEF PlaceInv
<1>6. \A e \in r.events : e \in Events /\ attempts[e] = r.tries + 1 /\ In(flying, e)
    BY <1>1, <1>5 DEF Counted, In
<1>7. CASE status # "final" /\ MayRetry(r, status)
  <2>1. r.tries < MaxRetries
      BY <1>1, <1>7, Constants DEF MayRetry
  <2>2. s \in Requests /\ s.events = r.events /\ s.tries = r.tries + 1
      BY <1>1, <2>1, RetriedRequest
  <2>3. retries' = retries \cup {s} /\ fate' = fate
      BY <1>3, <1>7 DEF EnqueueRetry
  <2>. HIDE DEF s
  <2>4. \A e \in Events : In(retries \cup {s}, e) <=> In(retries, e) \/ e \in r.events
      BY <2>2 DEF In
  <2>5. Apart(retries \cup {s})
    <3>1. \A t \in retries : t.events \cap s.events = {}
      <4>1. ASSUME NEW t \in retries, NEW e \in t.events, e \in s.events PROVE FALSE
          BY <1>5, <1>6, <2>2, <4>1 DEF OnePlace, In
      <4>. QED BY <4>1
    <3>. QED BY <1>5, <3>1 DEF OnePlace, Apart
  <2>6. OnePlace(queue, retries \cup {s}, {}, captured)'
    <3>1. ASSUME NEW e \in Events
          PROVE  /\ ~(e \in queue /\ In(flying \ {r}, e))
                 /\ ~(e \in queue /\ In(retries \cup {s}, e))
                 /\ ~(In(flying \ {r}, e) /\ In(retries \cup {s}, e))
                 /\ (e \in queue \/ In(flying \ {r}, e) \/ In(retries \cup {s}, e))
                      <=> (e <= captured /\ fate[e] = "held")
                 /\ e > captured => fate[e] = "held"
                 /\ ~In({}, e)
      <4>1. ~In({}, e)
          BY DEF In
      <4>. QED BY <1>4, <1>5, <2>4, <4>1 DEF OnePlace
    <3>. QED BY <1>2, <1>4, <1>5, <2>3, <2>5, <3>1 DEF OnePlace
  <2>7. Counted(queue, retries \cup {s}, {}, captured)'
      BY <1>2, <1>5, <1>6, <2>2, <2>3 DEF Counted
  <2>. QED BY <1>1, <2>2, <2>3, <2>6, <2>7 DEF PlaceInv
<1>8. CASE ~(status # "final" /\ MayRetry(r, status))
  <2>. DEFINE f == IF status = "final" THEN "sent" ELSE "exhausted"
  <2>1. /\ fate' = [e \in Events |-> IF e \in r.events THEN f ELSE fate[e]]
        /\ retries' = retries
      BY <1>3, <1>8 DEF Settle
  <2>2. f \in Fates /\ f # "held"
      BY DEF Fates
  <2>3. f = "exhausted" => r.tries + 1 > MaxZeroRetries
    <3>1. ASSUME f = "exhausted" PROVE r.tries + 1 > MaxZeroRetries
      <4>1. status \in {"server", "zero"} /\ ~MayRetry(r, status)
          BY <1>3, <1>8, <3>1
      <4>. QED BY <1>1, <4>1, Constants DEF MayRetry
    <3>. QED BY <3>1
  <2>. HIDE DEF f
  <2>4. fate' \in [Events -> Fates]
      BY <1>1, <2>1, <2>2
  <2>5. \A e \in Events : fate'[e] = IF e \in r.events THEN f ELSE fate[e]
      BY <2>1
  <2>6. OnePlace(queue, retries, {}, captured)'
    <3>1. ASSUME NEW e \in Events
          PROVE  /\ ~(e \in queue /\ In(flying \ {r}, e)) /\ ~(e \in queue /\ In(retries, e))
                 /\ ~(In(flying \ {r}, e) /\ In(retries, e))
                 /\ (e \in queue \/ In(flying \ {r}, e) \/ In(retries, e))
                      <=> (e <= captured /\ fate'[e] = "held")
                 /\ e > captured => fate'[e] = "held"
                 /\ ~In({}, e)
      <4>1. ~In({}, e)
          BY DEF In
      <4>2. e <= captured <=> ~(e > captured)
          BY DEF TypeOK, Events
      <4>3. CASE e \in r.events
          BY <1>4, <1>5, <2>2, <2>5, <4>1, <4>2, <4>3 DEF OnePlace
      <4>4. CASE e \notin r.events
          BY <1>4, <1>5, <2>5, <4>1, <4>4 DEF OnePlace
      <4>. QED BY <4>3, <4>4
    <3>. QED BY <1>2, <1>4, <1>5, <2>1, <3>1 DEF OnePlace
  <2>7. Counted(queue, retries, {}, captured)'
      BY <1>2, <1>5, <1>6, <2>1, <2>3, <2>5 DEF Counted
  <2>. QED BY <1>1, <2>1, <2>4, <2>6, <2>7 DEF PlaceInv
<1>. QED BY <1>7, <1>8

\* A request that becomes due stays in the queue of retries.
LEMMA DueMoves ==
    ASSUME TypeOK, PlaceInv, NEW r \in retries, Due(r)
    PROVE  PlaceInv' /\ retries' \subseteq Requests /\ retries' # {}
<1>. DEFINE s == [r EXCEPT !.due = TRUE]
            ws == (retries \ {r}) \cup {s}
<1>1. /\ r \in Requests /\ s \in Requests /\ s.events = r.events /\ s.tries = r.tries
      /\ retries \subseteq Requests
    BY RequestUpdates DEF TypeOK
<1>2. retries' = ws /\ UNCHANGED <<queue, captured, flying, fate, attempts>>
    BY DEF Due, requestQueue
<1>. HIDE DEF s
<1>3. \A t \in ws : \E u \in retries : t.events = u.events /\ t.tries = u.tries
    BY <1>1
<1>4. \A e \in Events : In(ws, e) <=> In(retries, e)
    BY <1>1 DEF In
<1>5. OnePlace(queue, retries, {}, captured) /\ Counted(queue, retries, {}, captured)
    BY DEF PlaceInv
<1>6. Apart(ws)
    BY <1>1, <1>5 DEF OnePlace, Apart
<1>7. ws \subseteq Requests /\ ws # {}
    BY <1>1
<1>. HIDE DEF ws
<1>8. OnePlace(queue, ws, {}, captured)
    BY <1>4, <1>5, <1>6 DEF OnePlace
<1>9. Counted(queue, ws, {}, captured)
  <2>1. ASSUME NEW t \in ws, NEW e \in t.events PROVE attempts[e] = t.tries
    <3>1. PICK u \in retries : t.events = u.events /\ t.tries = u.tries
        BY <1>3
    <3>. QED BY <1>5, <3>1 DEF Counted
  <2>. QED BY <1>5, <2>1 DEF Counted
<1>. QED BY <1>2, <1>7, <1>8, <1>9 DEF PlaceInv, OnePlace, Counted

-------------------------------------------------------------------------------
(* Every step keeps the invariant.                                             *)

LEMMA SenderInit == Init => SenderInv
<1>. SUFFICES ASSUME Init PROVE SenderInv
    OBVIOUS
<1>1. TypeOK
  <2>1. /\ fate \in [Events -> Fates] /\ attempts \in [Events -> Nat]
      BY DEF Init, Fates
  <2>2. /\ captured \in 0..NumEvents /\ leaked \in 0..NumStarts
        /\ startsLeft \in 0..NumStarts /\ unloadsLeft \in 0..NumUnloads
        /\ outagesLeft \in 0..NumOutages
      BY Constants DEF Init
  <2>3. /\ paused \in BOOLEAN /\ timer \in BOOLEAN /\ isPolling \in BOOLEAN
        /\ poller \in BOOLEAN /\ areWeOnline \in BOOLEAN /\ listening \in BOOLEAN
        /\ online \in BOOLEAN /\ escaped \in BOOLEAN /\ batching \in BOOLEAN
        /\ capturing \in BOOLEAN
      BY DEF Init
  <2>. QED BY <2>1, <2>2, <2>3 DEF Init, TypeOK
<1>2. \A e \in Events : ~(e <= 0) /\ e > 0
    BY Constants DEF Events
<1>3. PlaceInv
    BY <1>2, Constants DEF Init, PlaceInv, OnePlace, Counted, Apart, In
<1>4. PollInv
    BY Constants DEF Init, PollInv, QueueIsTimed, RetriesArePolled
<1>. QED BY <1>1, <1>3, <1>4 DEF SenderInv

\* Starting the queue, which may leave a timer running without its handle.
LEMMA EnableKeeps ==
    ASSUME TypeOK, PollInv, Enable, UNCHANGED <<retries, polling, escaped>>
    PROVE  /\ PollInv' /\ queue' = queue
           /\ paused' \in BOOLEAN /\ timer' \in BOOLEAN
           /\ leaked' \in 0..NumStarts /\ startsLeft' \in 0..NumStarts
<1>1. /\ startsLeft > 0 /\ startsLeft' = startsLeft - 1
      /\ leaked' \in {leaked, leaked + 1}
      /\ paused' = FALSE /\ timer' = TRUE /\ queue' = queue
    BY DEF Enable
<1>2. startsLeft \in Nat /\ leaked \in Nat /\ NumStarts \in Nat
    BY Constants DEF TypeOK
<1>3. leaked' \in 0..NumStarts /\ startsLeft' \in 0..NumStarts
    BY <1>1, <1>2 DEF PollInv
<1>4. leaked' + startsLeft' <= NumStarts
  <2>1. leaked + startsLeft <= NumStarts
      BY DEF PollInv
  <2>2. CASE leaked' = leaked + 1
    <3>1. leaked' + startsLeft' = (leaked + 1) + (startsLeft - 1)
        BY <1>1, <2>2
    <3>2. (leaked + 1) + (startsLeft - 1) <= NumStarts
        BY <1>2, <2>1
    <3>. QED BY <3>1, <3>2
  <2>3. CASE leaked' = leaked
    <3>1. leaked' + startsLeft' = leaked + (startsLeft - 1)
        BY <1>1, <2>3
    <3>2. leaked + (startsLeft - 1) <= NumStarts
        BY <1>2, <2>1
    <3>. QED BY <3>1, <3>2
  <2>. QED BY <1>1, <2>2, <2>3
<1>5. PollInv'
    BY <1>1, <1>4 DEF PollInv, QueueIsTimed, RetriesArePolled, polling
<1>. QED BY <1>1, <1>3, <1>5

\* Steps on the requests in flight and on the browser leave the timers alone.
LEMMA PollSame ==
    ASSUME PollInv, UNCHANGED <<requestQueue, polling, escaped>>,
           retries' = retries \/ retries # {} \/ retries' = {}
    PROVE  PollInv'
BY DEF PollInv, QueueIsTimed, RetriesArePolled, requestQueue, polling

LEMMA CaptureKeeps ==
    ASSUME SenderInv, Capture
    PROVE  SenderInv'
<1>1. TypeOK /\ PlaceInv /\ PollInv
    BY DEF SenderInv
<1>2. TypeOK'
    BY <1>1, Constants DEF Capture, TypeOK, Events, config, polling, network
<1>3. PollInv'
    BY <1>1 DEF Capture, PollInv, QueueIsTimed, RetriesArePolled, polling
<1>. QED BY <1>1, <1>2, <1>3, CaptureMoves DEF SenderInv

LEMMA CaptureNowKeeps ==
    ASSUME SenderInv, CaptureNow
    PROVE  SenderInv'
<1>1. TypeOK /\ PlaceInv /\ PollInv
    BY DEF SenderInv
<1>2. /\ PlaceInv' /\ captured' \in 0..NumEvents /\ flying' \subseteq Requests
      /\ fate' \in [Events -> Fates] /\ attempts' \in [Events -> Nat]
    BY <1>1, SendNowMoves DEF CaptureNow, requestQueue
<1>3. TypeOK'
    BY <1>1, <1>2 DEF CaptureNow, TypeOK, config, requestQueue, polling, network
<1>4. PollInv'
    BY <1>1, PollSame DEF CaptureNow
<1>. QED BY <1>2, <1>3, <1>4 DEF SenderInv

LEMMA StartKeeps ==
    ASSUME SenderInv, Start
    PROVE  SenderInv'
<1>1. TypeOK /\ PlaceInv /\ PollInv
    BY DEF SenderInv
<1>2. /\ PollInv' /\ queue' = queue /\ paused' \in BOOLEAN /\ timer' \in BOOLEAN
      /\ leaked' \in 0..NumStarts /\ startsLeft' \in 0..NumStarts
    BY <1>1, EnableKeeps DEF Start
<1>3. TypeOK'
    BY <1>1, <1>2 DEF Start, TypeOK, config, polling, network
<1>4. PlaceInv'
    BY <1>1, <1>2, PlaceSame DEF Start
<1>. QED BY <1>2, <1>3, <1>4 DEF SenderInv

LEMMA StartCapturingKeeps ==
    ASSUME SenderInv, StartCapturing
    PROVE  SenderInv'
<1>1. TypeOK /\ PlaceInv /\ PollInv
    BY DEF SenderInv
<1>2. UNCHANGED <<config, retries, polling, network, limited, unloadsLeft, escaped>>
    BY DEF StartCapturing
<1>3. /\ PollInv' /\ queue' = queue /\ paused' \in BOOLEAN /\ timer' \in BOOLEAN
      /\ leaked' \in 0..NumStarts /\ startsLeft' \in 0..NumStarts
  <2>1. CASE batching
      BY <1>1, <1>2, <2>1, EnableKeeps DEF StartCapturing
  <2>2. CASE ~batching
    <3>1. UNCHANGED requestQueue
        BY <2>2 DEF StartCapturing
    <3>2. PollInv'
        BY <1>1, <1>2, <3>1, PollSame
    <3>. QED BY <1>1, <3>1, <3>2 DEF TypeOK, requestQueue
  <2>. QED BY <2>1, <2>2
<1>4. /\ PlaceInv' /\ captured' \in 0..NumEvents /\ flying' \subseteq Requests
      /\ fate' \in [Events -> Fates] /\ attempts' \in [Events -> Nat]
  <2>1. CASE SendNow(FALSE)
      BY <1>1, <1>2, <1>3, <2>1, SendNowMoves
  <2>2. CASE UNCHANGED <<captured, flying, fate, attempts>>
      BY <1>1, <1>2, <1>3, <2>2, PlaceSame DEF TypeOK
  <2>. QED BY <2>1, <2>2 DEF StartCapturing
<1>5. TypeOK'
    BY <1>1, <1>2, <1>3, <1>4 DEF StartCapturing, TypeOK, config, polling, network
<1>. QED BY <1>3, <1>4, <1>5 DEF SenderInv

LEMMA StopCapturingKeeps ==
    ASSUME SenderInv, StopCapturing
    PROVE  SenderInv'
<1>1. TypeOK /\ PlaceInv /\ PollInv
    BY DEF SenderInv
<1>2. TypeOK'
    BY <1>1 DEF StopCapturing, TypeOK, config, requestQueue, polling, network
<1>3. PlaceInv' /\ PollInv'
    BY <1>1, PlaceSame, PollSame DEF StopCapturing, requestQueue
<1>. QED BY <1>2, <1>3 DEF SenderInv

LEMMA TimerFiresKeeps ==
    ASSUME SenderInv, TimerFires
    PROVE  SenderInv'
<1>1. TypeOK /\ PlaceInv /\ PollInv
    BY DEF SenderInv
<1>2. /\ PlaceInv' /\ flying' \subseteq Requests
      /\ fate' \in [Events -> Fates] /\ attempts' \in [Events -> Nat]
  <2>1. FALSE \in BOOLEAN
      OBVIOUS
  <2>. QED BY <1>1, <2>1, TimerMoves DEF TimerFires
<1>3. leaked' \in 0..NumStarts /\ leaked' + startsLeft <= NumStarts
    BY <1>1, Constants DEF TimerFires, TypeOK, PollInv
<1>4. TypeOK'
    BY <1>1, <1>2, <1>3 DEF TimerFires, TypeOK, config, polling, network
<1>5. PollInv'
    BY <1>1, <1>3 DEF TimerFires, PollInv, QueueIsTimed, RetriesArePolled, polling
<1>. QED BY <1>2, <1>4, <1>5 DEF SenderInv

LEMMA PollFiresKeeps ==
    ASSUME SenderInv, PollFires
    PROVE  SenderInv'
<1>1. TypeOK /\ PlaceInv /\ PollInv
    BY DEF SenderInv
<1>2. UNCHANGED <<config, capturing, captured, requestQueue, network, limited, unloadsLeft>>
    BY DEF PollFires
<1>3. /\ PlaceInv' /\ retries' \subseteq retries /\ flying' \subseteq Requests
      /\ fate' \in [Events -> Fates] /\ attempts' \in [Events -> Nat]
  <2>1. CASE Flush
      BY <1>1, <1>2, <2>1, FlushMoves DEF requestQueue
  <2>2. CASE NoFlush
      BY <1>1, <1>2, <2>2, PlaceSame DEF NoFlush, requestQueue, TypeOK
  <2>. QED BY <2>1, <2>2 DEF PollFires
<1>4. \/ escaped' = TRUE /\ poller' = FALSE /\ UNCHANGED isPolling
      \/ /\ poller' = (retries' # {}) /\ isPolling' = (retries' # {})
         /\ UNCHANGED escaped
    BY DEF PollFires
<1>5. TypeOK'
    BY <1>1, <1>2, <1>3, <1>4 DEF TypeOK, config, requestQueue, network
<1>6. PollInv'
    BY <1>1, <1>2, <1>4 DEF PollInv, QueueIsTimed, RetriesArePolled, requestQueue
<1>. QED BY <1>3, <1>5, <1>6 DEF SenderInv

LEMMA AnswerKeeps ==
    ASSUME SenderInv, NEW r \in flying, Answer(r)
    PROVE  SenderInv'
<1>1. TypeOK /\ PlaceInv /\ PollInv
    BY DEF SenderInv
<1>2. PlaceInv' /\ retries' \subseteq Requests /\ fate' \in [Events -> Fates]
    BY <1>1, AnswerMoves
<1>3. /\ flying' = flying \ {r}
      /\ UNCHANGED <<config, capturing, captured, requestQueue, network, unloadsLeft,
                     attempts, escaped>>
      /\ limited' \subseteq Keys
      /\ \/ isPolling' = TRUE /\ poller' = (poller \/ ~isPolling)
         \/ UNCHANGED <<retries, polling>>
    BY <1>1 DEF Answer, EnqueueRetry, TypeOK
<1>4. TypeOK'
    BY <1>1, <1>2, <1>3 DEF TypeOK, config, requestQueue, polling, network
<1>5. PollInv'
  <2>1. CASE isPolling' = TRUE /\ poller' = (poller \/ ~isPolling)
    <3>1. poller \in BOOLEAN /\ isPolling \in BOOLEAN
        BY <1>1 DEF TypeOK
    <3>2. ~escaped' => poller'
        BY <1>1, <1>3, <2>1, <3>1 DEF PollInv
    <3>. QED BY <1>1, <1>3, <3>2 DEF PollInv, QueueIsTimed, RetriesArePolled, requestQueue
  <2>2. CASE UNCHANGED <<retries, polling>>
      BY <1>1, <1>3, <2>2, PollSame
  <2>. QED BY <1>3, <2>1, <2>2
<1>. QED BY <1>2, <1>4, <1>5 DEF SenderInv

LEMMA DueKeeps ==
    ASSUME SenderInv, NEW r \in retries, Due(r)
    PROVE  SenderInv'
<1>1. TypeOK /\ PlaceInv /\ PollInv
    BY DEF SenderInv
<1>2. PlaceInv' /\ retries' \subseteq Requests
    BY <1>1, DueMoves
<1>3. TypeOK'
    BY <1>1, <1>2 DEF Due, TypeOK, config, requestQueue, polling, network
<1>4. PollInv'
    BY <1>1, PollSame DEF Due
<1>. QED BY <1>2, <1>3, <1>4 DEF SenderInv

LEMMA GoOnlineKeeps ==
    ASSUME SenderInv, GoOnline
    PROVE  SenderInv'
<1>1. TypeOK /\ PlaceInv /\ PollInv
    BY DEF SenderInv
<1>2. /\ online' = TRUE /\ areWeOnline' = (areWeOnline \/ listening)
      /\ UNCHANGED <<config, capturing, captured, requestQueue, polling, listening,
                     outagesLeft, limited, unloadsLeft, escaped>>
    BY DEF GoOnline
<1>3. /\ PlaceInv' /\ retries' \subseteq retries /\ flying' \subseteq Requests
      /\ fate' \in [Events -> Fates] /\ attempts' \in [Events -> Nat]
  <2>1. CASE Flush
      BY <1>1, <1>2, <2>1, FlushMoves DEF requestQueue
  <2>2. CASE NoFlush
      BY <1>1, <1>2, <2>2, PlaceSame DEF NoFlush, requestQueue, TypeOK
  <2>. QED BY <2>1, <2>2 DEF GoOnline
<1>4. TypeOK'
    BY <1>1, <1>2, <1>3 DEF TypeOK, config, requestQueue, polling
<1>5. PollInv'
    BY <1>1, <1>2, <1>3, PollSame
<1>. QED BY <1>3, <1>4, <1>5 DEF SenderInv

LEMMA GoOfflineKeeps ==
    ASSUME SenderInv, GoOffline
    PROVE  SenderInv'
<1>1. TypeOK /\ PlaceInv /\ PollInv
    BY DEF SenderInv
<1>2. TypeOK'
  <2>1. outagesLeft' \in 0..NumOutages
      BY <1>1, Constants DEF GoOffline, TypeOK
  <2>2. areWeOnline' \in BOOLEAN /\ online' \in BOOLEAN
      BY DEF GoOffline
  <2>. QED BY <1>1, <2>1, <2>2 DEF GoOffline, TypeOK, config, requestQueue, polling
<1>3. PlaceInv' /\ PollInv'
    BY <1>1, PlaceSame, PollSame DEF GoOffline, requestQueue
<1>. QED BY <1>2, <1>3 DEF SenderInv

LEMMA LimitExpiresKeeps ==
    ASSUME SenderInv, NEW k \in limited, LimitExpires(k)
    PROVE  SenderInv'
<1>1. TypeOK /\ PlaceInv /\ PollInv
    BY DEF SenderInv
<1>2. TypeOK'
    BY <1>1 DEF LimitExpires, TypeOK, config, requestQueue, polling, network
<1>3. PlaceInv' /\ PollInv'
    BY <1>1, PlaceSame, PollSame DEF LimitExpires, requestQueue
<1>. QED BY <1>2, <1>3 DEF SenderInv

LEMMA UnloadPageKeeps ==
    ASSUME SenderInv, UnloadPage
    PROVE  SenderInv'
<1>1. TypeOK /\ PlaceInv /\ PollInv
    BY DEF SenderInv
<1>2. captured' \in 0..NumEvents /\ captured <= captured'
    BY <1>1, Constants DEF UnloadPage, TypeOK
<1>3. /\ PlaceInv' /\ retries' = {} /\ flying' \subseteq Requests
      /\ fate' \in [Events -> Fates] /\ attempts' \in [Events -> Nat]
  <2>1. Unload(Batches(queue \cup ((captured + 1)..captured'), TRUE)) /\ queue' = {}
      BY DEF UnloadPage
  <2>. QED BY <1>1, <1>2, <2>1, UnloadMoves
<1>4. /\ isPolling' = FALSE /\ poller' = FALSE /\ listening' = FALSE
      /\ queue' = {} /\ timer' = FALSE
      /\ unloadsLeft > 0 /\ unloadsLeft' = unloadsLeft - 1
      /\ UNCHANGED <<config, capturing, paused, leaked, startsLeft, online, areWeOnline,
                     outagesLeft, limited, escaped>>
    BY DEF UnloadPage, Unload
<1>5. TypeOK'
  <2>1. unloadsLeft' \in 0..NumUnloads
      BY <1>1, <1>4, Constants DEF TypeOK
  <2>2. /\ isPolling' \in BOOLEAN /\ poller' \in BOOLEAN /\ listening' \in BOOLEAN
        /\ timer' \in BOOLEAN
      BY <1>4
  <2>3. queue' \subseteq Events /\ retries' \subseteq Requests
      BY <1>3, <1>4
  <2>. QED BY <1>1, <1>2, <1>3, <1>4, <2>1, <2>2, <2>3 DEF TypeOK, config
<1>6. PollInv'
    BY <1>1, <1>3, <1>4 DEF PollInv, QueueIsTimed, RetriesArePolled
<1>. QED BY <1>3, <1>5, <1>6 DEF SenderInv

LEMMA UnloadUnbatchedKeeps ==
    ASSUME SenderInv, UnloadUnbatched
    PROVE  SenderInv'
<1>1. TypeOK /\ PlaceInv /\ PollInv
    BY DEF SenderInv
<1>2. /\ PlaceInv' /\ captured' \in 0..NumEvents /\ flying' \subseteq Requests
      /\ fate' \in [Events -> Fates] /\ attempts' \in [Events -> Nat]
  <2>1. TRUE \in BOOLEAN
      OBVIOUS
  <2>. QED BY <1>1, <2>1, SendNowMoves DEF UnloadUnbatched, requestQueue
<1>3. TypeOK'
    BY <1>1, <1>2, Constants
       DEF UnloadUnbatched, TypeOK, config, requestQueue, polling, network
<1>4. PollInv'
    BY <1>1, PollSame DEF UnloadUnbatched
<1>. QED BY <1>2, <1>3, <1>4 DEF SenderInv

LEMMA SenderNext == SenderInv /\ [Next]_vars => SenderInv'
<1>. SUFFICES ASSUME SenderInv, [Next]_vars PROVE SenderInv'
    OBVIOUS
<1>1. CASE UNCHANGED vars
  <2>1. TypeOK' /\ PlaceInv' /\ PollInv'
      BY <1>1, PlaceSame, PollSame
         DEF SenderInv, TypeOK, vars, config, requestQueue, polling, network
  <2>. QED BY <2>1 DEF SenderInv
<1>2. CASE Next
    BY <1>2, CaptureKeeps, CaptureNowKeeps, StartKeeps, StartCapturingKeeps,
       StopCapturingKeeps, TimerFiresKeeps, PollFiresKeeps, AnswerKeeps, DueKeeps,
       GoOnlineKeeps, GoOfflineKeeps, LimitExpiresKeeps, UnloadPageKeeps,
       UnloadUnbatchedKeeps DEF Next
<1>. QED BY <1>1, <1>2

LEMMA SenderSafe == Spec => []SenderInv
BY SenderInit, SenderNext, PTL DEF Spec

-------------------------------------------------------------------------------
(* What follows for the page.                                                  *)

\* Every variable has its type: the timers left running are never more than the
\* times the queue was started, and no request has more retries than the most.
THEOREM TypeCorrect == Spec => []TypeOK
<1>1. SenderInv => TypeOK
    BY DEF SenderInv
<1>. QED BY <1>1, SenderSafe, PTL

\* The requests of rs that hold e: one when e is in rs, none when it is not.
LEMMA OwnersCounted ==
    ASSUME NEW rs, Apart(rs), NEW e \in Events
    PROVE  Cardinality({r \in rs : e \in r.events}) = IF In(rs, e) THEN 1 ELSE 0
<1>1. CASE In(rs, e)
  <2>1. PICK r \in rs : e \in r.events
      BY <1>1 DEF In
  <2>2. {s \in rs : e \in s.events} = {r}
      BY <2>1 DEF Apart
  <2>3. Cardinality({r}) = 1
      BY FS_Singleton
  <2>. QED BY <1>1, <2>2, <2>3
<1>2. CASE ~In(rs, e)
  <2>1. {s \in rs : e \in s.events} = {}
      BY <1>2 DEF In
  <2>2. Cardinality({}) = 0
      BY FS_EmptySet
  <2>. QED BY <1>2, <2>1, <2>2
<1>. QED BY <1>1, <1>2

\* A captured event is in the queue, in one request in flight or in one request
\* waiting for its retry, never in two of them, until the page is done with it.
THEOREM NoEventIsLost == Spec => []HeldInOnePlace
<1>1. ASSUME SenderInv, NEW e \in Events
      PROVE  Places(e) = IF e <= captured /\ fate[e] = "held" THEN 1 ELSE 0
  <2>1. OnePlace(queue, retries, {}, captured)
      BY <1>1 DEF SenderInv, PlaceInv
  <2>2. /\ Cardinality(InFlight(e)) = IF In(flying, e) THEN 1 ELSE 0
        /\ Cardinality(Waiting(e)) = IF In(retries, e) THEN 1 ELSE 0
      BY <2>1, OwnersCounted DEF OnePlace, InFlight, Waiting
  <2>3. /\ ~(e \in queue /\ In(flying, e)) /\ ~(e \in queue /\ In(retries, e))
        /\ ~(In(flying, e) /\ In(retries, e))
        /\ (e \in queue \/ In(flying, e) \/ In(retries, e))
             <=> (e <= captured /\ fate[e] = "held")
    <3>1. ~In({}, e)
        BY DEF In
    <3>. QED BY <2>1, <3>1 DEF OnePlace
  <2>. QED BY <2>2, <2>3 DEF Places
<1>2. SenderInv => HeldInOnePlace
    BY <1>1 DEF HeldInOnePlace
<1>. QED BY <1>2, SenderSafe, PTL

\* A queue that holds events has a timer, retries that wait are polled, and the
\* retries of an event are counted whichever way it was sent.
THEOREM WorkIsKept == Spec => []WorkGoesOn
<1>1. ASSUME SenderInv PROVE WorkGoesOn
  <2>1. WorkIsScheduled
      BY <1>1 DEF SenderInv, PollInv, WorkIsScheduled
  <2>2. Counted(queue, retries, {}, captured)
      BY <1>1 DEF SenderInv, PlaceInv
  <2>3. BudgetKept
      BY <2>2 DEF Counted, BudgetKept, InFlight, Waiting
  <2>. QED BY <2>1, <2>3 DEF WorkGoesOn
<1>. QED BY <1>1, SenderSafe, PTL
================================================================================
