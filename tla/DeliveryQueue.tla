---------------------------- MODULE DeliveryQueue -----------------------------
(* What the event pipeline promises its application, whatever promises, timers *)
(* and requests it takes: a bounded first-in first-out queue per route whose   *)
(* oldest messages are offered to the server, at least once, and given up only *)
(* when the server has answered, or to make room for newer ones.               *)
EXTENDS Integers, FiniteSets

CONSTANTS NumRoutes,   \* number of queues
          Capacity     \* messages a queue holds

VARIABLES submitted,   \* messages submitted so far, numbered from 1
          held,        \* held[r]: messages still in queue r
          delivered    \* delivered[r]: messages of queue r the server has

dqVars == <<submitted, held, delivered>>

DQInit ==
    /\ submitted = 0
    /\ held = [r \in 1..NumRoutes |-> {}]
    /\ delivered = [r \in 1..NumRoutes |-> {}]

\* A new message; a full queue makes room by giving up its oldest one.
Submit(r) ==
    LET room == Cardinality(held[r]) < Capacity
        kept == IF room THEN held[r]
                ELSE {m \in held[r] : \E k \in held[r] : k < m}
    IN  /\ submitted' = submitted + 1
        /\ held' = [held EXCEPT ![r] = kept \cup {submitted'}]
        /\ UNCHANGED delivered

\* A batch never leaves out a held message older than one it contains.
Batches(r) == {B \in SUBSET (1..submitted) :
                  \A b \in B, m \in held[r] : m < b => m \in B}

\* The server takes a batch; the client may not learn of it, and keep it.
Deliver(r) == \E B \in Batches(r) :
    /\ delivered' = [delivered EXCEPT ![r] = @ \cup B]
    /\ held' = [held EXCEPT ![r] = @ \ B] \/ UNCHANGED held
    /\ UNCHANGED submitted

\* The server will not take a batch: it is given up.
GiveUp(r) == \E B \in Batches(r) :
    /\ held' = [held EXCEPT ![r] = @ \ B]
    /\ UNCHANGED <<submitted, delivered>>

DQNext == \E r \in 1..NumRoutes : Submit(r) \/ Deliver(r) \/ GiveUp(r)

DQSpec == DQInit /\ [][DQNext]_dqVars
===============================================================================
