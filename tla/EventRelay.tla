------------------------------ MODULE EventRelay ------------------------------
(***************************************************************************)
(* What the outbox promises for an event, without batches, claims, locks or *)
(* transactions: it is tried, with a pause after every failure, until it is *)
(* published or MaxAttempts tries of it have failed, and what happens to it *)
(* besides is that a relay which dies tries it once more.                   *)
(***************************************************************************)
EXTENDS Naturals

CONSTANTS
  Events,
  MaxAttempts,  \* failed tries after which an event is given up
  Bound         \* TRUE: the queue is there from the beginning

VARIABLES
  state,     \* how far each event is
  failures,  \* its failed tries
  copies,    \* how often the queue has got it
  deaths     \* how often the relay died

vars == <<state, failures, copies, deaths>>

----------------------------------------------------------------------------
Init ==
  /\ state = [e \in Events |-> "absent"]
  /\ failures = [e \in Events |-> 0]
  /\ copies = [e \in Events |-> 0]
  /\ deaths = 0

Create(e) ==
  /\ state[e] = "absent"
  /\ state' = [state EXCEPT ![e] = "pending"]
  /\ UNCHANGED <<failures, copies, deaths>>

\* The pause after a failed try is over.
Resume(e) ==
  /\ state[e] = "waiting"
  /\ state' = [state EXCEPT ![e] = "pending"]
  /\ UNCHANGED <<failures, copies, deaths>>

\* One copy for each try and each death, and none during a pause.
Deliver(e) ==
  /\ state[e] = "pending"
  /\ copies[e] <= failures[e] + deaths
  /\ copies' = [copies EXCEPT ![e] = @ + 1]
  /\ UNCHANGED <<state, failures, deaths>>

Confirm(e) ==
  /\ state[e] = "pending"
  /\ Bound => copies[e] > 0
  /\ state' = [state EXCEPT ![e] = "published"]
  /\ UNCHANGED <<failures, copies, deaths>>

Fail(e) ==
  /\ state[e] = "pending"
  /\ failures' = [failures EXCEPT ![e] = @ + 1]
  /\ state' = [state EXCEPT ![e] =
       IF failures[e] + 1 >= MaxAttempts THEN "failed" ELSE "waiting"]
  /\ UNCHANGED <<copies, deaths>>

Die == deaths' = deaths + 1 /\ UNCHANGED <<state, failures, copies>>

Next ==
  \/ \E e \in Events : Create(e) \/ Resume(e) \/ Deliver(e) \/ Confirm(e) \/ Fail(e)
  \/ Die

Spec == Init /\ [][Next]_vars
=============================================================================
