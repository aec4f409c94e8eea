-------------------------- MODULE IdempotentCreate ---------------------------
(***************************************************************************)
(* What POST /api/v1/payments promises, without sessions, locks or          *)
(* transactions: one entry per Idempotency-Key, made together with its     *)
(* outbox event, and answers that agree with the entry.                    *)
(***************************************************************************)
EXTENDS Naturals

CONSTANTS
  Requests,  \* POST requests
  Keys,      \* values of the Idempotency-Key header
  Hashes,    \* values of request_hash a new payment can have
  Ids,       \* payment ids
  Legacy,    \* the request_hash of payments older than that column
  None       \* no entry

VARIABLES
  ledger,  \* the payment each key stands for
  events,  \* how many outbox events each payment has
  asked,   \* the key and the hash each request came with
  reply    \* what each request was answered

vars == <<ledger, events, asked, reply>>

----------------------------------------------------------------------------
NoRequest == [key |-> None, hash |-> None]

NoReply   == [code |-> 0, id |-> None]
Conflict  == [code |-> 409, id |-> None]
Error     == [code |-> 500, id |-> None]
Accept(i) == [code |-> 202, id |-> i]

Init ==
  /\ ledger \in [Keys -> [id : Ids, hash : {Legacy}] \cup {None}]
  /\ events = [i \in Ids |-> 0]
  /\ asked = [r \in Requests |-> NoRequest]
  /\ reply = [r \in Requests |-> NoReply]

Ask(r, k, hash) ==
  /\ asked[r] = NoRequest
  /\ asked' = [asked EXCEPT ![r] = [key |-> k, hash |-> hash]]
  /\ UNCHANGED <<ledger, events, reply>>

\* The entry of a new payment, with what r asked for, and its one event.
Make(r) ==
  /\ asked[r] # NoRequest
  /\ ledger[asked[r].key] = None
  /\ \E i \in Ids :
       /\ \A l \in Keys : ledger[l] # None => ledger[l].id # i
       /\ ledger' = [ledger EXCEPT ![asked[r].key] = [id |-> i, hash |-> asked[r].hash]]
       /\ events' = [events EXCEPT ![i] = @ + 1]

\* What a request may be answered from an entry; an error tells nothing.
Answers(entry, hash) ==
  {Error} \cup IF entry = None THEN {}
               ELSE IF entry.hash \in {hash, Legacy} THEN {Accept(entry.id)}
               ELSE {Conflict}

\* A request makes the entry of its key or finds it, and is answered, once, by what
\* it asked for.
Serve(r) ==
  /\ asked[r] # NoRequest
  /\ reply[r] = NoReply
  /\ \E answer \in Answers(ledger'[asked[r].key], asked[r].hash) :
       reply' = [reply EXCEPT ![r] = answer]
  /\ Make(r) \/ UNCHANGED <<ledger, events>>
  /\ UNCHANGED asked

\* The process dies between the commit and the answer.
MakeUnanswered(r) == Make(r) /\ UNCHANGED <<asked, reply>>

Next == \E r \in Requests :
          \/ \E k \in Keys, hash \in Hashes : Ask(r, k, hash)
          \/ Serve(r)
          \/ MakeUnanswered(r)

Spec == Init /\ [][Next]_vars
=============================================================================
