----------------------------- MODULE PaymentApi ------------------------------
(***************************************************************************)
(* POST /api/v1/payments: the route (in_api/routes.py), the use case       *)
(* CreatePaymentUseCase (use_cases/create_payment.py) and what its         *)
(* transactions do to the tables payments and outbox under READ COMMITTED   *)
(* with the unique index on idempotency_key (out_db/payment_repository.py,  *)
(* models.py, transaction_manager.py).  Every request has its own session. *)
(***************************************************************************)
EXTENDS Naturals, FiniteSets

CONSTANTS
  Requests,    \* POST requests; a client's retry is another request
  Keys,        \* values of the Idempotency-Key header
  Bodies,      \* validated request bodies
  Hashes,      \* the SHA-256 values that occur
  HashOf,      \* _build_request_hash: bodies that normalise alike hash alike
  LegacyKeys,  \* keys of payments made before the request_hash column
  Legacy,      \* LEGACY_REQUEST_HASH
  None         \* no value

ASSUME ApiAssumption ==
  /\ HashOf \in [Bodies -> Hashes]
  /\ Legacy \notin Hashes
  /\ LegacyKeys \subseteq Keys
  /\ Requests \cap Keys = {}
  /\ None \notin Requests \cup Keys \cup Hashes
  /\ None \notin [id : Requests \cup Keys, hash : Hashes \cup {Legacy}]

VARIABLES
  payments,  \* the committed rows of payments
  outbox,    \* the committed payments.new events
  job,       \* what each request is doing
  reply      \* what each request was answered

vars == <<payments, outbox, job, reply>>

----------------------------------------------------------------------------
\* A new payment and its event take fresh uuid4 ids: the request stands for them.
\* The id of a payment older than request_hash is its key.
Ids == Requests \cup Keys

Rows == [id : Ids, key : Keys, hash : Hashes \cup {Legacy}]

Events == [id : Requests, payment : Ids]

\* "begin" is the first transaction, "again" the second, after a unique conflict.
Steps == {"idle", "begin", "insert", "event", "commit", "again", "answered", "dead"}

Jobs == [step : Steps, key : Keys \cup {None}, hash : Hashes \cup {None}]

Replies == [code : {0, 202, 409, 500}, id : Ids \cup {None}]

NoReply   == [code |-> 0, id |-> None]
Conflict  == [code |-> 409, id |-> None]
Error     == [code |-> 500, id |-> None]
Accept(i) == [code |-> 202, id |-> i]

Stored(k) == {row \in payments : row.key = k}

\* Mutant: the transaction of a request that died is never rolled back.
HoldsWhenDead(r) == job[r].step \in {"event", "commit", "dead"}

\* An uncommitted INSERT keeps its key in the unique index until its transaction ends.
Holds(r) == job[r].step \in {"event", "commit"}
Waits(r) == \E q \in Requests \ {r} : Holds(q) /\ job[q].key = job[r].key

NewRow(r)   == [id |-> r, key |-> job[r].key, hash |-> job[r].hash]
NewEvent(r) == [id |-> r, payment |-> r]

Running(r) == job[r].step \in {"begin", "insert", "event", "commit", "again"}

Goto(r, step) == job' = [job EXCEPT ![r].step = step]

Answer(r, answer) ==
  /\ reply' = [reply EXCEPT ![r] = answer]
  /\ Goto(r, "answered")

Init ==
  /\ payments = {[id |-> k, key |-> k, hash |-> Legacy] : k \in LegacyKeys}
  /\ outbox = {}
  /\ job = [r \in Requests |-> [step |-> "idle", key |-> None, hash |-> None]]
  /\ reply = [r \in Requests |-> NoReply]

----------------------------------------------------------------------------
\* The route calls execute, which builds the hash before the first transaction.
Receive(r, k, body) ==
  /\ job[r].step = "idle"
  /\ job' = [job EXCEPT ![r] = [step |-> "begin", key |-> k, hash |-> HashOf[body]]]
  /\ UNCHANGED <<payments, outbox, reply>>

\* Mutants: a repeated request is answered 200; the body is not compared.
AnswerOk(r, row) ==
  IF row.hash \in {job[r].hash, Legacy} THEN [code |-> 200, id |-> row.id] ELSE Conflict
AnswerAnyBody(r, row) == Accept(row.id)

\* _ensure_same_request_hash, and what the route makes of its verdict.
AnswerFrom(r, row) ==
  IF row.hash \in {job[r].hash, Legacy} THEN Accept(row.id) ELSE Conflict

\* Mutant: an existing payment gets another event before it is answered.
LookupWithEvent(r) ==
  /\ job[r].step = "begin"
  /\ \/ \E row \in Stored(job[r].key) :
          /\ Answer(r, AnswerFrom(r, row))
          /\ outbox' = outbox \cup {[id |-> r, payment |-> row.id]}
     \/ Stored(job[r].key) = {} /\ Goto(r, "insert") /\ UNCHANGED <<outbox, reply>>
  /\ UNCHANGED payments

\* get_by_idempotency_key in the first transaction; it locks nothing.
Lookup(r) ==
  /\ job[r].step = "begin"
  /\ \/ \E row \in Stored(job[r].key) : Answer(r, AnswerFrom(r, row))
     \/ Stored(job[r].key) = {} /\ Goto(r, "insert") /\ UNCHANGED reply
  /\ UNCHANGED <<payments, outbox>>

\* Mutants: there is no unique index; a key held by another transaction fails the
\* INSERT at once.
InsertUnchecked(r) ==
  /\ job[r].step = "insert"
  /\ Goto(r, "event")
  /\ UNCHANGED <<payments, outbox, reply>>
InsertWithoutWaiting(r) ==
  /\ job[r].step = "insert"
  /\ Goto(r, IF Waits(r) \/ Stored(job[r].key) # {} THEN "again" ELSE "event")
  /\ UNCHANGED <<payments, outbox, reply>>

\* The flush of payment_repository.create.  The INSERT waits while another
\* transaction holds the key.  Then it takes the key, or finds it committed: that
\* rolls the transaction back and is caught as DuplicateIdempotencyKeyError.
Insert(r) ==
  /\ job[r].step = "insert"
  /\ ~Waits(r)
  /\ Goto(r, IF Stored(job[r].key) # {} THEN "again" ELSE "event")
  /\ UNCHANGED <<payments, outbox, reply>>

\* Mutant: the payment is committed in a transaction of its own, before its event.
CreateEventSeparately(r) ==
  /\ job[r].step = "event"
  /\ payments' = payments \cup {NewRow(r)}
  /\ Goto(r, "commit")
  /\ UNCHANGED <<outbox, reply>>

\* Mutant: the event is committed in a transaction of its own, before the payment.
CommitEventFirst(r) ==
  /\ job[r].step = "event"
  /\ outbox' = outbox \cup {NewEvent(r)}
  /\ Goto(r, "commit")
  /\ UNCHANGED <<payments, reply>>

\* The flush of outbox_repository.create_event, in the same transaction.
CreateEvent(r) ==
  /\ job[r].step = "event"
  /\ Goto(r, "commit")
  /\ UNCHANGED <<payments, outbox, reply>>

\* Payment and event become visible together.
Persist(r) ==
  /\ job[r].step = "commit"
  /\ payments' = payments \cup {NewRow(r)}
  /\ outbox' = outbox \cup {NewEvent(r)}

\* If the connection breaks before the commit is confirmed, the client gets a 500
\* for a payment that exists.
Commit(r) ==
  /\ Persist(r)
  /\ \E answer \in {Accept(r), Error} : Answer(r, answer)

\* _get_existing_after_unique_conflict, in a second transaction.  Were the row
\* missing, the error would reach the client as a 500.
Reread(r) ==
  /\ job[r].step = "again"
  /\ \/ \E row \in Stored(job[r].key) : Answer(r, AnswerFrom(r, row))
     \/ Stored(job[r].key) = {} /\ Answer(r, Error)
  /\ UNCHANGED <<payments, outbox>>

\* Any other database error: the transaction rolls back, the client gets a 500.
DatabaseFails(r) ==
  /\ Running(r)
  /\ Answer(r, Error)
  /\ UNCHANGED <<payments, outbox>>

\* The API process dies: the database rolls back what is open, or has already
\* committed it.
Die(r) ==
  /\ Running(r)
  /\ Persist(r) \/ UNCHANGED <<payments, outbox>>
  /\ Goto(r, "dead")
  /\ UNCHANGED reply

----------------------------------------------------------------------------
RequestStep(r) == Lookup(r) \/ Insert(r) \/ CreateEvent(r) \/ Commit(r) \/ Reread(r)

Next == \E r \in Requests :
          \/ \E k \in Keys, body \in Bodies : Receive(r, k, body)
          \/ RequestStep(r)
          \/ DatabaseFails(r)
          \/ Die(r)

Spec == Init /\ [][Next]_vars

\* A coroutine that can run does.
Fairness == \A r \in Requests : WF_vars(RequestStep(r))

FairSpec == Spec /\ Fairness

----------------------------------------------------------------------------
(* Properties                                                              *)

\* Every variable has its type.
TypeOK ==
  /\ payments \subseteq Rows
  /\ outbox \subseteq Events
  /\ job \in [Requests -> Jobs]
  /\ reply \in [Requests -> Replies]

\* However requests with one Idempotency-Key interleave, fail and are repeated, all
\* that are accepted name the same payment.
OneAnswerPerKey ==
  \A q, r \in Requests :
    reply[q].code = 202 /\ reply[r].code = 202 /\ job[q].key = job[r].key
      => reply[q].id = reply[r].id

\* Payment and event are saved together or not at all: exactly one event for every
\* payment (but those from before), and none without its payment.
OneEventPerPayment ==
  /\ \A row \in payments : row.hash # Legacy => \E e \in outbox : e.payment = row.id
  /\ \A e \in outbox : \E row \in payments : row.id = e.payment /\ row.hash # Legacy
  /\ \A d, e \in outbox : d.payment = e.payment => d = e

\* A 409 is given only if the key stands for a payment with another body, a 202
\* only if it stands for this one or for one whose body is not known.
AnswerMatchesBody ==
  \A r \in Requests :
    /\ reply[r].code = 202 => \E row \in Stored(job[r].key) :
                                row.id = reply[r].id /\ row.hash \in {job[r].hash, Legacy}
    /\ reply[r].code = 409 => \E row \in Stored(job[r].key) :
                                row.hash \notin {job[r].hash, Legacy}

\* A unique conflict is always resolved by reading again: the payment the INSERT
\* collided with is there, so DuplicateIdempotencyKeyError never escapes.
ConflictIsResolvable ==
  \A r \in Requests : job[r].step = "again" => Stored(job[r].key) # {}

\* Every request is answered unless its process dies, even if it has to wait for
\* another one's transaction.
EveryRequestAnswered ==
  \A r \in Requests : Running(r) ~> job[r].step \in {"answered", "dead"}

\* The API implements IdempotentCreate: the ledger is the committed table seen
\* through its key, and a request asks for what execute was called with.
Entry(k) ==
  IF Stored(k) = {} THEN None
  ELSE LET row == CHOOSE row \in Stored(k) : TRUE IN [id |-> row.id, hash |-> row.hash]

Abstract == INSTANCE IdempotentCreate WITH
  ledger <- [k \in Keys |-> Entry(k)],
  events <- [i \in Ids |-> Cardinality({e \in outbox : e.payment = i})],
  asked  <- [r \in Requests |-> [key |-> job[r].key, hash |-> job[r].hash]]

\* Refinement: every step of the API is a step of IdempotentCreate or none.
KeepsItsPromise == Abstract!Spec
=============================================================================
