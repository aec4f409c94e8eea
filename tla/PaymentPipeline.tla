--------------------------- MODULE PaymentPipeline ---------------------------
(***************************************************************************)
(* The whole service: the API, the outbox worker and the consumer over the  *)
(* tables and the queue they share.  Each part is an instance of its own    *)
(* module; this one says where their states are the same state:            *)
(*                                                                         *)
(*  - the outbox is one table: the API sees in it that an event exists, the *)
(*    worker how far it is (`rows`);                                       *)
(*  - a publication that the broker accepts is a message that arrives at    *)
(*    the consumer (`copies`);                                             *)
(*  - an event carries the id of its payment, so a request stands for the   *)
(*    payment it makes, for its event and for the messages about it.       *)
(*                                                                         *)
(* The broker is as the consumer's first start leaves it: exchange, queues  *)
(* and DLX are declared.  The parts' own modules cover the first start.    *)
(***************************************************************************)
EXTENDS Integers, FiniteSets

CONSTANTS
  Requests, Keys, Bodies, Hashes, HashOf, Legacy, None,               \* the API's
  Workers, MaxAttempts, BatchSize, MaxDeaths,                         \* the worker's
  Handlers, MsgIds, TotalAttempts, WebhookAttempts, MaxCopies         \* the consumer's

ASSUME PipelineAssumption ==
  /\ Requests \subseteq Nat
  /\ HashOf \in [Bodies -> Hashes]
  /\ Legacy \notin Hashes
  /\ Requests \cap Keys = {}
  /\ None \notin Requests \cup Keys \cup Hashes
  /\ None \notin [id : Requests \cup Keys, hash : Hashes \cup {Legacy}]
  /\ MaxAttempts \in Nat \ {0}
  /\ BatchSize \in Nat \ {0}
  /\ MaxDeaths \in Nat
  /\ {"ready", "retry"} \cap Handlers = {}
  /\ TotalAttempts \in Nat \ {0}
  /\ WebhookAttempts \in Nat \ {0}
  /\ MaxCopies \in Nat

VARIABLES
  payments, apiJob, reply,                                            \* PaymentApi
  rows, workerJob, deaths, copies, failures,                          \* OutboxPublisher
  status, msgs, dlq, handlerJob, notified, told, overlapped           \* PaymentConsumer

api      == <<payments, apiJob, reply>>
worker   == <<rows, workerJob, deaths, copies, failures>>
consumer == <<status, msgs, dlq, handlerJob, notified, told, overlapped>>
vars     == <<payments, apiJob, reply, rows, workerJob, deaths, copies, failures,
              status, msgs, dlq, handlerJob, notified, told, overlapped>>

\* The events in the outbox, as the API writes them.
Outbox == {[id |-> r, payment |-> r] : r \in {q \in Requests : rows[q].status # "absent"}}

\* The consumer's first start is over: what both instances begin with, stays.
FreshBroker == FALSE

Api == INSTANCE PaymentApi WITH LegacyKeys <- {}, job <- apiJob, outbox <- Outbox

Worker == INSTANCE OutboxPublisher WITH
  Events <- Requests, job <- workerJob, route <- IF FreshBroker THEN "missing" ELSE "bound"

Consumer == INSTANCE PaymentConsumer WITH
  Payments <- Requests, NoPayment <- None,
  job <- handlerJob, published <- copies,
  declared <- IF FreshBroker THEN 0 ELSE TotalAttempts + 1

Init == Worker!Init /\ Consumer!Init /\ Api!Init

----------------------------------------------------------------------------
\* A step of the API that commits an event is the creation of the worker's row.
EventCommitted == UNCHANGED worker \/ \E e \in Requests : Worker!Create(e)

ApiStep == EventCommitted /\ Api!Next /\ UNCHANGED consumer

\* A copy that the queue accepts arrives at the consumer.
MessageArrives ==
  IF copies' = copies THEN UNCHANGED consumer ELSE \E p \in Requests : Consumer!Arrive(p)

\* Everything else the worker, its clock and its crashes do.
OutboxStep ==
  /\ \/ \E e \in Requests : Worker!RetryComesDue(e)
     \/ \E w \in Workers : Worker!WorkerStep(w) \/ Worker!Die(w) \/ Worker!Restart(w)
  /\ MessageArrives
  /\ UNCHANGED api

\* Everything the consumer does with its messages, by itself or by failing.
ConsumerStep ==
  /\ \/ Consumer!TtlExpiresAny
     \/ \E h \in Handlers : \/ Consumer!DeliverAny(h)
                            \/ Consumer!HandlerStep(h)
                            \/ Consumer!HandlerDies(h)
                            \/ Consumer!ConnectionLost(h)
  /\ UNCHANGED api /\ UNCHANGED worker

Next == ApiStep \/ OutboxStep \/ ConsumerStep

Spec == Init /\ [][Next]_vars

\* The fairness of the parts, each for its own reason: requests, the worker's loop
\* and clock, restarts, and what the event loop and the broker do for the consumer.
Alone(step) == step /\ UNCHANGED api /\ UNCHANGED worker

Fairness ==
  /\ \A r \in Requests : WF_vars(EventCommitted /\ Api!RequestStep(r) /\ UNCHANGED consumer)
  /\ \A e \in Requests : WF_vars(Worker!RetryComesDue(e) /\ MessageArrives /\ UNCHANGED api)
  /\ \A w \in Workers :
       /\ WF_vars(Worker!WorkerStep(w) /\ MessageArrives /\ UNCHANGED api)
       /\ WF_vars(Worker!Restart(w) /\ MessageArrives /\ UNCHANGED api)
  /\ WF_vars(Alone(Consumer!TtlExpiresAny))
  /\ \A h \in Handlers : /\ WF_vars(Alone(Consumer!DeliverAny(h)))
                         /\ WF_vars(Alone(Consumer!HandlerStep(h)))

FairSpec == Spec /\ Fairness

----------------------------------------------------------------------------
(* What a reader sees                                                      *)

\* GetPaymentUseCase: one SELECT, which sees what is committed.
Found(p) == \E row \in payments : row.id = p

\* GET /payments/{id}: the status that was found, or a 404.
Shown(p) == IF Found(p) THEN status[p] ELSE "none"

Final == {"succeeded", "failed"}

----------------------------------------------------------------------------
(* Properties                                                              *)

\* No payment is forgotten between the processes: while its client has not accepted
\* a webhook and it is not in the DLQ, the worker still has its event to publish, or
\* has given it up, or the consumer has a copy of its message to process.
NoPaymentForgotten ==
  \A row \in payments : rows[row.id].status \in {"pending", "failed"} \/ Consumer!Kept(row.id)

\* The broker or the consumer has, or has had, to do with the payment.
Processed(p) ==
  \/ copies[p] > 0
  \/ told[p] # {}
  \/ \E m \in msgs : m.pay = p
  \/ \E d \in dlq : d.pay = p
  \/ \E h \in Handlers : handlerJob[h].pay = p

\* The worker publishes, and the consumer works on and tells of, committed payments
\* only: a message never meets a missing row (PaymentNotFoundError in the consumer).
OnlyCommittedIsProcessed ==
  \A p \in Requests : Processed(p) => Shown(p) # "none"

\* Idempotency from end to end: whatever requests, publications and deliveries are
\* repeated, clients are told of one payment per Idempotency-Key, and the one they
\* were answered with.
OneOutcomePerKey ==
  \A p, r \in Requests :
    told[p] # {} /\ apiJob[p].key = apiJob[r].key
      => /\ told[r] # {} => r = p
         /\ reply[r].code = 202 => reply[r].id = p

\* Two GETs never show a payment going back: none, pending, one final status; and
\* the final status stays, unless two handlers met on the payment.
ReadsNeverGoBack ==
  [][\A p \in Requests :
       /\ Shown(p) # "none" => Shown(p)' # "none"
       /\ Shown(p) \in Final => /\ Shown(p)' \in Final
                                /\ ~overlapped[p] => Shown(p)' = Shown(p)]_vars

\* Every payment that a client was told is accepted comes to an end: its webhook is
\* accepted, its message is in the DLQ or its event is given up.
EveryAcceptedPaymentEnds ==
  \A p \in Requests :
    (\E r \in Requests : reply[r] = Api!Accept(p))
      ~> (notified[p] \/ (\E d \in dlq : d.pay = p) \/ rows[p].status = "failed")

\* The pipeline implements PaymentService.
Service == INSTANCE PaymentService WITH
  asked     <- [r \in Requests |-> apiJob[r].key],
  account   <- [p \in Requests |-> Shown(p)],
  answered  <- [r \in Requests |-> reply[r].id],
  contested <- overlapped

\* Refinement: every step of a process is a step of the service or none.
ImplementsService == Service!Spec
=============================================================================
