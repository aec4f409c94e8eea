--------------------------- MODULE PaymentConsumer ---------------------------
(***************************************************************************)
(* The consumer of the queue payments.new: the broker's queues as the      *)
(* consumer declares them (adapters/in_consumer/topology.py), the message  *)
(* handler (adapters/in_consumer/handlers.py), the use case it runs        *)
(* (use_cases/process_payment.py) and the webhook it ends with             *)
(* (adapters/out_http/webhook_client.py).                                  *)
(*                                                                         *)
(* A copy of a message waits in payments.new ("ready"), waits in a retry   *)
(* queue ("retry") or is held, unacknowledged, by a handler.  The queues   *)
(* are unordered: requeued copies and copies of different age overtake     *)
(* each other.  A handler is one running invocation of process_payment;    *)
(* the subscriber sets no prefetch limit, so many of them run at once.     *)
(***************************************************************************)
EXTENDS Integers, FiniteSets

CONSTANTS
  Payments,         \* payments committed as pending, with their outbox event
  NoPayment,        \* what an idle handler works on
  Handlers,         \* invocations of process_payment that can run at a time
  MsgIds,           \* bound: copies that can be in the broker at a time
  TotalAttempts,    \* PAYMENT_NEW_TOTAL_PROCESSING_ATTEMPTS
  WebhookAttempts,  \* HttpxWebhookClient.max_attempts
  MaxCopies,        \* bound: times the outbox worker publishes one event
  FreshBroker       \* TRUE: the first start, no retry queue or DLX exists yet

ASSUME ConsumerAssumption ==
  /\ NoPayment \notin Payments
  /\ {"ready", "retry"} \cap Handlers = {}
  /\ TotalAttempts \in Nat \ {0}
  /\ WebhookAttempts \in Nat \ {0}
  /\ MaxCopies \in Nat
  /\ FreshBroker \in BOOLEAN

VARIABLES
  declared,    \* how far declare_payment_topology is
  status,      \* payments.status, committed
  msgs,        \* the copies in payments.new, in the retry queues, or unacked
  dlq,         \* the copies in payments.dlq
  job,         \* what each handler is doing
  published,   \* how often the outbox worker has published the event
  notified,    \* history: the client answered a webhook with 2xx
  told,        \* history: the statuses the client has received
  overlapped   \* history: two handlers have been busy with it at once

db      == <<status>>
broker  == <<declared, msgs, dlq, published>>
history == <<notified, told, overlapped>>
vars    == <<declared, status, msgs, dlq, job, published, notified, told, overlapped>>

----------------------------------------------------------------------------
Final == {"succeeded", "failed"}
Statuses == Final \cup {"pending"}

\* "failed": execute raised and _retry_or_dead_letter runs; "ack" and "nack":
\* the handler returned, or raised, and FastStream is about to say so.
Steps == {"idle", "read", "gateway", "fresh", "commit", "webhook",
          "failed", "ack", "nack"}

\* Mutants: the limit counts the first delivery too, or not even the last return.
LimitTooLow == TotalAttempts - 2
LimitTooHigh == TotalAttempts

\* x-delivery-limit of payments.new: a copy returned more often is dead-lettered.
DeliveryLimit == TotalAttempts - 1

\* `attempt` is the body's field, `returns` the quorum queue's delivery count,
\* `runs` a history: how many deliveries led to this copy, its ancestors' included.
Messages == [id : MsgIds, pay : Payments, attempt : 1..TotalAttempts,
             returns : 0..DeliveryLimit, runs : Nat, at : {"ready", "retry"} \cup Handlers]

DeadLetters == [pay : Payments, runs : Nat]

\* `holds`: the status the handler's Payment object carries, or the gateway's result.
BusyJobs == [step : Steps \ {"idle"}, pay : Payments, attempt : 1..TotalAttempts,
             runs : Nat, holds : Statuses, tries : 0..(WebhookAttempts - 1)]

Idle == [step |-> "idle", pay |-> NoPayment, attempt |-> 1, runs |-> 0,
         holds |-> "pending", tries |-> 0]

\* process_payment invoked with copy m.
Start(m) == [step |-> "read", pay |-> m.pay, attempt |-> m.attempt, runs |-> m.runs + 1,
             holds |-> "pending", tries |-> 0]

Busy(h) == job[h].step # "idle"
Unacked(h) == {m \in msgs : m.at = h}
FreeIds == MsgIds \ {m.id : m \in msgs}

\* declare_payment_topology declares the DLX, binds the DLQ to it, and then binds one
\* retry queue after the other to the exchange, which the subscriber has declared.
AllDeclared == TotalAttempts + 1
HasDlx == declared >= 1
HasDlq == declared >= 2
\* Mutant: the retry queues come first.
HasRetryFirst(n) == declared >= n
HasRetry(n) == declared >= n + 2

Goto(h, step) == job' = [job EXCEPT ![h].step = step]
Dead(m) == [pay |-> m.pay, runs |-> m.runs]

Init ==
  /\ declared = IF FreshBroker THEN 0 ELSE AllDeclared
  /\ status = [p \in Payments |-> "pending"]
  /\ msgs = {}
  /\ dlq = {}
  /\ job = [h \in Handlers |-> Idle]
  /\ published = [p \in Payments |-> 0]
  /\ notified = [p \in Payments |-> FALSE]
  /\ told = [p \in Payments |-> {}]
  /\ overlapped = [p \in Payments |-> FALSE]

----------------------------------------------------------------------------
(* The broker, the outbox worker's side and the consumer's start.          *)

\* The outbox worker publishes the event {payment_id}; after a crash or a lost
\* confirmation it publishes the same event again.
Arrive(p) ==
  /\ published[p] < MaxCopies
  /\ \E id \in FreeIds :
       msgs' = msgs \cup {[id |-> id, pay |-> p, attempt |-> 1, returns |-> 0,
                           runs |-> 0, at |-> "ready"]}
  /\ published' = [published EXCEPT ![p] = @ + 1]
  /\ UNCHANGED <<declared, dlq, job, db, history>>

\* after_startup: the subscriber already consumes while this goes on, await by await.
DeclareTopology ==
  /\ declared < AllDeclared
  /\ declared' = declared + 1
  /\ UNCHANGED <<msgs, dlq, published, job, db, history>>

Deliver(h, m) ==
  /\ ~Busy(h)
  /\ m.at = "ready"
  /\ msgs' = (msgs \ {m}) \cup {[m EXCEPT !.at = h, !.runs = @ + 1]}
  /\ job' = [job EXCEPT ![h] = Start(m)]
  /\ overlapped' = [overlapped EXCEPT ![m.pay] =
                      @ \/ \E g \in Handlers : Busy(g) /\ job[g].pay = m.pay]
  /\ UNCHANGED <<declared, dlq, published, db, notified, told>>

\* Mutant: a retry queue without x-dead-letter-exchange.
TtlDrops(m) ==
  /\ m.at = "retry"
  /\ msgs' = msgs \ {m}
  /\ UNCHANGED <<declared, dlq, published, job, db, history>>

\* A retry queue dead-letters what outlived its TTL to payments.new, where it
\* is a new copy for the delivery count.
TtlExpires(m) ==
  /\ m.at = "retry"
  /\ msgs' = (msgs \ {m}) \cup {[m EXCEPT !.at = "ready", !.returns = 0]}
  /\ UNCHANGED <<declared, dlq, published, job, db, history>>

\* payments.new takes back what h holds, or dead-letters it past the limit.
\* Before the DLQ is bound to the DLX a dead-lettered copy has nowhere to go.
ReturnUnacked(h) ==
  LET back == {m \in Unacked(h) : m.returns < DeliveryLimit}
      over == Unacked(h) \ back
  IN /\ msgs' = (msgs \ Unacked(h)) \cup
                  {[m EXCEPT !.at = "ready", !.returns = @ + 1] : m \in back}
     /\ dlq' = dlq \cup {Dead(m) : m \in {x \in over : HasDlq}}

----------------------------------------------------------------------------
(* ProcessPaymentUseCase.execute                                           *)

\* Mutant: the status read is not looked at before the gateway is called.
GetPaymentUnchecked(h) ==
  /\ job[h].step = "read"
  /\ job' = [job EXCEPT ![h].holds = status[job[h].pay], ![h].step = "gateway"]
  /\ UNCHANGED <<broker, db, history>>

GetPayment(h) ==
  LET s == status[job[h].pay] IN
  /\ job[h].step = "read"
  /\ job' = [job EXCEPT ![h].holds = s,
                        ![h].step = IF s = "pending" THEN "gateway" ELSE "webhook"]
  /\ UNCHANGED <<broker, db, history>>

\* Mutant: the webhook is sent before the result is saved.
WebhookBeforeSave(h) ==
  /\ job[h].step = "gateway"
  /\ \E result \in Final :
       job' = [job EXCEPT ![h].holds = result, ![h].step = "webhook"]
  /\ UNCHANGED <<broker, db, history>>

\* The emulated gateway answers either way and never raises.
CallGateway(h) ==
  /\ job[h].step = "gateway"
  /\ \E result \in Final :
       job' = [job EXCEPT ![h].holds = result, ![h].step = "fresh"]
  /\ UNCHANGED <<broker, db, history>>

\* First half of _save_gateway_result: the row is read again, without a lock.
ReadFresh(h) ==
  LET s == status[job[h].pay] IN
  /\ job[h].step = "fresh"
  /\ IF s = "pending"
       THEN Goto(h, "commit")
       ELSE job' = [job EXCEPT ![h].holds = s, ![h].step = "webhook"]
  /\ UNCHANGED <<broker, db, history>>

\* Mutant: a failed commit is swallowed.
CommitSwallowed(h) ==
  /\ job[h].step = "commit"
  /\ status' \in {status, [status EXCEPT ![job[h].pay] = job[h].holds]}
  /\ Goto(h, "webhook")
  /\ UNCHANGED <<broker, history>>

\* Second half: update_status sets the status whatever the row holds by now.
\* The commit may be applied and its answer lost: the handler sees an exception.
Commit(h) ==
  /\ job[h].step = "commit"
  /\ status' = [status EXCEPT ![job[h].pay] = job[h].holds]
  /\ \E step \in {"webhook", "failed"} : Goto(h, step)
  /\ UNCHANGED <<broker, history>>

\* The database fails, or the row is missing, before anything is committed.
DatabaseFails(h) ==
  /\ job[h].step \in {"read", "fresh", "commit"}
  /\ Goto(h, "failed")
  /\ UNCHANGED <<broker, db, history>>

\* One HTTP attempt of send_webhook answered with 2xx.
WebhookDelivered(h) ==
  /\ job[h].step = "webhook"
  /\ notified' = [notified EXCEPT ![job[h].pay] = TRUE]
  /\ told' = [told EXCEPT ![job[h].pay] = @ \cup {job[h].holds}]
  /\ Goto(h, "ack")
  /\ UNCHANGED <<broker, db, overlapped>>

\* One HTTP attempt that raised httpx.HTTPError; the client may have received
\* it nevertheless (a 5xx answer, or a timeout after it had).
WebhookFails(h) ==
  /\ job[h].step = "webhook"
  /\ \E received \in BOOLEAN :
       told' = [told EXCEPT ![job[h].pay] = IF received THEN @ \cup {job[h].holds} ELSE @]
  /\ IF job[h].tries + 1 = WebhookAttempts
       THEN Goto(h, "failed")
       ELSE job' = [job EXCEPT ![h].tries = @ + 1]
  /\ UNCHANGED <<broker, db, notified, overlapped>>

\* An exception that is no httpx.HTTPError (an invalid URL) skips the retries.
WebhookRaises(h) ==
  /\ job[h].step = "webhook"
  /\ Goto(h, "failed")
  /\ UNCHANGED <<broker, db, history>>

----------------------------------------------------------------------------
(* _retry_or_dead_letter and FastStream's acknowledgement.                 *)

\* The queue that the publication is routed to is bound, its exchange is declared.
QueueBound(h) ==
  IF job[h].attempt < TotalAttempts THEN HasRetry(job[h].attempt) ELSE HasDlq
ExchangeDeclared(h) == job[h].attempt < TotalAttempts \/ HasDlx

\* Mutant: one attempt too many.
RepublishOnceMore(h) ==
  \E id \in FreeIds :
    /\ job[h].attempt <= TotalAttempts
    /\ declared = AllDeclared
    /\ msgs' = msgs \cup {[id |-> id, pay |-> job[h].pay, attempt |-> job[h].attempt + 1,
                           returns |-> 0, runs |-> job[h].runs, at |-> "retry"]}
    /\ dlq' = dlq

\* The copy for the next attempt, accepted by the retry queue's exchange.
Republish(h) ==
  \E id \in FreeIds :
    /\ job[h].attempt < TotalAttempts
    /\ QueueBound(h)
    /\ msgs' = msgs \cup {[id |-> id, pay |-> job[h].pay, attempt |-> job[h].attempt + 1,
                           returns |-> 0, runs |-> job[h].runs, at |-> "retry"]}
    /\ dlq' = dlq

\* The copy for the DLQ, accepted by the DLX.
DeadLetter(h) ==
  /\ job[h].attempt >= TotalAttempts
  /\ QueueBound(h)
  /\ dlq' = dlq \cup {Dead(job[h])}
  /\ msgs' = msgs

\* The exchange exists but the queue is not bound to it yet: the broker returns the
\* message as unroutable and the client library does not raise.  Without the exchange
\* the publication raises (PublishFails).
Unroutable(h) ==
  /\ ExchangeDeclared(h)
  /\ ~QueueBound(h)
  /\ UNCHANGED <<msgs, dlq>>

\* Mutant: giving up on the message also fails the payment.
DeadLetterMarksFailed(h) ==
  /\ job[h].step = "failed"
  /\ Republish(h) \/ DeadLetter(h) \/ Unroutable(h)
  /\ status' = IF job[h].attempt < TotalAttempts THEN status
               ELSE [status EXCEPT ![job[h].pay] = "failed"]
  /\ Goto(h, "ack")
  /\ UNCHANGED <<declared, published, history>>

RetryOrDeadLetter(h) ==
  /\ job[h].step = "failed"
  /\ Republish(h) \/ DeadLetter(h) \/ Unroutable(h)
  /\ Goto(h, "ack")
  /\ UNCHANGED <<declared, published, db, history>>

\* Mutant: the publication's exception is logged and swallowed.
PublishFailureSwallowed(h) ==
  /\ job[h].step = "failed"
  /\ Republish(h) \/ DeadLetter(h) \/ UNCHANGED <<msgs, dlq>>
  /\ Goto(h, "ack")
  /\ UNCHANGED <<declared, published, db, history>>

\* broker.publish raises; the broker may have taken the copy all the same.
PublishFails(h) ==
  /\ job[h].step = "failed"
  /\ Republish(h) \/ DeadLetter(h) \/ UNCHANGED <<msgs, dlq>>
  /\ Goto(h, "nack")
  /\ UNCHANGED <<declared, published, db, history>>

\* The handler returned: FastStream acknowledges the copy, if h still holds it.
Ack(h) ==
  /\ job[h].step = "ack"
  /\ msgs' = msgs \ Unacked(h)
  /\ job' = [job EXCEPT ![h] = Idle]
  /\ UNCHANGED <<declared, dlq, published, db, history>>

\* The handler raised: retry=True makes FastStream return the copy to the queue.
Nack(h) ==
  /\ job[h].step = "nack"
  /\ ReturnUnacked(h)
  /\ job' = [job EXCEPT ![h] = Idle]
  /\ UNCHANGED <<declared, published, db, history>>

\* The consumer process that runs h dies.
HandlerDies(h) ==
  /\ Busy(h)
  /\ ReturnUnacked(h)
  /\ job' = [job EXCEPT ![h] = Idle]
  /\ UNCHANGED <<declared, published, db, history>>

\* The broker loses the connection and takes the copy back; the handler goes on.
ConnectionLost(h) ==
  /\ Unacked(h) # {}
  /\ ReturnUnacked(h)
  /\ UNCHANGED <<declared, published, job, db, history>>

----------------------------------------------------------------------------
HandlerStep(h) ==
  \/ GetPayment(h) \/ CallGateway(h) \/ ReadFresh(h) \/ Commit(h) \/ DatabaseFails(h)
  \/ WebhookDelivered(h) \/ WebhookFails(h) \/ WebhookRaises(h)
  \/ RetryOrDeadLetter(h) \/ PublishFails(h) \/ Ack(h) \/ Nack(h)

DeliverAny(h) == \E m \in msgs : Deliver(h, m)
TtlExpiresAny == \E m \in msgs : TtlExpires(m)

Next ==
  \/ \E p \in Payments : Arrive(p)
  \/ DeclareTopology
  \/ TtlExpiresAny
  \/ \E h \in Handlers : \/ DeliverAny(h)
                         \/ HandlerStep(h)
                         \/ HandlerDies(h)
                         \/ ConnectionLost(h)

Spec == Init /\ [][Next]_vars

\* The event loop resumes every handler, the broker delivers what is ready to an
\* idle one and expires what is in a retry queue.  A consumer that died is started
\* again, by an operator: docker-compose.yml has no restart policy.  Nothing obliges
\* the outbox worker to publish, a failure to happen, or an outcome to be chosen.
Fairness ==
  /\ WF_vars(DeclareTopology)
  /\ WF_vars(TtlExpiresAny)
  /\ \A h \in Handlers : WF_vars(DeliverAny(h)) /\ WF_vars(HandlerStep(h))

FairSpec == Spec /\ Fairness

----------------------------------------------------------------------------
(* Properties                                                              *)

\* Every variable has its type.
TypeOK ==
  /\ declared \in 0..AllDeclared
  /\ status \in [Payments -> Statuses]
  /\ msgs \subseteq Messages
  /\ dlq \subseteq DeadLetters
  /\ job \in [Handlers -> BusyJobs \cup {Idle}]
  /\ published \in [Payments -> 0..MaxCopies]
  /\ notified \in [Payments -> BOOLEAN]
  /\ told \in [Payments -> SUBSET Statuses]
  /\ overlapped \in [Payments -> BOOLEAN]

\* The payment's message is accounted for: the client accepted its webhook, or it
\* is in the DLQ, or a copy of it is still going to be processed.
Pending(m) == m.at \in Handlers => job[m.at].step # "ack"

Kept(p) ==
  \/ notified[p]
  \/ \E d \in dlq : d.pay = p
  \/ \E m \in msgs : m.pay = p /\ Pending(m)

\* No failure of a handler, a publication or a connection makes a published
\* payment vanish: the old copy is acknowledged only once a new one is accepted.
NoPaymentLost == \A p \in Payments : published[p] > 0 => Kept(p)

\* The same, step by step, once the consumer's topology is declared: what a
\* message may have lost before that is all it can ever lose.
KeptOnceDeclared ==
  [][\A p \in Payments : declared = AllDeclared /\ Kept(p) => Kept(p)']_vars

\* A message that a handler gives up on finds the DLQ, even during the first start: it
\* came through a retry queue, and those are bound after the DLQ.
DlqBoundInTime ==
  TotalAttempts > 1 =>
    \A h \in Handlers : job[h].step = "failed" /\ job[h].attempt >= TotalAttempts => HasDlq

\* A message reaches the DLQ, by the handler's own count or by the broker's
\* delivery limit, only after at least TotalAttempts deliveries.
DeadOnlyAfterAllAttempts == \A d \in dlq : d.runs >= TotalAttempts

\* The two retry mechanisms multiply: the delivery limit starts again for every
\* republished copy, and that is the most that one message can be processed.
RunsBounded == \A m \in msgs : m.runs <= TotalAttempts * TotalAttempts

\* The client is only told final statuses, and only once one is committed
\* (the webhook is sent after the save's transaction, never inside it).
ToldOnlyCommitted ==
  \A p \in Payments : told[p] # {} => told[p] \subseteq Final /\ status[p] \in Final

\* As long as no two handlers were busy with a payment at once, the client has
\* only ever been told the status the database holds, however many copies,
\* redeliveries and webhook attempts there were.
ToldWhatIsStored ==
  \A p \in Payments : ~overlapped[p] => told[p] \subseteq {status[p]}

\* A final status is never changed again.
FinalStatusStable ==
  [][\A p \in Payments : status[p] \in Final => status'[p] = status[p]]_vars

\* ... which the code achieves only while handlers do not overlap on a payment.
FinalStatusStableUnlessOverlap ==
  [][\A p \in Payments : status[p] \in Final /\ ~overlapped[p]
       => status'[p] = status[p]]_vars

\* The gateway is not called for a payment whose final status is committed, so a
\* retry after a failed webhook repeats only the webhook, unless handlers overlap.
NoChargeAfterFinal ==
  [][\A h \in Handlers : job[h].step = "gateway" /\ job'[h].step = "fresh"
       => overlapped[job[h].pay] \/ status[job[h].pay] = "pending"]_vars

\* What the comment on x-delivery-limit says: three processing attempts in all.
AtMostTotalAttempts == \A m \in msgs : m.runs <= TotalAttempts

\* A payment whose message the started consumer has settles: the client accepts its
\* webhook or it ends in the DLQ, whatever fails on the way.
EveryPaymentSettles ==
  \A p \in Payments :
    declared = AllDeclared /\ published[p] > 0 /\ Kept(p)
      ~> (notified[p] \/ \E d \in dlq : d.pay = p)
=============================================================================
