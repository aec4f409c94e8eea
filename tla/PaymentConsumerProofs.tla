------------------------ MODULE PaymentConsumerProofs ------------------------
(* What PaymentConsumer guarantees for any number of payments, handlers,    *)
(* copies and attempts.                                                     *)
EXTENDS PaymentConsumer, TLAPS

----------------------------------------------------------------------------
(* Type correctness                                                        *)

\* A handler that is not idle works on a payment.
LEMMA BusyJob ==
  ASSUME TypeOK, NEW h \in Handlers, Busy(h)
  PROVE  job[h] \in BusyJobs
BY DEF TypeOK, Busy, Idle

\* Moving a busy handler on to another step keeps its job well typed.
LEMMA GotoType ==
  ASSUME TypeOK, NEW h \in Handlers, Busy(h), NEW s \in Steps \ {"idle"}, Goto(h, s)
  PROVE  job' \in [Handlers -> BusyJobs \cup {Idle}]
<1>1. [job[h] EXCEPT !.step = s] \in BusyJobs
  BY BusyJob DEF BusyJobs
<1> QED
  BY <1>1 DEF TypeOK, Goto

\* Returning what a handler holds keeps the broker's contents well typed.
LEMMA ReturnUnackedType ==
  ASSUME TypeOK, NEW h \in Handlers, ReturnUnacked(h)
  PROVE  msgs' \subseteq Messages /\ dlq' \subseteq DeadLetters
<1>1. ASSUME NEW m \in Unacked(h), m.returns < DeliveryLimit
      PROVE  [m EXCEPT !.at = "ready", !.returns = @ + 1] \in Messages
  <2>1. m \in Messages
    BY DEF TypeOK, Unacked
  <2>2. m.returns + 1 \in 0..DeliveryLimit
    BY <1>1, <2>1, ConsumerAssumption DEF Messages, DeliveryLimit
  <2> QED
    BY <2>1, <2>2 DEF Messages
<1>2. \A m \in msgs : Dead(m) \in DeadLetters
  BY DEF TypeOK, Messages, DeadLetters, Dead
<1> QED
  BY <1>1, <1>2 DEF TypeOK, ReturnUnacked, Unacked

\* So does publishing the copy for the next attempt, or the dead letter.
LEMMA PublishedType ==
  ASSUME TypeOK, NEW h \in Handlers, Busy(h),
         Republish(h) \/ DeadLetter(h) \/ UNCHANGED <<msgs, dlq>>
  PROVE  msgs' \subseteq Messages /\ dlq' \subseteq DeadLetters
<1>1. job[h] \in BusyJobs
  BY BusyJob
<1>2. CASE Republish(h)
  <2>1. PICK id \in FreeIds :
          msgs' = msgs \cup {[id |-> id, pay |-> job[h].pay, attempt |-> job[h].attempt + 1,
                              returns |-> 0, runs |-> job[h].runs, at |-> "retry"]}
    BY <1>2 DEF Republish
  <2>2. job[h].attempt + 1 \in 1..TotalAttempts
    BY <1>1, <1>2, ConsumerAssumption DEF Republish, BusyJobs
  <2>3. 0 \in 0..DeliveryLimit
    BY ConsumerAssumption DEF DeliveryLimit
  <2> QED
    BY <1>1, <1>2, <2>1, <2>2, <2>3 DEF TypeOK, Republish, Messages, BusyJobs, FreeIds
<1>3. CASE DeadLetter(h)
  BY <1>1, <1>3 DEF TypeOK, DeadLetter, DeadLetters, Dead, BusyJobs
<1> QED
  BY <1>2, <1>3 DEF TypeOK

LEMMA TypeInit == Init => TypeOK
BY ConsumerAssumption DEF Init, TypeOK, Statuses, AllDeclared

LEMMA TypeStep == TypeOK /\ [Next]_vars => TypeOK'
<1> SUFFICES ASSUME TypeOK, [Next]_vars
             PROVE  TypeOK'
  OBVIOUS
<1> USE DEF broker, db, history
<1>1. ASSUME NEW p \in Payments, Arrive(p)
      PROVE  TypeOK'
  <2>1. 0 \in 0..DeliveryLimit /\ 1 \in 1..TotalAttempts
    BY ConsumerAssumption DEF DeliveryLimit
  <2>2. msgs' \subseteq Messages
    BY <1>1, <2>1 DEF TypeOK, Arrive, Messages, FreeIds
  <2>3. published' \in [Payments -> 0..MaxCopies]
    <3>1. published[p] + 1 \in 0..MaxCopies
      BY <1>1, ConsumerAssumption DEF TypeOK, Arrive
    <3> QED
      BY <1>1, <3>1 DEF TypeOK, Arrive
  <2> QED
    BY <1>1, <2>2, <2>3 DEF TypeOK, Arrive
<1>2. CASE DeclareTopology
  BY <1>2, ConsumerAssumption DEF TypeOK, DeclareTopology, AllDeclared
<1>3. ASSUME NEW m \in msgs, TtlExpires(m)
      PROVE  TypeOK'
  <2>1. m \in Messages /\ 0 \in 0..DeliveryLimit
    BY ConsumerAssumption DEF TypeOK, DeliveryLimit
  <2>2. [m EXCEPT !.at = "ready", !.returns = 0] \in Messages
    BY <2>1 DEF Messages
  <2> QED
    BY <1>3, <2>2 DEF TypeOK, TtlExpires
<1>4. ASSUME NEW h \in Handlers, NEW m \in msgs, Deliver(h, m)
      PROVE  TypeOK'
  <2>1. m \in Messages
    BY DEF TypeOK
  <2>2. [m EXCEPT !.at = h, !.runs = @ + 1] \in Messages
    <3>1. m.runs + 1 \in Nat
      BY <2>1 DEF Messages
    <3>2. h \in {"ready", "retry"} \cup Handlers
      OBVIOUS
    <3> QED
      BY <2>1, <3>1, <3>2 DEF Messages
  <2>3. Start(m) \in BusyJobs
    <3>1. 0 \in 0..(WebhookAttempts - 1) /\ m.runs + 1 \in Nat
      BY <2>1, ConsumerAssumption DEF Messages
    <3> QED
      BY <2>1, <3>1 DEF Start, Messages, BusyJobs, Steps, Statuses
  <2>4. overlapped' \in [Payments -> BOOLEAN]
    BY <1>4, <2>1 DEF TypeOK, Deliver, Messages
  <2> QED
    BY <1>4, <2>2, <2>3, <2>4 DEF TypeOK, Deliver
<1>5. ASSUME NEW h \in Handlers, HandlerStep(h)
      PROVE  TypeOK'
  <2>1. CASE GetPayment(h)
    <3>1. job[h] \in BusyJobs
      BY <2>1, BusyJob DEF GetPayment, Busy
    <3>2. status[job[h].pay] \in Statuses
      BY <3>1 DEF TypeOK, BusyJobs
    <3>3. \A s \in Steps \ {"idle"} :
            [job[h] EXCEPT !.holds = status[job[h].pay], !.step = s] \in BusyJobs
      BY <3>1, <3>2 DEF BusyJobs
    <3>4. job' \in [Handlers -> BusyJobs \cup {Idle}]
      BY <2>1, <3>3 DEF TypeOK, GetPayment, Steps
    <3> QED
      BY <2>1, <3>4 DEF TypeOK, GetPayment
  <2>2. CASE CallGateway(h)
    <3>1. job[h] \in BusyJobs
      BY <2>2, BusyJob DEF CallGateway, Busy
    <3>2. \A r \in Final : [job[h] EXCEPT !.holds = r, !.step = "fresh"] \in BusyJobs
      BY <3>1 DEF BusyJobs, Steps, Statuses
    <3> QED
      BY <2>2, <3>2 DEF TypeOK, CallGateway
  <2>3. CASE ReadFresh(h)
    <3>1. job[h] \in BusyJobs /\ Busy(h)
      BY <2>3, BusyJob DEF ReadFresh, Busy
    <3>2. status[job[h].pay] \in Statuses
      BY <3>1 DEF TypeOK, BusyJobs
    <3>3. [job[h] EXCEPT !.holds = status[job[h].pay], !.step = "webhook"] \in BusyJobs
      BY <3>1, <3>2 DEF BusyJobs, Steps
    <3>4. job' \in [Handlers -> BusyJobs \cup {Idle}]
      BY <2>3, <3>1, <3>3, GotoType DEF TypeOK, ReadFresh, Steps
    <3> QED
      BY <2>3, <3>4 DEF TypeOK, ReadFresh
  <2>4. CASE Commit(h)
    <3>1. job[h] \in BusyJobs /\ Busy(h)
      BY <2>4, BusyJob DEF Commit, Busy
    <3>2. job' \in [Handlers -> BusyJobs \cup {Idle}]
      BY <2>4, <3>1, GotoType DEF Commit, Steps
    <3>3. status' \in [Payments -> Statuses]
      BY <2>4, <3>1 DEF TypeOK, Commit, BusyJobs
    <3> QED
      BY <2>4, <3>2, <3>3 DEF TypeOK, Commit
  <2>5. CASE DatabaseFails(h)
    BY <2>5, GotoType DEF TypeOK, DatabaseFails, Busy, Steps
  <2>6. CASE WebhookDelivered(h)
    <3>1. job[h] \in BusyJobs /\ Busy(h)
      BY <2>6, BusyJob DEF WebhookDelivered, Busy
    <3>2. told' \in [Payments -> SUBSET Statuses]
      BY <2>6, <3>1 DEF TypeOK, WebhookDelivered, BusyJobs
    <3>3. job' \in [Handlers -> BusyJobs \cup {Idle}]
      BY <2>6, <3>1, GotoType DEF WebhookDelivered, Steps
    <3> QED
      BY <2>6, <3>2, <3>3 DEF TypeOK, WebhookDelivered
  <2>7. CASE WebhookFails(h)
    <3>1. job[h] \in BusyJobs /\ Busy(h)
      BY <2>7, BusyJob DEF WebhookFails, Busy
    <3>2. told' \in [Payments -> SUBSET Statuses]
      BY <2>7, <3>1 DEF TypeOK, WebhookFails, BusyJobs
    <3>3. job' \in [Handlers -> BusyJobs \cup {Idle}]
      <4>1. CASE job[h].tries + 1 = WebhookAttempts
        BY <2>7, <3>1, <4>1, GotoType DEF WebhookFails, Steps
      <4>2. CASE job[h].tries + 1 # WebhookAttempts
        <5>1. job[h].tries + 1 \in 0..(WebhookAttempts - 1)
          BY <3>1, <4>2, ConsumerAssumption DEF BusyJobs
        <5>2. [job[h] EXCEPT !.tries = @ + 1] \in BusyJobs
          BY <3>1, <5>1 DEF BusyJobs
        <5> QED
          BY <2>7, <4>2, <5>2 DEF TypeOK, WebhookFails
      <4> QED
        BY <4>1, <4>2
    <3> QED
      BY <2>7, <3>2, <3>3 DEF TypeOK, WebhookFails
  <2>8. CASE WebhookRaises(h)
    BY <2>8, GotoType DEF TypeOK, WebhookRaises, Busy, Steps
  <2>9. CASE RetryOrDeadLetter(h)
    <3>1. Busy(h) /\ job' \in [Handlers -> BusyJobs \cup {Idle}]
      BY <2>9, GotoType DEF RetryOrDeadLetter, Busy, Steps
    <3>2. msgs' \subseteq Messages /\ dlq' \subseteq DeadLetters
      BY <2>9, <3>1, PublishedType DEF RetryOrDeadLetter, Unroutable
    <3> QED
      BY <2>9, <3>1, <3>2 DEF TypeOK, RetryOrDeadLetter
  <2>10. CASE PublishFails(h)
    <3>1. Busy(h) /\ job' \in [Handlers -> BusyJobs \cup {Idle}]
      BY <2>10, GotoType DEF PublishFails, Busy, Steps
    <3>2. msgs' \subseteq Messages /\ dlq' \subseteq DeadLetters
      BY <2>10, <3>1, PublishedType DEF PublishFails
    <3> QED
      BY <2>10, <3>1, <3>2 DEF TypeOK, PublishFails
  <2>11. CASE Ack(h)
    BY <2>11 DEF TypeOK, Ack
  <2>12. CASE Nack(h)
    BY <2>12, ReturnUnackedType DEF TypeOK, Nack
  <2> QED
    BY <1>5, <2>1, <2>2, <2>3, <2>4, <2>5, <2>6, <2>7, <2>8, <2>9, <2>10, <2>11, <2>12
    DEF HandlerStep
<1>6. ASSUME NEW h \in Handlers, HandlerDies(h)
      PROVE  TypeOK'
  BY <1>6, ReturnUnackedType DEF TypeOK, HandlerDies
<1>7. ASSUME NEW h \in Handlers, ConnectionLost(h)
      PROVE  TypeOK'
  BY <1>7, ReturnUnackedType DEF TypeOK, ConnectionLost
<1>8. CASE UNCHANGED vars
  BY <1>8 DEF TypeOK, vars
<1> QED
  BY <1>1, <1>2, <1>3, <1>4, <1>5, <1>6, <1>7, <1>8 DEF Next, DeliverAny, TtlExpiresAny

\* Every variable keeps its type, for any payments, handlers, copies and limits.
THEOREM TypeCorrect == Spec => []TypeOK
BY TypeInit, TypeStep, PTL DEF Spec

----------------------------------------------------------------------------
(* Who holds an unacknowledged copy                                        *)

\* The handler that holds a copy is busy with it: its job is the copy's.
HeldByItsJob ==
  \A m \in msgs : m.at \in Handlers =>
    /\ Busy(m.at)
    /\ job[m.at].pay = m.pay
    /\ job[m.at].attempt = m.attempt
    /\ job[m.at].runs = m.runs

\* A step of a handler that leaves it busy does not change what it works on.
LEMMA KeepsJob ==
  ASSUME TypeOK, NEW h \in Handlers,
         HandlerStep(h), ~Ack(h), ~Nack(h)
  PROVE  /\ Busy(h) /\ job'[h].step # "idle"
         /\ job'[h].pay = job[h].pay
         /\ job'[h].attempt = job[h].attempt
         /\ job'[h].runs = job[h].runs
         /\ \A g \in Handlers : g # h => job'[g] = job[g]
<1>1. CASE GetPayment(h) \/ CallGateway(h) \/ ReadFresh(h)
  <2>1. job[h] \in BusyJobs /\ Busy(h)
    BY <1>1, BusyJob DEF GetPayment, CallGateway, ReadFresh, Busy
  <2>2. CASE GetPayment(h)
    BY <2>1, <2>2 DEF TypeOK, GetPayment, BusyJobs
  <2>3. CASE CallGateway(h)
    BY <2>1, <2>3 DEF TypeOK, CallGateway, BusyJobs
  <2>4. CASE ReadFresh(h)
    BY <2>1, <2>4 DEF TypeOK, ReadFresh, Goto, BusyJobs
  <2> QED
    BY <1>1, <2>2, <2>3, <2>4
<1>2. CASE WebhookFails(h)
  <2>1. job[h] \in BusyJobs /\ Busy(h)
    BY <1>2, BusyJob DEF WebhookFails, Busy
  <2> QED
    BY <1>2, <2>1 DEF TypeOK, WebhookFails, Goto, BusyJobs
<1>3. ASSUME NEW s \in Steps \ {"idle"}, Goto(h, s), Busy(h)
      PROVE  /\ job'[h].step # "idle"
             /\ job'[h].pay = job[h].pay
             /\ job'[h].attempt = job[h].attempt
             /\ job'[h].runs = job[h].runs
             /\ \A g \in Handlers : g # h => job'[g] = job[g]
  <2>1. job[h] \in BusyJobs
    BY <1>3, BusyJob
  <2> QED
    BY <1>3, <2>1 DEF TypeOK, Goto, BusyJobs
<1>4. CASE Commit(h) \/ DatabaseFails(h) \/ WebhookDelivered(h) \/ WebhookRaises(h)
  BY <1>3, <1>4 DEF Commit, DatabaseFails, WebhookDelivered, WebhookRaises, Busy, Steps
<1>5. CASE RetryOrDeadLetter(h) \/ PublishFails(h)
  BY <1>3, <1>5 DEF RetryOrDeadLetter, PublishFails, Busy, Steps
<1> QED
  BY <1>1, <1>2, <1>4, <1>5 DEF HandlerStep

\* What such a step adds to the broker's queues is not held by a handler.
LEMMA KeepsHeld ==
  ASSUME TypeOK, NEW h \in Handlers,
         HandlerStep(h), ~Ack(h), ~Nack(h)
  PROVE  /\ msgs \subseteq msgs'
         /\ \A m \in msgs' : m \in msgs \/ m.at = "retry"
<1>1. Republish(h) => /\ msgs \subseteq msgs'
                      /\ \A m \in msgs' : m \in msgs \/ m.at = "retry"
  BY DEF Republish
<1> QED
  BY <1>1 DEF HandlerStep, GetPayment, CallGateway, ReadFresh, Commit, DatabaseFails,
     WebhookDelivered, WebhookFails, WebhookRaises, RetryOrDeadLetter, PublishFails,
     DeadLetter, Unroutable, broker

\* After its copy went back, a handler holds nothing and the others hold the same.
LEMMA ReturnUnackedHeld ==
  ASSUME TypeOK, NEW h \in Handlers, ReturnUnacked(h)
  PROVE  \A m \in msgs' : m.at \in Handlers => m \in msgs /\ m.at # h
<1>1. ASSUME NEW m \in msgs
      PROVE  [m EXCEPT !.at = "ready", !.returns = @ + 1].at = "ready"
  <2>1. m \in Messages
    BY DEF TypeOK
  <2> QED
    BY <2>1 DEF Messages
<1> QED
  BY <1>1, ConsumerAssumption DEF ReturnUnacked, Unacked

LEMMA HeldStep == TypeOK /\ HeldByItsJob /\ [Next]_vars => HeldByItsJob'
<1> SUFFICES ASSUME TypeOK, HeldByItsJob, [Next]_vars
             PROVE  HeldByItsJob'
  OBVIOUS
<1>1. ASSUME NEW p \in Payments, Arrive(p)
      PROVE  HeldByItsJob'
  BY <1>1, ConsumerAssumption DEF Arrive, HeldByItsJob, Busy
<1>2. CASE DeclareTopology
  BY <1>2 DEF DeclareTopology, HeldByItsJob, Busy
<1>3. ASSUME NEW x \in msgs, TtlExpires(x)
      PROVE  HeldByItsJob'
  <2>1. [x EXCEPT !.at = "ready", !.returns = 0].at = "ready"
    BY DEF TypeOK, Messages
  <2> QED
    BY <1>3, <2>1, ConsumerAssumption DEF TtlExpires, HeldByItsJob, Busy
<1>4. ASSUME NEW h \in Handlers, NEW x \in msgs, Deliver(h, x)
      PROVE  HeldByItsJob'
  <2> DEFINE y == [x EXCEPT !.at = h, !.runs = @ + 1]
  <2>1. x \in Messages
    BY DEF TypeOK
  <2>2. y.at = h /\ y.pay = x.pay /\ y.attempt = x.attempt /\ y.runs = x.runs + 1
    BY <2>1 DEF Messages
  <2>3. job'[h] = Start(x) /\ \A g \in Handlers : g # h => job'[g] = job[g]
    BY <1>4 DEF Deliver, TypeOK
  <2>4. msgs' = (msgs \ {x}) \cup {y} /\ ~Busy(h)
    BY <1>4 DEF Deliver
  <2> HIDE DEF y
  <2> QED
    BY <2>2, <2>3, <2>4 DEF HeldByItsJob, Busy, Start
<1>5. ASSUME NEW h \in Handlers, HandlerStep(h), ~Ack(h), ~Nack(h)
      PROVE  HeldByItsJob'
  BY <1>5, KeepsJob, KeepsHeld, ConsumerAssumption DEF HeldByItsJob, Busy
<1>6. ASSUME NEW h \in Handlers, Ack(h)
      PROVE  HeldByItsJob'
  BY <1>6 DEF Ack, Unacked, HeldByItsJob, Busy, TypeOK
<1>7. ASSUME NEW h \in Handlers, Nack(h) \/ HandlerDies(h)
      PROVE  HeldByItsJob'
  BY <1>7, ReturnUnackedHeld DEF Nack, HandlerDies, HeldByItsJob, Busy, TypeOK
<1>8. ASSUME NEW h \in Handlers, ConnectionLost(h)
      PROVE  HeldByItsJob'
  BY <1>8, ReturnUnackedHeld DEF ConnectionLost, HeldByItsJob, Busy
<1>9. CASE UNCHANGED vars
  BY <1>9 DEF vars, HeldByItsJob, Busy
<1> QED
  BY <1>1, <1>2, <1>3, <1>4, <1>5, <1>6, <1>7, <1>8, <1>9
  DEF Next, DeliverAny, TtlExpiresAny

LEMMA HeldCorrect == Spec => []HeldByItsJob
<1>1. Init => HeldByItsJob
  BY DEF Init, HeldByItsJob
<1> QED
  BY <1>1, HeldStep, TypeCorrect, PTL DEF Spec

----------------------------------------------------------------------------
(* The order of the declarations                                           *)

\* Nothing but declare_payment_topology declares anything.
LEMMA DeclaredGrows ==
  ASSUME [Next]_vars
  PROVE  DeclareTopology \/ declared' = declared
BY DEF Next, DeliverAny, TtlExpiresAny, HandlerStep, Arrive, TtlExpires, Deliver, GetPayment,
   CallGateway, ReadFresh, Commit, DatabaseFails, WebhookDelivered, WebhookFails, WebhookRaises,
   RetryOrDeadLetter, PublishFails, Ack, Nack, HandlerDies, ConnectionLost, broker, vars

\* A copy beyond the first attempt came through a retry queue, so the DLQ is bound.
LaterHaveDlq ==
  /\ \A m \in msgs : m.attempt > 1 => HasDlq
  /\ \A h \in Handlers : job[h].attempt > 1 => HasDlq

\* Every step keeps it.
LEMMA LaterStep == TypeOK /\ LaterHaveDlq /\ [Next]_vars => LaterHaveDlq'
<1> SUFFICES ASSUME TypeOK, LaterHaveDlq, [Next]_vars
             PROVE  LaterHaveDlq'
  OBVIOUS
<1>1. CASE HasDlq
  <2>1. HasDlq'
    BY <1>1, DeclaredGrows DEF HasDlq, DeclareTopology, TypeOK
  <2> QED
    BY <2>1 DEF LaterHaveDlq
<1>2. CASE ~HasDlq
  <2>1. /\ \A m \in msgs : ~(m.attempt > 1)
        /\ \A h \in Handlers : ~(job[h].attempt > 1)
    BY <1>2 DEF LaterHaveDlq
  <2>2. ASSUME NEW h \in Handlers, Busy(h)
        PROVE  ~Republish(h)
    <3>1. job[h].attempt \in 1..TotalAttempts
      BY <2>2, BusyJob DEF BusyJobs
    <3> QED
      BY <1>2, <3>1, ConsumerAssumption DEF Republish, QueueBound, HasRetry, HasDlq, TypeOK
  <2>3. ASSUME NEW p \in Payments, Arrive(p)
        PROVE  LaterHaveDlq'
    BY <2>1, <2>3 DEF Arrive, LaterHaveDlq
  <2>4. CASE DeclareTopology \/ UNCHANGED vars
    BY <2>1, <2>4 DEF DeclareTopology, vars, LaterHaveDlq
  <2>5. ASSUME NEW m \in msgs, TtlExpires(m)
        PROVE  LaterHaveDlq'
    <3>1. [m EXCEPT !.at = "ready", !.returns = 0].attempt = m.attempt
      BY DEF TypeOK, Messages
    <3> QED
      BY <2>1, <2>5, <3>1 DEF TtlExpires, LaterHaveDlq
  <2>6. ASSUME NEW h \in Handlers, NEW m \in msgs, Deliver(h, m)
        PROVE  LaterHaveDlq'
    <3>1. [m EXCEPT !.at = h, !.runs = @ + 1].attempt = m.attempt
      BY DEF TypeOK, Messages
    <3>2. job'[h].attempt = m.attempt /\ \A g \in Handlers : g # h => job'[g] = job[g]
      BY <2>6 DEF Deliver, Start, TypeOK
    <3>3. \A x \in msgs' : ~(x.attempt > 1)
      BY <2>1, <2>6, <3>1 DEF Deliver
    <3> QED
      BY <2>1, <3>2, <3>3 DEF LaterHaveDlq
  <2>7. ASSUME NEW h \in Handlers, ReturnUnacked(h)
        PROVE  \A x \in msgs' : ~(x.attempt > 1)
    <3> DEFINE back(m) == [m EXCEPT !.at = "ready", !.returns = @ + 1]
    <3>1. \A m \in msgs : back(m).attempt = m.attempt
      BY DEF TypeOK, Messages
    <3>2. \A x \in msgs' : x \in msgs \/ \E m \in msgs : x = back(m)
      BY <2>7 DEF ReturnUnacked, Unacked
    <3> HIDE DEF back
    <3> QED
      BY <2>1, <3>1, <3>2
  <2>8. ASSUME NEW h \in Handlers, job' = [job EXCEPT ![h] = Idle]
        PROVE  \A g \in Handlers : ~(job'[g].attempt > 1)
    BY <2>1, <2>8 DEF Idle, TypeOK
  <2>9. ASSUME NEW h \in Handlers, Nack(h) \/ HandlerDies(h) \/ ConnectionLost(h) \/ Ack(h)
        PROVE  LaterHaveDlq'
    BY <2>1, <2>7, <2>8, <2>9 DEF Nack, HandlerDies, ConnectionLost, Ack, LaterHaveDlq
  <2>10. ASSUME NEW h \in Handlers, HandlerStep(h), ~Ack(h), ~Nack(h)
         PROVE  LaterHaveDlq'
    <3>1. /\ Busy(h) /\ job'[h].attempt = job[h].attempt
          /\ \A g \in Handlers : g # h => job'[g] = job[g]
      BY <2>10, KeepsJob
    <3>2. msgs' = msgs
      BY <2>2, <2>10, <3>1 DEF HandlerStep, GetPayment, CallGateway, ReadFresh, Commit,
         DatabaseFails, WebhookDelivered, WebhookFails, WebhookRaises, RetryOrDeadLetter,
         PublishFails, DeadLetter, Unroutable, broker
    <3> QED
      BY <2>1, <3>1, <3>2 DEF LaterHaveDlq
  <2> QED
    BY <2>3, <2>4, <2>5, <2>6, <2>9, <2>10 DEF Next, DeliverAny, TtlExpiresAny
<1> QED
  BY <1>1, <1>2

\* declare_payment_topology binds the DLQ before the retry queues, so a handler that
\* gives up on a message finds it, from the first start on.
THEOREM GivingUpFindsTheDlq == Spec => []DlqBoundInTime
<1>1. Init => LaterHaveDlq
  BY DEF Init, LaterHaveDlq, Idle
<1>2. TypeOK /\ LaterHaveDlq => DlqBoundInTime
  <2> SUFFICES ASSUME TypeOK, LaterHaveDlq, TotalAttempts > 1,
                      NEW h \in Handlers, job[h].attempt >= TotalAttempts
               PROVE  HasDlq
    BY DEF DlqBoundInTime
  <2>1. job[h].attempt \in Int
    BY DEF TypeOK, BusyJobs, Idle
  <2> QED
    BY <2>1, ConsumerAssumption DEF LaterHaveDlq
<1> QED
  BY <1>1, <1>2, LaterStep, TypeCorrect, PTL DEF Spec

----------------------------------------------------------------------------
(* No payment is lost                                                      *)

\* What has been accepted or dead-lettered stays so.
LEMMA OutcomesStay ==
  ASSUME TypeOK, [Next]_vars, NEW p \in Payments
  PROVE  (notified[p] => notified'[p]) /\ dlq \subseteq dlq'
<1> USE DEF broker, history
<1>1. ASSUME NEW h \in Handlers, HandlerStep(h)
      PROVE  (notified[p] => notified'[p]) /\ dlq \subseteq dlq'
  <2>1. CASE WebhookDelivered(h)
    BY <2>1 DEF WebhookDelivered, TypeOK
  <2>2. CASE RetryOrDeadLetter(h) \/ PublishFails(h)
    BY <2>2 DEF RetryOrDeadLetter, PublishFails, Republish, DeadLetter, Unroutable
  <2>3. CASE Nack(h)
    BY <2>3 DEF Nack, ReturnUnacked
  <2> QED
    BY <1>1, <2>1, <2>2, <2>3 DEF HandlerStep, GetPayment, CallGateway, ReadFresh, Commit,
       DatabaseFails, WebhookFails, WebhookRaises, Ack
<1> QED
  BY <1>1 DEF Next, DeliverAny, TtlExpiresAny, Arrive, DeclareTopology, TtlExpires, Deliver,
     HandlerDies, ConnectionLost, ReturnUnacked, vars

\* Once all is declared, every publication finds its queue.
LEMMA AllBound ==
  ASSUME TypeOK, declared = AllDeclared
  PROVE  HasDlq /\ \A h \in Handlers : Busy(h) => QueueBound(h)
<1>1. HasDlq
  BY ConsumerAssumption DEF AllDeclared, HasDlq
<1>2. ASSUME NEW h \in Handlers, Busy(h)
      PROVE  QueueBound(h)
  <2>1. job[h].attempt \in 1..TotalAttempts
    BY <1>2, BusyJob DEF BusyJobs
  <2> QED
    BY <1>1, <2>1, ConsumerAssumption DEF QueueBound, AllDeclared, HasRetry
<1> QED
  BY <1>1, <1>2

\* A returned copy is back in payments.new or in the DLQ, which exists.
LEMMA ReturnUnackedKeeps ==
  ASSUME TypeOK, declared = AllDeclared, NEW h \in Handlers, ReturnUnacked(h), NEW m \in msgs
  PROVE  \/ m \in msgs' /\ m.at # h
         \/ \E d \in dlq' : d.pay = m.pay
         \/ \E n \in msgs' : n.pay = m.pay /\ n.at = "ready"
<1>1. m \in Messages
  BY DEF TypeOK
<1>2. CASE m \notin Unacked(h)
  BY <1>2 DEF ReturnUnacked, Unacked
<1>3. CASE m \in Unacked(h) /\ m.returns < DeliveryLimit
  <2> DEFINE n == [m EXCEPT !.at = "ready", !.returns = @ + 1]
  <2>1. n \in msgs'
    BY <1>3 DEF ReturnUnacked
  <2>2. n.pay = m.pay /\ n.at = "ready"
    BY <1>1 DEF Messages
  <2> QED
    BY <2>1, <2>2
<1>4. CASE m \in Unacked(h) /\ ~(m.returns < DeliveryLimit)
  <2>1. Dead(m) \in dlq'
    BY <1>4, AllBound DEF ReturnUnacked
  <2> QED
    BY <2>1 DEF Dead
<1> QED
  BY <1>2, <1>3, <1>4

\* A handler comes to acknowledge its copy in two ways only: the client accepted
\* the webhook, or the message was published for the next attempt or to the DLX.
LEMMA AcknowledgedBecause ==
  ASSUME TypeOK, NEW h \in Handlers, HandlerStep(h), Busy(h),
         job[h].step # "ack", job'[h].step = "ack"
  PROVE  WebhookDelivered(h) \/ RetryOrDeadLetter(h)
<1>1. job[h] \in BusyJobs
  BY BusyJob
<1>2. ASSUME NEW s, Goto(h, s), s # "ack"
      PROVE  FALSE
  BY <1>1, <1>2 DEF Goto, TypeOK, BusyJobs
<1>3. ~GetPayment(h)
  BY <1>1 DEF GetPayment, TypeOK, BusyJobs
<1>4. ~CallGateway(h)
  <2> SUFFICES ASSUME NEW result,
                      job' = [job EXCEPT ![h].holds = result, ![h].step = "fresh"]
               PROVE  FALSE
    BY DEF CallGateway
  <2>1. job'[h].step = "fresh"
    BY <1>1 DEF TypeOK, BusyJobs
  <2> QED
    BY <2>1
<1>5. ~ReadFresh(h)
  BY <1>1, <1>2 DEF ReadFresh, TypeOK, BusyJobs
<1>6. ~WebhookFails(h)
  BY <1>1, <1>2 DEF WebhookFails, TypeOK, BusyJobs
<1>7. ~(Commit(h) \/ DatabaseFails(h) \/ WebhookRaises(h) \/ PublishFails(h))
  BY <1>2 DEF Commit, DatabaseFails, WebhookRaises, PublishFails
<1>8. ~(Ack(h) \/ Nack(h))
  BY DEF Ack, Nack, TypeOK, Idle
<1> QED
  BY <1>3, <1>4, <1>5, <1>6, <1>7, <1>8 DEF HandlerStep

\* Once the topology is declared no step loses a payment's message.
LEMMA KeptStep ==
  ASSUME TypeOK, HeldByItsJob, [Next]_vars, declared = AllDeclared,
         NEW p \in Payments, Kept(p)
  PROVE  Kept(p)'
<1>1. CASE notified[p] \/ \E d \in dlq : d.pay = p
  BY <1>1, OutcomesStay DEF Kept
<1>2. ASSUME NEW m \in msgs, m.pay = p, Pending(m)
      PROVE  Kept(p)'
  <2>1. ASSUME NEW q \in Payments, Arrive(q)
        PROVE  Kept(p)'
    BY <1>2, <2>1 DEF Arrive, Kept, Pending
  <2>2. CASE DeclareTopology
    BY <1>2, <2>2 DEF DeclareTopology, Kept, Pending
  <2>3. ASSUME NEW x \in msgs, TtlExpires(x)
        PROVE  Kept(p)'
    <3> DEFINE y == [x EXCEPT !.at = "ready", !.returns = 0]
    <3>1. y.at = "ready" /\ y.pay = x.pay
      BY DEF TypeOK, Messages
    <3>2. msgs' = (msgs \ {x}) \cup {y} /\ job' = job
      BY <2>3 DEF TtlExpires
    <3> HIDE DEF y
    <3> QED
      BY <1>2, <3>1, <3>2, ConsumerAssumption DEF Kept, Pending
  <2>4. ASSUME NEW h \in Handlers, NEW x \in msgs, Deliver(h, x)
        PROVE  Kept(p)'
    <3> DEFINE y == [x EXCEPT !.at = h, !.runs = @ + 1]
    <3>1. y.at = h /\ y.pay = x.pay
      BY DEF TypeOK, Messages
    <3>2. msgs' = (msgs \ {x}) \cup {y}
      BY <2>4 DEF Deliver
    <3>3. job'[h].step = "read" /\ \A g \in Handlers : g # h => job'[g] = job[g]
      BY <2>4 DEF Deliver, TypeOK, Start
    <3> HIDE DEF y
    <3> QED
      BY <1>2, <3>1, <3>2, <3>3 DEF Kept, Pending
  <2>5. ASSUME NEW h \in Handlers, HandlerStep(h), ~Ack(h), ~Nack(h)
        PROVE  Kept(p)'
    <3>1. \A g \in Handlers : g # h => job'[g] = job[g]
      BY <2>5, KeepsJob
    <3>2. m \in msgs'
      BY <2>5, KeepsHeld
    <3>3. CASE m.at # h \/ job'[h].step # "ack"
      BY <1>2, <3>1, <3>2, <3>3 DEF Kept, Pending
    <3>4. CASE m.at = h /\ job'[h].step = "ack"
      <4>1. Busy(h) /\ job[h].pay = p /\ job[h].step # "ack" /\ job[h] \in BusyJobs
        BY <1>2, <3>4, BusyJob DEF HeldByItsJob, Pending
      <4>2. CASE WebhookDelivered(h)
        BY <4>1, <4>2 DEF WebhookDelivered, Kept, TypeOK
      <4>3. CASE RetryOrDeadLetter(h)
        <5>1. CASE Republish(h)
          <6>1. PICK id \in FreeIds :
                  msgs' = msgs \cup
                    {[id |-> id, pay |-> job[h].pay, attempt |-> job[h].attempt + 1,
                      returns |-> 0, runs |-> job[h].runs, at |-> "retry"]}
            BY <5>1 DEF Republish
          <6> DEFINE n == [id |-> id, pay |-> job[h].pay, attempt |-> job[h].attempt + 1,
                           returns |-> 0, runs |-> job[h].runs, at |-> "retry"]
          <6>2. n \in msgs' /\ n.pay = p /\ n.at = "retry"
            BY <4>1, <6>1
          <6> HIDE DEF n
          <6> QED
            BY <6>2, ConsumerAssumption DEF Kept, Pending
        <5>2. CASE DeadLetter(h)
          <6>1. Dead(job[h]) \in dlq' /\ Dead(job[h]).pay = p
            BY <4>1, <5>2 DEF DeadLetter, Dead
          <6> QED
            <7>1. (\E d \in dlq : d.pay = p)'
              BY <6>1
            <7> QED
              BY <7>1 DEF Kept
        <5>3. ~Unroutable(h)
          BY <4>1, AllBound DEF Unroutable
        <5> QED
          BY <4>3, <5>1, <5>2, <5>3 DEF RetryOrDeadLetter
      <4> QED
        BY <2>5, <3>4, <4>1, <4>2, <4>3, AcknowledgedBecause
    <3> QED
      BY <3>3, <3>4
  <2>6. ASSUME NEW h \in Handlers, Ack(h)
        PROVE  Kept(p)'
    <3>1. m \in msgs' /\ m.at # h
      BY <1>2, <2>6 DEF Ack, Unacked, Pending
    <3> QED
      BY <1>2, <2>6, <3>1 DEF Ack, Kept, Pending, TypeOK
  <2>7. ASSUME NEW h \in Handlers, Nack(h) \/ HandlerDies(h) \/ ConnectionLost(h)
        PROVE  Kept(p)'
    <3>1. ReturnUnacked(h) /\ \A g \in Handlers : g # h => job'[g] = job[g]
      BY <2>7 DEF Nack, HandlerDies, ConnectionLost, TypeOK
    <3>2. \/ m \in msgs' /\ m.at # h
          \/ \E d \in dlq' : d.pay = p
          \/ \E n \in msgs' : n.pay = p /\ n.at = "ready"
      BY <1>2, <3>1, ReturnUnackedKeeps
    <3> QED
      BY <1>2, <3>1, <3>2, ConsumerAssumption DEF Kept, Pending
  <2>8. CASE UNCHANGED vars
    BY <1>2, <2>8 DEF vars, Kept, Pending
  <2> QED
    BY <2>1, <2>2, <2>3, <2>4, <2>5, <2>6, <2>7, <2>8 DEF Next, DeliverAny, TtlExpiresAny
<1> QED
  BY <1>1, <1>2 DEF Kept

\* What KeptOnceDeclared says of every step, whether or not the broker was fresh.
THEOREM NothingLostOnceDeclared == Spec => KeptOnceDeclared
<1>1. TypeOK /\ HeldByItsJob /\ [Next]_vars
        => [\A p \in Payments : declared = AllDeclared /\ Kept(p) => Kept(p)']_vars
  BY KeptStep
<1> QED
  BY <1>1, TypeCorrect, HeldCorrect, PTL DEF Spec, KeptOnceDeclared

\* On a broker that knows the topology, a payment whose event was published is
\* never lost: NoPaymentLost, for any number of handlers, copies and failures.
THEOREM PublishedIsKept ==
  ASSUME ~FreshBroker
  PROVE  Spec => []NoPaymentLost
<1> DEFINE Inv == declared = AllDeclared /\ NoPaymentLost
<1>1. Init => Inv
  <2>1. Init => declared = AllDeclared
    BY DEF Init
  <2>2. Init => NoPaymentLost
    BY DEF Init, NoPaymentLost
  <2> QED
    BY <2>1, <2>2
<1>2. TypeOK /\ HeldByItsJob /\ Inv /\ [Next]_vars => Inv'
  <2> SUFFICES ASSUME TypeOK, HeldByItsJob, Inv, [Next]_vars
               PROVE  Inv'
    OBVIOUS
  <2>1. declared' = AllDeclared
    <3>1. AllDeclared \in Nat
      BY ConsumerAssumption DEF AllDeclared
    <3> QED
      BY <3>1, DeclaredGrows DEF DeclareTopology
  <2>2. ASSUME NEW p \in Payments, published'[p] > 0
        PROVE  Kept(p)'
    <3>1. CASE published[p] > 0
      BY <3>1, KeptStep DEF NoPaymentLost
    <3>2. CASE ~(published[p] > 0)
      <4>1. Arrive(p)
        <5>1. published' # published
          BY <2>2, <3>2
        <5>2. PICK q \in Payments : Arrive(q)
          BY <5>1 DEF Next, DeliverAny, TtlExpiresAny, HandlerStep, DeclareTopology,
             TtlExpires, Deliver, GetPayment, CallGateway, ReadFresh, Commit, DatabaseFails,
             WebhookDelivered, WebhookFails, WebhookRaises, RetryOrDeadLetter, PublishFails,
             Ack, Nack, HandlerDies, ConnectionLost, broker, vars
        <5> QED
          BY <2>2, <3>2, <5>2 DEF Arrive, TypeOK
      <4>2. PICK id \in FreeIds :
              msgs' = msgs \cup {[id |-> id, pay |-> p, attempt |-> 1, returns |-> 0,
                                  runs |-> 0, at |-> "ready"]}
        BY <4>1 DEF Arrive
      <4> DEFINE n == [id |-> id, pay |-> p, attempt |-> 1, returns |-> 0,
                       runs |-> 0, at |-> "ready"]
      <4>3. n \in msgs' /\ n.pay = p /\ n.at = "ready"
        BY <4>2
      <4> HIDE DEF n
      <4> QED
        BY <4>3, ConsumerAssumption DEF Kept, Pending
    <3> QED
      BY <3>1, <3>2
  <2> QED
    BY <2>1, <2>2 DEF NoPaymentLost
<1>3. Inv => NoPaymentLost
  OBVIOUS
<1> QED
  BY <1>1, <1>2, <1>3, TypeCorrect, HeldCorrect, PTL DEF Spec

----------------------------------------------------------------------------
(* The processing budget                                                   *)

\* 1 for the delivery under way of a copy that a handler holds.
UnderWay(m) == IF m.at \in Handlers THEN 1 ELSE 0

\* Every delivery is either an attempt already counted in the body, a return
\* counted by the queue, or under way; an attempt takes TotalAttempts of them
\* at most.
MsgRuns ==
  \A m \in msgs :
    /\ (m.attempt - 1) + m.returns + UnderWay(m) <= m.runs
    /\ m.runs <= (m.attempt - 1) * TotalAttempts + m.returns + UnderWay(m)
    /\ m.at = "retry" => m.returns = 0

JobRuns ==
  \A h \in Handlers : Busy(h) =>
    /\ job[h].attempt <= job[h].runs
    /\ job[h].runs <= job[h].attempt * TotalAttempts

RunsInv == MsgRuns /\ JobRuns /\ DeadOnlyAfterAllAttempts

LEMMA ReturnUnackedRuns ==
  ASSUME TypeOK, RunsInv, NEW h \in Handlers, ReturnUnacked(h)
  PROVE  MsgRuns' /\ DeadOnlyAfterAllAttempts'
<1>1. ASSUME NEW m \in Unacked(h)
      PROVE  /\ m \in Messages /\ UnderWay(m) = 1
             /\ (m.attempt - 1) + m.returns + 1 <= m.runs
             /\ m.runs <= (m.attempt - 1) * TotalAttempts + m.returns + 1
  BY DEF RunsInv, MsgRuns, UnderWay, Unacked, TypeOK
<1>2. ASSUME NEW m \in Unacked(h)
      PROVE  LET n == [m EXCEPT !.at = "ready", !.returns = @ + 1] IN
             /\ n.at = "ready" /\ UnderWay(n) = 0
             /\ n.attempt = m.attempt /\ n.runs = m.runs /\ n.returns = m.returns + 1
  BY <1>1, ConsumerAssumption DEF UnderWay, Messages
<1>3. ASSUME NEW m \in Unacked(h), ~(m.returns < DeliveryLimit)
      PROVE  Dead(m).runs >= TotalAttempts
  BY <1>1, <1>3, ConsumerAssumption DEF Dead, DeliveryLimit, Messages
<1>4. DeadOnlyAfterAllAttempts'
  BY <1>3 DEF RunsInv, DeadOnlyAfterAllAttempts, ReturnUnacked
<1>5. ASSUME NEW n \in msgs'
      PROVE  /\ (n.attempt - 1) + n.returns + UnderWay(n) <= n.runs
             /\ n.runs <= (n.attempt - 1) * TotalAttempts + n.returns + UnderWay(n)
             /\ n.at = "retry" => n.returns = 0
  <2>1. CASE n \in msgs
    BY <2>1 DEF RunsInv, MsgRuns
  <2>2. CASE n \notin msgs
    <3>1. PICK m \in Unacked(h) : n = [m EXCEPT !.at = "ready", !.returns = @ + 1]
      BY <2>2 DEF ReturnUnacked
    <3>2. /\ n.at = "ready" /\ UnderWay(n) = 0
          /\ n.attempt = m.attempt /\ n.runs = m.runs /\ n.returns = m.returns + 1
      BY <1>2, <3>1
    <3> DEFINE a == (m.attempt - 1) * TotalAttempts
    <3>3. a \in Int /\ m.returns \in Int /\ m.attempt \in Int /\ m.runs \in Int
      BY <1>1, ConsumerAssumption DEF Messages
    <3>4. (m.attempt - 1) + m.returns + 1 <= m.runs /\ m.runs <= a + m.returns + 1
      BY <1>1
    <3>5. (n.attempt - 1) * TotalAttempts = a
      BY <3>2
    <3> HIDE DEF a
    <3> QED
      BY <3>2, <3>3, <3>4, <3>5
  <2> QED
    BY <2>1, <2>2
<1> QED
  BY <1>4, <1>5 DEF MsgRuns, UnderWay

LEMMA RunsStep == TypeOK /\ HeldByItsJob /\ RunsInv /\ [Next]_vars => RunsInv'
<1> SUFFICES ASSUME TypeOK, HeldByItsJob, RunsInv, [Next]_vars
             PROVE  RunsInv'
  OBVIOUS
<1>1. ASSUME NEW p \in Payments, Arrive(p)
      PROVE  RunsInv'
  <2>1. PICK id \in FreeIds :
          msgs' = msgs \cup {[id |-> id, pay |-> p, attempt |-> 1, returns |-> 0,
                              runs |-> 0, at |-> "ready"]}
    BY <1>1 DEF Arrive
  <2> DEFINE n == [id |-> id, pay |-> p, attempt |-> 1, returns |-> 0,
                   runs |-> 0, at |-> "ready"]
  <2>2. UnderWay(n) = 0 /\ n.attempt = 1 /\ n.returns = 0 /\ n.runs = 0
    BY ConsumerAssumption DEF UnderWay
  <2>3. (1 - 1) * TotalAttempts = 0
    BY ConsumerAssumption
  <2>4. /\ (n.attempt - 1) + n.returns + UnderWay(n) <= n.runs
        /\ n.runs <= (n.attempt - 1) * TotalAttempts + n.returns + UnderWay(n)
        /\ n.returns = 0
    BY <2>2, <2>3
  <2>5. \A m \in msgs' : m \in msgs \/ m = n
    BY <2>1
  <2> HIDE DEF n
  <2>6. MsgRuns'
    BY <2>4, <2>5 DEF RunsInv, MsgRuns, UnderWay
  <2> QED
    BY <1>1, <2>6 DEF Arrive, RunsInv, JobRuns, Busy, DeadOnlyAfterAllAttempts
<1>2. CASE DeclareTopology
  BY <1>2 DEF DeclareTopology, RunsInv, MsgRuns, JobRuns, Busy, UnderWay,
              DeadOnlyAfterAllAttempts
<1>3. ASSUME NEW x \in msgs, TtlExpires(x)
      PROVE  RunsInv'
  <2> DEFINE y == [x EXCEPT !.at = "ready", !.returns = 0]
  <2>1. x \in Messages
    BY DEF TypeOK
  <2>2. /\ y.at = "ready" /\ UnderWay(y) = 0 /\ UnderWay(x) = 0
        /\ y.attempt = x.attempt /\ y.runs = x.runs /\ y.returns = 0 /\ x.returns = 0
    BY <1>3, <2>1, ConsumerAssumption DEF TtlExpires, UnderWay, Messages, RunsInv, MsgRuns
  <2>3. \A m \in msgs' : m \in msgs \/ m = y
    BY <1>3 DEF TtlExpires
  <2> HIDE DEF y
  <2>4. MsgRuns'
    BY <2>2, <2>3 DEF RunsInv, MsgRuns, UnderWay
  <2> QED
    BY <1>3, <2>4 DEF TtlExpires, RunsInv, JobRuns, Busy, DeadOnlyAfterAllAttempts
<1>4. ASSUME NEW h \in Handlers, NEW x \in msgs, Deliver(h, x)
      PROVE  RunsInv'
  <2> DEFINE y == [x EXCEPT !.at = h, !.runs = @ + 1]
             a == (x.attempt - 1) * TotalAttempts
  <2>1. x \in Messages
    BY DEF TypeOK
  <2>2. /\ y.at = h /\ UnderWay(y) = 1 /\ UnderWay(x) = 0 /\ y.at # "retry"
        /\ y.attempt = x.attempt /\ y.runs = x.runs + 1 /\ y.returns = x.returns
    BY <1>4, <2>1, ConsumerAssumption DEF Deliver, UnderWay, Messages
  <2>3. \A m \in msgs' : m \in msgs \/ m = y
    BY <1>4 DEF Deliver
  <2>4. /\ a \in Int /\ x.returns \in Int /\ x.attempt \in Int /\ x.runs \in Int
        /\ x.returns >= 0 /\ x.returns <= TotalAttempts - 1
    BY <2>1, ConsumerAssumption DEF Messages, DeliveryLimit
  <2>5. (x.attempt - 1) + x.returns <= x.runs /\ x.runs <= a + x.returns
    BY <2>2, <2>4 DEF RunsInv, MsgRuns
  <2>6. x.attempt * TotalAttempts = a + TotalAttempts /\ TotalAttempts \in Int
    BY <2>4, ConsumerAssumption
  <2>7. (y.attempt - 1) * TotalAttempts = a
    BY <2>2
  <2>8. job'[h] = Start(x) /\ \A g \in Handlers : g # h => job'[g] = job[g]
    BY <1>4 DEF Deliver, TypeOK
  <2>9. dlq' = dlq
    BY <1>4 DEF Deliver
  <2> HIDE DEF y, a
  <2>10. /\ (y.attempt - 1) + y.returns + 1 <= y.runs
         /\ y.runs <= (y.attempt - 1) * TotalAttempts + y.returns + 1
    BY <2>2, <2>4, <2>5, <2>7
  <2>11. MsgRuns'
    BY <2>2, <2>3, <2>10 DEF RunsInv, MsgRuns, UnderWay
  <2>12. x.attempt <= x.runs + 1 /\ x.runs + 1 <= x.attempt * TotalAttempts
    BY <2>4, <2>5, <2>6
  <2>13. JobRuns'
    BY <2>8, <2>12 DEF RunsInv, JobRuns, Busy, Start
  <2> QED
    BY <2>9, <2>11, <2>13 DEF RunsInv, DeadOnlyAfterAllAttempts
<1>5. ASSUME NEW h \in Handlers, HandlerStep(h), ~Ack(h), ~Nack(h)
      PROVE  RunsInv'
  <2>1. JobRuns'
    BY <1>5, KeepsJob DEF RunsInv, JobRuns, Busy
  <2>2. Busy(h) /\ job[h] \in BusyJobs
    BY <1>5, KeepsJob, BusyJob
  <2>3. CASE Republish(h) /\ dlq' = dlq
    <3>1. PICK id \in FreeIds :
            msgs' = msgs \cup {[id |-> id, pay |-> job[h].pay, attempt |-> job[h].attempt + 1,
                                returns |-> 0, runs |-> job[h].runs, at |-> "retry"]}
      BY <2>3 DEF Republish
    <3> DEFINE n == [id |-> id, pay |-> job[h].pay, attempt |-> job[h].attempt + 1,
                     returns |-> 0, runs |-> job[h].runs, at |-> "retry"]
    <3>2. /\ n.at = "retry" /\ UnderWay(n) = 0
          /\ n.attempt = job[h].attempt + 1 /\ n.returns = 0 /\ n.runs = job[h].runs
      BY ConsumerAssumption DEF UnderWay
    <3>3. \A m \in msgs' : m \in msgs \/ m = n
      BY <3>1
    <3>4. job[h].attempt \in Int /\ job[h].runs \in Int
      BY <2>2, ConsumerAssumption DEF BusyJobs
    <3>5. job[h].attempt <= job[h].runs /\ job[h].runs <= job[h].attempt * TotalAttempts
      BY <2>2 DEF RunsInv, JobRuns
    <3> HIDE DEF n
    <3>6. n.attempt - 1 = job[h].attempt
      BY <3>2, <3>4
    <3>7. (n.attempt - 1) * TotalAttempts = job[h].attempt * TotalAttempts
      BY <3>6
    <3>8. job[h].attempt * TotalAttempts \in Int
      BY <3>4, ConsumerAssumption
    <3>9. /\ (n.attempt - 1) + n.returns + UnderWay(n) <= n.runs
          /\ n.runs <= (n.attempt - 1) * TotalAttempts + n.returns + UnderWay(n)
      BY <3>2, <3>4, <3>5, <3>6, <3>7, <3>8
    <3>10. MsgRuns'
      BY <3>2, <3>3, <3>9 DEF RunsInv, MsgRuns, UnderWay
    <3> QED
      BY <2>1, <2>3, <3>10 DEF RunsInv, DeadOnlyAfterAllAttempts
  <2>4. CASE DeadLetter(h)
    <3>1. Dead(job[h]).runs >= TotalAttempts
      BY <2>2, <2>4, ConsumerAssumption DEF RunsInv, JobRuns, DeadLetter, Dead, BusyJobs
    <3>2. DeadOnlyAfterAllAttempts'
      BY <2>4, <3>1 DEF RunsInv, DeadOnlyAfterAllAttempts, DeadLetter
    <3>3. MsgRuns'
      BY <2>4 DEF DeadLetter, RunsInv, MsgRuns, UnderWay
    <3> QED
      BY <2>1, <3>2, <3>3 DEF RunsInv
  <2>5. CASE UNCHANGED <<msgs, dlq>>
    BY <2>1, <2>5 DEF RunsInv, MsgRuns, UnderWay, DeadOnlyAfterAllAttempts
  <2>6. Republish(h) => dlq' = dlq
    BY DEF Republish
  <2> QED
    BY <1>5, <2>3, <2>4, <2>5, <2>6 DEF HandlerStep, GetPayment, CallGateway, ReadFresh,
       Commit, DatabaseFails, WebhookDelivered, WebhookFails, WebhookRaises,
       RetryOrDeadLetter, PublishFails, Unroutable, broker
<1>6. ASSUME NEW h \in Handlers, Ack(h)
      PROVE  RunsInv'
  <2>1. \A g \in Handlers : Busy(g)' => Busy(g) /\ job'[g] = job[g]
    BY <1>6 DEF Ack, Busy, TypeOK, Idle
  <2>2. JobRuns'
    BY <2>1 DEF RunsInv, JobRuns
  <2> QED
    BY <1>6, <2>2 DEF Ack, RunsInv, MsgRuns, UnderWay, DeadOnlyAfterAllAttempts
<1>7. ASSUME NEW h \in Handlers, Nack(h) \/ HandlerDies(h)
      PROVE  RunsInv'
  <2>1. \A g \in Handlers : Busy(g)' => Busy(g) /\ job'[g] = job[g]
    BY <1>7 DEF Nack, HandlerDies, Busy, TypeOK, Idle
  <2>2. JobRuns'
    BY <2>1 DEF RunsInv, JobRuns
  <2> QED
    BY <1>7, <2>2, ReturnUnackedRuns DEF Nack, HandlerDies, RunsInv
<1>8. ASSUME NEW h \in Handlers, ConnectionLost(h)
      PROVE  RunsInv'
  <2>1. JobRuns'
    BY <1>8 DEF ConnectionLost, RunsInv, JobRuns, Busy
  <2> QED
    BY <1>8, <2>1, ReturnUnackedRuns DEF ConnectionLost, RunsInv
<1>9. CASE UNCHANGED vars
  BY <1>9 DEF vars, RunsInv, MsgRuns, JobRuns, Busy, UnderWay, DeadOnlyAfterAllAttempts
<1> QED
  BY <1>1, <1>2, <1>3, <1>4, <1>5, <1>6, <1>7, <1>8, <1>9
  DEF Next, DeliverAny, TtlExpiresAny

LEMMA RunsCorrect == Spec => []RunsInv
<1>1. Init => RunsInv
  BY DEF Init, Idle, RunsInv, MsgRuns, JobRuns, Busy, DeadOnlyAfterAllAttempts
<1> QED
  BY <1>1, RunsStep, TypeCorrect, HeldCorrect, PTL DEF Spec

\* The DLQ holds only messages that were delivered TotalAttempts times or more.
THEOREM DeadLettersWereTried == Spec => []DeadOnlyAfterAllAttempts
BY RunsCorrect, PTL DEF RunsInv

\* No message is delivered more than TotalAttempts * TotalAttempts times.
THEOREM RunsAreBounded == Spec => []RunsBounded
<1>1. TypeOK /\ RunsInv => RunsBounded
  <2> SUFFICES ASSUME TypeOK, RunsInv, NEW m \in msgs
               PROVE  m.runs <= TotalAttempts * TotalAttempts
    BY DEF RunsBounded
  <2> DEFINE a == m.attempt  N == TotalAttempts
  <2>1. /\ a \in 1..N /\ N \in Nat /\ m.returns \in 0..(N - 1)
        /\ m.runs \in Nat /\ UnderWay(m) \in {0, 1}
    BY ConsumerAssumption DEF TypeOK, Messages, DeliveryLimit, UnderWay
  <2>2. m.runs <= (a - 1) * N + m.returns + UnderWay(m)
    BY DEF RunsInv, MsgRuns
  <2>3. (a - 1) * N <= (N - 1) * N
    <3>1. \A i, j, k \in Nat : i <= j => i * k <= j * k
      OBVIOUS
    <3> QED
      BY <2>1, <3>1
  <2>4. (N - 1) * N + N = N * N
    BY <2>1
  <2>5. (a - 1) * N \in Int /\ (N - 1) * N \in Int /\ N * N \in Int
    BY <2>1
  <2> HIDE DEF a, N
  <2>6. m.returns + UnderWay(m) <= N
    BY <2>1
  <2>7. m.runs <= N * N
    BY <2>1, <2>2, <2>3, <2>4, <2>5, <2>6
  <2> QED
    BY <2>7 DEF N
<1> QED
  BY <1>1, TypeCorrect, RunsCorrect, PTL

----------------------------------------------------------------------------
(* The status and what the client is told                                  *)

\* A handler that holds a gateway's result holds a final status; one that sends
\* the webhook does so after a final status was committed.
SavedFirst ==
  /\ \A h \in Handlers :
       /\ job[h].step \in {"fresh", "commit"} => job[h].holds \in Final
       /\ job[h].step = "webhook" => /\ job[h].holds \in Final
                                     /\ status[job[h].pay] \in Final
  /\ ToldOnlyCommitted

\* Handlers that meet on a payment leave a trace; one that never met another finds
\* the payment pending until it commits, and tells the client what it committed.
AloneOrOverlapped ==
  /\ \A h, g \in Handlers :
       h # g /\ Busy(h) /\ Busy(g) /\ job[h].pay = job[g].pay => overlapped[job[h].pay]
  /\ \A h \in Handlers : Busy(h) /\ ~overlapped[job[h].pay] =>
       /\ job[h].step \in {"gateway", "fresh", "commit"} => status[job[h].pay] = "pending"
       /\ job[h].step = "webhook" => job[h].holds = status[job[h].pay]
  /\ ToldWhatIsStored

StatusInv == SavedFirst /\ AloneOrOverlapped

\* Steps that touch neither the status nor what was told or overlapped, and leave
\* every job as it is, idle, or at a step of which StatusInv asks nothing.
LEMMA StatusQuiet ==
  ASSUME TypeOK, StatusInv, UNCHANGED <<status, told, overlapped>>,
         \A g \in Handlers :
           \/ job'[g] = job[g]
           \/ job'[g].step = "idle"
           \/ /\ Busy(g) /\ job'[g].pay = job[g].pay
              /\ job'[g].step \in {"failed", "ack", "nack"}
           \/ /\ Busy(g) /\ job'[g].pay = job[g].pay
              /\ job'[g].step = job[g].step /\ job'[g].holds = job[g].holds
  PROVE  StatusInv'
<1>1. SavedFirst'
  BY DEF StatusInv, SavedFirst, ToldOnlyCommitted
<1>2. \A g \in Handlers : Busy(g)' => Busy(g) /\ job'[g].pay = job[g].pay
  BY DEF Busy
<1>3. \A h, g \in Handlers :
        h # g /\ Busy(h)' /\ Busy(g)' /\ job'[h].pay = job'[g].pay
          => overlapped'[job'[h].pay]
  BY <1>2 DEF StatusInv, AloneOrOverlapped
<1>4. ASSUME NEW h \in Handlers, Busy(h)', ~overlapped'[job'[h].pay]
      PROVE  /\ job'[h].step \in {"gateway", "fresh", "commit"}
                  => status'[job'[h].pay] = "pending"
             /\ job'[h].step = "webhook" => job'[h].holds = status'[job'[h].pay]
  BY <1>2, <1>4 DEF StatusInv, AloneOrOverlapped
<1>5. ToldWhatIsStored'
  BY DEF StatusInv, AloneOrOverlapped, ToldWhatIsStored
<1> QED
  BY <1>1, <1>3, <1>4, <1>5 DEF StatusInv, AloneOrOverlapped

\* A step of one handler that keeps the status, the history and its payment.
LEMMA StatusOneHandler ==
  ASSUME TypeOK, StatusInv, UNCHANGED <<status, told, overlapped>>,
         NEW h \in Handlers, Busy(h), NEW s \in Steps \ {"idle"}, NEW v \in Statuses,
         job' = [job EXCEPT ![h].holds = v, ![h].step = s],
         s \in {"fresh", "commit", "webhook"} => v \in Final,
         s \in {"gateway", "fresh", "commit"} /\ ~overlapped[job[h].pay]
           => status[job[h].pay] = "pending",
         s = "webhook" => v = status[job[h].pay]
  PROVE  StatusInv'
<1>1. job[h] \in BusyJobs
  BY BusyJob
<1>2. /\ job'[h].step = s /\ job'[h].holds = v /\ job'[h].pay = job[h].pay
      /\ \A g \in Handlers : g # h => job'[g] = job[g]
  BY <1>1 DEF TypeOK, BusyJobs
<1>3. SavedFirst'
  <2>1. ASSUME NEW g \in Handlers
        PROVE  /\ job'[g].step \in {"fresh", "commit"} => job'[g].holds \in Final
               /\ job'[g].step = "webhook" => /\ job'[g].holds \in Final
                                              /\ status'[job'[g].pay] \in Final
    <3>1. CASE g = h
      BY <1>2, <3>1
    <3>2. CASE g # h
      BY <1>2, <3>2 DEF StatusInv, SavedFirst
    <3> QED
      BY <3>1, <3>2
  <2>2. ToldOnlyCommitted'
    BY DEF StatusInv, SavedFirst, ToldOnlyCommitted
  <2> QED
    BY <2>1, <2>2 DEF SavedFirst
<1>4. \A g \in Handlers : Busy(g)' => Busy(g) /\ job'[g].pay = job[g].pay
  BY <1>2 DEF Busy
<1>5. \A f, g \in Handlers :
        f # g /\ Busy(f)' /\ Busy(g)' /\ job'[f].pay = job'[g].pay
          => overlapped'[job'[f].pay]
  BY <1>4 DEF StatusInv, AloneOrOverlapped
<1>6. ASSUME NEW g \in Handlers, Busy(g)', ~overlapped'[job'[g].pay]
      PROVE  /\ job'[g].step \in {"gateway", "fresh", "commit"}
                  => status'[job'[g].pay] = "pending"
             /\ job'[g].step = "webhook" => job'[g].holds = status'[job'[g].pay]
  <2>1. CASE g = h
    BY <1>2, <1>6, <2>1
  <2>2. CASE g # h
    <3>1. job'[g] = job[g] /\ Busy(g) /\ ~overlapped[job[g].pay]
      BY <1>2, <1>6, <2>2 DEF Busy
    <3> QED
      BY <3>1 DEF StatusInv, AloneOrOverlapped
  <2> QED
    BY <2>1, <2>2
<1>7. ToldWhatIsStored'
  BY DEF StatusInv, AloneOrOverlapped, ToldWhatIsStored
<1> QED
  BY <1>3, <1>5, <1>6, <1>7 DEF StatusInv, AloneOrOverlapped

\* The commit: only the handler's own payment changes, and if the handler is
\* alone on it nobody has been told anything yet.
LEMMA StatusCommit ==
  ASSUME TypeOK, StatusInv, NEW h \in Handlers, Commit(h)
  PROVE  StatusInv'
<1> DEFINE p == job[h].pay
<1>1. job[h] \in BusyJobs /\ Busy(h) /\ p \in Payments /\ job[h].holds \in Final
  BY BusyJob DEF Commit, Busy, BusyJobs, StatusInv, SavedFirst
<1>2. /\ status'[p] = job[h].holds
      /\ \A q \in Payments : q # p => status'[q] = status[q]
      /\ told' = told /\ overlapped' = overlapped
  BY <1>1 DEF Commit, TypeOK, history
<1>3. /\ job'[h].step \in {"webhook", "failed"} /\ job'[h].pay = p
      /\ job'[h].holds = job[h].holds
      /\ \A g \in Handlers : g # h => job'[g] = job[g]
  BY <1>1 DEF Commit, Goto, TypeOK, BusyJobs
<1>4. \A g \in Handlers : Busy(g)' => Busy(g) /\ job'[g].pay = job[g].pay
  BY <1>1, <1>3 DEF Busy
<1>5. \A g \in Handlers : Busy(g) => job[g].pay \in Payments
  BY BusyJob DEF BusyJobs
<1> HIDE DEF p
<1>6. \A q \in Payments : status[q] \in Final => status'[q] \in Final
  BY <1>1, <1>2
<1>7. SavedFirst'
  <2>1. ASSUME NEW g \in Handlers
        PROVE  /\ job'[g].step \in {"fresh", "commit"} => job'[g].holds \in Final
               /\ job'[g].step = "webhook" => /\ job'[g].holds \in Final
                                              /\ status'[job'[g].pay] \in Final
    <3>1. CASE g = h
      BY <1>1, <1>2, <1>3, <3>1
    <3>2. CASE g # h
      BY <1>3, <1>5, <1>6, <3>2 DEF StatusInv, SavedFirst, Busy
    <3> QED
      BY <3>1, <3>2
  <2>2. ToldOnlyCommitted'
    BY <1>2, <1>6 DEF StatusInv, SavedFirst, ToldOnlyCommitted
  <2> QED
    BY <2>1, <2>2 DEF SavedFirst
<1>8. \A f, g \in Handlers :
        f # g /\ Busy(f)' /\ Busy(g)' /\ job'[f].pay = job'[g].pay
          => overlapped'[job'[f].pay]
  BY <1>2, <1>4 DEF StatusInv, AloneOrOverlapped
<1>9. ASSUME NEW g \in Handlers, Busy(g)', ~overlapped'[job'[g].pay]
      PROVE  /\ job'[g].step \in {"gateway", "fresh", "commit"}
                  => status'[job'[g].pay] = "pending"
             /\ job'[g].step = "webhook" => job'[g].holds = status'[job'[g].pay]
  <2>1. CASE g = h
    BY <1>2, <1>3, <2>1
  <2>2. CASE g # h
    <3>1. job[g].pay # p /\ job[g].pay \in Payments /\ Busy(g)
      BY <1>1, <1>2, <1>4, <1>5, <1>9, <2>2 DEF StatusInv, AloneOrOverlapped, p
    <3> QED
      BY <1>2, <1>3, <1>9, <2>2, <3>1 DEF StatusInv, AloneOrOverlapped
  <2> QED
    BY <2>1, <2>2
<1>10. ToldWhatIsStored'
  <2>1. ~overlapped[p] => told[p] = {}
    <3>1. ~overlapped[p] => status[p] = "pending"
      BY <1>1 DEF StatusInv, AloneOrOverlapped, Commit, p
    <3> QED
      BY <1>1, <3>1 DEF StatusInv, SavedFirst, ToldOnlyCommitted, Final
  <2> QED
    BY <1>2, <2>1 DEF StatusInv, AloneOrOverlapped, ToldWhatIsStored
<1> QED
  BY <1>7, <1>8, <1>9, <1>10 DEF StatusInv, AloneOrOverlapped

\* A webhook attempt tells the client nothing but what its handler holds.
LEMMA StatusTold ==
  ASSUME TypeOK, StatusInv, NEW h \in Handlers, job[h].step = "webhook",
         UNCHANGED <<status, overlapped>>,
         told' \in {told, [told EXCEPT ![job[h].pay] = @ \cup {job[h].holds}]},
         \A g \in Handlers : g # h => job'[g] = job[g],
         job'[h].step \in {"webhook", "failed", "ack"},
         job'[h].pay = job[h].pay, job'[h].holds = job[h].holds
  PROVE  StatusInv'
<1> DEFINE p == job[h].pay
<1>1. /\ Busy(h) /\ p \in Payments /\ job[h].holds \in Final /\ status[p] \in Final
      /\ ~overlapped[p] => job[h].holds = status[p]
  BY BusyJob DEF Busy, BusyJobs, StatusInv, SavedFirst, AloneOrOverlapped
<1>2. /\ told'[p] \subseteq told[p] \cup {job[h].holds}
      /\ \A q \in Payments : q # p => told'[q] = told[q]
  BY <1>1 DEF TypeOK
<1>3. \A g \in Handlers : Busy(g)' => Busy(g) /\ job'[g].pay = job[g].pay
  BY <1>1 DEF Busy
<1>4. ToldOnlyCommitted' /\ ToldWhatIsStored'
  BY <1>1, <1>2 DEF StatusInv, SavedFirst, AloneOrOverlapped, ToldOnlyCommitted,
     ToldWhatIsStored
<1>5. SavedFirst'
  BY <1>4 DEF StatusInv, SavedFirst
<1>6. \A f, g \in Handlers :
        f # g /\ Busy(f)' /\ Busy(g)' /\ job'[f].pay = job'[g].pay
          => overlapped'[job'[f].pay]
  BY <1>3 DEF StatusInv, AloneOrOverlapped
<1>7. ASSUME NEW g \in Handlers, Busy(g)', ~overlapped'[job'[g].pay]
      PROVE  /\ job'[g].step \in {"gateway", "fresh", "commit"}
                  => status'[job'[g].pay] = "pending"
             /\ job'[g].step = "webhook" => job'[g].holds = status'[job'[g].pay]
  BY <1>3, <1>7 DEF StatusInv, AloneOrOverlapped
<1> QED
  BY <1>4, <1>5, <1>6, <1>7 DEF StatusInv, AloneOrOverlapped

LEMMA StatusDeliver ==
  ASSUME TypeOK, StatusInv, NEW h \in Handlers, NEW m \in msgs, Deliver(h, m)
  PROVE  StatusInv'
<1> DEFINE p == m.pay
<1>1. p \in Payments /\ ~Busy(h)
  BY DEF TypeOK, Messages, Deliver
<1>2. /\ job'[h].step = "read" /\ job'[h].pay = p
      /\ \A g \in Handlers : g # h => job'[g] = job[g]
  BY DEF Deliver, TypeOK, Start
<1>3. status' = status /\ told' = told
  BY DEF Deliver, db
<1>4. /\ \A q \in Payments : overlapped[q] => overlapped'[q]
      /\ \A g \in Handlers : Busy(g) /\ job[g].pay = p => overlapped'[p]
  BY <1>1 DEF Deliver, TypeOK
<1>5. \A g \in Handlers : Busy(g) => job[g].pay \in Payments
  BY BusyJob DEF BusyJobs
<1> HIDE DEF p
<1>6. SavedFirst'
  BY <1>2, <1>3 DEF StatusInv, SavedFirst, ToldOnlyCommitted
<1>7. ASSUME NEW f \in Handlers, NEW g \in Handlers,
             f # g, Busy(f)', Busy(g)', job'[f].pay = job'[g].pay
      PROVE  overlapped'[job'[f].pay]
  BY <1>2, <1>4, <1>5, <1>7 DEF StatusInv, AloneOrOverlapped, Busy
<1>8. ASSUME NEW g \in Handlers, Busy(g)', ~overlapped'[job'[g].pay]
      PROVE  /\ job'[g].step \in {"gateway", "fresh", "commit"}
                  => status'[job'[g].pay] = "pending"
             /\ job'[g].step = "webhook" => job'[g].holds = status'[job'[g].pay]
  <2>1. CASE g = h
    BY <1>2, <2>1
  <2>2. CASE g # h
    BY <1>2, <1>3, <1>4, <1>5, <1>8, <2>2 DEF StatusInv, AloneOrOverlapped, Busy
  <2> QED
    BY <2>1, <2>2
<1>9. ToldWhatIsStored'
  BY <1>3, <1>4 DEF StatusInv, AloneOrOverlapped, ToldWhatIsStored
<1> QED
  BY <1>6, <1>7, <1>8, <1>9 DEF StatusInv, AloneOrOverlapped

LEMMA StatusStep == TypeOK /\ StatusInv /\ [Next]_vars => StatusInv'
<1> SUFFICES ASSUME TypeOK, StatusInv, [Next]_vars
             PROVE  StatusInv'
  OBVIOUS
<1> USE DEF broker, db, history
<1>1. CASE \/ \E p \in Payments : Arrive(p)
           \/ DeclareTopology
           \/ TtlExpiresAny
           \/ \E h \in Handlers : ConnectionLost(h)
           \/ UNCHANGED vars
  <2>1. UNCHANGED <<status, told, overlapped, job>>
    BY <1>1 DEF Arrive, DeclareTopology, TtlExpiresAny, TtlExpires, ConnectionLost, vars
  <2> QED
    BY <2>1, StatusQuiet
<1>2. ASSUME NEW h \in Handlers, DeliverAny(h)
      PROVE  StatusInv'
  BY <1>2, StatusDeliver DEF DeliverAny
<1>3. ASSUME NEW h \in Handlers, Ack(h) \/ Nack(h) \/ HandlerDies(h)
      PROVE  StatusInv'
  <2>1. \A g \in Handlers : job'[g] = job[g] \/ job'[g].step = "idle"
    BY <1>3 DEF Ack, Nack, HandlerDies, TypeOK, Idle
  <2>2. UNCHANGED <<status, told, overlapped>>
    BY <1>3 DEF Ack, Nack, HandlerDies
  <2> QED
    BY <2>1, <2>2, StatusQuiet
<1>4. ASSUME NEW h \in Handlers,
             \/ DatabaseFails(h) \/ WebhookRaises(h)
             \/ RetryOrDeadLetter(h) \/ PublishFails(h)
      PROVE  StatusInv'
  <2>1. PICK s \in {"failed", "ack", "nack"} : Goto(h, s)
    BY <1>4 DEF DatabaseFails, WebhookRaises, RetryOrDeadLetter, PublishFails
  <2>2. Busy(h) /\ job[h] \in BusyJobs
    BY <1>4, BusyJob
    DEF Busy, DatabaseFails, WebhookRaises, RetryOrDeadLetter, PublishFails
  <2>3. \A g \in Handlers :
          \/ job'[g] = job[g]
          \/ /\ Busy(g) /\ job'[g].pay = job[g].pay
             /\ job'[g].step \in {"failed", "ack", "nack"}
    BY <2>1, <2>2 DEF Goto, TypeOK, BusyJobs
  <2>4. UNCHANGED <<status, told, overlapped>>
    BY <1>4 DEF DatabaseFails, WebhookRaises, RetryOrDeadLetter, PublishFails
  <2> QED
    BY <2>3, <2>4, StatusQuiet
<1>5. ASSUME NEW h \in Handlers, GetPayment(h) \/ CallGateway(h) \/ ReadFresh(h)
      PROVE  StatusInv'
  <2>1. Busy(h) /\ job[h] \in BusyJobs /\ UNCHANGED <<status, told, overlapped>>
    BY <1>5, BusyJob DEF GetPayment, CallGateway, ReadFresh, Busy
  <2>2. status[job[h].pay] \in Statuses
    BY <2>1 DEF TypeOK, BusyJobs
  <2>3. CASE GetPayment(h)
    <3> DEFINE v == status[job[h].pay]
               s == IF v = "pending" THEN "gateway" ELSE "webhook"
    <3>1. job' = [job EXCEPT ![h].holds = v, ![h].step = s]
      BY <2>3 DEF GetPayment
    <3>2. /\ s \in Steps \ {"idle"} /\ s \in {"gateway", "webhook"}
          /\ s = "gateway" => v = "pending"
          /\ s = "webhook" => v \in Final
      BY <2>2 DEF Steps, Statuses
    <3> HIDE DEF s
    <3> QED
      BY <2>1, <2>2, <3>1, <3>2, StatusOneHandler
  <2>4. CASE CallGateway(h)
    <3>1. PICK v \in Final : job' = [job EXCEPT ![h].holds = v, ![h].step = "fresh"]
      BY <2>4 DEF CallGateway
    <3>2. ~overlapped[job[h].pay] => status[job[h].pay] = "pending"
      BY <2>1, <2>4 DEF CallGateway, StatusInv, AloneOrOverlapped
    <3> DEFINE s == "fresh"
    <3>3. s \in Steps \ {"idle"} /\ s # "webhook" /\ v \in Statuses
      BY DEF Steps, Statuses
    <3>4. job' = [job EXCEPT ![h].holds = v, ![h].step = s]
      BY <3>1
    <3> HIDE DEF s
    <3> QED
      BY <2>1, <3>2, <3>3, <3>4, StatusOneHandler
  <2>5. CASE ReadFresh(h)
    <3>1. CASE status[job[h].pay] = "pending"
      <4>1. job' = [job EXCEPT ![h].step = "commit"] /\ job[h].holds \in Final
        BY <2>5, <3>1 DEF ReadFresh, Goto, StatusInv, SavedFirst
      <4>2. job' = [job EXCEPT ![h].holds = job[h].holds, ![h].step = "commit"]
        BY <2>1, <4>1 DEF TypeOK, BusyJobs
      <4> DEFINE s == "commit"  v == job[h].holds
      <4>3. s \in Steps \ {"idle"} /\ s # "webhook" /\ v \in Statuses /\ v \in Final
        BY <4>1 DEF Steps, Statuses
      <4>4. job' = [job EXCEPT ![h].holds = v, ![h].step = s]
        BY <4>2
      <4> HIDE DEF s, v
      <4> QED
        BY <2>1, <3>1, <4>3, <4>4, StatusOneHandler
    <3>2. CASE status[job[h].pay] # "pending"
      BY <2>1, <2>2, <2>5, <3>2, StatusOneHandler DEF ReadFresh, Steps, Statuses
    <3> QED
      BY <3>1, <3>2
  <2> QED
    BY <1>5, <2>3, <2>4, <2>5
<1>6. ASSUME NEW h \in Handlers, WebhookDelivered(h) \/ WebhookFails(h)
      PROVE  StatusInv'
  <2>1. job[h].step = "webhook" /\ job[h] \in BusyJobs /\ UNCHANGED <<status, overlapped>>
    BY <1>6, BusyJob DEF WebhookDelivered, WebhookFails, Busy
  <2>2. told' \in {told, [told EXCEPT ![job[h].pay] = @ \cup {job[h].holds}]}
    BY <1>6, <2>1 DEF WebhookDelivered, WebhookFails, TypeOK
  <2>3. /\ \A g \in Handlers : g # h => job'[g] = job[g]
        /\ job'[h].step \in {"webhook", "failed", "ack"}
        /\ job'[h].pay = job[h].pay /\ job'[h].holds = job[h].holds
    BY <1>6, <2>1 DEF WebhookDelivered, WebhookFails, Goto, TypeOK, BusyJobs
  <2> QED
    BY <2>1, <2>2, <2>3, StatusTold
<1> QED
  BY <1>1, <1>2, <1>3, <1>4, <1>5, <1>6, StatusCommit DEF Next, HandlerStep

LEMMA StatusCorrect == Spec => []StatusInv
<1>1. Init => StatusInv
  BY DEF Init, Idle, StatusInv, SavedFirst, AloneOrOverlapped, ToldOnlyCommitted,
     ToldWhatIsStored, Busy
<1> QED
  BY <1>1, StatusStep, TypeCorrect, PTL DEF Spec

\* The client hears of a payment only after a final status was committed for it.
THEOREM ToldAfterCommit == Spec => []ToldOnlyCommitted
BY StatusCorrect, PTL DEF StatusInv, SavedFirst

\* Without overlapping handlers the client hears only the stored status.
THEOREM ToldTheStoredStatus == Spec => []ToldWhatIsStored
BY StatusCorrect, PTL DEF StatusInv, AloneOrOverlapped

\* Without overlapping handlers a final status is never overwritten.
THEOREM StatusStableUnlessOverlap == Spec => FinalStatusStableUnlessOverlap
<1>1. TypeOK /\ StatusInv /\ [Next]_vars
        => [\A p \in Payments : status[p] \in Final /\ ~overlapped[p]
              => status'[p] = status[p]]_vars
  <2> SUFFICES ASSUME TypeOK, StatusInv, [Next]_vars, NEW p \in Payments,
                      status[p] \in Final, ~overlapped[p]
               PROVE  status'[p] = status[p]
    OBVIOUS
  <2>1. ASSUME NEW h \in Handlers, Commit(h)
        PROVE  status'[p] = status[p]
    <3>1. Busy(h) /\ job[h].pay # p
      BY <2>1 DEF Commit, Busy, StatusInv, AloneOrOverlapped, Final
    <3> QED
      BY <2>1, <3>1 DEF Commit, TypeOK
  <2> QED
    BY <2>1 DEF Next, DeliverAny, TtlExpiresAny, HandlerStep, Arrive, DeclareTopology,
       TtlExpires, Deliver, GetPayment, CallGateway, ReadFresh, DatabaseFails,
       WebhookDelivered, WebhookFails, WebhookRaises, RetryOrDeadLetter, PublishFails,
       Ack, Nack, HandlerDies, ConnectionLost, db, vars
<1> QED
  BY <1>1, TypeCorrect, StatusCorrect, PTL DEF Spec, FinalStatusStableUnlessOverlap

\* Without overlapping handlers the gateway is never called once the status is final.
THEOREM NoSecondCharge == Spec => NoChargeAfterFinal
<1>1. StatusInv => [\A h \in Handlers : job[h].step = "gateway" /\ job'[h].step = "fresh"
        => overlapped[job[h].pay] \/ status[job[h].pay] = "pending"]_vars
  BY DEF StatusInv, AloneOrOverlapped, Busy
<1> QED
  BY <1>1, StatusCorrect, PTL DEF NoChargeAfterFinal

\* With one handler no two are ever busy with one payment, so a final status is never
\* changed, whatever is redelivered or published twice.
THEOREM StatusStableAlone ==
  ASSUME \A g, h \in Handlers : g = h
  PROVE  Spec => FinalStatusStable
<1> DEFINE NeverOverlapped == \A p \in Payments : ~overlapped[p]
<1>1. Init => NeverOverlapped
  BY DEF Init
<1>2. TypeOK /\ NeverOverlapped /\ [Next]_vars => NeverOverlapped'
  <2> SUFFICES ASSUME TypeOK, NeverOverlapped, [Next]_vars
               PROVE  NeverOverlapped'
    OBVIOUS
  <2>1. ASSUME NEW h \in Handlers, NEW m \in msgs, Deliver(h, m)
        PROVE  NeverOverlapped'
    <3>1. \A g \in Handlers : ~Busy(g)
      BY <2>1 DEF Deliver
    <3> QED
      BY <2>1, <3>1 DEF Deliver, TypeOK
  <2>2. ASSUME UNCHANGED overlapped
        PROVE  NeverOverlapped'
    BY <2>2
  <2> QED
    BY <2>1, <2>2 DEF Next, DeliverAny, TtlExpiresAny, HandlerStep, Arrive, DeclareTopology,
       TtlExpires, GetPayment, CallGateway, ReadFresh, Commit, DatabaseFails,
       WebhookDelivered, WebhookFails, WebhookRaises, RetryOrDeadLetter, PublishFails,
       Ack, Nack, HandlerDies, ConnectionLost, history, vars
<1>3. Spec => []NeverOverlapped
  BY <1>1, <1>2, TypeCorrect, PTL DEF Spec
<1>4. NeverOverlapped /\ [\A p \in Payments : status[p] \in Final /\ ~overlapped[p]
                           => status'[p] = status[p]]_vars
        => [\A p \in Payments : status[p] \in Final => status'[p] = status[p]]_vars
  OBVIOUS
<1> QED
  BY <1>3, <1>4, StatusStableUnlessOverlap, PTL
     DEF FinalStatusStable, FinalStatusStableUnlessOverlap

----------------------------------------------------------------------------
(* What the rest of the service sees of the consumer                       *)

\* The consumer or the broker has, or has had, to do with p.
Concerns(p) ==
  \/ \E m \in msgs : m.pay = p
  \/ \E d \in dlq : d.pay = p
  \/ \E h \in Handlers : job[h].pay = p
  \/ told[p] # {}
  \/ status[p] # "pending"
  \/ overlapped[p]

\* It has only with payments whose event was published.
OnlyPublished == \A p \in Payments : Concerns(p) => published[p] > 0

\* A step of one handler that concerns no payment but its own.
LEMMA OwnPayment ==
  ASSUME TypeOK, OnlyPublished, NEW h \in Handlers, Busy(h),
         \A g \in Handlers : job'[g].pay \in {job[g].pay, NoPayment},
         \A m \in msgs' : m.pay = job[h].pay \/ \E n \in msgs : n.pay = m.pay,
         \A d \in dlq' : \/ d.pay = job[h].pay
                         \/ \E n \in msgs : n.pay = d.pay
                         \/ \E e \in dlq : e.pay = d.pay,
         \A p \in Payments \ {job[h].pay} :
           UNCHANGED <<told[p], status[p], overlapped[p]>>,
         UNCHANGED published
  PROVE  OnlyPublished'
<1>1. job[h].pay \in Payments
  BY BusyJob DEF BusyJobs
<1>2. published[job[h].pay] > 0
  BY <1>1 DEF OnlyPublished, Concerns
<1> SUFFICES ASSUME NEW p \in Payments, Concerns(p)', p # job[h].pay
             PROVE  published[p] > 0
  BY <1>2 DEF OnlyPublished
<1>3. told'[p] = told[p] /\ status'[p] = status[p] /\ overlapped'[p] = overlapped[p]
  OBVIOUS
<1>4. NoPayment # p
  BY ConsumerAssumption
<1>5. Concerns(p)
  BY <1>3, <1>4 DEF Concerns
<1> QED
  BY <1>5 DEF OnlyPublished

LEMMA ReturnUnackedPayments ==
  ASSUME TypeOK, NEW h \in Handlers, ReturnUnacked(h)
  PROVE  /\ \A m \in msgs' : \E n \in msgs : n.pay = m.pay
         /\ \A d \in dlq' : (\E n \in msgs : n.pay = d.pay) \/ (\E e \in dlq : e.pay = d.pay)
<1>1. \A m \in Unacked(h) :
        m \in msgs /\ [m EXCEPT !.at = "ready", !.returns = @ + 1].pay = m.pay
  BY DEF TypeOK, Messages, Unacked
<1>2. \A m \in msgs : Dead(m).pay = m.pay
  BY DEF Dead
<1>3. \A m \in msgs' : \E n \in msgs : n.pay = m.pay
  BY <1>1 DEF ReturnUnacked
<1>4. \A d \in dlq' : (\E n \in msgs : n.pay = d.pay) \/ (\E e \in dlq : e.pay = d.pay)
  BY <1>1, <1>2 DEF ReturnUnacked
<1> QED
  BY <1>3, <1>4

LEMMA OnlyPublishedStep == TypeOK /\ OnlyPublished /\ [Next]_vars => OnlyPublished'
<1> SUFFICES ASSUME TypeOK, OnlyPublished, [Next]_vars
             PROVE  OnlyPublished'
  OBVIOUS
<1> USE DEF broker, db, history
<1>1. ASSUME NEW p \in Payments, Arrive(p)
      PROVE  OnlyPublished'
  <2>1. published'[p] > 0 /\ \A q \in Payments : q # p => published'[q] = published[q]
    BY <1>1, ConsumerAssumption DEF Arrive, TypeOK
  <2>2. \A q \in Payments : q # p /\ Concerns(q)' => Concerns(q)
    BY <1>1 DEF Arrive, Concerns
  <2> QED
    BY <2>1, <2>2 DEF OnlyPublished
<1>2. ASSUME NEW h \in Handlers, NEW m \in msgs, Deliver(h, m)
      PROVE  OnlyPublished'
  <2>1. \A q \in Payments : job'[h].pay = m.pay /\ (q # m.pay => overlapped'[q] = overlapped[q])
    BY <1>2 DEF Deliver, TypeOK, Start
  <2>2. m.pay \in Payments /\ [m EXCEPT !.at = h, !.runs = @ + 1].pay = m.pay
    BY DEF TypeOK, Messages
  <2>3. \A q \in Payments : Concerns(q)' => Concerns(q)
    <3> SUFFICES ASSUME NEW q \in Payments, Concerns(q)', q # m.pay
                 PROVE  Concerns(q)
      BY DEF Concerns
    <3>1. \A n \in msgs' : n.pay = m.pay \/ n \in msgs
      BY <1>2, <2>2 DEF Deliver
    <3>2. \A g \in Handlers : job'[g].pay = m.pay \/ job'[g] = job[g]
      BY <1>2, <2>1, <2>2 DEF Deliver, TypeOK
    <3>3. UNCHANGED <<dlq, told, status>> /\ overlapped'[q] = overlapped[q]
      BY <1>2, <2>1 DEF Deliver
    <3> QED
      BY <3>1, <3>2, <3>3 DEF Concerns
  <2> QED
    BY <1>2, <2>3 DEF Deliver, OnlyPublished
<1>3. ASSUME NEW m \in msgs, TtlExpires(m)
      PROVE  OnlyPublished'
  <2>1. [m EXCEPT !.at = "ready", !.returns = 0].pay = m.pay
    BY DEF TypeOK, Messages
  <2>2. \A q \in Payments : Concerns(q)' => Concerns(q)
    BY <1>3, <2>1 DEF TtlExpires, Concerns
  <2> QED
    BY <1>3, <2>2 DEF TtlExpires, OnlyPublished
<1>4. ASSUME NEW h \in Handlers,
             \/ GetPayment(h) \/ CallGateway(h) \/ ReadFresh(h) \/ Commit(h)
             \/ DatabaseFails(h) \/ WebhookDelivered(h) \/ WebhookFails(h) \/ WebhookRaises(h)
      PROVE  OnlyPublished'
  <2>1. Busy(h)
    BY <1>4 DEF GetPayment, CallGateway, ReadFresh, Commit, DatabaseFails, WebhookDelivered,
                WebhookFails, WebhookRaises, Busy
  <2>2. job[h] \in BusyJobs
    BY <2>1, BusyJob
  <2>3. \A g \in Handlers : job'[g].pay = job[g].pay
    <3>1. CASE GetPayment(h) \/ CallGateway(h)
      <4>1. PICK v, next : job' = [job EXCEPT ![h].holds = v, ![h].step = next]
        BY <3>1 DEF GetPayment, CallGateway
      <4> QED
        BY <2>2, <4>1 DEF TypeOK, BusyJobs
    <3>4. CASE ReadFresh(h)
      BY <2>2, <3>4 DEF ReadFresh, Goto, TypeOK, BusyJobs
    <3>2. CASE Commit(h) \/ DatabaseFails(h)
      BY <2>2, <3>2 DEF Commit, DatabaseFails, Goto, TypeOK, BusyJobs
    <3>3. CASE WebhookDelivered(h) \/ WebhookFails(h) \/ WebhookRaises(h)
      BY <2>2, <3>3 DEF WebhookDelivered, WebhookFails, WebhookRaises, Goto, TypeOK, BusyJobs
    <3> QED
      BY <1>4, <3>1, <3>2, <3>3, <3>4
  <2>4. UNCHANGED <<msgs, dlq, published, overlapped>>
    BY <1>4 DEF GetPayment, CallGateway, ReadFresh, Commit, DatabaseFails, WebhookDelivered,
                WebhookFails, WebhookRaises
  <2>5. \A p \in Payments \ {job[h].pay} : told'[p] = told[p] /\ status'[p] = status[p]
    BY <1>4 DEF GetPayment, CallGateway, ReadFresh, Commit, DatabaseFails, WebhookDelivered,
                WebhookFails, WebhookRaises, TypeOK
  <2> QED
    BY <2>1, <2>3, <2>4, <2>5, OwnPayment
<1>5. ASSUME NEW h \in Handlers, RetryOrDeadLetter(h) \/ PublishFails(h)
      PROVE  OnlyPublished'
  <2>1. Busy(h) /\ UNCHANGED <<told, status, overlapped, published>>
    BY <1>5 DEF RetryOrDeadLetter, PublishFails, Busy
  <2>2. job[h] \in BusyJobs
    BY <2>1, BusyJob
  <2>3. \A g \in Handlers : job'[g].pay = job[g].pay
    BY <1>5, <2>2 DEF RetryOrDeadLetter, PublishFails, Goto, TypeOK, BusyJobs
  <2>4. /\ \A m \in msgs' : m.pay = job[h].pay \/ m \in msgs
        /\ \A d \in dlq' : d.pay = job[h].pay \/ d \in dlq
    BY <1>5 DEF RetryOrDeadLetter, PublishFails, Republish, DeadLetter, Unroutable, Dead
  <2> QED
    BY <2>1, <2>3, <2>4, OwnPayment
<1>6. ASSUME NEW h \in Handlers, Ack(h) \/ Nack(h) \/ HandlerDies(h)
      PROVE  OnlyPublished'
  <2>1. Busy(h) /\ UNCHANGED <<told, status, overlapped, published>>
    BY <1>6 DEF Ack, Nack, HandlerDies, Busy
  <2>2. \A g \in Handlers : job'[g].pay \in {job[g].pay, NoPayment}
    BY <1>6 DEF Ack, Nack, HandlerDies, TypeOK, Idle
  <2>3. /\ \A m \in msgs' : \E n \in msgs : n.pay = m.pay
        /\ \A d \in dlq' : (\E n \in msgs : n.pay = d.pay) \/ (\E e \in dlq : e.pay = d.pay)
    BY <1>6, ReturnUnackedPayments DEF Ack, Nack, HandlerDies
  <2> QED
    BY <2>1, <2>2, <2>3, OwnPayment
<1>7. ASSUME NEW h \in Handlers, ConnectionLost(h)
      PROVE  OnlyPublished'
  <2>1. /\ \A m \in msgs' : \E n \in msgs : n.pay = m.pay
        /\ \A d \in dlq' : (\E n \in msgs : n.pay = d.pay) \/ (\E e \in dlq : e.pay = d.pay)
    BY <1>7, ReturnUnackedPayments DEF ConnectionLost
  <2>2. \A q \in Payments : Concerns(q)' => Concerns(q)
    BY <1>7, <2>1 DEF ConnectionLost, Concerns
  <2> QED
    BY <1>7, <2>2 DEF ConnectionLost, OnlyPublished
<1>8. ASSUME DeclareTopology \/ UNCHANGED vars
      PROVE  OnlyPublished'
  BY <1>8 DEF DeclareTopology, vars, OnlyPublished, Concerns
<1> QED
  BY <1>1, <1>2, <1>3, <1>4, <1>5, <1>6, <1>7, <1>8
  DEF Next, HandlerStep, DeliverAny, TtlExpiresAny

LEMMA OnlyPublishedCorrect == Spec => []OnlyPublished
<1>1. Init => OnlyPublished
  BY ConsumerAssumption DEF Init, OnlyPublished, Concerns, Idle
<1> QED
  BY <1>1, OnlyPublishedStep, TypeCorrect, PTL DEF Spec

\* What a step can do to what a client sees: settle a payment, tell of it, or be the
\* one in which two handlers meet on it.
Settles(p, result) ==
  /\ published[p] > 0
  /\ status[p] = "pending" \/ overlapped[p]
  /\ status' = [status EXCEPT ![p] = result]
  /\ UNCHANGED <<told, overlapped>>

Tells(p, result) ==
  /\ published[p] > 0
  /\ status[p] \in Final
  /\ overlapped[p] \/ status[p] = result
  /\ told' = [told EXCEPT ![p] = @ \cup {result}]
  /\ UNCHANGED <<status, overlapped>>

Meets(p) ==
  /\ published[p] > 0
  /\ overlapped' = [overlapped EXCEPT ![p] = TRUE]
  /\ UNCHANGED <<status, told>>

LEMMA VisibleEffects ==
  ASSUME TypeOK, StatusInv, OnlyPublished, [Next]_vars
  PROVE  \/ UNCHANGED <<status, told, overlapped>>
         \/ \E p \in Payments, result \in Final : Settles(p, result) \/ Tells(p, result)
         \/ \E p \in Payments : Meets(p)
<1> USE DEF broker, db, history
<1>1. ASSUME NEW h \in Handlers, Busy(h)
      PROVE  job[h] \in BusyJobs /\ job[h].pay \in Payments /\ published[job[h].pay] > 0
  <2>1. job[h] \in BusyJobs /\ job[h].pay \in Payments
    BY <1>1, BusyJob DEF BusyJobs
  <2> QED
    BY <2>1 DEF OnlyPublished, Concerns
<1>2. ASSUME NEW h \in Handlers, Commit(h)
      PROVE  \E p \in Payments, result \in Final : Settles(p, result)
  <2>1. Busy(h) /\ job[h].holds \in Final
    BY <1>2 DEF Commit, Busy, StatusInv, SavedFirst
  <2>2. status[job[h].pay] = "pending" \/ overlapped[job[h].pay]
    BY <1>2, <2>1 DEF Commit, StatusInv, AloneOrOverlapped
  <2>3. Settles(job[h].pay, job[h].holds)
    BY <1>1, <1>2, <2>1, <2>2 DEF Commit, Settles
  <2> QED
    BY <1>1, <2>1, <2>3
<1>3. ASSUME NEW h \in Handlers, WebhookDelivered(h) \/ WebhookFails(h)
      PROVE  \/ UNCHANGED <<status, told, overlapped>>
             \/ \E p \in Payments, result \in Final : Tells(p, result)
  <2>1. Busy(h) /\ job[h].holds \in Final /\ status[job[h].pay] \in Final
    BY <1>3 DEF WebhookDelivered, WebhookFails, Busy, StatusInv, SavedFirst
  <2>2. overlapped[job[h].pay] \/ status[job[h].pay] = job[h].holds
    BY <1>3, <2>1 DEF WebhookDelivered, WebhookFails, StatusInv, AloneOrOverlapped
  <2>3. UNCHANGED <<status, overlapped>>
    BY <1>3 DEF WebhookDelivered, WebhookFails
  <2>4. told' = told \/ told' = [told EXCEPT ![job[h].pay] = @ \cup {job[h].holds}]
    BY <1>3 DEF WebhookDelivered, WebhookFails, TypeOK
  <2>5. told' = told \/ Tells(job[h].pay, job[h].holds)
    BY <1>1, <2>1, <2>2, <2>3, <2>4 DEF Tells
  <2> QED
    BY <1>1, <2>1, <2>3, <2>5
<1>4. ASSUME NEW h \in Handlers, NEW m \in msgs, Deliver(h, m)
      PROVE  UNCHANGED <<status, told, overlapped>> \/ \E p \in Payments : Meets(p)
  <2>1. m.pay \in Payments
    BY DEF TypeOK, Messages
  <2>2. published[m.pay] > 0
    BY <2>1 DEF OnlyPublished, Concerns
  <2>3. UNCHANGED <<status, told>>
    BY <1>4 DEF Deliver
  <2>4. CASE \E g \in Handlers : Busy(g) /\ job[g].pay = m.pay
    <3>1. overlapped' = [overlapped EXCEPT ![m.pay] = TRUE]
      BY <1>4, <2>1, <2>4 DEF Deliver, TypeOK
    <3> QED
      BY <2>1, <2>2, <2>3, <3>1 DEF Meets
  <2>5. CASE ~ \E g \in Handlers : Busy(g) /\ job[g].pay = m.pay
    <3>1. overlapped' = overlapped
      BY <1>4, <2>1, <2>5 DEF Deliver, TypeOK
    <3> QED
      BY <2>3, <3>1
  <2> QED
    BY <2>4, <2>5
<1>5. ASSUME NEW h \in Handlers,
             \/ GetPayment(h) \/ CallGateway(h) \/ ReadFresh(h) \/ DatabaseFails(h)
             \/ WebhookRaises(h) \/ RetryOrDeadLetter(h) \/ PublishFails(h)
             \/ Ack(h) \/ Nack(h) \/ HandlerDies(h) \/ ConnectionLost(h)
      PROVE  UNCHANGED <<status, told, overlapped>>
  BY <1>5 DEF GetPayment, CallGateway, ReadFresh, DatabaseFails, WebhookRaises, RetryOrDeadLetter,
              PublishFails, Ack, Nack, HandlerDies, ConnectionLost
<1>6. ASSUME \/ \E p \in Payments : Arrive(p)
             \/ DeclareTopology \/ TtlExpiresAny \/ UNCHANGED vars
      PROVE  UNCHANGED <<status, told, overlapped>>
  BY <1>6 DEF Arrive, DeclareTopology, TtlExpiresAny, TtlExpires, vars
<1>7. CASE \E h \in Handlers : DeliverAny(h)
  BY <1>4, <1>7 DEF DeliverAny
<1>8. CASE \E h \in Handlers : HandlerStep(h)
  BY <1>2, <1>3, <1>5, <1>8 DEF HandlerStep
<1> QED
  BY <1>5, <1>6, <1>7, <1>8 DEF Next
=============================================================================
