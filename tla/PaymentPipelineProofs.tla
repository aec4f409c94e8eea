------------------------ MODULE PaymentPipelineProofs ------------------------
(* What the whole service guarantees, for any number of requests, workers   *)
(* and handlers.  Each part of the pipeline behaves as its own module says, *)
(* so what is proved of the parts holds of it; the theorems here join these *)
(* facts across the tables and the queue that the parts share.             *)
EXTENDS PaymentPipeline, TLAPS

ApiP == INSTANCE PaymentApiProofs WITH LegacyKeys <- {}, job <- apiJob, outbox <- Outbox

WorkerP == INSTANCE OutboxPublisherProofs WITH
  Events <- Requests, job <- workerJob, route <- IF FreshBroker THEN "missing" ELSE "bound"

ConsumerP == INSTANCE PaymentConsumerProofs WITH
  Payments <- Requests, NoPayment <- None,
  job <- handlerJob, published <- copies,
  declared <- IF FreshBroker THEN 0 ELSE TotalAttempts + 1

----------------------------------------------------------------------------
(* Each part behaves as its own module says                                *)

\* The assumptions of the parts are the pipeline's.
\* The worker's actions are those of its module, which both instances name.
LEMMA WorkerSame ==
  /\ Worker!Init <=> WorkerP!Init
  /\ \A e \in Requests : /\ Worker!Create(e) <=> WorkerP!Create(e)
                         /\ Worker!RetryComesDue(e) <=> WorkerP!RetryComesDue(e)
  /\ \A w \in Workers : /\ Worker!WorkerStep(w) <=> WorkerP!WorkerStep(w)
                        /\ Worker!Die(w) <=> WorkerP!Die(w)
                        /\ Worker!Restart(w) <=> WorkerP!Restart(w)
<1>1. \A c : Worker!Exhausted(c) <=> WorkerP!Exhausted(c)
  BY DEF Worker!Exhausted, WorkerP!Exhausted
<1>2. \A w, c : Worker!MarkFailed(w, c) <=> WorkerP!MarkFailed(w, c)
  BY <1>1 DEF
    Worker!MarkFailed, Worker!Current, Worker!Locked, Worker!LockedByOthers, Worker!Changed,
    Worker!Advance, Worker!NoRow,
    WorkerP!MarkFailed, WorkerP!Current, WorkerP!Locked, WorkerP!LockedByOthers,
    WorkerP!Changed, WorkerP!Advance, WorkerP!NoRow
<1>3. \A w, c : Worker!Publish(w, c) <=> WorkerP!Publish(w, c)
  BY DEF Worker!Publish, Worker!Current, WorkerP!Publish, WorkerP!Current
<1>4. \A w, c : Worker!Read(w, c) <=> WorkerP!Read(w, c)
  BY DEF Worker!Read, Worker!Current, WorkerP!Read, WorkerP!Current
<1>5. \A w, c : Worker!MarkPublished(w, c) <=> WorkerP!MarkPublished(w, c)
  BY DEF
    Worker!MarkPublished, Worker!Current, Worker!Locked, Worker!LockedByOthers,
    Worker!Changed, Worker!Advance, Worker!NoRow,
    WorkerP!MarkPublished, WorkerP!Current, WorkerP!Locked, WorkerP!LockedByOthers,
    WorkerP!Changed, WorkerP!Advance, WorkerP!NoRow
<1>6. \A S : Worker!Cardinality(S) = WorkerP!Cardinality(S)
  BY DEF Worker!Cardinality, WorkerP!Cardinality
<1>7. \A w : Worker!Select(w) <=> WorkerP!Select(w)
  BY <1>6 DEF
    Worker!Select, Worker!Due, Worker!Locked, Worker!LockedByOthers, Worker!NoRow,
    WorkerP!Select, WorkerP!Due, WorkerP!Locked, WorkerP!LockedByOthers, WorkerP!NoRow
<1>8. \A w : Worker!WorkerStep(w) <=> WorkerP!WorkerStep(w)
  BY <1>2, <1>3, <1>4, <1>5, <1>7 DEF
    Worker!WorkerStep, Worker!HandleClaim, Worker!CommitSelect,
    WorkerP!WorkerStep, WorkerP!HandleClaim, WorkerP!CommitSelect
<1>9. \A w : /\ Worker!Die(w) <=> WorkerP!Die(w)
             /\ Worker!Restart(w) <=> WorkerP!Restart(w)
  BY DEF
    Worker!Die, Worker!Restart, Worker!NoRow, Worker!Asleep, Worker!Gone,
    WorkerP!Die, WorkerP!Restart, WorkerP!NoRow, WorkerP!Asleep, WorkerP!Gone
<1> QED
  BY <1>8, <1>9 DEF
    Worker!Init, Worker!Create, Worker!RetryComesDue, Worker!NoRow, Worker!NewRow, Worker!Asleep,
    WorkerP!Init, WorkerP!Create, WorkerP!RetryComesDue, WorkerP!NoRow, WorkerP!NewRow,
    WorkerP!Asleep

LEMMA WorkerNext == [Next]_vars => [WorkerP!Next]_WorkerP!vars
<1>1. CASE ApiStep
  BY <1>1, WorkerSame DEF ApiStep, EventCommitted, worker, WorkerP!Next, WorkerP!vars
<1>2. CASE OutboxStep
  BY <1>2, WorkerSame DEF OutboxStep, WorkerP!Next
<1>3. CASE ConsumerStep
  BY <1>3 DEF ConsumerStep, worker, WorkerP!vars
<1>4. CASE UNCHANGED vars
  BY <1>4 DEF vars, WorkerP!vars
<1> QED
  BY <1>1, <1>2, <1>3, <1>4 DEF Next

LEMMA WorkerPart == Spec => WorkerP!Spec
<1>1. Init => WorkerP!Init
  BY WorkerSame DEF Init
<1> QED
  BY <1>1, WorkerNext, PTL DEF Spec, WorkerP!Spec

\* And so are the consumer's.
LEMMA ConsumerSame ==
  /\ Consumer!Init <=> ConsumerP!Init
  /\ \A p \in Requests : Consumer!Arrive(p) <=> ConsumerP!Arrive(p)
  /\ Consumer!TtlExpiresAny <=> ConsumerP!TtlExpiresAny
  /\ \A h \in Handlers : /\ Consumer!DeliverAny(h) <=> ConsumerP!DeliverAny(h)
                         /\ Consumer!HandlerStep(h) <=> ConsumerP!HandlerStep(h)
                         /\ Consumer!HandlerDies(h) <=> ConsumerP!HandlerDies(h)
                         /\ Consumer!ConnectionLost(h) <=> ConsumerP!ConnectionLost(h)
BY DEF
  Consumer!Init, Consumer!Arrive, Consumer!TtlExpiresAny, Consumer!DeliverAny,
  Consumer!HandlerStep, Consumer!HandlerDies, Consumer!ConnectionLost, Consumer!Final,
  Consumer!DeliveryLimit, Consumer!Idle, Consumer!Start, Consumer!Busy, Consumer!Unacked,
  Consumer!FreeIds, Consumer!Goto, Consumer!Dead, Consumer!TtlExpires, Consumer!Deliver,
  Consumer!ReturnUnacked, Consumer!GetPayment, Consumer!CallGateway, Consumer!ReadFresh,
  Consumer!Commit, Consumer!DatabaseFails, Consumer!WebhookDelivered, Consumer!WebhookFails,
  Consumer!WebhookRaises, Consumer!Republish, Consumer!DeadLetter, Consumer!Unroutable,
  Consumer!RetryOrDeadLetter, Consumer!PublishFails, Consumer!Ack, Consumer!Nack, Consumer!db,
  Consumer!AllDeclared, Consumer!HasDlx, Consumer!HasDlq, Consumer!HasRetry,
  Consumer!QueueBound, Consumer!ExchangeDeclared, ConsumerP!AllDeclared, ConsumerP!HasDlx,
  ConsumerP!HasDlq, ConsumerP!HasRetry, ConsumerP!QueueBound, ConsumerP!ExchangeDeclared,
  Consumer!broker, Consumer!history, ConsumerP!Init, ConsumerP!Arrive,
  ConsumerP!TtlExpiresAny, ConsumerP!DeliverAny, ConsumerP!HandlerStep, ConsumerP!HandlerDies,
  ConsumerP!ConnectionLost, ConsumerP!Final, ConsumerP!DeliveryLimit, ConsumerP!Idle,
  ConsumerP!Start, ConsumerP!Busy, ConsumerP!Unacked, ConsumerP!FreeIds, ConsumerP!Goto,
  ConsumerP!Dead, ConsumerP!TtlExpires, ConsumerP!Deliver, ConsumerP!ReturnUnacked,
  ConsumerP!GetPayment, ConsumerP!CallGateway, ConsumerP!ReadFresh, ConsumerP!Commit,
  ConsumerP!DatabaseFails, ConsumerP!WebhookDelivered, ConsumerP!WebhookFails,
  ConsumerP!WebhookRaises, ConsumerP!Republish, ConsumerP!DeadLetter, ConsumerP!Unroutable,
  ConsumerP!RetryOrDeadLetter, ConsumerP!PublishFails, ConsumerP!Ack, ConsumerP!Nack,
  ConsumerP!db, ConsumerP!broker, ConsumerP!history

LEMMA ConsumerNext == [Next]_vars => [ConsumerP!Next]_ConsumerP!vars
<1>1. CASE ApiStep
  <2>1. UNCHANGED copies
    BY <1>1 DEF ApiStep, EventCommitted, worker, Worker!Create
  <2> QED
    BY <1>1, <2>1 DEF ApiStep, consumer, ConsumerP!vars
<1>2. CASE OutboxStep
  BY <1>2, ConsumerSame DEF OutboxStep, MessageArrives, consumer, ConsumerP!Next, ConsumerP!vars
<1>3. CASE ConsumerStep
  BY <1>3, ConsumerSame DEF ConsumerStep, ConsumerP!Next
<1>4. CASE UNCHANGED vars
  BY <1>4 DEF vars, ConsumerP!vars
<1> QED
  BY <1>1, <1>2, <1>3, <1>4 DEF Next

LEMMA ConsumerPart == Spec => ConsumerP!Spec
<1>1. Init => ConsumerP!Init
  BY ConsumerSame DEF Init
<1> QED
  BY <1>1, ConsumerNext, PTL DEF Spec, ConsumerP!Spec
\* What is known of the worker.
WorkerInv ==
  /\ WorkerP!TypeOK
  /\ WorkerP!ClaimsExist
  /\ WorkerP!PublishedWasAccepted

LEMMA WorkerCorrect == Spec => []WorkerInv
<1>1. WorkerP!Spec => []WorkerP!TypeOK
  BY PipelineAssumption, WorkerP!TypeCorrect DEF FreshBroker
<1>2. WorkerP!Spec => []WorkerP!ClaimsExist
  BY PipelineAssumption, WorkerP!ClaimsCorrect DEF FreshBroker
<1>3. WorkerP!Spec => []WorkerP!PublishedWasAccepted
  BY PipelineAssumption, WorkerP!PublishedMeansAccepted DEF FreshBroker
<1> QED
  BY <1>1, <1>2, <1>3, WorkerPart, PTL DEF WorkerInv

\* What is known of the consumer.
ConsumerInv ==
  /\ ConsumerP!TypeOK
  /\ ConsumerP!StatusInv
  /\ ConsumerP!OnlyPublished
  /\ ConsumerP!NoPaymentLost

LEMMA ConsumerCorrect == Spec => []ConsumerInv
<1>1. ConsumerP!Spec => []ConsumerP!TypeOK
  BY PipelineAssumption, ConsumerP!TypeCorrect DEF FreshBroker
<1>2. ConsumerP!Spec => []ConsumerP!StatusInv
  BY PipelineAssumption, ConsumerP!StatusCorrect DEF FreshBroker
<1>3. ConsumerP!Spec => []ConsumerP!OnlyPublished
  BY PipelineAssumption, ConsumerP!OnlyPublishedCorrect DEF FreshBroker
<1>4. ConsumerP!Spec => []ConsumerP!NoPaymentLost
  BY PipelineAssumption, ConsumerP!PublishedIsKept DEF FreshBroker
<1> QED
  BY <1>1, <1>2, <1>3, <1>4, ConsumerPart, PTL DEF ConsumerInv

\* The API's actions; in its outbox nothing changes by a step of the worker.
LEMMA ApiSame ==
  /\ Api!Init <=> ApiP!Init
  /\ Api!Next <=> ApiP!Next
BY DEF
  Api!Init, Api!Next, Api!RequestStep, Api!Receive, Api!Lookup, Api!Insert, Api!CreateEvent,
  Api!Commit, Api!Reread, Api!DatabaseFails, Api!Die, Api!Persist, Api!Answer, Api!AnswerFrom,
  Api!Goto, Api!Running, Api!Waits, Api!Holds, Api!Stored, Api!NewRow, Api!NewEvent,
  Api!NoReply, Api!Conflict, Api!Error, Api!Accept, ApiP!Init, ApiP!Next, ApiP!RequestStep,
  ApiP!Receive, ApiP!Lookup, ApiP!Insert, ApiP!CreateEvent, ApiP!Commit, ApiP!Reread,
  ApiP!DatabaseFails, ApiP!Die, ApiP!Persist, ApiP!Answer, ApiP!AnswerFrom, ApiP!Goto,
  ApiP!Running, ApiP!Waits, ApiP!Holds, ApiP!Stored, ApiP!NewRow, ApiP!NewEvent, ApiP!NoReply,
  ApiP!Conflict, ApiP!Error, ApiP!Accept

LEMMA OutboxStays ==
  ASSUME WorkerInv, OutboxStep
  PROVE  Outbox' = Outbox
<1>1. \A e \in Requests : rows'[e].status = "absent" <=> rows[e].status = "absent"
  BY PipelineAssumption, WorkerSame, WorkerP!RowsStay DEF OutboxStep, WorkerInv, FreshBroker
<1> QED
  BY <1>1 DEF Outbox

LEMMA ApiNext == WorkerInv /\ [Next]_vars => [ApiP!Next]_ApiP!vars
<1>1. CASE ApiStep
  BY <1>1, ApiSame DEF ApiStep
<1>2. ASSUME WorkerInv, OutboxStep
      PROVE  UNCHANGED ApiP!vars
  BY <1>2, OutboxStays DEF OutboxStep, api, ApiP!vars
<1>3. CASE ConsumerStep
  BY <1>3 DEF ConsumerStep, api, worker, Outbox, ApiP!vars
<1>4. CASE UNCHANGED vars
  BY <1>4 DEF vars, Outbox, ApiP!vars
<1> QED
  BY <1>1, <1>2, <1>3, <1>4 DEF Next

LEMMA ApiPart == Spec => ApiP!Spec
<1>1. Init => ApiP!Init
  BY ApiSame DEF Init
<1> QED
  BY <1>1, ApiNext, WorkerCorrect, PTL DEF Spec, ApiP!Spec

\* What is known of the API.
ApiInv ==
  /\ ApiP!TypeOK
  /\ ApiP!ApiInv
  /\ ApiP!IdleHasNoKey
  /\ ApiP!MadeHere

LEMMA ApiCorrect == Spec => []ApiInv
<1>1. ApiP!Spec => [](ApiP!TypeOK /\ ApiP!ApiInv)
  BY PipelineAssumption, ApiP!InvCorrect
<1>2. ApiP!Spec => []ApiP!IdleHasNoKey
  BY PipelineAssumption, ApiP!IdleCorrect
<1>3. ApiP!Spec => []ApiP!MadeHere
  BY PipelineAssumption, ApiP!MadeHereCorrect
<1> QED
  BY <1>1, <1>2, <1>3, ApiPart, PTL DEF ApiInv

----------------------------------------------------------------------------
(* What the parts know of each other                                       *)

\* A row is the one that its request made, and its event is in the outbox.
LEMMA RowAndEvent ==
  ASSUME ApiInv, NEW row \in payments
  PROVE  /\ row.id \in Requests
         /\ row.key = apiJob[row.id].key
         /\ rows[row.id].status # "absent"
<1>1. row.id \in Requests
  BY DEF ApiInv, ApiP!MadeHere
<1>2. row = ApiP!NewRow(row.id)
  BY <1>1, PipelineAssumption DEF ApiInv, ApiP!ApiInv, ApiP!RowsAreMade
<1>3. ApiP!NewEvent(row.id) \in Outbox
  BY <1>1 DEF ApiInv, ApiP!ApiInv, ApiP!EventsAreMade
<1>4. PICK r \in Requests : /\ rows[r].status # "absent"
                           /\ ApiP!NewEvent(row.id) = [id |-> r, payment |-> r]
  BY <1>3 DEF Outbox
<1>5. r = row.id
  BY <1>4 DEF ApiP!NewEvent
<1> QED
  BY <1>1, <1>2, <1>4, <1>5 DEF ApiP!NewRow

\* The unique index.
LEMMA RowOfKey ==
  ASSUME ApiInv, NEW a \in payments, NEW b \in payments, a.key = b.key
  PROVE  a = b
BY DEF ApiInv, ApiP!ApiInv, ApiP!UniqueKey

\* What the queue accepted was in the outbox, and what is in the outbox is committed
\* with its payment.
LEMMA PublishedIsCommitted ==
  ASSUME ApiInv, WorkerInv, NEW p \in Requests, copies[p] > 0
  PROVE  Found(p)
<1>1. rows[p].status # "absent"
  BY DEF WorkerInv, WorkerP!ClaimsExist
<1>2. [id |-> p, payment |-> p] \in Outbox
  BY <1>1 DEF Outbox
<1>3. \E row \in payments : row.id = [id |-> p, payment |-> p].id
  BY <1>2 DEF ApiInv, ApiP!ApiInv, ApiP!EventsAreMade
<1> QED
  BY <1>3 DEF Found

LEMMA ConcernedIsCommitted ==
  ASSUME ApiInv, WorkerInv, ConsumerInv, NEW p \in Requests, ConsumerP!Concerns(p)
  PROVE  Found(p)
BY PublishedIsCommitted DEF ConsumerInv, ConsumerP!OnlyPublished

LEMMA ShownStatus ==
  ASSUME ConsumerInv, NEW p \in Requests
  PROVE  /\ Found(p) => Shown(p) = status[p] /\ Shown(p) # "none"
         /\ ~Found(p) => Shown(p) = "none"
BY DEF Shown, Found, ConsumerInv, ConsumerP!TypeOK, ConsumerP!Statuses, ConsumerP!Final

----------------------------------------------------------------------------
(* What the service guarantees                                             *)

\* No payment is forgotten between the API, the worker and the consumer.
THEOREM NoneForgotten == Spec => []NoPaymentForgotten
<1>1. ApiInv /\ WorkerInv /\ ConsumerInv => NoPaymentForgotten
  <2> SUFFICES ASSUME ApiInv, WorkerInv, ConsumerInv, NEW row \in payments,
                      rows[row.id].status \notin {"pending", "failed"}
               PROVE  Consumer!Kept(row.id)
    BY DEF NoPaymentForgotten
  <2>1. row.id \in Requests /\ rows[row.id].status # "absent"
    BY RowAndEvent
  <2>2. rows[row.id].status = "published"
    BY <2>1 DEF WorkerInv, WorkerP!TypeOK, WorkerP!Rows
  <2>3. copies[row.id] > 0
    BY <2>1, <2>2 DEF WorkerInv, WorkerP!PublishedWasAccepted
  <2>4. ConsumerP!Kept(row.id)
    BY <2>1, <2>3 DEF ConsumerInv, ConsumerP!NoPaymentLost
  <2> QED
    BY <2>4 DEF Consumer!Kept, Consumer!Pending, ConsumerP!Kept, ConsumerP!Pending
<1> QED
  BY <1>1, ApiCorrect, WorkerCorrect, ConsumerCorrect, PTL

\* The worker and the consumer only ever meet payments that are committed.
THEOREM CommittedFirst == Spec => []OnlyCommittedIsProcessed
<1>1. ApiInv /\ WorkerInv /\ ConsumerInv => OnlyCommittedIsProcessed
  <2> SUFFICES ASSUME ApiInv, WorkerInv, ConsumerInv, NEW p \in Requests, Processed(p)
               PROVE  Shown(p) # "none"
    BY DEF OnlyCommittedIsProcessed
  <2>1. copies[p] > 0 \/ ConsumerP!Concerns(p)
    BY DEF Processed, ConsumerP!Concerns
  <2> QED
    BY <2>1, PublishedIsCommitted, ConcernedIsCommitted, ShownStatus
<1> QED
  BY <1>1, ApiCorrect, WorkerCorrect, ConsumerCorrect, PTL

\* Clients are told of one payment per key, the one they were answered with.
THEOREM OneOutcome == Spec => []OneOutcomePerKey
<1>1. ApiInv /\ WorkerInv /\ ConsumerInv => OneOutcomePerKey
  <2> SUFFICES ASSUME ApiInv, WorkerInv, ConsumerInv,
                      NEW p \in Requests, NEW r \in Requests,
                      told[p] # {}, apiJob[p].key = apiJob[r].key
               PROVE  /\ told[r] # {} => r = p
                      /\ reply[r].code = 202 => reply[r].id = p
    BY DEF OneOutcomePerKey
  <2>1. \A q \in Requests : told[q] # {} => Found(q)
    BY ConcernedIsCommitted DEF ConsumerP!Concerns
  <2>2. PICK row \in payments : row.id = p
    BY <2>1 DEF Found
  <2>3. row.key = apiJob[r].key
    BY <2>2, RowAndEvent
  <2>4. ASSUME told[r] # {}
        PROVE  r = p
    BY <2>1, <2>2, <2>3, <2>4, RowAndEvent, RowOfKey DEF Found
  <2>5. ASSUME reply[r].code = 202
        PROVE  reply[r].id = p
    <3>1. PICK x \in payments : x.key = apiJob[r].key /\ x.id = reply[r].id
      BY <2>5 DEF ApiInv, ApiP!ApiInv, ApiP!AnswerMatchesBody, ApiP!Stored
    <3> QED
      BY <2>2, <2>3, <3>1, RowOfKey
  <2> QED
    BY <2>4, <2>5
<1> QED
  BY <1>1, ApiCorrect, WorkerCorrect, ConsumerCorrect, PTL

----------------------------------------------------------------------------
(* What a step of the pipeline shows                                       *)

\* The effects of a step on what clients see are those of the API or of the consumer.
LEMMA ApiEffects ==
  ASSUME ApiInv, WorkerInv, [Next]_vars
  PROVE  \/ payments' = payments /\ ApiP!Asked' = ApiP!Asked /\ ApiP!Answered' = ApiP!Answered
         \/ \E r \in Requests, k \in Keys : ApiP!Asks(r, k)
         \/ \E r \in Requests : ApiP!Opens(r)
         \/ \E r \in Requests : \E row \in payments : ApiP!Repeats(r, row)
<1>1. [ApiP!Next]_ApiP!vars
  BY ApiNext
<1> QED
  BY <1>1, PipelineAssumption, ApiP!VisibleEffects DEF ApiInv

LEMMA ConsumerEffects ==
  ASSUME ConsumerInv, [Next]_vars
  PROVE  \/ UNCHANGED <<status, told, overlapped>>
         \/ \E p \in Requests, result \in Final : \/ ConsumerP!Settles(p, result)
                                                \/ ConsumerP!Tells(p, result)
         \/ \E p \in Requests : ConsumerP!Meets(p)
<1>1. [ConsumerP!Next]_ConsumerP!vars
  BY ConsumerNext
<1> QED
  BY <1>1, PipelineAssumption, ConsumerP!VisibleEffects
     DEF ConsumerInv, FreshBroker, Final, ConsumerP!Final

LEMMA PaymentsStay ==
  ASSUME ApiInv, WorkerInv, [Next]_vars
  PROVE  payments \subseteq payments'
BY ApiEffects DEF ApiP!Asks, ApiP!Opens, ApiP!Repeats

\* What GET shows never goes back.
THEOREM ReadsAreMonotone == Spec => ReadsNeverGoBack
<1>1. ASSUME ApiInv, WorkerInv, ConsumerInv, ConsumerInv', [Next]_vars, NEW p \in Requests
      PROVE  /\ Shown(p) # "none" => Shown(p)' # "none"
             /\ Shown(p) \in Final => /\ Shown(p)' \in Final
                                      /\ ~overlapped[p] => Shown(p)' = Shown(p)
  <2> SUFFICES ASSUME Found(p)
               PROVE  /\ Shown(p)' # "none"
                      /\ Shown(p) \in Final => /\ Shown(p)' \in Final
                                               /\ ~overlapped[p] => Shown(p)' = Shown(p)
    BY <1>1, ShownStatus DEF Final
  <2>1. Found(p)'
    BY <1>1, PaymentsStay DEF Found
  <2>2. Shown(p) = status[p]
    BY <1>1, ShownStatus
  <2>3. Shown(p)' = status'[p] /\ Shown(p)' # "none"
    <3>1. status'[p] # "none"
      BY <1>1 DEF ConsumerInv, ConsumerP!TypeOK, ConsumerP!Statuses, ConsumerP!Final
    <3> QED
      BY <2>1, <3>1 DEF Shown, Found
  <2>4. status[p] \in Final => status'[p] \in Final /\ (~overlapped[p] => status'[p] = status[p])
    BY <1>1, ConsumerEffects
       DEF ConsumerInv, ConsumerP!TypeOK, ConsumerP!Settles, ConsumerP!Tells, ConsumerP!Meets, Final
  <2> QED
    BY <2>2, <2>3, <2>4
<1>2. ApiInv /\ WorkerInv /\ ConsumerInv /\ ConsumerInv' /\ [Next]_vars
        => [\A p \in Requests :
              /\ Shown(p) # "none" => Shown(p)' # "none"
              /\ Shown(p) \in Final => /\ Shown(p)' \in Final
                                       /\ ~overlapped[p] => Shown(p)' = Shown(p)]_vars
  BY <1>1
<1> QED
  BY <1>2, ApiCorrect, WorkerCorrect, ConsumerCorrect, PTL DEF Spec, ReadsNeverGoBack

----------------------------------------------------------------------------
(* The pipeline implements PaymentService                                  *)

Account == [p \in Requests |-> Shown(p)]

\* A step that leaves payments and status alone changes no account.
LEMMA AccountStays ==
  ASSUME payments' = payments, status' = status
  PROVE  Account' = Account
BY DEF Account, Found, Shown

\* A payment that is not committed is pending for the consumer, if it comes to it.
LEMMA FreshIsPending ==
  ASSUME ApiInv, WorkerInv, ConsumerInv, NEW r \in Requests, ~Found(r)
  PROVE  status[r] = "pending"
BY ConcernedIsCommitted DEF ConsumerP!Concerns

LEMMA ImplementsInit == Init => Service!Init
<1> SUFFICES ASSUME Init
             PROVE  Service!Init
  OBVIOUS
<1>1. /\ payments = {}
      /\ apiJob = [r \in Requests |-> [step |-> "idle", key |-> None, hash |-> None]]
      /\ reply = [r \in Requests |-> [code |-> 0, id |-> None]]
  BY DEF Init, Api!Init, Api!NoReply
<1>2. told = [p \in Requests |-> {}] /\ overlapped = [p \in Requests |-> FALSE]
  BY DEF Init, Consumer!Init
<1> QED
  BY <1>1, <1>2 DEF Service!Init, Found, Shown

LEMMA OpensStep ==
  ASSUME ApiInv, WorkerInv, ConsumerInv, NEW r \in Requests, ApiP!Opens(r),
         UNCHANGED <<status, told, overlapped>>
  PROVE  Service!Open(r)
<1>1. ~Found(r)
  BY DEF ApiP!Opens, Found
<1>2. \A q \in Requests : apiJob[q].key = apiJob[r].key => ~Found(q)
  BY RowAndEvent DEF ApiP!Opens, ApiP!Asked, Found
<1>3. status[r] = "pending"
  BY <1>1, FreshIsPending
<1>4. ASSUME NEW q \in Requests
      PROVE  Found(q)' <=> Found(q) \/ q = r
  <2>1. payments' = payments \cup {ApiP!NewRow(r)} /\ ApiP!NewRow(r).id = r
    BY DEF ApiP!Opens, ApiP!NewRow
  <2> QED
    BY <2>1 DEF Found
<1>5. Account' = [Account EXCEPT ![r] = "pending"]
  BY <1>3, <1>4 DEF Account, Shown, Found
<1>6. \A q \in Requests : apiJob[q].key = apiJob[r].key => Account[q] = "none"
  BY <1>2, ShownStatus DEF Account
<1> QED
  BY <1>5, <1>6 DEF Service!Open, Account, ApiP!Opens, ApiP!Asked, ApiP!Answered

LEMMA RepeatsStep ==
  ASSUME ApiInv, ConsumerInv, NEW r \in Requests, NEW row \in payments,
         ApiP!Repeats(r, row), UNCHANGED <<status, told, overlapped>>
  PROVE  row.id \in Requests /\ Service!Repeat(r, row.id)
<1>1. row.id \in Requests /\ row.key = apiJob[row.id].key
  BY RowAndEvent
<1>2. Account[row.id] # "none"
  BY <1>1, ShownStatus DEF Found, Account
<1>3. Account' = Account
  BY AccountStays DEF ApiP!Repeats
<1> QED
  BY <1>1, <1>2, <1>3 DEF Service!Repeat, Account, ApiP!Repeats, ApiP!Asked, ApiP!Answered

LEMMA ApiImplements ==
  ASSUME ApiInv, WorkerInv, ConsumerInv, [Next]_vars, UNCHANGED <<status, told, overlapped>>
  PROVE  [Service!Next]_Service!vars
<1>1. CASE payments' = payments /\ ApiP!Asked' = ApiP!Asked /\ ApiP!Answered' = ApiP!Answered
  BY <1>1, AccountStays DEF Service!vars, Account, ApiP!Asked, ApiP!Answered
<1>2. ASSUME NEW r \in Requests, NEW k \in Keys, ApiP!Asks(r, k)
      PROVE  Service!Ask(r, k)
  BY <1>2, AccountStays DEF ApiP!Asks, Service!Ask, Account, ApiP!Asked, ApiP!Answered
<1> QED
  BY <1>1, <1>2, ApiEffects, OpensStep, RepeatsStep DEF Service!Next

LEMMA ConsumerImplements ==
  ASSUME ApiInv, WorkerInv, ConsumerInv, [Next]_vars,
         payments' = payments, ApiP!Asked' = ApiP!Asked, ApiP!Answered' = ApiP!Answered
  PROVE  [Service!Next]_Service!vars
<1>1. \A p \in Requests : copies[p] > 0 => Account[p] = status[p] /\ Account[p] # "none"
  BY PublishedIsCommitted, ShownStatus DEF Account
<1>2. CASE UNCHANGED <<status, told, overlapped>>
  BY <1>2, AccountStays DEF Service!vars, Account, ApiP!Asked, ApiP!Answered
<1>3. ASSUME NEW p \in Requests, NEW result \in Final, ConsumerP!Settles(p, result)
      PROVE  Service!Settle(p, result)
  <2>1. Account' = [Account EXCEPT ![p] = result]
    BY <1>1, <1>3 DEF ConsumerP!Settles, Account, Found, Shown, ConsumerInv, ConsumerP!TypeOK
  <2> QED
    BY <1>1, <1>3, <2>1 DEF ConsumerP!Settles, Service!Settle, Account, ApiP!Asked, ApiP!Answered
<1>4. ASSUME NEW p \in Requests, NEW result \in Final, ConsumerP!Tells(p, result)
      PROVE  Service!Tell(p, result)
  BY <1>1, <1>4, AccountStays
     DEF ConsumerP!Tells, ConsumerP!Final, Service!Tell, Service!Final, Account,
         ApiP!Asked, ApiP!Answered
<1>5. ASSUME NEW p \in Requests, ConsumerP!Meets(p)
      PROVE  Service!Contest(p)
  BY <1>1, <1>5, AccountStays
     DEF ConsumerP!Meets, Service!Contest, Account, ApiP!Asked, ApiP!Answered
<1> QED
  BY <1>2, <1>3, <1>4, <1>5, ConsumerEffects DEF Service!Next, Service!Final, Final

\* Requests, workers and handlers together keep the service's promise.
THEOREM PipelineImplementsService == Spec => ImplementsService
<1>1. ApiInv /\ WorkerInv /\ ConsumerInv /\ [Next]_vars => [Service!Next]_Service!vars
  <2> SUFFICES ASSUME ApiInv, WorkerInv, ConsumerInv, [Next]_vars
               PROVE  [Service!Next]_Service!vars
    OBVIOUS
  <2>1. CASE UNCHANGED <<status, told, overlapped>>
    BY <2>1, ApiImplements
  <2>2. CASE payments' = payments /\ apiJob' = apiJob /\ reply' = reply
    BY <2>2, ConsumerImplements DEF ApiP!Asked, ApiP!Answered
  <2> QED
    BY <2>1, <2>2 DEF Next, ApiStep, OutboxStep, ConsumerStep, api, consumer, vars
<1> QED
  BY <1>1, ImplementsInit, ApiCorrect, WorkerCorrect, ConsumerCorrect, PTL
     DEF Spec, ImplementsService, Service!Spec
=============================================================================
