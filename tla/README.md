# Verification of async-payments-service

TLA+ models of the service in this repository, the TLC runs that check them on
small instances and the TLAPS proofs of what holds for every instance.

The service takes a payment over HTTP, stores it together with an outbox event,
publishes the event to RabbitMQ, processes the payment in a consumer against an
emulated gateway, and tells the client over a webhook. None of its parts is
complicated alone; what is hard is that each part may fail or be repeated at any
point, that four processes share two tables and a broker without a common
transaction, and that "exactly once" has to be put together from at-least-once parts.

## The system

| Part | Code | State it keeps | Operations |
|---|---|---|---|
| Create payment | `in_api/routes.py`, `use_cases/create_payment.py`, `out_db/payment_repository.py` | rows of `payments` and `outbox`; one session per request | `POST /api/v1/payments` |
| Read payment | `in_api/routes.py`, `use_cases/get_payment.py` | none | `GET /api/v1/payments/{id}` |
| Outbox worker | `outbox_worker.py`, `use_cases/outbox_publisher.py`, `out_db/outbox_repository.py`, `out_rabbitmq/publisher.py` | `outbox.status`, `attempts`, `next_retry_at`; the batch in memory | claim, publish, mark published, mark failed |
| Broker topology | `in_consumer/topology.py`, `consumer.py` | `payments.new` (quorum queue with `x-delivery-limit`), two TTL retry queues, DLX and DLQ | declare; deliver, requeue, expire, dead-letter (RabbitMQ) |
| Consumer | `in_consumer/handlers.py`, `use_cases/process_payment.py` | `payments.status`; unacknowledged messages | handle a message, retry or dead-letter it |
| Gateway | `out_http/payment_gateway.py` | none (emulated) | answer `succeeded` or `failed` |
| Webhook | `out_http/webhook_client.py` | the attempt it is at | POST with three attempts |
| Transaction boundary | `out_db/transaction_manager.py`, `transaction_boundary.py` | a flag in the session | begin, commit, roll back, refuse |
| Request hash | `use_cases/create_payment.py:122-158` | none | normalise and hash a body |
| API key, validation, settings, logging, migrations, Docker | `dependencies.py`, `schemas.py`, `core/`, `migrations/` | none at run time | – |

How they meet: the API and the worker share the table `outbox`; the worker and the
consumer share the exchange `payments`, which only the consumer declares; the API
and the consumer share the table `payments`. Nothing else is shared: the worker never
learns what the consumer did, nor the consumer what the API answered.

What makes each part correct:

* **API** – one payment per `Idempotency-Key`, made together with exactly one event,
  and every answer agrees with it, however requests race, fail and are repeated.
* **Outbox worker** – every event ends published or given up; published means that
  the broker has it, given up means that it was tried often enough; duplicates only
  where a crash or a lost confirmation explains them; the back-off holds.
* **Transaction boundary** – a block is saved as a whole or not at all, and what a failed
  one leaves in the session is never saved by the next.
* **Request hash** – bodies have the same hash exactly if they mean the same.
* **Consumer** – a message is never lost between the queues, reaches the DLQ neither
  too early nor never; a final status is not changed, the gateway is not called
  for a final payment, and clients only hear what is committed.
* **The whole** – no payment is forgotten between the processes, and its client sees
  and hears of one payment per key that goes from pending to one final status.

What is hard to test in it is listed, with the line where it bites and the properties
that cover it, under `hazards` in `PROJECT.json`.

## Modules

### `PaymentConsumer`

The consumer, its queues and the webhook. A copy of a message is a record with an id,
its payment, the body's `attempt`, the quorum queue's delivery count (`returns`) and a
place: `ready` in `payments.new`, in a `retry` queue, or held by a handler. A handler is
one invocation of `process_payment`; its `step` is the await it is at:

| step | code |
|---|---|
| `read` | `_get_payment` |
| `gateway` | `payment_gateway.process_payment`, outside any transaction |
| `fresh`, `commit` | the two halves of `_save_gateway_result`: the read and the unconditional `update_status` |
| `webhook` | one HTTP attempt of `send_webhook` per action |
| `failed` | `_retry_or_dead_letter` |
| `ack`, `nack` | FastStream's acknowledgement after the handler returned or raised |

Failures that are actions: a database error before the commit (`DatabaseFails`), a
commit whose answer is lost (`Commit` to `failed`), a webhook that fails though it was
received, an exception that is no `httpx.HTTPError` (`WebhookRaises`), a publication
that raises although it was accepted (`PublishFails`), a publication that is unroutable
because its queue is not bound yet (`Unroutable`), the death of the process
(`HandlerDies`) and a lost connection that returns the message while the handler goes on
(`ConnectionLost`), which is how two handlers come to work on one payment.

RabbitMQ is modelled by what the code relies on: a returned copy counts against
`x-delivery-limit` and is dead-lettered past it; a copy that comes back from a retry queue
is a new one with count 0; nothing is delivered in any particular order.
`declare_payment_topology` declares and binds in separate awaits while messages are already
delivered, so `declared` counts how far it has come: the DLX, the DLQ (`HasDlq`), then
the retry queues in the order of their attempts (`HasRetry`). What a handler publishes and what the
broker dead-letters meanwhile depends on it.

### `OutboxPublisher` and `EventRelay`

The worker over the `outbox` table. `Select` is the `SELECT ... FOR UPDATE SKIP LOCKED`
of a batch, `CommitSelect` the end of its transaction, which releases the locks before
anything is published. `Publish`, `Read` and `MarkPublished` or `MarkFailed` follow for
each claim. SQLAlchemy writes back only the columns whose value changed since they were
loaded (`Changed`), and the attempts a failure is judged by are those of the claim
(`Exhausted`), not of the row: both matter once two workers handle one row. `Die` stands
for every database error too, because nothing catches one: the process ends.

`EventRelay` is what this comes to for one worker and one event: it is tried, with a pause after each
failure, until it is published or `MaxAttempts` tries have failed, with one copy for each try and
each death. `OutboxPublisher` implements it under the mapping at its end (`Promise`), in which an event
waits while its row's `next_retry_at` is in the future.

### `PaymentApi` and `IdempotentCreate`

`PaymentApi` has one action for every statement of `CreatePaymentUseCase` that meets other
requests: the lookup, the INSERT that takes the key in the unique index or waits for
the transaction that has it, the event, the commit, and the second look after a unique
conflict. `HashOf` says which bodies hash alike; `LegacyKeys` are the payments that the
second migration left with `request_hash = 'legacy'`.

`IdempotentCreate` is the promise without the mechanism: a ledger with one entry per key,
made together with its event, and an answer that agrees with the entry. It has no
locks, sessions or transactions; but it knows what each request asked for (`asked`: key and hash),
and an entry or an answer can only be what that calls for. `PaymentApi` implements it under the mapping at its end
(`Abstract`), where the ledger is the committed table seen through its key.

### `RequestHash` and `PaymentApiBodies`

The normalisation behind `HashOf`. A Decimal is a coefficient and an exponent, so that `10`,
`10.00` and `1E+1` are different spellings; `NormalizeDecimal` rounds it to the context's
precision, strips its trailing zeros and writes it out, as `normalize()` and
`format(_, "f")` do. A JSON object is the sequence of its members as written, and `Normal` is
`_normalize_json`, a recursive function; `Dumped` is the second sorting of `json.dumps(sort_keys=True)`,
which finds nothing left to do (`DumpedKeeps`); `Values` is any set of JSON values that has the
parts of its members in it, and `Depth` says that each is finite. `SameRequest` says what it
means for two bodies to be the same request, without any normal form: equal amounts, and equal
metadata when objects are functions from their keys (`Meaning`).

`PaymentApiBodies` is `PaymentApi` with bodies that have an amount and metadata (`Content`), hashes that
agree with `BuildRequestHash`, and one more variable, `asked`: the body the client of each request sent. So
`NoFalseConflict` and `NoFalseReplay` speak of what clients get for what they meant, not of hashes.

### `TransactionBoundary` and `UnitOfWork`

`SqlAlchemyTransactionManager` over a session that does not begin transactions by itself
(`autobegin=False`). One action is `__aenter__` (`Enter`, or `EnterRefused` for its two
`RuntimeError`s and for `session.begin()`, which raises as long as the session has a transaction), one for each way through `__aexit__` (`LeaveNormally`, `LeaveByException`),
and the repositories' `ensure_application_transaction` is the guard of `Write`. The point of
the module is what happens when SQLAlchemy itself raises: a flush that leaves a failed
transaction, a commit that raises and is not rolled back by anybody (`CommitRaises`), a
rollback that raises. The caller is arbitrary: it nests blocks, calls repositories outside
them, and uses the session again after a failure, as the outbox worker's session lives
as long as its process. `UnitOfWork` is the promise: a block whose end is one step, which stores all of its
writes or none; `TransactionBoundary` implements it by leaving out the session.

### `PaymentPipeline` and `PaymentService`

`PaymentPipeline` composes `PaymentApi`, `OutboxPublisher` and `PaymentConsumer`, each an
`INSTANCE` whose variables are mapped to shared state: the API's `outbox` is derived from the
worker's `rows`; the consumer's `published` *is* the worker's `copies`; a request stands for the
payment it makes and for its event. The API's commit of an event is the worker's `Create`
(`EventCommitted`); a publication the queue accepts is the consumer's `Arrive`
(`MessageArrives`); every other step is a step of one part that leaves the others alone. The
broker is as the consumer's first start leaves it; the first start is covered by
`PaymentConsumer` and `OutboxPublisher` alone. `Shown` is what `GET /payments/{id}` answers.

`PaymentService` is the promise to a client, without tables, queues or processes: a request is
taken in (`Ask`), opens a payment for a key that has none (`Open`) or is answered with the one
its key has (`Repeat`); a payment is settled once and its client told what it was settled
to. The exception is the code's own: a payment on which two handlers have met
(`contested`) may be settled again. The mapping is `Service` at the end of `PaymentPipeline`.

### Proofs and MC modules

`PaymentConsumerProofs`, `OutboxPublisherProofs`, `PaymentApiProofs`, `RequestHashProofs`,
`PaymentApiBodiesProofs`, `TransactionBoundaryProofs` and `PaymentPipelineProofs` hold the theorems, see
[What is proved](#what-is-proved). `Recursion` is a module of lemmas that they instantiate: when a
recursively defined function exists, and induction over natural numbers.

`MCPaymentConsumer`, `MCOutboxPublisher` and `MCTransactionBoundary` add the symmetry sets of the
safety runs; `MCPaymentApi` builds the bodies and their hashes for `PaymentApiBodies`;
`MCPaymentPipeline` gives `HashOf` its value. The operators marked "Mutant" in the modules are
what plausible slips in the code would make of a definition; each property has one
that TLC shows to violate it.

## What the runs check

| Run | Instance | Shows |
|---|---|---|
| `ConsumerOverlap` | 1 payment, 2 handlers, 1 publication, 2 attempts, 2 webhook attempts, topology declared | `NoPaymentLost`, `ToldOnlyCommitted`, and the three properties that hold while handlers do not overlap |
| `ConsumerSequential` | the same with 1 handler, the event published twice, while the topology is declared piece by piece; fairness | the order of the declarations (`DlqBoundInTime`), the retry budget (`DeadOnlyAfterAllAttempts`, `RunsBounded`), `KeptOnceDeclared`, `EveryPaymentSettles` |
| `OutboxOneWorker` | 3 events, batches of 2, 2 attempts, 1 death, a fresh broker; fairness | the worker as docker-compose runs it: timely giving up, explained duplicates, final outcomes, back-off, every event settles; `OutboxPublisher` implements `EventRelay` |
| `OutboxTwoWorkers` | 2 events, 2 workers, batches of 2, 1 death | what is left of it with two workers |
| `ApiCreate` | 3 requests, a new and a legacy key, 4 bodies: one request in two spellings, another fraction, another order of a list; fairness | the idempotency properties, no false conflict and no false replay, every request is answered, `PaymentApi` implements `IdempotentCreate` |
| `Pipeline` | 2 requests with one key, 1 worker, 1 handler, an event published twice, 2 publication attempts; fairness | nothing is forgotten between the processes, one outcome per key, monotone reads, every accepted payment ends, the pipeline implements `PaymentService` |
| `TransactionBoundary` | 3 blocks with 2 writes each, over any number of sessions | blocks are atomic, whatever raises; leftovers are never committed; the guard holds; `TransactionBoundary` implements `UnitOfWork` |

Five runs end in a violation, each of one sentence in the repository:

| Run | The repository says | TLC shows |
|---|---|---|
| `ConsumerOverwrite` | "статус платежа остается финальным" (`process_payment.py:26`) | two handlers save one after the other: `update_status` has no condition |
| `ConsumerThreeRuns` | "3 total processing attempts means initial delivery plus 2 redeliveries" (`topology.py:53`) | every republished copy has a delivery count of its own |
| `ConsumerStartupLoss` | a failing message goes to the next attempt's retry queue, or is not acknowledged (`handlers.py:61-65`) | before `declare_payment_topology` has run it is unroutable, and acknowledged |
| `OutboxLateGiveUp` | "После max_attempts событие помечается как failed" (`outbox_publisher.py:30`) | two workers that fail on one claim both decide by the older count |
| `OutboxUnpublished` | "гарантированно публикует событие через outbox" (`README.md:3`) | before the consumer has bound its queue a publication is unroutable, which does not raise, and the row is marked published (or, without the exchange, given up for good) |

The first needs two handlers at once. The subscriber sets no prefetch limit, so that is
the normal state of the consumer; that they have the *same* payment takes a
duplicate publication or a returned message. The outbox violation `OutboxLateGiveUp`
needs two workers, for which SKIP LOCKED is there but which docker-compose does not start.

### Bounds, and why they are enough

* `MsgIds` bounds the copies in the broker at a time, `MaxCopies` the publications of one
  event. Two copies give every pair of handlers something to collide on; more copies
  repeat the collision.
* `TotalAttempts = 2` (3 in the code) has a first attempt, a retry and a dead letter, and a
  delivery limit of 1; `ConsumerThreeRuns` has 3. The proofs have no bound.
* `WebhookAttempts = 2` has an attempt that is repeated and one that gives up.
* `MaxAttempts = 2` in the outbox has an attempt that is retried and one that gives up;
  three events with batches of two leave one out of a batch.
* `MaxDeaths = 1` a crash at every point; the liveness property holds because the number
  of deaths is finite, which is what any such property needs.
* Three requests in `ApiCreate`: one holds the key, one waits for it, one comes late. Its four bodies have
  one pair for each thing the normalisation has to do: spelling and order of members that must not
  matter, at two depths, a fraction and the order of a list that must. `Precision = 4`
  (28 in Python) is enough for each of their amounts. More bodies, and amounts that are rounded, are the
  proof's affair.
* `Pipeline` has `TotalAttempts = 1`, `WebhookAttempts = 1`, one handler and no deaths of the worker:
  171,405 states, where a second attempt gives millions. Retries, overlapping handlers and
  deaths are in the runs of the parts; in the composition they occur in the proofs only:
  no run takes them there, and the five safety properties are proved without any bound. Two requests with one
  key and two publications are what it takes to have an original and a repeated
  request, and an original and a duplicated message, in the same behaviour.
* Three blocks in `TransactionBoundary`: one that leaves something behind, one that is refused
  or nested, one that must not be affected.

### Fairness

Weak fairness of the steps that the event loop, the clock or the broker takes by itself:
a handler that can go on does; a ready copy is delivered to an idle handler; a TTL or a
back-off ends; the consumer's start-up hook goes on; a dead process is started again. The last is
nothing that the repository provides: docker-compose has no restart policy for the outbox worker
nor for the consumer, so it is an operator who does it. `EveryEventSettles` assumes that of the
worker (`Restart`), `EveryPaymentSettles` of the consumer (a handler that died is `Idle`, and a ready copy
is delivered to it again), and `EveryAcceptedPaymentEnds` of the consumer too, its instance having
no deaths of the worker.
`PaymentPipeline` takes over the fairness of its parts, each condition with the step that it is
in the composition.
Nothing is assumed about the outcome of a database, HTTP or broker call, and no fairness
obliges anything to fail or to succeed.

CHECK_DEADLOCK is FALSE in all runs: with every payment settled, or every request
answered, the modelled system has nothing left to do.

## What is proved

`PaymentConsumerProofs`, `OutboxPublisherProofs`, `PaymentApiProofs`, `RequestHashProofs`,
`PaymentApiBodiesProofs`, `TransactionBoundaryProofs` and `PaymentPipelineProofs` each extend their module
and hold proofs that TLAPS checks for every value of the constants: any number of
payments, handlers, workers, requests and keys, any number of attempts, any number of
publications and deaths, any amounts and any depth of metadata. The only assumptions are those the
modules state about their constants (`ConsumerAssumption`, `OutboxAssumption`, `ApiAssumption`,
`HashAssumption`, `BodiesAssumption`, `BoundaryAssumption`, `PipelineAssumption`) and, where
noted, one more. Every invariant below was first checked by TLC.

With that, every safety property of a passing run is a theorem.

### The consumer

| Theorem | Property | Beyond the constants' assumptions |
|---|---|---|
| `TypeCorrect` | `TypeOK` | – |
| `GivingUpFindsTheDlq` | `DlqBoundInTime` | – |
| `NothingLostOnceDeclared` | `KeptOnceDeclared` | – |
| `PublishedIsKept` | `NoPaymentLost` | `~FreshBroker` |
| `DeadLettersWereTried` | `DeadOnlyAfterAllAttempts` | – |
| `RunsAreBounded` | `RunsBounded` | – |
| `ToldAfterCommit` | `ToldOnlyCommitted` | – |
| `ToldTheStoredStatus` | `ToldWhatIsStored` | – |
| `StatusStableUnlessOverlap` | `FinalStatusStableUnlessOverlap` | – |
| `NoSecondCharge` | `NoChargeAfterFinal` | – |
| `StatusStableAlone` | `FinalStatusStable` | one handler |

`FinalStatusStable` is what `ConsumerOverwrite` refutes for two handlers; the last theorem says that
nothing else than their meeting is to blame.

`LaterHaveDlq` is the invariant behind `GivingUpFindsTheDlq`: a copy or a handler beyond the first
attempt came through a retry queue, and those are bound after the DLQ. A message that RabbitMQ itself
dead-letters past the delivery limit has no such protection: it may find the DLQ unbound and is gone,
which is why `NoPaymentLost` needs `~FreshBroker`.

Three invariants carry them.

* `HeldByItsJob`: a copy that the broker counts as held by a handler is the copy that handler
  is busy with. Without it a handler could acknowledge or republish a message other
  than the one it was given, and a step of it could lose the last copy of a payment.
* `RunsInv`, for the two counters that run side by side. With *u* = 1 while a copy is held and
  0 otherwise, a copy that has been delivered *n* times, at `attempt` *a* with *r* returns,
  satisfies (*a* - 1) + *r* + *u* <= *n* <= (*a* - 1) * `TotalAttempts` + *r* + *u*. The lower bound
  gives `DeadOnlyAfterAllAttempts`, the upper one `RunsBounded`; `JobRuns` bounds the handler that
  goes on after its copy was taken back and publishes the next attempt.
* `StatusInv`: a handler that sends the webhook does so after a final status was committed
  (`SavedFirst`), and as long as no two handlers have met on a payment, the one that works on it
  finds it pending until it commits and holds the committed status from then on
  (`AloneOrOverlapped`). The history variable `overlapped` is what makes "unless handlers
  overlap" a property of a state, and the invariant inductive.

### The outbox worker

| Theorem | Property | Beyond the constants' assumptions |
|---|---|---|
| `TypeCorrect` | `TypeOK` | – |
| `GivenUpAfterAllAttempts` | `GivenUpWasTried` | – |
| `PublishedMeansAccepted` | `PublishedWasAccepted` | `~FreshBroker` |
| `GivenUpInTime` | `GivesUpInTime` | one worker |
| `EveryDuplicateExplained` | `DuplicatesExplained` | one worker |
| `OutcomeStays` | `OutcomeIsFinal` | one worker |
| `BackoffHolds` | `BackoffRespected` | one worker |
| `ImplementsEventRelay` | `RelaysEvents` | one worker |

`CountsAreBacked` says that no count of attempts, in the table, in a claim or in a loaded
row, exceeds the failures there were: workers that overwrite each other's counts lose
failures and never invent any. `MarksAccepted` says that a worker about to mark an event
as published has had it accepted. Five theorems need a single worker
(`OneWorker`), and the first is false without it (`OutboxLateGiveUp`). Their invariant is
`ClaimsCurrent`: what a worker remembers of a row is what the table says, although its
transaction, and with it the lock, ended before the first publication.
`CopiesExplained` spends the one copy that `DuplicatesExplained` allows beyond failures and
deaths: it is in flight, or the row says published. The refinement needs `LedgerInv` besides: with one worker
the row counts every failure there was, so that giving up by the claim's attempts is giving up
by the number of failed tries. A publication is a `Deliver` of `EventRelay` or nothing, a mark its
`Confirm` or `Fail`, and the rest of the loop a stutter.

### Create payment

| Theorem | Property |
|---|---|
| `TypeCorrect` | `TypeOK` |
| `SameKeySamePayment` | `OneAnswerPerKey` |
| `PaymentWithItsEvent` | `OneEventPerPayment` |
| `AnswersMatchBodies` | `AnswerMatchesBody` |
| `ConflictsAreResolvable` | `ConflictIsResolvable` |
| `ImplementsIdempotentCreate` | `KeepsItsPromise` |

`ApiInv` is their inductive invariant. `UniqueKey` (one row per key) needs `HoldersAlone`: at
most one open transaction holds a key in the index, and only while no committed row has
it. `RowsAreMade` and `EventsAreMade` say which request made which row and event, so that ids
stay fresh. The refinement maps the committed table to the ledger and a request's job to what it
`asked`: each commit makes an entry of `IdempotentCreate` (`Make`), with the key and the hash
that request came with (`Wanted`), each answer an answer of it, every other statement,
rollback and death a stutter.

### The request hash

| Theorem | Says |
|---|---|
| `SameTextIffSameRounded` | two amounts are normalised alike exactly if the context rounds them to the same amount |
| `NormalIffMeaning` | two JSON values are normalised alike exactly if they mean the same |
| `SameRequestSameHash` | bodies that mean the same hash alike |
| `SameHashSameRequest` | bodies that hash alike mean the same, if the context rounds neither amount (`Exact`) |
| `ShortAmountsAreExact` | an amount with at most `Precision` digits is not rounded |
| `SameMeaningNeverRefused` | `NoFalseConflict` |
| `OtherMeaningNeverReplayed` | `NoFalseReplay` |

*Recursive functions.* TLA+ defines `f[x \in S] == e` as *some* function that satisfies the equation, so nothing
follows about `f` until there is one, and that takes an induction. The library's induction
theorems range over operators, with which the provers cannot be instantiated; `Recursion` does without
them. `LeastElement` is the library's theorem that a well-founded relation has minimal elements, which is about a
set; `SetInduction` is induction for a set of natural numbers, so that a proof names the set of
cases in question instead of a predicate. `FunctionExists` then builds the function from its
restrictions to arguments of a bounded rank, for any body that looks only at arguments of a
lower rank. The body is an operator constant of the module, which `INSTANCE` replaces: by `TenStep`
for powers of ten, and by `NormalStep` and `MeaningStep` for JSON, whose rank is the depth of nesting.
`Dumped` needs none of it: the identity solves its equation, because what it is given is sorted.

*Amounts.* Equality of amounts is equality at any small enough unit (`SameAmountAt`). An amount with zeros
appended has more digits beyond the precision, or the same ones, and rounding half to even does
not depend on a common factor of number and unit (`HalfEvenScales`), so equal amounts are rounded to equal
ones (`RoundedRespects`). What is left after stripping has no factor of ten, and an amount has only one
such form (`PlainestUnique`), which its digits and places determine (`PlainTellsApart`).

*Metadata.* Members with distinct keys can be sorted, and in one way only (`SortedExists`, `SortedUnique`),
so that two objects are sorted alike exactly if they have the same normalised members. `NormalIffMeaning` is
the induction on the depth over that. A sorted object is sorted into itself (`NormalSorted`), so that
`json.dumps` writes what `_normalize_json` returned (`DumpedKeeps`).

*Clients.* `ApiInv` says which hash every row has; `HashesAsked`, that it is the hash of the body its request
asked with. With injectivity of SHA-256 on the bodies in question (`BodiesAssumption`) the two
properties follow from the theorems on hashes.

`Exact` in `NoFalseReplay` cannot be left out: `SameTextIffSameRounded` says that two amounts which the
context rounds to the same one are taken for the same, so the README's "с другим телом запроса вернет
`409 Conflict`" (`README.md:191`) holds up to the 28th significant digit. The column `Numeric(18, 2)`
refuses amounts from 10^16 on, so amounts of payments that are confused differ by no more than 10^-12.

### The transaction boundary

| Theorem | Property |
|---|---|
| `UnitsAreAtomic` | `AllOrNothing` |
| `FlagTellsTheTruth` | `FlagMeansTransaction` |
| `NextBlockBegins` | `CanBeginAgain` |
| `LeftoversStayUncommitted` | `NothingCommittedLater` |
| `ImplementsUnitOfWork` | `KeepsUnitsWhole` |

The invariant (`Inv`) says in `InBlock` that the flag is set exactly inside a block and then stands
for a transaction, and in `PendingOfUnit` that while a block can still commit, everything pending
is its own: writes that a failed commit left behind sit in a transaction with which `__aenter__`
begins no block, so they go with a rollback or with the session. That makes each way out of a
block, a failed commit and a crash included, one `End` of `UnitOfWork` (`EndIsOneStep`).

### The whole service

| Theorem | Property |
|---|---|
| `NoneForgotten` | `NoPaymentForgotten` |
| `CommittedFirst` | `OnlyCommittedIsProcessed` |
| `OneOutcome` | `OneOutcomePerKey` |
| `ReadsAreMonotone` | `ReadsNeverGoBack` |
| `PipelineImplementsService` | `ImplementsService` |

The proof is compositional. `WorkerPart`, `ConsumerPart` and `ApiPart` show that the pipeline, seen
through the variables of one part, behaves as that part's specification, so that every theorem
about it holds of the pipeline. For the API this needs a fact about the worker: no step of it
makes an outbox row or removes one (`RowsStay`). The parts' proof modules end with what the
others see of them: `ClaimsExist` (worker and queue only have events whose rows exist),
`OnlyPublished` (the consumer only has to do with payments whose event was published), and
`VisibleEffects` (what one step can do to what clients see). The theorems chain
these facts across the tables and the queue: an accepted webhook was sent by a handler, that had
a message, that was published from a row, that was committed with its payment, whose key
is unique. `PipelineImplementsService` maps each visible effect to its step of
`PaymentService` and everything else to a stutter; its least obvious step is `Open`, where
the payment's status must already read `pending`, because nothing can have processed a
payment that is not committed yet (`FreshIsPending`).

### What only TLC shows

Liveness (`EveryPaymentSettles`, `EveryEventSettles`, `EveryRequestAnswered`,
`EveryAcceptedPaymentEnds`), which rests on fairness and is outside what TLAPS proves. The
five violations are counterexamples, not theorems.

## What is not modelled, and why

* The API key and validation: a request that they refuse is answered 401 or 422 before it has a
  session or a transaction, and leaves no trace; the models begin behind them.
* Settings, logging, Docker, migrations (but for the legacy hash): configuration.
* Descriptions, currencies and URLs: data that the code passes on. Amounts and metadata are data
  too outside `RequestHash`; how the column `Numeric(18, 2)` rounds an amount decides nothing.
* The consumer's first start within the composition: `ConsumerSequential`, `OutboxOneWorker` and two
  of the violations have it for each part.
* Amounts whose exponent the decimal context cannot represent (beyond 999999): `normalize()` raises, and the
  request ends with a 500 before it has a transaction. Smaller ones than that are rounded to zero.
* Decimals within metadata: `_normalize_json` has a case for them, but metadata come from JSON, which has none.
* The `RequestHash` of a number that JSON can write in two ways (`1` and `1.0`): Python hashes
  them apart and the model has integers only.
* RabbitMQ's and PostgreSQL's own failures other than calls that fail, and their
  persistence: messages are persistent and the queues durable, commits are durable.
* Delays: back-offs, TTLs and timeouts end at any time.

## Plan

1. *Done*: `PaymentConsumer`, `OutboxPublisher`, `PaymentApi` with `IdempotentCreate`,
   `TransactionBoundary`, `RequestHash` with `PaymentApiBodies`, and the proofs of all their safety properties.
2. *Done*: `PaymentPipeline`, the three composed, as an implementation of `PaymentService`, and the
   proofs of its safety properties and of the refinement.
3. *Open*: the first start of the consumer within the composition, where the properties hold
   only from the moment the topology is declared on; a pipeline instance with retries, should a
   machine with more time for it be at hand.
