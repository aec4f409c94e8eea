--------------------------- MODULE OutboxPublisher ---------------------------
(***************************************************************************)
(* The outbox worker: OutboxPublisherUseCase (use_cases/                   *)
(* outbox_publisher.py) over the outbox table (out_db/                     *)
(* outbox_repository.py) and the broker (out_rabbitmq/publisher.py).       *)
(*                                                                         *)
(* A worker claims a batch of due rows with FOR UPDATE SKIP LOCKED, commits *)
(* that transaction, which releases the locks, and only then publishes the *)
(* events one by one, marking each in a transaction of its own that reads  *)
(* the row and writes back the columns it changed.  Any database error     *)
(* ends the process; it is started again from outside.                     *)
(***************************************************************************)
EXTENDS Integers, FiniteSets

CONSTANTS
  Events,       \* outbox rows, numbered in the order of created_at
  Workers,      \* outbox-worker processes
  MaxAttempts,  \* OutboxPublisherUseCase.max_attempts
  BatchSize,    \* OutboxPublisherUseCase.batch_size
  MaxDeaths,    \* bound: how often a worker process dies
  FreshBroker   \* TRUE: the first start, the consumer has declared nothing yet

ASSUME OutboxAssumption ==
  /\ Events \subseteq Nat
  /\ MaxAttempts \in Nat \ {0}
  /\ BatchSize \in Nat \ {0}
  /\ MaxDeaths \in Nat
  /\ FreshBroker \in BOOLEAN

VARIABLES
  route,     \* how far the consumer has set up exchange and queue
  rows,      \* the committed outbox rows
  job,       \* what each worker is doing
  deaths,    \* how many times a worker process died
  copies,    \* history: copies of the event the queue accepted
  failures   \* history: failed publications written to the row

vars == <<route, rows, job, deaths, copies, failures>>

----------------------------------------------------------------------------
\* next_retry_at is null, in the future, or past.
Rows == [status : {"absent", "pending", "published", "failed"},
         attempts : Nat, retry : {"null", "waiting", "due"}]

NoRow == [status |-> "absent", attempts |-> 0, retry |-> "null"]
NewRow == [status |-> "pending", attempts |-> 0, retry |-> "null"]

\* An event of the batch with the attempts it had when it was selected.
Claims == [event : Events, attempts : Nat]

Steps == {"sleep", "select", "publish", "read_published", "read_failed",
          "write_published", "write_failed", "dead"}

\* `todo`: the claims of the batch still to be handled; `row`: the row that the
\* marking transaction loaded.
Jobs == [step : Steps, todo : SUBSET Claims, row : Rows]

Asleep == [step |-> "sleep", todo |-> {}, row |-> NoRow]
Gone   == [step |-> "dead",  todo |-> {}, row |-> NoRow]

\* FOR UPDATE holds its rows until the selecting transaction commits.
Locked(w) == IF job[w].step = "select" THEN {c.event : c \in job[w].todo} ELSE {}
LockedByOthers(w) == UNION {Locked(v) : v \in Workers \ {w}}

\* The loop takes the claims in the order of created_at.
Current(w, c) ==
  /\ c \in job[w].todo
  /\ \A d \in job[w].todo : c.event <= d.event

Init ==
  /\ route = IF FreshBroker THEN "missing" ELSE "bound"
  /\ rows = [e \in Events |-> NoRow]
  /\ job = [w \in Workers |-> Asleep]
  /\ deaths = 0
  /\ copies = [e \in Events |-> 0]
  /\ failures = [e \in Events |-> 0]

----------------------------------------------------------------------------
(* Around the worker: the API, the consumer's start and the clock.         *)

\* The API commits a payment together with its event.
Create(e) ==
  /\ rows[e].status = "absent"
  /\ rows' = [rows EXCEPT ![e] = NewRow]
  /\ UNCHANGED <<route, job, deaths, copies, failures>>

\* The subscriber declares the exchange, and then the queue bound to it.
ConsumerDeclares ==
  /\ route # "bound"
  /\ route' = IF route = "missing" THEN "unbound" ELSE "bound"
  /\ UNCHANGED <<rows, job, deaths, copies, failures>>

RetryComesDue(e) ==
  /\ rows[e].retry = "waiting"
  /\ rows' = [rows EXCEPT ![e].retry = "due"]
  /\ UNCHANGED <<route, job, deaths, copies, failures>>

----------------------------------------------------------------------------
(* publish_pending_once                                                    *)

\* Mutants: conditions of get_pending_events left out.
DueWhateverStatus(e) == rows[e].status # "absent" /\ rows[e].retry # "waiting"
DueWhateverRetry(e) == rows[e].status = "pending"
DueOnlyOnce(e) == rows[e].status = "pending" /\ rows[e].retry = "null"

Due(e) == rows[e].status = "pending" /\ rows[e].retry # "waiting"

\* get_pending_events: the first BatchSize due rows that nobody else has locked.
\* An empty batch sends the worker back to sleep, which changes nothing.
Select(w) ==
  LET free == {e \in Events : Due(e)} \ LockedByOthers(w) IN
  /\ job[w].step = "sleep"
  /\ \E batch \in SUBSET free \ {{}} :
       /\ \A e \in batch, f \in free \ batch : e < f
       /\ Cardinality(batch) = BatchSize \/ (batch = free /\ Cardinality(batch) < BatchSize)
       /\ job' = [job EXCEPT ![w] = [step |-> "select", row |-> NoRow,
            todo |-> {[event |-> e, attempts |-> rows[e].attempts] : e \in batch}]]
  /\ UNCHANGED <<route, rows, deaths, copies, failures>>

\* The selecting transaction ends before anything is published.
CommitSelect(w) ==
  /\ job[w].step = "select"
  /\ job' = [job EXCEPT ![w].step = "publish"]
  /\ UNCHANGED <<route, rows, deaths, copies, failures>>

\* Mutant: a failed publication is logged and passes for a good one.
PublishUnchecked(w, c) ==
  /\ job[w].step = "publish"
  /\ Current(w, c)
  /\ \E accepted \in BOOLEAN :
       /\ accepted => route = "bound"
       /\ copies' = [copies EXCEPT ![c.event] = IF accepted THEN @ + 1 ELSE @]
  /\ job' = [job EXCEPT ![w].step = "read_published"]
  /\ UNCHANGED <<route, rows, deaths, failures>>

\* broker.publish: accepted and confirmed; accepted but the answer is lost; not
\* accepted.  Without the exchange it raises; an exchange without the queue
\* returns the message as unroutable, which does not raise.
Publish(w, c) ==
  /\ job[w].step = "publish"
  /\ Current(w, c)
  /\ \E accepted, returned \in BOOLEAN :
       /\ accepted => route = "bound"
       /\ returned => accepted \/ route = "unbound"
       /\ copies' = [copies EXCEPT ![c.event] = IF accepted THEN @ + 1 ELSE @]
       /\ job' = [job EXCEPT ![w].step = IF returned THEN "read_published" ELSE "read_failed"]
  /\ UNCHANGED <<route, rows, deaths, failures>>

\* session.get of the marking transaction, without a lock.
Read(w, c) ==
  /\ Current(w, c)
  /\ job[w].step \in {"read_published", "read_failed"}
  /\ job' = [job EXCEPT ![w].row = rows[c.event],
                        ![w].step = IF @ = "read_published" THEN "write_published"
                                                            ELSE "write_failed"]
  /\ UNCHANGED <<route, rows, deaths, copies, failures>>

\* Mutant: the UPDATE carries every column, with null where nothing changed.
ChangedOrNull(value, loaded, stored) == IF value # loaded THEN value ELSE "null"

\* The UPDATE carries a column only if its value differs from the one loaded.
Changed(value, loaded, stored) == IF value # loaded THEN value ELSE stored

\* The claim is done; after the last one the worker sleeps again.
Advance(w, c) ==
  LET rest == job[w].todo \ {c}
  IN job' = [job EXCEPT ![w] = [step |-> IF rest = {} THEN "sleep" ELSE "publish",
                                todo |-> rest, row |-> NoRow]]

\* Mutant: the row keeps its status.
MarkPublishedNoStatus(w, c) ==
  LET e == c.event  loaded == job[w].row IN
  /\ job[w].step = "write_published"
  /\ Current(w, c)
  /\ e \notin LockedByOthers(w)
  /\ rows' = [rows EXCEPT ![e].retry = Changed("null", loaded.retry, @)]
  /\ Advance(w, c)
  /\ UNCHANGED <<route, deaths, copies, failures>>

MarkPublished(w, c) ==
  LET e == c.event  loaded == job[w].row IN
  /\ job[w].step = "write_published"
  /\ Current(w, c)
  /\ e \notin LockedByOthers(w)
  /\ rows' = [rows EXCEPT ![e].status = Changed("published", loaded.status, @),
                          ![e].retry = Changed("null", loaded.retry, @)]
  /\ Advance(w, c)
  /\ UNCHANGED <<route, deaths, copies, failures>>

\* Mutants: one attempt too few, one too many.
ExhaustedEarly(c) == c.attempts + 2 >= MaxAttempts
ExhaustedLate(c) == c.attempts >= MaxAttempts

\* _mark_as_failed decides by the attempts of the claim, not of the row.
Exhausted(c) == c.attempts + 1 >= MaxAttempts

MarkFailed(w, c) ==
  LET e == c.event  loaded == job[w].row
      status == IF Exhausted(c) THEN "failed" ELSE "pending"
  IN
  /\ job[w].step = "write_failed"
  /\ Current(w, c)
  /\ e \notin LockedByOthers(w)
  /\ rows' = [rows EXCEPT ![e] =
       [status   |-> Changed(status, loaded.status, @.status),
        attempts |-> loaded.attempts + 1,
        retry    |-> IF Exhausted(c) THEN Changed("null", loaded.retry, @.retry)
                                     ELSE "waiting"]]
  /\ failures' = [failures EXCEPT ![e] = @ + 1]
  /\ Advance(w, c)
  /\ UNCHANGED <<route, deaths, copies>>

\* A database error anywhere, a commit whose answer is lost, a kill: the process
\* ends and forgets its batch; open transactions roll back.
Die(w) ==
  /\ job[w].step # "dead"
  /\ deaths < MaxDeaths
  /\ deaths' = deaths + 1
  /\ job' = [job EXCEPT ![w] = Gone]
  /\ UNCHANGED <<route, rows, copies, failures>>

Restart(w) ==
  /\ job[w].step = "dead"
  /\ job' = [job EXCEPT ![w] = Asleep]
  /\ UNCHANGED <<route, rows, deaths, copies, failures>>

----------------------------------------------------------------------------
HandleClaim(w) ==
  \E c \in job[w].todo : Publish(w, c) \/ Read(w, c) \/ MarkPublished(w, c) \/ MarkFailed(w, c)

WorkerStep(w) == Select(w) \/ CommitSelect(w) \/ HandleClaim(w)

Next ==
  \/ \E e \in Events : Create(e) \/ RetryComesDue(e)
  \/ ConsumerDeclares
  \/ \E w \in Workers : WorkerStep(w) \/ Die(w) \/ Restart(w)

Spec == Init /\ [][Next]_vars

\* The worker's loop runs, time passes, the consumer starts and a dead worker is
\* started again.  Nothing obliges the API to create events or a publication to
\* succeed.
Fairness ==
  /\ WF_vars(ConsumerDeclares)
  /\ \A e \in Events : WF_vars(RetryComesDue(e))
  /\ \A w \in Workers : WF_vars(WorkerStep(w)) /\ WF_vars(Restart(w))

FairSpec == Spec /\ Fairness

----------------------------------------------------------------------------
(* Properties                                                              *)

\* Every variable has its type.
TypeOK ==
  /\ route \in {"missing", "unbound", "bound"}
  /\ rows \in [Events -> Rows]
  /\ job \in [Workers -> Jobs]
  /\ deaths \in Nat
  /\ copies \in [Events -> Nat]
  /\ failures \in [Events -> Nat]

\* Whatever workers do to each other's rows, a row says "published" only if the
\* queue accepted the event at least once.
PublishedWasAccepted ==
  \A e \in Events : rows[e].status = "published" => copies[e] > 0

\* An event is given up only after MaxAttempts publications of it failed, however
\* many workers overwrite each other's count of attempts.
GivenUpWasTried ==
  \A e \in Events : rows[e].status = "failed" => failures[e] >= MaxAttempts

\* "After max_attempts the event is marked failed" (docstring of the use case).
GivesUpInTime ==
  \A e \in Events : rows[e].attempts >= MaxAttempts => rows[e].status # "pending"

\* The guarantee the README opens with: the worker is done with an event, whether
\* it marks it as published or gives it up, only when the queue has it.
DoneMeansPublished ==
  \A e \in Events : rows[e].status \in {"published", "failed"} => copies[e] > 0

\* The queue gets an event more than once only because a publication that failed
\* had been accepted, or because a worker died before it marked the row.
DuplicatesExplained ==
  \A e \in Events : copies[e] <= failures[e] + deaths + 1

\* A row that is published or failed stays as it is.
OutcomeIsFinal ==
  [][\A e \in Events : rows[e].status \in {"published", "failed"}
       => rows'[e].status = rows[e].status]_vars

\* Between two publications of an event lies its back-off: nothing publishes it
\* while next_retry_at is in the future.
BackoffRespected ==
  [][\A e \in Events : copies'[e] # copies[e] => rows[e].retry # "waiting"]_vars

\* Every event ends published or failed, through any number of restarts.
EveryEventSettles ==
  \A e \in Events : rows[e].status = "pending" ~> rows[e].status \in {"published", "failed"}

Promise == INSTANCE EventRelay WITH
  state <- [e \in Events |-> IF rows[e].retry = "waiting" THEN "waiting" ELSE rows[e].status],
  Bound <- ~FreshBroker

\* Refinement, for one worker: batches, claims and transactions come to what EventRelay
\* promises of every event.
RelaysEvents == Promise!Spec
=============================================================================
