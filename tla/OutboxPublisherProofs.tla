------------------------ MODULE OutboxPublisherProofs ------------------------
(* What OutboxPublisher guarantees for any number of events, workers,       *)
(* attempts and deaths, and what only a single worker guarantees.           *)
EXTENDS OutboxPublisher, TLAPS

----------------------------------------------------------------------------
(* Type correctness                                                        *)

LEMMA TypeInit == Init => TypeOK
BY OutboxAssumption DEF Init, TypeOK, Rows, NoRow, Jobs, Steps, Asleep

LEMMA AdvanceType ==
  ASSUME TypeOK, NEW w \in Workers, NEW c \in job[w].todo, Advance(w, c)
  PROVE  job' \in [Workers -> Jobs]
<1>1. (job[w].todo \ {c}) \subseteq Claims
  BY DEF TypeOK, Jobs
<1> QED
  BY <1>1 DEF TypeOK, Advance, Jobs, Steps, NoRow, Rows

LEMMA TypeStep == TypeOK /\ [Next]_vars => TypeOK'
<1> SUFFICES ASSUME TypeOK, [Next]_vars
             PROVE  TypeOK'
  OBVIOUS
<1>1. ASSUME NEW e \in Events, Create(e)
      PROVE  TypeOK'
  BY <1>1 DEF TypeOK, Create, NewRow, Rows
<1>2. ASSUME NEW e \in Events, RetryComesDue(e)
      PROVE  TypeOK'
  BY <1>2 DEF TypeOK, RetryComesDue, Rows
<1>3. ASSUME ConsumerDeclares
      PROVE  TypeOK'
  BY <1>3 DEF TypeOK, ConsumerDeclares
<1>4. ASSUME NEW w \in Workers, Select(w)
      PROVE  TypeOK'
  <2>1. PICK batch \in SUBSET Events :
          job' = [job EXCEPT ![w] = [step |-> "select", row |-> NoRow,
                    todo |-> {[event |-> e, attempts |-> rows[e].attempts] : e \in batch}]]
    BY <1>4 DEF Select
  <2>2. {[event |-> e, attempts |-> rows[e].attempts] : e \in batch} \subseteq Claims
    BY DEF TypeOK, Rows, Claims
  <2> QED
    BY <1>4, <2>1, <2>2 DEF TypeOK, Select, Jobs, Steps, NoRow, Rows
<1>5. ASSUME NEW w \in Workers, CommitSelect(w)
      PROVE  TypeOK'
  BY <1>5 DEF TypeOK, CommitSelect, Jobs, Steps
<1>6. ASSUME NEW w \in Workers, NEW c \in job[w].todo, Publish(w, c)
      PROVE  TypeOK'
  <2>1. c.event \in Events
    BY DEF TypeOK, Jobs, Claims
  <2> QED
    BY <1>6, <2>1 DEF TypeOK, Publish, Jobs, Steps
<1>7. ASSUME NEW w \in Workers, NEW c \in job[w].todo, Read(w, c)
      PROVE  TypeOK'
  <2>1. rows[c.event] \in Rows
    BY DEF TypeOK, Jobs, Claims
  <2>2. job' \in [Workers -> Jobs]
    BY <1>7, <2>1 DEF TypeOK, Read, Jobs, Steps
  <2> QED
    BY <1>7, <2>2 DEF TypeOK, Read
<1>8. ASSUME NEW w \in Workers, NEW c \in job[w].todo, MarkPublished(w, c)
      PROVE  TypeOK'
  <2>1. c.event \in Events /\ job[w].row \in Rows
    BY DEF TypeOK, Jobs, Claims
  <2>2. rows' \in [Events -> Rows]
    BY <1>8, <2>1 DEF TypeOK, MarkPublished, Changed, Rows
  <2> QED
    BY <1>8, <2>2, AdvanceType DEF TypeOK, MarkPublished
<1>9. ASSUME NEW w \in Workers, NEW c \in job[w].todo, MarkFailed(w, c)
      PROVE  TypeOK'
  <2>1. c.event \in Events /\ job[w].row \in Rows
    BY DEF TypeOK, Jobs, Claims
  <2>2. rows' \in [Events -> Rows]
    BY <1>9, <2>1 DEF TypeOK, MarkFailed, Changed, Rows
  <2>3. failures' \in [Events -> Nat]
    BY <1>9, <2>1 DEF TypeOK, MarkFailed
  <2> QED
    BY <1>9, <2>2, <2>3, AdvanceType DEF TypeOK, MarkFailed
<1>10. ASSUME NEW w \in Workers, Die(w)
       PROVE  TypeOK'
  BY <1>10 DEF TypeOK, Die, Gone, Jobs, Steps, NoRow, Rows
<1>11. ASSUME NEW w \in Workers, Restart(w)
       PROVE  TypeOK'
  BY <1>11 DEF TypeOK, Restart, Asleep, Jobs, Steps, NoRow, Rows
<1>12. ASSUME UNCHANGED vars
       PROVE  TypeOK'
  BY <1>12 DEF TypeOK, vars
<1> QED
  BY <1>1, <1>2, <1>3, <1>4, <1>5, <1>6, <1>7, <1>8, <1>9, <1>10, <1>11, <1>12
     DEF Next, WorkerStep, HandleClaim

\* Type correctness.
THEOREM TypeCorrect == Spec => []TypeOK
BY TypeInit, TypeStep, PTL DEF Spec

----------------------------------------------------------------------------
(* Any number of workers                                                   *)

\* No count of attempts, in the table or in a worker's memory, exceeds the number of
\* failed publications: workers overwrite each other's counts, but only downwards.
CountsAreBacked ==
  /\ \A e \in Events : rows[e].attempts <= failures[e]
  /\ \A w \in Workers : \A c \in job[w].todo :
       /\ c.attempts <= failures[c.event]
       /\ Current(w, c) /\ job[w].step \in {"write_published", "write_failed"}
            => job[w].row.attempts <= failures[c.event]

TriedInv == CountsAreBacked /\ GivenUpWasTried

LEMMA ClaimType ==
  ASSUME TypeOK, NEW w \in Workers, NEW c \in job[w].todo
  PROVE  /\ c.event \in Events /\ c.event \in Nat /\ c.attempts \in Nat
         /\ job[w].row \in Rows /\ job[w].row.attempts \in Nat
         /\ rows[c.event] \in Rows /\ failures[c.event] \in Nat
<1>1. c \in Claims /\ job[w].row \in Rows
  BY DEF TypeOK, Jobs
<1>2. c.event \in Events /\ c.attempts \in Nat
  BY <1>1 DEF Claims
<1>3. c.event \in Nat
  BY <1>2, OutboxAssumption
<1> QED
  BY <1>1, <1>2, <1>3 DEF TypeOK, Rows

\* What a worker holds in memory stays backed when failures only grow and the workers'
\* jobs stay as they are or are forgotten.
LEMMA BackedJobs ==
  ASSUME TypeOK, CountsAreBacked, NEW w \in Workers, NEW c \in job'[w].todo,
         \A e \in Events : failures[e] <= failures'[e] /\ failures'[e] \in Nat,
         job'[w] = job[w]
  PROVE  /\ c.attempts <= failures'[c.event]
         /\ Current(w, c)' /\ job'[w].step \in {"write_published", "write_failed"}
              => job'[w].row.attempts <= failures'[c.event]
<1>1. /\ c \in job[w].todo /\ c.event \in Events /\ c.attempts \in Nat
      /\ job[w].row.attempts \in Nat /\ failures[c.event] \in Nat
  BY ClaimType
<1>2. Current(w, c)' => Current(w, c)
  BY DEF Current
<1> QED
  BY <1>1, <1>2 DEF CountsAreBacked

\* After a claim is done the worker is not about to write another row.
LEMMA Advanced ==
  ASSUME TypeOK, NEW w \in Workers, NEW c \in job[w].todo, Advance(w, c)
  PROVE  /\ job'[w].todo \subseteq job[w].todo
         /\ job'[w].step \in {"sleep", "publish"}
         /\ \A v \in Workers \ {w} : job'[v] = job[v]
BY DEF TypeOK, Advance

LEMMA TriedStep == TypeOK /\ TriedInv /\ [Next]_vars => TriedInv'
<1> SUFFICES ASSUME TypeOK, TriedInv, [Next]_vars
             PROVE  TriedInv'
  OBVIOUS
<1> USE DEF TriedInv
<1>0. \A e \in Events : failures[e] \in Nat /\ failures[e] <= failures[e]
  BY DEF TypeOK
<1>1. ASSUME NEW e \in Events, Create(e)
      PROVE  TriedInv'
  BY <1>0, <1>1 DEF TypeOK, Create, NewRow, CountsAreBacked, GivenUpWasTried, Current
<1>2. ASSUME NEW e \in Events, RetryComesDue(e)
      PROVE  TriedInv'
  BY <1>0, <1>2 DEF TypeOK, RetryComesDue, CountsAreBacked, GivenUpWasTried, Current, Rows
<1>3. ASSUME ConsumerDeclares
      PROVE  TriedInv'
  BY <1>3 DEF ConsumerDeclares, CountsAreBacked, GivenUpWasTried, Current
<1>4. ASSUME NEW w \in Workers, Select(w)
      PROVE  TriedInv'
  <2>1. PICK batch \in SUBSET Events :
          job' = [job EXCEPT ![w] = [step |-> "select", row |-> NoRow,
                    todo |-> {[event |-> e, attempts |-> rows[e].attempts] : e \in batch}]]
    BY <1>4 DEF Select
  <2>2. ASSUME NEW v \in Workers, NEW c \in job'[v].todo
        PROVE  /\ c.attempts <= failures'[c.event]
               /\ Current(v, c)' /\ job'[v].step \in {"write_published", "write_failed"}
                    => job'[v].row.attempts <= failures'[c.event]
    <3>1. CASE v = w
      <4>1. job'[w].step = "select"
        BY <2>1 DEF TypeOK
      <4>2. PICK e \in batch : c = [event |-> e, attempts |-> rows[e].attempts]
        BY <2>1, <2>2, <3>1 DEF TypeOK
      <4> QED
        BY <1>4, <3>1, <4>1, <4>2 DEF Select, CountsAreBacked
    <3>2. CASE v # w
      BY <1>0, <1>4, <2>1, <2>2, <3>2, BackedJobs DEF TypeOK, Select
    <3> QED
      BY <3>1, <3>2
  <2> QED
    BY <1>4, <2>2 DEF Select, CountsAreBacked, GivenUpWasTried
<1>5. ASSUME NEW w \in Workers, CommitSelect(w)
      PROVE  TriedInv'
  BY <1>5 DEF TypeOK, CommitSelect, CountsAreBacked, GivenUpWasTried, Current
<1>6. ASSUME NEW w \in Workers, NEW d \in job[w].todo, Publish(w, d)
      PROVE  TriedInv'
  BY <1>6 DEF TypeOK, Publish, CountsAreBacked, GivenUpWasTried, Current
<1>7. ASSUME NEW w \in Workers, NEW d \in job[w].todo, Read(w, d)
      PROVE  TriedInv'
  <2>1. /\ job'[w].todo = job[w].todo /\ job'[w].row = rows[d.event]
        /\ \A v \in Workers \ {w} : job'[v] = job[v]
    BY <1>7 DEF TypeOK, Read
  <2>2. ASSUME NEW v \in Workers, NEW c \in job'[v].todo
        PROVE  /\ c.attempts <= failures'[c.event]
               /\ Current(v, c)' /\ job'[v].step \in {"write_published", "write_failed"}
                    => job'[v].row.attempts <= failures'[c.event]
    <3>1. CASE v = w
      <4>1. Current(w, c)' => c.event = d.event
        <5>1. c \in job[w].todo
          BY <2>1, <2>2, <3>1
        <5>2. d.event <= c.event /\ (Current(w, c)' => c.event <= d.event)
          BY <1>7, <2>1, <5>1 DEF Read, Current
        <5> QED
          BY <5>1, <5>2, ClaimType
      <4>2. c \in job[w].todo /\ d.event \in Events
        BY <2>1, <2>2, <3>1, ClaimType
      <4> QED
        BY <1>7, <2>1, <3>1, <4>1, <4>2 DEF Read, CountsAreBacked
    <3>2. CASE v # w
      BY <1>0, <1>7, <2>1, <2>2, <3>2, BackedJobs DEF Read
    <3> QED
      BY <3>1, <3>2
  <2> QED
    BY <1>7, <2>2 DEF Read, CountsAreBacked, GivenUpWasTried
<1>8. ASSUME NEW w \in Workers, NEW d \in job[w].todo, Advance(w, d),
             \A e \in Events : failures[e] <= failures'[e] /\ failures'[e] \in Nat
      PROVE  \A v \in Workers : \A c \in job'[v].todo :
               /\ c.attempts <= failures'[c.event]
               /\ Current(v, c)' /\ job'[v].step \in {"write_published", "write_failed"}
                    => job'[v].row.attempts <= failures'[c.event]
  <2> SUFFICES ASSUME NEW v \in Workers, NEW c \in job'[v].todo
               PROVE  /\ c.attempts <= failures'[c.event]
                      /\ Current(v, c)' /\ job'[v].step \in {"write_published", "write_failed"}
                           => job'[v].row.attempts <= failures'[c.event]
    OBVIOUS
  <2>1. CASE v = w
    <3>1. c \in job[w].todo /\ job'[w].step \in {"sleep", "publish"}
      BY <1>8, <2>1, Advanced
    <3>2. c.event \in Events /\ c.attempts \in Nat /\ failures[c.event] \in Nat
      BY <3>1, ClaimType
    <3> QED
      BY <1>8, <2>1, <3>1, <3>2 DEF CountsAreBacked
  <2>2. CASE v # w
    BY <1>8, <2>2, Advanced, BackedJobs
  <2> QED
    BY <2>1, <2>2
<1>9. ASSUME NEW w \in Workers, NEW d \in job[w].todo, MarkPublished(w, d)
      PROVE  TriedInv'
  <2>1. d.event \in Events
    BY ClaimType
  <2>2. \A e \in Events : rows'[e].attempts = rows[e].attempts
    BY <1>9, <2>1 DEF TypeOK, Rows, MarkPublished
  <2>3. \A e \in Events : rows'[e].status = "failed" => rows[e].status = "failed"
    BY <1>9, <2>1 DEF TypeOK, Rows, MarkPublished, Changed
  <2> QED
    BY <1>0, <1>8, <1>9, <2>2, <2>3 DEF MarkPublished, CountsAreBacked, GivenUpWasTried
<1>10. ASSUME NEW w \in Workers, NEW d \in job[w].todo, MarkFailed(w, d)
       PROVE  TriedInv'
  <2>1. /\ d.event \in Events /\ d.attempts \in Nat /\ job[w].row.attempts \in Nat
        /\ failures[d.event] \in Nat /\ MaxAttempts \in Nat
    BY ClaimType, OutboxAssumption
  <2>2. /\ failures'[d.event] = failures[d.event] + 1
        /\ \A e \in Events \ {d.event} : failures'[e] = failures[e] /\ rows'[e] = rows[e]
    BY <1>10, <2>1 DEF TypeOK, MarkFailed
  <2>3. \A e \in Events : failures[e] <= failures'[e] /\ failures'[e] \in Nat
    BY <1>0, <2>1, <2>2
  <2>4. /\ rows'[d.event].attempts = job[w].row.attempts + 1
        /\ rows'[d.event].status =
             Changed(IF Exhausted(d) THEN "failed" ELSE "pending", job[w].row.status,
                     rows[d.event].status)
    BY <1>10, <2>1 DEF TypeOK, MarkFailed
  <2>5. d.attempts <= failures[d.event] /\ job[w].row.attempts <= failures[d.event]
    BY <1>10 DEF MarkFailed, CountsAreBacked
  <2>6. \A e \in Events : rows'[e].attempts <= failures'[e]
    BY <2>1, <2>2, <2>4, <2>5 DEF CountsAreBacked
  <2>7. rows'[d.event].status = "failed" => Exhausted(d) \/ rows[d.event].status = "failed"
    BY <2>4 DEF Changed
  <2>8. GivenUpWasTried'
    BY <2>1, <2>2, <2>5, <2>7 DEF Exhausted, GivenUpWasTried
  <2> QED
    BY <1>8, <1>10, <2>3, <2>6, <2>8 DEF MarkFailed, CountsAreBacked
<1>11. ASSUME NEW w \in Workers, Die(w)
       PROVE  TriedInv'
  BY <1>11 DEF TypeOK, Die, Gone, CountsAreBacked, GivenUpWasTried, Current
<1>12. ASSUME NEW w \in Workers, Restart(w)
       PROVE  TriedInv'
  BY <1>12 DEF TypeOK, Restart, Asleep, CountsAreBacked, GivenUpWasTried, Current
<1>13. ASSUME UNCHANGED vars
       PROVE  TriedInv'
  BY <1>13 DEF vars, CountsAreBacked, GivenUpWasTried, Current
<1> QED
  BY <1>1, <1>2, <1>3, <1>4, <1>5, <1>6, <1>7, <1>9, <1>10, <1>11, <1>12, <1>13
     DEF Next, WorkerStep, HandleClaim

\* An event is given up only after MaxAttempts failed publications, for any number
\* of workers that claim it at once.
THEOREM GivenUpAfterAllAttempts == Spec => []GivenUpWasTried
<1>1. Init => TriedInv
  BY DEF Init, TriedInv, CountsAreBacked, GivenUpWasTried, NoRow, Asleep
<1>2. TriedInv => GivenUpWasTried
  BY DEF TriedInv
<1> QED
  BY <1>1, <1>2, TriedStep, TypeCorrect, PTL DEF Spec

----------------------------------------------------------------------------
(* Any number of workers, exchange and queue in place                      *)

\* A worker about to mark an event as published has had it accepted.
MarksAccepted ==
  \A w \in Workers : \A c \in job[w].todo :
    Current(w, c) /\ job[w].step \in {"read_published", "write_published"}
      => copies[c.event] > 0

AcceptedInv == route = "bound" /\ MarksAccepted /\ PublishedWasAccepted

\* The current claims of one worker are for one event.
LEMMA CurrentEvent ==
  ASSUME TypeOK, NEW w \in Workers, NEW c, NEW d, Current(w, c), Current(w, d)
  PROVE  c.event = d.event
<1>1. c \in job[w].todo /\ d \in job[w].todo
  BY DEF Current
<1>2. c.event <= d.event /\ d.event <= c.event
  BY <1>1 DEF Current
<1> QED
  BY <1>1, <1>2, ClaimType

\* A job that is left alone stays as it should be while copies only grow.
LEMMA AcceptedJobs ==
  ASSUME TypeOK, MarksAccepted, NEW w \in Workers, job'[w] = job[w],
         \A e \in Events : copies[e] <= copies'[e] /\ copies'[e] \in Nat
  PROVE  \A c \in job'[w].todo :
           Current(w, c)' /\ job'[w].step \in {"read_published", "write_published"}
             => copies'[c.event] > 0
<1> SUFFICES ASSUME NEW c \in job[w].todo, Current(w, c),
                    job[w].step \in {"read_published", "write_published"}
             PROVE  copies'[c.event] > 0
  BY DEF Current
<1>1. c.event \in Events /\ copies[c.event] > 0 /\ copies[c.event] \in Nat
  BY ClaimType DEF MarksAccepted, TypeOK
<1> QED
  BY <1>1

LEMMA AcceptedStep == TypeOK /\ AcceptedInv /\ [Next]_vars => AcceptedInv'
<1> SUFFICES ASSUME TypeOK, AcceptedInv, [Next]_vars
             PROVE  AcceptedInv'
  OBVIOUS
<1> USE DEF AcceptedInv
<1>0. \A e \in Events : copies[e] \in Nat /\ copies[e] <= copies[e]
  BY DEF TypeOK
<1>1. ASSUME NEW e \in Events, Create(e) \/ RetryComesDue(e)
      PROVE  AcceptedInv'
  BY <1>1 DEF TypeOK, Rows, Create, NewRow, RetryComesDue, MarksAccepted,
              PublishedWasAccepted, Current
<1>2. ~ConsumerDeclares
  BY DEF ConsumerDeclares
<1>3. ASSUME NEW w \in Workers, UNCHANGED <<route, rows, copies>>,
             \A v \in Workers \ {w} : job'[v] = job[v],
             job'[w].step \notin {"read_published", "write_published"}
      PROVE  AcceptedInv'
  <2>1. MarksAccepted'
    BY <1>0, <1>3, AcceptedJobs DEF MarksAccepted
  <2> QED
    BY <1>3, <2>1 DEF PublishedWasAccepted
<1>4. ASSUME NEW w \in Workers, Select(w) \/ CommitSelect(w) \/ Die(w) \/ Restart(w)
      PROVE  AcceptedInv'
  <2>1. /\ UNCHANGED <<route, rows, copies>>
        /\ \A v \in Workers \ {w} : job'[v] = job[v]
        /\ job'[w].step \in {"select", "publish", "dead", "sleep"}
    BY <1>4 DEF TypeOK, Jobs, Select, CommitSelect, Die, Gone, Restart, Asleep
  <2> QED
    BY <1>3, <2>1
<1>5. ASSUME NEW w \in Workers, NEW d \in job[w].todo, Publish(w, d)
      PROVE  AcceptedInv'
  <2>1. d.event \in Events /\ copies[d.event] \in Nat
    BY ClaimType DEF TypeOK
  <2>2. PICK accepted, returned \in BOOLEAN :
          /\ returned => accepted
          /\ copies' = [copies EXCEPT ![d.event] = IF accepted THEN @ + 1 ELSE @]
          /\ job' = [job EXCEPT ![w].step = IF returned THEN "read_published" ELSE "read_failed"]
    BY <1>5 DEF Publish
  <2>3. \A e \in Events : copies[e] <= copies'[e] /\ copies'[e] \in Nat
    BY <1>0, <2>1, <2>2 DEF TypeOK
  <2>4. \A c \in job'[w].todo :
          Current(w, c)' /\ job'[w].step \in {"read_published", "write_published"}
            => copies'[c.event] > 0
    <3> SUFFICES ASSUME NEW c \in job'[w].todo, Current(w, c)', job'[w].step = "read_published"
                 PROVE  copies'[c.event] > 0
      BY <2>2 DEF TypeOK
    <3>1. job'[w].todo = job[w].todo
      BY <2>2 DEF TypeOK
    <3>2. c.event = d.event
      BY <1>5, <3>1, CurrentEvent DEF Publish, Current
    <3>3. accepted
      BY <2>2 DEF TypeOK, Jobs
    <3> QED
      BY <2>1, <2>2, <3>2, <3>3 DEF TypeOK
  <2>5. \A v \in Workers \ {w} : job'[v] = job[v]
    BY <2>2
  <2>6. MarksAccepted'
    BY <2>3, <2>4, <2>5, AcceptedJobs DEF MarksAccepted
  <2>7. PublishedWasAccepted'
    BY <1>0, <1>5, <2>3 DEF Publish, PublishedWasAccepted
  <2> QED
    BY <1>5, <2>6, <2>7 DEF Publish
<1>6. ASSUME NEW w \in Workers, NEW d \in job[w].todo, Read(w, d)
      PROVE  AcceptedInv'
  <2>1. /\ job'[w].todo = job[w].todo
        /\ job'[w].step = "write_published" => job[w].step = "read_published"
        /\ job'[w].step \in {"write_published", "write_failed"}
        /\ \A v \in Workers \ {w} : job'[v] = job[v]
    BY <1>6 DEF TypeOK, Jobs, Read
  <2>2. \A c \in job'[w].todo :
          Current(w, c)' /\ job'[w].step \in {"read_published", "write_published"}
            => copies'[c.event] > 0
    BY <1>6, <2>1 DEF Read, MarksAccepted, Current
  <2>3. MarksAccepted'
    BY <1>0, <1>6, <2>1, <2>2, AcceptedJobs DEF Read, MarksAccepted
  <2> QED
    BY <1>6, <2>3 DEF Read, PublishedWasAccepted
<1>7. ASSUME NEW w \in Workers, NEW d \in job[w].todo,
             MarkPublished(w, d) \/ MarkFailed(w, d)
      PROVE  AcceptedInv'
  <2>1. /\ Advance(w, d) /\ Current(w, d) /\ UNCHANGED <<route, copies>>
        /\ d.event \in Events
    BY <1>7, ClaimType DEF MarkPublished, MarkFailed
  <2>2. MarksAccepted'
    BY <1>0, <2>1, Advanced, AcceptedJobs DEF MarksAccepted
  <2>3. ASSUME NEW e \in Events, rows'[e].status = "published"
        PROVE  copies[e] > 0
    <3>1. CASE MarkPublished(w, d)
      <4>1. e # d.event => rows'[e] = rows[e]
        BY <2>1, <3>1 DEF TypeOK, MarkPublished
      <4>2. copies[d.event] > 0
        BY <2>1, <3>1 DEF MarkPublished, MarksAccepted
      <4> QED
        BY <2>3, <4>1, <4>2 DEF PublishedWasAccepted
    <3>2. CASE MarkFailed(w, d)
      <4>1. e # d.event => rows'[e] = rows[e]
        BY <2>1, <3>2 DEF TypeOK, MarkFailed
      <4>2. rows'[d.event].status = "published" => rows[d.event].status = "published"
        BY <2>1, <3>2 DEF TypeOK, MarkFailed, Changed
      <4> QED
        BY <2>3, <4>1, <4>2 DEF PublishedWasAccepted
    <3> QED
      BY <1>7, <3>1, <3>2
  <2> QED
    BY <2>1, <2>2, <2>3 DEF PublishedWasAccepted
<1>8. ASSUME UNCHANGED vars
      PROVE  AcceptedInv'
  BY <1>8 DEF vars, MarksAccepted, PublishedWasAccepted, Current
<1> QED
  BY <1>1, <1>2, <1>4, <1>5, <1>6, <1>7, <1>8 DEF Next, WorkerStep, HandleClaim

\* Once the consumer has declared exchange and queue, a row says "published" only if the
\* queue accepted the event, for any number of workers; before that, an event that
\* the exchange could not route is marked as well.
THEOREM PublishedMeansAccepted ==
  ASSUME ~FreshBroker
  PROVE  Spec => []PublishedWasAccepted
<1>1. Init => AcceptedInv
  BY DEF Init, AcceptedInv, MarksAccepted, PublishedWasAccepted, NoRow, Asleep
<1>2. AcceptedInv => PublishedWasAccepted
  BY DEF AcceptedInv
<1> QED
  BY <1>1, <1>2, AcceptedStep, TypeCorrect, PTL DEF Spec

----------------------------------------------------------------------------
(* Which rows there are, for any number of workers                         *)

\* Workers have claims on rows only that exist, and the queue has events only whose
\* rows exist.
ClaimsExist ==
  /\ \A w \in Workers : \A c \in job[w].todo : rows[c.event].status # "absent"
  /\ \A e \in Events : copies[e] > 0 => rows[e].status # "absent"

\* What marks a row neither makes one nor removes one.
LEMMA MarkKeepsRows ==
  ASSUME TypeOK, ClaimsExist, NEW w \in Workers, NEW c \in job[w].todo,
         MarkPublished(w, c) \/ MarkFailed(w, c)
  PROVE  \A e \in Events : rows'[e].status = "absent" <=> rows[e].status = "absent"
<1> SUFFICES ASSUME NEW e \in Events
             PROVE  rows'[e].status = "absent" <=> rows[e].status = "absent"
  OBVIOUS
<1>1. c.event \in Events /\ rows[c.event].status # "absent"
  BY ClaimType DEF ClaimsExist
<1>2. CASE MarkPublished(w, c)
  <2>1. e # c.event => rows'[e] = rows[e]
    BY <1>2 DEF TypeOK, MarkPublished
  <2>2. rows'[c.event].status \in {"published", rows[c.event].status}
    BY <1>1, <1>2 DEF TypeOK, Rows, MarkPublished, Changed
  <2> QED
    BY <1>1, <2>1, <2>2
<1>3. CASE MarkFailed(w, c)
  <2>1. e # c.event => rows'[e] = rows[e]
    BY <1>3 DEF TypeOK, MarkFailed
  <2>2. rows'[c.event].status \in {"pending", "failed", rows[c.event].status}
    BY <1>1, <1>3 DEF TypeOK, Rows, MarkFailed, Changed
  <2> QED
    BY <1>1, <2>1, <2>2
<1> QED
  BY <1>2, <1>3

\* Only the API makes rows; nobody removes one.
LEMMA RowsStay ==
  ASSUME TypeOK, ClaimsExist,
         \/ \E e \in Events : RetryComesDue(e)
         \/ \E w \in Workers : WorkerStep(w) \/ Die(w) \/ Restart(w)
  PROVE  \A e \in Events : rows'[e].status = "absent" <=> rows[e].status = "absent"
<1>1. ASSUME NEW e \in Events, RetryComesDue(e)
      PROVE  \A f \in Events : rows'[f].status = rows[f].status
  BY <1>1 DEF TypeOK, Rows, RetryComesDue
<1>2. ASSUME NEW w \in Workers, HandleClaim(w)
      PROVE  \A e \in Events : rows'[e].status = "absent" <=> rows[e].status = "absent"
  BY <1>2, MarkKeepsRows DEF HandleClaim, Publish, Read
<1>3. ASSUME NEW w \in Workers, Select(w) \/ CommitSelect(w) \/ Die(w) \/ Restart(w)
      PROVE  rows' = rows
  BY <1>3 DEF Select, CommitSelect, Die, Restart
<1> QED
  BY <1>1, <1>2, <1>3 DEF WorkerStep

LEMMA ClaimsStep == TypeOK /\ ClaimsExist /\ [Next]_vars => ClaimsExist'
<1> SUFFICES ASSUME TypeOK, ClaimsExist, [Next]_vars
             PROVE  ClaimsExist'
  OBVIOUS
<1>1. \A w \in Workers : \A c \in job[w].todo : c.event \in Events
  BY ClaimType
<1>2. ASSUME \A e \in Events : rows[e].status # "absent" => rows'[e].status # "absent",
             \A w \in Workers : job'[w].todo \subseteq job[w].todo,
             UNCHANGED copies
      PROVE  ClaimsExist'
  BY <1>1, <1>2 DEF ClaimsExist
<1>3. ASSUME NEW e \in Events, Create(e)
      PROVE  ClaimsExist'
  BY <1>2, <1>3 DEF TypeOK, Create, NewRow
<1>4. ASSUME NEW e \in Events, RetryComesDue(e)
      PROVE  ClaimsExist'
  BY <1>2, <1>4, RowsStay DEF RetryComesDue
<1>5. ASSUME NEW w \in Workers, Select(w)
      PROVE  ClaimsExist'
  <2>1. PICK batch \in SUBSET {e \in Events : Due(e)} :
          job' = [job EXCEPT ![w] = [step |-> "select", row |-> NoRow,
                    todo |-> {[event |-> e, attempts |-> rows[e].attempts] : e \in batch}]]
    BY <1>5 DEF Select
  <2>2. \A c \in job'[w].todo : rows[c.event].status # "absent"
    BY <2>1 DEF TypeOK, Due
  <2>3. \A v \in Workers \ {w} : job'[v] = job[v]
    BY <2>1 DEF TypeOK
  <2> QED
    BY <1>5, <2>2, <2>3 DEF Select, ClaimsExist
<1>6. ASSUME NEW w \in Workers, CommitSelect(w) \/ Die(w) \/ Restart(w)
      PROVE  ClaimsExist'
  <2>1. \A v \in Workers : job'[v].todo \subseteq job[v].todo
    BY <1>6 DEF TypeOK, Jobs, CommitSelect, Die, Gone, Restart, Asleep
  <2> QED
    BY <1>2, <1>6, <2>1 DEF CommitSelect, Die, Restart
<1>7. ASSUME NEW w \in Workers, NEW c \in job[w].todo, Publish(w, c)
      PROVE  ClaimsExist'
  <2>1. \A v \in Workers : job'[v].todo = job[v].todo
    BY <1>7 DEF TypeOK, Jobs, Publish
  <2>2. \A e \in Events : e # c.event => copies'[e] = copies[e]
    BY <1>7 DEF TypeOK, Publish
  <2> QED
    BY <1>7, <2>1, <2>2 DEF Publish, ClaimsExist
<1>8. ASSUME NEW w \in Workers, NEW c \in job[w].todo, Read(w, c)
      PROVE  ClaimsExist'
  <2>1. \A v \in Workers : job'[v].todo = job[v].todo
    BY <1>8 DEF TypeOK, Jobs, Read
  <2> QED
    BY <1>2, <1>8, <2>1 DEF Read
<1>9. ASSUME NEW w \in Workers, NEW c \in job[w].todo, MarkPublished(w, c) \/ MarkFailed(w, c)
      PROVE  ClaimsExist'
  <2>1. Advance(w, c) /\ UNCHANGED copies
    BY <1>9 DEF MarkPublished, MarkFailed
  <2>2. \A v \in Workers : job'[v].todo \subseteq job[v].todo
    BY <2>1, Advanced
  <2> QED
    BY <1>2, <1>9, <2>1, <2>2, MarkKeepsRows
<1>10. ASSUME ConsumerDeclares \/ UNCHANGED vars
       PROVE  ClaimsExist'
  BY <1>10 DEF ConsumerDeclares, vars, ClaimsExist
<1> QED
  BY <1>3, <1>4, <1>5, <1>6, <1>7, <1>8, <1>9, <1>10 DEF Next, WorkerStep, HandleClaim

LEMMA ClaimsCorrect == Spec => []ClaimsExist
<1>1. Init => ClaimsExist
  BY DEF Init, ClaimsExist, Asleep
<1> QED
  BY <1>1, ClaimsStep, TypeCorrect, PTL DEF Spec

----------------------------------------------------------------------------
(* A single worker                                                         *)

\* One worker process, as docker-compose starts it.
OneWorker == \A v, w \in Workers : v = w

\* The worker is between the publication of e and the mark on its row.
InFlight(e) ==
  \E w \in Workers : \E c \in job[w].todo :
    /\ c.event = e /\ Current(w, c)
    /\ job[w].step \in {"read_published", "read_failed", "write_published", "write_failed"}

\* What the worker remembers of a row is what the table says.
ClaimsCurrent ==
  \A w \in Workers : \A c \in job[w].todo :
    /\ rows[c.event].status = "pending"
    /\ rows[c.event].retry # "waiting"
    /\ c.attempts = rows[c.event].attempts
    /\ Current(w, c) /\ job[w].step \in {"write_published", "write_failed"}
         => job[w].row = rows[c.event]

\* DuplicatesExplained counts one copy too many, which is the one in flight or the
\* one that the row says is published.
CopiesExplained ==
  \A e \in Events : rows[e].status # "published" /\ ~InFlight(e)
                      => copies[e] <= failures[e] + deaths

AloneInv == ClaimsCurrent /\ CopiesExplained /\ DuplicatesExplained /\ GivesUpInTime

\* A claim is the only one for its event.
LEMMA ClaimUnique ==
  ASSUME TypeOK, ClaimsCurrent, NEW w \in Workers,
         NEW c \in job[w].todo, NEW d \in job[w].todo, c.event = d.event
  PROVE  c = d
<1>1. c \in Claims /\ d \in Claims
  BY DEF TypeOK, Jobs
<1>2. c.attempts = d.attempts
  BY DEF ClaimsCurrent
<1> QED
  BY <1>1, <1>2 DEF Claims

\* The worker has one event in flight at most.
LEMMA OneInFlight ==
  ASSUME OneWorker, TypeOK, NEW w \in Workers, NEW d, Current(w, d), NEW e \in Events, InFlight(e)
  PROVE  e = d.event
<1>1. PICK v \in Workers : \E c \in job[v].todo : c.event = e /\ Current(v, c)
  BY DEF InFlight
<1>2. v = w
  BY DEF OneWorker
<1>3. PICK c \in job[w].todo : c.event = e /\ Current(w, c)
  BY <1>1, <1>2
<1> QED
  BY <1>3, CurrentEvent

\* Marking a row leaves the other claims of the batch current.
LEMMA MarkedClaims ==
  ASSUME OneWorker, TypeOK, ClaimsCurrent, NEW w \in Workers, NEW d \in job[w].todo,
         Advance(w, d), \A e \in Events \ {d.event} : rows'[e] = rows[e]
  PROVE  ClaimsCurrent'
<1> SUFFICES ASSUME NEW v \in Workers, NEW c \in job'[v].todo
             PROVE  /\ rows'[c.event].status = "pending"
                    /\ rows'[c.event].retry # "waiting"
                    /\ c.attempts = rows'[c.event].attempts
                    /\ job'[v].step \notin {"write_published", "write_failed"}
  BY DEF ClaimsCurrent
<1>1. v = w
  BY DEF OneWorker
<1>2. c \in job[w].todo /\ c # d /\ job'[w].step \in {"sleep", "publish"}
  BY <1>1 DEF TypeOK, Advance
<1>3. c.event \in Events /\ c.event # d.event
  BY <1>2, ClaimUnique, ClaimType
<1> QED
  BY <1>1, <1>2, <1>3 DEF ClaimsCurrent

\* After it nothing is in flight.
LEMMA NothingInFlight ==
  ASSUME OneWorker, NEW w \in Workers,
         job'[w].step \in {"sleep", "select", "publish", "dead"}
  PROVE  \A e \in Events : ~InFlight(e)'
BY DEF OneWorker, InFlight

LEMMA AloneStep == ASSUME OneWorker PROVE TypeOK /\ AloneInv /\ [Next]_vars => AloneInv'
<1> SUFFICES ASSUME TypeOK, AloneInv, [Next]_vars
             PROVE  AloneInv'
  OBVIOUS
<1> USE DEF AloneInv
<1>0. /\ deaths \in Nat /\ MaxAttempts \in Nat \ {0}
      /\ \A e \in Events : /\ copies[e] \in Nat /\ failures[e] \in Nat
                           /\ rows[e].attempts \in Nat
  BY OutboxAssumption DEF TypeOK, Rows
<1>1. ASSUME NEW e \in Events, Create(e)
      PROVE  AloneInv'
  <2>1. /\ rows' = [rows EXCEPT ![e] = NewRow] /\ rows[e].status = "absent"
        /\ UNCHANGED <<job, copies, failures, deaths>>
    BY <1>1 DEF Create
  <2>2. ClaimsCurrent'
    <3>1. \A w \in Workers : \A c \in job[w].todo : c.event # e /\ c.event \in Events
      BY <2>1, ClaimType DEF ClaimsCurrent
    <3> QED
      BY <2>1, <3>1 DEF TypeOK, ClaimsCurrent, Current
  <2>3. \A f \in Events : rows'[f].status # "published" => rows[f].status # "published"
    BY <2>1 DEF TypeOK
  <2>4. GivesUpInTime'
    BY <1>0, <2>1 DEF TypeOK, NewRow, GivesUpInTime
  <2> QED
    BY <2>1, <2>2, <2>3, <2>4 DEF CopiesExplained, DuplicatesExplained, InFlight, Current
<1>2. ASSUME NEW e \in Events, RetryComesDue(e)
      PROVE  AloneInv'
  <2>1. /\ rows' = [rows EXCEPT ![e].retry = "due"] /\ rows[e].retry = "waiting"
        /\ UNCHANGED <<job, copies, failures, deaths>>
    BY <1>2 DEF RetryComesDue
  <2>2. ClaimsCurrent'
    <3>1. \A w \in Workers : \A c \in job[w].todo : c.event # e /\ c.event \in Events
      BY <2>1, ClaimType DEF ClaimsCurrent
    <3> QED
      BY <2>1, <3>1 DEF TypeOK, ClaimsCurrent, Current
  <2>3. \A f \in Events : rows'[f].status = rows[f].status /\ rows'[f].attempts = rows[f].attempts
    BY <2>1 DEF TypeOK, Rows
  <2> QED
    BY <2>1, <2>2, <2>3 DEF CopiesExplained, DuplicatesExplained, GivesUpInTime, InFlight, Current
<1>3. ASSUME ConsumerDeclares
      PROVE  AloneInv'
  BY <1>3 DEF ConsumerDeclares, ClaimsCurrent, CopiesExplained, DuplicatesExplained,
              GivesUpInTime, InFlight, Current
<1>4. ASSUME NEW w \in Workers, Select(w)
      PROVE  AloneInv'
  <2>1. PICK batch \in SUBSET {e \in Events : Due(e)} :
          job' = [job EXCEPT ![w] = [step |-> "select", row |-> NoRow,
                    todo |-> {[event |-> e, attempts |-> rows[e].attempts] : e \in batch}]]
    BY <1>4 DEF Select
  <2>2. /\ job'[w].step = "select" /\ job[w].step = "sleep"
        /\ job'[w].todo = {[event |-> e, attempts |-> rows[e].attempts] : e \in batch}
        /\ UNCHANGED <<rows, copies, failures, deaths>>
    BY <1>4, <2>1 DEF TypeOK, Select
  <2>3. ClaimsCurrent'
    <3> SUFFICES ASSUME NEW c \in job'[w].todo
                 PROVE  /\ rows[c.event].status = "pending"
                        /\ rows[c.event].retry # "waiting"
                        /\ c.attempts = rows[c.event].attempts
      BY <2>2 DEF ClaimsCurrent, OneWorker
    <3>1. PICK e \in batch : c = [event |-> e, attempts |-> rows[e].attempts]
      BY <2>2
    <3> QED
      BY <3>1 DEF Due
  <2>4. \A e \in Events : ~InFlight(e)
    BY <2>2 DEF InFlight, OneWorker
  <2> QED
    BY <2>2, <2>3, <2>4 DEF CopiesExplained, DuplicatesExplained, GivesUpInTime
<1>5. ASSUME NEW w \in Workers, CommitSelect(w)
      PROVE  AloneInv'
  <2>1. /\ job[w].step = "select" /\ job'[w].step = "publish" /\ job'[w].todo = job[w].todo
        /\ UNCHANGED <<rows, copies, failures, deaths>>
    BY <1>5 DEF TypeOK, CommitSelect
  <2>2. \A e \in Events : ~InFlight(e)
    BY <2>1 DEF InFlight, OneWorker
  <2>3. ClaimsCurrent'
    BY <2>1 DEF ClaimsCurrent, OneWorker
  <2> QED
    BY <2>1, <2>2, <2>3 DEF CopiesExplained, DuplicatesExplained, GivesUpInTime
<1>6. ASSUME NEW w \in Workers, NEW d \in job[w].todo, Publish(w, d)
      PROVE  AloneInv'
  <2>1. /\ job[w].step = "publish" /\ job'[w].todo = job[w].todo
        /\ job'[w].step \in {"read_published", "read_failed"}
        /\ Current(w, d) /\ UNCHANGED <<rows, failures, deaths>>
    BY <1>6 DEF TypeOK, Publish
  <2>2. \A e \in Events : ~InFlight(e)
    BY <2>1 DEF InFlight, OneWorker
  <2>3. d.event \in Events /\ rows[d.event].status = "pending"
    BY ClaimType DEF ClaimsCurrent
  <2>4. InFlight(d.event)'
    BY <2>1 DEF InFlight, Current
  <2>5. /\ copies'[d.event] \in {copies[d.event], copies[d.event] + 1}
        /\ \A e \in Events \ {d.event} : copies'[e] = copies[e]
    BY <1>6, <2>3 DEF TypeOK, Publish
  <2>6. copies[d.event] <= failures[d.event] + deaths
    BY <2>2, <2>3 DEF CopiesExplained
  <2>7. DuplicatesExplained'
    BY <1>0, <2>1, <2>3, <2>5, <2>6 DEF DuplicatesExplained
  <2>8. CopiesExplained'
    BY <2>1, <2>2, <2>4, <2>5 DEF CopiesExplained
  <2>9. ClaimsCurrent'
    BY <2>1 DEF ClaimsCurrent, OneWorker
  <2> QED
    BY <2>1, <2>7, <2>8, <2>9 DEF GivesUpInTime
<1>7. ASSUME NEW w \in Workers, NEW d \in job[w].todo, Read(w, d)
      PROVE  AloneInv'
  <2>1. /\ job[w].step \in {"read_published", "read_failed"} /\ job'[w].todo = job[w].todo
        /\ job'[w].step \in {"write_published", "write_failed"}
        /\ job'[w].row = rows[d.event]
        /\ Current(w, d) /\ UNCHANGED <<rows, copies, failures, deaths>>
    BY <1>7 DEF TypeOK, Read
  <2>2. \A c \in job[w].todo : Current(w, c)' <=> Current(w, c)
    BY <2>1 DEF Current
  <2>3. ClaimsCurrent'
    <3> SUFFICES ASSUME NEW c \in job[w].todo, Current(w, c)
                 PROVE  rows[d.event] = rows[c.event]
      BY <2>1, <2>2 DEF ClaimsCurrent, OneWorker
    <3> QED
      BY <2>1, CurrentEvent
  <2>4. \A e \in Events : InFlight(e) => InFlight(e)'
    BY <2>1, <2>2 DEF InFlight, OneWorker
  <2> QED
    BY <2>1, <2>3, <2>4 DEF CopiesExplained, DuplicatesExplained, GivesUpInTime
<1>8. ASSUME NEW w \in Workers, NEW d \in job[w].todo, MarkPublished(w, d)
      PROVE  AloneInv'
  <2>1. /\ Advance(w, d) /\ Current(w, d) /\ job[w].step = "write_published"
        /\ d.event \in Events /\ UNCHANGED <<copies, failures, deaths>>
        /\ \A e \in Events \ {d.event} : rows'[e] = rows[e]
    BY <1>8, ClaimType DEF TypeOK, MarkPublished
  <2>2. rows[d.event].status = "pending" /\ job[w].row = rows[d.event]
    BY <2>1 DEF ClaimsCurrent
  <2>3. rows'[d.event].status = "published"
    BY <1>8, <2>1, <2>2 DEF TypeOK, MarkPublished, Rows, Changed
  <2>4. \A e \in Events : InFlight(e) => e = d.event
    BY <2>1, OneInFlight
  <2>5. CopiesExplained'
    BY <2>1, <2>3, <2>4 DEF CopiesExplained
  <2>6. GivesUpInTime'
    BY <2>1, <2>3 DEF GivesUpInTime
  <2> QED
    BY <2>1, <2>5, <2>6, MarkedClaims DEF DuplicatesExplained
<1>9. ASSUME NEW w \in Workers, NEW d \in job[w].todo, MarkFailed(w, d)
      PROVE  AloneInv'
  <2>1. /\ Advance(w, d) /\ Current(w, d) /\ job[w].step = "write_failed"
        /\ d.event \in Events /\ UNCHANGED <<copies, deaths>>
        /\ \A e \in Events \ {d.event} : rows'[e] = rows[e] /\ failures'[e] = failures[e]
        /\ failures'[d.event] = failures[d.event] + 1
    BY <1>9, ClaimType DEF TypeOK, MarkFailed
  <2>2. /\ rows[d.event].status = "pending" /\ job[w].row = rows[d.event]
        /\ d.attempts = rows[d.event].attempts
    BY <2>1 DEF ClaimsCurrent
  <2>3. /\ rows'[d.event].status = IF Exhausted(d) THEN "failed" ELSE "pending"
        /\ rows'[d.event].attempts = d.attempts + 1
    BY <1>9, <2>1, <2>2 DEF TypeOK, MarkFailed, Changed
  <2>4. \A e \in Events : InFlight(e) => e = d.event
    BY <2>1, OneInFlight
  <2>5. copies[d.event] <= failures[d.event] + deaths + 1
    BY <2>1 DEF DuplicatesExplained
  <2>6. CopiesExplained'
    BY <1>0, <2>1, <2>4, <2>5 DEF CopiesExplained
  <2>7. DuplicatesExplained'
    BY <1>0, <2>1, <2>5 DEF DuplicatesExplained
  <2>8. GivesUpInTime'
    BY <1>0, <2>1, <2>3 DEF Exhausted, GivesUpInTime
  <2> QED
    BY <2>1, <2>6, <2>7, <2>8, MarkedClaims
<1>10. ASSUME NEW w \in Workers, Die(w)
       PROVE  AloneInv'
  <2>1. /\ job'[w] = Gone /\ deaths' = deaths + 1 /\ UNCHANGED <<rows, copies, failures>>
    BY <1>10 DEF TypeOK, Die
  <2>2. ClaimsCurrent'
    BY <2>1 DEF Gone, ClaimsCurrent, OneWorker
  <2> QED
    BY <1>0, <2>1, <2>2 DEF CopiesExplained, DuplicatesExplained, GivesUpInTime
<1>11. ASSUME NEW w \in Workers, Restart(w)
       PROVE  AloneInv'
  <2>1. /\ job[w].step = "dead" /\ job'[w] = Asleep
        /\ UNCHANGED <<rows, copies, failures, deaths>>
    BY <1>11 DEF TypeOK, Restart
  <2>2. ClaimsCurrent'
    BY <2>1 DEF Asleep, ClaimsCurrent, OneWorker
  <2>3. \A e \in Events : ~InFlight(e)
    BY <2>1 DEF InFlight, OneWorker
  <2> QED
    BY <2>1, <2>2, <2>3 DEF CopiesExplained, DuplicatesExplained, GivesUpInTime
<1>12. ASSUME UNCHANGED vars
       PROVE  AloneInv'
  BY <1>12 DEF vars, ClaimsCurrent, CopiesExplained, DuplicatesExplained, GivesUpInTime,
               InFlight, Current
<1> QED
  BY <1>1, <1>2, <1>3, <1>4, <1>5, <1>6, <1>7, <1>8, <1>9, <1>10, <1>11, <1>12
     DEF Next, WorkerStep, HandleClaim

LEMMA AloneInit == Init => AloneInv
BY OutboxAssumption DEF Init, AloneInv, ClaimsCurrent, CopiesExplained, DuplicatesExplained,
   GivesUpInTime, NoRow, Asleep

LEMMA AloneCorrect ==
  ASSUME OneWorker
  PROVE  Spec => [](TypeOK /\ AloneInv)
BY AloneInit, AloneStep, TypeCorrect, PTL DEF Spec

\* With one worker an event with MaxAttempts failed publications is never pending again.
THEOREM GivenUpInTime ==
  ASSUME OneWorker
  PROVE  Spec => []GivesUpInTime
<1>1. AloneInv => GivesUpInTime
  BY DEF AloneInv
<1> QED
  BY <1>1, AloneCorrect, PTL

\* With one worker every copy after the first is explained by a failed publication
\* or a death of the worker.
THEOREM EveryDuplicateExplained ==
  ASSUME OneWorker
  PROVE  Spec => []DuplicatesExplained
<1>1. AloneInv => DuplicatesExplained
  BY DEF AloneInv
<1> QED
  BY <1>1, AloneCorrect, PTL

\* With one worker a row that is published or failed stays as it is.
THEOREM OutcomeStays ==
  ASSUME OneWorker
  PROVE  Spec => OutcomeIsFinal
<1>1. TypeOK /\ AloneInv /\ [Next]_vars
        => [\A e \in Events : rows[e].status \in {"published", "failed"}
              => rows'[e].status = rows[e].status]_vars
  <2> SUFFICES ASSUME TypeOK, AloneInv, [Next]_vars, NEW e \in Events,
                      rows[e].status \in {"published", "failed"}
               PROVE  rows'[e].status = rows[e].status
    OBVIOUS
  <2>1. ASSUME NEW f \in Events, Create(f) \/ RetryComesDue(f)
        PROVE  rows'[e].status = rows[e].status
    BY <2>1 DEF TypeOK, Rows, Create, RetryComesDue
  <2>2. ASSUME NEW w \in Workers, NEW d \in job[w].todo,
               MarkPublished(w, d) \/ MarkFailed(w, d)
        PROVE  rows'[e].status = rows[e].status
    <3>1. e # d.event
      BY DEF AloneInv, ClaimsCurrent
    <3> QED
      BY <2>2, <3>1 DEF TypeOK, MarkPublished, MarkFailed
  <2>3. ASSUME UNCHANGED rows
        PROVE  rows'[e].status = rows[e].status
    BY <2>3
  <2> QED
    BY <2>1, <2>2, <2>3 DEF Next, WorkerStep, HandleClaim, ConsumerDeclares, Select,
       CommitSelect, Publish, Read, Die, Restart, vars
<1> QED
  BY <1>1, AloneCorrect, PTL DEF Spec, OutcomeIsFinal

\* With one worker no event is published while its back-off lasts.
THEOREM BackoffHolds ==
  ASSUME OneWorker
  PROVE  Spec => BackoffRespected
<1>1. TypeOK /\ AloneInv /\ [Next]_vars
        => [\A e \in Events : copies'[e] # copies[e] => rows[e].retry # "waiting"]_vars
  <2> SUFFICES ASSUME TypeOK, AloneInv, [Next]_vars, NEW e \in Events, copies'[e] # copies[e]
               PROVE  rows[e].retry # "waiting"
    OBVIOUS
  <2>1. ASSUME NEW w \in Workers, NEW d \in job[w].todo, Publish(w, d)
        PROVE  rows[e].retry # "waiting"
    <3>1. e = d.event
      BY <2>1, ClaimType DEF TypeOK, Publish
    <3> QED
      BY <3>1 DEF AloneInv, ClaimsCurrent
  <2>2. ~UNCHANGED copies
    OBVIOUS
  <2>3. ~UNCHANGED vars /\ ~ConsumerDeclares /\ \A f \in Events : ~Create(f) /\ ~RetryComesDue(f)
    BY <2>2 DEF Create, RetryComesDue, ConsumerDeclares, vars
  <2>4. \A w \in Workers : /\ ~Select(w) /\ ~CommitSelect(w) /\ ~Die(w) /\ ~Restart(w)
                           /\ \A d \in job[w].todo :
                                ~Read(w, d) /\ ~MarkPublished(w, d) /\ ~MarkFailed(w, d)
    BY <2>2 DEF Select, CommitSelect, Read, MarkPublished, MarkFailed, Die, Restart
  <2> QED
    BY <2>1, <2>3, <2>4 DEF Next, WorkerStep, HandleClaim
<1> QED
  BY <1>1, AloneCorrect, PTL DEF Spec, BackoffRespected

----------------------------------------------------------------------------
(* The refinement, for one worker                                          *)

\* The table counts every failure, a row waits only while it is pending, and one that
\* is not there yet is blank.
LedgerInv ==
  \A e \in Events :
    /\ rows[e].attempts = failures[e]
    /\ rows[e].retry = "waiting" => rows[e].status = "pending"
    /\ rows[e].status = "absent" => rows[e] = NoRow

\* EventRelay's state of an event.
State(e) == IF rows[e].retry = "waiting" THEN "waiting" ELSE rows[e].status

\* What one worker's mark does to the rows.
LEMMA MarkedRow ==
  ASSUME TypeOK, AloneInv, NEW w \in Workers, NEW d \in job[w].todo,
         MarkPublished(w, d) \/ MarkFailed(w, d)
  PROVE  /\ \A e \in Events \ {d.event} : rows'[e] = rows[e]
         /\ UNCHANGED <<copies, deaths>>
         /\ MarkPublished(w, d) =>
              /\ rows'[d.event].status = "published"
              /\ rows'[d.event].attempts = rows[d.event].attempts
              /\ rows'[d.event].retry = "null"
              /\ failures' = failures
         /\ MarkFailed(w, d) =>
              /\ rows'[d.event].status = IF Exhausted(d) THEN "failed" ELSE "pending"
              /\ rows'[d.event].attempts = rows[d.event].attempts + 1
              /\ rows'[d.event].retry = IF Exhausted(d) THEN "null" ELSE "waiting"
              /\ failures' = [failures EXCEPT ![d.event] = @ + 1]
<1>1. /\ d.event \in Events /\ rows[d.event] \in Rows /\ rows[d.event].status = "pending"
      /\ rows \in [Events -> Rows] /\ job[w].row = rows[d.event]
  BY ClaimType DEF AloneInv, ClaimsCurrent, TypeOK, MarkPublished, MarkFailed
<1>2. CASE MarkPublished(w, d)
  <2>1. ~MarkFailed(w, d)
    BY <1>2 DEF MarkPublished, MarkFailed
  <2>2. \A e \in Events \ {d.event} : rows'[e] = rows[e]
    BY <1>1, <1>2 DEF MarkPublished
  <2>3. /\ rows'[d.event].status = "published"
        /\ rows'[d.event].attempts = rows[d.event].attempts
        /\ rows'[d.event].retry = "null"
    BY <1>1, <1>2 DEF MarkPublished, Changed, Rows
  <2> QED
    BY <1>2, <2>1, <2>2, <2>3 DEF MarkPublished
<1>3. CASE MarkFailed(w, d)
  <2>1. ~MarkPublished(w, d)
    BY <1>3 DEF MarkPublished, MarkFailed
  <2>2. \A e \in Events \ {d.event} : rows'[e] = rows[e]
    BY <1>1, <1>3 DEF MarkFailed
  <2>3. /\ rows'[d.event].status = IF Exhausted(d) THEN "failed" ELSE "pending"
        /\ rows'[d.event].attempts = rows[d.event].attempts + 1
        /\ rows'[d.event].retry = IF Exhausted(d) THEN "null" ELSE "waiting"
    BY <1>1, <1>3 DEF MarkFailed, Changed, Rows
  <2> QED
    BY <1>3, <2>1, <2>2, <2>3 DEF MarkFailed
<1> QED
  BY <1>2, <1>3

\* Every step keeps the ledger.
LEMMA LedgerStep == TypeOK /\ AloneInv /\ LedgerInv /\ [Next]_vars => LedgerInv'
<1> SUFFICES ASSUME TypeOK, AloneInv, LedgerInv, [Next]_vars
             PROVE  LedgerInv'
  OBVIOUS
<1>1. ASSUME NEW e \in Events, Create(e)
      PROVE  LedgerInv'
  BY <1>1 DEF Create, LedgerInv, TypeOK, NewRow, NoRow
<1>2. ASSUME NEW e \in Events, RetryComesDue(e)
      PROVE  LedgerInv'
  BY <1>2 DEF RetryComesDue, LedgerInv, TypeOK, Rows, NoRow
<1>3. ASSUME NEW w \in Workers, NEW d \in job[w].todo, MarkPublished(w, d)
      PROVE  LedgerInv'
  BY <1>3, MarkedRow, ClaimType DEF LedgerInv, TypeOK
<1>4. ASSUME NEW w \in Workers, NEW d \in job[w].todo, MarkFailed(w, d)
      PROVE  LedgerInv'
  BY <1>4, MarkedRow, ClaimType DEF LedgerInv, TypeOK
<1>5. ASSUME UNCHANGED <<rows, failures>>
      PROVE  LedgerInv'
  BY <1>5 DEF LedgerInv
<1> QED
  BY <1>1, <1>2, <1>3, <1>4, <1>5 DEF Next, WorkerStep, HandleClaim, ConsumerDeclares, Select,
     CommitSelect, Publish, Read, Die, Restart, vars

\* What EventRelay sees; it does not see what leaves the table, the queue and the
\* counts as they are.
LEMMA StateOf ==
  /\ Promise!vars = <<[e \in Events |-> State(e)], failures, copies, deaths>>
  /\ UNCHANGED <<rows, failures, copies, deaths>> => UNCHANGED Promise!vars
BY DEF Promise!vars, State

\* Publications, marks and deaths are steps of EventRelay, everything else is none.
LEMMA RelayStep ==
  ASSUME OneWorker
  PROVE  /\ TypeOK /\ AloneInv /\ LedgerInv
         /\ ~FreshBroker => AcceptedInv
         /\ [Next]_vars
         => [Promise!Next]_(Promise!vars)
<1> SUFFICES ASSUME TypeOK, AloneInv, LedgerInv, ~FreshBroker => AcceptedInv, [Next]_vars
             PROVE  [Promise!Next]_(Promise!vars)
  OBVIOUS
<1> DEFINE st == [e \in Events |-> State(e)]
<1>0. rows \in [Events -> Rows] /\ \A e \in Events : rows[e] \in Rows
  BY DEF TypeOK
<1>1. ASSUME NEW e \in Events, Create(e)
      PROVE  Promise!Next
  <2>1. st[e] = "absent" /\ st' = [st EXCEPT ![e] = "pending"]
    BY <1>0, <1>1 DEF Create, LedgerInv, NewRow, NoRow, State
  <2>2. Promise!Create(e)
    BY <1>1, <2>1 DEF Create, Promise!Create, State
  <2> QED
    BY <2>2 DEF Promise!Next
<1>2. ASSUME NEW e \in Events, RetryComesDue(e)
      PROVE  Promise!Next
  <2>1. st[e] = "waiting" /\ st' = [st EXCEPT ![e] = "pending"]
    BY <1>0, <1>2 DEF RetryComesDue, LedgerInv, Rows, State
  <2>2. Promise!Resume(e)
    BY <1>2, <2>1 DEF RetryComesDue, Promise!Resume, State
  <2> QED
    BY <2>2 DEF Promise!Next
<1>3. ASSUME NEW w \in Workers, NEW d \in job[w].todo
      PROVE  d.event \in Events /\ rows[d.event].status = "pending" /\ st[d.event] = "pending"
  BY <1>3, ClaimType DEF AloneInv, ClaimsCurrent, State
<1>4. ASSUME NEW w \in Workers, NEW d \in job[w].todo, Publish(w, d)
      PROVE  [Promise!Next]_(Promise!vars)
  <2>1. \A e \in Events : ~InFlight(e)
    BY <1>4 DEF Publish, InFlight, OneWorker
  <2>2. copies[d.event] <= failures[d.event] + deaths
    BY <1>3, <2>1 DEF AloneInv, CopiesExplained
  <2>3. copies' \in {copies, [copies EXCEPT ![d.event] = @ + 1]}
    BY <1>3, <1>4 DEF Publish, TypeOK
  <2>4. UNCHANGED <<rows, failures, deaths>> /\ st' = st
    BY <1>4 DEF Publish, State
  <2>5. CASE copies' = copies
    BY <2>4, <2>5, StateOf
  <2>6. CASE copies' = [copies EXCEPT ![d.event] = @ + 1]
    <3>1. Promise!Deliver(d.event)
      BY <1>3, <2>2, <2>4, <2>6 DEF Promise!Deliver, State
    <3> QED
      BY <1>3, <3>1 DEF Promise!Next
  <2> QED
    BY <2>3, <2>5, <2>6
<1>5. ASSUME NEW w \in Workers, NEW d \in job[w].todo, MarkPublished(w, d)
      PROVE  Promise!Next
  <2>1. ~FreshBroker => copies[d.event] > 0
    BY <1>5 DEF MarkPublished, AcceptedInv, MarksAccepted
  <2>2. st' = [st EXCEPT ![d.event] = "published"]
    <3>1. State(d.event)' = "published"
      BY <1>5, MarkedRow DEF State
    <3>2. \A e \in Events \ {d.event} : State(e)' = State(e)
      BY <1>5, MarkedRow DEF State
    <3>3. st' = [e \in Events |-> State(e)']
      OBVIOUS
    <3> HIDE DEF st
    <3>4. st = [e \in Events |-> State(e)]
      BY DEF st
    <3> QED
      BY <1>3, <3>1, <3>2, <3>3, <3>4
  <2>3. Promise!Confirm(d.event)
    BY <1>3, <1>5, <2>1, <2>2, MarkedRow DEF Promise!Confirm, State
  <2> QED
    BY <1>3, <2>3 DEF Promise!Next
<1>6. ASSUME NEW w \in Workers, NEW d \in job[w].todo, MarkFailed(w, d)
      PROVE  Promise!Next
  <2>1. d.attempts = failures[d.event]
    BY <1>3 DEF AloneInv, ClaimsCurrent, LedgerInv
  <2>2. st' = [st EXCEPT ![d.event] = IF Exhausted(d) THEN "failed" ELSE "waiting"]
    <3>1. State(d.event)' = IF Exhausted(d) THEN "failed" ELSE "waiting"
      BY <1>6, MarkedRow DEF State
    <3>2. \A e \in Events \ {d.event} : State(e)' = State(e)
      BY <1>6, MarkedRow DEF State
    <3>3. st' = [e \in Events |-> State(e)']
      OBVIOUS
    <3> HIDE DEF st
    <3>4. st = [e \in Events |-> State(e)]
      BY DEF st
    <3> QED
      BY <1>3, <3>1, <3>2, <3>3, <3>4
  <2>3. Promise!Fail(d.event)
    BY <1>3, <1>6, <2>1, <2>2, MarkedRow DEF Promise!Fail, State, Exhausted
  <2> QED
    BY <1>3, <2>3 DEF Promise!Next
<1>7. ASSUME NEW w \in Workers, Die(w)
      PROVE  Promise!Next
  <2>1. Promise!Die
    BY <1>7 DEF Die, Promise!Die, State
  <2> QED
    BY <2>1 DEF Promise!Next
<1>8. ASSUME UNCHANGED <<rows, failures, copies, deaths>>
      PROVE  UNCHANGED Promise!vars
  BY <1>8, StateOf
<1> QED
  BY <1>1, <1>2, <1>4, <1>5, <1>6, <1>7, <1>8 DEF Next, WorkerStep, HandleClaim,
     ConsumerDeclares, Select, CommitSelect, Read, Restart, vars

\* With one worker the outbox does to every event what EventRelay promises.
THEOREM ImplementsEventRelay ==
  ASSUME OneWorker
  PROVE  Spec => RelaysEvents
<1>1. Init => Promise!Init
  BY DEF Init, Promise!Init, NoRow
<1>2. Init => LedgerInv
  BY DEF Init, LedgerInv, NoRow
<1>3. Init => (~FreshBroker => AcceptedInv)
  BY DEF Init, AcceptedInv, MarksAccepted, PublishedWasAccepted, NoRow, Asleep
<1>4. TypeOK /\ (~FreshBroker => AcceptedInv) /\ [Next]_vars => (~FreshBroker => AcceptedInv)'
  BY AcceptedStep
<1> QED
  BY <1>1, <1>2, <1>3, <1>4, LedgerStep, RelayStep, AloneCorrect, PTL
     DEF Spec, Promise!Spec, RelaysEvents
=============================================================================
