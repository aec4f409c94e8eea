-------------------------- MODULE PaymentApiProofs ---------------------------
(* What PaymentApi guarantees for any number of requests, keys and bodies,  *)
(* and that it implements IdempotentCreate.                                 *)
EXTENDS PaymentApi, FiniteSetTheorems, TLAPS

----------------------------------------------------------------------------
(* The inductive invariant                                                 *)

\* A request that is past its first line has a key and a hash; it has a reply only
\* when it is answered.
JobsInOrder ==
  \A r \in Requests :
    /\ job[r].step # "idle" => job[r].key \in Keys /\ job[r].hash \in Hashes
    /\ job[r].step # "answered" => reply[r] = NoReply

\* A row that is not legacy is the one its request made, and that request is over.
RowsAreMade ==
  \A row \in payments :
    \/ row.id \in Keys /\ row.hash = Legacy
    \/ /\ row.id \in Requests
       /\ job[row.id].step \in {"answered", "dead"}
       /\ row = NewRow(row.id)

\* The unique index.
UniqueKey == \A a, b \in payments : a.key = b.key => a = b

\* Whoever holds a key is alone with it and has found no row.
HoldersAlone ==
  \A r \in Requests : Holds(r) =>
    /\ Stored(job[r].key) = {}
    /\ \A q \in Requests : Holds(q) /\ job[q].key = job[r].key => q = r

\* An event is its payment's.
EventsAreMade ==
  /\ \A e \in outbox : e = NewEvent(e.id) /\ \E row \in payments : row.id = e.id
  /\ \A row \in payments : row.id \in Requests => NewEvent(row.id) \in outbox

ApiInv ==
  /\ JobsInOrder
  /\ RowsAreMade
  /\ UniqueKey
  /\ HoldersAlone
  /\ EventsAreMade
  /\ AnswerMatchesBody
  /\ ConflictIsResolvable

----------------------------------------------------------------------------
(* Type correctness                                                        *)

LEMMA TypeInit == Init => TypeOK
BY ApiAssumption
   DEF Init, TypeOK, Rows, Ids, Jobs, Steps, Replies, NoReply

\* Moving a request on, or answering it, keeps jobs and replies well typed.
LEMMA GotoType ==
  ASSUME TypeOK, NEW r \in Requests, NEW s \in Steps, Goto(r, s)
  PROVE  job' \in [Requests -> Jobs]
BY DEF TypeOK, Goto, Jobs

LEMMA AnswerType ==
  ASSUME TypeOK, NEW r \in Requests, NEW a \in Replies, Answer(r, a)
  PROVE  job' \in [Requests -> Jobs] /\ reply' \in [Requests -> Replies]
<1>1. "answered" \in Steps
  BY DEF Steps
<1>2. job' \in [Requests -> Jobs]
  BY <1>1, GotoType DEF Answer
<1> QED
  BY <1>2 DEF TypeOK, Answer

LEMMA RepliesType ==
  ASSUME TypeOK, NEW r \in Requests
  PROVE  /\ Error \in Replies
         /\ Accept(r) \in Replies
         /\ \A row \in payments : AnswerFrom(r, row) \in Replies
BY DEF TypeOK, Rows, Ids, Error, Accept, Conflict, AnswerFrom, Replies

LEMMA PersistType ==
  ASSUME TypeOK, JobsInOrder, NEW r \in Requests, Persist(r)
  PROVE  payments' \subseteq Rows /\ outbox' \subseteq Events
<1>1. job[r].key \in Keys /\ job[r].hash \in Hashes
  BY DEF JobsInOrder, Persist
<1> QED
  BY <1>1 DEF TypeOK, Persist, NewRow, NewEvent, Rows, Events, Ids

LEMMA TypeStep == TypeOK /\ JobsInOrder /\ [Next]_vars => TypeOK'
<1> SUFFICES ASSUME TypeOK, JobsInOrder, [Next]_vars
             PROVE  TypeOK'
  OBVIOUS
<1>1. ASSUME NEW r \in Requests, NEW k \in Keys, NEW body \in Bodies, Receive(r, k, body)
      PROVE  TypeOK'
  <2>1. [step |-> "begin", key |-> k, hash |-> HashOf[body]] \in Jobs
    BY ApiAssumption DEF Jobs, Steps
  <2> QED
    BY <1>1, <2>1 DEF TypeOK, Receive
<1>2. ASSUME NEW r \in Requests, Lookup(r)
      PROVE  TypeOK'
  <2>1. CASE \E row \in Stored(job[r].key) : Answer(r, AnswerFrom(r, row))
    BY <1>2, <2>1, RepliesType, AnswerType DEF Lookup, Stored, TypeOK
  <2>2. CASE Goto(r, "insert") /\ UNCHANGED reply
    BY <1>2, <2>2, GotoType DEF Lookup, TypeOK, Steps
  <2> QED
    BY <1>2, <2>1, <2>2 DEF Lookup
<1>3. ASSUME NEW r \in Requests, Insert(r)
      PROVE  TypeOK'
  BY <1>3, GotoType DEF Insert, TypeOK, Steps
<1>4. ASSUME NEW r \in Requests, CreateEvent(r)
      PROVE  TypeOK'
  BY <1>4, GotoType DEF CreateEvent, TypeOK, Steps
<1>5. ASSUME NEW r \in Requests, Commit(r)
      PROVE  TypeOK'
  BY <1>5, PersistType, RepliesType, AnswerType DEF Commit, TypeOK
<1>6. ASSUME NEW r \in Requests, Reread(r)
      PROVE  TypeOK'
  BY <1>6, RepliesType, AnswerType DEF Reread, Stored, TypeOK
<1>7. ASSUME NEW r \in Requests, DatabaseFails(r)
      PROVE  TypeOK'
  BY <1>7, RepliesType, AnswerType DEF DatabaseFails, TypeOK
<1>8. ASSUME NEW r \in Requests, Die(r)
      PROVE  TypeOK'
  <2>1. "dead" \in Steps
    BY DEF Steps
  <2>2. payments' \subseteq Rows /\ outbox' \subseteq Events
    BY <1>8, PersistType DEF Die, TypeOK
  <2> QED
    BY <1>8, <2>1, <2>2, GotoType DEF Die, TypeOK
<1>9. ASSUME UNCHANGED vars
      PROVE  TypeOK'
  BY <1>9 DEF vars, TypeOK
<1> QED
  BY <1>1, <1>2, <1>3, <1>4, <1>5, <1>6, <1>7, <1>8, <1>9 DEF Next, RequestStep

----------------------------------------------------------------------------
(* The invariant is inductive                                              *)

LEMMA InvInit == Init => ApiInv
BY ApiAssumption
   DEF Init, ApiInv, JobsInOrder, RowsAreMade, UniqueKey, HoldersAlone, EventsAreMade,
       AnswerMatchesBody, ConflictIsResolvable, Stored, Holds, Ids, NoReply

\* A step of request r that leaves the tables alone keeps the invariant if what it
\* says of r itself still holds.
LEMMA QuietStep ==
  ASSUME TypeOK, ApiInv, NEW r \in Requests,
         payments' = payments, outbox' = outbox,
         job[r].step \notin {"answered", "dead"},
         \A q \in Requests \ {r} : job'[q] = job[q] /\ reply'[q] = reply[q],
         job'[r].key \in Keys, job'[r].hash \in Hashes,
         job'[r].step # "answered" => reply'[r] = NoReply,
         Holds(r)' => /\ \A row \in payments : row.key # job'[r].key
                      /\ \A q \in Requests \ {r} : Holds(q) => job[q].key # job'[r].key,
         job'[r].step = "again" => \E row \in payments : row.key = job'[r].key,
         reply'[r].code = 202 => \E row \in payments : /\ row.key = job'[r].key
                                                       /\ row.id = reply'[r].id
                                                       /\ row.hash \in {job'[r].hash, Legacy},
         reply'[r].code = 409 => \E row \in payments : /\ row.key = job'[r].key
                                                       /\ row.hash \notin {job'[r].hash, Legacy}
  PROVE  ApiInv'
<1>1. JobsInOrder'
  BY DEF ApiInv, JobsInOrder
<1>2. RowsAreMade'
  BY DEF ApiInv, RowsAreMade, NewRow
<1>3. UniqueKey' /\ EventsAreMade'
  BY DEF ApiInv, UniqueKey, EventsAreMade, NewEvent
<1>4. HoldersAlone'
  BY DEF ApiInv, HoldersAlone, Holds, Stored
<1>5. AnswerMatchesBody'
  BY DEF ApiInv, AnswerMatchesBody, Stored
<1>6. ConflictIsResolvable'
  BY DEF ApiInv, ConflictIsResolvable, Stored
<1> QED
  BY <1>1, <1>2, <1>3, <1>4, <1>5, <1>6 DEF ApiInv

\* A request that may still commit has not made its row or its event.
LEMMA StillFresh ==
  ASSUME ApiInv, NEW r \in Requests, job[r].step \notin {"answered", "dead"}
  PROVE  /\ \A row \in payments : row.id # r
         /\ \A e \in outbox : e.id # r /\ e.payment # r
BY ApiAssumption DEF ApiInv, RowsAreMade, EventsAreMade, NewEvent

\* The commit keeps the invariant, whether or not it is answered.
LEMMA PersistStep ==
  ASSUME TypeOK, ApiInv, NEW r \in Requests, Persist(r),
         \A q \in Requests \ {r} : job'[q] = job[q] /\ reply'[q] = reply[q],
         job'[r].key = job[r].key, job'[r].hash = job[r].hash,
         \/ job'[r].step = "answered" /\ reply'[r] \in {Accept(r), Error}
         \/ job'[r].step = "dead" /\ reply'[r] = NoReply
  PROVE  ApiInv'
<1>1. /\ job[r].step = "commit"
      /\ job[r].key \in Keys /\ job[r].hash \in Hashes
      /\ payments' = payments \cup {NewRow(r)}
      /\ outbox' = outbox \cup {NewEvent(r)}
      /\ NewRow(r) = [id |-> r, key |-> job[r].key, hash |-> job[r].hash]
      /\ NewRow(r)' = NewRow(r)
  BY DEF ApiInv, JobsInOrder, Persist, NewRow
<1>2. Holds(r) /\ \A row \in payments : row.key # job[r].key
  BY <1>1 DEF ApiInv, HoldersAlone, Holds, Stored
<1>3. /\ \A row \in payments : row.id # r
      /\ \A e \in outbox : e.id # r /\ e.payment # r
  BY <1>1, StillFresh
<1>4. JobsInOrder'
  BY <1>1 DEF ApiInv, JobsInOrder
<1>5. RowsAreMade'
  <2>1. ASSUME NEW row \in payments
        PROVE  \/ row.id \in Keys /\ row.hash = Legacy
               \/ /\ row.id \in Requests
                  /\ job'[row.id].step \in {"answered", "dead"}
                  /\ row = NewRow(row.id)'
    BY <1>3 DEF ApiInv, RowsAreMade, NewRow
  <2> QED
    BY <1>1, <2>1 DEF RowsAreMade
<1>6. UniqueKey'
  BY <1>1, <1>2 DEF ApiInv, UniqueKey
<1>7. EventsAreMade'
  BY <1>1 DEF ApiInv, EventsAreMade, NewEvent
<1>8. HoldersAlone'
  <2>1. ASSUME NEW q \in Requests, Holds(q)'
        PROVE  /\ \A row \in payments' : row.key # job[q].key
               /\ \A p \in Requests : Holds(p)' /\ job[p].key = job[q].key => p = q
    <3>1. q # r /\ Holds(q) /\ job[q].key # job[r].key
      BY <1>2, <2>1 DEF ApiInv, HoldersAlone, Holds
    <3>2. \A p \in Requests : Holds(p)' => Holds(p)
      BY DEF Holds
    <3> QED
      BY <1>1, <3>1, <3>2 DEF ApiInv, HoldersAlone, Stored
  <2>2. \A q \in Requests : job'[q].key = job[q].key
    OBVIOUS
  <2> QED
    BY <2>1, <2>2 DEF HoldersAlone, Stored
<1>9. AnswerMatchesBody'
  BY <1>1 DEF ApiInv, AnswerMatchesBody, Stored, Accept, Error, NoReply
<1>10. ConflictIsResolvable'
  BY <1>1 DEF ApiInv, ConflictIsResolvable, Stored
<1> QED
  BY <1>4, <1>5, <1>6, <1>7, <1>8, <1>9, <1>10 DEF ApiInv

LEMMA InvStep == TypeOK /\ ApiInv /\ [Next]_vars => ApiInv'
<1> SUFFICES ASSUME TypeOK, ApiInv, [Next]_vars
             PROVE  ApiInv'
  OBVIOUS
<1>1. ASSUME NEW r \in Requests, NEW k \in Keys, NEW body \in Bodies, Receive(r, k, body)
      PROVE  ApiInv'
  <2>1. job'[r] = [step |-> "begin", key |-> k, hash |-> HashOf[body]]
    BY <1>1 DEF TypeOK, Receive
  <2>2. reply[r] = NoReply /\ HashOf[body] \in Hashes
    BY <1>1, ApiAssumption DEF ApiInv, JobsInOrder, Receive
  <2> QED
    BY <1>1, <2>1, <2>2, QuietStep DEF TypeOK, Receive, Holds, NoReply
<1>2. ASSUME NEW r \in Requests, Running(r)
      PROVE  job[r].key \in Keys /\ job[r].hash \in Hashes /\ reply[r] = NoReply
  BY <1>2 DEF ApiInv, JobsInOrder, Running
<1>3. ASSUME NEW r \in Requests, NEW row \in Stored(job[r].key), Running(r),
             Answer(r, AnswerFrom(r, row)), UNCHANGED <<payments, outbox>>
      PROVE  ApiInv'
  <2>1. /\ job'[r].step = "answered" /\ job'[r].key = job[r].key /\ job'[r].hash = job[r].hash
        /\ reply'[r] = AnswerFrom(r, row)
        /\ \A q \in Requests \ {r} : job'[q] = job[q] /\ reply'[q] = reply[q]
    BY <1>3 DEF TypeOK, Answer, Goto, Jobs
  <2> QED
    BY <1>2, <1>3, <2>1, QuietStep
       DEF Running, Holds, Stored, AnswerFrom, Accept, Conflict
<1>4. ASSUME NEW r \in Requests, Running(r), Answer(r, Error), UNCHANGED <<payments, outbox>>
      PROVE  ApiInv'
  <2>1. /\ job'[r].step = "answered" /\ job'[r].key = job[r].key /\ job'[r].hash = job[r].hash
        /\ reply'[r] = Error
        /\ \A q \in Requests \ {r} : job'[q] = job[q] /\ reply'[q] = reply[q]
    BY <1>4 DEF TypeOK, Answer, Goto, Jobs
  <2> QED
    BY <1>2, <1>4, <2>1, QuietStep DEF Running, Holds, Error
<1>5. ASSUME NEW r \in Requests, NEW s \in Steps \ {"answered"}, Running(r), Goto(r, s),
             UNCHANGED <<payments, outbox, reply>>,
             s \in {"event", "commit"} => /\ Stored(job[r].key) = {}
                                          /\ ~Waits(r),
             s = "again" => Stored(job[r].key) # {}
      PROVE  ApiInv'
  <2>1. /\ job'[r].step = s /\ job'[r].key = job[r].key /\ job'[r].hash = job[r].hash
        /\ \A q \in Requests \ {r} : job'[q] = job[q] /\ reply'[q] = reply[q]
        /\ reply'[r] = reply[r]
    BY <1>5 DEF TypeOK, Goto, Jobs
  <2>2. Holds(r)' => s \in {"event", "commit"}
    BY <2>1 DEF Holds
  <2> QED
    BY <1>2, <1>5, <2>1, <2>2, QuietStep DEF Running, Waits, Stored, NoReply
<1>6. ASSUME NEW r \in Requests, Lookup(r)
      PROVE  ApiInv'
  BY <1>3, <1>5, <1>6 DEF Lookup, Running, Steps
<1>7. ASSUME NEW r \in Requests, Insert(r)
      PROVE  ApiInv'
  BY <1>5, <1>7 DEF Insert, Running, Steps
<1>8. ASSUME NEW r \in Requests, CreateEvent(r)
      PROVE  ApiInv'
  <2>1. Stored(job[r].key) = {} /\ ~Waits(r)
    BY <1>8 DEF ApiInv, HoldersAlone, Holds, Waits, CreateEvent
  <2> QED
    BY <1>5, <1>8, <2>1 DEF CreateEvent, Running, Steps
<1>9. ASSUME NEW r \in Requests, Commit(r)
      PROVE  ApiInv'
  <2>1. PICK answer \in {Accept(r), Error} : Answer(r, answer)
    BY <1>9 DEF Commit
  <2>2. /\ job'[r].step = "answered" /\ job'[r].key = job[r].key /\ job'[r].hash = job[r].hash
        /\ reply'[r] = answer
        /\ \A q \in Requests \ {r} : job'[q] = job[q] /\ reply'[q] = reply[q]
    BY <2>1 DEF TypeOK, Answer, Goto, Jobs
  <2> QED
    BY <1>9, <2>2, PersistStep DEF Commit
<1>10. ASSUME NEW r \in Requests, Reread(r)
       PROVE  ApiInv'
  BY <1>3, <1>4, <1>10 DEF Reread, Running
<1>11. ASSUME NEW r \in Requests, DatabaseFails(r)
       PROVE  ApiInv'
  BY <1>4, <1>11 DEF DatabaseFails
<1>12. ASSUME NEW r \in Requests, Die(r)
       PROVE  ApiInv'
  <2>1. CASE UNCHANGED <<payments, outbox>>
    BY <1>5, <1>12, <2>1 DEF Die, Steps
  <2>2. CASE Persist(r)
    <3>1. /\ job'[r].step = "dead" /\ job'[r].key = job[r].key /\ job'[r].hash = job[r].hash
          /\ reply'[r] = NoReply
          /\ \A q \in Requests \ {r} : job'[q] = job[q] /\ reply'[q] = reply[q]
      BY <1>2, <1>12 DEF TypeOK, Die, Goto, Jobs
    <3> QED
      BY <2>2, <3>1, PersistStep
  <2> QED
    BY <1>12, <2>1, <2>2 DEF Die
<1>13. ASSUME UNCHANGED vars
       PROVE  ApiInv'
  BY <1>13 DEF vars, ApiInv, JobsInOrder, RowsAreMade, UniqueKey, HoldersAlone, EventsAreMade,
               AnswerMatchesBody, ConflictIsResolvable, Stored, Holds, NewRow, NewEvent
<1> QED
  BY <1>1, <1>6, <1>7, <1>8, <1>9, <1>10, <1>11, <1>12, <1>13 DEF Next, RequestStep

LEMMA InvCorrect == Spec => [](TypeOK /\ ApiInv)
<1>1. Init => TypeOK /\ ApiInv
  BY TypeInit, InvInit
<1>2. TypeOK /\ ApiInv /\ [Next]_vars => (TypeOK /\ ApiInv)'
  BY TypeStep, InvStep DEF ApiInv
<1> QED
  BY <1>1, <1>2, PTL DEF Spec

----------------------------------------------------------------------------
(* What it means                                                           *)

\* Type correctness.
THEOREM TypeCorrect == Spec => []TypeOK
BY InvCorrect, PTL

\* All accepted requests with one key name one payment, however many requests there
\* are and however they interleave and fail.
THEOREM SameKeySamePayment == Spec => []OneAnswerPerKey
<1>1. TypeOK /\ ApiInv => OneAnswerPerKey
  <2> SUFFICES ASSUME ApiInv, NEW q \in Requests, NEW r \in Requests,
                      reply[q].code = 202, reply[r].code = 202, job[q].key = job[r].key
               PROVE  reply[q].id = reply[r].id
    BY DEF OneAnswerPerKey
  <2>1. PICK a \in payments : a.key = job[q].key /\ a.id = reply[q].id
    BY DEF ApiInv, AnswerMatchesBody, Stored
  <2>2. PICK b \in payments : b.key = job[r].key /\ b.id = reply[r].id
    BY DEF ApiInv, AnswerMatchesBody, Stored
  <2> QED
    BY <2>1, <2>2 DEF ApiInv, UniqueKey
<1> QED
  BY <1>1, InvCorrect, PTL

\* Every payment of the API has exactly one event, and every event its payment.
THEOREM PaymentWithItsEvent == Spec => []OneEventPerPayment
<1>1. TypeOK /\ ApiInv => OneEventPerPayment
  <2> SUFFICES ASSUME TypeOK, ApiInv
               PROVE  OneEventPerPayment
    OBVIOUS
  <2>1. \A row \in payments : row.hash # Legacy => \E e \in outbox : e.payment = row.id
    BY DEF ApiInv, RowsAreMade, EventsAreMade, NewEvent
  <2>2. \A e \in outbox : \E row \in payments : row.id = e.payment /\ row.hash # Legacy
    <3> SUFFICES ASSUME NEW e \in outbox
                 PROVE  \E row \in payments : row.id = e.payment /\ row.hash # Legacy
      OBVIOUS
    <3>1. e.id \in Requests /\ e.payment = e.id
      BY DEF TypeOK, Events, ApiInv, EventsAreMade, NewEvent
    <3>2. PICK row \in payments : row.id = e.id
      BY DEF ApiInv, EventsAreMade
    <3>3. row.id \notin Keys
      BY <3>1, <3>2, ApiAssumption
    <3>4. job[row.id].step # "idle" /\ row.hash = job[row.id].hash
      BY <3>3 DEF ApiInv, RowsAreMade, NewRow
    <3> QED
      BY <3>1, <3>2, <3>4, ApiAssumption DEF ApiInv, JobsInOrder
  <2>3. \A d, e \in outbox : d.payment = e.payment => d = e
    BY DEF ApiInv, EventsAreMade, NewEvent
  <2> QED
    BY <2>1, <2>2, <2>3 DEF OneEventPerPayment
<1> QED
  BY <1>1, InvCorrect, PTL

\* The verdict on the body is right whenever it is given.
THEOREM AnswersMatchBodies == Spec => []AnswerMatchesBody
BY InvCorrect, PTL DEF ApiInv

\* DuplicateIdempotencyKeyError never reaches the client.
THEOREM ConflictsAreResolvable == Spec => []ConflictIsResolvable
BY InvCorrect, PTL DEF ApiInv

----------------------------------------------------------------------------
(* PaymentApi implements IdempotentCreate                                  *)

Ledger == [k \in Keys |-> Entry(k)]
EventsOf(i) == {e \in outbox : e.payment = i}
EventCount == [i \in Ids |-> Cardinality(EventsOf(i))]

\* The entry of a key that has a row is that row.
LEMMA EntryOfRow ==
  ASSUME UniqueKey, NEW row \in payments
  PROVE  Entry(row.key) = [id |-> row.id, hash |-> row.hash]
<1>1. Stored(row.key) = {row}
  BY DEF UniqueKey, Stored
<1>2. \A x \in {row} : x = row
  OBVIOUS
<1>3. (CHOOSE x \in Stored(row.key) : TRUE) = row
  BY <1>1, <1>2
<1> QED
  BY <1>1, <1>3 DEF Entry

LEMMA EntryOfNone ==
  ASSUME NEW k, Stored(k) = {}
  PROVE  Entry(k) = None
BY DEF Entry

\* An entry comes from a row of its key.
LEMMA EntryHasRow ==
  ASSUME UniqueKey, NEW k, Entry(k) # None
  PROVE  \E row \in payments : row.key = k /\ Entry(k) = [id |-> row.id, hash |-> row.hash]
<1>1. PICK row \in Stored(k) : TRUE
  BY DEF Entry
<1> QED
  BY <1>1, EntryOfRow DEF Stored

\* Before its first line a request has neither key nor hash.
IdleHasNoKey ==
  \A r \in Requests : job[r].step = "idle" => job[r].key = None /\ job[r].hash = None

LEMMA IdleStep == TypeOK /\ IdleHasNoKey /\ [Next]_vars => IdleHasNoKey'
<1> SUFFICES ASSUME TypeOK, IdleHasNoKey, [Next]_vars
             PROVE  IdleHasNoKey'
  OBVIOUS
<1>1. ASSUME NEW r \in Requests, NEW k \in Keys, NEW body \in Bodies, Receive(r, k, body)
      PROVE  IdleHasNoKey'
  BY <1>1 DEF Receive, TypeOK, IdleHasNoKey
<1>2. ASSUME NEW r \in Requests, NEW s \in Steps \ {"idle"}, Goto(r, s)
      PROVE  IdleHasNoKey'
  BY <1>2 DEF Goto, TypeOK, Jobs, IdleHasNoKey
<1>3. ASSUME NEW r \in Requests, RequestStep(r) \/ DatabaseFails(r) \/ Die(r)
      PROVE  \E s \in Steps \ {"idle"} : Goto(r, s)
  BY <1>3 DEF RequestStep, Lookup, Insert, CreateEvent, Commit, Reread, DatabaseFails, Die,
              Answer, Steps
<1>4. CASE UNCHANGED vars
  BY <1>4 DEF vars, IdleHasNoKey
<1> QED
  BY <1>1, <1>2, <1>3, <1>4 DEF Next

LEMMA IdleCorrect == Spec => []IdleHasNoKey
<1>1. Init => IdleHasNoKey
  BY DEF Init, IdleHasNoKey
<1> QED
  BY <1>1, IdleStep, TypeCorrect, PTL DEF Spec

\* What a request asked for stays as long as only its step changes.
Wanted == [r \in Requests |-> [key |-> job[r].key, hash |-> job[r].hash]]

LEMMA WantedStays ==
  ASSUME TypeOK, NEW r \in Requests, NEW s, Goto(r, s)
  PROVE  Wanted' = Wanted
BY DEF TypeOK, Jobs, Goto, Wanted

\* A request past its first line has asked for something.
LEMMA HasAsked ==
  ASSUME ApiInv, NEW r \in Requests, job[r].step # "idle"
  PROVE  /\ job[r].key \in Keys /\ job[r].hash \in Hashes
         /\ Wanted[r] = [key |-> job[r].key, hash |-> job[r].hash]
         /\ Wanted[r] # Abstract!NoRequest
<1>1. job[r].key \in Keys /\ job[r].hash \in Hashes /\ job[r].key # None
  BY ApiAssumption DEF ApiInv, JobsInOrder
<1>2. Wanted[r] = [key |-> job[r].key, hash |-> job[r].hash]
  BY DEF Wanted
<1>3. Wanted[r].key # Abstract!NoRequest.key
  BY <1>1, <1>2 DEF Abstract!NoRequest
<1> QED
  BY <1>1, <1>2, <1>3

LEMMA RefinesInit == Init => Abstract!Init
<1> SUFFICES ASSUME Init
             PROVE  Abstract!Init
  OBVIOUS
<1>1. TypeOK /\ ApiInv
  BY TypeInit, InvInit
<1>2. ASSUME NEW k \in Keys
      PROVE  Entry(k) \in [id : Ids, hash : {Legacy}] \cup {None}
  <2>1. CASE Entry(k) = None
    BY <2>1
  <2>2. CASE Entry(k) # None
    <3>1. PICK row \in payments : Entry(k) = [id |-> row.id, hash |-> row.hash]
      BY <1>1, <2>2, EntryHasRow DEF ApiInv
    <3>2. row.id \in Ids /\ row.hash = Legacy
      BY ApiAssumption DEF Init, Ids
    <3> QED
      BY <3>1, <3>2
  <2> QED
    BY <2>1, <2>2
<1>3. \A i \in Ids : {e \in outbox : e.payment = i} = {}
  BY DEF Init
<1>4. [i \in Ids |-> Cardinality({e \in outbox : e.payment = i})] = [i \in Ids |-> 0]
  BY <1>3, FS_EmptySet
<1> QED
  BY <1>2, <1>4 DEF Init, Abstract!Init, NoReply, Abstract!NoReply, Abstract!NoRequest

\* A step that leaves the tables alone leaves the ledger and the events alone.
LEMMA SameTables ==
  ASSUME payments' = payments, outbox' = outbox
  PROVE  Ledger' = Ledger /\ EventCount' = EventCount
BY DEF Ledger, Entry, Stored, EventCount, EventsOf

\* An answer from the ledger as it stands is a step of the abstract specification.
LEMMA RefinesAnswer ==
  ASSUME TypeOK, ApiInv, NEW r \in Requests, Running(r), NEW answer, Answer(r, answer),
         payments' = payments, outbox' = outbox,
         \/ answer = Error
         \/ \E row \in Stored(job[r].key) : answer = AnswerFrom(r, row)
  PROVE  Abstract!Serve(r)
<1>1. job[r].key \in Keys /\ reply[r] = NoReply
  BY DEF ApiInv, JobsInOrder, Running
<1>2. answer \in Abstract!Answers(Entry(job[r].key), job[r].hash)
  <2>1. CASE answer = Error
    BY <2>1 DEF Abstract!Answers, Abstract!Error, Error
  <2>2. CASE \E row \in Stored(job[r].key) : answer = AnswerFrom(r, row)
    <3>1. PICK row \in Stored(job[r].key) : answer = AnswerFrom(r, row)
      BY <2>2
    <3>2. Entry(job[r].key) = [id |-> row.id, hash |-> row.hash]
      BY <3>1, EntryOfRow DEF ApiInv, Stored
    <3>3. [id |-> row.id, hash |-> row.hash] # None
      BY <3>1, ApiAssumption DEF TypeOK, Rows, Ids, Stored
    <3> QED
      BY <3>1, <3>2, <3>3
         DEF AnswerFrom, Accept, Conflict, Abstract!Answers, Abstract!Accept, Abstract!Conflict
  <2> QED
    BY <2>1, <2>2
<1>3. Ledger' = Ledger /\ EventCount' = EventCount
  BY SameTables
<1>4. Ledger'[job[r].key] = Entry(job[r].key)
  BY <1>1, <1>3 DEF Ledger
<1>5. /\ Wanted' = Wanted
      /\ Wanted[r] = [key |-> job[r].key, hash |-> job[r].hash]
      /\ Wanted[r] # Abstract!NoRequest
  BY WantedStays, HasAsked DEF Answer, Running
<1> QED
  BY <1>1, <1>2, <1>3, <1>4, <1>5
     DEF Abstract!Serve, Abstract!NoReply, NoReply, Answer, Ledger, EventCount, EventsOf, Wanted

\* The commit makes the entry and its one event.
LEMMA RefinesPersist ==
  ASSUME TypeOK, ApiInv, NEW r \in Requests, Persist(r)
  PROVE  /\ Abstract!Make(r)
         /\ job[r].key \in Keys /\ job[r].hash \in Hashes
         /\ Ledger'[job[r].key] = [id |-> r, hash |-> job[r].hash]
<1>0. PICK k \in Keys, hash \in Hashes : k = job[r].key /\ hash = job[r].hash
  BY DEF ApiInv, JobsInOrder, Persist
<1> DEFINE new == [id |-> r, hash |-> hash]
           row == [id |-> r, key |-> k, hash |-> hash]
<1>1. /\ job[r].step = "commit" /\ r \in Ids
      /\ payments' = payments \cup {row}
      /\ outbox' = outbox \cup {NewEvent(r)}
  BY <1>0 DEF Persist, Ids, NewRow
<1>2. Stored(k) = {}
  BY <1>0, <1>1 DEF ApiInv, HoldersAlone, Holds
<1>3. /\ \A x \in payments : x.id # r
      /\ \A e \in outbox : e.payment # r
  BY <1>1, StillFresh
<1>4. Ledger[k] = None
  BY <1>1, <1>2 DEF Ledger, Entry
<1>5. \A l \in Keys : Ledger[l] # None => Ledger[l].id # r
  BY <1>3, EntryHasRow DEF ApiInv, Ledger
<1>6. Entry(k)' = new
  <2>1. Stored(k)' = {row}
    BY <1>1, <1>2 DEF Stored
  <2>2. \A x \in {row} : x = row
    OBVIOUS
  <2>3. (CHOOSE x \in Stored(k)' : TRUE) = row
    BY <2>1, <2>2
  <2> QED
    BY <2>1, <2>3 DEF Entry
<1>7. ASSUME NEW l \in Keys, l # k
      PROVE  Entry(l)' = Entry(l)
  <2>1. Stored(l)' = Stored(l)
    BY <1>1, <1>7 DEF Stored
  <2> QED
    BY <2>1 DEF Entry
<1>8. Ledger' = [Ledger EXCEPT ![k] = new]
  BY <1>1, <1>6, <1>7 DEF Ledger
<1>9. EventCount' = [EventCount EXCEPT ![r] = @ + 1]
  <2>1. EventsOf(r) = {} /\ EventsOf(r)' = {NewEvent(r)}
    BY <1>1, <1>3 DEF EventsOf, NewEvent
  <2>2. Cardinality(EventsOf(r)) = 0
    BY <2>1, FS_EmptySet
  <2>3. Cardinality(EventsOf(r)') = 1
    BY <2>1, FS_Singleton
  <2>4. ASSUME NEW i \in Ids, i # r
        PROVE  EventsOf(i)' = EventsOf(i)
    BY <1>1, <2>4 DEF EventsOf, NewEvent
  <2>5. EventCount[r] = 0 /\ EventCount'[r] = 1
    BY <1>1, <2>2, <2>3 DEF EventCount
  <2>6. \A i \in Ids : i # r => EventCount'[i] = EventCount[i]
    BY <2>4 DEF EventCount
  <2>7. /\ EventCount = [i \in Ids |-> EventCount[i]]
        /\ EventCount' = [i \in Ids |-> EventCount'[i]]
    BY DEF EventCount
  <2> QED
    BY <1>1, <2>5, <2>6, <2>7
<1>10. Abstract!Make(r)
  <2>1. Wanted[r] = [key |-> k, hash |-> hash] /\ Wanted[r] # Abstract!NoRequest
    BY <1>0, <1>1, HasAsked
  <2> QED
    BY <1>1, <1>4, <1>5, <1>8, <1>9, <2>1 DEF Abstract!Make, Ledger, EventCount, EventsOf, Wanted
<1> QED
  BY <1>0, <1>6, <1>10 DEF Ledger

LEMMA RefinesStep ==
  TypeOK /\ ApiInv /\ IdleHasNoKey /\ [Next]_vars => [Abstract!Next]_(Abstract!vars)
<1> SUFFICES ASSUME TypeOK, ApiInv, IdleHasNoKey, [Next]_vars
             PROVE  [Abstract!Next]_(Abstract!vars)
  OBVIOUS
<1>1. ASSUME NEW r \in Requests, NEW answer, Running(r), Answer(r, answer),
             UNCHANGED <<payments, outbox>>,
             \/ answer = Error
             \/ \E row \in Stored(job[r].key) : answer = AnswerFrom(r, row)
      PROVE  Abstract!Next
  BY <1>1, RefinesAnswer DEF Abstract!Next
<1>2. ASSUME UNCHANGED <<payments, outbox, reply>>, Wanted' = Wanted
      PROVE  UNCHANGED Abstract!vars
  BY <1>2, SameTables DEF Abstract!vars, Ledger, EventCount, EventsOf, Wanted
<1>3. ASSUME NEW r \in Requests, Lookup(r)
      PROVE  [Abstract!Next]_(Abstract!vars)
  BY <1>1, <1>2, <1>3, WantedStays DEF Lookup, Running
<1>4. ASSUME NEW r \in Requests, Commit(r)
      PROVE  Abstract!Next
  <2>1. PICK answer \in {Accept(r), Error} : Answer(r, answer)
    BY <1>4 DEF Commit
  <2>2. /\ Abstract!Make(r)
        /\ job[r].key \in Keys /\ job[r].hash \in Hashes
        /\ Ledger'[job[r].key] = [id |-> r, hash |-> job[r].hash]
    BY <1>4, RefinesPersist DEF Commit
  <2>3. [id |-> r, hash |-> job[r].hash] # None
    BY <2>2, ApiAssumption
  <2>4. answer \in Abstract!Answers(Ledger'[job[r].key], job[r].hash)
    BY <2>1, <2>2, <2>3
       DEF Abstract!Answers, Abstract!Accept, Abstract!Error, Accept, Error
  <2>5. reply[r] = NoReply /\ reply' = [reply EXCEPT ![r] = answer]
    BY <1>4, <2>1 DEF ApiInv, JobsInOrder, Commit, Persist, Answer
  <2>6. /\ Wanted' = Wanted
        /\ Wanted[r] = [key |-> job[r].key, hash |-> job[r].hash]
        /\ Wanted[r] # Abstract!NoRequest
    BY <1>4, <2>1, WantedStays, HasAsked DEF Answer, Commit, Persist
  <2>7. Abstract!Serve(r)
    BY <2>2, <2>4, <2>5, <2>6
       DEF Abstract!Serve, Abstract!NoReply, NoReply, Ledger, Wanted
  <2> QED
    BY <2>7 DEF Abstract!Next
<1>5. ASSUME NEW r \in Requests, Reread(r)
      PROVE  Abstract!Next
  BY <1>1, <1>5 DEF Reread, Running
<1>6. ASSUME NEW r \in Requests, DatabaseFails(r)
      PROVE  Abstract!Next
  BY <1>1, <1>6 DEF DatabaseFails
<1>7. ASSUME NEW r \in Requests, Die(r)
      PROVE  [Abstract!Next]_(Abstract!vars)
  <2>1. CASE UNCHANGED <<payments, outbox>>
    BY <1>2, <1>7, <2>1, WantedStays DEF Die
  <2>2. CASE Persist(r)
    <3>1. Abstract!MakeUnanswered(r)
      BY <1>7, <2>2, RefinesPersist, WantedStays DEF Die, Abstract!MakeUnanswered, Wanted
    <3> QED
      BY <3>1 DEF Abstract!Next
  <2> QED
    BY <1>7, <2>1, <2>2 DEF Die
<1>8. ASSUME NEW r \in Requests, NEW k \in Keys, NEW body \in Bodies, Receive(r, k, body)
      PROVE  Abstract!Next
  <2>1. Wanted[r] = Abstract!NoRequest
    BY <1>8 DEF Receive, IdleHasNoKey, Wanted, Abstract!NoRequest
  <2>2. Wanted' = [Wanted EXCEPT ![r] = [key |-> k, hash |-> HashOf[body]]]
    BY <1>8 DEF Receive, TypeOK, Wanted
  <2>3. HashOf[body] \in Hashes
    BY ApiAssumption
  <2>4. Ledger' = Ledger /\ EventCount' = EventCount /\ reply' = reply
    BY <1>8, SameTables DEF Receive
  <2>5. Abstract!Ask(r, k, HashOf[body])
    BY <2>1, <2>2, <2>4 DEF Abstract!Ask, Ledger, EventCount, EventsOf, Wanted
  <2> QED
    BY <2>3, <2>5 DEF Abstract!Next
<1>9. ASSUME NEW r \in Requests, Insert(r) \/ CreateEvent(r)
      PROVE  UNCHANGED Abstract!vars
  BY <1>2, <1>9, WantedStays DEF Insert, CreateEvent
<1>10. ASSUME UNCHANGED vars
       PROVE  UNCHANGED Abstract!vars
  BY <1>2, <1>10 DEF vars, Wanted
<1> QED
  BY <1>3, <1>4, <1>5, <1>6, <1>7, <1>8, <1>9, <1>10 DEF Next, RequestStep

\* The API keeps the promise of IdempotentCreate: behind sessions, locks, races and
\* failures a client sees one ledger.
THEOREM ImplementsIdempotentCreate == Spec => KeepsItsPromise
<1>1. Init => Abstract!Init
  BY RefinesInit
<1>2. TypeOK /\ ApiInv /\ IdleHasNoKey /\ [Next]_vars => [Abstract!Next]_(Abstract!vars)
  BY RefinesStep
<1> QED
  BY <1>1, <1>2, InvCorrect, IdleCorrect, PTL DEF Spec, KeepsItsPromise, Abstract!Spec

----------------------------------------------------------------------------
(* What the rest of the service sees of the API                            *)

\* Without legacy keys every payment was made by a request.
MadeHere == \A row \in payments : row.id \in Requests

LEMMA MadeHereCorrect ==
  ASSUME LegacyKeys = {}
  PROVE  Spec => []MadeHere
<1>1. Init => MadeHere
  BY DEF Init, MadeHere
<1>2. MadeHere /\ [Next]_vars => MadeHere'
  BY DEF MadeHere, Next, vars, RequestStep, Receive, Lookup, Insert, CreateEvent, Commit, Reread,
         DatabaseFails, Die, Persist, NewRow
<1> QED
  BY <1>1, <1>2, PTL DEF Spec

\* What a step can do to what clients see: take in a request, make its payment with
\* or without an answer, or answer it with the payment its key stands for.
Asked == [r \in Requests |-> job[r].key]
Answered == [r \in Requests |-> reply[r].id]

Asks(r, k) ==
  /\ Asked[r] = None
  /\ Asked' = [Asked EXCEPT ![r] = k]
  /\ payments' = payments /\ Answered' = Answered

Opens(r) ==
  /\ Asked[r] # None
  /\ \A row \in payments : row.key # Asked[r] /\ row.id # r
  /\ payments' = payments \cup {NewRow(r)}
  /\ Asked' = Asked
  /\ Answered' = Answered \/ Answered' = [Answered EXCEPT ![r] = r]

Repeats(r, row) ==
  /\ Answered[r] = None
  /\ row.key = Asked[r]
  /\ Answered' = [Answered EXCEPT ![r] = row.id]
  /\ payments' = payments /\ Asked' = Asked

LEMMA GotoVisible ==
  ASSUME TypeOK, NEW r \in Requests, NEW s, Goto(r, s)
  PROVE  Asked' = Asked
BY DEF TypeOK, Jobs, Goto, Asked

LEMMA AnswerVisible ==
  ASSUME TypeOK, JobsInOrder, NEW r \in Requests, job[r].step # "answered",
         NEW a \in Replies, Answer(r, a)
  PROVE  /\ Asked' = Asked
         /\ Answered[r] = None
         /\ Answered' = [Answered EXCEPT ![r] = a.id]
         /\ a.id = None => Answered' = Answered
<1>1. Asked' = Asked
  BY GotoVisible DEF Answer
<1>2. Answered[r] = None
  BY DEF JobsInOrder, NoReply, Answered
<1>3. Answered' = [Answered EXCEPT ![r] = a.id]
  BY DEF Answer, Answered, TypeOK
<1> QED
  BY <1>1, <1>2, <1>3 DEF Answered

\* An answer given from a row is its payment or none.
LEMMA AnswerFromVisible ==
  ASSUME TypeOK, JobsInOrder, NEW r \in Requests, job[r].step # "answered",
         NEW row \in Stored(job[r].key), Answer(r, AnswerFrom(r, row)), payments' = payments
  PROVE  (payments' = payments /\ Asked' = Asked /\ Answered' = Answered) \/ Repeats(r, row)
<1>1. AnswerFrom(r, row) \in Replies
  BY RepliesType DEF Stored
<1>2. AnswerFrom(r, row).id \in {None, row.id}
  BY DEF AnswerFrom, Accept, Conflict
<1>3. row.key = Asked[r]
  BY DEF Stored, Asked
<1> QED
  BY <1>1, <1>2, <1>3, AnswerVisible DEF Repeats

LEMMA VisibleEffects ==
  ASSUME TypeOK, ApiInv, IdleHasNoKey, MadeHere, [Next]_vars
  PROVE  \/ payments' = payments /\ Asked' = Asked /\ Answered' = Answered
         \/ \E r \in Requests, k \in Keys : Asks(r, k)
         \/ \E r \in Requests : Opens(r)
         \/ \E r \in Requests : \E row \in payments : Repeats(r, row)
<1> USE DEF ApiInv
<1>1. ASSUME NEW r \in Requests, NEW k \in Keys, NEW body \in Bodies, Receive(r, k, body)
      PROVE  Asks(r, k)
  BY <1>1 DEF Receive, TypeOK, IdleHasNoKey, Asks, Asked, Answered
<1>2. ASSUME NEW r \in Requests, Lookup(r) \/ Reread(r)
      PROVE  \/ payments' = payments /\ Asked' = Asked /\ Answered' = Answered
             \/ \E row \in payments : Repeats(r, row)
  <2>1. job[r].step # "answered" /\ payments' = payments
    BY <1>2 DEF Lookup, Reread
  <2>2. ASSUME NEW row \in Stored(job[r].key), Answer(r, AnswerFrom(r, row))
        PROVE  (Asked' = Asked /\ Answered' = Answered) \/ \E x \in payments : Repeats(r, x)
    <3>1. row \in payments
      BY DEF Stored
    <3> QED
      BY <2>1, <2>2, <3>1, AnswerFromVisible
  <2>3. CASE Answer(r, Error)
    <3>1. Error \in Replies /\ Error.id = None
      BY RepliesType DEF Error
    <3> QED
      BY <2>1, <2>3, <3>1, AnswerVisible
  <2>4. CASE Goto(r, "insert") /\ UNCHANGED reply
    BY <2>1, <2>4, GotoVisible DEF Answered
  <2> QED
    BY <1>2, <2>1, <2>2, <2>3, <2>4 DEF Lookup, Reread
<1>3. ASSUME NEW r \in Requests, Insert(r) \/ CreateEvent(r)
      PROVE  payments' = payments /\ Asked' = Asked /\ Answered' = Answered
  BY <1>3, GotoVisible DEF Insert, CreateEvent, Answered
<1>4. ASSUME NEW r \in Requests, DatabaseFails(r)
      PROVE  payments' = payments /\ Asked' = Asked /\ Answered' = Answered
  <2>1. Error \in Replies /\ Error.id = None /\ job[r].step # "answered"
    BY <1>4, RepliesType DEF DatabaseFails, Running, Error
  <2> QED
    BY <1>4, <2>1, AnswerVisible DEF DatabaseFails
<1>5. ASSUME NEW r \in Requests, Persist(r), job[r].step = "commit"
      PROVE  /\ Asked[r] # None
             /\ \A row \in payments : row.key # Asked[r] /\ row.id # r
             /\ payments' = payments \cup {NewRow(r)}
  <2>1. Asked[r] \in Keys /\ Asked[r] # None
    BY <1>5, ApiAssumption DEF JobsInOrder, Asked
  <2>2. \A row \in payments : row.key # Asked[r]
    BY <1>5 DEF HoldersAlone, Holds, Stored, Asked
  <2>3. \A row \in payments : row.id # r
    BY <1>5, ApiAssumption DEF RowsAreMade
  <2> QED
    BY <1>5, <2>1, <2>2, <2>3 DEF Persist
<1>6. ASSUME NEW r \in Requests, Commit(r)
      PROVE  Opens(r)
  <2>1. job[r].step = "commit"
    BY <1>6 DEF Commit, Persist
  <2>2. PICK a \in {Accept(r), Error} : Answer(r, a)
    BY <1>6 DEF Commit
  <2>3. a \in Replies /\ a.id \in {r, None}
    <3>1. Accept(r) \in Replies /\ Error \in Replies
      BY RepliesType
    <3>2. Accept(r).id = r /\ Error.id = None
      BY DEF Accept, Error
    <3> QED
      BY <3>1, <3>2
  <2>4. /\ Asked' = Asked
        /\ Answered' = [Answered EXCEPT ![r] = a.id]
        /\ a.id = None => Answered' = Answered
    BY <2>1, <2>2, <2>3, AnswerVisible
  <2>5. /\ Asked[r] # None
        /\ \A row \in payments : row.key # Asked[r] /\ row.id # r
        /\ payments' = payments \cup {NewRow(r)}
    BY <1>5, <1>6, <2>1 DEF Commit
  <2> QED
    BY <2>3, <2>4, <2>5 DEF Opens
<1>7. ASSUME NEW r \in Requests, Die(r)
      PROVE  (payments' = payments /\ Asked' = Asked /\ Answered' = Answered) \/ Opens(r)
  <2>1. Asked' = Asked /\ Answered' = Answered
    BY <1>7, GotoVisible DEF Die, Answered
  <2>2. CASE Persist(r)
    BY <1>5, <2>1, <2>2 DEF Persist, Opens
  <2> QED
    BY <1>7, <2>1, <2>2 DEF Die
<1>8. CASE UNCHANGED vars
  BY <1>8 DEF vars, Asked, Answered
<1> QED
  BY <1>1, <1>2, <1>3, <1>4, <1>6, <1>7, <1>8 DEF Next, RequestStep
=============================================================================
