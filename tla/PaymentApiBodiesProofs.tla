------------------------ MODULE PaymentApiBodiesProofs ------------------------
(* What the hashes mean for clients, for any bodies: PaymentApiProofs says    *)
(* which hash an answer goes with, RequestHashProofs which bodies have it.    *)
EXTENDS PaymentApiBodies, PaymentApiProofs, RequestHashProofs

\* A request that has begun has the hash of the body it asked with.
HashesAsked ==
  \A r \in Requests : job[r].step # "idle" =>
    asked[r] \in Bodies /\ job[r].hash = HashOf[asked[r]]

----------------------------------------------------------------------------
(* The requests are those of PaymentApi                                    *)

\* A step of the requests with bodies is one of PaymentApi.
LEMMA BodyNextIsNext == [BodyNext]_bodyVars => [Next]_vars
BY DEF BodyNext, bodyVars, Ask, Next, vars

\* So what PaymentApiProofs proves holds here.
LEMMA BodySpecIsSpec == BodySpec => Spec
<1>1. BodyInit => Init
  BY DEF BodyInit
<1>2. QED
  BY <1>1, BodyNextIsNext, PTL DEF BodySpec, Spec

\* A step of a request that has begun only moves it on.
LEMMA OnlyMoves ==
  ASSUME NEW r \in Requests, RequestStep(r) \/ DatabaseFails(r) \/ Die(r)
  PROVE  job[r].step # "idle" /\ \E s \in Steps : Goto(r, s)
<1> USE DEF Steps
<1>1. CASE Lookup(r)
  BY <1>1 DEF Lookup, Answer
<1>2. CASE Insert(r)
  BY <1>2 DEF Insert
<1>3. CASE CreateEvent(r)
  BY <1>3 DEF CreateEvent
<1>4. CASE Commit(r)
  BY <1>4 DEF Commit, Persist, Answer
<1>5. CASE Reread(r)
  BY <1>5 DEF Reread, Answer
<1>6. CASE DatabaseFails(r)
  BY <1>6 DEF DatabaseFails, Running, Answer
<1>7. CASE Die(r)
  BY <1>7 DEF Die, Running
<1>8. QED BY <1>1, <1>2, <1>3, <1>4, <1>5, <1>6, <1>7 DEF RequestStep

----------------------------------------------------------------------------
(* The invariant                                                           *)

\* No request has begun at first.
LEMMA AskedInit == BodyInit => AskedOk /\ HashesAsked
BY DEF BodyInit, Init, AskedOk, HashesAsked

\* Only the request itself records what it asks, when it begins.
LEMMA AskedStep ==
  TypeOK /\ AskedOk /\ HashesAsked /\ [BodyNext]_bodyVars => AskedOk' /\ HashesAsked'
<1> SUFFICES ASSUME TypeOK, AskedOk, HashesAsked, [BodyNext]_bodyVars
             PROVE  AskedOk' /\ HashesAsked'
  OBVIOUS
<1>1. ASSUME NEW r \in Requests, NEW k \in Keys, NEW body \in Bodies, Ask(r, k, body)
      PROVE  AskedOk' /\ HashesAsked'
  <2>1. AskedOk'
    BY <1>1 DEF Ask, AskedOk
  <2>2. /\ job' = [job EXCEPT ![r] = [step |-> "begin", key |-> k, hash |-> HashOf[body]]]
        /\ asked' = [asked EXCEPT ![r] = body]
    BY <1>1 DEF Ask, Receive
  <2>3. HashesAsked'
    BY <2>2 DEF HashesAsked, TypeOK, AskedOk
  <2>4. QED BY <2>1, <2>3
<1>2. ASSUME NEW r \in Requests, RequestStep(r) \/ DatabaseFails(r) \/ Die(r), UNCHANGED asked
      PROVE  AskedOk' /\ HashesAsked'
  <2>1. PICK s \in Steps : job' = [job EXCEPT ![r].step = s] /\ job[r].step # "idle"
    BY <1>2, OnlyMoves DEF Goto
  <2>2. \A q \in Requests :
          /\ job'[q].hash = job[q].hash
          /\ job'[q].step # "idle" => job[q].step # "idle"
    BY <2>1 DEF TypeOK, Jobs
  <2>3. QED BY <1>2, <2>2 DEF AskedOk, HashesAsked
<1>3. CASE UNCHANGED bodyVars
  BY <1>3 DEF bodyVars, AskedOk, HashesAsked
<1>4. QED BY <1>1, <1>2, <1>3 DEF BodyNext

\* Every request has the hash of its body.
LEMMA AskedCorrect == BodySpec => [](TypeOK /\ ApiInv /\ AskedOk /\ HashesAsked)
<1>1. Spec => [](TypeOK /\ ApiInv)
  BY InvCorrect
<1>2. QED
  BY <1>1, BodySpecIsSpec, AskedInit, AskedStep, PTL DEF BodySpec

----------------------------------------------------------------------------
(* What clients get                                                        *)

\* A payment made here has the hash of the body its request asked with.
LEMMA RowHash ==
  ASSUME TypeOK, ApiInv, HashesAsked, NEW row \in payments, row.hash # Legacy \/ row.id \in Requests
  PROVE  /\ row.id \in Requests
         /\ asked[row.id] \in Bodies
         /\ row.hash = HashOf[asked[row.id]]
         /\ row.hash # Legacy
<1>1. /\ row.id \in Requests
      /\ job[row.id].step \in {"answered", "dead"}
      /\ row = NewRow(row.id)
  BY ApiAssumption DEF ApiInv, RowsAreMade
<1>2. job[row.id].step # "idle"
  BY <1>1
<1>3. row.hash = job[row.id].hash
  BY <1>1 DEF NewRow
<1>4. asked[row.id] \in Bodies /\ job[row.id].hash = HashOf[asked[row.id]]
  BY <1>1, <1>2 DEF HashesAsked
<1>5. HashOf[asked[row.id]] # Legacy
  BY <1>4, ApiAssumption
<1>6. QED BY <1>1, <1>3, <1>4, <1>5

\* Whoever has an answer has begun.
LEMMA AnsweredAsked ==
  ASSUME ApiInv, HashesAsked, NEW r \in Requests, reply[r].code # 0
  PROVE  asked[r] \in Bodies /\ job[r].hash = HashOf[asked[r]]
<1>1. job[r].step = "answered"
  BY DEF ApiInv, JobsInOrder, NoReply
<1>2. QED BY <1>1 DEF HashesAsked

\* A request that means the same as the one its key was used for is never refused,
\* whatever the bodies and however they are spelled.
THEOREM SameMeaningNeverRefused == BodySpec => []NoFalseConflict
<1>1. ASSUME TypeOK, ApiInv, HashesAsked PROVE NoFalseConflict
  <2> SUFFICES ASSUME NEW r \in Requests, reply[r].code = 409, NEW row \in Stored(job[r].key)
               PROVE  row.id \in Requests /\ ~SameRequest(Content[asked[r]], Content[asked[row.id]])
    BY DEF NoFalseConflict
  <2>1. PICK other \in Stored(job[r].key) : other.hash \notin {job[r].hash, Legacy}
    BY <1>1 DEF ApiInv, AnswerMatchesBody
  <2>2. row = other /\ row \in payments
    BY <1>1 DEF ApiInv, UniqueKey, Stored
  <2>3. /\ row.id \in Requests /\ asked[row.id] \in Bodies
        /\ row.hash = HashOf[asked[row.id]]
    BY <1>1, <2>1, <2>2, RowHash
  <2>4. asked[r] \in Bodies /\ job[r].hash = HashOf[asked[r]]
    BY <1>1, AnsweredAsked
  <2>5. HashOf[asked[r]] # HashOf[asked[row.id]]
    BY <2>1, <2>2, <2>3, <2>4
  <2>6. BuildRequestHash(Content[asked[r]]) # BuildRequestHash(Content[asked[row.id]])
    BY <2>3, <2>4, <2>5, BodiesAssumption
  <2>7. ~SameRequest(Content[asked[r]], Content[asked[row.id]])
    BY <2>3, <2>4, <2>6, BodiesAssumption, SameRequestSameHash
  <2>8. QED BY <2>3, <2>7
<1>2. QED BY <1>1, AskedCorrect, PTL

\* A request that means something else is never answered with the payment its key
\* stands for, unless the context rounds an amount.
THEOREM OtherMeaningNeverReplayed == BodySpec => []NoFalseReplay
<1>1. ASSUME TypeOK, ApiInv, HashesAsked PROVE NoFalseReplay
  <2> SUFFICES ASSUME NEW r \in Requests, reply[r].code = 202, reply[r].id \in Requests,
                      Exact(Content[asked[r]].amount),
                      Exact(Content[asked[reply[r].id]].amount)
               PROVE  SameRequest(Content[asked[r]], Content[asked[reply[r].id]])
    BY DEF NoFalseReplay
  <2>1. PICK row \in payments : row.id = reply[r].id /\ row.hash \in {job[r].hash, Legacy}
    BY <1>1 DEF ApiInv, AnswerMatchesBody, Stored
  <2>2. asked[row.id] \in Bodies /\ row.hash = HashOf[asked[row.id]] /\ row.hash # Legacy
    BY <1>1, <2>1, RowHash
  <2>3. asked[r] \in Bodies /\ job[r].hash = HashOf[asked[r]]
    BY <1>1, AnsweredAsked
  <2>4. BuildRequestHash(Content[asked[r]]) = BuildRequestHash(Content[asked[row.id]])
    BY <2>1, <2>2, <2>3, BodiesAssumption
  <2>5. QED BY <2>1, <2>2, <2>3, <2>4, BodiesAssumption, SameHashSameRequest
<1>2. QED BY <1>1, AskedCorrect, PTL
=============================================================================
