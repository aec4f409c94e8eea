--------------------------- MODULE PaymentApiBodies ---------------------------
(***************************************************************************)
(* POST /api/v1/payments with the request bodies themselves: PaymentApi with *)
(* the hashes of RequestHash, and a record of what every request asked for,  *)
(* so that it can be said whether a client is answered with the payment it  *)
(* means.                                                                  *)
(***************************************************************************)
EXTENDS PaymentApi, RequestHash

CONSTANT Content  \* what each body says, as RequestHash has it

\* Validated bodies; SHA-256 has no collisions among them.
ASSUME BodiesAssumption ==
  /\ \A b \in Bodies : Content[b].amount \in Amounts /\ Content[b].metadata \in Values
  /\ \A b, c \in Bodies :
       HashOf[b] = HashOf[c] <=> BuildRequestHash(Content[b]) = BuildRequestHash(Content[c])

VARIABLE asked  \* the body of every request

bodyVars == <<payments, outbox, job, reply, asked>>

BodyInit == Init /\ asked = [r \in Requests |-> None]

Ask(r, k, body) == Receive(r, k, body) /\ asked' = [asked EXCEPT ![r] = body]

BodyNext ==
  \E r \in Requests :
    \/ \E k \in Keys, body \in Bodies : Ask(r, k, body)
    \/ (RequestStep(r) \/ DatabaseFails(r) \/ Die(r)) /\ UNCHANGED asked

BodySpec == BodyInit /\ [][BodyNext]_bodyVars

BodyFairSpec == BodySpec /\ Fairness

----------------------------------------------------------------------------
(* Properties                                                              *)

AskedOk == asked \in [Requests -> Bodies \cup {None}]

\* A request that means the same as the one its key was used for is never refused
\* as a conflict, however its amount and its metadata are spelled.
NoFalseConflict ==
  \A r \in Requests : reply[r].code = 409 =>
    \A row \in Stored(job[r].key) :
      row.id \in Requests /\ ~SameRequest(Content[asked[r]], Content[asked[row.id]])

\* A request that means something else is never answered with the payment its key
\* stands for, unless one of the amounts has more digits than the context keeps
\* (or the payment is from before request_hash).
NoFalseReplay ==
  \A r \in Requests : reply[r].code = 202 /\ reply[r].id \in Requests =>
    LET said == Content[asked[r]]  first == Content[asked[reply[r].id]]
    IN Exact(said.amount) /\ Exact(first.amount) => SameRequest(said, first)
=============================================================================
