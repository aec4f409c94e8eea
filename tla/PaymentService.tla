--------------------------- MODULE PaymentService ---------------------------
(***************************************************************************)
(* What the whole service promises its client: an account of every payment  *)
(* that goes from none to pending to one final status, one payment for      *)
(* every Idempotency-Key, an answer that names it, and webhooks that say    *)
(* what the account says.  There are no tables, queues, processes, retries  *)
(* or crashes here.                                                        *)
(*                                                                         *)
(* The promise has the exception that the consumer's code makes: a payment  *)
(* on which two handlers met ("contested") may be settled again.           *)
(***************************************************************************)
CONSTANTS Requests, Keys, None

VARIABLES
  asked,      \* the key each request came with
  account,    \* what GET shows of the payment a request made
  answered,   \* the payment each request was told to have been accepted as
  told,       \* the statuses the client has been told by webhook
  contested   \* two handlers have met on the payment

vars == <<asked, account, answered, told, contested>>

Final == {"succeeded", "failed"}

Init ==
  /\ asked = [r \in Requests |-> None]
  /\ account = [r \in Requests |-> "none"]
  /\ answered = [r \in Requests |-> None]
  /\ told = [r \in Requests |-> {}]
  /\ contested = [r \in Requests |-> FALSE]

Ask(r, k) ==
  /\ asked[r] = None
  /\ asked' = [asked EXCEPT ![r] = k]
  /\ UNCHANGED <<account, answered, told, contested>>

\* A payment is opened for a key that has none, with or without the answer that
\* says so.
Open(r) ==
  /\ asked[r] # None
  /\ \A q \in Requests : asked[q] = asked[r] => account[q] = "none"
  /\ account' = [account EXCEPT ![r] = "pending"]
  /\ answered' \in {answered, [answered EXCEPT ![r] = r]}
  /\ UNCHANGED <<asked, told, contested>>

\* A repeated request is answered with the payment its key stands for.
Repeat(r, p) ==
  /\ answered[r] = None
  /\ account[p] # "none"
  /\ asked[p] = asked[r]
  /\ answered' = [answered EXCEPT ![r] = p]
  /\ UNCHANGED <<asked, account, told, contested>>

Settle(p, result) ==
  /\ account[p] = "pending" \/ (contested[p] /\ account[p] # "none")
  /\ account' = [account EXCEPT ![p] = result]
  /\ UNCHANGED <<asked, answered, told, contested>>

Tell(p, result) ==
  /\ account[p] \in Final
  /\ contested[p] \/ account[p] = result
  /\ told' = [told EXCEPT ![p] = @ \cup {result}]
  /\ UNCHANGED <<asked, account, answered, contested>>

Contest(p) ==
  /\ account[p] # "none"
  /\ contested' = [contested EXCEPT ![p] = TRUE]
  /\ UNCHANGED <<asked, account, answered, told>>

Next ==
  \/ \E r \in Requests, k \in Keys : Ask(r, k)
  \/ \E r \in Requests : Open(r)
  \/ \E r, p \in Requests : Repeat(r, p)
  \/ \E p \in Requests, result \in Final : Settle(p, result) \/ Tell(p, result)
  \/ \E p \in Requests : Contest(p)

Spec == Init /\ [][Next]_vars
=============================================================================
