------------------------- MODULE TransactionBoundary -------------------------
(***************************************************************************)
(* One SQLAlchemy session and the transactions the application opens on it  *)
(* with `async with transaction_manager` (out_db/transaction_manager.py),   *)
(* guarded by a flag in session.info that the repositories look at before   *)
(* they touch the database (transaction_boundary.py).                      *)
(*                                                                         *)
(* A unit is one such block.  Its caller is any code: it may nest blocks,   *)
(* call repositories outside one, and go on after a block that failed.  An   *)
(* exception inside a block leaves it, as in every use case.                *)
(***************************************************************************)
EXTENDS Naturals

CONSTANTS
  Writes,    \* what a unit may write
  MaxUnits   \* bound: blocks entered or refused

ASSUME BoundaryAssumption == MaxUnits \in Nat

VARIABLES
  flag,      \* session.info["application_transaction_active"]
  tx,        \* the session's transaction: "failed" needs a rollback
  pending,   \* the writes in it
  stored,    \* the writes committed
  at,        \* where the caller is
  unit,      \* the last unit that was begun or refused
  written,   \* history: what each unit has written
  outcome    \* history: how each unit ended for its caller

vars == <<flag, tx, pending, stored, at, unit, written, outcome>>

Units == 1..MaxUnits

Outcomes == {"open", "ok", "rolledback", "error", "refused", "dead"}

Of(u) == {<<u, x>> : x \in written[u]}

Init ==
  /\ flag = FALSE
  /\ tx = "none"
  /\ pending = {}
  /\ stored = {}
  /\ at = "outside"
  /\ unit = 0
  /\ written = [u \in Units |-> {}]
  /\ outcome = [u \in Units |-> "open"]

----------------------------------------------------------------------------
(* __aenter__                                                              *)

Refused == flag \/ tx # "none"

\* session.begin() raises as well if the session has a transaction.
BeginRaises == tx # "none"

\* Mutant: an open transaction of the session is joined, and begin() only called
\* without one.
EnterJoining ==
  /\ at = "outside"
  /\ unit < MaxUnits
  /\ ~flag
  /\ tx' = IF tx = "none" THEN "active" ELSE tx
  /\ flag' = TRUE
  /\ at' = "inside"
  /\ unit' = unit + 1
  /\ UNCHANGED <<pending, stored, written, outcome>>

Enter ==
  /\ at = "outside"
  /\ unit < MaxUnits
  /\ ~Refused /\ ~BeginRaises
  /\ tx' = "active"
  /\ flag' = TRUE
  /\ at' = "inside"
  /\ unit' = unit + 1
  /\ UNCHANGED <<pending, stored, written, outcome>>

\* RuntimeError, or InvalidRequestError from begin(): for the outer of two nested
\* blocks an exception like others.
EnterRefused ==
  /\ Refused \/ BeginRaises
  /\ \/ /\ at = "outside"
        /\ unit < MaxUnits
        /\ unit' = unit + 1
        /\ outcome' = [outcome EXCEPT ![unit + 1] = "refused"]
        /\ at' = at
     \/ /\ at = "inside"
        /\ at' = "raising"
        /\ UNCHANGED <<unit, outcome>>
  /\ UNCHANGED <<flag, tx, pending, stored, written>>

----------------------------------------------------------------------------
(* Inside, or outside where ensure_application_transaction should refuse    *)

\* The session does not begin a transaction by itself (autobegin=False).
Write(x) ==
  /\ at # "raising"
  /\ flag
  /\ tx = "active"
  /\ unit > 0
  /\ x \notin written[unit]
  /\ pending' = pending \cup {<<unit, x>>}
  /\ written' = [written EXCEPT ![unit] = @ \cup {x}]
  /\ UNCHANGED <<flag, tx, stored, at, unit, outcome>>

\* A failed flush leaves a transaction that only a rollback ends; after another
\* database error the session does not know that its transaction is lost.
WriteFails ==
  /\ at = "inside"
  /\ flag
  /\ tx' \in {"active", "failed"}
  /\ pending' = {}
  /\ at' = "raising"
  /\ UNCHANGED <<flag, stored, unit, written, outcome>>

\* The block raises an exception of its own.
Raise ==
  /\ at = "inside"
  /\ at' = "raising"
  /\ UNCHANGED <<flag, tx, pending, stored, unit, written, outcome>>

----------------------------------------------------------------------------
(* __aexit__                                                               *)

\* session.commit() returned.
CommitReturns ==
  /\ tx = "active"
  /\ stored' = stored \cup pending
  /\ pending' = {}
  /\ tx' = "none"
  /\ outcome' = [outcome EXCEPT ![unit] = "ok"]

\* session.commit() raised, applied or not: nobody rolls back, and the session is
\* still in its transaction.
CommitRaises ==
  /\ \/ stored' = stored \cup pending /\ pending' = {}
     \/ UNCHANGED <<stored, pending>>
  /\ tx' = "failed"
  /\ outcome' = [outcome EXCEPT ![unit] = "error"]

LeaveNormally ==
  /\ at = "inside"
  /\ CommitReturns \/ CommitRaises
  /\ flag' = FALSE
  /\ at' = "outside"
  /\ UNCHANGED <<unit, written>>

\* Mutants: an exception commits what was written until then, or rolls nothing back.
RollbackCommits ==
  /\ stored' = stored \cup pending
  /\ pending' = {}
  /\ tx' = "none"
  /\ outcome' = [outcome EXCEPT ![unit] = "rolledback"]
RollbackMissing ==
  /\ outcome' = [outcome EXCEPT ![unit] = "rolledback"]
  /\ UNCHANGED <<tx, pending, stored>>

\* session.rollback() returned.
RollbackReturns ==
  /\ pending' = {}
  /\ tx' = "none"
  /\ outcome' = [outcome EXCEPT ![unit] = "rolledback"]
  /\ UNCHANGED stored

\* session.rollback() raised; whether the session has closed its transaction then
\* is the library's affair.
RollbackRaises ==
  /\ \/ tx' = "none" /\ pending' = {}
     \/ tx' = "failed" /\ UNCHANGED pending
  /\ outcome' = [outcome EXCEPT ![unit] = "error"]
  /\ UNCHANGED stored

\* Mutants: __aexit__ has no branch for an exception; the flag stays after one.
LeaveUnhandled ==
  /\ at = "raising"
  /\ at' = "outside"
  /\ UNCHANGED <<flag, tx, pending, stored, unit, written, outcome>>
LeaveRaisingKeepsFlag ==
  /\ at = "raising"
  /\ RollbackReturns \/ RollbackRaises
  /\ at' = "outside"
  /\ UNCHANGED <<flag, unit, written>>

LeaveByException ==
  /\ at = "raising"
  /\ RollbackReturns \/ RollbackRaises
  /\ flag' = FALSE
  /\ at' = "outside"
  /\ UNCHANGED <<unit, written>>

----------------------------------------------------------------------------
\* A new session for the next request or message; closing the old one rolls back.
NewSession ==
  /\ at = "outside"
  /\ flag' = FALSE
  /\ tx' = "none"
  /\ pending' = {}
  /\ UNCHANGED <<stored, at, unit, written, outcome>>

\* The process dies in a block, perhaps while it commits.
Crash ==
  /\ at # "outside"
  /\ \/ UNCHANGED stored
     \/ at = "inside" /\ stored' = stored \cup pending
  /\ flag' = FALSE
  /\ tx' = "none"
  /\ pending' = {}
  /\ at' = "outside"
  /\ outcome' = [outcome EXCEPT ![unit] = "dead"]
  /\ UNCHANGED <<unit, written>>

Next ==
  \/ Enter \/ EnterRefused
  \/ \E x \in Writes : Write(x)
  \/ WriteFails \/ Raise
  \/ LeaveNormally \/ LeaveByException
  \/ NewSession \/ Crash

Spec == Init /\ [][Next]_vars

----------------------------------------------------------------------------
(* Properties                                                              *)

\* Every variable has its type.
TypeOK ==
  /\ flag \in BOOLEAN
  /\ tx \in {"none", "active", "failed"}
  /\ pending \subseteq Units \X Writes
  /\ stored \subseteq Units \X Writes
  /\ at \in {"outside", "inside", "raising"}
  /\ unit \in 0..MaxUnits
  /\ written \in [Units -> SUBSET Writes]
  /\ outcome \in [Units -> Outcomes]

\* A unit is saved as a whole or not at all; as a whole if its caller saw it end
\* well, not at all if it is open, was refused or was rolled back.
AllOrNothing ==
  \A u \in Units :
    /\ Of(u) \subseteq stored \/ Of(u) \cap stored = {}
    /\ outcome[u] = "ok" => Of(u) \subseteq stored
    /\ outcome[u] \in {"open", "refused", "rolledback"} => Of(u) \cap stored = {}

\* A transaction that an earlier unit left behind, its commit or rollback having
\* failed, is never committed by a later one.
NothingCommittedLater ==
  [][\A u \in Units : stored' \cap Of(u) # stored \cap Of(u)
       => u = unit /\ outcome[u] = "open"]_vars

\* A repository that the flag lets pass finds a transaction of the session.
FlagMeansTransaction == flag => tx # "none"

\* After a block that ended well or was rolled back, the next one can begin on the
\* same session: what CreatePaymentUseCase relies on after a unique conflict.
CanBeginAgain ==
  at = "outside" /\ unit > 0 =>
    (outcome[unit] \in {"ok", "rolledback"} => ~Refused)

Promise == INSTANCE UnitOfWork WITH open <- at # "outside"

\* Refinement: whatever the session goes through, repositories write inside a block only,
\* and its end is one step for the application, with all of its writes or with none.
KeepsUnitsWhole == Promise!Spec
=============================================================================
