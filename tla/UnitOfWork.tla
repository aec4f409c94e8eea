------------------------------ MODULE UnitOfWork ------------------------------
(***************************************************************************)
(* What `async with transaction_manager` promises to a use case, without    *)
(* sessions, flags or leftovers: a block collects its writes, and its end   *)
(* is one step, which stores all of them or none.                          *)
(***************************************************************************)
EXTENDS Naturals

CONSTANTS Writes, MaxUnits

VARIABLES
  stored,   \* the writes that are saved
  unit,     \* the last block that was begun or refused
  open,     \* whether it goes on
  written,  \* what each block has written
  outcome   \* how each block ended for its caller

vars == <<stored, unit, open, written, outcome>>

Units == 1..MaxUnits

Of(u) == {<<u, x>> : x \in written[u]}

----------------------------------------------------------------------------
Init ==
  /\ stored = {}
  /\ unit = 0
  /\ open = FALSE
  /\ written = [u \in Units |-> {}]
  /\ outcome = [u \in Units |-> "open"]

Begin ==
  /\ ~open
  /\ unit < MaxUnits
  /\ unit' = unit + 1
  /\ open' = TRUE
  /\ UNCHANGED <<stored, written, outcome>>

\* The session cannot begin another block.
Refuse ==
  /\ ~open
  /\ unit < MaxUnits
  /\ unit' = unit + 1
  /\ outcome' = [outcome EXCEPT ![unit + 1] = "refused"]
  /\ UNCHANGED <<stored, open, written>>

Write(x) ==
  /\ open
  /\ x \notin written[unit]
  /\ written' = [written EXCEPT ![unit] = @ \cup {x}]
  /\ UNCHANGED <<stored, unit, open, outcome>>

\* All or nothing; a caller that sees an error, or a death, does not know which.
Save == stored' = stored \cup Of(unit)

End(how) ==
  /\ open
  /\ open' = FALSE
  /\ outcome' = [outcome EXCEPT ![unit] = how]
  /\ \/ how \in {"ok", "error", "dead"} /\ Save
     \/ how \in {"rolledback", "error", "dead"} /\ UNCHANGED stored
  /\ UNCHANGED <<unit, written>>

Next ==
  \/ Begin \/ Refuse
  \/ \E x \in Writes : Write(x)
  \/ \E how \in {"ok", "rolledback", "error", "dead"} : End(how)

Spec == Init /\ [][Next]_vars
=============================================================================
