---------------------- MODULE TransactionBoundaryProofs ----------------------
(* What TransactionBoundary guarantees for any number of blocks and writes. *)
EXTENDS TransactionBoundary, TLAPS

----------------------------------------------------------------------------
(* The inductive invariant                                                 *)

\* The flag is set in a block and only there, the block's unit is open, and the
\* session has a transaction.
InBlock ==
  /\ flag <=> at # "outside"
  /\ at # "outside" => unit \in Units /\ outcome[unit] = "open"
  /\ at = "inside" => tx = "active"
  /\ at = "raising" => tx # "none"

\* The transaction of a block has the writes of its unit: all of them as long as it
\* may commit, perhaps none after a failure.  Without a transaction there are none.
PendingOfUnit ==
  /\ tx = "none" => pending = {}
  /\ at = "inside" => pending = Of(unit)
  /\ at = "raising" => pending \subseteq Of(unit)

\* Units that were not begun have written nothing, and nothing is stored that no
\* unit wrote.
NotBegun == \A u \in Units : u > unit => written[u] = {} /\ outcome[u] = "open"
StoredIsWritten == \A u \in Units : \A x \in Writes : <<u, x>> \in stored => x \in written[u]

Inv ==
  /\ TypeOK
  /\ InBlock
  /\ PendingOfUnit
  /\ NotBegun
  /\ StoredIsWritten
  /\ AllOrNothing
  /\ CanBeginAgain

----------------------------------------------------------------------------
LEMMA InvInit == Init => Inv
<1> SUFFICES ASSUME Init
             PROVE  Inv
  OBVIOUS
<1>1. TypeOK
  <2>1. written \in [Units -> SUBSET Writes] /\ outcome \in [Units -> Outcomes]
    BY DEF Init, Outcomes
  <2>2. unit \in 0..MaxUnits
    BY BoundaryAssumption DEF Init
  <2> QED
    BY <2>1, <2>2 DEF Init, TypeOK
<1>4. InBlock /\ PendingOfUnit
  BY DEF Init, InBlock, PendingOfUnit
<1>2. NotBegun /\ StoredIsWritten /\ AllOrNothing
  BY DEF Init, NotBegun, StoredIsWritten, AllOrNothing, Of
<1>3. CanBeginAgain
  BY DEF Init, CanBeginAgain
<1> QED
  BY <1>1, <1>2, <1>3, <1>4 DEF Inv

\* The writes of one unit are none of another's.
LEMMA OfApart ==
  ASSUME NEW u, NEW v, u # v
  PROVE  Of(u) \cap Of(v) = {}
BY DEF Of

LEMMA OfType ==
  ASSUME TypeOK, NEW u \in Units
  PROVE  Of(u) \subseteq Units \X Writes
BY DEF Of, TypeOK

\* Entering, or being refused, begins a unit that has written nothing.
LEMMA EnterKeepsInv ==
  ASSUME Inv, Enter \/ EnterRefused
  PROVE  Inv'
<1>1. CASE Enter
  <2>1. unit + 1 \in Units /\ unit + 1 > unit /\ tx = "none" /\ pending = {}
    BY <1>1, BoundaryAssumption DEF Enter, Refused, Inv, TypeOK, Units, PendingOfUnit
  <2>2. written[unit + 1] = {} /\ outcome[unit + 1] = "open"
    BY <2>1 DEF Inv, NotBegun
  <2>3. TypeOK'
    BY <1>1, <2>1 DEF Enter, Inv, TypeOK, Units
  <2>4. InBlock'
    BY <1>1, <2>1, <2>2 DEF Enter, InBlock
  <2>5. PendingOfUnit'
    BY <1>1, <2>1, <2>2 DEF Enter, PendingOfUnit, Of
  <2>6. NotBegun'
    BY <1>1, <2>1 DEF Enter, Inv, NotBegun, TypeOK, Units
  <2> QED
    BY <1>1, <2>3, <2>4, <2>5, <2>6
       DEF Enter, Inv, StoredIsWritten, AllOrNothing, Of, CanBeginAgain
<1>2. CASE EnterRefused /\ at = "outside"
  <2>1. /\ unit + 1 \in Units /\ unit + 1 > unit /\ unit' = unit + 1
        /\ outcome' = [outcome EXCEPT ![unit + 1] = "refused"]
        /\ UNCHANGED <<flag, tx, pending, stored, at, written>>
    BY <1>2, BoundaryAssumption DEF EnterRefused, Inv, TypeOK, Units
  <2>2. written[unit + 1] = {}
    BY <2>1 DEF Inv, NotBegun
  <2>3. TypeOK'
    BY <2>1 DEF Inv, TypeOK, Units, Outcomes
  <2>4. InBlock' /\ PendingOfUnit'
    BY <1>2, <2>1 DEF Inv, InBlock, PendingOfUnit
  <2>5. NotBegun'
    BY <2>1 DEF Inv, NotBegun, TypeOK, Units
  <2>6. AllOrNothing'
    BY <2>1, <2>2 DEF Inv, AllOrNothing, Of, TypeOK
  <2>7. CanBeginAgain'
    BY <2>1 DEF Inv, CanBeginAgain, TypeOK
  <2> QED
    BY <2>1, <2>3, <2>4, <2>5, <2>6, <2>7 DEF Inv, StoredIsWritten
<1>3. CASE EnterRefused /\ at = "inside"
  BY <1>3 DEF EnterRefused, Inv, TypeOK, InBlock, PendingOfUnit, NotBegun, StoredIsWritten,
              AllOrNothing, Of, CanBeginAgain
<1> QED
  BY <1>1, <1>2, <1>3 DEF EnterRefused

LEMMA WriteKeepsInv ==
  ASSUME Inv, NEW x \in Writes, Write(x)
  PROVE  Inv'
<1>1. at = "inside" /\ unit \in Units /\ outcome[unit] = "open" /\ tx = "active" /\ flag
  BY DEF Inv, InBlock, Write, TypeOK
<1>2. TypeOK'
  BY <1>1 DEF Inv, TypeOK, Write
<1>3. InBlock' /\ CanBeginAgain'
  BY <1>1 DEF Inv, InBlock, Write, CanBeginAgain
<1>4. written'[unit] = written[unit] \cup {x} /\ \A u \in Units \ {unit} : written'[u] = written[u]
  BY <1>1 DEF Inv, TypeOK, Write
<1>5. PendingOfUnit'
  BY <1>1, <1>4 DEF Inv, PendingOfUnit, Write, Of
<1>6. NotBegun'
  BY <1>1, <1>4 DEF Inv, NotBegun, Write, TypeOK, Units
<1>7. StoredIsWritten'
  BY <1>4 DEF Inv, StoredIsWritten, Write
<1>8. <<unit, x>> \notin stored
  BY <1>1 DEF Inv, StoredIsWritten, Write
<1>9. AllOrNothing'
  <2> SUFFICES ASSUME NEW u \in Units
               PROVE  /\ Of(u)' \subseteq stored \/ Of(u)' \cap stored = {}
                      /\ outcome[u] = "ok" => Of(u)' \subseteq stored
                      /\ outcome[u] \in {"open", "refused", "rolledback"}
                           => Of(u)' \cap stored = {}
    BY DEF AllOrNothing, Write
  <2>1. CASE u = unit
    <3>1. Of(u)' = Of(u) \cup {<<unit, x>>}
      BY <1>4, <2>1 DEF Of
    <3>2. Of(u) \cap stored = {}
      BY <1>1, <2>1 DEF Inv, AllOrNothing
    <3> QED
      BY <3>1, <3>2, <1>1, <1>8, <2>1
  <2>2. CASE u # unit
    <3>1. Of(u)' = Of(u)
      BY <1>4, <2>2 DEF Of
    <3> QED
      BY <3>1 DEF Inv, AllOrNothing
  <2> QED
    BY <2>1, <2>2
<1> QED
  BY <1>2, <1>3, <1>5, <1>6, <1>7, <1>9 DEF Inv

LEMMA FailKeepsInv ==
  ASSUME Inv, WriteFails \/ Raise
  PROVE  Inv'
<1>1. at = "inside" /\ at' = "raising" /\ UNCHANGED <<flag, stored, unit, written, outcome>>
      /\ tx \in {"active", "failed"} /\ tx' \in {"active", "failed"} /\ pending' \in {{}, pending}
  BY DEF WriteFails, Raise, Inv, InBlock
<1>2. TypeOK' /\ InBlock'
  BY <1>1 DEF Inv, TypeOK, InBlock
<1>3. PendingOfUnit'
  BY <1>1 DEF Inv, PendingOfUnit, Of
<1> QED
  BY <1>1, <1>2, <1>3 DEF Inv, NotBegun, StoredIsWritten, AllOrNothing, Of, CanBeginAgain

----------------------------------------------------------------------------
\* How a block can end: nothing of it is stored, or all of it, and the outcome that
\* the caller sees does not contradict that.
LEMMA EndKeepsStored ==
  ASSUME Inv, unit \in Units, outcome[unit] = "open",
         NEW o \in Outcomes, outcome' = [outcome EXCEPT ![unit] = o],
         \/ stored' = stored /\ o # "ok"
         \/ stored' = stored \cup Of(unit) /\ o \in {"ok", "error", "dead"},
         UNCHANGED <<unit, written>>
  PROVE  /\ AllOrNothing' /\ StoredIsWritten' /\ NotBegun'
         /\ outcome' \in [Units -> Outcomes] /\ stored' \subseteq Units \X Writes
<1>1. outcome'[unit] = o /\ \A u \in Units \ {unit} : outcome'[u] = outcome[u]
  BY DEF Inv, TypeOK
<1>2. \A u \in Units : Of(u)' = Of(u)
  BY DEF Of
<1>3. AllOrNothing'
  <2> SUFFICES ASSUME NEW u \in Units
               PROVE  /\ Of(u) \subseteq stored' \/ Of(u) \cap stored' = {}
                      /\ outcome'[u] = "ok" => Of(u) \subseteq stored'
                      /\ outcome'[u] \in {"open", "refused", "rolledback"}
                           => Of(u) \cap stored' = {}
    BY <1>2 DEF AllOrNothing
  <2>1. CASE u = unit
    BY <1>1, <2>1 DEF Inv, AllOrNothing
  <2>2. CASE u # unit
    <3>1. Of(u) \cap Of(unit) = {}
      BY <2>2, OfApart
    <3>2. Of(u) \cap stored' = Of(u) \cap stored
      BY <3>1
    <3> QED
      BY <1>1, <2>2, <3>2 DEF Inv, AllOrNothing
  <2> QED
    BY <2>1, <2>2
<1>4. StoredIsWritten'
  BY DEF Inv, StoredIsWritten, Of
<1>5. NotBegun'
  BY <1>1 DEF Inv, NotBegun, TypeOK, Units
<1>6. stored' \subseteq Units \X Writes
  BY OfType DEF Inv, TypeOK
<1> QED
  BY <1>3, <1>4, <1>5, <1>6 DEF Inv, TypeOK

LEMMA LeaveNormallyKeepsInv ==
  ASSUME Inv, LeaveNormally
  PROVE  Inv'
<1>1. unit \in Units /\ outcome[unit] = "open" /\ tx = "active" /\ pending = Of(unit)
  BY DEF Inv, InBlock, PendingOfUnit, LeaveNormally
<1>2. CASE CommitReturns
  <2>1. "ok" \in Outcomes
    BY DEF Outcomes
  <2>2. /\ AllOrNothing' /\ StoredIsWritten' /\ NotBegun'
        /\ outcome' \in [Units -> Outcomes] /\ stored' \subseteq Units \X Writes
    BY <1>1, <1>2, <2>1, EndKeepsStored DEF CommitReturns, LeaveNormally
  <2> QED
    BY <1>1, <1>2, <2>2
       DEF CommitReturns, LeaveNormally, Inv, TypeOK, InBlock, PendingOfUnit, CanBeginAgain, Refused
<1>3. CASE CommitRaises
  <2>1. "error" \in Outcomes
    BY DEF Outcomes
  <2>2. /\ AllOrNothing' /\ StoredIsWritten' /\ NotBegun'
        /\ outcome' \in [Units -> Outcomes] /\ stored' \subseteq Units \X Writes
    BY <1>1, <1>3, <2>1, EndKeepsStored DEF CommitRaises, LeaveNormally
  <2>3. outcome'[unit] = "error"
    BY <1>1, <1>3 DEF CommitRaises, Inv, TypeOK
  <2> QED
    BY <1>1, <1>3, <2>2, <2>3
       DEF CommitRaises, LeaveNormally, Inv, TypeOK, InBlock, PendingOfUnit, CanBeginAgain
<1> QED
  BY <1>2, <1>3 DEF LeaveNormally

LEMMA LeaveByExceptionKeepsInv ==
  ASSUME Inv, LeaveByException
  PROVE  Inv'
<1>1. unit \in Units /\ outcome[unit] = "open" /\ tx \in {"active", "failed"}
  BY DEF Inv, InBlock, LeaveByException, TypeOK
<1>2. CASE RollbackReturns
  <2>1. "rolledback" \in Outcomes
    BY DEF Outcomes
  <2>2. /\ AllOrNothing' /\ StoredIsWritten' /\ NotBegun'
        /\ outcome' \in [Units -> Outcomes] /\ stored' \subseteq Units \X Writes
    BY <1>1, <1>2, <2>1, EndKeepsStored DEF RollbackReturns, LeaveByException
  <2> QED
    BY <1>1, <1>2, <2>2
       DEF RollbackReturns, LeaveByException, Inv, TypeOK, InBlock, PendingOfUnit,
           CanBeginAgain, Refused
<1>3. CASE RollbackRaises
  <2>1. "error" \in Outcomes
    BY DEF Outcomes
  <2>2. /\ AllOrNothing' /\ StoredIsWritten' /\ NotBegun'
        /\ outcome' \in [Units -> Outcomes] /\ stored' \subseteq Units \X Writes
    BY <1>1, <1>3, <2>1, EndKeepsStored DEF RollbackRaises, LeaveByException
  <2>3. outcome'[unit] = "error"
    BY <1>1, <1>3 DEF RollbackRaises, Inv, TypeOK
  <2> QED
    BY <1>1, <1>3, <2>2, <2>3
       DEF RollbackRaises, LeaveByException, Inv, TypeOK, InBlock, PendingOfUnit, CanBeginAgain
<1> QED
  BY <1>2, <1>3 DEF LeaveByException

LEMMA CrashKeepsInv ==
  ASSUME Inv, Crash
  PROVE  Inv'
<1>1. unit \in Units /\ outcome[unit] = "open" /\ "dead" \in Outcomes
  BY DEF Inv, InBlock, Crash, Outcomes
<1>2. stored' = stored \/ stored' = stored \cup Of(unit)
  BY DEF Inv, PendingOfUnit, Crash
<1>3. /\ AllOrNothing' /\ StoredIsWritten' /\ NotBegun'
      /\ outcome' \in [Units -> Outcomes] /\ stored' \subseteq Units \X Writes
  BY <1>1, <1>2, EndKeepsStored DEF Crash
<1> QED
  BY <1>1, <1>3 DEF Crash, Inv, TypeOK, InBlock, PendingOfUnit, CanBeginAgain, Refused

LEMMA NewSessionKeepsInv ==
  ASSUME Inv, NewSession
  PROVE  Inv'
BY DEF NewSession, Inv, TypeOK, InBlock, PendingOfUnit, NotBegun, StoredIsWritten, AllOrNothing,
       Of, CanBeginAgain, Refused

LEMMA InvStep == Inv /\ [Next]_vars => Inv'
<1> SUFFICES ASSUME Inv, [Next]_vars
             PROVE  Inv'
  OBVIOUS
<1>1. CASE UNCHANGED vars
  <2>1. TypeOK' /\ InBlock' /\ CanBeginAgain'
    BY <1>1 DEF vars, Inv, TypeOK, InBlock, CanBeginAgain, Refused
  <2>2. PendingOfUnit' /\ NotBegun' /\ StoredIsWritten' /\ AllOrNothing'
    BY <1>1 DEF vars, Inv, PendingOfUnit, NotBegun, StoredIsWritten, AllOrNothing, Of
  <2> QED
    BY <2>1, <2>2 DEF Inv
<1>2. CASE Enter \/ EnterRefused
  BY <1>2, EnterKeepsInv
<1>3. CASE \E x \in Writes : Write(x)
  BY <1>3, WriteKeepsInv
<1>4. CASE WriteFails \/ Raise
  BY <1>4, FailKeepsInv
<1>5. CASE LeaveNormally
  BY <1>5, LeaveNormallyKeepsInv
<1>6. CASE LeaveByException
  BY <1>6, LeaveByExceptionKeepsInv
<1>7. CASE NewSession
  BY <1>7, NewSessionKeepsInv
<1>8. CASE Crash
  BY <1>8, CrashKeepsInv
<1> QED
  BY <1>1, <1>2, <1>3, <1>4, <1>5, <1>6, <1>7, <1>8 DEF Next

LEMMA InvAlways == Spec => []Inv
BY InvInit, InvStep, PTL DEF Spec

----------------------------------------------------------------------------
(* Theorems                                                                *)

\* A unit is saved as a whole or not at all, and its caller knows which where the
\* block ended well or rolled back.
THEOREM UnitsAreAtomic == Spec => []AllOrNothing
<1>1. Inv => AllOrNothing
  BY DEF Inv
<1> QED
  BY <1>1, InvAlways, PTL

\* The flag that repositories look at never outlives the session's transaction.
THEOREM FlagTellsTheTruth == Spec => []FlagMeansTransaction
<1>1. Inv => FlagMeansTransaction
  BY DEF Inv, InBlock, TypeOK, FlagMeansTransaction
<1> QED
  BY <1>1, InvAlways, PTL

\* A session can be used again after a block that ended well or was rolled back.
THEOREM NextBlockBegins == Spec => []CanBeginAgain
<1>1. Inv => CanBeginAgain
  BY DEF Inv
<1> QED
  BY <1>1, InvAlways, PTL

\* What a failed commit or rollback left behind is not committed by a later block.
THEOREM LeftoversStayUncommitted == Spec => NothingCommittedLater
<1>1. Inv /\ [Next]_vars =>
        [\A u \in Units : stored' \cap Of(u) # stored \cap Of(u)
           => u = unit /\ outcome[u] = "open"]_vars
  <2> SUFFICES ASSUME Inv, Next, NEW u \in Units, stored' \cap Of(u) # stored \cap Of(u)
               PROVE  u = unit /\ outcome[u] = "open"
    OBVIOUS
  <2>1. at = "inside" /\ stored' = stored \cup pending
    BY DEF Next, Enter, EnterRefused, Write, WriteFails, Raise, LeaveNormally, CommitReturns,
           CommitRaises, LeaveByException, RollbackReturns, RollbackRaises, NewSession, Crash
  <2>2. pending = Of(unit) /\ outcome[unit] = "open"
    BY <2>1 DEF Inv, InBlock, PendingOfUnit
  <2>3. CASE u # unit
    BY <2>1, <2>2, <2>3, OfApart
  <2> QED
    BY <2>2, <2>3
<1> QED
  BY <1>1, InvAlways, PTL DEF Spec, NothingCommittedLater

----------------------------------------------------------------------------
(* The refinement                                                          *)

\* What ends a block for its caller is one step of UnitOfWork.
LEMMA EndIsOneStep ==
  ASSUME Inv, at # "outside", at' = "outside", UNCHANGED <<unit, written>>,
         NEW how, outcome' = [outcome EXCEPT ![unit] = how],
         \/ how \in {"ok", "error", "dead"} /\ stored' = stored \cup Of(unit)
         \/ how \in {"rolledback", "error", "dead"} /\ stored' = stored
  PROVE  Promise!Next
<1>1. Promise!Of(unit) = Of(unit)
  BY DEF Promise!Of, Of
<1>2. Promise!End(how)
  BY <1>1 DEF Promise!End, Promise!Save
<1> QED
  BY <1>2 DEF Promise!Next

\* The beginning, the writes and the end of a block are steps of UnitOfWork, everything
\* else is none.
LEMMA PromiseStep == Inv /\ [Next]_vars => [Promise!Next]_(Promise!vars)
<1> SUFFICES ASSUME Inv, [Next]_vars
             PROVE  [Promise!Next]_(Promise!vars)
  OBVIOUS
<1>1. CASE Enter
  <2>1. Promise!Begin
    BY <1>1 DEF Enter, Promise!Begin
  <2> QED
    BY <2>1 DEF Promise!Next
<1>2. CASE EnterRefused
  <2>1. CASE at = "outside"
    <3>1. Promise!Refuse
      BY <1>2, <2>1 DEF EnterRefused, Promise!Refuse
    <3> QED
      BY <3>1 DEF Promise!Next
  <2>2. CASE at = "inside"
    BY <1>2, <2>2 DEF EnterRefused, Promise!vars
  <2> QED
    BY <1>2, <2>1, <2>2 DEF EnterRefused
<1>3. ASSUME NEW x \in Writes, Write(x)
      PROVE  Promise!Next
  <2>1. at = "inside"
    BY <1>3 DEF Inv, InBlock, Write, TypeOK
  <2>2. Promise!Write(x)
    BY <1>3, <2>1 DEF Write, Promise!Write
  <2> QED
    BY <2>2 DEF Promise!Next
<1>4. CASE WriteFails \/ Raise
  BY <1>4 DEF WriteFails, Raise, Promise!vars
<1>5. CASE LeaveNormally
  <2>1. /\ at = "inside" /\ at' = "outside" /\ UNCHANGED <<unit, written>>
        /\ pending = Of(unit)
    BY <1>5 DEF LeaveNormally, Inv, PendingOfUnit
  <2>2. CASE CommitReturns
    BY <2>1, <2>2, EndIsOneStep DEF CommitReturns
  <2>3. CASE CommitRaises
    BY <2>1, <2>3, EndIsOneStep DEF CommitRaises
  <2> QED
    BY <1>5, <2>2, <2>3 DEF LeaveNormally
<1>6. CASE LeaveByException
  <2>1. at = "raising" /\ at' = "outside" /\ UNCHANGED <<unit, written>>
    BY <1>6 DEF LeaveByException
  <2>2. CASE RollbackReturns
    BY <2>1, <2>2, EndIsOneStep DEF RollbackReturns
  <2>3. CASE RollbackRaises
    BY <2>1, <2>3, EndIsOneStep DEF RollbackRaises
  <2> QED
    BY <1>6, <2>2, <2>3 DEF LeaveByException
<1>7. CASE NewSession
  BY <1>7 DEF NewSession, Promise!vars
<1>8. CASE Crash
  <2>1. /\ at # "outside" /\ at' = "outside" /\ UNCHANGED <<unit, written>>
        /\ outcome' = [outcome EXCEPT ![unit] = "dead"]
        /\ stored' = stored \/ stored' = stored \cup Of(unit)
    BY <1>8 DEF Crash, Inv, PendingOfUnit
  <2> QED
    BY <2>1, EndIsOneStep
<1>9. CASE UNCHANGED vars
  BY <1>9 DEF vars, Promise!vars
<1> QED
  BY <1>1, <1>2, <1>3, <1>4, <1>5, <1>6, <1>7, <1>8, <1>9 DEF Next

\* Whatever fails on the session, its blocks are the atomic steps of UnitOfWork.
THEOREM ImplementsUnitOfWork == Spec => KeepsUnitsWhole
<1>1. Init => Promise!Init
  BY DEF Init, Promise!Init, Promise!Units, Units
<1> QED
  BY <1>1, PromiseStep, InvAlways, PTL DEF Spec, Promise!Spec, KeepsUnitsWhole
=============================================================================
