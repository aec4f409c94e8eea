-------------------------- MODULE MCOutboxPublisher --------------------------
(* Small instances of OutboxPublisher for TLC.                             *)
EXTENDS OutboxPublisher, TLC

\* Sound for the safety runs: no definition chooses among workers.
Symmetry == Permutations(Workers)
=============================================================================
