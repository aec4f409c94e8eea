-------------------------- MODULE MCPaymentConsumer --------------------------
(* Small instances of PaymentConsumer for TLC.                             *)
EXTENDS PaymentConsumer, TLC

\* Sound for the safety runs: no definition chooses among handlers or ids.
Symmetry == Permutations(Handlers) \cup Permutations(MsgIds)
=============================================================================
