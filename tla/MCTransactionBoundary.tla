------------------------ MODULE MCTransactionBoundary ------------------------
(* A small instance of TransactionBoundary for TLC.                        *)
EXTENDS TransactionBoundary, TLC

CONSTANTS x, y

Symmetry == Permutations(Writes)
=============================================================================
