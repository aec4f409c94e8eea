-------------------------- MODULE MCPaymentPipeline --------------------------
(* A small instance of PaymentPipeline for TLC.                            *)
EXTENDS PaymentPipeline

CONSTANTS b1, h1, k1, w1, c1

MCHashOf == [b \in Bodies |-> h1]
=============================================================================
