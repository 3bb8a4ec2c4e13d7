------------------------- MODULE MCPaymentExecutor -------------------------
(* Small instances of PaymentExecutor for TLC.                             *)
EXTENDS PaymentExecutor, TLC

Symmetry == Permutations(Requests)
=============================================================================
