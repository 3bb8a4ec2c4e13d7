--------------------------- MODULE MCPaymentIntake ---------------------------
(* A corridor of three units to two with coarse rates; worlds that differ  *)
(* in what the compliance checks may answer, in whether the payment        *)
(* crosses networks, in the row's age and in what fails.                   *)
EXTENDS PaymentIntake

Symmetry == Permutations(Requests)

SlippageTiers == <<<<3, 1>>, <<6, 2>>>>

World(start, cross, kyb, wallet, walletAnswers, nameAnswers, faults) ==
  [start |-> start, cross |-> cross, corridor |-> TRUE, faults |-> faults,
   kyb |-> [p \in Parties |-> IF p = "recipient" THEN kyb ELSE "PASSED"],
   wallet |-> [p \in Parties |-> IF p = "recipient" THEN wallet ELSE "allowlisted"],
   walletAnswers |-> walletAnswers, nameAnswers |-> nameAnswers]

Sampled ==
  {World("none", TRUE, "PASSED", "allowlisted", {"low"}, {"clear", "match"}, {}),
   World("created", TRUE, "PASSED", "allowlisted", {"low", "error"}, {"clear", "possible"}, {}),
   World("created", FALSE, "PENDING", "unlisted", {"low", "sanctioned"}, {"clear", "error"}, {"db", "crash"}),
   World("legacy", FALSE, "PASSED", "allowlisted", {"low"}, {"clear"}, {})}
=============================================================================
