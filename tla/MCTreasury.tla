------------------------------ MODULE MCTreasury ------------------------------
(* Requests are interchangeable.  A behaviour meets one of five            *)
(* environments; Racing is the one a park needs to race a payment.         *)
EXTENDS Treasury, TLC

Symmetry == Permutations(Requests)

Env(n, f, o) == [requests |-> n, faults |-> f, overlapping |-> o]
Tame ==
  {Env(4, {}, {"accrue", "settle"}), Env(4, {}, {"recall", "settle", "compensate"}),
   Env(4, {}, {"recall"}), Env(3, {"db", "crash"}, {"recall", "compensate"}), Env(3, {"lost"}, {"accrue"})}
Racing == {Env(2, {}, {"park"})}
=============================================================================
