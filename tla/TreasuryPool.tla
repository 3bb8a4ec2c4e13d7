----------------------------- MODULE TreasuryPool -----------------------------
(***************************************************************************)
(* What the treasury promises of its wallet: a token is promised to one    *)
(* payment at a time, a payment is paid what it was promised, and only     *)
(* what nobody was promised leaves otherwise.                              *)
(*                                                                         *)
(* One operation stands outside: a compensation takes from the wallet      *)
(* whatever was promised of it.  Nobody is told, so what it took still     *)
(* counts as there; the promises are short by that much at most.           *)
(***************************************************************************)
EXTENDS Integers, Functions

CONSTANT Payments

VARIABLES
  wallet,   \* tokens the treasury holds
  promised, \* tokens promised to each payment and not spent yet
  taken     \* tokens compensations took without asking

Unpromised == wallet + taken - SumFunction(promised)

Init == wallet \in Nat /\ promised = [p \in Payments |-> 0] /\ taken = 0

Promise(p) ==
  /\ promised[p] = 0
  /\ \E a \in 1..Unpromised : promised' = [promised EXCEPT ![p] = a]
  /\ UNCHANGED <<wallet, taken>>

Spend(p) ==
  /\ promised[p] \in 1..wallet
  /\ wallet' = wallet - promised[p]
  /\ promised' = [promised EXCEPT ![p] = 0]
  /\ UNCHANGED taken

Release(p) ==
  /\ promised' = [promised EXCEPT ![p] = 0]
  /\ UNCHANGED <<wallet, taken>>

Withdraw ==
  /\ wallet' \in 0..wallet /\ wallet - wallet' <= Unpromised
  /\ UNCHANGED <<promised, taken>>

Receive == wallet' > wallet /\ UNCHANGED <<promised, taken>>

Compensate ==
  /\ wallet' \in 0..wallet
  /\ taken' = taken + (wallet - wallet')
  /\ UNCHANGED promised

Next ==
  \/ Withdraw \/ Receive \/ Compensate
  \/ \E p \in Payments : Promise(p) \/ Spend(p) \/ Release(p)

Pool == Init /\ [][Next]_<<wallet, promised, taken>>
=============================================================================
