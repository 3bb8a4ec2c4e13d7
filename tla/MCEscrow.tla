------------------------------- MODULE MCEscrow -------------------------------
(* Payments of unequal amounts, with and without funds for them.           *)
EXTENDS Escrow

Amounts == [p \in {"p1", "p2", "p3"} |-> CASE p = "p1" -> 2 [] p = "p2" -> 3 [] p = "p3" -> 1]

Setting(payments, public, standing, funds, signs, faults) ==
  [payments |-> payments, public |-> public, standing |-> standing, funds |-> funds,
   signs |-> signs, faults |-> faults]

Two == {"p1", "p2"}
All == {"sender", "operator", "treasury"}
Senders ==
  {Setting({"p1", "p2", "p3"}, FALSE, 0, 5, All, {}),
   Setting(Two, FALSE, 0, 5, All, {"lost"}),
   Setting(Two, FALSE, 0, 3, All, {"lost"}),
   Setting(Two, FALSE, 1000, 5, All, {"lost"}),
   Setting(Two, FALSE, 0, 5, {"operator", "sender"}, {}),
   Setting(Two, FALSE, 0, 5, {"operator"}, {}),
   Setting(Two, TRUE, 0, 5, All, {}),
   Setting(Two, TRUE, 0, 5, All, {"stale"})}

(* One payment, of which the sender has not the amount.                    *)
Short == {Setting({"p1"}, FALSE, 0, 1, All, {})}
=============================================================================
