---------------------------- MODULE PaymentPromise ----------------------------
(***************************************************************************)
(* What the executor promises about one payment, whatever requests arrive: *)
(* the amount is in one place at a time, it reaches the recipient or comes *)
(* back to the sender but never both and never twice, and the status shown *)
(* to the parties says it is over only when it is.                         *)
(***************************************************************************)

VARIABLES
  money,   \* where the sender's amount is
  report   \* how the payment is reported to have ended, "open" until then

Places == {"sender", "escrow", "treasury", "delivered", "returned"}
Reports == {"open", "delivered", "returned", "untouched"}

Init == money = "sender" /\ report = "open"

(* The amount moves one hop at a time; the two ends are final.             *)
Hop(from, to) == money = from /\ money' = to /\ UNCHANGED report

Escrow == report = "open" /\ Hop("sender", "escrow")
Release == Hop("escrow", "treasury")
Refund == Hop("escrow", "returned")
Deliver == Hop("treasury", "delivered")
MakeGood == Hop("treasury", "returned")

(* A report is final, and true when it is made.                            *)
Report(r, at) == report = "open" /\ money = at /\ report' = r /\ UNCHANGED money

Conclude ==
  Report("delivered", "delivered") \/ Report("returned", "returned") \/ Report("untouched", "sender")

Next == Escrow \/ Release \/ Refund \/ Deliver \/ MakeGood \/ Conclude

Spec == Init /\ [][Next]_<<money, report>>
=============================================================================
