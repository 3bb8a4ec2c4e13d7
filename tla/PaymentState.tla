---------------------------- MODULE PaymentState ----------------------------
(***************************************************************************)
(* The payment lifecycle of lib/state.ts: the statuses, the table of legal *)
(* moves, and the sets of statuses the handlers branch on.  No state: the  *)
(* modules that move a payment extend this one.                            *)
(***************************************************************************)

PAYMENT_STATES ==
  {"DRAFT", "QUOTED", "COMPLIANCE_PENDING", "MANUAL_REVIEW", "APPROVED",
   "LIQUIDITY_RESERVED", "SUBMITTED_ONCHAIN", "CONFIRMED_ONCHAIN",
   "FX_OR_SWAP_COMPLETED", "PAYOUT_PENDING", "SETTLED",
   "COMPENSATION_PENDING", "COMPENSATED", "REJECTED", "FAILED",
   "CANCELLED", "REFUNDED", "EXPIRED"}

TRANSITIONS ==
  [s \in PAYMENT_STATES |->
     CASE s = "DRAFT" -> {"QUOTED", "CANCELLED", "EXPIRED"}
       [] s = "QUOTED" -> {"COMPLIANCE_PENDING", "QUOTED", "CANCELLED", "EXPIRED"}
       [] s = "COMPLIANCE_PENDING" -> {"APPROVED", "MANUAL_REVIEW", "REJECTED", "CANCELLED"}
       [] s = "MANUAL_REVIEW" -> {"APPROVED", "REJECTED", "CANCELLED"}
       [] s = "APPROVED" -> {"LIQUIDITY_RESERVED", "CANCELLED", "FAILED"}
       [] s = "LIQUIDITY_RESERVED" -> {"SUBMITTED_ONCHAIN", "FAILED", "CANCELLED"}
       [] s = "SUBMITTED_ONCHAIN" -> {"CONFIRMED_ONCHAIN", "FAILED"}
       [] s = "CONFIRMED_ONCHAIN" ->
            {"FX_OR_SWAP_COMPLETED", "FAILED", "REFUNDED", "COMPENSATION_PENDING"}
       [] s = "FX_OR_SWAP_COMPLETED" ->
            {"PAYOUT_PENDING", "FAILED", "REFUNDED", "COMPENSATION_PENDING"}
       [] s = "PAYOUT_PENDING" ->
            {"SETTLED", "FAILED", "REFUNDED", "COMPENSATION_PENDING"}
       [] s = "COMPENSATION_PENDING" -> {"COMPENSATED"}
       [] s = "FAILED" -> {"REFUNDED"}
       [] OTHER -> {}]

(* assertTransition: a move outside the table throws before any write.     *)
CanTransition(from, to) == to \in TRANSITIONS[from]

CANCELLABLE_STATES ==
  {"DRAFT", "QUOTED", "COMPLIANCE_PENDING", "MANUAL_REVIEW", "APPROVED"}

TERMINAL_STATES ==
  {"SETTLED", "COMPENSATED", "REJECTED", "CANCELLED", "REFUNDED", "EXPIRED"}

(* Reaching one of these frees the execution lease in the same statement.  *)
LEASE_RELEASE_STATES == TERMINAL_STATES \union {"FAILED"}
=============================================================================
