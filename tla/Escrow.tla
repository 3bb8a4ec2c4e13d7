-------------------------------- MODULE Escrow --------------------------------
(***************************************************************************)
(* The escrow contract and its token, and the adapter through which        *)
(* payments of one sender use them: contracts/PaymentSettlement.sol,       *)
(* contracts/MockERC20.sol and the write path of lib/chain.ts, whose       *)
(* signers lib/signers.ts resolves.                                        *)
(*                                                                         *)
(* A write is estimated against what the network's RPC shows, which on a   *)
(* public testnet may lag the chain; once sent, it is mined later, and the *)
(* answer may never come.  The payments share an asset, which the contract *)
(* has approved, and one network.                                          *)
(***************************************************************************)
EXTENDS Integers, FiniteSets, Functions

CONSTANTS
  Payments,
  Amount,      \* base units of each payment
  Float,       \* what the treasury holds at first
  Retries,     \* replicaLagRetries of a public testnet
  Settings     \* what a behaviour may meet: see setting

Uint256Max == 1000
Nil == "none"

ASSUME EscrowAssumption ==
  /\ IsFiniteSet(Payments)
  /\ Amount \in [Payments -> 1 .. Uint256Max - 1]
  /\ {Float, Retries} \subseteq Nat
  /\ \A w \in Settings : w.standing \in 0 .. Uint256Max /\ w.funds \in Nat /\ w.public \in BOOLEAN

VARIABLES
  ledger,    \* the chain: balances, the sender's allowance, the state of each payment
  seen,      \* what a replica that lags still shows
  mempool,   \* writes sent and not mined: [of, call]
  receipt,   \* of each payment's last write
  pc, tries, \* where each payment is, and the retries of its write
  refused,   \* payments whose allowance did not cover them
  disturbed, \* payments whose allowance another one touched, or was read stale
  setting    \* payments: those executed; public: a load-balanced testnet; standing: the
             \* allowance an older deployment left; funds: of the sender; signs: accounts
             \* whose key resolves; faults: subset of {"lost", "stale"}

escrowVars == <<ledger, seen, mempool, receipt, pc, tries, refused, disturbed, setting>>

Accounts == {"sender", "escrow", "treasury", "recipient"}

EscrowInit ==
  /\ setting \in Settings
  /\ ledger = [bal |-> [a \in Accounts |-> CASE a = "sender" -> setting.funds [] a = "treasury" -> Float [] OTHER -> 0],
               allowance |-> setting.standing,
               state |-> [p \in Payments |-> "NONE"]]
  /\ seen = ledger
  /\ mempool = {}
  /\ receipt = [p \in Payments |-> Nil]
  /\ pc = [p \in Payments |-> "idle"]
  /\ tries = [p \in Payments |-> 0]
  /\ refused = {}
  /\ disturbed = {}

EscrowGo(p, l) == pc' = [pc EXCEPT ![p] = l]

-----------------------------------------------------------------------------
(* The contracts: what reverts a call on a ledger, and what it does there. *)

NoBalance(l, from, n) == IF l.bal[from] < n THEN "insufficient balance" ELSE Nil

Transfer(l, from, to, n) == [l EXCEPT !.bal[from] = @ - n, !.bal[to] = @ + n]

(* transferFrom: an unlimited allowance is not used up.                    *)
TransferFrom(l, to, n) ==
  [Transfer(l, "sender", to, n) EXCEPT !.allowance = IF @ = Uint256Max THEN @ ELSE @ - n]

(* Slip: a payment that is over can be released or returned once more.     *)
NotInitiatedUnlessKnown(l, p) == IF l.state[p] = "NONE" THEN "not initiated" ELSE Nil

NotInitiated(l, p) == IF l.state[p] # "INITIATED" THEN "not initiated" ELSE Nil

Revert(l, p, call) ==
  CASE call = "initiatePayment" ->
         IF l.state[p] # "NONE" THEN "payment exists"
         ELSE IF l.allowance < Amount[p] THEN "insufficient allowance"
         ELSE NoBalance(l, "sender", Amount[p])
    [] call \in {"settlePayment", "cancelPayment", "failAndRefund"} -> NotInitiated(l, p)
    [] call = "transfer" -> NoBalance(l, "treasury", Amount[p])
    [] call = "approve" -> Nil

(* Slip: the sender approves as the treasury does.                         *)
ApprovalUnlimited(p) == Uint256Max

(* Exactly the payment's amount, over whatever was approved.               *)
Approval(p) == Amount[p]

Run(l, p, call) ==
  CASE call = "approve" -> [l EXCEPT !.allowance = Approval(p)]
    [] call = "initiatePayment" -> [TransferFrom(l, "escrow", Amount[p]) EXCEPT !.state[p] = "INITIATED"]
    [] call = "settlePayment" -> [Transfer(l, "escrow", "treasury", Amount[p]) EXCEPT !.state[p] = "SETTLED"]
    [] call = "cancelPayment" -> [Transfer(l, "escrow", "sender", Amount[p]) EXCEPT !.state[p] = "CANCELLED"]
    [] call = "failAndRefund" -> [Transfer(l, "escrow", "sender", Amount[p]) EXCEPT !.state[p] = "REFUNDED"]
    [] call = "transfer" -> Transfer(l, "treasury", "recipient", Amount[p])

-----------------------------------------------------------------------------
(* The adapter.                                                            *)

(* signerFor and resolveKey: an account with a key, here or in the         *)
(* environment, signs; any other throws before anything is sent.           *)
Signer(call) ==
  CASE call = "approve" -> "sender" [] call = "transfer" -> "treasury" [] OTHER -> "operator"

replicaLagRetries == IF setting.public THEN Retries ELSE 0

(* A replica is taken to catch up by the last try; the code only bounds    *)
(* the tries.                                                              *)
Shown(p) == IF tries[p] < replicaLagRetries THEN {ledger, seen} ELSE {ledger}

(* Slip: an initiate waits for the payment's row as the others do.         *)
IsTransientRow(call, message) == message = "not initiated"

(* What operatorWrite waits for; the other writes do not retry.            *)
IsTransient(call, message) ==
  \/ call = "initiatePayment" /\ message = "insufficient allowance"
  \/ call \in {"settlePayment", "cancelPayment", "failAndRefund"} /\ message = "not initiated"

Throw(p) == EscrowGo(p, "threw")

(* writeContract: estimated, sent, and its receipt awaited.                *)
Write(p, call, awaiting) ==
  \E l \in Shown(p) :
    LET message == IF Signer(call) \in setting.signs THEN Revert(l, p, call) ELSE "no key"
    IN  \/ /\ message = Nil
           /\ mempool' = mempool \union {[of |-> p, call |-> call]}
           /\ EscrowGo(p, awaiting)
           /\ tries' = [tries EXCEPT ![p] = 0]
           /\ receipt' = [receipt EXCEPT ![p] = Nil]
           /\ UNCHANGED refused
        \/ /\ message # Nil
           /\ \/ /\ IsTransient(call, message) /\ tries[p] < replicaLagRetries
                 /\ tries' = [tries EXCEPT ![p] = @ + 1]
                 /\ UNCHANGED <<pc, refused>>
              \/ /\ ~(IsTransient(call, message) /\ tries[p] < replicaLagRetries)
                 /\ Throw(p)
                 /\ tries' = [tries EXCEPT ![p] = 0]
                 /\ refused' = IF message = "insufficient allowance" THEN refused \union {p} ELSE refused
           /\ UNCHANGED <<mempool, receipt>>

Untouched == UNCHANGED <<ledger, seen, disturbed, setting>>

(* ensureSenderAllowance: enough already, and nothing is sent.             *)
Covered(l, p) == l.allowance >= Amount[p]

ReadAllowance(p) ==
  /\ pc[p] = "idle" /\ p \in setting.payments
  /\ \E l \in IF "stale" \in setting.faults THEN {ledger, seen} ELSE {ledger} :
       /\ EscrowGo(p, IF Covered(l, p) THEN "initiate" ELSE "approve")
       /\ disturbed' = IF l.allowance = ledger.allowance THEN disturbed ELSE disturbed \union {p}
  /\ UNCHANGED <<ledger, seen, mempool, receipt, tries, refused, setting>>

ApproveAmount(p) == pc[p] = "approve" /\ Write(p, "approve", "approving") /\ Untouched
Initiate(p) == pc[p] = "initiate" /\ Write(p, "initiatePayment", "initiating") /\ Untouched
Settle(p) == pc[p] = "settle" /\ Write(p, "settlePayment", "settling") /\ Untouched
Pay(p) == pc[p] = "pay" /\ Write(p, "transfer", "paying") /\ Untouched

(* After a throw the escrow is asked, and what it still holds goes back.   *)
ReadState(p) ==
  /\ pc[p] = "threw"
  /\ \E l \in Shown(p) : EscrowGo(p, IF l.state[p] = "INITIATED" THEN "undo" ELSE "over")
  /\ UNCHANGED <<ledger, seen, mempool, receipt, tries, refused, disturbed, setting>>

Undo(p) ==
  /\ pc[p] = "undo"
  /\ \E call \in {"failAndRefund", "cancelPayment"} : Write(p, call, "undoing")
  /\ Untouched

After(l) ==
  CASE l = "approving" -> "initiate" [] l = "initiating" -> "settle" [] l = "settling" -> "pay" [] OTHER -> "over"

(* confirm: a reverted receipt throws.                                     *)
Confirm(p) ==
  /\ receipt[p] # Nil
  /\ EscrowGo(p, IF receipt[p] = "success" THEN After(pc[p]) ELSE "threw")
  /\ receipt' = [receipt EXCEPT ![p] = Nil]
  /\ UNCHANGED <<ledger, seen, mempool, tries, refused, disturbed, setting>>

(* The wait ends without an answer; the write may be mined all the same,   *)
(* or never.                                                               *)
Lose(p) ==
  /\ "lost" \in setting.faults
  /\ \E t \in mempool :
       /\ t.of = p
       /\ pc[p] \in {"approving", "initiating", "settling", "paying", "undoing"}
       /\ mempool' = mempool \ {t} \/ UNCHANGED mempool
  /\ Throw(p)
  /\ UNCHANGED <<ledger, seen, receipt, tries, refused, disturbed, setting>>

Claiming(p) ==
  \/ pc[p] \in {"approve", "approving", "initiate", "initiating"}
  \/ [of |-> p, call |-> "initiatePayment"] \in mempool

(* The writes a payment may be waiting for.                                *)
Awaited(p) ==
  CASE pc[p] = "approving" -> {"approve"} [] pc[p] = "initiating" -> {"initiatePayment"}
    [] pc[p] = "settling" -> {"settlePayment"} [] pc[p] = "paying" -> {"transfer"}
    [] pc[p] = "undoing" -> {"failAndRefund", "cancelPayment"} [] OTHER -> {}

(* A write runs on the chain as it is now, or reverts.                     *)
Mine ==
  \E t \in mempool :
    LET message == Revert(ledger, t.of, t.call)
    IN  /\ mempool' = mempool \ {t}
        /\ ledger' = IF message = Nil THEN Run(ledger, t.of, t.call) ELSE ledger
        /\ receipt' = IF t.call \notin Awaited(t.of) THEN receipt
                      ELSE [receipt EXCEPT ![t.of] = IF message = Nil THEN "success" ELSE "reverted"]
        /\ refused' = IF message = "insufficient allowance" THEN refused \union {t.of} ELSE refused
        /\ disturbed' = IF t.call \in {"approve", "initiatePayment"} /\ message = Nil
                        THEN disturbed \union {p \in Payments : p # t.of /\ Claiming(p)} ELSE disturbed
        /\ UNCHANGED <<seen, pc, tries, setting>>

(* The replicas catch up.                                                  *)
CatchUp ==
  /\ setting.public
  /\ seen # ledger
  /\ seen' = ledger
  /\ UNCHANGED <<ledger, mempool, receipt, pc, tries, refused, disturbed, setting>>

EscrowStep(p) ==
  \/ ReadAllowance(p) \/ ApproveAmount(p) \/ Initiate(p) \/ Settle(p) \/ Pay(p)
  \/ ReadState(p) \/ Undo(p) \/ Confirm(p) \/ Lose(p)

EscrowNext == (\E p \in Payments : EscrowStep(p)) \/ Mine \/ CatchUp

EscrowSpec == EscrowInit /\ [][EscrowNext]_escrowVars

-----------------------------------------------------------------------------
(* Correctness.                                                            *)

Total(S) == SumFunctionOnSet(Amount, {p \in Payments : ledger.state[p] \in S})

(* The contract holds what it owes, no more and no less: whatever writes   *)
(* cross after lost answers, no payment is released and returned, or       *)
(* either twice, and nobody's tokens pay for another's payment.            *)
EscrowBacked ==
  /\ ledger.bal["escrow"] = Total({"INITIATED"})
  /\ ledger.bal["sender"] = setting.funds - Total({"INITIATED", "SETTLED"})
  /\ ledger.bal["treasury"] + ledger.bal["recipient"] = Float + Total({"SETTLED"})

(* Where none stood before, the contract's claim on the sender's wallet    *)
(* never exceeds one payment that was begun and is not escrowed, however   *)
(* approvals overwrite each other, get lost and land late.  That payment   *)
(* may be over: the approval of one that failed stands, see                *)
(* NoStandingClaim.                                                        *)
ClaimCapped ==
  setting.standing = 0 /\ ledger.allowance > 0 =>
    \E p \in Payments :
      pc[p] # "idle" /\ ledger.state[p] = "NONE" /\ ledger.allowance <= Amount[p]

(* What executePayment says of the allowance (lib/executor.ts:415): the    *)
(* escrow consumes it back to zero and holds no standing claim on the      *)
(* wallet between payments.  It does not when the initiate that follows    *)
(* the approval fails: nothing takes the approval back.                    *)
NoStandingClaim ==
  /\ setting.standing = 0 /\ mempool = {}
  /\ \A p \in setting.payments : pc[p] \in {"idle", "over"}
  => ledger.allowance = 0

(* A payment is refused for its allowance only when another payment of the *)
(* sender changed it in the meantime, or the allowance was read stale: a   *)
(* replica that lags behind its own approval is waited for.                *)
RefusedOnlyDisturbed == refused \subseteq disturbed
=============================================================================
