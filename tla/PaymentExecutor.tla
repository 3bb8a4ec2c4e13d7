--------------------------- MODULE PaymentExecutor ---------------------------
(***************************************************************************)
(* One payment, from APPROVED to its last status, under every request that *)
(* can touch it: execute, repair, reconcile and cancel (lib/executor.ts,   *)
(* lib/transitions.ts, the cancel route), with the escrow contract and the *)
(* two chains it moves money on.                                           *)
(*                                                                         *)
(* A request is one HTTP request.  Its identity also stands for its lease  *)
(* uuid and for the hash of the one token transfer it may broadcast.  Each *)
(* action runs from one await of the code to the next.                     *)
(***************************************************************************)
EXTENDS PaymentState

CONSTANTS
  Requests,    \* requests that may arrive for this payment
  None,        \* a null column: no lease, no hash
  Faults,      \* the faults the environment may inject
  Overlapping  \* the kinds of request that may arrive while another one runs

(* "db": a database call throws, before or after its commit; "broadcast":  *)
(* the node accepts a transaction and its answer is lost; "crash": the     *)
(* server process dies.  Reverts, receipts that never come and unreadable  *)
(* chains are always possible.                                             *)
ASSUME RequestsAssumption == None \notin Requests
ASSUME FaultsAssumption == Faults \subseteq {"db", "broadcast", "crash"}
Kinds == {"execute", "repair", "reconcile", "cancel"}
ASSUME OverlapAssumption == Overlapping \subseteq Kinds

VARIABLES
  row,          \* the Payment row: status, executionLeaseId, the two hashes
  reservation,  \* the LiquidityReservation row, or "absent"
  credit,       \* does the recipient's LedgerCredit row exist?
  escrow,       \* state of the payment in PaymentSettlement
  escrowTx,     \* the operator's three contract calls
  payoutTx,     \* destination transfer broadcast by each request
  compTx,       \* compensation transfer broadcast by each request
  pc,           \* where each request stands
  mem,          \* the row as each request last saw it
  bridged       \* does the selected route cross networks?

vars == <<row, reservation, credit, escrow, escrowTx, payoutTx, compTx, pc, mem, bridged>>
chain == <<escrow, escrowTx, payoutTx, compTx>>

EscrowStates == {"NONE", "INITIATED", "SETTLED", "REFUNDED"}
EscrowCalls == {"initiatePayment", "settlePayment", "failAndRefund"}
TxStates == {"none", "pending", "success", "reverted"}
Hashes == Requests \union {None}

(* The places a request can be; Leased are those inside withExecutionLease,*)
(* from the claim that won to the finally that frees it.                   *)
Forward ==
  {"liquidity", "recallFailed", "reserve", "markReserved", "initiate", "awaitInitiate",
   "markConfirmed", "settle", "awaitSettle", "markPayoutPending", "payout",
   "persistPayout", "awaitPayout", "credit", "consume", "markSettled"}
Undo ==
  {"catch", "resolvePayout", "unwind", "readEscrow", "compensate", "refund",
   "awaitRefund", "markRefunded", "fail", "fwdCredit", "fwdConsume", "fwdSettle"}
Compensation ==
  {"priorComp", "sendComp", "persistComp", "awaitComp", "catchComp", "confirmComp"}
Leased ==
  Forward \union Undo \union Compensation
    \union {"repair", "reconcile", "awaitCompensation", "release"}
Running == Leased \union {"claimExecute", "claimRepair", "claimReconcile", "cancel"}
Labels == Running \union {"idle", "done", "dead"}

View(x) == [status |-> x.status, destHash |-> x.destHash, compHash |-> x.compHash]

Rows == [status : PAYMENT_STATES, lease : Hashes, destHash : Hashes, compHash : Hashes]
Views == [status : PAYMENT_STATES, destHash : Hashes, compHash : Hashes]

TypeOK ==
  /\ row \in Rows
  /\ reservation \in {"absent", "RESERVED", "CONSUMED", "RELEASED"}
  /\ credit \in BOOLEAN
  /\ escrow \in EscrowStates
  /\ escrowTx \in [EscrowCalls -> TxStates]
  /\ payoutTx \in [Requests -> TxStates]
  /\ compTx \in [Requests -> TxStates]
  /\ pc \in [Requests -> Labels]
  /\ mem \in [Requests -> Views]
  /\ bridged \in BOOLEAN

Init ==
  /\ row = [status |-> "APPROVED", lease |-> None, destHash |-> None, compHash |-> None]
  /\ reservation = "absent"
  /\ credit = FALSE
  /\ escrow = "NONE"
  /\ escrowTx = [c \in EscrowCalls |-> "none"]
  /\ payoutTx = [r \in Requests |-> "none"]
  /\ compTx = [r \in Requests |-> "none"]
  /\ pc = [r \in Requests |-> "idle"]
  /\ mem = [r \in Requests |-> View(row)]
  /\ bridged \in BOOLEAN

-----------------------------------------------------------------------------
(* What the steps are made of.                                             *)

At(r, l) == pc[r] = l
Go(r, l) == pc' = [pc EXCEPT ![r] = l]
See(r, x) == mem' = [mem EXCEPT ![r] = View(x)]

DbFault == "db" \in Faults
LostAnswer == "broadcast" \in Faults

(* Slip: every move ends the attempt.                                      *)
MovedAlwaysFrees(base, to) == [base EXCEPT !.status = to, !.lease = None]

(* transitionStatus: the compare-and-swap on the status this request last  *)
(* saw, freeing the lease where the target ends the attempt.  base carries *)
(* the columns written in the same statement.  A refusal (illegal move or  *)
(* lost race) and a database fault both throw; a fault may come after the  *)
(* commit, and then only the row knows.                                    *)
Moved(base, to) ==
  [base EXCEPT !.status = to, !.lease = IF to \in LEASE_RELEASE_STATES THEN None ELSE @]

Transition(r, to, base, ok, err) ==
  LET legal == row.status = mem[r].status /\ CanTransition(mem[r].status, to)
  IN  \/ /\ legal
         /\ row' = Moved(base, to)
         /\ \/ See(r, Moved(base, to)) /\ Go(r, ok)
            \/ DbFault /\ UNCHANGED mem /\ Go(r, err)
      \/ /\ ~legal \/ DbFault
         /\ UNCHANGED <<row, mem>>
         /\ Go(r, err)

(* payment.update by id: no status in its WHERE; the caller keeps the row  *)
(* it returns.                                                             *)
Update(r, new, ok, err) ==
  \/ /\ row' = new
     /\ (See(r, new) /\ Go(r, ok)) \/ (DbFault /\ UNCHANGED mem /\ Go(r, err))
  \/ DbFault /\ UNCHANGED <<row, mem>> /\ Go(r, err)

(* A write whose effect the caller states: it lands and control goes to ok,*)
(* or the database throws after or before it landed.                       *)
Write(r, effect, skip, ok, err) ==
  \/ effect /\ (Go(r, ok) \/ (DbFault /\ Go(r, err)))
  \/ DbFault /\ skip /\ Go(r, err)

(* Slip: a transaction that has not mined yet counts as one that failed.   *)
OutcomesPendingFailed(tx) ==
  CASE tx = "success" -> {"unknown", "confirmed"}
    [] OTHER -> {"unknown", "reverted"}

(* transactionOutcome: a receipt tells, a missing one is "unknown" and so  *)
(* is an unreachable node; a transaction still pending is never "absent".  *)
Outcomes(tx) ==
  {"unknown"} \union
    CASE tx = "success" -> {"confirmed"}
      [] tx = "reverted" -> {"reverted"}
      [] OTHER -> {}

(* Reading the escrow may fail: null.                                      *)
EscrowReads == {escrow, "null"}

Idle == \A r \in Requests : pc[r] \notin Running

-----------------------------------------------------------------------------
(* Arrivals: each handler reads the row, checks its status, and goes on to *)
(* claim the lease with what it read.  A refused request changes nothing.  *)

Arrive(r, kind, l) ==
  /\ At(r, "idle")
  /\ kind \in Overlapping \/ Idle
  /\ See(r, row)
  /\ Go(r, l)
  /\ UNCHANGED <<row, reservation, credit, chain, bridged>>

ExecuteStart(r) == row.status = "APPROVED" /\ Arrive(r, "execute", "claimExecute")

RepairStart(r) == row.status = "COMPENSATION_PENDING" /\ Arrive(r, "repair", "claimRepair")

ReconcileStart(r) ==
  /\ \/ row.status = "PAYOUT_PENDING" /\ row.destHash # None
     \/ row.status = "COMPENSATION_PENDING" /\ row.compHash # None
  /\ Arrive(r, "reconcile", "claimReconcile")

CancelStart(r) == row.status \in CANCELLABLE_STATES /\ Arrive(r, "cancel", "cancel")

(* Slip: the claim compares the status and not the lease.                  *)
ClaimLeaseOnStatusOnly(r, l, ok) ==
  /\ At(r, l)
  /\ \/ row.status = mem[r].status /\ row' = [row EXCEPT !.lease = r] /\ Go(r, ok)
     \/ row.status # mem[r].status /\ UNCHANGED row /\ Go(r, "done")
  /\ UNCHANGED <<reservation, credit, chain, mem, bridged>>

(* withExecutionLease: the claim is a compare-and-swap on the status read  *)
(* before it and on a free lease.  Nothing else of the row is re-read.  A  *)
(* fault after the commit leaves the lease taken and nobody to free it.    *)
ClaimLease(r, l, ok) ==
  LET free == row.status = mem[r].status /\ row.lease = None
  IN  /\ At(r, l)
      /\ \/ /\ free
            /\ row' = [row EXCEPT !.lease = r]
            /\ Go(r, ok) \/ (DbFault /\ Go(r, "done"))
         \/ /\ ~free \/ DbFault
            /\ UNCHANGED row
            /\ Go(r, "done")
      /\ UNCHANGED <<reservation, credit, chain, mem, bridged>>

(* Slip: the finally is forgotten.                                         *)
ReleaseLeaseForgotten(r) ==
  /\ At(r, "release")
  /\ Go(r, "done")
  /\ UNCHANGED <<row, reservation, credit, chain, mem, bridged>>

ReleaseLease(r) ==
  /\ At(r, "release")
  /\ \/ row' = [row EXCEPT !.lease = IF @ = r THEN None ELSE @]
     \/ DbFault /\ UNCHANGED row
  /\ Go(r, "done")
  /\ UNCHANGED <<reservation, credit, chain, mem, bridged>>

CancelPayment(r) ==
  /\ At(r, "cancel")
  /\ Transition(r, "CANCELLED", row, "done", "done")
  /\ UNCHANGED <<reservation, credit, chain, bridged>>

-----------------------------------------------------------------------------
(* runExecution: liquidity, escrow, release, payout, settle.               *)

(* A step that is one transitionStatus.                                    *)
Step(r, l, to, base, ok, err) ==
  /\ At(r, l)
  /\ Transition(r, to, base, ok, err)
  /\ UNCHANGED <<reservation, credit, chain, bridged>>

(* Free liquidity covers the amount (after a recall, if need be); or it is *)
(* short; or the recall failed; or a read threw before anything was held.  *)
CheckLiquidity(r) ==
  /\ At(r, "liquidity")
  /\ \/ Go(r, "reserve") /\ UNCHANGED <<row, mem, reservation>>
     \/ Go(r, "release") /\ UNCHANGED <<row, mem, reservation>>
     \/ Transition(r, "FAILED", row, "release", "release") /\ UNCHANGED reservation
     \/ /\ \/ reservation' = IF reservation = "absent" THEN "absent" ELSE "RELEASED"
           \/ DbFault /\ UNCHANGED reservation
        /\ Go(r, "recallFailed")
        /\ UNCHANGED <<row, mem>>
  /\ UNCHANGED <<credit, chain, bridged>>

FailRecall(r) == Step(r, "recallFailed", "FAILED", row, "release", "release")

(* Lease and reservation in one transaction.                               *)
Reserve(r) ==
  /\ At(r, "reserve")
  /\ \/ /\ row.status = "APPROVED" /\ row.lease = r
        /\ Write(r, reservation' = "RESERVED", UNCHANGED reservation, "markReserved", "release")
     \/ /\ row.status # "APPROVED" \/ row.lease # r
        /\ UNCHANGED reservation
        /\ Go(r, "release")
  /\ UNCHANGED <<row, credit, chain, mem, bridged>>

MarkReserved(r) ==
  Step(r, "markReserved", "LIQUIDITY_RESERVED", row, "initiate", "release")

(* operatorWrite up to the hash: refused, accepted, or accepted with the   *)
(* answer lost.                                                            *)
Call(r, l, c, ok, err) ==
  /\ At(r, l)
  /\ \/ /\ escrowTx' = [escrowTx EXCEPT ![c] = "pending"]
        /\ Go(r, ok) \/ (LostAnswer /\ Go(r, err))
     \/ UNCHANGED escrowTx /\ Go(r, err)
  /\ UNCHANGED <<row, reservation, credit, escrow, payoutTx, compTx, mem, bridged>>

(* operatorWrite's receipt, then the status it licenses; the wait may also *)
(* end in a revert, a timeout or an unreachable node, whatever the chain   *)
(* did.                                                                    *)
OnReceipt(r, l, mined, to, base, ok, err) ==
  /\ At(r, l)
  /\ \/ mined /\ Transition(r, to, base, ok, err)
     \/ UNCHANGED <<row, mem>> /\ Go(r, err)
  /\ UNCHANGED <<reservation, credit, chain, bridged>>

Initiate(r) == Call(r, "initiate", "initiatePayment", "awaitInitiate", "catch")

MarkSubmitted(r) ==
  OnReceipt(r, "awaitInitiate", escrowTx["initiatePayment"] = "success",
            "SUBMITTED_ONCHAIN", row, "markConfirmed", "catch")

MarkConfirmed(r) == Step(r, "markConfirmed", "CONFIRMED_ONCHAIN", row, "settle", "catch")

Settle(r) == Call(r, "settle", "settlePayment", "awaitSettle", "catch")

MarkConverted(r) ==
  OnReceipt(r, "awaitSettle", escrowTx["settlePayment"] = "success",
            "FX_OR_SWAP_COMPLETED", row, "markPayoutPending", "catch")

MarkPayoutPending(r) ==
  Step(r, "markPayoutPending", "PAYOUT_PENDING", row,
       IF bridged THEN "payout" ELSE "credit", "catch")

(* Slip: the hash is not remembered before the row is written.             *)
PayoutForgotten(r) ==
  /\ At(r, "payout")
  /\ \/ payoutTx' = [payoutTx EXCEPT ![r] = "pending"] /\ Go(r, "persistPayout")
     \/ UNCHANGED payoutTx /\ Go(r, "catch")
  /\ UNCHANGED <<row, reservation, credit, escrow, escrowTx, compTx, mem, bridged>>

(* treasuryTokenTransfer on the destination network; the hash is kept in   *)
(* memory before the row is written.                                       *)
Payout(r) ==
  /\ At(r, "payout")
  /\ \/ /\ payoutTx' = [payoutTx EXCEPT ![r] = "pending"]
        /\ \/ mem' = [mem EXCEPT ![r].destHash = r] /\ Go(r, "persistPayout")
           \/ LostAnswer /\ UNCHANGED mem /\ Go(r, "catch")
     \/ UNCHANGED <<payoutTx, mem>> /\ Go(r, "catch")
  /\ UNCHANGED <<row, reservation, credit, escrow, escrowTx, compTx, bridged>>

(* Slip: the payout's hash stays in memory.                                *)
PersistPayoutInMemory(r) ==
  /\ At(r, "persistPayout")
  /\ Go(r, "awaitPayout")
  /\ UNCHANGED <<row, reservation, credit, chain, mem, bridged>>

PersistPayout(r) ==
  /\ At(r, "persistPayout")
  /\ Update(r, [row EXCEPT !.destHash = r], "awaitPayout", "catch")
  /\ UNCHANGED <<reservation, credit, chain, bridged>>

(* Slip: the broadcast is taken for the payout.                            *)
AwaitPayoutUnconfirmed(r) ==
  /\ At(r, "awaitPayout")
  /\ Go(r, "credit")
  /\ UNCHANGED <<row, reservation, credit, chain, mem, bridged>>

AwaitPayout(r) ==
  /\ At(r, "awaitPayout")
  /\ (payoutTx[r] = "success" /\ Go(r, "credit")) \/ Go(r, "catch")
  /\ UNCHANGED <<row, reservation, credit, chain, mem, bridged>>

(* One credit per payment: a second insert throws.                         *)
Credit(r) ==
  /\ At(r, "credit")
  /\ \/ ~credit /\ Write(r, credit' = TRUE, UNCHANGED credit, "consume", "catch")
     \/ credit /\ UNCHANGED credit /\ Go(r, "catch")
  /\ UNCHANGED <<row, reservation, chain, mem, bridged>>

Consume(r) ==
  /\ At(r, "consume")
  /\ Write(r, reservation' = "CONSUMED", UNCHANGED reservation, "markSettled", "catch")
  /\ UNCHANGED <<row, credit, chain, mem, bridged>>

MarkSettled(r) == Step(r, "markSettled", "SETTLED", row, "release", "catch")

-----------------------------------------------------------------------------
(* The catch of runExecution: complete forward if the recipient was paid,  *)
(* wait if that cannot be known, else undo what the escrow says happened.  *)

(* A step that only decides where to go.                                   *)
Decide(r, l, exits) ==
  /\ At(r, l)
  /\ \E x \in exits : Go(r, x)
  /\ UNCHANGED <<row, reservation, credit, chain, mem, bridged>>

Thrown == IF DbFault THEN {"release"} ELSE {}

Catch(r) ==
  Decide(r, "catch",
         Thrown \union
           {IF credit THEN "fwdCredit"
            ELSE IF mem[r].destHash # None THEN "resolvePayout" ELSE "unwind"})

(* The caller of reconcileDestinationPayout returns on "confirmed" and on  *)
(* "unknown", and undoes the source side otherwise.                        *)
AfterPayoutOutcome(o, reverted) ==
  CASE o = "confirmed" -> "fwdCredit" [] o = "unknown" -> "release" [] OTHER -> reverted

ResolvePayout(r) ==
  /\ mem[r].destHash # None
  /\ Decide(r, "resolvePayout",
            {AfterPayoutOutcome(o, "unwind") : o \in Outcomes(payoutTx[mem[r].destHash])})

(* Slip: the catch undoes the escrow and keeps the reservation.            *)
ReleaseReservationForgotten(r) ==
  /\ At(r, "unwind")
  /\ Go(r, "readEscrow")
  /\ UNCHANGED <<row, reservation, credit, chain, mem, bridged>>

ReleaseReservation(r) ==
  /\ At(r, "unwind")
  /\ reservation' = "RELEASED" \/ (DbFault /\ UNCHANGED reservation)
  /\ Go(r, "readEscrow")
  /\ UNCHANGED <<row, credit, chain, mem, bridged>>

(* Slip: an escrow that cannot be read counts as released.                 *)
UndoForUnreadIsSettled(e, s) ==
  CASE e \in {"SETTLED", "null"} -> "compensate"
    [] e = "INITIATED" -> "refund"
    [] OTHER -> "fail"

(* settledOnChain, escrowHeld: the escrow decides; when it cannot be read  *)
(* the status does.                                                        *)
UndoFor(e, s) ==
  CASE e = "SETTLED" \/ (e = "null" /\ s \in {"FX_OR_SWAP_COMPLETED", "PAYOUT_PENDING"}) -> "compensate"
    [] e = "INITIATED" \/ (e = "null" /\ s \in {"SUBMITTED_ONCHAIN", "CONFIRMED_ONCHAIN"}) -> "refund"
    [] OTHER -> "fail"

ReadEscrow(r) ==
  Decide(r, "readEscrow", {UndoFor(e, mem[r].status) : e \in EscrowReads})

CompensateSender(r) ==
  Step(r, "compensate", "COMPENSATION_PENDING", row, "priorComp", "release")

Refund(r) == Call(r, "refund", "failAndRefund", "awaitRefund", "fail")

MarkFailed(r) ==
  OnReceipt(r, "awaitRefund", escrowTx["failAndRefund"] = "success",
            "FAILED", row, "markRefunded", "fail")

MarkRefunded(r) == Step(r, "markRefunded", "REFUNDED", row, "release", "fail")

(* Slip: the error is rethrown before FAILED is written.                   *)
FailRethrown(r) == Decide(r, "fail", {"release"})

Fail(r) ==
  IF mem[r].status = "FAILED"
  THEN Decide(r, "fail", {"release"})
  ELSE Step(r, "fail", "FAILED", row, "release", "release")

(* completeSettledPayout: credit if missing, consume, settle with the hash *)
(* memory holds.  A throw leaves the payment where it is.                  *)
ForwardCredit(r) ==
  /\ At(r, "fwdCredit")
  /\ Write(r, credit' = TRUE, UNCHANGED credit, "fwdConsume", "release")
  /\ UNCHANGED <<row, reservation, chain, mem, bridged>>

ForwardConsume(r) ==
  /\ At(r, "fwdConsume")
  /\ reservation' = "CONSUMED" \/ (DbFault /\ UNCHANGED reservation)
  /\ \E x \in Thrown \union {"fwdSettle"} : Go(r, x)
  /\ UNCHANGED <<row, credit, chain, mem, bridged>>

ForwardSettle(r) ==
  Step(r, "fwdSettle", "SETTLED",
       IF mem[r].destHash # None THEN [row EXCEPT !.destHash = mem[r].destHash] ELSE row,
       "release", "release")

-----------------------------------------------------------------------------
(* runCompensationTransfer: reconcile the earlier attempt, send, keep the  *)
(* hash, wait, and reconcile again if anything threw.                      *)

(* Slip: only a confirmed attempt stops the next one.                      *)
PriorCompensationUnlessConfirmed(r) ==
  Decide(r, "priorComp",
         IF mem[r].compHash = None THEN {"sendComp"}
         ELSE {IF o = "confirmed" THEN "confirmComp" ELSE "sendComp" :
                 o \in Outcomes(compTx[mem[r].compHash])})

PriorCompensation(r) ==
  Decide(r, "priorComp",
         IF mem[r].compHash = None THEN {"sendComp"}
         ELSE {CASE o = "confirmed" -> "confirmComp" [] o = "unknown" -> "release"
                 [] OTHER -> "sendComp" : o \in Outcomes(compTx[mem[r].compHash])})

SendCompensation(r) ==
  /\ At(r, "sendComp")
  /\ \/ /\ compTx' = [compTx EXCEPT ![r] = "pending"]
        /\ \/ mem' = [mem EXCEPT ![r].compHash = r] /\ Go(r, "persistComp")
           \/ LostAnswer /\ UNCHANGED mem /\ Go(r, "catchComp")
     \/ UNCHANGED <<compTx, mem>> /\ Go(r, "catchComp")
  /\ UNCHANGED <<row, reservation, credit, escrow, escrowTx, payoutTx, bridged>>

PersistCompensation(r) ==
  /\ At(r, "persistComp")
  /\ Update(r, [row EXCEPT !.compHash = r], "awaitComp", "catchComp")
  /\ UNCHANGED <<reservation, credit, chain, bridged>>

MarkCompensated(r) ==
  OnReceipt(r, "awaitComp", compTx[r] = "success",
            "COMPENSATED", [row EXCEPT !.compHash = r], "release", "catchComp")

(* A hash this request knows of is written if the row has none, then asked *)
(* for; without one there is nothing to reconcile.                         *)
CatchCompensation(r) ==
  LET h == mem[r].compHash
  IN  /\ At(r, "catchComp")
      /\ \/ /\ h = None \/ DbFault
            /\ UNCHANGED row
            /\ Go(r, "release")
         \/ /\ h # None
            /\ \/ row' = IF row.compHash = None THEN [row EXCEPT !.compHash = h] ELSE row
               \/ DbFault /\ UNCHANGED row
            /\ \E o \in Outcomes(compTx[h]) :
                 Go(r, IF o = "confirmed" THEN "confirmComp" ELSE "release")
      /\ UNCHANGED <<reservation, credit, chain, mem, bridged>>

ConfirmCompensation(r) ==
  Step(r, "confirmComp", "COMPENSATED", [row EXCEPT !.compHash = mem[r].compHash],
       "release", "release")

-----------------------------------------------------------------------------
(* repairCompensation and reconcileUnresolvedPayment under their lease:    *)
(* both go on with the row read before the claim.                          *)

DestinationMayHavePaid(o) == o \in {"confirmed", "unknown"}

Repair(r) ==
  LET h == mem[r].destHash
      onEscrow == {IF e = "SETTLED" THEN "priorComp" ELSE "release" : e \in EscrowReads}
  IN  Decide(r, "repair",
             IF h = None THEN onEscrow
             ELSE UNION {IF DestinationMayHavePaid(o) THEN {"release"} ELSE onEscrow :
                           o \in Outcomes(payoutTx[h])})

Reconcile(r) ==
  /\ At(r, "reconcile")
  /\ \/ /\ mem[r].status = "PAYOUT_PENDING"
        /\ \E o \in Outcomes(payoutTx[mem[r].destHash]) :
             /\ Go(r, AfterPayoutOutcome(o, "awaitCompensation"))
             /\ \/ o = "reverted" /\ reservation' = "RELEASED"
                \/ o # "reverted" /\ UNCHANGED reservation
                \/ DbFault /\ UNCHANGED reservation
     \/ /\ mem[r].status = "COMPENSATION_PENDING"
        /\ \E o \in Outcomes(compTx[mem[r].compHash]) :
             Go(r, IF o = "confirmed" THEN "confirmComp" ELSE "release")
        /\ UNCHANGED reservation
  /\ UNCHANGED <<row, credit, chain, mem, bridged>>

AwaitCompensation(r) ==
  Step(r, "awaitCompensation", "COMPENSATION_PENDING", row, "release", "release")

(* The process dies: every running request stops where it stands.  Nothing *)
(* in the code looks at a lease again because it is old.                   *)
Crash ==
  /\ "crash" \in Faults
  /\ ~Idle
  /\ pc' = [r \in Requests |-> IF pc[r] \in Running THEN "dead" ELSE pc[r]]
  /\ UNCHANGED <<row, reservation, credit, chain, mem, bridged>>

-----------------------------------------------------------------------------
(* The chains.  A pending transaction mines, or reverts, in its own time;  *)
(* the order of the operator's nonces is not assumed.                      *)

InitiatePayment == escrow = "NONE" /\ escrow' = "INITIATED"
SettlePayment == escrow = "INITIATED" /\ escrow' = "SETTLED"
(* Slip: the catch calls cancelPayment, whose state no reader expects.     *)
FailAndRefundAsCancel == escrow = "INITIATED" /\ escrow' = "CANCELLED"

FailAndRefund == escrow = "INITIATED" /\ escrow' = "REFUNDED"

MineCall(c, effect) ==
  /\ escrowTx[c] = "pending"
  /\ \/ effect /\ escrowTx' = [escrowTx EXCEPT ![c] = "success"]
     \/ UNCHANGED escrow /\ escrowTx' = [escrowTx EXCEPT ![c] = "reverted"]
  /\ UNCHANGED <<row, reservation, credit, payoutTx, compTx, pc, mem, bridged>>

MineInitiate == MineCall("initiatePayment", InitiatePayment)
MineSettle == MineCall("settlePayment", SettlePayment)
MineRefund == MineCall("failAndRefund", FailAndRefund)

MinePayout(r) ==
  /\ payoutTx[r] = "pending"
  /\ \E s \in {"success", "reverted"} : payoutTx' = [payoutTx EXCEPT ![r] = s]
  /\ UNCHANGED <<row, reservation, credit, escrow, escrowTx, compTx, pc, mem, bridged>>

MineCompensation(r) ==
  /\ compTx[r] = "pending"
  /\ \E s \in {"success", "reverted"} : compTx' = [compTx EXCEPT ![r] = s]
  /\ UNCHANGED <<row, reservation, credit, escrow, escrowTx, payoutTx, pc, mem, bridged>>

-----------------------------------------------------------------------------
ArriveAny(r) == ExecuteStart(r) \/ RepairStart(r) \/ ReconcileStart(r) \/ CancelStart(r)

Claim(r) ==
  \/ ClaimLease(r, "claimExecute", "liquidity")
  \/ ClaimLease(r, "claimRepair", "repair")
  \/ ClaimLease(r, "claimReconcile", "reconcile")

ForwardStep(r) ==
  \/ CheckLiquidity(r) \/ FailRecall(r) \/ Reserve(r) \/ MarkReserved(r)
  \/ Initiate(r) \/ MarkSubmitted(r) \/ MarkConfirmed(r)
  \/ Settle(r) \/ MarkConverted(r) \/ MarkPayoutPending(r)
  \/ Payout(r) \/ PersistPayout(r) \/ AwaitPayout(r)
  \/ Credit(r) \/ Consume(r) \/ MarkSettled(r)

UndoStep(r) ==
  \/ Catch(r) \/ ResolvePayout(r) \/ ReleaseReservation(r) \/ ReadEscrow(r)
  \/ CompensateSender(r) \/ Refund(r) \/ MarkFailed(r) \/ MarkRefunded(r) \/ Fail(r)
  \/ ForwardCredit(r) \/ ForwardConsume(r) \/ ForwardSettle(r)

CompensationStep(r) ==
  \/ PriorCompensation(r) \/ SendCompensation(r) \/ PersistCompensation(r)
  \/ MarkCompensated(r) \/ CatchCompensation(r) \/ ConfirmCompensation(r)

OperatorStep(r) == Repair(r) \/ Reconcile(r) \/ AwaitCompensation(r)

(* What a request does once it has arrived.                                *)
Advance(r) ==
  \/ Claim(r) \/ ForwardStep(r) \/ UndoStep(r) \/ CompensationStep(r)
  \/ OperatorStep(r) \/ CancelPayment(r) \/ ReleaseLease(r)

Mine ==
  \/ MineInitiate \/ MineSettle \/ MineRefund
  \/ \E r \in Requests : MinePayout(r) \/ MineCompensation(r)

(* With no request running the next one may never come, and a pending      *)
(* transaction may never mine.                                             *)
Rest == Idle /\ UNCHANGED vars

Next ==
  \/ \E r \in Requests : ArriveAny(r) \/ Advance(r)
  \/ Mine
  \/ Crash
  \/ Rest

Spec == Init /\ [][Next]_vars

(* A running request is never blocked: every await ends, in an answer or a *)
(* throw, and the server schedules its continuation.  Nothing is assumed   *)
(* of arrivals, of the chains or of faults.                                *)
Fairness == \A r \in Requests : WF_vars(Advance(r))

FairSpec == Spec /\ Fairness

-----------------------------------------------------------------------------
(* Safety.                                                                 *)

(* The execution lease: at most one request is ever inside it.  The claim  *)
(* is one compare-and-swap; what could break this is the lease freed under *)
(* a running request (a cancel, a status that ends the attempt) or by a    *)
(* request that no longer owns it (lib/executor.ts:259-281).               *)
SingleAttempt ==
  \A r, q \in Requests : pc[r] \in Leased /\ pc[q] \in Leased => r = q

(* Why that holds: a request inside the lease owns it, or the payment is   *)
(* in a status that freed it; and no claim starts from such a status.      *)
LeaseFence ==
  \A r \in Requests : pc[r] \in Leased => row.lease = r \/ row.status \in LEASE_RELEASE_STATES

ClaimsFromOpen ==
  \A r \in Requests :
    pc[r] \in {"claimExecute", "claimRepair", "claimReconcile"} =>
      mem[r].status \notin LEASE_RELEASE_STATES

LeaseInv == SingleAttempt /\ LeaseFence /\ ClaimsFromOpen

Delivered == credit \/ \E r \in Requests : payoutTx[r] = "success"
Returned == escrow = "REFUNDED" \/ \E r \in Requests : compTx[r] = "success"

(* The recipient is never paid while the sender is made whole as well, by  *)
(* any mix of attempts, repairs, crashes and database faults: the catch    *)
(* and the repair must see the payout's hash, or know that none was        *)
(* broadcast, before the treasury pays back (lib/executor.ts:566-616,      *)
(* 1028-1060).                                                             *)
NeverPaidBothWays == ~(Delivered /\ Returned)

(* The treasury pays the sender back once: a compensation goes out only    *)
(* when the chain said that the one before it failed                       *)
(* (lib/executor.ts:799-831).                                              *)
CompensatedAtMostOnce ==
  \A r, q \in Requests : compTx[r] = "success" /\ compTx[q] = "success" => r = q

(* A terminal status is true of the money: SETTLED only with the escrow    *)
(* released, the bridge transfer mined and the recipient credited; the     *)
(* other ends only with the amount back, or never taken.                   *)
TerminalMatchesMoney ==
  /\ row.status = "SETTLED" =>
       /\ credit
       /\ escrow = "SETTLED"
       /\ bridged => \E r \in Requests : row.destHash = r /\ payoutTx[r] = "success"
  /\ row.status = "COMPENSATED" => \E r \in Requests : row.compHash = r /\ compTx[r] = "success"
  /\ row.status = "REFUNDED" => escrow = "REFUNDED"
  /\ row.status = "CANCELLED" => escrow = "NONE" /\ escrowTx["initiatePayment"] = "none"

(* Slip: a FAILED payment is listed while its liquidity is reserved.       *)
InStuckViewIfReserved ==
  \/ row.status \in {"COMPENSATION_PENDING", "PAYOUT_PENDING"}
  \/ row.status = "FAILED" /\ reservation = "RESERVED" /\ escrow \in {"INITIATED", "SETTLED"}

(* The operator view, as stuckPayments filters it; a chain that cannot be  *)
(* read only adds rows.                                                    *)
InStuckView ==
  \/ row.status \in {"COMPENSATION_PENDING", "PAYOUT_PENDING"}
  \/ row.status = "FAILED" /\ reservation # "absent" /\ escrow \in {"INITIATED", "SETTLED"}

FundsHeld == escrow = "INITIATED" \/ (escrow = "SETTLED" /\ ~Delivered /\ ~Returned)

(* With no request left running, an amount that is neither with the sender *)
(* nor with the recipient is on the operator's list, whenever the chain    *)
(* got round to mining what was sent (lib/executor.ts:940-1001).           *)
StuckViewComplete == Idle /\ FundsHeld => InStuckView

(* The list leads somewhere: a payment resting where only an operator can  *)
(* move it is unleased and offers a hash to reconcile or a repair to run.  *)
NoDeadEnd ==
  Idle /\ row.status \in {"PAYOUT_PENDING", "COMPENSATION_PENDING"} =>
    /\ row.lease = None
    /\ row.status = "PAYOUT_PENDING" => row.destHash # None

(* A reservation does not outlive the payment it was made for: liquidity   *)
(* held by a payment that is over is withheld from every other one         *)
(* (lib/executor.ts:378-382).                                              *)
ReservationReturned ==
  Idle => CASE row.status = "SETTLED" -> reservation = "CONSUMED"
            [] row.status \in {"FAILED", "REFUNDED", "CANCELLED", "COMPENSATION_PENDING", "COMPENSATED"} ->
                 reservation # "RESERVED"
            [] OTHER -> TRUE

(* A lease names a request that is running: nobody waits for a holder that *)
(* is gone (prisma/schema.prisma:88).                                      *)
LeaseHolderRuns == row.lease # None => pc[row.lease] \in Running

-----------------------------------------------------------------------------
(* Why NeverPaidBothWays holds when no broadcast loses its answer: what    *)
(* the row and the chains say of the payout, and what a request knows of   *)
(* it at each place.                                                       *)

CompensationStates == {"COMPENSATION_PENDING", "COMPENSATED"}
BeforePayout ==
  {"liquidity", "recallFailed", "reserve", "markReserved", "initiate", "awaitInitiate",
   "markConfirmed", "settle", "awaitSettle", "markPayoutPending", "payout"}
PayoutLeg == {"payout", "persistPayout", "awaitPayout", "credit", "consume", "markSettled"}

Sent(tx) == {q \in Requests : tx[q] # "none"}
NotDelivered == ~credit /\ \A q \in Requests : payoutTx[q] \in {"none", "reverted"}

(* One payout at most, after the escrow paid the treasury; a compensation  *)
(* only in a status that says the recipient got nothing.                   *)
MoneyKnown ==
  /\ row.status \in CompensationStates => NotDelivered
  /\ Sent(compTx) # {} => row.status \in CompensationStates
  /\ row.status = "APPROVED" => Sent(payoutTx) = {}
  /\ escrowTx["settlePayment"] = "success" => escrow = "SETTLED"
  /\ credit \/ Sent(payoutTx) # {} => escrow = "SETTLED"
  /\ \A p, q \in Sent(payoutTx) : p = q
  /\ Sent(payoutTx) # {} => bridged
  /\ credit /\ bridged => \E q \in Requests : payoutTx[q] = "success"
  /\ row.destHash # None => row.destHash \in Sent(payoutTx)

(* What a request has seen, before it holds the lease.                     *)
Seen(r) ==
  /\ mem[r].destHash # None => mem[r].destHash \in Sent(payoutTx)
  /\ At(r, "claimExecute") => mem[r].status = "APPROVED"
  /\ At(r, "claimRepair") => mem[r].status = "COMPENSATION_PENDING"
  /\ pc[r] \in {"claimReconcile", "reconcile"} /\ mem[r].status = "PAYOUT_PENDING" =>
       mem[r].destHash # None
  /\ At(r, "cancel") => mem[r].status \in CANCELLABLE_STATES

(* What it knows inside the lease.  On the way down it knows the hash of   *)
(* every payout sent; once it unwinds, that none arrived or will.          *)
Knows(r) ==
  /\ pc[r] \in BeforePayout => Sent(payoutTx) = {}
  /\ pc[r] \in Forward \union {"catch", "resolvePayout"} => Sent(payoutTx) \subseteq {mem[r].destHash}
  /\ pc[r] \in PayoutLeg => row.status = "PAYOUT_PENDING"
  /\ pc[r] \in PayoutLeg \union {"markPayoutPending"} => escrow = "SETTLED"
  /\ pc[r] \in {"payout", "persistPayout", "awaitPayout"} => bridged
  /\ pc[r] \in {"persistPayout", "awaitPayout"} => r \in Sent(payoutTx)
  /\ At(r, "credit") /\ bridged => payoutTx[r] = "success"
  /\ pc[r] \in {"fwdCredit", "fwdConsume", "fwdSettle"} => Delivered
  /\ pc[r] \in {"unwind", "readEscrow", "compensate", "awaitCompensation"} => NotDelivered
  /\ pc[r] \in {"repair", "priorComp", "sendComp"} => row.status = "COMPENSATION_PENDING"

(* The catch and the two operator entry points never undo a payout they do *)
(* not know the end of (lib/executor.ts:493-525, 566-616, 1013-1060).      *)
MoneyInv == MoneyKnown /\ \A r \in Requests : Seen(r) /\ Knows(r)

-----------------------------------------------------------------------------
(* What a step may do.                                                     *)

(* Treasury money leaves only under the sender's own lease, at the status  *)
(* that announces the transfer, and after the escrow paid the treasury     *)
(* (lib/executor.ts:490-502, 608-616, 835-840, 1049-1060).                 *)
Broadcast(tx, r) == tx[r] = "none" /\ tx'[r] = "pending"

TreasuryPaysUnderLease ==
  \A r \in Requests :
    /\ Broadcast(payoutTx, r) =>
         row.lease = r /\ row.status = "PAYOUT_PENDING" /\ escrow = "SETTLED"
    /\ Broadcast(compTx, r) =>
         row.lease = r /\ row.status = "COMPENSATION_PENDING" /\ escrow = "SETTLED"

TreasuryMoves == [][TreasuryPaysUnderLease]_vars

-----------------------------------------------------------------------------
(* Progress.                                                               *)

InFlight == {"LIQUIDITY_RESERVED", "SUBMITTED_ONCHAIN", "CONFIRMED_ONCHAIN", "FX_OR_SWAP_COMPLETED"}

(* No payment is left between two steps: from each status of the forward   *)
(* path the same request takes it on, to the end or to the operator, when  *)
(* the chain is slow, unreadable or loses an answer (lib/executor.ts:566). *)
AttemptConcludes == row.status \in InFlight ~> row.status \notin InFlight

(* A lease that is taken is given back (lib/executor.ts:271-281).          *)
LeaseReturned == \A r \in Requests : row.lease = r ~> row.lease # r

-----------------------------------------------------------------------------
(* The executor keeps PaymentPromise: where the amount is, read off the    *)
(* chains, and the ending the status reports.                              *)

Arrived == IF bridged THEN \E r \in Requests : payoutTx[r] = "success" ELSE credit
PaidBack == {r \in Requests : compTx[r] = "success"}

MoneyIs ==
  IF Delivered /\ Returned THEN "paid both ways"
  ELSE IF \E r, q \in PaidBack : r # q THEN "paid back twice"
  ELSE IF Arrived THEN "delivered"
  ELSE IF Returned THEN "returned"
  ELSE IF escrow = "SETTLED" THEN "treasury"
  ELSE IF escrow = "INITIATED" THEN "escrow"
  ELSE "sender"

ReportIs ==
  CASE row.status = "SETTLED" -> "delivered"
    [] row.status \in {"COMPENSATED", "REFUNDED"} -> "returned"
    [] row.status = "CANCELLED" -> "untouched"
    [] OTHER -> "open"

Promise == INSTANCE PaymentPromise WITH money <- MoneyIs, report <- ReportIs

(* Every step moves the amount one hop or not at all, and the status ends  *)
(* only where the amount is (lib/executor.ts, whole).                      *)
KeepsPromise == Promise!Spec
=============================================================================
