----------------------- MODULE PaymentExecutorProofs -----------------------
(***************************************************************************)
(* The proofs about PaymentExecutor, for any set of requests, any faults   *)
(* and any overlap.  The argument is one fence: a request inside the lease *)
(* owns it until the payment is in a status that freed it, and a claim     *)
(* starts only from a status that did not.  Every step inside the lease    *)
(* has one shape, LeasedStep; the lemmas say that each action has it, and  *)
(* InsideInv that the shape keeps the fence.  Inside it:                   *)
(*   - the endings are true of the money, and treasury money leaves only   *)
(*     where the lease, the status and the escrow allow it.  OutcomeInv:   *)
(*     what the row says that the chains confirm, what each handler has    *)
(*     seen, and what the one request inside the lease knows at each step; *)
(*   - the recipient and the sender are never both paid, as long as a      *)
(*     broadcast that the node accepted is answered.  MoneyInv: what the   *)
(*     row, the chains and the one request inside the lease know of the    *)
(*     payout.                                                             *)
(***************************************************************************)
EXTENDS PaymentExecutor, TLAPS

(* A status that ended the attempt is followed only by statuses that do    *)
(* too (TRANSITIONS and LEASE_RELEASE_STATES, lib/state.ts:26-88).         *)
LEMMA ReleasedForGood ==
  ASSUME NEW s \in LEASE_RELEASE_STATES, NEW t, CanTransition(s, t)
  PROVE  t \in LEASE_RELEASE_STATES
BY DEF CanTransition, TRANSITIONS, LEASE_RELEASE_STATES, TERMINAL_STATES, PAYMENT_STATES

(* What a request inside the lease may do: move to another place inside    *)
(* or leave through the finally, and let go of the lease, never take it,   *)
(* only by leaving or by ending the attempt.                               *)
LeasedStep(r) ==
  /\ pc[r] \in Leased
  /\ \E l \in Leased \union {"done"} : Go(r, l)
  /\ pc'[r] = "done" => pc[r] = "release"
  /\ row'.lease \in {row.lease, None}
  /\ \/ row'.lease = row.lease
     \/ row'.status \in LEASE_RELEASE_STATES
     \/ pc'[r] = "done"
  /\ row.status \in LEASE_RELEASE_STATES => row'.status \in LEASE_RELEASE_STATES

(* A step to a place inside the lease does not leave it.                   *)
LEMMA StaysIn ==
  ASSUME TypeOK, NEW r \in Requests, NEW l \in Leased, Go(r, l)
  PROVE  pc' \in [Requests -> Labels] /\ pc'[r] = l /\ pc'[r] # "done"
<1>1. l # "done" /\ l \in Labels
  BY DEF Labels, Running, Leased, Forward, Undo, Compensation
<1> QED BY <1>1 DEF Go, TypeOK

(* A transitionStatus inside the lease has that shape: it frees the lease  *)
(* only in a status of LEASE_RELEASE_STATES (lib/transitions.ts:66-108).   *)
LEMMA TransitionShape ==
  ASSUME TypeOK, NEW r \in Requests, NEW to \in PAYMENT_STATES, NEW base \in Rows,
         base.lease = row.lease,
         NEW ok \in Leased, NEW err \in Leased, pc[r] \in Leased,
         Transition(r, to, base, ok, err)
  PROVE  /\ row' \in Rows
         /\ mem' \in [Requests -> Views]
         /\ pc' \in [Requests -> Labels]
         /\ LeasedStep(r)
<1> DEFINE moved == Moved(base, to)
<1>1. moved \in Rows /\ moved.status = to
  BY DEF Moved, Rows, Hashes
<1>2. View(moved) \in Views
  BY <1>1 DEF View, Rows, Views
<1>3. moved.lease = row.lease \/ to \in LEASE_RELEASE_STATES
  BY DEF Moved, Rows
<1>10. moved.lease \in {row.lease, None}
  BY DEF Moved, Rows
<1>4. Leased \subseteq Labels
  BY DEF Labels, Running
<1>5. row \in Rows /\ mem \in [Requests -> Views] /\ pc \in [Requests -> Labels]
  BY DEF TypeOK
<1> HIDE DEF moved
<1>6. /\ row' = moved \/ row' = row
      /\ mem' = mem \/ mem' = [mem EXCEPT ![r] = View(moved)]
      /\ Go(r, ok) \/ Go(r, err)
      /\ row' = moved =>
           \/ row.status = mem[r].status /\ CanTransition(mem[r].status, to)
           \/ row' = row
  BY DEF Transition, See, moved
<1>7. row.status \in LEASE_RELEASE_STATES => row'.status \in LEASE_RELEASE_STATES
  BY <1>1, <1>6, ReleasedForGood
<1>8. row' \in Rows /\ mem' \in [Requests -> Views] /\ pc' \in [Requests -> Labels]
  BY <1>1, <1>2, <1>4, <1>5, <1>6 DEF Go
<1>9. row'.lease \in {row.lease, None} /\ pc'[r] # "done"
  BY <1>6, <1>10, StaysIn
<1>11. LeasedStep(r)
  BY <1>1, <1>3, <1>6, <1>7, <1>9 DEF LeasedStep
<1> QED BY <1>8, <1>11

Inside(r) == TypeOK' /\ LeasedStep(r)

(* A step that is one transitionStatus, as most steps of runExecution.     *)
LEMMA StepInside ==
  ASSUME TypeOK, NEW r \in Requests, NEW l \in Leased, NEW to \in PAYMENT_STATES,
         NEW base \in Rows, base.lease = row.lease, NEW ok \in Leased, NEW err \in Leased,
         Step(r, l, to, base, ok, err)
  PROVE  Inside(r)
<1>1. pc[r] \in Leased /\ Transition(r, to, base, ok, err)
  BY DEF Step, At
<1>2. UNCHANGED <<reservation, credit, chain, bridged>>
  BY DEF Step
<1> QED BY <1>1, <1>2, TransitionShape DEF Inside, TypeOK, chain

(* A step that leaves the row alone and moves inside the lease.            *)
LEMMA QuietInside ==
  ASSUME TypeOK, NEW r \in Requests, pc[r] \in Leased, NEW l \in Leased, Go(r, l),
         row' = row, mem' \in [Requests -> Views],
         reservation' \in {"absent", "RESERVED", "CONSUMED", "RELEASED"},
         credit' \in BOOLEAN, escrow' = escrow, escrowTx' \in [EscrowCalls -> TxStates],
         payoutTx' \in [Requests -> TxStates], compTx' \in [Requests -> TxStates],
         bridged' = bridged
  PROVE  Inside(r)
<1>1. pc' \in [Requests -> Labels] /\ pc'[r] # "done"
  BY StaysIn
<1> QED BY <1>1 DEF Inside, TypeOK, LeasedStep

(* A step that waits for a receipt and then moves the payment, or throws.  *)
LEMMA ReceiptInside ==
  ASSUME TypeOK, NEW r \in Requests, NEW l \in Leased, NEW mined, NEW to \in PAYMENT_STATES,
         NEW base \in Rows, base.lease = row.lease, NEW ok \in Leased, NEW err \in Leased,
         OnReceipt(r, l, mined, to, base, ok, err)
  PROVE  Inside(r)
<1>1. CASE Transition(r, to, base, ok, err)
  BY <1>1, StepInside DEF OnReceipt, Step
<1>2. CASE UNCHANGED <<row, mem>> /\ Go(r, err)
  BY <1>2, QuietInside DEF OnReceipt, At, TypeOK, chain
<1> QED BY <1>1, <1>2 DEF OnReceipt

(* A step that only reads and decides where to go.                         *)
LEMMA DecideInside ==
  ASSUME TypeOK, NEW r \in Requests, NEW l \in Leased, NEW exits \in SUBSET Leased,
         Decide(r, l, exits)
  PROVE  Inside(r)
<1>1. PICK x \in exits : Go(r, x)
  BY DEF Decide
<1> QED BY <1>1, QuietInside DEF Decide, At, TypeOK, chain

(* A step that sends one of the operator's contract calls.                 *)
LEMMA CallInside ==
  ASSUME TypeOK, NEW r \in Requests, NEW l \in Leased, NEW c \in EscrowCalls,
         NEW ok \in Leased, NEW err \in Leased, Call(r, l, c, ok, err)
  PROVE  Inside(r)
<1>1. escrowTx' \in [EscrowCalls -> TxStates]
  BY DEF Call, TypeOK, TxStates
<1>2. Go(r, ok) \/ Go(r, err)
  BY DEF Call
<1> QED BY <1>1, <1>2, QuietInside DEF Call, At, TypeOK

(* A step that writes a hash to the row by id.                             *)
LEMMA UpdateInside ==
  ASSUME TypeOK, NEW r \in Requests, pc[r] \in Leased, NEW new \in Rows,
         new.lease = row.lease, new.status = row.status,
         NEW ok \in Leased, NEW err \in Leased, Update(r, new, ok, err),
         UNCHANGED <<reservation, credit, chain, bridged>>
  PROVE  Inside(r)
<1>1. row' \in Rows /\ row'.lease = row.lease /\ row'.status = row.status
  BY DEF Update, TypeOK
<1>2. View(new) \in Views
  BY DEF View, Rows, Views
<1>3. mem' \in [Requests -> Views]
  BY <1>2 DEF Update, TypeOK, See
<1>4. Go(r, ok) \/ Go(r, err)
  BY DEF Update
<1>5. pc' \in [Requests -> Labels] /\ pc'[r] # "done"
  BY <1>4, StaysIn
<1> QED BY <1>1, <1>3, <1>4, <1>5 DEF Inside, TypeOK, LeasedStep, chain

(* Every step of the forward path (lib/executor.ts:326-565).               *)
LEMMA ForwardInside ==
  ASSUME TypeOK, NEW r \in Requests, ForwardStep(r)
  PROVE  Inside(r)
<1> USE DEF Leased, Forward, Undo
<1>0. row \in Rows /\ mem \in [Requests -> Views]
  BY DEF TypeOK
<1>1. CASE CheckLiquidity(r)
  <2>1. CASE Transition(r, "FAILED", row, "release", "release") /\ UNCHANGED reservation
    BY <1>0, <1>1, <2>1, StepInside DEF CheckLiquidity, Step, At, PAYMENT_STATES
  <2>2. CASE \E l \in {"reserve", "release", "recallFailed"} :
               Go(r, l) /\ UNCHANGED <<row, mem>>
    <3>1. reservation' \in {"absent", "RESERVED", "CONSUMED", "RELEASED"}
      BY <1>1 DEF CheckLiquidity, TypeOK
    <3> QED BY <1>1, <2>2, <3>1, QuietInside DEF CheckLiquidity, At, TypeOK, chain
  <2> QED BY <1>1, <2>1, <2>2 DEF CheckLiquidity
<1>2. CASE FailRecall(r)
  BY <1>0, <1>2, StepInside DEF FailRecall, PAYMENT_STATES
<1>3. CASE Reserve(r)
  <2>1. Go(r, "markReserved") \/ Go(r, "release")
    BY <1>3 DEF Reserve, Write
  <2>2. reservation' \in {"absent", "RESERVED", "CONSUMED", "RELEASED"}
    BY <1>3 DEF Reserve, Write, TypeOK
  <2> QED BY <1>3, <2>1, <2>2, QuietInside DEF Reserve, At, TypeOK, chain
<1>4. CASE MarkReserved(r)
  BY <1>0, <1>4, StepInside DEF MarkReserved, PAYMENT_STATES
<1>5. CASE Initiate(r)
  BY <1>5, CallInside DEF Initiate, EscrowCalls
<1>6. CASE MarkSubmitted(r)
  BY <1>0, <1>6, ReceiptInside DEF MarkSubmitted, PAYMENT_STATES
<1>7. CASE MarkConfirmed(r)
  BY <1>0, <1>7, StepInside DEF MarkConfirmed, PAYMENT_STATES
<1>8. CASE Settle(r)
  BY <1>8, CallInside DEF Settle, EscrowCalls
<1>9. CASE MarkConverted(r)
  BY <1>0, <1>9, ReceiptInside DEF MarkConverted, PAYMENT_STATES
<1>10. CASE MarkPayoutPending(r)
  BY <1>0, <1>10, StepInside DEF MarkPayoutPending, PAYMENT_STATES
<1>11. CASE Payout(r)
  <2>1. payoutTx' \in [Requests -> TxStates]
    BY <1>11 DEF Payout, TypeOK, TxStates
  <2>2. mem' \in [Requests -> Views]
    BY <1>0, <1>11 DEF Payout, Views, Hashes
  <2>3. Go(r, "persistPayout") \/ Go(r, "catch")
    BY <1>11 DEF Payout
  <2> QED BY <1>11, <2>1, <2>2, <2>3, QuietInside DEF Payout, At, TypeOK
<1>12. CASE PersistPayout(r)
  <2>1. [row EXCEPT !.destHash = r] \in Rows
    BY <1>0 DEF Rows, Hashes
  <2>2. /\ [row EXCEPT !.destHash = r].lease = row.lease
        /\ [row EXCEPT !.destHash = r].status = row.status
    BY <1>0 DEF Rows
  <2> QED BY <1>12, <2>1, <2>2, UpdateInside DEF PersistPayout, At
<1>13. CASE AwaitPayout(r)
  <2>1. Go(r, "credit") \/ Go(r, "catch")
    BY <1>13 DEF AwaitPayout
  <2> QED BY <1>13, <2>1, QuietInside DEF AwaitPayout, At, TypeOK, chain
<1>14. CASE Credit(r)
  <2>1. Go(r, "consume") \/ Go(r, "catch")
    BY <1>14 DEF Credit, Write
  <2>2. credit' \in BOOLEAN
    BY <1>14 DEF Credit, Write, TypeOK
  <2> QED BY <1>14, <2>1, <2>2, QuietInside DEF Credit, At, TypeOK, chain
<1>15. CASE Consume(r)
  <2>1. Go(r, "markSettled") \/ Go(r, "catch")
    BY <1>15 DEF Consume, Write
  <2>2. reservation' \in {"absent", "RESERVED", "CONSUMED", "RELEASED"}
    BY <1>15 DEF Consume, Write, TypeOK
  <2> QED BY <1>15, <2>1, <2>2, QuietInside DEF Consume, At, TypeOK, chain
<1>16. CASE MarkSettled(r)
  BY <1>0, <1>16, StepInside DEF MarkSettled, PAYMENT_STATES
<1> QED BY <1>1, <1>2, <1>3, <1>4, <1>5, <1>6, <1>7, <1>8, <1>9, <1>10, <1>11, <1>12,
           <1>13, <1>14, <1>15, <1>16 DEF ForwardStep

(* Every step of the catch of runExecution (lib/executor.ts:566-703).      *)
LEMMA UndoInside ==
  ASSUME TypeOK, NEW r \in Requests, UndoStep(r)
  PROVE  Inside(r)
<1> USE DEF Leased, Forward, Undo, Compensation
<1>0. row \in Rows /\ mem \in [Requests -> Views]
  BY DEF TypeOK
<1>1. CASE Catch(r)
  BY <1>1, DecideInside DEF Catch, Thrown
<1>2. CASE ResolvePayout(r)
  BY <1>2, DecideInside DEF ResolvePayout, AfterPayoutOutcome
<1>3. CASE ReleaseReservation(r)
  <2>1. reservation' \in {"absent", "RESERVED", "CONSUMED", "RELEASED"}
    BY <1>3 DEF ReleaseReservation, TypeOK
  <2> QED BY <1>3, <2>1, QuietInside DEF ReleaseReservation, At, TypeOK, chain
<1>4. CASE ReadEscrow(r)
  BY <1>4, DecideInside DEF ReadEscrow, UndoFor
<1>5. CASE CompensateSender(r)
  BY <1>0, <1>5, StepInside DEF CompensateSender, PAYMENT_STATES
<1>6. CASE Refund(r)
  BY <1>6, CallInside DEF Refund, EscrowCalls
<1>7. CASE MarkFailed(r)
  BY <1>0, <1>7, ReceiptInside DEF MarkFailed, PAYMENT_STATES
<1>8. CASE MarkRefunded(r)
  BY <1>0, <1>8, StepInside DEF MarkRefunded, PAYMENT_STATES
<1>9. CASE Fail(r)
  <2>1. CASE Decide(r, "fail", {"release"})
    BY <2>1, DecideInside
  <2>2. CASE Step(r, "fail", "FAILED", row, "release", "release")
    BY <1>0, <2>2, StepInside DEF PAYMENT_STATES
  <2> QED BY <1>9, <2>1, <2>2 DEF Fail
<1>10. CASE ForwardCredit(r)
  <2>1. Go(r, "fwdConsume") \/ Go(r, "release")
    BY <1>10 DEF ForwardCredit, Write
  <2>2. credit' \in BOOLEAN
    BY <1>10 DEF ForwardCredit, Write, TypeOK
  <2> QED BY <1>10, <2>1, <2>2, QuietInside DEF ForwardCredit, At, TypeOK, chain
<1>11. CASE ForwardConsume(r)
  <2>1. Go(r, "fwdSettle") \/ Go(r, "release")
    BY <1>11 DEF ForwardConsume, Thrown
  <2>2. reservation' \in {"absent", "RESERVED", "CONSUMED", "RELEASED"}
    BY <1>11 DEF ForwardConsume, TypeOK
  <2> QED BY <1>11, <2>1, <2>2, QuietInside DEF ForwardConsume, At, TypeOK, chain
<1>12. CASE ForwardSettle(r)
  <2> DEFINE base == IF mem[r].destHash # None
                     THEN [row EXCEPT !.destHash = mem[r].destHash] ELSE row
  <2>1. base \in Rows /\ base.lease = row.lease
    BY <1>0 DEF Rows, Views
  <2>2. Step(r, "fwdSettle", "SETTLED", base, "release", "release")
    BY <1>12 DEF ForwardSettle
  <2> HIDE DEF base
  <2> QED BY <2>1, <2>2, StepInside DEF PAYMENT_STATES
<1> QED BY <1>1, <1>2, <1>3, <1>4, <1>5, <1>6, <1>7, <1>8, <1>9, <1>10, <1>11, <1>12
        DEF UndoStep

(* Every step of runCompensationTransfer (lib/executor.ts:764-925).        *)
LEMMA CompensationInside ==
  ASSUME TypeOK, NEW r \in Requests, CompensationStep(r)
  PROVE  Inside(r)
<1> USE DEF Leased, Forward, Undo, Compensation
<1>0. row \in Rows /\ mem \in [Requests -> Views]
  BY DEF TypeOK
<1> DEFINE withHash(h) == [row EXCEPT !.compHash = h]
<1>a. \A h \in Hashes : /\ withHash(h) \in Rows
                        /\ withHash(h).lease = row.lease
                        /\ withHash(h).status = row.status
  BY <1>0 DEF Rows
<1>b. r \in Hashes /\ mem[r].compHash \in Hashes
  BY <1>0 DEF Hashes, Views
<1>1. CASE PriorCompensation(r)
  BY <1>1, DecideInside DEF PriorCompensation
<1>2. CASE SendCompensation(r)
  <2>1. compTx' \in [Requests -> TxStates]
    BY <1>2 DEF SendCompensation, TypeOK, TxStates
  <2>2. mem' \in [Requests -> Views]
    BY <1>0, <1>2 DEF SendCompensation, Views, Hashes
  <2>3. Go(r, "persistComp") \/ Go(r, "catchComp")
    BY <1>2 DEF SendCompensation
  <2> QED BY <1>2, <2>1, <2>2, <2>3, QuietInside DEF SendCompensation, At, TypeOK
<1>3. CASE PersistCompensation(r)
  BY <1>3, <1>a, <1>b, UpdateInside DEF PersistCompensation, At
<1>4. CASE MarkCompensated(r)
  <2>1. OnReceipt(r, "awaitComp", compTx[r] = "success",
                  "COMPENSATED", withHash(r), "release", "catchComp")
    BY <1>4 DEF MarkCompensated
  <2> HIDE DEF withHash
  <2> QED BY <1>a, <1>b, <2>1, ReceiptInside DEF PAYMENT_STATES
<1>5. CASE CatchCompensation(r)
  <2>1. PICK l \in {"release", "confirmComp"} : Go(r, l)
    BY <1>5 DEF CatchCompensation
  <2>2. row' \in Rows /\ row'.lease = row.lease /\ row'.status = row.status
    BY <1>0, <1>5, <1>a, <1>b DEF CatchCompensation
  <2>3. pc[r] \in Leased /\ UNCHANGED <<reservation, credit, chain, mem, bridged>>
    BY <1>5 DEF CatchCompensation, At
  <2>4. pc' \in [Requests -> Labels] /\ pc'[r] # "done"
    BY <2>1, StaysIn
  <2> QED BY <2>1, <2>2, <2>3, <2>4 DEF Inside, TypeOK, LeasedStep, chain
<1>6. CASE ConfirmCompensation(r)
  <2>1. Step(r, "confirmComp", "COMPENSATED", withHash(mem[r].compHash), "release", "release")
    BY <1>6 DEF ConfirmCompensation
  <2> HIDE DEF withHash
  <2> QED BY <1>a, <1>b, <2>1, StepInside DEF PAYMENT_STATES
<1> QED BY <1>1, <1>2, <1>3, <1>4, <1>5, <1>6 DEF CompensationStep

(* Every step of repair and reconcile under their lease                    *)
(* (lib/executor.ts:1025-1189).                                            *)
LEMMA OperatorInside ==
  ASSUME TypeOK, NEW r \in Requests, OperatorStep(r)
  PROVE  Inside(r)
<1> USE DEF Leased, Forward, Undo, Compensation
<1>1. CASE Repair(r)
  BY <1>1, DecideInside DEF Repair
<1>2. CASE Reconcile(r)
  <2>1. PICK l \in {"fwdCredit", "release", "awaitCompensation", "confirmComp"} : Go(r, l)
    BY <1>2 DEF Reconcile, AfterPayoutOutcome
  <2>2. reservation' \in {"absent", "RESERVED", "CONSUMED", "RELEASED"}
    BY <1>2 DEF Reconcile, TypeOK
  <2> QED BY <1>2, <2>1, <2>2, QuietInside DEF Reconcile, At, TypeOK, chain
<1>3. CASE AwaitCompensation(r)
  BY <1>3, StepInside DEF AwaitCompensation, PAYMENT_STATES, TypeOK
<1> QED BY <1>1, <1>2, <1>3 DEF OperatorStep

-----------------------------------------------------------------------------
(* The invariant: types, and the fence around the lease.                   *)

Inv == TypeOK /\ LeaseInv

(* An APPROVED payment that nobody touches yet.                            *)
LEMMA InitInv == Init => Inv
<1> SUFFICES ASSUME Init PROVE Inv
  OBVIOUS
<1>1. row \in Rows /\ View(row) \in Views
  BY DEF Init, Rows, Views, View, PAYMENT_STATES, Hashes
<1>2. TypeOK
  BY <1>1 DEF Init, TypeOK, EscrowStates, TxStates, Labels
<1>3. \A r \in Requests : pc[r] = "idle"
  BY DEF Init
<1>4. LeaseInv
  BY <1>3 DEF LeaseInv, SingleAttempt, LeaseFence, ClaimsFromOpen,
              Leased, Forward, Undo, Compensation
<1> QED BY <1>2, <1>4 DEF Inv

(* Steps inside the lease: nobody else is inside, and the holder keeps it  *)
(* until it leaves or the payment is over.                                 *)
LEMMA InsideInv ==
  ASSUME Inv, NEW r \in Requests, Inside(r), \A q \in Requests : q # r => mem'[q] = mem[q]
  PROVE  Inv'
<1>1. PICK l \in Leased \union {"done"} : Go(r, l)
  BY DEF Inside, LeasedStep
<1>2. \A q \in Requests : q # r => pc'[q] = pc[q] /\ pc'[q] \notin Leased
  BY <1>1 DEF Go, Inv, LeaseInv, SingleAttempt, Inside, LeasedStep, TypeOK
<1>3. pc'[r] = l
  BY <1>1 DEF Go, Inv, TypeOK
<1>4. SingleAttempt'
  BY <1>2 DEF SingleAttempt
<1>5. LeaseFence'
  BY <1>2, <1>3 DEF LeaseFence, Inv, LeaseInv, Inside, LeasedStep, Leased, Forward, Undo, Compensation
<1>6. ClaimsFromOpen'
  BY <1>2, <1>3 DEF ClaimsFromOpen, Inv, LeaseInv, Leased, Forward, Undo, Compensation
<1> QED BY <1>4, <1>5, <1>6 DEF Inv, LeaseInv, Inside

(* A step of one request leaves what the others remember alone: each       *)
(* handler's row is a local variable of its own call.                      *)
LEMMA OnlyOwnMemory ==
  ASSUME TypeOK, NEW r \in Requests,
         ForwardStep(r) \/ UndoStep(r) \/ CompensationStep(r) \/ OperatorStep(r),
         NEW q \in Requests, q # r
  PROVE  mem'[q] = mem[q]
<1>1. CASE ForwardStep(r)
  BY <1>1 DEF ForwardStep, TypeOK, CheckLiquidity, FailRecall, Reserve, MarkReserved, Initiate,
     MarkSubmitted, MarkConfirmed, Settle, MarkConverted, MarkPayoutPending, Payout, PersistPayout,
     AwaitPayout, Credit, Consume, MarkSettled, Step, OnReceipt, Call, Transition, Update, See
<1>2. CASE UndoStep(r)
  BY <1>2 DEF UndoStep, TypeOK, Catch, ResolvePayout, ReleaseReservation, ReadEscrow,
     CompensateSender, Refund, MarkFailed, MarkRefunded, Fail, ForwardCredit, ForwardConsume,
     ForwardSettle, Decide, Step, OnReceipt, Call, Transition, See
<1>3. CASE CompensationStep(r)
  BY <1>3 DEF CompensationStep, TypeOK, PriorCompensation, SendCompensation, PersistCompensation,
     MarkCompensated, CatchCompensation, ConfirmCompensation, Decide, Step, OnReceipt,
     Transition, Update, See
<1>4. CASE OperatorStep(r)
  BY <1>4 DEF OperatorStep, TypeOK, Repair, Reconcile, AwaitCompensation, Decide, Step,
     Transition, See
<1> QED BY <1>1, <1>2, <1>3, <1>4

(* The finally of withExecutionLease (lib/executor.ts:271-281).            *)
LEMMA ReleaseInv ==
  ASSUME Inv, NEW r \in Requests, ReleaseLease(r)
  PROVE  Inv'
<1>1. row' \in Rows /\ row'.status = row.status /\ row'.lease \in {row.lease, None}
  BY DEF ReleaseLease, Inv, TypeOK, Rows, Hashes
<1>2. pc' \in [Requests -> Labels]
  BY DEF ReleaseLease, Go, Inv, TypeOK, Labels
<1>3. pc[r] = "release" /\ pc[r] \in Leased /\ Go(r, "done") /\ pc'[r] = "done"
  BY DEF ReleaseLease, At, Go, Inv, TypeOK, Leased
<1>4. Inside(r)
  BY <1>1, <1>2, <1>3 DEF ReleaseLease, Inside, LeasedStep, Inv, TypeOK, chain
<1> QED BY <1>4, InsideInv DEF ReleaseLease

(* A claim that wins found the lease free at an open status, so the fence  *)
(* says that nobody was inside.                                            *)
LEMMA ClaimInv ==
  ASSUME Inv, NEW r \in Requests, Claim(r)
  PROVE  Inv'
<1>1. PICK l \in {"claimExecute", "claimRepair", "claimReconcile"},
          ok \in {"liquidity", "repair", "reconcile"} : ClaimLease(r, l, ok)
  BY DEF Claim
<1> DEFINE won == [row EXCEPT !.lease = r]
<1>2. won \in Rows /\ won.lease = r /\ won.status = row.status
  BY DEF Inv, TypeOK, Rows, Hashes
<1>3. pc[r] = l /\ UNCHANGED <<reservation, credit, chain, mem, bridged>>
  BY <1>1 DEF ClaimLease, At
<1>4. row' \in Rows
  BY <1>1, <1>2 DEF ClaimLease, Inv, TypeOK
<1>5. (Go(r, ok) \/ Go(r, "done")) /\ pc' \in [Requests -> Labels]
  BY <1>1 DEF ClaimLease, Go, Inv, TypeOK, Labels, Running, Leased, Forward
<1>6. TypeOK'
  BY <1>3, <1>4, <1>5 DEF Inv, TypeOK, chain
<1>7. CASE row' = won /\ row.status = mem[r].status /\ row.lease = None
  <2>1. \A q \in Requests : pc[q] \notin Leased
    BY <1>3, <1>7, RequestsAssumption DEF Inv, LeaseInv, LeaseFence, ClaimsFromOpen
  <2>2. \A q \in Requests : q # r => pc'[q] = pc[q]
    BY <1>5 DEF Go, Inv, TypeOK
  <2>3. pc'[r] = ok \/ pc'[r] = "done"
    BY <1>5 DEF Go, Inv, TypeOK
  <2>4. SingleAttempt'
    BY <2>1, <2>2 DEF SingleAttempt
  <2>5. LeaseFence'
    BY <1>2, <1>7, <2>1, <2>2 DEF LeaseFence
  <2>6. ClaimsFromOpen'
    BY <1>3, <2>2, <2>3 DEF ClaimsFromOpen, Inv, LeaseInv
  <2> QED BY <1>6, <2>4, <2>5, <2>6 DEF Inv, LeaseInv
<1>8. CASE row' = row /\ Go(r, "done")
  BY <1>3, <1>6, <1>8 DEF Inv, LeaseInv, SingleAttempt, LeaseFence, ClaimsFromOpen, Go, TypeOK,
                          Leased, Forward, Undo, Compensation
<1> QED BY <1>1, <1>7, <1>8 DEF ClaimLease

(* A cancel holds no lease; the status it writes is one that freed it      *)
(* (app/api/payments/[id]/cancel/route.ts:33-41).                          *)
LEMMA CancelInv ==
  ASSUME Inv, NEW r \in Requests, CancelPayment(r)
  PROVE  Inv'
<1> DEFINE moved == Moved(row, "CANCELLED")
<1>1. moved \in Rows /\ moved.status \in LEASE_RELEASE_STATES /\ View(moved) \in Views
  BY DEF Moved, Inv, TypeOK, Rows, Views, View, Hashes, PAYMENT_STATES,
         LEASE_RELEASE_STATES, TERMINAL_STATES
<1>2. /\ row' = moved \/ row' = row
      /\ mem' = mem \/ mem' = [mem EXCEPT ![r] = View(moved)]
      /\ pc[r] = "cancel" /\ Go(r, "done")
      /\ UNCHANGED <<reservation, credit, chain, bridged>>
  BY DEF CancelPayment, Transition, See, At
<1> HIDE DEF moved
<1>3. pc' \in [Requests -> Labels] /\ pc'[r] = "done" /\ \A q \in Requests : q # r => pc'[q] = pc[q]
  BY <1>2 DEF Go, Inv, TypeOK, Labels
<1>4. TypeOK'
  BY <1>1, <1>2, <1>3 DEF Inv, TypeOK, chain
<1>5. SingleAttempt'
  BY <1>3 DEF SingleAttempt, Inv, LeaseInv, Leased, Forward, Undo, Compensation
<1>6. LeaseFence'
  BY <1>1, <1>2, <1>3 DEF LeaseFence, Inv, LeaseInv, Leased, Forward, Undo, Compensation
<1>7. ClaimsFromOpen'
  BY <1>2, <1>3 DEF ClaimsFromOpen, Inv, LeaseInv, TypeOK
<1> QED BY <1>4, <1>5, <1>6, <1>7 DEF Inv, LeaseInv

(* No handler goes on to claim from a status that ended the attempt.       *)
LEMMA ArriveInv ==
  ASSUME Inv, NEW r \in Requests, ArriveAny(r)
  PROVE  Inv'
<1>1. PICK l \in {"claimExecute", "claimRepair", "claimReconcile", "cancel"} :
        /\ Go(r, l)
        /\ l # "cancel" => row.status \notin LEASE_RELEASE_STATES
  BY DEF ArriveAny, ExecuteStart, RepairStart, ReconcileStart, CancelStart, Arrive,
         LEASE_RELEASE_STATES, TERMINAL_STATES
<1>2. See(r, row) /\ UNCHANGED <<row, reservation, credit, chain, bridged>>
  BY DEF ArriveAny, ExecuteStart, RepairStart, ReconcileStart, CancelStart, Arrive
<1>3. View(row) \in Views
  BY DEF Inv, TypeOK, Rows, Views, View
<1>4. /\ pc' \in [Requests -> Labels] /\ pc'[r] = l
      /\ \A q \in Requests : q # r => pc'[q] = pc[q]
  BY <1>1 DEF Go, Inv, TypeOK, Labels, Running
<1>5. /\ mem' \in [Requests -> Views] /\ mem'[r].status = row.status
      /\ \A q \in Requests : q # r => mem'[q] = mem[q]
  BY <1>2, <1>3 DEF See, Inv, TypeOK, View
<1>6. TypeOK'
  BY <1>2, <1>4, <1>5 DEF Inv, TypeOK, chain
<1>7. pc'[r] \notin Leased
  BY <1>4 DEF Leased, Forward, Undo, Compensation
<1>8. SingleAttempt' /\ LeaseFence'
  BY <1>2, <1>4, <1>7 DEF SingleAttempt, LeaseFence, Inv, LeaseInv
<1>9. ClaimsFromOpen'
  BY <1>1, <1>4, <1>5 DEF ClaimsFromOpen, Inv, LeaseInv
<1> QED BY <1>6, <1>8, <1>9 DEF Inv, LeaseInv

(* The chains touch neither the row nor the requests.                      *)
LEMMA MineInv ==
  ASSUME Inv, Mine
  PROVE  Inv'
<1>1. UNCHANGED <<row, reservation, credit, pc, mem, bridged>>
  BY DEF Mine, MineInitiate, MineSettle, MineRefund, MineCall, MinePayout, MineCompensation
<1>2. escrow' \in EscrowStates
  BY DEF Mine, MineInitiate, MineSettle, MineRefund, MineCall, MinePayout, MineCompensation,
         InitiatePayment, SettlePayment, FailAndRefund, EscrowStates, Inv, TypeOK
<1>3. escrowTx' \in [EscrowCalls -> TxStates]
  BY DEF Mine, MineInitiate, MineSettle, MineRefund, MineCall, MinePayout, MineCompensation,
         TxStates, Inv, TypeOK
<1>4. payoutTx' \in [Requests -> TxStates] /\ compTx' \in [Requests -> TxStates]
  BY DEF Mine, MineInitiate, MineSettle, MineRefund, MineCall, MinePayout, MineCompensation,
         TxStates, Inv, TypeOK
<1> QED BY <1>1, <1>2, <1>3, <1>4
        DEF Inv, TypeOK, LeaseInv, SingleAttempt, LeaseFence, ClaimsFromOpen

(* A crash leaves the lease where it is and nobody inside it.              *)
LEMMA CrashInv ==
  ASSUME Inv, Crash
  PROVE  Inv'
<1>1. pc' \in [Requests -> Labels]
  BY DEF Crash, Inv, TypeOK, Labels
<1>2. \A r \in Requests : pc'[r] \notin Running
  BY DEF Crash, Running, Leased, Forward, Undo, Compensation
<1>3. UNCHANGED <<row, reservation, credit, chain, mem, bridged>>
  BY DEF Crash
<1>4. LeaseInv'
  BY <1>2 DEF LeaseInv, SingleAttempt, LeaseFence, ClaimsFromOpen, Running
<1> QED BY <1>1, <1>3, <1>4 DEF Inv, TypeOK, chain

(* Every step, of any request or of the environment, keeps the fence.      *)
LEMMA NextInv ==
  ASSUME Inv, [Next]_vars
  PROVE  Inv'
<1>1. CASE UNCHANGED vars
  BY <1>1 DEF vars, chain, Inv, TypeOK, LeaseInv, SingleAttempt, LeaseFence, ClaimsFromOpen
<1>2. ASSUME NEW r \in Requests, ArriveAny(r) PROVE Inv'
  BY <1>2, ArriveInv
<1>3. ASSUME NEW r \in Requests, Advance(r) PROVE Inv'
  <2>1. CASE Claim(r)
    BY <2>1, ClaimInv
  <2>2. CASE ForwardStep(r) \/ UndoStep(r) \/ CompensationStep(r) \/ OperatorStep(r)
    <3>1. Inside(r)
      BY <2>2, ForwardInside, UndoInside, CompensationInside, OperatorInside DEF Inv
    <3> QED BY <2>2, <3>1, OnlyOwnMemory, InsideInv DEF Inv
  <2>3. CASE CancelPayment(r)
    BY <2>3, CancelInv
  <2>4. CASE ReleaseLease(r)
    BY <2>4, ReleaseInv
  <2> QED BY <1>3, <2>1, <2>2, <2>3, <2>4 DEF Advance
<1>4. CASE Mine
  BY <1>4, MineInv
<1>5. CASE Crash
  BY <1>5, CrashInv
<1>6. CASE Rest
  BY <1>1, <1>6 DEF Rest
<1> QED BY <1>1, <1>2, <1>3, <1>4, <1>5, <1>6 DEF Next

(* The lease fence holds in every reachable state (executor.ts:246-281,    *)
(* lib/transitions.ts:66-108).                                             *)
THEOREM InvHolds == Spec => []Inv
<1> QED BY InitInv, NextInv, PTL DEF Spec

(* The lease's invariant, as the runs check it: who is inside, who owns it *)
(* and from where it is claimed (lib/executor.ts:246-281).                 *)
THEOREM LeaseFenceHolds == Spec => []LeaseInv
<1> QED BY InvHolds, PTL DEF Inv

(* Every reachable state is well typed, under any faults and any overlap   *)
(* of requests (lib/executor.ts).                                          *)
THEOREM TypeCorrect == Spec => []TypeOK
<1> QED BY InvHolds, PTL DEF Inv

(* The execution lease admits one request at a time, whatever crashes,     *)
(* throws or arrives (withExecutionLease, lib/executor.ts:259-281).        *)
THEOREM LeaseIsExclusive == Spec => []SingleAttempt
<1>1. Inv => SingleAttempt
  BY DEF Inv, LeaseInv
<1> QED BY <1>1, InvHolds, PTL

-----------------------------------------------------------------------------
(* The endings.                                                            *)

Released == {"FX_OR_SWAP_COMPLETED", "PAYOUT_PENDING", "COMPENSATION_PENDING"}

(* What the row says, the chains confirm.                                  *)
RowIsTrue ==
  /\ TerminalMatchesMoney
  /\ row.status \in CANCELLABLE_STATES =>
       escrow = "NONE" /\ escrowTx["initiatePayment"] = "none" /\ ~credit
  /\ row.status \in Released => escrow = "SETTLED"
  /\ row.destHash # None => escrow = "SETTLED"
  /\ escrowTx["settlePayment"] = "success" => escrow = "SETTLED"
  /\ escrowTx["failAndRefund"] = "success" => escrow = "REFUNDED"

(* What a handler has seen stays true, inside the lease and out of it.     *)
SawTruth(r) ==
  /\ mem[r].status \in Released \/ mem[r].destHash # None => escrow = "SETTLED"
  /\ At(r, "claimRepair") => mem[r].status = "COMPENSATION_PENDING"
  /\ At(r, "claimExecute") => mem[r].status = "APPROVED"
  /\ At(r, "cancel") => mem[r].status \in CANCELLABLE_STATES
  /\ pc[r] \in {"claimReconcile", "reconcile"} =>
       /\ mem[r].status = "PAYOUT_PENDING" => mem[r].destHash # None
       /\ mem[r].status = "COMPENSATION_PENDING" => mem[r].compHash # None

(* The recipient has what a SETTLED payment reports.                       *)
Backed(r) ==
  /\ escrow = "SETTLED"
  /\ bridged => mem[r].destHash # None /\ payoutTx[mem[r].destHash] = "success"

Uncredited ==
  {"liquidity", "recallFailed", "reserve", "markReserved", "initiate", "awaitInitiate",
   "markConfirmed", "settle", "awaitSettle", "markPayoutPending", "payout",
   "persistPayout", "awaitPayout"}
Crediting == {"credit", "consume", "markSettled"}
Completing == {"fwdCredit", "fwdConsume", "fwdSettle"}

(* What the request inside the lease knows.                                *)
KnowsOutcome(r) ==
  /\ At(r, "initiate") => row.status = "LIQUIDITY_RESERVED"
  /\ pc[r] \in Uncredited => ~credit
  /\ pc[r] \in PayoutLeg => row.status = "PAYOUT_PENDING"
  /\ pc[r] \in PayoutLeg \union {"markPayoutPending", "compensate", "awaitCompensation"} =>
       escrow = "SETTLED"
  /\ pc[r] \in {"persistPayout", "awaitPayout"} => mem[r].destHash = r
  /\ At(r, "awaitPayout") => row.destHash = r
  /\ pc[r] \in Crediting =>
       Backed(r) /\ (bridged => row.destHash = mem[r].destHash)
  /\ pc[r] \in {"consume", "markSettled", "fwdConsume", "fwdSettle"} => credit
  /\ At(r, "catch") /\ credit => Backed(r)
  /\ pc[r] \in Completing => Backed(r)
  /\ At(r, "markRefunded") => escrow = "REFUNDED"
  /\ pc[r] \in {"repair", "priorComp", "sendComp", "persistComp"} =>
       row.status = "COMPENSATION_PENDING"
  /\ pc[r] \in {"persistComp", "awaitComp"} => mem[r].compHash = r
  /\ At(r, "confirmComp") => mem[r].compHash # None /\ compTx[mem[r].compHash] = "success"

OutcomeInv == RowIsTrue /\ \A r \in Requests : SawTruth(r) /\ KnowsOutcome(r)

(* What a step of the holder owes: the shared facts, its own, and that an  *)
(* escrow which paid the treasury stays so.                                *)
KeptTrue(r) ==
  RowIsTrue' /\ SawTruth(r)' /\ KnowsOutcome(r)' /\ (escrow = "SETTLED" => escrow' = "SETTLED")

(* A step that leaves the row and the money alone and stays in the lease.  *)
LEMMA QuietTrue ==
  ASSUME TypeOK, RowIsTrue, NEW r \in Requests, SawTruth(r),
         NEW l \in (Leased \ {"reconcile"}) \union {"done"}, Go(r, l),
         row'.status = row.status, row'.destHash = row.destHash,
         row'.compHash = row.compHash \/ row.compHash = None,
         UNCHANGED <<credit, escrow, payoutTx, compTx, mem, bridged>>,
         \A c \in EscrowCalls : escrowTx'[c] = escrowTx[c] \/ escrowTx'[c] = "pending",
         escrowTx'["initiatePayment"] = escrowTx["initiatePayment"]
           \/ row.status \notin CANCELLABLE_STATES \union {"CANCELLED"},
         KnowsOutcome(r)'
  PROVE  KeptTrue(r)
<1>1. pc'[r] = l
  BY DEF Go, TypeOK
<1>2. SawTruth(r)'
  BY <1>1 DEF SawTruth, At, Leased, Forward, Undo, Compensation
<1>3. /\ escrowTx'["settlePayment"] = "success" => escrowTx["settlePayment"] = "success"
      /\ escrowTx'["failAndRefund"] = "success" => escrowTx["failAndRefund"] = "success"
  BY DEF EscrowCalls
<1>4. TerminalMatchesMoney'
  BY RequestsAssumption DEF RowIsTrue, TerminalMatchesMoney
<1>5. RowIsTrue'
  BY <1>3, <1>4 DEF RowIsTrue
<1> QED BY <1>2, <1>5 DEF KeptTrue

(* The two ways out of a transitionStatus, with the columns it leaves.     *)
LEMMA MoveShape ==
  ASSUME TypeOK, NEW r \in Requests, NEW to \in PAYMENT_STATES, NEW base \in Rows,
         NEW ok, NEW err, Transition(r, to, base, ok, err)
  PROVE  \/ row' = row /\ mem' = mem /\ pc'[r] = err
         \/ /\ row.status = mem[r].status /\ CanTransition(row.status, to)
            /\ row'.status = to /\ row'.destHash = base.destHash /\ row'.compHash = base.compHash
            /\ \/ /\ pc'[r] = ok
                  /\ mem'[r].status = to /\ mem'[r].destHash = base.destHash
                  /\ mem'[r].compHash = base.compHash
               \/ pc'[r] = err /\ mem' = mem
<1> DEFINE moved == Moved(base, to)
<1>1. /\ moved.status = to /\ moved.destHash = base.destHash /\ moved.compHash = base.compHash
      /\ View(moved).status = to /\ View(moved).destHash = base.destHash
      /\ View(moved).compHash = base.compHash
  BY DEF Moved, Rows, View
<1>2. \/ row' = row /\ mem' = mem /\ Go(r, err)
      \/ /\ row.status = mem[r].status /\ CanTransition(row.status, to) /\ row' = moved
         /\ \/ mem' = [mem EXCEPT ![r] = View(moved)] /\ Go(r, ok)
            \/ mem' = mem /\ Go(r, err)
  BY DEF Transition, See, moved
<1> HIDE DEF moved
<1> QED BY <1>1, <1>2 DEF Go, TypeOK

(* A move inside the lease: an ending is written only where the money is   *)
(* already there.                                                          *)
LEMMA MoveTrue ==
  ASSUME TypeOK, RowIsTrue, NEW r \in Requests, SawTruth(r),
         NEW to \in PAYMENT_STATES \ CANCELLABLE_STATES, NEW base \in Rows,
         base.destHash \in {row.destHash, mem[r].destHash},
         NEW ok \in (Leased \ {"reconcile"}) \union {"done"},
         NEW err \in (Leased \ {"reconcile"}) \union {"done"},
         Transition(r, to, base, ok, err),
         UNCHANGED <<credit, escrow, escrowTx, payoutTx, compTx, bridged>>,
         to = "SETTLED" =>
           /\ credit /\ escrow = "SETTLED"
           /\ bridged => base.destHash \in Requests /\ payoutTx[base.destHash] = "success",
         to = "COMPENSATED" => base.compHash \in Requests /\ compTx[base.compHash] = "success",
         to = "REFUNDED" => escrow = "REFUNDED",
         to = "CANCELLED" => mem[r].status \in CANCELLABLE_STATES,
         to \in Released => escrow = "SETTLED",
         KnowsOutcome(r)'
  PROVE  KeptTrue(r)
<1>1. /\ pc'[r] \in {ok, err}
      /\ \/ row' = row /\ mem' = mem
         \/ /\ row.status = mem[r].status
            /\ row'.status = to /\ row'.destHash = base.destHash /\ row'.compHash = base.compHash
            /\ \/ mem'[r].status = to /\ mem'[r].destHash = base.destHash
               \/ mem' = mem
  BY MoveShape
<1>2. SawTruth(r)'
  BY <1>1 DEF SawTruth, RowIsTrue, At, Leased, Forward, Undo, Compensation
<1>3. CASE row' = row
  BY <1>2, <1>3 DEF KeptTrue, RowIsTrue, TerminalMatchesMoney
<1>4. CASE /\ row.status = mem[r].status
           /\ row'.status = to /\ row'.destHash = base.destHash /\ row'.compHash = base.compHash
  <2>1. row'.destHash # None => escrow = "SETTLED"
    BY <1>4 DEF SawTruth, RowIsTrue
  <2>2. to = "CANCELLED" => escrow = "NONE" /\ escrowTx["initiatePayment"] = "none"
    BY <1>4 DEF RowIsTrue
  <2>3. TerminalMatchesMoney'
    BY <1>4, <2>2 DEF TerminalMatchesMoney
  <2>4. RowIsTrue'
    BY <1>4, <2>1, <2>3 DEF RowIsTrue
  <2> QED BY <1>2, <2>4 DEF KeptTrue
<1> QED BY <1>1, <1>3, <1>4

(* A move to a status that reports no ending.                              *)
LEMMA PlainMove ==
  ASSUME TypeOK, RowIsTrue, NEW r \in Requests, SawTruth(r),
         NEW to \in {"LIQUIDITY_RESERVED", "SUBMITTED_ONCHAIN", "CONFIRMED_ONCHAIN",
                     "FX_OR_SWAP_COMPLETED", "PAYOUT_PENDING", "COMPENSATION_PENDING", "FAILED"},
         to \in Released => escrow = "SETTLED",
         NEW ok \in Leased \ {"reconcile"}, NEW err \in Leased \ {"reconcile"},
         Transition(r, to, row, ok, err),
         UNCHANGED <<credit, chain, bridged>>,
         KnowsOutcome(r)'
  PROVE  KeptTrue(r)
<1>1. to \in PAYMENT_STATES \ CANCELLABLE_STATES
  BY DEF PAYMENT_STATES, CANCELLABLE_STATES
<1>2. row \in Rows
  BY DEF TypeOK
<1>3. to \notin {"SETTLED", "COMPENSATED", "REFUNDED", "CANCELLED"}
  OBVIOUS
<1>4. UNCHANGED <<credit, escrow, escrowTx, payoutTx, compTx, bridged>>
  BY DEF chain
<1> QED BY <1>1, <1>2, <1>3, <1>4, MoveTrue

(* A place where nothing needs to be known.                                *)
Free == {"release", "done", "resolvePayout", "unwind", "readEscrow", "refund", "awaitRefund",
         "fail", "catchComp"}

(* A request that arrives at such a place knows what it has to, whatever   *)
(* the step did.                                                           *)
LEMMA FreePlace ==
  ASSUME NEW r \in Requests, pc'[r] \in Free
  PROVE  KnowsOutcome(r)'
BY DEF KnowsOutcome, Free, At, Uncredited, PayoutLeg, Crediting, Completing

(* Up to the payout it is known that nobody credited the recipient, and    *)
(* the catch of a throw from there knows it too.                           *)
Early == Uncredited \ PayoutLeg

(* A step from such a place to another, to the catch or to the end, that   *)
(* credits nobody keeps what the request knows.                            *)
LEMMA EarlyPlace ==
  ASSUME NEW r \in Requests, pc[r] \in Early, KnowsOutcome(r), credit' = credit,
         pc'[r] \in (Early \ {"initiate", "markPayoutPending"}) \union {"catch", "release"}
  PROVE  KnowsOutcome(r)'
BY DEF KnowsOutcome, At, Early, Uncredited, PayoutLeg, Crediting, Completing

(* The forward path up to the payout: no credit yet, and the payout is     *)
(* announced only when the escrow paid the treasury                        *)
(* (lib/executor.ts:326-493).                                              *)
LEMMA ForwardTrue ==
  ASSUME TypeOK, RowIsTrue, NEW r \in Requests, SawTruth(r), KnowsOutcome(r), ForwardStep(r),
         pc[r] \notin PayoutLeg
  PROVE  KeptTrue(r)
<1> USE DEF chain, At
<1>0. row \in Rows /\ pc \in [Requests -> Labels]
  BY DEF TypeOK
<1>a. Forward \union Undo \union {"release"} \subseteq Leased \ {"reconcile"}
  BY DEF Leased, Forward, Undo
<1>b. ASSUME NEW to \in PAYMENT_STATES, NEW ok, NEW err, Transition(r, to, row, ok, err)
      PROVE  pc'[r] = err \/ (pc'[r] = ok /\ row'.status = to)
  BY <1>0, <1>b, MoveShape
<1>c. ASSUME NEW l \in Forward \union {"catch", "release"}, Go(r, l), UNCHANGED <<row, credit, chain, mem, bridged>>,
             KnowsOutcome(r)'
      PROVE  KeptTrue(r)
  BY <1>a, <1>c, QuietTrue DEF Undo
<1>1. CASE CheckLiquidity(r)
  <2>1. CASE Transition(r, "FAILED", row, "release", "release")
    <3>1. pc'[r] = "release"
      BY <1>b, <2>1 DEF PAYMENT_STATES
    <3> QED BY <1>1, <1>a, <2>1, <3>1, FreePlace, PlainMove DEF CheckLiquidity, Free, Released
  <2>2. CASE \E l \in {"reserve", "release", "recallFailed"} : Go(r, l) /\ UNCHANGED <<row, mem>>
    <3>1. PICK l \in {"reserve", "release", "recallFailed"} : Go(r, l)
      BY <2>2
    <3>2. KnowsOutcome(r)'
      BY <1>0, <1>1, <3>1, EarlyPlace DEF CheckLiquidity, Go, Early, Uncredited, PayoutLeg
    <3> QED BY <1>1, <1>c, <2>2, <3>1, <3>2 DEF CheckLiquidity, Forward
  <2> QED BY <1>1, <2>1, <2>2 DEF CheckLiquidity
<1>2. CASE FailRecall(r)
  <2>1. pc'[r] = "release"
    BY <1>2, <1>b DEF FailRecall, Step, PAYMENT_STATES
  <2> QED BY <1>2, <1>a, <2>1, FreePlace, PlainMove DEF FailRecall, Step, Free, Released
<1>3. CASE Reserve(r)
  <2>1. PICK l \in {"markReserved", "release"} : Go(r, l)
    BY <1>3 DEF Reserve, Write
  <2>2. KnowsOutcome(r)'
    BY <1>0, <1>3, <2>1, EarlyPlace DEF Reserve, Go, Early, Uncredited, PayoutLeg
  <2> QED BY <1>3, <1>c, <2>1, <2>2 DEF Reserve, Forward
<1>4. CASE MarkReserved(r)
  <2>1. pc'[r] = "release" \/ (pc'[r] = "initiate" /\ row'.status = "LIQUIDITY_RESERVED")
    BY <1>4, <1>b DEF MarkReserved, Step, PAYMENT_STATES
  <2>2. KnowsOutcome(r)'
    BY <1>4, <2>1
       DEF MarkReserved, Step, KnowsOutcome, Uncredited, PayoutLeg, Crediting, Completing
  <2> QED BY <1>4, <1>a, <2>2, PlainMove DEF MarkReserved, Step, Forward, Released
<1>5. CASE Initiate(r) \/ Settle(r)
  <2>1. PICK l \in {"awaitInitiate", "awaitSettle", "catch"} : Go(r, l)
    BY <1>5 DEF Initiate, Settle, Call
  <2>2. KnowsOutcome(r)'
    BY <1>0, <1>5, <2>1, EarlyPlace DEF Initiate, Settle, Call, Go, Early, Uncredited, PayoutLeg
  <2>3. \A c \in EscrowCalls : escrowTx'[c] = escrowTx[c] \/ escrowTx'[c] = "pending"
    BY <1>5 DEF Initiate, Settle, Call, TypeOK, EscrowCalls
  <2>4. \/ escrowTx'["initiatePayment"] = escrowTx["initiatePayment"]
        \/ row.status \notin CANCELLABLE_STATES \union {"CANCELLED"}
    BY <1>5 DEF Initiate, Settle, Call, KnowsOutcome, CANCELLABLE_STATES, TypeOK, EscrowCalls
  <2>5. UNCHANGED <<row, credit, escrow, payoutTx, compTx, mem, bridged>>
    BY <1>5 DEF Initiate, Settle, Call
  <2> QED BY <1>a, <2>1, <2>2, <2>3, <2>4, <2>5, QuietTrue DEF Forward, Undo
<1>6. ASSUME NEW l \in {"awaitInitiate", "markConfirmed"}, NEW mined,
             NEW to \in {"SUBMITTED_ONCHAIN", "CONFIRMED_ONCHAIN"}, NEW ok \in {"markConfirmed", "settle"},
             OnReceipt(r, l, mined, to, row, ok, "catch")
      PROVE  KeptTrue(r)
  <2>1. pc'[r] \in {ok, "catch"}
    BY <1>0, <1>6, <1>b DEF OnReceipt, Go, PAYMENT_STATES
  <2>2. KnowsOutcome(r)'
    BY <1>6, <2>1, EarlyPlace DEF OnReceipt, Early, Uncredited, PayoutLeg
  <2>3. CASE Transition(r, to, row, ok, "catch")
    BY <1>6, <1>a, <2>2, <2>3, PlainMove DEF OnReceipt, Forward, Undo, Released
  <2>4. CASE UNCHANGED <<row, mem>> /\ Go(r, "catch")
    BY <1>6, <1>c, <2>2, <2>4 DEF OnReceipt
  <2> QED BY <1>6, <2>3, <2>4 DEF OnReceipt
<1>7. CASE MarkSubmitted(r)
  BY <1>6, <1>7 DEF MarkSubmitted
<1>8. CASE MarkConfirmed(r)
  <2>1. OnReceipt(r, "markConfirmed", TRUE, "CONFIRMED_ONCHAIN", row, "settle", "catch")
    BY <1>8 DEF MarkConfirmed, Step, OnReceipt
  <2> QED BY <1>6, <2>1
<1>9. CASE MarkConverted(r)
  <2>1. CASE Transition(r, "FX_OR_SWAP_COMPLETED", row, "markPayoutPending", "catch")
             /\ escrowTx["settlePayment"] = "success"
    <3>1. escrow = "SETTLED" /\ UNCHANGED <<escrow, credit>> /\ pc[r] = "awaitSettle"
      BY <1>9, <2>1 DEF MarkConverted, OnReceipt, RowIsTrue
    <3>2. pc'[r] \in {"markPayoutPending", "catch"}
      BY <1>b, <2>1 DEF PAYMENT_STATES
    <3>3. KnowsOutcome(r)'
      BY <3>1, <3>2 DEF KnowsOutcome, Uncredited, PayoutLeg, Crediting, Completing
    <3> QED BY <1>9, <1>a, <2>1, <3>1, <3>3, PlainMove DEF MarkConverted, OnReceipt, Forward, Undo
  <2>2. CASE UNCHANGED <<row, mem>> /\ Go(r, "catch")
    <3>1. KnowsOutcome(r)'
      BY <1>0, <1>9, <2>2, EarlyPlace DEF MarkConverted, OnReceipt, Go, Early, Uncredited, PayoutLeg
    <3> QED BY <1>9, <1>c, <2>2, <3>1 DEF MarkConverted, OnReceipt
  <2> QED BY <1>9, <2>1, <2>2 DEF MarkConverted, OnReceipt
<1>10. CASE MarkPayoutPending(r)
  <2> DEFINE next == IF bridged THEN "payout" ELSE "credit"
  <2>1. Transition(r, "PAYOUT_PENDING", row, next, "catch") /\ pc[r] = "markPayoutPending"
        /\ UNCHANGED <<credit, chain, bridged>> /\ escrow = "SETTLED"
    BY <1>10 DEF MarkPayoutPending, Step, KnowsOutcome
  <2>2. pc'[r] = "catch" \/ (pc'[r] = next /\ row'.status = "PAYOUT_PENDING")
    BY <1>b, <2>1 DEF PAYMENT_STATES
  <2>3. KnowsOutcome(r)'
    BY <2>1, <2>2 DEF KnowsOutcome, Backed, Uncredited, PayoutLeg, Crediting, Completing
  <2>4. next \in Forward
    BY DEF Forward
  <2> HIDE DEF next
  <2> QED BY <1>a, <2>1, <2>3, <2>4, PlainMove DEF Undo
<1> QED BY <1>1, <1>2, <1>3, <1>4, <1>5, <1>7, <1>8, <1>9, <1>10
        DEF ForwardStep, PayoutLeg, Payout, PersistPayout, AwaitPayout, Credit, Consume,
            MarkSettled, Step

(* The payout leg: the hash the row keeps is the one whose transfer was    *)
(* mined before the credit (lib/executor.ts:493-565).                      *)
LEMMA PayoutTrue ==
  ASSUME TypeOK, RowIsTrue, NEW r \in Requests, SawTruth(r), KnowsOutcome(r), ForwardStep(r),
         pc[r] \in PayoutLeg
  PROVE  KeptTrue(r)
<1> USE DEF chain, At
<1>0. /\ row \in Rows /\ pc \in [Requests -> Labels] /\ mem \in [Requests -> Views]
      /\ payoutTx \in [Requests -> TxStates]
  BY DEF TypeOK
<1>1. row.status = "PAYOUT_PENDING" /\ escrow = "SETTLED"
  BY DEF KnowsOutcome
<1>2. PayoutLeg \union {"catch", "release"} \subseteq Leased \ {"reconcile"}
  BY DEF PayoutLeg, Leased, Forward, Undo
<1>3. r # None
  BY RequestsAssumption
<1>4. CASE Payout(r)
  <2>1. ~credit /\ UNCHANGED <<row, credit, escrow, escrowTx, compTx, bridged>>
    BY <1>4 DEF Payout, KnowsOutcome, Uncredited
  <2>2. \/ pc'[r] = "persistPayout" /\ mem'[r].destHash = r /\ mem'[r].status = mem[r].status
        \/ pc'[r] = "catch" /\ mem' = mem
    BY <1>0, <1>4 DEF Payout, Go, Views
  <2>3. KnowsOutcome(r)'
    BY <1>1, <2>1, <2>2 DEF KnowsOutcome, Uncredited, PayoutLeg, Crediting, Completing
  <2>4. SawTruth(r)'
    BY <1>1, <2>1, <2>2 DEF SawTruth
  <2>5. RowIsTrue'
    BY <1>1, <2>1 DEF RowIsTrue, TerminalMatchesMoney
  <2> QED BY <2>1, <2>3, <2>4, <2>5 DEF KeptTrue
<1>5. CASE PersistPayout(r)
  <2> DEFINE new == [row EXCEPT !.destHash = r]
  <2>1. new.status = row.status /\ new.destHash = r /\ View(new).destHash = r
        /\ View(new).status = row.status
    BY <1>0 DEF Rows, View
  <2>2. /\ pc[r] = "persistPayout" /\ ~credit /\ mem[r].destHash = r
        /\ Update(r, new, "awaitPayout", "catch")
        /\ UNCHANGED <<credit, escrow, escrowTx, payoutTx, compTx, bridged>>
    BY <1>5 DEF PersistPayout, KnowsOutcome, Uncredited
  <2> HIDE DEF new
  <2>3. row' = row \/ (row'.status = row.status /\ row'.destHash = r)
    BY <2>1, <2>2 DEF Update
  <2>4. \/ pc'[r] = "awaitPayout" /\ row'.destHash = r /\ mem'[r].destHash = r
           /\ mem'[r].status = row.status
        \/ pc'[r] = "catch" /\ mem' = mem
    BY <1>0, <2>1, <2>2 DEF Update, See, Go
  <2>5. RowIsTrue'
    BY <1>1, <2>2, <2>3 DEF RowIsTrue, TerminalMatchesMoney
  <2>6. SawTruth(r)'
    BY <1>1, <2>2, <2>4 DEF SawTruth
  <2>7. KnowsOutcome(r)'
    BY <1>1, <2>2, <2>3, <2>4 DEF KnowsOutcome, Uncredited, PayoutLeg, Crediting, Completing
  <2> QED BY <2>2, <2>5, <2>6, <2>7 DEF KeptTrue
<1>6. CASE AwaitPayout(r)
  <2>1. /\ pc[r] = "awaitPayout" /\ ~credit /\ mem[r].destHash = r /\ row.destHash = r
        /\ UNCHANGED <<row, credit, chain, mem, bridged>>
    BY <1>6 DEF AwaitPayout, KnowsOutcome, Uncredited
  <2>2. PICK l \in {"credit", "catch"} : Go(r, l) /\ (l = "credit" => payoutTx[r] = "success")
    BY <1>6 DEF AwaitPayout
  <2>3. KnowsOutcome(r)'
    BY <1>0, <1>1, <1>3, <2>1, <2>2
       DEF Go, KnowsOutcome, Backed, Uncredited, PayoutLeg, Crediting, Completing
  <2> QED BY <1>2, <2>1, <2>2, <2>3, QuietTrue DEF PayoutLeg
<1>7. CASE Credit(r) \/ Consume(r)
  <2>1. /\ pc[r] \in {"credit", "consume"} /\ Backed(r)
        /\ bridged => row.destHash = mem[r].destHash
        /\ UNCHANGED <<row, chain, mem, bridged>>
    BY <1>7 DEF Credit, Consume, KnowsOutcome, Crediting
  <2>2. /\ pc'[r] \in {"consume", "markSettled", "catch"}
        /\ pc'[r] \in {"consume", "markSettled"} => credit'
        /\ credit => credit'
    BY <1>0, <1>7 DEF Credit, Consume, Write, Go, KnowsOutcome, Crediting
  <2>3. KnowsOutcome(r)'
    BY <1>1, <2>1, <2>2
       DEF KnowsOutcome, Backed, Uncredited, PayoutLeg, Crediting, Completing
  <2>4. SawTruth(r)'
    BY <1>1, <2>1, <2>2 DEF SawTruth
  <2>5. RowIsTrue'
    BY <1>1, <2>1, <2>2 DEF RowIsTrue, TerminalMatchesMoney, CANCELLABLE_STATES
  <2> QED BY <2>1, <2>3, <2>4, <2>5 DEF KeptTrue
<1>8. CASE MarkSettled(r)
  <2>1. /\ pc[r] = "markSettled" /\ Backed(r) /\ credit
        /\ bridged => row.destHash = mem[r].destHash
        /\ Transition(r, "SETTLED", row, "release", "catch")
        /\ UNCHANGED <<credit, chain, bridged>>
    BY <1>8 DEF MarkSettled, Step, KnowsOutcome, Crediting
  <2>2. /\ pc'[r] \in {"release", "catch"}
        /\ pc'[r] = "catch" => mem' = mem
    BY <1>0, <2>1, MoveShape DEF PAYMENT_STATES
  <2>3. KnowsOutcome(r)'
    BY <2>1, <2>2 DEF KnowsOutcome, Backed, Uncredited, PayoutLeg, Crediting, Completing
  <2>4. bridged => row.destHash \in Requests /\ payoutTx[row.destHash] = "success"
    BY <1>0, <2>1 DEF Backed, Views, Hashes
  <2> QED BY <1>0, <1>2, <2>1, <2>3, <2>4, MoveTrue
          DEF Backed, PAYMENT_STATES, CANCELLABLE_STATES, Released
<1> QED BY <1>4, <1>5, <1>6, <1>7, <1>8
        DEF ForwardStep, CheckLiquidity, FailRecall, Reserve, MarkReserved, Initiate,
            MarkSubmitted, MarkConfirmed, Settle, MarkConverted, MarkPayoutPending, Step,
            OnReceipt, Call, PayoutLeg

(* The catch: it completes only what the chain says was paid, and undoes   *)
(* only what the escrow says is there (lib/executor.ts:566-703).           *)
LEMMA UndoTrue ==
  ASSUME TypeOK, RowIsTrue, NEW r \in Requests, SawTruth(r), KnowsOutcome(r), UndoStep(r)
  PROVE  KeptTrue(r)
<1> USE DEF chain, At
<1>0. /\ row \in Rows /\ pc \in [Requests -> Labels] /\ mem \in [Requests -> Views]
  BY DEF TypeOK
<1>a. Undo \union {"release", "priorComp"} \subseteq Leased \ {"reconcile"}
  BY DEF Leased, Undo, Compensation
<1>b. ASSUME NEW to \in PAYMENT_STATES, NEW base \in Rows, NEW ok, NEW err,
             Transition(r, to, base, ok, err)
      PROVE  pc'[r] = err \/ (pc'[r] = ok /\ row'.status = to)
  BY <1>b, MoveShape
<1>c. ASSUME NEW l \in Undo \union {"release", "priorComp"}, Go(r, l),
             UNCHANGED <<row, credit, chain, mem, bridged>>, KnowsOutcome(r)'
      PROVE  KeptTrue(r)
  BY <1>a, <1>c, QuietTrue
<1>1. CASE Catch(r)
  <2>1. PICK l \in {"release", "fwdCredit", "resolvePayout", "unwind"} :
          Go(r, l) /\ (l = "fwdCredit" => credit)
    BY <1>1 DEF Catch, Decide, Thrown
  <2>2. KnowsOutcome(r)'
    BY <1>0, <1>1, <2>1
       DEF Catch, Decide, Go, KnowsOutcome, Backed, Uncredited, PayoutLeg, Crediting, Completing
  <2> QED BY <1>1, <1>c, <2>1, <2>2 DEF Catch, Decide, Undo
<1>2. CASE ResolvePayout(r)
  <2>1. PICK l \in {"release", "fwdCredit", "unwind"} :
          Go(r, l) /\ (l = "fwdCredit" => payoutTx[mem[r].destHash] = "success")
    BY <1>2 DEF ResolvePayout, Decide, AfterPayoutOutcome, Outcomes
  <2>2. mem[r].destHash # None /\ escrow = "SETTLED" /\ UNCHANGED <<escrow, payoutTx, bridged, mem>>
    BY <1>2 DEF ResolvePayout, SawTruth, Decide
  <2>3. KnowsOutcome(r)'
    BY <1>0, <2>1, <2>2
       DEF Go, KnowsOutcome, Backed, Uncredited, PayoutLeg, Crediting, Completing
  <2> QED BY <1>2, <1>c, <2>1, <2>3 DEF ResolvePayout, Decide, Undo
<1>3. CASE ReleaseReservation(r)
  <2>1. KnowsOutcome(r)'
    BY <1>0, <1>3, FreePlace DEF ReleaseReservation, Go, Free
  <2> QED BY <1>3, <1>c, <2>1 DEF ReleaseReservation, Undo
<1>4. CASE ReadEscrow(r)
  <2>1. PICK l \in {"compensate", "refund", "fail"} :
          Go(r, l) /\ (l = "compensate" => escrow = "SETTLED")
    BY <1>4 DEF ReadEscrow, Decide, UndoFor, EscrowReads, SawTruth, Released
  <2>2. UNCHANGED <<escrow>>
    BY <1>4 DEF ReadEscrow, Decide
  <2>3. KnowsOutcome(r)'
    BY <1>0, <2>1, <2>2 DEF Go, KnowsOutcome, Uncredited, PayoutLeg, Crediting, Completing
  <2> QED BY <1>4, <1>c, <2>1, <2>3 DEF ReadEscrow, Decide, Undo
<1>5. CASE CompensateSender(r)
  <2>1. pc'[r] = "release" \/ (pc'[r] = "priorComp" /\ row'.status = "COMPENSATION_PENDING")
    BY <1>0, <1>5, <1>b DEF CompensateSender, Step, PAYMENT_STATES
  <2>2. KnowsOutcome(r)'
    BY <2>1 DEF KnowsOutcome, Uncredited, PayoutLeg, Crediting, Completing
  <2>3. escrow = "SETTLED"
    BY <1>5 DEF CompensateSender, Step, KnowsOutcome
  <2> QED BY <1>5, <1>a, <2>2, <2>3, PlainMove DEF CompensateSender, Step
<1>6. CASE Refund(r)
  <2>1. PICK l \in {"awaitRefund", "fail"} : Go(r, l)
    BY <1>6 DEF Refund, Call
  <2>2. KnowsOutcome(r)'
    BY <1>0, <2>1, FreePlace DEF Go, Free
  <2>3. /\ \A c \in EscrowCalls : escrowTx'[c] = escrowTx[c] \/ escrowTx'[c] = "pending"
        /\ escrowTx'["initiatePayment"] = escrowTx["initiatePayment"]
    BY <1>6 DEF Refund, Call, TypeOK, EscrowCalls
  <2> QED BY <1>6, <1>a, <2>1, <2>2, <2>3, QuietTrue DEF Refund, Call, Undo
<1>7. CASE MarkFailed(r)
  <2>1. CASE /\ escrowTx["failAndRefund"] = "success"
             /\ Transition(r, "FAILED", row, "markRefunded", "fail")
    <3>1. escrow = "REFUNDED" /\ UNCHANGED <<credit, chain, bridged>>
      BY <1>7, <2>1 DEF RowIsTrue, MarkFailed, OnReceipt
    <3>2. pc'[r] \in {"markRefunded", "fail"}
      BY <1>0, <1>b, <2>1 DEF PAYMENT_STATES
    <3>3. KnowsOutcome(r)'
      BY <3>1, <3>2 DEF KnowsOutcome, Uncredited, PayoutLeg, Crediting, Completing
    <3> QED BY <1>a, <2>1, <3>1, <3>3, PlainMove DEF Undo, Released
  <2>2. CASE UNCHANGED <<row, mem>> /\ Go(r, "fail")
    <3>1. KnowsOutcome(r)'
      BY <1>0, <2>2, FreePlace DEF Go, Free
    <3> QED BY <1>7, <1>c, <2>2, <3>1 DEF MarkFailed, OnReceipt, Undo
  <2> QED BY <1>7, <2>1, <2>2 DEF MarkFailed, OnReceipt
<1>8. CASE MarkRefunded(r)
  <2>1. pc'[r] \in {"release", "fail"}
    BY <1>0, <1>8, <1>b DEF MarkRefunded, Step, PAYMENT_STATES
  <2>2. KnowsOutcome(r)'
    BY <2>1, FreePlace DEF Free
  <2>3. escrow = "REFUNDED"
    BY <1>8 DEF MarkRefunded, Step, KnowsOutcome
  <2>4. "REFUNDED" \in PAYMENT_STATES \ CANCELLABLE_STATES /\ "REFUNDED" \notin Released
    BY DEF PAYMENT_STATES, CANCELLABLE_STATES, Released
  <2> QED BY <1>0, <1>8, <1>a, <2>2, <2>3, <2>4, MoveTrue DEF MarkRefunded, Step, Undo
<1>9. CASE Fail(r)
  <2>1. CASE Decide(r, "fail", {"release"})
    <3>1. KnowsOutcome(r)'
      BY <1>0, <2>1, FreePlace DEF Decide, Go, Free
    <3> QED BY <1>c, <2>1, <3>1 DEF Decide
  <2>2. CASE Step(r, "fail", "FAILED", row, "release", "release")
    <3>1. pc'[r] = "release"
      BY <1>0, <2>2, <1>b DEF Step, PAYMENT_STATES
    <3> QED BY <1>a, <2>2, <3>1, FreePlace, PlainMove DEF Step, Free, Released
  <2> QED BY <1>9, <2>1, <2>2 DEF Fail
<1>10. CASE ForwardCredit(r) \/ ForwardConsume(r)
  <2>1. Backed(r) /\ UNCHANGED <<row, chain, mem, bridged>> /\ pc[r] \in {"fwdCredit", "fwdConsume"}
    BY <1>10 DEF ForwardCredit, ForwardConsume, KnowsOutcome, Completing
  <2>2. /\ pc'[r] \in {"fwdConsume", "fwdSettle", "release"}
        /\ pc'[r] \in {"fwdConsume", "fwdSettle"} => credit'
        /\ credit => credit'
    BY <1>0, <1>10 DEF ForwardCredit, ForwardConsume, Write, Thrown, Go, KnowsOutcome
  <2>3. KnowsOutcome(r)'
    BY <2>1, <2>2 DEF KnowsOutcome, Backed, Uncredited, PayoutLeg, Crediting, Completing
  <2>4. SawTruth(r)'
    BY <2>1, <2>2 DEF SawTruth, Backed
  <2>5. RowIsTrue'
    BY <2>1, <2>2 DEF RowIsTrue, TerminalMatchesMoney, Backed
  <2> QED BY <2>1, <2>3, <2>4, <2>5 DEF KeptTrue
<1>11. CASE ForwardSettle(r)
  <2> DEFINE base == IF mem[r].destHash # None
                     THEN [row EXCEPT !.destHash = mem[r].destHash] ELSE row
  <2>1. /\ base \in Rows
        /\ base.destHash = IF mem[r].destHash # None THEN mem[r].destHash ELSE row.destHash
    BY <1>0 DEF Rows, Views
  <2>2. /\ Transition(r, "SETTLED", base, "release", "release")
        /\ UNCHANGED <<credit, chain, bridged>>
        /\ Backed(r) /\ credit
    BY <1>11 DEF ForwardSettle, Step, KnowsOutcome, Completing
  <2> HIDE DEF base
  <2>3. pc'[r] = "release"
    BY <1>b, <2>1, <2>2 DEF PAYMENT_STATES
  <2>4. KnowsOutcome(r)'
    BY <2>3, FreePlace DEF Free
  <2>5. bridged => base.destHash \in Requests /\ payoutTx[base.destHash] = "success"
    BY <1>0, <2>1, <2>2 DEF Backed, Views, Hashes
  <2>6. "SETTLED" \in PAYMENT_STATES \ CANCELLABLE_STATES /\ "SETTLED" \notin Released
    BY DEF PAYMENT_STATES, CANCELLABLE_STATES, Released
  <2> QED BY <1>a, <2>1, <2>2, <2>4, <2>5, <2>6, MoveTrue DEF Backed
<1> QED BY <1>1, <1>2, <1>3, <1>4, <1>5, <1>6, <1>7, <1>8, <1>9, <1>10, <1>11 DEF UndoStep

(* The compensation: the hash that a COMPENSATED row keeps was mined       *)
(* (lib/executor.ts:764-925).                                              *)
LEMMA CompensationTrue ==
  ASSUME TypeOK, RowIsTrue, NEW r \in Requests, SawTruth(r), KnowsOutcome(r), CompensationStep(r)
  PROVE  KeptTrue(r)
<1> USE DEF chain, At
<1>0. /\ row \in Rows /\ pc \in [Requests -> Labels] /\ mem \in [Requests -> Views]
  BY DEF TypeOK
<1>a. Compensation \union {"release"} \subseteq Leased \ {"reconcile"}
  BY DEF Leased, Compensation
<1>b. "COMPENSATED" \in PAYMENT_STATES \ CANCELLABLE_STATES /\ "COMPENSATED" \notin Released
  BY DEF PAYMENT_STATES, CANCELLABLE_STATES, Released
<1>c. row.status = "COMPENSATION_PENDING" => escrow = "SETTLED"
  BY DEF RowIsTrue, Released
<1>d. r # None
  BY RequestsAssumption
<1> DEFINE withHash(h) == [row EXCEPT !.compHash = h]
<1>e. \A h \in Hashes : /\ withHash(h) \in Rows /\ withHash(h).compHash = h
                        /\ withHash(h).status = row.status /\ withHash(h).destHash = row.destHash
  BY <1>0 DEF Rows
<1>f. r \in Hashes /\ mem[r].compHash \in Hashes
  BY <1>0 DEF Hashes, Views
<1>1. CASE PriorCompensation(r)
  <2>1. PICK l \in {"sendComp", "confirmComp", "release"} :
          /\ Go(r, l)
          /\ l = "confirmComp" => mem[r].compHash # None /\ compTx[mem[r].compHash] = "success"
    BY <1>1 DEF PriorCompensation, Decide, Outcomes
  <2>2. /\ pc[r] = "priorComp" /\ row.status = "COMPENSATION_PENDING"
        /\ UNCHANGED <<row, credit, chain, mem, bridged>>
    BY <1>1 DEF PriorCompensation, Decide, KnowsOutcome
  <2>3. KnowsOutcome(r)'
    BY <1>0, <2>1, <2>2 DEF Go, KnowsOutcome, Uncredited, PayoutLeg, Crediting, Completing
  <2> QED BY <1>a, <2>1, <2>2, <2>3, QuietTrue DEF Compensation
<1>2. CASE SendCompensation(r)
  <2>1. /\ row.status = "COMPENSATION_PENDING"
        /\ UNCHANGED <<row, credit, escrow, escrowTx, payoutTx, bridged>>
    BY <1>2 DEF SendCompensation, KnowsOutcome
  <2>2. \/ pc'[r] = "persistComp" /\ mem'[r].compHash = r
        \/ pc'[r] = "catchComp"
    BY <1>0, <1>2 DEF SendCompensation, Go, Views
  <2>3. mem'[r].status = mem[r].status /\ mem'[r].destHash = mem[r].destHash
    BY <1>0, <1>2 DEF SendCompensation, Views
  <2>4. KnowsOutcome(r)'
    BY <2>1, <2>2 DEF KnowsOutcome, Uncredited, PayoutLeg, Crediting, Completing
  <2>5. SawTruth(r)'
    BY <2>1, <2>2, <2>3 DEF SawTruth
  <2>6. RowIsTrue'
    BY <2>1 DEF RowIsTrue, TerminalMatchesMoney
  <2> QED BY <2>1, <2>4, <2>5, <2>6 DEF KeptTrue
<1>3. CASE PersistCompensation(r)
  <2>1. /\ row.status = "COMPENSATION_PENDING" /\ mem[r].compHash = r
        /\ Update(r, withHash(r), "awaitComp", "catchComp")
        /\ UNCHANGED <<credit, escrow, escrowTx, payoutTx, compTx, bridged>>
    BY <1>3 DEF PersistCompensation, KnowsOutcome
  <2>2. /\ View(withHash(r)).compHash = r /\ View(withHash(r)).status = row.status
        /\ View(withHash(r)).destHash = row.destHash
    BY <1>e, <1>f DEF View
  <2> HIDE DEF withHash
  <2>3. row'.status = row.status /\ row'.destHash = row.destHash
    BY <1>e, <1>f, <2>1 DEF Update
  <2>4. \/ /\ pc'[r] = "awaitComp" /\ mem'[r].compHash = r
           /\ mem'[r].status = row.status /\ mem'[r].destHash = row.destHash
        \/ pc'[r] = "catchComp" /\ mem' = mem
    BY <1>0, <2>1, <2>2 DEF Update, See, Go
  <2>5. RowIsTrue'
    BY <2>1, <2>3 DEF RowIsTrue, TerminalMatchesMoney
  <2>6. SawTruth(r)'
    BY <1>c, <2>1, <2>3, <2>4 DEF SawTruth
  <2>7. KnowsOutcome(r)'
    BY <2>1, <2>3, <2>4 DEF KnowsOutcome, Uncredited, PayoutLeg, Crediting, Completing
  <2> QED BY <2>1, <2>5, <2>6, <2>7 DEF KeptTrue
<1>4. CASE MarkCompensated(r)
  <2>1. CASE compTx[r] = "success" /\ Transition(r, "COMPENSATED", withHash(r), "release", "catchComp")
    <3> HIDE DEF withHash
    <3>1. pc'[r] \in {"release", "catchComp"}
      BY <1>b, <1>e, <1>f, <2>1, MoveShape
    <3>2. KnowsOutcome(r)'
      BY <3>1, FreePlace DEF Free
    <3>3. UNCHANGED <<credit, chain, bridged>>
      BY <1>4 DEF MarkCompensated, OnReceipt
    <3> QED BY <1>a, <1>b, <1>e, <1>f, <2>1, <3>2, <3>3, MoveTrue DEF Compensation
  <2>2. CASE UNCHANGED <<row, mem>> /\ Go(r, "catchComp")
    <3>1. KnowsOutcome(r)'
      BY <1>0, <2>2, FreePlace DEF Go, Free
    <3> QED BY <1>4, <1>a, <2>2, <3>1, QuietTrue DEF MarkCompensated, OnReceipt, Compensation
  <2> QED BY <1>4, <2>1, <2>2 DEF MarkCompensated, OnReceipt
<1>5. CASE CatchCompensation(r)
  <2>1. PICK l \in {"release", "confirmComp"} :
          /\ Go(r, l)
          /\ l = "confirmComp" => mem[r].compHash # None /\ compTx[mem[r].compHash] = "success"
    BY <1>5 DEF CatchCompensation, Outcomes
  <2>2. UNCHANGED <<credit, chain, mem, bridged>>
    BY <1>5 DEF CatchCompensation
  <2>3. row' = row \/ (row.compHash = None /\ row' = withHash(mem[r].compHash))
    BY <1>5 DEF CatchCompensation
  <2>4. KnowsOutcome(r)'
    BY <1>0, <2>1, <2>2 DEF Go, KnowsOutcome, Uncredited, PayoutLeg, Crediting, Completing
  <2> HIDE DEF withHash
  <2>5. /\ row'.status = row.status /\ row'.destHash = row.destHash
        /\ row'.compHash = row.compHash \/ row.compHash = None
    BY <1>e, <1>f, <2>3
  <2> QED BY <1>a, <2>1, <2>2, <2>4, <2>5, QuietTrue DEF Compensation
<1>6. CASE ConfirmCompensation(r)
  <2>1. /\ mem[r].compHash # None /\ compTx[mem[r].compHash] = "success"
        /\ Transition(r, "COMPENSATED", withHash(mem[r].compHash), "release", "release")
        /\ UNCHANGED <<credit, chain, bridged>>
    BY <1>6 DEF ConfirmCompensation, Step, KnowsOutcome
  <2> HIDE DEF withHash
  <2>2. pc'[r] = "release"
    BY <1>b, <1>e, <1>f, <2>1, MoveShape
  <2>3. KnowsOutcome(r)'
    BY <2>2, FreePlace DEF Free
  <2>4. mem[r].compHash \in Requests
    BY <1>f, <2>1 DEF Hashes
  <2> QED BY <1>a, <1>b, <1>e, <1>f, <2>1, <2>3, <2>4, MoveTrue
<1> QED BY <1>1, <1>2, <1>3, <1>4, <1>5, <1>6 DEF CompensationStep

(* The two operator entry points go by what the chain says of the hash     *)
(* they read before the claim (lib/executor.ts:1013-1189).                 *)
LEMMA OperatorTrue ==
  ASSUME TypeOK, RowIsTrue, NEW r \in Requests, SawTruth(r), KnowsOutcome(r), OperatorStep(r)
  PROVE  KeptTrue(r)
<1> USE DEF chain, At
<1>0. /\ row \in Rows /\ pc \in [Requests -> Labels] /\ mem \in [Requests -> Views]
  BY DEF TypeOK
<1>a. {"release", "priorComp", "fwdCredit", "awaitCompensation", "confirmComp"} \subseteq Leased \ {"reconcile"}
  BY DEF Leased, Undo, Compensation
<1>1. CASE Repair(r)
  <2>1. PICK l \in {"priorComp", "release"} : Go(r, l)
    BY <1>1 DEF Repair, Decide
  <2>2. /\ row.status = "COMPENSATION_PENDING"
        /\ UNCHANGED <<row, credit, chain, mem, bridged>>
    BY <1>1 DEF Repair, Decide, KnowsOutcome
  <2>3. KnowsOutcome(r)'
    BY <1>0, <2>1, <2>2 DEF Go, KnowsOutcome, Uncredited, PayoutLeg, Crediting, Completing
  <2> QED BY <1>a, <2>1, <2>2, <2>3, QuietTrue
<1>2. CASE Reconcile(r)
  <2>1. PICK l \in {"fwdCredit", "release", "awaitCompensation", "confirmComp"} :
          /\ Go(r, l)
          /\ l \in {"fwdCredit", "awaitCompensation"} => mem[r].status = "PAYOUT_PENDING"
          /\ l = "fwdCredit" => payoutTx[mem[r].destHash] = "success"
          /\ l = "confirmComp" =>
               mem[r].status = "COMPENSATION_PENDING" /\ compTx[mem[r].compHash] = "success"
    BY <1>2 DEF Reconcile, AfterPayoutOutcome, Outcomes
  <2>2. UNCHANGED <<row, credit, chain, mem, bridged>> /\ pc[r] = "reconcile"
    BY <1>2 DEF Reconcile
  <2>3. /\ mem[r].status = "PAYOUT_PENDING" => mem[r].destHash # None /\ escrow = "SETTLED"
        /\ mem[r].status = "COMPENSATION_PENDING" => mem[r].compHash # None
    BY <2>2 DEF SawTruth, Released
  <2>4. KnowsOutcome(r)'
    BY <1>0, <2>1, <2>2, <2>3
       DEF Go, KnowsOutcome, Backed, Uncredited, PayoutLeg, Crediting, Completing
  <2> QED BY <1>a, <2>1, <2>2, <2>4, QuietTrue
<1>3. CASE AwaitCompensation(r)
  <2>1. /\ Transition(r, "COMPENSATION_PENDING", row, "release", "release")
        /\ UNCHANGED <<credit, chain, bridged>> /\ escrow = "SETTLED"
    BY <1>3 DEF AwaitCompensation, Step, KnowsOutcome
  <2>2. pc'[r] = "release"
    BY <1>0, <2>1, MoveShape DEF PAYMENT_STATES
  <2>3. KnowsOutcome(r)'
    BY <2>2, FreePlace DEF Free
  <2> QED BY <1>a, <2>1, <2>3, PlainMove
<1> QED BY <1>1, <1>2, <1>3 DEF OperatorStep

-----------------------------------------------------------------------------
(* The other requests, and the environment.                                *)

(* A request that stands still outside the lease: what it saw stays true.  *)
LEMMA StandsStill ==
  ASSUME NEW q \in Requests, SawTruth(q), pc[q] \notin Leased, pc'[q] = pc[q], mem'[q] = mem[q],
         escrow = "SETTLED" => escrow' = "SETTLED"
  PROVE  SawTruth(q)' /\ KnowsOutcome(q)'
<1>1. SawTruth(q)'
  BY DEF SawTruth, At
<1>2. KnowsOutcome(q)'
  BY DEF KnowsOutcome, At, Uncredited, PayoutLeg, Crediting, Completing,
         Leased, Forward, Undo, Compensation
<1> QED BY <1>1, <1>2

(* A step inside the lease that keeps its own promises keeps everybody's.  *)
LEMMA HolderTrue ==
  ASSUME Inv, OutcomeInv, NEW r \in Requests, pc[r] \in Leased, KeptTrue(r),
         \A q \in Requests : q # r => pc'[q] = pc[q] /\ mem'[q] = mem[q]
  PROVE  OutcomeInv'
<1>1. \A q \in Requests : q # r => pc[q] \notin Leased
  BY DEF Inv, LeaseInv, SingleAttempt
<1>2. \A q \in Requests : q # r => SawTruth(q)' /\ KnowsOutcome(q)'
  BY <1>1, StandsStill DEF OutcomeInv, KeptTrue
<1> QED BY <1>2 DEF OutcomeInv, KeptTrue

(* A request that stands still while the row keeps its hash and its status,*)
(* or leaves a status nobody inside the lease counts on.                   *)
LEMMA Undisturbed ==
  ASSUME NEW q \in Requests, SawTruth(q), KnowsOutcome(q), pc'[q] = pc[q], mem'[q] = mem[q],
         UNCHANGED <<credit, chain, bridged>>, row'.destHash = row.destHash,
         row'.status = row.status
           \/ row.status \notin {"LIQUIDITY_RESERVED", "PAYOUT_PENDING", "COMPENSATION_PENDING"}
  PROVE  SawTruth(q)' /\ KnowsOutcome(q)'
<1>1. SawTruth(q)'
  BY DEF SawTruth, At, chain
<1>2. Backed(q)' = Backed(q)
  BY DEF Backed, chain
<1>3. KnowsOutcome(q)'
  BY <1>2 DEF KnowsOutcome, At, chain
<1> QED BY <1>1, <1>3

(* The claim: what the handler saw before it is what the row says now      *)
(* (lib/executor.ts:246-270).                                              *)
LEMMA ClaimTrue ==
  ASSUME TypeOK, OutcomeInv, NEW r \in Requests, Claim(r)
  PROVE  OutcomeInv'
<1>1. PICK l \in {"claimExecute", "claimRepair", "claimReconcile"}, ok \in {"liquidity", "repair", "reconcile"} :
        /\ ClaimLease(r, l, ok)
        /\ l = "claimExecute" => ok = "liquidity"
        /\ l = "claimRepair" => ok = "repair"
        /\ l = "claimReconcile" => ok = "reconcile"
  BY DEF Claim
<1>2. pc[r] = l /\ UNCHANGED <<credit, chain, mem, bridged>>
  BY <1>1 DEF ClaimLease, At
<1>3. row'.status = row.status /\ row'.destHash = row.destHash /\ row'.compHash = row.compHash
  BY <1>1 DEF ClaimLease, TypeOK, Rows
<1>4. /\ pc'[r] = "done" \/ (pc'[r] = ok /\ row.status = mem[r].status)
      /\ \A q \in Requests : q # r => pc'[q] = pc[q]
  BY <1>1 DEF ClaimLease, Go, TypeOK
<1>5. RowIsTrue'
  BY <1>2, <1>3 DEF OutcomeInv, RowIsTrue, TerminalMatchesMoney, chain
<1>6. SawTruth(r) /\ KnowsOutcome(r) /\ RowIsTrue
  BY DEF OutcomeInv
<1>7. SawTruth(r)'
  BY <1>1, <1>2, <1>4, <1>6 DEF SawTruth, At, chain
<1>8. KnowsOutcome(r)'
  <2>1. CASE pc'[r] = "done"
    BY <2>1, FreePlace DEF Free
  <2>2. CASE pc'[r] = ok
    <3>1. ok = "liquidity" => ~credit'
      BY <1>1, <1>2, <1>4, <1>6, <2>2 DEF SawTruth, RowIsTrue, At, CANCELLABLE_STATES
    <3>2. ok = "repair" => row'.status = "COMPENSATION_PENDING"
      BY <1>1, <1>2, <1>3, <1>4, <1>6, <2>2 DEF SawTruth, At
    <3> QED BY <2>2, <3>1, <3>2
            DEF KnowsOutcome, At, Uncredited, PayoutLeg, Crediting, Completing
  <2> QED BY <1>4, <2>1, <2>2
<1>9. \A q \in Requests : q # r => SawTruth(q)' /\ KnowsOutcome(q)'
  BY <1>2, <1>3, <1>4, Undisturbed DEF OutcomeInv
<1> QED BY <1>5, <1>7, <1>8, <1>9 DEF OutcomeInv

(* A cancel ends a payment nothing was sent for: no handler inside the     *)
(* lease counts on the status it leaves                                    *)
(* (app/api/payments/[id]/cancel/route.ts:33-41).                          *)
LEMMA CancelTrue ==
  ASSUME TypeOK, OutcomeInv, NEW r \in Requests, CancelPayment(r)
  PROVE  OutcomeInv'
<1>0. row \in Rows /\ RowIsTrue /\ SawTruth(r)
  BY DEF TypeOK, OutcomeInv
<1>1. /\ pc[r] = "cancel" /\ Transition(r, "CANCELLED", row, "done", "done")
      /\ UNCHANGED <<credit, chain, bridged>>
      /\ mem[r].status \in CANCELLABLE_STATES
  BY <1>0 DEF CancelPayment, At, SawTruth
<1>2. /\ pc'[r] = "done"
      /\ \A q \in Requests : q # r => pc'[q] = pc[q] /\ mem'[q] = mem[q]
  BY <1>1 DEF Transition, Go, See, TypeOK
<1>3. row' = row \/ (row.status = mem[r].status /\ row'.destHash = row.destHash)
  BY <1>0, <1>1, MoveShape DEF PAYMENT_STATES
<1>4. \/ row' = row
      \/ row.status \notin {"LIQUIDITY_RESERVED", "PAYOUT_PENDING", "COMPENSATION_PENDING"}
  BY <1>1, <1>3 DEF CANCELLABLE_STATES
<1>5. KnowsOutcome(r)'
  BY <1>2, FreePlace DEF Free
<1>6. "CANCELLED" \in PAYMENT_STATES \ CANCELLABLE_STATES /\ "CANCELLED" \notin Released
  BY DEF PAYMENT_STATES, CANCELLABLE_STATES, Released
<1>7. KeptTrue(r)
  BY <1>0, <1>1, <1>5, <1>6, MoveTrue DEF chain
<1>8. \A q \in Requests : q # r => SawTruth(q)' /\ KnowsOutcome(q)'
  BY <1>1, <1>2, <1>3, <1>4, Undisturbed DEF OutcomeInv
<1> QED BY <1>7, <1>8 DEF OutcomeInv, KeptTrue

(* A handler that arrives sees the row as it is.                           *)
LEMMA ArriveTrue ==
  ASSUME TypeOK, OutcomeInv, NEW r \in Requests, ArriveAny(r)
  PROVE  OutcomeInv'
<1>1. PICK l \in {"claimExecute", "claimRepair", "claimReconcile", "cancel"} :
        /\ Go(r, l)
        /\ l = "claimExecute" => row.status = "APPROVED"
        /\ l = "claimRepair" => row.status = "COMPENSATION_PENDING"
        /\ l = "claimReconcile" =>
             /\ row.status = "PAYOUT_PENDING" => row.destHash # None
             /\ row.status = "COMPENSATION_PENDING" => row.compHash # None
        /\ l = "cancel" => row.status \in CANCELLABLE_STATES
  BY DEF ArriveAny, ExecuteStart, RepairStart, ReconcileStart, CancelStart, Arrive
<1>2. See(r, row) /\ UNCHANGED <<row, credit, chain, bridged>>
  BY DEF ArriveAny, ExecuteStart, RepairStart, ReconcileStart, CancelStart, Arrive
<1>3. /\ mem'[r].status = row.status /\ mem'[r].destHash = row.destHash
      /\ mem'[r].compHash = row.compHash /\ pc'[r] = l
      /\ \A q \in Requests : q # r => pc'[q] = pc[q] /\ mem'[q] = mem[q]
  BY <1>1, <1>2 DEF See, Go, View, TypeOK
<1>4. RowIsTrue'
  BY <1>2 DEF OutcomeInv, RowIsTrue, TerminalMatchesMoney, chain
<1>5. SawTruth(r)'
  BY <1>1, <1>2, <1>3 DEF OutcomeInv, RowIsTrue, SawTruth, At, chain
<1>6. KnowsOutcome(r)'
  BY <1>3 DEF KnowsOutcome, At, Uncredited, PayoutLeg, Crediting, Completing
<1>7. \A q \in Requests : q # r => SawTruth(q)' /\ KnowsOutcome(q)'
  BY <1>2, <1>3, Undisturbed DEF OutcomeInv
<1> QED BY <1>4, <1>5, <1>6, <1>7 DEF OutcomeInv

(* The chains: a final escrow stays final, and a mined transaction stays   *)
(* mined (contracts/PaymentSettlement.sol:102-173).                        *)
LEMMA MineTrue ==
  ASSUME TypeOK, OutcomeInv, Mine
  PROVE  OutcomeInv'
<1> USE DEF Mine, MineInitiate, MineSettle, MineRefund, MineCall, MinePayout, MineCompensation
<1>1. UNCHANGED <<row, credit, pc, mem, bridged>>
  OBVIOUS
<1>2. /\ \A q \in Requests : payoutTx[q] = "success" => payoutTx'[q] = "success"
      /\ \A q \in Requests : compTx[q] = "success" => compTx'[q] = "success"
  BY DEF TypeOK
<1>3. /\ escrow = "SETTLED" => escrow' = "SETTLED"
      /\ escrow = "REFUNDED" => escrow' = "REFUNDED"
      /\ escrow = "NONE" /\ escrowTx["initiatePayment"] = "none" => escrow' = "NONE"
  BY DEF InitiatePayment, SettlePayment, FailAndRefund
<1>4. escrowTx["initiatePayment"] = "none" => escrowTx'["initiatePayment"] = "none"
  BY DEF TypeOK, EscrowCalls
<1>5. /\ escrowTx'["settlePayment"] = "success" =>
           escrowTx["settlePayment"] = "success" \/ escrow' = "SETTLED"
      /\ escrowTx'["failAndRefund"] = "success" =>
           escrowTx["failAndRefund"] = "success" \/ escrow' = "REFUNDED"
  BY DEF TypeOK, EscrowCalls, SettlePayment, FailAndRefund
<1>6. TerminalMatchesMoney'
  BY <1>1, <1>2, <1>3, <1>4 DEF OutcomeInv, RowIsTrue, TerminalMatchesMoney
<1>7. RowIsTrue'
  BY <1>1, <1>3, <1>4, <1>5, <1>6 DEF OutcomeInv, RowIsTrue
<1>8. ASSUME NEW q \in Requests PROVE SawTruth(q)' /\ KnowsOutcome(q)'
  <2>1. SawTruth(q) /\ KnowsOutcome(q) /\ mem[q] \in Views
    BY DEF OutcomeInv, TypeOK
  <2>2. SawTruth(q)'
    BY <1>1, <1>3, <2>1 DEF SawTruth, At
  <2>3. Backed(q) => Backed(q)'
    BY <1>1, <1>2, <1>3, <2>1 DEF Backed, Views, Hashes
  <2>4. mem[q].compHash # None /\ compTx[mem[q].compHash] = "success" =>
          compTx'[mem[q].compHash] = "success"
    BY <1>2, <2>1 DEF Views, Hashes
  <2>5. KnowsOutcome(q)'
    BY <1>1, <1>3, <2>1, <2>3, <2>4 DEF KnowsOutcome, At
  <2> QED BY <2>2, <2>5
<1> QED BY <1>7, <1>8 DEF OutcomeInv

(* A dead request does nothing more.                                       *)
LEMMA CrashTrue ==
  ASSUME TypeOK, OutcomeInv, Crash
  PROVE  OutcomeInv'
<1>1. UNCHANGED <<row, credit, chain, mem, bridged>>
      /\ \A r \in Requests : pc'[r] \in {pc[r], "dead"} /\ pc'[r] \notin Running
  BY DEF Crash, Running, Leased, Forward, Undo, Compensation
<1>2. RowIsTrue'
  BY <1>1 DEF OutcomeInv, RowIsTrue, TerminalMatchesMoney, chain
<1>3. ASSUME NEW r \in Requests PROVE SawTruth(r)' /\ KnowsOutcome(r)'
  <2>1. SawTruth(r)'
    BY <1>1 DEF OutcomeInv, SawTruth, At, Running, Leased, chain
  <2>2. KnowsOutcome(r)'
    BY <1>1 DEF KnowsOutcome, At, Uncredited, PayoutLeg, Crediting, Completing, Running,
                Leased, Forward, Undo, Compensation
  <2> QED BY <2>1, <2>2
<1> QED BY <1>2, <1>3 DEF OutcomeInv

(* An APPROVED payment that nothing was sent for.                          *)
LEMMA InitTrue == Init => OutcomeInv
<1> SUFFICES ASSUME Init PROVE OutcomeInv
  OBVIOUS
<1>1. /\ row.status = "APPROVED" /\ row.destHash = None /\ ~credit /\ escrow = "NONE"
      /\ \A c \in EscrowCalls : escrowTx[c] = "none"
  BY DEF Init
<1>2. RowIsTrue
  BY <1>1 DEF RowIsTrue, TerminalMatchesMoney, Released, EscrowCalls
<1>3. \A r \in Requests : pc[r] = "idle" /\ mem[r].destHash = None /\ mem[r].status = "APPROVED"
  BY DEF Init, View
<1>4. \A r \in Requests : SawTruth(r) /\ KnowsOutcome(r)
  BY <1>3 DEF SawTruth, KnowsOutcome, At, Released, Uncredited, PayoutLeg, Crediting, Completing
<1> QED BY <1>2, <1>4 DEF OutcomeInv

(* Every step keeps OutcomeInv where the lease fence holds.                *)
LEMMA NextTrue ==
  ASSUME Inv, OutcomeInv, [Next]_vars
  PROVE  OutcomeInv'
<1>0. TypeOK
  BY DEF Inv
<1>1. CASE UNCHANGED vars
  BY <1>1 DEF vars, chain, OutcomeInv, RowIsTrue, TerminalMatchesMoney, SawTruth, KnowsOutcome,
              Backed, At
<1>2. ASSUME NEW r \in Requests, ArriveAny(r) PROVE OutcomeInv'
  BY <1>0, <1>2, ArriveTrue
<1>3. ASSUME NEW r \in Requests, Advance(r) PROVE OutcomeInv'
  <2>0. RowIsTrue /\ SawTruth(r) /\ KnowsOutcome(r)
    BY DEF OutcomeInv
  <2>1. CASE Claim(r)
    BY <1>0, <2>1, ClaimTrue
  <2>2. CASE ForwardStep(r) \/ UndoStep(r) \/ CompensationStep(r) \/ OperatorStep(r)
    <3>1. Inside(r)
      BY <1>0, <2>2, ForwardInside, UndoInside, CompensationInside, OperatorInside
    <3>2. pc[r] \in Leased /\ \A q \in Requests : q # r => pc'[q] = pc[q] /\ mem'[q] = mem[q]
      BY <1>0, <2>2, <3>1, OnlyOwnMemory DEF Inside, LeasedStep, Go, TypeOK
    <3>3. KeptTrue(r)
      BY <1>0, <2>0, <2>2, ForwardTrue, PayoutTrue, UndoTrue, CompensationTrue, OperatorTrue
    <3> QED BY <3>2, <3>3, HolderTrue
  <2>3. CASE CancelPayment(r)
    BY <1>0, <2>3, CancelTrue
  <2>4. CASE ReleaseLease(r)
    <3>1. /\ pc[r] \in Leased /\ mem' = mem /\ pc'[r] = "done" /\ Go(r, "done")
          /\ \A q \in Requests : q # r => pc'[q] = pc[q]
      BY <1>0, <2>4 DEF ReleaseLease, At, Go, Leased, TypeOK
    <3>2. /\ row'.status = row.status /\ row'.destHash = row.destHash /\ row'.compHash = row.compHash
          /\ UNCHANGED <<credit, chain, bridged>>
      BY <1>0, <2>4 DEF ReleaseLease, TypeOK, Rows
    <3>3. KeptTrue(r)
      BY <1>0, <2>0, <3>1, <3>2, FreePlace, QuietTrue DEF Free, chain
    <3> QED BY <3>1, <3>3, HolderTrue
  <2> QED BY <1>3, <2>1, <2>2, <2>3, <2>4 DEF Advance
<1>4. CASE Mine
  BY <1>0, <1>4, MineTrue
<1>5. CASE Crash
  BY <1>0, <1>5, CrashTrue
<1>6. CASE Rest
  BY <1>1, <1>6 DEF Rest
<1> QED BY <1>1, <1>2, <1>3, <1>4, <1>5, <1>6 DEF Next

(* What each place of the executor relies on about the escrow, the credit  *)
(* and the hashes holds in every reachable state (lib/executor.ts).        *)
THEOREM OutcomeIsKnown == Spec => []OutcomeInv
<1>1. Init => OutcomeInv
  BY InitTrue
<1>2. Inv /\ OutcomeInv /\ [Next]_vars => OutcomeInv'
  BY NextTrue
<1> QED BY <1>1, <1>2, InvHolds, PTL DEF Spec

(* A payment reports an ending only when the money is there, whatever      *)
(* crashes, overlaps, is lost or fails to be written (lib/executor.ts).    *)
THEOREM EndingsAreTrue == Spec => []TerminalMatchesMoney
<1>1. OutcomeInv => TerminalMatchesMoney
  BY DEF OutcomeInv, RowIsTrue
<1> QED BY <1>1, OutcomeIsKnown, PTL

-----------------------------------------------------------------------------
(* Who broadcasts.                                                         *)

(* A step of a request leaves the two treasury transfers alone unless it   *)
(* is the one that sends (treasuryTokenTransfer has two callers,           *)
(* lib/executor.ts:499-507, 835-845).                                      *)
LEMMA WhoSends ==
  ASSUME TypeOK, NEW r \in Requests, Advance(r)
  PROVE  /\ payoutTx' = payoutTx \/ (Payout(r) /\ payoutTx' = [payoutTx EXCEPT ![r] = "pending"])
         /\ compTx' = compTx \/ (SendCompensation(r) /\ compTx' = [compTx EXCEPT ![r] = "pending"])
<1> USE DEF chain
<1>1. CASE Claim(r) \/ CancelPayment(r) \/ ReleaseLease(r)
  BY <1>1 DEF Claim, ClaimLease, CancelPayment, ReleaseLease
<1>2. CASE ForwardStep(r)
  BY <1>2 DEF ForwardStep, CheckLiquidity, FailRecall, Reserve, MarkReserved, Initiate,
     MarkSubmitted, MarkConfirmed, Settle, MarkConverted, MarkPayoutPending, Payout, PersistPayout,
     AwaitPayout, Credit, Consume, MarkSettled, Step, OnReceipt, Call
<1>3. CASE UndoStep(r)
  BY <1>3 DEF UndoStep, Catch, ResolvePayout, ReleaseReservation, ReadEscrow,
     CompensateSender, Refund, MarkFailed, MarkRefunded, Fail, ForwardCredit, ForwardConsume,
     ForwardSettle, Decide, Step, OnReceipt, Call
<1>4. CASE CompensationStep(r)
  BY <1>4 DEF CompensationStep, PriorCompensation, SendCompensation, PersistCompensation,
     MarkCompensated, CatchCompensation, ConfirmCompensation, Decide, Step, OnReceipt
<1>5. CASE OperatorStep(r)
  BY <1>5 DEF OperatorStep, Repair, Reconcile, AwaitCompensation, Decide, Step
<1> QED BY <1>1, <1>2, <1>3, <1>4, <1>5 DEF Advance

(* Treasury money leaves only under the sender's own lease, at the status  *)
(* that announces the transfer and after the escrow paid the treasury,     *)
(* under any faults and any overlap                                        *)
(* (lib/executor.ts:490-502, 608-616, 835-840, 1049-1060).                 *)
THEOREM TreasuryPaysOnlyUnderLease == Spec => TreasuryMoves
<1>1. ASSUME Inv, OutcomeInv, [Next]_vars PROVE [TreasuryPaysUnderLease]_vars
  <2>0. TypeOK
    BY <1>1 DEF Inv
  <2>1. CASE UNCHANGED vars
    BY <2>1
  <2>2. ASSUME NEW q \in Requests, ArriveAny(q) PROVE TreasuryPaysUnderLease
    <3>1. UNCHANGED chain
      BY <2>2 DEF ArriveAny, ExecuteStart, RepairStart, ReconcileStart, CancelStart, Arrive
    <3> QED BY <3>1 DEF TreasuryPaysUnderLease, Broadcast, chain
  <2>3. ASSUME NEW q \in Requests, Advance(q) PROVE TreasuryPaysUnderLease
    <3>1. ASSUME NEW r \in Requests, Broadcast(payoutTx, r)
          PROVE  row.lease = r /\ row.status = "PAYOUT_PENDING" /\ escrow = "SETTLED"
      <4>1. Payout(r) /\ q = r
        BY <2>0, <2>3, <3>1, WhoSends DEF Broadcast, TypeOK
      <4>2. row.status = "PAYOUT_PENDING" /\ escrow = "SETTLED" /\ pc[r] \in Leased
        BY <1>1, <4>1 DEF Payout, At, OutcomeInv, KnowsOutcome, PayoutLeg, Leased, Forward
      <4> QED BY <1>1, <4>2 DEF Inv, LeaseInv, LeaseFence, LEASE_RELEASE_STATES, TERMINAL_STATES
    <3>2. ASSUME NEW r \in Requests, Broadcast(compTx, r)
          PROVE  row.lease = r /\ row.status = "COMPENSATION_PENDING" /\ escrow = "SETTLED"
      <4>1. SendCompensation(r) /\ q = r
        BY <2>0, <2>3, <3>2, WhoSends DEF Broadcast, TypeOK
      <4>2. row.status = "COMPENSATION_PENDING" /\ pc[r] \in Leased
        BY <1>1, <4>1 DEF SendCompensation, At, OutcomeInv, KnowsOutcome, Leased, Compensation
      <4>3. escrow = "SETTLED"
        BY <1>1, <4>2 DEF OutcomeInv, RowIsTrue, Released
      <4> QED BY <1>1, <4>2, <4>3
              DEF Inv, LeaseInv, LeaseFence, LEASE_RELEASE_STATES, TERMINAL_STATES
    <3> QED BY <3>1, <3>2 DEF TreasuryPaysUnderLease
  <2>4. CASE Mine
    <3>1. \A r \in Requests : /\ payoutTx[r] = "none" => payoutTx'[r] = "none"
                              /\ compTx[r] = "none" => compTx'[r] = "none"
      BY <2>0, <2>4 DEF Mine, MineInitiate, MineSettle, MineRefund, MineCall, MinePayout,
                        MineCompensation, TypeOK
    <3> QED BY <3>1 DEF TreasuryPaysUnderLease, Broadcast
  <2>5. CASE Crash
    BY <2>5 DEF Crash, TreasuryPaysUnderLease, Broadcast, chain
  <2> QED BY <1>1, <2>1, <2>2, <2>3, <2>4, <2>5 DEF Next, Rest
<1>2. Inv /\ OutcomeInv /\ [Next]_vars => [TreasuryPaysUnderLease]_vars
  BY <1>1
<1> QED BY <1>2, InvHolds, OutcomeIsKnown, PTL DEF Spec, TreasuryMoves

-----------------------------------------------------------------------------
(* The payout.                                                             *)

(* What a step of r owes: the shared facts, and r's own.                   *)
Kept(r) ==
  MoneyKnown' /\ Seen(r)' /\ Knows(r)' /\ Sent(payoutTx) \subseteq Sent(payoutTx)'

(* A step that changes neither the payout, the escrow, the credit nor the  *)
(* part of the row that speaks of them.                                    *)
LEMMA QuietMoney ==
  ASSUME TypeOK, MoneyKnown, NEW r \in Requests, Seen(r),
         NEW l \in (Leased \ {"reconcile"}) \union {"done"}, Go(r, l),
         row'.status = row.status, row'.destHash = row.destHash,
         UNCHANGED <<credit, escrow, payoutTx, compTx, mem, bridged>>,
         escrowTx'["settlePayment"] = "success" => escrowTx["settlePayment"] = "success",
         Knows(r)'
  PROVE  Kept(r)
<1>1. MoneyKnown'
  BY DEF MoneyKnown, NotDelivered, Sent
<1>2. Seen(r)'
  BY DEF Seen, Sent, Go, At, TypeOK, Leased, Forward, Undo, Compensation
<1>3. Sent(payoutTx) \subseteq Sent(payoutTx)'
  BY DEF Sent
<1> QED BY <1>1, <1>2, <1>3 DEF Kept

(* COMPENSATED is entered from COMPENSATION_PENDING, and nothing else      *)
(* follows that status (TRANSITIONS, lib/state.ts:26-52).                  *)
LEMMA CompensationMoves ==
  ASSUME NEW s \in PAYMENT_STATES, NEW t \in PAYMENT_STATES, CanTransition(s, t)
  PROVE  /\ s \in CompensationStates => t = "COMPENSATED"
         /\ t = "COMPENSATED" => s = "COMPENSATION_PENDING"
BY DEF CanTransition, TRANSITIONS, CompensationStates, PAYMENT_STATES

(* A transitionStatus inside the lease: it enters COMPENSATION_PENDING     *)
(* only when the recipient got nothing, and leaves it only for COMPENSATED.*)
LEMMA MoveMoney ==
  ASSUME TypeOK, MoneyKnown, NEW r \in Requests, Seen(r),
         NEW to \in PAYMENT_STATES \ {"APPROVED"}, NEW base \in Rows,
         base.status = row.status, base.destHash \in {row.destHash, mem[r].destHash},
         to = "COMPENSATION_PENDING" => NotDelivered,
         NEW ok \in (Leased \ {"reconcile"}) \union {"done"},
         NEW err \in (Leased \ {"reconcile"}) \union {"done"},
         Transition(r, to, base, ok, err),
         UNCHANGED <<credit, escrow, escrowTx, payoutTx, compTx, bridged>>,
         Knows(r)'
  PROVE  Kept(r)
<1> DEFINE moved == Moved(base, to)
<1>1. moved.status = to /\ moved.destHash = base.destHash /\ View(moved).destHash = base.destHash
      /\ View(moved).status = to
  BY DEF Moved, Rows, View
<1> HIDE DEF moved
<1>2. \/ row' = row
      \/ row' = moved /\ row.status = mem[r].status /\ CanTransition(row.status, to)
  BY DEF Transition, moved
<1>3. mem' = mem \/ (mem' = [mem EXCEPT ![r] = View(moved)])
  BY DEF Transition, See, moved
<1>4. Go(r, ok) \/ Go(r, err)
  BY DEF Transition
<1>5. base.destHash # None => base.destHash \in Sent(payoutTx)
  BY DEF MoneyKnown, Seen
<1>6. Sent(payoutTx)' = Sent(payoutTx) /\ Sent(compTx)' = Sent(compTx)
      /\ NotDelivered' = NotDelivered
  BY DEF Sent, NotDelivered
<1>7. row.status \in PAYMENT_STATES
  BY DEF TypeOK, Rows
<1>8. row' = moved /\ row' # row =>
        /\ row.status \in CompensationStates => to = "COMPENSATED"
        /\ to = "COMPENSATED" => row.status \in CompensationStates
  BY <1>2, <1>7, CompensationMoves DEF CompensationStates
<1>9. CASE row' = row
  <2>1. MoneyKnown'
    BY <1>6, <1>9 DEF MoneyKnown
  <2>2. Seen(r)'
    BY <1>1, <1>3, <1>4, <1>5, <1>6 DEF Seen, At, Go, TypeOK, Leased, Forward, Undo, Compensation
  <2> QED BY <2>1, <2>2, <1>6 DEF Kept
<1>10. CASE row' = moved /\ row' # row
  <2>1. row'.status = to /\ row'.destHash = base.destHash
    BY <1>1, <1>10
  <2>2. to \in CompensationStates => NotDelivered
    BY <1>8, <1>10 DEF MoneyKnown, CompensationStates
  <2>3. row.status \in CompensationStates => to \in CompensationStates
    BY <1>8, <1>10 DEF CompensationStates
  <2>4. MoneyKnown'
    BY <1>5, <1>6, <2>1, <2>2, <2>3 DEF MoneyKnown
  <2>5. Seen(r)'
    BY <1>1, <1>3, <1>4, <1>5, <1>6 DEF Seen, At, Go, TypeOK, Leased, Forward, Undo, Compensation
  <2> QED BY <2>4, <2>5, <1>6 DEF Kept
<1> QED BY <1>2, <1>9, <1>10

(* The two ways out of a transitionStatus: done and seen, or thrown, with  *)
(* or without its commit.                                                  *)
LEMMA TransitionOutcome ==
  ASSUME TypeOK, NEW r \in Requests, NEW to \in PAYMENT_STATES, NEW base \in Rows,
         NEW ok, NEW err, Transition(r, to, base, ok, err)
  PROVE  \/ /\ pc'[r] = ok /\ row'.status = to
            /\ row'.destHash = base.destHash /\ mem'[r].destHash = base.destHash
         \/ pc'[r] = err /\ mem' = mem
<1> DEFINE moved == Moved(base, to)
<1>1. moved.status = to /\ moved.destHash = base.destHash /\ View(moved).destHash = base.destHash
  BY DEF Moved, Rows, View
<1> HIDE DEF moved
<1>2. \/ row' = moved /\ mem' = [mem EXCEPT ![r] = View(moved)] /\ Go(r, ok)
      \/ mem' = mem /\ Go(r, err)
  BY DEF Transition, See, moved
<1> QED BY <1>1, <1>2 DEF Go, TypeOK

(* Nothing has to be known at a place outside every clause of Knows.       *)
LEMMA NothingToKnow ==
  ASSUME NEW r \in Requests,
         pc'[r] \in {"release", "done", "refund", "awaitRefund", "markRefunded", "fail",
                     "persistComp", "awaitComp", "catchComp", "confirmComp"}
  PROVE  Knows(r)'
BY DEF Knows, At, BeforePayout, Forward, PayoutLeg

(* Before the payout is announced, and in the catch of a throw from there, *)
(* it is known that none was sent.                                         *)
LEMMA NoneSentYet ==
  ASSUME NEW r \in Requests, pc[r] \in BeforePayout, Knows(r), payoutTx' = payoutTx,
         pc'[r] \in (BeforePayout \ {"markPayoutPending", "payout"}) \union {"catch", "release"}
  PROVE  Knows(r)'
BY DEF Knows, At, BeforePayout, Forward, PayoutLeg, Sent

(* A step of the forward path that is one transitionStatus.                *)
LEMMA ForwardMove ==
  ASSUME TypeOK, MoneyKnown, NEW r \in Requests, Seen(r),
         NEW to \in PAYMENT_STATES \ {"APPROVED", "COMPENSATION_PENDING"},
         NEW ok \in Forward \union {"release"}, NEW err \in {"catch", "release"},
         Transition(r, to, row, ok, err), Knows(r)',
         UNCHANGED <<credit, escrow, escrowTx, payoutTx, compTx, bridged>>
  PROVE  Kept(r)
BY MoveMoney DEF TypeOK, Leased, Forward, Undo, Compensation

(* The steps of the forward path up to the payout: none was sent yet       *)
(* (lib/executor.ts:326-493).                                              *)
LEMMA ForwardMoney ==
  ASSUME TypeOK, MoneyKnown, NEW r \in Requests, Seen(r), Knows(r), ForwardStep(r),
         pc[r] \notin PayoutLeg
  PROVE  Kept(r)
<1> USE DEF PAYMENT_STATES, BeforePayout, chain
<1>0. row \in Rows /\ pc \in [Requests -> Labels]
  BY DEF TypeOK
<1>1. CASE CheckLiquidity(r)
  <2>1. CASE Transition(r, "FAILED", row, "release", "release")
    <3>1. pc'[r] = "release"
      BY <1>0, <2>1, TransitionOutcome
    <3> QED BY <1>1, <2>1, <3>1, NothingToKnow, ForwardMove DEF CheckLiquidity
  <2>2. CASE \E l \in {"reserve", "release", "recallFailed"} : Go(r, l) /\ UNCHANGED <<row, mem>>
    <3>1. PICK l \in {"reserve", "release", "recallFailed"} : Go(r, l)
      BY <2>2
    <3>2. l \in Leased \ {"reconcile"}
      BY DEF Leased, Forward
    <3>3. Knows(r)'
      BY <1>0, <1>1, <3>1, NoneSentYet DEF CheckLiquidity, At, Go
    <3> QED BY <1>1, <2>2, <3>1, <3>2, <3>3, QuietMoney DEF CheckLiquidity
  <2> QED BY <1>1, <2>1, <2>2 DEF CheckLiquidity
<1>2. CASE FailRecall(r)
  <2>1. pc'[r] = "release"
    BY <1>0, <1>2, TransitionOutcome DEF FailRecall, Step
  <2> QED BY <1>2, <2>1, NothingToKnow, ForwardMove DEF FailRecall, Step
<1>3. CASE Reserve(r)
  <2>1. PICK l \in {"markReserved", "release"} : Go(r, l)
    BY <1>3 DEF Reserve, Write
  <2>2. l \in Leased \ {"reconcile"}
    BY DEF Leased, Forward
  <2>3. Knows(r)'
    BY <1>0, <1>3, <2>1, NoneSentYet DEF Reserve, At, Go
  <2> QED BY <1>3, <2>1, <2>2, <2>3, QuietMoney DEF Reserve
<1>4. CASE MarkReserved(r)
  <2>1. pc'[r] \in {"initiate", "release"}
    BY <1>0, <1>4, TransitionOutcome DEF MarkReserved, Step
  <2>2. Knows(r)'
    BY <1>4, <2>1, NoneSentYet DEF MarkReserved, Step, At
  <2> QED BY <1>4, <2>2, ForwardMove DEF MarkReserved, Step, Forward
<1>5. CASE Initiate(r) \/ Settle(r)
  <2>1. PICK l \in {"awaitInitiate", "awaitSettle", "catch"} : Go(r, l)
    BY <1>5 DEF Initiate, Settle, Call
  <2>2. l \in Leased \ {"reconcile"}
    BY DEF Leased, Forward, Undo
  <2>3. Knows(r)'
    BY <1>0, <1>5, <2>1, NoneSentYet DEF Initiate, Settle, Call, At, Go
  <2>4. escrowTx'["settlePayment"] = "success" => escrowTx["settlePayment"] = "success"
    BY <1>5 DEF Initiate, Settle, Call, TypeOK, EscrowCalls
  <2> QED BY <1>5, <2>1, <2>2, <2>3, <2>4, QuietMoney DEF Initiate, Settle, Call
<1>6. ASSUME NEW l \in {"awaitInitiate", "markConfirmed"}, NEW to \in {"SUBMITTED_ONCHAIN", "CONFIRMED_ONCHAIN"},
             NEW ok \in {"markConfirmed", "settle"}, NEW mined, OnReceipt(r, l, mined, to, row, ok, "catch")
      PROVE  Kept(r)
  <2>1. CASE Transition(r, to, row, ok, "catch")
    <3>1. pc'[r] \in {ok, "catch"}
      BY <1>0, <2>1, TransitionOutcome
    <3>2. Knows(r)'
      BY <1>6, <3>1, NoneSentYet DEF OnReceipt, At
    <3> QED BY <1>6, <2>1, <3>2, ForwardMove DEF OnReceipt, Forward
  <2>2. CASE UNCHANGED <<row, mem>> /\ Go(r, "catch")
    <3>1. Knows(r)'
      BY <1>0, <1>6, <2>2, NoneSentYet DEF OnReceipt, At, Go
    <3> QED BY <1>6, <2>2, <3>1, QuietMoney DEF OnReceipt, Leased, Undo
  <2> QED BY <1>6, <2>1, <2>2 DEF OnReceipt
<1>7. CASE MarkSubmitted(r)
  BY <1>6, <1>7 DEF MarkSubmitted
<1>8. CASE MarkConfirmed(r)
  <2>1. OnReceipt(r, "markConfirmed", TRUE, "CONFIRMED_ONCHAIN", row, "settle", "catch")
    BY <1>8 DEF MarkConfirmed, Step, OnReceipt
  <2> QED BY <1>6, <2>1
<1>9. CASE MarkConverted(r)
  <2>1. CASE Transition(r, "FX_OR_SWAP_COMPLETED", row, "markPayoutPending", "catch")
             /\ escrowTx["settlePayment"] = "success"
    <3>1. escrow = "SETTLED" /\ escrow' = escrow /\ payoutTx' = payoutTx /\ pc[r] = "awaitSettle"
      BY <1>9, <2>1 DEF MarkConverted, OnReceipt, MoneyKnown, At
    <3>2. pc'[r] \in {"markPayoutPending", "catch"}
      BY <1>0, <2>1, TransitionOutcome
    <3>3. Knows(r)'
      BY <3>1, <3>2 DEF Knows, At, Forward, PayoutLeg, Sent
    <3> QED BY <1>9, <2>1, <3>3, ForwardMove DEF MarkConverted, OnReceipt, Forward
  <2>2. CASE UNCHANGED <<row, mem>> /\ Go(r, "catch")
    <3>1. Knows(r)'
      BY <1>0, <1>9, <2>2, NoneSentYet DEF MarkConverted, OnReceipt, At, Go
    <3> QED BY <1>9, <2>2, <3>1, QuietMoney DEF MarkConverted, OnReceipt, Leased, Undo
  <2> QED BY <1>9, <2>1, <2>2 DEF MarkConverted, OnReceipt
<1>10. CASE MarkPayoutPending(r)
  <2> DEFINE next == IF bridged THEN "payout" ELSE "credit"
  <2>1. Transition(r, "PAYOUT_PENDING", row, next, "catch") /\ pc[r] = "markPayoutPending"
        /\ UNCHANGED <<credit, chain, bridged>>
    BY <1>10 DEF MarkPayoutPending, Step, At
  <2>2. (pc'[r] = next /\ row'.status = "PAYOUT_PENDING") \/ pc'[r] = "catch"
    BY <1>0, <2>1, TransitionOutcome
  <2>3. Knows(r)'
    BY <2>1, <2>2 DEF Knows, At, Forward, PayoutLeg, Sent
  <2>4. next \in Forward
    BY DEF Forward
  <2> HIDE DEF next
  <2> QED BY <2>1, <2>3, <2>4, ForwardMove
<1> QED BY <1>1, <1>2, <1>3, <1>4, <1>5, <1>7, <1>8, <1>9, <1>10
        DEF ForwardStep, PayoutLeg, Payout, PersistPayout, AwaitPayout, Credit, Consume,
            MarkSettled, Step, At

(* The payout leg: broadcast, remembered, written, mined, credited         *)
(* (lib/executor.ts:493-565).                                              *)
LEMMA PayoutMoney ==
  ASSUME TypeOK, MoneyKnown, NEW r \in Requests, Seen(r), Knows(r), ForwardStep(r),
         ~LostAnswer, pc[r] \in PayoutLeg
  PROVE  Kept(r)
<1> USE DEF chain
<1>0. /\ row \in Rows /\ pc \in [Requests -> Labels] /\ mem \in [Requests -> Views]
      /\ payoutTx \in [Requests -> TxStates]
  BY DEF TypeOK
<1>1. row.status = "PAYOUT_PENDING" /\ escrow = "SETTLED"
  BY DEF Knows
<1>2. row.status \notin CompensationStates \union {"APPROVED"}
  BY <1>1 DEF CompensationStates
<1>3. Sent(payoutTx) \subseteq {mem[r].destHash}
  BY DEF Knows, PayoutLeg, Forward
<1>4. CASE Payout(r)
  <2>1. pc[r] = "payout" /\ Sent(payoutTx) = {} /\ bridged
    BY <1>4 DEF Payout, At, Knows, BeforePayout
  <2>2. CASE UNCHANGED <<payoutTx, mem>> /\ Go(r, "catch")
    <3>1. Knows(r)'
      BY <1>0, <2>1, <2>2 DEF Knows, Go, At, BeforePayout, Forward, PayoutLeg, Sent
    <3> QED BY <1>4, <2>2, <3>1, QuietMoney DEF Payout, Leased, Undo
  <2>3. CASE /\ payoutTx' = [payoutTx EXCEPT ![r] = "pending"]
             /\ mem' = [mem EXCEPT ![r].destHash = r] /\ Go(r, "persistPayout")
    <3>1. UNCHANGED <<row, credit, escrow, escrowTx, compTx, bridged>>
      BY <1>4 DEF Payout
    <3>2. Sent(payoutTx)' = {r} /\ pc'[r] = "persistPayout"
      BY <1>0, <2>1, <2>3 DEF Sent, Go
    <3>3. mem'[r].destHash = r /\ mem'[r].status = mem[r].status
      BY <1>0, <2>3 DEF Views
    <3>4. ~credit /\ row.destHash = None
      BY <2>1 DEF MoneyKnown, Sent
    <3>5. MoneyKnown'
      BY <1>1, <1>2, <2>1, <3>1, <3>2, <3>4 DEF MoneyKnown, Sent
    <3>6. Seen(r)' /\ Knows(r)'
      BY <1>1, <2>1, <3>1, <3>2, <3>3 DEF Seen, Knows, At, BeforePayout, PayoutLeg
    <3> QED BY <2>1, <3>5, <3>6 DEF Kept
  <2> QED BY <1>4, <2>2, <2>3 DEF Payout
<1>5. CASE PersistPayout(r)
  <2> DEFINE new == [row EXCEPT !.destHash = r]
  <2>1. new.status = row.status /\ new.destHash = r /\ View(new).destHash = r
    BY <1>0 DEF Rows, View
  <2>2. /\ pc[r] = "persistPayout" /\ r \in Sent(payoutTx)
        /\ Update(r, new, "awaitPayout", "catch")
        /\ UNCHANGED <<credit, escrow, escrowTx, payoutTx, compTx, bridged>>
    BY <1>5 DEF PersistPayout, At, Knows
  <2> HIDE DEF new
  <2>3. row' = row \/ (row'.status = row.status /\ row'.destHash = r)
    BY <2>1, <2>2 DEF Update
  <2>4. \/ pc'[r] = "awaitPayout" /\ mem'[r].destHash = r
        \/ pc'[r] = "catch" /\ mem' = mem
    BY <1>0, <2>1, <2>2 DEF Update, See, Go
  <2>5. Sent(payoutTx)' = Sent(payoutTx) /\ Sent(compTx)' = Sent(compTx)
        /\ NotDelivered' = NotDelivered
    BY <2>2 DEF Sent, NotDelivered
  <2>6. MoneyKnown'
    BY <2>2, <2>3, <2>5 DEF MoneyKnown
  <2>7. Seen(r)'
    BY <2>2, <2>4, <2>5 DEF Seen, At
  <2>8. Knows(r)'
    BY <1>1, <1>3, <2>2, <2>3, <2>4, <2>5 DEF Knows, At, BeforePayout, Forward, PayoutLeg, MoneyKnown
  <2> QED BY <2>5, <2>6, <2>7, <2>8 DEF Kept
<1>6. CASE AwaitPayout(r)
  <2>1. (payoutTx[r] = "success" /\ Go(r, "credit")) \/ Go(r, "catch")
    BY <1>6 DEF AwaitPayout
  <2>2. Knows(r)'
    BY <1>0, <1>1, <1>3, <1>6, <2>1
       DEF AwaitPayout, Knows, Go, At, BeforePayout, Forward, PayoutLeg, Sent
  <2> QED BY <1>6, <2>1, <2>2, QuietMoney DEF AwaitPayout, Leased, Forward, Undo
<1>7. CASE Credit(r)
  <2>1. /\ pc[r] = "credit" /\ credit' \in {credit, TRUE}
        /\ UNCHANGED <<row, escrow, escrowTx, payoutTx, compTx, mem, bridged>>
    BY <1>7 DEF Credit, Write, At
  <2>2. pc'[r] \in {"consume", "catch"}
    BY <1>0, <1>7 DEF Credit, Write, Go
  <2>3. bridged => payoutTx[r] = "success"
    BY <2>1 DEF Knows, At
  <2>4. Sent(payoutTx)' = Sent(payoutTx) /\ Sent(compTx)' = Sent(compTx)
    BY <2>1 DEF Sent
  <2>5. MoneyKnown'
    BY <1>1, <1>2, <2>1, <2>3, <2>4 DEF MoneyKnown
  <2>6. Seen(r)' /\ Knows(r)'
    BY <1>1, <1>3, <2>1, <2>2, <2>4 DEF Seen, Knows, At, BeforePayout, Forward, PayoutLeg
  <2> QED BY <2>4, <2>5, <2>6 DEF Kept
<1>8. CASE Consume(r)
  <2>1. PICK l \in {"markSettled", "catch"} : Go(r, l)
    BY <1>8 DEF Consume, Write
  <2>2. Knows(r)'
    BY <1>0, <1>1, <1>3, <1>8, <2>1
       DEF Consume, Knows, Go, At, BeforePayout, Forward, PayoutLeg, Sent
  <2> QED BY <1>8, <2>1, <2>2, QuietMoney DEF Consume, Leased, Forward, Undo
<1>9. CASE MarkSettled(r)
  <2>1. Transition(r, "SETTLED", row, "release", "catch")
        /\ UNCHANGED <<credit, escrow, escrowTx, payoutTx, compTx, bridged>>
    BY <1>9 DEF MarkSettled, Step
  <2>2. pc'[r] = "release" \/ (pc'[r] = "catch" /\ mem' = mem)
    BY <1>0, <2>1, TransitionOutcome DEF PAYMENT_STATES
  <2>3. Knows(r)'
    BY <1>3, <2>1, <2>2 DEF Knows, At, BeforePayout, Forward, PayoutLeg, Sent
  <2> QED BY <2>1, <2>3, ForwardMove DEF PAYMENT_STATES
<1> QED BY <1>4, <1>5, <1>6, <1>7, <1>8, <1>9
        DEF ForwardStep, PayoutLeg, CheckLiquidity, FailRecall, Reserve, MarkReserved, Initiate,
            MarkSubmitted, MarkConfirmed, Settle, MarkConverted, MarkPayoutPending, OnReceipt,
            Call, Step, At

(* A destination transfer that reverted, when at most one was sent, means  *)
(* that the recipient got nothing; one that mined, that it was paid.       *)
LEMMA OutcomeTells ==
  ASSUME TypeOK, MoneyKnown, NEW h \in Sent(payoutTx), NEW o \in Outcomes(payoutTx[h])
  PROVE  /\ o = "confirmed" => Delivered
         /\ o = "reverted" => NotDelivered
         /\ o \in {"confirmed", "reverted", "unknown"}
<1>1. o \in {"confirmed", "reverted", "unknown"}
      /\ (o = "confirmed" => payoutTx[h] = "success")
      /\ (o = "reverted" => payoutTx[h] = "reverted")
  BY DEF Outcomes
<1>2. bridged /\ h \in Requests /\ \A q \in Requests : q # h => payoutTx[q] = "none"
  BY DEF MoneyKnown, Sent
<1>3. o = "reverted" => \A q \in Requests : payoutTx[q] \in {"none", "reverted"}
  BY <1>1, <1>2
<1>4. o = "reverted" => ~credit
  BY <1>2, <1>3 DEF MoneyKnown
<1> QED BY <1>1, <1>2, <1>3, <1>4 DEF Delivered, NotDelivered

(* A move by a request that has nothing left to know.                      *)
LEMMA LastMove ==
  ASSUME TypeOK, MoneyKnown, NEW r \in Requests, Seen(r),
         NEW to \in PAYMENT_STATES \ {"APPROVED", "COMPENSATION_PENDING"}, NEW base \in Rows,
         base.status = row.status, base.destHash \in {row.destHash, mem[r].destHash},
         NEW ok \in {"release", "markRefunded", "fail", "catchComp"},
         NEW err \in {"release", "markRefunded", "fail", "catchComp"},
         Transition(r, to, base, ok, err),
         UNCHANGED <<credit, escrow, escrowTx, payoutTx, compTx, bridged>>
  PROVE  Kept(r)
<1>1. pc'[r] \in {ok, err}
  BY TransitionOutcome
<1>2. Knows(r)'
  BY <1>1, NothingToKnow
<1>3. {"release", "markRefunded", "fail", "catchComp"} \subseteq Leased \ {"reconcile"}
  BY DEF Leased, Undo, Compensation
<1> QED BY <1>2, <1>3, MoveMoney

(* The catch of runExecution: forward if the recipient was paid, wait if   *)
(* that is open, else undo (lib/executor.ts:566-706).                      *)
LEMMA UndoMoney ==
  ASSUME TypeOK, MoneyKnown, NEW r \in Requests, Seen(r), Knows(r), UndoStep(r)
  PROVE  Kept(r)
<1> USE DEF chain
<1>0. /\ row \in Rows /\ pc \in [Requests -> Labels] /\ mem \in [Requests -> Views]
  BY DEF TypeOK
<1>a. Undo \union {"release", "priorComp"} \subseteq Leased \ {"reconcile"}
  BY DEF Leased, Undo, Compensation
<1>1. CASE Catch(r)
  <2>1. pc[r] = "catch" /\ UNCHANGED <<row, credit, chain, mem, bridged>>
    BY <1>1 DEF Catch, Decide, At
  <2>2. Sent(payoutTx) \subseteq {mem[r].destHash}
    BY <2>1 DEF Knows
  <2>3. PICK l \in {"release", "fwdCredit", "resolvePayout", "unwind"} :
          /\ Go(r, l)
          /\ l = "fwdCredit" => credit
          /\ l = "unwind" => ~credit /\ mem[r].destHash = None
    BY <1>1 DEF Catch, Decide, Thrown
  <2>4. l = "unwind" => NotDelivered
    BY <2>2, <2>3, RequestsAssumption DEF NotDelivered, Sent
  <2>5. pc'[r] = l
    BY <1>0, <2>3 DEF Go
  <2>6. Knows(r)'
    BY <2>1, <2>2, <2>3, <2>4, <2>5
       DEF Knows, At, BeforePayout, Forward, PayoutLeg, Sent, Delivered, NotDelivered
  <2>7. l \in Leased \ {"reconcile"}
    BY <1>a DEF Undo
  <2> QED BY <2>1, <2>3, <2>6, <2>7, QuietMoney
<1>2. CASE ResolvePayout(r)
  <2>1. mem[r].destHash \in Sent(payoutTx) /\ UNCHANGED <<row, credit, chain, mem, bridged>>
    BY <1>2 DEF ResolvePayout, Decide, Seen
  <2>2. PICK o \in Outcomes(payoutTx[mem[r].destHash]) : Go(r, AfterPayoutOutcome(o, "unwind"))
    BY <1>2 DEF ResolvePayout, Decide
  <2> DEFINE l == AfterPayoutOutcome(o, "unwind")
  <2>3. /\ l \in {"fwdCredit", "release", "unwind"}
        /\ l = "fwdCredit" => Delivered
        /\ l = "unwind" => NotDelivered
    BY <2>1, OutcomeTells DEF AfterPayoutOutcome
  <2> HIDE DEF l
  <2>4. Go(r, l) /\ pc'[r] = l
    BY <1>0, <2>2 DEF Go, l
  <2>5. Knows(r)'
    BY <2>1, <2>3, <2>4
       DEF Knows, At, BeforePayout, Forward, PayoutLeg, Delivered, NotDelivered
  <2>6. l \in Leased \ {"reconcile"}
    BY <1>a, <2>3 DEF Undo
  <2> QED BY <2>1, <2>4, <2>5, <2>6, QuietMoney
<1>3. CASE ReleaseReservation(r) \/ ReadEscrow(r)
  <2>1. /\ pc[r] \in {"unwind", "readEscrow"}
        /\ UNCHANGED <<row, credit, chain, mem, bridged>>
    BY <1>3 DEF ReleaseReservation, ReadEscrow, Decide, At
  <2>2. PICK l \in {"readEscrow", "compensate", "refund", "fail"} : Go(r, l)
    BY <1>3 DEF ReleaseReservation, ReadEscrow, Decide, UndoFor
  <2>3. pc'[r] = l
    BY <1>0, <2>2 DEF Go
  <2>4. Knows(r)'
    BY <2>1, <2>3 DEF Knows, At, BeforePayout, Forward, PayoutLeg, NotDelivered
  <2>5. l \in Leased \ {"reconcile"}
    BY <1>a DEF Undo
  <2> QED BY <2>1, <2>2, <2>4, <2>5, QuietMoney
<1>4. CASE CompensateSender(r)
  <2>1. /\ pc[r] = "compensate" /\ NotDelivered
        /\ Transition(r, "COMPENSATION_PENDING", row, "priorComp", "release")
        /\ UNCHANGED <<credit, escrow, escrowTx, payoutTx, compTx, bridged>>
    BY <1>4 DEF CompensateSender, Step, At, Knows
  <2>2. (pc'[r] = "priorComp" /\ row'.status = "COMPENSATION_PENDING") \/ pc'[r] = "release"
    BY <1>0, <2>1, TransitionOutcome DEF PAYMENT_STATES
  <2>3. Knows(r)'
    BY <2>2 DEF Knows, At, BeforePayout, Forward, PayoutLeg
  <2>4. {"priorComp", "release"} \subseteq Leased \ {"reconcile"}
    BY <1>a
  <2> QED BY <1>0, <2>1, <2>3, <2>4, MoveMoney DEF PAYMENT_STATES
<1>5. CASE Refund(r)
  <2>1. /\ pc[r] = "refund" /\ UNCHANGED <<row, credit, escrow, payoutTx, compTx, mem, bridged>>
        /\ escrowTx'["settlePayment"] = escrowTx["settlePayment"]
    BY <1>5 DEF Refund, Call, At, TypeOK, EscrowCalls
  <2>2. PICK l \in {"awaitRefund", "fail"} : Go(r, l)
    BY <1>5 DEF Refund, Call
  <2>3. Knows(r)'
    BY <1>0, <2>2, NothingToKnow DEF Go
  <2>4. l \in Leased \ {"reconcile"}
    BY <1>a DEF Undo
  <2> QED BY <2>1, <2>2, <2>3, <2>4, QuietMoney
<1>6. CASE MarkFailed(r)
  <2>1. CASE Transition(r, "FAILED", row, "markRefunded", "fail")
    BY <1>0, <1>6, <2>1, LastMove DEF MarkFailed, OnReceipt, PAYMENT_STATES
  <2>2. CASE UNCHANGED <<row, mem>> /\ Go(r, "fail")
    <3>1. Knows(r)'
      BY <1>0, <2>2, NothingToKnow DEF Go
    <3>2. "fail" \in Leased \ {"reconcile"}
      BY <1>a DEF Undo
    <3> QED BY <1>6, <2>2, <3>1, <3>2, QuietMoney DEF MarkFailed, OnReceipt
  <2> QED BY <1>6, <2>1, <2>2 DEF MarkFailed, OnReceipt
<1>7. CASE MarkRefunded(r)
  BY <1>0, <1>7, LastMove DEF MarkRefunded, Step, PAYMENT_STATES
<1>8. CASE Fail(r)
  <2>1. CASE Step(r, "fail", "FAILED", row, "release", "release")
    BY <1>0, <2>1, LastMove DEF Step, PAYMENT_STATES
  <2>2. CASE Decide(r, "fail", {"release"})
    <3>1. Go(r, "release") /\ UNCHANGED <<row, credit, chain, mem, bridged>>
      BY <2>2 DEF Decide
    <3>2. Knows(r)'
      BY <1>0, <3>1, NothingToKnow DEF Go
    <3> QED BY <1>a, <3>1, <3>2, QuietMoney
  <2> QED BY <1>8, <2>1, <2>2 DEF Fail
<1>9. CASE ForwardCredit(r)
  <2>1. /\ Delivered /\ credit' \in {credit, TRUE}
        /\ UNCHANGED <<row, escrow, escrowTx, payoutTx, compTx, mem, bridged>>
    BY <1>9 DEF ForwardCredit, Write, At, Knows
  <2>2. pc'[r] \in {"fwdConsume", "release"}
    BY <1>0, <1>9 DEF ForwardCredit, Write, Go
  <2>3. Sent(payoutTx)' = Sent(payoutTx) /\ Sent(compTx)' = Sent(compTx)
    BY <2>1 DEF Sent
  <2>4. row.status \notin CompensationStates /\ escrow = "SETTLED"
    BY <2>1 DEF MoneyKnown, Delivered, NotDelivered, Sent
  <2>5. bridged => \E q \in Requests : payoutTx[q] = "success"
    BY <2>1 DEF MoneyKnown, Delivered
  <2>6. MoneyKnown'
    BY <2>1, <2>3, <2>4, <2>5 DEF MoneyKnown
  <2>7. Seen(r)' /\ Knows(r)'
    BY <2>1, <2>2, <2>3 DEF Seen, Knows, At, BeforePayout, Forward, PayoutLeg, Delivered, TypeOK
  <2> QED BY <2>3, <2>6, <2>7 DEF Kept
<1>10. CASE ForwardConsume(r)
  <2>1. pc[r] = "fwdConsume" /\ UNCHANGED <<row, credit, chain, mem, bridged>>
    BY <1>10 DEF ForwardConsume, At
  <2>2. PICK l \in {"fwdSettle", "release"} : Go(r, l)
    BY <1>10 DEF ForwardConsume, Thrown
  <2>3. Knows(r)'
    BY <1>0, <2>1, <2>2 DEF Knows, Go, At, BeforePayout, Forward, PayoutLeg, Delivered
  <2>4. l \in Leased \ {"reconcile"}
    BY <1>a DEF Undo
  <2> QED BY <2>1, <2>2, <2>3, <2>4, QuietMoney
<1>11. CASE ForwardSettle(r)
  <2> DEFINE base == IF mem[r].destHash # None
                     THEN [row EXCEPT !.destHash = mem[r].destHash] ELSE row
  <2>1. /\ base \in Rows /\ base.status = row.status
        /\ base.destHash \in {row.destHash, mem[r].destHash}
    BY <1>0 DEF Rows, Views
  <2>2. Transition(r, "SETTLED", base, "release", "release")
        /\ UNCHANGED <<credit, escrow, escrowTx, payoutTx, compTx, bridged>>
    BY <1>11 DEF ForwardSettle, Step
  <2> HIDE DEF base
  <2> QED BY <2>1, <2>2, LastMove DEF PAYMENT_STATES
<1> QED BY <1>1, <1>2, <1>3, <1>4, <1>5, <1>6, <1>7, <1>8, <1>9, <1>10, <1>11 DEF UndoStep

(* The compensation transfer and its recovery (lib/executor.ts:764-925).   *)
LEMMA CompensationMoney ==
  ASSUME TypeOK, MoneyKnown, NEW r \in Requests, Seen(r), Knows(r), CompensationStep(r)
  PROVE  Kept(r)
<1> USE DEF chain
<1>0. /\ row \in Rows /\ pc \in [Requests -> Labels] /\ mem \in [Requests -> Views]
  BY DEF TypeOK
<1>a. Compensation \union {"release"} \subseteq Leased \ {"reconcile"}
  BY DEF Leased, Compensation
<1>b. \A h \in Hashes : LET base == [row EXCEPT !.compHash = h] IN
        base \in Rows /\ base.status = row.status /\ base.destHash = row.destHash
  BY <1>0 DEF Rows
<1>c. r \in Hashes /\ mem[r].compHash \in Hashes
  BY <1>0 DEF Hashes, Views
<1>1. CASE PriorCompensation(r)
  <2>1. pc[r] = "priorComp" /\ UNCHANGED <<row, credit, chain, mem, bridged>>
    BY <1>1 DEF PriorCompensation, Decide, At
  <2>2. PICK l \in {"sendComp", "release", "confirmComp"} : Go(r, l)
    BY <1>1 DEF PriorCompensation, Decide
  <2>3. Knows(r)'
    BY <1>0, <2>1, <2>2 DEF Knows, Go, At, BeforePayout, Forward, PayoutLeg
  <2>4. l \in Leased \ {"reconcile"}
    BY <1>a DEF Compensation
  <2> QED BY <2>1, <2>2, <2>3, <2>4, QuietMoney
<1>2. CASE SendCompensation(r)
  <2>1. /\ pc[r] = "sendComp" /\ mem'[r].destHash = mem[r].destHash
        /\ UNCHANGED <<row, credit, escrow, escrowTx, payoutTx, bridged>>
    BY <1>0, <1>2 DEF SendCompensation, At, Views
  <2>2. pc'[r] \in {"persistComp", "catchComp"}
    BY <1>0, <1>2 DEF SendCompensation, Go
  <2>3. row.status \in CompensationStates
    BY <2>1 DEF Knows, CompensationStates
  <2>4. Sent(payoutTx)' = Sent(payoutTx) /\ NotDelivered' = NotDelivered
    BY <2>1 DEF Sent, NotDelivered
  <2>5. MoneyKnown'
    BY <2>1, <2>3, <2>4 DEF MoneyKnown
  <2>6. Seen(r)'
    BY <2>1, <2>2, <2>4 DEF Seen, At
  <2> QED BY <2>2, <2>4, <2>5, <2>6, NothingToKnow DEF Kept
<1>3. CASE PersistCompensation(r)
  <2> DEFINE new == [row EXCEPT !.compHash = r]
  <2>1. /\ new.status = row.status /\ new.destHash = row.destHash
        /\ View(new).destHash = row.destHash
    BY <1>b, <1>c DEF View
  <2>2. /\ Update(r, new, "awaitComp", "catchComp")
        /\ UNCHANGED <<credit, escrow, escrowTx, payoutTx, compTx, bridged>>
    BY <1>3 DEF PersistCompensation
  <2> HIDE DEF new
  <2>3. row'.status = row.status /\ row'.destHash = row.destHash
    BY <2>1, <2>2 DEF Update
  <2>4. /\ pc'[r] \in {"awaitComp", "catchComp"}
        /\ mem'[r].destHash \in {row.destHash, mem[r].destHash}
    BY <1>0, <2>1, <2>2 DEF Update, See, Go
  <2>5. /\ Sent(payoutTx)' = Sent(payoutTx) /\ Sent(compTx)' = Sent(compTx)
        /\ NotDelivered' = NotDelivered
    BY <2>2 DEF Sent, NotDelivered
  <2>6. MoneyKnown'
    BY <2>2, <2>3, <2>5 DEF MoneyKnown
  <2>7. Seen(r)'
    BY <2>4, <2>5 DEF Seen, At, MoneyKnown
  <2> QED BY <2>4, <2>5, <2>6, <2>7, NothingToKnow DEF Kept
<1>4. CASE MarkCompensated(r)
  <2> DEFINE base == [row EXCEPT !.compHash = r]
  <2>1. base \in Rows /\ base.status = row.status /\ base.destHash = row.destHash
    BY <1>b, <1>c
  <2>2. OnReceipt(r, "awaitComp", compTx[r] = "success", "COMPENSATED", base, "release", "catchComp")
    BY <1>4 DEF MarkCompensated
  <2> HIDE DEF base
  <2>3. CASE Transition(r, "COMPENSATED", base, "release", "catchComp")
    BY <2>1, <2>2, <2>3, LastMove DEF OnReceipt, PAYMENT_STATES
  <2>4. CASE UNCHANGED <<row, mem>> /\ Go(r, "catchComp")
    <3>1. Knows(r)'
      BY <1>0, <2>4, NothingToKnow DEF Go
    <3>2. "catchComp" \in Leased \ {"reconcile"}
      BY <1>a DEF Compensation
    <3> QED BY <2>2, <2>4, <3>1, <3>2, QuietMoney DEF OnReceipt
  <2> QED BY <2>2, <2>3, <2>4 DEF OnReceipt
<1>5. CASE CatchCompensation(r)
  <2>1. PICK l \in {"release", "confirmComp"} : Go(r, l)
    BY <1>5 DEF CatchCompensation
  <2>2. row'.status = row.status /\ row'.destHash = row.destHash
    BY <1>5, <1>b, <1>c DEF CatchCompensation
  <2>3. UNCHANGED <<credit, chain, mem, bridged>>
    BY <1>5 DEF CatchCompensation
  <2>4. Knows(r)'
    BY <1>0, <2>1, NothingToKnow DEF Go
  <2>5. l \in Leased \ {"reconcile"}
    BY <1>a DEF Compensation
  <2> QED BY <2>1, <2>2, <2>3, <2>4, <2>5, QuietMoney
<1>6. CASE ConfirmCompensation(r)
  <2> DEFINE base == [row EXCEPT !.compHash = mem[r].compHash]
  <2>1. base \in Rows /\ base.status = row.status /\ base.destHash = row.destHash
    BY <1>b, <1>c
  <2>2. Step(r, "confirmComp", "COMPENSATED", base, "release", "release")
    BY <1>6 DEF ConfirmCompensation
  <2> HIDE DEF base
  <2> QED BY <2>1, <2>2, LastMove DEF Step, PAYMENT_STATES
<1> QED BY <1>1, <1>2, <1>3, <1>4, <1>5, <1>6 DEF CompensationStep

(* Repair and reconcile go on with a row read before their claim, but what *)
(* it said of the payout still holds (lib/executor.ts:1025-1189).          *)
LEMMA OperatorMoney ==
  ASSUME TypeOK, MoneyKnown, NEW r \in Requests, Seen(r), Knows(r), OperatorStep(r)
  PROVE  Kept(r)
<1> USE DEF chain
<1>0. /\ row \in Rows /\ pc \in [Requests -> Labels]
  BY DEF TypeOK
<1>1. CASE Repair(r)
  <2>1. pc[r] = "repair" /\ UNCHANGED <<row, credit, chain, mem, bridged>>
    BY <1>1 DEF Repair, Decide, At
  <2>2. PICK l \in {"priorComp", "release"} : Go(r, l)
    BY <1>1 DEF Repair, Decide
  <2>3. Knows(r)'
    BY <1>0, <2>1, <2>2 DEF Knows, Go, At, BeforePayout, Forward, PayoutLeg
  <2>4. l \in Leased \ {"reconcile"}
    BY DEF Leased, Compensation
  <2> QED BY <2>1, <2>2, <2>3, <2>4, QuietMoney
<1>2. CASE Reconcile(r)
  <2>1. pc[r] = "reconcile" /\ UNCHANGED <<row, credit, chain, mem, bridged>>
    BY <1>2 DEF Reconcile, At
  <2>2. PICK l \in {"fwdCredit", "release", "awaitCompensation", "confirmComp"} :
          /\ Go(r, l)
          /\ l = "fwdCredit" => Delivered
          /\ l = "awaitCompensation" => NotDelivered
    <3>1. CASE mem[r].status = "PAYOUT_PENDING" /\
               \E o \in Outcomes(payoutTx[mem[r].destHash]) :
                 Go(r, AfterPayoutOutcome(o, "awaitCompensation"))
      <4>1. mem[r].destHash \in Sent(payoutTx)
        BY <2>1, <3>1 DEF Seen
      <4>2. PICK o \in Outcomes(payoutTx[mem[r].destHash]) :
              Go(r, AfterPayoutOutcome(o, "awaitCompensation"))
        BY <3>1
      <4>3. /\ AfterPayoutOutcome(o, "awaitCompensation") \in {"fwdCredit", "release", "awaitCompensation"}
            /\ AfterPayoutOutcome(o, "awaitCompensation") = "fwdCredit" => Delivered
            /\ AfterPayoutOutcome(o, "awaitCompensation") = "awaitCompensation" => NotDelivered
        BY <4>1, OutcomeTells DEF AfterPayoutOutcome
      <4> QED BY <4>2, <4>3
    <3>2. CASE Go(r, "confirmComp") \/ Go(r, "release")
      BY <3>2
    <3> QED BY <1>2, <3>1, <3>2 DEF Reconcile
  <2>3. Knows(r)'
    BY <1>0, <2>1, <2>2
       DEF Knows, Go, At, BeforePayout, Forward, PayoutLeg, Delivered, NotDelivered
  <2>4. l \in Leased \ {"reconcile"}
    BY DEF Leased, Undo, Compensation
  <2> QED BY <2>1, <2>2, <2>3, <2>4, QuietMoney
<1>3. CASE AwaitCompensation(r)
  <2>1. /\ NotDelivered
        /\ Transition(r, "COMPENSATION_PENDING", row, "release", "release")
        /\ UNCHANGED <<credit, escrow, escrowTx, payoutTx, compTx, bridged>>
    BY <1>3 DEF AwaitCompensation, Step, At, Knows
  <2>2. pc'[r] = "release"
    BY <1>0, <2>1, TransitionOutcome DEF PAYMENT_STATES
  <2>3. "release" \in Leased \ {"reconcile"}
    BY DEF Leased
  <2> QED BY <1>0, <2>1, <2>2, <2>3, NothingToKnow, MoveMoney DEF PAYMENT_STATES
<1> QED BY <1>1, <1>2, <1>3 DEF OperatorStep

-----------------------------------------------------------------------------
(* The other requests: outside the lease, they have seen the row but know  *)
(* nothing that a step of its holder could undo.                           *)

(* A request that stands still outside the lease keeps what it has seen.   *)
LEMMA Bystander ==
  ASSUME NEW q \in Requests, Seen(q), pc[q] \notin Leased, pc'[q] = pc[q], mem'[q] = mem[q],
         Sent(payoutTx) \subseteq Sent(payoutTx)'
  PROVE  Seen(q)' /\ Knows(q)'
<1>1. Seen(q)'
  BY DEF Seen, At
<1>2. Knows(q)'
  BY DEF Knows, At, BeforePayout, PayoutLeg, Leased, Forward, Undo, Compensation
<1> QED BY <1>1, <1>2

(* A step inside the lease that keeps its own promises keeps everybody's.  *)
LEMMA HolderMoney ==
  ASSUME Inv, MoneyInv, NEW r \in Requests, Inside(r), Kept(r),
         \A q \in Requests : q # r => mem'[q] = mem[q]
  PROVE  MoneyInv'
<1>1. \A q \in Requests : q # r => pc'[q] = pc[q] /\ pc[q] \notin Leased
  BY DEF Inside, LeasedStep, Go, Inv, TypeOK, LeaseInv, SingleAttempt
<1>2. \A q \in Requests : q # r => Seen(q)' /\ Knows(q)'
  BY <1>1, Bystander DEF MoneyInv, Kept
<1> QED BY <1>2 DEF MoneyInv, Kept

(* A step of a request outside the lease, or of the environment, that      *)
(* leaves the payout and the statuses the others count on alone.           *)
LEMMA UndisturbedMoney ==
  ASSUME NEW q \in Requests, Seen(q), Knows(q), pc'[q] = pc[q], mem'[q] = mem[q],
         UNCHANGED <<credit, escrow, payoutTx, bridged>>,
         row'.status = row.status \/ row.status \notin {"PAYOUT_PENDING", "COMPENSATION_PENDING"}
  PROVE  Seen(q)' /\ Knows(q)'
<1>1. Sent(payoutTx)' = Sent(payoutTx) /\ NotDelivered' = NotDelivered /\ Delivered' = Delivered
  BY DEF Sent, NotDelivered, Delivered
<1>2. Seen(q)'
  BY <1>1 DEF Seen, At
<1>3. Knows(q)'
  BY <1>1 DEF Knows, At
<1> QED BY <1>2, <1>3

(* The claim: what the handler saw before it is what the row says now.     *)
LEMMA ClaimMoney ==
  ASSUME TypeOK, MoneyInv, NEW r \in Requests, Claim(r)
  PROVE  MoneyInv'
<1>1. PICK l \in {"claimExecute", "claimRepair", "claimReconcile"}, ok \in {"liquidity", "repair", "reconcile"} :
        /\ ClaimLease(r, l, ok)
        /\ l = "claimExecute" => ok = "liquidity"
        /\ l = "claimRepair" => ok = "repair"
        /\ l = "claimReconcile" => ok = "reconcile"
  BY DEF Claim
<1>2. pc[r] = l /\ UNCHANGED <<credit, escrow, escrowTx, payoutTx, compTx, mem, bridged>>
  BY <1>1 DEF ClaimLease, At, chain
<1>3. row'.status = row.status /\ row'.destHash = row.destHash
  BY <1>1 DEF ClaimLease, TypeOK, Rows
<1>4. /\ pc'[r] = "done" \/ (pc'[r] = ok /\ row.status = mem[r].status)
      /\ \A q \in Requests : q # r => pc'[q] = pc[q]
  BY <1>1 DEF ClaimLease, Go, TypeOK
<1>5. /\ Sent(payoutTx)' = Sent(payoutTx) /\ Sent(compTx)' = Sent(compTx)
      /\ NotDelivered' = NotDelivered
  BY <1>2 DEF Sent, NotDelivered
<1>6. MoneyKnown'
  BY <1>2, <1>3, <1>5 DEF MoneyInv, MoneyKnown
<1>7. Seen(r)'
  BY <1>1, <1>2, <1>4, <1>5 DEF MoneyInv, Seen, At
<1>8. Knows(r)'
  <2>1. CASE pc'[r] = "done"
    BY <2>1, NothingToKnow
  <2>2. CASE pc'[r] = ok /\ l = "claimExecute"
    <3>1. Sent(payoutTx)' = {}
      BY <1>1, <1>2, <1>4, <1>5, <2>2 DEF MoneyInv, MoneyKnown, Seen, At
    <3> QED BY <1>1, <2>2, <3>1 DEF Knows, At, Forward, PayoutLeg
  <2>3. CASE pc'[r] = ok /\ l = "claimRepair"
    <3>1. row'.status = "COMPENSATION_PENDING"
      BY <1>1, <1>2, <1>3, <1>4, <2>3 DEF MoneyInv, Seen, At
    <3> QED BY <1>1, <2>3, <3>1 DEF Knows, At, BeforePayout, Forward, PayoutLeg
  <2>4. CASE pc'[r] = ok /\ l = "claimReconcile"
    BY <1>1, <2>4 DEF Knows, At, BeforePayout, Forward, PayoutLeg
  <2> QED BY <1>4, <2>1, <2>2, <2>3, <2>4
<1>9. \A q \in Requests : q # r => Seen(q)' /\ Knows(q)'
  BY <1>2, <1>3, <1>4, UndisturbedMoney DEF MoneyInv
<1> QED BY <1>6, <1>7, <1>8, <1>9 DEF MoneyInv

(* The finally of withExecutionLease touches the lease only.               *)
LEMMA ReleaseMoney ==
  ASSUME TypeOK, MoneyInv, NEW r \in Requests, ReleaseLease(r)
  PROVE  Kept(r)
<1>1. row'.status = row.status /\ row'.destHash = row.destHash /\ Go(r, "done")
      /\ UNCHANGED <<credit, chain, mem, bridged>>
  BY DEF ReleaseLease, TypeOK, Rows
<1>2. Knows(r)'
  BY <1>1, NothingToKnow DEF Go, TypeOK
<1> QED BY <1>1, <1>2, QuietMoney DEF MoneyInv, chain

(* A cancel lands only on a payment no transfer was sent for.              *)
LEMMA CancelMoney ==
  ASSUME TypeOK, MoneyInv, NEW r \in Requests, CancelPayment(r)
  PROVE  MoneyInv'
<1>1. /\ pc[r] = "cancel" /\ Transition(r, "CANCELLED", row, "done", "done")
      /\ UNCHANGED <<credit, escrow, escrowTx, payoutTx, compTx, bridged>>
  BY DEF CancelPayment, At, chain
<1>2. /\ row \in Rows
      /\ pc'[r] = "done"
      /\ \A q \in Requests : q # r => pc'[q] = pc[q] /\ mem'[q] = mem[q]
      /\ row' = row \/ row.status = mem[r].status
  BY <1>1 DEF Transition, Go, See, TypeOK
<1>3. mem[r].status \in CANCELLABLE_STATES
  BY <1>1 DEF MoneyInv, Seen, At
<1>4. row' = row \/ row.status \notin {"PAYOUT_PENDING", "COMPENSATION_PENDING"}
  BY <1>2, <1>3 DEF CANCELLABLE_STATES
<1>5. Kept(r)
  BY <1>1, <1>2, NothingToKnow, MoveMoney DEF MoneyInv, PAYMENT_STATES
<1>6. \A q \in Requests : q # r => Seen(q)' /\ Knows(q)'
  BY <1>1, <1>2, <1>4, UndisturbedMoney DEF MoneyInv
<1> QED BY <1>5, <1>6 DEF MoneyInv, Kept

(* A handler that arrives sees the row as it is.                           *)
LEMMA ArriveMoney ==
  ASSUME TypeOK, MoneyInv, NEW r \in Requests, ArriveAny(r)
  PROVE  MoneyInv'
<1>1. PICK l \in {"claimExecute", "claimRepair", "claimReconcile", "cancel"} :
        /\ Go(r, l)
        /\ l = "claimExecute" => row.status = "APPROVED"
        /\ l = "claimRepair" => row.status = "COMPENSATION_PENDING"
        /\ l = "claimReconcile" /\ row.status = "PAYOUT_PENDING" => row.destHash # None
        /\ l = "cancel" => row.status \in CANCELLABLE_STATES
  BY DEF ArriveAny, ExecuteStart, RepairStart, ReconcileStart, CancelStart, Arrive
<1>2. See(r, row) /\ UNCHANGED <<row, credit, escrow, escrowTx, payoutTx, compTx, bridged>>
  BY DEF ArriveAny, ExecuteStart, RepairStart, ReconcileStart, CancelStart, Arrive, chain
<1>3. /\ mem'[r].status = row.status /\ mem'[r].destHash = row.destHash /\ pc'[r] = l
      /\ \A q \in Requests : q # r => pc'[q] = pc[q] /\ mem'[q] = mem[q]
  BY <1>1, <1>2 DEF See, Go, View, TypeOK
<1>4. /\ Sent(payoutTx)' = Sent(payoutTx) /\ Sent(compTx)' = Sent(compTx)
      /\ NotDelivered' = NotDelivered
  BY <1>2 DEF Sent, NotDelivered
<1>5. MoneyKnown'
  BY <1>2, <1>4 DEF MoneyInv, MoneyKnown
<1>6. Seen(r)'
  BY <1>1, <1>3, <1>4 DEF MoneyInv, MoneyKnown, Seen, At
<1>7. Knows(r)'
  BY <1>3 DEF Knows, At, BeforePayout, Forward, PayoutLeg
<1>8. \A q \in Requests : q # r => Seen(q)' /\ Knows(q)'
  BY <1>2, <1>3, UndisturbedMoney DEF MoneyInv
<1> QED BY <1>5, <1>6, <1>7, <1>8 DEF MoneyInv

(* The chains: a settled escrow stays settled, and a transaction that ends *)
(* was sent before.                                                        *)
LEMMA MineMoney ==
  ASSUME TypeOK, MoneyInv, Mine
  PROVE  MoneyInv'
<1>1. UNCHANGED <<row, credit, pc, mem, bridged>>
  BY DEF Mine, MineInitiate, MineSettle, MineRefund, MineCall, MinePayout, MineCompensation
<1>2. /\ \A q \in Requests : payoutTx'[q] = payoutTx[q]
                               \/ (payoutTx[q] = "pending" /\ payoutTx'[q] \in {"success", "reverted"})
      /\ \A q \in Requests : compTx'[q] = compTx[q]
                               \/ (compTx[q] = "pending" /\ compTx'[q] \in {"success", "reverted"})
  BY DEF Mine, MineInitiate, MineSettle, MineRefund, MineCall, MinePayout, MineCompensation, TypeOK
<1>3. escrow = "SETTLED" => escrow' = "SETTLED"
  BY DEF Mine, MineInitiate, MineSettle, MineRefund, MineCall, MinePayout, MineCompensation,
         InitiatePayment, SettlePayment, FailAndRefund
<1>4. escrowTx'["settlePayment"] = "success" => escrow' = "SETTLED"
  <2>1. escrowTx["settlePayment"] = "success" => escrow = "SETTLED"
    BY DEF MoneyInv, MoneyKnown
  <2>2. CASE MineSettle
    BY <1>3, <2>1, <2>2 DEF MineSettle, MineCall, SettlePayment, TypeOK, EscrowCalls
  <2>3. CASE escrowTx'["settlePayment"] = escrowTx["settlePayment"]
    BY <1>3, <2>1, <2>3
  <2>4. MineInitiate \/ MineRefund \/ (\E r \in Requests : MinePayout(r) \/ MineCompensation(r)) =>
          escrowTx'["settlePayment"] = escrowTx["settlePayment"]
    BY DEF MineInitiate, MineRefund, MineCall, MinePayout, MineCompensation, TypeOK, EscrowCalls
  <2> QED BY <2>2, <2>3, <2>4 DEF Mine
<1>5. Sent(payoutTx)' = Sent(payoutTx) /\ Sent(compTx)' = Sent(compTx)
  BY <1>2 DEF Sent
<1>6. NotDelivered => NotDelivered'
  BY <1>1, <1>2 DEF NotDelivered
<1>7. \A q \in Requests : payoutTx[q] = "success" => payoutTx'[q] = "success"
  BY <1>2
<1>8. MoneyKnown'
  BY <1>1, <1>3, <1>4, <1>5, <1>6, <1>7 DEF MoneyInv, MoneyKnown
<1>9. ASSUME NEW r \in Requests PROVE Seen(r)' /\ Knows(r)'
  <2>1. Seen(r) /\ Knows(r)
    BY DEF MoneyInv
  <2>2. Seen(r)'
    BY <1>1, <1>5, <2>1 DEF Seen, At
  <2>3. Delivered => Delivered'
    BY <1>1, <1>7 DEF Delivered
  <2>4. Knows(r)'
    BY <1>1, <1>3, <1>5, <1>6, <1>7, <2>1, <2>3 DEF Knows, At
  <2> QED BY <2>2, <2>4
<1> QED BY <1>8, <1>9 DEF MoneyInv

(* A dead request knows nothing and does nothing.                          *)
LEMMA CrashMoney ==
  ASSUME TypeOK, MoneyInv, Crash
  PROVE  MoneyInv'
<1>1. UNCHANGED <<row, credit, chain, mem, bridged>>
      /\ \A r \in Requests : pc'[r] = "dead" \/ (pc'[r] = pc[r] /\ pc[r] \notin Running)
  BY DEF Crash
<1>2. /\ Sent(payoutTx)' = Sent(payoutTx) /\ Sent(compTx)' = Sent(compTx)
      /\ NotDelivered' = NotDelivered
  BY <1>1 DEF Sent, NotDelivered, chain
<1>3. MoneyKnown'
  BY <1>1, <1>2 DEF MoneyInv, MoneyKnown, chain
<1>4. ASSUME NEW r \in Requests PROVE Seen(r)' /\ Knows(r)'
  <2>1. pc'[r] \notin Running
    BY <1>1 DEF Running, Leased, Forward, Undo, Compensation
  <2>2. Seen(r)'
    BY <1>1, <1>2, <2>1 DEF MoneyInv, Seen, At, Running, Leased
  <2>3. Knows(r)'
    BY <2>1 DEF Knows, At, BeforePayout, PayoutLeg, Running, Leased, Forward, Undo, Compensation
  <2> QED BY <2>2, <2>3
<1> QED BY <1>3, <1>4 DEF MoneyInv

(* No money has moved and nobody has seen anything.                        *)
LEMMA InitMoney == Init => MoneyInv
<1> SUFFICES ASSUME Init PROVE MoneyInv
  OBVIOUS
<1>1. row.status = "APPROVED" /\ row.destHash = None /\ ~credit
  BY DEF Init
<1>2. Sent(payoutTx) = {} /\ Sent(compTx) = {} /\ escrowTx["settlePayment"] = "none"
  BY DEF Init, Sent, EscrowCalls
<1>3. \A r \in Requests : pc[r] = "idle" /\ mem[r].destHash = None
  BY DEF Init, View
<1>4. MoneyKnown
  BY <1>1, <1>2 DEF MoneyKnown, CompensationStates
<1>5. \A r \in Requests : Seen(r) /\ Knows(r)
  BY <1>3 DEF Seen, Knows, At, BeforePayout, Forward, PayoutLeg
<1> QED BY <1>4, <1>5 DEF MoneyInv

(* Every step keeps MoneyInv where the lease fence holds before and after  *)
(* and no broadcast loses its answer.                                      *)
LEMMA NextMoney ==
  ASSUME Inv, Inv', MoneyInv, ~LostAnswer, [Next]_vars
  PROVE  MoneyInv'
<1>0. TypeOK
  BY DEF Inv
<1>1. CASE UNCHANGED vars
  BY <1>1 DEF vars, chain, MoneyInv, MoneyKnown, Seen, Knows, At, Sent, NotDelivered, Delivered
<1>2. ASSUME NEW r \in Requests, ArriveAny(r) PROVE MoneyInv'
  BY <1>0, <1>2, ArriveMoney
<1>3. ASSUME NEW r \in Requests, Advance(r) PROVE MoneyInv'
  <2>0. MoneyKnown /\ Seen(r) /\ Knows(r)
    BY DEF MoneyInv
  <2>1. CASE Claim(r)
    BY <1>0, <2>1, ClaimMoney
  <2>2. CASE ForwardStep(r) \/ UndoStep(r) \/ CompensationStep(r) \/ OperatorStep(r)
    <3>1. Inside(r)
      BY <1>0, <2>2, ForwardInside, UndoInside, CompensationInside, OperatorInside
    <3>2. Kept(r)
      BY <1>0, <2>0, <2>2, ForwardMoney, PayoutMoney, UndoMoney, CompensationMoney, OperatorMoney
    <3> QED BY <1>0, <2>2, <3>1, <3>2, OnlyOwnMemory, HolderMoney
  <2>3. CASE CancelPayment(r)
    BY <1>0, <2>3, CancelMoney
  <2>4. CASE ReleaseLease(r)
    <3>1. Kept(r)
      BY <1>0, <2>4, ReleaseMoney
    <3>2. /\ pc[r] \in Leased /\ mem' = mem
          /\ \A q \in Requests : q # r => pc'[q] = pc[q]
      BY <1>0, <2>4 DEF ReleaseLease, At, Go, Leased, TypeOK
    <3>3. \A q \in Requests : q # r => pc[q] \notin Leased
      BY <3>2 DEF Inv, LeaseInv, SingleAttempt
    <3>4. \A q \in Requests : q # r => Seen(q)' /\ Knows(q)'
      BY <3>1, <3>2, <3>3, Bystander DEF MoneyInv, Kept
    <3> QED BY <3>1, <3>4 DEF MoneyInv, Kept
  <2> QED BY <1>3, <2>1, <2>2, <2>3, <2>4 DEF Advance
<1>4. CASE Mine
  BY <1>0, <1>4, MineMoney
<1>5. CASE Crash
  BY <1>0, <1>5, CrashMoney
<1>6. CASE Rest
  BY <1>1, <1>6 DEF Rest
<1> QED BY <1>1, <1>2, <1>3, <1>4, <1>5, <1>6 DEF Next

(* What the catch, the repair and the reconcile rely on holds in every     *)
(* reachable state (lib/executor.ts:493-525, 566-616, 1013-1060).          *)
THEOREM MoneyIsKnown ==
  ASSUME "broadcast" \notin Faults
  PROVE  Spec => []MoneyInv
<1>1. Init => MoneyInv
  BY InitMoney
<1>2. Inv /\ Inv' /\ MoneyInv /\ [Next]_vars => MoneyInv'
  BY NextMoney DEF LostAnswer
<1>3. Spec => []Inv
  BY InvHolds
<1> QED BY <1>1, <1>2, <1>3, PTL DEF Spec

(* The recipient is never paid while the sender is made whole, whatever    *)
(* crashes, overlaps or fails to be written, when every broadcast that the *)
(* node accepted is answered (lib/executor.ts:566-616, 1028-1060).         *)
THEOREM NeverBothPaid ==
  ASSUME "broadcast" \notin Faults
  PROVE  Spec => []NeverPaidBothWays
<1>1. ASSUME MoneyInv PROVE NeverPaidBothWays
  <2>1. CASE escrow = "REFUNDED"
    BY <1>1, <2>1 DEF NeverPaidBothWays, Delivered, MoneyInv, MoneyKnown, Sent
  <2>2. CASE \E r \in Requests : compTx[r] = "success"
    <3>1. NotDelivered
      BY <1>1, <2>2 DEF MoneyInv, MoneyKnown, Sent
    <3> QED BY <3>1 DEF NeverPaidBothWays, Delivered, NotDelivered
  <2> QED BY <2>1, <2>2 DEF NeverPaidBothWays, Returned
<1>2. MoneyInv => NeverPaidBothWays
  BY <1>1
<1>3. Spec => []MoneyInv
  BY MoneyIsKnown
<1> QED BY <1>2, <1>3, PTL

=============================================================================
