------------------------ MODULE PaymentReturnProofs ------------------------
(***************************************************************************)
(* What an attempt leaves behind when the database answers and the process *)
(* lives, for any set of requests, any overlap, and broadcasts that may    *)
(* lose their answer: the lease is given back, no payment is left between  *)
(* two steps, and what rests is on the operator's list with a way on.  The *)
(* argument is AttemptInv: the status at each place of the code, and a     *)
(* holder for every status that is not a resting place.                    *)
(*                                                                         *)
(* And what is held for a payment is given back, and the amount keeps the  *)
(* promise.  Liquidity: no reservation outlives its payment, when neither  *)
(* an execute nor a cancel overlaps another request (LiquidityInv).        *)
(* Compensation: the treasury pays the sender back once, when repairs do   *)
(* not overlap and every broadcast is answered (CompInv); and then every   *)
(* step of the executor is a step of PaymentPromise or a stutter.  All of  *)
(* it builds on AttemptInv.                                                *)
(***************************************************************************)
EXTENDS PaymentExecutorProofs

-----------------------------------------------------------------------------
(* What rests.                                                             *)

Preparing == {"liquidity", "recallFailed", "reserve", "markReserved"}
Undoing == {"unwind", "readEscrow", "refund", "awaitRefund"}
Reached ==
  InFlight \union
    {"APPROVED", "CANCELLED", "PAYOUT_PENDING", "SETTLED", "COMPENSATION_PENDING",
     "COMPENSATED", "FAILED", "REFUNDED"}

(* The status that the holder of the lease has brought the payment to; it  *)
(* has seen it too, unless a cancel slipped in before the first move.      *)
InPlace(r) ==
  /\ pc[r] \in Preparing => row.status \in {"APPROVED", "CANCELLED"} /\ mem[r].status = "APPROVED"
  /\ pc[r] \in {"initiate", "awaitInitiate"} => row.status = "LIQUIDITY_RESERVED"
  /\ At(r, "markConfirmed") => row.status = "SUBMITTED_ONCHAIN"
  /\ pc[r] \in {"settle", "awaitSettle"} => row.status = "CONFIRMED_ONCHAIN"
  /\ At(r, "markPayoutPending") => row.status = "FX_OR_SWAP_COMPLETED"
  /\ pc[r] \in PayoutLeg \union Completing \union {"resolvePayout", "awaitCompensation"} =>
       row.status = "PAYOUT_PENDING"
  /\ pc[r] \in Undoing \union {"catch"} => row.status \in InFlight \union {"PAYOUT_PENDING"}
  /\ At(r, "compensate") =>
       row.status \in {"CONFIRMED_ONCHAIN", "FX_OR_SWAP_COMPLETED", "PAYOUT_PENDING"}
  /\ At(r, "markRefunded") => row.status = "FAILED"
  /\ At(r, "fail") => row.status \in InFlight \union {"PAYOUT_PENDING", "FAILED"}
  /\ pc[r] \in Compensation \union {"repair"} => row.status = "COMPENSATION_PENDING"
  /\ At(r, "reconcile") => row.status \in {"PAYOUT_PENDING", "COMPENSATION_PENDING"}
  /\ pc[r] \in Leased \ (Preparing \union {"release"}) => mem[r].status = row.status

(* A status between two steps of an attempt: nobody but the attempt can    *)
(* find the payment again.                                                 *)
Unresting == row.status \in InFlight \/ (row.status = "PAYOUT_PENDING" /\ row.destHash = None)

(* The lease has a holder inside, and so has a payment that is not at rest.*)
Attended ==
  /\ row.lease # None => row.lease \in Requests /\ pc[row.lease] \in Leased
  /\ Unresting => \E r \in Requests : pc[r] \in Leased \ {"release"}

(* What the row, the escrow and the reservation say of each other.         *)
AttemptFacts ==
  /\ row.status \in Reached
  /\ row.status \in InFlight \union {"APPROVED", "CANCELLED"} => row.destHash = None
  /\ row.status \in {"APPROVED", "LIQUIDITY_RESERVED", "SUBMITTED_ONCHAIN"} =>
       escrow # "SETTLED" /\ escrowTx["settlePayment"] = "none"
  /\ row.status = "COMPENSATED" => escrow = "SETTLED"
  /\ escrow # "NONE" => escrowTx["initiatePayment"] # "none"
  /\ escrowTx["initiatePayment"] # "none" => reservation # "absent"

(* What a request outside the lease has seen.                              *)
SawAttempt(r) ==
  /\ At(r, "claimExecute") => mem[r].destHash = None
  /\ pc[r] \in {"claimReconcile", "reconcile"} =>
       /\ mem[r].status \in {"PAYOUT_PENDING", "COMPENSATION_PENDING"}
       /\ mem[r].destHash # None => row.destHash # None

(* What the holder knows of the payout and of the reservation.             *)
KnowsAttempt(r) ==
  /\ InPlace(r)
  /\ pc[r] \in BeforePayout => mem[r].destHash = None
  /\ pc[r] \in {"payout", "awaitPayout", "credit", "consume", "markSettled", "catch", "resolvePayout"} =>
       row.destHash = mem[r].destHash
  /\ At(r, "catch") /\ (credit \/ mem[r].destHash # None) => row.status = "PAYOUT_PENDING"
  /\ At(r, "resolvePayout") => mem[r].destHash # None
  /\ pc[r] \in {"markReserved", "initiate"} => reservation # "absent"
  /\ At(r, "release") => ~Unresting

AttemptInv ==
  /\ Attended
  /\ AttemptFacts
  /\ \A r \in Requests : SawAttempt(r) /\ KnowsAttempt(r)

-----------------------------------------------------------------------------
(* The moves of an attempt are all in the table (lib/state.ts:26-52).      *)
LEMMA LegalMoves ==
  /\ CanTransition("APPROVED", "LIQUIDITY_RESERVED")
  /\ CanTransition("LIQUIDITY_RESERVED", "SUBMITTED_ONCHAIN")
  /\ CanTransition("SUBMITTED_ONCHAIN", "CONFIRMED_ONCHAIN")
  /\ CanTransition("CONFIRMED_ONCHAIN", "FX_OR_SWAP_COMPLETED")
  /\ CanTransition("FX_OR_SWAP_COMPLETED", "PAYOUT_PENDING")
  /\ CanTransition("PAYOUT_PENDING", "SETTLED")
  /\ \A s \in {"CONFIRMED_ONCHAIN", "FX_OR_SWAP_COMPLETED", "PAYOUT_PENDING"} :
       CanTransition(s, "COMPENSATION_PENDING")
  /\ CanTransition("COMPENSATION_PENDING", "COMPENSATED")
  /\ CanTransition("FAILED", "REFUNDED")
  /\ \A s \in InFlight \union {"APPROVED", "PAYOUT_PENDING"} : CanTransition(s, "FAILED")
BY DEF CanTransition, TRANSITIONS, PAYMENT_STATES, InFlight

(* Where the database answers, a legal move from the status seen lands and *)
(* is seen; any other is refused.                                          *)
LEMMA SureMove ==
  ASSUME TypeOK, ~DbFault, NEW r \in Requests, NEW to \in PAYMENT_STATES, NEW base \in Rows,
         NEW ok, NEW err, Transition(r, to, base, ok, err)
  PROVE  IF row.status = mem[r].status /\ CanTransition(row.status, to)
         THEN /\ pc'[r] = ok
              /\ row'.status = to /\ row'.destHash = base.destHash
              /\ mem'[r].status = to /\ mem'[r].destHash = base.destHash
         ELSE row' = row /\ mem' = mem /\ pc'[r] = err
<1> DEFINE moved == Moved(base, to)
<1>1. /\ moved.status = to /\ moved.destHash = base.destHash
      /\ View(moved).status = to /\ View(moved).destHash = base.destHash
  BY DEF Moved, Rows, View
<1>2. IF row.status = mem[r].status /\ CanTransition(row.status, to)
      THEN row' = moved /\ mem' = [mem EXCEPT ![r] = View(moved)] /\ Go(r, ok)
      ELSE row' = row /\ mem' = mem /\ Go(r, err)
  BY DEF Transition, See, moved
<1> HIDE DEF moved
<1> QED BY <1>1, <1>2 DEF Go, TypeOK

(* What a step of the holder owes.                                         *)
KeptAttempt(r) ==
  AttemptFacts' /\ SawAttempt(r)' /\ KnowsAttempt(r)' /\ (row.destHash # None => row'.destHash # None)

(* A step that leaves the row, the memory and the escrow alone.            *)
LEMMA QuietAttempt ==
  ASSUME TypeOK, AttemptFacts, NEW r \in Requests,
         NEW l \in (Leased \ {"reconcile"}) \union {"done"}, Go(r, l),
         row'.status = row.status, row'.destHash = row.destHash,
         UNCHANGED <<escrow, escrowTx, mem>>,
         reservation' = reservation \/ reservation' # "absent",
         KnowsAttempt(r)'
  PROVE  KeptAttempt(r)
<1>1. pc'[r] \notin {"claimExecute", "claimReconcile", "reconcile"}
  BY DEF Go, TypeOK, Leased, Forward, Undo, Compensation
<1>2. AttemptFacts'
  BY DEF AttemptFacts
<1>3. SawAttempt(r)'
  BY <1>1 DEF SawAttempt, At
<1> QED BY <1>2, <1>3 DEF KeptAttempt

(* A place where an attempt that has sent nothing is still on its way.     *)
LEMMA StillEarly ==
  ASSUME TypeOK, AttemptFacts, NEW r \in Requests, pc[r] \in Early, KnowsOutcome(r), KnowsAttempt(r),
         ~(pc[r] \in Preparing), UNCHANGED <<row, mem, credit>>, pc'[r] = "catch"
  PROVE  KnowsAttempt(r)'
BY DEF AttemptFacts, KnowsAttempt, KnowsOutcome, InPlace, At, Early, Uncredited, BeforePayout, PayoutLeg, Preparing,
       Undoing, Completing, Compensation, Leased, Forward, InFlight

(* The forward path up to the payout, each step at the status the last one *)
(* wrote (lib/executor.ts:326-493).                                        *)
LEMMA ForwardAttempt ==
  ASSUME TypeOK, ~DbFault, RowIsTrue, AttemptFacts, NEW r \in Requests, KnowsOutcome(r), KnowsAttempt(r),
         ForwardStep(r), pc[r] \notin PayoutLeg
  PROVE  KeptAttempt(r)
<1> USE DEF chain, At
<1>0. row \in Rows /\ pc \in [Requests -> Labels]
  BY DEF TypeOK
<1>a. Forward \union Undo \union {"release"} \subseteq Leased \ {"reconcile"}
  BY DEF Leased, Forward, Undo
<1>b. ASSUME NEW to \in PAYMENT_STATES, NEW ok, NEW err, Transition(r, to, row, ok, err)
      PROVE  IF row.status = mem[r].status /\ CanTransition(row.status, to)
             THEN /\ pc'[r] = ok /\ row'.status = to /\ row'.destHash = row.destHash
                  /\ mem'[r].status = to /\ mem'[r].destHash = row.destHash
             ELSE row' = row /\ mem' = mem /\ pc'[r] = err
  BY <1>0, <1>b, SureMove
<1>c. ASSUME NEW l \in Forward \union {"catch", "release"}, Go(r, l), UNCHANGED <<row, mem, chain>>,
             reservation' = reservation \/ reservation' # "absent",
             KnowsAttempt(r)'
      PROVE  KeptAttempt(r)
  BY <1>a, <1>c, QuietAttempt DEF Undo
<1>d. row.status \in {"APPROVED", "CANCELLED"} => ~Unresting
  BY DEF Unresting, InFlight
<1>1. CASE CheckLiquidity(r)
  <2>0. row.status \in {"APPROVED", "CANCELLED"} /\ mem[r].status = "APPROVED" /\ mem[r].destHash = None
    BY <1>1 DEF CheckLiquidity, KnowsAttempt, InPlace, Preparing, BeforePayout
  <2>1. CASE Transition(r, "FAILED", row, "release", "release") /\ UNCHANGED reservation
    <3>1. pc'[r] = "release" /\ row'.destHash = row.destHash
          /\ row'.status \in {"FAILED", "CANCELLED"} /\ UNCHANGED <<escrow, escrowTx, reservation>>
      BY <1>1, <1>b, <2>0, <2>1, LegalMoves DEF CheckLiquidity, PAYMENT_STATES
    <3>2. KnowsAttempt(r)'
      BY <3>1 DEF KnowsAttempt, InPlace, Unresting, Preparing, PayoutLeg, Completing, Undoing,
                  Compensation, BeforePayout, InFlight
    <3>3. AttemptFacts'
      BY <2>0, <3>1 DEF AttemptFacts, Reached, InFlight
    <3>4. SawAttempt(r)'
      BY <3>1 DEF SawAttempt
    <3> QED BY <3>1, <3>2, <3>3, <3>4 DEF KeptAttempt
  <2>2. CASE \E l \in {"reserve", "release", "recallFailed"} : Go(r, l) /\ UNCHANGED <<row, mem>>
    <3>1. PICK l \in {"reserve", "release", "recallFailed"} : Go(r, l)
      BY <2>2
    <3>2. pc'[r] = l /\ UNCHANGED <<row, mem, chain>>
          /\ (reservation' = reservation \/ reservation' # "absent")
      BY <1>0, <1>1, <2>2, <3>1 DEF CheckLiquidity, Go
    <3>3. KnowsAttempt(r)'
      BY <1>d, <2>0, <3>2
         DEF KnowsAttempt, InPlace, Unresting, Preparing, PayoutLeg, Completing, Undoing,
             Compensation, BeforePayout
    <3> QED BY <1>c, <3>1, <3>2, <3>3 DEF Forward
  <2> QED BY <1>1, <2>1, <2>2 DEF CheckLiquidity
<1>2. CASE FailRecall(r)
  <2>0. row.status \in {"APPROVED", "CANCELLED"} /\ mem[r].status = "APPROVED"
    BY <1>2 DEF FailRecall, Step, KnowsAttempt, InPlace, Preparing
  <2>1. pc'[r] = "release" /\ row'.destHash = row.destHash
        /\ row'.status \in {"FAILED", "CANCELLED"} /\ UNCHANGED <<escrow, escrowTx, reservation>>
    BY <1>2, <1>b, <2>0, LegalMoves DEF FailRecall, Step, PAYMENT_STATES
  <2>2. KnowsAttempt(r)'
    BY <2>1 DEF KnowsAttempt, InPlace, Unresting, Preparing, PayoutLeg, Completing, Undoing,
                Compensation, BeforePayout, InFlight
  <2>3. AttemptFacts'
    BY <2>0, <2>1 DEF AttemptFacts, Reached, InFlight
  <2>4. SawAttempt(r)'
    BY <2>1 DEF SawAttempt
  <2> QED BY <2>1, <2>2, <2>3, <2>4 DEF KeptAttempt
<1>3. CASE Reserve(r)
  <2>0. row.status \in {"APPROVED", "CANCELLED"} /\ mem[r].status = "APPROVED" /\ mem[r].destHash = None
    BY <1>3 DEF Reserve, KnowsAttempt, InPlace, Preparing, BeforePayout
  <2>1. PICK l \in {"markReserved", "release"} :
          /\ Go(r, l) /\ UNCHANGED <<row, mem, chain>>
          /\ IF l = "markReserved" THEN reservation' = "RESERVED" ELSE reservation' = reservation
    BY <1>3 DEF Reserve, Write
  <2>2. pc'[r] = l
    BY <1>0, <2>1 DEF Go
  <2>3. KnowsAttempt(r)'
    BY <1>d, <2>0, <2>1, <2>2
       DEF KnowsAttempt, InPlace, Unresting, Preparing, PayoutLeg, Completing, Undoing,
           Compensation, BeforePayout
  <2> QED BY <1>c, <2>1, <2>3 DEF Forward
<1>4. CASE MarkReserved(r)
  <2>0. /\ row.status \in {"APPROVED", "CANCELLED"} /\ mem[r].status = "APPROVED"
        /\ row.destHash = None /\ reservation # "absent"
    BY <1>4 DEF MarkReserved, Step, KnowsAttempt, InPlace, Preparing, AttemptFacts
  <2>1. UNCHANGED <<escrow, escrowTx, reservation, credit>>
    BY <1>4 DEF MarkReserved, Step
  <2>2. \/ /\ row.status = "APPROVED" /\ pc'[r] = "initiate"
           /\ row'.status = "LIQUIDITY_RESERVED" /\ mem'[r].status = "LIQUIDITY_RESERVED"
           /\ row'.destHash = None /\ mem'[r].destHash = None
        \/ row' = row /\ row.status = "CANCELLED" /\ pc'[r] = "release"
    BY <1>4, <1>b, <2>0, LegalMoves DEF MarkReserved, Step, PAYMENT_STATES
  <2>3. KnowsAttempt(r)'
    BY <2>0, <2>1, <2>2
       DEF KnowsAttempt, InPlace, Unresting, Preparing, PayoutLeg, Completing, Undoing,
           Compensation, BeforePayout, InFlight
  <2>4. AttemptFacts'
    BY <2>0, <2>1, <2>2 DEF AttemptFacts, Reached, InFlight
  <2>5. SawAttempt(r)'
    BY <2>2 DEF SawAttempt
  <2> QED BY <2>0, <2>2, <2>3, <2>4, <2>5 DEF KeptAttempt
<1>5. CASE Initiate(r) \/ Settle(r)
  <2>1. PICK l \in {"awaitInitiate", "awaitSettle", "catch"} :
          Go(r, l) /\ pc'[r] = l /\ (pc[r] = "initiate" => l # "awaitSettle")
                   /\ (pc[r] = "settle" => l # "awaitInitiate")
    BY <1>0, <1>5 DEF Initiate, Settle, Call, Go
  <2>2. /\ UNCHANGED <<row, reservation, credit, escrow, mem>>
        /\ pc[r] \in {"initiate", "settle"}
        /\ escrowTx'["settlePayment"] = "none" \/ pc[r] = "settle"
             \/ escrowTx["settlePayment"] # "none"
        /\ escrowTx["initiatePayment"] # "none" => escrowTx'["initiatePayment"] # "none"
        /\ escrowTx'["initiatePayment"] = escrowTx["initiatePayment"] \/ pc[r] = "initiate"
    BY <1>5 DEF Initiate, Settle, Call, TypeOK, EscrowCalls
  <2>3. /\ pc[r] = "initiate" => row.status = "LIQUIDITY_RESERVED" /\ reservation # "absent"
        /\ pc[r] = "settle" => row.status = "CONFIRMED_ONCHAIN"
        /\ mem[r].status = row.status /\ mem[r].destHash = None
    BY <2>2 DEF KnowsAttempt, InPlace, BeforePayout, Leased, Forward, Preparing
  <2>4. KnowsAttempt(r)'
    <3>1. CASE l = "catch"
      BY <2>1, <2>2, <3>1, StillEarly DEF Early, Uncredited, PayoutLeg, Preparing
    <3>2. CASE l # "catch"
      BY <2>1, <2>2, <2>3, <3>2
         DEF KnowsAttempt, InPlace, Preparing, PayoutLeg, Completing, Undoing,
             Compensation, BeforePayout
    <3> QED BY <3>1, <3>2
  <2>5. AttemptFacts'
    BY <2>2, <2>3 DEF AttemptFacts
  <2>6. SawAttempt(r)'
    BY <2>1 DEF SawAttempt
  <2> QED BY <2>2, <2>4, <2>5, <2>6 DEF KeptAttempt
<1>6. ASSUME NEW l \in {"awaitInitiate", "markConfirmed", "awaitSettle"}, NEW mined,
             NEW to \in {"SUBMITTED_ONCHAIN", "CONFIRMED_ONCHAIN", "FX_OR_SWAP_COMPLETED"},
             NEW ok \in {"markConfirmed", "settle", "markPayoutPending"},
             l = "awaitInitiate" => to = "SUBMITTED_ONCHAIN" /\ ok = "markConfirmed",
             l = "markConfirmed" => to = "CONFIRMED_ONCHAIN" /\ ok = "settle",
             l = "awaitSettle" => to = "FX_OR_SWAP_COMPLETED" /\ ok = "markPayoutPending",
             OnReceipt(r, l, mined, to, row, ok, "catch")
      PROVE  KeptAttempt(r)
  <2>0. /\ UNCHANGED <<reservation, credit, escrow, escrowTx>> /\ pc[r] = l
        /\ l = "awaitInitiate" => row.status = "LIQUIDITY_RESERVED"
        /\ l = "markConfirmed" => row.status = "SUBMITTED_ONCHAIN"
        /\ l = "awaitSettle" => row.status = "CONFIRMED_ONCHAIN"
        /\ mem[r].status = row.status /\ mem[r].destHash = None /\ row.destHash = None
    BY <1>6 DEF OnReceipt, KnowsAttempt, InPlace, BeforePayout, Leased, Forward, Preparing,
                AttemptFacts, InFlight
  <2>1. CASE Transition(r, to, row, ok, "catch")
    <3>1. CanTransition(row.status, to)
      BY <1>6, <2>0, LegalMoves
    <3>2. /\ pc'[r] = ok /\ row'.status = to /\ row'.destHash = None
          /\ mem'[r].status = to /\ mem'[r].destHash = None
      BY <1>b, <2>0, <2>1, <3>1 DEF PAYMENT_STATES
    <3>3. KnowsAttempt(r)'
      BY <1>6, <3>2
         DEF KnowsAttempt, InPlace, Preparing, PayoutLeg, Completing, Undoing,
             Compensation, BeforePayout
    <3>4. AttemptFacts'
      BY <1>6, <2>0, <3>2 DEF AttemptFacts, Reached, InFlight
    <3>5. SawAttempt(r)'
      BY <3>2 DEF SawAttempt
    <3> QED BY <2>0, <3>3, <3>4, <3>5 DEF KeptAttempt
  <2>2. CASE UNCHANGED <<row, mem>> /\ Go(r, "catch")
    <3>1. pc'[r] = "catch"
      BY <1>0, <2>2 DEF Go
    <3>2. KnowsAttempt(r)'
      BY <2>0, <2>2, <3>1, StillEarly DEF Early, Uncredited, PayoutLeg, Preparing
    <3> QED BY <1>6, <1>c, <2>2, <3>2 DEF OnReceipt
  <2> QED BY <1>6, <2>1, <2>2 DEF OnReceipt
<1>7. CASE MarkSubmitted(r)
  BY <1>6, <1>7 DEF MarkSubmitted
<1>8. CASE MarkConfirmed(r)
  <2>1. OnReceipt(r, "markConfirmed", TRUE, "CONFIRMED_ONCHAIN", row, "settle", "catch")
    BY <1>8 DEF MarkConfirmed, Step, OnReceipt
  <2> QED BY <1>6, <2>1
<1>9. CASE MarkConverted(r)
  BY <1>6, <1>9 DEF MarkConverted
<1>10. CASE MarkPayoutPending(r)
  <2> DEFINE next == IF bridged THEN "payout" ELSE "credit"
  <2>0. /\ UNCHANGED <<reservation, credit, escrow, escrowTx>>
        /\ Transition(r, "PAYOUT_PENDING", row, next, "catch")
        /\ row.status = "FX_OR_SWAP_COMPLETED" /\ mem[r].status = row.status /\ row.destHash = None
    BY <1>10 DEF MarkPayoutPending, Step, KnowsAttempt, InPlace, Leased, Forward, Preparing,
                 AttemptFacts, InFlight
  <2>1. /\ pc'[r] = next /\ row'.status = "PAYOUT_PENDING" /\ row'.destHash = None
        /\ mem'[r].status = "PAYOUT_PENDING" /\ mem'[r].destHash = None
    BY <1>b, <2>0, LegalMoves DEF PAYMENT_STATES
  <2>2. KnowsAttempt(r)'
    BY <2>1 DEF KnowsAttempt, InPlace, Preparing, PayoutLeg, Completing, Undoing,
                Compensation, BeforePayout
  <2>3. AttemptFacts'
    BY <2>0, <2>1 DEF AttemptFacts, Reached, InFlight
  <2>4. SawAttempt(r)'
    BY <2>1 DEF SawAttempt
  <2> QED BY <2>0, <2>2, <2>3, <2>4 DEF KeptAttempt
<1> QED BY <1>1, <1>2, <1>3, <1>4, <1>5, <1>7, <1>8, <1>9, <1>10
        DEF ForwardStep, PayoutLeg, Payout, PersistPayout, AwaitPayout, Credit, Consume,
            MarkSettled, Step

(* The payout leg: at PAYOUT_PENDING throughout, and the row has the hash  *)
(* by the time anybody waits for it (lib/executor.ts:493-565).             *)
LEMMA PayoutAttempt ==
  ASSUME TypeOK, ~DbFault, AttemptFacts, NEW r \in Requests, KnowsOutcome(r), KnowsAttempt(r),
         ForwardStep(r), pc[r] \in PayoutLeg
  PROVE  KeptAttempt(r)
<1> USE DEF chain, At, Preparing, PayoutLeg, Completing, Undoing, Compensation, BeforePayout
<1>0. /\ row \in Rows /\ pc \in [Requests -> Labels] /\ mem \in [Requests -> Views]
      /\ r # None
  BY RequestsAssumption DEF TypeOK
<1>1. row.status = "PAYOUT_PENDING" /\ mem[r].status = "PAYOUT_PENDING"
      /\ (pc[r] # "persistPayout" => row.destHash = mem[r].destHash)
  BY DEF KnowsAttempt, InPlace, Leased, Forward
<1>2. PayoutLeg \union {"catch", "release"} \subseteq Leased \ {"reconcile"}
  BY DEF Leased, Forward, Undo
<1>a. ASSUME pc'[r] \in PayoutLeg \union {"catch"}, row'.status = "PAYOUT_PENDING",
             mem'[r].status = "PAYOUT_PENDING", pc'[r] # "payout",
             pc'[r] # "persistPayout" => row'.destHash = mem'[r].destHash
      PROVE  KnowsAttempt(r)'
  BY <1>a DEF KnowsAttempt, InPlace
<1>4. CASE Payout(r)
  <2>1. /\ pc'[r] \in {"persistPayout", "catch"} /\ mem'[r].status = mem[r].status
        /\ pc'[r] = "catch" => mem' = mem
        /\ UNCHANGED <<row, reservation, escrow, escrowTx>>
        /\ pc[r] = "payout"
    BY <1>0, <1>4 DEF Payout, Go, Views
  <2>2. KnowsAttempt(r)'
    BY <1>1, <1>a, <2>1
  <2>3. SawAttempt(r)'
    BY <2>1 DEF SawAttempt
  <2> QED BY <2>1, <2>2, <2>3 DEF KeptAttempt, AttemptFacts
<1>5. CASE PersistPayout(r)
  <2> DEFINE new == [row EXCEPT !.destHash = r]
  <2>1. new.status = row.status /\ new.destHash = r /\ View(new).destHash = r
        /\ View(new).status = row.status
    BY <1>0 DEF Rows, View
  <2>2. /\ Update(r, new, "awaitPayout", "catch")
        /\ UNCHANGED <<reservation, escrow, escrowTx>>
    BY <1>5 DEF PersistPayout
  <2> HIDE DEF new
  <2>3. /\ pc'[r] = "awaitPayout" /\ row'.status = row.status /\ row'.destHash = r
        /\ mem'[r].destHash = r /\ mem'[r].status = row.status
    BY <1>0, <2>1, <2>2 DEF Update, See, Go
  <2>4. KnowsAttempt(r)'
    BY <1>1, <1>a, <2>3
  <2>5. SawAttempt(r)'
    BY <2>3 DEF SawAttempt
  <2>6. AttemptFacts'
    BY <1>1, <2>2, <2>3 DEF AttemptFacts, InFlight
  <2> QED BY <1>0, <2>3, <2>4, <2>5, <2>6 DEF KeptAttempt
<1>6. CASE AwaitPayout(r) \/ Credit(r) \/ Consume(r)
  <2>1. PICK l \in {"credit", "consume", "markSettled", "catch"} : Go(r, l)
    BY <1>6 DEF AwaitPayout, Credit, Consume, Write
  <2>2. /\ UNCHANGED <<row, mem, chain>> /\ pc[r] # "persistPayout" /\ pc'[r] = l
        /\ reservation' \in {reservation, "CONSUMED"}
    BY <1>0, <1>6, <2>1 DEF AwaitPayout, Credit, Consume, Write, Go
  <2>3. KnowsAttempt(r)'
    BY <1>1, <1>a, <2>2
  <2> QED BY <1>2, <2>1, <2>2, <2>3, QuietAttempt
<1>8. CASE MarkSettled(r)
  <2>1. /\ Transition(r, "SETTLED", row, "release", "catch")
        /\ UNCHANGED <<reservation, escrow, escrowTx>>
        /\ row.status = mem[r].status
    BY <1>1, <1>8 DEF MarkSettled, Step
  <2>2. pc'[r] = "release" /\ row'.status = "SETTLED" /\ row'.destHash = row.destHash
    BY <1>0, <1>1, <2>1, SureMove, LegalMoves DEF PAYMENT_STATES
  <2>3. KnowsAttempt(r)'
    BY <2>2 DEF KnowsAttempt, InPlace, Unresting, InFlight
  <2>4. AttemptFacts'
    BY <2>1, <2>2 DEF AttemptFacts, InFlight, Reached
  <2>5. SawAttempt(r)'
    BY <2>2 DEF SawAttempt
  <2> QED BY <2>2, <2>3, <2>4, <2>5 DEF KeptAttempt
<1> QED BY <1>4, <1>5, <1>6, <1>8
        DEF ForwardStep, CheckLiquidity, FailRecall, Reserve, MarkReserved, Initiate,
            MarkSubmitted, MarkConfirmed, Settle, MarkConverted, MarkPayoutPending, Step,
            OnReceipt, Call

(* The catch leaves for good only at a status where the payment may rest   *)
(* (lib/executor.ts:566-703).                                              *)
LEMMA UndoAttempt ==
  ASSUME TypeOK, ~DbFault, RowIsTrue, AttemptFacts, NEW r \in Requests, SawTruth(r), KnowsOutcome(r),
         KnowsAttempt(r), UndoStep(r)
  PROVE  KeptAttempt(r)
<1> USE DEF chain, At, Preparing, PayoutLeg, Completing, Undoing, Compensation, BeforePayout
<1>0. /\ row \in Rows /\ pc \in [Requests -> Labels] /\ mem \in [Requests -> Views]
  BY DEF TypeOK
<1>a. Undo \union {"release", "priorComp"} \subseteq Leased \ {"reconcile"}
  BY DEF Leased, Undo
<1>b. ASSUME pc[r] \in Undo PROVE mem[r].status = row.status
  BY <1>b DEF KnowsAttempt, InPlace, Leased, Undo
<1>c. ASSUME NEW l \in Undo \union {"release"}, Go(r, l), UNCHANGED <<row, mem, chain>>,
             reservation' = reservation \/ reservation' # "absent", KnowsAttempt(r)'
      PROVE  KeptAttempt(r)
  BY <1>a, <1>c, QuietAttempt
<1>d. ASSUME NEW to \in PAYMENT_STATES, NEW base \in Rows, NEW ok, NEW err, Transition(r, to, base, ok, err),
             CanTransition(row.status, to), pc[r] \in Undo
      PROVE  /\ pc'[r] = ok /\ row'.status = to /\ row'.destHash = base.destHash
             /\ mem'[r].status = to /\ mem'[r].destHash = base.destHash
  BY <1>b, <1>d, SureMove
<1>e. ASSUME pc'[r] = "release",
             row'.status \in {"FAILED", "SETTLED", "REFUNDED"}, UNCHANGED <<reservation, escrow, escrowTx>>,
             row.destHash # None => row'.destHash # None
      PROVE  KeptAttempt(r)
  <2>1. KnowsAttempt(r)'
    BY <1>e DEF KnowsAttempt, InPlace, Unresting, InFlight
  <2>2. AttemptFacts'
    BY <1>e DEF AttemptFacts, InFlight, Reached
  <2>3. SawAttempt(r)'
    BY <1>e DEF SawAttempt
  <2> QED BY <1>e, <2>1, <2>2, <2>3 DEF KeptAttempt
<1>1. CASE Catch(r)
  <2>1. PICK l \in {"fwdCredit", "resolvePayout", "unwind"} :
          /\ Go(r, l)
          /\ l = "fwdCredit" => credit
          /\ l = "resolvePayout" => mem[r].destHash # None
    BY <1>1 DEF Catch, Decide, Thrown
  <2>2. /\ UNCHANGED <<row, reservation, mem, chain>> /\ pc[r] = "catch" /\ pc'[r] = l
        /\ row.status \in InFlight \union {"PAYOUT_PENDING"} /\ row.destHash = mem[r].destHash
        /\ credit \/ mem[r].destHash # None => row.status = "PAYOUT_PENDING"
        /\ mem[r].status = row.status
    BY <1>0, <1>1, <1>b, <2>1 DEF Catch, Decide, Go, KnowsAttempt, InPlace, Undo
  <2>3. KnowsAttempt(r)'
    BY <2>1, <2>2 DEF KnowsAttempt, InPlace
  <2> QED BY <1>c, <2>1, <2>2, <2>3 DEF Undo
<1>2. CASE ResolvePayout(r)
  <2>1. PICK l \in {"release", "fwdCredit", "unwind"} : Go(r, l)
    BY <1>2 DEF ResolvePayout, Decide, AfterPayoutOutcome
  <2>2. /\ UNCHANGED <<row, reservation, mem, chain>> /\ pc'[r] = l
        /\ row.status = "PAYOUT_PENDING" /\ mem[r].status = row.status
        /\ row.destHash # None
    BY <1>0, <1>2, <1>b, <2>1 DEF ResolvePayout, Decide, Go, KnowsAttempt, InPlace, Undo
  <2>3. KnowsAttempt(r)'
    BY <2>1, <2>2 DEF KnowsAttempt, InPlace, Unresting, InFlight
  <2> QED BY <1>c, <2>1, <2>2, <2>3 DEF Undo
<1>3. CASE ReleaseReservation(r)
  <2>1. /\ UNCHANGED <<row, mem, chain>> /\ pc'[r] = "readEscrow" /\ Go(r, "readEscrow")
        /\ reservation' = "RELEASED"
        /\ row.status \in InFlight \union {"PAYOUT_PENDING"} /\ mem[r].status = row.status
    BY <1>0, <1>3, <1>b DEF ReleaseReservation, Go, KnowsAttempt, InPlace, Undo
  <2>2. KnowsAttempt(r)'
    BY <2>1 DEF KnowsAttempt, InPlace
  <2> QED BY <1>c, <2>1, <2>2 DEF Undo
<1>4. CASE ReadEscrow(r)
  <2>1. /\ row.status \in InFlight \union {"PAYOUT_PENDING"} /\ mem[r].status = row.status
        /\ UNCHANGED <<row, reservation, mem, chain>>
    BY <1>4, <1>b DEF ReadEscrow, Decide, KnowsAttempt, InPlace, Undo
  <2>2. PICK l \in {"compensate", "refund", "fail"} :
          /\ Go(r, l) /\ pc'[r] = l
          /\ l = "compensate" =>
               escrow = "SETTLED" \/ mem[r].status \in {"FX_OR_SWAP_COMPLETED", "PAYOUT_PENDING"}
    BY <1>0, <1>4 DEF ReadEscrow, Decide, UndoFor, EscrowReads, Go
  <2>3. l = "compensate" =>
          row.status \in {"CONFIRMED_ONCHAIN", "FX_OR_SWAP_COMPLETED", "PAYOUT_PENDING"}
    BY <2>1, <2>2 DEF AttemptFacts, InFlight
  <2>4. KnowsAttempt(r)'
    BY <2>1, <2>2, <2>3 DEF KnowsAttempt, InPlace
  <2> QED BY <1>c, <2>1, <2>2, <2>4 DEF Undo
<1>5. CASE CompensateSender(r)
  <2>1. /\ row.status \in {"CONFIRMED_ONCHAIN", "FX_OR_SWAP_COMPLETED", "PAYOUT_PENDING"}
        /\ Transition(r, "COMPENSATION_PENDING", row, "priorComp", "release")
        /\ UNCHANGED <<reservation, escrow, escrowTx>> /\ pc[r] \in Undo
    BY <1>5 DEF CompensateSender, Step, KnowsAttempt, InPlace, Undo
  <2>2. /\ pc'[r] = "priorComp" /\ row'.status = "COMPENSATION_PENDING"
        /\ row'.destHash = row.destHash /\ mem'[r].status = "COMPENSATION_PENDING"
    BY <1>0, <1>d, <2>1, LegalMoves DEF PAYMENT_STATES
  <2>3. KnowsAttempt(r)'
    BY <2>2 DEF KnowsAttempt, InPlace
  <2>4. AttemptFacts'
    BY <2>1, <2>2 DEF AttemptFacts, InFlight, Reached
  <2>5. SawAttempt(r)'
    BY <2>2 DEF SawAttempt
  <2> QED BY <2>2, <2>3, <2>4, <2>5 DEF KeptAttempt
<1>6. CASE Refund(r)
  <2>1. /\ row.status \in InFlight \union {"PAYOUT_PENDING"} /\ mem[r].status = row.status
        /\ UNCHANGED <<row, reservation, mem, escrow>>
        /\ escrowTx'["settlePayment"] = escrowTx["settlePayment"]
        /\ escrowTx'["initiatePayment"] = escrowTx["initiatePayment"]
        /\ pc'[r] \in {"awaitRefund", "fail"}
    BY <1>0, <1>6, <1>b DEF Refund, Call, Go, KnowsAttempt, InPlace, Undo, TypeOK, EscrowCalls
  <2>2. KnowsAttempt(r)'
    BY <2>1 DEF KnowsAttempt, InPlace
  <2>3. AttemptFacts'
    BY <2>1 DEF AttemptFacts
  <2>4. SawAttempt(r)'
    BY <2>1 DEF SawAttempt
  <2> QED BY <2>1, <2>2, <2>3, <2>4 DEF KeptAttempt
<1>7. CASE MarkFailed(r)
  <2>1. /\ row.status \in InFlight \union {"PAYOUT_PENDING"} /\ mem[r].status = row.status
        /\ UNCHANGED <<reservation, escrow, escrowTx>> /\ pc[r] \in Undo
    BY <1>7, <1>b DEF MarkFailed, OnReceipt, KnowsAttempt, InPlace, Undo
  <2>2. CASE Transition(r, "FAILED", row, "markRefunded", "fail")
    <3>1. /\ pc'[r] = "markRefunded" /\ row'.status = "FAILED" /\ row'.destHash = row.destHash
          /\ mem'[r].status = "FAILED"
      BY <1>0, <1>d, <2>1, <2>2, LegalMoves DEF PAYMENT_STATES
    <3>2. KnowsAttempt(r)'
      BY <3>1 DEF KnowsAttempt, InPlace
    <3>3. AttemptFacts'
      BY <2>1, <3>1 DEF AttemptFacts, InFlight, Reached
    <3>4. SawAttempt(r)'
      BY <3>1 DEF SawAttempt
    <3> QED BY <3>1, <3>2, <3>3, <3>4 DEF KeptAttempt
  <2>3. CASE UNCHANGED <<row, mem>> /\ Go(r, "fail")
    <3>1. pc'[r] = "fail"
      BY <1>0, <2>3 DEF Go
    <3>2. KnowsAttempt(r)'
      BY <2>1, <2>3, <3>1 DEF KnowsAttempt, InPlace
    <3> QED BY <1>7, <1>c, <2>3, <3>2 DEF MarkFailed, OnReceipt, Undo
  <2> QED BY <1>7, <2>2, <2>3 DEF MarkFailed, OnReceipt
<1>8. CASE MarkRefunded(r)
  <2>1. /\ row.status = "FAILED" /\ pc[r] \in Undo
        /\ Transition(r, "REFUNDED", row, "release", "fail")
        /\ UNCHANGED <<reservation, escrow, escrowTx>>
    BY <1>8 DEF MarkRefunded, Step, KnowsAttempt, InPlace, Undo
  <2>2. pc'[r] = "release" /\ row'.status = "REFUNDED" /\ row'.destHash = row.destHash
    BY <1>0, <1>d, <2>1, LegalMoves DEF PAYMENT_STATES
  <2> QED BY <1>e, <2>1, <2>2
<1>9. CASE Fail(r)
  <2>1. /\ row.status \in InFlight \union {"PAYOUT_PENDING", "FAILED"} /\ pc[r] \in Undo
        /\ mem[r].status = row.status
    BY <1>9, <1>b DEF Fail, Decide, Step, KnowsAttempt, InPlace, Undo
  <2>2. CASE mem[r].status = "FAILED" /\ Decide(r, "fail", {"release"})
    <3>1. UNCHANGED <<row, reservation, escrow, escrowTx>> /\ pc'[r] = "release"
      BY <1>0, <2>2 DEF Decide, Go
    <3> QED BY <1>e, <2>1, <2>2, <3>1
  <2>3. CASE mem[r].status # "FAILED" /\ Step(r, "fail", "FAILED", row, "release", "release")
    <3>1. /\ pc'[r] = "release" /\ row'.status = "FAILED" /\ row'.destHash = row.destHash
          /\ UNCHANGED <<reservation, escrow, escrowTx>>
      BY <1>0, <1>d, <2>1, <2>3, LegalMoves DEF Step, PAYMENT_STATES
    <3> QED BY <1>e, <3>1
  <2> QED BY <1>9, <2>2, <2>3 DEF Fail
<1>10. CASE ForwardCredit(r) \/ ForwardConsume(r)
  <2>1. PICK l \in {"fwdConsume", "fwdSettle"} : Go(r, l) /\ pc'[r] = l
    BY <1>0, <1>10 DEF ForwardCredit, ForwardConsume, Write, Thrown, Go
  <2>2. /\ UNCHANGED <<row, mem, chain>> /\ row.status = "PAYOUT_PENDING" /\ mem[r].status = row.status
        /\ reservation' \in {reservation, "CONSUMED"}
    BY <1>10, <1>b DEF ForwardCredit, ForwardConsume, KnowsAttempt, InPlace, Undo
  <2>3. KnowsAttempt(r)'
    BY <2>1, <2>2 DEF KnowsAttempt, InPlace
  <2> QED BY <1>c, <2>1, <2>2, <2>3 DEF Undo
<1>11. CASE ForwardSettle(r)
  <2> DEFINE base == IF mem[r].destHash # None
                     THEN [row EXCEPT !.destHash = mem[r].destHash] ELSE row
  <2>1. base \in Rows /\ (row.destHash # None => base.destHash # None)
    BY <1>0 DEF Rows, Views
  <2>2. /\ Transition(r, "SETTLED", base, "release", "release")
        /\ UNCHANGED <<reservation, escrow, escrowTx>>
        /\ pc[r] \in Undo /\ row.status = "PAYOUT_PENDING"
    BY <1>11 DEF ForwardSettle, Step, KnowsAttempt, InPlace, Undo
  <2> HIDE DEF base
  <2>3. pc'[r] = "release" /\ row'.status = "SETTLED" /\ row'.destHash = base.destHash
    BY <1>d, <2>1, <2>2, LegalMoves DEF PAYMENT_STATES
  <2> QED BY <1>e, <2>1, <2>2, <2>3
<1> QED BY <1>1, <1>2, <1>3, <1>4, <1>5, <1>6, <1>7, <1>8, <1>9, <1>10, <1>11 DEF UndoStep

(* The compensation runs at COMPENSATION_PENDING from its first step to    *)
(* its last (lib/executor.ts:764-925).                                     *)
LEMMA CompensationAttempt ==
  ASSUME TypeOK, ~DbFault, RowIsTrue, AttemptFacts, NEW r \in Requests, KnowsAttempt(r),
         CompensationStep(r)
  PROVE  KeptAttempt(r)
<1> USE DEF chain, At, Preparing, PayoutLeg, Completing, Undoing, Compensation, BeforePayout
<1>0. /\ row \in Rows /\ pc \in [Requests -> Labels] /\ mem \in [Requests -> Views]
  BY DEF TypeOK
<1>a. Compensation \union {"release"} \subseteq Leased \ {"reconcile"}
  BY DEF Leased
<1>b. row.status = "COMPENSATION_PENDING" /\ mem[r].status = "COMPENSATION_PENDING"
      /\ escrow = "SETTLED" /\ pc[r] \in Compensation
  <2>1. pc[r] \in Compensation
    BY DEF CompensationStep, PriorCompensation, SendCompensation, PersistCompensation,
       MarkCompensated, CatchCompensation, ConfirmCompensation, Decide, Step, OnReceipt
  <2> QED BY <2>1 DEF KnowsAttempt, InPlace, Leased, RowIsTrue, Released
<1>c. ASSUME pc'[r] \in Compensation \union {"release"}, row'.status = "COMPENSATION_PENDING",
             mem'[r].status = "COMPENSATION_PENDING"
      PROVE  KnowsAttempt(r)'
  BY <1>c DEF KnowsAttempt, InPlace, Unresting, InFlight
<1>d. ASSUME NEW l \in Compensation \union {"release"}, Go(r, l),
             row'.status = row.status, row'.destHash = row.destHash,
             UNCHANGED <<reservation, escrow, escrowTx>>, mem'[r].status = mem[r].status
      PROVE  KeptAttempt(r)
  <2>1. pc'[r] = l
    BY <1>0, <1>d DEF Go
  <2>2. KnowsAttempt(r)'
    BY <1>b, <1>c, <1>d, <2>1
  <2>3. SawAttempt(r)'
    BY <1>d, <2>1 DEF SawAttempt
  <2> QED BY <1>d, <2>2, <2>3 DEF KeptAttempt, AttemptFacts
<1>e. ASSUME NEW h \in Hashes, NEW err \in {"release", "catchComp"},
             Transition(r, "COMPENSATED", [row EXCEPT !.compHash = h], "release", err),
             UNCHANGED <<reservation, escrow, escrowTx>>
      PROVE  KeptAttempt(r)
  <2> DEFINE base == [row EXCEPT !.compHash = h]
  <2>1. base \in Rows /\ base.destHash = row.destHash
    BY <1>0 DEF Rows
  <2>2. Transition(r, "COMPENSATED", base, "release", err)
    BY <1>e
  <2> HIDE DEF base
  <2>3. pc'[r] = "release" /\ row'.status = "COMPENSATED" /\ row'.destHash = row.destHash
    BY <1>b, <2>1, <2>2, SureMove, LegalMoves DEF PAYMENT_STATES
  <2>4. KnowsAttempt(r)'
    BY <2>3 DEF KnowsAttempt, InPlace, Unresting, InFlight
  <2>5. AttemptFacts'
    BY <1>b, <1>e, <2>3 DEF AttemptFacts, InFlight, Reached
  <2>6. SawAttempt(r)'
    BY <2>3 DEF SawAttempt
  <2> QED BY <2>3, <2>4, <2>5, <2>6 DEF KeptAttempt
<1>f. r \in Hashes /\ mem[r].compHash \in Hashes
  BY <1>0 DEF Hashes, Views
<1> DEFINE withHash(h) == [row EXCEPT !.compHash = h]
<1>g. \A h \in Hashes : withHash(h).status = row.status /\ withHash(h).destHash = row.destHash
  BY <1>0 DEF Rows
<1>1. CASE PriorCompensation(r)
  <2>1. PICK l \in {"sendComp", "confirmComp", "release"} : Go(r, l)
    BY <1>1 DEF PriorCompensation, Decide
  <2> QED BY <1>1, <1>d, <2>1 DEF PriorCompensation, Decide
<1>2. CASE SendCompensation(r)
  <2>1. PICK l \in {"persistComp", "catchComp"} : Go(r, l)
    BY <1>2 DEF SendCompensation
  <2>2. mem'[r].status = mem[r].status
    BY <1>0, <1>2 DEF SendCompensation, Views
  <2> QED BY <1>2, <1>d, <2>1, <2>2 DEF SendCompensation
<1>3. CASE PersistCompensation(r)
  <2>1. Update(r, withHash(r), "awaitComp", "catchComp") /\ UNCHANGED <<reservation, escrow, escrowTx>>
    BY <1>3 DEF PersistCompensation
  <2>2. View(withHash(r)).status = row.status
    BY <1>f, <1>g DEF View
  <2> HIDE DEF withHash
  <2>3. /\ row'.status = row.status /\ row'.destHash = row.destHash
        /\ Go(r, "awaitComp") /\ mem'[r].status = row.status
    BY <1>0, <1>f, <1>g, <2>1, <2>2 DEF Update, See
  <2> QED BY <1>b, <1>d, <2>1, <2>3
<1>4. CASE MarkCompensated(r)
  <2>1. CASE Transition(r, "COMPENSATED", [row EXCEPT !.compHash = r], "release", "catchComp")
    BY <1>4, <1>e, <1>f, <2>1 DEF MarkCompensated, OnReceipt
  <2>2. CASE UNCHANGED <<row, mem>> /\ Go(r, "catchComp")
    BY <1>4, <1>d, <2>2 DEF MarkCompensated, OnReceipt
  <2> QED BY <1>4, <2>1, <2>2 DEF MarkCompensated, OnReceipt
<1>5. CASE CatchCompensation(r)
  <2>1. PICK l \in {"release", "confirmComp"} : Go(r, l)
    BY <1>5 DEF CatchCompensation
  <2>2. UNCHANGED <<reservation, chain, mem>> /\ (row' = row \/ row' = withHash(mem[r].compHash))
    BY <1>5 DEF CatchCompensation
  <2> HIDE DEF withHash
  <2>3. row'.status = row.status /\ row'.destHash = row.destHash
    BY <1>f, <1>g, <2>2
  <2> QED BY <1>d, <2>1, <2>2, <2>3
<1>6. CASE ConfirmCompensation(r)
  BY <1>6, <1>e, <1>f DEF ConfirmCompensation, Step
<1> QED BY <1>1, <1>2, <1>3, <1>4, <1>5, <1>6 DEF CompensationStep

(* A reconciliation leaves the payment where the next one can take it up   *)
(* (lib/executor.ts:1013-1189).                                            *)
LEMMA OperatorAttempt ==
  ASSUME TypeOK, ~DbFault, RowIsTrue, AttemptFacts, NEW r \in Requests, SawTruth(r), SawAttempt(r),
         KnowsAttempt(r), OperatorStep(r)
  PROVE  KeptAttempt(r)
<1> USE DEF chain, At, Preparing, PayoutLeg, Completing, Undoing, Compensation, BeforePayout
<1>0. /\ row \in Rows /\ pc \in [Requests -> Labels] /\ mem \in [Requests -> Views]
  BY DEF TypeOK
<1>a. {"release", "priorComp", "fwdCredit", "awaitCompensation", "confirmComp"} \subseteq Leased \ {"reconcile"}
  BY DEF Leased, Undo
<1>1. CASE Repair(r)
  <2>1. PICK l \in {"priorComp", "release"} : Go(r, l)
    BY <1>1 DEF Repair, Decide
  <2>2. /\ row.status = "COMPENSATION_PENDING" /\ mem[r].status = row.status
        /\ UNCHANGED <<row, reservation, chain, mem>> /\ pc'[r] = l
    BY <1>0, <1>1, <2>1 DEF Repair, Decide, KnowsAttempt, InPlace, Leased, Go
  <2>3. KnowsAttempt(r)'
    BY <2>2 DEF KnowsAttempt, InPlace, Unresting, InFlight
  <2> QED BY <1>a, <2>1, <2>2, <2>3, QuietAttempt
<1>2. CASE Reconcile(r)
  <2>1. PICK l \in {"fwdCredit", "release", "awaitCompensation", "confirmComp"} :
          /\ Go(r, l)
          /\ l \in {"fwdCredit", "awaitCompensation"} => mem[r].status = "PAYOUT_PENDING"
          /\ l = "confirmComp" => mem[r].status = "COMPENSATION_PENDING"
    BY <1>2 DEF Reconcile, AfterPayoutOutcome, Outcomes
  <2>2. /\ pc[r] = "reconcile" /\ UNCHANGED <<row, chain, mem>> /\ pc'[r] = l
        /\ reservation' = reservation \/ reservation' # "absent"
    BY <1>0, <1>2, <2>1 DEF Reconcile, Go
  <2>3. /\ row.status \in {"PAYOUT_PENDING", "COMPENSATION_PENDING"} /\ mem[r].status = row.status
        /\ row.status = "PAYOUT_PENDING" => row.destHash # None
    BY <2>2 DEF SawTruth, SawAttempt, KnowsAttempt, InPlace, Leased
  <2>4. KnowsAttempt(r)'
    BY <2>1, <2>2, <2>3 DEF KnowsAttempt, InPlace, Unresting, InFlight
  <2> QED BY <1>a, <2>1, <2>2, <2>4, QuietAttempt
<1>3. CASE AwaitCompensation(r)
  <2>1. /\ row.status = "PAYOUT_PENDING" /\ mem[r].status = row.status
        /\ Transition(r, "COMPENSATION_PENDING", row, "release", "release")
        /\ UNCHANGED <<reservation, escrow, escrowTx>>
    BY <1>3 DEF AwaitCompensation, Step, KnowsAttempt, InPlace, Leased
  <2>2. pc'[r] = "release" /\ row'.status = "COMPENSATION_PENDING" /\ row'.destHash = row.destHash
    BY <1>0, <2>1, SureMove, LegalMoves DEF PAYMENT_STATES
  <2>3. KnowsAttempt(r)'
    BY <2>2 DEF KnowsAttempt, InPlace, Unresting, InFlight
  <2>4. AttemptFacts'
    BY <2>1, <2>2 DEF AttemptFacts, InFlight, Reached
  <2>5. SawAttempt(r)'
    BY <2>2 DEF SawAttempt
  <2> QED BY <2>2, <2>3, <2>4, <2>5 DEF KeptAttempt
<1> QED BY <1>1, <1>2, <1>3 DEF OperatorStep

-----------------------------------------------------------------------------
(* The other requests, and the chains.                                     *)

(* A request outside the lease that stands still.                          *)
LEMMA OutsideAttempt ==
  ASSUME NEW q \in Requests, SawAttempt(q), pc[q] \notin Leased, pc'[q] = pc[q], mem'[q] = mem[q],
         row.destHash # None => row'.destHash # None
  PROVE  SawAttempt(q)' /\ KnowsAttempt(q)'
<1>1. SawAttempt(q)'
  BY DEF SawAttempt, At
<1>2. KnowsAttempt(q)'
  BY DEF KnowsAttempt, InPlace, At, Preparing, PayoutLeg, Completing, Undoing, BeforePayout,
         Leased, Forward, Undo, Compensation
<1> QED BY <1>1, <1>2

(* A request that stands still while the row keeps its hash, and keeps its *)
(* status or is cancelled before the first move.                           *)
LEMMA AsideAttempt ==
  ASSUME NEW q \in Requests, SawAttempt(q), KnowsAttempt(q), pc'[q] = pc[q], mem'[q] = mem[q],
         UNCHANGED <<credit, reservation>>, row'.destHash = row.destHash,
         row'.status = row.status \/ (row.status = "APPROVED" /\ row'.status = "CANCELLED")
  PROVE  SawAttempt(q)' /\ KnowsAttempt(q)'
<1>1. SawAttempt(q)'
  BY DEF SawAttempt, At
<1>2. CASE row'.status = row.status
  BY <1>1, <1>2 DEF KnowsAttempt, InPlace, At, Unresting
<1>3. CASE row.status = "APPROVED" /\ row'.status = "CANCELLED"
  <2>1. pc[q] \in Preparing \union {"release"} \/ pc[q] \notin Leased
    <3>1. InPlace(q) /\ row.status = "APPROVED"
      BY <1>3 DEF KnowsAttempt
    <3> QED BY <3>1 DEF InPlace, At, Preparing, PayoutLeg, Completing, Undoing, Compensation,
                        Leased, Forward, Undo, InFlight
  <2>2. KnowsAttempt(q)'
    BY <1>3, <2>1 DEF KnowsAttempt, InPlace, At, Unresting, Preparing, PayoutLeg, Completing,
                      Undoing, BeforePayout, Compensation, Leased, Forward, Undo, InFlight
  <2> QED BY <1>1, <2>2
<1> QED BY <1>2, <1>3

(* A step of a holder that is not the finally stays inside the lease.      *)
LEMMA StaysInside ==
  ASSUME TypeOK, NEW r \in Requests,
         ForwardStep(r) \/ UndoStep(r) \/ CompensationStep(r) \/ OperatorStep(r)
  PROVE  /\ pc[r] \in Leased /\ pc'[r] \in Leased
         /\ \A q \in Requests : q # r => pc'[q] = pc[q] /\ mem'[q] = mem[q]
<1>1. LeasedStep(r) /\ pc \in [Requests -> Labels]
  BY ForwardInside, UndoInside, CompensationInside, OperatorInside DEF Inside, TypeOK
<1>2. pc[r] # "release"
  BY DEF ForwardStep, UndoStep, CompensationStep, OperatorStep, At, CheckLiquidity,
     FailRecall, Reserve, MarkReserved, Initiate, MarkSubmitted, MarkConfirmed, Settle,
     MarkConverted, MarkPayoutPending, Payout, PersistPayout, AwaitPayout, Credit, Consume,
     MarkSettled, Catch, ResolvePayout, ReleaseReservation, ReadEscrow, CompensateSender,
     Refund, MarkFailed, MarkRefunded, Fail, ForwardCredit, ForwardConsume, ForwardSettle,
     PriorCompensation, SendCompensation, PersistCompensation, MarkCompensated,
     CatchCompensation, ConfirmCompensation, Repair, Reconcile, AwaitCompensation,
     Step, OnReceipt, Call, Decide
<1> QED BY <1>1, <1>2, OnlyOwnMemory DEF LeasedStep, Go

(* A step inside the lease keeps the payment attended: at the finally it   *)
(* has reached a resting place.                                            *)
LEMMA HolderAttempt ==
  ASSUME Inv, AttemptInv, NEW r \in Requests, LeasedStep(r), pc'[r] # "done", pc \in [Requests -> Labels],
         KeptAttempt(r), \A q \in Requests : q # r => pc'[q] = pc[q] /\ mem'[q] = mem[q]
  PROVE  AttemptInv'
<1>1. pc[r] \in Leased /\ pc'[r] \in Leased
  BY DEF LeasedStep, Go
<1>2. \A q \in Requests : q # r => pc[q] \notin Leased
  BY <1>1 DEF Inv, LeaseInv, SingleAttempt
<1>3. \A q \in Requests : q # r => SawAttempt(q)' /\ KnowsAttempt(q)'
  BY <1>2, OutsideAttempt DEF AttemptInv, KeptAttempt
<1>4. Attended'
  <2>1. row'.lease # None => row'.lease \in Requests /\ pc'[row'.lease] \in Leased
    BY <1>1, <1>2 DEF LeasedStep, AttemptInv, Attended
  <2>2. Unresting' => pc'[r] # "release"
    BY DEF KeptAttempt, KnowsAttempt, At
  <2> QED BY <1>1, <2>1, <2>2 DEF Attended
<1> QED BY <1>3, <1>4 DEF AttemptInv, KeptAttempt

(* The finally gives the lease back, and leaves a resting payment          *)
(* (lib/executor.ts:271-281).                                              *)
LEMMA ReleaseAttempt ==
  ASSUME Inv, AttemptInv, ~DbFault, NEW r \in Requests, ReleaseLease(r)
  PROVE  AttemptInv'
<1>0. row \in Rows /\ pc \in [Requests -> Labels]
  BY DEF Inv, TypeOK
<1>1. /\ pc[r] = "release" /\ pc'[r] = "done" /\ UNCHANGED <<reservation, credit, chain, mem>>
      /\ \A q \in Requests : q # r => pc'[q] = pc[q]
  BY <1>0 DEF ReleaseLease, At, Go
<1>2. /\ row'.status = row.status /\ row'.destHash = row.destHash
      /\ row'.lease = IF row.lease = r THEN None ELSE row.lease
  BY <1>0 DEF ReleaseLease, Rows
<1>3. \A q \in Requests : q # r => pc[q] \notin Leased
  BY <1>1 DEF Inv, LeaseInv, SingleAttempt, Leased
<1>4. ~Unresting /\ (row.lease # None => row.lease = r)
  BY <1>1, <1>3 DEF AttemptInv, KnowsAttempt, At, Attended
<1>5. Attended'
  BY <1>2, <1>4 DEF Attended, Unresting
<1>6. AttemptFacts'
  BY <1>1, <1>2 DEF AttemptInv, AttemptFacts, chain
<1>7. SawAttempt(r)' /\ KnowsAttempt(r)'
  BY <1>1 DEF SawAttempt, KnowsAttempt, InPlace, At, Preparing, PayoutLeg, Completing, Undoing,
              BeforePayout, Leased, Forward, Undo, Compensation
<1>8. \A q \in Requests : q # r => SawAttempt(q)' /\ KnowsAttempt(q)'
  BY <1>1, <1>2, AsideAttempt DEF AttemptInv
<1> QED BY <1>5, <1>6, <1>7, <1>8 DEF AttemptInv

(* The claim brings a request in at the status it read                     *)
(* (lib/executor.ts:246-270).                                              *)
LEMMA ClaimAttempt ==
  ASSUME Inv, OutcomeInv, AttemptInv, ~DbFault, NEW r \in Requests, Claim(r)
  PROVE  AttemptInv'
<1>0. row \in Rows /\ pc \in [Requests -> Labels] /\ r # None
  BY RequestsAssumption DEF Inv, TypeOK
<1>1. PICK l \in {"claimExecute", "claimRepair", "claimReconcile"}, ok \in {"liquidity", "repair", "reconcile"} :
        /\ ClaimLease(r, l, ok)
        /\ l = "claimExecute" => ok = "liquidity"
        /\ l = "claimRepair" => ok = "repair"
        /\ l = "claimReconcile" => ok = "reconcile"
  BY DEF Claim
<1>2. pc[r] = l /\ UNCHANGED <<reservation, credit, chain, mem>>
  BY <1>1 DEF ClaimLease, At
<1>3. /\ row'.status = row.status /\ row'.destHash = row.destHash
      /\ \/ pc'[r] = "done" /\ row' = row
         \/ pc'[r] = ok /\ row'.lease = r /\ row.status = mem[r].status
  BY <1>0, <1>1 DEF ClaimLease, Rows, Go
<1>4. \A q \in Requests : q # r => pc'[q] = pc[q]
  BY <1>0, <1>1 DEF ClaimLease, Go
<1>5. pc[r] \notin Leased /\ {"liquidity", "repair", "reconcile"} \subseteq Leased \ {"release"}
  BY <1>2 DEF Leased, Forward, Undo, Compensation
<1>6. Attended'
  <2>1. row'.lease # None => row'.lease \in Requests /\ pc'[row'.lease] \in Leased
    BY <1>0, <1>3, <1>4, <1>5 DEF AttemptInv, Attended
  <2>2. Unresting' => \E q \in Requests : pc'[q] \in Leased \ {"release"}
    BY <1>3, <1>4, <1>5 DEF AttemptInv, Attended, Unresting
  <2> QED BY <2>1, <2>2 DEF Attended
<1>7. AttemptFacts'
  BY <1>2, <1>3 DEF AttemptInv, AttemptFacts, chain
<1>8. SawAttempt(r)'
  BY <1>1, <1>2, <1>3 DEF AttemptInv, SawAttempt, At
<1>9. KnowsAttempt(r)'
  <2>1. SawAttempt(r) /\ SawTruth(r)
    BY DEF AttemptInv, OutcomeInv
  <2>2. ok = "liquidity" => mem[r].status = "APPROVED" /\ mem[r].destHash = None
    BY <1>1, <1>2, <2>1 DEF SawAttempt, SawTruth, At
  <2>3. ok = "repair" => mem[r].status = "COMPENSATION_PENDING"
    BY <1>1, <1>2, <2>1 DEF SawTruth, At
  <2>4. ok = "reconcile" => mem[r].status \in {"PAYOUT_PENDING", "COMPENSATION_PENDING"}
    BY <1>1, <1>2, <2>1 DEF SawAttempt, At
  <2> QED BY <1>2, <1>3, <2>2, <2>3, <2>4
          DEF KnowsAttempt, InPlace, At, Preparing, PayoutLeg, Completing, Undoing,
              BeforePayout, Leased, Forward, Undo, Compensation
<1>10. \A q \in Requests : q # r => SawAttempt(q)' /\ KnowsAttempt(q)'
  BY <1>2, <1>3, <1>4, AsideAttempt DEF AttemptInv
<1> QED BY <1>6, <1>7, <1>8, <1>9, <1>10 DEF AttemptInv

(* A cancel ends the payment, or finds it gone                             *)
(* (app/api/payments/[id]/cancel/route.ts:33-41).                          *)
LEMMA CancelAttempt ==
  ASSUME Inv, OutcomeInv, AttemptInv, ~DbFault, NEW r \in Requests, CancelPayment(r)
  PROVE  AttemptInv'
<1>0. TypeOK /\ row \in Rows /\ pc \in [Requests -> Labels] /\ mem \in [Requests -> Views]
  BY DEF Inv, TypeOK
<1>1. /\ pc[r] = "cancel" /\ Transition(r, "CANCELLED", row, "done", "done")
      /\ UNCHANGED <<reservation, credit, chain>>
      /\ mem[r].status \in CANCELLABLE_STATES
  BY DEF CancelPayment, At, OutcomeInv, SawTruth
<1>2. \/ row' = row
      \/ row.status = mem[r].status /\ row' = Moved(row, "CANCELLED")
  BY <1>1 DEF Transition
<1>3. /\ pc'[r] = "done"
      /\ \A q \in Requests : q # r => pc'[q] = pc[q] /\ mem'[q] = mem[q]
  BY <1>0, <1>1 DEF Transition, Go, See
<1>4. /\ row'.destHash = row.destHash /\ row'.lease \in {row.lease, None}
      /\ row'.status = row.status \/ (row.status = "APPROVED" /\ row'.status = "CANCELLED")
  <2>1. /\ Moved(row, "CANCELLED").destHash = row.destHash
        /\ Moved(row, "CANCELLED").lease \in {row.lease, None}
        /\ Moved(row, "CANCELLED").status = "CANCELLED"
    BY <1>0 DEF Moved, Rows
  <2>2. row.status \in CANCELLABLE_STATES => row.status = "APPROVED"
    BY DEF AttemptInv, AttemptFacts, Reached, InFlight, CANCELLABLE_STATES
  <2> QED BY <1>1, <1>2, <2>1, <2>2
<1>5. pc[r] \notin Leased
  BY <1>1 DEF Leased, Forward, Undo, Compensation
<1>6. Attended'
  <2>1. row'.lease # None => row'.lease \in Requests /\ pc'[row'.lease] \in Leased
    BY <1>3, <1>4, <1>5 DEF AttemptInv, Attended
  <2>2. Unresting' => Unresting
    BY <1>4 DEF Unresting, InFlight
  <2> QED BY <1>3, <1>5, <2>1, <2>2 DEF AttemptInv, Attended
<1>7. AttemptFacts'
  BY <1>1, <1>4 DEF AttemptInv, AttemptFacts, chain, Reached, InFlight
<1>8. SawAttempt(r)' /\ KnowsAttempt(r)'
  BY <1>3 DEF SawAttempt, KnowsAttempt, InPlace, At, Preparing, PayoutLeg, Completing, Undoing,
              BeforePayout, Leased, Forward, Undo, Compensation
<1>9. \A q \in Requests : q # r => SawAttempt(q)' /\ KnowsAttempt(q)'
  BY <1>1, <1>3, <1>4, AsideAttempt DEF AttemptInv
<1> QED BY <1>6, <1>7, <1>8, <1>9 DEF AttemptInv

(* A handler that arrives sees the row as it is.                           *)
LEMMA ArriveAttempt ==
  ASSUME Inv, AttemptInv, NEW r \in Requests, ArriveAny(r)
  PROVE  AttemptInv'
<1>0. row \in Rows /\ pc \in [Requests -> Labels] /\ mem \in [Requests -> Views]
  BY DEF Inv, TypeOK
<1>1. PICK l \in {"claimExecute", "claimRepair", "claimReconcile", "cancel"} :
        /\ Go(r, l)
        /\ l = "claimExecute" => row.status = "APPROVED"
        /\ l = "claimReconcile" => row.status \in {"PAYOUT_PENDING", "COMPENSATION_PENDING"}
  BY DEF ArriveAny, ExecuteStart, RepairStart, ReconcileStart, CancelStart, Arrive
<1>2. See(r, row) /\ UNCHANGED <<row, reservation, credit, chain>> /\ pc[r] = "idle"
  BY DEF ArriveAny, ExecuteStart, RepairStart, ReconcileStart, CancelStart, Arrive, At
<1>3. /\ mem'[r].status = row.status /\ mem'[r].destHash = row.destHash /\ pc'[r] = l
      /\ \A q \in Requests : q # r => pc'[q] = pc[q] /\ mem'[q] = mem[q]
  BY <1>0, <1>1, <1>2 DEF See, Go, View
<1>4. pc[r] \notin Leased
  BY <1>2 DEF Leased, Forward, Undo, Compensation
<1>5. Attended'
  BY <1>2, <1>3, <1>4 DEF AttemptInv, Attended, Unresting
<1>6. AttemptFacts'
  BY <1>2 DEF AttemptInv, AttemptFacts, chain
<1>7. SawAttempt(r)'
  BY <1>1, <1>2, <1>3 DEF AttemptInv, AttemptFacts, SawAttempt, At
<1>8. KnowsAttempt(r)'
  BY <1>3 DEF KnowsAttempt, InPlace, At, Preparing, PayoutLeg, Completing, Undoing,
              BeforePayout, Leased, Forward, Undo, Compensation
<1>9. \A q \in Requests : q # r => SawAttempt(q)' /\ KnowsAttempt(q)'
  BY <1>2, <1>3, AsideAttempt DEF AttemptInv
<1> QED BY <1>5, <1>6, <1>7, <1>8, <1>9 DEF AttemptInv

(* The chains mine what was sent: the escrow moves only after its call.    *)
LEMMA MineAttempt ==
  ASSUME Inv, AttemptInv, Mine
  PROVE  AttemptInv'
<1> USE DEF Mine, MineInitiate, MineSettle, MineRefund, MineCall, MinePayout, MineCompensation
<1>1. UNCHANGED <<row, reservation, credit, pc, mem>>
  OBVIOUS
<1>2. /\ escrow' = "SETTLED" => escrow = "SETTLED" \/ escrowTx["settlePayment"] # "none"
      /\ escrow' # "NONE" => escrow # "NONE" \/ escrowTx["initiatePayment"] # "none"
      /\ escrow = "SETTLED" => escrow' = "SETTLED"
  BY DEF InitiatePayment, SettlePayment, FailAndRefund
<1>3. \A c \in {"settlePayment", "initiatePayment"} : escrowTx'[c] = "none" <=> escrowTx[c] = "none"
  BY DEF Inv, TypeOK, EscrowCalls
<1>4. AttemptFacts'
  BY <1>1, <1>2, <1>3 DEF AttemptInv, AttemptFacts
<1>5. Attended' /\ \A q \in Requests : SawAttempt(q)' /\ KnowsAttempt(q)'
  BY <1>1 DEF AttemptInv, Attended, Unresting, SawAttempt, KnowsAttempt, InPlace, At
<1> QED BY <1>4, <1>5 DEF AttemptInv

(* An APPROVED payment nobody has touched.                                 *)
LEMMA InitAttempt == Init => AttemptInv
<1> SUFFICES ASSUME Init PROVE AttemptInv
  OBVIOUS
<1>1. /\ row.status = "APPROVED" /\ row.destHash = None /\ row.lease = None /\ escrow = "NONE"
      /\ \A c \in EscrowCalls : escrowTx[c] = "none"
  BY DEF Init
<1>2. Attended /\ AttemptFacts
  BY <1>1 DEF Attended, AttemptFacts, Unresting, InFlight, Reached, EscrowCalls
<1>3. \A r \in Requests : pc[r] = "idle"
  BY DEF Init
<1>4. \A r \in Requests : SawAttempt(r) /\ KnowsAttempt(r)
  BY <1>3 DEF SawAttempt, KnowsAttempt, InPlace, At, Preparing, PayoutLeg, Completing, Undoing,
              BeforePayout, Leased, Forward, Undo, Compensation
<1> QED BY <1>2, <1>4 DEF AttemptInv

(* Every step keeps AttemptInv where the database answers and nobody dies. *)
LEMMA NextAttempt ==
  ASSUME Inv, OutcomeInv, AttemptInv, "db" \notin Faults, "crash" \notin Faults, [Next]_vars
  PROVE  AttemptInv'
<1>0. TypeOK /\ ~DbFault
  BY DEF Inv, DbFault
<1>1. CASE UNCHANGED vars
  BY <1>1 DEF vars, chain, AttemptInv, Attended, Unresting, AttemptFacts, SawAttempt, KnowsAttempt,
              InPlace, At
<1>2. ASSUME NEW r \in Requests, ArriveAny(r) PROVE AttemptInv'
  BY <1>2, ArriveAttempt
<1>3. ASSUME NEW r \in Requests, Advance(r) PROVE AttemptInv'
  <2>0. /\ RowIsTrue /\ SawTruth(r) /\ KnowsOutcome(r)
        /\ AttemptFacts /\ SawAttempt(r) /\ KnowsAttempt(r)
    BY DEF OutcomeInv, AttemptInv
  <2>1. CASE Claim(r)
    BY <1>0, <2>1, ClaimAttempt
  <2>2. CASE ForwardStep(r) \/ UndoStep(r) \/ CompensationStep(r) \/ OperatorStep(r)
    <3>1. LeasedStep(r) /\ pc \in [Requests -> Labels]
      BY <1>0, <2>2, ForwardInside, UndoInside, CompensationInside, OperatorInside
         DEF Inside, TypeOK
    <3>2. KeptAttempt(r)
      BY <1>0, <2>0, <2>2, ForwardAttempt, PayoutAttempt, UndoAttempt, CompensationAttempt,
         OperatorAttempt
    <3>3. pc'[r] # "done" /\ \A q \in Requests : q # r => pc'[q] = pc[q] /\ mem'[q] = mem[q]
      BY <1>0, <2>2, StaysInside DEF Leased, Forward, Undo, Compensation
    <3> QED BY <3>1, <3>2, <3>3, HolderAttempt
  <2>3. CASE CancelPayment(r)
    BY <1>0, <2>3, CancelAttempt
  <2>4. CASE ReleaseLease(r)
    BY <1>0, <2>4, ReleaseAttempt
  <2> QED BY <1>3, <2>1, <2>2, <2>3, <2>4 DEF Advance
<1>4. CASE Mine
  BY <1>4, MineAttempt
<1>5. CASE Crash
  BY <1>5 DEF Crash
<1>6. CASE Rest
  BY <1>1, <1>6 DEF Rest
<1> QED BY <1>1, <1>2, <1>3, <1>4, <1>5, <1>6 DEF Next

(* Where the database answers and the process lives, the attempt is always *)
(* where its place in the code says it is.                                 *)
THEOREM AttemptKnown ==
  ASSUME "db" \notin Faults, "crash" \notin Faults
  PROVE  Spec => []AttemptInv
<1>1. Init => AttemptInv
  BY InitAttempt
<1>2. Inv /\ OutcomeInv /\ AttemptInv /\ [Next]_vars => AttemptInv'
  BY NextAttempt
<1> QED BY <1>1, <1>2, InvHolds, OutcomeIsKnown, PTL DEF Spec

(* A lease names a request that is running                                 *)
(* (lib/executor.ts:246-281, prisma/schema.prisma:88).                     *)
THEOREM LeasesAreHeld ==
  ASSUME "db" \notin Faults, "crash" \notin Faults
  PROVE  Spec => []LeaseHolderRuns
<1>1. AttemptInv => LeaseHolderRuns
  BY DEF AttemptInv, Attended, LeaseHolderRuns, Running
<1> QED BY <1>1, AttemptKnown, PTL

(* What rests with the operator is unleased and has a hash to ask for or a *)
(* repair to run (lib/executor.ts:940-1060).                               *)
THEOREM RestHasAWayOn ==
  ASSUME "db" \notin Faults, "crash" \notin Faults
  PROVE  Spec => []NoDeadEnd
<1>1. AttemptInv => NoDeadEnd
  BY DEF AttemptInv, Attended, NoDeadEnd, Idle, Running, Unresting
<1> QED BY <1>1, AttemptKnown, PTL

(* With nobody running, an amount that is with neither party is on the     *)
(* operator's list (lib/executor.ts:940-1001).                             *)
THEOREM OperatorSeesWhatIsStuck ==
  ASSUME "db" \notin Faults, "crash" \notin Faults
  PROVE  Spec => []StuckViewComplete
<1>1. ASSUME OutcomeInv, AttemptInv PROVE StuckViewComplete
  <2> SUFFICES ASSUME Idle, FundsHeld PROVE InStuckView
    BY DEF StuckViewComplete
  <2>1. ~Unresting
    BY <1>1 DEF AttemptInv, Attended, Idle, Running
  <2>2. escrow \in {"INITIATED", "SETTLED"} /\ reservation # "absent"
    BY <1>1 DEF FundsHeld, AttemptInv, AttemptFacts
  <2>3. row.status \notin {"APPROVED", "CANCELLED", "SETTLED", "REFUNDED", "COMPENSATED"}
    BY <1>1, <2>2 DEF FundsHeld, Delivered, Returned, OutcomeInv, RowIsTrue, TerminalMatchesMoney,
                      AttemptInv, AttemptFacts, CANCELLABLE_STATES
  <2>4. row.status \in {"FAILED", "PAYOUT_PENDING", "COMPENSATION_PENDING"}
    BY <1>1, <2>1, <2>3 DEF Unresting, AttemptInv, AttemptFacts, Reached
  <2> QED BY <2>2, <2>4 DEF InStuckView
<1>2. OutcomeInv /\ AttemptInv => StuckViewComplete
  BY <1>1
<1> QED BY <1>2, OutcomeIsKnown, AttemptKnown, PTL

-----------------------------------------------------------------------------
(* What was held.                                                          *)

Over == {"FAILED", "REFUNDED", "CANCELLED", "COMPENSATION_PENDING", "COMPENSATED"}
Unreserved ==
  {"liquidity", "recallFailed", "reserve", "readEscrow", "compensate", "refund", "awaitRefund",
   "markRefunded", "fail", "awaitCompensation"}

(* A cancel meets no attempt that has not left APPROVED.                   *)
CancelsAlone ==
  \A c, q \in Requests : At(c, "cancel") => pc[q] \notin Preparing \union {"claimExecute"}

LiquidityFacts ==
  /\ row.status \in Over => reservation # "RESERVED"
  /\ row.status = "SETTLED" => reservation = "CONSUMED"
  /\ row.status = "APPROVED" /\ reservation = "RESERVED" => \E r \in Requests : At(r, "markReserved")

(* What the holder knows of the reservation.                               *)
KnowsLiquidity(r) ==
  /\ pc[r] \in Preparing => row.status = "APPROVED"
  /\ pc[r] \in Unreserved => reservation # "RESERVED"
  /\ pc[r] \in {"markSettled", "fwdSettle"} => reservation = "CONSUMED"

LiquidityInv == CancelsAlone /\ LiquidityFacts /\ \A r \in Requests : KnowsLiquidity(r)

-----------------------------------------------------------------------------
(* What a step of the holder owes: it enters no place before the first     *)
(* move from behind it.                                                    *)
KeptLiquidity(r) ==
  /\ LiquidityFacts' /\ KnowsLiquidity(r)'
  /\ pc'[r] \in Preparing => pc[r] \in Preparing

(* The places from the first move to the credit, where the reservation may *)
(* be held.                                                                *)
UnderWay ==
  {"initiate", "awaitInitiate", "markConfirmed", "settle", "awaitSettle", "markPayoutPending",
   "payout", "persistPayout", "awaitPayout", "credit", "consume", "catch", "resolvePayout",
   "unwind", "fwdCredit", "fwdConsume"}

(* A step to such a place, to a rest at PAYOUT_PENDING, or with nothing    *)
(* held, owes nothing more.                                                *)
LEMMA HeldWhileUnderWay ==
  ASSUME NEW r \in Requests, KnowsAttempt(r)',
         \/ pc'[r] \in UnderWay
         \/ pc'[r] = "release" /\ row'.status = "PAYOUT_PENDING"
         \/ /\ pc'[r] \notin Preparing \union {"markSettled", "fwdSettle"}
            /\ reservation' # "RESERVED"
            /\ row'.status # "SETTLED"
         \/ pc'[r] = "release" /\ row'.status = "SETTLED" /\ reservation' = "CONSUMED"
  PROVE  KeptLiquidity(r)
<1> USE DEF KeptLiquidity, LiquidityFacts, KnowsLiquidity, At
<1>1. CASE pc'[r] \in UnderWay
  <2>1. InPlace(r)'
    BY DEF KnowsAttempt
  <2>2. row'.status \in InFlight \union {"PAYOUT_PENDING"}
    BY <1>1, <2>1 DEF InPlace, UnderWay, Preparing, PayoutLeg, Completing, Undoing, InFlight
  <2> QED BY <1>1, <2>2 DEF UnderWay, Preparing, Unreserved, Over, InFlight
<1>2. CASE pc'[r] = "release" /\ row'.status = "PAYOUT_PENDING"
  BY <1>2 DEF Preparing, Unreserved, Over
<1>3. CASE /\ pc'[r] \notin Preparing \union {"markSettled", "fwdSettle"}
           /\ reservation' # "RESERVED"
           /\ row'.status # "SETTLED"
  BY <1>3
<1>4. CASE pc'[r] = "release" /\ row'.status = "SETTLED" /\ reservation' = "CONSUMED"
  BY <1>4 DEF Preparing, Unreserved, Over
<1> QED BY <1>1, <1>2, <1>3, <1>4

(* From the liquidity check to the reservation, and on to the payout: held *)
(* by the one write that moves on to markReserved, and consumed before     *)
(* SETTLED is written (lib/executor.ts:326-565).                           *)
LEMMA ForwardLiquidity ==
  ASSUME TypeOK, ~DbFault, NEW r \in Requests, KnowsAttempt(r), KnowsAttempt(r)', KnowsLiquidity(r),
         ForwardStep(r)
  PROVE  KeptLiquidity(r)
<1> USE DEF At
<1>0. row \in Rows /\ pc \in [Requests -> Labels]
  BY DEF TypeOK
<1>a. ASSUME NEW to \in PAYMENT_STATES, NEW ok, NEW err, Transition(r, to, row, ok, err)
      PROVE  \/ row' = row /\ pc'[r] = err
             \/ row'.status = to /\ pc'[r] = ok
  BY <1>0, <1>a, SureMove
<1>b. pc[r] \in {"liquidity", "recallFailed", "reserve"} => row.status = "APPROVED" /\ reservation # "RESERVED"
  BY DEF KnowsLiquidity, Preparing, Unreserved
<1>1. CASE CheckLiquidity(r)
  <2>0. row.status = "APPROVED" /\ reservation # "RESERVED" /\ reservation' # "RESERVED" /\ pc[r] = "liquidity"
    BY <1>1, <1>b DEF CheckLiquidity
  <2>1. /\ pc'[r] \in {"reserve", "release", "recallFailed"}
        /\ row'.status \in {"APPROVED", "FAILED"}
        /\ pc'[r] # "release" => row'.status = "APPROVED"
    BY <1>0, <1>1, <1>a, <2>0 DEF CheckLiquidity, Go, PAYMENT_STATES
  <2> QED BY <2>0, <2>1 DEF KeptLiquidity, LiquidityFacts, KnowsLiquidity, Preparing
<1>2. CASE FailRecall(r)
  <2>1. /\ pc'[r] = "release" /\ row'.status \in {"APPROVED", "FAILED"} /\ reservation' # "RESERVED"
    BY <1>2, <1>a, <1>b DEF FailRecall, Step, PAYMENT_STATES
  <2> QED BY <2>1, HeldWhileUnderWay DEF Preparing
<1>3. CASE Reserve(r)
  <2>1. /\ row' = row /\ row.status = "APPROVED" /\ pc[r] = "reserve"
        /\ \/ pc'[r] = "markReserved" /\ reservation' = "RESERVED"
           \/ pc'[r] = "release" /\ reservation' # "RESERVED"
    BY <1>0, <1>3, <1>b DEF Reserve, Write, Go
  <2>2. CASE pc'[r] = "markReserved"
    BY <2>1, <2>2 DEF KeptLiquidity, LiquidityFacts, KnowsLiquidity, Preparing, Unreserved, Over
  <2>3. CASE pc'[r] = "release" /\ reservation' # "RESERVED"
    BY <2>1, <2>3, HeldWhileUnderWay DEF Preparing
  <2> QED BY <2>1, <2>2, <2>3
<1>4. CASE MarkReserved(r)
  <2>1. row.status = "APPROVED" /\ mem[r].status = "APPROVED"
    BY <1>4 DEF MarkReserved, Step, KnowsLiquidity, KnowsAttempt, InPlace, Preparing
  <2>2. pc'[r] = "initiate"
    BY <1>0, <1>4, <2>1, SureMove, LegalMoves DEF MarkReserved, Step, PAYMENT_STATES
  <2> QED BY <2>2, HeldWhileUnderWay DEF UnderWay
<1>5. CASE Initiate(r) \/ MarkSubmitted(r) \/ MarkConfirmed(r) \/ Settle(r) \/ MarkConverted(r)
           \/ MarkPayoutPending(r) \/ Payout(r) \/ PersistPayout(r) \/ AwaitPayout(r) \/ Credit(r)
  <2>1. pc'[r] \in UnderWay
    <3>1. CASE Initiate(r) \/ Settle(r) \/ Payout(r) \/ PersistPayout(r) \/ AwaitPayout(r) \/ Credit(r)
      BY <1>0, <3>1 DEF Initiate, Settle, Payout, PersistPayout, AwaitPayout, Credit, Call, Update,
                        Write, Go, UnderWay
    <3>2. CASE MarkSubmitted(r) \/ MarkConfirmed(r) \/ MarkConverted(r) \/ MarkPayoutPending(r)
      BY <1>0, <3>2 DEF MarkSubmitted, MarkConfirmed, MarkConverted, MarkPayoutPending, OnReceipt,
                        Step, Transition, Go, UnderWay
    <3> QED BY <1>5, <3>1, <3>2
  <2> QED BY <2>1, HeldWhileUnderWay
<1>6. CASE Consume(r)
  <2>1. row' = row /\ pc'[r] = "markSettled" /\ reservation' = "CONSUMED" /\ row.status = "PAYOUT_PENDING"
    BY <1>0, <1>6 DEF Consume, Write, Go, KnowsAttempt, InPlace, PayoutLeg
  <2> QED BY <2>1 DEF KeptLiquidity, LiquidityFacts, KnowsLiquidity, Preparing, Over
<1>7. CASE MarkSettled(r)
  <2>1. /\ row.status = "PAYOUT_PENDING" /\ mem[r].status = row.status /\ reservation = "CONSUMED"
    BY <1>7 DEF MarkSettled, Step, KnowsLiquidity, KnowsAttempt, InPlace, PayoutLeg, Leased, Forward,
                Preparing
  <2>2. pc'[r] = "release" /\ row'.status = "SETTLED" /\ reservation' = "CONSUMED"
    BY <1>0, <1>7, <2>1, SureMove, LegalMoves DEF MarkSettled, Step, PAYMENT_STATES
  <2> QED BY <2>2, HeldWhileUnderWay
<1> QED BY <1>1, <1>2, <1>3, <1>4, <1>5, <1>6, <1>7 DEF ForwardStep

(* The catch releases before it reads the escrow, and consumes before it   *)
(* completes (lib/executor.ts:566-703).                                    *)
LEMMA UndoLiquidity ==
  ASSUME TypeOK, ~DbFault, NEW r \in Requests, KnowsAttempt(r), KnowsAttempt(r)', KnowsLiquidity(r),
         UndoStep(r)
  PROVE  KeptLiquidity(r)
<1> USE DEF At
<1>0. row \in Rows /\ pc \in [Requests -> Labels] /\ mem \in [Requests -> Views]
  BY DEF TypeOK
<1>a. ASSUME NEW to \in PAYMENT_STATES, NEW ok, NEW err, Transition(r, to, row, ok, err)
      PROVE  \/ row' = row /\ pc'[r] = err
             \/ row'.status = to /\ pc'[r] = ok
  BY <1>0, <1>a, SureMove
<1>1. CASE Catch(r) \/ ForwardCredit(r)
  <2>1. pc'[r] \in UnderWay
    BY <1>0, <1>1 DEF Catch, ForwardCredit, Decide, Thrown, Write, Go, UnderWay
  <2> QED BY <2>1, HeldWhileUnderWay
<1>2. CASE ResolvePayout(r)
  <2>1. row' = row /\ row.status = "PAYOUT_PENDING"
    BY <1>2 DEF ResolvePayout, Decide, KnowsAttempt, InPlace
  <2>2. pc'[r] \in UnderWay \/ pc'[r] = "release"
    BY <1>0, <1>2 DEF ResolvePayout, Decide, AfterPayoutOutcome, Go, UnderWay
  <2> QED BY <2>1, <2>2, HeldWhileUnderWay
<1>3. CASE ReleaseReservation(r)
  <2>1. row' = row /\ pc'[r] = "readEscrow" /\ reservation' = "RELEASED" /\ row.status # "SETTLED"
    BY <1>0, <1>3 DEF ReleaseReservation, Go, KnowsAttempt, InPlace, Undoing, InFlight
  <2> QED BY <2>1, HeldWhileUnderWay DEF Preparing
<1>4. CASE ReadEscrow(r) \/ CompensateSender(r) \/ Refund(r) \/ MarkFailed(r) \/ MarkRefunded(r) \/ Fail(r)
  <2>1. /\ pc[r] \in {"readEscrow", "compensate", "refund", "awaitRefund", "markRefunded", "fail"}
        /\ reservation' = reservation
    BY <1>4 DEF ReadEscrow, CompensateSender, Refund, MarkFailed, MarkRefunded, Fail, Decide, Step,
                Call, OnReceipt
  <2>2. reservation # "RESERVED" /\ row.status # "SETTLED"
    BY <2>1 DEF KnowsLiquidity, Unreserved, KnowsAttempt, InPlace, Undoing, InFlight
  <2>3. row'.status # "SETTLED"
    BY <1>4, <1>a, <2>2 DEF ReadEscrow, CompensateSender, Refund, MarkFailed, MarkRefunded, Fail,
                            Decide, Step, Call, OnReceipt, PAYMENT_STATES
  <2>4. pc'[r] \in {"compensate", "refund", "fail", "priorComp", "awaitRefund", "markRefunded", "release"}
    BY <1>0, <1>4 DEF ReadEscrow, CompensateSender, Refund, MarkFailed, MarkRefunded, Fail, UndoFor,
                      Decide, Step, Call, OnReceipt, Transition, Go
  <2> QED BY <2>1, <2>2, <2>3, <2>4, HeldWhileUnderWay DEF Preparing
<1>5. CASE ForwardConsume(r)
  <2>1. /\ row' = row /\ pc'[r] = "fwdSettle" /\ reservation' = "CONSUMED"
        /\ row.status = "PAYOUT_PENDING"
    BY <1>0, <1>5 DEF ForwardConsume, Thrown, Go, KnowsAttempt, InPlace, Completing
  <2> QED BY <2>1 DEF KeptLiquidity, LiquidityFacts, KnowsLiquidity, Preparing, Over
<1>6. CASE ForwardSettle(r)
  <2> DEFINE base == IF mem[r].destHash # None
                     THEN [row EXCEPT !.destHash = mem[r].destHash] ELSE row
  <2>1. base \in Rows
    BY <1>0 DEF Rows, Views
  <2>2. /\ Transition(r, "SETTLED", base, "release", "release") /\ UNCHANGED reservation
        /\ row.status = "PAYOUT_PENDING" /\ mem[r].status = row.status /\ reservation = "CONSUMED"
    BY <1>6 DEF ForwardSettle, Step, KnowsLiquidity, KnowsAttempt, InPlace, Completing, Leased, Undo,
                Preparing
  <2> HIDE DEF base
  <2>3. pc'[r] = "release" /\ row'.status = "SETTLED" /\ reservation' = "CONSUMED"
    BY <2>1, <2>2, SureMove, LegalMoves DEF PAYMENT_STATES
  <2> QED BY <2>3, HeldWhileUnderWay
<1> QED BY <1>1, <1>2, <1>3, <1>4, <1>5, <1>6 DEF UndoStep

(* Past COMPENSATION_PENDING nothing is reserved; a reconciliation that    *)
(* finds the payout reverted releases before it goes there                 *)
(* (lib/executor.ts:764-925, 1013-1189).                                   *)
LEMMA OperatorLiquidity ==
  ASSUME TypeOK, ~DbFault, NEW r \in Requests, KnowsAttempt(r), KnowsAttempt(r)', LiquidityFacts,
         KnowsLiquidity(r), CompensationStep(r) \/ OperatorStep(r)
  PROVE  KeptLiquidity(r)
<1> USE DEF At
<1>0. /\ row \in Rows /\ pc \in [Requests -> Labels] /\ mem \in [Requests -> Views]
      /\ r \in Hashes /\ mem[r].compHash \in Hashes
  BY DEF TypeOK, Hashes, Views
<1>a. ASSUME row.status = "COMPENSATION_PENDING", reservation' = reservation,
             row'.status \in {"COMPENSATION_PENDING", "COMPENSATED"},
             pc'[r] \in Compensation \union {"release"}
      PROVE  KeptLiquidity(r)
  BY <1>a, HeldWhileUnderWay DEF LiquidityFacts, Over, Compensation, Preparing
<1>1. CASE CompensationStep(r)
  <2> DEFINE withHash(h) == [row EXCEPT !.compHash = h]
  <2>1. \A h \in Hashes : withHash(h) \in Rows /\ withHash(h).status = row.status
    BY <1>0 DEF Rows
  <2>2. pc[r] \in Compensation /\ row.status = "COMPENSATION_PENDING" /\ reservation' = reservation
    <3>1. pc[r] \in Compensation /\ reservation' = reservation
      BY <1>1 DEF CompensationStep, PriorCompensation, SendCompensation, PersistCompensation,
         MarkCompensated, CatchCompensation, ConfirmCompensation, Decide, Step, OnReceipt, Compensation
    <3> QED BY <3>1 DEF KnowsAttempt, InPlace
  <2>3. pc'[r] \in Compensation \union {"release"}
    BY <1>0, <1>1 DEF CompensationStep, PriorCompensation, SendCompensation, PersistCompensation,
         MarkCompensated, CatchCompensation, ConfirmCompensation, Decide, Step, OnReceipt, Update,
         Transition, Go, Compensation
  <2>4. row'.status \in {"COMPENSATION_PENDING", "COMPENSATED"}
    <3> HIDE DEF withHash
    <3>1. \/ row' = row
          \/ \E h \in Hashes : row' = withHash(h)
          \/ \E h \in Hashes, ok, err \in Labels : Transition(r, "COMPENSATED", withHash(h), ok, err)
      BY <1>0, <1>1 DEF CompensationStep, PriorCompensation, SendCompensation, PersistCompensation,
         MarkCompensated, CatchCompensation, ConfirmCompensation, Decide, Step, OnReceipt, Update,
         withHash, Labels, Running, Leased, Compensation
    <3> QED BY <2>1, <2>2, <3>1, SureMove DEF PAYMENT_STATES
  <2> QED BY <1>a, <2>2, <2>3, <2>4
<1>2. CASE Repair(r)
  <2>1. row.status = "COMPENSATION_PENDING" /\ UNCHANGED <<row, reservation>>
    BY <1>2 DEF Repair, Decide, KnowsAttempt, InPlace
  <2>2. pc'[r] \in {"priorComp", "release"}
    BY <1>0, <1>2 DEF Repair, Decide, Go
  <2> QED BY <1>a, <2>1, <2>2 DEF Compensation
<1>3. CASE Reconcile(r)
  <2>1. /\ row' = row /\ mem[r].status = row.status
        /\ row.status \in {"PAYOUT_PENDING", "COMPENSATION_PENDING"}
    BY <1>3 DEF Reconcile, KnowsAttempt, InPlace, Leased, Preparing
  <2>2. CASE row.status = "COMPENSATION_PENDING"
    <3>1. pc'[r] \in {"confirmComp", "release"} /\ reservation' = reservation
      BY <1>0, <1>3, <2>1, <2>2 DEF Reconcile, Go
    <3> QED BY <1>a, <2>1, <2>2, <3>1 DEF Compensation
  <2>3. CASE row.status = "PAYOUT_PENDING"
    <3>1. \/ pc'[r] \in {"fwdCredit", "release"}
          \/ pc'[r] = "awaitCompensation" /\ reservation' = "RELEASED"
      BY <1>0, <1>3, <2>1, <2>3 DEF Reconcile, AfterPayoutOutcome, Outcomes, Go
    <3> QED BY <2>1, <2>3, <3>1, HeldWhileUnderWay DEF UnderWay, Preparing
  <2> QED BY <2>1, <2>2, <2>3
<1>4. CASE AwaitCompensation(r)
  <2>1. /\ reservation # "RESERVED" /\ reservation' = reservation /\ row.status = "PAYOUT_PENDING"
        /\ Transition(r, "COMPENSATION_PENDING", row, "release", "release")
    BY <1>4 DEF AwaitCompensation, Step, KnowsLiquidity, Unreserved, KnowsAttempt, InPlace
  <2>2. pc'[r] = "release" /\ row'.status # "SETTLED"
    BY <1>0, <2>1, SureMove DEF PAYMENT_STATES
  <2> QED BY <2>1, <2>2, HeldWhileUnderWay DEF Preparing
<1> QED BY <1>1, <1>2, <1>3, <1>4 DEF OperatorStep

(* A request outside the lease has nothing to know of the reservation.     *)
LEMMA OutsideLiquidity ==
  ASSUME NEW q \in Requests, pc'[q] \notin Leased
  PROVE  KnowsLiquidity(q)'
BY DEF KnowsLiquidity, Preparing, Unreserved, Leased, Forward, Undo

(* A step inside the lease.                                                *)
LEMMA HolderLiquidity ==
  ASSUME Inv, LiquidityInv, NEW r \in Requests, KeptLiquidity(r), pc[r] \in Leased, pc'[r] \in Leased,
         \A q \in Requests : q # r => pc'[q] = pc[q]
  PROVE  LiquidityInv'
<1>1. \A q \in Requests : q # r => pc'[q] \notin Leased
  BY DEF Inv, LeaseInv, SingleAttempt
<1>2. \A q \in Requests : KnowsLiquidity(q)'
  BY <1>1, OutsideLiquidity DEF KeptLiquidity
<1>3. CancelsAlone'
  <2>1. pc'[r] \notin {"cancel", "claimExecute"}
    BY DEF Leased, Forward, Undo, Compensation
  <2> QED BY <2>1 DEF LiquidityInv, CancelsAlone, KeptLiquidity, At
<1> QED BY <1>2, <1>3 DEF LiquidityInv, KeptLiquidity

(* The finally.                                                            *)
LEMMA ReleaseLiquidity ==
  ASSUME Inv, LiquidityInv, NEW r \in Requests, ReleaseLease(r)
  PROVE  LiquidityInv'
<1>0. row \in Rows /\ pc \in [Requests -> Labels]
  BY DEF Inv, TypeOK
<1>1. /\ pc[r] = "release" /\ pc'[r] = "done" /\ row'.status = row.status
      /\ reservation' = reservation /\ \A q \in Requests : q # r => pc'[q] = pc[q]
  BY <1>0 DEF ReleaseLease, At, Go, Rows
<1>2. KnowsLiquidity(r)'
  BY <1>1, OutsideLiquidity DEF Leased, Forward, Undo, Compensation
<1> QED BY <1>1, <1>2 DEF LiquidityInv, CancelsAlone, LiquidityFacts, KnowsLiquidity, At, Preparing

(* The claim of an execute finds nothing reserved: whoever reserved for an *)
(* APPROVED payment holds the lease (lib/executor.ts:246-270).             *)
LEMMA ClaimLiquidity ==
  ASSUME Inv, OutcomeInv, LiquidityInv, ~DbFault, NEW r \in Requests, Claim(r)
  PROVE  LiquidityInv'
<1>0. row \in Rows /\ pc \in [Requests -> Labels]
  BY DEF Inv, TypeOK
<1>1. PICK l \in {"claimExecute", "claimRepair", "claimReconcile"}, ok \in {"liquidity", "repair", "reconcile"} :
        /\ ClaimLease(r, l, ok)
        /\ l = "claimExecute" => ok = "liquidity"
        /\ l = "claimRepair" => ok = "repair"
        /\ l = "claimReconcile" => ok = "reconcile"
  BY DEF Claim
<1>2. /\ pc[r] = l /\ reservation' = reservation /\ row'.status = row.status
      /\ \/ pc'[r] = "done"
         \/ pc'[r] = ok /\ row.lease = None /\ row.status = mem[r].status
      /\ \A q \in Requests : q # r => pc'[q] = pc[q]
  BY <1>0, <1>1 DEF ClaimLease, At, Go, Rows
<1>3. pc'[r] = "liquidity" => row.status = "APPROVED" /\ reservation # "RESERVED" /\ pc[r] = "claimExecute"
  <2>1. ASSUME pc'[r] = "liquidity" PROVE row.status = "APPROVED" /\ row.lease = None /\ pc[r] = "claimExecute"
    BY <1>1, <1>2, <2>1 DEF OutcomeInv, SawTruth, At
  <2>2. ASSUME NEW q \in Requests, At(q, "markReserved"), row.status = "APPROVED" PROVE row.lease # None
    BY <2>2, RequestsAssumption
       DEF Inv, LeaseInv, LeaseFence, At, Leased, Forward, LEASE_RELEASE_STATES, TERMINAL_STATES
  <2> QED BY <2>1, <2>2 DEF LiquidityInv, LiquidityFacts
<1>4. KnowsLiquidity(r)'
  BY <1>2, <1>3 DEF KnowsLiquidity, Preparing, Unreserved
<1>5. LiquidityFacts'
  BY <1>2 DEF LiquidityInv, LiquidityFacts, At
<1>6. CancelsAlone'
  BY <1>2, <1>3 DEF LiquidityInv, CancelsAlone, At, Preparing
<1> QED BY <1>2, <1>4, <1>5, <1>6 DEF LiquidityInv, KnowsLiquidity

(* A cancel meets no attempt on its way to the first move, so nothing is   *)
(* reserved (app/api/payments/[id]/cancel/route.ts:33-41).                 *)
LEMMA CancelLiquidity ==
  ASSUME Inv, OutcomeInv, AttemptInv, LiquidityInv, ~DbFault, NEW r \in Requests, CancelPayment(r)
  PROVE  LiquidityInv'
<1>0. TypeOK /\ row \in Rows /\ pc \in [Requests -> Labels]
  BY DEF Inv, TypeOK
<1>1. /\ pc[r] = "cancel" /\ Transition(r, "CANCELLED", row, "done", "done")
      /\ reservation' = reservation
      /\ mem[r].status \in CANCELLABLE_STATES
  BY DEF CancelPayment, At, OutcomeInv, SawTruth
<1>2. pc'[r] = "done" /\ \A q \in Requests : q # r => pc'[q] = pc[q]
  BY <1>0, <1>1 DEF Transition, Go
<1>3. \A q \in Requests : pc[q] \notin Preparing
  BY <1>1 DEF LiquidityInv, CancelsAlone, At
<1>4. \/ row'.status = row.status
      \/ row.status = "APPROVED" /\ row'.status = "CANCELLED"
  <2>1. row' = row \/ (row.status = mem[r].status /\ row'.status = "CANCELLED")
    BY <1>0, <1>1, SureMove DEF PAYMENT_STATES
  <2> QED BY <1>1, <2>1 DEF AttemptInv, AttemptFacts, Reached, InFlight, CANCELLABLE_STATES
<1>5. row.status = "APPROVED" => reservation # "RESERVED"
  BY <1>3 DEF LiquidityInv, LiquidityFacts, At, Preparing
<1>6. LiquidityFacts'
  BY <1>1, <1>2, <1>4, <1>5 DEF LiquidityInv, LiquidityFacts, At
<1>7. CancelsAlone'
  BY <1>2 DEF LiquidityInv, CancelsAlone, At, Preparing
<1>8. \A q \in Requests : KnowsLiquidity(q)'
  BY <1>1, <1>2, <1>3 DEF LiquidityInv, KnowsLiquidity, Preparing, Unreserved
<1> QED BY <1>6, <1>7, <1>8 DEF LiquidityInv

(* An execute or a cancel arrives only when nobody runs.                   *)
LEMMA ArriveLiquidity ==
  ASSUME Inv, LiquidityInv, "execute" \notin Overlapping, "cancel" \notin Overlapping,
         NEW r \in Requests, ArriveAny(r)
  PROVE  LiquidityInv'
<1>0. pc \in [Requests -> Labels]
  BY DEF Inv, TypeOK
<1>1. PICK l \in {"claimExecute", "claimRepair", "claimReconcile", "cancel"} :
        /\ Go(r, l)
        /\ l \in {"claimExecute", "cancel"} => Idle
  BY DEF ArriveAny, ExecuteStart, RepairStart, ReconcileStart, CancelStart, Arrive
<1>2. UNCHANGED <<row, reservation>> /\ pc[r] = "idle"
  BY DEF ArriveAny, ExecuteStart, RepairStart, ReconcileStart, CancelStart, Arrive, At
<1>3. pc'[r] = l /\ \A q \in Requests : q # r => pc'[q] = pc[q]
  BY <1>0, <1>1 DEF Go
<1>4. CancelsAlone'
  <2>1. CASE l \in {"claimExecute", "cancel"}
    BY <1>1, <1>3, <2>1 DEF CancelsAlone, At, Idle, Running, Leased, Forward, Preparing
  <2>2. CASE l \in {"claimRepair", "claimReconcile"}
    BY <1>3, <2>2 DEF LiquidityInv, CancelsAlone, At, Preparing
  <2> QED BY <2>1, <2>2
<1>5. LiquidityFacts' /\ \A q \in Requests : KnowsLiquidity(q)'
  BY <1>2, <1>3 DEF LiquidityInv, LiquidityFacts, KnowsLiquidity, At, Preparing, Unreserved
<1> QED BY <1>4, <1>5 DEF LiquidityInv

(* Nothing reserved, and nobody running.                                   *)
LEMMA InitLiquidity == Init => LiquidityInv
BY DEF Init, LiquidityInv, CancelsAlone, LiquidityFacts, KnowsLiquidity, At, Over, Preparing, Unreserved

(* Every step keeps LiquidityInv.                                          *)
LEMMA NextLiquidity ==
  ASSUME Inv, OutcomeInv, AttemptInv, AttemptInv', LiquidityInv, "db" \notin Faults,
         "crash" \notin Faults, "execute" \notin Overlapping, "cancel" \notin Overlapping, [Next]_vars
  PROVE  LiquidityInv'
<1>0. TypeOK /\ ~DbFault
  BY DEF Inv, DbFault
<1>1. CASE UNCHANGED <<row, reservation, pc>>
  BY <1>1 DEF LiquidityInv, CancelsAlone, LiquidityFacts, KnowsLiquidity, At
<1>2. ASSUME NEW r \in Requests, ArriveAny(r) PROVE LiquidityInv'
  BY <1>2, ArriveLiquidity
<1>3. ASSUME NEW r \in Requests, Advance(r) PROVE LiquidityInv'
  <2>0. KnowsAttempt(r) /\ KnowsAttempt(r)' /\ LiquidityFacts /\ KnowsLiquidity(r)
    BY DEF AttemptInv, LiquidityInv
  <2>1. CASE ForwardStep(r) \/ UndoStep(r) \/ CompensationStep(r) \/ OperatorStep(r)
    <3>1. KeptLiquidity(r)
      BY <1>0, <2>0, <2>1, ForwardLiquidity, UndoLiquidity, OperatorLiquidity
    <3> QED BY <1>0, <2>1, <3>1, StaysInside, HolderLiquidity
  <2> QED BY <1>0, <1>3, <2>1, ClaimLiquidity, CancelLiquidity, ReleaseLiquidity DEF Advance
<1>4. CASE Mine
  BY <1>1, <1>4 DEF Mine, MineInitiate, MineSettle, MineRefund, MineCall, MinePayout, MineCompensation
<1> QED BY <1>1, <1>2, <1>3, <1>4 DEF Next, Crash, Rest, vars

(* Liquidity does not stay reserved for a payment that is over, and a      *)
(* SETTLED payment consumed it, where neither an execute nor a cancel      *)
(* overlaps another request (lib/executor.ts:378-382, 566-703).            *)
THEOREM NoReservationOutlives ==
  ASSUME "db" \notin Faults, "crash" \notin Faults,
         "execute" \notin Overlapping, "cancel" \notin Overlapping
  PROVE  Spec => []ReservationReturned
<1>1. Init => LiquidityInv
  BY InitLiquidity
<1>2. Inv /\ OutcomeInv /\ AttemptInv /\ AttemptInv' /\ LiquidityInv /\ [Next]_vars => LiquidityInv'
  BY NextLiquidity
<1>3. ASSUME LiquidityInv PROVE ReservationReturned
  <2>1. row.status = "SETTLED" => reservation = "CONSUMED"
    BY <1>3 DEF LiquidityInv, LiquidityFacts
  <2>2. row.status \in {"FAILED", "REFUNDED", "CANCELLED", "COMPENSATION_PENDING", "COMPENSATED"} =>
          reservation # "RESERVED"
    BY <1>3 DEF LiquidityInv, LiquidityFacts, Over
  <2>3. CASE row.status = "SETTLED"
    BY <2>1, <2>3 DEF ReservationReturned
  <2>4. CASE row.status \in {"FAILED", "REFUNDED", "CANCELLED", "COMPENSATION_PENDING", "COMPENSATED"}
    BY <2>2, <2>4 DEF ReservationReturned
  <2>5. CASE row.status \notin {"SETTLED", "FAILED", "REFUNDED", "CANCELLED", "COMPENSATION_PENDING", "COMPENSATED"}
    BY <2>5 DEF ReservationReturned
  <2> QED BY <2>3, <2>4, <2>5
<1>4. LiquidityInv => ReservationReturned
  BY <1>3
<1> QED BY <1>1, <1>2, <1>4, InvHolds, OutcomeIsKnown, AttemptKnown, PTL DEF Spec

-----------------------------------------------------------------------------
(* The treasury pays back once.                                            *)

Repairing ==
  {"claimRepair", "repair", "priorComp", "sendComp", "persistComp", "awaitComp", "catchComp"}

(* The compensations that have not failed.                                 *)
Live == {r \in Requests : compTx[r] \in {"pending", "success"}}

(* The row knows of each, but for the moment before its hash is written.   *)
CompFacts ==
  \/ Live \subseteq {row.compHash}
  \/ \E r \in Requests : At(r, "persistComp")

(* Only one repair is on its way, and what it saw is what the row says.    *)
KnowsComp(r) ==
  /\ At(r, "claimRepair") =>
       /\ row.status \in CompensationStates
       /\ row.status = "COMPENSATION_PENDING" => mem[r].compHash = row.compHash
       /\ \A q \in Requests : q # r => pc[q] \notin Repairing
  /\ pc[r] \in {"repair", "priorComp", "sendComp", "awaitComp", "catchComp", "confirmComp"} =>
       mem[r].compHash = row.compHash
  /\ At(r, "sendComp") => Live = {}
  /\ At(r, "persistComp") => Live \subseteq {r}

CompInv == CompFacts /\ \A r \in Requests : KnowsComp(r)

(* What a step of the holder owes, and what a repair that waits to claim   *)
(* counts on.                                                              *)
KeptComp(r) ==
  /\ CompFacts' /\ KnowsComp(r)'
  /\ pc'[r] \in Repairing => pc[r] \in Repairing \/ row.status \notin CompensationStates
  /\ row.status \in CompensationStates =>
       /\ row'.status \in CompensationStates
       /\ row'.status = "COMPENSATION_PENDING" /\ pc[r] \notin Repairing =>
            row.status = "COMPENSATION_PENDING" /\ row'.compHash = row.compHash

(* Before the compensation begins nobody touches its hash.                 *)
LEMMA NoCompensationYet ==
  ASSUME TypeOK, NEW r \in Requests, ForwardStep(r) \/ UndoStep(r)
  PROVE  /\ pc[r] \in Forward \union Undo
         /\ row'.compHash = row.compHash
         /\ compTx' = compTx
         /\ \/ pc'[r] \in Forward \union Undo \union {"release"}
            \/ pc'[r] = "priorComp" /\ mem'[r].compHash = row.compHash
<1> USE DEF At
<1>0. row \in Rows /\ pc \in [Requests -> Labels] /\ mem \in [Requests -> Views] /\ r \in Hashes
  BY DEF TypeOK, Hashes
<1>1. pc[r] \in Forward \union Undo
  BY DEF ForwardStep, UndoStep, CheckLiquidity,
     FailRecall, Reserve, MarkReserved, Initiate, MarkSubmitted, MarkConfirmed, Settle,
     MarkConverted, MarkPayoutPending, Payout, PersistPayout, AwaitPayout, Credit, Consume,
     MarkSettled, Catch, ResolvePayout, ReleaseReservation, ReadEscrow, CompensateSender,
     Refund, MarkFailed, MarkRefunded, Fail, ForwardCredit, ForwardConsume, ForwardSettle,
     Step, OnReceipt, Call, Decide, Forward, Undo
<1>2. compTx' = compTx
  BY WhoSends DEF Advance, SendCompensation, ForwardStep, UndoStep, CheckLiquidity,
     FailRecall, Reserve, MarkReserved, Initiate, MarkSubmitted, MarkConfirmed, Settle,
     MarkConverted, MarkPayoutPending, Payout, PersistPayout, AwaitPayout, Credit, Consume,
     MarkSettled, Catch, ResolvePayout, ReleaseReservation, ReadEscrow, CompensateSender,
     Refund, MarkFailed, MarkRefunded, Fail, ForwardCredit, ForwardConsume, ForwardSettle,
     Step, OnReceipt, Call, Decide
<1>a. ASSUME NEW to \in PAYMENT_STATES, NEW base \in Rows, base.compHash = row.compHash,
             NEW ok, NEW err, Transition(r, to, base, ok, err)
      PROVE  /\ row'.compHash = row.compHash
             /\ pc'[r] \in {ok, err}
             /\ pc'[r] = ok /\ ok # err => mem'[r].compHash = row.compHash
  BY <1>0, <1>a, MoveShape
<1>3. CASE ForwardStep(r)
  <2>1. CASE CheckLiquidity(r) \/ FailRecall(r) \/ MarkReserved(r) \/ MarkSubmitted(r) \/ MarkConfirmed(r)
             \/ MarkConverted(r) \/ MarkPayoutPending(r) \/ MarkSettled(r)
    <3>1. \/ row' = row /\ pc'[r] \in Forward \union Undo \union {"release"}
          \/ \E to \in PAYMENT_STATES, ok, err \in Forward \union Undo \union {"release"} :
               Transition(r, to, row, ok, err)
      BY <1>0, <2>1 DEF CheckLiquidity, FailRecall, MarkReserved, MarkSubmitted, MarkConfirmed,
         MarkConverted, MarkPayoutPending, MarkSettled, OnReceipt, Step, Go, PAYMENT_STATES, Forward, Undo
    <3> QED BY <1>0, <1>1, <1>2, <1>a, <3>1
  <2>2. CASE Reserve(r) \/ Initiate(r) \/ Settle(r) \/ Payout(r) \/ AwaitPayout(r) \/ Credit(r) \/ Consume(r)
    <3>1. row' = row /\ pc'[r] \in Forward \union Undo \union {"release"}
      BY <1>0, <2>2 DEF Reserve, Initiate, Settle, Payout, AwaitPayout, Credit, Consume, Call, Write,
         Go, Forward, Undo
    <3> QED BY <1>1, <1>2, <3>1
  <2>3. CASE PersistPayout(r)
    <3>1. row'.compHash = row.compHash /\ pc'[r] \in Forward \union Undo
      BY <1>0, <2>3 DEF PersistPayout, Update, Go, Rows, Forward, Undo
    <3> QED BY <1>1, <1>2, <3>1
  <2> QED BY <1>3, <2>1, <2>2, <2>3 DEF ForwardStep
<1>4. CASE UndoStep(r)
  <2>1. CASE MarkFailed(r) \/ MarkRefunded(r) \/ Fail(r)
    <3>1. \/ row' = row /\ pc'[r] \in Forward \union Undo \union {"release"}
          \/ \E to \in PAYMENT_STATES, ok, err \in Forward \union Undo \union {"release"} :
               Transition(r, to, row, ok, err)
      BY <1>0, <2>1 DEF MarkFailed, MarkRefunded, Fail, OnReceipt, Step, Decide, Go, PAYMENT_STATES,
         Forward, Undo
    <3> QED BY <1>0, <1>1, <1>2, <1>a, <3>1
  <2>2. CASE Catch(r) \/ ResolvePayout(r) \/ ReleaseReservation(r) \/ ReadEscrow(r) \/ Refund(r)
             \/ ForwardCredit(r) \/ ForwardConsume(r)
    <3>1. row' = row /\ pc'[r] \in Forward \union Undo \union {"release"}
      BY <1>0, <2>2 DEF Catch, ResolvePayout, ReleaseReservation, ReadEscrow, Refund, ForwardCredit,
         ForwardConsume, Call, Write, Decide, Thrown, AfterPayoutOutcome, UndoFor, Go, Forward, Undo
    <3> QED BY <1>1, <1>2, <3>1
  <2>3. CASE CompensateSender(r)
    <3>1. Transition(r, "COMPENSATION_PENDING", row, "priorComp", "release")
      BY <2>3 DEF CompensateSender, Step
    <3> QED BY <1>0, <1>1, <1>2, <1>a, <3>1 DEF PAYMENT_STATES
  <2>4. CASE ForwardSettle(r)
    <3> DEFINE base == IF mem[r].destHash # None
                       THEN [row EXCEPT !.destHash = mem[r].destHash] ELSE row
    <3>1. base \in Rows /\ base.compHash = row.compHash
      BY <1>0 DEF Rows, Views
    <3>2. Transition(r, "SETTLED", base, "release", "release")
      BY <2>4 DEF ForwardSettle, Step
    <3> HIDE DEF base
    <3> QED BY <1>1, <1>2, <1>a, <3>1, <3>2 DEF PAYMENT_STATES
  <2> QED BY <1>4, <2>1, <2>2, <2>3, <2>4 DEF UndoStep
<1> QED BY <1>3, <1>4

(* The forward path and the catch, up to the move that announces it.       *)
LEMMA AttemptComp ==
  ASSUME TypeOK, NEW r \in Requests, InPlace(r), Live \subseteq {row.compHash},
         ForwardStep(r) \/ UndoStep(r)
  PROVE  KeptComp(r)
<1>1. /\ pc[r] \in Forward \union Undo
      /\ row'.compHash = row.compHash
      /\ compTx' = compTx
      /\ \/ pc'[r] \in Forward \union Undo \union {"release"}
         \/ pc'[r] = "priorComp" /\ mem'[r].compHash = row.compHash
  BY NoCompensationYet
<1>2. row.status \notin CompensationStates
  BY <1>1 DEF InPlace, At, Forward, Undo, Preparing, PayoutLeg, Completing, Undoing, InFlight,
              CompensationStates
<1>3. CompFacts'
  BY <1>1 DEF CompFacts, Live
<1>4. KnowsComp(r)'
  BY <1>1 DEF KnowsComp, At, Forward, Undo
<1> QED BY <1>2, <1>3, <1>4 DEF KeptComp

(* The compensation: sent when nothing is live, and written before it is   *)
(* waited for (lib/executor.ts:764-925).                                   *)
LEMMA CompensationComp ==
  ASSUME TypeOK, ~DbFault, ~LostAnswer, NEW r \in Requests, InPlace(r), KnowsOutcome(r), KnowsComp(r),
         Live \subseteq {row.compHash} \/ At(r, "persistComp"), CompensationStep(r)
  PROVE  KeptComp(r)
<1> USE DEF At
<1>0. /\ row \in Rows /\ pc \in [Requests -> Labels] /\ mem \in [Requests -> Views]
      /\ r \in Hashes /\ mem[r].compHash \in Hashes /\ compTx \in [Requests -> TxStates]
      /\ None \notin Requests
  BY RequestsAssumption DEF TypeOK, Hashes, Views
<1>a. row.status = "COMPENSATION_PENDING" /\ pc[r] \in Compensation
  <2>1. pc[r] \in Compensation
    BY DEF CompensationStep, PriorCompensation, SendCompensation, PersistCompensation,
       MarkCompensated, CatchCompensation, ConfirmCompensation, Decide, Step, OnReceipt, Compensation
  <2> QED BY <2>1 DEF InPlace
<1>b. ASSUME row' = row, compTx' = compTx, Live \subseteq {row.compHash},
             pc'[r] \in {"sendComp", "catchComp", "confirmComp", "release"},
             pc'[r] # "release" => mem'[r].compHash = row.compHash,
             pc'[r] = "sendComp" => Live = {},
             pc[r] # "confirmComp" \/ pc'[r] = "release"
      PROVE  KeptComp(r)
  <2>1. CompFacts' /\ KnowsComp(r)'
    BY <1>b DEF CompFacts, KnowsComp, Live
  <2> QED BY <1>a, <1>b, <2>1 DEF KeptComp, Repairing, CompensationStates, Compensation
<1>c. ASSUME pc'[r] \in {"release", "catchComp"}, row'.status = "COMPENSATED", row'.compHash = row.compHash,
             compTx' = compTx, Live \subseteq {row.compHash},
             pc'[r] = "catchComp" => mem'[r].compHash = row.compHash /\ pc[r] = "awaitComp"
      PROVE  KeptComp(r)
  <2>1. CompFacts' /\ KnowsComp(r)'
    BY <1>c DEF CompFacts, KnowsComp, Live
  <2> QED BY <1>c, <2>1 DEF KeptComp, Repairing, CompensationStates
<1> DEFINE withHash(h) == [row EXCEPT !.compHash = h]
<1>d. \A h \in Hashes : /\ withHash(h) \in Rows /\ withHash(h).compHash = h
                        /\ withHash(h).status = row.status
                        /\ View(withHash(h)).compHash = h
  BY <1>0 DEF Rows, View
<1>1. CASE PriorCompensation(r)
  <2>1. /\ pc[r] = "priorComp" /\ row' = row /\ mem' = mem /\ compTx' = compTx
        /\ mem[r].compHash = row.compHash /\ Live \subseteq {row.compHash}
    BY <1>1 DEF PriorCompensation, Decide, KnowsComp, chain
  <2>2. /\ pc'[r] \in {"sendComp", "confirmComp", "release"}
        /\ pc'[r] = "sendComp" => row.compHash = None \/ compTx[row.compHash] = "reverted"
    BY <1>0, <1>1, <2>1 DEF PriorCompensation, Decide, Outcomes, Go
  <2>3. pc'[r] = "sendComp" => Live = {}
    BY <1>0, <2>1, <2>2 DEF Live
  <2> QED BY <1>b, <2>1, <2>2, <2>3
<1>2. CASE SendCompensation(r)
  <2>1. pc[r] = "sendComp" /\ Live = {} /\ row' = row /\ mem[r].compHash = row.compHash
    BY <1>2 DEF SendCompensation, KnowsComp
  <2>2. CASE compTx' = [compTx EXCEPT ![r] = "pending"] /\ Go(r, "persistComp")
    <3>1. pc'[r] = "persistComp" /\ Live' \subseteq {r}
      BY <1>0, <2>1, <2>2 DEF Live, Go
    <3>2. CompFacts' /\ KnowsComp(r)'
      BY <3>1 DEF CompFacts, KnowsComp
    <3> QED BY <1>a, <2>1, <3>1, <3>2 DEF KeptComp, Repairing, CompensationStates
  <2>3. CASE UNCHANGED <<compTx, mem>> /\ Go(r, "catchComp")
    BY <1>0, <1>b, <2>1, <2>3 DEF Go
  <2> QED BY <1>2, <2>2, <2>3 DEF SendCompensation
<1>3. CASE PersistCompensation(r)
  <2>1. pc[r] = "persistComp" /\ Live \subseteq {r} /\ Update(r, withHash(r), "awaitComp", "catchComp")
        /\ compTx' = compTx
    BY <1>3 DEF PersistCompensation, KnowsComp, chain
  <2> HIDE DEF withHash
  <2>2. /\ pc'[r] = "awaitComp" /\ row'.compHash = r /\ mem'[r].compHash = r
        /\ row'.status = "COMPENSATION_PENDING"
    BY <1>0, <1>a, <1>d, <2>1 DEF Update, See, Go
  <2>3. CompFacts' /\ KnowsComp(r)'
    BY <2>1, <2>2 DEF CompFacts, KnowsComp, Live
  <2> QED BY <1>a, <2>1, <2>2, <2>3 DEF KeptComp, Repairing, CompensationStates
<1>4. CASE MarkCompensated(r)
  <2>1. /\ pc[r] = "awaitComp" /\ mem[r].compHash = row.compHash /\ row.compHash = r
        /\ Live \subseteq {row.compHash} /\ compTx' = compTx
    BY <1>4 DEF MarkCompensated, OnReceipt, KnowsComp, KnowsOutcome, chain
  <2>2. CASE Transition(r, "COMPENSATED", withHash(r), "release", "catchComp")
    <3> HIDE DEF withHash
    <3>1. \/ row' = row /\ mem' = mem /\ pc'[r] = "catchComp"
          \/ /\ row'.status = "COMPENSATED" /\ row'.compHash = r
             /\ \/ pc'[r] = "release"
                \/ pc'[r] = "catchComp" /\ mem' = mem
      BY <1>0, <1>d, <2>2, MoveShape DEF PAYMENT_STATES
    <3> QED BY <1>b, <1>c, <2>1, <3>1
  <2>3. CASE UNCHANGED <<row, mem>> /\ Go(r, "catchComp")
    BY <1>0, <1>b, <2>1, <2>3 DEF Go
  <2> QED BY <1>4, <2>2, <2>3 DEF MarkCompensated, OnReceipt
<1>5. CASE CatchCompensation(r)
  <2>1. /\ pc[r] = "catchComp" /\ mem[r].compHash = row.compHash /\ mem' = mem
        /\ Live \subseteq {row.compHash} /\ compTx' = compTx
    BY <1>5 DEF CatchCompensation, KnowsComp, chain
  <2>2. pc'[r] \in {"release", "confirmComp"} /\ row' = row
    BY <1>0, <1>5, <2>1 DEF CatchCompensation, Go
  <2> QED BY <1>b, <2>1, <2>2
<1>6. CASE ConfirmCompensation(r)
  <2>1. /\ pc[r] = "confirmComp" /\ mem[r].compHash = row.compHash
        /\ Live \subseteq {row.compHash} /\ compTx' = compTx
        /\ Transition(r, "COMPENSATED", withHash(mem[r].compHash), "release", "release")
    BY <1>6 DEF ConfirmCompensation, Step, KnowsComp, chain
  <2> HIDE DEF withHash
  <2>2. /\ pc'[r] = "release"
        /\ row' = row \/ (row'.status = "COMPENSATED" /\ row'.compHash = row.compHash)
    BY <1>0, <1>d, <2>1, MoveShape DEF PAYMENT_STATES
  <2> QED BY <1>b, <1>c, <2>1, <2>2
<1> QED BY <1>1, <1>2, <1>3, <1>4, <1>5, <1>6 DEF CompensationStep

(* The repair goes on with the hash the row has; the reconciliation with   *)
(* one that was mined, which is the same (lib/executor.ts:1013-1189).      *)
LEMMA OperatorComp ==
  ASSUME TypeOK, ~DbFault, NEW r \in Requests, InPlace(r), SawTruth(r), KnowsComp(r),
         Live \subseteq {row.compHash}, OperatorStep(r)
  PROVE  KeptComp(r)
<1> USE DEF At
<1>0. /\ row \in Rows /\ pc \in [Requests -> Labels] /\ mem \in [Requests -> Views]
      /\ mem[r].compHash \in Hashes
  BY DEF TypeOK, Hashes, Views
<1>a. compTx' = compTx
  BY DEF OperatorStep, Repair, Reconcile, AwaitCompensation, Decide, Step, chain
<1>1. CASE Repair(r)
  <2>1. /\ pc[r] = "repair" /\ mem[r].compHash = row.compHash /\ row' = row /\ mem' = mem
        /\ row.status = "COMPENSATION_PENDING" /\ pc'[r] \in {"priorComp", "release"}
    BY <1>0, <1>1 DEF Repair, Decide, KnowsComp, InPlace, Go
  <2>2. CompFacts' /\ KnowsComp(r)'
    BY <1>a, <2>1 DEF CompFacts, KnowsComp, Live
  <2> QED BY <2>1, <2>2 DEF KeptComp, Repairing, CompensationStates
<1>2. CASE Reconcile(r)
  <2>1. /\ pc[r] = "reconcile" /\ row' = row /\ mem' = mem
        /\ pc'[r] \in {"fwdCredit", "release", "awaitCompensation", "confirmComp"}
        /\ pc'[r] = "confirmComp" => mem[r].compHash # None /\ compTx[mem[r].compHash] = "success"
    BY <1>0, <1>2 DEF Reconcile, AfterPayoutOutcome, Outcomes, Go, SawTruth
  <2>2. pc'[r] = "confirmComp" => mem[r].compHash = row.compHash
    BY <1>0, <2>1 DEF Live, Hashes
  <2>3. CompFacts' /\ KnowsComp(r)'
    BY <1>a, <2>1, <2>2 DEF CompFacts, KnowsComp, Live
  <2> QED BY <2>1, <2>3 DEF KeptComp, Repairing, CompensationStates
<1>3. CASE AwaitCompensation(r)
  <2>1. /\ row.status = "PAYOUT_PENDING"
        /\ Transition(r, "COMPENSATION_PENDING", row, "release", "release")
    BY <1>3 DEF AwaitCompensation, Step, InPlace
  <2>2. pc'[r] = "release" /\ row'.compHash = row.compHash
    BY <1>0, <2>1, MoveShape DEF PAYMENT_STATES
  <2>3. CompFacts' /\ KnowsComp(r)'
    BY <1>a, <2>2 DEF CompFacts, KnowsComp, Live
  <2> QED BY <2>1, <2>2, <2>3 DEF KeptComp, Repairing, CompensationStates
<1> QED BY <1>1, <1>2, <1>3 DEF OperatorStep

(* The row's last word, when nobody is about to write a hash.              *)
LEMMA RowKnowsLive ==
  ASSUME Inv, CompInv, NEW r \in Requests, pc[r] \in Leased
  PROVE  Live \subseteq {row.compHash} \/ At(r, "persistComp")
<1>1. \A q \in Requests : At(q, "persistComp") => q = r
  BY DEF Inv, LeaseInv, SingleAttempt, At, Leased, Compensation
<1> QED BY <1>1 DEF CompInv, CompFacts

(* A request that stands still outside the lease, while the holder keeps   *)
(* its part.                                                               *)
LEMMA OutsideComp ==
  ASSUME NEW r \in Requests, KeptComp(r), NEW q \in Requests, q # r, KnowsComp(q), pc[q] \notin Leased,
         \A p \in Requests : p # r => pc'[p] = pc[p] /\ mem'[p] = mem[p]
  PROVE  KnowsComp(q)'
<1>1. pc'[q] = pc[q] /\ mem'[q] = mem[q]
  OBVIOUS
<1>2. CASE At(q, "claimRepair")
  <2>1. /\ row.status \in CompensationStates /\ pc[r] \notin Repairing
        /\ row.status = "COMPENSATION_PENDING" => mem[q].compHash = row.compHash
        /\ \A p \in Requests : p # q => pc[p] \notin Repairing
    BY <1>2 DEF KnowsComp
  <2>2. \A p \in Requests : p # q => pc'[p] \notin Repairing
    BY <2>1 DEF KeptComp
  <2> QED BY <1>1, <1>2, <2>1, <2>2 DEF KeptComp, KnowsComp, At
<1>3. CASE ~At(q, "claimRepair")
  BY <1>1, <1>3 DEF KnowsComp, At, Leased, Compensation
<1> QED BY <1>2, <1>3

(* A request that stands still while the row keeps its hash and stays, or  *)
(* does not arrive, in the compensation statuses.                          *)
LEMMA AsideComp ==
  ASSUME NEW r \in Requests, NEW q \in Requests, q # r, KnowsComp(q), pc'[q] = pc[q], mem'[q] = mem[q],
         \A p \in Requests : p # r => pc'[p] = pc[p],
         At(q, "claimRepair") => pc'[r] \notin Repairing,
         compTx' = compTx, row'.compHash = row.compHash,
         row'.status = row.status \/ row.status \notin CompensationStates
  PROVE  KnowsComp(q)'
BY DEF KnowsComp, At, Live

(* A request that goes on to a place where it needs no hash.               *)
LEMMA ElsewhereComp ==
  ASSUME Inv, CompInv, NEW r \in Requests, pc'[r] \notin Repairing \union {"confirmComp"},
         pc[r] # "persistComp",
         \A q \in Requests : q # r => pc'[q] = pc[q] /\ mem'[q] = mem[q],
         compTx' = compTx, row'.compHash = row.compHash,
         row'.status = row.status \/ row.status \notin CompensationStates
  PROVE  CompInv'
<1>1. KnowsComp(r)'
  BY DEF KnowsComp, At, Repairing
<1>2. \A q \in Requests : q # r => KnowsComp(q)'
  BY AsideComp DEF CompInv
<1>3. CompFacts'
  BY DEF CompInv, CompFacts, Live, At
<1> QED BY <1>1, <1>2, <1>3 DEF CompInv

(* The claim of a repair: the hash it saw is the hash the row has          *)
(* (lib/executor.ts:246-270, 1028-1060).                                   *)
LEMMA ClaimComp ==
  ASSUME Inv, OutcomeInv, CompInv, NEW r \in Requests, Claim(r)
  PROVE  CompInv'
<1>0. row \in Rows /\ pc \in [Requests -> Labels]
  BY DEF Inv, TypeOK
<1>1. PICK l \in {"claimExecute", "claimRepair", "claimReconcile"}, ok \in {"liquidity", "repair", "reconcile"} :
        /\ ClaimLease(r, l, ok)
        /\ l = "claimExecute" => ok = "liquidity"
        /\ l = "claimRepair" => ok = "repair"
        /\ l = "claimReconcile" => ok = "reconcile"
  BY DEF Claim
<1>2. /\ pc[r] = l /\ compTx' = compTx /\ mem' = mem
      /\ row'.status = row.status /\ row'.compHash = row.compHash
      /\ pc'[r] = "done" \/ (pc'[r] = ok /\ row.status = mem[r].status)
      /\ \A q \in Requests : q # r => pc'[q] = pc[q]
  BY <1>0, <1>1 DEF ClaimLease, At, Go, Rows, chain
<1>3. CASE pc'[r] = "repair"
  <2>1. l = "claimRepair" /\ row.status = "COMPENSATION_PENDING"
    BY <1>1, <1>2, <1>3 DEF OutcomeInv, SawTruth, At
  <2>2. mem[r].compHash = row.compHash /\ \A q \in Requests : q # r => pc[q] \notin Repairing
    BY <1>2, <2>1 DEF CompInv, KnowsComp, At
  <2>3. KnowsComp(r)'
    BY <1>2, <1>3, <2>2 DEF KnowsComp, At
  <2>4. ASSUME NEW q \in Requests, q # r PROVE KnowsComp(q)'
    <3>1. ~At(q, "claimRepair") /\ KnowsComp(q)
      BY <2>2, <2>4 DEF At, Repairing, CompInv
    <3> QED BY <1>2, <2>4, <3>1 DEF KnowsComp, At, Live
  <2>5. CompFacts'
    BY <1>2, <2>1 DEF CompInv, CompFacts, Live, At
  <2> QED BY <2>3, <2>4, <2>5 DEF CompInv
<1>4. CASE pc'[r] # "repair"
  BY <1>2, <1>4, ElsewhereComp DEF Repairing
<1> QED BY <1>3, <1>4

(* A repair arrives when nobody runs; the others bring no compensation.    *)
LEMMA ArriveComp ==
  ASSUME Inv, CompInv, "repair" \notin Overlapping, NEW r \in Requests, ArriveAny(r)
  PROVE  CompInv'
<1>0. pc \in [Requests -> Labels] /\ mem \in [Requests -> Views]
  BY DEF Inv, TypeOK
<1>1. PICK l \in {"claimExecute", "claimRepair", "claimReconcile", "cancel"} :
        /\ Go(r, l)
        /\ l = "claimRepair" => Idle /\ row.status = "COMPENSATION_PENDING"
  BY DEF ArriveAny, ExecuteStart, RepairStart, ReconcileStart, CancelStart, Arrive
<1>2. See(r, row) /\ UNCHANGED <<row, compTx>> /\ pc[r] = "idle"
  BY DEF ArriveAny, ExecuteStart, RepairStart, ReconcileStart, CancelStart, Arrive, At, chain
<1>3. /\ mem'[r].compHash = row.compHash /\ pc'[r] = l
      /\ \A q \in Requests : q # r => pc'[q] = pc[q] /\ mem'[q] = mem[q]
  BY <1>0, <1>1, <1>2 DEF See, Go, View
<1>4. CASE l = "claimRepair"
  <2>1. \A q \in Requests : pc[q] \notin Repairing
    BY <1>1, <1>4 DEF Idle, Running, Repairing, Leased, Compensation
  <2>2. KnowsComp(r)'
    BY <1>1, <1>2, <1>3, <1>4, <2>1 DEF KnowsComp, At, CompensationStates
  <2>3. ASSUME NEW q \in Requests, q # r PROVE KnowsComp(q)'
    <3>1. ~At(q, "claimRepair") /\ KnowsComp(q)
      BY <2>1 DEF At, Repairing, CompInv
    <3> QED BY <1>2, <1>3, <2>3, <3>1 DEF KnowsComp, At, Live
  <2>4. CompFacts'
    BY <1>2, <2>1 DEF CompInv, CompFacts, Live, At, Repairing
  <2> QED BY <2>2, <2>3, <2>4 DEF CompInv
<1>5. CASE l # "claimRepair"
  BY <1>2, <1>3, <1>5, ElsewhereComp DEF Repairing
<1> QED BY <1>4, <1>5

(* Mining ends a transfer or fails it: nothing becomes live.               *)
LEMMA MineComp ==
  ASSUME Inv, CompInv, Mine
  PROVE  CompInv'
<1>1. UNCHANGED <<row, pc, mem>> /\ Live' \subseteq Live
  BY DEF Mine, MineInitiate, MineSettle, MineRefund, MineCall, MinePayout, MineCompensation, Live,
         Inv, TypeOK
<1> QED BY <1>1 DEF CompInv, CompFacts, KnowsComp, At

(* Every step keeps CompInv.                                               *)
LEMMA NextComp ==
  ASSUME Inv, OutcomeInv, AttemptInv, CompInv, "db" \notin Faults, "crash" \notin Faults,
         "broadcast" \notin Faults, "repair" \notin Overlapping, [Next]_vars
  PROVE  CompInv'
<1>0. TypeOK /\ ~DbFault /\ ~LostAnswer
  BY DEF Inv, DbFault, LostAnswer
<1>1. CASE UNCHANGED vars
  BY <1>1 DEF vars, chain, CompInv, CompFacts, KnowsComp, Live, At
<1>2. ASSUME NEW r \in Requests, ArriveAny(r) PROVE CompInv'
  BY <1>2, ArriveComp
<1>3. ASSUME NEW r \in Requests, Advance(r) PROVE CompInv'
  <2>0. InPlace(r) /\ SawTruth(r) /\ KnowsOutcome(r) /\ KnowsComp(r)
    BY DEF AttemptInv, KnowsAttempt, OutcomeInv, CompInv
  <2>1. CASE ForwardStep(r) \/ UndoStep(r) \/ CompensationStep(r) \/ OperatorStep(r)
    <3>1. /\ pc[r] \in Leased /\ pc'[r] \in Leased
          /\ \A q \in Requests : q # r => pc'[q] = pc[q] /\ mem'[q] = mem[q]
      BY <1>0, <2>1, StaysInside
    <3>2. Live \subseteq {row.compHash} \/ At(r, "persistComp")
      BY <3>1, RowKnowsLive
    <3>3. CompensationStep(r) \/ ~At(r, "persistComp")
      BY <1>0, <2>1, NoCompensationYet
         DEF OperatorStep, Repair, Reconcile, AwaitCompensation, Decide, Step, At, Forward, Undo
    <3>4. KeptComp(r)
      BY <1>0, <2>0, <2>1, <3>2, <3>3, AttemptComp, CompensationComp, OperatorComp
    <3>5. \A q \in Requests : q # r => pc[q] \notin Leased
      BY <3>1 DEF Inv, LeaseInv, SingleAttempt
    <3>6. \A q \in Requests : q # r => KnowsComp(q)'
      BY <3>1, <3>4, <3>5, OutsideComp DEF CompInv
    <3> QED BY <3>4, <3>6 DEF CompInv, KeptComp
  <2>2. CASE Claim(r)
    BY <2>2, ClaimComp
  <2>3. CASE CancelPayment(r)
    <3>1. /\ pc[r] = "cancel" /\ Transition(r, "CANCELLED", row, "done", "done") /\ compTx' = compTx
          /\ mem[r].status \in CANCELLABLE_STATES /\ row \in Rows
      BY <1>0, <2>0, <2>3 DEF CancelPayment, At, SawTruth, chain, TypeOK
    <3>2. /\ pc'[r] = "done" /\ row'.compHash = row.compHash
          /\ row'.status = row.status \/ row.status = mem[r].status
      BY <1>0, <3>1, MoveShape DEF PAYMENT_STATES
    <3>3. \A q \in Requests : q # r => pc'[q] = pc[q] /\ mem'[q] = mem[q]
      BY <1>0, <3>1 DEF Transition, Go, See, TypeOK
    <3> QED BY <3>1, <3>2, <3>3, ElsewhereComp DEF Repairing, CANCELLABLE_STATES, CompensationStates
  <2>4. CASE ReleaseLease(r)
    <3>1. /\ pc[r] = "release" /\ pc'[r] = "done" /\ mem' = mem /\ compTx' = compTx
          /\ row'.status = row.status /\ row'.compHash = row.compHash
          /\ \A q \in Requests : q # r => pc'[q] = pc[q]
      BY <1>0, <2>4 DEF ReleaseLease, At, Go, TypeOK, Rows, chain
    <3> QED BY <3>1, ElsewhereComp DEF Repairing
  <2> QED BY <1>3, <2>1, <2>2, <2>3, <2>4 DEF Advance
<1>4. CASE Mine
  BY <1>4, MineComp
<1> QED BY <1>1, <1>2, <1>3, <1>4 DEF Next, Crash, Rest

(* No request has seen or sent anything.                                   *)
LEMMA InitComp == Init => CompInv
<1> SUFFICES ASSUME Init PROVE CompInv
  OBVIOUS
<1>1. Live = {}
  BY DEF Init, Live
<1>2. \A r \in Requests : pc[r] = "idle"
  BY DEF Init
<1> QED BY <1>1, <1>2 DEF CompInv, CompFacts, KnowsComp, At

(* What the row and the one repair on its way know of the compensations    *)
(* that have not failed (lib/executor.ts:764-925, 1028-1060).              *)
THEOREM CompensationsKnown ==
  ASSUME "db" \notin Faults, "crash" \notin Faults, "broadcast" \notin Faults,
         "repair" \notin Overlapping
  PROVE  Spec => []CompInv
<1>1. Init => CompInv
  BY InitComp
<1>2. Inv /\ OutcomeInv /\ AttemptInv /\ CompInv /\ [Next]_vars => CompInv'
  BY NextComp
<1> QED BY <1>1, <1>2, InvHolds, OutcomeIsKnown, AttemptKnown, PTL DEF Spec

(* The treasury pays the sender back once, where repairs do not overlap    *)
(* (lib/executor.ts:799-831).                                              *)
THEOREM PaidBackOnce ==
  ASSUME "db" \notin Faults, "crash" \notin Faults, "broadcast" \notin Faults,
         "repair" \notin Overlapping
  PROVE  Spec => []CompensatedAtMostOnce
<1>1. ASSUME CompInv PROVE CompensatedAtMostOnce
  <2>1. \E h : Live \subseteq {h}
    BY <1>1 DEF CompInv, CompFacts, KnowsComp
  <2> QED BY <2>1 DEF CompensatedAtMostOnce, Live
<1>2. CompInv => CompensatedAtMostOnce
  BY <1>1
<1> QED BY <1>2, CompensationsKnown, PTL

-----------------------------------------------------------------------------
(* The promise: every step moves the amount one hop or none.               *)

(* What the invariants say of the amount and of the ending reported.       *)
PromiseFacts ==
  /\ Delivered => escrow = "SETTLED"
  /\ PaidBack # {} => escrow = "SETTLED"
  /\ ~(Delivered /\ Returned)
  /\ \A r, q \in PaidBack : r = q
  /\ row.status = "SETTLED" => Arrived
  /\ row.status \in {"COMPENSATED", "REFUNDED"} => Returned
  /\ row.status = "CANCELLED" => escrow = "NONE"

(* What the refinement needs of a state follows from the invariants.       *)
LEMMA PromiseFactsHold ==
  ASSUME RowIsTrue, AttemptFacts, MoneyKnown, NeverPaidBothWays, CompensatedAtMostOnce
  PROVE  PromiseFacts
<1>1. Delivered => escrow = "SETTLED"
  BY DEF Delivered, MoneyKnown, Sent
<1>2. PaidBack # {} => escrow = "SETTLED"
  BY DEF PaidBack, MoneyKnown, Sent, RowIsTrue, Released, AttemptFacts, CompensationStates
<1>3. /\ row.status = "SETTLED" => Arrived
      /\ row.status \in {"COMPENSATED", "REFUNDED"} => Returned
      /\ row.status = "CANCELLED" => escrow = "NONE"
  BY DEF RowIsTrue, TerminalMatchesMoney, Arrived, Returned
<1>4. \A r, q \in PaidBack : r = q
  BY DEF CompensatedAtMostOnce, PaidBack
<1> QED BY <1>1, <1>2, <1>3, <1>4 DEF PromiseFacts, NeverPaidBothWays

(* The place of the amount, with the impossible cases gone.                *)
Where ==
  IF Arrived THEN "delivered"
  ELSE IF Returned THEN "returned"
  ELSE IF escrow = "SETTLED" THEN "treasury"
  ELSE IF escrow = "INITIATED" THEN "escrow"
  ELSE "sender"

(* Where the recipient was not paid as well, and the sender not twice, the *)
(* chains show the amount in one place (lib/executor.ts:566-616).          *)
LEMMA WhereItIs == PromiseFacts => MoneyIs = Where
<1> SUFFICES ASSUME PromiseFacts PROVE MoneyIs = Where
  OBVIOUS
<1>1. (Delivered /\ Returned) = FALSE /\ (\E r, q \in PaidBack : r # q) = FALSE
  BY DEF PromiseFacts
<1> QED BY <1>1 DEF MoneyIs, Where

(* The same after a step.                                                  *)
LEMMA WhereItIsNext == (PromiseFacts => MoneyIs = Where)'
BY WhereItIs, PTL

(* The ending the status reports (lib/state.ts:26-52).                     *)
Reported ==
  /\ row.status = "SETTLED" => ReportIs = "delivered"
  /\ row.status \in {"COMPENSATED", "REFUNDED"} => ReportIs = "returned"
  /\ row.status = "CANCELLED" => ReportIs = "untouched"
  /\ row.status \notin {"SETTLED", "COMPENSATED", "REFUNDED", "CANCELLED"} => ReportIs = "open"

(* A status with an ending reports that one, every other status none       *)
(* (lib/state.ts:26-52).                                                   *)
LEMMA WhatIsReported == Reported
<1>1. row.status = "SETTLED" => ReportIs = "delivered"
  BY DEF ReportIs
<1>2. row.status \in {"COMPENSATED", "REFUNDED"} => ReportIs = "returned"
  BY DEF ReportIs
<1>3. row.status = "CANCELLED" => ReportIs = "untouched"
  BY DEF ReportIs
<1>4. row.status \notin {"SETTLED", "COMPENSATED", "REFUNDED", "CANCELLED"} => ReportIs = "open"
  BY DEF ReportIs
<1> QED BY <1>1, <1>2, <1>3, <1>4 DEF Reported

(* The same after a step.                                                  *)
LEMMA WhatIsReportedNext == Reported'
BY WhatIsReported, PTL

PromiseStep == Promise!Next \/ UNCHANGED <<MoneyIs, ReportIs>>

(* A step of the status alone: an ending is reported once, and where the   *)
(* amount is (lib/state.ts:26-52).                                         *)
LEMMA StatusKeepsPromise ==
  ASSUME PromiseFacts, PromiseFacts', row.status \in PAYMENT_STATES,
         Arrived' = Arrived, Returned' = Returned, escrow' = escrow,
         row'.status = row.status \/ CanTransition(row.status, row'.status)
  PROVE  PromiseStep
<1>1. MoneyIs = Where /\ MoneyIs' = Where'
  BY WhereItIs, WhereItIsNext
<1>2. MoneyIs' = MoneyIs
  BY <1>1 DEF Where
<1>3. /\ row'.status = "SETTLED" => ReportIs' = "delivered"
      /\ row'.status \in {"COMPENSATED", "REFUNDED"} => ReportIs' = "returned"
      /\ row'.status = "CANCELLED" => ReportIs' = "untouched"
      /\ row'.status \notin {"SETTLED", "COMPENSATED", "REFUNDED", "CANCELLED"} => ReportIs' = "open"
  BY WhatIsReportedNext DEF Reported
<1>4. CASE row'.status = row.status
  BY <1>2, <1>3, <1>4, WhatIsReported DEF Reported, PromiseStep
<1>5. CASE CanTransition(row.status, row'.status)
  <2>1. row.status \notin {"SETTLED", "COMPENSATED", "REFUNDED", "CANCELLED"}
    BY <1>5 DEF CanTransition, TRANSITIONS, PAYMENT_STATES
  <2>2. ReportIs = "open"
    BY <2>1, WhatIsReported DEF Reported
  <2>3. CASE row'.status = "SETTLED"
    <3>1. MoneyIs = "delivered"
      BY <1>1, <2>3 DEF PromiseFacts, Where
    <3> QED BY <1>2, <1>3, <2>2, <2>3, <3>1 DEF PromiseStep, Promise!Next, Promise!Conclude, Promise!Report
  <2>4. CASE row'.status \in {"COMPENSATED", "REFUNDED"}
    <3>1. Returned /\ ~Arrived
      BY <2>4 DEF PromiseFacts, Arrived, Delivered
    <3>2. MoneyIs = "returned"
      BY <1>1, <3>1 DEF Where
    <3> QED BY <1>2, <1>3, <2>2, <2>4, <3>2 DEF PromiseStep, Promise!Next, Promise!Conclude, Promise!Report
  <2>5. CASE row'.status = "CANCELLED"
    <3>1. escrow = "NONE"
      BY <2>5 DEF PromiseFacts
    <3>2. ~Delivered /\ ~Returned
      BY <3>1 DEF PromiseFacts, Returned, PaidBack
    <3>3. MoneyIs = "sender"
      BY <1>1, <3>1, <3>2 DEF Where, Arrived, Delivered
    <3> QED BY <1>2, <1>3, <2>2, <2>5, <3>3 DEF PromiseStep, Promise!Next, Promise!Conclude, Promise!Report
  <2>6. CASE row'.status \notin {"SETTLED", "COMPENSATED", "REFUNDED", "CANCELLED"}
    BY <1>2, <1>3, <2>2, <2>6 DEF PromiseStep
  <2> QED BY <2>3, <2>4, <2>5, <2>6
<1> QED BY <1>4, <1>5

(* A step of the escrow, one hop at a time.                                *)
LEMMA EscrowKeepsPromise ==
  ASSUME PromiseFacts, PromiseFacts', row'.status = row.status, row.status # "CANCELLED",
         Arrived' = Arrived, Delivered' = Delivered, PaidBack' = PaidBack,
         \/ escrow = "NONE" /\ escrow' = "INITIATED"
         \/ escrow = "INITIATED" /\ escrow' \in {"SETTLED", "REFUNDED"}
  PROVE  PromiseStep
<1>1. MoneyIs = Where /\ MoneyIs' = Where'
  BY WhereItIs, WhereItIsNext
<1>2. ~Delivered /\ PaidBack = {} /\ ~Returned
  BY DEF PromiseFacts, Returned, PaidBack
<1>3. ~Arrived /\ ~Arrived'
  BY <1>2 DEF Arrived, Delivered
<1>4. ReportIs = "open" /\ ReportIs' = "open"
  <2>1. row.status \notin {"SETTLED", "COMPENSATED", "REFUNDED", "CANCELLED"}
    BY <1>2, <1>3 DEF PromiseFacts
  <2>2. row'.status \notin {"SETTLED", "COMPENSATED", "REFUNDED", "CANCELLED"} => ReportIs' = "open"
    BY WhatIsReportedNext DEF Reported
  <2> QED BY <2>1, <2>2, WhatIsReported DEF Reported
<1>5. Returned' <=> escrow' = "REFUNDED"
  <2>1. ~(\E r \in Requests : compTx'[r] = "success")
    BY <1>2 DEF PaidBack
  <2> QED BY <2>1 DEF Returned
<1>6. CASE escrow = "NONE" /\ escrow' = "INITIATED"
  <2>1. MoneyIs = "sender" /\ MoneyIs' = "escrow"
    BY <1>1, <1>2, <1>3, <1>5, <1>6 DEF Where
  <2> QED BY <1>4, <2>1 DEF PromiseStep, Promise!Next, Promise!Escrow, Promise!Hop
<1>7. CASE escrow = "INITIATED" /\ escrow' = "SETTLED"
  <2>1. MoneyIs = "escrow" /\ MoneyIs' = "treasury"
    BY <1>1, <1>2, <1>3, <1>5, <1>7 DEF Where
  <2> QED BY <1>4, <2>1 DEF PromiseStep, Promise!Next, Promise!Release, Promise!Hop
<1>8. CASE escrow = "INITIATED" /\ escrow' = "REFUNDED"
  <2>1. MoneyIs = "escrow" /\ MoneyIs' = "returned"
    BY <1>1, <1>2, <1>3, <1>5, <1>8 DEF Where
  <2> QED BY <1>4, <2>1 DEF PromiseStep, Promise!Next, Promise!Refund, Promise!Hop
<1> QED BY <1>6, <1>7, <1>8

(* A transfer out of the treasury that is mined, or a credit that needs    *)
(* none: to one end, once.                                                 *)
LEMMA TreasuryKeepsPromise ==
  ASSUME PromiseFacts, PromiseFacts', TypeOK, TypeOK',
         row'.status = row.status, escrow' = escrow,
         Arrived => Arrived', PaidBack \subseteq PaidBack',
         Arrived' = Arrived \/ PaidBack' = PaidBack
  PROVE  PromiseStep
<1>1. MoneyIs = Where /\ MoneyIs' = Where'
  BY WhereItIs, WhereItIsNext
<1>2. ReportIs' = ReportIs
  <2>1. /\ row'.status = "SETTLED" => ReportIs' = "delivered"
        /\ row'.status \in {"COMPENSATED", "REFUNDED"} => ReportIs' = "returned"
        /\ row'.status = "CANCELLED" => ReportIs' = "untouched"
        /\ row'.status \notin {"SETTLED", "COMPENSATED", "REFUNDED", "CANCELLED"} => ReportIs' = "open"
    BY WhatIsReportedNext DEF Reported
  <2> QED BY <2>1, WhatIsReported DEF Reported
<1>3. Returned = (escrow = "REFUNDED" \/ PaidBack # {})
  BY DEF Returned, PaidBack
<1>4. Returned' = (escrow = "REFUNDED" \/ PaidBack' # {})
  <2>1. Returned' = (escrow' = "REFUNDED" \/ PaidBack' # {})
    BY DEF Returned, PaidBack
  <2> QED BY <2>1
<1>5. (Arrived => Delivered) /\ (Arrived' => Delivered')
  BY DEF Arrived, Delivered
<1>6. CASE Arrived' = Arrived /\ Returned' = Returned
  <2>1. MoneyIs' = MoneyIs
    BY <1>1, <1>6 DEF Where
  <2> QED BY <1>2, <2>1 DEF PromiseStep
<1>7. CASE ~Arrived /\ Arrived'
  <2>1. ~Returned' /\ escrow = "SETTLED"
    BY <1>5, <1>7 DEF PromiseFacts
  <2>2. ~Returned
    BY <1>3, <1>4, <2>1
  <2>3. MoneyIs = "treasury" /\ MoneyIs' = "delivered"
    BY <1>1, <1>7, <2>1, <2>2 DEF Where
  <2> QED BY <1>2, <2>3 DEF PromiseStep, Promise!Next, Promise!Deliver, Promise!Hop
<1>8. CASE ~Returned /\ Returned'
  <2>1. escrow = "SETTLED" /\ ~Arrived'
    BY <1>3, <1>4, <1>5, <1>8 DEF PromiseFacts
  <2>2. ~Arrived
    BY <2>1
  <2>3. MoneyIs = "treasury" /\ MoneyIs' = "returned"
    BY <1>1, <1>8, <2>1, <2>2 DEF Where
  <2> QED BY <1>2, <2>3 DEF PromiseStep, Promise!Next, Promise!MakeGood, Promise!Hop
<1>9. Arrived \in BOOLEAN /\ Arrived' \in BOOLEAN /\ Returned \in BOOLEAN /\ Returned' \in BOOLEAN
  BY DEF Returned, Arrived, TypeOK
<1> QED BY <1>3, <1>4, <1>6, <1>7, <1>8, <1>9

(* A request writes one status at a time, and only along the table         *)
(* (lib/transitions.ts:33-70).                                             *)
LEMMA StatusMoves ==
  ASSUME TypeOK, NEW r \in Requests, Advance(r)
  PROVE  row'.status = row.status \/ CanTransition(row.status, row'.status)
<1>0. row \in Rows
  BY DEF TypeOK
<1>1. ASSUME NEW to \in PAYMENT_STATES, NEW base \in Rows, NEW ok, NEW err,
             Transition(r, to, base, ok, err)
      PROVE  row'.status = row.status \/ CanTransition(row.status, row'.status)
  BY <1>1, MoveShape
<1>2. \A h \in Hashes : [row EXCEPT !.compHash = h] \in Rows /\ [row EXCEPT !.destHash = h] \in Rows
  BY <1>0 DEF Rows
<1>3. r \in Hashes /\ mem[r].destHash \in Hashes /\ mem[r].compHash \in Hashes
  BY DEF TypeOK, Hashes, Views
<1>4. CASE Claim(r) \/ CancelPayment(r) \/ ReleaseLease(r)
  <2>1. CASE CancelPayment(r)
    BY <1>0, <1>1, <2>1 DEF CancelPayment, PAYMENT_STATES
  <2> QED BY <1>0, <1>4, <2>1 DEF Claim, ClaimLease, ReleaseLease, Rows
<1>5. CASE ForwardStep(r)
  <2>1. CASE CheckLiquidity(r) \/ FailRecall(r) \/ MarkReserved(r) \/ MarkSubmitted(r) \/ MarkConfirmed(r)
             \/ MarkConverted(r) \/ MarkPayoutPending(r) \/ MarkSettled(r)
    BY <1>0, <1>1, <2>1 DEF CheckLiquidity, FailRecall, MarkReserved, MarkSubmitted, MarkConfirmed,
       MarkConverted, MarkPayoutPending, MarkSettled, Step, OnReceipt, PAYMENT_STATES
  <2>2. CASE PersistPayout(r)
    BY <1>0, <2>2 DEF PersistPayout, Update, Rows
  <2> QED BY <1>5, <2>1, <2>2 DEF ForwardStep, Reserve, Initiate, Settle, Payout, AwaitPayout,
       Credit, Consume, Call
<1>6. CASE UndoStep(r)
  <2>1. CASE CompensateSender(r) \/ MarkFailed(r) \/ MarkRefunded(r) \/ Fail(r)
    BY <1>0, <1>1, <2>1 DEF CompensateSender, MarkFailed, MarkRefunded, Fail, Decide, Step, OnReceipt,
       PAYMENT_STATES
  <2>2. CASE ForwardSettle(r)
    BY <1>0, <1>1, <1>2, <1>3, <2>2 DEF ForwardSettle, Step, PAYMENT_STATES
  <2> QED BY <1>6, <2>1, <2>2 DEF UndoStep, Catch, ResolvePayout, ReleaseReservation, ReadEscrow,
       Refund, ForwardCredit, ForwardConsume, Decide, Call
<1>7. CASE CompensationStep(r)
  <2>1. CASE MarkCompensated(r) \/ ConfirmCompensation(r)
    BY <1>1, <1>2, <1>3, <2>1 DEF MarkCompensated, ConfirmCompensation, OnReceipt, Step, PAYMENT_STATES
  <2>2. CASE PersistCompensation(r) \/ CatchCompensation(r)
    BY <1>0, <2>2 DEF PersistCompensation, CatchCompensation, Update, Rows
  <2> QED BY <1>7, <2>1, <2>2 DEF CompensationStep, PriorCompensation, SendCompensation, Decide
<1>8. CASE OperatorStep(r)
  BY <1>0, <1>1, <1>8 DEF OperatorStep, Repair, Reconcile, AwaitCompensation, Decide, Step, PAYMENT_STATES
<1> QED BY <1>4, <1>5, <1>6, <1>7, <1>8 DEF Advance

(* A request moves the amount itself only where a credit needs no          *)
(* transfer; the rest is up to the chains (lib/executor.ts:511-525).       *)
LEMMA OnlyCreditMoves ==
  ASSUME TypeOK, NEW r \in Requests, Advance(r)
  PROVE  /\ escrow' = escrow /\ bridged' = bridged
         /\ credit' = credit \/ (credit' = TRUE /\ row' = row /\ UNCHANGED chain)
<1> USE DEF chain
<1>1. CASE Claim(r) \/ CancelPayment(r) \/ ReleaseLease(r)
  BY <1>1 DEF Claim, ClaimLease, CancelPayment, ReleaseLease
<1>2. CASE ForwardStep(r)
  BY <1>2 DEF ForwardStep, CheckLiquidity, FailRecall, Reserve, MarkReserved, Initiate,
     MarkSubmitted, MarkConfirmed, Settle, MarkConverted, MarkPayoutPending, Payout, PersistPayout,
     AwaitPayout, Credit, Consume, MarkSettled, Step, OnReceipt, Call, Write
<1>3. CASE UndoStep(r)
  BY <1>3 DEF UndoStep, Catch, ResolvePayout, ReleaseReservation, ReadEscrow,
     CompensateSender, Refund, MarkFailed, MarkRefunded, Fail, ForwardCredit, ForwardConsume,
     ForwardSettle, Decide, Step, OnReceipt, Call, Write
<1>4. CASE CompensationStep(r)
  BY <1>4 DEF CompensationStep, PriorCompensation, SendCompensation, PersistCompensation,
     MarkCompensated, CatchCompensation, ConfirmCompensation, Decide, Step, OnReceipt
<1>5. CASE OperatorStep(r)
  BY <1>5 DEF OperatorStep, Repair, Reconcile, AwaitCompensation, Decide, Step
<1> QED BY <1>1, <1>2, <1>3, <1>4, <1>5 DEF Advance

(* A request's step keeps the promise (lib/executor.ts, whole).            *)
LEMMA AdvanceKeepsPromise ==
  ASSUME TypeOK, TypeOK', PromiseFacts, PromiseFacts', MoneyInv, CompInv,
         NEW r \in Requests, Advance(r)
  PROVE  PromiseStep
<1>1. \A q \in Requests : payoutTx'[q] = "success" <=> payoutTx[q] = "success"
  <2>1. Payout(r) => payoutTx[r] = "none"
    BY DEF Payout, MoneyInv, Knows, At, BeforePayout, Sent
  <2> QED BY <2>1, WhoSends DEF TypeOK
<1>2. \A q \in Requests : compTx'[q] = "success" <=> compTx[q] = "success"
  <2>1. SendCompensation(r) => compTx[r] # "success"
    BY DEF SendCompensation, CompInv, KnowsComp, At, Live
  <2> QED BY <2>1, WhoSends DEF TypeOK
<1>3. escrow' = escrow /\ bridged' = bridged
  BY OnlyCreditMoves
<1>4. PaidBack' = PaidBack
  BY <1>2 DEF PaidBack
<1>5. CASE credit' = credit
  <2>1. Arrived' = Arrived
    BY <1>1, <1>3, <1>5 DEF Arrived
  <2>2. Returned' = Returned
    BY <1>2, <1>3 DEF Returned
  <2>3. row.status \in PAYMENT_STATES
    BY DEF TypeOK, Rows
  <2> QED BY <1>3, <2>1, <2>2, <2>3, StatusMoves, StatusKeepsPromise
<1>6. CASE credit' = TRUE /\ row' = row /\ UNCHANGED chain
  <2>1. Arrived => Arrived'
    BY <1>1, <1>3, <1>6 DEF Arrived
  <2> QED BY <1>3, <1>4, <1>6, <2>1, TreasuryKeepsPromise
<1> QED BY <1>5, <1>6, OnlyCreditMoves

(* So does a block of either chain (contracts/PaymentSettlement.sol:       *)
(* 102-173, contracts/MockERC20.sol).                                      *)
LEMMA MineKeepsPromise ==
  ASSUME TypeOK, TypeOK', PromiseFacts, PromiseFacts', RowIsTrue, Mine
  PROVE  PromiseStep
<1>1. UNCHANGED <<row, credit, bridged>>
  BY DEF Mine, MineInitiate, MineSettle, MineRefund, MineCall, MinePayout, MineCompensation
<1>2. row.status \in PAYMENT_STATES /\ row'.status = row.status
  BY <1>1 DEF TypeOK, Rows
<1>3. CASE MineInitiate \/ MineSettle \/ MineRefund
  <2>1. UNCHANGED <<payoutTx, compTx>>
    BY <1>3 DEF MineInitiate, MineSettle, MineRefund, MineCall
  <2>2. Arrived' = Arrived /\ Delivered' = Delivered /\ PaidBack' = PaidBack
    BY <1>1, <2>1 DEF Arrived, Delivered, PaidBack
  <2>3. CASE escrow' = escrow
    <3>1. Returned' = Returned
      BY <2>1, <2>3 DEF Returned
    <3> QED BY <1>2, <2>2, <2>3, <3>1, StatusKeepsPromise
  <2>4. CASE escrow' # escrow
    <3>1. \/ escrow = "NONE" /\ escrow' = "INITIATED" /\ escrowTx["initiatePayment"] = "pending"
          \/ escrow = "INITIATED" /\ escrow' \in {"SETTLED", "REFUNDED"}
      BY <1>3, <2>4 DEF MineInitiate, MineSettle, MineRefund, MineCall, InitiatePayment, SettlePayment,
                        FailAndRefund
    <3>2. row.status # "CANCELLED"
      BY <3>1 DEF RowIsTrue, TerminalMatchesMoney
    <3> QED BY <1>2, <2>2, <3>1, <3>2, EscrowKeepsPromise
  <2> QED BY <2>3, <2>4
<1>4. ASSUME NEW r \in Requests, MinePayout(r) PROVE PromiseStep
  <2>1. escrow' = escrow /\ compTx' = compTx /\ \A q \in Requests : payoutTx[q] = "success" => payoutTx'[q] = "success"
    BY <1>4 DEF MinePayout, TypeOK
  <2>2. (Arrived => Arrived') /\ PaidBack' = PaidBack
    BY <1>1, <2>1 DEF Arrived, PaidBack
  <2> QED BY <1>2, <2>1, <2>2, TreasuryKeepsPromise
<1>5. ASSUME NEW r \in Requests, MineCompensation(r) PROVE PromiseStep
  <2>1. escrow' = escrow /\ payoutTx' = payoutTx /\ \A q \in Requests : compTx[q] = "success" => compTx'[q] = "success"
    BY <1>5 DEF MineCompensation, TypeOK
  <2>2. Arrived' = Arrived /\ PaidBack \subseteq PaidBack'
    BY <1>1, <2>1 DEF Arrived, PaidBack
  <2> QED BY <1>2, <2>1, <2>2, TreasuryKeepsPromise
<1> QED BY <1>3, <1>4, <1>5 DEF Mine

(* Every step of the executor is a hop of the amount, the report of its    *)
(* end, or neither.                                                        *)
LEMMA NextKeepsPromise ==
  ASSUME Inv, TypeOK', OutcomeInv, MoneyInv, CompInv, PromiseFacts, PromiseFacts',
         "crash" \notin Faults, [Next]_vars
  PROVE  [Promise!Next]_<<MoneyIs, ReportIs>>
<1>0. TypeOK /\ RowIsTrue
  BY DEF Inv, OutcomeInv
<1>1. UNCHANGED <<row, credit, chain, bridged>> => UNCHANGED <<MoneyIs, ReportIs>>
  BY DEF chain, MoneyIs, ReportIs, Arrived, Delivered, Returned, PaidBack
<1>2. ASSUME NEW r \in Requests, ArriveAny(r) PROVE UNCHANGED <<row, credit, chain, bridged>>
  BY <1>2 DEF ArriveAny, ExecuteStart, RepairStart, ReconcileStart, CancelStart, Arrive
<1>3. ASSUME NEW r \in Requests, Advance(r) PROVE PromiseStep
  BY <1>0, <1>3, AdvanceKeepsPromise
<1>4. PromiseStep
  <2>1. UNCHANGED vars => PromiseStep
    <3>1. UNCHANGED vars => UNCHANGED <<row, credit, chain, bridged>>
      BY DEF vars, chain
    <3> QED BY <3>1, <1>1 DEF PromiseStep
  <2>2. \A r \in Requests : ArriveAny(r) => PromiseStep
    BY <1>1, <1>2 DEF PromiseStep
  <2>3. \A r \in Requests : Advance(r) => PromiseStep
    BY <1>3
  <2>4. Mine => PromiseStep
    BY <1>0, MineKeepsPromise
  <2>5. ~Crash
    BY DEF Crash
  <2> QED BY <2>1, <2>2, <2>3, <2>4, <2>5 DEF Next, Rest
<1> QED BY <1>4 DEF PromiseStep

(* The executor implements PaymentPromise: the amount is in one place at a *)
(* time and moves one hop, it ends with the recipient or with the sender   *)
(* but never with both and never twice, and the status shown to the        *)
(* parties ends only where the amount is (lib/executor.ts, whole), where   *)
(* no database call, process or broadcast fails and repairs do not overlap.*)
THEOREM KeepsThePromise ==
  ASSUME "db" \notin Faults, "crash" \notin Faults, "broadcast" \notin Faults,
         "repair" \notin Overlapping
  PROVE  Spec => KeepsPromise
<1>1. Init => Promise!Init
  <2> SUFFICES ASSUME Init PROVE Promise!Init
    OBVIOUS
  <2>1. row.status = "APPROVED" /\ escrow = "NONE" /\ ~Arrived /\ ~Delivered /\ ~Returned /\ PaidBack = {}
    BY DEF Init, Arrived, Delivered, Returned, PaidBack
  <2>2. MoneyIs = "sender"
    BY <2>1 DEF MoneyIs
  <2>3. ReportIs = "open"
    BY <2>1, WhatIsReported DEF Reported
  <2> QED BY <2>2, <2>3 DEF Promise!Init
<1>2. OutcomeInv /\ AttemptInv /\ MoneyInv /\ NeverPaidBothWays /\ CompensatedAtMostOnce => PromiseFacts
  BY PromiseFactsHold DEF OutcomeInv, AttemptInv, MoneyInv
<1>3. Inv => TypeOK
  BY DEF Inv
<1>4. Inv /\ TypeOK' /\ OutcomeInv /\ MoneyInv /\ CompInv /\ PromiseFacts /\ PromiseFacts' /\ [Next]_vars
        => [Promise!Next]_<<MoneyIs, ReportIs>>
  BY NextKeepsPromise
<1> QED BY <1>1, <1>2, <1>3, <1>4, InvHolds, OutcomeIsKnown, AttemptKnown, MoneyIsKnown, NeverBothPaid,
           CompensationsKnown, PaidBackOnce, PTL DEF Spec, KeepsPromise, Promise!Spec

=============================================================================
