------------------------------- MODULE Treasury -------------------------------
(***************************************************************************)
(* One asset of one network: the treasury's wallet, the tokenized money-   *)
(* market fund it parks idle balance in, and the reservations payments     *)
(* hold on it (lib/treasury.ts, lib/routing.ts, TokenizedMMF.sol and the   *)
(* funding steps of lib/executor.ts).                                      *)
(*                                                                         *)
(* A request parks, recalls a position, pays or accrues a day of yield; or *)
(* it is the source leg of a payment, whose settlement releases the escrow *)
(* to this wallet, and whose compensation, should the destination leg      *)
(* fail, goes back to the sender from it.  Each action runs from one await *)
(* of the code to the next; two reads with nothing between them that could *)
(* tell them apart are one step.                                           *)
(***************************************************************************)
EXTENDS Integers, Sequences, SequencesExt, FiniteSets

CONSTANTS
  Requests,      \* requests that may arrive
  Amounts,       \* amounts a request may ask for
  Opening,       \* the treasury's opening balance
  Buffer,        \* what the fund holds beyond its shares at the start
  Scale,         \* INDEX_SCALE: the index at par
  Rate,          \* the annual rate, in basis points
  Year,          \* BPS_SCALE * DAYS_PER_YEAR
  MaxIndex,      \* accrual stops here (bound)
  Environments   \* what a behaviour may meet: see env

Kinds == {"park", "recall", "pay", "accrue", "settle", "compensate"}
ASSUME TreasuryAssumption ==
  /\ IsFiniteSet(Requests)
  /\ Amounts \subseteq Nat \ {0}
  /\ {Opening, Buffer, Rate} \subseteq Nat
  /\ {Scale, Year, MaxIndex} \subseteq Nat \ {0}
  /\ Environments \subseteq
       [faults : SUBSET {"db", "crash", "lost"}, overlapping : SUBSET Kinds, requests : Nat]

VARIABLES
  balance,    \* the treasury's tokens
  fund,       \* TokenizedMMF: currentIndex, the treasury's shares, tokens held
  positions,  \* the TreasuryPosition rows, oldest first
  reserved,   \* the amount of each payment's RESERVED row, 0 without one
  paid,       \* payments whose payout left the treasury
  repaid,     \* what compensations sent back to senders
  mempool,    \* transactions nobody waits for any more
  pc,         \* where each request stands
  mem,        \* what it remembers
  env         \* the faults that may happen, and the kinds of request that may
              \* arrive while another one runs; "lost" is a node that falls
              \* silent: a transaction lands after its caller gave up on it, or
              \* what it did cannot be read; and how many requests come (bound)

vars == <<balance, fund, positions, reserved, paid, repaid, mempool, pc, mem, env>>
books == <<positions, reserved, env>>
chain == <<balance, fund, paid, repaid, mempool>>

Running ==
  {"parkBalance", "park", "allowance", "sharesBefore", "subscribe", "sharesAfter", "record",
   "recall", "redeemBalance", "redeem", "redeemed", "flip",
   "measureBalance", "measure", "parked", "recallBalance", "recallFree", "recallParked",
   "nextRecall", "checkBalance", "check", "reserve", "payout", "consume", "release", "accrue"}

Idle == \A r \in Requests : pc[r] \notin Running
DbFault == "db" \in env.faults
Silence == "lost" \in env.faults
At(r, l) == pc[r] = l
Go(r, l) == pc' = [pc EXCEPT ![r] = l]
Blank == [amount |-> 0, seen |-> 0, pos |-> 0, short |-> 0, freed |-> 0, todo |-> {}, entry |-> 0]

PositionRows ==
  [shares : Int, amountIn : Nat, entry : Nat, status : {"ACTIVE", "RECALLED"}]

TypeOK ==
  /\ balance \in Nat
  /\ fund \in [index : Nat, shares : Nat, held : Nat]
  /\ positions \in Seq(PositionRows)
  /\ reserved \in [Requests -> Nat]
  /\ paid \subseteq Requests
  /\ repaid \in Nat
  /\ env \in Environments
  /\ mempool \subseteq [call : {"subscribe", "redeem", "accrue", "transfer"}, arg : Nat, by : Requests]
  /\ pc \in [Requests -> Running \union {"idle", "settled", "done", "dead"}]
  /\ \A r \in Requests : DOMAIN mem[r] = DOMAIN Blank /\ mem[r].todo \subseteq DOMAIN positions

Init ==
  /\ balance = Opening
  /\ fund = [index |-> Scale, shares |-> 0, held |-> Buffer]
  /\ positions = <<>>
  /\ reserved = [r \in Requests |-> 0]
  /\ paid = {}
  /\ repaid = 0
  /\ mempool = {}
  /\ pc = [r \in Requests |-> "idle"]
  /\ mem = [r \in Requests |-> Blank]
  /\ env \in Environments

-----------------------------------------------------------------------------
(* The arithmetic, floor division throughout.                              *)

DailyIndex(index) == index + (index * Rate) \div Year
ValueOfShares(shares, index) == (shares * index) \div Scale
SharesFor(amount, index) == (amount * Scale) \div index

Reserved == SumFunction(reserved)

(* freeTreasuryBalance, from a balance read earlier.                       *)
Free(bal) == IF bal > Reserved THEN bal - Reserved ELSE 0

Active == {i \in DOMAIN positions : positions[i].status = "ACTIVE"}

Values == [i \in DOMAIN positions |-> ValueOfShares(positions[i].shares, fund.index)]

(* Slip: recalled positions are valued too.                                *)
ParkedBalanceOfAll == SumFunctionOnSet(Values, DOMAIN positions)

(* parkedBalance: what the active rows are worth at the live index.        *)
ParkedBalance == SumFunctionOnSet(Values, Active)

-----------------------------------------------------------------------------
(* TokenizedMMF, and the token's transfer out of the wallet.  A call that  *)
(* its requires refuse reverts whole.                                      *)

(* Slip: a redemption is not checked against what the fund holds.          *)
AcceptsUnfunded(call, arg) ==
  CASE call = "subscribe" -> SharesFor(arg, fund.index) > 0 /\ balance >= arg
    [] call = "redeem" -> arg > 0 /\ fund.shares >= arg
    [] call = "accrue" -> arg >= fund.index
    [] call = "transfer" -> balance >= arg

Accepts(call, arg) ==
  CASE call = "subscribe" -> SharesFor(arg, fund.index) > 0 /\ balance >= arg
    [] call = "redeem" -> arg > 0 /\ fund.shares >= arg /\ fund.held >= ValueOfShares(arg, fund.index)
    [] call = "accrue" -> arg >= fund.index
    [] call = "transfer" -> balance >= arg

Apply(call, arg) ==
  LET minted == SharesFor(arg, fund.index)
      value == ValueOfShares(arg, fund.index)
  IN  \/ /\ call = "subscribe"
         /\ balance' = balance - arg
         /\ fund' = [fund EXCEPT !.shares = @ + minted, !.held = @ + arg]
         /\ UNCHANGED repaid
      \/ /\ call = "redeem"
         /\ balance' = balance + value
         /\ fund' = [fund EXCEPT !.shares = @ - arg, !.held = @ - value]
         /\ UNCHANGED repaid
      \/ /\ call = "accrue"
         /\ fund' = [fund EXCEPT !.index = arg]
         /\ UNCHANGED <<balance, repaid>>
      \/ /\ call = "transfer"
         /\ balance' = balance - arg
         /\ repaid' = repaid + arg
         /\ UNCHANGED fund

(* mmfOperatorWrite or treasuryTokenTransfer: mined and confirmed; refused *)
(* or unreachable; or, with "lost", broadcast and given up on, which       *)
(* nothing below zero can be.                                              *)
Send(r, call, arg, ok, err) ==
  \/ Accepts(call, arg) /\ Apply(call, arg) /\ Go(r, ok) /\ UNCHANGED mempool
  \/ /\ UNCHANGED <<balance, fund, repaid>>
     /\ Go(r, err)
     /\ \/ UNCHANGED mempool
        \/ /\ Silence /\ arg >= 0
           /\ mempool' = mempool \union {[call |-> call, arg |-> arg, by |-> r]}

Land(tx) ==
  /\ mempool' = mempool \ {tx}
  /\ \/ Accepts(tx.call, tx.arg) /\ Apply(tx.call, tx.arg)
     \/ ~Accepts(tx.call, tx.arg) /\ UNCHANGED <<balance, fund, repaid>>
  /\ UNCHANGED <<books, paid, pc, mem>>

-----------------------------------------------------------------------------
(* What the requests share.                                                *)

Remember(r, m) == mem' = [mem EXCEPT ![r] = m]

MayCome(kind) == kind \in env.overlapping \/ Idle
Comes(r) == At(r, "idle") /\ Cardinality({s \in Requests : ~At(s, "idle")}) < env.requests

Arrive(r, kind, l, m) ==
  /\ Comes(r)
  /\ MayCome(kind)
  /\ Remember(r, m)
  /\ Go(r, l)
  /\ UNCHANGED <<books, chain>>

(* A read of the treasury's balance, kept across the next await.           *)
ReadBalance(r, l, next) ==
  /\ At(r, l)
  /\ Remember(r, [mem[r] EXCEPT !.seen = balance])
  /\ Go(r, next)
  /\ UNCHANGED <<books, chain>>

(* A step that only decides.                                               *)
Decide(r, l, m, next) ==
  /\ At(r, l)
  /\ Remember(r, m)
  /\ Go(r, next)
  /\ UNCHANGED <<books, chain>>

-----------------------------------------------------------------------------
(* park.  The route refuses before anything is read, and so do the         *)
(* validations of the other requests.                                      *)

ParkStart(r) == \E a \in Amounts : Arrive(r, "park", "parkBalance", [Blank EXCEPT !.amount = a])

(* assertEligible and fundAssetFor may refuse; then the balance is read.   *)
ParkBalance(r) ==
  \/ Decide(r, "parkBalance", mem[r], "done")
  \/ ReadBalance(r, "parkBalance", "park")

ParkCheck(r) ==
  Decide(r, "park", mem[r], IF mem[r].amount > Free(mem[r].seen) THEN "done" ELSE "allowance")

(* The fund may pull what it is given; approving, where it may not yet,    *)
(* can fail.                                                               *)
EnsureTreasuryAllowance(r) ==
  \/ Decide(r, "allowance", mem[r], "sharesBefore")
  \/ Decide(r, "allowance", mem[r], "done")

(* The live index and the shares held before, or no answer.                *)
SharesBefore(r) ==
  \/ Decide(r, "sharesBefore", [mem[r] EXCEPT !.seen = fund.shares, !.entry = fund.index], "subscribe")
  \/ Decide(r, "sharesBefore", mem[r], "done")

Subscribe(r) ==
  /\ At(r, "subscribe")
  /\ Send(r, "subscribe", mem[r].amount, "sharesAfter", "done")
  /\ UNCHANGED <<books, paid, mem>>

(* Slip: every share the treasury holds is put on the new row.             *)
SharesAfterWhole(r) == Decide(r, "sharesAfter", [mem[r] EXCEPT !.seen = fund.shares], "record")

(* Slip: the shares held before are put on the new row.                    *)
SharesAfterStale(r) == Decide(r, "sharesAfter", mem[r], "record")

(* A read that fails leaves the subscription without a row.                *)
SharesAfter(r) ==
  \/ Decide(r, "sharesAfter", [mem[r] EXCEPT !.seen = fund.shares - @], "record")
  \/ Silence /\ Decide(r, "sharesAfter", mem[r], "done")

RecordPosition(r) ==
  /\ At(r, "record")
  /\ \/ positions' = Append(positions, [shares |-> mem[r].seen, amountIn |-> mem[r].amount,
                                        entry |-> mem[r].entry, status |-> "ACTIVE"])
     \/ DbFault /\ UNCHANGED positions
  /\ Go(r, "done")
  /\ UNCHANGED <<reserved, env, chain, mem>>

-----------------------------------------------------------------------------
(* recall: by an operator (short = 0) or by a payment that is short.       *)

Paying(r) == mem[r].short > 0

RecallStart(r) ==
  \E i \in DOMAIN positions : Arrive(r, "recall", "recall", [Blank EXCEPT !.pos = i])

(* A position that is recalled by now is refused, which fails a payment    *)
(* too.                                                                    *)
Recall(r) == Decide(r, "recall", mem[r], IF mem[r].pos \in Active THEN "redeemBalance" ELSE "done")

RedeemBalance(r) == ReadBalance(r, "redeemBalance", "redeem")

(* A redeem that throws fails the payment, with nothing reserved yet.      *)
Redeem(r) ==
  /\ At(r, "redeem")
  /\ Send(r, "redeem", positions[mem[r].pos].shares, "redeemed", "done")
  /\ UNCHANGED <<books, paid, mem>>

(* A read that fails leaves the row ACTIVE.                                *)
Redeemed(r) ==
  \/ Decide(r, "redeemed", [mem[r] EXCEPT !.freed = @ + balance - mem[r].seen], "flip")
  \/ Silence /\ Decide(r, "redeemed", mem[r], "done")

(* The row is written by id, whatever its status is by now.                *)
FlipPosition(r) ==
  /\ At(r, "flip")
  /\ \/ /\ positions' = [positions EXCEPT ![mem[r].pos].status = "RECALLED"]
        /\ Go(r, IF Paying(r) THEN "nextRecall" ELSE "done")
     \/ DbFault /\ UNCHANGED positions /\ Go(r, "done")
  /\ UNCHANGED <<reserved, env, chain, mem>>

-----------------------------------------------------------------------------
(* A payment: auto-recall, the liquidity check, the reservation, and what  *)
(* becomes of it.                                                          *)

PayStart(r) == \E a \in Amounts : Arrive(r, "pay", "measureBalance", [Blank EXCEPT !.amount = a])

MeasureBalance(r) == ReadBalance(r, "measureBalance", "measure")

Measure(r) ==
  Decide(r, "measure", mem[r], IF Free(mem[r].seen) < mem[r].amount THEN "parked" ELSE "checkBalance")

AnythingParked(r) ==
  Decide(r, "parked", mem[r], IF ParkedBalance > 0 THEN "recallBalance" ELSE "checkBalance")

(* recallForPayment: measures again, then values what is parked.           *)
RecallBalance(r) == ReadBalance(r, "recallBalance", "recallFree")

RecallFree(r) ==
  LET short == mem[r].amount - Free(mem[r].seen)
  IN  IF short <= 0 THEN Decide(r, "recallFree", mem[r], "checkBalance")
      ELSE Decide(r, "recallFree", [mem[r] EXCEPT !.short = short], "recallParked")

(* Too little parked is left for the check below to report.                *)
RecallParked(r) ==
  IF ParkedBalance < mem[r].short THEN Decide(r, "recallParked", mem[r], "checkBalance")
  ELSE Decide(r, "recallParked", [mem[r] EXCEPT !.todo = Active], "nextRecall")

(* Oldest first, until the shortfall is covered.                           *)
NextRecall(r) ==
  LET m == mem[r]
      oldest == Min(m.todo)
  IN  IF m.freed >= m.short \/ m.todo = {} THEN Decide(r, "nextRecall", m, "checkBalance")
      ELSE Decide(r, "nextRecall", [m EXCEPT !.pos = oldest, !.todo = @ \ {oldest}], "recall")

CheckBalance(r) == ReadBalance(r, "checkBalance", "check")

(* Slip: the check compares with the balance, reservations and all.        *)
CheckGross(r) ==
  Decide(r, "check", mem[r], IF mem[r].seen < mem[r].amount THEN "done" ELSE "reserve")

Check(r) ==
  Decide(r, "check", mem[r], IF Free(mem[r].seen) < mem[r].amount THEN "done" ELSE "reserve")

Reserve(r) ==
  /\ At(r, "reserve")
  /\ \/ reserved' = [reserved EXCEPT ![r] = mem[r].amount] /\ Go(r, "payout")
     \/ DbFault /\ UNCHANGED reserved /\ Go(r, "done")
  /\ UNCHANGED <<positions, env, chain, mem>>

(* The transfer to the recipient, if the route has one; or the payment     *)
(* fails before or at it.                                                  *)
Payout(r) ==
  /\ At(r, "payout")
  /\ \/ /\ balance >= mem[r].amount
        /\ balance' = balance - mem[r].amount
        /\ paid' = paid \union {r}
        /\ Go(r, "consume")
     \/ UNCHANGED <<balance, paid>> /\ (Go(r, "consume") \/ Go(r, "release"))
  /\ UNCHANGED <<books, fund, repaid, mempool, mem>>

(* CONSUMED and RELEASED both end the promise.                             *)
EndReservation(r) ==
  /\ At(r, "consume") \/ At(r, "release")
  /\ \/ reserved' = [reserved EXCEPT ![r] = 0]
     \/ DbFault /\ UNCHANGED reserved
  /\ Go(r, "done")
  /\ UNCHANGED <<positions, env, chain, mem>>

-----------------------------------------------------------------------------
(* The source leg of a payment: its settlement, and its compensation if    *)
(* the destination leg fails.  Both are the executor's, under the lease of *)
(* that payment, and neither knows of the reservations of others.          *)

(* settlePayment: the escrow comes to the treasury.                        *)
Settle(r) ==
  /\ Comes(r) /\ MayCome("settle")
  /\ \E a \in Amounts : balance' = balance + a /\ Remember(r, [Blank EXCEPT !.amount = a])
  /\ Go(r, "settled")
  /\ UNCHANGED <<books, fund, paid, repaid, mempool>>

(* runCompensationTransfer: straight from the wallet, reserved or not; one *)
(* that fails may be sent again by a repair, and so may one whose hash the *)
(* database did not take, or whose answer never came.                      *)
CompensateSender(r) ==
  /\ At(r, "settled") /\ MayCome("compensate")
  /\ \/ Send(r, "transfer", mem[r].amount, "done", "settled")
     \/ DbFault /\ Send(r, "transfer", mem[r].amount, "settled", "settled")
  /\ UNCHANGED <<books, paid, mem>>

-----------------------------------------------------------------------------
(* accrueDaily                                                             *)

AccrueStart(r) ==
  /\ DailyIndex(fund.index) <= MaxIndex
  /\ Arrive(r, "accrue", "accrue", [Blank EXCEPT !.amount = DailyIndex(fund.index)])

Accrue(r) ==
  /\ At(r, "accrue")
  /\ Send(r, "accrue", mem[r].amount, "done", "done")
  /\ UNCHANGED <<books, paid, mem>>

Crash ==
  /\ "crash" \in env.faults
  /\ ~Idle
  /\ pc' = [r \in Requests |-> IF pc[r] \in Running THEN "dead" ELSE pc[r]]
  /\ UNCHANGED <<books, chain, mem>>

Rest == Idle /\ UNCHANGED vars

Step(r) ==
  \/ ParkStart(r) \/ ParkBalance(r) \/ ParkCheck(r) \/ EnsureTreasuryAllowance(r) \/ SharesBefore(r) \/ Subscribe(r)
  \/ SharesAfter(r) \/ RecordPosition(r)
  \/ RecallStart(r) \/ Recall(r) \/ RedeemBalance(r) \/ Redeem(r) \/ Redeemed(r) \/ FlipPosition(r)
  \/ PayStart(r) \/ MeasureBalance(r) \/ Measure(r) \/ AnythingParked(r) \/ RecallBalance(r)
  \/ RecallFree(r) \/ RecallParked(r) \/ NextRecall(r) \/ CheckBalance(r) \/ Check(r)
  \/ Reserve(r) \/ Payout(r) \/ EndReservation(r)
  \/ AccrueStart(r) \/ Accrue(r) \/ Settle(r) \/ CompensateSender(r)

Next == (\E r \in Requests : Step(r)) \/ (\E tx \in mempool : Land(tx)) \/ Crash \/ Rest

Spec == Init /\ [][Next]_vars

-----------------------------------------------------------------------------
(* Correctness.                                                            *)

Shares == [i \in DOMAIN positions |-> positions[i].shares]
SharesOfRows == SumFunctionOnSet(Shares, Active)

(* What is promised and not yet paid out is in the wallet: a payment and a *)
(* park, or two payments, were never told the same liquidity is theirs,    *)
(* and no compensation took what a payment was promised.                   *)
Promised == [r \in Requests |-> IF r \in paid THEN 0 ELSE reserved[r]]
ReservedCovered == SumFunction(Promised) <= balance

(* One park, recall or payment at a time, and nothing fails half-way;      *)
(* accruals and the source legs of other payments come in between.         *)
Quiet == env.overlapping \subseteq {"accrue", "settle", "compensate"} /\ env.faults = {}

(* Between requests the rows and the fund agree: no share is redeemed      *)
(* twice or counted by two positions, and none is left that no row knows   *)
(* of and nobody would recall.                                             *)
RowsMatchFund == Quiet /\ Idle => SharesOfRows = fund.shares

(* Parking costs at most the dust of its floor division: one share more,   *)
(* and an active position would be worth its principal.                    *)
PrincipalKept ==
  Quiet => \A i \in Active :
             LET p == positions[i]
             IN  ValueOfShares(p.shares + 1, fund.index) >= p.amountIn

(* What was found parked does cover the shortfall once it is recalled.     *)
(* What a redemption brought is told from the wallet before and after it,  *)
(* so a settlement in between does no harm and a compensation may.         *)
RecallCovers ==
  Quiet /\ "compensate" \notin env.overlapping =>
    \A r \in Requests : At(r, "nextRecall") /\ mem[r].todo = {} => mem[r].freed >= mem[r].short

(* As long as parks and payments do not overlap each other, and no         *)
(* transaction lands late, the wallet and the reservations are a pool      *)
(* nobody overdraws but for what compensations took of it, whatever        *)
(* crashes and whichever recalls, accruals, settlements and compensations  *)
(* come in between.  A compensation meets a promise when it overlaps a     *)
(* payment, or when a fault left one behind; otherwise the pool is exact,  *)
(* and ReservedCovered holds.                                              *)
Orderly == env.overlapping \cap {"park", "pay"} = {} /\ ~Silence
Exposed == "compensate" \in env.overlapping \/ env.faults # {}
Taken == IF Exposed THEN repaid ELSE 0
Pool == INSTANCE TreasuryPool WITH Payments <- Requests, wallet <- balance, promised <- Promised, taken <- Taken
KeepsPool == Pool!Init /\ [][Orderly => [Pool!Next]_<<balance, Promised, Taken>>]_vars
=============================================================================
