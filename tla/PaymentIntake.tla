---------------------------- MODULE PaymentIntake ----------------------------
(***************************************************************************)
(* One payment from its creation to the executor's hand: the create,       *)
(* quote, execute, review and cancel routes, the compliance gate           *)
(* (lib/compliance.ts), the route quotes (lib/routing.ts) and the money    *)
(* arithmetic under them (lib/money.ts, lib/fx.ts).                        *)
(*                                                                         *)
(* Requests overlap freely; each action runs from one await of the code to *)
(* the next.  A refusal that reads nothing but the request is left out.    *)
(* What the executor does with an approved payment is PaymentExecutor's:   *)
(* here it takes the payment over in one step.                             *)
(***************************************************************************)
EXTENDS PaymentState, Integers, Sequences, SequencesExt

CONSTANTS
  Requests,     \* requests that may arrive, one HTTP request each
  None,         \* a null column
  Posted,       \* amounts a create may carry, in Fine parts of a minor unit
  Fine,         \* how much finer than a minor unit a request can write
  MaxMinor,     \* MAX_INTEGER_DIGITS, as the largest amount in minor units
  Bps,          \* BPS_SCALE
  RateScale,    \* RATE_SCALE
  Mid,          \* the corridor's mid rate, RateScale at par
  SrcScale,     \* minor units of the source currency's unit
  DstScale,     \* minor units of the destination currency's unit
  Spread, PlatformFee, BridgeFee,  \* in Bps
  Tiers,        \* SLIPPAGE_TIERS: <<ceiling, bps>>, lowest first
  LastTier,     \* the slippage above the last ceiling
  ReviewAbove, FailAbove,  \* the transaction risk thresholds, in minor units
  Worlds        \* what a behaviour may meet: see world

Parties == {"sender", "recipient"}
Verdicts == {"PASS", "MANUAL_REVIEW", "FAIL"}
ASSUME IntakeAssumption ==
  /\ None \notin Requests \union PAYMENT_STATES
  /\ Posted \subseteq Nat
  /\ {MaxMinor, Bps, RateScale, Mid, SrcScale, DstScale} \subseteq Nat \ {0}
  /\ Fine \in Nat \ {0, 1}
  /\ {Spread, PlatformFee, BridgeFee, LastTier} \subseteq 0 .. Bps
  /\ Tiers \in Seq(Nat \X (0 .. Bps))
  /\ ReviewAbove <= FailAbove
  /\ \A w \in Worlds :
       /\ w.start \in {"none", "created", "legacy"}
       /\ w.nameAnswers \subseteq {"match", "possible", "clear", "error"}
       /\ w.walletAnswers \subseteq {"high", "sanctioned", "elevated", "low", "error"}

VARIABLES
  row,     \* the Payment row
  checks,  \* the ComplianceCheck rows, one record per screening
  log,     \* the payment's audit events: what moved it, and who
  pc,      \* where each request stands
  mem,     \* what it remembers
  world    \* the parties' records, the networks, what may fail

vars == <<row, checks, log, pc, mem, world>>

Routes == {"instant", "batched", "bridge", "srcchain"}
NoRow == [status |-> None, amount |-> 0, quote |-> <<>>, route |-> None, promised |-> 0]
LegacyAmount == Fine + 1

(* Before the money gate a row could hold an amount no parse accepts.      *)
LegacyRow ==
  [status |-> "QUOTED", amount |-> LegacyAmount, route |-> "instant", promised |-> 1,
   quote |-> [path \in {"instant", "batched"} |-> 1]]

Running ==
  {"quote", "execute", "screen", "verdict", "handOver", "review", "cancel"}
At(r, l) == pc[r] = l
Go(r, l) == pc' = [pc EXCEPT ![r] = l]
Idle == \A r \in Requests : pc[r] \notin Running
Blank == [who |-> None, status |-> None, pick |-> None, promised |-> 0, worst |-> None]

-----------------------------------------------------------------------------
(* Money: minor units, and rates scaled by RateScale; every division is a  *)
(* floor.                                                                  *)

(* parseAmount accepts it: not finer than the currency, positive, not too  *)
(* large.                                                                  *)
Canonical(amount) == amount % Fine = 0 /\ amount \div Fine \in 1 .. MaxMinor
Minor(amount) == amount \div Fine

(* Slip: rounded up.                                                       *)
ConvertRoundedUp(minor, rate) ==
  (minor * rate * DstScale + RateScale * SrcScale - 1) \div (RateScale * SrcScale)

ApplyBps(rate, bps) == (rate * (Bps - bps)) \div Bps
Convert(minor, rate) == (minor * rate * DstScale) \div (RateScale * SrcScale)

(* The source currency is USD: usdEquivalent changes nothing.              *)
SlippageBps(minor) ==
  LET above == {i \in DOMAIN Tiers : minor <= Tiers[i][1]}
  IN  IF above = {} THEN LastTier ELSE Tiers[Min(above)][2]

Fee(minor) == (minor * PlatformFee) \div Bps

(* quoteFx, with what the bridge costs on top.                             *)
DestinationAmount(minor, extra) ==
  Convert(minor - Fee(minor), ApplyBps(Mid, Spread + SlippageBps(minor) + extra))

(* quoteRoutes: what each route promises.  The liquidity flags decide      *)
(* nothing here: execution measures again.                                 *)
QuoteRoutes(minor) ==
  IF world.cross
  THEN [route \in {"bridge", "srcchain"} |->
          DestinationAmount(minor, IF route = "bridge" THEN BridgeFee ELSE 0)]
  ELSE [route \in {"instant", "batched"} |-> DestinationAmount(minor, 0)]
Recommended == IF world.cross THEN "bridge" ELSE "instant"

-----------------------------------------------------------------------------
(* The compliance gate.                                                    *)

Kyb(party) ==
  CASE world.kyb[party] = "PASSED" -> "PASS"
    [] world.kyb[party] = "PENDING" -> "MANUAL_REVIEW"
    [] OTHER -> "FAIL"

(* A provider that cannot be reached, or answers nonsense.                 *)
FailSafe == "MANUAL_REVIEW"

(* sanctionsCheck: the name list, or OpenSanctions.                        *)
SanctionsVerdict(answer) ==
  CASE answer = "match" -> "FAIL"
    [] answer = "possible" -> "MANUAL_REVIEW"
    [] answer = "clear" -> "PASS"
    [] answer = "error" -> FailSafe

(* The risk score, or the sanctions oracle.                                *)
WalletVerdict(answer) ==
  CASE answer \in {"high", "sanctioned"} -> "FAIL"
    [] answer = "elevated" -> "MANUAL_REVIEW"
    [] answer = "low" -> "PASS"
    [] answer = "error" -> FailSafe

(* walletRiskCheck: registration and allowlisting come before any screen.  *)
WalletRisk(party) ==
  IF world.wallet[party] = "allowlisted" THEN world.walletAnswers ELSE {"elevated"}

TransactionRisk(minor) ==
  IF minor > FailAbove THEN "FAIL" ELSE IF minor > ReviewAbove THEN "MANUAL_REVIEW" ELSE "PASS"

CorridorRisk == IF world.corridor THEN "PASS" ELSE "MANUAL_REVIEW"

(* What the checks of one screening may answer, together.                  *)
Screenings ==
  {{Kyb("sender"), Kyb("recipient"), SanctionsVerdict(names),
    WalletVerdict(risk1), WalletVerdict(risk2),
    TransactionRisk(Minor(row.amount)), CorridorRisk} :
     names \in world.nameAnswers, risk1 \in WalletRisk("sender"), risk2 \in WalletRisk("recipient")}

(* Slip: a review outranks a failure.                                      *)
OverallReviewFirst(answers) ==
  IF "MANUAL_REVIEW" \in answers THEN "MANUAL_REVIEW"
  ELSE IF "FAIL" \in answers THEN "REJECTED" ELSE "APPROVED"

Overall(answers) ==
  IF "FAIL" \in answers THEN "REJECTED"
  ELSE IF "MANUAL_REVIEW" \in answers THEN "MANUAL_REVIEW" ELSE "APPROVED"

(* A payment may be about to be created, created before the behaviour      *)
(* starts, or older than the money gate.                                   *)
Init ==
  /\ world \in Worlds
  /\ row \in CASE world.start = "none" -> {NoRow}
             [] world.start = "created" ->
                  {[NoRow EXCEPT !.status = "DRAFT", !.amount = a] : a \in {p \in Posted : Canonical(p)}}
             [] world.start = "legacy" -> {LegacyRow}
  /\ checks = <<>>
  /\ log = IF row.status = None THEN <<>> ELSE <<[from |-> None, to |-> row.status, who |-> "sender"]>>
  /\ pc = [r \in Requests |-> "idle"]
  /\ mem = [r \in Requests |-> Blank]

-----------------------------------------------------------------------------
(* What the routes share.                                                  *)

DbFault == "db" \in world.faults

(* authorizePaymentWrite; the review route's requireRole.                  *)
MayDrive(who) == who \in {"OPERATOR", "sender"}
MayReview(who) == who \in {"REVIEWER", "OPERATOR"}
Callers == {"OPERATOR", "REVIEWER", "sender", "recipient"}

(* A request remembers nothing once it has answered.                       *)
Keep(r, m) == mem' = [mem EXCEPT ![r] = IF pc'[r] = "done" THEN Blank ELSE m]

(* What a handler that reads the row now remembers of it.                  *)
Memory(who, pick, promised) ==
  [who |-> who, status |-> row.status, pick |-> pick, promised |-> promised, worst |-> None]

(* The handler's first read of the row.                                    *)
Begin(r, who, l) ==
  /\ At(r, "idle")
  /\ row.status # None
  /\ mem' = [mem EXCEPT ![r] = Memory(who, None, 0)]
  /\ Go(r, l)
  /\ UNCHANGED <<row, checks, log, world>>

(* The columns a swap writes beside the status.                            *)
Selected(quote, route, promised) ==
  [status |-> row.status, amount |-> row.amount, quote |-> quote, route |-> route,
   promised |-> promised]

(* Slip: the status is written whatever it is by now.                      *)
TransitionStatusBlind(r, to, columns, ok) ==
  /\ \/ /\ CanTransition(mem[r].status, to)
        /\ row' = [columns EXCEPT !.status = to]
        /\ log' = Append(log, [from |-> mem[r].status, to |-> to, who |-> mem[r].who])
        /\ Go(r, ok) \/ (DbFault /\ Go(r, "done"))
     \/ /\ ~CanTransition(mem[r].status, to) \/ DbFault
        /\ UNCHANGED <<row, log>>
        /\ Go(r, "done")
  /\ Keep(r, [mem[r] EXCEPT !.status = to])

(* transitionStatus: legal, still in the status read, and recorded with    *)
(* the change or not at all.  A database that throws may have committed.   *)
TransitionStatus(r, to, columns, ok) ==
  /\ \/ /\ CanTransition(mem[r].status, to) /\ row.status = mem[r].status
        /\ row' = [columns EXCEPT !.status = to]
        /\ log' = Append(log, [from |-> mem[r].status, to |-> to, who |-> mem[r].who])
        /\ Go(r, ok) \/ (DbFault /\ Go(r, "done"))
     \/ /\ ~CanTransition(mem[r].status, to) \/ row.status # mem[r].status \/ DbFault
        /\ UNCHANGED <<row, log>>
        /\ Go(r, "done")
  /\ Keep(r, [mem[r] EXCEPT !.status = to])

-----------------------------------------------------------------------------
(* POST /api/payments                                                      *)

Create(r) ==
  \E amount \in Posted, who \in Callers :
    /\ At(r, "idle") /\ MayDrive(who) /\ row.status = None
    /\ Go(r, "done")
    /\ \/ /\ Canonical(amount)
          /\ row' = [NoRow EXCEPT !.status = "DRAFT", !.amount = amount]
          /\ log' = <<[from |-> None, to |-> "DRAFT", who |-> who]>>
       \/ /\ ~Canonical(amount) \/ DbFault
          /\ UNCHANGED <<row, log>>
    /\ UNCHANGED <<checks, mem, world>>

-----------------------------------------------------------------------------
(* POST .../quote                                                          *)

QuoteStart(r) == \E who \in Callers : MayDrive(who) /\ Begin(r, who, "quote")

(* An amount that no longer parses, or a chain or reservation that cannot  *)
(* be read as it must be, throws before the write.                         *)
Quote(r) ==
  LET routes == QuoteRoutes(Minor(row.amount))
  IN  /\ At(r, "quote")
      /\ \/ /\ Canonical(row.amount)
            /\ TransitionStatus(r, "QUOTED",
                 Selected(routes, Recommended, routes[Recommended]), "done")
         \/ Go(r, "done") /\ Keep(r, Blank) /\ UNCHANGED <<row, log>>
      /\ UNCHANGED <<checks, world>>

-----------------------------------------------------------------------------
(* POST .../execute                                                        *)

(* Slip: the amount on the row is not looked at.                           *)
ExecuteStartUnread(r) ==
  \E who \in Callers, pick \in Routes \union {None} :
    /\ At(r, "idle") /\ row.status # None /\ MayDrive(who)
    /\ pick # None => row.status = "QUOTED" /\ pick \in DOMAIN row.quote
    /\ Go(r, IF row.status = "QUOTED" THEN "execute"
             ELSE IF row.status = "APPROVED" THEN "handOver" ELSE "done")
    /\ Keep(r, Memory(who, pick, IF pick = None THEN 0 ELSE row.quote[pick]))
    /\ UNCHANGED <<row, checks, log, world>>

(* unusableAmount, the route picked from the quote read, and the branch on *)
(* the status.                                                             *)
ExecuteStart(r) ==
  \E who \in Callers, pick \in Routes \union {None} :
    /\ At(r, "idle") /\ row.status # None /\ MayDrive(who)
    /\ pick # None => row.status = "QUOTED" /\ pick \in DOMAIN row.quote
    /\ Go(r, IF ~Canonical(row.amount) THEN "done"
             ELSE IF row.status = "QUOTED" THEN "execute"
             ELSE IF row.status = "APPROVED" THEN "handOver" ELSE "done")
    /\ Keep(r, Memory(who, pick, IF pick = None THEN 0 ELSE row.quote[pick]))
    /\ UNCHANGED <<row, checks, log, world>>

Picked(r) ==
  IF mem[r].pick = None THEN row
  ELSE Selected(row.quote, mem[r].pick, mem[r].promised)

(* Slip: the pick is written on its own, before the swap.                  *)
EnterComplianceRawPick(r) ==
  /\ At(r, "execute")
  /\ \/ TransitionStatus(r, "COMPLIANCE_PENDING", Picked(r), "screen")
     \/ /\ row.status # mem[r].status
        /\ row' = Picked(r)
        /\ Go(r, "done")
        /\ Keep(r, Blank)
        /\ UNCHANGED log
  /\ UNCHANGED <<checks, world>>

EnterCompliance(r) ==
  /\ At(r, "execute")
  /\ TransitionStatus(r, "COMPLIANCE_PENDING", Picked(r), "screen")
  /\ UNCHANGED <<checks, world>>

(* runComplianceChecks: the answers, persisted before anything acts on     *)
(* them; an amount that does not parse throws among them.                  *)
Screen(r) ==
  /\ At(r, "screen")
  /\ \/ /\ Canonical(row.amount)
        /\ \E answers \in Screenings :
             /\ checks' = Append(checks, answers)
             /\ Go(r, "verdict") \/ (DbFault /\ Go(r, "done"))
             /\ Keep(r, [mem[r] EXCEPT !.worst = Overall(answers)])
     \/ /\ ~Canonical(row.amount) \/ DbFault
        /\ Go(r, "done")
        /\ Keep(r, Blank)
        /\ UNCHANGED checks
  /\ UNCHANGED <<row, log, world>>

Verdict(r) ==
  /\ At(r, "verdict")
  /\ TransitionStatus(r, mem[r].worst, row, IF mem[r].worst = "APPROVED" THEN "handOver" ELSE "done")
  /\ UNCHANGED <<checks, world>>

(* executePayment takes an APPROVED payment over: it reserves or fails, or *)
(* throws before either.                                                   *)
HandOver(r) ==
  /\ At(r, "handOver")
  /\ \/ /\ row.status = "APPROVED"
        /\ \E to \in {"LIQUIDITY_RESERVED", "FAILED"} :
             /\ row' = [row EXCEPT !.status = to]
             /\ log' = Append(log, [from |-> "APPROVED", to |-> to, who |-> "system"])
     \/ UNCHANGED <<row, log>>
  /\ Go(r, "done")
  /\ Keep(r, Blank)
  /\ UNCHANGED <<checks, world>>

-----------------------------------------------------------------------------
(* POST .../review and .../cancel: a status check that only advises, and   *)
(* the swap that decides.                                                  *)

ReviewStart(r) ==
  \E who \in Callers : MayReview(who) /\ row.status = "MANUAL_REVIEW" /\ Begin(r, who, "review")

Review(r) ==
  /\ At(r, "review")
  /\ \E decision \in {"APPROVED", "REJECTED"} : TransitionStatus(r, decision, row, "done")
  /\ UNCHANGED <<checks, world>>

CancelStart(r) ==
  \E who \in Callers : MayDrive(who) /\ row.status \in CANCELLABLE_STATES /\ Begin(r, who, "cancel")

Cancel(r) ==
  /\ At(r, "cancel")
  /\ TransitionStatus(r, "CANCELLED", row, "done")
  /\ UNCHANGED <<checks, world>>

Crash ==
  /\ "crash" \in world.faults
  /\ ~Idle
  /\ pc' = [r \in Requests |-> IF pc[r] \in Running THEN "done" ELSE pc[r]]
  /\ mem' = [r \in Requests |-> Blank]
  /\ UNCHANGED <<row, checks, log, world>>

Rest == Idle /\ UNCHANGED vars

Step(r) ==
  \/ Create(r) \/ QuoteStart(r) \/ Quote(r)
  \/ ExecuteStart(r) \/ EnterCompliance(r) \/ Screen(r) \/ Verdict(r) \/ HandOver(r)
  \/ ReviewStart(r) \/ Review(r) \/ CancelStart(r) \/ Cancel(r)

Next == (\E r \in Requests : Step(r)) \/ Crash \/ Rest

Spec == Init /\ [][Next]_vars

-----------------------------------------------------------------------------
(* Correctness.                                                            *)

(* No payment is executed unless it was screened, exactly once, nothing    *)
(* failed, and whatever asked for a person got a reviewer's approval: no   *)
(* race of executes, reviews and cancels walks round the gate.             *)
Decided(to) == \E i \in DOMAIN log : log[i].to = to
ApprovedScreened ==
  Decided("APPROVED") =>
    /\ Len(checks) = 1
    /\ "FAIL" \notin checks[1]
    /\ "MANUAL_REVIEW" \in checks[1] =>
         \E i \in DOMAIN log :
           log[i].from = "MANUAL_REVIEW" /\ log[i].to = "APPROVED" /\ MayReview(log[i].who)

(* Once a payment has left QUOTED its route and what it promises the       *)
(* recipient stay what the swap that left it wrote.                        *)
SelectionStable ==
  [][row.status \notin {None, "DRAFT", "QUOTED"}
       => row'.route = row.route /\ row'.promised = row.promised]_vars

(* What a recipient is promised never exceeds the amount at the mid rate,  *)
(* and crossing the bridge never pays more than staying.                   *)
PromiseBelowMid ==
  row.quote # <<>> /\ Canonical(row.amount) =>
    /\ row.promised * RateScale * SrcScale <= Minor(row.amount) * Mid * DstScale
    /\ row.promised = row.quote[row.route]
    /\ world.cross => row.quote["bridge"] <= row.quote["srcchain"]

(* The audit events are the row's history: each starts where the one       *)
(* before ended, and the last one ends where the row is.                   *)
LogTellsStatus ==
  /\ log = <<>> <=> row.status = None
  /\ log # <<>> => log[Len(log)].to = row.status
  /\ \A i \in 2 .. Len(log) : log[i].from = log[i-1].to

(* Unless a database or the process failed, no payment is left in          *)
(* COMPLIANCE_PENDING, from where nothing resumes it.                      *)
NoneStranded == world.faults = {} /\ Idle => row.status # "COMPLIANCE_PENDING"
=============================================================================
