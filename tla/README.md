# SettlementOS in TLA+

SettlementOS moves a stablecoin payment from a sender to a recipient: it quotes
a route, screens the parties, escrows the sender's amount in a contract,
releases it to a treasury, pays the recipient out of the treasury (on another
network if the route crosses one) and credits a ledger. This directory models
the part of it that moves money and says which properties of it hold, under
which faults, and which do not.

Paths below are relative to the repository.

## 1. Inventory

| Part | State it keeps | Operations | What is hard | What makes it correct |
|---|---|---|---|---|
| Payment state machine (`lib/state.ts`, `lib/transitions.ts`) | `Payment.status`, `executionLeaseId` | `assertTransition`, `transitionStatus` | concurrent writers; a commit whose answer is lost | a status moves only along the table, from the status its writer saw; ending an attempt frees its lease |
| Execution orchestrator (`lib/executor.ts`) | the row, the reservation, the ledger credit, and a copy of the row per request | execute, its catch, compensation, repair, reconcile, stuck view | two databases of truth (row and chains); every await can throw after it took effect; operators act while requests run; crashes | the amount goes to the recipient or back to the sender, once; a status is true of the money; what is unresolved is visible and actionable |
| Settlement contract (`contracts/PaymentSettlement.sol`) | a state per payment id, token balances | initiate, settle, cancel, failAndRefund | transactions mine late and out of the caller's sight | one release per escrow; escrowed tokens are conserved |
| Chain adapter (`lib/chain.ts`) | none | broadcast, `confirm`, `transactionOutcome`, `onchainPaymentState`, allowances | lost answers, missing receipts, replica lag | unknown is never taken for failed |
| Treasury and MMF (`lib/treasury.ts`, `contracts/TokenizedMMF.sol`) | `TreasuryPosition`, fund shares, yield buffer | park, recall, recall for a payment, accrue | read-then-act on balances, chain call then row | shares held cover the active positions; parked and reserved never exceed the balance |
| Routing and liquidity (`lib/routing.ts`) | none (derived from reservations and balances) | quote, `availableLiquidity` | a check separated from its reservation | a reservation is covered |
| Intake routes (`app/api/payments/**`) | rows from DRAFT to APPROVED, their quote and route, their audit events | create, quote, execute gate, review, cancel | requests racing between read and write; a stage that throws | nothing unscreened is executed; what was promised stays; the log tells the row |
| Compliance (`lib/compliance.ts`, `lib/providers/*`) | `ComplianceCheck` rows | screen | a provider that is down | the worst verdict wins; no answer is no pass |
| Idempotency (`lib/idempotency.ts`) | `IdempotencyRecord` | claim, complete, abandon, replay | a record that expires under a running request | one key, one effect |
| Audit chain (`lib/audit.ts`) | `AuditEvent`, `AuditCheckpoint` | append, verify, checkpoint | two appends on one tip | one chain, tampering detected |
| Rate limiter (`lib/rate-limit.ts`) | a window per client | take, sweep | boundaries | at most the limit per window |
| Money, FX (`lib/money.ts`, `lib/fx.ts`) | none | parsing, fees, rates, conversion | rounding, tiers | no promise above the mid rate |
| Pagination (`lib/pagination.ts`) | none | cursors | pages of a log that grows | no row is skipped or served twice |
| Credentials (`lib/auth.ts`, `lib/admin-auth.ts`, `app/api/auth/**`, `app/api/admin/password`) | `ApiKey`, `AdminCredential`, the environment | key and password sign-in, seeding, change of password | a seeding login that races a change; a restart with another environment | a replaced password is dead |
| Deployment scripts (`scripts/deploy-testnet.mjs`, `scripts/setup.mjs`) | the chains' contracts, the overlay files, registered wallets | full deploy, fund add-on, adopt, reset | a run that dies between transactions or inside a write; a chain that starts over | what ends "done" is usable; generated keys are kept |
| Networks and their files (`lib/networks.ts`, `lib/chain.ts`) | the deployment files | reads | a torn file | every network readable |
| MCP, read API, UI, demo seeding | – | reads | – | not protocol; see PROJECT.json for each |

How they meet: a route reads the row, checks a status and calls the
orchestrator; the orchestrator claims a lease with a compare-and-swap, writes
rows through `transitionStatus`, and calls the chain adapter; nothing else
coordinates requests. No job polls: what is not finished by the request that
started it is finished by an operator, who finds it in the stuck view and calls
reconcile or repair. Every write passes the rate limiter and the idempotency
records before its handler and the audit chain inside its transaction. Payments
meet each other in four places: the treasury's balance, the fund, the sender's
allowance to the escrow contract, and the chain's nonce (left to the node).

The hazards this code is exposed to are listed in PROJECT.json, each at its
line; the properties below are aimed at them.

## 2. What is modelled

**`PaymentState`** is `lib/state.ts`: statuses, legal moves, and the sets the
handlers branch on.

**`PaymentExecutor`** follows one payment from `APPROVED` on. Its actors are
requests: an execute, repair, reconcile or cancel each, as they arrive. The
lease uuid a request draws, and the hash of the one token transfer it may
broadcast, are named by the request itself. Its state:

| Variable | In the code |
|---|---|
| `row` | `Payment.status`, `executionLeaseId`, `destinationTxHash`, `compensationTxHash` |
| `reservation`, `credit` | `LiquidityReservation`, `LedgerCredit` |
| `escrow`, `escrowTx` | the payment's state in `PaymentSettlement` and the operator's three calls to it |
| `payoutTx`, `compTx` | the destination transfer and the make-good transfer of each request, as the chain has them |
| `pc`, `mem` | where a request stands, and the row as it last saw it (`payment = { ...payment, ... }`) |
| `bridged` | `isCrossChain` |

An action runs from one `await` to the next, so every interleaving the event
loop and the database allow is explored. `Transition` is `transitionStatus`
(the compare-and-swap on the status *this request* last saw, with the lease
release in the same statement), `Update` is `prisma.payment.update` by id, which
checks no status, and `Write` any other write. Each may throw before or after
its commit when `Faults` contains `"db"`. `Call` and `OnReceipt` are the two
halves of `operatorWrite`: the broadcast, and the receipt, whose wait may end in
a revert, a timeout or an unreachable node whatever the chain does. With
`"broadcast"` in `Faults` a node may accept a transaction and its answer be lost.
`"crash"` kills every running request where it stands; rows and chains stay.
`Overlapping` names the kinds of request that may arrive while another runs;
any kind may arrive when none does.

Audit appends inside the handlers are not state here: one that throws takes the
same exit as the database call beside it. `loadDeployments`, wallet lookups and
formatting that throw before anything moved exit like an unreachable chain.
`ensureSenderAllowance` precedes the escrow call and can only fail it here;
`Escrow` models it.

**`PaymentPromise`** is the abstract specification: the amount is in one place,
moves one hop at a time to the recipient or back, and a report of the ending is
final and true. `PaymentExecutor` refines it through `MoneyIs` (read off the
chains) and `ReportIs` (read off the status).

**`PaymentIntake`** is one payment from its creation to `APPROVED`: create,
quote, execute up to the executor, review and cancel, each from `await` to
`await`, called by whoever the route lets through. `row` is the payment with its
quote, `checks` the `ComplianceCheck` rows (a screening is the set of its seven
verdicts), `log` the payment's audit events. `TransitionStatus` is the
compare-and-swap together with its event. Under it lies the arithmetic, as
operators: what `parseAmount` accepts, fee, tiers, `ApplyBps`, `Convert`, every
division a floor. `HandOver` stands for the executor taking the payment over.

**`Treasury`** is one asset of one network: the wallet (`balance`), the fund
(`TokenizedMMF`: index, shares, tokens held), the `TreasuryPosition` rows and
the reservations. Requests park, recall, pay (auto-recall, check, reservation,
payout) and accrue; every balance that is read before an `await` and used after
it is remembered in `mem`. The source legs of payments use the same wallet: a
settlement brings the escrow in (`Settle`), and a compensation takes its amount
straight out (`CompensateSender`), whatever other payments were promised of it;
`repaid` counts those tokens. `Send` is `mmfOperatorWrite` or the compensation's
`treasuryTokenTransfer`; `Land` a transaction nobody waits for any more. `env`
says what may fail and overlap, and how many requests there are.
**`TreasuryPool`** is its abstract specification: a token is promised to one
payment, only unpromised tokens are parked, and compensations stand outside,
with the tokens they took counted in `taken`.

**`Escrow`** is what `PaymentExecutor` leaves out of the contracts: several
payments of one sender against one escrow contract and one allowance, with
token balances, an adapter that estimates a write on a replica which may lag and
retries what lag explains, accounts without a key, and answers that are lost.
Its properties speak of one `setting` at a time: who pays, from how much, what
fails.

**`RequestGate`** is the rate limiter and the idempotency records that every
write passes, with a clock; `GateSpec` is it on its own. `answer` is what the
handler answered, which is what a retry replays; when it cannot be stored the
caller is told of an error instead. **`AuditChain`** is the hash chain: appends and
checkpoints in their callers' transactions, the three reads of a verification,
and the page walk. A hash is the history it covers, so two are equal exactly
when the histories are. **`Credentials`** is keys, the administrator's password,
and the requests that use and change them; `chosen` is a history variable, the
password the administrator last chose, and `during` collects the ones in force
while a request runs. The three share no state, so **`MCService`** composes
them by letting a behaviour run one of the three (`part`): their interleavings
would add states and no behaviour of any one of them. **`MCContracts`** does the
same with `Deploy` and `Escrow`, the contracts as they are deployed and as
payments use one of them.

**`Deploy`** is the two scripts an operator runs. A run resolves its plan and a
list of steps (`todo`), each one transaction, file write or row; it may die
between two or tear the file it writes. An address is its deployer and nonce, so
a chain that starts over hands out the same ones; a key stands for its address.
`loadDeployments`, `isChainReady`, `networkContracts` and `accountsFor` are how the
application reads the files back, a mounted live overlay (`OverlayRead`) when the
scripts' directory has none: setup does not look there, so it registers no live
wallets of a network that only a mounted file names.

The `MC` modules give the constants their values and add symmetry: of requests,
appenders and clients, wherever a module only compares them. Symmetry is not
used where liveness is checked.

Operators marked "Slip" before a definition are variants of it with one
plausible mistake; no specification uses them. PROJECT.json pairs each property
with one that breaks it.

## 3. What the runs show

Passing:

| Run | Bounds | Question |
|---|---|---|
| `ExecutorAllFaults` | 3 requests, all faults, all overlaps | Is the lease exclusive (`SingleAttempt`, `LeaseInv`), is a terminal status true (`TerminalMatchesMoney`), does the treasury pay only under the lease (`TreasuryMoves`)? |
| `ExecutorDbCrash` | 3 requests, `db` and `crash`, all overlaps | Is the recipient never paid while the sender is made whole (`NeverPaidBothWays`), and why (`MoneyInv`)? |
| `ExecutorChainFaults` | 3 requests, `broadcast`, all overlaps, fair | Is what is unresolved listed (`StuckViewComplete`), actionable (`NoDeadEnd`) and unleased (`LeaseHolderRuns`)? Does an attempt end (`AttemptConcludes`) and its lease return (`LeaseReturned`)? |
| `ExecutorOneRepair` | 4 requests, no injected fault, reconciles overlap | Is the sender paid back once (`CompensatedAtMostOnce`), liquidity freed (`ReservationReturned`), the promise kept (`KeepsPromise`)? |
| `Intake` | 4 requests, all overlaps, four worlds | Is nothing unscreened approved (`ApprovedScreened`)? Does the chosen route stay (`SelectionStable`), is no promise above mid (`PromiseBelowMid`), does the log tell the row (`LogTellsStatus`), is nothing stranded without a fault (`NoneStranded`)? |
| `TreasuryBooks` | 3 or 4 requests, five environments | Do rows and fund agree (`RowsMatchFund`), does parking cost dust at most (`PrincipalKept`), does a recall cover its shortfall (`RecallCovers`), is the wallet a pool of which only compensations take what was promised (`KeepsPool`)? |
| `Service` | 3 requests, clock to 4; 2 appenders, 4 events, 1 reader; 2 clients, 3 passwords | Does a retry repeat nothing (`EffectsApart`), replay its own answer (`ReplayMatches`), lock no key (`KeyHasRunner`), does the window hold (`WindowHolds`)? Is an untouched log never reported broken (`NoFalseAlarm`), a changed one always (`EditReported`), a walk complete (`WalkComplete`)? Is only a password in force accepted (`AcceptedInForce`)? |
| `Contracts` | 3 runs of 2 scripts from ten situations, one crash; or 3 payments, 2 with lag, lost answers or a missing key, in eight settings | Is what ends done usable (`UsableWhenDone`), a registered escrow never doubled (`OneEscrow`), every generated key kept (`KeysKept`)? Does the contract hold exactly what it owes (`EscrowBacked`), is its claim on the sender at most one payment that is not escrowed (`ClaimCapped`), and whose fault is a refusal (`RefusedOnlyDisturbed`)? |

Why these bounds are enough. *Executor*: three requests are an attempt, an
operator's answer to it, and one that races either; four let two repairs follow
one attempt with a reconcile in between. A request broadcasts at most one
transfer of each kind, so these bounds also bound the transfers. Reverts,
receipts that never come, unreadable chains, and transactions that mine late or
never are possible in *every* run; `Faults` only adds to them. *Intake*: four
requests are a quote, a second quote or a cancel that races it, an execute and a
review. Rates are coarse (a par of 2, amounts up to 8) so that every floor
loses something and every tier and risk threshold is crossed; the worlds differ
in what the parties' records say, what providers answer (errors included), in a
row older than the money gate, and in database faults and crashes. *Treasury*:
four requests are two parks, an accrual and a payment that recalls both, or two
payments, one of which settles and is compensated while the other recalls; three
are a park, a recall and a payment that one fault meets. The five environments
are three without faults, which let accruals and settlements, settlements and
compensations with recalls, or recalls alone overlap the rest; one with database
faults and crashes; one with lost answers. An index that starts at 2 and stops at
4 makes shares and values round. *Escrow*:
the amounts differ, so an approval may be too much or too little for another
payment; two retries let the replica be seen stale, stale again, and current.
*Service*: a key with three requests is a first, a retry that finds it expired,
and a retry of the retry; `Window` is 3 and the clock runs past it; an interval
of 2 puts a checkpoint in the middle of a log of at most 4 events (`MaxId`);
`MaxKeys` seeds the keys once more. *Deploy*: `MaxRuns` is a deployment, its
repair and a reset; `MaxCrashes` is 1 in the run.

Where a property is checked under fewer faults than exist, that is because it
fails under the others. Four runs show how, where the repository says
otherwise:

| Run | Fails | What happens |
|---|---|---|
| `RepairsOverlap` | `CompensatedAtMostOnce` | A repair reads the row, waits, claims the lease after another repair sent its transfer and left it unresolved, and sends its own: it decides on the row it read before the claim (`lib/executor.ts:1013`, `1060`). |
| `PayoutAnswerLost` | `NeverPaidBothWays` | The node accepts the payout, its answer is lost, no hash is known, the sender is compensated and the payout mines (`lib/executor.ts:497`). |
| `ParkRacesPayment` | `ReservedCovered` | A park reads the free balance, a payment checks and reserves the same tokens, and the park subscribes them (`lib/treasury.ts:199`, `220`). |
| `ApprovalStands` | `NoStandingClaim` | The sender approves, the `initiatePayment` that follows is refused, the payment fails, and nothing takes the approval back (`lib/executor.ts:417`, which says the escrow holds no standing claim between payments). |

The other limits found, each at its hazard in PROJECT.json, and the change to a
run that shows it:

- `ReservationReturned` with `Overlapping = {"cancel"}`: a cancel lands after
  the reservation and before `LIQUIDITY_RESERVED` (`lib/executor.ts:399-400`);
  the throw is outside the `try`, and the reservation stays.
- `StuckViewComplete` with `Faults = {"crash"}`: a crash between two forward
  statuses leaves the amount in escrow in a status `stuckPayments` does not
  select. `LeaseHolderRuns` likewise: the lease stays taken, and nothing reads
  `leasedAt`.
- The settlement's receipt times out while it is pending, the catch reads
  INITIATED, its refund is refused, the payment is FAILED and the settlement
  mines (`lib/executor.ts:601`): listed, but nothing leads out of FAILED.
- `ReservedCovered` with compensations that overlap a payment: a payment checks
  the balance, a compensation takes the tokens (`lib/executor.ts:835`), and the
  payment reserves what is no longer there. The promises are short by what
  compensations took and no more, which is what `KeepsPool` says.
- `RecallCovers` with them: a recall tells what it redeemed from the wallet
  before and after (`lib/treasury.ts:298-300`).
- `EditReported` once a newer checkpoint is signed over a recomputed chain: it
  verifies clean, and `docs/regulatory/01-technical-architecture.md:144-146` says
  it cannot.
- `RowsMatchFund` without `Quiet`: overlapping parks count each other's shares
  (`lib/treasury.ts:217`); a subscription that lands late is in no row.
- `NoneStranded` with crashes or database faults: nothing resumes
  `COMPLIANCE_PENDING`.
- `EffectsApart` with a handler that throws after its effect, or a database that
  fails while the answer is stored: the key is freed and a retry repeats.
- `UsableWhenDone` after adopting on a chain that started over: adopting checks
  that bytecode is there, not that it was completed.

`CompensatedAtMostOnce` under crashes is not run: there the leaked lease alone
prevents a second transfer, which is an accident of the limit above.

Fairness: `FairSpec` of `PaymentExecutor` assumes that a request that has arrived
takes its next step (`WF_vars(Advance(r))`): every await of the code resolves or
rejects (the receipt wait has a timeout), and Node's event loop resumes it.
Nothing is assumed of arrivals, of mining or of operators, so liveness is stated
only for what the request itself must finish. The other modules state no
liveness: what they leave unfinished waits for a request that may never come.
For the same reason `Rest` stutters when no request runs, and `Contracts`,
`ApprovalStands` and `Service`, whose behaviours may simply be over, are run without the deadlock
check.

## 4. What is proved

TLC checks the instances above; the theorems below hold for every value of the
constants, under the named assumptions of the modules (`None` is no request,
`Faults` and `Overlapping` are sets of what they name, the numbers are positive,
the requests of `Treasury` and the payments of `Escrow` are finitely many) and,
where a line says so, under a condition on `Faults` or `Overlapping`. Each
such condition is one that a run of section 3, or a limit listed there, breaks.

| Theorem | Property | For |
|---|---|---|
| `TypeCorrect`, `LeaseIsExclusive`, `LeaseFenceHolds` | `TypeOK`, `SingleAttempt`, `LeaseInv` | any faults and overlaps |
| `EndingsAreTrue` | `TerminalMatchesMoney` | any faults and overlaps |
| `TreasuryPaysOnlyUnderLease` | `TreasuryMoves` | any faults and overlaps |
| `NeverBothPaid`, `MoneyIsKnown` | `NeverPaidBothWays`, `MoneyInv` | no lost answer |
| `LeasesAreHeld` | `LeaseHolderRuns` | no crash, no database fault |
| `RestHasAWayOn` | `NoDeadEnd` | no crash, no database fault |
| `OperatorSeesWhatIsStuck` | `StuckViewComplete` | no crash, no database fault |
| `NoReservationOutlives` | `ReservationReturned` | the same, executes and cancels alone |
| `PaidBackOnce` | `CompensatedAtMostOnce` | no injected fault, repairs alone |
| `KeepsThePromise` | `KeepsPromise` | no injected fault, repairs alone |
| `ApprovedOnlyScreened` | `ApprovedScreened` | any faults and overlaps |
| `HistoryIsTold` | `LogTellsStatus` | any faults and overlaps |
| `NobodyStranded` | `NoneStranded` | any overlaps (the property names its faults) |
| `SelectionIsFinal` | `SelectionStable` | any faults and overlaps |
| `PromisesAreHonest` | `PromiseBelowMid` | any rates, amounts, tiers and decimals |
| `NothingIsRepeated` | `EffectsApart` | any requests, callers, keys and bodies |
| `AnswersAreTheirOwn` | `ReplayMatches` | the same |
| `NoKeyIsLockedOut` | `KeyHasRunner` | the same |
| `LimitHolds` | `WindowHolds` | any limit, window and arrivals |
| `NoAlarmIsFalse` | `NoFalseAlarm` | any appenders, readers and checkpoint interval |
| `EditsAreReported` | `EditReported` | the same |
| `WalksAreComplete` | `WalkComplete` | the same, any page size |
| `OnlyInForce` | `AcceptedInForce` | any clients, passwords, environments |
| `EscrowIsBacked`, `NobodyOverdrawn` | `EscrowBacked`, no balance negative | any payments, amounts, lag and lost answers |
| `ClaimIsCapped` | `ClaimCapped` | the same |
| `RefusalHasCause` | `RefusedOnlyDisturbed` | the same |
| `TreasuryTyped` | `TypeOK` | any requests, amounts, indexes, faults and overlaps |
| `PoolKept` | `KeepsPool` | any; the steps while `Orderly` |
| `PromisesCovered` | `ReservedCovered` | `Orderly`, no fault and no compensation that overlaps (`~Exposed`) |
| `ShortByCompensations` | the promises exceed the wallet by `repaid` at most | `Orderly`, whatever crashes, is not written, or compensates |
| `RowsMatch` | `RowsMatchFund` | the property names its environment |
| `PrincipalIsKept` | `PrincipalKept` | the same |
| `RecallsCover` | `RecallCovers` | the same |
| `EscrowStaysOne` | `OneEscrow` | any tokens, entities, balances, runs and crashes |
| `KeysAreKept` | `KeysKept` | the same |
| `DoneIsUsable` | `UsableWhenDone` | the same |

How the arguments go, module by module.

**`PaymentExecutorProofs`**: the lease. `SingleAttempt` is not inductive: a
cancel writes CANCELLED and frees the lease under a running attempt, so "inside
implies owner" is false. The strengthening `LeaseInv` says a request inside owns
the lease *or* the payment is in a status that freed it (`LeaseFence`), and that
a request about to claim saw a status that did not (`ClaimsFromOpen`). Statuses
that free the lease lead only to such statuses (`ReleasedForGood`) and a claim
compares the status, so a freed lease cannot be claimed while its former holder
still runs. Every action inside the lease has one shape (`LeasedStep`), and the
shape keeps the invariant.

There too: one payout or one make-good. `MoneyKnown` relates the
row to the chains: one payout at most, sent only after the escrow paid the
treasury, and a compensation sent only in a status that says the recipient got
nothing and never will. `Seen(r)` is what a request read before its claim and
may still rely on: a payout's hash on the row is never wrong, although the row
may be stale. `Knows(r)` is what the request inside the lease knows at each of
its places: on the way down, the hash of every payout sent; past the catch, that
none arrived. The lease keeps every other request from disturbing it. That no
answer is lost is needed: `PayoutAnswerLost` is the counterexample.

And the endings (`OutcomeInv`, no condition at all).
`RowIsTrue` is `TerminalMatchesMoney` with what the statuses on the way say: the
escrow is untouched while the payment may be cancelled, and has paid the
treasury from `FX_OR_SWAP_COMPLETED` on. `SawTruth(r)` and `KnowsOutcome(r)` say
the same of the row a request read and of each place it can be at, so a write by
id that follows a stale read still writes the truth.

**`PaymentReturnProofs`**: what an attempt leaves behind (`AttemptInv`).
`Attended` says every status that is no resting place, and every lease, has a
running holder; `KnowsAttempt(r)` gives the status at each place of the code, so
each compare-and-swap of the forward path finds what it expects, or the cancel
that slipped in before the first. A crash breaks `Attended` at once, and a
database fault may leave the lease's release undone.

There too: what is held is given back. `LiquidityInv` follows
the reservation from place to place; `CompInv` counts the make-good transfers
that may still arrive (`Live`): none when a repair sends, and every earlier one
known from the row, which a second repair that read the row too early would not
be (`RepairsOverlap`). From these invariants the refinement: `PromiseFacts`, what
they say of the amount and its report, holds before and after each step, a case
split by action shows that a step moves the amount at most one hop, and that hop
is an action of `PaymentPromise` under the mapping (`MoneyIs`, `ReportIs`).

**`PaymentIntakeProofs`**: the compliance gate, and the arithmetic. `IntakeInv`
says at most one request is between entering COMPLIANCE_PENDING and its verdict,
that it has the only screening, that what each handler read decides where it is,
and that APPROVED is on the log only once decided. `Promised` says where the
promise on the row comes from. The arithmetic rests on lemmas about floors, each
for every value: a floor is below its quotient (`Floors`) and grows with it
(`FloorsGrow`), a share of a smaller amount is smaller (`SharesShrink`), a fee
leaves less (`NetIsLess`), so a quote is below mid (`QuoteBelowMid`). The tiers
are a sequence of any length.

**`ServiceProofs`**: what stands before and beside every request.

- The idempotency records, of `GateSpec`, the gate on its own. `RecordsKnown` and
  `OneHolder`: no two records share an id and no two requests that may still
  write hold one record; `Carries` and `Replayed` tie what a request remembers to
  the record it claimed; `StoredBy` to whoever answered it; `Guarded` keeps the
  key of every effect taken until its time is over.
- The rate limiter. The window is a statement about all admissions, the code
  keeps only some. `WindowInv`: what it keeps of a caller is the end of their
  admissions, what it forgot is at least a window old (`Remembers`), and an
  admission comes a window after the one `limit` places before it (`Spaced`).
  From that `WindowHolds` is a count of an interval.
- The audit log. `Ordered`: ids grow and what is about to be committed comes last
  and hashes the tip, which only the holder of the lock may change. `Untouched`
  and `Spoilt`: without an edit every prefix verifies and every anchor holds;
  after an edit in place the log no longer verifies, and after a recomputation
  every checkpoint signed before it over a changed row disagrees. `Found(r)` and `Served(r)` are what a
  verification and a walk have seen so far: an append leaves what they read a
  prefix of the log, so the walk's cursor splits it into served and still to come.
- Passwords. `AcceptedInForce` speaks only of answers already given. `ForceInv`
  adds what leads there: the row is the password chosen last; a request that has
  yet to look at the row, or acts on what it saw there, has the row's password
  among those in force since it arrived; and once verified, its own is one of
  them. The create that loses to another keeps the winner's row, which makes the
  first part inductive.

**`SumLemmas`**: sums over a finite set of indices, which `Escrow` and `Treasury`
state their books with. The community modules define a sum by a recursive
function over subsets; the library's induction theorems cannot be instantiated
here, so each induction takes a smallest counterexample instead (`SmallestSet`):
the function exists (`SumExists`), takes its elements in any order
(`SumAnyOrder`), and so a sum is taken apart at any index (`SumOut`, `SumUpdate`)
and grows with its terms (`SumMonotone`).

**`EscrowProofs`**: `EscrowBacked` is kept because the contract's state of a
payment and its tokens move in one call, which each `Write` makes of the state
the call itself finds. The other two are not inductive. `LateApproval` and
`NotBegun` say of an approval that may still land that its payment has not
escrowed: this caps the claim. `Assured` says that a payment whose sender nobody
disturbed finds its allowance when it initiates, at whatever replica it reads, as
`SeenIsPast` ties what a replica shows to what the ledger was.

**`TreasuryProofs`**: three invariants. `TreasuryTypes` has no condition: no
overdraft of wallet, fund or shares, and what a request recalls is a row.
`PoolInv`, under `Orderly`, says parks and payments take turns
(`TakesTurns`), so what either found free is still free when it acts. It speaks
of the wallet together with what compensations took from it (`Wealth`):
recalls, accruals and settlements only add to that sum, and a compensation leaves
it, which is why promises can be short by `repaid` (`ShortByCompensations`) and
no more. Where a compensation neither overlaps a payment nor follows a fault it
finds nothing promised (`NothingPromised`), and the wallet alone covers the
promises (`PromisesCovered`). From the same invariant each step is one of
`TreasuryPool`. `QuietInv` is a ledger:
with one operation at a time, `Accounts(r)` says by how many shares the rows are
ahead of or behind the fund at each place of the code. Shares are floors twice
over; `Covers` says one share more would be worth the principal, which an
accrual only improves, and that the parked value a recall counts on is what its
redemptions pay, position by position.

**`DeployProofs`**: `EscrowKnown` says a run that was not forced on a registered
network has only steps that deploy no escrow and resolved the registered one, or
none; the bug it excludes is the slip `FullDeployAllowedByFile`. `KeysKnown` says
a run has, from the moment it resolves its plan, the keys of the file it will
write over, also after it has written; local keys are the same every time.

There too: what ends done is usable (`UsableInv`). `Goals(mode)` is what a run
sets out for, each goal named by the step that reaches it: contracts, approvals,
balances, gas, the file, the rows. The core is `InProgress`: every goal holds, or
a step left in `todo` reaches it. A step may undo goals of others (a new escrow
has no approved asset, a wiped database no rows), so a list of steps must mend
what it disturbs (`Mends`): after a step that disturbs a goal, one that reaches
it follows; and nothing is sent once the file is written (`Tidy`). Both are shown
of each of the five lists from lemmas about lists joined end to end, so they hold
for any number of tokens, entities and balances. What a run does not do itself
it finds: the fund add-on and the run with nothing to do rest on `LiveSound` (a
live file that names escrow and asset names what is on its chain, unless that
started over and has no code), adopting on `OriginalThere` (until its chain
starts over, what the registry names is there). At the end no step is left, so
every goal holds.

What a behaviour may start from was left by these scripts
(`SituationAssumption`): a file that names escrow and asset is that of the
earlier deployment, made before the fund was, and the registry names that
deployment's contracts. `DeployAssumption` keeps the names of contracts and
holders apart from those of tokens and entities.

Only model-checked:

- Liveness (`AttemptConcludes`, `LeaseReturned`): fairness and `ENABLED` are out
  of the prover's reach.
- The four runs of section 3 that fail are, of course, not theorems; for
  `ReservedCovered` the theorem `PromisesCovered` says what keeps it, and for
  `NoStandingClaim` `ClaimIsCapped` how much may stand.

The proofs changed the model in a few places, each back to the code: an approval
or a fund call with a negative argument is refused before it is sent
(`Send`); `PrincipalKept` speaks of every active position, whatever else is
running; `Commit` inserts a row at its id's place and `AnchorHolds` looks the row
up by id, as the two SQL queries do; a plan's fields are written out
(`RunPlan`). The new assumptions are `limit \in Nat` (`GateAssumption`), that
`Nobody` is no appender or edit (`AuditAssumption`), and the two of `Deploy`.

## 5. Plan

Every safety property of the passing runs is a theorem. What is left is to model
the per-network wallets of a party in `PaymentIntake`, which the screening's
hazard needs.

## 6. What is not modelled

- Cryptography: a hash, a signature and a key stand for what they cover.
- The tenant scope of reads, formatting, RPC endpoints, gas, and the fees shown
  to users: no property depends on them.
- The MCP server, the read-only API, the UI and the demo seeding: they change no
  state the server relies on, or drive the routes modelled here.
- A party's wallets per network, so that the screening reads one wallet and
  execution another is a hazard without a property.
- The payments list's composite cursor order; the audit log's walk is modelled.
- More than one asset or network in `Treasury`, and contention for the
  operator's nonce, which the node serialises.
- A request that outlives its idempotency record's 24 hours.
- A replica that still lags at a write's last retry (`Shown`): the code bounds
  its retries and does not know. A stale answer to the catch's read of the
  escrow, in `PaymentExecutor`, where a read is right or fails.
- The update of `destinationNetwork` before the liquidity check
  (`lib/executor.ts:316-324`), which the executor's properties do not tell from
  the read that follows it; and a compensation whose context cannot be built
  (`724-730`), which throws before anything is sent.
- A payout whose answer is lost is a matter of `PaymentExecutor`; in `Treasury` a
  payout is sent and mined, or not.
- `AuditChain.ReadPage` is one step for two reads that run side by side
  (`app/api/audit/route.ts:30-40`), and `Deploy.Wipe` one for ten `deleteMany`
  calls (`scripts/setup.mjs:216-228`).
- A transaction of setup that reverts without an exception: `setup.mjs:119-128`
  does not look at the receipt's status, and in `Deploy` a failed transaction
  always ends its run.
- More than one live network in `Deploy`: a torn file of another live network
  takes the application down as a torn local one does (`lib/chain.ts:89-91`).
- Liveness and anything with `ENABLED` stay with TLC.
