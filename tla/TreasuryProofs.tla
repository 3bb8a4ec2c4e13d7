---------------------------- MODULE TreasuryProofs ----------------------------
(***************************************************************************)
(* What is proved of Treasury for any requests, amounts and rates: types,  *)
(* that the wallet and the reservations implement TreasuryPool as long as  *)
(* parks and payments take turns, by how much compensations can leave the  *)
(* promises short, and that one operation at a time leaves rows and fund   *)
(* in agreement.                                                           *)
(***************************************************************************)
EXTENDS Treasury, SumLemmas

Mems ==
  [amount : Nat, seen : Int, pos : Nat, short : Int, freed : Int, todo : SUBSET Nat, entry : Nat]

(* The places of a recall, an operator's or a payment's.                   *)
Recalling == {"recall", "redeemBalance", "redeem", "redeemed", "flip"}

Places == Running \union {"idle", "settled", "done", "dead"}

(* A row that is being recalled is there, and so are those still to be.    *)
TreasuryTypes ==
  /\ TypeOK
  /\ fund.index > 0
  /\ mem \in [Requests -> Mems]
  /\ \A r \in Requests : pc[r] \in Recalling => mem[r].pos \in DOMAIN positions

-----------------------------------------------------------------------------
(* Before its reservation, a payment has reserved and paid nothing; and    *)
(* where nothing fails, nothing stays reserved after it.                   *)
ReservedOnce ==
  \A r \in Requests :
    /\ ~Exposed /\ pc[r] \notin {"payout", "consume", "release"} => reserved[r] = 0
    /\ pc[r] \notin {"payout", "consume", "release", "done", "dead"} => reserved[r] = 0 /\ r \notin paid
    /\ At(r, "payout") => reserved[r] = mem[r].amount /\ r \notin paid

(* The places of a park and of a payment.                                  *)
Parking == {"parkBalance", "park", "allowance", "sharesBefore", "subscribe", "sharesAfter", "record"}
PayingPlaces ==
  {"measureBalance", "measure", "parked", "recallBalance", "recallFree", "recallParked",
   "nextRecall", "checkBalance", "check", "reserve", "payout", "consume", "release"}
ClaimsAt(l, short) == l \in Parking \union PayingPlaces \/ (l \in Recalling /\ short > 0)
Claims(r) == ClaimsAt(pc[r], mem[r].short)

(* Where a request counts on what it found free.                           *)
Holding == {"allowance", "sharesBefore", "subscribe", "reserve"}

(* What the wallet would hold but for the compensations that meet others.  *)
Wealth == balance + Taken

(* Parks and payments that take turns: the one that runs asks for          *)
(* something, and what it measured is still there to be had, but for what  *)
(* compensations took.                                                     *)
TakesTurns ==
  Orderly =>
    /\ mempool = {}
    /\ \A r, s \in Requests : Claims(r) /\ Claims(s) => r = s
    /\ \A r \in Requests :
         /\ Claims(r) => mem[r].amount > 0
         /\ pc[r] \in {"park", "check"} => mem[r].seen <= Wealth
         /\ pc[r] \in Holding => mem[r].amount + Reserved <= Wealth

PoolInv == TreasuryTypes /\ ReservedOnce /\ TakesTurns

-----------------------------------------------------------------------------
(* One park, recall or payment at a time, and nothing half-way.            *)
Busy(r) == pc[r] \in Running \ {"accrue"}

Covers(shares, amount) == ValueOfShares(shares + 1, fund.index) >= amount

OneAtATime ==
  /\ mempool = {}
  /\ \A r \in Requests : pc[r] # "dead"
  /\ \A r, s \in Requests : Busy(r) /\ Busy(s) => r = s

(* Where the rows do not say yet what the fund holds.                      *)
Midway == {"sharesAfter", "record", "redeemed", "flip"}
Settled == (\A r \in Requests : pc[r] \notin Midway) => SharesOfRows = fund.shares

RowsSound == \A i \in Active : positions[i].shares > 0 /\ Covers(positions[i].shares, positions[i].amountIn)

(* What a request at l remembers accounts for that difference.             *)
AccountAt(l, m) ==
  /\ l \in {"subscribe", "sharesAfter"} => m.seen = SharesOfRows
  /\ l = "sharesAfter" => fund.shares > m.seen /\ Covers(fund.shares - m.seen, m.amount)
  /\ l = "record" => m.seen > 0 /\ m.seen = fund.shares - SharesOfRows /\ Covers(m.seen, m.amount)
  /\ l \in {"redeemBalance", "redeem", "redeemed", "flip"} => m.pos \in Active
  /\ l \in {"redeemed", "flip"} => fund.shares = SharesOfRows - positions[m.pos].shares

Measuring == {"measureBalance", "measure", "parked", "recallBalance", "recallFree", "recallParked"}

(* What a payment freed, what it is recalling and what it still means to   *)
(* recall cover its shortfall.                                             *)
CoverAt(l, m) ==
  /\ l \in {"nextRecall"} \union Recalling => m.todo \subseteq Active
  /\ l \in Measuring => m.freed = 0
  /\ l = "nextRecall" => m.freed + SumFunctionOnSet(Values, m.todo) >= m.short
  /\ m.short > 0 /\ l \in {"recall", "redeemBalance", "redeem"} =>
       /\ m.pos \in Active \ m.todo
       /\ m.freed + Values[m.pos] + SumFunctionOnSet(Values, m.todo) >= m.short
  /\ m.short > 0 /\ l = "redeem" => m.seen <= balance
  /\ m.short > 0 /\ l = "redeemed" =>
       m.pos \notin m.todo /\ m.freed + (balance - m.seen) + SumFunctionOnSet(Values, m.todo) >= m.short
  /\ m.short > 0 /\ l = "flip" =>
       m.pos \notin m.todo /\ m.freed + SumFunctionOnSet(Values, m.todo) >= m.short

(* No compensation takes from the wallet while another request runs.       *)
Steady == "compensate" \notin env.overlapping

Accounts(r) == AccountAt(pc[r], mem[r]) /\ (Steady => CoverAt(pc[r], mem[r]))

QuietInv == Quiet => OneAtATime /\ Settled /\ RowsSound /\ \A r \in Requests : Accounts(r)

-----------------------------------------------------------------------------
(* The arithmetic.                                                         *)

(* What is assumed of the constants, each by its name.                     *)
LEMMA Constants ==
  /\ IsFiniteSet(Requests) /\ Amounts \subseteq Nat \ {0}
  /\ Opening \in Nat /\ Buffer \in Nat /\ Rate \in Nat
  /\ Scale \in Nat \ {0} /\ Year \in Nat \ {0} /\ MaxIndex \in Nat \ {0}
BY TreasuryAssumption

(* A division by a positive number is the floor.                           *)
LEMMA Floor ==
  ASSUME NEW a \in Int, NEW b \in Nat \ {0}
  PROVE  a \div b \in Int /\ b * (a \div b) <= a /\ a < b * (a \div b) + b
OBVIOUS

(* The floor is the greatest of those below.                               *)
LEMMA FloorGreatest ==
  ASSUME NEW a \in Int, NEW b \in Nat \ {0}, NEW q \in Int, b * q <= a
  PROVE  q <= a \div b
<1> DEFINE f == a \div b
<1>1. f \in Int /\ a < b * f + b
  BY Floor
<1> HIDE DEF f
<1>2. b * q < b * f + b
  BY <1>1
<1>3. b * f + b = b * (f + 1)
  BY <1>1
<1>4. ASSUME f + 1 <= q PROVE FALSE
  <2>1. b * (f + 1) <= b * q
    BY <1>1, <1>4
  <2>2. b * (f + 1) \in Int /\ b * q \in Int
    BY <1>1
  <2> QED BY <1>2, <1>3, <2>1, <2>2
<1>5. q <= f
  BY <1>1, <1>4
<1> QED BY <1>5 DEF f

(* What shares are worth: a number, no less at a higher index.             *)
LEMMA Worth ==
  ASSUME NEW s \in Int, NEW i \in Nat, NEW j \in Nat, i <= j
  PROVE  /\ ValueOfShares(s, i) \in Int
         /\ s >= 0 => ValueOfShares(s, i) \in Nat /\ ValueOfShares(s, i) <= ValueOfShares(s, j)
<1> DEFINE v == ValueOfShares(s, i)
           w == ValueOfShares(s, j)
<1>0. Scale \in Nat \ {0} /\ s * i \in Int /\ s * j \in Int
  BY Constants
<1>1. v \in Int /\ Scale * v <= s * i /\ w \in Int
  BY <1>0, Floor DEF ValueOfShares
<1>2. ASSUME s >= 0 PROVE v \in Nat /\ v <= w
  <2>1. s * i <= s * j /\ 0 <= s * i
    BY <1>2
  <2>2. Scale * 0 = 0 /\ Scale * v \in Int
    BY <1>0, <1>1
  <2>3. Scale * 0 <= s * i /\ Scale * v <= s * j
    BY <1>0, <1>1, <2>1, <2>2
  <2>4. 0 <= v
    BY <1>0, <2>3, FloorGreatest DEF ValueOfShares
  <2>5. v <= w
    <3> HIDE DEF v
    <3> QED BY <1>0, <1>1, <2>3, FloorGreatest DEF ValueOfShares
  <2> QED BY <1>1, <2>4, <2>5
<1> QED BY <1>1, <1>2

(* The shares minted for an amount are worth it but for the floor.         *)
LEMMA MintedWorth ==
  ASSUME NEW a \in Nat, NEW i \in Nat \ {0}
  PROVE  SharesFor(a, i) \in Nat /\ ValueOfShares(SharesFor(a, i) + 1, i) >= a
<1> DEFINE m == SharesFor(a, i)
<1>0. Scale \in Nat \ {0} /\ a * Scale \in Int /\ a * Scale >= 0
  BY Constants
<1>1. m \in Int /\ a * Scale < i * m + i
  BY <1>0, Floor DEF SharesFor
<1>2. 0 <= m
  <2>1. i * 0 <= a * Scale
    BY <1>0
  <2> QED BY <1>0, <2>1, FloorGreatest DEF SharesFor
<1> HIDE DEF m
<1>3. i * m + i = (m + 1) * i /\ (m + 1) * i \in Int /\ a * Scale = Scale * a
  BY <1>0, <1>1
<1>4. Scale * a <= (m + 1) * i
  BY <1>0, <1>1, <1>3
<1>5. a <= ((m + 1) * i) \div Scale
  BY <1>0, <1>3, <1>4, FloorGreatest
<1>6. ValueOfShares(m + 1, i) \in Int
  BY <1>1, Worth
<1> QED BY <1>1, <1>2, <1>5, <1>6 DEF m, ValueOfShares

(* A set of positions has a first one.                                     *)
LEMMA OldestIs ==
  ASSUME NEW S \in SUBSET Nat, S # {}
  PROVE  Min(S) \in S
<1>1. \E n \in S : \A m \in S : n <= m
  BY SmallestNumber
<1> QED BY <1>1 DEF Min

-----------------------------------------------------------------------------
(* Types.                                                                  *)

Funds == [index : Nat, shares : Nat, held : Nat]
Calls == {"subscribe", "redeem", "accrue", "transfer"}
Transactions == [call : Calls, arg : Nat, by : Requests]

(* What a step of one request leaves it with.                              *)
Moves(r, m, next) == mem' = [mem EXCEPT ![r] = m] /\ pc' = [pc EXCEPT ![r] = next]

(* One request moves, the others stay.                                     *)
LEMMA OneMoves ==
  ASSUME TreasuryTypes, NEW r \in Requests, NEW m \in Mems, NEW next \in Places, Moves(r, m, next)
  PROVE  /\ pc' \in [Requests -> Places] /\ mem' \in [Requests -> Mems]
         /\ pc'[r] = next /\ mem'[r] = m
         /\ \A s \in Requests \ {r} : pc'[s] = pc[s] /\ mem'[s] = mem[s]
BY DEF TreasuryTypes, TypeOK, Places, Moves

(* A step of one request keeps the types if what it changes has them.      *)
LEMMA TypesKept ==
  ASSUME TreasuryTypes, NEW r \in Requests, NEW m \in Mems, NEW next \in Places, Moves(r, m, next),
         balance' \in Nat, fund' \in Funds, fund'.index > 0,
         positions' \in Seq(PositionRows), DOMAIN positions \subseteq DOMAIN positions',
         reserved' \in [Requests -> Nat], paid' \subseteq Requests, repaid' \in Nat, mempool' \subseteq Transactions, env' = env,
         m.todo \subseteq DOMAIN positions', next \in Recalling => m.pos \in DOMAIN positions'
  PROVE  TreasuryTypes'
<1>1. /\ pc' \in [Requests -> Places] /\ mem' \in [Requests -> Mems]
      /\ pc'[r] = next /\ mem'[r] = m
      /\ \A s \in Requests \ {r} : pc'[s] = pc[s] /\ mem'[s] = mem[s]
  BY OneMoves
<1>2. \A s \in Requests : DOMAIN mem'[s] = DOMAIN Blank /\ mem'[s].todo \subseteq DOMAIN positions'
  <2>1. \A x \in Mems : DOMAIN x = DOMAIN Blank
    BY DEF Mems, Blank
  <2>2. \A s \in Requests : mem'[s] \in Mems
    BY <1>1
  <2>3. \A s \in Requests : mem[s].todo \subseteq DOMAIN positions
    BY DEF TreasuryTypes, TypeOK
  <2> QED BY <1>1, <2>1, <2>2, <2>3
<1>3. \A s \in Requests : pc'[s] \in Recalling => mem'[s].pos \in DOMAIN positions'
  BY <1>1 DEF TreasuryTypes
<1>4. env' \in Environments
  BY DEF TreasuryTypes, TypeOK
<1> QED BY <1>1, <1>2, <1>3, <1>4 DEF TreasuryTypes, TypeOK, Funds, Transactions, Calls, Places

(* A step that only moves its request.                                     *)
LEMMA ThinkingTypes ==
  ASSUME TreasuryTypes, NEW r \in Requests, NEW m \in Mems, NEW next \in Places, Moves(r, m, next),
         UNCHANGED <<books, chain>>,
         m.todo \subseteq DOMAIN positions, next \in Recalling => m.pos \in DOMAIN positions
  PROVE  TreasuryTypes'
<1>1. UNCHANGED <<balance, fund, positions, reserved, paid, repaid, mempool, env>>
  BY DEF books, chain
<1> QED BY <1>1, TypesKept DEF TreasuryTypes, TypeOK, Funds, Transactions, Calls

-----------------------------------------------------------------------------
(* The steps that only decide.                                             *)

Thinks(r) ==
  \/ ParkStart(r) \/ ParkBalance(r) \/ ParkCheck(r) \/ EnsureTreasuryAllowance(r) \/ SharesBefore(r)
  \/ SharesAfter(r) \/ RecallStart(r) \/ Recall(r) \/ RedeemBalance(r) \/ Redeemed(r)
  \/ PayStart(r) \/ MeasureBalance(r) \/ Measure(r) \/ AnythingParked(r) \/ RecallBalance(r)
  \/ RecallFree(r) \/ RecallParked(r) \/ NextRecall(r) \/ CheckBalance(r) \/ Check(r) \/ AccrueStart(r)

Fresh(m) == m.short = 0 /\ m.freed = 0 /\ m.todo = {}

Arrives(r, m, next) ==
  /\ pc[r] = "idle" /\ Fresh(m)
  /\ \/ next = "parkBalance" /\ MayCome("park") /\ m.amount > 0
     \/ next = "measureBalance" /\ MayCome("pay") /\ m.amount > 0
     \/ next = "recall" /\ MayCome("recall") /\ m.pos \in DOMAIN positions
     \/ next = "accrue" /\ MayCome("accrue") /\ m.amount >= fund.index

(* Where a request goes with what it had.                                  *)
Plainly ==
  {<<"parkBalance", "done">>, <<"park", "done">>, <<"allowance", "sharesBefore">>, <<"allowance", "done">>,
   <<"sharesBefore", "done">>, <<"recall", "done">>, <<"measure", "parked">>, <<"measure", "checkBalance">>,
   <<"parked", "recallBalance">>, <<"parked", "checkBalance">>, <<"recallFree", "checkBalance">>,
   <<"recallParked", "checkBalance">>, <<"nextRecall", "checkBalance">>, <<"check", "done">>}

(* Where it goes with the balance it read.                                 *)
Reading ==
  {<<"parkBalance", "park">>, <<"redeemBalance", "redeem">>, <<"measureBalance", "measure">>,
   <<"recallBalance", "recallFree">>, <<"checkBalance", "check">>}

GoesOn(r, m, next) ==
  LET o == mem[r]
      way == <<pc[r], next>>
  IN  \/ way \in Plainly /\ m = o
      \/ way \in Reading /\ m = [o EXCEPT !.seen = balance]
      \/ way \in {<<"sharesAfter", "done">>, <<"redeemed", "done">>} /\ m = o /\ Silence
      \/ way \in {<<"park", "allowance">>, <<"check", "reserve">>} /\ m = o /\ m.amount <= Free(m.seen)
      \/ way = <<"recall", "redeemBalance">> /\ m = o /\ m.pos \in Active
      \/ way = <<"sharesBefore", "subscribe">> /\ m = [o EXCEPT !.seen = fund.shares, !.entry = fund.index]
      \/ way = <<"sharesAfter", "record">> /\ m = [o EXCEPT !.seen = fund.shares - @]
      \/ way = <<"redeemed", "flip">> /\ m = [o EXCEPT !.freed = @ + balance - o.seen]
      \/ way = <<"recallFree", "recallParked">> /\ \E short \in Nat \ {0} : m = [o EXCEPT !.short = short]
      \/ way = <<"recallParked", "nextRecall">> /\ m = [o EXCEPT !.todo = Active] /\ ParkedBalance >= o.short
      \/ way = <<"nextRecall", "recall">> /\ \E c \in o.todo : m = [o EXCEPT !.pos = c, !.todo = @ \ {c}]

(* What is free of a balance is a number, and with the reservations it is  *)
(* no more than the balance.                                               *)
LEMMA FreeIs ==
  ASSUME TreasuryTypes, NEW bal \in Int
  PROVE  Reserved \in Nat /\ Free(bal) \in Nat /\ (Free(bal) > 0 => Free(bal) + Reserved <= bal)
<1>1. IsFiniteSet(Requests) /\ reserved \in [Requests -> Nat]
  BY Constants DEF TreasuryTypes, TypeOK
<1>2. DOMAIN reserved = Requests /\ \A r \in Requests : reserved[r] \in Nat
  BY <1>1
<1>3. SumFunctionOnSet(reserved, Requests) \in Nat
  BY <1>1, <1>2, SumNat
<1>4. Reserved \in Nat
  BY <1>2, <1>3 DEF Reserved, SumFunction
<1> QED BY <1>4 DEF Free

(* The active rows are finitely many.                                      *)
LEMMA ActiveIs ==
  ASSUME TreasuryTypes
  PROVE  /\ DOMAIN positions \subseteq Nat /\ IsFiniteSet(DOMAIN positions)
         /\ Active \subseteq DOMAIN positions /\ IsFiniteSet(Active)
         /\ \A i \in DOMAIN positions : positions[i] \in PositionRows
<1>1. positions \in Seq(PositionRows)
  BY DEF TreasuryTypes, TypeOK
<1>2. DOMAIN positions = 1 .. Len(positions) /\ Len(positions) \in Nat
      /\ \A i \in DOMAIN positions : positions[i] \in PositionRows
  BY <1>1
<1>3. IsFiniteSet(1 .. Len(positions))
  BY <1>2, FS_Interval
<1>4. Active \subseteq DOMAIN positions
  BY DEF Active
<1>5. IsFiniteSet(DOMAIN positions)
  BY <1>2, <1>3
<1> QED BY <1>2, <1>4, <1>5, FS_Subset

(* A step that only decides: where it takes r, and with what.              *)
ThinkStep(r, m, next) ==
  /\ m \in Mems /\ next \in Places
  /\ Moves(r, m, next) /\ UNCHANGED <<books, chain>>
  /\ m.todo \subseteq DOMAIN positions /\ (next \in Recalling => m.pos \in DOMAIN positions)
  /\ Arrives(r, m, next) \/ GoesOn(r, m, next)

(* What a step that only decides does.                                     *)
LEMMA ThinkDoes ==
  ASSUME TreasuryTypes, NEW r \in Requests, Thinks(r)
  PROVE  \E m, next : ThinkStep(r, m, next)
<1> DEFINE o == mem[r]
<1>0. /\ o \in Mems /\ o.todo \subseteq DOMAIN positions /\ balance \in Nat /\ fund \in Funds /\ fund.index > 0
      /\ pc[r] \in Recalling => o.pos \in DOMAIN positions
      /\ pc[r] \in Places /\ DOMAIN positions \subseteq Nat
  BY ActiveIs DEF TreasuryTypes, TypeOK, Funds, Places
<1>1. ASSUME NEW m \in Mems, NEW next \in Places, m.todo \subseteq DOMAIN positions,
             next \in Recalling => m.pos \in DOMAIN positions,
             NEW l \in Places, Decide(r, l, m, next), GoesOn(r, m, next)
      PROVE  \E m1, n1 : ThinkStep(r, m1, n1)
  <2>1. ThinkStep(r, m, next)
    BY <1>1 DEF Decide, Moves, Remember, Go, ThinkStep
  <2> QED BY <2>1
<1>2. ASSUME NEW m \in Mems, NEW next \in Places, m.todo \subseteq DOMAIN positions,
             next \in Recalling => m.pos \in DOMAIN positions,
             NEW kind, Arrive(r, kind, next, m), Arrives(r, m, next)
      PROVE  \E m1, n1 : ThinkStep(r, m1, n1)
  <2>1. ThinkStep(r, m, next)
    BY <1>2 DEF Arrive, Moves, Remember, Go, ThinkStep
  <2> QED BY <2>1
<1>3. ASSUME NEW l \in Places, NEW next \in Places, ReadBalance(r, l, next), <<l, next>> \in Reading
      PROVE  \E m1, n1 : ThinkStep(r, m1, n1)
  <2> DEFINE m == [o EXCEPT !.seen = balance]
  <2>1. m \in Mems /\ m.todo = o.todo /\ m.pos = o.pos
    BY <1>0 DEF Mems
  <2>2. pc[r] = l /\ (next \in Recalling => l \in Recalling)
    BY <1>3 DEF ReadBalance, At, Reading, Recalling
  <2>3. GoesOn(r, m, next)
    BY <1>3, <2>2 DEF GoesOn
  <2>4. Moves(r, m, next) /\ UNCHANGED <<books, chain>>
    BY <1>3 DEF ReadBalance, Moves, Remember, Go
  <2>5. ThinkStep(r, m, next)
    <3> HIDE DEF m, o
    <3> QED BY <1>0, <1>3, <2>1, <2>2, <2>3, <2>4 DEF o, ThinkStep
  <2> QED BY <2>5
<1>4. ASSUME NEW a \in Nat PROVE [Blank EXCEPT !.amount = a] \in Mems
        /\ Fresh([Blank EXCEPT !.amount = a]) /\ [Blank EXCEPT !.amount = a].amount = a
  BY DEF Blank, Mems, Fresh
<1>5. CASE ParkStart(r) \/ PayStart(r)
  <2>1. PICK a \in Amounts, w \in {<<"park", "parkBalance">>, <<"pay", "measureBalance">>} :
          Arrive(r, w[1], w[2], [Blank EXCEPT !.amount = a])
    BY <1>5 DEF ParkStart, PayStart
  <2> DEFINE m == [Blank EXCEPT !.amount = a]
  <2>2. a \in Nat /\ a > 0
    BY Constants
  <2>3. m \in Mems /\ Fresh(m) /\ m.amount = a
    BY <2>2, <1>4
  <2> HIDE DEF m
  <2>4. Arrives(r, m, w[2])
    BY <2>1, <2>2, <2>3 DEF Arrive, Comes, At, Arrives, m
  <2>5. w[2] \in Places /\ w[2] \notin Recalling /\ m.todo = {}
    BY <2>1, <2>3 DEF Places, Running, Recalling, Fresh
  <2> QED BY <1>2, <2>1, <2>3, <2>4, <2>5 DEF m
<1>6. CASE AccrueStart(r)
  <2> DEFINE a == DailyIndex(fund.index)
             m == [Blank EXCEPT !.amount = a]
  <2>1. fund.index * Rate \in Nat /\ fund.index \in Nat /\ Year \in Nat \ {0}
    BY <1>0, Constants DEF Funds
  <2>2. (fund.index * Rate) \div Year \in Nat
    <3>1. Year * 0 <= fund.index * Rate
      BY <2>1
    <3>2. 0 <= (fund.index * Rate) \div Year
      BY <2>1, <3>1, FloorGreatest
    <3> QED BY <2>1, <3>2, Floor
  <2>3. a \in Nat /\ a >= fund.index
    BY <2>1, <2>2 DEF DailyIndex
  <2> HIDE DEF a
  <2>4. m \in Mems /\ Fresh(m) /\ m.amount = a
    BY <2>3, <1>4
  <2>5. Arrive(r, "accrue", "accrue", m)
    BY <1>6 DEF AccrueStart, a
  <2> HIDE DEF m
  <2>6. Arrives(r, m, "accrue")
    BY <2>3, <2>4, <2>5 DEF Arrive, Comes, At, Arrives
  <2>7. "accrue" \in Places /\ "accrue" \notin Recalling /\ m.todo = {}
    BY <2>4 DEF Places, Running, Recalling, Fresh
  <2> QED BY <1>2, <2>4, <2>5, <2>6, <2>7
<1>7. CASE RecallStart(r)
  <2>1. PICK i \in DOMAIN positions : Arrive(r, "recall", "recall", [Blank EXCEPT !.pos = i])
    BY <1>7 DEF RecallStart
  <2> DEFINE m == [Blank EXCEPT !.pos = i]
  <2>2. m \in Mems /\ Fresh(m) /\ m.pos = i /\ m.todo = {}
    BY <1>0 DEF Blank, Mems, Fresh
  <2>3. Arrives(r, m, "recall")
    <3> HIDE DEF m
    <3> QED BY <2>1, <2>2 DEF Arrive, Comes, At, Arrives
  <2>4. "recall" \in Places
    BY DEF Places, Running
  <2> HIDE DEF m
  <2> QED BY <1>2, <2>1, <2>2, <2>3, <2>4 DEF m
<1>8. CASE ParkBalance(r) \/ RedeemBalance(r) \/ MeasureBalance(r) \/ RecallBalance(r) \/ CheckBalance(r)
  <2>1. CASE \E w \in Reading : ReadBalance(r, w[1], w[2])
    <3>1. \A w \in Reading : w[1] \in Places /\ w[2] \in Places /\ w = <<w[1], w[2]>>
      BY DEF Reading, Places, Running
    <3> QED BY <1>3, <2>1, <3>1
  <2>2. CASE Decide(r, "parkBalance", o, "done")
    <3>1. GoesOn(r, o, "done") /\ "done" \in Places /\ "parkBalance" \in Places /\ "done" \notin Recalling
      BY <2>2 DEF Decide, At, GoesOn, Plainly, Places, Running, Recalling
    <3> QED BY <1>0, <1>1, <2>2, <3>1
  <2> QED BY <1>8, <2>1, <2>2 DEF ParkBalance, RedeemBalance, MeasureBalance, RecallBalance, CheckBalance, Reading
(* The decisions that keep what was remembered.                            *)
<1>9. ASSUME NEW l \in Places, NEW next \in Places, Decide(r, l, o, next), GoesOn(r, o, next),
             next \in Recalling => l \in Recalling
      PROVE  \E m1, n1 : ThinkStep(r, m1, n1)
  <2>1. pc[r] = l
    BY <1>9 DEF Decide, At
  <2> QED BY <1>0, <1>1, <1>9, <2>1
<1>10. CASE ParkCheck(r)
  <2>1. Free(o.seen) \in Nat /\ o.amount \in Nat
    BY <1>0, FreeIs DEF Mems
  <2>2. PICK next \in {"done", "allowance"} : Decide(r, "park", o, next) /\ (next = "allowance" => o.amount <= Free(o.seen))
    BY <1>10, <2>1 DEF ParkCheck
  <2>3. GoesOn(r, o, next)
    BY <2>2 DEF Decide, At, GoesOn, Plainly
  <2>4. "park" \in Places /\ next \in Places /\ next \notin Recalling
    BY DEF Places, Running, Recalling
  <2> QED BY <1>9, <2>2, <2>3, <2>4
<1>11. CASE Check(r)
  <2>1. Free(o.seen) \in Nat /\ o.amount \in Nat
    BY <1>0, FreeIs DEF Mems
  <2>2. PICK next \in {"done", "reserve"} : Decide(r, "check", o, next) /\ (next = "reserve" => o.amount <= Free(o.seen))
    BY <1>11, <2>1 DEF Check
  <2>3. GoesOn(r, o, next)
    BY <2>2 DEF Decide, At, GoesOn, Plainly
  <2>4. "check" \in Places /\ next \in Places /\ next \notin Recalling
    BY DEF Places, Running, Recalling
  <2> QED BY <1>9, <2>2, <2>3, <2>4
<1>12. CASE EnsureTreasuryAllowance(r) \/ Recall(r) \/ Measure(r) \/ AnythingParked(r)
  <2>1. PICK l \in {"allowance", "recall", "measure", "parked"}, next \in Places :
          Decide(r, l, o, next) /\ (<<l, next>> \in Plainly \/ (<<l, next>> = <<"recall", "redeemBalance">> /\ o.pos \in Active))
    BY <1>12 DEF EnsureTreasuryAllowance, Recall, Measure, AnythingParked, Plainly, Places, Running
  <2>2. GoesOn(r, o, next)
    BY <2>1 DEF Decide, At, GoesOn
  <2>3. l \in Places /\ (next \in Recalling => l \in Recalling)
    BY <2>1 DEF Places, Running, Recalling, Plainly
  <2> QED BY <1>9, <2>1, <2>2, <2>3
<1>13. CASE SharesBefore(r)
  <2>1. CASE Decide(r, "sharesBefore", o, "done")
    <3>1. GoesOn(r, o, "done") /\ "done" \in Places /\ "sharesBefore" \in Places /\ "done" \notin Recalling
      BY <2>1 DEF Decide, At, GoesOn, Plainly, Places, Running, Recalling
    <3> QED BY <1>9, <2>1, <3>1
  <2>2. CASE Decide(r, "sharesBefore", [o EXCEPT !.seen = fund.shares, !.entry = fund.index], "subscribe")
    <3> DEFINE m == [o EXCEPT !.seen = fund.shares, !.entry = fund.index]
    <3>0. fund.shares \in Nat /\ fund.index \in Nat
      BY <1>0 DEF Funds
    <3>1. m \in Mems /\ m.todo = o.todo
      <4>1. ASSUME NEW x \in Int, NEW y \in Nat, NEW n \in Mems
            PROVE  [n EXCEPT !.seen = x, !.entry = y] \in Mems /\ [n EXCEPT !.seen = x, !.entry = y].todo = n.todo
        BY DEF Mems
      <4>2. fund.shares \in Int
        BY <3>0
      <4> QED BY ONLY <1>0, <3>0, <4>1, <4>2, Zenon
    <3>2. GoesOn(r, m, "subscribe") /\ "subscribe" \in Places /\ "sharesBefore" \in Places /\ "subscribe" \notin Recalling
      BY <2>2 DEF Decide, At, GoesOn, Places, Running, Recalling
    <3> HIDE DEF m
    <3> QED BY <1>0, <1>1, <2>2, <3>1, <3>2 DEF m
  <2> QED BY <1>13, <2>1, <2>2 DEF SharesBefore
(* A read that fails ends the operation.                                   *)
<1>19. ASSUME NEW l \in {"sharesAfter", "redeemed"}, Silence, Decide(r, l, o, "done")
       PROVE  \E m1, n1 : ThinkStep(r, m1, n1)
  <2>1. GoesOn(r, o, "done")
    BY <1>19 DEF Decide, At, GoesOn
  <2>2. l \in Places /\ "done" \in Places /\ "done" \notin Recalling
    BY DEF Places, Running, Recalling
  <2> QED BY <1>9, <1>19, <2>1, <2>2
<1>14. CASE Decide(r, "sharesAfter", [o EXCEPT !.seen = fund.shares - @], "record")
  <2> DEFINE m == [o EXCEPT !.seen = fund.shares - @]
  <2>1. m \in Mems /\ m.todo = o.todo
    BY <1>0 DEF Mems, Funds
  <2>2. Decide(r, "sharesAfter", m, "record")
    BY <1>14
  <2>3. GoesOn(r, m, "record") /\ "record" \in Places /\ "sharesAfter" \in Places /\ "record" \notin Recalling
    BY <2>2 DEF Decide, At, GoesOn, Places, Running, Recalling
  <2> HIDE DEF m
  <2> QED BY <1>0, <1>1, <2>1, <2>2, <2>3
<1>15. CASE Decide(r, "redeemed", [o EXCEPT !.freed = @ + balance - o.seen], "flip")
  <2> DEFINE m == [o EXCEPT !.freed = @ + balance - o.seen]
  <2>1. m \in Mems /\ m.todo = o.todo /\ m.pos = o.pos
    BY <1>0 DEF Mems
  <2>2. Decide(r, "redeemed", m, "flip")
    BY <1>15
  <2>3. GoesOn(r, m, "flip") /\ "flip" \in Places /\ "redeemed" \in Places /\ pc[r] \in Recalling
    BY <2>2 DEF Decide, At, GoesOn, Places, Running, Recalling
  <2> HIDE DEF m
  <2> QED BY <1>0, <1>1, <2>1, <2>2, <2>3
<1>16. CASE RecallFree(r)
  <2> DEFINE short == o.amount - Free(o.seen)
  <2>1. short \in Int
    BY <1>0, FreeIs DEF Mems
  <2>2. CASE short <= 0
    <3>1. Decide(r, "recallFree", o, "checkBalance")
      BY <1>16, <2>2 DEF RecallFree
    <3>2. GoesOn(r, o, "checkBalance") /\ "checkBalance" \in Places /\ "recallFree" \in Places /\ "checkBalance" \notin Recalling
      BY <3>1 DEF Decide, At, GoesOn, Plainly, Places, Running, Recalling
    <3> QED BY <1>9, <3>1, <3>2
  <2>3. CASE ~(short <= 0)
    <3> DEFINE m == [o EXCEPT !.short = short]
    <3>1. Decide(r, "recallFree", m, "recallParked")
      BY <1>16, <2>3 DEF RecallFree
    <3>2. short \in Nat \ {0}
      BY <2>1, <2>3
    <3> HIDE DEF short
    <3>3. m \in Mems /\ m.todo = o.todo
      BY <1>0, <3>2 DEF Mems
    <3>4. GoesOn(r, m, "recallParked") /\ "recallParked" \in Places /\ "recallFree" \in Places /\ "recallParked" \notin Recalling
      BY <3>1, <3>2 DEF Decide, At, GoesOn, Places, Running, Recalling
    <3> HIDE DEF m
    <3> QED BY <1>0, <1>1, <3>1, <3>3, <3>4
  <2> QED BY <2>2, <2>3
<1>17. CASE RecallParked(r)
  <2>1. CASE ParkedBalance < o.short
    <3>1. Decide(r, "recallParked", o, "checkBalance")
      BY <1>17, <2>1 DEF RecallParked
    <3>2. GoesOn(r, o, "checkBalance") /\ "checkBalance" \in Places /\ "recallParked" \in Places /\ "checkBalance" \notin Recalling
      BY <3>1 DEF Decide, At, GoesOn, Plainly, Places, Running, Recalling
    <3> QED BY <1>9, <3>1, <3>2
  <2>2. CASE ~(ParkedBalance < o.short)
    <3> DEFINE m == [o EXCEPT !.todo = Active]
    <3>1. Decide(r, "recallParked", m, "nextRecall")
      BY <1>17, <2>2 DEF RecallParked
    <3>2. m \in Mems /\ m.todo = Active /\ Active \subseteq DOMAIN positions
      BY <1>0, ActiveIs DEF Mems
    <3>3. ParkedBalance >= o.short
      <4>1. ParkedBalance \in Int
        <5>1. \A i \in Active : Values[i] \in Int
          BY <1>0, ActiveIs, Worth DEF Values, PositionRows, Funds
        <5> QED BY <5>1, ActiveIs, SumInt DEF ParkedBalance, IsNumeric
      <4> QED BY <1>0, <2>2, <4>1 DEF Mems
    <3>4. GoesOn(r, m, "nextRecall") /\ "nextRecall" \in Places /\ "recallParked" \in Places /\ "nextRecall" \notin Recalling
      BY <3>1, <3>3 DEF Decide, At, GoesOn, Places, Running, Recalling
    <3> HIDE DEF m
    <3> QED BY <1>1, <3>1, <3>2, <3>4
  <2> QED BY <2>1, <2>2
<1>18. CASE NextRecall(r)
  <2>1. CASE o.freed >= o.short \/ o.todo = {}
    <3>1. Decide(r, "nextRecall", o, "checkBalance")
      BY <1>18, <2>1 DEF NextRecall
    <3>2. GoesOn(r, o, "checkBalance") /\ "checkBalance" \in Places /\ "nextRecall" \in Places /\ "checkBalance" \notin Recalling
      BY <3>1 DEF Decide, At, GoesOn, Plainly, Places, Running, Recalling
    <3> QED BY <1>9, <3>1, <3>2
  <2>2. CASE ~(o.freed >= o.short \/ o.todo = {})
    <3> DEFINE c == Min(o.todo)
               m == [o EXCEPT !.pos = c, !.todo = @ \ {c}]
    <3>1. Decide(r, "nextRecall", m, "recall")
      BY <1>18, <2>2 DEF NextRecall
    <3>2. c \in o.todo
      BY <1>0, <2>2, OldestIs DEF Mems
    <3> HIDE DEF c
    <3>3. m \in Mems /\ m.todo \subseteq o.todo /\ m.pos = c
      BY <1>0, <3>2 DEF Mems
    <3>4. GoesOn(r, m, "recall") /\ "recall" \in Places /\ "nextRecall" \in Places
      BY <3>1, <3>2 DEF Decide, At, GoesOn, Places, Running
    <3> HIDE DEF m
    <3> QED BY <1>0, <1>1, <3>1, <3>2, <3>3, <3>4
  <2> QED BY <2>1, <2>2
<1>20. CASE SharesAfter(r) \/ Redeemed(r)
  BY <1>14, <1>15, <1>19, <1>20 DEF SharesAfter, Redeemed
<1> QED BY <1>5, <1>6, <1>7, <1>8, <1>10, <1>11, <1>12, <1>13, <1>16, <1>17, <1>18, <1>20 DEF Thinks

-----------------------------------------------------------------------------
(* The steps that send or write.                                           *)

(* A request that moves with what it had.                                  *)
LEMMA Stays ==
  ASSUME TreasuryTypes, NEW r \in Requests, NEW next, Go(r, next), UNCHANGED mem
  PROVE  Moves(r, mem[r], next) /\ mem[r] \in Mems /\ mem[r].todo \subseteq DOMAIN positions
<1>1. mem \in [Requests -> Mems] /\ mem[r].todo \subseteq DOMAIN positions
  BY DEF TreasuryTypes, TypeOK
<1>2. mem = [mem EXCEPT ![r] = mem[r]]
  BY <1>1
<1> QED BY <1>1, <1>2 DEF Moves, Go

(* What an accepted transaction makes of the wallet and of the fund.       *)
LEMMA Applied ==
  ASSUME TreasuryTypes, NEW call \in Calls, NEW arg \in Int, arg >= 0 \/ call = "redeem",
         Accepts(call, arg), Apply(call, arg)
  PROVE  /\ balance' \in Nat /\ fund' \in Funds /\ fund'.index >= fund.index
         /\ call = "subscribe" =>
              /\ balance' = balance - arg /\ fund'.index = fund.index
              /\ SharesFor(arg, fund.index) > 0 /\ fund'.shares = fund.shares + SharesFor(arg, fund.index)
         /\ call = "redeem" =>
              /\ balance' = balance + ValueOfShares(arg, fund.index) /\ ValueOfShares(arg, fund.index) \in Nat
              /\ fund'.index = fund.index /\ fund'.shares = fund.shares - arg
         /\ call = "accrue" => balance' = balance /\ fund'.shares = fund.shares
         /\ call = "transfer" => balance' = balance - arg /\ repaid' = repaid + arg /\ fund' = fund
         /\ call # "transfer" => repaid' = repaid
         /\ repaid' \in Nat
<1> DEFINE i == fund.index
<1>0. balance \in Nat /\ fund \in Funds /\ i \in Nat \ {0} /\ fund.shares \in Nat /\ fund.held \in Nat /\ repaid \in Nat
  BY DEF TreasuryTypes, TypeOK, Funds
<1>1. CASE call = "subscribe"
  <2> DEFINE minted == SharesFor(arg, i)
  <2>1. minted \in Nat
    <3>1. arg \in Nat
      BY <1>1
    <3> HIDE DEF i
    <3> QED BY <1>0, <3>1, MintedWorth
  <2>2. minted > 0 /\ balance >= arg /\ arg >= 0
    BY <1>1 DEF Accepts
  <2>3. balance' = balance - arg /\ fund' = [fund EXCEPT !.shares = @ + minted, !.held = @ + arg] /\ repaid' = repaid
    BY <1>1 DEF Apply
  <2> HIDE DEF minted
  <2>4. fund' = [index |-> fund.index, shares |-> fund.shares + minted, held |-> fund.held + arg]
    BY <1>0, <2>3 DEF Funds
  <2>5. fund.shares + minted \in Nat /\ fund.held + arg \in Nat /\ balance - arg \in Nat
    BY <1>0, <2>1, <2>2
  <2> QED BY <1>0, <1>1, <2>2, <2>3, <2>4, <2>5 DEF Funds, minted
<1>2. CASE call = "redeem"
  <2> DEFINE value == ValueOfShares(arg, i)
  <2>1. arg > 0 /\ fund.shares >= arg /\ fund.held >= value
    BY <1>2 DEF Accepts
  <2>2. value \in Nat
    <3>1. i \in Nat /\ i <= i /\ arg >= 0
      BY <1>0, <2>1
    <3> HIDE DEF i
    <3> QED BY <3>1, Worth
  <2>3. balance' = balance + value /\ fund' = [fund EXCEPT !.shares = @ - arg, !.held = @ - value] /\ repaid' = repaid
    BY <1>2 DEF Apply
  <2> HIDE DEF value
  <2>4. fund' = [index |-> fund.index, shares |-> fund.shares - arg, held |-> fund.held - value]
    BY <1>0, <2>3 DEF Funds
  <2>5. fund.shares - arg \in Nat /\ fund.held - value \in Nat /\ balance + value \in Nat
    BY <1>0, <2>1, <2>2
  <2> QED BY <1>0, <1>2, <2>2, <2>3, <2>4, <2>5 DEF Funds, value
<1>3. CASE call = "accrue"
  <2>1. arg >= i
    BY <1>3 DEF Accepts
  <2>2. balance' = balance /\ fund' = [fund EXCEPT !.index = arg] /\ repaid' = repaid
    BY <1>3 DEF Apply
  <2>3. fund' = [index |-> arg, shares |-> fund.shares, held |-> fund.held] /\ arg \in Nat
    BY <1>0, <2>1, <2>2 DEF Funds
  <2> QED BY <1>0, <1>3, <2>1, <2>2, <2>3 DEF Funds
<1>4. CASE call = "transfer"
  <2>1. balance >= arg /\ arg >= 0
    BY <1>4 DEF Accepts
  <2>2. balance' = balance - arg /\ repaid' = repaid + arg /\ fund' = fund
    BY <1>4 DEF Apply
  <2> QED BY <1>0, <1>4, <2>1, <2>2
<1> QED BY <1>1, <1>2, <1>3, <1>4 DEF Calls

(* What became of a transaction: applied, or not; and then it may only     *)
(* land late where transactions get lost.                                  *)
SendStep(r, call, arg, ok, err) ==
  \/ /\ Accepts(call, arg) /\ Apply(call, arg) /\ UNCHANGED mempool
     /\ Moves(r, mem[r], ok)
  \/ /\ UNCHANGED <<balance, fund, repaid>>
     /\ mempool' \subseteq Transactions /\ (~Silence => mempool' = mempool)
     /\ Moves(r, mem[r], err)

(* It is one or the other.                                                 *)
LEMMA SendDoes ==
  ASSUME TreasuryTypes, NEW r \in Requests, NEW call \in Calls, NEW arg \in Int,
         NEW ok, NEW err, Send(r, call, arg, ok, err), UNCHANGED mem
  PROVE  SendStep(r, call, arg, ok, err)
<1>1. mempool \subseteq Transactions
  BY DEF TreasuryTypes, TypeOK, Transactions, Calls
<1>2. CASE Accepts(call, arg) /\ Apply(call, arg) /\ Go(r, ok) /\ UNCHANGED mempool
  BY <1>2, Stays DEF SendStep
<1>3. CASE UNCHANGED <<balance, fund, repaid>> /\ Go(r, err) /\ UNCHANGED mempool
  BY <1>1, <1>3, Stays DEF SendStep
<1>4. CASE /\ UNCHANGED <<balance, fund, repaid>> /\ Go(r, err)
           /\ Silence /\ arg >= 0
           /\ mempool' = mempool \union {[call |-> call, arg |-> arg, by |-> r]}
  <2>1. [call |-> call, arg |-> arg, by |-> r] \in Transactions
    BY <1>4 DEF Transactions
  <2>2. mempool' \subseteq Transactions
    BY <1>1, <1>4, <2>1
  <2> QED BY <1>4, <2>2, Stays DEF SendStep
<1> QED BY <1>2, <1>3, <1>4 DEF Send

(* The transactions.                                                       *)
LEMMA CallsDo ==
  ASSUME TreasuryTypes, NEW r \in Requests
  PROVE  /\ Subscribe(r) => /\ At(r, "subscribe") /\ mem[r].amount \in Nat /\ UNCHANGED <<books, paid, mem>>
                            /\ SendStep(r, "subscribe", mem[r].amount, "sharesAfter", "done")
         /\ Redeem(r) => /\ At(r, "redeem") /\ mem[r].pos \in DOMAIN positions /\ UNCHANGED <<books, paid, mem>>
                         /\ positions[mem[r].pos].shares \in Int
                         /\ SendStep(r, "redeem", positions[mem[r].pos].shares, "redeemed", "done")
         /\ Accrue(r) => /\ At(r, "accrue") /\ mem[r].amount \in Nat /\ UNCHANGED <<books, paid, mem>>
                         /\ SendStep(r, "accrue", mem[r].amount, "done", "done")
         /\ CompensateSender(r) =>
              /\ At(r, "settled") /\ mem[r].amount \in Nat /\ UNCHANGED <<books, paid, mem>>
              /\ MayCome("compensate") /\ (SendStep(r, "transfer", mem[r].amount, "done", "settled")
                                          \/ SendStep(r, "transfer", mem[r].amount, "settled", "settled"))
<1>1. mem[r].amount \in Nat /\ mem[r].amount \in Int
  BY DEF TreasuryTypes, Mems
<1>2. ASSUME At(r, "redeem")
      PROVE  mem[r].pos \in DOMAIN positions /\ positions[mem[r].pos].shares \in Int
  BY <1>2, ActiveIs DEF TreasuryTypes, At, Recalling, PositionRows
<1>3. ASSUME Subscribe(r)
      PROVE  SendStep(r, "subscribe", mem[r].amount, "sharesAfter", "done")
  BY <1>1, <1>3, SendDoes DEF Subscribe, Calls
<1>4. ASSUME Redeem(r)
      PROVE  SendStep(r, "redeem", positions[mem[r].pos].shares, "redeemed", "done")
  BY <1>2, <1>4, SendDoes DEF Redeem, Calls
<1>5. ASSUME Accrue(r)
      PROVE  SendStep(r, "accrue", mem[r].amount, "done", "done")
  BY <1>1, <1>5, SendDoes DEF Accrue, Calls
<1>6. ASSUME CompensateSender(r)
      PROVE  \/ SendStep(r, "transfer", mem[r].amount, "done", "settled")
             \/ SendStep(r, "transfer", mem[r].amount, "settled", "settled")
  <2>1. "transfer" \in Calls /\ UNCHANGED mem
    BY <1>6 DEF Calls, CompensateSender
  <2>2. \/ Send(r, "transfer", mem[r].amount, "done", "settled")
        \/ Send(r, "transfer", mem[r].amount, "settled", "settled")
    BY <1>6 DEF CompensateSender
  <2> QED BY <1>1, <2>1, <2>2, SendDoes
<1> QED BY <1>1, <1>2, <1>3, <1>4, <1>5, <1>6 DEF Subscribe, Redeem, Accrue, CompensateSender

(* A settlement brings its amount.                                         *)
SettleStep(r, m) ==
  /\ m \in Mems /\ Fresh(m) /\ m.amount > 0 /\ At(r, "idle") /\ MayCome("settle") /\ Moves(r, m, "settled")
  /\ balance' = balance + m.amount /\ UNCHANGED <<fund, positions, reserved, paid, repaid, mempool, env>>

LEMMA SettleDoes ==
  ASSUME TreasuryTypes, NEW r \in Requests, Settle(r)
  PROVE  \E m : SettleStep(r, m)
<1>1. PICK a \in Amounts : balance' = balance + a /\ Remember(r, [Blank EXCEPT !.amount = a])
  BY DEF Settle
<1> DEFINE m == [Blank EXCEPT !.amount = a]
<1>2. a \in Nat /\ a > 0
  BY Constants
<1>3. m \in Mems /\ Fresh(m) /\ m.amount = a
  BY <1>2 DEF Blank, Mems, Fresh
<1> HIDE DEF m
<1>4. At(r, "idle") /\ MayCome("settle") /\ Moves(r, m, "settled")
  BY <1>1 DEF Settle, Comes, Moves, Remember, Go, m
<1>5. UNCHANGED <<fund, positions, reserved, paid, repaid, mempool, env>>
  BY DEF Settle, books
<1> QED BY <1>1, <1>2, <1>3, <1>4, <1>5 DEF SettleStep

(* A transaction keeps the types, and the index does not fall.             *)
LEMMA CallTypes ==
  ASSUME TreasuryTypes, NEW r \in Requests, NEW call \in Calls, NEW arg \in Int,
         arg >= 0 \/ call = "redeem", NEW ok \in Places, NEW err \in Places \ Recalling,
         ok \in Recalling => pc[r] \in Recalling,
         SendStep(r, call, arg, ok, err), UNCHANGED <<books, paid, mem>>
  PROVE  TreasuryTypes' /\ fund'.index >= fund.index
<1>0. /\ balance \in Nat /\ fund \in Funds /\ fund.index > 0 /\ fund.index \in Nat /\ mempool \subseteq Transactions
      /\ repaid \in Nat /\ positions \in Seq(PositionRows) /\ reserved \in [Requests -> Nat] /\ paid \subseteq Requests
      /\ mem[r] \in Mems /\ mem[r].todo \subseteq DOMAIN positions
      /\ pc[r] \in Recalling => mem[r].pos \in DOMAIN positions
  BY DEF TreasuryTypes, TypeOK, Funds, Transactions, Calls
<1>1. UNCHANGED <<positions, reserved, env, paid>>
  BY DEF books
<1>2. CASE Accepts(call, arg) /\ Apply(call, arg) /\ UNCHANGED mempool /\ Moves(r, mem[r], ok)
  <2>1. balance' \in Nat /\ repaid' \in Nat /\ fund' \in Funds /\ fund'.index >= fund.index
    BY <1>2, Applied
  <2>2. fund'.index \in Nat /\ fund'.index > 0
    BY <1>0, <2>1 DEF Funds
  <2> QED BY <1>0, <1>1, <1>2, <2>1, <2>2, TypesKept
<1>3. CASE /\ UNCHANGED <<balance, fund, repaid>> /\ mempool' \subseteq Transactions
           /\ Moves(r, mem[r], err)
  <2>1. TreasuryTypes'
    BY <1>0, <1>1, <1>3, TypesKept
  <2> QED BY <1>0, <1>3, <2>1
<1> QED BY <1>2, <1>3 DEF SendStep

(* Writes to the rows.                                                     *)
LEMMA WriteTypes ==
  ASSUME TreasuryTypes, NEW r \in Requests, RecordPosition(r) \/ FlipPosition(r)
  PROVE  TreasuryTypes' /\ UNCHANGED fund
<1>0. /\ balance \in Nat /\ fund \in Funds /\ fund.index > 0 /\ mempool \subseteq Transactions
      /\ repaid \in Nat /\ positions \in Seq(PositionRows) /\ reserved \in [Requests -> Nat] /\ paid \subseteq Requests
      /\ mem[r] \in Mems /\ mem[r].todo \subseteq DOMAIN positions
      /\ pc[r] \in Recalling => mem[r].pos \in DOMAIN positions
  BY DEF TreasuryTypes, TypeOK, Funds, Transactions, Calls
<1>1. UNCHANGED <<balance, fund, reserved, paid, repaid, mempool, env, mem>>
  BY DEF RecordPosition, FlipPosition, chain
<1>2. PICK next \in {"done", "nextRecall"} : Go(r, next)
  BY DEF RecordPosition, FlipPosition
<1>3. Moves(r, mem[r], next)
  BY <1>1, <1>2, Stays
<1>4. positions' \in Seq(PositionRows) /\ DOMAIN positions \subseteq DOMAIN positions'
  <2>1. CASE UNCHANGED positions
    BY <1>0, <2>1
  <2>2. CASE RecordPosition(r) /\ ~UNCHANGED positions
    <3> DEFINE row == [shares |-> mem[r].seen, amountIn |-> mem[r].amount, entry |-> mem[r].entry, status |-> "ACTIVE"]
    <3>1. positions' = Append(positions, row)
      BY <2>2 DEF RecordPosition
    <3>2. row \in PositionRows
      BY <1>0 DEF Mems, PositionRows
    <3> HIDE DEF row
    <3> QED BY <1>0, <3>1, <3>2
  <2>3. CASE FlipPosition(r) /\ ~UNCHANGED positions
    <3>1. positions' = [positions EXCEPT ![mem[r].pos].status = "RECALLED"] /\ pc[r] \in Recalling
      BY <2>3 DEF FlipPosition, At, Recalling
    <3>2. mem[r].pos \in DOMAIN positions /\ positions[mem[r].pos] \in PositionRows
      BY <1>0, <3>1, ActiveIs
    <3> DEFINE row == [positions[mem[r].pos] EXCEPT !.status = "RECALLED"]
    <3>3. positions' = [positions EXCEPT ![mem[r].pos] = row]
      BY <3>1
    <3>4. row \in PositionRows
      BY <3>2 DEF PositionRows
    <3> HIDE DEF row
    <3> QED BY <1>0, <3>2, <3>3, <3>4
  <2> QED BY <2>1, <2>2, <2>3
<1>5. next \in Places /\ next \notin Recalling
  BY <1>2 DEF Places, Running, Recalling
<1>6. mem[r].todo \subseteq DOMAIN positions'
  BY <1>0, <1>4
<1>7. fund'.index > 0
  BY <1>0, <1>1
<1> QED BY <1>0, <1>1, <1>3, <1>4, <1>5, <1>6, <1>7, TypesKept

(* The steps of a payment that reserve, pay and end a reservation.         *)
LEMMA PayTypes ==
  ASSUME TreasuryTypes, NEW r \in Requests, Reserve(r) \/ Payout(r) \/ EndReservation(r)
  PROVE  TreasuryTypes' /\ UNCHANGED fund
<1>0. /\ balance \in Nat /\ fund \in Funds /\ fund.index > 0 /\ mempool \subseteq Transactions
      /\ repaid \in Nat /\ positions \in Seq(PositionRows) /\ reserved \in [Requests -> Nat] /\ paid \subseteq Requests
      /\ mem[r] \in Mems /\ mem[r].todo \subseteq DOMAIN positions /\ mem[r].amount \in Nat
  BY DEF TreasuryTypes, TypeOK, Funds, Transactions, Calls, Mems
<1>1. UNCHANGED <<fund, positions, repaid, mempool, env, mem>>
  BY DEF Reserve, Payout, EndReservation, books, chain
<1>2. PICK next \in {"payout", "done", "consume", "release"} : Go(r, next)
  BY DEF Reserve, Payout, EndReservation
<1>3. Moves(r, mem[r], next)
  BY <1>1, <1>2, Stays
<1>4. balance' \in Nat /\ reserved' \in [Requests -> Nat] /\ paid' \subseteq Requests
  <2>1. CASE Reserve(r)
    <3>1. balance' = balance /\ paid' = paid
      BY <2>1 DEF Reserve, chain
    <3>2. reserved' = [reserved EXCEPT ![r] = mem[r].amount] \/ reserved' = reserved
      BY <2>1 DEF Reserve
    <3> QED BY <1>0, <3>1, <3>2
  <2>2. CASE Payout(r)
    <3>1. reserved' = reserved
      BY <2>2 DEF Payout, books
    <3> QED BY <1>0, <2>2, <3>1 DEF Payout
  <2>3. CASE EndReservation(r)
    <3>1. balance' = balance /\ paid' = paid
      BY <2>3 DEF EndReservation, chain
    <3>2. reserved' = [reserved EXCEPT ![r] = 0] \/ reserved' = reserved
      BY <2>3 DEF EndReservation
    <3> QED BY <1>0, <3>1, <3>2
  <2> QED BY <2>1, <2>2, <2>3
<1>5. next \in Places /\ next \notin Recalling
  BY <1>2 DEF Places, Running, Recalling
<1>6. fund'.index > 0
  BY <1>0, <1>1
<1> QED BY <1>0, <1>1, <1>3, <1>4, <1>5, <1>6, TypesKept

(* A settlement.                                                           *)
LEMMA SettleTypes ==
  ASSUME TreasuryTypes, NEW r \in Requests, Settle(r)
  PROVE  TreasuryTypes' /\ UNCHANGED fund
<1>1. PICK m : SettleStep(r, m)
  BY SettleDoes
<1>2. /\ balance \in Nat /\ fund \in Funds /\ fund.index > 0 /\ mempool \subseteq Transactions
      /\ repaid \in Nat /\ positions \in Seq(PositionRows) /\ reserved \in [Requests -> Nat] /\ paid \subseteq Requests
  BY DEF TreasuryTypes, TypeOK, Funds, Transactions, Calls
<1>3. m \in Mems /\ m.amount \in Nat /\ m.todo = {} /\ Moves(r, m, "settled")
      /\ balance' = balance + m.amount /\ UNCHANGED <<fund, positions, reserved, paid, repaid, mempool, env>>
  BY <1>1 DEF SettleStep, Fresh, Mems
<1>4. "settled" \in Places /\ "settled" \notin Recalling
  BY DEF Places, Recalling
<1>5. balance' \in Nat /\ fund'.index > 0
  BY <1>2, <1>3
<1> QED BY <1>2, <1>3, <1>4, <1>5, TypesKept

(* Crash, resting and late transactions.                                   *)
LEMMA OtherTypes ==
  ASSUME TreasuryTypes, Crash \/ Rest \/ (\E tx \in mempool : Land(tx)) \/ UNCHANGED vars
  PROVE  TreasuryTypes' /\ fund'.index >= fund.index
<1>0. /\ balance \in Nat /\ fund \in Funds /\ fund.index > 0 /\ fund.index \in Nat /\ mempool \subseteq Transactions
      /\ repaid \in Nat /\ pc \in [Requests -> Places]
  BY DEF TreasuryTypes, TypeOK, Funds, Transactions, Calls, Places
<1>1. CASE Rest \/ UNCHANGED vars
  <2>1. UNCHANGED vars
    BY <1>1 DEF Rest
  <2>2. UNCHANGED <<balance, fund, positions, reserved, paid, repaid, mempool, pc, mem, env>>
    BY <2>1 DEF vars
  <2> QED BY <1>0, <2>2 DEF TreasuryTypes, TypeOK, Recalling, PositionRows
<1>2. CASE Crash
  <2>1. UNCHANGED <<balance, fund, positions, reserved, paid, repaid, mempool, mem, env>>
    BY <1>2 DEF Crash, books, chain
  <2>2. pc' = [r \in Requests |-> IF pc[r] \in Running THEN "dead" ELSE pc[r]]
    BY <1>2 DEF Crash
  <2>3. pc' \in [Requests -> Places] /\ \A r \in Requests : pc'[r] \notin Recalling
    BY <1>0, <2>2 DEF Places, Recalling, Running
  <2> QED BY <1>0, <2>1, <2>3 DEF TreasuryTypes, TypeOK, PositionRows, Places
<1>3. CASE \E tx \in mempool : Land(tx)
  <2>1. PICK tx \in mempool : Land(tx)
    BY <1>3
  <2>2. tx.call \in Calls /\ tx.arg \in Nat
    BY <1>0, <2>1 DEF Transactions
  <2>3. UNCHANGED <<positions, reserved, paid, pc, mem, env>> /\ mempool' \subseteq mempool
    BY <2>1 DEF Land, books
  <2>4. balance' \in Nat /\ repaid' \in Nat /\ fund' \in Funds /\ fund'.index >= fund.index
    <3>1. CASE Accepts(tx.call, tx.arg) /\ Apply(tx.call, tx.arg)
      BY <2>2, <3>1, Applied
    <3>2. CASE UNCHANGED <<balance, fund, repaid>>
      BY <1>0, <3>2
    <3> QED BY <2>1, <3>1, <3>2 DEF Land
  <2>5. fund'.index > 0
    BY <1>0, <2>4 DEF Funds
  <2>6. mempool' \subseteq Transactions
    BY <1>0, <2>3
  <2> QED BY <2>3, <2>4, <2>5, <2>6 DEF TreasuryTypes, TypeOK, Recalling, PositionRows, Funds, Transactions, Calls
<1> QED BY <1>1, <1>2, <1>3

(* Every step of Next, by what it does.                                    *)
LEMMA NextIs ==
  ASSUME [Next]_vars
  PROVE  \/ \E r \in Requests : Thinks(r)
         \/ \E r \in Requests : Subscribe(r) \/ Redeem(r) \/ Accrue(r)
         \/ \E r \in Requests : RecordPosition(r) \/ FlipPosition(r)
         \/ \E r \in Requests : Reserve(r) \/ Payout(r) \/ EndReservation(r)
         \/ \E r \in Requests : Settle(r) \/ CompensateSender(r)
         \/ Crash \/ Rest \/ (\E tx \in mempool : Land(tx)) \/ UNCHANGED vars
BY DEF Next, Step, Thinks

(* A step keeps the types, and the index never falls.                      *)
LEMMA TypesStep ==
  ASSUME TreasuryTypes, [Next]_vars
  PROVE  TreasuryTypes' /\ fund'.index >= fund.index
<1>0. fund.index \in Nat
  BY DEF TreasuryTypes, TypeOK
<1>1. ASSUME NEW r \in Requests, Thinks(r) PROVE TreasuryTypes' /\ fund'.index >= fund.index
  <2>1. PICK m, next : ThinkStep(r, m, next)
    BY <1>1, ThinkDoes
  <2>2. TreasuryTypes'
    BY <2>1, ThinkingTypes DEF ThinkStep
  <2>3. fund' = fund
    BY <2>1 DEF ThinkStep, chain
  <2> QED BY <1>0, <2>2, <2>3
<1>2. ASSUME NEW r \in Requests, Subscribe(r) \/ Redeem(r) \/ Accrue(r)
      PROVE  TreasuryTypes' /\ fund'.index >= fund.index
  <2>0. /\ "sharesAfter" \in Places \ Recalling /\ "redeemed" \in Places /\ "done" \in Places \ Recalling
        /\ "subscribe" \in Calls /\ "redeem" \in Calls /\ "accrue" \in Calls
    BY DEF Places, Running, Recalling, Calls
  <2>1. CASE Subscribe(r)
    BY <2>0, <2>1, CallsDo, CallTypes
  <2>2. CASE Redeem(r)
    <3>1. pc[r] \in Recalling
      BY <2>2 DEF Redeem, At, Recalling
    <3> QED BY <2>0, <2>2, <3>1, CallsDo, CallTypes
  <2>3. CASE Accrue(r)
    BY <2>0, <2>3, CallsDo, CallTypes
  <2> QED BY <1>2, <2>1, <2>2, <2>3
<1>3. ASSUME NEW r \in Requests, RecordPosition(r) \/ FlipPosition(r) PROVE TreasuryTypes' /\ fund'.index >= fund.index
  BY <1>0, <1>3, WriteTypes
<1>4. ASSUME NEW r \in Requests, Reserve(r) \/ Payout(r) \/ EndReservation(r)
      PROVE  TreasuryTypes' /\ fund'.index >= fund.index
  BY <1>0, <1>4, PayTypes
<1>5. ASSUME NEW r \in Requests, Settle(r) PROVE TreasuryTypes' /\ fund'.index >= fund.index
  BY <1>0, <1>5, SettleTypes
<1>6. ASSUME NEW r \in Requests, CompensateSender(r) PROVE TreasuryTypes' /\ fund'.index >= fund.index
  <2>1. "done" \in Places \ Recalling /\ "settled" \in Places \ Recalling /\ "transfer" \in Calls
    BY DEF Places, Recalling, Running, Calls
  <2> QED BY <1>6, <2>1, CallsDo, CallTypes
<1> QED BY <1>1, <1>2, <1>3, <1>4, <1>5, <1>6, NextIs, OtherTypes

(* The first state has the types.                                          *)
LEMMA InitTypes ==
  ASSUME Init
  PROVE  TreasuryTypes
<1>1. fund = [index |-> Scale, shares |-> 0, held |-> Buffer] /\ Scale \in Nat \ {0} /\ Buffer \in Nat /\ Opening \in Nat
  BY Constants DEF Init
<1>2. Blank \in Mems /\ Blank.todo = {} /\ DOMAIN Blank = DOMAIN Blank
  BY DEF Blank, Mems
<1>3. mem \in [Requests -> Mems] /\ \A r \in Requests : mem[r] = Blank
  BY <1>2 DEF Init
<1>4. pc \in [Requests -> Places] /\ \A r \in Requests : pc[r] \notin Recalling
  BY DEF Init, Places, Recalling
<1>5. positions \in Seq(PositionRows) /\ reserved \in [Requests -> Nat]
  BY DEF Init
<1> QED BY <1>1, <1>2, <1>3, <1>4, <1>5 DEF Init, TreasuryTypes, TypeOK, Places

(* Types, in every reachable state.                                        *)
LEMMA TypesAlways == Spec => []TreasuryTypes
<1>1. TreasuryTypes /\ [Next]_vars => TreasuryTypes'
  BY TypesStep
<1> QED BY InitTypes, <1>1, PTL DEF Spec

(* Type correctness: no overdraft of wallet, fund or shares, and every     *)
(* index a request remembers is one of a row.                              *)
THEOREM TreasuryTyped == Spec => []TypeOK
<1>1. TreasuryTypes => TypeOK
  BY DEF TreasuryTypes
<1> QED BY <1>1, TypesAlways, PTL

-----------------------------------------------------------------------------
(* The wallet and the reservations as a pool.                              *)

(* What a step of r does that parks and payments could notice.             *)
Shift(r, m, next) ==
  /\ m \in Mems /\ next \in Places /\ Moves(r, m, next) /\ env' = env
  /\ ~Silence => mempool' = mempool
  /\ Claims(r) \/ Idle \/ (Wealth' >= Wealth /\ reserved' = reserved)
  /\ ClaimsAt(next, m.short) =>
       \/ Claims(r) /\ m.amount = mem[r].amount
       \/ (MayCome("park") \/ MayCome("pay")) /\ m.amount > 0
  /\ next \in {"park", "check"} => m.seen <= Wealth'
  /\ next \in Holding =>
       /\ Wealth' = Wealth /\ reserved' = reserved /\ m.amount = mem[r].amount
       /\ pc[r] \in Holding \/ (pc[r] \in {"park", "check"} /\ mem[r].amount <= Free(mem[r].seen))

(* Wealth is a number, no less than the balance, and moves with it where   *)
(* no compensation does.                                                   *)
LEMMA WealthIs ==
  ASSUME TreasuryTypes
  PROVE  /\ Taken \in Nat /\ Wealth \in Nat /\ balance <= Wealth /\ (~Exposed => Wealth = balance)
         /\ env' = env /\ repaid' = repaid => Taken' = Taken
         /\ env' = env /\ repaid' = repaid /\ balance' = balance => Wealth' = Wealth
         /\ env' = env /\ repaid' = repaid /\ balance' \in Nat /\ balance' >= balance => Wealth' >= Wealth
<1>1. repaid \in Nat /\ balance \in Nat
  BY DEF TreasuryTypes, TypeOK
<1>2. Taken \in Nat /\ (~Exposed => Taken = 0)
  BY <1>1 DEF Taken
<1>3. env' = env /\ repaid' = repaid => Taken' = Taken
  BY DEF Taken, Exposed
<1> HIDE DEF Taken
<1> QED BY <1>1, <1>2, <1>3 DEF Wealth

(* A step that only decides shifts the turn as it may.                     *)
LEMMA ThinkShifts ==
  ASSUME TreasuryTypes, NEW r \in Requests, NEW m, NEW next, ThinkStep(r, m, next)
  PROVE  Shift(r, m, next)
<1>0. /\ balance \in Nat /\ mem[r] \in Mems /\ pc[r] \in Places
      /\ m \in Mems /\ next \in Places /\ Moves(r, m, next)
      /\ UNCHANGED <<balance, reserved, repaid, mempool, env>>
  BY DEF TreasuryTypes, TypeOK, Places, ThinkStep, books, chain
<1>1. Wealth \in Nat /\ balance <= Wealth /\ Wealth' = Wealth
  BY <1>0, WealthIs
<1>2. CASE Arrives(r, m, next)
  BY <1>0, <1>1, <1>2 DEF Arrives, Fresh, Shift, ClaimsAt, Parking, PayingPlaces, Recalling, Holding
<1>3. CASE GoesOn(r, m, next)
  <2>1. /\ m.amount = mem[r].amount
        /\ next \in {"park", "check"} => m.seen = balance
    BY <1>0, <1>3 DEF GoesOn, Plainly, Reading, Mems
  <2>2. ClaimsAt(next, m.short) => Claims(r)
    BY <1>0, <1>3 DEF GoesOn, Plainly, Reading, Claims, ClaimsAt, Parking, PayingPlaces, Recalling, Mems
  <2>3. next \in Holding => pc[r] \in Holding \/ (pc[r] \in {"park", "check"} /\ mem[r].amount <= Free(mem[r].seen))
    BY <1>0, <1>3 DEF GoesOn, Plainly, Reading, Holding
  <2> QED BY <1>0, <1>1, <2>1, <2>2, <2>3 DEF Shift
<1> QED BY <1>2, <1>3 DEF ThinkStep

(* So does a transaction, a write, and a step of a reservation.            *)
LEMMA ActShifts ==
  ASSUME TreasuryTypes, NEW r \in Requests,
         \/ Subscribe(r) \/ Redeem(r) \/ Accrue(r)
         \/ RecordPosition(r) \/ FlipPosition(r)
         \/ Reserve(r) \/ Payout(r) \/ EndReservation(r) \/ CompensateSender(r)
  PROVE  \E next : Shift(r, mem[r], next)
<1>0. /\ balance \in Nat /\ repaid \in Nat /\ mem[r] \in Mems /\ pc[r] \in Places
      /\ mem \in [Requests -> Mems] /\ fund.index \in Nat /\ fund.index > 0
  BY DEF TreasuryTypes, TypeOK, Places
<1>1. ASSUME NEW next \in {"sharesAfter", "done", "settled", "redeemed", "nextRecall", "payout", "consume", "release"},
             Moves(r, mem[r], next), env' = env, ~Silence => mempool' = mempool,
             Claims(r) \/ Idle \/ (Wealth' >= Wealth /\ reserved' = reserved),
             ClaimsAt(next, mem[r].short) => Claims(r)
      PROVE  Shift(r, mem[r], next)
  BY <1>0, <1>1 DEF Shift, Places, Running, Holding
<1>2. CASE Subscribe(r)
  <2>1. env' = env /\ Claims(r)
    BY <1>2 DEF Subscribe, books, At, Claims, ClaimsAt, Parking
  <2>2. SendStep(r, "subscribe", mem[r].amount, "sharesAfter", "done")
    BY <1>2, CallsDo
  <2> QED BY <1>1, <2>1, <2>2 DEF SendStep
<1>3. CASE Redeem(r)
  <2> DEFINE shares == positions[mem[r].pos].shares
  <2>1. env' = env /\ reserved' = reserved /\ pc[r] = "redeem"
    BY <1>3 DEF Redeem, books, At
  <2>2. SendStep(r, "redeem", shares, "redeemed", "done") /\ shares \in Int
    BY <1>3, CallsDo
  <2> HIDE DEF shares
  <2>3. ClaimsAt("redeemed", mem[r].short) => Claims(r)
    BY <2>1 DEF Claims, ClaimsAt, Parking, PayingPlaces, Recalling
  <2>4. ~ClaimsAt("done", mem[r].short)
    BY DEF ClaimsAt, Parking, PayingPlaces, Recalling
  <2>5. CASE /\ Accepts("redeem", shares) /\ Apply("redeem", shares) /\ UNCHANGED mempool
             /\ Moves(r, mem[r], "redeemed")
    <3>1. balance' = balance + ValueOfShares(shares, fund.index) /\ ValueOfShares(shares, fund.index) \in Nat
      BY <2>2, <2>5, Applied DEF Calls
    <3>2. balance' >= balance /\ balance' \in Nat /\ repaid' = repaid
      BY <1>0, <2>2, <2>5, <3>1, Applied DEF Calls
    <3>3. Wealth' >= Wealth
      BY <2>1, <3>2, WealthIs
    <3> QED BY <1>1, <2>1, <2>3, <2>5, <3>3
  <2>6. CASE /\ UNCHANGED <<balance, fund, repaid>> /\ (~Silence => mempool' = mempool)
             /\ Moves(r, mem[r], "done")
    <3>1. Wealth' = Wealth /\ Wealth \in Nat
      BY <2>1, <2>6, WealthIs
    <3> QED BY <1>1, <2>1, <2>4, <2>6, <3>1
  <2> QED BY <2>2, <2>5, <2>6 DEF SendStep
<1>4. CASE Accrue(r)
  <2>1. env' = env /\ reserved' = reserved
    BY <1>4 DEF Accrue, books
  <2>2. SendStep(r, "accrue", mem[r].amount, "done", "done") /\ mem[r].amount \in Nat
    BY <1>4, CallsDo
  <2>3. ~ClaimsAt("done", mem[r].short)
    BY DEF ClaimsAt, Parking, PayingPlaces, Recalling
  <2>4. balance' = balance /\ repaid' = repaid
    <3>1. CASE Accepts("accrue", mem[r].amount) /\ Apply("accrue", mem[r].amount)
      BY <2>2, <3>1, Applied DEF Calls
    <3> QED BY <2>2, <3>1 DEF SendStep
  <2>5. Wealth' = Wealth /\ Wealth \in Nat
    BY <2>1, <2>4, WealthIs
  <2>6. Moves(r, mem[r], "done") /\ (~Silence => mempool' = mempool)
    BY <2>2 DEF SendStep
  <2> QED BY <1>1, <2>1, <2>3, <2>5, <2>6
<1>5. CASE RecordPosition(r) \/ FlipPosition(r)
  <2>1. UNCHANGED <<balance, reserved, repaid, mempool, env, mem>> /\ pc[r] \in {"record", "flip"}
    BY <1>5 DEF RecordPosition, FlipPosition, chain, At
  <2>2. PICK next \in {"done", "nextRecall"} : Go(r, next) /\ (next = "nextRecall" => pc[r] = "flip" /\ mem[r].short > 0)
    BY <1>5 DEF RecordPosition, FlipPosition, Paying, At
  <2>3. Moves(r, mem[r], next)
    BY <2>1, <2>2, Stays
  <2>4. ClaimsAt(next, mem[r].short) => Claims(r)
    BY <2>2 DEF Claims, ClaimsAt, Parking, PayingPlaces, Recalling
  <2>5. Wealth' = Wealth /\ Wealth \in Nat
    BY <2>1, WealthIs
  <2> QED BY <1>1, <2>1, <2>2, <2>3, <2>4, <2>5
<1>6. CASE Reserve(r) \/ Payout(r) \/ EndReservation(r)
  <2>1. UNCHANGED <<mempool, env, mem>> /\ Claims(r)
    BY <1>6 DEF Reserve, Payout, EndReservation, books, chain, At, Claims, ClaimsAt, PayingPlaces
  <2>2. PICK next \in {"payout", "done", "consume", "release"} : Go(r, next)
    BY <1>6 DEF Reserve, Payout, EndReservation
  <2>3. Moves(r, mem[r], next)
    BY <2>1, <2>2, Stays
  <2> QED BY <1>1, <2>1, <2>2, <2>3
<1>7. CASE CompensateSender(r)
  <2>1. /\ MayCome("compensate") /\ UNCHANGED <<env, reserved>> /\ mem[r].amount \in Nat
    BY <1>7, CallsDo DEF books
  <2>2. PICK ok \in {"done", "settled"} : SendStep(r, "transfer", mem[r].amount, ok, "settled")
    BY <1>7, CallsDo
  <2>3. PICK next \in {"done", "settled"} : Moves(r, mem[r], next) /\ (~Silence => mempool' = mempool)
    BY <2>2 DEF SendStep
  <2>4. Idle \/ Wealth' >= Wealth
    <3> SUFFICES ASSUME ~Idle PROVE Wealth' >= Wealth
      OBVIOUS
    <3>1. Exposed
      BY <2>1 DEF MayCome, Exposed
    <3>2. Taken = repaid /\ Taken' = repaid'
      BY <2>1, <3>1 DEF Taken, Exposed
    <3>3. CASE Accepts("transfer", mem[r].amount) /\ Apply("transfer", mem[r].amount)
      <4>1. balance' = balance - mem[r].amount /\ repaid' = repaid + mem[r].amount
        BY <2>1, <3>3, Applied DEF Calls
      <4> QED BY <1>0, <2>1, <3>2, <4>1 DEF Wealth
    <3>4. CASE UNCHANGED <<balance, fund, repaid>>
      BY <1>0, <3>2, <3>4 DEF Wealth
    <3> QED BY <2>2, <3>3, <3>4 DEF SendStep
  <2>5. ~ClaimsAt("done", mem[r].short) /\ ~ClaimsAt("settled", mem[r].short)
    BY DEF ClaimsAt, Parking, PayingPlaces, Recalling
  <2> QED BY <1>1, <2>1, <2>3, <2>4, <2>5
<1> QED BY <1>2, <1>3, <1>4, <1>5, <1>6, <1>7

(* And so does a settlement.                                               *)
LEMMA SettleShifts ==
  ASSUME TreasuryTypes, NEW r \in Requests, NEW m, SettleStep(r, m)
  PROVE  Shift(r, m, "settled")
<1>1. /\ m \in Mems /\ Fresh(m) /\ m.amount \in Nat /\ Moves(r, m, "settled")
      /\ balance' = balance + m.amount /\ UNCHANGED <<reserved, repaid, mempool, env>>
  BY DEF SettleStep, Mems
<1>2. balance \in Nat /\ "settled" \in Places /\ "settled" \notin {"park", "check"} \union Holding
  BY DEF TreasuryTypes, TypeOK, Places, Holding
<1>3. balance' \in Nat /\ balance' >= balance
  BY <1>1, <1>2
<1>4. Wealth' >= Wealth
  BY <1>1, <1>3, WealthIs
<1>5. ~ClaimsAt("settled", m.short)
  BY DEF ClaimsAt, Parking, PayingPlaces, Recalling
<1> QED BY <1>1, <1>2, <1>4, <1>5 DEF Shift

(* Two numbers have a sum.                                                 *)
LEMMA NatSum ==
  ASSUME NEW a \in Nat, NEW b \in Nat
  PROVE  a + b \in Nat
OBVIOUS

(* Parks and payments keep taking turns.                                   *)
LEMMA TurnsKept ==
  ASSUME TreasuryTypes, TreasuryTypes', TakesTurns, NEW r \in Requests, NEW m, NEW next, Shift(r, m, next)
  PROVE  TakesTurns'
<1> SUFFICES ASSUME Orderly
             PROVE  TakesTurns'
  BY DEF TakesTurns, Orderly, Silence, Shift
<1>0. /\ mempool = {} /\ ~Silence
      /\ \A s, t \in Requests : Claims(s) /\ Claims(t) => s = t
      /\ \A s \in Requests :
           /\ Claims(s) => mem[s].amount > 0
           /\ pc[s] \in {"park", "check"} => mem[s].seen <= Wealth
           /\ pc[s] \in Holding => mem[s].amount + Reserved <= Wealth
  BY DEF TakesTurns, Orderly
<1>1. /\ pc'[r] = next /\ mem'[r] = m /\ m \in Mems /\ mem[r] \in Mems
      /\ \A s \in Requests \ {r} : pc'[s] = pc[s] /\ mem'[s] = mem[s]
  BY OneMoves DEF Shift, TreasuryTypes
<1>2. /\ \A s \in Requests \ {r} : Claims(s)' <=> Claims(s)
      /\ Claims(r)' <=> ClaimsAt(next, m.short)
  BY <1>1 DEF Claims, ClaimsAt
<1>3. mempool' = {}
  BY <1>0 DEF Shift
<1>4. \A s \in Requests : ~Claims(s) \/ pc[s] \in Running
  BY DEF Claims, ClaimsAt, Parking, PayingPlaces, Recalling, Running
<1>5. MayCome("park") \/ MayCome("pay") => \A s \in Requests : ~Claims(s)
  BY <1>4 DEF MayCome, Orderly, Idle
<1>6. \A s, t \in Requests : Claims(s)' /\ Claims(t)' => s = t
  <2>1. ASSUME NEW s \in Requests \ {r}, Claims(s) PROVE ~Claims(r)'
    BY <1>0, <1>2, <1>5, <2>1 DEF Shift
  <2> QED BY <1>0, <1>2, <2>1
<1>7. \A s \in Requests : pc[s] \in {"park", "check"} \union Holding => Claims(s)
  BY DEF Claims, ClaimsAt, Parking, PayingPlaces, Holding
<1>8. Wealth \in Nat /\ Wealth' \in Nat /\ Reserved \in Nat
  <2>1. balance \in Nat /\ balance' \in Nat /\ repaid \in Nat /\ repaid' \in Nat
    BY DEF TreasuryTypes, TypeOK
  <2>2. Taken \in Nat /\ Taken' \in Nat
    BY <2>1 DEF Taken
  <2>3. balance \in Int
    BY <2>1
  <2>4. Reserved \in Nat
    BY <2>3, FreeIs
  <2>5. balance + Taken \in Nat
    BY <2>1, <2>2, NatSum, Zenon
  <2>6. balance' + Taken' \in Nat
    BY <2>1, <2>2, NatSum, Zenon
  <2>7. Wealth \in Nat
    BY <2>5 DEF Wealth
  <2>8. Wealth' \in Nat
    BY <2>6 DEF Wealth
  <2> QED BY <2>4, <2>7, <2>8
<1>9. reserved' = reserved => Reserved' = Reserved
  BY DEF Reserved
<1>10. ASSUME NEW s \in Requests \ {r}
       PROVE  /\ Claims(s)' => mem'[s].amount > 0
              /\ pc'[s] \in {"park", "check"} => mem'[s].seen <= Wealth'
              /\ pc'[s] \in Holding => mem'[s].amount + Reserved' <= Wealth'
  <2>1. mem[s].seen \in Int /\ mem[s].amount \in Nat
    BY DEF TreasuryTypes, Mems
  <2>2. Claims(s) => Wealth' >= Wealth /\ reserved' = reserved
    BY <1>0, <1>4 DEF Shift, Idle
  <2> QED BY <1>0, <1>1, <1>2, <1>7, <1>8, <1>9, <2>1, <2>2
<1>11. Claims(r)' => m.amount > 0
  BY <1>0, <1>2 DEF Shift
<1>12. next \in {"park", "check"} => m.seen <= Wealth'
  BY DEF Shift
<1>13. ASSUME next \in Holding
       PROVE  m.amount + Reserved' <= Wealth'
  <2>1. /\ Wealth' = Wealth /\ Reserved' = Reserved /\ m.amount = mem[r].amount
        /\ pc[r] \in Holding \/ (pc[r] \in {"park", "check"} /\ mem[r].amount <= Free(mem[r].seen))
    BY <1>9, <1>13 DEF Shift
  <2>2. CASE pc[r] \in Holding
    BY <1>0, <2>1, <2>2
  <2>3. CASE pc[r] \in {"park", "check"} /\ mem[r].amount <= Free(mem[r].seen)
    <3>1. mem[r].amount > 0 /\ mem[r].seen <= Wealth /\ mem[r].seen \in Int /\ mem[r].amount \in Nat
      BY <1>0, <1>1, <1>7, <2>3 DEF Mems
    <3>2. Free(mem[r].seen) \in Nat /\ (Free(mem[r].seen) > 0 => Free(mem[r].seen) + Reserved <= mem[r].seen)
      BY <3>1, FreeIs
    <3> QED BY <1>8, <2>1, <2>3, <3>1, <3>2
  <2> QED BY <2>1, <2>2, <2>3
<1> QED BY <1>1, <1>3, <1>6, <1>10, <1>11, <1>12, <1>13 DEF TakesTurns

(* No step changes what may happen.                                        *)
LEMMA EnvKept ==
  ASSUME TreasuryTypes, [Next]_vars
  PROVE  env' = env
<1>1. ASSUME NEW r \in Requests, Thinks(r) PROVE env' = env
  BY <1>1, ThinkDoes DEF ThinkStep, books
<1> QED BY <1>1, NextIs DEF Subscribe, Redeem, Accrue, RecordPosition, FlipPosition, Reserve, Payout, EndReservation,
                            Settle, CompensateSender, Crash, Rest, Land, vars, books

(* A reservation is made once, and paid out before it is ended.            *)
LEMMA OnceKept ==
  ASSUME TreasuryTypes, ReservedOnce, [Next]_vars
  PROVE  ReservedOnce'
<1> DEFINE Late == {"payout", "consume", "release", "done", "dead"}
           Before(r) == pc[r] \notin Late => reserved[r] = 0 /\ r \notin paid
           Then(r) == At(r, "payout") => reserved[r] = mem[r].amount /\ r \notin paid
           Held == {"payout", "consume", "release"}
           Freed(r) == ~Exposed /\ pc[r] \notin Held => reserved[r] = 0
<1>10. Exposed' <=> Exposed
  BY EnvKept DEF Exposed
<1>0. /\ \A r \in Requests : Before(r) /\ Then(r) /\ Freed(r)
      /\ reserved \in [Requests -> Nat] /\ mem \in [Requests -> Mems] /\ pc \in [Requests -> Places]
  BY DEF ReservedOnce, TreasuryTypes, TypeOK, Places
<1>1. ASSUME NEW r \in Requests, NEW m \in Mems, NEW next \in Places, Moves(r, m, next), UNCHANGED <<reserved, paid>>,
             pc[r] \notin Late, next # "payout"
      PROVE  ReservedOnce'
  <2>1. /\ pc'[r] = next /\ mem'[r] = m
        /\ \A s \in Requests \ {r} : pc'[s] = pc[s] /\ mem'[s] = mem[s]
    BY <1>1, OneMoves
  <2>2. ASSUME NEW s \in Requests PROVE Before(s)' /\ Then(s)' /\ Freed(s)'
    BY <1>0, <1>1, <1>10, <2>1 DEF At
  <2> QED BY <2>2 DEF ReservedOnce
<1>2. ASSUME NEW r \in Requests, Thinks(r) PROVE ReservedOnce'
  <2>1. PICK m, next : ThinkStep(r, m, next)
    BY <1>2, ThinkDoes
  <2>2. m \in Mems /\ next \in Places /\ Moves(r, m, next) /\ UNCHANGED <<reserved, paid>>
    BY <2>1 DEF ThinkStep, books, chain
  <2>3. pc[r] \notin Late /\ next # "payout"
    BY <2>1 DEF ThinkStep, Arrives, GoesOn, Plainly, Reading
  <2> QED BY <1>1, <2>2, <2>3
<1>3. ASSUME NEW r \in Requests, Subscribe(r) \/ Redeem(r) \/ Accrue(r) \/ RecordPosition(r) \/ FlipPosition(r)
      PROVE  ReservedOnce'
  <2>1. UNCHANGED <<reserved, paid, mem>> /\ pc[r] \notin Late
    BY <1>3 DEF Subscribe, Redeem, Accrue, RecordPosition, FlipPosition, books, chain, At
  <2>2. PICK next \in {"sharesAfter", "redeemed", "done", "nextRecall"} : Go(r, next)
    BY <1>3 DEF Subscribe, Redeem, Accrue, RecordPosition, FlipPosition, Send
  <2>3. Moves(r, mem[r], next) /\ mem[r] \in Mems /\ next \in Places
    BY <2>1, <2>2, Stays DEF Places, Running
  <2> QED BY <1>1, <2>1, <2>2, <2>3
<1>4. ASSUME NEW r \in Requests, Reserve(r) \/ Payout(r) \/ EndReservation(r) PROVE ReservedOnce'
  <2>1. UNCHANGED mem /\ pc[r] \in {"reserve", "payout", "consume", "release"}
    BY <1>4 DEF Reserve, Payout, EndReservation, chain, At
  <2>2. PICK next \in {"payout", "done", "consume", "release"} : Go(r, next)
    BY <1>4 DEF Reserve, Payout, EndReservation
  <2>3. Moves(r, mem[r], next) /\ mem[r] \in Mems /\ next \in Places
    BY <2>1, <2>2, Stays DEF Places, Running
  <2>4. /\ pc'[r] = next /\ mem' = mem
        /\ \A s \in Requests \ {r} : pc'[s] = pc[s]
    BY <2>1, <2>3, OneMoves
  <2>5. \A s \in Requests \ {r} : reserved'[s] = reserved[s] /\ (s \in paid' <=> s \in paid)
    BY <1>0, <1>4 DEF Reserve, Payout, EndReservation, books, chain
  <2>6. next = "payout" => reserved'[r] = mem[r].amount /\ r \notin paid'
    <3>1. ASSUME next = "payout" PROVE At(r, "reserve") /\ reserved' = [reserved EXCEPT ![r] = mem[r].amount] /\ paid' = paid
      BY <1>0, <1>4, <2>4, <3>1 DEF Reserve, Payout, EndReservation, Go, chain
    <3> QED BY <1>0, <3>1 DEF At
  <2>8. ~Exposed /\ next \notin Held => reserved'[r] = 0
    <3> SUFFICES ASSUME ~Exposed, next = "done" PROVE reserved'[r] = 0
      BY <2>2
    <3>1. ~DbFault
      BY DEF DbFault, Exposed
    <3>2. EndReservation(r)
      BY <1>0, <1>4, <2>4, <3>1 DEF Reserve, Payout, Go
    <3> QED BY <1>0, <3>1, <3>2 DEF EndReservation
  <2>7. ASSUME NEW s \in Requests PROVE Before(s)' /\ Then(s)' /\ Freed(s)'
    <3>1. CASE s = r
      BY <1>10, <2>2, <2>4, <2>6, <2>8, <3>1 DEF At
    <3>2. CASE s # r
      BY <1>0, <1>10, <2>4, <2>5, <3>2 DEF At
    <3> QED BY <3>1, <3>2
  <2> QED BY <2>7 DEF ReservedOnce
<1>5. CASE Crash
  <2>1. UNCHANGED <<reserved, paid, mem>> /\ \A s \in Requests : pc'[s] = IF pc[s] \in Running THEN "dead" ELSE pc[s]
    BY <1>5 DEF Crash, books, chain
  <2>3. Exposed
    BY <1>5 DEF Crash, Exposed
  <2>2. ASSUME NEW s \in Requests PROVE Before(s)' /\ Then(s)' /\ Freed(s)'
    BY <1>0, <1>10, <2>1, <2>3 DEF At, Running
  <2> QED BY <2>2 DEF ReservedOnce
<1>6. CASE Rest \/ UNCHANGED vars \/ \E tx \in mempool : Land(tx)
  <2>1. UNCHANGED <<reserved, paid, mem, pc>>
    BY <1>6 DEF Rest, vars, Land, books
  <2>2. ASSUME NEW s \in Requests PROVE Before(s)' /\ Then(s)' /\ Freed(s)'
    BY <1>0, <1>10, <2>1 DEF At
  <2> QED BY <2>2 DEF ReservedOnce
<1>7. ASSUME NEW r \in Requests, Settle(r) PROVE ReservedOnce'
  <2>1. PICK m : SettleStep(r, m)
    BY <1>7, SettleDoes
  <2>2. m \in Mems /\ Moves(r, m, "settled") /\ UNCHANGED <<reserved, paid>> /\ pc[r] = "idle"
    BY <2>1 DEF SettleStep, At
  <2> QED BY <1>1, <2>2 DEF Places
<1>8. ASSUME NEW r \in Requests, CompensateSender(r) PROVE ReservedOnce'
  <2>1. UNCHANGED <<reserved, paid, mem>> /\ pc[r] = "settled"
    BY <1>8 DEF CompensateSender, books, At
  <2>2. PICK next \in {"done", "settled"} : Go(r, next)
    BY <1>8 DEF CompensateSender, Send
  <2>3. Moves(r, mem[r], next) /\ mem[r] \in Mems /\ next \in Places
    BY <2>1, <2>2, Stays DEF Places
  <2> QED BY <1>1, <2>1, <2>2, <2>3
<1> QED BY <1>2, <1>3, <1>4, <1>5, <1>6, <1>7, <1>8, NextIs

(* Parks and payments take turns after any step.                           *)
LEMMA TurnsStep ==
  ASSUME TreasuryTypes, TakesTurns, [Next]_vars
  PROVE  TakesTurns'
<1>0. TreasuryTypes'
  BY TypesStep
<1>1. ASSUME NEW r \in Requests, Thinks(r) PROVE TakesTurns'
  BY <1>0, <1>1, ThinkDoes, ThinkShifts, TurnsKept
<1>2. ASSUME NEW r \in Requests,
             \/ Subscribe(r) \/ Redeem(r) \/ Accrue(r) \/ RecordPosition(r) \/ FlipPosition(r)
             \/ Reserve(r) \/ Payout(r) \/ EndReservation(r) \/ CompensateSender(r)
      PROVE  TakesTurns'
  BY <1>0, <1>2, ActShifts, TurnsKept
<1>6. ASSUME NEW r \in Requests, Settle(r) PROVE TakesTurns'
  BY <1>0, <1>6, SettleDoes, SettleShifts, TurnsKept
<1>3. CASE Crash
  <2>1. /\ UNCHANGED <<balance, reserved, mempool, mem, env>>
        /\ \A s \in Requests : pc'[s] = IF pc[s] \in Running THEN "dead" ELSE pc[s]
    BY <1>3 DEF Crash, books, chain
  <2>2. \A s \in Requests : pc'[s] \notin Running
    BY <2>1 DEF Running
  <2>3. \A s \in Requests : ~Claims(s)' /\ pc'[s] \notin {"park", "check"} \union Holding
    BY <2>2 DEF Claims, ClaimsAt, Parking, PayingPlaces, Recalling, Holding, Running
  <2> QED BY <2>1, <2>3 DEF TakesTurns, Orderly, Silence
<1>4. CASE Rest \/ UNCHANGED vars
  <2>1. UNCHANGED <<balance, reserved, repaid, mempool, mem, env, pc>>
    BY <1>4 DEF Rest, vars
  <2>2. Wealth' = Wealth
    BY <2>1, WealthIs
  <2>3. Reserved' = Reserved /\ (Orderly' <=> Orderly)
    BY <2>1 DEF Reserved, Orderly, Silence
  <2>4. \A r \in Requests : (Claims(r)' <=> Claims(r)) /\ pc'[r] = pc[r] /\ mem'[r] = mem[r]
    BY <2>1 DEF Claims
  <2> QED BY <2>1, <2>2, <2>3, <2>4 DEF TakesTurns
<1>5. CASE \E tx \in mempool : Land(tx)
  <2>1. env' = env /\ mempool # {}
    BY <1>5 DEF Land, books
  <2> QED BY <2>1 DEF TakesTurns, Orderly, Silence
<1> QED BY <1>1, <1>2, <1>3, <1>4, <1>5, <1>6, NextIs

(* The three hold from the start and are kept.                             *)
LEMMA PoolInvAlways == Spec => []PoolInv
<1>1. Init => PoolInv
  <2> SUFFICES ASSUME Init PROVE PoolInv
    OBVIOUS
  <2>1. TreasuryTypes
    BY InitTypes
  <2>2. ReservedOnce
    BY DEF Init, ReservedOnce, At
  <2>3. mempool = {} /\ \A r \in Requests : pc[r] = "idle"
    BY DEF Init
  <2>4. TakesTurns
    BY <2>3 DEF TakesTurns, Claims, ClaimsAt, Parking, PayingPlaces, Recalling, Holding
  <2> QED BY <2>1, <2>2, <2>4 DEF PoolInv
<1>2. PoolInv /\ [Next]_vars => PoolInv'
  BY TypesStep, OnceKept, TurnsStep DEF PoolInv
<1> QED BY <1>1, <1>2, PTL DEF Spec

(* What is promised is a number for each request, no more than reserved.   *)
LEMMA PromisedIs ==
  ASSUME TreasuryTypes
  PROVE  /\ Promised \in [Requests -> Nat] /\ Promised \in [Requests -> Int] /\ IsFiniteSet(Requests)
         /\ SumFunction(Promised) \in Nat /\ SumFunction(Promised) <= Reserved
<1>1. reserved \in [Requests -> Nat] /\ IsFiniteSet(Requests)
  BY Constants DEF TreasuryTypes, TypeOK
<1>2. Promised \in [Requests -> Nat] /\ \A r \in Requests : Promised[r] <= reserved[r]
  BY <1>1 DEF Promised
<1> HIDE DEF Promised
<1>3. IsNumeric(Promised, Requests) /\ IsNumeric(reserved, Requests)
  BY <1>1, <1>2 DEF IsNumeric
<1>4. DOMAIN Promised = Requests /\ DOMAIN reserved = Requests
  BY <1>1, <1>2
<1>5. SumFunctionOnSet(Promised, Requests) <= SumFunctionOnSet(reserved, Requests)
  BY <1>2, <1>3, SumMonotone
<1>6. SumFunctionOnSet(Promised, Requests) \in Nat
  BY <1>1, <1>2, SumNat
<1>7. Promised \in [Requests -> Int]
  BY <1>2
<1> QED BY <1>1, <1>2, <1>4, <1>5, <1>6, <1>7 DEF SumFunction, Reserved

(* With no reservation nothing is promised.                                *)
LEMMA NothingPromised ==
  ASSUME TreasuryTypes, \A r \in Requests : reserved[r] = 0
  PROVE  SumFunction(Promised) = 0
<1>1. reserved \in [Requests -> Nat] /\ DOMAIN reserved = Requests /\ IsFiniteSet(Requests)
  BY Constants DEF TreasuryTypes, TypeOK
<1>2. IsNumeric(reserved, Requests)
  BY <1>1 DEF IsNumeric
<1>3. SumFunctionOnSet(reserved, Requests) = 0
  BY <1>1, <1>2, SumZero
<1>4. Reserved = 0
  BY <1>1, <1>3 DEF Reserved, SumFunction
<1>5. SumFunction(Promised) \in Nat /\ SumFunction(Promised) <= Reserved
  BY PromisedIs
<1> QED BY <1>4, <1>5

(* What the pool has left is what nobody was promised.                     *)
LEMMA UnpromisedIs == Pool!Unpromised = balance + Taken - SumFunction(Promised)
BY DEF Pool!Unpromised, Pool!SumFunction, Pool!SumFunctionOnSet, Pool!FoldFunctionOnSet, Pool!MapThenFoldSet,
       SumFunction, SumFunctionOnSet, FoldFunctionOnSet, MapThenFoldSet

(* Under turns every step is one of the pool's, or leaves it as it was.    *)
LEMMA PoolStep ==
  ASSUME PoolInv, PoolInv', [Next]_vars, Orderly
  PROVE  [Pool!Next]_<<balance, Promised, Taken>>
<1>0. /\ TreasuryTypes /\ balance \in Nat /\ repaid \in Nat /\ Taken \in Nat /\ mempool = {} /\ ~Silence /\ env' = env
      /\ \A r \in Requests : pc[r] \in Holding => mem[r].amount + Reserved <= balance + Taken
      /\ \A r \in Requests : Claims(r) => mem[r].amount > 0
      /\ reserved \in [Requests -> Nat] /\ mem \in [Requests -> Mems] /\ fund.index \in Nat
      /\ Promised \in [Requests -> Nat] /\ SumFunction(Promised) \in Nat /\ SumFunction(Promised) <= Reserved
      /\ Reserved \in Nat /\ Pool!Unpromised = balance + Taken - SumFunction(Promised)
  <2>1. TreasuryTypes
    BY DEF PoolInv
  <2>2. balance \in Nat /\ repaid \in Nat /\ fund.index \in Nat /\ reserved \in [Requests -> Nat] /\ mem \in [Requests -> Mems]
    BY <2>1 DEF TreasuryTypes, TypeOK
  <2>3. Reserved \in Nat
    BY <2>1, <2>2, FreeIs
  <2>4. /\ mempool = {} /\ ~Silence
        /\ \A r \in Requests : pc[r] \in Holding => mem[r].amount + Reserved <= balance + Taken
        /\ \A r \in Requests : Claims(r) => mem[r].amount > 0
    BY DEF PoolInv, TakesTurns, Orderly, Wealth
  <2>5. env' = env /\ Taken \in Nat
    BY <2>1, EnvKept, WealthIs
  <2> QED BY <2>1, <2>2, <2>3, <2>4, <2>5, PromisedIs, UnpromisedIs
<1>13. ASSUME repaid' = repaid PROVE Taken' = Taken
  BY <1>0, <1>13 DEF Taken, Exposed
<1>1. ASSUME UNCHANGED <<reserved, paid>> PROVE Promised' = Promised
  BY <1>1 DEF Promised
<1>2. ASSUME UNCHANGED <<balance, reserved, paid, repaid>> PROVE [Pool!Next]_<<balance, Promised, Taken>>
  BY <1>1, <1>2, <1>13
<1>3. ASSUME NEW r \in Requests, Thinks(r) PROVE UNCHANGED <<balance, reserved, paid, repaid>>
  BY <1>0, <1>3, ThinkDoes DEF ThinkStep, books, chain
<1>4. ASSUME NEW r \in Requests, Subscribe(r) PROVE [Pool!Next]_<<balance, Promised, Taken>>
  <2>1. /\ UNCHANGED <<reserved, paid>> /\ pc[r] \in Holding /\ mem[r].amount \in Nat
        /\ SendStep(r, "subscribe", mem[r].amount, "sharesAfter", "done")
    BY <1>0, <1>4, CallsDo DEF At, Holding, books
  <2>2. CASE Accepts("subscribe", mem[r].amount) /\ Apply("subscribe", mem[r].amount)
    <3>1. balance' = balance - mem[r].amount /\ balance' \in Nat /\ repaid' = repaid
      BY <1>0, <2>1, <2>2, Applied DEF Calls
    <3>2. mem[r].amount + SumFunction(Promised) <= balance + Taken
      BY <1>0, <2>1
    <3>3. Pool!Withdraw
      <4> HIDE DEF Promised, Taken
      <4> QED BY <1>0, <1>1, <1>13, <2>1, <3>1, <3>2 DEF Pool!Withdraw
    <3> QED BY <3>3 DEF Pool!Next
  <2>3. CASE UNCHANGED <<balance, fund, repaid>>
    BY <1>2, <2>1, <2>3
  <2> QED BY <2>1, <2>2, <2>3 DEF SendStep
<1>5. ASSUME NEW r \in Requests, Redeem(r) PROVE [Pool!Next]_<<balance, Promised, Taken>>
  <2> DEFINE shares == positions[mem[r].pos].shares
  <2>1. UNCHANGED <<reserved, paid>> /\ shares \in Int /\ SendStep(r, "redeem", shares, "redeemed", "done")
    BY <1>0, <1>5, CallsDo DEF books
  <2> HIDE DEF shares
  <2>2. CASE Accepts("redeem", shares) /\ Apply("redeem", shares)
    <3>1. balance' = balance + ValueOfShares(shares, fund.index) /\ ValueOfShares(shares, fund.index) \in Nat
         /\ repaid' = repaid
      BY <1>0, <2>1, <2>2, Applied DEF Calls
    <3>2. balance' = balance \/ balance' > balance
      BY <1>0, <3>1
    <3> QED BY <1>1, <1>2, <1>13, <2>1, <3>1, <3>2 DEF Pool!Next, Pool!Receive
  <2>3. CASE UNCHANGED <<balance, fund, repaid>>
    BY <1>2, <2>1, <2>3
  <2> QED BY <2>1, <2>2, <2>3 DEF SendStep
<1>6. ASSUME NEW r \in Requests, Accrue(r) PROVE UNCHANGED <<balance, reserved, paid, repaid>>
  <2>1. /\ UNCHANGED <<reserved, paid>> /\ mem[r].amount \in Nat
        /\ SendStep(r, "accrue", mem[r].amount, "done", "done")
    BY <1>0, <1>6, CallsDo DEF books
  <2>2. CASE Accepts("accrue", mem[r].amount) /\ Apply("accrue", mem[r].amount)
    BY <1>0, <2>1, <2>2, Applied DEF Calls
  <2> QED BY <2>1, <2>2 DEF SendStep
<1>7. ASSUME NEW r \in Requests, RecordPosition(r) \/ FlipPosition(r) PROVE UNCHANGED <<balance, reserved, paid, repaid>>
  BY <1>7 DEF RecordPosition, FlipPosition, chain
<1>8. ASSUME NEW r \in Requests, Reserve(r) PROVE [Pool!Next]_<<balance, Promised, Taken>>
  <2>1. UNCHANGED <<balance, paid, repaid>> /\ pc[r] = "reserve"
    BY <1>8 DEF Reserve, chain, At
  <2>2. /\ mem[r].amount \in Nat /\ mem[r].amount > 0 /\ mem[r].amount + Reserved <= balance + Taken
        /\ reserved[r] = 0 /\ r \notin paid
    BY <1>0, <2>1 DEF Holding, Claims, ClaimsAt, PayingPlaces, Mems, PoolInv, ReservedOnce
  <2>3. CASE reserved' = [reserved EXCEPT ![r] = mem[r].amount]
    <3>1. Promised' = [Promised EXCEPT ![r] = mem[r].amount] /\ Promised[r] = 0
      BY <1>0, <2>1, <2>2, <2>3 DEF Promised
    <3>2. mem[r].amount \in 1 .. (balance + Taken - SumFunction(Promised))
      BY <1>0, <2>2
    <3>3. Pool!Promise(r)
      BY <1>0, <1>13, <2>1, <3>1, <3>2 DEF Pool!Promise
    <3> QED BY <3>3 DEF Pool!Next
  <2>4. CASE UNCHANGED reserved
    BY <1>2, <2>1, <2>4
  <2> QED BY <1>8, <2>3, <2>4 DEF Reserve
<1>9. ASSUME NEW r \in Requests, Payout(r) PROVE [Pool!Next]_<<balance, Promised, Taken>>
  <2>1. UNCHANGED <<reserved, repaid>> /\ pc[r] = "payout"
    BY <1>9 DEF Payout, books, At
  <2>2. mem[r].amount \in Nat /\ mem[r].amount > 0 /\ reserved[r] = mem[r].amount /\ r \notin paid
    BY <1>0, <2>1 DEF Claims, ClaimsAt, PayingPlaces, Mems, PoolInv, ReservedOnce, At
  <2>3. CASE balance >= mem[r].amount /\ balance' = balance - mem[r].amount /\ paid' = paid \union {r}
    <3>1. Promised' = [Promised EXCEPT ![r] = 0] /\ Promised[r] = mem[r].amount
      BY <1>0, <2>1, <2>2, <2>3 DEF Promised
    <3>2. Pool!Spend(r)
      BY <1>0, <1>13, <2>1, <2>2, <2>3, <3>1 DEF Pool!Spend
    <3> QED BY <3>2 DEF Pool!Next
  <2>4. CASE UNCHANGED <<balance, paid>>
    BY <1>2, <2>1, <2>4
  <2> QED BY <1>9, <2>3, <2>4 DEF Payout
<1>10. ASSUME NEW r \in Requests, EndReservation(r) PROVE [Pool!Next]_<<balance, Promised, Taken>>
  <2>1. UNCHANGED <<balance, paid, repaid>>
    BY <1>10 DEF EndReservation, chain
  <2>2. CASE reserved' = [reserved EXCEPT ![r] = 0]
    <3>1. Promised' = [Promised EXCEPT ![r] = 0]
      BY <1>0, <2>1, <2>2 DEF Promised
    <3>2. Pool!Release(r)
      BY <1>13, <2>1, <3>1 DEF Pool!Release
    <3> QED BY <3>2 DEF Pool!Next
  <2>3. CASE UNCHANGED reserved
    BY <1>2, <2>1, <2>3
  <2> QED BY <1>10, <2>2, <2>3 DEF EndReservation
<1>11. ASSUME Crash \/ Rest \/ UNCHANGED vars PROVE UNCHANGED <<balance, reserved, paid, repaid>>
  BY <1>11 DEF Crash, Rest, vars, books, chain
<1>14. ASSUME NEW r \in Requests, Settle(r) PROVE [Pool!Next]_<<balance, Promised, Taken>>
  <2>1. PICK m : SettleStep(r, m)
    BY <1>0, <1>14, SettleDoes
  <2>2. m.amount \in Nat /\ m.amount > 0 /\ balance' = balance + m.amount /\ UNCHANGED <<reserved, paid, repaid>>
    BY <2>1 DEF SettleStep, Mems
  <2>3. Pool!Receive
    BY <1>0, <1>1, <1>13, <2>2 DEF Pool!Receive
  <2> QED BY <2>3 DEF Pool!Next
<1>15. ASSUME NEW r \in Requests, CompensateSender(r) PROVE [Pool!Next]_<<balance, Promised, Taken>>
  <2>1. UNCHANGED <<reserved, paid>> /\ mem[r].amount \in Nat /\ MayCome("compensate")
    BY <1>0, <1>15, CallsDo DEF books
  <2>2. PICK ok \in {"done", "settled"} : SendStep(r, "transfer", mem[r].amount, ok, "settled")
    BY <1>0, <1>15, CallsDo
  <2>3. CASE Accepts("transfer", mem[r].amount) /\ Apply("transfer", mem[r].amount)
    <3>1. balance' = balance - mem[r].amount /\ balance' \in Nat /\ repaid' = repaid + mem[r].amount
      BY <1>0, <2>1, <2>3, Applied DEF Calls
    <3>2. CASE Exposed
      <4>1. Taken = repaid /\ Taken' = repaid'
        BY <1>0, <3>2 DEF Taken, Exposed
      <4>2. Pool!Compensate
        BY <1>0, <1>1, <2>1, <3>1, <4>1 DEF Pool!Compensate
      <4> QED BY <4>2 DEF Pool!Next
    <3>3. CASE ~Exposed
      <4>1. Taken = 0 /\ Taken' = 0
        BY <1>0, <3>3 DEF Taken, Exposed
      <4>2. \A s \in Requests : reserved[s] = 0
        <5>1. Idle
          BY <2>1, <3>3 DEF MayCome, Exposed
        <5> QED BY <3>3, <5>1 DEF PoolInv, ReservedOnce, Idle, Running
      <4>3. SumFunction(Promised) = 0
        BY <1>0, <4>2, NothingPromised
      <4>4. Pool!Withdraw
        <5> HIDE DEF Promised, Taken
        <5> QED BY <1>0, <1>1, <2>1, <3>1, <4>1, <4>3 DEF Pool!Withdraw
      <4> QED BY <4>4 DEF Pool!Next
    <3> QED BY <3>2, <3>3
  <2>4. CASE UNCHANGED <<balance, fund, repaid>>
    BY <1>2, <2>1, <2>4
  <2> QED BY <2>2, <2>3, <2>4 DEF SendStep
<1>12. ~\E tx \in mempool : Land(tx)
  BY <1>0
<1> QED BY <1>2, <1>3, <1>4, <1>5, <1>6, <1>7, <1>8, <1>9, <1>10, <1>11, <1>12, <1>14, <1>15, NextIs

(* Initially there is a pool with nothing promised.                        *)
LEMMA PoolInit ==
  ASSUME Init
  PROVE  Pool!Init
<1>1. balance \in Nat
  BY Constants DEF Init
<1>2. Promised = [p \in Requests |-> 0]
  BY DEF Init, Promised
<1>3. Taken = 0
  BY DEF Init, Taken
<1> QED BY <1>1, <1>2, <1>3 DEF Pool!Init

(* lib/treasury.ts, lib/routing.ts and lib/executor.ts: as long as parks   *)
(* and payments take turns and nothing lands late, the wallet and the      *)
(* reservations are the pool of TreasuryPool, through recalls, accruals,   *)
(* settlements, compensations, failures and crashes; and where no          *)
(* compensation overlaps a payment and nothing fails, it is the pool       *)
(* nothing was taken from.                                                 *)
THEOREM PoolKept == Spec => KeepsPool
<1>1. PoolInv /\ PoolInv' /\ [Next]_vars => [Orderly => [Pool!Next]_<<balance, Promised, Taken>>]_vars
  BY PoolStep
<1> QED BY <1>1, PoolInit, PoolInvAlways, PTL DEF Spec, KeepsPool

(* Never more promised than there is but for what was taken.               *)
Bounded == SumFunction(Promised) <= balance + Taken

(* A step of the pool keeps it so.                                         *)
LEMMA PoolBounds ==
  ASSUME TreasuryTypes, TreasuryTypes', Bounded, [Pool!Next]_<<balance, Promised, Taken>>
  PROVE  Bounded'
<1>0. /\ balance \in Nat /\ balance' \in Nat /\ Taken \in Nat /\ Promised \in [Requests -> Int] /\ Promised \in [Requests -> Nat]
      /\ IsFiniteSet(Requests) /\ SumFunction(Promised) \in Nat /\ SumFunction(Promised) <= balance + Taken
      /\ Pool!Unpromised = balance + Taken - SumFunction(Promised)
  BY PromisedIs, UnpromisedIs, WealthIs DEF TreasuryTypes, TypeOK, Bounded
<1> HIDE DEF Promised, Taken
<1>1. CASE UNCHANGED <<balance, Promised, Taken>>
  BY <1>0, <1>1 DEF Bounded
<1>2. CASE Pool!Withdraw
  BY <1>0, <1>2 DEF Bounded, Pool!Withdraw
<1>3. CASE Pool!Receive
  BY <1>0, <1>3 DEF Bounded, Pool!Receive
<1>6. CASE Pool!Compensate
  BY <1>0, <1>6 DEF Bounded, Pool!Compensate
<1>4. ASSUME NEW p \in Requests, Pool!Promise(p) PROVE Bounded'
  <2>1. PICK a \in 1 .. (balance + Taken - SumFunction(Promised)) : Promised' = [Promised EXCEPT ![p] = a]
    BY <1>0, <1>4 DEF Pool!Promise
  <2>2. a \in Int /\ a <= balance + Taken - SumFunction(Promised)
    BY <1>0, <2>1
  <2>3. SumFunction(Promised') = SumFunction(Promised) - Promised[p] + a
    <3>1. SumFunction([Promised EXCEPT ![p] = a]) = SumFunction(Promised) - Promised[p] + a
      BY <1>0, <2>2, SumUpdate
    <3> QED BY <2>1, <3>1
  <2>4. balance' = balance /\ Taken' = Taken /\ Promised[p] = 0
    BY <1>4 DEF Pool!Promise
  <2> QED BY <1>0, <2>2, <2>3, <2>4 DEF Bounded
<1>5. ASSUME NEW p \in Requests, Pool!Spend(p) \/ Pool!Release(p) PROVE Bounded'
  <2>1. /\ Promised' = [Promised EXCEPT ![p] = 0] /\ Taken' = Taken
        /\ balance' = balance \/ balance' = balance - Promised[p]
    BY <1>5 DEF Pool!Spend, Pool!Release
  <2>2. SumFunction(Promised') = SumFunction(Promised) - Promised[p] + 0 /\ Promised[p] \in Nat
    <3>1. \A a \in Int : SumFunction([Promised EXCEPT ![p] = a]) = SumFunction(Promised) - Promised[p] + a
      BY <1>0, SumUpdate
    <3>2. 0 \in Int
      OBVIOUS
    <3>3. SumFunction([Promised EXCEPT ![p] = 0]) = SumFunction(Promised) - Promised[p] + 0
      BY <3>1, <3>2, Zenon
    <3> QED BY <1>0, <2>1, <3>3
  <2> QED BY <1>0, <2>1, <2>2 DEF Bounded
<1> QED BY <1>1, <1>2, <1>3, <1>4, <1>5, <1>6 DEF Pool!Next

(* It holds from the start, where parks and payments take turns.           *)
LEMMA BoundedAlways == Spec => [](Orderly => Bounded)
<1> DEFINE Inv == Orderly => Bounded
<1>1. Init => Inv
  <2> SUFFICES ASSUME Init PROVE Bounded
    OBVIOUS
  <2>1. TreasuryTypes /\ balance \in Nat /\ \A r \in Requests : reserved[r] = 0
    BY InitTypes DEF TreasuryTypes, TypeOK, Init
  <2>2. SumFunction(Promised) = 0 /\ Taken \in Nat
    BY <2>1, NothingPromised, WealthIs
  <2> QED BY <2>1, <2>2 DEF Bounded
<1>2. PoolInv /\ PoolInv' /\ Inv /\ [Next]_vars => Inv'
  <2> SUFFICES ASSUME PoolInv, PoolInv', Inv, [Next]_vars, Orderly'
               PROVE  Bounded'
    OBVIOUS
  <2>1. env' = env
    BY EnvKept DEF PoolInv
  <2>2. Orderly
    BY <2>1 DEF Orderly, Silence
  <2> QED BY <2>2, PoolStep, PoolBounds DEF PoolInv
<1> HIDE DEF Inv
<1>3. Spec => []Inv
  BY <1>1, <1>2, PoolInvAlways, PTL DEF Spec
<1> QED BY <1>3 DEF Inv

(* lib/treasury.ts freeTreasuryBalance: as long as parks and payments take *)
(* turns and no compensation overlaps a payment, what is promised is in    *)
(* the wallet.  What ParkRacesPayment shows broken needs parks and         *)
(* payments to overlap.                                                    *)
THEOREM PromisesCovered == Spec => [](Orderly /\ ~Exposed => ReservedCovered)
<1>1. TreasuryTypes /\ (Orderly => Bounded) => (Orderly /\ ~Exposed => ReservedCovered)
  <2> SUFFICES ASSUME TreasuryTypes, Bounded, ~Exposed PROVE ReservedCovered
    OBVIOUS
  <2>1. Taken = 0 /\ balance \in Nat
    BY DEF Taken, TreasuryTypes, TypeOK
  <2> HIDE DEF Promised, Taken
  <2> QED BY <2>1 DEF Bounded, ReservedCovered
<1> QED BY <1>1, TypesAlways, BoundedAlways, PTL

(* lib/executor.ts runCompensationTransfer, which asks nobody: where       *)
(* compensations meet payments, or faults leave reservations behind, the   *)
(* promises are short by no more than the compensations sent back.         *)
THEOREM ShortByCompensations == Spec => [](Orderly => SumFunction(Promised) <= balance + repaid)
<1>1. TreasuryTypes /\ (Orderly => Bounded) => (Orderly => SumFunction(Promised) <= balance + repaid)
  <2> SUFFICES ASSUME TreasuryTypes, Bounded PROVE SumFunction(Promised) <= balance + repaid
    OBVIOUS
  <2>1. balance \in Nat /\ repaid \in Nat /\ Taken \in {0, repaid} /\ SumFunction(Promised) \in Nat
    BY PromisedIs DEF Taken, TreasuryTypes, TypeOK
  <2> HIDE DEF Promised, Taken
  <2> QED BY <2>1 DEF Bounded
<1> QED BY <1>1, TypesAlways, BoundedAlways, PTL

-----------------------------------------------------------------------------
(* One operation at a time.                                                *)

(* What the rows hold and are worth are numbers, and so are their sums.    *)
LEMMA RowsAre ==
  ASSUME TreasuryTypes
  PROVE  /\ \A T \in SUBSET DOMAIN positions : IsNumeric(Shares, T) /\ IsNumeric(Values, T)
         /\ \A i \in DOMAIN positions :
              /\ Shares[i] = positions[i].shares /\ Shares[i] \in Int /\ positions[i].amountIn \in Nat
              /\ Values[i] = ValueOfShares(positions[i].shares, fund.index) /\ Values[i] \in Int
         /\ SharesOfRows \in Int
<1>0. fund.index \in Nat /\ fund.index <= fund.index
  BY DEF TreasuryTypes, TypeOK
<1>1. /\ IsFiniteSet(DOMAIN positions) /\ Active \subseteq DOMAIN positions
      /\ \A i \in DOMAIN positions : positions[i].shares \in Int /\ positions[i].amountIn \in Nat
  BY ActiveIs DEF PositionRows
<1>2. \A i \in DOMAIN positions :
        /\ Shares[i] = positions[i].shares /\ Shares[i] \in Int
        /\ Values[i] = ValueOfShares(positions[i].shares, fund.index) /\ Values[i] \in Int
  BY <1>0, <1>1, Worth DEF Shares, Values
<1>3. \A T \in SUBSET DOMAIN positions : IsNumeric(Shares, T) /\ IsNumeric(Values, T)
  BY <1>1, <1>2, FS_Subset DEF IsNumeric
<1>4. SharesOfRows \in Int
  BY <1>1, <1>3, SumInt DEF SharesOfRows
<1> QED BY <1>1, <1>2, <1>3, <1>4

(* A request that runs, runs alone but for those that remember nothing of  *)
(* the rows.                                                               *)
LEMMA RunsAlone ==
  ASSUME OneAtATime, NEW r \in Requests, Busy(r), NEW s \in Requests \ {r}
  PROVE  pc[s] \notin Running \ {"accrue"} /\ pc[s] \notin Midway
BY DEF OneAtATime, Busy, Midway, Running

(* So the rows and the fund agree unless it is midway.                     *)
LEMMA AgreeNow ==
  ASSUME OneAtATime, Settled, NEW r \in Requests, Busy(r), pc[r] \notin Midway
  PROVE  SharesOfRows = fund.shares
BY RunsAlone DEF Settled

(* Who does not run has nothing to account for.                            *)
LEMMA NothingToAccount ==
  ASSUME NEW r \in Requests, pc'[r] \notin Running \ {"accrue"}
  PROVE  Accounts(r)'
BY DEF Accounts, AccountAt, CoverAt, Measuring, Recalling, Running

(* One at a time, still.                                                   *)
LEMMA OneKept ==
  ASSUME TreasuryTypes, OneAtATime, NEW r \in Requests, NEW m \in Mems, NEW next \in Places \ {"dead"},
         Moves(r, m, next), mempool' = mempool, next \in Running \ {"accrue"} => Busy(r) \/ Idle
  PROVE  OneAtATime'
<1>1. pc'[r] = next /\ \A s \in Requests \ {r} : pc'[s] = pc[s]
  BY OneMoves
<1>2. Busy(r)' => \A s \in Requests \ {r} : ~Busy(s)
  BY <1>1 DEF Busy, OneAtATime, Idle
<1>3. \A s \in Requests \ {r} : Busy(s)' <=> Busy(s)
  BY <1>1 DEF Busy
<1> QED BY <1>1, <1>2, <1>3 DEF OneAtATime

(* Rows that did not change, in a fund whose index did not, are as before. *)
LEMMA SameRows ==
  ASSUME UNCHANGED positions
  PROVE  /\ Active' = Active /\ Shares' = Shares /\ SharesOfRows' = SharesOfRows
         /\ fund'.index = fund.index => Values' = Values /\ (RowsSound' <=> RowsSound)
BY DEF Active, Shares, SharesOfRows, Values, RowsSound, Covers

(* What a request accounts for is told by its place and memory.            *)
LEMMA SameAccount ==
  ASSUME UNCHANGED <<positions, fund, balance, env>>, NEW r \in Requests
  PROVE  Accounts(r)' <=> AccountAt(pc'[r], mem'[r]) /\ (Steady => CoverAt(pc'[r], mem'[r]))
<1>1. Active' = Active /\ SharesOfRows' = SharesOfRows /\ Values' = Values
  BY SameRows
<1> QED BY <1>1 DEF Accounts, AccountAt, CoverAt, Covers, Steady

(* A step of a running request keeps what it has to.                       *)
LEMMA QuietFrom ==
  ASSUME TreasuryTypes, OneAtATime, NEW r \in Requests, Busy(r),
         NEW m \in Mems, NEW next \in Places \ {"dead"}, Moves(r, m, next), mempool' = mempool,
         next \in Midway \/ SharesOfRows' = fund'.shares, RowsSound', Accounts(r)'
  PROVE  (OneAtATime /\ Settled /\ RowsSound /\ \A s \in Requests : Accounts(s))'
<1>1. pc'[r] = next /\ \A s \in Requests \ {r} : pc'[s] = pc[s]
  BY OneMoves
<1>2. OneAtATime'
  BY OneKept
<1>3. Settled'
  BY <1>1 DEF Settled
<1>4. ASSUME NEW s \in Requests \ {r} PROVE Accounts(s)'
  BY <1>1, RunsAlone, NothingToAccount
<1> QED BY <1>2, <1>3, <1>4

-----------------------------------------------------------------------------
(* The steps that only decide.                                             *)

(* What it accounts for of the rows.                                       *)
LEMMA ThinkAccounts ==
  ASSUME TreasuryTypes, OneAtATime, Settled, NEW r \in Requests, Accounts(r),
         NEW m, NEW next, ThinkStep(r, m, next)
  PROVE  AccountAt(next, m)
<1>0. mem[r] \in Mems /\ fund.shares \in Nat /\ fund.index \in Nat
  BY DEF TreasuryTypes, TypeOK
<1>1. CASE Arrives(r, m, next)
  BY <1>1 DEF Arrives, AccountAt
<1>2. CASE GoesOn(r, m, next)
  <2> DEFINE way == <<pc[r], next>>
             o == mem[r]
  <2>0. AccountAt(pc[r], o)
    BY DEF Accounts
  <2>1. CASE next = "subscribe"
    <3>1. pc[r] = "sharesBefore" /\ m = [o EXCEPT !.seen = fund.shares, !.entry = fund.index]
      BY <1>2, <2>1 DEF GoesOn, Plainly, Reading
    <3>2. SharesOfRows = fund.shares
      BY <3>1, AgreeNow DEF Busy, Running, Midway
    <3>3. m.seen = fund.shares
      BY <1>0, <3>1 DEF Mems
    <3> QED BY <2>1, <3>2, <3>3 DEF AccountAt
  <2>2. CASE next = "record"
    <3>1. pc[r] = "sharesAfter" /\ m = [o EXCEPT !.seen = fund.shares - @]
      BY <1>2, <2>2 DEF GoesOn, Plainly, Reading
    <3>2. m.seen = fund.shares - o.seen /\ m.amount = o.amount /\ o.seen \in Int
      BY <1>0, <3>1 DEF Mems
    <3>3. o.seen = SharesOfRows /\ fund.shares > o.seen /\ Covers(fund.shares - o.seen, o.amount)
      BY <2>0, <3>1 DEF AccountAt
    <3>4. m.seen > 0
      BY <1>0, <3>2, <3>3
    <3> QED BY <2>2, <3>2, <3>3, <3>4 DEF AccountAt
  <2>3. CASE next \in {"redeemBalance", "redeem", "flip"}
    <3>1. \/ next = "redeemBalance" /\ m.pos \in Active
          \/ next = "redeem" /\ pc[r] = "redeemBalance" /\ m.pos = o.pos
          \/ next = "flip" /\ pc[r] = "redeemed" /\ m.pos = o.pos
      BY <1>0, <1>2, <2>3 DEF GoesOn, Plainly, Reading, Mems
    <3> QED BY <2>0, <3>1 DEF AccountAt
  <2>4. CASE next \notin {"subscribe", "record", "redeemBalance", "redeem", "flip"}
    <3>1. next \notin {"sharesAfter", "redeemed"}
      BY <1>2 DEF GoesOn, Plainly, Reading
    <3> QED BY <2>4, <3>1 DEF AccountAt
  <2> QED BY <2>1, <2>2, <2>3, <2>4
<1> QED BY <1>1, <1>2 DEF ThinkStep

(* And how a payment stays covered.                                        *)
LEMMA ThinkCovers ==
  ASSUME TreasuryTypes, Steady, NEW r \in Requests, Accounts(r), NEW m, NEW next, ThinkStep(r, m, next)
  PROVE  CoverAt(next, m)
<1>0. /\ mem[r] \in Mems /\ balance \in Nat /\ Active \subseteq DOMAIN positions
      /\ mem[r].todo \subseteq DOMAIN positions /\ m \in Mems
  BY ActiveIs DEF TreasuryTypes, TypeOK, ThinkStep
<1>1. CASE Arrives(r, m, next)
  BY <1>1 DEF Arrives, Fresh, CoverAt, Measuring, Recalling
<1>2. CASE GoesOn(r, m, next)
  <2> DEFINE way == <<pc[r], next>>
             o == mem[r]
             Left(T) == SumFunctionOnSet(Values, T)
  <2>0. AccountAt(pc[r], o) /\ CoverAt(pc[r], o)
    BY DEF Accounts
  <2>1. CASE next \in Measuring
    <3>1. pc[r] \in Measuring /\ m.freed = o.freed
      BY <1>0, <1>2, <2>1 DEF GoesOn, Plainly, Reading, Measuring, Mems
    <3>2. o.freed = 0
      BY <2>0, <3>1 DEF CoverAt
    <3> QED BY <2>1, <3>1, <3>2 DEF CoverAt, Measuring, Recalling
  <2>2. CASE next = "nextRecall"
    <3>1. pc[r] = "recallParked" /\ m = [o EXCEPT !.todo = Active] /\ ParkedBalance >= o.short
      BY <1>2, <2>2 DEF GoesOn, Plainly, Reading
    <3>2. m.todo = Active /\ m.freed = o.freed /\ m.short = o.short
      BY <1>0, <3>1 DEF Mems
    <3>3. o.freed = 0
      BY <2>0, <3>1 DEF CoverAt, Measuring
    <3>4. ParkedBalance \in Int /\ Left(m.todo) = ParkedBalance
      BY <1>0, <3>2, RowsAre, SumInt DEF ParkedBalance
    <3>5. m.freed + Left(m.todo) >= m.short
      BY <1>0, <3>1, <3>2, <3>3, <3>4 DEF Mems
    <3> QED BY <2>2, <3>2, <3>5 DEF CoverAt, Measuring
  <2>3. CASE next = "recall"
    <3>1. pc[r] = "nextRecall" /\ \E c \in o.todo : m = [o EXCEPT !.pos = c, !.todo = @ \ {c}]
      BY <1>2, <2>3 DEF GoesOn, Plainly, Reading
    <3>2. PICK c \in o.todo : m = [o EXCEPT !.pos = c, !.todo = @ \ {c}]
      BY <3>1
    <3>3. m.pos = c /\ m.todo = o.todo \ {c} /\ m.freed = o.freed /\ m.short = o.short
      BY <1>0, <3>2 DEF Mems
    <3>4. o.todo \subseteq Active /\ o.freed + Left(o.todo) >= o.short
      BY <2>0, <3>1 DEF CoverAt
    <3>5. Left(o.todo) = Values[c] + Left(o.todo \ {c}) /\ Values[c] \in Int
      BY <1>0, RowsAre, SumOut
    <3>6. Left(o.todo \ {c}) \in Int
      BY <1>0, RowsAre, SumInt
    <3>7. m.freed + Values[m.pos] + Left(m.todo) >= m.short
      <4> HIDE DEF Left
      <4> QED BY <1>0, <3>3, <3>4, <3>5, <3>6 DEF Mems
    <3>8. m.pos \in Active \ m.todo /\ m.todo \subseteq Active
      BY <3>3, <3>4
    <3> QED BY <2>3, <3>7, <3>8 DEF CoverAt, Measuring
  <2>4. CASE next \in {"redeemBalance", "redeem"}
    <3>1. \/ next = "redeemBalance" /\ pc[r] = "recall" /\ m = o
          \/ next = "redeem" /\ pc[r] = "redeemBalance" /\ m = [o EXCEPT !.seen = balance]
      BY <1>2, <2>4 DEF GoesOn, Plainly, Reading
    <3>2. /\ m.pos = o.pos /\ m.todo = o.todo /\ m.freed = o.freed /\ m.short = o.short
          /\ next = "redeem" => m.seen <= balance
      BY <1>0, <2>4, <3>1 DEF Mems
    <3>3. pc[r] \in {"recall", "redeemBalance"}
      BY <3>1
    <3> QED BY <2>0, <2>4, <3>2, <3>3 DEF CoverAt, Measuring, Recalling
  <2>5. CASE next = "flip"
    <3>1. pc[r] = "redeemed" /\ m = [o EXCEPT !.freed = @ + balance - o.seen]
      BY <1>2, <2>5 DEF GoesOn, Plainly, Reading
    <3>2. m.pos = o.pos /\ m.todo = o.todo /\ m.short = o.short /\ m.freed = o.freed + balance - o.seen
      BY <1>0, <3>1 DEF Mems
    <3>3. o.freed \in Int /\ o.seen \in Int /\ Left(o.todo) \in Int /\ o.short \in Int
      BY <1>0, RowsAre, SumInt DEF Mems
    <3>4. o.todo \subseteq Active
      BY <2>0, <3>1 DEF CoverAt, Recalling
    <3>5. o.short > 0 => o.pos \notin o.todo /\ o.freed + (balance - o.seen) + Left(o.todo) >= o.short
      BY <2>0, <3>1 DEF CoverAt
    <3> HIDE DEF Left
    <3>6. m.short > 0 => m.pos \notin m.todo /\ m.freed + Left(m.todo) >= m.short
      BY <1>0, <3>2, <3>3, <3>5
    <3> QED BY <2>5, <3>2, <3>4, <3>6 DEF CoverAt, Measuring, Left
  <2>6. CASE next \notin Measuring \union {"nextRecall", "recall", "redeemBalance", "redeem", "flip"}
    <3>1. next # "redeemed"
      BY <1>2 DEF GoesOn, Plainly, Reading
    <3> QED BY <2>6, <3>1 DEF CoverAt, Recalling
  <2> QED BY <2>1, <2>2, <2>3, <2>4, <2>5, <2>6
<1> QED BY <1>1, <1>2 DEF ThinkStep

(* A step that only decides keeps the rows and the fund in agreement.      *)
LEMMA ThinkQuiet ==
  ASSUME TreasuryTypes, Quiet, QuietInv, NEW r \in Requests, NEW m, NEW next, ThinkStep(r, m, next)
  PROVE  QuietInv'
<1>0. OneAtATime /\ Settled /\ RowsSound /\ \A s \in Requests : Accounts(s)
  BY DEF QuietInv
<1>1. /\ m \in Mems /\ next \in Places /\ Moves(r, m, next)
      /\ UNCHANGED <<balance, fund, positions, mempool, env>>
  BY DEF ThinkStep, books, chain
<1>2. /\ pc'[r] = next /\ mem'[r] = m
      /\ \A s \in Requests \ {r} : pc'[s] = pc[s] /\ mem'[s] = mem[s]
  BY <1>1, OneMoves
<1>3. /\ next # "dead" /\ (pc[r] \in Midway => next \in Midway)
      /\ next \in Running \ {"accrue"} => Busy(r) \/ Idle
  <2>1. CASE Arrives(r, m, next)
    BY <2>1 DEF Arrives, Midway, MayCome, Quiet
  <2>2. CASE GoesOn(r, m, next)
    BY <2>2 DEF GoesOn, Plainly, Reading, Midway, Busy, Running, Quiet, Silence
  <2> QED BY <2>1, <2>2 DEF ThinkStep
<1>4. OneAtATime'
  BY <1>0, <1>1, <1>3, OneKept
<1>5. Settled' /\ RowsSound'
  <2>1. SharesOfRows' = SharesOfRows /\ (RowsSound' <=> RowsSound)
    BY <1>1, SameRows
  <2>2. (\A s \in Requests : pc'[s] \notin Midway) => \A s \in Requests : pc[s] \notin Midway
    BY <1>2, <1>3
  <2> QED BY <1>0, <1>1, <2>1, <2>2 DEF Settled
<1>6. ASSUME NEW s \in Requests PROVE Accounts(s)'
  <2>1. Accounts(s)' <=> AccountAt(pc'[s], mem'[s]) /\ (Steady => CoverAt(pc'[s], mem'[s]))
    BY <1>1, SameAccount
  <2>2. CASE s = r
    BY <1>0, <1>2, <2>1, <2>2, ThinkAccounts, ThinkCovers
  <2>3. CASE s # r
    BY <1>0, <1>2, <2>1, <2>3 DEF Accounts
  <2> QED BY <2>2, <2>3
<1> QED BY <1>4, <1>5, <1>6 DEF QuietInv

-----------------------------------------------------------------------------
(* The steps that call the fund or write.                                  *)

(* At a higher index nothing is worth less.                                *)
LEMMA WorthKept ==
  ASSUME TreasuryTypes, TreasuryTypes', RowsSound, UNCHANGED positions, fund'.index >= fund.index
  PROVE  /\ \A s, a \in Nat : Covers(s, a) => Covers(s, a)'
         /\ \A i \in Active : Values[i] <= Values'[i] /\ Values[i] \in Int /\ Values'[i] \in Int
         /\ \A T \in SUBSET Active :
              /\ SumFunctionOnSet(Values, T) <= SumFunctionOnSet(Values', T)
              /\ SumFunctionOnSet(Values, T) \in Int /\ SumFunctionOnSet(Values', T) \in Int
<1> DEFINE i == fund.index
           j == fund'.index
           V == Values
           W == Values'
<1>0. /\ i \in Nat /\ j \in Nat /\ i <= j
      /\ Active \subseteq DOMAIN positions /\ IsFiniteSet(Active)
      /\ \A k \in DOMAIN positions : positions[k].shares \in Int
  BY ActiveIs DEF TreasuryTypes, TypeOK, PositionRows
<1>1. ASSUME NEW s \in Nat, NEW a \in Nat, Covers(s, a) PROVE Covers(s, a)'
  <2>1. ValueOfShares(s + 1, i) \in Nat /\ ValueOfShares(s + 1, i) <= ValueOfShares(s + 1, j)
    <3>1. s + 1 \in Int /\ s + 1 >= 0
      OBVIOUS
    <3> HIDE DEF i, j
    <3> QED BY <1>0, <3>1, Worth
  <2>2. ValueOfShares(s + 1, j) \in Int
    <3>1. j <= j
      BY <1>0
    <3> QED BY <1>0, <3>1, Worth
  <2>3. ValueOfShares(s + 1, i) >= a
    BY <1>1 DEF Covers
  <2>4. ValueOfShares(s + 1, j) >= a
    BY <2>1, <2>2, <2>3
  <2> QED BY <2>4 DEF Covers, ValueOfShares
<1>2. ASSUME NEW k \in Active PROVE V[k] <= W[k] /\ V[k] \in Int /\ W[k] \in Int
  <2>1. k \in DOMAIN positions /\ positions[k].shares \in Int /\ positions[k].shares >= 0
    BY <1>0 DEF RowsSound
  <2>2. V[k] = ValueOfShares(positions[k].shares, i) /\ W[k] = ValueOfShares(positions[k].shares, j)
    BY <2>1 DEF Values, ValueOfShares
  <2>3. ValueOfShares(positions[k].shares, i) <= ValueOfShares(positions[k].shares, j)
        /\ ValueOfShares(positions[k].shares, i) \in Int
    BY <1>0, <2>1, Worth
  <2>4. ValueOfShares(positions[k].shares, j) \in Int
    <3>1. j <= j
      BY <1>0
    <3> QED BY <1>0, <2>1, <3>1, Worth
  <2> QED BY <2>2, <2>3, <2>4
<1> HIDE DEF V, W
<1>3. ASSUME NEW T \in SUBSET Active
      PROVE  /\ SumFunctionOnSet(V, T) <= SumFunctionOnSet(W, T)
             /\ SumFunctionOnSet(V, T) \in Int /\ SumFunctionOnSet(W, T) \in Int
  <2>1. IsNumeric(V, T) /\ IsNumeric(W, T)
    BY <1>0, <1>2, FS_Subset DEF IsNumeric
  <2> QED BY <1>2, <2>1, SumMonotone, SumInt
<1> QED BY <1>1, <1>2, <1>3 DEF V, W

(* What a request accounts for of the rows stays accounted for at a higher *)
(* index, and so does what a payment is covered by, in a wallet no less.   *)
LEMMA AccountsKept ==
  ASSUME TreasuryTypes, TreasuryTypes', RowsSound, UNCHANGED positions,
         fund'.index >= fund.index, fund'.shares = fund.shares, NEW l, NEW m \in Mems
  PROVE  /\ AccountAt(l, m) => AccountAt(l, m)'
         /\ balance' >= balance /\ CoverAt(l, m) => CoverAt(l, m)'
<1>0. /\ m.amount \in Nat /\ m.freed \in Int /\ m.short \in Int /\ m.seen \in Int
      /\ balance \in Int /\ balance' \in Int /\ fund.shares \in Int
  BY DEF Mems, TreasuryTypes, TypeOK
<1>1. Active' = Active /\ Shares' = Shares /\ SharesOfRows' = SharesOfRows
  BY SameRows
<1>2. /\ \A s, a \in Nat : Covers(s, a) => Covers(s, a)'
      /\ \A i \in Active : Values[i] <= Values'[i] /\ Values[i] \in Int /\ Values'[i] \in Int
      /\ \A T \in SUBSET Active :
           /\ SumFunctionOnSet(Values, T) <= SumFunctionOnSet(Values', T)
           /\ SumFunctionOnSet(Values, T) \in Int /\ SumFunctionOnSet(Values', T) \in Int
  BY WorthKept
<1>3. ASSUME AccountAt(l, m) PROVE AccountAt(l, m)'
  <2>1. ASSUME NEW x \in Int, x > 0, Covers(x, m.amount)
        PROVE  ValueOfShares(x + 1, fund'.index) >= m.amount
    <3>1. x \in Nat
      BY <2>1
    <3> QED BY <1>0, <1>2, <2>1, <3>1 DEF Covers, ValueOfShares
  <2>2. l = "sharesAfter" => fund.shares - m.seen > 0 /\ fund.shares - m.seen \in Int /\ Covers(fund.shares - m.seen, m.amount)
    BY <1>0, <1>3 DEF AccountAt
  <2>3. l = "record" => m.seen > 0 /\ m.seen \in Int /\ Covers(m.seen, m.amount)
    BY <1>0, <1>3 DEF AccountAt
  <2>4. l = "sharesAfter" => ValueOfShares(fund'.shares - m.seen + 1, fund'.index) >= m.amount
    BY <2>1, <2>2
  <2>5. l = "record" => ValueOfShares(m.seen + 1, fund'.index) >= m.amount
    BY <2>1, <2>3
  <2>6. /\ l = "sharesAfter" => Covers(fund.shares - m.seen, m.amount)'
        /\ l = "record" => Covers(m.seen, m.amount)'
    BY <2>4, <2>5 DEF Covers, ValueOfShares
  <2> QED BY <1>1, <1>3, <2>6 DEF AccountAt
<1>4. ASSUME balance' >= balance, CoverAt(l, m) PROVE CoverAt(l, m)'
  <2> DEFINE left == SumFunctionOnSet(Values, m.todo)
             more == SumFunctionOnSet(Values', m.todo)
  <2>1. l \in {"nextRecall"} \union Recalling => m.todo \subseteq Active
    BY <1>4 DEF CoverAt
  <2>2. l \in {"nextRecall"} \union Recalling => left <= more /\ left \in Int /\ more \in Int
    BY <1>2, <2>1
  <2>3. l \in {"recall", "redeemBalance", "redeem"} /\ m.short > 0 =>
          Values[m.pos] <= Values'[m.pos] /\ Values[m.pos] \in Int /\ Values'[m.pos] \in Int
    BY <1>2, <1>4 DEF CoverAt
  <2>4. /\ l = "nextRecall" => m.freed + left >= m.short
        /\ m.short > 0 /\ l \in {"recall", "redeemBalance", "redeem"} =>
             m.pos \in Active \ m.todo /\ m.freed + Values[m.pos] + left >= m.short
        /\ m.short > 0 /\ l = "redeemed" => m.pos \notin m.todo /\ m.freed + (balance - m.seen) + left >= m.short
        /\ m.short > 0 /\ l = "flip" => m.pos \notin m.todo /\ m.freed + left >= m.short
    BY <1>4 DEF CoverAt
  <2> HIDE DEF left, more
  <2>5. /\ l = "nextRecall" => m.freed + more >= m.short
        /\ m.short > 0 /\ l \in {"recall", "redeemBalance", "redeem"} =>
             m.pos \in Active \ m.todo /\ m.freed + Values'[m.pos] + more >= m.short
        /\ m.short > 0 /\ l = "redeemed" => m.pos \notin m.todo /\ m.freed + (balance' - m.seen) + more >= m.short
        /\ m.short > 0 /\ l = "flip" => m.pos \notin m.todo /\ m.freed + more >= m.short
    BY <1>0, <1>4, <2>2, <2>3, <2>4 DEF Recalling
  <2>6. /\ l \in Measuring => m.freed = 0
        /\ m.short > 0 /\ l = "redeem" => m.seen <= balance'
    BY <1>0, <1>4 DEF CoverAt
  <2> QED BY <1>1, <2>1, <2>5, <2>6 DEF CoverAt, more
<1> QED BY <1>3, <1>4

(* A step of a request that remembers nothing of the rows, in a wallet     *)
(* that is left no less, or where nobody runs or counts on it.             *)
LEMMA AsideQuiet ==
  ASSUME TreasuryTypes, TreasuryTypes', QuietInv, Quiet, NEW r \in Requests, NEW m \in Mems,
         NEW next \in Places \ {"dead"}, Moves(r, m, next), pc[r] \notin Midway, next \notin Running,
         UNCHANGED <<positions, mempool, env>>, fund'.index >= fund.index, fund'.shares = fund.shares,
         balance' >= balance \/ Idle \/ ~Steady
  PROVE  QuietInv'
<1>0. OneAtATime /\ Settled /\ RowsSound /\ \A s \in Requests : Accounts(s)
  BY DEF QuietInv
<1>1. pc'[r] = next /\ \A s \in Requests \ {r} : pc'[s] = pc[s] /\ mem'[s] = mem[s]
  BY OneMoves
<1>2. OneAtATime'
  BY <1>0, OneKept
<1>3. Active' = Active /\ Shares' = Shares /\ SharesOfRows' = SharesOfRows
  BY SameRows
<1>4. Settled'
  <2>1. (\A s \in Requests : pc'[s] \notin Midway) => \A s \in Requests : pc[s] \notin Midway
    BY <1>1
  <2> QED BY <1>0, <1>3, <2>1 DEF Settled
<1>5. RowsSound'
  <2>1. ASSUME NEW i \in Active
        PROVE  positions[i].shares > 0 /\ ValueOfShares(positions[i].shares + 1, fund'.index) >= positions[i].amountIn
    <3>1. /\ positions[i].shares \in Nat /\ positions[i].shares > 0 /\ positions[i].amountIn \in Nat
          /\ Covers(positions[i].shares, positions[i].amountIn)
      BY <1>0, ActiveIs DEF RowsSound, PositionRows
    <3>2. ValueOfShares(positions[i].shares + 1, fund'.index) >= positions[i].amountIn
      BY <1>0, <3>1, WorthKept DEF Covers, ValueOfShares
    <3> QED BY <3>1, <3>2
  <2> QED BY <1>3, <2>1 DEF RowsSound, Covers, ValueOfShares
<1>6. ASSUME NEW s \in Requests PROVE Accounts(s)'
  <2>1. CASE pc'[s] \notin Running
    BY <2>1, NothingToAccount
  <2>2. CASE pc'[s] \in Running
    <3>1. s # r /\ ~Idle
      BY <1>1, <2>2 DEF Idle
    <3>2. PICK l, n : l = pc[s] /\ n = mem[s]
      OBVIOUS
    <3>3. pc'[s] = l /\ mem'[s] = n /\ n \in Mems /\ AccountAt(l, n) /\ (Steady => CoverAt(l, n))
      BY <1>0, <1>1, <3>1, <3>2 DEF Accounts, TreasuryTypes
    <3>4. AccountAt(l, n)' /\ (Steady => CoverAt(l, n)')
      BY <1>0, <3>1, <3>3, AccountsKept
    <3>5. Steady' <=> Steady
      BY DEF Steady
    <3> QED BY <3>3, <3>4, <3>5 DEF Accounts, AccountAt, CoverAt
  <2> QED BY <2>1, <2>2
<1> QED BY <1>2, <1>4, <1>5, <1>6 DEF QuietInv

(* An accrual takes nothing from what the others found or are owed.        *)
LEMMA AccrueQuiet ==
  ASSUME TreasuryTypes, TreasuryTypes', Quiet, QuietInv, NEW r \in Requests, Accrue(r)
  PROVE  QuietInv'
<1>1. /\ At(r, "accrue") /\ mem[r].amount \in Nat /\ UNCHANGED <<positions, env, mem>>
      /\ SendStep(r, "accrue", mem[r].amount, "done", "done")
  BY CallsDo DEF books
<1>2. mempool' = mempool /\ balance' = balance /\ fund'.shares = fund.shares /\ fund'.index >= fund.index
  <2>1. fund.index \in Nat
    BY DEF TreasuryTypes, TypeOK
  <2>2. CASE Accepts("accrue", mem[r].amount) /\ Apply("accrue", mem[r].amount) /\ UNCHANGED mempool
    BY <1>1, <2>2, Applied DEF Calls
  <2>3. CASE UNCHANGED <<balance, fund, repaid>> /\ (~Silence => mempool' = mempool)
    BY <2>1, <2>3 DEF Quiet, Silence
  <2> QED BY <1>1, <2>2, <2>3 DEF SendStep
<1>3. Moves(r, mem[r], "done") /\ mem[r] \in Mems /\ "done" \in Places \ {"dead"} /\ "done" \notin Running
  BY <1>1 DEF SendStep, TreasuryTypes, Places, Running
<1>4. balance' >= balance /\ pc[r] \notin Midway
  BY <1>1, <1>2 DEF TreasuryTypes, TypeOK, At, Midway
<1> QED BY <1>1, <1>2, <1>3, <1>4, AsideQuiet

(* Nor does a settlement, nor a compensation that meets nobody; and one    *)
(* that does takes nothing of the fund.                                    *)
LEMMA SourceQuiet ==
  ASSUME TreasuryTypes, TreasuryTypes', Quiet, QuietInv, NEW r \in Requests, Settle(r) \/ CompensateSender(r)
  PROVE  QuietInv'
<1>0. "settled" \in Places \ {"dead"} /\ "settled" \notin Running /\ "done" \in Places \ {"dead"} /\ "done" \notin Running
  BY DEF Places, Running
<1>1. fund.index \in Nat /\ (fund' = fund => fund'.index >= fund.index)
  BY DEF TreasuryTypes, TypeOK
<1>2. CASE Settle(r)
  <2>1. PICK m : SettleStep(r, m)
    BY <1>2, SettleDoes
  <2>2. /\ m \in Mems /\ Moves(r, m, "settled") /\ pc[r] \notin Midway
        /\ UNCHANGED <<fund, positions, mempool, env>>
    BY <2>1 DEF SettleStep, At, Midway
  <2>3. balance' >= balance
    <3>1. balance \in Nat /\ m.amount \in Nat /\ balance' = balance + m.amount
      BY <2>1 DEF SettleStep, Mems, TreasuryTypes, TypeOK
    <3> QED BY <3>1
  <2> QED BY <1>0, <1>1, <2>2, <2>3, AsideQuiet
<1>3. CASE CompensateSender(r)
  <2>1. /\ At(r, "settled") /\ mem[r].amount \in Nat /\ UNCHANGED <<positions, env, mem>> /\ MayCome("compensate")
    BY <1>3, CallsDo DEF books
  <2>2. PICK ok \in {"done", "settled"} : SendStep(r, "transfer", mem[r].amount, ok, "settled")
    BY <1>3, CallsDo
  <2>3. fund' = fund
    <3>1. CASE Accepts("transfer", mem[r].amount) /\ Apply("transfer", mem[r].amount)
      BY <2>1, <3>1, Applied DEF Calls
    <3> QED BY <2>2, <3>1 DEF SendStep
  <2>4. PICK next \in {"done", "settled"} : Moves(r, mem[r], next) /\ mempool' = mempool
    BY <2>2 DEF SendStep, Quiet, Silence
  <2>5. Idle \/ ~Steady
    BY <2>1 DEF MayCome, Steady
  <2>6. mem[r] \in Mems /\ pc[r] \notin Midway
    BY <2>1 DEF TreasuryTypes, At, Midway
  <2> QED BY <1>0, <1>1, <2>1, <2>3, <2>4, <2>5, <2>6, AsideQuiet
<1> QED BY <1>2, <1>3

(* What is minted for a park is accounted for.                             *)
LEMMA SubscribeQuiet ==
  ASSUME TreasuryTypes, TreasuryTypes', Quiet, QuietInv, NEW r \in Requests, Subscribe(r)
  PROVE  QuietInv'
<1> DEFINE o == mem[r]
<1>0. OneAtATime /\ Settled /\ RowsSound /\ Accounts(r)
  BY DEF QuietInv
<1>1. /\ pc[r] = "subscribe" /\ o.amount \in Nat /\ UNCHANGED <<positions, env, mem>>
      /\ SendStep(r, "subscribe", o.amount, "sharesAfter", "done")
  BY CallsDo DEF books, At
<1>2. Busy(r) /\ o \in Mems /\ "sharesAfter" \in Places \ {"dead"} /\ "done" \in Places \ {"dead"} /\ "done" \notin Running
  BY <1>1 DEF Busy, Running, Places, TreasuryTypes
<1>3. SharesOfRows = fund.shares /\ o.seen = SharesOfRows
  BY <1>0, <1>1, <1>2, AgreeNow DEF Midway, Accounts, AccountAt
<1>4. Active' = Active /\ SharesOfRows' = SharesOfRows
  BY <1>1, SameRows
<1>5. CASE /\ Accepts("subscribe", o.amount) /\ Apply("subscribe", o.amount) /\ UNCHANGED mempool
           /\ Moves(r, o, "sharesAfter")
  <2> DEFINE minted == SharesFor(o.amount, fund.index)
  <2>1. fund'.index = fund.index /\ minted > 0 /\ fund'.shares = fund.shares + minted
    BY <1>1, <1>5, Applied DEF Calls
  <2>2. minted \in Nat /\ ValueOfShares(minted + 1, fund.index) >= o.amount
    <3>1. fund.index \in Nat \ {0}
      BY DEF TreasuryTypes, TypeOK
    <3> QED BY <1>1, <3>1, MintedWorth
  <2> HIDE DEF minted
  <2>3. RowsSound'
    BY <1>0, <1>1, <2>1, SameRows
  <2>4. pc'[r] = "sharesAfter" /\ mem'[r] = o
    BY <1>2, <1>5, OneMoves
  <2>5. fund.shares \in Nat /\ fund'.shares - o.seen = minted
    BY <1>3, <2>1, <2>2 DEF TreasuryTypes, TypeOK
  <2>6. fund'.shares > o.seen
    BY <1>3, <2>1, <2>2, <2>5
  <2>7. ValueOfShares(fund'.shares - o.seen + 1, fund'.index) >= o.amount
    BY <2>1, <2>2, <2>5
  <2>8. Accounts(r)'
    BY <1>1, <1>3, <1>4, <2>4, <2>6, <2>7 DEF Accounts, AccountAt, CoverAt, Covers, ValueOfShares, Measuring, Recalling
  <2> QED BY <1>0, <1>2, <1>5, <2>3, <2>8, QuietFrom DEF QuietInv, Midway
<1>6. CASE /\ UNCHANGED <<balance, fund, repaid>> /\ (~Silence => mempool' = mempool)
           /\ Moves(r, o, "done")
  <2>1. mempool' = mempool
    BY <1>6 DEF Quiet, Silence
  <2>2. RowsSound' /\ SharesOfRows' = fund'.shares
    BY <1>0, <1>1, <1>3, <1>4, <1>6, SameRows
  <2>3. Accounts(r)'
    BY <1>2, <1>6, OneMoves, NothingToAccount
  <2> QED BY <1>0, <1>2, <1>6, <2>1, <2>2, <2>3, QuietFrom DEF QuietInv
<1> QED BY <1>1, <1>5, <1>6 DEF SendStep

(* What a recall redeems is what its row holds, and its worth arrives.     *)
LEMMA RedeemQuiet ==
  ASSUME TreasuryTypes, TreasuryTypes', Quiet, QuietInv, NEW r \in Requests, Redeem(r)
  PROVE  QuietInv'
<1> DEFINE o == mem[r]
           shares == positions[o.pos].shares
<1>0. OneAtATime /\ Settled /\ RowsSound /\ Accounts(r)
  BY DEF QuietInv
<1>1. /\ pc[r] = "redeem" /\ o.pos \in DOMAIN positions /\ UNCHANGED <<positions, env, mem>>
      /\ shares \in Int /\ SendStep(r, "redeem", shares, "redeemed", "done")
  BY CallsDo DEF books, At
<1>2. Busy(r) /\ o \in Mems /\ "redeemed" \in Places \ {"dead"} /\ "done" \in Places \ {"dead"} /\ "done" \notin Running
  BY <1>1 DEF Busy, Running, Places, TreasuryTypes
<1>3. SharesOfRows = fund.shares /\ o.pos \in Active
  BY <1>0, <1>1, <1>2, AgreeNow DEF Midway, Accounts, AccountAt
<1>4. Active' = Active /\ SharesOfRows' = SharesOfRows
  BY <1>1, SameRows
<1>5. CASE /\ Accepts("redeem", shares) /\ Apply("redeem", shares) /\ UNCHANGED mempool
           /\ Moves(r, o, "redeemed")
  <2> DEFINE value == ValueOfShares(shares, fund.index)
             left == SumFunctionOnSet(Values, o.todo)
  <2>1. /\ fund'.index = fund.index /\ fund'.shares = fund.shares - shares
        /\ balance' = balance + value /\ value \in Nat
    BY <1>1, <1>5, Applied DEF Calls
  <2>2. RowsSound' /\ Values' = Values
    BY <1>0, <1>1, <2>1, SameRows
  <2>3. pc'[r] = "redeemed" /\ mem'[r] = o
    BY <1>2, <1>5, OneMoves
  <2>4. Values[o.pos] = value
    BY <1>1, RowsAre
  <2>5. /\ o.freed \in Int /\ o.seen \in Int /\ o.short \in Int /\ balance \in Nat /\ left \in Int
    <3>1. o.todo \subseteq DOMAIN positions
      BY DEF TreasuryTypes, TypeOK
    <3> QED BY <1>2, <3>1, RowsAre, SumInt DEF Mems, TreasuryTypes, TypeOK
  <2>6. Steady => /\ o.todo \subseteq Active
                  /\ o.short > 0 => o.pos \notin o.todo /\ o.freed + Values[o.pos] + left >= o.short /\ o.seen <= balance
    BY <1>0, <1>1 DEF Accounts, CoverAt, Recalling
  <2> HIDE DEF value, left
  <2>7. Steady /\ o.short > 0 => o.pos \notin o.todo /\ o.freed + (balance' - o.seen) + left >= o.short
    BY <2>1, <2>4, <2>5, <2>6
  <2>8. fund'.shares = SharesOfRows' - shares
    BY <1>3, <1>4, <2>1
  <2>9. AccountAt(pc[r], mem[r])'
    BY <1>1, <1>3, <1>4, <2>3, <2>8 DEF AccountAt
  <2>10. Steady' => CoverAt(pc[r], mem[r])'
    <3>1. Steady' <=> Steady
      BY <1>1 DEF Steady
    <3> QED BY <3>1, <1>4, <2>2, <2>3, <2>6, <2>7 DEF CoverAt, Measuring, Recalling, left
  <2> QED BY <1>0, <1>2, <1>5, <2>2, <2>9, <2>10, QuietFrom DEF QuietInv, Midway, Accounts
<1>6. CASE /\ UNCHANGED <<balance, fund, repaid>> /\ (~Silence => mempool' = mempool)
           /\ Moves(r, o, "done")
  <2>1. mempool' = mempool
    BY <1>6 DEF Quiet, Silence
  <2>2. RowsSound' /\ SharesOfRows' = fund'.shares
    BY <1>0, <1>1, <1>3, <1>4, <1>6, SameRows
  <2>3. Accounts(r)'
    BY <1>2, <1>6, OneMoves, NothingToAccount
  <2> QED BY <1>0, <1>2, <1>6, <2>1, <2>2, <2>3, QuietFrom DEF QuietInv
<1> QED BY <1>1, <1>5, <1>6 DEF SendStep

(* The new row holds what the fund minted and no row said yet.             *)
LEMMA RecordQuiet ==
  ASSUME TreasuryTypes, TreasuryTypes', Quiet, QuietInv, NEW r \in Requests, RecordPosition(r)
  PROVE  QuietInv'
<1> DEFINE o == mem[r]
           row == [shares |-> o.seen, amountIn |-> o.amount, entry |-> o.entry, status |-> "ACTIVE"]
           n == Len(positions) + 1
<1>0. OneAtATime /\ Settled /\ RowsSound /\ Accounts(r)
  BY DEF QuietInv
<1>1. /\ pc[r] = "record" /\ UNCHANGED <<fund, mempool, mem>> /\ Go(r, "done")
      /\ positions' = Append(positions, row)
  BY DEF RecordPosition, At, chain, Quiet, DbFault
<1>2. /\ Busy(r) /\ o \in Mems /\ "done" \in Places \ {"dead"} /\ "done" \notin Running /\ Moves(r, o, "done")
  BY <1>1, Stays DEF Busy, Running, Places
<1>3. /\ positions \in Seq(PositionRows) /\ fund.shares \in Nat
      /\ o.seen > 0 /\ o.seen \in Int /\ o.seen = fund.shares - SharesOfRows /\ Covers(o.seen, o.amount)
  BY <1>0, <1>1, <1>2 DEF Accounts, AccountAt, TreasuryTypes, TypeOK, Mems
<1>4. /\ DOMAIN positions' = DOMAIN positions \union {n} /\ n \notin DOMAIN positions
      /\ positions'[n] = row /\ \A i \in DOMAIN positions : positions'[i] = positions[i]
  <2> HIDE DEF row
  <2> QED BY <1>1, <1>3
<1>5. row.shares = o.seen /\ row.amountIn = o.amount /\ row.status = "ACTIVE"
  OBVIOUS
<1> HIDE DEF row, n
<1>6. Active \subseteq DOMAIN positions /\ Active' = Active \union {n} /\ n \notin Active
  BY <1>4, <1>5 DEF Active
<1>7. Shares'[n] = o.seen /\ \A i \in Active : Shares'[i] = Shares[i]
  BY <1>4, <1>5, <1>6 DEF Shares
<1>8. SharesOfRows' = fund'.shares
  <2> DEFINE f == Shares
             g == Shares'
  <2>1. IsNumeric(f, Active) /\ SharesOfRows = SumFunctionOnSet(f, Active) /\ SharesOfRows \in Int
    BY <1>6, RowsAre DEF SharesOfRows
  <2>2. SharesOfRows' = SumFunctionOnSet(g, Active \union {n})
    BY <1>6 DEF SharesOfRows
  <2> HIDE DEF f, g
  <2>3. g[n] = o.seen /\ \A i \in Active : f[i] = g[i]
    BY <1>7 DEF f, g
  <2>4. SumFunctionOnSet(f, Active) = SumFunctionOnSet(g, Active) /\ IsNumeric(g, Active)
    BY <2>1, <2>3, SumSame DEF IsNumeric
  <2>5. SumFunctionOnSet(g, Active \union {n}) = g[n] + SumFunctionOnSet(g, Active)
    BY <1>3, <1>6, <2>3, <2>4, SumWith
  <2> QED BY <1>1, <1>3, <2>1, <2>2, <2>3, <2>4, <2>5
<1>9. RowsSound'
  <2>1. ASSUME NEW i \in Active'
        PROVE  positions'[i].shares > 0 /\ ValueOfShares(positions'[i].shares + 1, fund.index) >= positions'[i].amountIn
    <3>1. CASE i = n
      BY <1>3, <1>4, <1>5, <3>1 DEF Covers
    <3>2. CASE i \in Active
      BY <1>0, <1>4, <1>6, <3>2 DEF RowsSound, Covers
    <3> QED BY <1>6, <3>1, <3>2
  <2> QED BY <1>1, <2>1 DEF RowsSound, Covers, ValueOfShares
<1>10. Accounts(r)'
  BY <1>2, OneMoves, NothingToAccount
<1> QED BY <1>0, <1>1, <1>2, <1>8, <1>9, <1>10, QuietFrom DEF QuietInv

(* The row of a recall ends when its shares are gone.                      *)
LEMMA FlipQuiet ==
  ASSUME TreasuryTypes, TreasuryTypes', Quiet, QuietInv, NEW r \in Requests, FlipPosition(r)
  PROVE  QuietInv'
<1> DEFINE o == mem[r]
           c == o.pos
           next == IF Paying(r) THEN "nextRecall" ELSE "done"
           left == SumFunctionOnSet(Values, o.todo)
<1>0. OneAtATime /\ Settled /\ RowsSound /\ Accounts(r)
  BY DEF QuietInv
<1>1. /\ pc[r] = "flip" /\ UNCHANGED <<balance, fund, mempool, mem>> /\ Go(r, next)
      /\ positions' = [positions EXCEPT ![c].status = "RECALLED"]
  BY DEF FlipPosition, At, chain, Quiet, DbFault
<1>2. /\ Busy(r) /\ o \in Mems /\ next \in Places \ {"dead"} /\ Moves(r, o, next)
  BY <1>1, Stays DEF Busy, Running, Places
<1>3. /\ positions \in Seq(PositionRows) /\ fund.shares \in Nat /\ c \in Active
      /\ Active \subseteq DOMAIN positions /\ \A i \in DOMAIN positions : positions[i] \in PositionRows
      /\ fund.shares = SharesOfRows - positions[c].shares
      /\ Steady => o.todo \subseteq Active /\ (o.short > 0 => c \notin o.todo /\ o.freed + left >= o.short)
  BY <1>0, <1>1, ActiveIs DEF Accounts, AccountAt, CoverAt, Recalling, TreasuryTypes, TypeOK
<1>4. /\ DOMAIN positions' = DOMAIN positions
      /\ positions'[c].status = "RECALLED"
      /\ \A i \in DOMAIN positions \ {c} : positions'[i] = positions[i]
      /\ \A i \in DOMAIN positions : positions'[i].shares = positions[i].shares /\ positions'[i].amountIn = positions[i].amountIn
  <2> HIDE DEF c
  <2>1. positions[c] \in PositionRows /\ c \in DOMAIN positions
    BY <1>3
  <2> DEFINE row == [positions[c] EXCEPT !.status = "RECALLED"]
  <2>2. row.status = "RECALLED" /\ row.shares = positions[c].shares /\ row.amountIn = positions[c].amountIn
    BY <2>1 DEF PositionRows
  <2>3. positions' = [positions EXCEPT ![c] = row]
    BY <1>1
  <2> HIDE DEF row
  <2>4. positions'[c] = row /\ \A i \in DOMAIN positions \ {c} : positions'[i] = positions[i]
    BY <1>3, <2>1, <2>3
  <2>5. DOMAIN positions' = DOMAIN positions
    BY <1>3, <2>3
  <2> QED BY <2>2, <2>4, <2>5
<1> HIDE DEF c, left
<1>5. Active' = Active \ {c}
  BY <1>3, <1>4 DEF Active
<1>6. Shares' = Shares /\ Values' = Values
  BY <1>1, <1>4 DEF Shares, Values, ValueOfShares
<1>7. SharesOfRows' = fund'.shares
  <2>1. IsNumeric(Shares, Active) /\ Shares[c] = positions[c].shares /\ Shares[c] \in Int
    BY <1>3, RowsAre
  <2>2. SumFunctionOnSet(Shares, Active) = Shares[c] + SumFunctionOnSet(Shares, Active \ {c})
        /\ IsNumeric(Shares, Active \ {c})
    <3>1. c \in Active
      BY <1>3
    <3> QED BY ONLY <2>1, <3>1, SumOut
  <2>3. SumFunctionOnSet(Shares, Active \ {c}) \in Int
    BY <2>2, SumInt
  <2>4. SharesOfRows' = SumFunctionOnSet(Shares, Active \ {c}) /\ SharesOfRows = SumFunctionOnSet(Shares, Active)
    BY <1>5, <1>6 DEF SharesOfRows
  <2> QED BY <1>1, <1>3, <2>1, <2>2, <2>3, <2>4
<1>8. RowsSound'
  BY <1>0, <1>1, <1>3, <1>4, <1>5 DEF RowsSound, Covers, ValueOfShares
<1>9. pc'[r] = next /\ mem'[r] = o
  BY <1>2, OneMoves
<1>10. AccountAt(pc[r], mem[r])'
  BY <1>9 DEF AccountAt
<1>12. Steady' <=> Steady
  BY DEF Steady, FlipPosition
<1>11. ASSUME Steady PROVE CoverAt(pc[r], mem[r])'
  <2>1. CASE ~Paying(r)
    BY <1>9, <2>1 DEF CoverAt, Measuring, Recalling
  <2>2. CASE Paying(r)
    <3>1. pc'[r] = "nextRecall" /\ o.short > 0
      BY <1>9, <2>2 DEF Paying
    <3>2. o.todo \subseteq Active' /\ o.freed + left >= o.short
      BY <1>3, <1>5, <1>11, <3>1
    <3>3. SumFunctionOnSet(Values', o.todo) = left
      BY <1>6 DEF left
    <3> QED BY <1>9, <3>1, <3>2, <3>3 DEF CoverAt, Measuring
  <2> QED BY <2>1, <2>2
<1> QED BY <1>0, <1>1, <1>2, <1>7, <1>8, <1>10, <1>11, <1>12, QuietFrom DEF QuietInv, Accounts

(* Reservations and payouts are not the fund's.                            *)
LEMMA PayQuiet ==
  ASSUME TreasuryTypes, TreasuryTypes', Quiet, QuietInv, NEW r \in Requests, Reserve(r) \/ Payout(r) \/ EndReservation(r)
  PROVE  QuietInv'
<1>0. OneAtATime /\ Settled /\ RowsSound /\ Accounts(r)
  BY DEF QuietInv
<1>1. UNCHANGED <<positions, fund, mempool, mem>> /\ pc[r] \in {"reserve", "payout", "consume", "release"}
  BY DEF Reserve, Payout, EndReservation, books, chain, At
<1>2. PICK next \in {"payout", "done", "consume", "release"} : Go(r, next)
  BY DEF Reserve, Payout, EndReservation
<1>3. Busy(r) /\ mem[r] \in Mems /\ next \in Places \ {"dead"} /\ Moves(r, mem[r], next)
  BY <1>1, <1>2, Stays DEF Busy, Running, Places
<1>4. SharesOfRows' = fund'.shares
  BY <1>0, <1>1, <1>3, AgreeNow, SameRows DEF Midway
<1>5. RowsSound'
  BY <1>0, <1>1, SameRows
<1>6. pc'[r] = next
  BY <1>3, OneMoves
<1>7. Accounts(r)'
  BY <1>2, <1>6 DEF Accounts, AccountAt, CoverAt, Measuring, Recalling
<1> QED BY <1>0, <1>1, <1>3, <1>4, <1>5, <1>7, QuietFrom DEF QuietInv

(* Every step.                                                             *)
LEMMA QuietStep ==
  ASSUME TreasuryTypes, QuietInv, [Next]_vars
  PROVE  QuietInv'
<1>0. TreasuryTypes' /\ env' = env
  BY TypesStep, EnvKept
<1> SUFFICES ASSUME Quiet PROVE QuietInv'
  BY <1>0 DEF QuietInv, Quiet
<1>1. ASSUME NEW r \in Requests, Thinks(r) PROVE QuietInv'
  BY <1>1, ThinkDoes, ThinkQuiet
<1>2. ASSUME NEW r \in Requests, Subscribe(r) \/ Redeem(r) \/ Accrue(r) PROVE QuietInv'
  BY <1>0, <1>2, SubscribeQuiet, RedeemQuiet, AccrueQuiet
<1>3. ASSUME NEW r \in Requests, RecordPosition(r) \/ FlipPosition(r) PROVE QuietInv'
  BY <1>0, <1>3, RecordQuiet, FlipQuiet
<1>4. ASSUME NEW r \in Requests, Reserve(r) \/ Payout(r) \/ EndReservation(r) PROVE QuietInv'
  BY <1>0, <1>4, PayQuiet
<1>7. ASSUME NEW r \in Requests, Settle(r) \/ CompensateSender(r) PROVE QuietInv'
  BY <1>0, <1>7, SourceQuiet
<1>5. ~Crash /\ ~\E tx \in mempool : Land(tx)
  BY DEF Crash, Quiet, QuietInv, OneAtATime
<1>6. CASE Rest \/ UNCHANGED vars
  <2>1. UNCHANGED <<balance, fund, positions, mempool, pc, mem, env>>
    BY <1>6 DEF Rest, vars
  <2>2. SharesOfRows' = SharesOfRows /\ (RowsSound' <=> RowsSound)
    BY <2>1, SameRows
  <2>3. \A r \in Requests : Accounts(r)' <=> Accounts(r)
    BY <2>1, SameAccount DEF Accounts
  <2> QED BY <2>1, <2>2, <2>3 DEF QuietInv, OneAtATime, Busy, Settled
<1> QED BY <1>1, <1>2, <1>3, <1>4, <1>5, <1>6, <1>7, NextIs

(* From the start.                                                         *)
LEMMA QuietAlways == Spec => []QuietInv
<1>1. Init => QuietInv
  <2> SUFFICES ASSUME Init PROVE QuietInv
    OBVIOUS
  <2>1. mempool = {} /\ \A r \in Requests : pc[r] = "idle"
    BY DEF Init
  <2>2. positions = <<>> /\ Active = {}
    BY DEF Init, Active
  <2>3. SharesOfRows = fund.shares
    BY <2>2, SumNone DEF SharesOfRows, Init
  <2>4. OneAtATime
    BY <2>1 DEF OneAtATime, Busy, Running
  <2>5. \A r \in Requests : Accounts(r)
    BY <2>1 DEF Accounts, AccountAt, CoverAt, Measuring, Recalling
  <2> QED BY <2>2, <2>3, <2>4, <2>5 DEF QuietInv, Settled, RowsSound
<1>2. TreasuryTypes /\ QuietInv /\ [Next]_vars => QuietInv'
  BY QuietStep
<1> QED BY <1>1, <1>2, TypesAlways, PTL DEF Spec

(* lib/treasury.ts: with one operation at a time and nothing failing half- *)
(* way, between requests the active rows hold exactly the treasury's       *)
(* shares, whatever was parked, recalled and accrued in between.           *)
THEOREM RowsMatch == Spec => []RowsMatchFund
<1>1. QuietInv => RowsMatchFund
  BY DEF QuietInv, RowsMatchFund, Settled, Idle, Midway, Running
<1> QED BY <1>1, QuietAlways, PTL

(* lib/treasury.ts and TokenizedMMF: no active position is ever worth a    *)
(* share less than what was parked in it.                                  *)
THEOREM PrincipalIsKept == Spec => []PrincipalKept
<1>1. QuietInv => PrincipalKept
  BY DEF QuietInv, PrincipalKept, RowsSound, Covers
<1> QED BY <1>1, QuietAlways, PTL

(* lib/treasury.ts recallForPayment: once all it chose is recalled, a      *)
(* payment's shortfall is freed, whatever settles meanwhile.               *)
THEOREM RecallsCover == Spec => []RecallCovers
<1>1. TreasuryTypes /\ QuietInv => RecallCovers
  <2> SUFFICES ASSUME TreasuryTypes, QuietInv, Quiet, Steady, NEW r \in Requests, At(r, "nextRecall"), mem[r].todo = {}
               PROVE  mem[r].freed >= mem[r].short
    BY DEF RecallCovers, Steady
  <2>1. mem[r].freed + SumFunctionOnSet(Values, {}) >= mem[r].short
    BY DEF QuietInv, Accounts, CoverAt, At
  <2>2. SumFunctionOnSet(Values, {}) = 0
    BY SumNone
  <2>3. mem[r].freed \in Int
    BY DEF TreasuryTypes, Mems
  <2> QED BY <2>1, <2>2, <2>3
<1> QED BY <1>1, TypesAlways, QuietAlways, PTL
=============================================================================
