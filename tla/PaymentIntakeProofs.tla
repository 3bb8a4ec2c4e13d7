------------------------- MODULE PaymentIntakeProofs -------------------------
(***************************************************************************)
(* That no payment walks round the compliance gate, for any number of      *)
(* requests, any amounts, rates and tiers, any answers of the providers    *)
(* and any faults: executes, quotes, reviews and cancels may overlap as    *)
(* they like.  The argument is IntakeInv: what is on the log, where the    *)
(* one screening stands, and what each handler has read.  With it, that a  *)
(* promise never exceeds the mid rate: Promised says where it comes from,  *)
(* and the lemmas about floors what it can be.                             *)
(***************************************************************************)
EXTENDS PaymentIntake, WellFoundedInduction, TLAPS

Labels == Running \union {"idle", "done"}
Statuses == PAYMENT_STATES \union {None}
Quotes == [{"bridge", "srcchain"} -> Int] \union [{"instant", "batched"} -> Int] \union {<<>>}

Rows ==
  [status : Statuses, amount : Nat, quote : Quotes, route : Routes \union {None}, promised : Int]
Memories ==
  [who : Callers \union {None}, status : Statuses, pick : Routes \union {None}, promised : Int,
   worst : {"APPROVED", "MANUAL_REVIEW", "REJECTED", None}]
Entries == [from : Statuses, to : PAYMENT_STATES, who : Callers \union {"system", None}]

IntakeTypeOK ==
  /\ row \in Rows
  /\ checks \in Seq(SUBSET Verdicts)
  /\ log \in Seq(Entries)
  /\ pc \in [Requests -> Labels]
  /\ mem \in [Requests -> Memories]
  /\ world \in Worlds

Fresh == {None, "DRAFT", "QUOTED"}
Undecided == Fresh \union {"COMPLIANCE_PENDING", "MANUAL_REVIEW"}
Screening == {"screen", "verdict"}

(* A running handler has read a payment, and what it read decides where it *)
(* is; an execute has read an amount that parses.                          *)
Read(r) ==
  /\ pc[r] \in Running => mem[r].status \in PAYMENT_STATES /\ row.status # None
  /\ At(r, "execute") => mem[r].status = "QUOTED"
  /\ pc[r] \in {"execute", "screen"} => Canonical(row.amount)
  /\ At(r, "cancel") => mem[r].status \in CANCELLABLE_STATES
  /\ At(r, "review") => mem[r].status = "MANUAL_REVIEW" /\ MayReview(mem[r].who)

(* The one screening: nothing but a cancel moves the payment meanwhile.    *)
Screens(r) ==
  /\ pc[r] \in Screening =>
       /\ mem[r].status = "COMPLIANCE_PENDING"
       /\ row.status \in {"COMPLIANCE_PENDING", "CANCELLED"}
  /\ At(r, "screen") => checks = <<>>
  /\ At(r, "verdict") => Len(checks) = 1 /\ mem[r].worst = Overall(checks[1])

ScreenedOnce ==
  /\ \A r, q \in Requests : pc[r] \in Screening /\ pc[q] \in Screening => r = q
  /\ row.status \in Fresh => checks = <<>>
  /\ row.status = "MANUAL_REVIEW" => Len(checks) = 1 /\ "FAIL" \notin checks[1]
  /\ row.status \in Undecided => ~Decided("APPROVED")

Attended ==
  world.faults = {} /\ row.status = "COMPLIANCE_PENDING" =>
    \E r \in Requests : pc[r] \in Screening

IntakeInv ==
  /\ IntakeTypeOK
  /\ LogTellsStatus
  /\ ScreenedOnce
  /\ ApprovedScreened
  /\ Attended
  /\ \A r \in Requests : Read(r) /\ Screens(r)

(* What the row promises is what its route was quoted, and the quote is    *)
(* what the amount is quoted on any day.                                   *)
Promised ==
  /\ row.quote # <<>> => row.route \in DOMAIN row.quote /\ row.promised = row.quote[row.route]
  /\ row.quote # <<>> /\ Canonical(row.amount) => row.quote = QuoteRoutes(Minor(row.amount))
  /\ \A r \in Requests : At(r, "execute") /\ mem[r].pick # None =>
       /\ mem[r].pick \in DOMAIN QuoteRoutes(Minor(row.amount))
       /\ mem[r].promised = QuoteRoutes(Minor(row.amount))[mem[r].pick]

-----------------------------------------------------------------------------
(* The money.                                                              *)

(* A division by a positive number is the floor (lib/money.ts).            *)
LEMMA Floors ==
  ASSUME NEW a \in Int, NEW b \in Nat \ {0}
  PROVE  a \div b \in Int /\ b * (a \div b) <= a /\ a < b * (a \div b) + b
OBVIOUS

(* A set of positions has a first one.                                     *)
LEMMA FirstOf ==
  ASSUME NEW S \in SUBSET Nat, S # {}
  PROVE  Min(S) \in S
<1>1. PICK x \in S : \A y \in S : <<y, x>> \notin OpToRel(<, Nat)
  BY NatLessThanWellFounded, WFMin
<1>2. ASSUME NEW y \in S, y < x PROVE FALSE
  <2>1. <<y, x>> \in Nat \X Nat /\ <<y, x>>[1] < <<y, x>>[2]
    BY <1>2
  <2>2. <<y, x>> \in OpToRel(<, Nat)
    BY <2>1 DEF OpToRel
  <2> QED BY <1>1, <2>2
<1>3. \A y \in S : x <= y
  BY <1>2
<1> QED BY <1>3 DEF Min

(* Every tier, and what is above the last, takes a share of a rate         *)
(* (lib/fx.ts, SLIPPAGE_TIERS).                                            *)
LEMMA SlippageIsShare ==
  ASSUME NEW minor \in Int
  PROVE  SlippageBps(minor) \in 0 .. Bps
<1> DEFINE above == {i \in DOMAIN Tiers : minor <= Tiers[i][1]}
<1>1. CASE above = {}
  BY <1>1, IntakeAssumption DEF SlippageBps
<1>2. CASE above # {}
  <2>0. Tiers \in Seq(Nat \X (0 .. Bps))
    BY IntakeAssumption
  <2>1. above \in SUBSET Nat
    <3>1. Len(Tiers) \in Nat /\ DOMAIN Tiers = 1 .. Len(Tiers)
      BY <2>0
    <3>2. \A i \in DOMAIN Tiers : i \in Nat
      BY <3>1
    <3> QED BY <3>2
  <2>2. Min(above) \in DOMAIN Tiers
    BY <1>2, <2>1, FirstOf
  <2>3. Tiers[Min(above)] \in Nat \X (0 .. Bps)
    BY <2>2, IntakeAssumption
  <2> QED BY <1>2, <2>3 DEF SlippageBps
<1> QED BY <1>1, <1>2

(* What quoteFx computes of any amount is a number (lib/fx.ts).            *)
LEMMA QuotesAreNumbers ==
  ASSUME NEW minor \in Nat, NEW extra \in 0 .. Bps
  PROVE  DestinationAmount(minor, extra) \in Int
<1>1. /\ {MaxMinor, Bps, RateScale, Mid, SrcScale, DstScale} \subseteq Nat \ {0}
      /\ Spread \in Nat /\ PlatformFee \in Nat
  BY IntakeAssumption
<1>2. Fee(minor) \in Int
  BY <1>1 DEF Fee
<1>3. SlippageBps(minor) \in Int
  BY <1>1, SlippageIsShare
<1> DEFINE bps == Spread + SlippageBps(minor) + extra
<1>4. bps \in Int
  BY <1>1, <1>3
<1> HIDE DEF bps
<1>5. ApplyBps(Mid, bps) \in Int
  BY <1>1, <1>4 DEF ApplyBps
<1> DEFINE rate == ApplyBps(Mid, bps)
           net == minor - Fee(minor)
<1>6. net \in Int /\ rate \in Int /\ RateScale * SrcScale \in Nat \ {0}
  BY <1>1, <1>2, <1>5
<1> HIDE DEF rate, net
<1>7. Convert(net, rate) \in Int
  BY <1>1, <1>6 DEF Convert
<1> QED BY <1>7 DEF DestinationAmount, bps, rate, net

(* Each way of settling is quoted, and the recommended one is among them   *)
(* (lib/routing.ts).                                                       *)
LEMMA QuoteIsTyped ==
  ASSUME NEW minor \in Nat
  PROVE  /\ QuoteRoutes(minor) \in Quotes
         /\ Recommended \in Routes
         /\ QuoteRoutes(minor)[Recommended] \in Int
<1>1. BridgeFee \in 0 .. Bps /\ 0 \in 0 .. Bps
  BY IntakeAssumption
<1>2. DestinationAmount(minor, BridgeFee) \in Int /\ DestinationAmount(minor, 0) \in Int
  BY <1>1, QuotesAreNumbers
<1> QED BY <1>2 DEF QuoteRoutes, Quotes, Recommended, Routes

-----------------------------------------------------------------------------
(* The operators.                                                          *)

(* What the table says of the gate (lib/state.ts:26-52): it is entered     *)
(* from QUOTED alone and APPROVED from inside it; nothing returns to it.   *)
LEMMA GateMoves ==
  ASSUME NEW from \in PAYMENT_STATES, NEW to \in PAYMENT_STATES, CanTransition(from, to)
  PROVE  /\ to # "DRAFT"
         /\ to = "QUOTED" => from \in {"DRAFT", "QUOTED"}
         /\ to = "COMPLIANCE_PENDING" => from = "QUOTED"
         /\ to = "MANUAL_REVIEW" => from = "COMPLIANCE_PENDING"
         /\ to = "APPROVED" => from \in {"COMPLIANCE_PENDING", "MANUAL_REVIEW"}
         /\ from = "COMPLIANCE_PENDING" => to \in {"APPROVED", "MANUAL_REVIEW", "REJECTED", "CANCELLED"}
         /\ from \notin Undecided => to \notin Undecided
         /\ from = "CANCELLED" => FALSE
BY IntakeAssumption DEF CanTransition, TRANSITIONS, PAYMENT_STATES, Undecided, Fresh

(* The four ways out of the gate.                                          *)
LEMMA WaysOut ==
  ASSUME NEW to
  PROVE  CanTransition("COMPLIANCE_PENDING", to)
           <=> to \in {"APPROVED", "MANUAL_REVIEW", "REJECTED", "CANCELLED"}
<1>1. "COMPLIANCE_PENDING" \in PAYMENT_STATES
  BY DEF PAYMENT_STATES
<1> QED BY <1>1 DEF CanTransition, TRANSITIONS

(* The status is the only column a swap writes over those it is given.     *)
LEMMA StatusWritten ==
  ASSUME NEW columns \in Rows, NEW to \in PAYMENT_STATES
  PROVE  /\ [columns EXCEPT !.status = to] \in Rows
         /\ [columns EXCEPT !.status = to].status = to
         /\ [columns EXCEPT !.status = to].amount = columns.amount
         /\ [columns EXCEPT !.status = to].quote = columns.quote
         /\ [columns EXCEPT !.status = to].route = columns.route
         /\ [columns EXCEPT !.status = to].promised = columns.promised
BY DEF Rows, Statuses

(* The events before the last one stay.                                    *)
LEMMA LogGrows ==
  ASSUME IntakeTypeOK, NEW e \in Entries
  PROVE  /\ Append(log, e) \in Seq(Entries)
         /\ Len(Append(log, e)) = Len(log) + 1
         /\ Append(log, e)[Len(log) + 1] = e
         /\ \A i \in 1 .. Len(log) : Append(log, e)[i] = log[i]
         /\ Append(log, e) # <<>>
BY DEF IntakeTypeOK

(* transitionStatus, taken apart (lib/transitions.ts:33-90): done, and     *)
(* then told or not, or nothing.                                           *)
Swapped(r, to, columns) ==
  /\ row.status = mem[r].status /\ CanTransition(row.status, to)
  /\ row' \in Rows
  /\ row'.status = to /\ row'.amount = columns.amount /\ row'.quote = columns.quote
  /\ row'.route = columns.route /\ row'.promised = columns.promised
  /\ log' = Append(log, [from |-> row.status, to |-> to, who |-> mem[r].who])

(* Either the row, the log and the memory move together, or the request is *)
(* answered and none of them moved.                                        *)
LEMMA TwoWays ==
  ASSUME IntakeTypeOK, NEW r \in Requests, NEW to \in PAYMENT_STATES, NEW columns \in Rows,
         NEW ok \in Labels, TransitionStatus(r, to, columns, ok)
  PROVE  /\ \/ Swapped(r, to, columns) /\ (pc'[r] = ok \/ (pc'[r] = "done" /\ DbFault))
            \/ /\ row' = row /\ log' = log /\ pc'[r] = "done"
               /\ ~CanTransition(mem[r].status, to) \/ row.status # mem[r].status \/ DbFault
         /\ pc' \in [Requests -> Labels] /\ mem' \in [Requests -> Memories]
         /\ \A q \in Requests : q # r => pc'[q] = pc[q] /\ mem'[q] = mem[q]
         /\ pc'[r] # "done" =>
              /\ mem'[r].status = to /\ mem'[r].who = mem[r].who /\ mem'[r].worst = mem[r].worst
<1>1. /\ "done" \in Labels /\ Blank \in Memories
      /\ mem[r] \in Memories /\ pc \in [Requests -> Labels] /\ mem \in [Requests -> Memories]
  BY IntakeAssumption DEF IntakeTypeOK, Labels, Blank, Memories, Statuses
<1>2. /\ [mem[r] EXCEPT !.status = to] \in Memories
      /\ [mem[r] EXCEPT !.status = to].status = to
      /\ [mem[r] EXCEPT !.status = to].who = mem[r].who
      /\ [mem[r] EXCEPT !.status = to].worst = mem[r].worst
  BY <1>1 DEF Memories, Statuses
<1>3. PICK m \in Memories :
        /\ mem' = [mem EXCEPT ![r] = m]
        /\ pc'[r] # "done" => m.status = to /\ m.who = mem[r].who /\ m.worst = mem[r].worst
  BY <1>1, <1>2 DEF TransitionStatus, Keep
<1>4. PICK l \in {ok, "done"} : pc' = [pc EXCEPT ![r] = l]
  BY DEF TransitionStatus, Go
<1>5. \/ Swapped(r, to, columns) /\ (Go(r, ok) \/ (DbFault /\ Go(r, "done")))
      \/ /\ row' = row /\ log' = log /\ Go(r, "done")
         /\ ~CanTransition(mem[r].status, to) \/ row.status # mem[r].status \/ DbFault
  <2>1. ASSUME row.status = mem[r].status, CanTransition(mem[r].status, to),
               row' = [columns EXCEPT !.status = to],
               log' = Append(log, [from |-> mem[r].status, to |-> to, who |-> mem[r].who])
        PROVE  Swapped(r, to, columns)
    BY <2>1, StatusWritten DEF Swapped
  <2> QED BY <2>1 DEF TransitionStatus
<1> QED BY <1>1, <1>3, <1>4, <1>5 DEF Go

-----------------------------------------------------------------------------
(* The log.                                                                *)

(* An event that starts where the row is, written with the row it ends in, *)
(* keeps the log its history (lib/transitions.ts:60-90).                   *)
LEMMA LogKept ==
  ASSUME IntakeTypeOK, LogTellsStatus, row.status # None,
         NEW to \in PAYMENT_STATES, NEW who \in Callers \union {"system", None},
         log' = Append(log, [from |-> row.status, to |-> to, who |-> who]), row'.status = to
  PROVE  LogTellsStatus' /\ log' \in Seq(Entries)
<1> DEFINE e == [from |-> row.status, to |-> to, who |-> who]
<1>1. e \in Entries /\ e.from = row.status /\ e.to = to
  BY DEF Entries, IntakeTypeOK, Rows, Statuses
<1>2. /\ log' \in Seq(Entries) /\ Len(log') = Len(log) + 1 /\ log'[Len(log) + 1] = e
      /\ \A i \in 1 .. Len(log) : log'[i] = log[i]
      /\ log' # <<>>
  BY <1>1, LogGrows
<1>3. Len(log) \in Nat /\ Len(log) >= 1
  BY DEF LogTellsStatus, IntakeTypeOK
<1>4. to # None
  BY IntakeAssumption
<1> HIDE DEF e
<1>5. \A i \in 2 .. Len(log') : log'[i].from = log'[i-1].to
  <2> SUFFICES ASSUME NEW i \in 2 .. Len(log') PROVE log'[i].from = log'[i-1].to
    OBVIOUS
  <2>1. CASE i <= Len(log)
    BY <1>2, <1>3, <2>1 DEF LogTellsStatus
  <2>2. CASE i = Len(log) + 1
    BY <1>1, <1>2, <1>3, <2>2 DEF LogTellsStatus
  <2> QED BY <1>2, <1>3, <2>1, <2>2
<1> QED BY <1>1, <1>2, <1>3, <1>4, <1>5 DEF LogTellsStatus

(* What was decided stays decided, and an event decides one thing more.    *)
LEMMA DecidedOnce ==
  ASSUME IntakeTypeOK, NEW e \in Entries, log' = Append(log, e), NEW to
  PROVE  Decided(to)' <=> Decided(to) \/ e.to = to
<1>1. /\ Len(log') = Len(log) + 1 /\ log'[Len(log) + 1] = e /\ Len(log) \in Nat
      /\ \A i \in 1 .. Len(log) : log'[i] = log[i]
      /\ DOMAIN log = 1 .. Len(log) /\ DOMAIN log' = 1 .. Len(log')
  BY LogGrows DEF IntakeTypeOK
<1>2. ASSUME Decided(to)' PROVE Decided(to) \/ e.to = to
  <2>1. PICK i \in 1 .. Len(log) + 1 : log'[i].to = to
    BY <1>1, <1>2 DEF Decided
  <2> QED BY <1>1, <2>1 DEF Decided
<1>3. ASSUME Decided(to) PROVE Decided(to)'
  <2>1. PICK i \in 1 .. Len(log) : log[i].to = to
    BY <1>1, <1>3 DEF Decided
  <2>2. i \in DOMAIN log' /\ log'[i].to = to
    BY <1>1, <2>1
  <2> QED BY <2>2 DEF Decided
<1>4. ASSUME e.to = to PROVE Decided(to)'
  <2>1. Len(log) + 1 \in DOMAIN log' /\ log'[Len(log) + 1].to = to
    BY <1>1, <1>4
  <2> QED BY <2>1 DEF Decided
<1> QED BY <1>2, <1>3, <1>4

-----------------------------------------------------------------------------
(* The steps that swap the status.                                         *)

(* A handler that stands aside keeps what it read, and its screening is    *)
(* left to it or cancelled.                                                *)
LEMMA Bystander ==
  ASSUME IntakeInv, NEW q \in Requests, pc'[q] = pc[q], mem'[q] = mem[q], checks' = checks,
         row'.amount = row.amount,
         row'.status # None \/ pc[q] \notin Running,
         pc[q] \in Screening => row'.status \in {"COMPLIANCE_PENDING", "CANCELLED"}
  PROVE  Read(q)' /\ Screens(q)'
<1>1. Read(q) /\ Screens(q)
  BY DEF IntakeInv
<1>2. Read(q)'
  BY <1>1 DEF Read, At, Canonical, Running
<1>3. Screens(q)'
  BY <1>1 DEF Screens, At, Screening
<1> QED BY <1>2, <1>3

(* What a swap has to bring along: the verdict of the one screening.       *)
Entitled(r, to) ==
  /\ to = "MANUAL_REVIEW" => Len(checks) = 1 /\ "FAIL" \notin checks[1]
  /\ to = "APPROVED" =>
       /\ Len(checks) = 1 /\ "FAIL" \notin checks[1]
       /\ "MANUAL_REVIEW" \in checks[1] => mem[r].status = "MANUAL_REVIEW" /\ MayReview(mem[r].who)
  /\ pc[r] \in Screening => At(r, "verdict") /\ CanTransition(mem[r].status, to)
  /\ pc[r] \notin Screening => 
       to = "CANCELLED" \/ mem[r].status # "COMPLIANCE_PENDING" \/ ~CanTransition(mem[r].status, to)

(* A swap of the status from an entitled handler (lib/transitions.ts).     *)
LEMMA SwapKept ==
  ASSUME IntakeInv, NEW r \in Requests, pc[r] \in Running,
         NEW to \in PAYMENT_STATES, NEW columns \in Rows, columns.amount = row.amount,
         NEW ok \in {"done", "screen", "handOver"}, ok = "screen" <=> to = "COMPLIANCE_PENDING",
         ok = "screen" => At(r, "execute"),
         TransitionStatus(r, to, columns, ok), UNCHANGED <<checks, world>>, Entitled(r, to)
  PROVE  IntakeInv'
<1>0. /\ IntakeTypeOK /\ LogTellsStatus /\ ScreenedOnce /\ ApprovedScreened /\ Attended
      /\ Read(r) /\ Screens(r) /\ ok \in Labels
  BY DEF IntakeInv, Labels, Running
<1>1. /\ \/ Swapped(r, to, columns) /\ (pc'[r] = ok \/ (pc'[r] = "done" /\ DbFault))
         \/ /\ row' = row /\ log' = log /\ pc'[r] = "done"
            /\ ~CanTransition(mem[r].status, to) \/ row.status # mem[r].status \/ DbFault
      /\ pc' \in [Requests -> Labels] /\ mem' \in [Requests -> Memories]
      /\ \A q \in Requests : q # r => pc'[q] = pc[q] /\ mem'[q] = mem[q]
      /\ pc'[r] # "done" => mem'[r].status = to
  BY <1>0, TwoWays
<1>2. mem[r].status \in PAYMENT_STATES /\ row.status # None /\ None \notin PAYMENT_STATES
  BY <1>0, IntakeAssumption DEF Read
<1>3. CASE row' = row /\ log' = log /\ pc'[r] = "done"
           /\ (~CanTransition(mem[r].status, to) \/ row.status # mem[r].status \/ DbFault)
  <2>1. IntakeTypeOK'
    BY <1>0, <1>1, <1>3 DEF IntakeTypeOK
  <2>2. LogTellsStatus' /\ ApprovedScreened'
    BY <1>0, <1>3 DEF LogTellsStatus, ApprovedScreened, Decided
  <2>3. ScreenedOnce'
    BY <1>0, <1>1, <1>3 DEF ScreenedOnce, Decided, Screening
  <2>4. Attended'
    <3> SUFFICES ASSUME world.faults = {}, row.status = "COMPLIANCE_PENDING"
                 PROVE  \E q \in Requests : pc'[q] \in Screening
      BY <1>3 DEF Attended
    <3>1. PICK q \in Requests : pc[q] \in Screening
      BY <1>0 DEF Attended
    <3>2. pc[r] \notin Screening
      BY <1>0, <1>3 DEF DbFault, Entitled, Screens
    <3> QED BY <1>1, <3>1, <3>2
  <2>5. Read(r)' /\ Screens(r)'
    BY <1>3 DEF Read, Screens, At, Running, Screening
  <2>6. \A q \in Requests : q # r => Read(q)' /\ Screens(q)'
    BY <1>0, <1>1, <1>2, <1>3, Bystander DEF IntakeInv, Screens
  <2> QED BY <2>1, <2>2, <2>3, <2>4, <2>5, <2>6 DEF IntakeInv
<1>4. CASE Swapped(r, to, columns) /\ (pc'[r] = ok \/ (pc'[r] = "done" /\ DbFault))
  <2>1. /\ row.status = mem[r].status /\ row.status \in PAYMENT_STATES /\ CanTransition(row.status, to)
        /\ row' \in Rows /\ row'.status = to /\ row'.amount = row.amount
        /\ log' = Append(log, [from |-> row.status, to |-> to, who |-> mem[r].who])
        /\ mem[r].who \in Callers \union {None}
        /\ to # None
    BY <1>0, <1>2, <1>4 DEF Swapped, IntakeTypeOK, Memories
  <2> DEFINE e == [from |-> row.status, to |-> to, who |-> mem[r].who]
  <2>2. e \in Entries /\ e.from = row.status /\ e.to = to /\ e.who = mem[r].who /\ log' = Append(log, e)
    BY <2>1 DEF Entries, Statuses
  <2>3. LogTellsStatus' /\ log' \in Seq(Entries)
    BY <1>0, <1>2, <2>1, LogKept
  <2> HIDE DEF e
  <2>4. Decided("APPROVED")' <=> Decided("APPROVED") \/ to = "APPROVED"
    BY <1>0, <2>2, DecidedOnce
  <2>5. IntakeTypeOK'
    BY <1>0, <1>1, <2>1, <2>3 DEF IntakeTypeOK
  <2>6. \A q \in Requests : pc[q] \in Screening => row.status \in {"COMPLIANCE_PENDING", "CANCELLED"}
    BY DEF IntakeInv, Screens
  <2>7. pc'[r] \in {"done", "handOver"} \/ (pc'[r] = "screen" /\ to = "COMPLIANCE_PENDING")
    BY <1>4
  <2>8. to = "COMPLIANCE_PENDING" => row.status = "QUOTED" /\ checks = <<>>
                                     /\ \A q \in Requests : pc[q] \notin Screening
    BY <1>0, <2>1, <2>6, GateMoves DEF ScreenedOnce, Fresh
  <2>9. ScreenedOnce'
    <3>1. \A p, q \in Requests : pc'[p] \in Screening /\ pc'[q] \in Screening => p = q
      BY <1>0, <1>1, <2>7, <2>8 DEF ScreenedOnce, Screening
    <3>2. to \in Fresh => checks = <<>>
      BY <1>0, <2>1, GateMoves DEF ScreenedOnce, Fresh
    <3>3. to \in Undecided => ~Decided("APPROVED")'
      BY <1>0, <2>1, <2>4, GateMoves DEF ScreenedOnce, Undecided, Fresh
    <3> QED BY <2>1, <3>1, <3>2, <3>3 DEF ScreenedOnce, Entitled
  <2>10. ApprovedScreened'
    <3>1. CASE Decided("APPROVED")
      <4>1. \A i \in DOMAIN log : i \in DOMAIN log' /\ log'[i] = log[i]
        BY <1>0, <2>2, LogGrows DEF IntakeTypeOK
      <4> QED BY <1>0, <3>1, <4>1 DEF ApprovedScreened
    <3>2. CASE to = "APPROVED"
      <4>1. Len(log) + 1 \in DOMAIN log' /\ log'[Len(log) + 1] = e
        BY <1>0, <2>2, LogGrows DEF IntakeTypeOK
      <4> QED BY <2>1, <2>2, <3>2, <4>1 DEF ApprovedScreened, Entitled
    <3>3. CASE ~Decided("APPROVED")'
      BY <3>3 DEF ApprovedScreened
    <3> QED BY <2>4, <3>1, <3>2, <3>3
  <2>11. Attended'
    <3> SUFFICES ASSUME world.faults = {}, to = "COMPLIANCE_PENDING"
                 PROVE  \E q \in Requests : pc'[q] \in Screening
      BY <2>1 DEF Attended
    <3> QED BY <1>4 DEF DbFault, Screening
  <2>12. Read(r)' /\ Screens(r)'
    <3>1. CASE pc'[r] \in {"done", "handOver"}
      BY <1>1, <2>1, <3>1 DEF Read, Screens, At, Running, Screening
    <3>2. CASE pc'[r] = "screen" /\ to = "COMPLIANCE_PENDING"
      BY <1>0, <1>1, <2>1, <2>8, <3>2 DEF Read, Screens, At, Running, Screening, Canonical
    <3> QED BY <2>7, <3>1, <3>2
  <2>13. ASSUME NEW q \in Requests, q # r PROVE Read(q)' /\ Screens(q)'
    <3>1. ASSUME pc[q] \in Screening PROVE to \in {"COMPLIANCE_PENDING", "CANCELLED"}
      <4>1. pc[r] \notin Screening
        BY <1>0, <2>13, <3>1 DEF ScreenedOnce
      <4> QED BY <2>1, <2>6, <3>1, <4>1, GateMoves DEF Entitled
    <3> QED BY <1>1, <2>1, <2>13, <3>1, Bystander
  <2> QED BY <2>3, <2>5, <2>9, <2>10, <2>11, <2>12, <2>13 DEF IntakeInv
<1> QED BY <1>1, <1>3, <1>4

-----------------------------------------------------------------------------
(* The other steps.                                                        *)

(* A handler that reads, or that answers and changes nothing.              *)
LEMMA ReadKept ==
  ASSUME IntakeInv, NEW r \in Requests, pc[r] \notin Screening \/ DbFault,
         NEW l \in Labels \ Screening, NEW m \in Memories,
         Go(r, l), mem' = [mem EXCEPT ![r] = m], UNCHANGED <<row, checks, log, world>>,
         l \in Running => m.status \in PAYMENT_STATES /\ row.status # None,
         l = "execute" => m.status = "QUOTED" /\ Canonical(row.amount),
         l = "cancel" => m.status \in CANCELLABLE_STATES,
         l = "review" => m.status = "MANUAL_REVIEW" /\ MayReview(m.who)
  PROVE  IntakeInv'
<1>0. IntakeTypeOK /\ LogTellsStatus /\ ScreenedOnce /\ ApprovedScreened /\ Attended
  BY DEF IntakeInv
<1>1. /\ pc' \in [Requests -> Labels] /\ mem' \in [Requests -> Memories]
      /\ pc'[r] = l /\ mem'[r] = m
      /\ \A q \in Requests : q # r => pc'[q] = pc[q] /\ mem'[q] = mem[q]
  BY <1>0 DEF IntakeTypeOK, Go
<1>2. IntakeTypeOK' /\ LogTellsStatus' /\ ApprovedScreened'
  BY <1>0, <1>1 DEF IntakeTypeOK, LogTellsStatus, ApprovedScreened, Decided
<1>3. ScreenedOnce'
  BY <1>0, <1>1 DEF ScreenedOnce, Decided
<1>4. Attended'
  BY <1>0, <1>1 DEF Attended, DbFault
<1>5. Read(r)' /\ Screens(r)'
  BY <1>1 DEF Read, Screens, At, Screening, Canonical
<1>6. \A q \in Requests : q # r => Read(q)' /\ Screens(q)'
  <2>1. \A q \in Requests : Read(q) /\ Screens(q)
    BY DEF IntakeInv
  <2> QED BY <1>1, <2>1, Bystander DEF Read, Screens
<1> QED BY <1>2, <1>3, <1>4, <1>5, <1>6 DEF IntakeInv

(* A handler that has answered remembers nothing.                          *)
LEMMA BlankIsTyped == Blank \in Memories /\ Blank.pick = None
BY DEF Blank, Memories, Statuses

(* POST /api/payments: nobody has read a payment that was not there        *)
(* (app/api/payments/route.ts).                                            *)
LEMMA CreateKept ==
  ASSUME IntakeInv, NEW r \in Requests, Create(r)
  PROVE  IntakeInv'
<1>0. IntakeTypeOK /\ LogTellsStatus /\ ScreenedOnce /\ ApprovedScreened /\ Attended
  BY DEF IntakeInv
<1>1. PICK amount \in Posted, who \in Callers :
        /\ At(r, "idle") /\ row.status = None /\ Go(r, "done")
        /\ \/ /\ row' = [NoRow EXCEPT !.status = "DRAFT", !.amount = amount]
              /\ log' = <<[from |-> None, to |-> "DRAFT", who |-> who]>>
           \/ UNCHANGED <<row, log>>
        /\ UNCHANGED <<checks, mem, world>>
  BY DEF Create
<1>2. /\ pc' \in [Requests -> Labels] /\ pc'[r] = "done"
      /\ \A q \in Requests : q # r => pc'[q] = pc[q]
  BY <1>0, <1>1 DEF IntakeTypeOK, Go, Labels
<1>3. \A q \in Requests : pc'[q] \notin Running
  <2>1. \A q \in Requests : pc[q] \notin Running
    BY <1>1 DEF IntakeInv, Read
  <2> QED BY <1>2, <2>1 DEF Running
<1>4. \A q \in Requests : Read(q)' /\ Screens(q)' /\ pc'[q] \notin Screening
  BY <1>3 DEF Read, Screens, At, Running, Screening
<1>5. CASE UNCHANGED <<row, log>>
  <2>1. IntakeTypeOK' /\ LogTellsStatus' /\ ApprovedScreened'
    BY <1>0, <1>1, <1>2, <1>5 DEF IntakeTypeOK, LogTellsStatus, ApprovedScreened, Decided
  <2>2. ScreenedOnce' /\ Attended'
    BY <1>0, <1>1, <1>4, <1>5, IntakeAssumption DEF ScreenedOnce, Decided, Attended, PAYMENT_STATES
  <2> QED BY <1>4, <2>1, <2>2 DEF IntakeInv
<1>6. CASE /\ row' = [NoRow EXCEPT !.status = "DRAFT", !.amount = amount]
           /\ log' = <<[from |-> None, to |-> "DRAFT", who |-> who]>>
  <2>1. row' = [status |-> "DRAFT", amount |-> amount, quote |-> <<>>, route |-> None, promised |-> 0]
    BY <1>6 DEF NoRow
  <2>2. row' \in Rows /\ row'.status = "DRAFT"
    BY <2>1, IntakeAssumption DEF Rows, Statuses, Quotes, PAYMENT_STATES
  <2>3. /\ log' \in Seq(Entries) /\ Len(log') = 1 /\ log'[1].to = "DRAFT" /\ log' # <<>>
        /\ DOMAIN log' = {1}
    BY <1>6 DEF Entries, Statuses, PAYMENT_STATES
  <2>4. IntakeTypeOK'
    BY <1>0, <1>1, <1>2, <2>2, <2>3 DEF IntakeTypeOK
  <2>5. LogTellsStatus'
    BY <2>2, <2>3, IntakeAssumption DEF LogTellsStatus, PAYMENT_STATES
  <2>6. ~Decided("APPROVED")'
    BY <2>3 DEF Decided
  <2>7. ScreenedOnce' /\ ApprovedScreened' /\ Attended'
    BY <1>0, <1>1, <1>4, <2>2, <2>6 DEF ScreenedOnce, ApprovedScreened, Attended, Fresh
  <2> QED BY <1>4, <2>4, <2>5, <2>7 DEF IntakeInv
<1> QED BY <1>1, <1>5, <1>6

(* The first reads of the routes (app/api/payments/[id]/quote, .../review, *)
(* .../cancel).                                                            *)
LEMMA BeginKept ==
  ASSUME IntakeInv, NEW r \in Requests, QuoteStart(r) \/ ReviewStart(r) \/ CancelStart(r)
  PROVE  IntakeInv'
<1>1. PICK who \in Callers, l \in {"quote", "review", "cancel"} :
        /\ Begin(r, who, l)
        /\ l = "review" => row.status = "MANUAL_REVIEW" /\ MayReview(who)
        /\ l = "cancel" => row.status \in CANCELLABLE_STATES
  BY DEF QuoteStart, ReviewStart, CancelStart
<1> DEFINE m == Memory(who, None, 0)
<1>3. row.status \in PAYMENT_STATES
  BY <1>1 DEF Begin, IntakeInv, IntakeTypeOK, Rows, Statuses
<1>4. m \in Memories /\ m.status = row.status /\ m.who = who
  BY <1>3 DEF Memory, Memories, Statuses
<1>5. Go(r, l) /\ mem' = [mem EXCEPT ![r] = m] /\ UNCHANGED <<row, checks, log, world>> /\ pc[r] = "idle"
  BY <1>1 DEF Begin, At
<1> HIDE DEF m
<1>6. l \in Labels \ Screening /\ pc[r] \notin Screening
  BY <1>5 DEF Labels, Running, Screening
<1> QED BY <1>1, <1>3, <1>4, <1>5, <1>6, ReadKept, IntakeAssumption

(* The execute route's read: an amount that does not parse goes no further *)
(* (app/api/payments/[id]/execute/route.ts).                               *)
LEMMA ExecuteStartKept ==
  ASSUME IntakeInv, NEW r \in Requests, ExecuteStart(r)
  PROVE  IntakeInv'
<1>1. PICK who \in Callers, pick \in Routes \union {None}, l \in {"done", "execute", "handOver"} :
        /\ At(r, "idle") /\ row.status # None
        /\ pick # None => row.status = "QUOTED" /\ pick \in DOMAIN row.quote
        /\ l = "execute" => row.status = "QUOTED" /\ Canonical(row.amount)
        /\ Go(r, l)
        /\ Keep(r, Memory(who, pick, IF pick = None THEN 0 ELSE row.quote[pick]))
        /\ UNCHANGED <<row, checks, log, world>>
  BY DEF ExecuteStart
<1> DEFINE promised == IF pick = None THEN 0 ELSE row.quote[pick]
           m == Memory(who, pick, promised)
<1>3. row.status \in PAYMENT_STATES /\ row.quote \in Quotes
  BY <1>1 DEF IntakeInv, IntakeTypeOK, Rows, Statuses
<1>4. promised \in Int
  <2>1. CASE row.quote = <<>>
    BY <1>1, <2>1
  <2>2. CASE row.quote \in [{"bridge", "srcchain"} -> Int] \union [{"instant", "batched"} -> Int]
    BY <1>1, <2>2
  <2> QED BY <1>3, <2>1, <2>2 DEF Quotes
<1> HIDE DEF promised
<1>5. m \in Memories /\ m.status = row.status
  BY <1>3, <1>4 DEF Memory, Memories, Statuses
<1>6. mem' = [mem EXCEPT ![r] = m] \/ (l = "done" /\ mem' = [mem EXCEPT ![r] = Blank])
  BY <1>1 DEF Keep, Go, IntakeInv, IntakeTypeOK, promised
<1> HIDE DEF m
<1>7. l \in Labels \ Screening /\ pc[r] \notin Screening /\ l \notin {"cancel", "review"}
  BY <1>1 DEF Labels, Running, Screening, At
<1>8. "done" \notin Running
  BY DEF Running
<1> QED BY <1>1, <1>3, <1>5, <1>6, <1>7, <1>8, BlankIsTyped, ReadKept

(* POST .../quote (app/api/payments/[id]/quote/route.ts).                  *)
LEMMA QuoteKept ==
  ASSUME IntakeInv, NEW r \in Requests, Quote(r)
  PROVE  IntakeInv'
<1>0. /\ At(r, "quote") /\ pc[r] \in Running /\ pc[r] \notin Screening
      /\ row \in Rows
  BY DEF Quote, At, Running, Screening, IntakeInv, IntakeTypeOK
<1> DEFINE routes == QuoteRoutes(Minor(row.amount))
           columns == Selected(routes, Recommended, routes[Recommended])
<1>1. CASE /\ Canonical(row.amount)
           /\ TransitionStatus(r, "QUOTED", columns, "done")
           /\ UNCHANGED <<checks, world>>
  <2>1. Minor(row.amount) \in Nat
    BY <1>0, <1>1, IntakeAssumption DEF Canonical, Minor, Rows
  <2>2. routes \in Quotes /\ Recommended \in Routes /\ routes[Recommended] \in Int
    BY <2>1, QuoteIsTyped
  <2> HIDE DEF routes
  <2>3. columns \in Rows /\ columns.amount = row.amount
    BY <1>0, <2>2 DEF Selected, Rows
  <2> HIDE DEF columns
  <2>4. "QUOTED" \in PAYMENT_STATES
    BY DEF PAYMENT_STATES
  <2>5. Entitled(r, "QUOTED")
    BY <1>0, WaysOut DEF Entitled
  <2> QED BY <1>0, <1>1, <2>3, <2>4, <2>5, SwapKept
<1>2. CASE Go(r, "done") /\ Keep(r, Blank) /\ UNCHANGED <<row, log>> /\ UNCHANGED <<checks, world>>
  <2>1. mem' = [mem EXCEPT ![r] = Blank]
    BY <1>2 DEF Keep
  <2>2. "done" \in Labels \ Screening /\ "done" \notin Running
    BY DEF Labels, Running, Screening
  <2> QED BY <1>0, <1>2, <2>1, <2>2, BlankIsTyped, ReadKept
<1> QED BY <1>1, <1>2 DEF Quote

(* The pick is written by the swap that leaves QUOTED                      *)
(* (app/api/payments/[id]/execute/route.ts).                               *)
LEMMA EnterComplianceKept ==
  ASSUME IntakeInv, NEW r \in Requests, EnterCompliance(r)
  PROVE  IntakeInv'
<1>1. /\ At(r, "execute") /\ pc[r] \in Running /\ pc[r] \notin Screening
      /\ TransitionStatus(r, "COMPLIANCE_PENDING", Picked(r), "screen")
      /\ UNCHANGED <<checks, world>>
  BY DEF EnterCompliance, At, Running, Screening
<1>2. row \in Rows /\ mem[r] \in Memories
  BY DEF IntakeInv, IntakeTypeOK
<1>3. Picked(r) \in Rows /\ Picked(r).amount = row.amount
  BY <1>2 DEF Picked, Selected, Rows, Memories
<1>4. mem[r].status = "QUOTED"
  BY <1>1 DEF IntakeInv, Read
<1>5. Entitled(r, "COMPLIANCE_PENDING") /\ "COMPLIANCE_PENDING" \in PAYMENT_STATES
  BY <1>1, <1>4 DEF Entitled, PAYMENT_STATES
<1> QED BY <1>1, <1>3, <1>5, SwapKept

(* The verdict of the one screening moves the payment                      *)
(* (app/api/payments/[id]/execute/route.ts).                               *)
LEMMA VerdictKept ==
  ASSUME IntakeInv, NEW r \in Requests, Verdict(r)
  PROVE  IntakeInv'
<1> DEFINE to == mem[r].worst
           ok == IF to = "APPROVED" THEN "handOver" ELSE "done"
<1>1. /\ At(r, "verdict") /\ pc[r] \in Running /\ pc[r] \in Screening
      /\ TransitionStatus(r, to, row, ok)
      /\ UNCHANGED <<checks, world>>
  BY DEF Verdict, At, Running, Screening
<1>2. /\ row \in Rows
      /\ Len(checks) = 1 /\ to = Overall(checks[1]) /\ mem[r].status = "COMPLIANCE_PENDING"
  BY <1>1 DEF IntakeInv, IntakeTypeOK, Screens
<1>3. /\ to \in {"APPROVED", "MANUAL_REVIEW", "REJECTED"}
      /\ to # "REJECTED" => "FAIL" \notin checks[1]
      /\ to = "APPROVED" => "MANUAL_REVIEW" \notin checks[1]
  BY <1>2 DEF Overall
<1>4. to \in PAYMENT_STATES /\ ok \in {"done", "screen", "handOver"} /\ ok # "screen"
      /\ to # "COMPLIANCE_PENDING"
  BY <1>3 DEF PAYMENT_STATES
<1>5. Entitled(r, to)
  BY <1>1, <1>2, <1>3, WaysOut DEF Entitled, At
<1> HIDE DEF to, ok
<1> QED BY <1>1, <1>2, <1>4, <1>5, SwapKept

(* POST .../review: what asked for a person gets one with the role         *)
(* (app/api/payments/[id]/review/route.ts).                                *)
LEMMA ReviewKept ==
  ASSUME IntakeInv, NEW r \in Requests, Review(r)
  PROVE  IntakeInv'
<1>1. PICK to \in {"APPROVED", "REJECTED"} :
        /\ At(r, "review") /\ pc[r] \in Running /\ pc[r] \notin Screening
        /\ TransitionStatus(r, to, row, "done")
        /\ UNCHANGED <<checks, world>>
  BY DEF Review, At, Running, Screening
<1>2. row \in Rows /\ mem[r].status = "MANUAL_REVIEW" /\ MayReview(mem[r].who)
  BY <1>1 DEF IntakeInv, IntakeTypeOK, Read
<1>3. to \in PAYMENT_STATES /\ to # "COMPLIANCE_PENDING"
  BY DEF PAYMENT_STATES
<1>4. CASE row.status = "MANUAL_REVIEW"
  <2>1. Len(checks) = 1 /\ "FAIL" \notin checks[1]
    BY <1>4 DEF IntakeInv, ScreenedOnce
  <2>2. Entitled(r, to)
    BY <1>1, <1>2, <2>1 DEF Entitled
  <2> QED BY <1>1, <1>2, <1>3, <2>2, SwapKept
<1>5. CASE row.status # "MANUAL_REVIEW"
  <2>1. Go(r, "done") /\ Keep(r, [mem[r] EXCEPT !.status = to]) /\ UNCHANGED <<row, log>>
    BY <1>1, <1>2, <1>5 DEF TransitionStatus
  <2>2. pc \in [Requests -> Labels]
    BY DEF IntakeInv, IntakeTypeOK
  <2>3. mem' = [mem EXCEPT ![r] = Blank]
    BY <2>1, <2>2 DEF Keep, Go
  <2>4. "done" \in Labels \ Screening /\ "done" \notin Running
    BY DEF Labels, Running, Screening
  <2> QED BY <1>1, <2>1, <2>3, <2>4, BlankIsTyped, ReadKept
<1> QED BY <1>4, <1>5

(* POST .../cancel (app/api/payments/[id]/cancel/route.ts).                *)
LEMMA CancelKept ==
  ASSUME IntakeInv, NEW r \in Requests, Cancel(r)
  PROVE  IntakeInv'
<1>1. /\ pc[r] \in Running /\ pc[r] \notin Screening
      /\ TransitionStatus(r, "CANCELLED", row, "done")
      /\ UNCHANGED <<checks, world>>
  BY DEF Cancel, At, Running, Screening
<1>2. row \in Rows
  BY DEF IntakeInv, IntakeTypeOK
<1>3. Entitled(r, "CANCELLED") /\ "CANCELLED" \in PAYMENT_STATES
  BY <1>1 DEF Entitled, PAYMENT_STATES
<1> QED BY <1>1, <1>2, <1>3, SwapKept

(* Every check answers one of the three verdicts (lib/compliance.ts).      *)
LEMMA ChecksAnswer ==
  ASSUME IntakeTypeOK, NEW answers \in Screenings
  PROVE  answers \in SUBSET Verdicts
<1>1. \A party : Kyb(party) \in Verdicts
  BY DEF Kyb, Verdicts
<1>2. world.nameAnswers \subseteq {"match", "possible", "clear", "error"}
  BY IntakeAssumption DEF IntakeTypeOK
<1>3. \A names \in world.nameAnswers : SanctionsVerdict(names) \in Verdicts
  BY <1>2 DEF SanctionsVerdict, FailSafe, Verdicts
<1>4. \A party : WalletRisk(party) \subseteq {"high", "sanctioned", "elevated", "low", "error"}
  BY IntakeAssumption DEF IntakeTypeOK, WalletRisk
<1>5. \A risk \in {"high", "sanctioned", "elevated", "low", "error"} : WalletVerdict(risk) \in Verdicts
  BY DEF WalletVerdict, FailSafe, Verdicts
<1>6. TransactionRisk(Minor(row.amount)) \in Verdicts /\ CorridorRisk \in Verdicts
  BY DEF TransactionRisk, CorridorRisk, Verdicts
<1> QED BY <1>1, <1>3, <1>4, <1>5, <1>6 DEF Screenings

(* The answers are on record before anything acts on them                  *)
(* (lib/compliance.ts, runComplianceChecks).                               *)
LEMMA ScreenKept ==
  ASSUME IntakeInv, NEW r \in Requests, Screen(r)
  PROVE  IntakeInv'
<1>0. /\ IntakeTypeOK /\ LogTellsStatus /\ ScreenedOnce /\ ApprovedScreened /\ Attended
      /\ \A q \in Requests : Read(q) /\ Screens(q)
      /\ At(r, "screen") /\ pc[r] = "screen" /\ pc[r] \in Screening /\ pc[r] \in Running
  BY DEF IntakeInv, Screen, At, Screening, Running
<1>1. /\ Canonical(row.amount) /\ checks = <<>> /\ mem[r].status = "COMPLIANCE_PENDING"
      /\ row.status \in {"COMPLIANCE_PENDING", "CANCELLED"}
      /\ mem[r] \in Memories
  BY <1>0 DEF Read, Screens, IntakeTypeOK
<1>2. CASE /\ DbFault /\ Go(r, "done") /\ Keep(r, Blank) /\ UNCHANGED checks
           /\ UNCHANGED <<row, log, world>>
  <2>1. mem' = [mem EXCEPT ![r] = Blank]
    BY <1>2 DEF Keep
  <2>2. "done" \in Labels \ Screening /\ "done" \notin Running
    BY DEF Labels, Running, Screening
  <2> QED BY <1>2, <2>1, <2>2, BlankIsTyped, ReadKept
<1>3. ASSUME NEW answers \in Screenings,
             checks' = Append(checks, answers),
             Go(r, "verdict") \/ (DbFault /\ Go(r, "done")),
             Keep(r, [mem[r] EXCEPT !.worst = Overall(answers)]),
             UNCHANGED <<row, log, world>>
      PROVE  IntakeInv'
  <2>1. answers \in SUBSET Verdicts
    BY <1>0, ChecksAnswer
  <2>2. checks' \in Seq(SUBSET Verdicts) /\ Len(checks') = 1 /\ checks'[1] = answers
    BY <1>1, <1>3, <2>1
  <2> DEFINE m == [mem[r] EXCEPT !.worst = Overall(answers)]
  <2>3. Overall(answers) \in {"APPROVED", "MANUAL_REVIEW", "REJECTED"}
    BY DEF Overall
  <2>4. m \in Memories /\ m.status = mem[r].status /\ m.worst = Overall(answers)
    BY <1>1, <2>3 DEF Memories
  <2> HIDE DEF m
  <2>5. /\ pc' \in [Requests -> Labels]
        /\ pc'[r] = "verdict" \/ (DbFault /\ pc'[r] = "done")
        /\ \A q \in Requests : q # r => pc'[q] = pc[q]
    BY <1>0, <1>3 DEF Go, Labels, Running, IntakeTypeOK
  <2>6. /\ mem' \in [Requests -> Memories]
        /\ \A q \in Requests : q # r => mem'[q] = mem[q]
        /\ pc'[r] = "verdict" => mem'[r] = m
    BY <1>0, <1>3, <2>4, BlankIsTyped DEF Keep, IntakeTypeOK, m
  <2>7. pc' \in [Requests -> Labels]
    BY <1>0, <1>3 DEF Go, Labels, Running, IntakeTypeOK
  <2>8. IntakeTypeOK'
    BY <1>0, <1>3, <2>2, <2>6, <2>7 DEF IntakeTypeOK
  <2>9. LogTellsStatus'
    BY <1>0, <1>3 DEF LogTellsStatus
  <2>10. ~Decided("APPROVED")
    <3>1. Len(checks) = 0
      BY <1>1
    <3> QED BY <1>0, <3>1 DEF ApprovedScreened
  <2>11. ApprovedScreened' /\ ~Decided("APPROVED")'
    BY <1>3, <2>10 DEF ApprovedScreened, Decided
  <2>12. \A q \in Requests : q # r => pc'[q] \notin Screening
    BY <1>0, <2>5 DEF ScreenedOnce
  <2>13. ScreenedOnce'
    <3>1. row'.status \notin Fresh /\ row'.status # "MANUAL_REVIEW"
      BY <1>1, <1>3, IntakeAssumption DEF Fresh, PAYMENT_STATES
    <3> QED BY <2>11, <2>12, <3>1 DEF ScreenedOnce
  <2>14. Attended'
    BY <1>3, <2>5 DEF Attended, DbFault, Screening
  <2>15. Read(r)' /\ Screens(r)'
    <3>1. row' = row /\ mem[r].status \in PAYMENT_STATES /\ row.status # None
      BY <1>0, <1>3 DEF Read
    <3>2. Read(r)'
      BY <2>4, <2>5, <2>6, <3>1 DEF Read, At, Running
    <3>3. Screens(r)'
      BY <1>1, <2>2, <2>4, <2>5, <2>6, <3>1 DEF Screens, At, Screening
    <3> QED BY <3>2, <3>3
  <2>16. ASSUME NEW q \in Requests, q # r PROVE Read(q)' /\ Screens(q)'
    <3>1. Read(q)'
      BY <1>0, <1>3, <2>5, <2>6, <2>16 DEF Read, At, Canonical
    <3>2. Screens(q)'
      BY <2>12, <2>16 DEF Screens, At, Screening
    <3> QED BY <3>1, <3>2
  <2> QED BY <2>8, <2>9, <2>11, <2>13, <2>14, <2>15, <2>16 DEF IntakeInv
<1> QED BY <1>1, <1>2, <1>3 DEF Screen

(* The executor takes the payment over (lib/executor.ts).                  *)
LEMMA HandOverKept ==
  ASSUME IntakeInv, NEW r \in Requests, HandOver(r)
  PROVE  IntakeInv'
<1>0. /\ IntakeTypeOK /\ LogTellsStatus /\ ScreenedOnce /\ ApprovedScreened /\ Attended
      /\ \A q \in Requests : Read(q) /\ Screens(q)
      /\ pc[r] = "handOver" /\ pc[r] \notin Screening
      /\ Go(r, "done") /\ UNCHANGED <<checks, world>>
  BY DEF IntakeInv, HandOver, At, Screening
<1>1. mem' = [mem EXCEPT ![r] = Blank]
  BY DEF HandOver, Keep
<1>2. "done" \in Labels \ Screening /\ "done" \notin Running
  BY DEF Labels, Running, Screening
<1>3. CASE UNCHANGED <<row, log>>
  BY <1>0, <1>1, <1>2, <1>3, BlankIsTyped, ReadKept
<1>4. ASSUME row.status = "APPROVED", NEW to \in {"LIQUIDITY_RESERVED", "FAILED"},
             row' = [row EXCEPT !.status = to],
             log' = Append(log, [from |-> "APPROVED", to |-> to, who |-> "system"])
      PROVE  IntakeInv'
  <2>1. /\ row \in Rows /\ to \in PAYMENT_STATES /\ to \notin Undecided /\ to # "CANCELLED"
        /\ row.status # None /\ to # None
    BY <1>0, <1>4, IntakeAssumption DEF IntakeTypeOK, PAYMENT_STATES, Undecided, Fresh
  <2>2. row' \in Rows /\ row'.status = to /\ row'.amount = row.amount
    BY <1>4, <2>1, StatusWritten
  <2> DEFINE e == [from |-> "APPROVED", to |-> to, who |-> "system"]
  <2>3. e \in Entries /\ e.to = to
    BY <2>1 DEF Entries, Statuses, PAYMENT_STATES
  <2>4. LogTellsStatus' /\ log' \in Seq(Entries)
    BY <1>0, <1>4, <2>1, <2>2, LogKept
  <2> HIDE DEF e
  <2>5. log' = Append(log, e)
    BY <1>4 DEF e
  <2>6. Decided("APPROVED")' <=> Decided("APPROVED")
    BY <1>0, <2>3, <2>5, DecidedOnce
  <2>7. /\ pc' \in [Requests -> Labels] /\ mem' \in [Requests -> Memories]
        /\ pc'[r] = "done"
        /\ \A q \in Requests : q # r => pc'[q] = pc[q] /\ mem'[q] = mem[q]
    BY <1>0, <1>1, <1>2, BlankIsTyped DEF IntakeTypeOK, Go
  <2>8. IntakeTypeOK'
    BY <1>0, <2>2, <2>4, <2>7 DEF IntakeTypeOK
  <2>9. \A q \in Requests : pc[q] \notin Screening
    BY <1>0, <1>4 DEF Screens
  <2>10. \A q \in Requests : pc'[q] \notin Screening
    BY <1>2, <2>7, <2>9
  <2>11. ScreenedOnce' /\ Attended'
    BY <2>1, <2>2, <2>10 DEF ScreenedOnce, Attended, Undecided, Fresh
  <2>12. ApprovedScreened'
    <3>1. \A i \in DOMAIN log : i \in DOMAIN log' /\ log'[i] = log[i]
      BY <1>0, <2>3, <2>5, LogGrows DEF IntakeTypeOK
    <3> QED BY <1>0, <2>6, <3>1 DEF ApprovedScreened
  <2>13. \A q \in Requests : Read(q)' /\ Screens(q)'
    <3>1. Read(r)' /\ Screens(r)'
      BY <1>2, <2>7 DEF Read, Screens, At, Running, Screening
    <3> QED BY <1>0, <2>1, <2>2, <2>7, <2>9, <3>1, Bystander
  <2> QED BY <2>4, <2>8, <2>11, <2>12, <2>13 DEF IntakeInv
<1> QED BY <1>3, <1>4 DEF HandOver

(* A process that dies takes its handlers with it.                         *)
LEMMA CrashKept ==
  ASSUME IntakeInv, Crash
  PROVE  IntakeInv'
<1>0. /\ IntakeTypeOK /\ LogTellsStatus /\ ScreenedOnce /\ ApprovedScreened /\ Attended
      /\ "crash" \in world.faults /\ UNCHANGED <<row, checks, log, world>>
  BY DEF IntakeInv, Crash
<1>1. pc' \in [Requests -> Labels] /\ mem' \in [Requests -> Memories]
  BY <1>0, BlankIsTyped DEF Crash, IntakeTypeOK, Labels
<1>2. \A q \in Requests : pc'[q] \notin Running
  BY DEF Crash, Running
<1>3. IntakeTypeOK' /\ LogTellsStatus' /\ ApprovedScreened'
  BY <1>0, <1>1 DEF IntakeTypeOK, LogTellsStatus, ApprovedScreened, Decided
<1>4. ScreenedOnce'
  BY <1>0, <1>2 DEF ScreenedOnce, Decided, Screening, Running
<1>5. Attended'
  BY <1>0 DEF Attended
<1>6. \A q \in Requests : Read(q)' /\ Screens(q)'
  BY <1>2 DEF Read, Screens, At, Running, Screening
<1> QED BY <1>3, <1>4, <1>5, <1>6 DEF IntakeInv

(* A look at a payment nobody works on.                                    *)
LEMMA StutterKept ==
  ASSUME IntakeInv, UNCHANGED vars
  PROVE  IntakeInv'
BY DEF vars, IntakeInv, IntakeTypeOK, LogTellsStatus, ScreenedOnce, ApprovedScreened, Attended,
       Decided, Read, Screens, At, Canonical

-----------------------------------------------------------------------------
(* What holds from the first step on.                                      *)

(* About to be created, created, or older than the money gate: nothing was *)
(* screened yet.                                                           *)
LEMMA IntakeInit == Init => IntakeInv
<1> SUFFICES ASSUME Init PROVE IntakeInv
  OBVIOUS
<1>1. /\ world \in Worlds /\ world.start \in {"none", "created", "legacy"}
      /\ checks = <<>>
      /\ log = IF row.status = None THEN <<>> ELSE <<[from |-> None, to |-> row.status, who |-> "sender"]>>
      /\ pc = [r \in Requests |-> "idle"] /\ mem = [r \in Requests |-> Blank]
  BY IntakeAssumption DEF Init
<1>2. row \in Rows /\ row.status \in {None, "DRAFT", "QUOTED"}
  <2>1. CASE world.start = "none"
    BY <1>1, <2>1 DEF Init, NoRow, Rows, Statuses, Quotes
  <2>2. CASE world.start = "created"
    <3>1. PICK a \in Posted : row = [NoRow EXCEPT !.status = "DRAFT", !.amount = a]
      BY <1>1, <2>2 DEF Init
    <3>2. row = [status |-> "DRAFT", amount |-> a, quote |-> <<>>, route |-> None, promised |-> 0]
      BY <3>1 DEF NoRow
    <3> QED BY <3>2, IntakeAssumption DEF Rows, Statuses, Quotes, PAYMENT_STATES
  <2>3. CASE world.start = "legacy"
    <3>1. row = LegacyRow
      BY <1>1, <2>3 DEF Init
    <3>2. Fine \in Nat
      BY IntakeAssumption
    <3>3. LegacyRow.quote \in Quotes
      BY DEF LegacyRow, Quotes
    <3>4. LegacyAmount \in Nat /\ "QUOTED" \in PAYMENT_STATES
      BY <3>2 DEF LegacyAmount, PAYMENT_STATES
    <3> QED BY <3>1, <3>3, <3>4 DEF LegacyRow, Rows, Statuses, Routes
  <2>4. world.start \in {"none", "created", "legacy"}
    BY <1>1
  <2> QED BY <2>1, <2>2, <2>3, <2>4
<1>3. "idle" \notin Running /\ "idle" \in Labels
  BY DEF Running, Labels
<1>4. /\ log \in Seq(Entries) /\ LogTellsStatus /\ ~Decided("APPROVED")
      /\ \A i \in 2 .. Len(log) : log[i].from = log[i-1].to
  <2>1. CASE row.status = None
    BY <1>1, <2>1 DEF LogTellsStatus, Decided
  <2>2. CASE row.status # None
    <3>1. log = <<[from |-> None, to |-> row.status, who |-> "sender"]>>
      BY <1>1, <2>2
    <3>2. row.status \in PAYMENT_STATES /\ row.status # "APPROVED"
      BY <1>2, <2>2 DEF PAYMENT_STATES
    <3> QED BY <2>2, <3>1, <3>2 DEF LogTellsStatus, Decided, Entries, Statuses, Callers
  <2> QED BY <2>1, <2>2
<1>5. IntakeTypeOK
  BY <1>1, <1>2, <1>3, <1>4, BlankIsTyped DEF IntakeTypeOK
<1>6. ScreenedOnce /\ ApprovedScreened /\ Attended
  <2>1. row.status # "MANUAL_REVIEW" /\ row.status # "COMPLIANCE_PENDING"
    BY <1>2, IntakeAssumption DEF PAYMENT_STATES
  <2> QED BY <1>1, <1>3, <1>4, <2>1 DEF ScreenedOnce, ApprovedScreened, Attended, Screening
<1>7. \A r \in Requests : Read(r) /\ Screens(r)
  BY <1>1, <1>3 DEF Read, Screens, At, Running, Screening
<1> QED BY <1>4, <1>5, <1>6, <1>7 DEF IntakeInv

(* Every step of every route keeps the invariant.                          *)
LEMMA IntakeNext == IntakeInv /\ [Next]_vars => IntakeInv'
<1> SUFFICES ASSUME IntakeInv, [Next]_vars PROVE IntakeInv'
  OBVIOUS
<1>1. ASSUME NEW r \in Requests, Step(r) PROVE IntakeInv'
  BY <1>1, CreateKept, BeginKept, QuoteKept, ExecuteStartKept, EnterComplianceKept, ScreenKept,
     VerdictKept, HandOverKept, ReviewKept, CancelKept DEF Step
<1>2. CASE Crash
  BY <1>2, CrashKept
<1>3. CASE Rest \/ UNCHANGED vars
  BY <1>3, StutterKept DEF Rest
<1> QED BY <1>1, <1>2, <1>3 DEF Next

(* At any time: what is on the log, where the one screening stands, and    *)
(* what each handler has read.                                             *)
THEOREM IntakeIsKnown == Spec => []IntakeInv
BY IntakeInit, IntakeNext, PTL DEF Spec

(* No payment is executed unless it was screened, exactly once, nothing    *)
(* failed, and whatever asked for a person got a reviewer's approval       *)
(* (lib/compliance.ts; the execute and review routes).                     *)
THEOREM ApprovedOnlyScreened == Spec => []ApprovedScreened
<1>1. IntakeInv => ApprovedScreened
  BY DEF IntakeInv
<1> QED BY <1>1, IntakeIsKnown, PTL

(* The audit events are the row's history (lib/transitions.ts, the audit   *)
(* written with the swap).                                                 *)
THEOREM HistoryIsTold == Spec => []LogTellsStatus
<1>1. IntakeInv => LogTellsStatus
  BY DEF IntakeInv
<1> QED BY <1>1, IntakeIsKnown, PTL

(* With no fault, COMPLIANCE_PENDING always has the handler that will end  *)
(* it (the execute route runs the checks before it answers).               *)
THEOREM NobodyStranded == Spec => []NoneStranded
<1>1. IntakeInv => NoneStranded
  BY DEF IntakeInv, Attended, NoneStranded, Idle, Screening, Running
<1> QED BY <1>1, IntakeIsKnown, PTL

(* The only swap that writes the route or the promise leaves QUOTED or     *)
(* DRAFT (the quote and execute routes).                                   *)
LEMMA SelectionKept ==
  ASSUME IntakeInv, [Next]_vars, row.status \notin Fresh
  PROVE  row'.route = row.route /\ row'.promised = row.promised
<1>1. ASSUME NEW r \in Requests, Step(r)
      PROVE  row'.route = row.route /\ row'.promised = row.promised
  <2>1. ASSUME NEW to \in {"QUOTED", "COMPLIANCE_PENDING"}, NEW columns, NEW ok,
               TransitionStatus(r, to, columns, ok), pc[r] \in Running
        PROVE  row' = row
    <3>1. mem[r].status \in PAYMENT_STATES /\ to \in PAYMENT_STATES
      BY <2>1 DEF IntakeInv, Read, PAYMENT_STATES
    <3>2. CanTransition(mem[r].status, to) => mem[r].status \in Fresh
      BY <3>1, GateMoves DEF Fresh
    <3> QED BY <2>1, <3>2 DEF TransitionStatus
  <2>2. ASSUME NEW to, NEW ok, TransitionStatus(r, to, row, ok)
        PROVE  row'.route = row.route /\ row'.promised = row.promised
    <3>1. row \in Rows
      BY DEF IntakeInv, IntakeTypeOK
    <3>2. row' = row \/ row' = [row EXCEPT !.status = to]
      BY <2>2 DEF TransitionStatus
    <3> QED BY <3>1, <3>2 DEF Rows
  <2>3. CASE Quote(r)
    BY <2>1, <2>3 DEF Quote, At, Running
  <2>4. CASE EnterCompliance(r)
    BY <2>1, <2>4 DEF EnterCompliance, At, Running
  <2>5. CASE Verdict(r) \/ Review(r) \/ Cancel(r)
    BY <2>2, <2>5 DEF Verdict, Review, Cancel
  <2>6. CASE HandOver(r)
    BY <2>6 DEF HandOver, IntakeInv, IntakeTypeOK, Rows
  <2>7. CASE Create(r)
    BY <2>7 DEF Create, Fresh
  <2>8. CASE QuoteStart(r) \/ ExecuteStart(r) \/ Screen(r) \/ ReviewStart(r) \/ CancelStart(r)
    BY <2>8 DEF QuoteStart, ExecuteStart, Screen, ReviewStart, CancelStart, Begin
  <2> QED BY <1>1, <2>3, <2>4, <2>5, <2>6, <2>7, <2>8 DEF Step
<1>2. CASE Crash \/ Rest \/ UNCHANGED vars
  BY <1>2 DEF Crash, Rest, vars
<1> QED BY <1>1, <1>2 DEF Next

(* Once a payment has left QUOTED, its route and what it promises stay as  *)
(* the swap that left it wrote them (the execute route's pick).            *)
THEOREM SelectionIsFinal == Spec => SelectionStable
<1>1. IntakeInv /\ [Next]_vars =>
        [row.status \notin {None, "DRAFT", "QUOTED"}
           => row'.route = row.route /\ row'.promised = row.promised]_vars
  BY SelectionKept DEF Fresh
<1> QED BY <1>1, IntakeIsKnown, PTL DEF Spec, SelectionStable

-----------------------------------------------------------------------------
(* The promise.                                                            *)

(* A floor is monotone (lib/money.ts).                                     *)
LEMMA FloorsGrow ==
  ASSUME NEW a \in Int, NEW b \in Int, a <= b, NEW n \in Nat \ {0}
  PROVE  a \div n <= b \div n
<1>1. /\ a \div n \in Int /\ n * (a \div n) <= a
      /\ b \div n \in Int /\ b < n * (b \div n) + n
  BY Floors
<1> DEFINE x == a \div n
           y == b \div n
<1>2. x \in Int /\ y \in Int /\ n * x < n * y + n
  BY <1>1
<1> HIDE DEF x, y
<1>3. ASSUME x > y PROVE FALSE
  <2>1. x - y - 1 \in Nat
    BY <1>2, <1>3
  <2>2. n * (x - y - 1) \in Nat
    BY <2>1
  <2>3. n * (x - y - 1) = n * x - n * y - n
    BY <1>2
  <2>4. n * x \in Int /\ n * y \in Int
    BY <1>2
  <2> QED BY <1>2, <2>2, <2>3, <2>4
<1>4. x <= y
  BY <1>2, <1>3
<1> QED BY <1>4 DEF x, y

(* Scaling by what is not negative keeps the order.                        *)
LEMMA ScaledUp ==
  ASSUME NEW a \in Int, NEW b \in Int, a <= b, NEW c \in Nat
  PROVE  a * c <= b * c
<1>1. (b - a) * c \in Nat
  <2>1. b - a \in Nat
    OBVIOUS
  <2> QED BY <2>1
<1>2. (b - a) * c = b * c - a * c
  OBVIOUS
<1>3. a * c \in Int /\ b * c \in Int
  OBVIOUS
<1> QED BY <1>1, <1>2, <1>3

(* No share of a rate is more than the rate, and a larger share leaves     *)
(* less (lib/fx.ts, applyBps).                                             *)
LEMMA SharesShrink ==
  ASSUME NEW rate \in Nat, NEW few \in Nat, NEW many \in Nat, few <= many
  PROVE  /\ ApplyBps(rate, few) \in Int
         /\ ApplyBps(rate, few) <= rate
         /\ ApplyBps(rate, many) <= ApplyBps(rate, few)
<1>1. Bps \in Nat \ {0}
  BY IntakeAssumption
<1>2. \A bps \in Nat : rate * (Bps - bps) \in Int
  BY <1>1
<1>3. rate * (Bps - few) <= rate * Bps
  <2>1. (Bps - few) * rate <= Bps * rate
    BY <1>1, ScaledUp
  <2> QED BY <1>1, <2>1
<1>4. rate * (Bps - many) <= rate * (Bps - few)
  <2>1. (Bps - many) * rate <= (Bps - few) * rate
    BY <1>1, ScaledUp
  <2> QED BY <1>1, <2>1
<1>5. ApplyBps(rate, few) <= (rate * Bps) \div Bps
  BY <1>1, <1>2, <1>3, FloorsGrow DEF ApplyBps
<1>6. (rate * Bps) \div Bps = rate
  BY <1>1
<1>7. ApplyBps(rate, many) <= ApplyBps(rate, few)
  BY <1>1, <1>2, <1>4, FloorsGrow DEF ApplyBps
<1>8. ApplyBps(rate, few) \in Int
  BY <1>1, <1>2 DEF ApplyBps
<1> QED BY <1>5, <1>6, <1>7, <1>8

(* What a quote's conversion starts from: the amount less the fee          *)
(* (lib/fx.ts, quoteFx).                                                   *)
LEMMA NetIsLess ==
  ASSUME NEW minor \in Nat
  PROVE  minor - Fee(minor) \in Nat /\ minor - Fee(minor) <= minor
<1>1. Bps \in Nat \ {0} /\ PlatformFee \in Nat /\ PlatformFee <= Bps
  BY IntakeAssumption
<1>2. minor * PlatformFee \in Nat /\ minor * PlatformFee <= minor * Bps
  <2>1. PlatformFee * minor <= Bps * minor
    BY <1>1, ScaledUp
  <2> QED BY <1>1, <2>1
<1>3. Fee(minor) <= (minor * Bps) \div Bps
  BY <1>1, <1>2, FloorsGrow DEF Fee
<1>4. (minor * Bps) \div Bps = minor
  BY <1>1
<1>5. 0 \div Bps <= Fee(minor)
  BY <1>1, <1>2, FloorsGrow DEF Fee
<1>6. 0 \div Bps = 0 /\ Fee(minor) \in Int
  BY <1>1, <1>2 DEF Fee
<1> QED BY <1>3, <1>4, <1>5, <1>6

(* No way of settling is quoted above the mid rate, and what costs more    *)
(* delivers no more (lib/fx.ts, lib/routing.ts).                           *)
LEMMA QuoteBelowMid ==
  ASSUME NEW minor \in Nat, NEW less \in 0 .. Bps, NEW more \in 0 .. Bps, less <= more
  PROVE  /\ DestinationAmount(minor, less) * RateScale * SrcScale <= minor * Mid * DstScale
         /\ DestinationAmount(minor, more) <= DestinationAmount(minor, less)
<1> DEFINE net == minor - Fee(minor)
           few == Spread + SlippageBps(minor) + less
           many == Spread + SlippageBps(minor) + more
           rate == ApplyBps(Mid, few)
           low == ApplyBps(Mid, many)
           unit == RateScale * SrcScale
<1>1. /\ Bps \in Nat \ {0} /\ RateScale \in Nat \ {0} /\ SrcScale \in Nat \ {0}
      /\ Mid \in Nat /\ DstScale \in Nat /\ Spread \in Nat
  BY IntakeAssumption
<1>2. SlippageBps(minor) \in Nat
  BY <1>1, SlippageIsShare
<1>3. few \in Nat /\ many \in Nat /\ few <= many
  BY <1>1, <1>2
<1>4. net \in Nat /\ net <= minor
  BY NetIsLess
<1>5. unit \in Nat \ {0}
  BY <1>1
<1> HIDE DEF few, many
<1>6. rate \in Int /\ rate <= Mid /\ low \in Int /\ low <= rate
  BY <1>1, <1>3, SharesShrink
<1>7. /\ DestinationAmount(minor, less) = Convert(net, rate)
      /\ DestinationAmount(minor, more) = Convert(net, low)
  BY DEF DestinationAmount, few, many
<1> HIDE DEF net, rate, low
<1>8. net * low <= net * rate /\ net * rate <= net * Mid /\ net * Mid <= minor * Mid
  <2>1. low * net <= rate * net /\ rate * net <= Mid * net
    BY <1>1, <1>4, <1>6, ScaledUp
  <2>2. net * Mid <= minor * Mid
    BY <1>1, <1>4, ScaledUp
  <2> QED BY <1>1, <1>4, <1>6, <2>1, <2>2
<1>9. net * low \in Int /\ net * rate \in Int /\ minor * Mid \in Int
  BY <1>1, <1>4, <1>6
<1>10. net * low * DstScale <= net * rate * DstScale
  BY <1>1, <1>8, <1>9, ScaledUp
<1>11. net * rate * DstScale <= minor * Mid * DstScale
  <2>1. net * rate <= minor * Mid
    BY <1>1, <1>4, <1>8, <1>9
  <2> QED BY <1>1, <1>9, <2>1, ScaledUp
<1>12. net * low * DstScale \in Int /\ net * rate * DstScale \in Int
  BY <1>1, <1>9
<1>13. Convert(net, low) <= Convert(net, rate)
  BY <1>5, <1>10, <1>12, FloorsGrow DEF Convert
<1>14. Convert(net, rate) \in Int /\ unit * Convert(net, rate) <= net * rate * DstScale
  BY <1>5, <1>12, Floors DEF Convert
<1>15. Convert(net, rate) * RateScale * SrcScale = unit * Convert(net, rate)
  BY <1>1, <1>14
<1>16. minor * Mid * DstScale \in Int /\ unit * Convert(net, rate) \in Int
  BY <1>1, <1>5, <1>9, <1>14
<1> HIDE DEF unit
<1>17. unit * Convert(net, rate) <= minor * Mid * DstScale
  BY <1>11, <1>12, <1>14, <1>16
<1> QED BY <1>7, <1>13, <1>15, <1>17

(* A quote says what the amount converts to, in every route.               *)
LEMMA QuoteSays ==
  ASSUME IntakeTypeOK, Canonical(row.amount), NEW route \in DOMAIN QuoteRoutes(Minor(row.amount))
  PROVE  /\ QuoteRoutes(Minor(row.amount))[route] * RateScale * SrcScale
              <= Minor(row.amount) * Mid * DstScale
         /\ world.cross =>
              QuoteRoutes(Minor(row.amount))["bridge"] <= QuoteRoutes(Minor(row.amount))["srcchain"]
<1> DEFINE minor == Minor(row.amount)
<1>1. minor \in Nat
  BY IntakeAssumption DEF Canonical, Minor, IntakeTypeOK, Rows
<1>2. BridgeFee \in 0 .. Bps /\ 0 \in 0 .. Bps /\ 0 <= BridgeFee
  BY IntakeAssumption
<1> HIDE DEF minor
<1>3. /\ DestinationAmount(minor, 0) * RateScale * SrcScale <= minor * Mid * DstScale
      /\ DestinationAmount(minor, BridgeFee) * RateScale * SrcScale <= minor * Mid * DstScale
      /\ DestinationAmount(minor, BridgeFee) <= DestinationAmount(minor, 0)
  BY <1>1, <1>2, QuoteBelowMid
<1>4. QuoteRoutes(minor)[route] \in {DestinationAmount(minor, 0), DestinationAmount(minor, BridgeFee)}
  BY DEF QuoteRoutes, minor
<1>5. world.cross => /\ QuoteRoutes(minor)["bridge"] = DestinationAmount(minor, BridgeFee)
                     /\ QuoteRoutes(minor)["srcchain"] = DestinationAmount(minor, 0)
  BY DEF QuoteRoutes
<1> QED BY <1>3, <1>4, <1>5 DEF minor

(* A step that leaves the columns alone and starts no execute.             *)
LEMMA ColumnsKept ==
  ASSUME Promised, world' = world,
         /\ row'.amount = row.amount /\ row'.quote = row.quote
         /\ row'.route = row.route /\ row'.promised = row.promised,
         \A q \in Requests : At(q, "execute")' => At(q, "execute") /\ mem'[q] = mem[q]
  PROVE  Promised'
<1>1. /\ (Canonical(row.amount))' = Canonical(row.amount)
      /\ QuoteRoutes(Minor(row.amount))' = QuoteRoutes(Minor(row.amount))
  BY DEF Canonical, Minor, QuoteRoutes, DestinationAmount
<1>2. \A q \in Requests : At(q, "execute")' /\ mem'[q].pick # None =>
        /\ mem'[q].pick \in DOMAIN QuoteRoutes(Minor(row.amount))
        /\ mem'[q].promised = QuoteRoutes(Minor(row.amount))[mem'[q].pick]
  BY DEF Promised
<1> QED BY <1>1, <1>2 DEF Promised

(* A request takes one step at a time.                                     *)
LEMMA OneMoves ==
  ASSUME IntakeInv, NEW r \in Requests, NEW l, Go(r, l)
  PROVE  \A q \in Requests : q # r => pc'[q] = pc[q] /\ (At(q, "execute")' <=> At(q, "execute"))
BY DEF IntakeInv, IntakeTypeOK, Go, At

(* Every way into the promise is a quote of the amount: the quote route's  *)
(* columns, the pick an execute read, and the pick its swap writes.        *)
LEMMA PromiseNext ==
  ASSUME IntakeInv, Promised, [Next]_vars
  PROVE  Promised'
<1>0. IntakeTypeOK /\ row \in Rows /\ pc \in [Requests -> Labels] /\ mem \in [Requests -> Memories]
  BY DEF IntakeInv, IntakeTypeOK
<1>1. ASSUME NEW r \in Requests, Create(r) PROVE Promised'
  <2>1. \A q \in Requests : ~At(q, "execute")' /\ ~At(q, "execute")
    <3>1. \A q \in Requests : pc[q] \notin Running
      BY <1>1 DEF Create, IntakeInv, Read
    <3>2. \A q \in Requests : pc'[q] = "done" \/ pc'[q] = pc[q]
      BY <1>0, <1>1 DEF Create, Go
    <3> QED BY <3>1, <3>2 DEF At, Running
  <2>2. CASE UNCHANGED row
    BY <1>1, <2>1, <2>2, ColumnsKept DEF Create
  <2>3. CASE row' # row
    <3>1. row'.quote = <<>>
      BY <1>1, <2>3 DEF Create, NoRow
    <3> QED BY <2>1, <3>1 DEF Promised
  <2> QED BY <2>2, <2>3
<1>2. ASSUME NEW r \in Requests, QuoteStart(r) \/ ReviewStart(r) \/ CancelStart(r) PROVE Promised'
  <2>1. PICK who \in Callers, l \in {"quote", "review", "cancel"} : Begin(r, who, l)
    BY <1>2 DEF QuoteStart, ReviewStart, CancelStart
  <2>2. \A q \in Requests : At(q, "execute")' => At(q, "execute") /\ mem'[q] = mem[q]
    BY <1>0, <2>1 DEF Begin, Go, At
  <2> QED BY <2>1, <2>2, ColumnsKept DEF Begin
<1>3. ASSUME NEW r \in Requests, NEW to \in PAYMENT_STATES, NEW ok \in {"done", "handOver"},
             TransitionStatus(r, to, row, ok), UNCHANGED <<checks, world>>
      PROVE  Promised'
  <2>1. ok \in Labels /\ ok # "execute"
    BY DEF Labels, Running
  <2>2. /\ row' = row \/ Swapped(r, to, row)
        /\ pc'[r] \in {ok, "done"}
        /\ \A q \in Requests : q # r => pc'[q] = pc[q] /\ mem'[q] = mem[q]
    BY <1>0, <1>3, <2>1, TwoWays
  <2>3. \A q \in Requests : At(q, "execute")' => At(q, "execute") /\ mem'[q] = mem[q]
    BY <2>1, <2>2 DEF At
  <2> QED BY <1>3, <2>2, <2>3, ColumnsKept DEF Swapped
<1>4. ASSUME NEW r \in Requests, Verdict(r) PROVE Promised'
  <2>1. mem[r].worst \in PAYMENT_STATES
    <3>1. mem[r].worst = Overall(checks[1])
      BY <1>4 DEF Verdict, IntakeInv, Screens
    <3> QED BY <3>1 DEF Overall, PAYMENT_STATES
  <2> QED BY <1>3, <1>4, <2>1 DEF Verdict
<1>5. ASSUME NEW r \in Requests, Review(r) \/ Cancel(r) PROVE Promised'
  BY <1>3, <1>5 DEF Review, Cancel, PAYMENT_STATES
<1>6. ASSUME NEW r \in Requests, Screen(r) \/ HandOver(r) PROVE Promised'
  <2>1. /\ \A q \in Requests : At(q, "execute")' => At(q, "execute") /\ mem'[q] = mem[q]
        /\ world' = world
    BY <1>0, <1>6 DEF Screen, HandOver, Go, Keep, At
  <2>2. /\ row'.amount = row.amount /\ row'.quote = row.quote
        /\ row'.route = row.route /\ row'.promised = row.promised
    <3>1. row' = row \/ \E to \in {"LIQUIDITY_RESERVED", "FAILED"} : row' = [row EXCEPT !.status = to]
      BY <1>6 DEF Screen, HandOver
    <3> QED BY <1>0, <3>1 DEF Rows
  <2> QED BY <2>1, <2>2, ColumnsKept
<1>7. ASSUME NEW r \in Requests, Quote(r) PROVE Promised'
  <2> DEFINE routes == QuoteRoutes(Minor(row.amount))
             columns == Selected(routes, Recommended, routes[Recommended])
  <2>1. CASE Go(r, "done") /\ Keep(r, Blank) /\ UNCHANGED <<row, log>> /\ UNCHANGED <<checks, world>>
    <3>1. \A q \in Requests : At(q, "execute")' => At(q, "execute") /\ mem'[q] = mem[q]
      BY <1>0, <2>1 DEF Go, Keep, At
    <3> QED BY <2>1, <3>1, ColumnsKept
  <2>2. CASE /\ Canonical(row.amount) /\ TransitionStatus(r, "QUOTED", columns, "done")
             /\ UNCHANGED <<checks, world>>
    <3>1. Minor(row.amount) \in Nat
      BY <1>0, <2>2, IntakeAssumption DEF Canonical, Minor, Rows
    <3>2. /\ routes \in Quotes /\ Recommended \in Routes /\ routes[Recommended] \in Int
          /\ Recommended \in DOMAIN routes
      BY <3>1, QuoteIsTyped DEF Recommended, QuoteRoutes
    <3>3. /\ columns \in Rows /\ columns.amount = row.amount /\ columns.quote = routes
          /\ columns.route = Recommended /\ columns.promised = routes[Recommended]
      BY <1>0, <3>2 DEF Selected, Rows
    <3> HIDE DEF columns
    <3>4. /\ row' = row \/ Swapped(r, "QUOTED", columns)
          /\ pc'[r] = "done"
          /\ \A q \in Requests : q # r => pc'[q] = pc[q] /\ mem'[q] = mem[q]
      BY <1>0, <2>2, <3>3, TwoWays DEF Labels, PAYMENT_STATES
    <3>5. \A q \in Requests : At(q, "execute")' => At(q, "execute") /\ mem'[q] = mem[q]
      BY <3>4 DEF At
    <3>6. CASE row' = row
      BY <2>2, <3>5, <3>6, ColumnsKept
    <3>7. CASE Swapped(r, "QUOTED", columns)
      <4>1. /\ row'.amount = row.amount /\ row'.quote = routes /\ row'.route = Recommended
            /\ row'.promised = routes[Recommended]
        BY <3>3, <3>7 DEF Swapped
      <4>2. QuoteRoutes(Minor(row.amount))' = routes
        BY <2>2, <4>1 DEF QuoteRoutes, DestinationAmount, Minor
      <4> QED BY <3>2, <3>5, <4>1, <4>2 DEF Promised
    <3> QED BY <3>4, <3>6, <3>7
  <2> QED BY <1>7, <2>1, <2>2 DEF Quote
<1>8. ASSUME NEW r \in Requests, ExecuteStart(r) PROVE Promised'
  <2>1. PICK who \in Callers, pick \in Routes \union {None} :
          /\ pick # None => row.status = "QUOTED" /\ pick \in DOMAIN row.quote
          /\ pc' = [pc EXCEPT ![r] = IF ~Canonical(row.amount) THEN "done"
                                     ELSE IF row.status = "QUOTED" THEN "execute"
                                     ELSE IF row.status = "APPROVED" THEN "handOver" ELSE "done"]
          /\ Keep(r, Memory(who, pick, IF pick = None THEN 0 ELSE row.quote[pick]))
          /\ UNCHANGED <<row, checks, log, world>>
    BY <1>8 DEF ExecuteStart, Go
  <2>2. \A q \in Requests : q # r /\ At(q, "execute")' => At(q, "execute") /\ mem'[q] = mem[q]
    BY <1>0, <2>1 DEF At, Keep
  <2>3. ASSUME At(r, "execute")', mem'[r].pick # None
        PROVE  /\ mem'[r].pick \in DOMAIN QuoteRoutes(Minor(row.amount))
               /\ mem'[r].promised = QuoteRoutes(Minor(row.amount))[mem'[r].pick]
    <3>1. Canonical(row.amount) /\ pc'[r] = "execute"
      BY <1>0, <2>1, <2>3 DEF At
    <3>2. /\ mem'[r] = Memory(who, pick, IF pick = None THEN 0 ELSE row.quote[pick])
          /\ "execute" # "done"
      BY <1>0, <2>1, <3>1 DEF Keep
    <3>3. pick # None /\ mem'[r].pick = pick /\ mem'[r].promised = row.quote[pick]
      BY <2>3, <3>2 DEF Memory
    <3>4. row.quote # <<>>
      BY <2>1, <3>3
    <3>5. row.quote = QuoteRoutes(Minor(row.amount))
      BY <3>1, <3>4 DEF Promised
    <3> QED BY <2>1, <3>3, <3>5
  <2>4. /\ (Canonical(row.amount))' = Canonical(row.amount)
        /\ QuoteRoutes(Minor(row.amount))' = QuoteRoutes(Minor(row.amount))
    BY <2>1 DEF Canonical, QuoteRoutes, DestinationAmount, Minor
  <2>5. \A q \in Requests : At(q, "execute")' /\ mem'[q].pick # None =>
          /\ mem'[q].pick \in DOMAIN QuoteRoutes(Minor(row.amount))
          /\ mem'[q].promised = QuoteRoutes(Minor(row.amount))[mem'[q].pick]
    BY <2>2, <2>3 DEF Promised
  <2> QED BY <2>1, <2>4, <2>5 DEF Promised
<1>9. ASSUME NEW r \in Requests, EnterCompliance(r) PROVE Promised'
  <2>1. /\ At(r, "execute") /\ TransitionStatus(r, "COMPLIANCE_PENDING", Picked(r), "screen")
        /\ UNCHANGED <<checks, world>> /\ Canonical(row.amount)
    BY <1>9 DEF EnterCompliance, IntakeInv, Read, At
  <2>2. mem[r] \in Memories
    BY <1>0
  <2>3. Picked(r) \in Rows /\ Picked(r).amount = row.amount /\ Picked(r).quote = row.quote
    BY <1>0, <2>2 DEF Picked, Selected, Rows, Memories
  <2>4. /\ row' = row \/ Swapped(r, "COMPLIANCE_PENDING", Picked(r))
        /\ pc'[r] \in {"screen", "done"}
        /\ \A q \in Requests : q # r => pc'[q] = pc[q] /\ mem'[q] = mem[q]
    BY <1>0, <2>1, <2>3, TwoWays DEF Labels, Running, PAYMENT_STATES
  <2>5. \A q \in Requests : At(q, "execute")' => At(q, "execute") /\ mem'[q] = mem[q]
    BY <2>4 DEF At
  <2>6. CASE row' = row \/ (Swapped(r, "COMPLIANCE_PENDING", Picked(r)) /\ mem[r].pick = None)
    BY <2>1, <2>5, <2>6, ColumnsKept DEF Swapped, Picked
  <2>7. CASE Swapped(r, "COMPLIANCE_PENDING", Picked(r)) /\ mem[r].pick # None
    <3>1. /\ row'.amount = row.amount /\ row'.quote = row.quote
          /\ row'.route = mem[r].pick /\ row'.promised = mem[r].promised
      BY <2>3, <2>7 DEF Swapped, Picked, Selected
    <3>2. /\ (Canonical(row.amount))' = Canonical(row.amount)
          /\ QuoteRoutes(Minor(row.amount))' = QuoteRoutes(Minor(row.amount))
      BY <2>1, <3>1 DEF Canonical, QuoteRoutes, DestinationAmount, Minor
    <3>3. /\ mem[r].pick \in DOMAIN QuoteRoutes(Minor(row.amount))
          /\ mem[r].promised = QuoteRoutes(Minor(row.amount))[mem[r].pick]
      BY <2>1, <2>7 DEF Promised
    <3>4. row.quote # <<>> => row.quote = QuoteRoutes(Minor(row.amount))
      BY <2>1 DEF Promised
    <3> QED BY <2>5, <3>1, <3>2, <3>3, <3>4 DEF Promised
  <2> QED BY <2>4, <2>6, <2>7
<1>10. CASE Crash
  <2>1. \A q \in Requests : ~At(q, "execute")'
    BY <1>10 DEF Crash, At, Running
  <2> QED BY <1>10, <2>1, ColumnsKept DEF Crash
<1>11. CASE Rest \/ UNCHANGED vars
  <2>1. UNCHANGED vars
    BY <1>11 DEF Rest
  <2> QED BY <2>1, ColumnsKept DEF vars, At
<1>12. ASSUME NEW r \in Requests, Step(r) PROVE Promised'
  BY <1>1, <1>2, <1>4, <1>5, <1>6, <1>7, <1>8, <1>9, <1>12 DEF Step
<1> QED BY <1>10, <1>11, <1>12 DEF Next

(* Nothing is promised before the first quote, and what is older than the  *)
(* money gate does not parse.                                              *)
LEMMA PromiseInit == Init => Promised
<1> SUFFICES ASSUME Init PROVE Promised
  OBVIOUS
<1>1. \A q \in Requests : ~At(q, "execute")
  BY DEF Init, At
<1>2. CASE row.quote = <<>>
  BY <1>1, <1>2 DEF Promised
<1>3. CASE row = LegacyRow
  <2>1. ~Canonical(row.amount)
    <3>1. Fine \in Nat /\ Fine > 1
      BY IntakeAssumption
    <3>2. (Fine + 1) % Fine = 1
      BY <3>1
    <3> QED BY <1>3, <3>2 DEF LegacyRow, LegacyAmount, Canonical
  <2>2. /\ row.quote = [path \in {"instant", "batched"} |-> 1]
        /\ row.route = "instant" /\ row.promised = 1
    BY <1>3 DEF LegacyRow
  <2> QED BY <1>1, <2>1, <2>2 DEF Promised
<1>4. row = LegacyRow \/ row.quote = <<>>
  <2>1. world.start \in {"none", "created", "legacy"}
    BY IntakeAssumption DEF Init
  <2>2. CASE world.start = "none"
    BY <2>2 DEF Init, NoRow
  <2>3. CASE world.start = "created"
    <3>1. PICK a \in Posted : row = [NoRow EXCEPT !.status = "DRAFT", !.amount = a]
      BY <2>3 DEF Init
    <3> QED BY <3>1 DEF NoRow
  <2>4. CASE world.start = "legacy"
    BY <2>4 DEF Init
  <2> QED BY <2>1, <2>2, <2>3, <2>4
<1> QED BY <1>2, <1>3, <1>4

(* What a recipient is promised never exceeds the amount at the mid rate,  *)
(* and crossing the bridge never pays more than staying (lib/fx.ts,        *)
(* lib/routing.ts, the quote and execute routes).                          *)
THEOREM PromisesAreHonest == Spec => []PromiseBelowMid
<1>1. IntakeInv /\ Promised => PromiseBelowMid
  <2> SUFFICES ASSUME IntakeInv, Promised, row.quote # <<>>, Canonical(row.amount)
               PROVE  /\ row.promised * RateScale * SrcScale <= Minor(row.amount) * Mid * DstScale
                      /\ row.promised = row.quote[row.route]
                      /\ world.cross => row.quote["bridge"] <= row.quote["srcchain"]
    BY DEF PromiseBelowMid
  <2>1. /\ row.quote = QuoteRoutes(Minor(row.amount)) /\ row.route \in DOMAIN row.quote
        /\ row.promised = row.quote[row.route]
    BY DEF Promised
  <2> QED BY <2>1, QuoteSays DEF IntakeInv
<1>2. IntakeInv /\ Promised /\ [Next]_vars => IntakeInv' /\ Promised'
  BY IntakeNext, PromiseNext
<1> QED BY IntakeInit, PromiseInit, <1>1, <1>2, PTL DEF Spec
=============================================================================
