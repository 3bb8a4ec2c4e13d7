----------------------------- MODULE EscrowProofs -----------------------------
(***************************************************************************)
(* What is proved of Escrow for any payments, amounts and settings: the    *)
(* contract holds what it owes, its claim on the wallet is capped by one   *)
(* payment that is not escrowed, and a refusal has a cause.  The inductive *)
(* invariant joins the books to what the writes in flight may still do: an *)
(* approval in flight is of a payment that has not begun to initiate, and  *)
(* a payment nobody disturbed has the allowance its write needs.           *)
(***************************************************************************)
EXTENDS Escrow, SumLemmas

Ends == {"SETTLED", "CANCELLED", "REFUNDED"}
States == {"NONE", "INITIATED"} \union Ends
Returns == {"failAndRefund", "cancelPayment"}
Calls == {"approve", "initiatePayment", "settlePayment", "transfer"} \union Returns
Places ==
  {"idle", "approve", "approving", "initiate", "initiating", "settle", "settling", "pay", "paying",
   "undo", "undoing", "threw", "over"}

Ledgers == [bal : [Accounts -> Int], allowance : 0 .. Uint256Max, state : [Payments -> States]]

EscrowTypeOK ==
  /\ ledger \in Ledgers
  /\ seen \in Ledgers
  /\ mempool \subseteq [of : Payments, call : Calls]
  /\ receipt \in [Payments -> {Nil, "success", "reverted"}]
  /\ pc \in [Payments -> Places]
  /\ tries \in [Payments -> Nat]
  /\ setting \in Settings

Pending(p, call) == [of |-> p, call |-> call] \in mempool

(* A replica never shows a payment the chain does not know.                *)
SeenIsPast == \A p \in Payments : seen.state[p] # "NONE" => ledger.state[p] # "NONE"

(* Before its approval is confirmed a payment has sent no other write.     *)
NotBegun ==
  \A p \in Payments :
    pc[p] \in {"idle", "approve", "approving"} =>
      ledger.state[p] = "NONE" /\ ~Pending(p, "initiatePayment")

(* An approval that can still land is of a payment that waits for it or    *)
(* gave up on it, and is never followed by its initiate.                   *)
LateApproval ==
  \A p \in Payments :
    Pending(p, "approve") =>
      /\ pc[p] \in {"approving", "threw", "over"}
      /\ pc[p] = "approving" => receipt[p] = Nil
      /\ ledger.state[p] = "NONE"
      /\ ~Pending(p, "initiatePayment")

(* What a payment nobody disturbed needs to be allowed, it is allowed.     *)
Assured ==
  \A p \in Payments \ disturbed :
    \/ pc[p] = "initiate"
    \/ pc[p] = "approving" /\ receipt[p] = "success"
    \/ Pending(p, "initiatePayment")
    => ledger.state[p] # "NONE" \/ ledger.allowance >= Amount[p]

EscrowInv ==
  /\ EscrowTypeOK
  /\ SeenIsPast /\ NotBegun /\ LateApproval /\ Assured
  /\ EscrowBacked /\ ClaimCapped /\ RefusedOnlyDisturbed

-----------------------------------------------------------------------------
(* The contracts.                                                          *)

(* A payment's amount is a number no allowance is unlimited at.            *)
LEMMA AmountIs ==
  ASSUME NEW p \in Payments
  PROVE  Amount[p] \in Nat /\ Amount[p] > 0 /\ Amount[p] < Uint256Max /\ Uint256Max \in Nat
<1>1. Amount \in [Payments -> 1 .. Uint256Max - 1] /\ Uint256Max \in Nat
  BY EscrowAssumption DEF Uint256Max
<1> QED BY <1>1

(* The payments in some states are finitely many.                          *)
LEMMA InStates ==
  ASSUME NEW st, NEW S
  PROVE  IsNumeric(Amount, {p \in Payments : st[p] \in S})
<1> DEFINE those == {p \in Payments : st[p] \in S}
<1>1. IsFiniteSet(those)
  BY EscrowAssumption, FS_Subset
<1>2. \A p \in those : Amount[p] \in Int
  BY AmountIs
<1> HIDE DEF those
<1>3. IsNumeric(Amount, those)
  BY <1>1, <1>2 DEF IsNumeric
<1> QED BY <1>3 DEF those

Moved(l, from, to, n) == [l.bal EXCEPT ![from] = @ - n, ![to] = @ + n]

Ledger(bal, allowance, state) == [bal |-> bal, allowance |-> allowance, state |-> state]

(* Tokens move between two accounts and nothing else changes.              *)
LEMMA TransferIs ==
  ASSUME NEW l \in Ledgers, NEW from \in Accounts, NEW to \in Accounts, from # to, NEW n \in Nat
  PROVE  /\ Transfer(l, from, to, n) = Ledger(Moved(l, from, to, n), l.allowance, l.state)
         /\ Moved(l, from, to, n) \in [Accounts -> Int]
<1>1. l = Ledger(l.bal, l.allowance, l.state) /\ l.bal \in [Accounts -> Int]
  BY DEF Ledgers, Ledger
<1> DEFINE out == [l EXCEPT !.bal[from] = @ - n]
<1>2. out = Ledger([l.bal EXCEPT ![from] = @ - n], l.allowance, l.state)
  BY <1>1 DEF Ledger
<1>3. Transfer(l, from, to, n) = [out EXCEPT !.bal[to] = @ + n]
  BY DEF Transfer
<1> HIDE DEF out
<1>4. [out EXCEPT !.bal[to] = @ + n] =
        Ledger([[l.bal EXCEPT ![from] = @ - n] EXCEPT ![to] = @ + n], l.allowance, l.state)
  BY <1>2 DEF Ledger
<1> QED BY <1>1, <1>3, <1>4 DEF Moved

(* What a call that does not revert does to a ledger.                      *)
LEMMA RunDoes ==
  ASSUME NEW l \in Ledgers, NEW p \in Payments, NEW call \in Calls, Revert(l, p, call) = Nil
  PROVE  \/ /\ call = "approve"
            /\ Run(l, p, call) = Ledger(l.bal, Amount[p], l.state)
         \/ /\ call = "initiatePayment"
            /\ l.state[p] = "NONE" /\ l.allowance >= Amount[p] /\ l.bal["sender"] >= Amount[p]
            /\ Run(l, p, call) =
                 Ledger(Moved(l, "sender", "escrow", Amount[p]),
                        IF l.allowance = Uint256Max THEN l.allowance ELSE l.allowance - Amount[p],
                        [l.state EXCEPT ![p] = "INITIATED"])
         \/ /\ call = "settlePayment"
            /\ l.state[p] = "INITIATED"
            /\ Run(l, p, call) =
                 Ledger(Moved(l, "escrow", "treasury", Amount[p]), l.allowance, [l.state EXCEPT ![p] = "SETTLED"])
         \/ /\ call \in Returns
            /\ l.state[p] = "INITIATED"
            /\ \E s \in {"CANCELLED", "REFUNDED"} :
                 Run(l, p, call) =
                   Ledger(Moved(l, "escrow", "sender", Amount[p]), l.allowance, [l.state EXCEPT ![p] = s])
         \/ /\ call = "transfer"
            /\ l.bal["treasury"] >= Amount[p]
            /\ Run(l, p, call) = Ledger(Moved(l, "treasury", "recipient", Amount[p]), l.allowance, l.state)
<1>0. Amount[p] \in Nat
  BY AmountIs
<1>1. CASE call = "approve"
  BY <1>1 DEF Run, Approval, Ledger, Ledgers
<1>2. CASE call = "initiatePayment"
  <2>1. l.state[p] = "NONE" /\ ~(l.allowance < Amount[p]) /\ ~(l.bal["sender"] < Amount[p])
    BY <1>2 DEF Revert, NoBalance, Nil
  <2>2. Transfer(l, "sender", "escrow", Amount[p]) = Ledger(Moved(l, "sender", "escrow", Amount[p]), l.allowance, l.state)
    BY <1>0, TransferIs DEF Accounts
  <2>3. Run(l, p, call) =
          Ledger(Moved(l, "sender", "escrow", Amount[p]),
                 IF l.allowance = Uint256Max THEN l.allowance ELSE l.allowance - Amount[p],
                 [l.state EXCEPT ![p] = "INITIATED"])
    <3> DEFINE m == Transfer(l, "sender", "escrow", Amount[p])
               t == TransferFrom(l, "escrow", Amount[p])
    <3>1. t = Ledger(Moved(l, "sender", "escrow", Amount[p]),
                     IF l.allowance = Uint256Max THEN l.allowance ELSE l.allowance - Amount[p], l.state)
      <4>1. t = [m EXCEPT !.allowance = IF @ = Uint256Max THEN @ ELSE @ - Amount[p]]
        BY DEF TransferFrom
      <4> HIDE DEF m, t
      <4>2. m = Ledger(Moved(l, "sender", "escrow", Amount[p]), l.allowance, l.state)
        BY <2>2 DEF m
      <4> QED BY <4>1, <4>2 DEF Ledger
    <3>2. Run(l, p, call) = [t EXCEPT !.state[p] = "INITIATED"]
      BY <1>2 DEF Run
    <3> HIDE DEF t
    <3> QED BY <3>1, <3>2 DEF Ledger
  <2>4. l.allowance >= Amount[p] /\ l.bal["sender"] >= Amount[p]
    BY <1>0, <2>1 DEF Ledgers, Accounts, Uint256Max
  <2> QED BY <1>2, <2>1, <2>3, <2>4
<1>3. CASE call = "settlePayment"
  <2>1. Transfer(l, "escrow", "treasury", Amount[p]) = Ledger(Moved(l, "escrow", "treasury", Amount[p]), l.allowance, l.state)
    BY <1>0, TransferIs DEF Accounts
  <2> QED BY <1>3, <2>1 DEF Run, Revert, NotInitiated, Nil, Ledger
<1>4. CASE call \in Returns
  <2>1. Transfer(l, "escrow", "sender", Amount[p]) = Ledger(Moved(l, "escrow", "sender", Amount[p]), l.allowance, l.state)
    BY <1>0, TransferIs DEF Accounts
  <2>2. l.state[p] = "INITIATED"
    BY <1>4 DEF Returns, Revert, NotInitiated, Nil
  <2>3. CASE call = "failAndRefund"
    BY <1>4, <2>1, <2>2, <2>3 DEF Run, Ledger
  <2>4. CASE call = "cancelPayment"
    BY <1>4, <2>1, <2>2, <2>4 DEF Run, Ledger
  <2> QED BY <1>4, <2>3, <2>4 DEF Returns
<1>5. CASE call = "transfer"
  <2>1. Transfer(l, "treasury", "recipient", Amount[p]) = Ledger(Moved(l, "treasury", "recipient", Amount[p]), l.allowance, l.state)
    BY <1>0, TransferIs DEF Accounts
  <2>2. ~(l.bal["treasury"] < Amount[p])
    BY <1>5 DEF Revert, NoBalance, Nil
  <2>3. l.bal["treasury"] >= Amount[p]
    BY <1>0, <2>2 DEF Ledgers, Accounts
  <2> QED BY <1>5, <2>1, <2>3 DEF Run
<1> QED BY <1>1, <1>2, <1>3, <1>4, <1>5 DEF Calls

-----------------------------------------------------------------------------
WriteSent(p, call, awaiting) ==
  /\ mempool' = mempool \union {[of |-> p, call |-> call]}
  /\ pc' = [pc EXCEPT ![p] = awaiting]
  /\ receipt' = [receipt EXCEPT ![p] = Nil]
  /\ tries' = [tries EXCEPT ![p] = 0]
  /\ refused' = refused

WriteFailed(p) ==
  /\ mempool' = mempool
  /\ receipt' = receipt
  /\ tries' \in [Payments -> Nat]
  /\ pc' = pc \/ pc' = [pc EXCEPT ![p] = "threw"]

(* What a write does.  It is refused for its allowance only by the chain   *)
(* as it is: the last try is not behind (lib/chain.ts, operatorWrite).     *)
LEMMA WriteDoes ==
  ASSUME EscrowTypeOK, NEW p \in Payments, NEW call \in Calls, NEW awaiting \in Places,
         Write(p, call, awaiting)
  PROVE  \/ WriteSent(p, call, awaiting)
         \/ WriteFailed(p) /\ refused' = refused
         \/ /\ WriteFailed(p) /\ refused' = refused \union {p}
            /\ pc' = [pc EXCEPT ![p] = "threw"]
            /\ call = "initiatePayment" /\ ledger.state[p] = "NONE" /\ ledger.allowance < Amount[p]
<1> DEFINE message(l) == IF Signer(call) \in setting.signs THEN Revert(l, p, call) ELSE "no key"
<1>1. PICK l \in Shown(p) :
        \/ WriteSent(p, call, awaiting)
        \/ /\ IsTransient(call, message(l)) /\ tries[p] < replicaLagRetries
           /\ tries' = [tries EXCEPT ![p] = @ + 1]
           /\ UNCHANGED <<pc, refused, mempool, receipt>>
        \/ /\ ~(IsTransient(call, message(l)) /\ tries[p] < replicaLagRetries)
           /\ Throw(p)
           /\ tries' = [tries EXCEPT ![p] = 0]
           /\ refused' = IF message(l) = "insufficient allowance" THEN refused \union {p} ELSE refused
           /\ UNCHANGED <<mempool, receipt>>
  BY DEF Write, WriteSent, EscrowGo
<1> HIDE DEF message
<1>2. tries \in [Payments -> Nat]
  BY DEF EscrowTypeOK
<1>3. CASE IsTransient(call, message(l)) /\ tries[p] < replicaLagRetries
  <2>1. \/ WriteSent(p, call, awaiting)
        \/ tries' = [tries EXCEPT ![p] = @ + 1] /\ UNCHANGED <<pc, refused, mempool, receipt>>
    BY <1>1, <1>3
  <2> QED BY <1>2, <2>1 DEF WriteFailed
<1>4. CASE ~(IsTransient(call, message(l)) /\ tries[p] < replicaLagRetries)
  <2>1. \/ WriteSent(p, call, awaiting)
        \/ /\ WriteFailed(p)
           /\ pc' = [pc EXCEPT ![p] = "threw"]
           /\ refused' = IF message(l) = "insufficient allowance" THEN refused \union {p} ELSE refused
    <3>1. \/ WriteSent(p, call, awaiting)
          \/ /\ Throw(p) /\ tries' = [tries EXCEPT ![p] = 0] /\ UNCHANGED <<mempool, receipt>>
             /\ refused' = IF message(l) = "insufficient allowance" THEN refused \union {p} ELSE refused
      BY <1>1, <1>4
    <3>2. [tries EXCEPT ![p] = 0] \in [Payments -> Nat]
      BY <1>2
    <3> QED BY <3>1, <3>2 DEF WriteFailed, Throw, EscrowGo
  <2>2. ASSUME message(l) = "insufficient allowance"
        PROVE  call = "initiatePayment" /\ ledger.state[p] = "NONE" /\ ledger.allowance < Amount[p]
    <3>1. Revert(l, p, call) = "insufficient allowance"
      BY <2>2 DEF message
    <3>2. call = "initiatePayment" /\ l.state[p] = "NONE" /\ l.allowance < Amount[p]
      BY <3>1 DEF Revert, NoBalance, NotInitiated, Nil, Calls, Returns
    <3>3. l = ledger
      BY <1>4, <2>2, <3>2 DEF Shown, IsTransient
    <3> QED BY <3>2, <3>3
  <2> QED BY <2>1, <2>2
<1> QED BY <1>3, <1>4

-----------------------------------------------------------------------------
(* The invariant.                                                          *)

(* It holds at the start, whatever setting a behaviour meets.              *)
LEMMA EscrowInvInit == EscrowInit => EscrowInv
<1> SUFFICES ASSUME EscrowInit PROVE EscrowInv
  OBVIOUS
<1>1. setting.standing \in 0 .. Uint256Max /\ setting.funds \in Nat /\ Float \in Nat
  BY EscrowAssumption DEF EscrowInit
<1>2. EscrowTypeOK
  BY <1>1 DEF EscrowInit, EscrowTypeOK, Ledgers, Accounts, States, Places, Nil
<1>3. SeenIsPast /\ NotBegun /\ LateApproval /\ Assured
  BY DEF EscrowInit, SeenIsPast, NotBegun, LateApproval, Assured, Pending
<1>4. \A p \in Payments : ledger.state[p] = "NONE"
  BY DEF EscrowInit
<1>5. Total({"INITIATED"}) = 0 /\ Total({"INITIATED", "SETTLED"}) = 0 /\ Total({"SETTLED"}) = 0
  <2>1. /\ {p \in Payments : ledger.state[p] \in {"INITIATED"}} = {}
        /\ {p \in Payments : ledger.state[p] \in {"INITIATED", "SETTLED"}} = {}
        /\ {p \in Payments : ledger.state[p] \in {"SETTLED"}} = {}
    BY <1>4
  <2> QED BY <2>1, SumNone DEF Total
<1>6. EscrowBacked
  <2>1. ledger.bal["escrow"] = 0 /\ ledger.bal["sender"] = setting.funds
        /\ ledger.bal["treasury"] = Float /\ ledger.bal["recipient"] = 0
    BY DEF EscrowInit, Accounts
  <2> QED BY <1>1, <1>5, <2>1 DEF EscrowBacked
<1>7. ClaimCapped /\ RefusedOnlyDisturbed
  BY <1>1 DEF EscrowInit, ClaimCapped, RefusedOnlyDisturbed
<1> QED BY <1>2, <1>3, <1>6, <1>7 DEF EscrowInv

(* A step that leaves the chain, its replicas and the setting alone keeps  *)
(* what it does not touch.                                                 *)
LEMMA ChainLeft ==
  ASSUME EscrowInv, UNCHANGED <<ledger, seen, setting>>,
         EscrowTypeOK', NotBegun', LateApproval', Assured', refused' \subseteq disturbed',
         \A q \in Payments : pc[q] # "idle" => pc'[q] # "idle"
  PROVE  EscrowInv'
<1>1. SeenIsPast' /\ EscrowBacked'
  BY DEF EscrowInv, SeenIsPast, EscrowBacked, Total
<1>2. ClaimCapped'
  BY DEF EscrowInv, ClaimCapped
<1> QED BY <1>1, <1>2 DEF EscrowInv, RefusedOnlyDisturbed

(* Which write a payment makes where, and where it waits for it.           *)
Made ==
  {<<"approve", "approve", "approving">>, <<"initiate", "initiatePayment", "initiating">>,
   <<"settle", "settlePayment", "settling">>, <<"pay", "transfer", "paying">>,
   <<"undo", "failAndRefund", "undoing">>, <<"undo", "cancelPayment", "undoing">>}

(* Sending a write keeps the invariant, and so does failing to.            *)
LEMMA WriteKeeps ==
  ASSUME EscrowInv, NEW p \in Payments, NEW w \in Made, pc[p] = w[1], Write(p, w[2], w[3]), Untouched
  PROVE  EscrowInv'
<1> DEFINE call == w[2]
           awaiting == w[3]
<1>0. /\ EscrowTypeOK /\ NotBegun /\ LateApproval /\ Assured /\ refused \subseteq disturbed
      /\ UNCHANGED <<ledger, seen, disturbed, setting>>
      /\ call \in Calls /\ awaiting \in Places
  BY DEF EscrowInv, RefusedOnlyDisturbed, Untouched, Made, Calls, Returns, Places
<1>1. \/ WriteSent(p, call, awaiting)
      \/ WriteFailed(p) /\ refused' = refused
      \/ /\ WriteFailed(p) /\ refused' = refused \union {p}
         /\ pc' = [pc EXCEPT ![p] = "threw"]
         /\ call = "initiatePayment" /\ ledger.state[p] = "NONE" /\ ledger.allowance < Amount[p]
  BY <1>0, WriteDoes
<1>2. CASE WriteSent(p, call, awaiting)
  <2>1. EscrowTypeOK'
    BY <1>0, <1>2 DEF EscrowTypeOK, WriteSent
  <2>2. /\ \A q \in Payments, c \in Calls : Pending(q, c)' <=> Pending(q, c) \/ (q = p /\ c = call)
        /\ \A q \in Payments : q # p => pc'[q] = pc[q] /\ receipt'[q] = receipt[q]
        /\ pc'[p] = awaiting /\ receipt'[p] = Nil /\ refused' = refused
    BY <1>2, <1>0 DEF WriteSent, Pending, EscrowTypeOK
  <2>3. NotBegun'
    <3> SUFFICES ASSUME NEW q \in Payments, pc'[q] \in {"idle", "approve", "approving"}
                 PROVE  ledger'.state[q] = "NONE" /\ ~Pending(q, "initiatePayment")'
      BY DEF NotBegun
    <3>1. CASE q = p
      BY <3>1, <1>0, <2>2 DEF NotBegun, Made, Calls
    <3>2. CASE q # p
      BY <3>2, <1>0, <2>2 DEF NotBegun, Calls
    <3> QED BY <3>1, <3>2
  <2>4. LateApproval'
    <3> SUFFICES ASSUME NEW q \in Payments, Pending(q, "approve")'
                 PROVE  /\ pc'[q] \in {"approving", "threw", "over"}
                        /\ pc'[q] = "approving" => receipt'[q] = Nil
                        /\ ledger'.state[q] = "NONE"
                        /\ ~Pending(q, "initiatePayment")'
      BY DEF LateApproval
    <3>1. CASE q = p
      <4>1. CASE call = "approve"
        BY <3>1, <4>1, <1>0, <2>2 DEF NotBegun, Made, Calls
      <4>2. CASE call # "approve"
        BY <3>1, <4>2, <1>0, <2>2 DEF LateApproval, Made, Calls
      <4> QED BY <4>1, <4>2
    <3>2. CASE q # p
      BY <3>2, <1>0, <2>2 DEF LateApproval, Calls
    <3> QED BY <3>1, <3>2
  <2>5. Assured'
    <3> SUFFICES ASSUME NEW q \in Payments \ disturbed,
                        \/ pc'[q] = "initiate"
                        \/ pc'[q] = "approving" /\ receipt'[q] = "success"
                        \/ Pending(q, "initiatePayment")'
                 PROVE  ledger.state[q] # "NONE" \/ ledger.allowance >= Amount[q]
      BY <1>0 DEF Assured
    <3>1. CASE q = p
      BY <3>1, <1>0, <2>2 DEF Assured, Made, Calls, Nil
    <3>2. CASE q # p
      BY <3>2, <1>0, <2>2 DEF Assured, Calls
    <3> QED BY <3>1, <3>2
  <2>6. \A q \in Payments : pc[q] # "idle" => pc'[q] # "idle"
    BY <2>2 DEF Made
  <2> QED BY <1>0, <2>1, <2>2, <2>3, <2>4, <2>5, <2>6, ChainLeft
<1>3. CASE WriteFailed(p) /\ ~WriteSent(p, call, awaiting)
  <2>1. \A q \in Payments, c \in Calls : Pending(q, c)' <=> Pending(q, c)
    BY <1>3 DEF WriteFailed, Pending
  <2>2. pc' \in [Payments -> Places] /\ receipt' = receipt
        /\ \A q \in Payments : pc'[q] = pc[q] \/ (q = p /\ pc'[q] = "threw")
    BY <1>0, <1>3 DEF WriteFailed, EscrowTypeOK, Places
  <2>3. EscrowTypeOK'
    BY <1>0, <1>3, <2>2 DEF EscrowTypeOK, WriteFailed
  <2>4. NotBegun'
    BY <1>0, <2>1, <2>2 DEF NotBegun, Calls
  <2>5. LateApproval'
    BY <1>0, <2>1, <2>2 DEF LateApproval, Calls
  <2>6. Assured'
    BY <1>0, <2>1, <2>2 DEF Assured, Calls
  <2>7. refused' \subseteq disturbed'
    <3>1. CASE refused' = refused
      BY <1>0, <3>1
    <3>2. CASE refused' # refused
      <4>1. refused' = refused \union {p} /\ call = "initiatePayment"
            /\ ledger.state[p] = "NONE" /\ ledger.allowance < Amount[p]
        BY <1>1, <1>3, <3>2
      <4>2. pc[p] = "initiate"
        BY <4>1 DEF Made
      <4>3. ledger.allowance \in Nat /\ Amount[p] \in Nat
        BY <1>0, AmountIs DEF EscrowTypeOK, Ledgers, Uint256Max
      <4>4. p \in disturbed
        BY <1>0, <4>1, <4>2, <4>3 DEF Assured
      <4> QED BY <1>0, <4>1, <4>4
    <3> QED BY <3>1, <3>2
  <2> QED BY <1>0, <2>2, <2>3, <2>4, <2>5, <2>6, <2>7, ChainLeft
<1> QED BY <1>1, <1>2, <1>3 DEF WriteFailed

(* Reading the allowance disturbs a payment that reads it stale.           *)
LEMMA ReadAllowanceKeeps ==
  ASSUME EscrowInv, NEW p \in Payments, ReadAllowance(p)
  PROVE  EscrowInv'
<1>0. /\ EscrowTypeOK /\ NotBegun /\ LateApproval /\ Assured /\ refused \subseteq disturbed
      /\ pc[p] = "idle" /\ UNCHANGED <<ledger, seen, mempool, receipt, tries, refused, setting>>
  BY DEF EscrowInv, RefusedOnlyDisturbed, ReadAllowance
<1>1. PICK l \in {ledger, seen} :
        /\ pc' = [pc EXCEPT ![p] = IF Covered(l, p) THEN "initiate" ELSE "approve"]
        /\ disturbed' = IF l.allowance = ledger.allowance THEN disturbed ELSE disturbed \union {p}
  BY DEF ReadAllowance, EscrowGo
<1>2. /\ \A q \in Payments, c \in Calls : Pending(q, c)' <=> Pending(q, c)
      /\ \A q \in Payments : q # p => pc'[q] = pc[q]
      /\ pc'[p] \in {"initiate", "approve"} /\ pc' \in [Payments -> Places]
      /\ disturbed \subseteq disturbed'
  BY <1>0, <1>1 DEF Pending, EscrowTypeOK, Places
<1>3. EscrowTypeOK'
  BY <1>0, <1>2 DEF EscrowTypeOK
<1>4. NotBegun' /\ LateApproval'
  BY <1>0, <1>2 DEF NotBegun, LateApproval, Calls
<1>5. Assured'
  <2> SUFFICES ASSUME NEW q \in Payments \ disturbed',
                      \/ pc'[q] = "initiate"
                      \/ pc'[q] = "approving" /\ receipt'[q] = "success"
                      \/ Pending(q, "initiatePayment")'
               PROVE  ledger.state[q] # "NONE" \/ ledger.allowance >= Amount[q]
    BY <1>0 DEF Assured
  <2>1. CASE q = p
    BY <2>1, <1>0, <1>1, <1>2 DEF NotBegun, Calls, Covered
  <2>2. CASE q # p
    BY <2>2, <1>0, <1>2 DEF Assured, Calls
  <2> QED BY <2>1, <2>2
<1> QED BY <1>0, <1>2, <1>3, <1>4, <1>5, ChainLeft

(* A payment that goes on without a new write.                             *)
LEMMA GoesOn ==
  ASSUME EscrowInv, NEW p \in Payments, NEW l \in Places \ {"idle", "approve", "approving"},
         pc' = [pc EXCEPT ![p] = l],
         mempool' \subseteq mempool,
         receipt' \in [Payments -> {Nil, "success", "reverted"}],
         \A q \in Payments : q # p => receipt'[q] = receipt[q],
         UNCHANGED <<ledger, seen, tries, refused, disturbed, setting>>,
         Pending(p, "approve") => l \in {"threw", "over"},
         p \notin disturbed /\ l = "initiate" => ledger.state[p] # "NONE" \/ ledger.allowance >= Amount[p]
  PROVE  EscrowInv'
<1>0. EscrowTypeOK /\ NotBegun /\ LateApproval /\ Assured /\ refused \subseteq disturbed
  BY DEF EscrowInv, RefusedOnlyDisturbed
<1>1. /\ \A q \in Payments, c \in Calls : Pending(q, c)' => Pending(q, c)
      /\ \A q \in Payments : q # p => pc'[q] = pc[q]
      /\ pc'[p] = l /\ pc' \in [Payments -> Places]
  BY <1>0 DEF Pending, EscrowTypeOK
<1>2. EscrowTypeOK'
  BY <1>0, <1>1 DEF EscrowTypeOK
<1>3. NotBegun' /\ LateApproval'
  BY <1>0, <1>1 DEF NotBegun, LateApproval, Calls
<1>4. Assured'
  <2> SUFFICES ASSUME NEW q \in Payments \ disturbed,
                      \/ pc'[q] = "initiate"
                      \/ pc'[q] = "approving" /\ receipt'[q] = "success"
                      \/ Pending(q, "initiatePayment")'
               PROVE  ledger.state[q] # "NONE" \/ ledger.allowance >= Amount[q]
    BY DEF Assured
  <2> QED BY <1>0, <1>1 DEF Assured, Calls
<1> QED BY <1>0, <1>1, <1>2, <1>3, <1>4, ChainLeft

(* What the escrow is found to hold after a throw was initiated.           *)
LEMMA ReadStateKeeps ==
  ASSUME EscrowInv, NEW p \in Payments, ReadState(p)
  PROVE  EscrowInv'
<1>0. EscrowTypeOK /\ LateApproval /\ SeenIsPast /\ pc[p] = "threw"
  BY DEF EscrowInv, ReadState
<1>1. PICK l \in {ledger, seen} :
        pc' = [pc EXCEPT ![p] = IF l.state[p] = "INITIATED" THEN "undo" ELSE "over"]
  BY DEF ReadState, EscrowGo, Shown
<1>2. Pending(p, "approve") => l.state[p] # "INITIATED"
  BY <1>0 DEF LateApproval, SeenIsPast
<1>3. PICK at \in {"undo", "over"} : pc' = [pc EXCEPT ![p] = at] /\ (Pending(p, "approve") => at = "over")
  BY <1>1, <1>2
<1> QED BY <1>0, <1>3, GoesOn DEF ReadState, Places, EscrowTypeOK

(* An answer that came; an approval's comes when it is mined.              *)
LEMMA ConfirmKeeps ==
  ASSUME EscrowInv, NEW p \in Payments, Confirm(p)
  PROVE  EscrowInv'
<1>0. EscrowTypeOK /\ LateApproval /\ NotBegun /\ Assured /\ receipt[p] # Nil
  BY DEF EscrowInv, Confirm
<1> DEFINE at == IF receipt[p] = "success" THEN After(pc[p]) ELSE "threw"
<1>1. /\ pc' = [pc EXCEPT ![p] = at] /\ receipt' = [receipt EXCEPT ![p] = Nil]
      /\ UNCHANGED <<ledger, seen, mempool, tries, refused, disturbed, setting>>
  BY DEF Confirm, EscrowGo
<1>2. at \in Places \ {"idle", "approve", "approving"}
  BY DEF After, Places
<1>3. at = "initiate" => pc[p] = "approving" /\ receipt[p] = "success"
  BY DEF After
<1>4. Pending(p, "approve") => at \in {"threw", "over"}
  BY <1>0 DEF LateApproval, After
<1> HIDE DEF at
<1>5. p \notin disturbed /\ at = "initiate" => ledger.state[p] # "NONE" \/ ledger.allowance >= Amount[p]
  BY <1>0, <1>3 DEF Assured
<1>6. receipt' \in [Payments -> {Nil, "success", "reverted"}]
      /\ \A q \in Payments : q # p => receipt'[q] = receipt[q]
  BY <1>0, <1>1 DEF EscrowTypeOK
<1> QED BY <1>1, <1>2, <1>4, <1>5, <1>6, GoesOn

(* An answer that never comes.                                             *)
LEMMA LoseKeeps ==
  ASSUME EscrowInv, NEW p \in Payments, Lose(p)
  PROVE  EscrowInv'
<1>1. /\ mempool' \subseteq mempool /\ pc' = [pc EXCEPT ![p] = "threw"]
      /\ UNCHANGED <<ledger, seen, receipt, tries, refused, disturbed, setting>>
  BY DEF Lose, Throw, EscrowGo
<1>2. receipt' \in [Payments -> {Nil, "success", "reverted"}]
  BY <1>1 DEF EscrowInv, EscrowTypeOK
<1> QED BY <1>1, <1>2, GoesOn DEF Places

(* The replicas catch up.                                                  *)
LEMMA CatchUpKeeps ==
  ASSUME EscrowInv, CatchUp
  PROVE  EscrowInv'
<1>1. seen' = ledger /\ UNCHANGED <<ledger, mempool, receipt, pc, tries, refused, disturbed, setting>>
  BY DEF CatchUp
<1>2. EscrowTypeOK' /\ SeenIsPast'
  BY <1>1 DEF EscrowInv, EscrowTypeOK, SeenIsPast
<1>3. NotBegun' /\ LateApproval' /\ Assured'
  BY <1>1 DEF EscrowInv, NotBegun, LateApproval, Assured, Pending
<1>4. EscrowBacked' /\ ClaimCapped' /\ RefusedOnlyDisturbed'
  BY <1>1 DEF EscrowInv, EscrowBacked, Total, ClaimCapped, RefusedOnlyDisturbed
<1> QED BY <1>2, <1>3, <1>4 DEF EscrowInv

-----------------------------------------------------------------------------
(* A write is mined.                                                       *)

Owed(st, S) == SumFunctionOnSet(Amount, {q \in Payments : st[q] \in S})

(* What is owed is an amount.                                              *)
LEMMA OwedNat ==
  ASSUME NEW st, NEW S
  PROVE  Owed(st, S) \in Nat
<1> DEFINE those == {q \in Payments : st[q] \in S}
<1>1. IsNumeric(Amount, those)
  BY InStates
<1>2. IsFiniteSet(those) /\ \A q \in those : Amount[q] \in Nat
  BY <1>1, AmountIs DEF IsNumeric
<1> HIDE DEF those
<1>3. SumFunctionOnSet(Amount, those) \in Nat
  BY <1>2, SumNat
<1> QED BY <1>3 DEF Owed, those

(* A payment that changes state takes its amount along.                    *)
LEMMA OwedMoves ==
  ASSUME NEW st \in [Payments -> States], NEW p \in Payments, NEW s \in States, NEW S
  PROVE  /\ Owed(st, S) \in Nat
         /\ Owed([st EXCEPT ![p] = s], S) =
              Owed(st, S) - (IF st[p] \in S THEN Amount[p] ELSE 0) + (IF s \in S THEN Amount[p] ELSE 0)
         /\ st[p] \in S => Amount[p] <= Owed(st, S)
<1> DEFINE old == {q \in Payments : st[q] \in S}
           new == {q \in Payments : [st EXCEPT ![p] = s][q] \in S}
<1>0. Amount[p] \in Nat
  BY AmountIs
<1>1. IsNumeric(Amount, old) /\ IsNumeric(Amount, new)
  BY InStates
<1>2. new \ {p} = old \ {p} /\ (p \in old <=> st[p] \in S) /\ (p \in new <=> s \in S)
  OBVIOUS
<1>3. Owed(st, S) = SumFunctionOnSet(Amount, old)
      /\ Owed([st EXCEPT ![p] = s], S) = SumFunctionOnSet(Amount, new)
  BY DEF Owed
<1>4. IsFiniteSet(old) /\ \A q \in old : Amount[q] \in Nat
  BY <1>1, AmountIs DEF IsNumeric
<1> HIDE DEF old, new
<1> DEFINE others == SumFunctionOnSet(Amount, old \ {p})
<1>5. IsFiniteSet(old \ {p}) /\ others \in Nat
  <2>1. IsFiniteSet(old \ {p}) /\ \A q \in old \ {p} : Amount[q] \in Nat
    BY <1>4, FS_RemoveElement
  <2> QED BY <2>1, SumNat
<1>6. SumFunctionOnSet(Amount, old) = others + (IF st[p] \in S THEN Amount[p] ELSE 0)
  <2>1. CASE p \in old
    <3>1. SumFunctionOnSet(Amount, old) = Amount[p] + SumFunctionOnSet(Amount, old \ {p})
      BY <2>1, <1>1, SumOut
    <3>2. SumFunctionOnSet(Amount, old) = Amount[p] + others
      BY <3>1, <1>2
    <3> HIDE DEF others
    <3> QED BY <3>2, <2>1, <1>0, <1>2, <1>5
  <2>2. CASE p \notin old
    <3>1. old \ {p} = old
      BY <2>2
    <3>2. SumFunctionOnSet(Amount, old) = others
      BY <3>1, Zenon
    <3> HIDE DEF others
    <3> QED BY <2>2, <3>2, <1>2, <1>5
  <2> QED BY <2>1, <2>2
<1>7. SumFunctionOnSet(Amount, new) = others + (IF s \in S THEN Amount[p] ELSE 0)
  <2>1. CASE p \in new
    <3>1. SumFunctionOnSet(Amount, new) = Amount[p] + SumFunctionOnSet(Amount, new \ {p})
      BY <2>1, <1>1, SumOut
    <3>2. SumFunctionOnSet(Amount, new) = Amount[p] + others
      BY <3>1, <1>2
    <3> HIDE DEF others
    <3> QED BY <3>2, <2>1, <1>0, <1>2, <1>5
  <2>2. CASE p \notin new
    <3>1. new = old \ {p}
      BY <2>2, <1>2
    <3>2. SumFunctionOnSet(Amount, new) = others
      BY <3>1, Zenon
    <3> HIDE DEF others
    <3> QED BY <2>2, <3>2, <1>2, <1>5
  <2> QED BY <2>1, <2>2
<1> HIDE DEF others
<1> QED BY <1>0, <1>3, <1>5, <1>6, <1>7

(* The books of a ledger.                                                  *)
Balanced(l) ==
  /\ l.bal["escrow"] = Owed(l.state, {"INITIATED"})
  /\ l.bal["sender"] = setting.funds - Owed(l.state, {"INITIATED", "SETTLED"})
  /\ l.bal["treasury"] + l.bal["recipient"] = Float + Owed(l.state, {"SETTLED"})

(* A call that does not revert keeps the books.                            *)
LEMMA RunBalanced ==
  ASSUME NEW l \in Ledgers, NEW p \in Payments, NEW call \in Calls, Revert(l, p, call) = Nil,
         Balanced(l), setting.funds \in Nat
  PROVE  Balanced(Run(l, p, call))
<1> DEFINE r == Run(l, p, call)
           n == Amount[p]
<1>0. n \in Nat /\ Float \in Nat
  BY AmountIs, EscrowAssumption
<1>1. l.bal \in [Accounts -> Int] /\ l.state \in [Payments -> States] /\ setting.funds \in Nat
      /\ l.bal["escrow"] \in Int /\ l.bal["sender"] \in Int /\ l.bal["treasury"] \in Int /\ l.bal["recipient"] \in Int
  BY DEF Ledgers, Accounts
<1>2. /\ Owed(l.state, {"INITIATED"}) \in Nat /\ Owed(l.state, {"INITIATED", "SETTLED"}) \in Nat
      /\ Owed(l.state, {"SETTLED"}) \in Nat
  BY OwedNat
<1>3. CASE r.bal = l.bal /\ r.state = l.state
  BY <1>3 DEF Balanced
<1>4. ASSUME NEW from \in Accounts, NEW to \in Accounts, from # to, r.bal = Moved(l, from, to, n)
      PROVE  /\ r.bal[from] = l.bal[from] - n /\ r.bal[to] = l.bal[to] + n
             /\ \A a \in Accounts \ {from, to} : r.bal[a] = l.bal[a]
  BY <1>1, <1>4 DEF Moved
<1>5. ASSUME NEW s \in States, r.state = [l.state EXCEPT ![p] = s]
      PROVE  \A S : Owed(r.state, S) =
               Owed(l.state, S) - (IF l.state[p] \in S THEN n ELSE 0) + (IF s \in S THEN n ELSE 0)
  BY <1>1, <1>5, OwedMoves
<1> HIDE DEF r, n
<1>6. CASE l.state[p] = "NONE" /\ r.bal = Moved(l, "sender", "escrow", n)
           /\ r.state = [l.state EXCEPT ![p] = "INITIATED"]
  <2>1. r.bal["sender"] = l.bal["sender"] - n /\ r.bal["escrow"] = l.bal["escrow"] + n
        /\ r.bal["treasury"] = l.bal["treasury"] /\ r.bal["recipient"] = l.bal["recipient"]
    BY <1>4, <1>6 DEF Accounts
  <2>2. /\ Owed(r.state, {"INITIATED"}) = Owed(l.state, {"INITIATED"}) + n
        /\ Owed(r.state, {"INITIATED", "SETTLED"}) = Owed(l.state, {"INITIATED", "SETTLED"}) + n
        /\ Owed(r.state, {"SETTLED"}) = Owed(l.state, {"SETTLED"})
    BY <1>0, <1>2, <1>5, <1>6 DEF States
  <2> QED BY <1>0, <1>1, <1>2, <2>1, <2>2 DEF Balanced, r
<1>7. CASE l.state[p] = "INITIATED" /\ r.bal = Moved(l, "escrow", "treasury", n)
           /\ r.state = [l.state EXCEPT ![p] = "SETTLED"]
  <2>1. r.bal["sender"] = l.bal["sender"] /\ r.bal["escrow"] = l.bal["escrow"] - n
        /\ r.bal["treasury"] = l.bal["treasury"] + n /\ r.bal["recipient"] = l.bal["recipient"]
    BY <1>4, <1>7 DEF Accounts
  <2>2. /\ Owed(r.state, {"INITIATED"}) = Owed(l.state, {"INITIATED"}) - n
        /\ Owed(r.state, {"INITIATED", "SETTLED"}) = Owed(l.state, {"INITIATED", "SETTLED"})
        /\ Owed(r.state, {"SETTLED"}) = Owed(l.state, {"SETTLED"}) + n
    BY <1>0, <1>2, <1>5, <1>7 DEF States, Ends
  <2> QED BY <1>0, <1>1, <1>2, <2>1, <2>2 DEF Balanced, r
<1>8. ASSUME NEW s \in {"CANCELLED", "REFUNDED"}, l.state[p] = "INITIATED",
             r.bal = Moved(l, "escrow", "sender", n), r.state = [l.state EXCEPT ![p] = s]
      PROVE  Balanced(r)
  <2>1. r.bal["sender"] = l.bal["sender"] + n /\ r.bal["escrow"] = l.bal["escrow"] - n
        /\ r.bal["treasury"] = l.bal["treasury"] /\ r.bal["recipient"] = l.bal["recipient"]
    BY <1>4, <1>8 DEF Accounts
  <2>2. /\ Owed(r.state, {"INITIATED"}) = Owed(l.state, {"INITIATED"}) - n
        /\ Owed(r.state, {"INITIATED", "SETTLED"}) = Owed(l.state, {"INITIATED", "SETTLED"}) - n
        /\ Owed(r.state, {"SETTLED"}) = Owed(l.state, {"SETTLED"})
    BY <1>0, <1>2, <1>5, <1>8 DEF States, Ends
  <2> QED BY <1>0, <1>1, <1>2, <2>1, <2>2 DEF Balanced, r
<1>9. CASE r.bal = Moved(l, "treasury", "recipient", n) /\ r.state = l.state
  <2>1. r.bal["sender"] = l.bal["sender"] /\ r.bal["escrow"] = l.bal["escrow"]
        /\ r.bal["treasury"] = l.bal["treasury"] - n /\ r.bal["recipient"] = l.bal["recipient"] + n
    BY <1>4, <1>9 DEF Accounts
  <2> QED BY <1>0, <1>1, <1>9, <2>1 DEF Balanced, r
<1>10. \A b, a, st : Ledger(b, a, st).bal = b /\ Ledger(b, a, st).state = st
  BY DEF Ledger
<1>11. \/ r.bal = l.bal /\ r.state = l.state
       \/ l.state[p] = "NONE" /\ r.bal = Moved(l, "sender", "escrow", n) /\ r.state = [l.state EXCEPT ![p] = "INITIATED"]
       \/ l.state[p] = "INITIATED" /\ r.bal = Moved(l, "escrow", "treasury", n) /\ r.state = [l.state EXCEPT ![p] = "SETTLED"]
       \/ l.state[p] = "INITIATED" /\ r.bal = Moved(l, "escrow", "sender", n)
          /\ \E s \in {"CANCELLED", "REFUNDED"} : r.state = [l.state EXCEPT ![p] = s]
       \/ r.bal = Moved(l, "treasury", "recipient", n) /\ r.state = l.state
  BY RunDoes, <1>10 DEF r, n
<1> QED BY <1>3, <1>6, <1>7, <1>8, <1>9, <1>11 DEF r

(* What a mined write leaves: the books balanced, no state undone, and an  *)
(* allowance that only the payment's own approval or escrow changes.       *)
LEMMA MineKeeps ==
  ASSUME EscrowInv, Mine
  PROVE  EscrowInv'
<1>0. /\ EscrowTypeOK /\ SeenIsPast /\ NotBegun /\ LateApproval /\ Assured /\ Balanced(ledger) /\ ClaimCapped
      /\ refused \subseteq disturbed /\ setting.funds \in Nat
      /\ UNCHANGED <<seen, pc, tries, setting>>
  BY EscrowAssumption DEF EscrowInv, RefusedOnlyDisturbed, EscrowBacked, Total, Owed, Balanced, Mine, EscrowTypeOK
<1>1. PICK t \in mempool :
        /\ mempool' = mempool \ {t}
        /\ ledger' = IF Revert(ledger, t.of, t.call) = Nil THEN Run(ledger, t.of, t.call) ELSE ledger
        /\ receipt' = IF t.call \notin Awaited(t.of) THEN receipt
                      ELSE [receipt EXCEPT ![t.of] =
                              IF Revert(ledger, t.of, t.call) = Nil THEN "success" ELSE "reverted"]
        /\ refused' = IF Revert(ledger, t.of, t.call) = "insufficient allowance" THEN refused \union {t.of} ELSE refused
        /\ disturbed' = IF t.call \in {"approve", "initiatePayment"} /\ Revert(ledger, t.of, t.call) = Nil
                        THEN disturbed \union {p \in Payments : p # t.of /\ Claiming(p)} ELSE disturbed
  BY DEF Mine
<1> DEFINE o == t.of
           call == t.call
           n == Amount[o]
<1>2. o \in Payments /\ call \in Calls /\ t = [of |-> o, call |-> call] /\ Pending(o, call)
  BY <1>0 DEF EscrowTypeOK, Pending
<1>3. n \in Nat /\ n > 0 /\ n < Uint256Max /\ Uint256Max \in Nat
  BY <1>2, AmountIs
<1>4. ledger \in Ledgers /\ ledger.allowance \in Nat /\ ledger.state \in [Payments -> States]
      /\ ledger.allowance <= Uint256Max
  BY <1>0, <1>3 DEF EscrowTypeOK, Ledgers
<1>5. /\ \A q \in Payments, c \in Calls : Pending(q, c)' => Pending(q, c) /\ (q # o \/ c # call)
      /\ mempool' \subseteq mempool
  BY <1>1, <1>2 DEF Pending
<1>6. /\ receipt' \in [Payments -> {Nil, "success", "reverted"}]
      /\ \A q \in Payments : q # o => receipt'[q] = receipt[q]
      /\ call \notin Awaited(o) => receipt' = receipt
      /\ receipt'[o] = receipt[o] \/ receipt'[o] # "success" \/ (call \in Awaited(o) /\ Revert(ledger, o, call) = Nil)
  <2>1. receipt \in [Payments -> {Nil, "success", "reverted"}]
    BY <1>0 DEF EscrowTypeOK
  <2> QED BY <1>1, <1>2, <2>1
<1> HIDE DEF o, call, n
<1>7. /\ disturbed \subseteq disturbed'
      /\ \A q \in Payments \ disturbed' :
           call \in {"approve", "initiatePayment"} /\ Revert(ledger, o, call) = Nil /\ q # o => ~Claiming(q)
      /\ refused' \subseteq refused \union {o}
      /\ refused' # refused => Revert(ledger, o, call) = "insufficient allowance"
  BY <1>1 DEF o, call
(* What the chain comes to.                                                *)
<1>8. /\ ledger' \in Ledgers /\ Balanced(ledger')
      /\ \A q \in Payments : q # o => ledger'.state[q] = ledger.state[q]
      /\ \A q \in Payments : ledger.state[q] # "NONE" => ledger'.state[q] # "NONE"
      /\ call # "initiatePayment" => (ledger.state[o] = "NONE" => ledger'.state[o] = "NONE")
      /\ ledger'.allowance = ledger.allowance
         \/ (/\ call = "approve" /\ ledger'.allowance = n /\ ledger'.state = ledger.state)
         \/ (/\ call = "initiatePayment" /\ ledger'.state[o] # "NONE"
             /\ ledger.allowance >= n /\ ledger.allowance # Uint256Max /\ ledger'.allowance = ledger.allowance - n)
      /\ ledger'.allowance # ledger.allowance => Revert(ledger, o, call) = Nil
      /\ call = "initiatePayment" /\ Revert(ledger, o, call) = Nil =>
           ledger'.state[o] # "NONE" /\ ledger.allowance >= n
           /\ (ledger.allowance # Uint256Max => ledger'.allowance = ledger.allowance - n)
      /\ call = "approve" /\ Revert(ledger, o, call) = Nil => ledger'.allowance = n
  <2>1. CASE Revert(ledger, o, call) # Nil
    <3>1. ledger' = ledger
      BY <1>1, <2>1 DEF o, call
    <3> QED BY <1>0, <1>4, <2>1, <3>1
  <2>2. CASE Revert(ledger, o, call) = Nil
    <3>1. ledger' = Run(ledger, o, call)
      BY <1>1, <2>2 DEF o, call
    <3>2. Balanced(ledger')
      BY <1>0, <1>2, <1>4, <2>2, <3>1, RunBalanced
    <3>3. \/ /\ call = "approve" /\ ledger' = Ledger(ledger.bal, n, ledger.state)
          \/ /\ call = "initiatePayment" /\ ledger.allowance >= n
             /\ \E b \in [Accounts -> Int] :
                  ledger' = Ledger(b, IF ledger.allowance = Uint256Max THEN ledger.allowance ELSE ledger.allowance - n,
                                   [ledger.state EXCEPT ![o] = "INITIATED"])
          \/ /\ call \notin {"approve", "initiatePayment"} /\ ledger.state[o] = "INITIATED"
             /\ \E b \in [Accounts -> Int], s \in Ends :
                  ledger' = Ledger(b, ledger.allowance, [ledger.state EXCEPT ![o] = s])
          \/ /\ call = "transfer"
             /\ \E b \in [Accounts -> Int] : ledger' = Ledger(b, ledger.allowance, ledger.state)
      <4>1. \A from \in Accounts, to \in Accounts : from # to => Moved(ledger, from, to, n) \in [Accounts -> Int]
        BY <1>3, <1>4, TransferIs
      <4>2. /\ Moved(ledger, "sender", "escrow", n) \in [Accounts -> Int]
            /\ Moved(ledger, "escrow", "treasury", n) \in [Accounts -> Int]
            /\ Moved(ledger, "escrow", "sender", n) \in [Accounts -> Int]
            /\ Moved(ledger, "treasury", "recipient", n) \in [Accounts -> Int]
        BY <4>1 DEF Accounts
      <4> QED BY <1>2, <1>4, <2>2, <3>1, <4>2, RunDoes DEF n, Returns, Ends
    <3>4. \A b, a, st : Ledger(b, a, st).allowance = a /\ Ledger(b, a, st).state = st
      BY DEF Ledger
    <3>5. \A b \in [Accounts -> Int], a \in 0 .. Uint256Max, st \in [Payments -> States] : Ledger(b, a, st) \in Ledgers
      BY DEF Ledger, Ledgers
    <3>6. ledger.bal \in [Accounts -> Int]
      BY <1>4 DEF Ledgers
    <3>7. CASE call = "approve" /\ ledger' = Ledger(ledger.bal, n, ledger.state)
      BY <3>7, <1>3, <1>4, <2>2, <3>2, <3>4, <3>5, <3>6
    <3>8. ASSUME NEW b \in [Accounts -> Int], call = "initiatePayment", ledger.allowance >= n,
                 ledger' = Ledger(b, IF ledger.allowance = Uint256Max THEN ledger.allowance ELSE ledger.allowance - n,
                                  [ledger.state EXCEPT ![o] = "INITIATED"])
          PROVE  <1>8!:
      <4>1. [ledger.state EXCEPT ![o] = "INITIATED"] \in [Payments -> States]
        BY <1>4 DEF States
      <4> QED BY <3>8, <4>1, <1>2, <1>3, <1>4, <2>2, <3>2, <3>4, <3>5
    <3>9. ASSUME NEW b \in [Accounts -> Int], NEW s \in Ends, call \notin {"approve", "initiatePayment"},
                 ledger.state[o] = "INITIATED",
                 ledger' = Ledger(b, ledger.allowance, [ledger.state EXCEPT ![o] = s])
          PROVE  <1>8!:
      <4>1. [ledger.state EXCEPT ![o] = s] \in [Payments -> States] /\ s # "NONE"
        BY <1>4 DEF States, Ends
      <4> QED BY <3>9, <4>1, <1>2, <1>3, <1>4, <2>2, <3>2, <3>4, <3>5
    <3>10. ASSUME NEW b \in [Accounts -> Int], call = "transfer", ledger' = Ledger(b, ledger.allowance, ledger.state)
           PROVE  <1>8!:
      BY <3>10, <1>3, <1>4, <2>2, <3>2, <3>4, <3>5
    <3> QED BY <3>3, <3>7, <3>8, <3>9, <3>10
  <2> QED BY <2>1, <2>2
<1>9. EscrowTypeOK'
  BY <1>0, <1>5, <1>6, <1>8 DEF EscrowTypeOK
<1>10. SeenIsPast'
  BY <1>0, <1>8 DEF SeenIsPast
<1>11. NotBegun'
  <2> SUFFICES ASSUME NEW q \in Payments, pc[q] \in {"idle", "approve", "approving"}
               PROVE  ledger'.state[q] = "NONE" /\ ~Pending(q, "initiatePayment")'
    BY <1>0 DEF NotBegun
  <2>1. ledger.state[q] = "NONE" /\ ~Pending(q, "initiatePayment")
    BY <1>0 DEF NotBegun
  <2>2. q # o \/ call # "initiatePayment"
    BY <1>2, <2>1
  <2> QED BY <1>5, <1>8, <2>1, <2>2 DEF Calls
<1>12. LateApproval'
  <2> SUFFICES ASSUME NEW q \in Payments, Pending(q, "approve")'
               PROVE  /\ pc[q] \in {"approving", "threw", "over"}
                      /\ pc[q] = "approving" => receipt'[q] = Nil
                      /\ ledger'.state[q] = "NONE"
                      /\ ~Pending(q, "initiatePayment")'
    BY <1>0 DEF LateApproval
  <2>1. Pending(q, "approve") /\ (q # o \/ call # "approve")
    BY <1>5 DEF Calls
  <2>2. /\ pc[q] \in {"approving", "threw", "over"}
        /\ pc[q] = "approving" => receipt[q] = Nil
        /\ ledger.state[q] = "NONE" /\ ~Pending(q, "initiatePayment")
    BY <1>0, <2>1 DEF LateApproval
  <2>3. q # o \/ call # "initiatePayment"
    BY <1>2, <2>2
  <2>4. pc[q] = "approving" => receipt'[q] = Nil
    BY <1>6, <2>1, <2>2 DEF Awaited
  <2> QED BY <1>5, <1>8, <2>2, <2>3, <2>4 DEF Calls
<1>13. Assured'
  <2> SUFFICES ASSUME NEW q \in Payments \ disturbed',
                      \/ pc[q] = "initiate"
                      \/ pc[q] = "approving" /\ receipt'[q] = "success"
                      \/ Pending(q, "initiatePayment")',
                      ledger'.state[q] = "NONE"
               PROVE  ledger'.allowance >= Amount[q]
    BY <1>0 DEF Assured
  <2>1. ledger.state[q] = "NONE" /\ q \notin disturbed
    BY <1>7, <1>8
  <2>2. Claiming(q)
    BY <1>5 DEF Claiming, Pending, Calls
  <2>3. CASE q # o
    <3>1. ~(call \in {"approve", "initiatePayment"} /\ Revert(ledger, o, call) = Nil)
      BY <1>7, <2>2, <2>3
    <3>2. ledger'.allowance = ledger.allowance
      BY <1>8, <3>1
    <3>3. ledger.allowance >= Amount[q]
      BY <1>0, <1>5, <1>6, <2>1, <2>3 DEF Assured, Calls
    <3> QED BY <3>2, <3>3
  <2>4. CASE q = o
    <3>1. CASE call = "approve"
      <4>1. pc[q] = "approving" /\ receipt[q] = Nil /\ ~Pending(q, "initiatePayment")
        BY <1>0, <1>2, <1>5, <2>4, <3>1 DEF LateApproval, Calls
      <4>2. receipt'[q] = "success"
        BY <1>5, <4>1 DEF Calls
      <4>3. Revert(ledger, o, call) = Nil
        BY <1>6, <2>4, <4>1, <4>2 DEF Nil
      <4> QED BY <1>3, <1>8, <2>4, <3>1, <4>3 DEF n
    <3>2. CASE call = "initiatePayment"
      <4>1. Revert(ledger, o, call) # Nil
        BY <1>8, <2>4, <3>2
      <4>2. ~Pending(q, "initiatePayment")' /\ ledger'.allowance = ledger.allowance
        BY <1>5, <1>8, <2>4, <3>2, <4>1 DEF Calls
      <4>3. pc[q] # "approving"
        BY <1>0, <1>2, <2>4, <3>2 DEF NotBegun
      <4>4. ledger.allowance >= Amount[q]
        BY <1>0, <1>2, <2>1, <2>4, <3>2 DEF Assured
      <4> QED BY <4>2, <4>4
    <3>3. CASE call \notin {"approve", "initiatePayment"}
      <4>1. ledger'.allowance = ledger.allowance
        BY <1>8, <3>3
      <4>2. pc[q] = "approving" => receipt' = receipt
        BY <1>6, <2>4, <3>3 DEF Awaited
      <4>3. ledger.allowance >= Amount[q]
        BY <1>0, <1>5, <2>1, <4>2 DEF Assured, Calls
      <4> QED BY <4>1, <4>3
    <3> QED BY <3>1, <3>2, <3>3
  <2> QED BY <2>3, <2>4
<1>14. EscrowBacked'
  BY <1>0, <1>8 DEF EscrowBacked, Total, Owed, Balanced
<1>15. ClaimCapped'
  <2> SUFFICES ASSUME setting.standing = 0, ledger'.allowance > 0
               PROVE  \E p \in Payments : pc[p] # "idle" /\ ledger'.state[p] = "NONE" /\ ledger'.allowance <= Amount[p]
    BY <1>0 DEF ClaimCapped
  <2>1. CASE call = "approve" /\ Revert(ledger, o, call) = Nil
    <3>1. ledger'.allowance = n /\ pc[o] # "idle" /\ ledger'.state[o] = "NONE"
      BY <1>0, <1>2, <1>8, <2>1 DEF LateApproval
    <3> QED BY <1>2, <1>3, <3>1 DEF n
  <2>2. CASE ~(call = "approve" /\ Revert(ledger, o, call) = Nil)
    <3>1. ledger.allowance > 0
      BY <1>3, <1>4, <1>8, <2>2
    <3>2. PICK p \in Payments : pc[p] # "idle" /\ ledger.state[p] = "NONE" /\ ledger.allowance <= Amount[p]
      BY <1>0, <3>1 DEF ClaimCapped
    <3>3. Amount[p] \in Nat /\ Amount[p] < Uint256Max
      BY AmountIs
    <3>4. CASE ledger'.state[p] = "NONE"
      BY <1>3, <1>4, <1>8, <2>2, <3>2, <3>3, <3>4
    <3>5. CASE ledger'.state[p] # "NONE"
      <4>1. p = o /\ call = "initiatePayment"
        BY <1>8, <3>2, <3>5
      <4>2. Revert(ledger, o, call) = Nil
        BY <1>1, <3>2, <3>5 DEF o, call
      <4>3. ledger.allowance # Uint256Max /\ ledger'.allowance = ledger.allowance - n /\ ledger.allowance <= n
        BY <1>3, <1>4, <1>8, <3>2, <3>3, <4>1, <4>2 DEF n
      <4>4. ledger'.allowance <= 0
        BY <1>3, <1>4, <4>3
      <4> QED BY <1>3, <1>4, <4>3, <4>4
    <3> QED BY <3>4, <3>5
  <2> QED BY <2>1, <2>2
<1>16. RefusedOnlyDisturbed'
  <2>1. CASE refused' = refused
    BY <1>0, <1>7, <2>1 DEF RefusedOnlyDisturbed
  <2>2. CASE refused' # refused
    <3>1. Revert(ledger, o, call) = "insufficient allowance"
      BY <1>7, <2>2
    <3>2. call = "initiatePayment" /\ ledger.state[o] = "NONE" /\ ledger.allowance < n
      BY <1>2, <3>1 DEF Revert, NoBalance, NotInitiated, Nil, Calls, Returns, n
    <3>3. o \in disturbed
      BY <1>0, <1>2, <1>3, <1>4, <3>2 DEF Assured, n
    <3> QED BY <1>0, <1>7, <3>3 DEF RefusedOnlyDisturbed
  <2> QED BY <2>1, <2>2
<1> QED BY <1>9, <1>10, <1>11, <1>12, <1>13, <1>14, <1>15, <1>16 DEF EscrowInv

-----------------------------------------------------------------------------
(* The theorems.                                                           *)

(* Every step keeps the invariant.                                         *)
LEMMA EscrowInvStep ==
  ASSUME EscrowInv, [EscrowNext]_escrowVars
  PROVE  EscrowInv'
<1>1. CASE UNCHANGED escrowVars
  <2>1. UNCHANGED <<ledger, seen, mempool, receipt, pc, tries, refused, disturbed, setting>>
    BY <1>1 DEF escrowVars
  <2>2. EscrowTypeOK' /\ NotBegun' /\ LateApproval' /\ Assured' /\ refused' \subseteq disturbed'
    BY <2>1 DEF EscrowInv, EscrowTypeOK, NotBegun, LateApproval, Assured, Pending, RefusedOnlyDisturbed
  <2> QED BY <2>1, <2>2, ChainLeft
<1>2. CASE Mine
  BY <1>2, MineKeeps
<1>3. CASE CatchUp
  BY <1>3, CatchUpKeeps
<1>4. ASSUME NEW p \in Payments, EscrowStep(p)
      PROVE  EscrowInv'
  <2>1. CASE ReadAllowance(p) BY <2>1, ReadAllowanceKeeps
  <2>2. CASE ReadState(p) BY <2>2, ReadStateKeeps
  <2>3. CASE Confirm(p) BY <2>3, ConfirmKeeps
  <2>4. CASE Lose(p) BY <2>4, LoseKeeps
  <2>5. CASE ApproveAmount(p) \/ Initiate(p) \/ Settle(p) \/ Pay(p) \/ Undo(p)
    <3>1. \E w \in Made : pc[p] = w[1] /\ Write(p, w[2], w[3]) /\ Untouched
      BY <2>5 DEF ApproveAmount, Initiate, Settle, Pay, Undo, Made
    <3> QED BY <3>1, WriteKeeps
  <2> QED BY <1>4, <2>1, <2>2, <2>3, <2>4, <2>5 DEF EscrowStep
<1> QED BY <1>1, <1>2, <1>3, <1>4 DEF EscrowNext

(* The invariant holds in every state.                                     *)
THEOREM EscrowInvariant == EscrowSpec => []EscrowInv
<1>1. EscrowInit => EscrowInv
  BY EscrowInvInit
<1>2. EscrowInv /\ [EscrowNext]_escrowVars => EscrowInv'
  BY EscrowInvStep
<1> QED BY <1>1, <1>2, PTL DEF EscrowSpec

(* However lost answers, late writes and concurrent payments cross, the    *)
(* escrow holds exactly what it owes (contracts/PaymentSettlement.sol).    *)
THEOREM EscrowIsBacked == EscrowSpec => []EscrowBacked
<1>1. EscrowInv => EscrowBacked
  BY DEF EscrowInv
<1> QED BY <1>1, EscrowInvariant, PTL

(* No claim on the sender's wallet outlives the payment it was approved    *)
(* for (ensureSenderAllowance of lib/chain.ts).                            *)
THEOREM ClaimIsCapped == EscrowSpec => []ClaimCapped
<1>1. EscrowInv => ClaimCapped
  BY DEF EscrowInv
<1> QED BY <1>1, EscrowInvariant, PTL

(* A payment no other one disturbed is never refused for its allowance     *)
(* (operatorWrite's retries in lib/chain.ts).                              *)
THEOREM RefusalHasCause == EscrowSpec => []RefusedOnlyDisturbed
<1>1. EscrowInv => RefusedOnlyDisturbed
  BY DEF EscrowInv
<1> QED BY <1>1, EscrowInvariant, PTL

(* No account is ever overdrawn, the escrow's included, whose balance no   *)
(* release or refund of the contract looks at.                             *)
Solvent == \A a \in Accounts : ledger.bal[a] >= 0

(* A call that does not revert overdraws nobody: what leaves the escrow is *)
(* part of what it owes.                                                   *)
LEMMA RunSolvent ==
  ASSUME NEW l \in Ledgers, NEW p \in Payments, NEW call \in Calls, Revert(l, p, call) = Nil,
         l.bal["escrow"] = Owed(l.state, {"INITIATED"}), \A a \in Accounts : l.bal[a] >= 0,
         NEW a \in Accounts
  PROVE  Run(l, p, call).bal[a] >= 0
<1> DEFINE n == Amount[p]
           r == Run(l, p, call)
<1>1. n \in Nat /\ l.bal \in [Accounts -> Int] /\ l.state \in [Payments -> States]
  BY AmountIs DEF Ledgers
<1>2. l.state[p] = "INITIATED" => n <= l.bal["escrow"]
  BY <1>1, OwedMoves
<1> HIDE DEF n, r
<1>3. ASSUME NEW from \in Accounts, NEW to \in Accounts, from # to, n <= l.bal[from]
      PROVE  Moved(l, from, to, n)[a] >= 0
  BY <1>1, <1>3 DEF Moved
<1>4. \A b, w, st : Ledger(b, w, st).bal = b
  BY DEF Ledger
<1>5. \/ r.bal = l.bal
      \/ l.bal["sender"] >= n /\ r.bal = Moved(l, "sender", "escrow", n)
      \/ l.state[p] = "INITIATED" /\ r.bal = Moved(l, "escrow", "treasury", n)
      \/ l.state[p] = "INITIATED" /\ r.bal = Moved(l, "escrow", "sender", n)
      \/ l.bal["treasury"] >= n /\ r.bal = Moved(l, "treasury", "recipient", n)
  <2>1. \/ r = Ledger(l.bal, n, l.state)
        \/ l.bal["sender"] >= n /\ \E w, st : r = Ledger(Moved(l, "sender", "escrow", n), w, st)
        \/ l.state[p] = "INITIATED" /\ \E w, st : r = Ledger(Moved(l, "escrow", "treasury", n), w, st)
        \/ l.state[p] = "INITIATED" /\ \E w, st : r = Ledger(Moved(l, "escrow", "sender", n), w, st)
        \/ l.bal["treasury"] >= n /\ \E w, st : r = Ledger(Moved(l, "treasury", "recipient", n), w, st)
    BY RunDoes, Zenon DEF n, r
  <2> QED BY <2>1, <1>4
<1>6. /\ l.bal["sender"] >= n => Moved(l, "sender", "escrow", n)[a] >= 0
      /\ l.state[p] = "INITIATED" => Moved(l, "escrow", "treasury", n)[a] >= 0
      /\ l.state[p] = "INITIATED" => Moved(l, "escrow", "sender", n)[a] >= 0
      /\ l.bal["treasury"] >= n => Moved(l, "treasury", "recipient", n)[a] >= 0
  BY <1>1, <1>2, <1>3 DEF Accounts
<1> QED BY <1>5, <1>6 DEF r

(* No release, refund or payout takes tokens that are not there            *)
(* (contracts/PaymentSettlement.sol, contracts/MockERC20.sol).             *)
THEOREM NobodyOverdrawn == EscrowSpec => []Solvent
<1>1. EscrowInit => Solvent
  <2> SUFFICES ASSUME EscrowInit, NEW a \in Accounts PROVE ledger.bal[a] >= 0
    BY DEF Solvent
  <2>1. setting.funds \in Nat /\ Float \in Nat
    BY EscrowAssumption DEF EscrowInit
  <2>2. ledger.bal[a] \in {setting.funds, Float, 0}
    BY DEF EscrowInit, Accounts
  <2> QED BY <2>1, <2>2
<1>2. EscrowInv /\ Solvent /\ [EscrowNext]_escrowVars => Solvent'
  <2> SUFFICES ASSUME EscrowInv, Solvent, [EscrowNext]_escrowVars PROVE Solvent'
    OBVIOUS
  <2>1. CASE Mine
    <3>1. PICK t \in mempool :
            ledger' = IF Revert(ledger, t.of, t.call) = Nil THEN Run(ledger, t.of, t.call) ELSE ledger
      BY <2>1 DEF Mine
    <3>2. ledger \in Ledgers /\ t.of \in Payments /\ t.call \in Calls
          /\ ledger.bal["escrow"] = Owed(ledger.state, {"INITIATED"})
      BY DEF EscrowInv, EscrowTypeOK, EscrowBacked, Total, Owed
    <3> QED BY <3>1, <3>2, RunSolvent DEF Solvent
  <2>2. CASE UNCHANGED ledger
    BY <2>2 DEF Solvent
  <2>3. Mine \/ UNCHANGED ledger
    BY DEF EscrowNext, EscrowStep, ReadAllowance, ApproveAmount, Initiate, Settle, Pay, ReadState, Undo,
           Confirm, Lose, Untouched, CatchUp, escrowVars
  <2> QED BY <2>1, <2>2, <2>3
<1> QED BY <1>1, <1>2, EscrowInvariant, PTL DEF EscrowSpec
=============================================================================
