---------------------------- MODULE ServiceProofs ----------------------------
(***************************************************************************)
(* What stands before and beside every request, proved for any number of   *)
(* requests, appenders, readers and clients, any keys, bodies, limits and  *)
(* environments:                                                           *)
(*   - the Idempotency-Key records: no effect twice within their time to   *)
(*     live, no answer replayed to another request, no key locked out.     *)
(*     The argument is GateInv: whoever holds a key is its record's, and   *)
(*     no second request holds it;                                         *)
(*   - the audit log: AuditInv, every row is hashed from the row before    *)
(*     it, unless it was edited since, and every anchor was once true;     *)
(*   - the rate limiter: WindowInv, what it still has of a caller's        *)
(*     admissions is their end, and all it forgot is older than a window;  *)
(*   - the credentials: ForceInv, a password is accepted only while it is  *)
(*     in force.                                                           *)
(***************************************************************************)
EXTENDS RequestGate, AuditChain, Credentials, SumLemmas

-----------------------------------------------------------------------------
(* The Idempotency-Key records.                                            *)

GateLabels ==
  {"idle", "create", "look", "reclaim", "handle", "complete", "abandon", "done"}
Bodies == {a.body : a \in UNION {w.arrivals : w \in GateWorlds}} \union {Null}
RecordRows ==
  [id : Nat, at : Nat, body : Bodies, answer : Answers \union {Null}, by : Requests \union {Null}]
GateMemories ==
  [caller : Callers \union {Null}, key : Keys \union {Null}, body : Bodies, attempt : {1, 2},
   id : Nat, at : Nat, answer : Answers \union {Null}, from : Requests \union {Null}]
Effects ==
  [caller : Callers, key : Keys \union {Null}, body : Bodies, claimed : Nat, of : Requests]

GateTypeOK ==
  /\ now \in Nat
  /\ record \in [Slots -> RecordRows]
  /\ nextRecord \in Nat \ {0}
  /\ gatePc \in [Requests -> GateLabels]
  /\ gateMem \in [Requests -> GateMemories]
  /\ effects \in Seq(Effects)
  /\ gate \in GateWorlds

(* Between claiming its key and leaving it.                                *)
Holding(r) == gateMem[r].key # Null /\ gatePc[r] \in {"handle", "complete", "abandon"}
Left(r) == gatePc[r] \in {"abandon", "done"}
Did(r) == \E i \in DOMAIN effects : effects[i].of = r

(* One row per claim: ids do not repeat.                                   *)
RecordsKnown ==
  /\ \A s \in Slots :
       /\ record[s].id = 0 => record[s] = NoRecord
       /\ record[s].id < nextRecord
       /\ record[s].at <= now
  /\ \A s, t \in Slots : record[s].id = record[t].id /\ record[s].id # 0 => s = t

(* What a request under way carries; the key it holds is its record's, and *)
(* the record has not expired.                                             *)
Carries(r) ==
  /\ Busy(r) =>
       /\ gateMem[r].caller \in Callers /\ gateMem[r].at <= now
       /\ gatePc[r] # "handle" => gateMem[r].key # Null
  /\ gatePc[r] # "done" => gateMem[r].from = Null
  /\ gatePc[r] = "reclaim" => gateMem[r].id # 0 /\ gateMem[r].at + Ttl <= now
  /\ gatePc[r] = "complete" =>
       gateMem[r].answer # Null /\ (gateMem[r].answer = "ok" => Did(r))
  /\ Holding(r) =>
       /\ record[Slot(r)].id = gateMem[r].id /\ gateMem[r].id # 0
       /\ record[Slot(r)].at = gateMem[r].at /\ now < gateMem[r].at + Ttl
       /\ record[Slot(r)].body = gateMem[r].body

OneHolder == \A r, q \in Requests : Holding(r) /\ Holding(q) /\ Slot(r) = Slot(q) => r = q

(* An answer on record is that of the request that stored it.              *)
StoredBy(s) ==
  record[s].answer # Null =>
    /\ record[s].by \in Requests /\ Left(record[s].by) /\ Slot(record[s].by) = s
    /\ gateMem[record[s].by].body = record[s].body
    /\ gateMem[record[s].by].answer = record[s].answer
    /\ record[s].answer = "ok" => Did(record[s].by)

Replayed(r) ==
  LET first == gateMem[r].from
  IN  first # Null =>
        /\ Left(first)
        /\ Slot(first) = Slot(r) /\ gateMem[first].body = gateMem[r].body
        /\ gateMem[first].answer = gateMem[r].answer
        /\ gateMem[r].answer = "ok" => Did(first)

Attended(s) ==
  gate.faults \subseteq {"throw", "late"} /\ record[s].id # 0 /\ record[s].answer = Null =>
    \E r \in Requests : Holding(r) /\ Slot(r) = s

(* An effect's record is the one it was done under, with nobody about to   *)
(* do it again or to forget it; or the effect is a time to live old.       *)
Guarded(e) ==
  LET s == <<e.caller, e.key>>
  IN  \/ /\ record[s].id # 0 /\ record[s].at = e.claimed
         /\ \A r \in Requests : Holding(r) /\ Slot(r) = s => gatePc[r] = "complete"
      \/ /\ now >= e.claimed + Ttl
         /\ record[s].id # 0 => record[s].at >= e.claimed + Ttl

EffectsGuarded ==
  gate.faults \subseteq {"throw", "crash"} =>
    \A i \in DOMAIN effects : effects[i].key # Null => Guarded(effects[i])

GateInv ==
  /\ GateTypeOK
  /\ RecordsKnown
  /\ OneHolder
  /\ \A r \in Requests : Carries(r) /\ Replayed(r)
  /\ \A s \in Slots : StoredBy(s) /\ Attended(s)
  /\ EffectsGuarded
  /\ EffectsApart

-----------------------------------------------------------------------------
(* The operators.                                                          *)

(* What a request claims is kept in its memory, column by column           *)
(* (lib/idempotency.ts, beginIdempotent).                                  *)
LEMMA ClaimingIs ==
  ASSUME NEW mem \in GateMemories, NEW id \in Nat, NEW at \in Nat
  PROVE  /\ Claiming(mem, id, at) \in GateMemories
         /\ Claiming(mem, id, at).id = id /\ Claiming(mem, id, at).at = at
         /\ Claiming(mem, id, at).caller = mem.caller /\ Claiming(mem, id, at).key = mem.key
         /\ Claiming(mem, id, at).body = mem.body /\ Claiming(mem, id, at).answer = mem.answer
         /\ Claiming(mem, id, at).from = mem.from
<1> DEFINE m == [mem EXCEPT !.id = id]
<1>1. /\ m \in GateMemories /\ m.id = id /\ m.caller = mem.caller /\ m.key = mem.key
      /\ m.body = mem.body /\ m.answer = mem.answer /\ m.from = mem.from
  BY DEF GateMemories
<1>2. Claiming(mem, id, at) = [m EXCEPT !.at = at]
  BY DEF Claiming
<1> HIDE DEF m
<1> QED BY <1>1, <1>2 DEF GateMemories

(* A request with a key that is under way knows its record's place.        *)
LEMMA HasSlot ==
  ASSUME GateInv, NEW r \in Requests, Busy(r), gateMem[r].key # Null
  PROVE  Slot(r) \in Slots
<1>1. gateMem[r].caller \in Callers /\ gateMem[r].key \in Keys
  BY DEF GateInv, GateTypeOK, GateMemories, Carries
<1> QED BY <1>1 DEF Slot, Slots

(* Only the acting request's place and memory change.                      *)
Moves(r, l, m) ==
  /\ gatePc' = [gatePc EXCEPT ![r] = l]
  /\ gateMem' = [gateMem EXCEPT ![r] = m]

(* What the others remember is not touched.                                *)
LEMMA Moved ==
  ASSUME GateTypeOK, NEW r \in Requests, NEW l \in GateLabels, NEW m \in GateMemories, Moves(r, l, m)
  PROVE  /\ gatePc' \in [Requests -> GateLabels] /\ gateMem' \in [Requests -> GateMemories]
         /\ gatePc'[r] = l /\ gateMem'[r] = m
         /\ \A q \in Requests : q # r => gatePc'[q] = gatePc[q] /\ gateMem'[q] = gateMem[q]
BY DEF GateTypeOK, Moves

(* What a request that does not act carries and was told stays true while  *)
(* time, its record and the effects do.                                    *)
LEMMA Aside ==
  ASSUME GateInv, NEW q \in Requests, gatePc'[q] = gatePc[q], gateMem'[q] = gateMem[q], now' = now,
         \A p \in Requests : Did(p) => Did(p)',
         Holding(q) => record'[Slot(q)] = record[Slot(q)]
  PROVE  Carries(q)'
<1>1. Carries(q)
  BY DEF GateInv
<1>2. /\ Holding(q)' <=> Holding(q)
      /\ Slot(q)' = Slot(q)
      /\ Busy(q)' <=> Busy(q)
  BY DEF Holding, Slot, Busy
<1>3. Did(q) => Did(q)'
  OBVIOUS
<1> QED BY <1>1, <1>2, <1>3 DEF Carries

(* An answer replayed to a request stays that of the request it is from.   *)
LEMMA ReplayKept ==
  ASSUME GateInv, NEW q \in Requests,
         gateMem'[q] = gateMem[q],
         \A p \in Requests : Left(p) => Left(p)' /\ gateMem'[p] = gateMem[p] /\ Slot(p)' = Slot(p),
         \A p \in Requests : Did(p) => Did(p)'
  PROVE  Replayed(q)'
<1>1. Replayed(q) /\ gateMem[q].from \in Requests \union {Null} /\ Slot(q)' = Slot(q)
  BY DEF GateInv, GateTypeOK, GateMemories, Slot
<1>2. CASE gateMem[q].from = Null
  BY <1>2 DEF Replayed
<1>3. CASE gateMem[q].from \in Requests
  BY <1>1, <1>3 DEF Replayed
<1> QED BY <1>1, <1>2, <1>3

(* So does an answer on record.                                            *)
LEMMA StoredKept ==
  ASSUME GateInv, NEW s \in Slots, record'[s] = record[s],
         \A p \in Requests : Left(p) => Left(p)' /\ gateMem'[p] = gateMem[p] /\ Slot(p)' = Slot(p),
         \A p \in Requests : Did(p) => Did(p)'
  PROVE  StoredBy(s)'
<1>1. StoredBy(s)
  BY DEF GateInv
<1> QED BY <1>1 DEF StoredBy

-----------------------------------------------------------------------------
(* The steps.                                                              *)

(* A step that neither claims nor leaves a key: the limiter, the lookups   *)
(* and the second pass (app/api/limits.ts, lib/idempotency.ts).            *)
LEMMA QuietKept ==
  ASSUME GateInv, NEW r \in Requests, NEW l \in GateLabels, NEW m \in GateMemories,
         ~Holding(r), ~Left(r), Moves(r, l, m),
         UNCHANGED <<now, record, nextRecord, effects, gate>>,
         ~Holding(r)', Carries(r)', Replayed(r)'
  PROVE  GateInv'
<1>0. GateTypeOK /\ RecordsKnown /\ OneHolder /\ EffectsGuarded /\ EffectsApart
  BY DEF GateInv
<1>1. /\ gatePc' \in [Requests -> GateLabels] /\ gateMem' \in [Requests -> GateMemories]
      /\ \A q \in Requests : q # r => gatePc'[q] = gatePc[q] /\ gateMem'[q] = gateMem[q]
  BY <1>0, Moved
<1>2. \A q \in Requests : q # r => (Holding(q)' <=> Holding(q)) /\ Slot(q)' = Slot(q)
  BY <1>1 DEF Holding, Slot
<1>3. \A q \in Requests : Left(q) => Left(q)' /\ gateMem'[q] = gateMem[q] /\ Slot(q)' = Slot(q)
  BY <1>1 DEF Left, Slot
<1>4. \A p \in Requests : Did(p) => Did(p)'
  BY DEF Did
<1>5. GateTypeOK'
  BY <1>0, <1>1 DEF GateTypeOK
<1>6. RecordsKnown' /\ EffectsApart'
  BY <1>0 DEF RecordsKnown, EffectsApart
<1>7. OneHolder'
  BY <1>0, <1>2 DEF OneHolder
<1>8. \A q \in Requests : q # r => Carries(q)' /\ Replayed(q)'
  BY <1>1, <1>3, <1>4, Aside, ReplayKept
<1>9. \A s \in Slots : StoredBy(s)'
  BY <1>3, <1>4, StoredKept
<1>10. \A s \in Slots : Attended(s)'
  <2> SUFFICES ASSUME NEW s \in Slots, gate.faults \subseteq {"throw", "late"},
                      record[s].id # 0, record[s].answer = Null
               PROVE  \E q \in Requests : Holding(q)' /\ Slot(q)' = s
    BY DEF Attended
  <2>1. PICK q \in Requests : Holding(q) /\ Slot(q) = s
    BY DEF GateInv, Attended
  <2> QED BY <1>2, <2>1
<1>11. EffectsGuarded'
  <2> SUFFICES ASSUME gate.faults \subseteq {"throw", "crash"},
                      NEW i \in DOMAIN effects, effects[i].key # Null
               PROVE  Guarded(effects[i])'
    BY DEF EffectsGuarded
  <2>1. Guarded(effects[i])
    BY <1>0 DEF EffectsGuarded
  <2>2. \A q \in Requests : Holding(q)' => Holding(q) /\ Slot(q)' = Slot(q) /\ gatePc'[q] = gatePc[q]
    BY <1>1, <1>2
  <2> QED BY <2>1, <2>2 DEF Guarded
<1> QED BY <1>5, <1>6, <1>7, <1>8, <1>9, <1>10, <1>11 DEF GateInv

(* The limiter, before anything else (app/api/limits.ts, beginWrite).      *)
LEMMA ArriveKept ==
  ASSUME GateInv, NEW r \in Requests, Arrive(r)
  PROVE  GateInv'
<1>0. /\ GateTypeOK /\ Carries(r) /\ gatePc[r] = "idle" /\ gateMem[r] \in GateMemories
      /\ UNCHANGED <<now, record, nextRecord, effects, gate>>
  BY DEF GateInv, Arrive, GateTypeOK
<1>1. ~Holding(r) /\ ~Left(r) /\ gateMem[r].from = Null
  BY <1>0 DEF Holding, Left, Carries
<1>2. PICK a \in gate.arrivals :
        \/ Moves(r, "done", [gateMem[r] EXCEPT !.answer = "limited"])
        \/ Moves(r, IF a.key = Null THEN "handle" ELSE "create", Arrived(a))
  BY DEF Arrive, GateGo, GateKeep, Moves
<1>3. CASE Moves(r, "done", [gateMem[r] EXCEPT !.answer = "limited"])
  <2> DEFINE m == [gateMem[r] EXCEPT !.answer = "limited"]
  <2>1. m \in GateMemories /\ m.from = Null /\ "done" \in GateLabels
    BY <1>0, <1>1 DEF GateMemories, Answers, GateLabels
  <2> HIDE DEF m
  <2>2. gatePc'[r] = "done" /\ gateMem'[r] = m
    BY <1>0, <1>3, <2>1, Moved DEF m
  <2>3. ~Holding(r)' /\ Carries(r)' /\ Replayed(r)'
    BY <2>1, <2>2 DEF Holding, Carries, Replayed, Busy
  <2> QED BY <1>0, <1>1, <1>3, <2>1, <2>3, QuietKept DEF m
<1>4. CASE Moves(r, IF a.key = Null THEN "handle" ELSE "create", Arrived(a))
  <2> DEFINE l == IF a.key = Null THEN "handle" ELSE "create"
             m == Arrived(a)
  <2>1. a.caller \in Callers /\ a.key \in Keys \union {Null} /\ a.body \in Bodies
    BY <1>0, GateAssumption DEF GateTypeOK, Bodies
  <2>2. /\ m \in GateMemories /\ m.from = Null /\ m.caller = a.caller /\ m.key = a.key /\ m.at = now
        /\ l \in {"handle", "create"} /\ l \in GateLabels
        /\ l = "handle" <=> m.key = Null
    BY <1>0, <2>1 DEF Arrived, GateMemories, GateTypeOK, GateLabels
  <2> HIDE DEF l, m
  <2>3. gatePc'[r] = l /\ gateMem'[r] = m
    BY <1>0, <1>4, <2>2, Moved DEF l, m
  <2>4. ~Holding(r)'
    BY <2>2, <2>3 DEF Holding
  <2>5. Carries(r)'
    BY <1>0, <2>1, <2>2, <2>3, <2>4 DEF Carries, Busy, GateTypeOK
  <2>6. Replayed(r)'
    BY <2>2, <2>3 DEF Replayed
  <2> QED BY <1>0, <1>1, <1>4, <2>2, <2>4, <2>5, <2>6, QuietKept DEF l, m
<1> QED BY <1>2, <1>3, <1>4

(* A request on its way to a key goes on looking, or gives up.             *)
LEMMA SeekKept ==
  ASSUME GateInv, NEW r \in Requests, gatePc[r] \in {"create", "look", "reclaim"},
         NEW l \in {"create", "look", "done"}, NEW m \in GateMemories, Moves(r, l, m),
         m.caller = gateMem[r].caller, m.key = gateMem[r].key, m.at = gateMem[r].at, m.from = Null,
         UNCHANGED <<now, record, nextRecord, effects, gate>>
  PROVE  GateInv'
<1>0. GateTypeOK /\ Carries(r) /\ l \in GateLabels
  BY DEF GateInv, GateLabels
<1>1. ~Holding(r) /\ ~Left(r) /\ Busy(r)
  BY DEF Holding, Left, Busy
<1>2. gatePc'[r] = l /\ gateMem'[r] = m
  BY <1>0, Moved
<1>3. ~Holding(r)'
  BY <1>2 DEF Holding
<1>4. Carries(r)'
  BY <1>0, <1>1, <1>2, <1>3 DEF Carries, Busy
<1>5. Replayed(r)'
  BY <1>2 DEF Replayed
<1> QED BY <1>0, <1>1, <1>3, <1>4, <1>5, QuietKept

(* The second pass, or the in-flight answer.                               *)
LEMMA AgainKept ==
  ASSUME GateInv, NEW r \in Requests, gatePc[r] \in {"look", "reclaim"}, Again(r),
         UNCHANGED <<now, record, nextRecord, effects, gate>>
  PROVE  GateInv'
<1>0. gateMem[r] \in GateMemories /\ gateMem[r].from = Null
  BY DEF GateInv, GateTypeOK, Carries
<1>1. PICK l \in {"create", "done"}, m \in {[gateMem[r] EXCEPT !.attempt = 2], [gateMem[r] EXCEPT !.answer = "inFlight"]} :
        Moves(r, l, m)
  BY DEF Again, GateGo, GateKeep, Moves
<1>2. /\ m \in GateMemories /\ m.caller = gateMem[r].caller /\ m.key = gateMem[r].key
      /\ m.at = gateMem[r].at /\ m.from = Null
  BY <1>0 DEF GateMemories, Answers
<1> QED BY <1>1, <1>2, SeekKept

(* What a record that another request holds, or left, tells a request      *)
(* (lib/idempotency.ts, beginIdempotent).                                  *)
LEMMA LookKept ==
  ASSUME GateInv, NEW r \in Requests, Look(r)
  PROVE  GateInv'
<1> DEFINE s == Slot(r)
<1>0. /\ GateTypeOK /\ Carries(r) /\ gatePc[r] = "look" /\ Busy(r)
      /\ gateMem[r].key # Null /\ gateMem[r].from = Null /\ gateMem[r] \in GateMemories
      /\ UNCHANGED <<now, record, nextRecord, effects, gate>>
  BY DEF GateInv, Look, Busy, GateTypeOK, Carries
<1>1. s \in Slots /\ record[s] \in RecordRows
  BY <1>0, HasSlot DEF GateTypeOK
<1>2. ~Holding(r) /\ ~Left(r)
  BY <1>0 DEF Holding, Left
<1> DEFINE found == record[s]
<1>7. gateMem[r] \in GateMemories /\ gateMem[r].from = Null
  BY <1>0
<1>3. CASE Again(r)
  BY <1>0, <1>3, AgainKept
<1>4. CASE found # NoRecord /\ Expired(found) /\ Moves(r, "reclaim", Claiming(gateMem[r], found.id, found.at))
  <2> DEFINE m == Claiming(gateMem[r], found.id, found.at)
  <2>1. found.id \in Nat /\ found.at \in Nat /\ found.id # 0 /\ found.at <= now /\ found.at + Ttl <= now
    BY <1>0, <1>1, <1>4, GateAssumption DEF RecordRows, GateInv, RecordsKnown, Expired, GateTypeOK
  <2>2. /\ m \in GateMemories /\ m.id = found.id /\ m.at = found.at /\ m.caller = gateMem[r].caller
        /\ m.key = gateMem[r].key /\ m.from = Null
    <3>1. PICK id \in Nat, at \in Nat : id = found.id /\ at = found.at
      BY <2>1
    <3>2. m = Claiming(gateMem[r], id, at)
      BY <3>1
    <3> HIDE DEF m
    <3>3. PICK mem \in GateMemories : mem = gateMem[r]
      BY <1>7
    <3>4. /\ Claiming(mem, id, at) \in GateMemories
          /\ Claiming(mem, id, at).id = id /\ Claiming(mem, id, at).at = at
          /\ Claiming(mem, id, at).caller = mem.caller /\ Claiming(mem, id, at).key = mem.key
          /\ Claiming(mem, id, at).from = mem.from
      BY ClaimingIs
    <3>5. m = Claiming(mem, id, at)
      BY <3>2, <3>3
    <3> QED BY <1>7, <3>1, <3>3, <3>4, <3>5
  <2> HIDE DEF m
  <2>3. gatePc'[r] = "reclaim" /\ gateMem'[r] = m /\ "reclaim" \in GateLabels
    BY <1>0, <1>4, <2>2, Moved DEF m, GateLabels
  <2>4. ~Holding(r)'
    BY <2>3 DEF Holding
  <2>5. Carries(r)'
    BY <1>0, <2>1, <2>2, <2>3, <2>4 DEF Carries, Busy
  <2>6. Replayed(r)'
    BY <2>2, <2>3 DEF Replayed
  <2> QED BY <1>0, <1>2, <1>4, <2>2, <2>3, <2>4, <2>5, <2>6, QuietKept DEF m
<1>5. CASE Moves(r, "done", Told(gateMem[r], found))
  <2> DEFINE m == Told(gateMem[r], found)
             told == [gateMem[r] EXCEPT !.answer = found.answer]
  <2>1. \/ m \in {[gateMem[r] EXCEPT !.answer = "mismatch"], [gateMem[r] EXCEPT !.answer = "inFlight"]}
        \/ /\ found.body = gateMem[r].body /\ found.answer # Null
           /\ m = [told EXCEPT !.from = found.by]
    BY DEF Told, Matches
  <2>2. told \in GateMemories /\ told.answer = found.answer
        /\ told.caller = gateMem[r].caller /\ told.key = gateMem[r].key /\ told.body = gateMem[r].body
    BY <1>0, <1>1 DEF RecordRows, GateMemories
  <2> HIDE DEF told
  <2>3. /\ m \in GateMemories /\ m.caller = gateMem[r].caller /\ m.key = gateMem[r].key
        /\ m.body = gateMem[r].body
        /\ m.from # Null => /\ m.from = found.by /\ m.answer = found.answer
                            /\ found.body = gateMem[r].body /\ found.answer # Null
    <3>1. CASE m \in {[gateMem[r] EXCEPT !.answer = "mismatch"], [gateMem[r] EXCEPT !.answer = "inFlight"]}
      BY <1>0, <3>1 DEF GateMemories, Answers
    <3>2. CASE /\ found.body = gateMem[r].body /\ found.answer # Null
               /\ m = [told EXCEPT !.from = found.by]
      BY <1>1, <2>2, <3>2 DEF GateMemories, RecordRows
    <3> QED BY <2>1, <3>1, <3>2
  <2> HIDE DEF m
  <2>4. /\ gatePc'[r] = "done" /\ gateMem'[r] = m /\ "done" \in GateLabels
        /\ \A q \in Requests : q # r => gatePc'[q] = gatePc[q] /\ gateMem'[q] = gateMem[q]
    BY <1>0, <1>5, <2>3, Moved DEF m, GateLabels
  <2>5. ~Holding(r)' /\ Carries(r)'
    BY <2>4 DEF Holding, Carries, Busy
  <2>6. Replayed(r)'
    <3> SUFFICES ASSUME m.from # Null PROVE Replayed(r)'
      BY <2>4 DEF Replayed
    <3>0. PICK by : by = found.by
      OBVIOUS
    <3>1. /\ by \in Requests /\ Left(by) /\ Slot(by) = s
          /\ gateMem[by].body = found.body /\ gateMem[by].answer = found.answer
          /\ found.answer = "ok" => Did(by)
      BY <1>1, <2>3, <3>0 DEF GateInv, StoredBy
    <3>2. by # r /\ m.from = by
      BY <1>2, <2>3, <3>0, <3>1
    <3>3. gatePc'[by] = gatePc[by] /\ gateMem'[by] = gateMem[by] /\ Slot(by)' = Slot(by) /\ Slot(r)' = Slot(r)
      BY <2>3, <2>4, <3>1, <3>2 DEF Slot
    <3>4. Left(by)' /\ (Did(by) => Did(by)')
      BY <1>0, <3>1, <3>3 DEF Left, Did
    <3> QED BY <2>3, <2>4, <3>1, <3>2, <3>3, <3>4 DEF Replayed
  <2> QED BY <1>0, <1>2, <1>5, <2>3, <2>4, <2>5, <2>6, QuietKept DEF m
<1>6. \/ Again(r)
      \/ found # NoRecord /\ Expired(found) /\ Moves(r, "reclaim", Claiming(gateMem[r], found.id, found.at))
      \/ Moves(r, "done", Told(gateMem[r], found))
  BY DEF Look, GateGo, GateKeep, Moves
<1> QED BY <1>3, <1>4, <1>5, <1>6

(* A key is claimed only when nobody holds it: the row is new, or the one  *)
(* read has expired and is the same still (lib/idempotency.ts).            *)
LEMMA ClaimKept ==
  ASSUME GateInv, NEW r \in Requests, gatePc[r] \in {"create", "reclaim"},
         NEW id \in Nat \ {0}, NEW m \in GateMemories, Moves(r, "handle", m),
         record' = [record EXCEPT ![Slot(r)] = Claim(r, id)],
         m.id = id, m.at = now, m.caller = gateMem[r].caller, m.key = gateMem[r].key,
         m.body = gateMem[r].body, m.from = Null,
         nextRecord' \in Nat, nextRecord <= nextRecord', id < nextRecord',
         \A t \in Slots : t # Slot(r) => record[t].id # id,
         record[Slot(r)].id = 0 \/ record[Slot(r)].at + Ttl <= now,
         UNCHANGED <<now, effects, gate>>
  PROVE  GateInv'
<1>0. /\ GateTypeOK /\ RecordsKnown /\ OneHolder /\ EffectsGuarded /\ EffectsApart
      /\ Carries(r) /\ Busy(r) /\ gateMem[r].key # Null /\ gateMem[r].caller \in Callers
      /\ now \in Nat /\ Ttl \in Nat \ {0}
  BY GateAssumption DEF GateInv, Busy, Carries, GateTypeOK
<1>1. PICK s \in Slots : s = Slot(r)
  BY <1>0, HasSlot
<1>2. /\ gatePc' \in [Requests -> GateLabels] /\ gateMem' \in [Requests -> GateMemories]
      /\ gatePc'[r] = "handle" /\ gateMem'[r] = m
      /\ \A q \in Requests : q # r => gatePc'[q] = gatePc[q] /\ gateMem'[q] = gateMem[q]
  BY <1>0, Moved DEF GateLabels
<1>3. /\ \A q \in Requests : q # r => (Holding(q)' <=> Holding(q)) /\ Slot(q)' = Slot(q)
      /\ Holding(r)' /\ ~Holding(r) /\ Slot(r)' = s
  BY <1>0, <1>1, <1>2 DEF Holding, Slot
<1>4. \A q \in Requests : Left(q) => Left(q)' /\ gateMem'[q] = gateMem[q] /\ Slot(q)' = Slot(q)
  BY <1>2 DEF Left, Slot
<1>5. \A p \in Requests : Did(p) <=> Did(p)'
  BY DEF Did
<1>6. /\ record'[s] = Claim(r, id)
      /\ \A t \in Slots : t # s => record'[t] = record[t]
      /\ Claim(r, id) \in RecordRows
      /\ record'[s].id = id /\ record'[s].at = now /\ record'[s].answer = Null
      /\ record'[s].body = gateMem[r].body
  BY <1>0, <1>1 DEF GateTypeOK, Claim, RecordRows, GateMemories
<1>7. \A q \in Requests : Holding(q) => Slot(q) # s
  <2> SUFFICES ASSUME NEW q \in Requests, Holding(q), Slot(q) = s PROVE FALSE
    OBVIOUS
  <2>1. /\ record[s].id # 0 /\ record[s].at = gateMem[q].at /\ now < gateMem[q].at + Ttl
    BY DEF GateInv, Carries
  <2>2. record[s].at \in Nat
    BY <1>0 DEF GateTypeOK, RecordRows
  <2> QED BY <1>0, <1>1, <2>1, <2>2
<1>8. GateTypeOK'
  <2>1. record' \in [Slots -> RecordRows]
    BY <1>0, <1>1, <1>6 DEF GateTypeOK
  <2>2. nextRecord' \in Nat \ {0}
    OBVIOUS
  <2> QED BY <1>0, <1>2, <2>1, <2>2 DEF GateTypeOK
<1>9. RecordsKnown'
  <2>1. ASSUME NEW t \in Slots
        PROVE  /\ record'[t].id = 0 => record'[t] = NoRecord
               /\ record'[t].id < nextRecord'
               /\ record'[t].at <= now
    <3>1. record[t].id \in Nat /\ nextRecord \in Nat /\ record[t].id < nextRecord
      BY <1>0 DEF GateTypeOK, RecordRows, RecordsKnown
    <3> QED BY <1>0, <1>6, <3>1 DEF RecordsKnown
  <2>2. \A t, u \in Slots : record'[t].id = record'[u].id /\ record'[t].id # 0 => t = u
    BY <1>0, <1>1, <1>6 DEF RecordsKnown
  <2> QED BY <2>1, <2>2 DEF RecordsKnown
<1>10. OneHolder'
  BY <1>0, <1>3, <1>7 DEF OneHolder
<1>11. Carries(r)'
  <2>1. gateMem'[r].at = now /\ now < now + Ttl
    BY <1>0, <1>2
  <2> QED BY <1>0, <1>2, <1>3, <1>6, <2>1 DEF Carries, Busy
<1>12. Replayed(r)'
  BY <1>2 DEF Replayed
<1>13. ASSUME NEW q \in Requests, q # r PROVE Carries(q)' /\ Replayed(q)'
  <2>1. Holding(q) => record'[Slot(q)] = record[Slot(q)]
    <3>1. Holding(q) => Slot(q) \in Slots
      BY HasSlot DEF Holding, Busy
    <3> QED BY <1>6, <1>7, <3>1
  <2> QED BY <1>2, <1>4, <1>5, <1>13, <2>1, Aside, ReplayKept
<1>14. ASSUME NEW t \in Slots PROVE StoredBy(t)' /\ Attended(t)'
  <2>1. CASE t = s
    BY <1>3, <1>6, <2>1 DEF StoredBy, Attended
  <2>2. CASE t # s
    <3>1. record'[t] = record[t]
      BY <1>6, <2>2
    <3>2. StoredBy(t)'
      BY <1>4, <1>5, <3>1, StoredKept
    <3>3. ASSUME gate.faults \subseteq {"throw", "late"}, record[t].id # 0, record[t].answer = Null
          PROVE  \E q \in Requests : Holding(q)' /\ Slot(q)' = t
      <4>1. PICK q \in Requests : Holding(q) /\ Slot(q) = t
        BY <3>3 DEF GateInv, Attended
      <4> QED BY <1>3, <4>1
    <3> QED BY <3>1, <3>2, <3>3 DEF Attended
  <2> QED BY <2>1, <2>2
<1>15. EffectsGuarded'
  <2> SUFFICES ASSUME gate.faults \subseteq {"throw", "crash"},
                      NEW i \in DOMAIN effects, effects[i].key # Null
               PROVE  Guarded(effects[i])'
    BY DEF EffectsGuarded
  <2> DEFINE e == effects[i]
  <2>0. e \in Effects
    BY <1>0 DEF GateTypeOK
  <2>1. PICK t \in Slots : t = <<e.caller, e.key>>
    BY <2>0 DEF Effects, Slots
  <2>2. e.claimed \in Nat /\ effects' = effects /\ Guarded(e)
    BY <1>0, <2>0 DEF Effects, EffectsGuarded
  <2>3. CASE t = s
    <3>1. now >= e.claimed + Ttl
      <4>1. record[s].at \in Nat
        BY <1>0 DEF GateTypeOK, RecordRows
      <4> QED BY <1>0, <1>1, <2>1, <2>2, <2>3, <4>1 DEF Guarded
    <3> HIDE DEF e
    <3>2. record'[t].at >= e.claimed + Ttl /\ now' = now
      BY <1>6, <2>3, <3>1
    <3> QED BY <2>1, <2>2, <3>1, <3>2 DEF Guarded, e
  <2>4. CASE t # s
    <3>1. record'[t] = record[t] /\ now' = now
      BY <1>6, <2>4
    <3>2. \A q \in Requests : Holding(q)' /\ Slot(q)' = t
                               => Holding(q) /\ Slot(q) = t /\ gatePc'[q] = gatePc[q]
      BY <1>2, <1>3, <2>4
    <3> QED BY <2>1, <2>2, <3>1, <3>2 DEF Guarded
  <2> QED BY <2>3, <2>4
<1>16. EffectsApart'
  BY <1>0 DEF EffectsApart
<1> QED BY <1>8, <1>9, <1>10, <1>11, <1>12, <1>13, <1>14, <1>15, <1>16 DEF GateInv

(* The unique (caller, key) lets one create through (lib/idempotency.ts).  *)
LEMMA CreateRecordKept ==
  ASSUME GateInv, NEW r \in Requests, CreateRecord(r)
  PROVE  GateInv'
<1>0. /\ GateTypeOK /\ RecordsKnown /\ gatePc[r] = "create" /\ Busy(r)
      /\ UNCHANGED <<now, effects, gate>>
  BY DEF GateInv, CreateRecord, Busy
<1>1. gateMem[r] \in GateMemories /\ gateMem[r].from = Null /\ gateMem[r].key # Null
  BY <1>0 DEF GateInv, GateTypeOK, Carries
<1>2. CASE /\ record[Slot(r)] = NoRecord
           /\ record' = [record EXCEPT ![Slot(r)] = Claim(r, nextRecord)]
           /\ nextRecord' = nextRecord + 1
           /\ Moves(r, "handle", Claiming(gateMem[r], nextRecord, now))
  <2> DEFINE m == Claiming(gateMem[r], nextRecord, now)
  <2>1. nextRecord \in Nat \ {0} /\ now \in Nat
    BY <1>0 DEF GateTypeOK
  <2>2. /\ m \in GateMemories /\ m.id = nextRecord /\ m.at = now /\ m.caller = gateMem[r].caller
        /\ m.key = gateMem[r].key /\ m.body = gateMem[r].body /\ m.from = Null
    <3>1. PICK mem \in GateMemories : mem = gateMem[r]
      BY <1>1
    <3>2. PICK id \in Nat, at \in Nat : id = nextRecord /\ at = now
      BY <2>1
    <3>3. m = Claiming(mem, id, at)
      BY <3>1, <3>2
    <3> HIDE DEF m
    <3>4. /\ Claiming(mem, id, at) \in GateMemories
          /\ Claiming(mem, id, at).id = id /\ Claiming(mem, id, at).at = at
          /\ Claiming(mem, id, at).caller = mem.caller /\ Claiming(mem, id, at).key = mem.key
          /\ Claiming(mem, id, at).body = mem.body /\ Claiming(mem, id, at).from = mem.from
      BY ClaimingIs
    <3> QED BY <1>1, <3>1, <3>2, <3>3, <3>4
  <2>3. \A t \in Slots : record[t].id # nextRecord
    BY <1>0, <2>1 DEF RecordsKnown, GateTypeOK, RecordRows
  <2>4. record[Slot(r)].id = 0
    BY <1>2 DEF NoRecord
  <2> HIDE DEF m
  <2>5. Moves(r, "handle", m)
    BY <1>2 DEF m
  <2>6. nextRecord' \in Nat /\ nextRecord <= nextRecord' /\ nextRecord < nextRecord'
    BY <1>2, <2>1
  <2> QED BY <1>0, <1>2, <2>1, <2>2, <2>3, <2>4, <2>5, <2>6, ClaimKept
<1>3. CASE /\ GateGo(r, "look") /\ UNCHANGED <<record, nextRecord, gateMem>>
  <2>1. Moves(r, "look", gateMem[r])
    BY <1>0, <1>3 DEF GateGo, Moves, GateTypeOK
  <2> QED BY <1>0, <1>1, <1>3, <2>1, SeekKept
<1> QED BY <1>2, <1>3 DEF CreateRecord, GateGo, GateKeep, Moves

(* The row keeps its id and starts over (lib/idempotency.ts).              *)
LEMMA ReclaimKept ==
  ASSUME GateInv, NEW r \in Requests, Reclaim(r)
  PROVE  GateInv'
<1>0. /\ GateTypeOK /\ RecordsKnown /\ gatePc[r] = "reclaim" /\ Busy(r) /\ Carries(r)
      /\ UNCHANGED <<now, nextRecord, effects, gate>>
  BY DEF GateInv, Reclaim, Busy
<1>1. /\ gateMem[r] \in GateMemories /\ gateMem[r].from = Null /\ gateMem[r].key # Null
      /\ gateMem[r].id \in Nat \ {0} /\ gateMem[r].at + Ttl <= now /\ now \in Nat /\ nextRecord \in Nat
  BY <1>0 DEF GateTypeOK, GateMemories, Carries
<1>2. CASE /\ SameRecord(r)
           /\ record' = [record EXCEPT ![Slot(r)] = Claim(r, gateMem[r].id)]
           /\ Moves(r, "handle", [gateMem[r] EXCEPT !.at = now])
  <2> DEFINE m == [gateMem[r] EXCEPT !.at = now]
  <2>1. /\ m \in GateMemories /\ m.id = gateMem[r].id /\ m.at = now /\ m.caller = gateMem[r].caller
        /\ m.key = gateMem[r].key /\ m.body = gateMem[r].body /\ m.from = Null
    BY <1>1 DEF GateMemories
  <2> HIDE DEF m
  <2>2. record[Slot(r)].id = gateMem[r].id /\ record[Slot(r)].at = gateMem[r].at
    BY <1>2 DEF SameRecord
  <2>3. Slot(r) \in Slots
    BY <1>0, <1>1, HasSlot
  <2>4. /\ gateMem[r].id < nextRecord
        /\ \A t \in Slots : t # Slot(r) => record[t].id # gateMem[r].id
    BY <1>0, <1>1, <2>2, <2>3 DEF RecordsKnown
  <2>5. Moves(r, "handle", m)
    BY <1>2 DEF m
  <2>6. nextRecord' \in Nat /\ nextRecord <= nextRecord' /\ gateMem[r].id < nextRecord'
    BY <1>0, <1>1, <2>4
  <2> QED BY <1>0, <1>1, <1>2, <2>1, <2>2, <2>4, <2>5, <2>6, ClaimKept
<1>3. CASE Again(r) /\ UNCHANGED record
  BY <1>0, <1>3, AgainKept
<1> QED BY <1>2, <1>3 DEF Reclaim, GateGo, GateKeep, Moves

(* The handler's own step: what it did, refused or threw decides how the   *)
(* key is left (app/api/idempotency.ts, withIdempotentWrite).              *)
LEMMA HandedKept ==
  ASSUME GateInv, NEW r \in Requests, gatePc[r] = "handle",
         NEW l \in {"done", "complete", "abandon"}, l = "done" <=> gateMem[r].key = Null,
         NEW m \in GateMemories, Moves(r, l, m),
         m.caller = gateMem[r].caller, m.key = gateMem[r].key, m.body = gateMem[r].body,
         m.id = gateMem[r].id, m.at = gateMem[r].at, m.from = Null,
         l = "complete" => m.answer # Null /\ (m.answer = "ok" => Did(r)'),
         \A p \in Requests : Did(p) => Did(p)',
         UNCHANGED <<now, record, nextRecord, gate>>,
         effects' \in Seq(Effects), EffectsGuarded', EffectsApart'
  PROVE  GateInv'
<1>0. /\ GateTypeOK /\ RecordsKnown /\ OneHolder /\ Carries(r) /\ Busy(r) /\ ~Left(r)
  BY DEF GateInv, Busy, Left
<1>1. /\ gatePc' \in [Requests -> GateLabels] /\ gateMem' \in [Requests -> GateMemories]
      /\ gatePc'[r] = l /\ gateMem'[r] = m
      /\ \A q \in Requests : q # r => gatePc'[q] = gatePc[q] /\ gateMem'[q] = gateMem[q]
  BY <1>0, Moved DEF GateLabels
<1>2. \A q \in Requests : (Holding(q)' <=> Holding(q)) /\ Slot(q)' = Slot(q)
  BY <1>1 DEF Holding, Slot
<1>3. \A q \in Requests : Left(q) => Left(q)' /\ gateMem'[q] = gateMem[q] /\ Slot(q)' = Slot(q)
  BY <1>0, <1>1, <1>2 DEF Left
<1>4. GateTypeOK'
  BY <1>0, <1>1 DEF GateTypeOK
<1>5. RecordsKnown' /\ OneHolder'
  BY <1>0, <1>2 DEF RecordsKnown, OneHolder
<1>6. Carries(r)' /\ Replayed(r)'
  <2>1. Carries(r)'
    BY <1>0, <1>1, <1>2 DEF Carries, Busy
  <2> QED BY <1>1, <2>1 DEF Replayed
<1>7. \A q \in Requests : q # r => Carries(q)' /\ Replayed(q)'
  BY <1>1, <1>3, Aside, ReplayKept
<1>8. \A t \in Slots : StoredBy(t)'
  BY <1>3, StoredKept
<1>9. ASSUME NEW t \in Slots PROVE Attended(t)'
  <2>1. Attended(t)
    BY DEF GateInv
  <2> QED BY <1>2, <2>1 DEF Attended
<1> QED BY <1>4, <1>5, <1>6, <1>7, <1>8, <1>9 DEF GateInv

(* With an effect.                                                         *)
LEMMA EffectKept ==
  ASSUME GateInv, NEW r \in Requests, gatePc[r] = "handle",
         NEW l \in {"done", "complete", "abandon"}, l = "done" <=> gateMem[r].key = Null,
         l = "abandon" => "late" \in gate.faults,
         Moves(r, l, [gateMem[r] EXCEPT !.answer = "ok"]),
         effects' = Append(effects, [caller |-> gateMem[r].caller, key |-> gateMem[r].key,
                                     body |-> gateMem[r].body, claimed |-> gateMem[r].at, of |-> r]),
         UNCHANGED <<now, record, nextRecord, gate>>
  PROVE  GateInv'
<1> DEFINE m == [gateMem[r] EXCEPT !.answer = "ok"]
           e == [caller |-> gateMem[r].caller, key |-> gateMem[r].key,
                 body |-> gateMem[r].body, claimed |-> gateMem[r].at, of |-> r]
           n == Len(effects)
<1>0. /\ GateTypeOK /\ OneHolder /\ EffectsGuarded /\ EffectsApart /\ Carries(r) /\ Busy(r)
      /\ gateMem[r] \in GateMemories /\ gateMem[r].from = Null /\ gateMem[r].caller \in Callers
  BY DEF GateInv, Busy, Carries, GateTypeOK
<1>1. /\ m \in GateMemories /\ m.caller = gateMem[r].caller /\ m.key = gateMem[r].key
      /\ m.body = gateMem[r].body /\ m.id = gateMem[r].id /\ m.at = gateMem[r].at /\ m.from = Null
      /\ m.answer = "ok"
  BY <1>0 DEF GateMemories, Answers
<1>2. /\ e \in Effects /\ e.caller = gateMem[r].caller /\ e.key = gateMem[r].key
      /\ e.claimed = gateMem[r].at /\ e.of = r
  BY <1>0 DEF Effects, GateMemories
<1>3. Moves(r, l, m) /\ effects' = Append(effects, e)
  OBVIOUS
<1> HIDE DEF m, e
<1>4. /\ effects' \in Seq(Effects) /\ n \in Nat /\ Len(effects') = n + 1
      /\ effects'[n + 1] = e /\ \A i \in 1 .. n : effects'[i] = effects[i]
      /\ DOMAIN effects = 1 .. n /\ DOMAIN effects' = 1 .. n + 1
      /\ \A i \in 1 .. n : effects[i] \in Effects
  BY <1>0, <1>2, <1>3 DEF GateTypeOK
<1> HIDE DEF n
<1>5. \A p \in Requests : Did(p) => Did(p)'
  BY <1>4 DEF Did
<1>6. Did(r)'
  <2>1. n + 1 \in DOMAIN effects' /\ effects'[n + 1].of = r
    BY <1>2, <1>4
  <2> QED BY <2>1 DEF Did
<1>7. /\ gatePc'[r] = l /\ gateMem'[r] = m
      /\ \A q \in Requests : q # r => gatePc'[q] = gatePc[q] /\ gateMem'[q] = gateMem[q]
  BY <1>0, <1>1, <1>3, Moved DEF GateLabels
<1>8. \A q \in Requests : (Holding(q)' <=> Holding(q)) /\ Slot(q)' = Slot(q)
  BY <1>1, <1>7 DEF Holding, Slot
<1>9. ASSUME gate.faults \subseteq {"throw", "crash"}, NEW i \in 1 .. n, effects[i].key # Null
      PROVE  /\ Guarded(effects[i])
             /\ effects[i].key = e.key /\ effects[i].caller = e.caller
                  => e.claimed >= effects[i].claimed + Ttl
  <2>1. Guarded(effects[i])
    BY <1>0, <1>4, <1>9 DEF EffectsGuarded
  <2>2. ASSUME effects[i].key = e.key, effects[i].caller = e.caller
        PROVE  e.claimed >= effects[i].claimed + Ttl
    <3>1. Holding(r) /\ Slot(r) = <<effects[i].caller, effects[i].key>>
      BY <1>2, <1>9, <2>2 DEF Holding, Slot
    <3>2. record[Slot(r)].id # 0 /\ record[Slot(r)].at = e.claimed
      BY <1>0, <1>2, <3>1 DEF Carries
    <3> QED BY <2>1, <3>1, <3>2 DEF Guarded
  <2> QED BY <2>1, <2>2
<1>10. EffectsGuarded'
  <2> SUFFICES ASSUME gate.faults \subseteq {"throw", "crash"},
                      NEW i \in 1 .. n + 1, effects'[i].key # Null
               PROVE  Guarded(effects[i])'
    BY <1>4 DEF EffectsGuarded
  <2>1. CASE i \in 1 .. n
    <3> DEFINE s == <<effects[i].caller, effects[i].key>>
    <3>1. Guarded(effects[i]) /\ effects'[i] = effects[i]
      BY <1>4, <1>9, <2>1
    <3>2. \A q \in Requests : Holding(q)' /\ Slot(q)' = s =>
            Holding(q) /\ Slot(q) = s /\ (q # r => gatePc'[q] = gatePc[q])
      BY <1>7, <1>8
    <3>3. PICK f : f = effects[i]
      OBVIOUS
    <3>4. Guarded(f)'
      BY <3>1, <3>2, <3>3 DEF Guarded
    <3>5. f = effects'[i]
      BY <3>1, <3>3
    <3> QED BY <3>4, <3>5 DEF Guarded
  <2>2. CASE i = n + 1
    <3>1. effects'[i] = e /\ e.key # Null
      BY <1>4, <2>2
    <3>2. Holding(r) /\ Slot(r) = <<e.caller, e.key>> /\ l = "complete"
      BY <1>2, <3>1 DEF Holding, Slot
    <3>3. record[Slot(r)].id # 0 /\ record[Slot(r)].at = e.claimed
      BY <1>0, <1>2, <3>2 DEF Carries
    <3>4. \A q \in Requests : Holding(q)' /\ Slot(q)' = Slot(r) => gatePc'[q] = "complete"
      BY <1>0, <1>7, <1>8, <3>2 DEF OneHolder
    <3>5. PICK f : f = e
      OBVIOUS
    <3>6. record'[<<f.caller, f.key>>].id # 0 /\ record'[<<f.caller, f.key>>].at = f.claimed
      BY <3>2, <3>3, <3>5
    <3>7. Guarded(f)'
      BY <3>2, <3>4, <3>5, <3>6 DEF Guarded
    <3>8. f = effects'[i]
      BY <3>1, <3>5
    <3> QED BY <3>7, <3>8 DEF Guarded
  <2> QED BY <2>1, <2>2, <1>4
<1>11. EffectsApart'
  <2> SUFFICES ASSUME gate.faults \subseteq {"throw", "crash"},
                      NEW i \in 1 .. n + 1, NEW j \in 1 .. n + 1, i < j,
                      effects'[i].key # Null, effects'[i].key = effects'[j].key,
                      effects'[i].caller = effects'[j].caller
               PROVE  effects'[j].claimed >= effects'[i].claimed + Ttl
    BY <1>4 DEF EffectsApart
  <2>1. i \in 1 .. n /\ effects'[i] = effects[i]
    BY <1>4
  <2>2. CASE j \in 1 .. n
    BY <1>0, <1>4, <2>1, <2>2 DEF EffectsApart
  <2>3. CASE j = n + 1
    BY <1>4, <1>9, <2>1, <2>3
  <2> QED BY <1>4, <2>2, <2>3
<1>12. Null # "ok"
  BY GateAssumption DEF Answers
<1> QED BY <1>0, <1>1, <1>3, <1>4, <1>5, <1>6, <1>10, <1>11, <1>12, HandedKept

(* Without one.                                                            *)
LEMMA NoEffectKept ==
  ASSUME GateInv, NEW r \in Requests, gatePc[r] = "handle",
         NEW l \in {"done", "complete", "abandon"}, l = "done" <=> gateMem[r].key = Null,
         NEW m \in {[gateMem[r] EXCEPT !.answer = "refused"], gateMem[r]},
         l = "complete" => m = [gateMem[r] EXCEPT !.answer = "refused"],
         Moves(r, l, m), UNCHANGED <<now, record, nextRecord, effects, gate>>
  PROVE  GateInv'
<1>0. /\ GateTypeOK /\ EffectsGuarded /\ EffectsApart /\ Carries(r)
      /\ gateMem[r] \in GateMemories /\ gateMem[r].from = Null
  BY DEF GateInv, Carries, GateTypeOK
<1>1. /\ m \in GateMemories /\ m.caller = gateMem[r].caller /\ m.key = gateMem[r].key
      /\ m.body = gateMem[r].body /\ m.id = gateMem[r].id /\ m.at = gateMem[r].at /\ m.from = Null
      /\ l = "complete" => m.answer = "refused"
  BY <1>0 DEF GateMemories, Answers
<1>2. Null # "refused"
  BY GateAssumption DEF Answers
<1>3. \A p \in Requests : Did(p) => Did(p)'
  BY DEF Did
<1>4. /\ gatePc'[r] = l /\ gateMem'[r] = m
      /\ \A q \in Requests : q # r => gatePc'[q] = gatePc[q] /\ gateMem'[q] = gateMem[q]
  BY <1>0, <1>1, Moved DEF GateLabels
<1>5. \A q \in Requests : (Holding(q)' <=> Holding(q)) /\ Slot(q)' = Slot(q)
  BY <1>1, <1>4 DEF Holding, Slot
<1>6. EffectsGuarded'
  <2> SUFFICES ASSUME gate.faults \subseteq {"throw", "crash"},
                      NEW i \in DOMAIN effects, effects[i].key # Null
               PROVE  Guarded(effects[i])'
    BY DEF EffectsGuarded
  <2>1. Guarded(effects[i])
    BY <1>0 DEF EffectsGuarded
  <2>2. \A q \in Requests : Holding(q)' => Holding(q) /\ Slot(q)' = Slot(q)
                                           /\ (q # r => gatePc'[q] = gatePc[q])
    BY <1>4, <1>5
  <2> QED BY <2>1, <2>2 DEF Guarded
<1>7. EffectsApart' /\ effects' \in Seq(Effects)
  BY <1>0 DEF EffectsApart, GateTypeOK
<1> QED BY <1>0, <1>1, <1>2, <1>3, <1>6, <1>7, HandedKept

(* The handler of a write (app/api/idempotency.ts).                        *)
LEMMA HandleKept ==
  ASSUME GateInv, NEW r \in Requests, Handle(r)
  PROVE  GateInv'
<1>0. gatePc[r] = "handle" /\ UNCHANGED <<now, record, nextRecord, gate>>
  BY DEF Handle
<1>1. CASE \E l \in {"done", "complete", "abandon"} :
             /\ l = "done" <=> gateMem[r].key = Null
             /\ l = "abandon" => "late" \in gate.faults
             /\ Moves(r, l, [gateMem[r] EXCEPT !.answer = "ok"])
             /\ effects' = Append(effects, [caller |-> gateMem[r].caller, key |-> gateMem[r].key,
                                    body |-> gateMem[r].body, claimed |-> gateMem[r].at, of |-> r])
  BY <1>0, <1>1, EffectKept
<1>2. CASE \E l \in {"done", "complete", "abandon"} :
             /\ l = "done" <=> gateMem[r].key = Null
             /\ effects' = effects
             /\ \/ Moves(r, l, [gateMem[r] EXCEPT !.answer = "refused"])
                \/ l # "complete" /\ Moves(r, l, gateMem[r])
  BY <1>0, <1>2, NoEffectKept
<1>3. gateMem' = gateMem => gateMem' = [gateMem EXCEPT ![r] = gateMem[r]]
  BY DEF GateInv, GateTypeOK
<1> QED BY <1>1, <1>2, <1>3 DEF Handle, GateGo, GateKeep, Moves

(* Whoever holds a key leaves it: the record is stamped, gone, or left as  *)
(* it was by a database that failed.                                       *)
LEMMA LeaveKept ==
  ASSUME GateInv, NEW r \in Requests, Holding(r), gatePc[r] \in {"complete", "abandon"},
         NEW l \in {"done", "abandon"}, Moves(r, l, gateMem[r]),
         record' \in [Slots -> RecordRows],
         \A t \in Slots : t # Slot(r) => record'[t] = record[t],
         \/ record'[Slot(r)] = NoRecord /\ l = "done"
         \/ /\ record'[Slot(r)].id = record[Slot(r)].id /\ record'[Slot(r)].at = record[Slot(r)].at
            /\ record'[Slot(r)].body = record[Slot(r)].body,
         StoredBy(Slot(r))',
         gate.faults \subseteq {"throw", "late"} =>
           record'[Slot(r)].id = 0 \/ record'[Slot(r)].answer # Null,
         gate.faults \subseteq {"throw", "crash"} =>
           l = "done" /\ (record'[Slot(r)] = NoRecord => gatePc[r] = "abandon"),
         UNCHANGED <<now, nextRecord, effects, gate>>
  PROVE  GateInv'
<1>0. /\ GateTypeOK /\ RecordsKnown /\ OneHolder /\ EffectsGuarded /\ EffectsApart
      /\ Carries(r) /\ Busy(r) /\ gateMem[r] \in GateMemories
  BY DEF GateInv, Busy, GateTypeOK
<1>1. PICK s \in Slots : s = Slot(r)
  BY <1>0, HasSlot DEF Holding
<1>2. /\ gatePc' \in [Requests -> GateLabels] /\ gateMem' \in [Requests -> GateMemories]
      /\ gatePc'[r] = l /\ gateMem'[r] = gateMem[r]
      /\ \A q \in Requests : q # r => gatePc'[q] = gatePc[q] /\ gateMem'[q] = gateMem[q]
  BY <1>0, Moved DEF GateLabels
<1>3. /\ \A q \in Requests : Slot(q)' = Slot(q)
      /\ \A q \in Requests : q # r => (Holding(q)' <=> Holding(q))
      /\ Holding(r)' <=> l = "abandon"
  BY <1>2 DEF Holding, Slot
<1>4. \A q \in Requests : Left(q) => Left(q)' /\ gateMem'[q] = gateMem[q] /\ Slot(q)' = Slot(q)
  BY <1>2, <1>3 DEF Left
<1>5. \A p \in Requests : Did(p) <=> Did(p)'
  BY DEF Did
<1>6. /\ record[s].id # 0 /\ record[s].id < nextRecord /\ record[s].at <= now
      /\ record[s].id \in Nat /\ record[s].at \in Nat /\ now \in Nat /\ nextRecord \in Nat \ {0}
  BY <1>0, <1>1 DEF Carries, RecordsKnown, GateTypeOK, RecordRows
<1>7. \/ record'[s] = NoRecord /\ record'[s].id = 0 /\ record'[s].at = 0 /\ l = "done"
      \/ record'[s].id = record[s].id /\ record'[s].at = record[s].at /\ record'[s].body = record[s].body
  BY <1>1 DEF NoRecord
<1>8. GateTypeOK'
  BY <1>0, <1>2 DEF GateTypeOK
<1>9. RecordsKnown'
  <2>1. ASSUME NEW t \in Slots
        PROVE  /\ record'[t].id = 0 => record'[t] = NoRecord
               /\ record'[t].id < nextRecord
               /\ record'[t].at <= now
    <3>1. CASE t = s
      BY <1>6, <1>7, <3>1
    <3>2. CASE t # s
      BY <1>0, <1>1, <3>2 DEF RecordsKnown
    <3> QED BY <3>1, <3>2
  <2>2. \A t \in Slots : record'[t].id # 0 => record'[t].id = record[t].id
    BY <1>1, <1>7
  <2>3. \A t, u \in Slots : record'[t].id = record'[u].id /\ record'[t].id # 0 => t = u
    BY <1>0, <2>2 DEF RecordsKnown
  <2> QED BY <2>1, <2>3 DEF RecordsKnown
<1>10. OneHolder'
  <2>1. \A q \in Requests : Holding(q)' => Holding(q)
    BY <1>3
  <2> QED BY <1>0, <1>3, <2>1 DEF OneHolder
<1>11. Carries(r)'
  <2>1. CASE l = "done"
    BY <1>2, <1>3, <2>1 DEF Carries, Busy
  <2>2. CASE l = "abandon"
    BY <1>0, <1>1, <1>2, <1>3, <1>7, <2>2 DEF Carries, Busy
  <2> QED BY <2>1, <2>2
<1>12. Replayed(r)'
  BY <1>2, <1>4, <1>5, ReplayKept
<1>13. ASSUME NEW q \in Requests, q # r PROVE Carries(q)' /\ Replayed(q)'
  <2>1. Holding(q) => record'[Slot(q)] = record[Slot(q)]
    <3>1. Holding(q) => Slot(q) \in Slots
      BY HasSlot DEF Holding, Busy
    <3>2. Holding(q) => Slot(q) # Slot(r)
      BY <1>0, <1>13 DEF OneHolder
    <3> QED BY <3>1, <3>2
  <2> QED BY <1>2, <1>4, <1>5, <1>13, <2>1, Aside, ReplayKept
<1>14. ASSUME NEW t \in Slots PROVE StoredBy(t)' /\ Attended(t)'
  <2>1. CASE t = s
    <3>1. StoredBy(t)'
      BY <1>1, <1>3, <2>1 DEF StoredBy
    <3>2. Attended(t)'
      BY <1>1, <2>1 DEF Attended
    <3> QED BY <3>1, <3>2
  <2>2. CASE t # s
    <3>1. record'[t] = record[t]
      BY <1>1, <2>2
    <3>2. StoredBy(t)'
      BY <1>4, <1>5, <3>1, StoredKept
    <3>3. ASSUME gate.faults \subseteq {"throw", "late"}, record[t].id # 0, record[t].answer = Null
          PROVE  \E q \in Requests : Holding(q)' /\ Slot(q)' = t
      <4>1. PICK q \in Requests : Holding(q) /\ Slot(q) = t
        BY <3>3 DEF GateInv, Attended
      <4> QED BY <1>1, <1>3, <2>2, <4>1
    <3> QED BY <3>1, <3>2, <3>3 DEF Attended
  <2> QED BY <2>1, <2>2
<1>15. EffectsGuarded'
  <2> SUFFICES ASSUME gate.faults \subseteq {"throw", "crash"},
                      NEW i \in DOMAIN effects, effects[i].key # Null
               PROVE  Guarded(effects[i])'
    BY DEF EffectsGuarded
  <2>1. PICK e \in Effects : e = effects[i]
    BY <1>0 DEF GateTypeOK
  <2>2. PICK t \in Slots : t = <<e.caller, e.key>>
    BY <2>1 DEF Effects, Slots
  <2>3. Guarded(e) /\ effects' = effects
    BY <1>0, <2>1 DEF EffectsGuarded
  <2>4. \A q \in Requests : Holding(q)' => Holding(q) /\ Slot(q)' = Slot(q) /\ q # r
    BY <1>3
  <2>5. \A q \in Requests : Holding(q)' /\ Slot(q)' = t => Holding(q) /\ Slot(q) = t /\ gatePc'[q] = gatePc[q]
    BY <1>2, <2>4
  <2>6. Guarded(e)'
    <3>1. CASE t # s
      <4>1. record'[t] = record[t]
        BY <1>1, <3>1
      <4> QED BY <2>2, <2>3, <2>5, <4>1 DEF Guarded
    <3>2. CASE t = s /\ gatePc[r] = "complete"
      <4>1. record'[t].id = record[t].id /\ record'[t].at = record[t].at
        BY <1>1, <1>7, <3>2
      <4> QED BY <2>2, <2>3, <2>5, <4>1 DEF Guarded
    <3>3. CASE t = s /\ gatePc[r] = "abandon"
      <4>1. now >= e.claimed + Ttl /\ (record[t].id # 0 => record[t].at >= e.claimed + Ttl)
        BY <1>1, <2>2, <2>3, <3>3 DEF Guarded
      <4>2. record'[t].id # 0 => record'[t].at >= e.claimed + Ttl
        BY <1>6, <1>7, <3>3, <4>1
      <4> QED BY <2>2, <4>1, <4>2 DEF Guarded
    <3> QED BY <3>1, <3>2, <3>3
  <2> QED BY <2>1, <2>3, <2>6 DEF Guarded
<1>16. EffectsApart'
  BY <1>0 DEF EffectsApart
<1> QED BY <1>8, <1>9, <1>10, <1>11, <1>12, <1>13, <1>14, <1>15, <1>16 DEF GateInv

(* The holder's id is its own record's and no other's.                     *)
LEMMA OwnsItsRecord ==
  ASSUME GateInv, NEW r \in Requests, Holding(r)
  PROVE  Slot(r) \in Slots /\ Owned(r) = {Slot(r)}
<1>1. Slot(r) \in Slots
  BY HasSlot DEF Holding, Busy
<1>2. record[Slot(r)].id = gateMem[r].id /\ record[Slot(r)].id # 0
  BY DEF GateInv, Carries
<1>3. \A s \in Slots : record[s].id = gateMem[r].id => s = Slot(r)
  BY <1>1, <1>2 DEF GateInv, RecordsKnown
<1> QED BY <1>1, <1>2, <1>3 DEF Owned

(* completeIdempotent: the answer is on record, or the database failed     *)
(* (lib/idempotency.ts).                                                   *)
LEMMA CompleteKept ==
  ASSUME GateInv, NEW r \in Requests, Complete(r)
  PROVE  GateInv'
<1>0. /\ GateTypeOK /\ Carries(r) /\ gatePc[r] = "complete" /\ Holding(r) /\ gateMem[r] \in GateMemories
      /\ UNCHANGED <<now, nextRecord, gateMem, effects, gate>>
  BY DEF GateInv, Complete, Holding, Carries, Busy, GateTypeOK
<1>1. PICK s \in Slots : s = Slot(r) /\ Owned(r) = {s}
  BY <1>0, OwnsItsRecord
<1>2. gateMem' = [gateMem EXCEPT ![r] = gateMem[r]]
  BY <1>0 DEF GateTypeOK
<1>3. Slot(r)' = s
  BY <1>0, <1>1 DEF Slot
<1>4. record \in [Slots -> RecordRows] /\ record[s].body = gateMem[r].body
  BY <1>0, <1>1 DEF GateTypeOK, Carries
<1>5. ASSUME record' = [t \in Slots |-> IF t \in Owned(r) THEN Answered(record[t], r) ELSE record[t]],
             NEW l \in {"done", "abandon"}, GateGo(r, l), l = "abandon" => "db" \in gate.faults
      PROVE  GateInv'
  <2>1. /\ record'[s] = Answered(record[s], r)
        /\ \A t \in Slots : t # s => record'[t] = record[t]
    BY <1>1, <1>5
  <2>2. /\ Answered(record[s], r) \in RecordRows
        /\ record'[s].id = record[s].id /\ record'[s].at = record[s].at
        /\ record'[s].body = record[s].body /\ record'[s].answer = gateMem[r].answer
        /\ record'[s].by = r
    BY <1>0, <1>4, <2>1 DEF Answered, RecordRows, GateMemories
  <2>3. record' \in [Slots -> RecordRows]
    BY <1>4, <1>5, <2>1, <2>2
  <2>4. gateMem[r].answer # Null /\ (gateMem[r].answer = "ok" => Did(r))
    BY <1>0 DEF Carries
  <2>5. Left(r)'
    BY <1>0, <1>5 DEF GateGo, Left, GateTypeOK
  <2>6. StoredBy(s)'
    BY <1>0, <1>3, <1>4, <2>2, <2>4, <2>5 DEF StoredBy, Did
  <2>7. StoredBy(Slot(r))'
    BY <1>3, <2>6 DEF StoredBy
  <2>8. Moves(r, l, gateMem[r])
    BY <1>2, <1>5 DEF Moves, GateGo
  <2>9. record'[s] # NoRecord
    BY <2>2, <2>4 DEF NoRecord
  <2> QED BY <1>0, <1>1, <1>5, <2>1, <2>2, <2>3, <2>4, <2>7, <2>8, <2>9, LeaveKept
<1>6. ASSUME UNCHANGED record, GateGo(r, "abandon"), "db" \in gate.faults
      PROVE  GateInv'
  <2>1. Moves(r, "abandon", gateMem[r])
    BY <1>2, <1>6 DEF Moves, GateGo
  <2>2. \A p \in Requests : Left(p) => Left(p)' /\ gateMem'[p] = gateMem[p] /\ Slot(p)' = Slot(p)
    BY <1>0, <1>6 DEF Left, Slot, GateGo, GateTypeOK
  <2>3. \A p \in Requests : Did(p) => Did(p)'
    BY <1>0 DEF Did
  <2>4. StoredBy(s)'
    BY <1>6, <2>2, <2>3, StoredKept
  <2>5. StoredBy(Slot(r))'
    BY <1>3, <2>4 DEF StoredBy
  <2> QED BY <1>0, <1>1, <1>4, <1>6, <2>1, <2>5, LeaveKept
<1> QED BY <1>1, <1>5, <1>6 DEF Complete

(* abandonIdempotent: the key is free, or the database failed              *)
(* (lib/idempotency.ts).                                                   *)
LEMMA AbandonKept ==
  ASSUME GateInv, NEW r \in Requests, Abandon(r)
  PROVE  GateInv'
<1>0. /\ GateTypeOK /\ Carries(r) /\ gatePc[r] = "abandon" /\ Holding(r)
      /\ UNCHANGED <<now, nextRecord, gateMem, effects, gate>> /\ GateGo(r, "done")
  BY DEF GateInv, Abandon, Holding, Carries, Busy
<1>1. PICK s \in Slots : s = Slot(r) /\ Owned(r) = {s}
  BY <1>0, OwnsItsRecord
<1>2. Moves(r, "done", gateMem[r])
  BY <1>0 DEF GateTypeOK, Moves, GateGo
<1>3. Slot(r)' = s /\ record \in [Slots -> RecordRows]
  BY <1>0, <1>1 DEF Slot, GateTypeOK
<1>4. \A p \in Requests : Left(p) => Left(p)' /\ gateMem'[p] = gateMem[p] /\ Slot(p)' = Slot(p)
  BY <1>0 DEF Left, Slot, GateGo, GateTypeOK
<1>5. \A p \in Requests : Did(p) => Did(p)'
  BY <1>0 DEF Did
<1>6. CASE record' = [t \in Slots |-> IF t \in Owned(r) THEN NoRecord ELSE record[t]]
  <2>1. /\ record'[s] = NoRecord
        /\ \A t \in Slots : t # s => record'[t] = record[t]
    BY <1>1, <1>6
  <2>2. NoRecord \in RecordRows /\ NoRecord.id = 0 /\ NoRecord.answer = Null
    BY DEF NoRecord, RecordRows, Bodies
  <2>3. record' \in [Slots -> RecordRows]
    BY <1>3, <1>6, <2>2
  <2>4. StoredBy(s)'
    BY <2>1, <2>2 DEF StoredBy
  <2>5. StoredBy(Slot(r))'
    BY <1>3, <2>4 DEF StoredBy
  <2> QED BY <1>0, <1>1, <1>2, <2>1, <2>2, <2>3, <2>5, LeaveKept
<1>7. CASE "db" \in gate.faults /\ UNCHANGED record
  <2>1. StoredBy(s)'
    BY <1>4, <1>5, <1>7, StoredKept
  <2>2. StoredBy(Slot(r))'
    BY <1>3, <2>1 DEF StoredBy
  <2> QED BY <1>0, <1>1, <1>2, <1>3, <1>7, <2>2, LeaveKept
<1> QED BY <1>6, <1>7 DEF Abandon

(* A restart: the records stay, and nobody holds one.                      *)
LEMMA GateCrashKept ==
  ASSUME GateInv, GateCrash
  PROVE  GateInv'
<1>0. /\ GateTypeOK /\ RecordsKnown /\ EffectsGuarded /\ EffectsApart /\ "crash" \in gate.faults
      /\ UNCHANGED <<now, record, nextRecord, gateMem, effects, gate>>
      /\ gatePc' = [q \in Requests |-> IF Busy(q) THEN "done" ELSE gatePc[q]]
  BY DEF GateInv, GateCrash
<1>1. \A q \in Requests : ~Busy(q)' /\ ~Holding(q)' /\ gatePc'[q] \in {"idle", "done"}
                          /\ (gatePc'[q] = "idle" => gatePc[q] = "idle")
  BY <1>0 DEF Busy, Holding
<1>2. gatePc' \in [Requests -> GateLabels]
  BY <1>0 DEF GateTypeOK, GateLabels
<1>3. \A q \in Requests : Left(q) => Left(q)' /\ gateMem'[q] = gateMem[q] /\ Slot(q)' = Slot(q)
  BY <1>0 DEF Left, Slot, Busy
<1>4. \A p \in Requests : Did(p) => Did(p)'
  BY <1>0 DEF Did
<1>5. GateTypeOK' /\ RecordsKnown' /\ OneHolder' /\ EffectsApart'
  BY <1>0, <1>1, <1>2 DEF GateTypeOK, RecordsKnown, OneHolder, EffectsApart
<1>6. \A q \in Requests : Carries(q)' /\ Replayed(q)'
  <2>1. \A q \in Requests : Replayed(q)'
    BY <1>0, <1>3, <1>4, ReplayKept
  <2>2. \A q \in Requests : gatePc[q] # "done" => gateMem[q].from = Null
    BY DEF GateInv, Carries
  <2> QED BY <1>0, <1>1, <2>1, <2>2 DEF Carries
<1>7. \A s \in Slots : StoredBy(s)' /\ Attended(s)'
  BY <1>0, <1>3, <1>4, StoredKept DEF Attended
<1>8. EffectsGuarded'
  <2> SUFFICES ASSUME gate.faults \subseteq {"throw", "crash"},
                      NEW i \in DOMAIN effects, effects[i].key # Null
               PROVE  Guarded(effects[i])'
    BY <1>0 DEF EffectsGuarded
  <2>1. Guarded(effects[i])
    BY <1>0 DEF EffectsGuarded
  <2> QED BY <1>0, <1>1, <2>1 DEF Guarded
<1> QED BY <1>5, <1>6, <1>7, <1>8 DEF GateInv

(* Time passes, short of the expiry of a record that is held.              *)
LEMMA TickKept ==
  ASSUME GateInv, Tick
  PROVE  GateInv'
<1>0. /\ GateTypeOK /\ RecordsKnown /\ OneHolder /\ EffectsGuarded /\ EffectsApart
      /\ \A q \in Requests : Busy(q) => now + 1 < gateMem[q].at + Ttl
      /\ now' = now + 1 /\ now \in Nat /\ Ttl \in Nat
      /\ UNCHANGED <<record, nextRecord, gatePc, gateMem, effects, gate>>
  BY GateAssumption DEF GateInv, Tick, GateTypeOK
<1>1. \A q \in Requests : (Holding(q)' <=> Holding(q)) /\ Slot(q)' = Slot(q) /\ (Left(q)' <=> Left(q))
                          /\ (Did(q)' <=> Did(q)) /\ (Busy(q)' <=> Busy(q))
  BY <1>0 DEF Holding, Slot, Left, Did, Busy
<1>2. GateTypeOK' /\ OneHolder' /\ EffectsApart'
  BY <1>0, <1>1 DEF GateTypeOK, OneHolder, EffectsApart
<1>3. RecordsKnown'
  <2>1. \A s \in Slots : record[s].at \in Nat /\ record[s].at <= now
    BY <1>0 DEF GateTypeOK, RecordRows, RecordsKnown
  <2> QED BY <1>0, <2>1 DEF RecordsKnown
<1>4. ASSUME NEW q \in Requests PROVE Carries(q)' /\ Replayed(q)'
  <2>1. Carries(q) /\ gateMem[q].at \in Nat
    BY <1>0 DEF GateInv, GateTypeOK, GateMemories
  <2>2. Holding(q) => Busy(q)
    BY DEF Holding, Busy
  <2>3. Carries(q)'
    BY <1>0, <1>1, <2>1, <2>2 DEF Carries
  <2>4. Replayed(q)'
    BY <1>0, <1>1, ReplayKept
  <2> QED BY <2>3, <2>4
<1>5. ASSUME NEW s \in Slots PROVE StoredBy(s)' /\ Attended(s)'
  <2>1. Attended(s)
    BY DEF GateInv
  <2> QED BY <1>0, <1>1, <2>1, StoredKept DEF Attended
<1>6. EffectsGuarded'
  <2> SUFFICES ASSUME gate.faults \subseteq {"throw", "crash"},
                      NEW i \in DOMAIN effects, effects[i].key # Null
               PROVE  Guarded(effects[i])'
    BY <1>0 DEF EffectsGuarded
  <2>1. Guarded(effects[i])
    BY <1>0 DEF EffectsGuarded
  <2>2. effects[i] \in Effects
    BY <1>0 DEF GateTypeOK
  <2>3. effects[i].claimed \in Nat
    BY <2>2 DEF Effects
  <2> QED BY <2>3, <1>0, <1>1, <2>1 DEF Guarded
<1> QED BY <1>2, <1>3, <1>4, <1>5, <1>6 DEF GateInv

-----------------------------------------------------------------------------
(* What holds from the first step on.                                      *)

(* At the start there is no record, and no request has arrived.            *)
LEMMA GateInitial == GateInit => GateInv
<1> SUFFICES ASSUME GateInit PROVE GateInv
  OBVIOUS
<1>1. /\ now = 0 /\ nextRecord = 1 /\ effects = <<>> /\ gate \in GateWorlds
      /\ record = [s \in Slots |-> NoRecord]
      /\ gatePc = [r \in Requests |-> "idle"] /\ gateMem = [r \in Requests |-> Forgotten]
  BY DEF GateInit
<1>2. /\ NoRecord \in RecordRows /\ NoRecord.id = 0 /\ NoRecord.at = 0 /\ NoRecord.answer = Null
      /\ Forgotten \in GateMemories /\ Forgotten.from = Null
  BY DEF NoRecord, RecordRows, Forgotten, GateMemories, Bodies
<1>3. \A r \in Requests : ~Busy(r) /\ ~Holding(r) /\ gatePc[r] = "idle" /\ gateMem[r].from = Null
  BY <1>1, <1>2 DEF Busy, Holding
<1>4. GateTypeOK
  BY <1>1, <1>2 DEF GateTypeOK, GateLabels
<1>5. RecordsKnown
  BY <1>1, <1>2 DEF RecordsKnown
<1>6. \A r \in Requests : Carries(r) /\ Replayed(r)
  BY <1>3 DEF Carries, Replayed
<1>7. \A s \in Slots : StoredBy(s) /\ Attended(s)
  BY <1>1, <1>2 DEF StoredBy, Attended
<1>8. OneHolder /\ EffectsGuarded /\ EffectsApart
  BY <1>1, <1>3 DEF OneHolder, EffectsGuarded, EffectsApart
<1> QED BY <1>4, <1>5, <1>6, <1>7, <1>8 DEF GateInv

(* Every step of every request keeps the invariant.                        *)
LEMMA GateKept == GateInv /\ [GateNext]_gateVars => GateInv'
<1> SUFFICES ASSUME GateInv, [GateNext]_gateVars PROVE GateInv'
  OBVIOUS
<1>1. ASSUME NEW r \in Requests, GateStep(r) PROVE GateInv'
  BY <1>1, ArriveKept, CreateRecordKept, LookKept, ReclaimKept, HandleKept, CompleteKept, AbandonKept
     DEF GateStep
<1>2. CASE UNCHANGED gateVars
  <2>1. UNCHANGED <<now, record, nextRecord, gatePc, gateMem, effects, gate>>
    BY <1>2 DEF gateVars
  <2>2. GateTypeOK' /\ RecordsKnown' /\ OneHolder' /\ EffectsApart'
    BY <2>1 DEF GateInv, GateTypeOK, RecordsKnown, OneHolder, EffectsApart, Holding, Slot
  <2>3. \A r \in Requests : Carries(r)' /\ Replayed(r)'
    BY <2>1 DEF GateInv, Carries, Replayed, Holding, Left, Did, Busy, Slot
  <2>4. \A s \in Slots : StoredBy(s)' /\ Attended(s)'
    BY <2>1 DEF GateInv, StoredBy, Attended, Holding, Left, Did, Slot
  <2>5. EffectsGuarded'
    BY <2>1 DEF GateInv, EffectsGuarded, Guarded, Holding, Slot
  <2> QED BY <2>2, <2>3, <2>4, <2>5 DEF GateInv
<1> QED BY <1>1, <1>2, GateCrashKept, TickKept DEF GateNext

(* At any time: whoever holds a key is its record's, and alone.            *)
THEOREM KeysAreHeld == GateSpec => []GateInv
BY GateInitial, GateKept, PTL DEF GateSpec

(* Whatever races, crashes or throws before its effect, the effects of one *)
(* key are a time to live apart (lib/idempotency.ts).                      *)
THEOREM NothingIsRepeated == GateSpec => []EffectsApart
<1>1. GateInv => EffectsApart
  BY DEF GateInv
<1> QED BY <1>1, KeysAreHeld, PTL

(* A replayed answer is what this very request was answered before         *)
(* (lib/idempotency.ts, the replay and the mismatch).                      *)
THEOREM AnswersAreTheirOwn == GateSpec => []ReplayMatches
<1>1. GateInv => ReplayMatches
  <2> SUFFICES ASSUME GateInv, NEW r \in Requests, gateMem[r].from # Null
               PROVE  LET first == gateMem[r].from
                      IN  /\ Slot(first) = Slot(r) /\ gateMem[first].body = gateMem[r].body
                          /\ gateMem[first].answer = gateMem[r].answer
                          /\ gateMem[r].answer = "ok" => \E i \in DOMAIN effects : effects[i].of = first
    BY DEF ReplayMatches
  <2> QED BY DEF GateInv, Replayed, Did
<1> QED BY <1>1, KeysAreHeld, PTL

(* Unless the process or the database failed, a key that answers in flight *)
(* has a request in flight (app/api/idempotency.ts, withIdempotentWrite).  *)
THEOREM NoKeyIsLockedOut == GateSpec => []KeyHasRunner
<1>1. GateInv => KeyHasRunner
  <2> SUFFICES ASSUME GateInv, gate.faults \subseteq {"throw", "late"},
                      NEW s \in Slots, record[s] # NoRecord, record[s].answer = Null
               PROVE  \E r \in Requests : Busy(r) /\ gateMem[r].id = record[s].id
                                          /\ gatePc[r] \in {"handle", "complete", "abandon"}
    BY DEF KeyHasRunner
  <2>1. record[s].id # 0
    BY DEF GateInv, RecordsKnown
  <2>2. PICK r \in Requests : Holding(r) /\ Slot(r) = s
    BY <2>1 DEF GateInv, Attended
  <2>3. Busy(r) /\ gatePc[r] \in {"handle", "complete", "abandon"}
    BY <2>2 DEF Holding, Busy
  <2>4. gateMem[r].id = record[s].id
    BY <2>2 DEF GateInv, Carries
  <2> QED BY <2>3, <2>4
<1> QED BY <1>1, KeysAreHeld, PTL

-----------------------------------------------------------------------------
(* The audit log.                                                          *)

Hash == Seq(Nat)
EventRows == [id : Nat \ {0}, detail : Nat, prevHash : Hash, hash : Hash]
AnchorRows == {Anchor(id, hash) : id \in Nat \ {0}, hash \in Hash}
Made == [kind : Edits, id : Nat, anchors : Nat]
Transactions == [prev : Hash, event : EventRows \union {<<>>}, anchor : AnchorRows \union {<<>>}]
Walks ==
  [cursor : Nat, seen : Seq(Nat), start : SUBSET Nat, edited : Made \union {Nobody}, valid : BOOLEAN,
   anchor : AnchorRows \union {<<>>}]

(* Types; and no transaction without the lock.                             *)
AuditTypes ==
  /\ events \in Seq(EventRows)
  /\ nextId \in Nat \ {0}
  /\ anchors \in Seq(AnchorRows)
  /\ lock \in Appenders \union {Nobody}
  /\ apc \in [Appenders -> {"idle", "create", "commit"}]
  /\ amem \in [Appenders -> Transactions]
  /\ rpc \in [Readers -> {"idle", "anchor", "event", "told", "next", "walked"}]
  /\ rmem \in [Readers -> Walks]
  /\ edit \in Made \union {Nobody}
  /\ \A a \in Appenders : (apc[a] = "idle" => amem[a] = NoTx) /\ (apc[a] # "idle" => lock = a)

(* Ids grow, and what is about to be committed comes last.                 *)
Ordered ==
  /\ \A i, j \in DOMAIN events : i < j => events[i].id < events[j].id
  /\ \A i \in DOMAIN events : events[i].id < nextId
  /\ \A a \in Appenders : amem[a].event # <<>> =>
       /\ apc[a] = "commit" /\ amem[a].event.id < nextId
       /\ \A i \in DOMAIN events : events[i].id < amem[a].event.id

(* A hash of what the program wrote covers no changed row.                 *)
Clean(hash) == \A k \in DOMAIN hash : hash[k] # 0

Follows(e) == e.prevHash = TipHash /\ e.hash = hashEvent(TipHash, e.detail)
Signs(anchor, e) == anchor.lastEventId = e.id /\ anchor.chainHash = e.hash

(* As long as nobody changed it, the log is a chain, every checkpoint      *)
(* holds, and so does what is about to be committed.                       *)
Untouched ==
  edit = Nobody =>
    /\ VerifyFrom(events)
    /\ \A i \in DOMAIN events : events[i].detail # 0 /\ Clean(events[i].hash)
    /\ \A i \in DOMAIN anchors : AnchorHolds(anchors[i])
    /\ \A a \in Appenders :
         LET t == amem[a]
         IN  /\ apc[a] = "create" => t.prev = TipHash
             /\ t.event # <<>> => t.event.detail # 0 /\ Follows(t.event)
             /\ t.anchor # <<>> /\ t.event # <<>> => Signs(t.anchor, t.event)
             /\ t.anchor # <<>> /\ t.event = <<>> => AnchorHolds(t.anchor)

(* What an edit leaves behind: a row that does not hash to what it says,   *)
(* or rows whose hashes cover the changed one under checkpoints that do    *)
(* not.                                                                    *)
Spoilt ==
  edit # Nobody =>
    /\ edit.anchors <= Len(anchors)
    /\ edit.kind = "content" => ~VerifyFrom(events)
    /\ edit.kind # "content" =>
         \A i \in 1 .. edit.anchors : anchors[i].lastEventId >= edit.id =>
           \E j \in DOMAIN events : events[j].id = anchors[i].lastEventId /\ events[j].hash # anchors[i].chainHash

(* What a verification has found so far.                                   *)
Verifying == {"anchor", "event", "told"}

Found(r) ==
  LET m == rmem[r]
  IN  /\ m.edited # Nobody => m.edited = edit
      /\ edit = Nobody /\ rpc[r] \in Verifying => m.valid
      /\ edit = Nobody /\ rpc[r] = "event" /\ m.anchor # <<>> => AnchorHolds(m.anchor)
      /\ m.edited # Nobody /\ rpc[r] \in Verifying /\ m.edited.kind = "content" => ~m.valid
      /\ m.edited # Nobody /\ rpc[r] = "told" /\ m.edited.kind # "content" /\ m.anchor # <<>>
           /\ m.anchor.lastEventId >= m.edited.id /\ (\E i \in 1 .. m.edited.anchors : anchors[i] = m.anchor)
         => ~m.valid

(* What a walk has served so far.                                          *)
Served(r) ==
  LET m == rmem[r]
  IN  /\ \A i, j \in DOMAIN m.seen : i < j => m.seen[j] < m.seen[i]
      /\ m.cursor # 0 => \A i \in DOMAIN m.seen : m.seen[i] >= m.cursor
      /\ m.start \subseteq Ids(events)
      /\ rpc[r] = "idle" => m = NoWalk
      /\ rpc[r] # "idle" => \A x \in m.start : m.cursor = 0 \/ x >= m.cursor => x \in ToSet(m.seen)
      /\ rpc[r] = "next" => m.cursor # 0
      /\ rpc[r] = "walked" => m.cursor = 0

AuditInv == AuditTypes /\ Ordered /\ Untouched /\ Spoilt /\ \A r \in Readers : Found(r) /\ Served(r)

-----------------------------------------------------------------------------
(* Numbers and sequences.                                                  *)

(* The smaller of two numbers.                                             *)
LEMMA SmallerOfTwo ==
  ASSUME NEW x \in Int, NEW y \in Int
  PROVE  Min({x, y}) = IF x <= y THEN x ELSE y
<1> DEFINE m == IF x <= y THEN x ELSE y
<1>1. m \in {x, y} /\ \A z \in {x, y} : m <= z
  OBVIOUS
<1>2. Min({x, y}) \in {x, y} /\ \A z \in {x, y} : Min({x, y}) <= z
  <2> HIDE DEF m
  <2> QED BY <1>1 DEF Min
<1> QED BY <1>2

(* The largest of some indices, or 0 when there is none.                   *)
LEMMA LargestIndex ==
  ASSUME NEW n \in Nat, NEW B \in SUBSET (1 .. n)
  PROVE  /\ Max({0} \union B) \in {0} \union B
         /\ \A i \in B : i <= Max({0} \union B)
<1> DEFINE S == {0} \union B
           N == {n - i : i \in S}
<1>1. N \in SUBSET Nat /\ N # {}
  OBVIOUS
<1>2. PICK k \in N : \A j \in N : k <= j
  <2> HIDE DEF N
  <2> QED BY <1>1, SmallestNumber
<1>3. PICK x \in S : k = n - x
  OBVIOUS
<1>4. \A y \in S : x >= y
  <2> SUFFICES ASSUME NEW y \in S PROVE x >= y
    OBVIOUS
  <2>1. k <= n - y
    BY <1>2
  <2> QED BY <1>3, <2>1
<1>5. Max(S) \in S /\ \A y \in S : Max(S) >= y
  <2> HIDE DEF S
  <2> QED BY <1>3, <1>4 DEF Max
<1> QED BY <1>5

(* A row added at the end.                                                 *)
LEMMA Appended ==
  ASSUME NEW T, NEW s \in Seq(T), NEW e \in T
  PROVE  /\ InsertAt(s, Len(s) + 1, e) = Append(s, e)
         /\ Append(s, e) \in Seq(T)
         /\ Len(Append(s, e)) = Len(s) + 1
         /\ Append(s, e)[Len(s) + 1] = e
         /\ \A i \in 1 .. Len(s) : Append(s, e)[i] = s[i]
<1>1. SubSeq(s, 1, Len(s)) = s
  OBVIOUS
<1>2. SubSeq(s, Len(s) + 1, Len(s)) = <<>>
  OBVIOUS
<1>3. InsertAt(s, Len(s) + 1, e) = s \o <<e>> \o <<>>
  <2>1. SubSeq(s, 1, Len(s) + 1 - 1) = s
    BY <1>1
  <2>2. InsertAt(s, Len(s) + 1, e) = SubSeq(s, 1, Len(s) + 1 - 1) \o <<e>> \o SubSeq(s, Len(s) + 1, Len(s))
    BY DEF InsertAt
  <2> QED BY <1>2, <2>1, <2>2
<1>4. s \o <<e>> \o <<>> = Append(s, e)
  OBVIOUS
<1> QED BY <1>3, <1>4
(* One sequence of numbers after another.                                  *)
LEMMA Joined ==
  ASSUME NEW s \in Seq(Nat), NEW t \in Seq(Nat)
  PROVE  /\ s \o t \in Seq(Nat)
         /\ \A i \in 1 .. Len(s) : i \in DOMAIN (s \o t) /\ (s \o t)[i] = s[i]
         /\ \A k \in 1 .. Len(t) : Len(s) + k \in DOMAIN (s \o t) /\ (s \o t)[Len(s) + k] = t[k]
         /\ \A i \in DOMAIN (s \o t) : i \in 1 .. Len(s) \/ \E k \in 1 .. Len(t) : i = Len(s) + k
<1>1. Len(s) \in Nat /\ Len(t) \in Nat
  OBVIOUS
<1>2. s \o t \in Seq(Nat) /\ Len(s \o t) = Len(s) + Len(t)
  OBVIOUS
<1>3. \A i \in 1 .. Len(s) + Len(t) : i \in DOMAIN (s \o t)
  BY <1>2
<1>4. ASSUME NEW i \in 1 .. Len(s) PROVE i \in DOMAIN (s \o t) /\ (s \o t)[i] = s[i]
  <2>1. i \in 1 .. Len(s) + Len(t)
    BY <1>1
  <2> QED BY <1>3, <2>1
<1>5. ASSUME NEW k \in 1 .. Len(t) PROVE Len(s) + k \in DOMAIN (s \o t) /\ (s \o t)[Len(s) + k] = t[k]
  <2>1. Len(s) + k \in 1 .. Len(s) + Len(t)
    BY <1>1
  <2> QED BY <1>1, <1>3, <2>1
<1>6. ASSUME NEW i \in DOMAIN (s \o t), i \notin 1 .. Len(s) PROVE \E k \in 1 .. Len(t) : i = Len(s) + k
  <2>1. i \in 1 .. Len(s) + Len(t)
    BY <1>2
  <2>2. i - Len(s) \in 1 .. Len(t) /\ i = Len(s) + (i - Len(s))
    BY <1>1, <1>6, <2>1
  <2> QED BY <2>2
<1> QED BY <1>2, <1>4, <1>5, <1>6

-----------------------------------------------------------------------------
(* The log.                                                                *)

(* What a row and a checkpoint are.                                        *)
LEMMA RowsAre ==
  /\ \A e \in EventRows : e # <<>> /\ e.id \in Nat \ {0} /\ e.detail \in Nat /\ e.prevHash \in Hash /\ e.hash \in Hash
  /\ \A c \in AnchorRows : c.lastEventId \in Nat \ {0} /\ c.chainHash \in Hash
                           /\ c.signature = signAnchor(c.lastEventId, c.chainHash)
<1>1. ASSUME NEW e \in EventRows PROVE e # <<>>
  <2>1. DOMAIN e = {"id", "detail", "prevHash", "hash"}
    BY DEF EventRows
  <2> QED BY <2>1
<1> QED BY <1>1 DEF EventRows, AnchorRows, Anchor

(* The rows are in the order of their ids, so those before an id are the   *)
(* first ones.                                                             *)
LEMMA BeforeIs ==
  ASSUME AuditTypes, Ordered, NEW id \in Nat
  PROVE  /\ Before(id) \in 0 .. Len(events)
         /\ \A i \in DOMAIN events : i <= Before(id) <=> events[i].id < id
<1> DEFINE B == {i \in DOMAIN events : events[i].id < id}
           n == Before(id)
<1>1. events \in Seq(EventRows) /\ Len(events) \in Nat /\ DOMAIN events = 1 .. Len(events)
  BY DEF AuditTypes
<1>2. B \in SUBSET (1 .. Len(events))
  BY <1>1
<1>3. n \in {0} \union B /\ \A i \in B : i <= n
  <2>1. Max({0} \union B) \in {0} \union B /\ \A i \in B : i <= Max({0} \union B)
    <3> HIDE DEF B
    <3> QED BY <1>1, <1>2, LargestIndex
  <2> QED BY <2>1 DEF Before
<1>4. \A i \in DOMAIN events : events[i].id \in Nat
  BY <1>1, RowsAre
<1>5. ASSUME NEW i \in DOMAIN events, i <= n PROVE events[i].id < id
  <2> HIDE DEF n
  <2>1. n \in DOMAIN events /\ events[n].id < id
    BY <1>1, <1>3, <1>5
  <2>2. i < n => events[i].id < events[n].id
    BY <2>1 DEF Ordered
  <2> QED BY <1>1, <1>4, <1>5, <2>1, <2>2
<1>6. ASSUME NEW i \in DOMAIN events, events[i].id < id PROVE i <= n
  <2> HIDE DEF n
  <2> QED BY <1>3, <1>6
<1> HIDE DEF n
<1>7. n \in 0 .. Len(events) /\ \A i \in DOMAIN events : i <= n <=> events[i].id < id
  BY <1>1, <1>2, <1>3, <1>5, <1>6
<1> QED BY <1>7 DEF n

(* No two rows have one id.                                                *)
LEMMA OneRow ==
  ASSUME AuditTypes, Ordered, NEW i \in DOMAIN events, NEW j \in DOMAIN events, events[i].id = events[j].id
  PROVE  i = j
<1>1. i \in Nat /\ j \in Nat /\ events[i].id \in Nat /\ events[j].id \in Nat
  BY RowsAre DEF AuditTypes
<1> QED BY <1>1 DEF Ordered

(* An appender that moves on its own account.                              *)
Turns(a, l, m) == apc' = [apc EXCEPT ![a] = l] /\ amem' = [amem EXCEPT ![a] = m]

(* A transaction under the lock, or one that leaves it.                    *)
LEMMA TurnTyped ==
  ASSUME AuditTypes, NEW a \in Appenders, NEW l \in {"idle", "create", "commit"}, NEW m \in Transactions,
         Turns(a, l, m), events' \in Seq(EventRows), nextId' \in Nat \ {0}, anchors' \in Seq(AnchorRows),
         UNCHANGED <<rpc, rmem, edit>>,
         \/ l # "idle" /\ lock' = a /\ lock \in {a, Nobody}
         \/ l = "idle" /\ m = NoTx /\ lock' = Nobody /\ lock = a
  PROVE  AuditTypes'
<1>1. \A b \in Appenders : b # a => apc[b] = "idle"
  BY AuditAssumption DEF AuditTypes
<1>2. /\ apc' \in [Appenders -> {"idle", "create", "commit"}]
      /\ amem' \in [Appenders -> Transactions]
      /\ apc'[a] = l /\ amem'[a] = m
      /\ \A b \in Appenders : b # a => apc'[b] = apc[b] /\ amem'[b] = amem[b]
  BY DEF AuditTypes, Turns
<1>3. \A b \in Appenders : (apc'[b] = "idle" => amem'[b] = NoTx) /\ (apc'[b] # "idle" => lock' = b)
  BY <1>1, <1>2 DEF AuditTypes
<1> QED BY <1>2, <1>3 DEF AuditTypes

(* What the log holds and what readers know, when neither changes.         *)
LEMMA LogAside ==
  ASSUME AuditInv, UNCHANGED <<events, anchors, edit, rpc, rmem>>
  PROVE  Spoilt' /\ \A r \in Readers : Found(r)' /\ Served(r)'
<1>1. Spoilt'
  BY DEF AuditInv, Spoilt
<1>2. ASSUME NEW r \in Readers PROVE Found(r)' /\ Served(r)'
  BY DEF AuditInv, Found, Served, AnchorHolds
<1> QED BY <1>1, <1>2
(* The tip is a hash of what is committed.                                 *)
LEMMA TipIs ==
  ASSUME AuditInv
  PROVE  /\ TipHash \in Hash
         /\ events # <<>> => Len(events) \in DOMAIN events /\ TipHash = events[Len(events)].hash
         /\ edit = Nobody => Clean(TipHash)
<1>1. events \in Seq(EventRows)
  BY DEF AuditInv, AuditTypes
<1>2. CASE events = <<>>
  BY <1>2 DEF TipHash, GENESIS, Hash, Clean
<1>3. CASE events # <<>>
  <2>1. Len(events) \in DOMAIN events /\ TipHash = events[Len(events)].hash
    BY <1>1, <1>3 DEF TipHash, Last
  <2> QED BY <1>1, <1>3, <2>1, RowsAre DEF AuditInv, Untouched
<1> QED BY <1>2, <1>3

(* The tip is read, and nobody else writes (lib/audit.ts, appendEvent).    *)
LEMMA ReadTipKept ==
  ASSUME AuditInv, NEW a \in Appenders, ReadTip(a)
  PROVE  AuditInv'
<1> DEFINE m == [NoTx EXCEPT !.prev = TipHash]
<1>0. /\ AuditTypes /\ Ordered /\ Untouched /\ apc[a] = "idle" /\ amem[a] = NoTx
      /\ lock = Nobody /\ lock' = a
      /\ UNCHANGED <<events, nextId, anchors, rpc, rmem, edit>>
  BY DEF AuditInv, AuditTypes, ReadTip, LockAuditChain
<1>1. m \in Transactions /\ m.event = <<>> /\ m.anchor = <<>> /\ m.prev = TipHash
  BY TipIs DEF NoTx, Transactions, GENESIS, Hash
<1>2. Turns(a, "create", m)
  BY <1>0 DEF ReadTip, Turns, AuditTypes, Transactions
<1> HIDE DEF m
<1>3. /\ apc'[a] = "create" /\ amem'[a] = m
      /\ \A b \in Appenders : b # a => apc'[b] = apc[b] /\ amem'[b] = amem[b]
  BY <1>0, <1>2 DEF Turns, AuditTypes
<1>4. AuditTypes'
  BY <1>0, <1>1, <1>2, TurnTyped DEF AuditTypes
<1>5. Ordered'
  BY <1>0, <1>1, <1>3 DEF Ordered
<1>6. Untouched'
  <2> SUFFICES ASSUME edit = Nobody PROVE Untouched'
    BY <1>0 DEF Untouched
  <2>1. TipHash' = TipHash /\ VerifyFrom(events)' = VerifyFrom(events)
    BY <1>0 DEF TipHash, VerifyFrom
  <2> QED BY <1>0, <1>1, <1>3, <2>1 DEF Untouched, Follows, AnchorHolds
<1> QED BY <1>0, <1>4, <1>5, <1>6, LogAside DEF AuditInv

(* The row is made after the tip, with a checkpoint of it when one is due  *)
(* (lib/audit.ts, appendEvent and maybeCheckpoint).                        *)
LEMMA CreateEventKept ==
  ASSUME AuditInv, NEW a \in Appenders, CreateEvent(a)
  PROVE  AuditInv'
<1> DEFINE hash == hashEvent(amem[a].prev, nextId)
           e == [id |-> nextId, detail |-> nextId, prevHash |-> amem[a].prev, hash |-> hash]
           c == IF Since(nextId) < Interval THEN <<>> ELSE Anchor(nextId, hash)
           m == [prev |-> amem[a].prev, event |-> e, anchor |-> c]
<1>0. /\ AuditTypes /\ Ordered /\ Untouched /\ apc[a] = "create" /\ lock = a /\ lock' = a
      /\ nextId \in Nat \ {0} /\ nextId' = nextId + 1
      /\ UNCHANGED <<events, anchors, rpc, rmem, edit>>
  BY DEF AuditInv, AuditTypes, CreateEvent
<1>1. amem[a] \in Transactions /\ hash \in Hash
  BY <1>0 DEF AuditTypes, Transactions, Hash, hashEvent
<1>2. Turns(a, "commit", m)
  BY DEF CreateEvent, Turns
<1>3. e \in EventRows /\ c \in AnchorRows \union {<<>>}
  <2> HIDE DEF hash
  <2> QED BY <1>0, <1>1 DEF EventRows, AnchorRows, Transactions
<1>4. m \in Transactions /\ m.event = e /\ m.anchor = c /\ e # <<>> /\ e.id = nextId
  <2> HIDE DEF c, e
  <2>1. m \in Transactions /\ m.event = e /\ m.anchor = c /\ e # <<>>
    BY <1>1, <1>3, RowsAre DEF Transactions
  <2> QED BY <2>1 DEF e
<1>5. c # <<>> => Signs(c, e)
  BY DEF Anchor, Signs
<1>6. edit = Nobody => e.detail # 0 /\ Follows(e)
  BY <1>0 DEF Untouched, Follows
<1> HIDE DEF m, e, c
<1>7. /\ apc'[a] = "commit" /\ amem'[a] = m
      /\ \A b \in Appenders : b # a => apc'[b] = apc[b] /\ amem'[b] = amem[b]
  BY <1>0, <1>2 DEF Turns, AuditTypes
<1>8. AuditTypes'
  BY <1>0, <1>2, <1>4, TurnTyped DEF AuditTypes
<1>9. Ordered'
  <2>1. \A i \in DOMAIN events : events[i].id \in Nat
    BY <1>0, RowsAre DEF AuditTypes
  <2>2. \A b \in Appenders : b # a => amem[b].event = <<>>
    BY <1>0 DEF AuditTypes, NoTx
  <2> QED BY <1>0, <1>4, <1>7, <2>1, <2>2 DEF Ordered
<1>10. Untouched'
  <2> SUFFICES ASSUME edit = Nobody PROVE Untouched'
    BY <1>0 DEF Untouched
  <2>1. TipHash' = TipHash /\ VerifyFrom(events)' = VerifyFrom(events)
    BY <1>0 DEF TipHash, VerifyFrom
  <2> QED BY <1>0, <1>4, <1>5, <1>6, <1>7, <2>1 DEF Untouched, Follows, AnchorHolds
<1> QED BY <1>0, <1>8, <1>9, <1>10, LogAside DEF AuditInv

(* The tip is signed as it is (lib/audit.ts, createCheckpoint).            *)
LEMMA CreateCheckpointKept ==
  ASSUME AuditInv, NEW a \in Appenders, CreateCheckpoint(a)
  PROVE  AuditInv'
<1> DEFINE last == events[Len(events)]
           c == Anchor(last.id, TipHash)
           m == [NoTx EXCEPT !.anchor = c]
<1>0. /\ AuditTypes /\ Ordered /\ Untouched /\ apc[a] = "idle" /\ amem[a] = NoTx /\ events # <<>>
      /\ lock = Nobody /\ lock' = a
      /\ UNCHANGED <<events, nextId, anchors, rpc, rmem, edit>>
  BY DEF AuditInv, AuditTypes, CreateCheckpoint, LockAuditChain
<1>1. Len(events) \in DOMAIN events /\ TipHash = last.hash /\ TipHash \in Hash /\ last.id \in Nat \ {0}
  BY <1>0, TipIs, RowsAre DEF AuditTypes
<1>2. c \in AnchorRows /\ c.lastEventId = last.id /\ c.chainHash = last.hash
  BY <1>1 DEF AnchorRows, Anchor
<1>3. Turns(a, "commit", m)
  BY <1>0 DEF CreateCheckpoint, Turns, AuditTypes, Transactions, Last
<1> HIDE DEF c
<1>4. m \in Transactions /\ m.event = <<>> /\ m.anchor = c
  <2>1. m = [prev |-> <<>>, event |-> <<>>, anchor |-> c]
    BY DEF NoTx, GENESIS
  <2> HIDE DEF m, last
  <2> QED BY <1>2, <2>1 DEF Transactions, Hash
<1>5. AnchorHolds(c)
  BY <1>1, <1>2 DEF AnchorHolds
<1> HIDE DEF m, last
<1>6. /\ apc'[a] = "commit" /\ amem'[a] = m
      /\ \A b \in Appenders : b # a => apc'[b] = apc[b] /\ amem'[b] = amem[b]
  BY <1>0, <1>3 DEF Turns, AuditTypes
<1>7. AuditTypes'
  BY <1>0, <1>3, <1>4, TurnTyped DEF AuditTypes
<1>8. Ordered'
  BY <1>0, <1>4, <1>6 DEF Ordered
<1>9. Untouched'
  <2> SUFFICES ASSUME edit = Nobody PROVE Untouched'
    BY <1>0 DEF Untouched
  <2>1. TipHash' = TipHash /\ VerifyFrom(events)' = VerifyFrom(events)
    BY <1>0 DEF TipHash, VerifyFrom
  <2> QED BY <1>0, <1>4, <1>5, <1>6, <2>1 DEF Untouched, Follows, AnchorHolds
<1> QED BY <1>0, <1>7, <1>8, <1>9, LogAside DEF AuditInv

(* A transaction that rolls back leaves the log as it was.                 *)
LEMMA RollbackKept ==
  ASSUME AuditInv, NEW a \in Appenders, Rollback(a)
  PROVE  AuditInv'
<1>0. /\ AuditTypes /\ Ordered /\ Untouched /\ lock = a /\ lock' = Nobody
      /\ UNCHANGED <<events, nextId, anchors, rpc, rmem, edit>> /\ Turns(a, "idle", NoTx)
  BY DEF AuditInv, AuditTypes, Rollback, Release, Turns
<1>1. NoTx \in Transactions /\ NoTx.event = <<>> /\ NoTx.anchor = <<>>
  BY DEF NoTx, Transactions, GENESIS, Hash
<1>2. /\ apc'[a] = "idle" /\ amem'[a] = NoTx
      /\ \A b \in Appenders : b # a => apc'[b] = apc[b] /\ amem'[b] = amem[b]
  BY <1>0 DEF Turns, AuditTypes
<1>3. AuditTypes'
  BY <1>0, <1>1, TurnTyped DEF AuditTypes
<1>4. Ordered'
  BY <1>0, <1>1, <1>2 DEF Ordered
<1>5. Untouched'
  <2> SUFFICES ASSUME edit = Nobody PROVE Untouched'
    BY <1>0 DEF Untouched
  <2>1. TipHash' = TipHash /\ VerifyFrom(events)' = VerifyFrom(events)
    BY <1>0 DEF TipHash, VerifyFrom
  <2> QED BY <1>0, <1>1, <1>2, <2>1 DEF Untouched, Follows, AnchorHolds
<1> QED BY <1>0, <1>3, <1>4, <1>5, LogAside DEF AuditInv
(* The log with the row a transaction commits: the last one.               *)
LEMMA CommitAppends ==
  ASSUME AuditInv, NEW a \in Appenders, Commit(a), NEW e, e = amem[a].event
  PROVE  /\ events' \in Seq(EventRows)
         /\ Len(events) <= Len(events')
         /\ \A i \in DOMAIN events : i \in DOMAIN events' /\ events'[i] = events[i]
         /\ e = <<>> => events' = events
         /\ e # <<>> => e \in EventRows /\ DOMAIN events' = 1 .. Len(events) + 1 /\ events'[Len(events) + 1] = e
<1>0. /\ AuditTypes /\ Ordered /\ events \in Seq(EventRows) /\ Len(events) \in Nat
      /\ events' = IF e = <<>> THEN events ELSE InsertAt(events, Before(e.id) + 1, e)
  BY DEF AuditInv, AuditTypes, Commit
<1>1. CASE e = <<>>
  BY <1>0, <1>1
<1>2. CASE e # <<>>
  <2>1. e \in EventRows
    BY <1>0, <1>2 DEF AuditTypes, Transactions
  <2>2. e.id \in Nat /\ \A i \in DOMAIN events : events[i].id < e.id
    BY <1>0, <1>2, <2>1, RowsAre DEF Ordered
  <2>3. /\ Before(e.id) \in 0 .. Len(events)
        /\ \A i \in DOMAIN events : i <= Before(e.id)
    BY <1>0, <2>2, BeforeIs
  <2>4. Before(e.id) = Len(events)
    <3>1. Len(events) # 0 => Len(events) \in DOMAIN events /\ Len(events) <= Before(e.id)
      BY <1>0, <2>3
    <3> QED BY <1>0, <2>3, <3>1
  <2>5. events' = Append(events, e)
    BY <1>0, <1>2, <2>1, <2>4, Appended
  <2>6. /\ Append(events, e) \in Seq(EventRows)
        /\ Len(Append(events, e)) = Len(events) + 1
        /\ Append(events, e)[Len(events) + 1] = e
        /\ \A i \in 1 .. Len(events) : Append(events, e)[i] = events[i]
    BY <1>0, <2>1, Appended
  <2> QED BY <1>0, <1>2, <2>1, <2>5, <2>6
<1> QED BY <1>1, <1>2

(* A transaction commits its row and its checkpoint (lib/audit.ts).        *)
LEMMA CommitKept ==
  ASSUME AuditInv, NEW a \in Appenders, Commit(a)
  PROVE  AuditInv'
<1>0. PICK e, c : e = amem[a].event /\ c = amem[a].anchor
  OBVIOUS
<1>1. /\ AuditTypes /\ Ordered /\ Untouched /\ Spoilt /\ apc[a] = "commit" /\ lock = a /\ lock' = Nobody
      /\ anchors' = IF c = <<>> THEN anchors ELSE Append(anchors, c)
      /\ UNCHANGED <<nextId, rpc, rmem, edit>> /\ Turns(a, "idle", NoTx)
      /\ events \in Seq(EventRows) /\ Len(events) \in Nat /\ DOMAIN events = 1 .. Len(events)
      /\ anchors \in Seq(AnchorRows) /\ Len(anchors) \in Nat /\ DOMAIN anchors = 1 .. Len(anchors)
      /\ c \in AnchorRows \union {<<>>}
  BY <1>0 DEF AuditInv, AuditTypes, Commit, Release, Turns, Transactions
<1>2. /\ events' \in Seq(EventRows)
      /\ Len(events) <= Len(events')
      /\ \A i \in DOMAIN events : i \in DOMAIN events' /\ events'[i] = events[i]
      /\ e = <<>> => events' = events
      /\ e # <<>> => e \in EventRows /\ DOMAIN events' = 1 .. Len(events) + 1 /\ events'[Len(events) + 1] = e
  BY <1>0, CommitAppends
<1>3. /\ anchors' \in Seq(AnchorRows) /\ Len(anchors) <= Len(anchors')
      /\ \A i \in DOMAIN anchors : i \in DOMAIN anchors' /\ anchors'[i] = anchors[i]
      /\ \A i \in DOMAIN anchors' : i \in DOMAIN anchors \/ (c # <<>> /\ anchors'[i] = c)
  BY <1>1
<1>4. NoTx \in Transactions /\ NoTx.event = <<>> /\ NoTx.anchor = <<>>
  BY DEF NoTx, Transactions, GENESIS, Hash
<1>5. /\ apc'[a] = "idle" /\ amem'[a] = NoTx
      /\ \A b \in Appenders : b # a => apc'[b] = "idle" /\ apc[b] = "idle" /\ amem'[b] = NoTx
  BY <1>1 DEF Turns, AuditTypes
<1>6. AuditTypes'
  BY <1>1, <1>2, <1>3, <1>4, TurnTyped DEF AuditTypes
<1>7. Ordered'
  <2>1. ASSUME NEW i \in DOMAIN events' PROVE events'[i].id < nextId
    BY <1>0, <1>1, <1>2, <2>1 DEF Ordered
  <2>2. ASSUME NEW i \in DOMAIN events', NEW j \in DOMAIN events', i < j PROVE events'[i].id < events'[j].id
    <3>1. i \in DOMAIN events
      BY <1>1, <1>2, <2>2
    <3> QED BY <1>0, <1>1, <1>2, <2>2, <3>1 DEF Ordered
  <2> QED BY <1>1, <1>4, <1>5, <2>1, <2>2 DEF Ordered
<1>8. \A x : AnchorHolds(x) => AnchorHolds(x)'
  BY <1>2 DEF AnchorHolds
<1>9. VerifyFrom(events') => VerifyFrom(events)
  BY <1>1, <1>2 DEF VerifyFrom
<1>10. edit = Nobody => \A i \in DOMAIN anchors' : AnchorHolds(anchors[i])'
  <2> SUFFICES ASSUME edit = Nobody, NEW i \in DOMAIN anchors' PROVE AnchorHolds(anchors[i])'
    OBVIOUS
  <2>1. CASE i \in DOMAIN anchors
    <3>1. AnchorHolds(anchors[i])
      BY <2>1 DEF AuditInv, Untouched
    <3> QED BY <1>3, <1>8, <2>1, <3>1 DEF AnchorHolds
  <2>2. CASE c # <<>> /\ anchors'[i] = c
    <3>1. CASE e = <<>>
      <4>1. AnchorHolds(c)
        BY <1>0, <2>2, <3>1 DEF AuditInv, Untouched
      <4> QED BY <1>8, <2>2, <4>1 DEF AnchorHolds
    <3>2. CASE e # <<>>
      <4>1. Signs(c, e)
        BY <1>0, <2>2, <3>2 DEF AuditInv, Untouched
      <4> QED BY <1>1, <1>2, <2>2, <3>2, <4>1 DEF AnchorHolds, Signs
    <3> QED BY <3>1, <3>2
  <2> QED BY <1>3, <2>1, <2>2
<1>11. edit = Nobody => VerifyFrom(events') /\ \A i \in DOMAIN events' : events'[i].detail # 0 /\ Clean(events'[i].hash)
  <2> SUFFICES ASSUME edit = Nobody, e # <<>>
               PROVE  VerifyFrom(events') /\ \A i \in DOMAIN events' : events'[i].detail # 0 /\ Clean(events'[i].hash)
    BY <1>2 DEF AuditInv, Untouched
  <2>1. e.detail # 0 /\ Follows(e)
    BY <1>0 DEF AuditInv, Untouched
  <2>2. VerifyFrom(events) /\ \A i \in DOMAIN events : events[i].detail # 0 /\ Clean(events[i].hash)
    BY DEF AuditInv, Untouched
  <2>3. Clean(e.hash)
    <3>1. TipHash \in Seq(Nat) /\ Clean(TipHash) /\ e.hash = Append(TipHash, e.detail)
      BY <2>1, TipIs DEF Follows, hashEvent, Hash
    <3> QED BY <2>1, <3>1 DEF Clean
  <2>4. TipHash = IF Len(events) = 0 THEN GENESIS ELSE events'[Len(events)].hash
    BY <1>1, <1>2, TipIs DEF TipHash
  <2>5. ASSUME NEW i \in DOMAIN events'
        PROVE  LET prev == IF i = 1 THEN GENESIS ELSE events'[i - 1].hash
               IN  events'[i].prevHash = prev /\ events'[i].hash = hashEvent(prev, events'[i].detail)
    <3>1. CASE i \in DOMAIN events
      BY <1>1, <1>2, <2>2, <3>1 DEF VerifyFrom
    <3>2. CASE i = Len(events) + 1
      BY <1>1, <1>2, <2>1, <2>4, <3>2 DEF Follows
    <3> QED BY <1>1, <1>2, <3>1, <3>2
  <2> QED BY <1>1, <1>2, <2>1, <2>2, <2>3, <2>5 DEF VerifyFrom
<1>12. Untouched'
  BY <1>1, <1>4, <1>5, <1>10, <1>11 DEF Untouched
<1>13. Spoilt'
  <2> SUFFICES ASSUME edit # Nobody PROVE Spoilt'
    BY <1>1 DEF Spoilt
  <2>1. edit.anchors \in Nat /\ edit.anchors <= Len(anchors)
    BY <1>1 DEF AuditTypes, Made, Spoilt
  <2> QED BY <1>1, <1>2, <1>3, <1>9, <2>1 DEF Spoilt
<1>14. ASSUME NEW r \in Readers PROVE Found(r)'
  <2>1. Found(r) /\ rmem'[r] = rmem[r] /\ rpc'[r] = rpc[r]
    BY <1>1 DEF AuditInv
  <2>2. rmem[r].edited # Nobody =>
          \A i \in 1 .. rmem[r].edited.anchors : i \in DOMAIN anchors /\ anchors'[i] = anchors[i]
    <3> SUFFICES ASSUME rmem[r].edited # Nobody, NEW i \in 1 .. rmem[r].edited.anchors
                 PROVE  i \in DOMAIN anchors /\ anchors'[i] = anchors[i]
      OBVIOUS
    <3>1. edit # Nobody /\ rmem[r].edited = edit
      BY <2>1 DEF Found
    <3>2. edit.anchors \in Nat /\ edit.anchors <= Len(anchors)
      BY <1>1, <3>1 DEF AuditTypes, Made, Spoilt
    <3> QED BY <1>1, <1>3, <3>1, <3>2
  <2> QED BY <1>1, <1>8, <2>1, <2>2 DEF Found, AnchorHolds
<1>15. ASSUME NEW r \in Readers PROVE Served(r)'
  <2>1. Ids(events) \subseteq Ids(events')
    BY <1>2 DEF Ids
  <2>2. Served(r) /\ rmem'[r] = rmem[r] /\ rpc'[r] = rpc[r]
    BY <1>1 DEF AuditInv
  <2> QED BY <2>1, <2>2 DEF Served
<1> QED BY <1>6, <1>7, <1>12, <1>13, <1>14, <1>15 DEF AuditInv
(* A row whose content is changed, and nothing else: it no longer hashes   *)
(* to what it says.                                                        *)
LEMMA ContentSpoils ==
  ASSUME AuditInv, edit = Nobody, NEW i \in DOMAIN events, NEW rows, rows = [events EXCEPT ![i].detail = 0]
  PROVE  /\ rows \in Seq(EventRows) /\ DOMAIN rows = DOMAIN events /\ Len(rows) = Len(events)
         /\ \A j \in DOMAIN events : rows[j].id = events[j].id /\ rows[j].hash = events[j].hash
         /\ rows[i].detail = 0
         /\ ~VerifyFrom(rows)
<1>1. events \in Seq(EventRows) /\ VerifyFrom(events) /\ events[i].detail # 0 /\ DOMAIN events = 1 .. Len(events)
      /\ Len(events) \in Nat
  BY DEF AuditInv, AuditTypes, Untouched
<1>2. ASSUME NEW e \in EventRows, NEW f, f = [e EXCEPT !.detail = 0]
      PROVE  f \in EventRows /\ f.id = e.id /\ f.hash = e.hash /\ f.prevHash = e.prevHash /\ f.detail = 0
  BY <1>2 DEF EventRows
<1>3. /\ DOMAIN rows = DOMAIN events
      /\ \A j \in DOMAIN events : rows[j] \in EventRows /\ rows[j].id = events[j].id /\ rows[j].hash = events[j].hash
                                  /\ rows[j].prevHash = events[j].prevHash
      /\ rows[i].detail = 0
  <2>1. rows[i] = [events[i] EXCEPT !.detail = 0] /\ \A j \in DOMAIN events : j # i => rows[j] = events[j]
    OBVIOUS
  <2>2. events[i] \in EventRows
    BY <1>1
  <2>3. /\ rows[i] \in EventRows /\ rows[i].id = events[i].id /\ rows[i].hash = events[i].hash
        /\ rows[i].prevHash = events[i].prevHash /\ rows[i].detail = 0
    BY <1>2, <2>1, <2>2
  <2> QED BY <1>1, <2>1, <2>3
<1>4. rows \in Seq(EventRows) /\ Len(rows) = Len(events)
  <2>1. rows \in [1 .. Len(events) -> EventRows]
    BY <1>1, <1>3
  <2> QED BY <1>1, <2>1
<1>5. ASSUME VerifyFrom(rows) PROVE FALSE
  <2> DEFINE prev == IF i = 1 THEN GENESIS ELSE events[i - 1].hash
  <2>1. prev \in Seq(Nat) /\ events[i].detail \in Nat
    BY <1>1, RowsAre DEF GENESIS, Hash
  <2>2. events[i].hash = Append(prev, events[i].detail)
    BY <1>1 DEF VerifyFrom, hashEvent
  <2>3. i # 1 => rows[i - 1].hash = events[i - 1].hash
    BY <1>1, <1>3
  <2>4. rows[i].hash = Append(prev, rows[i].detail)
    <3>1. rows[i].hash = Append(IF i = 1 THEN GENESIS ELSE rows[i - 1].hash, rows[i].detail)
      BY <1>3, <1>5 DEF VerifyFrom, hashEvent
    <3> QED BY <2>3, <3>1
  <2> HIDE DEF prev
  <2>5. Append(prev, 0) = Append(prev, events[i].detail)
    BY <1>3, <2>2, <2>4
  <2>6. Append(prev, 0)[Len(prev) + 1] = 0 /\ Append(prev, events[i].detail)[Len(prev) + 1] = events[i].detail
    BY <2>1
  <2> QED BY <1>1, <2>5, <2>6
<1> QED BY <1>3, <1>4, <1>5

(* A row with its hashes computed anew.                                    *)
Anew(e, prevHash, hash) == [e EXCEPT !.prevHash = prevHash, !.hash = hash]

(* Hashes computed anew from a changed row on cover it.                    *)
LEMMA RehashSpoils ==
  ASSUME NEW rows \in Seq(EventRows), NEW i \in DOMAIN rows, rows[i].detail = 0, NEW new, new = Rehashed(rows, i)
  PROVE  /\ new \in Seq(EventRows) /\ DOMAIN new = DOMAIN rows /\ Len(new) = Len(rows)
         /\ \A j \in DOMAIN rows : new[j].id = rows[j].id /\ (j >= i => ~Clean(new[j].hash))
<1>1. Len(rows) \in Nat /\ DOMAIN rows = 1 .. Len(rows) /\ \A k \in 1 .. Len(rows) : rows[k].detail \in Nat
  BY RowsAre
<1>2. ASSUME NEW j \in 0 .. Len(rows) PROVE HashUpTo(rows, j) \in Hash
  <2>1. HashUpTo(rows, j) \in [1 .. j -> Nat]
    BY <1>1 DEF HashUpTo
  <2> QED BY <2>1 DEF Hash
<1>3. ASSUME NEW j \in DOMAIN rows, j >= i PROVE ~Clean(HashUpTo(rows, j))
  <2>1. i \in DOMAIN HashUpTo(rows, j) /\ HashUpTo(rows, j)[i] = 0
    BY <1>1, <1>3 DEF HashUpTo
  <2> QED BY <2>1 DEF Clean
<1>4. new = [j \in DOMAIN rows |->
              IF j < i THEN rows[j] ELSE Anew(rows[j], HashUpTo(rows, j - 1), HashUpTo(rows, j))]
  BY DEF Rehashed, Anew
<1>5. ASSUME NEW e \in EventRows, NEW x \in Hash, NEW y \in Hash
      PROVE  Anew(e, x, y) \in EventRows /\ Anew(e, x, y).id = e.id /\ Anew(e, x, y).hash = y
  BY DEF EventRows, Anew
<1>6. ASSUME NEW j \in DOMAIN rows
      PROVE  new[j] \in EventRows /\ new[j].id = rows[j].id /\ (j >= i => ~Clean(new[j].hash))
  <2>1. rows[j] \in EventRows /\ j \in Nat /\ i \in Nat /\ j \in 0 .. Len(rows) /\ j - 1 \in 0 .. Len(rows)
    BY <1>1
  <2>2. CASE j < i
    BY <1>4, <2>1, <2>2
  <2>3. CASE j >= i
    <3>1. new[j] = Anew(rows[j], HashUpTo(rows, j - 1), HashUpTo(rows, j))
      BY <1>4, <2>1, <2>3
    <3>2. HashUpTo(rows, j - 1) \in Hash /\ HashUpTo(rows, j) \in Hash
      BY <1>2, <2>1
    <3> QED BY <1>3, <1>5, <2>1, <2>3, <3>1, <3>2
  <2> QED BY <2>1, <2>2, <2>3
<1>7. new \in [1 .. Len(rows) -> EventRows]
  BY <1>1, <1>4, <1>6
<1> QED BY <1>1, <1>6, <1>7

(* A log that is changed is marked by it.                                  *)
LEMMA EditKept ==
  ASSUME AuditInv, Edit
  PROVE  AuditInv'
<1>1. PICK kind \in Edits, i \in DOMAIN events :
        LET changed == [events EXCEPT ![i].detail = 0]
        IN  /\ events' = IF kind = "content" THEN changed ELSE Rehashed(changed, i)
            /\ edit' = [kind |-> kind, id |-> events[i].id, anchors |-> Len(anchors)]
  BY DEF Edit
<1>2. PICK changed : changed = [events EXCEPT ![i].detail = 0]
  OBVIOUS
<1>3. /\ AuditTypes /\ Ordered /\ Untouched /\ edit = Nobody
      /\ UNCHANGED <<nextId, anchors, lock, apc, amem, rpc, rmem>>
      /\ events' = IF kind = "content" THEN changed ELSE Rehashed(changed, i)
      /\ edit' = [kind |-> kind, id |-> events[i].id, anchors |-> Len(anchors)]
      /\ events \in Seq(EventRows) /\ anchors \in Seq(AnchorRows) /\ Len(anchors) \in Nat
      /\ DOMAIN events = 1 .. Len(events) /\ Len(events) \in Nat
  <2>1. /\ events' = IF kind = "content" THEN changed ELSE Rehashed(changed, i)
        /\ edit' = [kind |-> kind, id |-> events[i].id, anchors |-> Len(anchors)]
    BY ONLY <1>1, <1>2
  <2>2. /\ AuditTypes /\ Ordered /\ Untouched /\ edit = Nobody
        /\ UNCHANGED <<nextId, anchors, lock, apc, amem, rpc, rmem>>
    BY DEF AuditInv, Edit
  <2>3. /\ events \in Seq(EventRows) /\ anchors \in Seq(AnchorRows) /\ Len(anchors) \in Nat
        /\ DOMAIN events = 1 .. Len(events) /\ Len(events) \in Nat
    BY <2>2 DEF AuditTypes
  <2> QED BY <2>1, <2>2, <2>3
<1>4. /\ changed \in Seq(EventRows) /\ DOMAIN changed = DOMAIN events /\ Len(changed) = Len(events)
      /\ \A j \in DOMAIN events : changed[j].id = events[j].id /\ changed[j].hash = events[j].hash
      /\ changed[i].detail = 0
      /\ ~VerifyFrom(changed)
  BY <1>2, <1>3, ContentSpoils
<1>5. kind # "content" =>
        /\ events' \in Seq(EventRows) /\ DOMAIN events' = DOMAIN events /\ Len(events') = Len(events)
        /\ \A j \in DOMAIN events : events'[j].id = events[j].id /\ (j >= i => ~Clean(events'[j].hash))
  BY <1>3, <1>4, RehashSpoils
<1>6. /\ events' \in Seq(EventRows) /\ DOMAIN events' = DOMAIN events /\ Len(events') = Len(events)
      /\ \A j \in DOMAIN events : events'[j].id = events[j].id
  BY <1>3, <1>4, <1>5
<1>7. edit' \in Made /\ edit' # Nobody /\ edit'.kind = kind /\ edit'.id = events[i].id /\ edit'.anchors = Len(anchors)
  <2>1. events[i].id \in Nat
    BY <1>3, RowsAre
  <2> QED BY <1>3, <2>1, AuditAssumption DEF Made
<1>8. AuditTypes'
  BY <1>3, <1>6, <1>7 DEF AuditTypes
<1>9. Ordered'
  BY <1>3, <1>6 DEF Ordered
<1>10. Untouched'
  BY <1>7 DEF Untouched
<1>11. Spoilt'
  <2>1. kind = "content" => ~VerifyFrom(events')
    BY <1>3, <1>4
  <2>2. ASSUME kind # "content", NEW k \in 1 .. Len(anchors), anchors[k].lastEventId >= events[i].id
        PROVE  \E j \in DOMAIN events' : events'[j].id = anchors[k].lastEventId /\ events'[j].hash # anchors[k].chainHash
    <3>1. AnchorHolds(anchors[k])
      BY <1>3 DEF Untouched
    <3>2. PICK j \in DOMAIN events : events[j].id = anchors[k].lastEventId /\ events[j].hash = anchors[k].chainHash
      BY <3>1 DEF AnchorHolds
    <3>3. j >= i
      <4>1. events[i].id \in Nat /\ events[j].id \in Nat
        BY <1>3, RowsAre
      <4>2. j < i => events[j].id < events[i].id
        BY <1>3 DEF Ordered
      <4> QED BY <1>3, <2>2, <3>2, <4>1, <4>2
    <3>4. Clean(events[j].hash) /\ ~Clean(events'[j].hash)
      BY <1>3, <1>5, <2>2, <3>3 DEF Untouched
    <3> QED BY <1>6, <3>2, <3>4
  <2> QED BY <1>3, <1>7, <2>1, <2>2 DEF Spoilt
<1>12. ASSUME NEW r \in Readers PROVE Found(r)'
  <2>1. Found(r) /\ rmem'[r] = rmem[r] /\ rpc'[r] = rpc[r] /\ rmem[r].edited = Nobody
    BY <1>3, <1>7 DEF AuditInv, Found
  <2> QED BY <1>7, <2>1 DEF Found
<1>13. ASSUME NEW r \in Readers PROVE Served(r)'
  <2>1. Ids(events') = Ids(events)
    BY <1>6 DEF Ids
  <2>2. Served(r) /\ rmem'[r] = rmem[r] /\ rpc'[r] = rpc[r]
    BY <1>3 DEF AuditInv
  <2> QED BY <2>1, <2>2 DEF Served
<1> QED BY <1>8, <1>9, <1>10, <1>11, <1>12, <1>13 DEF AuditInv
-----------------------------------------------------------------------------
(* The readers.                                                            *)

ReaderLabels == {"idle", "anchor", "event", "told", "next", "walked"}
Reads(r, l, m) ==
  /\ rpc' = [rpc EXCEPT ![r] = l]
  /\ rmem' = [rmem EXCEPT ![r] = m]
  /\ UNCHANGED <<events, nextId, anchors, lock, apc, amem, edit>>

(* A read changes nothing but what its reader knows.                       *)
LEMMA ReadKept ==
  ASSUME AuditInv, NEW r \in Readers, NEW l \in ReaderLabels, NEW m \in Walks, Reads(r, l, m),
         Found(r)', Served(r)'
  PROVE  AuditInv'
<1>1. /\ UNCHANGED <<events, nextId, anchors, lock, apc, amem, edit>>
      /\ \A q \in Readers : q # r => rpc'[q] = rpc[q] /\ rmem'[q] = rmem[q]
      /\ rpc' \in [Readers -> ReaderLabels] /\ rmem' \in [Readers -> Walks]
  BY DEF AuditInv, AuditTypes, Reads, ReaderLabels
<1>2. AuditTypes'
  BY <1>1 DEF AuditInv, AuditTypes, ReaderLabels
<1>3. Ordered'
  BY <1>1 DEF AuditInv, Ordered
<1>4. Untouched'
  <2>1. TipHash' = TipHash /\ VerifyFrom(events)' = VerifyFrom(events)
    BY <1>1 DEF TipHash, VerifyFrom
  <2> QED BY <1>1, <2>1 DEF AuditInv, Untouched, Follows, AnchorHolds
<1>5. Spoilt'
  BY <1>1 DEF AuditInv, Spoilt
<1>6. ASSUME NEW q \in Readers, q # r PROVE Found(q)' /\ Served(q)'
  <2>1. Found(q) /\ Served(q) /\ rpc'[q] = rpc[q] /\ rmem'[q] = rmem[q]
    BY <1>1, <1>6 DEF AuditInv
  <2> QED BY <1>1, <2>1 DEF Found, Served, AnchorHolds
<1> QED BY <1>2, <1>3, <1>4, <1>5, <1>6 DEF AuditInv

(* The newest checkpoint is one there is, with the signature it was given  *)
(* (lib/audit.ts, verifyAuditChain).                                       *)
LEMMA ReadAnchorKept ==
  ASSUME AuditInv, NEW r \in Readers, ReadAnchor(r)
  PROVE  AuditInv'
<1> DEFINE newest == IF anchors = <<>> THEN <<>> ELSE Last(anchors)
           m == [rmem[r] EXCEPT !.anchor = newest]
<1>0. /\ AuditTypes /\ Found(r) /\ Served(r) /\ rpc[r] = "anchor" /\ rmem[r] \in Walks
      /\ UNCHANGED <<events, nextId, anchors, lock, apc, amem, edit>>
      /\ anchors \in Seq(AnchorRows)
  BY DEF AuditInv, AuditTypes, ReadAnchor
<1>1. newest # <<>> => newest \in AnchorRows /\ \E i \in DOMAIN anchors : newest = anchors[i]
  BY <1>0 DEF Last
<1>2. newest # <<>> => newest.signature = signAnchor(newest.lastEventId, newest.chainHash)
  <2> HIDE DEF newest
  <2> QED BY <1>1, RowsAre
<1>3. PICK n : n = newest
  OBVIOUS
<1>4. rmem' = [rmem EXCEPT ![r].anchor = n,
                ![r].valid = @ /\ (n # <<>> => n.signature = signAnchor(n.lastEventId, n.chainHash))]
  BY <1>3 DEF ReadAnchor
<1> HIDE DEF newest
<1>5. m \in Walks /\ m.anchor = n /\ m.valid = rmem[r].valid /\ m.cursor = rmem[r].cursor /\ m.seen = rmem[r].seen
      /\ m.start = rmem[r].start /\ m.edited = rmem[r].edited
  BY <1>0, <1>1, <1>3 DEF Walks
<1>6. Reads(r, "event", m)
  <2> DEFINE ok == n # <<>> => n.signature = signAnchor(n.lastEventId, n.chainHash)
  <2>1. ok
    BY <1>2, <1>3
  <2>2. rmem' = [rmem EXCEPT ![r].anchor = n, ![r].valid = @ /\ ok]
    BY <1>4
  <2> HIDE DEF ok
  <2>3. rmem' = [rmem EXCEPT ![r] = [rmem[r] EXCEPT !.anchor = n, !.valid = rmem[r].valid /\ ok]]
    BY <1>0, <2>2 DEF AuditTypes, Walks
  <2>4. rmem[r].valid \in BOOLEAN /\ (rmem[r].valid /\ ok) = rmem[r].valid
    BY <1>0, <2>1 DEF Walks
  <2>5. [rmem[r] EXCEPT !.anchor = n, !.valid = rmem[r].valid] = m
    BY <1>0, <1>3 DEF Walks
  <2> QED BY <1>0, <2>3, <2>4, <2>5 DEF Reads, ReadAnchor
<1> HIDE DEF m
<1>7. rpc'[r] = "event" /\ rmem'[r] = m
  BY <1>0, <1>6 DEF Reads, AuditTypes
<1>8. edit = Nobody /\ n # <<>> => AnchorHolds(n)
  BY <1>1, <1>3 DEF AuditInv, Untouched
<1>9. Found(r)'
  BY <1>0, <1>5, <1>7, <1>8 DEF Found, Verifying, AnchorHolds
<1>10. Served(r)'
  BY <1>0, <1>5, <1>7 DEF Served
<1> QED BY <1>5, <1>6, <1>9, <1>10, ReadKept DEF ReaderLabels

(* The anchored event is still there with the hash that was signed, or is  *)
(* reported (lib/audit.ts, verifyAuditChain).                              *)
LEMMA ReadAnchorEventKept ==
  ASSUME AuditInv, NEW r \in Readers, ReadAnchorEvent(r)
  PROVE  AuditInv'
<1> DEFINE v == rmem[r].valid /\ (rmem[r].anchor # <<>> => AnchorHolds(rmem[r].anchor))
           m == [rmem[r] EXCEPT !.valid = v]
<1>0. /\ AuditTypes /\ Ordered /\ Spoilt /\ Found(r) /\ Served(r) /\ rpc[r] = "event" /\ rmem[r] \in Walks
      /\ UNCHANGED <<events, nextId, anchors, lock, apc, amem, edit>>
  BY DEF AuditInv, AuditTypes, ReadAnchorEvent
<1>1. Reads(r, "told", m)
  BY <1>0 DEF Reads, ReadAnchorEvent, AuditTypes
<1>2. v \in BOOLEAN
  BY <1>0 DEF Walks
<1>3. edit = Nobody => v
  BY <1>0 DEF Found, Verifying
<1>4. ~rmem[r].valid => ~v
  OBVIOUS
<1>5. ASSUME rmem[r].edited # Nobody, rmem[r].edited.kind # "content", rmem[r].anchor # <<>>,
             rmem[r].anchor.lastEventId >= rmem[r].edited.id,
             \E i \in 1 .. rmem[r].edited.anchors : anchors[i] = rmem[r].anchor
      PROVE  ~v
  <2>1. rmem[r].edited = edit
    BY <1>0, <1>5 DEF Found
  <2>2. PICK j \in DOMAIN events : events[j].id = rmem[r].anchor.lastEventId /\ events[j].hash # rmem[r].anchor.chainHash
    BY <1>0, <1>5, <2>1 DEF Spoilt
  <2>3. ~AnchorHolds(rmem[r].anchor)
    BY <1>0, <2>2, OneRow DEF AnchorHolds
  <2> QED BY <1>5, <2>3
<1> HIDE DEF v
<1>6. m \in Walks /\ m.valid = v /\ m.anchor = rmem[r].anchor /\ m.cursor = rmem[r].cursor /\ m.seen = rmem[r].seen
      /\ m.start = rmem[r].start /\ m.edited = rmem[r].edited
  BY <1>0, <1>2 DEF Walks
<1> HIDE DEF m
<1>7. rpc'[r] = "told" /\ rmem'[r] = m
  BY <1>0, <1>1 DEF Reads, AuditTypes
<1>8. Found(r)'
  BY <1>0, <1>3, <1>4, <1>5, <1>6, <1>7 DEF Found, Verifying
<1>9. Served(r)'
  BY <1>0, <1>6, <1>7 DEF Served
<1> QED BY <1>1, <1>6, <1>8, <1>9, ReadKept DEF ReaderLabels

(* The client follows the cursor, or has walked it all.                    *)
LEMMA NextPageKept ==
  ASSUME AuditInv, NEW r \in Readers, NextPage(r)
  PROVE  AuditInv'
<1>0. /\ AuditTypes /\ Found(r) /\ Served(r) /\ rpc[r] = "told" /\ rmem[r] \in Walks
      /\ UNCHANGED <<events, nextId, anchors, lock, apc, amem, edit>>
  BY DEF AuditInv, AuditTypes, NextPage
<1>1. PICK l \in {"walked", "next"} : l = IF rmem[r].cursor = 0 THEN "walked" ELSE "next"
  OBVIOUS
<1>2. Reads(r, l, rmem[r])
  BY <1>0, <1>1 DEF Reads, NextPage, AuditTypes
<1>3. rpc'[r] = l /\ rmem'[r] = rmem[r]
  BY <1>0, <1>2 DEF Reads, AuditTypes
<1>4. Found(r)'
  BY <1>0, <1>3 DEF Found, Verifying
<1>5. Served(r)'
  BY <1>0, <1>1, <1>3 DEF Served
<1> QED BY <1>0, <1>2, <1>4, <1>5, ReadKept DEF ReaderLabels
(* What ReadPage fetches after a cursor, and the page it makes of it.      *)
PageOf(cursor, fetched, page) ==
  fetched = Fetch(cursor) /\ page = SubSeq(fetched, 1, Min({Len(fetched), PageLimit}))

(* Of the n rows before the cursor, the newest, one after the other.       *)
IsPage(n, cursor, fetched, page) ==
  /\ \A i \in DOMAIN events : i <= n <=> cursor = 0 \/ events[i].id < cursor
  /\ Len(fetched) > PageLimit <=> n > PageLimit
  /\ page \in Seq(EventRows)
  /\ Len(page) = IF n > PageLimit THEN PageLimit ELSE n
  /\ \A k \in 1 .. Len(page) : n + 1 - k \in DOMAIN events /\ page[k] = events[n + 1 - k]

(* A page: the newest rows before the cursor, one after the other, and     *)
(* whether there are more (lib/pagination.ts).                             *)
LEMMA PageIs ==
  ASSUME AuditInv, NEW cursor \in Nat, NEW fetched, NEW page, PageOf(cursor, fetched, page)
  PROVE  \E n \in 0 .. Len(events) : IsPage(n, cursor, fetched, page)
<1>0. /\ AuditTypes /\ Ordered /\ events \in Seq(EventRows) /\ Len(events) \in Nat
      /\ PageLimit \in Nat /\ PageLimit > 0
  BY AuditAssumption DEF AuditInv, AuditTypes
<1>1. PICK n \in 0 .. Len(events) : (cursor = 0 => n = Len(events)) /\ (cursor # 0 => n = Before(cursor))
  <2>1. CASE cursor = 0
    BY <1>0, <2>1
  <2>2. CASE cursor # 0
    BY <1>0, <2>2, BeforeIs
  <2> QED BY <2>1, <2>2
<1>2. \A i \in DOMAIN events : i <= n <=> cursor = 0 \/ events[i].id < cursor
  <2>1. CASE cursor = 0
    BY <1>0, <1>1, <2>1
  <2>2. CASE cursor # 0
    BY <1>0, <1>1, <2>2, BeforeIs
  <2> QED BY <2>1, <2>2
<1>3. PICK l \in 0 .. n : l = IF n <= PageLimit + 1 THEN n ELSE PageLimit + 1
  BY <1>0, <1>1
<1>4. fetched = [k \in 1 .. l |-> events[n + 1 - k]]
  <2>1. Min({n, PageLimit + 1}) = l
    BY <1>0, <1>1, <1>3, SmallerOfTwo
  <2>2. (IF cursor = 0 THEN Len(events) ELSE Before(cursor)) = n
    BY <1>1
  <2> QED BY <2>1, <2>2, Zenon DEF Fetch, PageOf
<1>5. fetched \in Seq(EventRows) /\ Len(fetched) = l
  BY <1>0, <1>1, <1>3, <1>4
<1>6. PICK p \in 0 .. l : p = IF n > PageLimit THEN PageLimit ELSE n
  BY <1>0, <1>1, <1>3
<1>7. page = SubSeq(fetched, 1, p)
  <2>1. Min({Len(fetched), PageLimit}) = p
    BY <1>0, <1>3, <1>5, <1>6, SmallerOfTwo
  <2> QED BY <2>1 DEF PageOf
<1>8. page \in Seq(EventRows) /\ Len(page) = p /\ \A k \in 1 .. p : page[k] = fetched[k]
  BY <1>5, <1>6, <1>7
<1>9. Len(page) = IF n > PageLimit THEN PageLimit ELSE n
  BY <1>6, <1>8
<1>10. Len(fetched) > PageLimit <=> n > PageLimit
  BY <1>0, <1>3, <1>5
<1>11. ASSUME NEW k \in 1 .. Len(page) PROVE n + 1 - k \in DOMAIN events /\ page[k] = events[n + 1 - k]
  <2>1. k \in 1 .. p /\ k \in 1 .. l /\ k \in 1 .. n
    BY <1>0, <1>3, <1>6, <1>8
  <2>2. n + 1 - k \in 1 .. Len(events)
    BY <1>0, <2>1
  <2>3. n + 1 - k \in DOMAIN events
    BY <1>0, <2>2
  <2>4. page[k] = fetched[k] /\ fetched[k] = events[n + 1 - k]
    BY <1>4, <1>8, <2>1
  <2> QED BY <2>3, <2>4
<1>12. IsPage(n, cursor, fetched, page)
  BY <1>2, <1>8, <1>9, <1>10, <1>11 DEF IsPage
<1> QED BY <1>12

(* A page goes on where the one before ended, and its verification starts  *)
(* from the log as it is (app/api/audit/route.ts).                         *)
LEMMA ReadPageKept ==
  ASSUME AuditInv, NEW r \in Readers, ReadPage(r)
  PROVE  AuditInv'
<1>0. /\ AuditTypes /\ Ordered /\ Untouched /\ Spoilt /\ Found(r) /\ Served(r) /\ rpc[r] \in {"idle", "next"}
      /\ rmem[r] \in Walks /\ UNCHANGED <<events, nextId, anchors, lock, apc, amem, edit>>
      /\ rpc' = [rpc EXCEPT ![r] = "anchor"]
      /\ events \in Seq(EventRows) /\ Len(events) \in Nat
      /\ PageLimit \in Nat /\ PageLimit > 0
  BY AuditAssumption DEF AuditInv, AuditTypes, ReadPage
<1>1. PICK old, cursor : old = rmem[r].seen /\ cursor = rmem[r].cursor
  OBVIOUS
<1>2. old \in Seq(Nat) /\ cursor \in Nat
  BY <1>0, <1>1 DEF Walks
<1>3. PICK fetched, page : PageOf(cursor, fetched, page)
  BY DEF PageOf
<1>4. PICK n \in 0 .. Len(events) :
        /\ \A i \in DOMAIN events : i <= n <=> cursor = 0 \/ events[i].id < cursor
        /\ Len(fetched) > PageLimit <=> n > PageLimit
        /\ page \in Seq(EventRows)
        /\ Len(page) = IF n > PageLimit THEN PageLimit ELSE n
        /\ \A k \in 1 .. Len(page) : n + 1 - k \in DOMAIN events /\ page[k] = events[n + 1 - k]
  <2>1. \E n \in 0 .. Len(events) : IsPage(n, cursor, fetched, page)
    BY ONLY AuditInv, <1>2, <1>3, PageIs, Zenon
  <2>2. PICK n \in 0 .. Len(events) : IsPage(n, cursor, fetched, page)
    BY ONLY <2>1
  <2> QED BY ONLY <2>2 DEF IsPage
<1>5. PICK served, next, start :
        /\ served = [i \in DOMAIN page |-> page[i].id]
        /\ next = IF Len(fetched) > PageLimit THEN Last(page).id ELSE 0
        /\ start = IF rpc[r] = "idle" THEN Ids(events) ELSE rmem[r].start
  OBVIOUS
<1> DEFINE m == [cursor |-> next, seen |-> old \o served, start |-> start, edited |-> edit,
                 valid |-> VerifyFrom(events), anchor |-> <<>>]
<1>6. rmem' = [rmem EXCEPT ![r] = m]
  BY <1>1, <1>3, <1>5 DEF ReadPage, PageOf
<1>7. /\ served \in Seq(Nat) /\ Len(served) = Len(page)
      /\ \A k \in 1 .. Len(page) : served[k] = events[n + 1 - k].id
  <2>1. Len(page) \in Nat /\ DOMAIN page = 1 .. Len(page)
    BY <1>4
  <2>2. served \in [1 .. Len(page) -> Nat]
    BY <1>4, <1>5, <2>1, RowsAre
  <2>3. served \in Seq(Nat) /\ Len(served) = Len(page)
    BY <2>1, <2>2
  <2> QED BY <1>4, <1>5, <2>1, <2>3
<1>8. /\ next \in Nat
      /\ n > PageLimit => n + 1 - PageLimit \in DOMAIN events /\ next = events[n + 1 - PageLimit].id
      /\ n <= PageLimit => next = 0
  <2>1. CASE n > PageLimit
    <3>1. Len(page) = PageLimit /\ PageLimit \in 1 .. Len(page)
      BY <1>0, <1>4, <2>1
    <3>2. n + 1 - PageLimit \in DOMAIN events /\ Last(page) = events[n + 1 - PageLimit]
      BY <1>4, <3>1 DEF Last
    <3>3. next = events[n + 1 - PageLimit].id
      BY <1>4, <1>5, <2>1, <3>2
    <3> QED BY <1>0, <2>1, <3>2, <3>3, RowsAre
  <2>2. CASE n <= PageLimit
    BY <1>0, <1>4, <1>5, <2>2
  <2> QED BY <1>0, <1>4, <2>1, <2>2
<1>9. start \in SUBSET Nat /\ start \subseteq Ids(events)
  <2>1. Ids(events) \in SUBSET Nat
    BY <1>0, RowsAre DEF Ids
  <2> QED BY <1>0, <1>5, <2>1 DEF Served
<1>10. VerifyFrom(events) \in BOOLEAN /\ edit \in Made \union {Nobody}
  BY <1>0 DEF VerifyFrom, AuditTypes
<1>11. m \in Walks
  <2>1. old \o served \in Seq(Nat)
    BY <1>2, <1>7
  <2> QED BY <1>8, <1>9, <1>10, <2>1 DEF Walks
<1>12. Reads(r, "anchor", m)
  BY <1>0, <1>6 DEF Reads
<1>13. /\ m.cursor = next /\ m.seen = old \o served /\ m.start = start /\ m.edited = edit
       /\ m.valid = VerifyFrom(events) /\ m.anchor = <<>>
  OBVIOUS
<1> HIDE DEF m
<1>14. rpc'[r] = "anchor" /\ rmem'[r] = m
  BY <1>0, <1>12 DEF Reads, AuditTypes
<1>15. Found(r)'
  <2>1. edit = Nobody => m.valid
    BY <1>0, <1>13 DEF Untouched
  <2>2. m.edited # Nobody /\ m.edited.kind = "content" => ~m.valid
    BY <1>0, <1>13 DEF Spoilt
  <2> QED BY <1>0, <1>13, <1>14, <2>1, <2>2 DEF Found, Verifying
<1>16. Served(r)'
  <2>1. /\ Len(old) \in Nat /\ Len(page) \in Nat
        /\ \A i \in 1 .. Len(old) : i \in DOMAIN m.seen /\ m.seen[i] = old[i]
        /\ \A k \in 1 .. Len(page) : Len(old) + k \in DOMAIN m.seen /\ m.seen[Len(old) + k] = events[n + 1 - k].id
        /\ \A i \in DOMAIN m.seen : i \in 1 .. Len(old) \/ \E k \in 1 .. Len(page) : i = Len(old) + k
    <3>1. /\ \A i \in 1 .. Len(old) : i \in DOMAIN (old \o served) /\ (old \o served)[i] = old[i]
          /\ \A k \in 1 .. Len(page) : Len(old) + k \in DOMAIN (old \o served) /\ (old \o served)[Len(old) + k] = served[k]
          /\ \A i \in DOMAIN (old \o served) : i \in 1 .. Len(old) \/ \E k \in 1 .. Len(page) : i = Len(old) + k
      BY <1>2, <1>7, Joined
    <3>2. Len(old) \in Nat /\ Len(page) \in Nat
      BY <1>2, <1>4
    <3> QED BY <1>7, <1>13, <3>1, <3>2
  <2>2. cursor = 0 => old = <<>>
    BY <1>0, <1>1 DEF Served, NoWalk
  <2>3. \A k \in 1 .. Len(page) : n + 1 - k \in 1 .. n /\ n + 1 - k \in DOMAIN events
    BY <1>0, <1>4, <2>1
  <2>4. \A k \in 1 .. Len(page), i \in 1 .. Len(old) : events[n + 1 - k].id < old[i]
    <3> SUFFICES ASSUME NEW k \in 1 .. Len(page), NEW i \in 1 .. Len(old) PROVE events[n + 1 - k].id < old[i]
      OBVIOUS
    <3>1. cursor # 0 /\ old[i] >= cursor /\ old[i] \in Nat
      BY <1>0, <1>1, <1>2, <2>2 DEF Served
    <3>2. n + 1 - k <= n /\ n + 1 - k \in DOMAIN events
      BY <1>4, <2>3
    <3>3. events[n + 1 - k].id < cursor
      BY <1>4, <3>1, <3>2
    <3>4. events[n + 1 - k].id \in Nat
      BY <1>0, <3>2, RowsAre
    <3> QED BY <1>2, <3>1, <3>3, <3>4
  <2>5. ASSUME NEW i \in DOMAIN m.seen, NEW j \in DOMAIN m.seen, i < j PROVE m.seen[j] < m.seen[i]
    <3>1. CASE i \in 1 .. Len(old) /\ j \in 1 .. Len(old)
      <4>1. i \in DOMAIN old /\ j \in DOMAIN old
        BY <1>2, <3>1
      <4> QED BY <1>0, <1>1, <2>1, <2>5, <3>1, <4>1 DEF Served
    <3>2. ASSUME i \in 1 .. Len(old), NEW l \in 1 .. Len(page), j = Len(old) + l
          PROVE  m.seen[j] < m.seen[i]
      BY <2>1, <2>4, <3>2
    <3>3. ASSUME NEW k \in 1 .. Len(page), i = Len(old) + k, NEW l \in 1 .. Len(page), j = Len(old) + l
          PROVE  m.seen[j] < m.seen[i]
      <4>1. n + 1 - l < n + 1 - k
        BY <2>1, <2>5, <3>3
      <4>2. events[n + 1 - l].id < events[n + 1 - k].id
        BY <1>0, <2>3, <4>1 DEF Ordered
      <4> QED BY <2>1, <3>3, <4>2
    <3>4. \A k \in 1 .. Len(page) : i = Len(old) + k => j \notin 1 .. Len(old)
      BY <2>1, <2>5
    <3> QED BY <2>1, <2>5, <3>1, <3>2, <3>3, <3>4
  <2>6. ASSUME next # 0, NEW i \in DOMAIN m.seen PROVE m.seen[i] >= next
    <3>1. n > PageLimit /\ n + 1 - PageLimit \in DOMAIN events /\ next = events[n + 1 - PageLimit].id /\ Len(page) = PageLimit
      BY <1>0, <1>4, <1>8, <2>6
    <3>2. ASSUME NEW k \in 1 .. Len(page) PROVE events[n + 1 - k].id >= next
      <4>1. k = PageLimit \/ n + 1 - PageLimit < n + 1 - k
        BY <1>0, <2>1, <3>1
      <4>2. events[n + 1 - k].id \in Nat
        BY <1>0, <2>3, RowsAre
      <4> QED BY <1>0, <1>8, <2>3, <3>1, <4>1, <4>2 DEF Ordered
    <3>3. CASE i \in 1 .. Len(old)
      <4>1. PageLimit \in 1 .. Len(page)
        BY <1>0, <3>1
      <4>2. i \in DOMAIN old /\ old[i] \in Nat
        BY <1>2, <3>3
      <4>3. next < old[i]
        BY <2>4, <3>1, <3>3, <4>1
      <4> QED BY <1>8, <2>1, <3>3, <4>2, <4>3
    <3> QED BY <2>1, <3>2, <3>3
  <2>7. ASSUME NEW x \in start, next = 0 \/ x >= next PROVE x \in ToSet(m.seen)
    <3>1. PICK j \in DOMAIN events : events[j].id = x
      BY <1>9 DEF Ids
    <3>2. x \in Nat /\ j \in 1 .. Len(events)
      BY <1>0, <3>1, RowsAre
    <3>3. CASE j <= n
      <4>1. n + 1 - j \in 1 .. Len(page)
        <5>1. CASE n <= PageLimit
          BY <1>0, <1>4, <3>2, <3>3, <5>1
        <5>2. CASE n > PageLimit
          <6>1. next = events[n + 1 - PageLimit].id /\ n + 1 - PageLimit \in DOMAIN events /\ next # 0
            BY <1>0, <1>8, <5>2, RowsAre
          <6>2. events[j].id >= events[n + 1 - PageLimit].id
            BY <2>7, <3>1, <6>1
          <6>3. ~(j < n + 1 - PageLimit)
            BY <1>0, <1>8, <3>1, <3>2, <6>1, <6>2 DEF Ordered
          <6> QED BY <1>0, <1>4, <3>2, <3>3, <5>2, <6>3
        <5> QED BY <1>0, <1>4, <5>1, <5>2
      <4>2. n + 1 - (n + 1 - j) = j
        BY <3>2
      <4>3. m.seen[Len(old) + (n + 1 - j)] = x /\ Len(old) + (n + 1 - j) \in DOMAIN m.seen
        BY <2>1, <3>1, <4>1, <4>2
      <4> HIDE DEF m
      <4> QED BY <4>3 DEF ToSet
    <3>4. CASE j > n
      <4>1. cursor # 0 /\ x >= cursor
        BY <1>0, <1>2, <1>4, <3>1, <3>2, <3>4
      <4>2. rpc[r] # "idle" /\ start = rmem[r].start
        BY <1>0, <1>1, <1>5, <4>1 DEF Served, NoWalk
      <4>3. x \in ToSet(old)
        BY <1>0, <1>1, <4>1, <4>2 DEF Served
      <4>4. PICK i \in DOMAIN old : old[i] = x
        BY <4>3 DEF ToSet
      <4>5. i \in 1 .. Len(old)
        BY <1>2
      <4> QED BY <2>1, <4>4, <4>5 DEF ToSet
    <3> QED BY <3>2, <3>3, <3>4
  <2> QED BY <1>0, <1>9, <1>13, <1>14, <2>5, <2>6, <2>7 DEF Served
<1> QED BY <1>11, <1>12, <1>15, <1>16, ReadKept DEF ReaderLabels

-----------------------------------------------------------------------------
(* What holds from the first append on.                                    *)

(* At the start the log is empty and nobody has read it.                   *)
LEMMA AuditInitial == AuditInit => AuditInv
<1> SUFFICES ASSUME AuditInit PROVE AuditInv
  OBVIOUS
<1>1. NoTx \in Transactions /\ NoTx.event = <<>> /\ NoTx.anchor = <<>>
  BY DEF NoTx, Transactions, GENESIS, Hash
<1>2. /\ NoWalk \in Walks /\ NoWalk.cursor = 0 /\ NoWalk.seen = <<>> /\ NoWalk.start = {}
      /\ NoWalk.edited = Nobody /\ NoWalk.valid /\ NoWalk.anchor = <<>>
  BY DEF NoWalk, Walks
<1>3. AuditTypes
  BY <1>1, <1>2 DEF AuditInit, AuditTypes
<1>4. Ordered /\ Spoilt
  BY <1>1 DEF AuditInit, Ordered, Spoilt
<1>5. Untouched
  BY <1>1 DEF AuditInit, Untouched, VerifyFrom
<1>6. \A r \in Readers : Found(r) /\ Served(r)
  BY <1>2 DEF AuditInit, Found, Served, Verifying
<1> QED BY <1>3, <1>4, <1>5, <1>6 DEF AuditInv

(* Every step of appenders, readers and whoever edits keeps the invariant. *)
LEMMA AuditKept == AuditInv /\ [AuditNext]_auditVars => AuditInv'
<1> SUFFICES ASSUME AuditInv, [AuditNext]_auditVars PROVE AuditInv'
  OBVIOUS
<1>1. CASE UNCHANGED auditVars
  <2>1. UNCHANGED <<events, nextId, anchors, lock, apc, amem, rpc, rmem, edit>>
    BY <1>1 DEF auditVars
  <2>2. AuditTypes' /\ Ordered'
    BY <2>1 DEF AuditInv, AuditTypes, Ordered
  <2>3. Untouched'
    <3>1. TipHash' = TipHash /\ VerifyFrom(events)' = VerifyFrom(events)
      BY <2>1 DEF TipHash, VerifyFrom
    <3> QED BY <2>1, <3>1 DEF AuditInv, Untouched, Follows, AnchorHolds
  <2> QED BY <2>1, <2>2, <2>3, LogAside DEF AuditInv
<1> QED BY <1>1, ReadTipKept, CreateEventKept, CreateCheckpointKept, CommitKept, RollbackKept,
           ReadPageKept, ReadAnchorKept, ReadAnchorEventKept, NextPageKept, EditKept DEF AuditNext

(* At any time: the log is a chain unless it was edited, and an edit       *)
(* leaves its mark.                                                        *)
THEOREM LogIsChained == AuditSpec => []AuditInv
BY AuditInitial, AuditKept, PTL DEF AuditSpec

(* A log nobody changed is never reported broken, whatever is appended,    *)
(* signed or rolled back meanwhile (lib/audit.ts, verifyAuditChain).       *)
THEOREM NoAlarmIsFalse == AuditSpec => []NoFalseAlarm
<1>1. AuditInv => NoFalseAlarm
  BY DEF AuditInv, Found, Verifying, NoFalseAlarm
<1> QED BY <1>1, LogIsChained, PTL

(* A row changed in place is reported, and so is a chain computed anew     *)
(* under a checkpoint of what it was (lib/audit.ts, verifyAuditChain).     *)
THEOREM EditsAreReported == AuditSpec => []EditReported
<1>1. AuditInv => EditReported
  <2> SUFFICES ASSUME AuditInv, NEW r \in Readers, rpc[r] = "told", rmem[r].edited # Nobody,
                      rmem[r].edited.kind = "rehash" =>
                        /\ rmem[r].anchor # <<>>
                        /\ rmem[r].anchor.lastEventId >= rmem[r].edited.id
                        /\ \E i \in 1 .. rmem[r].edited.anchors : anchors[i] = rmem[r].anchor
               PROVE  ~rmem[r].valid
    BY DEF EditReported
  <2>1. Found(r) /\ rmem[r].edited = edit /\ edit \in Made
    BY DEF AuditInv, AuditTypes, Found
  <2>2. edit.kind \in {"content", "rehash"}
    BY <2>1, AuditAssumption DEF Made
  <2> QED BY <2>1, <2>2 DEF Found, Verifying
<1> QED BY <1>1, LogIsChained, PTL

(* A walk serves newest first, no row twice, and every row there was when  *)
(* it started (lib/pagination.ts, app/api/audit/route.ts).                 *)
THEOREM WalksAreComplete == AuditSpec => []WalkComplete
<1>1. AuditInv => WalkComplete
  <2> SUFFICES ASSUME AuditInv, NEW r \in Readers
               PROVE  /\ \A i \in 2 .. Len(rmem[r].seen) : rmem[r].seen[i] < rmem[r].seen[i - 1]
                      /\ rpc[r] = "walked" => rmem[r].start \subseteq ToSet(rmem[r].seen)
    BY DEF WalkComplete
  <2>1. Served(r) /\ rmem[r].seen \in Seq(Nat)
    BY DEF AuditInv, AuditTypes, Walks
  <2>2. \A i \in 2 .. Len(rmem[r].seen) : rmem[r].seen[i] < rmem[r].seen[i - 1]
    BY <2>1 DEF Served
  <2>3. rpc[r] = "walked" => rmem[r].start \subseteq ToSet(rmem[r].seen)
    BY <2>1 DEF Served
  <2> QED BY <2>2, <2>3
<1> QED BY <1>1, LogIsChained, PTL

-----------------------------------------------------------------------------
(* The rate limiter.                                                       *)

(* What the limiter still has of a caller's admissions by a time: all but  *)
(* some of the first, which are older than the window.                     *)
Remembers(h, a, t) ==
  \E d \in 0 .. Len(a) :
    /\ Len(h) = Len(a) - d
    /\ \A j \in 1 .. Len(h) : h[j] = a[d + j]
    /\ \A j \in 1 .. d : a[j] <= t - Window

Timed(a, t) == \A j \in 1 .. Len(a) : a[j] <= t /\ \A i \in 1 .. j : a[i] <= a[j]
Spaced(a, limit) == \A i \in 1 .. Len(a) : i > limit => a[i] - a[i - limit] >= Window

WindowInv ==
  /\ now \in Nat
  /\ gate \in GateWorlds
  /\ hits \in [Callers -> Seq(Nat)]
  /\ admitted \in [Callers -> Seq(Nat)]
  /\ \A c \in Callers :
       Remembers(hits[c], admitted[c], now) /\ Timed(admitted[c], now) /\ Spaced(admitted[c], gate.limit)

(* Hits older than the window are forgotten.                               *)
LEMMA ForgetsOld ==
  ASSUME NEW a \in Seq(Nat), NEW h \in Seq(Nat), NEW t \in Nat, Remembers(h, a, t),
         NEW k \in 0 .. Len(h), \A j \in 1 .. k : h[j] <= t - Window
  PROVE  /\ SubSeq(h, k + 1, Len(h)) \in Seq(Nat)
         /\ Remembers(SubSeq(h, k + 1, Len(h)), a, t)
<1>0. Window \in Nat
  BY GateAssumption
<1>1. PICK r \in Seq(Nat) : /\ r = SubSeq(h, k + 1, Len(h)) /\ Len(r) = Len(h) - k
                            /\ \A j \in 1 .. Len(r) : r[j] = h[k + j]
  <2>1. SubSeq(h, k + 1, Len(h)) \in Seq(Nat)
    OBVIOUS
  <2>2. Len(SubSeq(h, k + 1, Len(h))) = Len(h) - k
    OBVIOUS
  <2>3. \A j \in 1 .. Len(h) - k : SubSeq(h, k + 1, Len(h))[j] = h[k + j]
    OBVIOUS
  <2> QED BY <2>1, <2>2, <2>3
<1>2. PICK d \in 0 .. Len(a) : /\ Len(h) = Len(a) - d
                               /\ \A j \in 1 .. Len(h) : h[j] = a[d + j]
                               /\ \A j \in 1 .. d : a[j] <= t - Window
  BY DEF Remembers
<1>3. d + k \in 0 .. Len(a) /\ Len(r) = Len(a) - (d + k) /\ Len(a) \in Nat /\ Len(h) \in Nat
  BY <1>1, <1>2
<1>4. ASSUME NEW j \in 1 .. Len(r) PROVE r[j] = a[(d + k) + j]
  <2>1. k + j \in 1 .. Len(h) /\ d + (k + j) = (d + k) + j
    BY <1>1, <1>2, <1>3
  <2> QED BY <1>1, <1>2, <2>1
<1>5. ASSUME NEW j \in 1 .. d + k PROVE a[j] <= t - Window
  <2>1. CASE j \in 1 .. d
    BY <1>2, <2>1
  <2>2. CASE j \notin 1 .. d
    <3>1. j - d \in 1 .. k /\ j - d \in 1 .. Len(h) /\ d + (j - d) = j
      BY <1>2, <1>3, <2>2
    <3> QED BY <1>2, <3>1
  <2> QED BY <2>1, <2>2
<1> QED BY <1>1, <1>3, <1>4, <1>5 DEF Remembers

(* Time passes: what was older than the window still is.                   *)
LEMMA TimePasses ==
  ASSUME NEW a \in Seq(Nat), NEW h \in Seq(Nat), NEW t \in Nat, NEW u \in Nat, t <= u,
         Remembers(h, a, t), Timed(a, t)
  PROVE  Remembers(h, a, u) /\ Timed(a, u)
<1>0. Window \in Nat /\ Len(a) \in Nat /\ \A j \in 1 .. Len(a) : a[j] \in Nat
  BY GateAssumption
<1>1. Remembers(h, a, u)
  <2>1. PICK d \in 0 .. Len(a) : /\ Len(h) = Len(a) - d
                                 /\ \A j \in 1 .. Len(h) : h[j] = a[d + j]
                                 /\ \A j \in 1 .. d : a[j] <= t - Window
    BY DEF Remembers
  <2>2. ASSUME NEW j \in 1 .. d PROVE a[j] <= u - Window
    <3>1. a[j] \in Nat /\ a[j] <= t - Window
      BY <1>0, <2>1
    <3> QED BY <1>0, <3>1
  <2> QED BY <2>1, <2>2 DEF Remembers
<1>2. Timed(a, u)
  BY <1>0 DEF Timed
<1> QED BY <1>1, <1>2

(* A hit of now, when fewer than the limit are remembered.                 *)
LEMMA OneMoreAdmitted ==
  ASSUME NEW a \in Seq(Nat), NEW r \in Seq(Nat), NEW t \in Nat, NEW limit \in Nat,
         Remembers(r, a, t), Timed(a, t), Spaced(a, limit), Len(r) < limit
  PROVE  /\ Append(a, t) \in Seq(Nat) /\ Append(r, t) \in Seq(Nat)
         /\ Remembers(Append(r, t), Append(a, t), t)
         /\ Timed(Append(a, t), t)
         /\ Spaced(Append(a, t), limit)
<1>0. Window \in Nat /\ Len(a) \in Nat /\ Len(r) \in Nat /\ \A j \in 1 .. Len(a) : a[j] \in Nat
  BY GateAssumption
<1>1. PICK d \in 0 .. Len(a) : /\ Len(r) = Len(a) - d
                               /\ \A j \in 1 .. Len(r) : r[j] = a[d + j]
                               /\ \A j \in 1 .. d : a[j] <= t - Window
  BY DEF Remembers
<1>2. PICK b \in Seq(Nat) : b = Append(a, t) /\ Len(b) = Len(a) + 1 /\ b[Len(a) + 1] = t
                            /\ \A i \in 1 .. Len(a) : b[i] = a[i]
  <2>1. /\ Append(a, t) \in Seq(Nat) /\ Len(Append(a, t)) = Len(a) + 1 /\ Append(a, t)[Len(a) + 1] = t
        /\ \A i \in 1 .. Len(a) : Append(a, t)[i] = a[i]
    BY Appended
  <2> QED BY <2>1
<1>3. PICK s \in Seq(Nat) : s = Append(r, t) /\ Len(s) = Len(r) + 1 /\ s[Len(r) + 1] = t
                            /\ \A i \in 1 .. Len(r) : s[i] = r[i]
  <2>1. /\ Append(r, t) \in Seq(Nat) /\ Len(Append(r, t)) = Len(r) + 1 /\ Append(r, t)[Len(r) + 1] = t
        /\ \A i \in 1 .. Len(r) : Append(r, t)[i] = r[i]
    BY Appended
  <2> QED BY <2>1
<1>4. Remembers(s, b, t)
  <2>1. d \in 0 .. Len(b) /\ Len(s) = Len(b) - d
    BY <1>0, <1>1, <1>2, <1>3
  <2>2. ASSUME NEW j \in 1 .. Len(s) PROVE s[j] = b[d + j]
    <3>1. CASE j \in 1 .. Len(r)
      <4>1. d + j \in 1 .. Len(a)
        BY <1>0, <1>1, <3>1
      <4> QED BY <1>1, <1>2, <1>3, <3>1, <4>1
    <3>2. CASE j = Len(r) + 1
      <4>1. d + j = Len(a) + 1
        BY <1>0, <1>1, <3>2
      <4> QED BY <1>2, <1>3, <3>2, <4>1
    <3> QED BY <1>0, <1>3, <3>1, <3>2
  <2>3. \A j \in 1 .. d : b[j] <= t - Window
    BY <1>0, <1>1, <1>2
  <2> QED BY <2>1, <2>2, <2>3 DEF Remembers
<1>5. Timed(b, t)
  BY <1>0, <1>2 DEF Timed
<1>6. Spaced(b, limit)
  <2>1. ASSUME NEW i \in 1 .. Len(a), i > limit PROVE b[i] - b[i - limit] >= Window
    <3>1. i - limit \in 1 .. Len(a)
      BY <1>0, <2>1
    <3> QED BY <1>2, <2>1, <3>1 DEF Spaced
  <2>2. ASSUME NEW n \in Nat, n = Len(a), n + 1 > limit PROVE b[n + 1] - b[n + 1 - limit] >= Window
    <3>1. n + 1 - limit \in 1 .. d /\ n + 1 - limit \in 1 .. n
      BY <1>0, <1>1, <2>2
    <3>2. a[n + 1 - limit] \in Nat /\ a[n + 1 - limit] <= t - Window
      BY <1>0, <1>1, <2>2, <3>1
    <3>3. b[n + 1 - limit] = a[n + 1 - limit] /\ b[n + 1] = t
      BY <1>2, <2>2, <3>1
    <3> QED BY <1>0, <3>2, <3>3
  <2>3. ASSUME NEW i \in 1 .. Len(b) PROVE i \in 1 .. Len(a) \/ i = Len(a) + 1
    BY <1>0, <1>2
  <2>4. Len(a) + 1 > limit => b[Len(a) + 1] - b[Len(a) + 1 - limit] >= Window
    BY <1>0, <2>2
  <2>5. ASSUME NEW i \in 1 .. Len(b), i > limit PROVE b[i] - b[i - limit] >= Window
    <3>1. CASE i \in 1 .. Len(a)
      BY <2>1, <2>5, <3>1
    <3>2. CASE i = Len(a) + 1
      BY ONLY <2>4, <2>5, <3>2
    <3> QED BY <2>3, <3>1, <3>2
  <2> QED BY <2>5 DEF Spaced
<1> QED BY <1>2, <1>3, <1>4, <1>5, <1>6

(* What the limiter remembers within the window (lib/rate-limit.ts).       *)
LEMMA RecentIs ==
  ASSUME WindowInv, NEW c \in Callers
  PROVE  Recent(c) \in Seq(Nat) /\ Remembers(Recent(c), admitted[c], now)
<1> DEFINE t == now - Window
           B == {i \in DOMAIN hits[c] : hits[c][i] <= t}
           k == HitsUntil(c, t)
<1>0. /\ hits[c] \in Seq(Nat) /\ admitted[c] \in Seq(Nat) /\ now \in Nat /\ Window \in Nat
      /\ Remembers(hits[c], admitted[c], now) /\ Timed(admitted[c], now)
  BY GateAssumption DEF WindowInv
<1>1. Len(hits[c]) \in Nat /\ B \in SUBSET (1 .. Len(hits[c]))
  BY <1>0
<1>2. k \in {0} \union B
  <2>1. Max({0} \union B) \in {0} \union B
    <3> HIDE DEF B
    <3> QED BY <1>1, LargestIndex
  <2> QED BY <2>1 DEF HitsUntil
<1> HIDE DEF k
<1>3. k \in 0 .. Len(hits[c])
  BY <1>1, <1>2
<1>4. ASSUME NEW j \in 1 .. k PROVE hits[c][j] <= t
  <2>1. k \in B /\ hits[c][k] <= t /\ k \in 1 .. Len(hits[c]) /\ j \in 1 .. Len(hits[c])
    BY <1>1, <1>2, <1>3
  <2>2. PICK d \in 0 .. Len(admitted[c]) :
          /\ Len(hits[c]) = Len(admitted[c]) - d
          /\ \A i \in 1 .. Len(hits[c]) : hits[c][i] = admitted[c][d + i]
    BY <1>0 DEF Remembers
  <2>3. d + k \in 1 .. Len(admitted[c]) /\ d + j \in 1 .. d + k
    <3>1. Len(admitted[c]) \in Nat /\ Len(hits[c]) \in Nat
      BY <1>0
    <3> QED BY <1>3, <2>1, <2>2, <3>1
  <2>4. admitted[c][d + j] <= admitted[c][d + k]
    BY <1>0, <2>3 DEF Timed
  <2>5. hits[c][j] \in Nat /\ hits[c][k] \in Nat
    BY <1>0, <2>1
  <2>6. hits[c][j] = admitted[c][d + j] /\ hits[c][k] = admitted[c][d + k]
    BY <2>1, <2>2
  <2>7. t \in Int
    BY <1>0
  <2> HIDE DEF t, B
  <2>8. hits[c][j] <= hits[c][k]
    BY <2>4, <2>6
  <2>9. hits[c][k] <= t
    BY <2>1
  <2> QED BY <2>5, <2>7, <2>8, <2>9
<1>5. Recent(c) = SubSeq(hits[c], k + 1, Len(hits[c]))
  BY DEF Recent, k
<1> QED BY <1>0, <1>3, <1>4, <1>5, ForgetsOld

(* A caller's hits, recorded or refused.                                   *)
Counted(c, h, a) ==
  /\ h \in Seq(Nat) /\ a \in Seq(Nat)
  /\ Remembers(h, a, now) /\ Timed(a, now) /\ Spaced(a, gate.limit)

(* A sweep forgets only callers with nothing in the window.                *)
LEMMA SweepForgets ==
  ASSUME NEW c, NEW h, NEW a, Counted(c, h, a), h # <<>>, Last(h) <= now - Window, now \in Nat
  PROVE  Counted(c, <<>>, a)
<1>0. h \in Seq(Nat) /\ a \in Seq(Nat) /\ Window \in Nat /\ Len(h) \in 1 .. Len(h)
  BY GateAssumption DEF Counted
<1>1. PICK d \in 0 .. Len(a) : /\ Len(h) = Len(a) - d
                               /\ \A i \in 1 .. Len(h) : h[i] = a[d + i]
  BY DEF Counted, Remembers
<1>2. \A j \in 1 .. Len(h) : h[j] <= h[Len(h)]
  <2> SUFFICES ASSUME NEW j \in 1 .. Len(h) PROVE h[j] <= h[Len(h)]
    OBVIOUS
  <2>1. d + Len(h) \in 1 .. Len(a) /\ d + j \in 1 .. d + Len(h)
    BY <1>0, <1>1
  <2>2. a[d + j] <= a[d + Len(h)]
    BY <2>1 DEF Counted, Timed
  <2> QED BY <1>0, <1>1, <2>2
<1>3. \A j \in 1 .. Len(h) : h[j] <= now - Window
  BY <1>0, <1>2 DEF Last
<1>4. SubSeq(h, Len(h) + 1, Len(h)) = <<>>
  BY <1>0
<1>5. Remembers(<<>>, a, now)
  <2>1. Len(h) \in 0 .. Len(h)
    BY <1>0
  <2> QED BY <1>0, <1>3, <1>4, <2>1, ForgetsOld DEF Counted
<1> QED BY <1>5 DEF Counted

(* A write is counted and admitted, or refused (consumeRateLimit).         *)
LEMMA ConsumeKept ==
  ASSUME WindowInv, NEW c \in Callers, Refuses(c) \/ Admits(c), UNCHANGED <<now, gate>>
  PROVE  WindowInv'
<1>0. /\ hits \in [Callers -> Seq(Nat)] /\ admitted \in [Callers -> Seq(Nat)] /\ now \in Nat /\ gate \in GateWorlds
      /\ gate.limit \in Nat /\ Window \in Nat /\ Window > 0
  BY GateAssumption DEF WindowInv
<1>1. \A b \in Callers : Counted(b, hits[b], admitted[b])
  BY DEF WindowInv, Counted
<1>2. PICK r \in Seq(Nat) : r = Recent(c) /\ Remembers(r, admitted[c], now)
  BY RecentIs
<1>3. SUFFICES /\ hits' \in [Callers -> Seq(Nat)] /\ admitted' \in [Callers -> Seq(Nat)]
               /\ \A b \in Callers : Counted(b, hits'[b], admitted'[b])
  BY <1>0 DEF WindowInv, Counted
<1>4. CASE Refuses(c)
  <2>1. hits' = [hits EXCEPT ![c] = r] /\ admitted' = admitted
    BY <1>2, <1>4 DEF Refuses
  <2>2. Counted(c, r, admitted[c])
    BY <1>1, <1>2 DEF Counted
  <2> QED BY <1>0, <1>1, <1>2, <2>1, <2>2
<1>5. CASE Admits(c)
  <2> DEFINE h == [hits EXCEPT ![c] = Append(r, now)]
             a == [admitted EXCEPT ![c] = Append(@, now)]
             Old(b) == h[b] = <<>> \/ Last(h[b]) <= now - Window
  <2>1. Len(r) < gate.limit /\ hits' = Sweep(h) /\ admitted' = a
    BY <1>2, <1>5 DEF Admits
  <2>2. Counted(c, Append(r, now), Append(admitted[c], now))
    <3>1. admitted[c] \in Seq(Nat) /\ Timed(admitted[c], now) /\ Spaced(admitted[c], gate.limit)
      BY <1>1 DEF Counted
    <3> QED BY <1>0, <1>2, <2>1, <3>1, OneMoreAdmitted DEF Counted
  <2>3. h[c] = Append(r, now) /\ a[c] = Append(admitted[c], now)
        /\ \A b \in Callers : b # c => h[b] = hits[b] /\ a[b] = admitted[b]
    BY <1>0
  <2>4. \A b \in Callers : Counted(b, h[b], a[b])
    BY <1>1, <2>2, <2>3
  <2>5. h \in [Callers -> Seq(Nat)] /\ a \in [Callers -> Seq(Nat)]
    <3>1. Append(r, now) \in Seq(Nat) /\ Append(admitted[c], now) \in Seq(Nat)
      BY <2>2 DEF Counted
    <3> QED BY <1>0, <3>1
  <2> HIDE DEF h, a
  <2>6. CASE sinceSweep + 1 < SweepEvery
    <3>1. hits' = h
      BY <2>1, <2>6 DEF Sweep
    <3> QED BY <2>1, <2>4, <2>5, <3>1
  <2>7. CASE ~(sinceSweep + 1 < SweepEvery)
    <3>1. hits' = [b \in Callers |-> IF Old(b) THEN <<>> ELSE h[b]]
      BY <2>1, <2>7 DEF Sweep
    <3>2. ASSUME NEW b \in Callers PROVE Counted(b, hits'[b], a[b])
      <4>1. Counted(b, h[b], a[b])
        BY <2>4
      <4>2. CASE h[b] = <<>>
        BY <3>1, <4>1, <4>2
      <4>3. CASE h[b] # <<>> /\ Last(h[b]) <= now - Window
        BY <1>0, <3>1, <4>1, <4>3, SweepForgets
      <4>4. CASE ~Old(b)
        BY <3>1, <4>1, <4>4
      <4> QED BY <4>2, <4>3, <4>4
    <3>3. hits' \in [Callers -> Seq(Nat)]
      <4>1. \A b \in Callers : hits'[b] \in Seq(Nat)
        BY <3>2 DEF Counted
      <4> HIDE DEF Old
      <4>2. \A b \in Callers : (IF Old(b) THEN <<>> ELSE h[b]) \in Seq(Nat)
        BY <3>1, <4>1
      <4> QED BY <3>1, <4>2
    <3> QED BY <2>1, <2>5, <3>2, <3>3
  <2> QED BY <2>6, <2>7
<1> QED BY <1>4, <1>5

(* At the start nothing has been admitted.                                 *)
LEMMA WindowInitial == GateInit => WindowInv
<1> SUFFICES ASSUME GateInit PROVE WindowInv
  OBVIOUS
<1>1. <<>> \in Seq(Nat) /\ Remembers(<<>>, <<>>, 0) /\ Timed(<<>>, 0) /\ Spaced(<<>>, gate.limit)
  BY DEF Remembers, Timed, Spaced
<1> QED BY <1>1 DEF GateInit, WindowInv

(* Every step of every request keeps the window.                           *)
LEMMA WindowKept == WindowInv /\ [GateNext]_gateVars => WindowInv'
<1> SUFFICES ASSUME WindowInv, [GateNext]_gateVars PROVE WindowInv'
  OBVIOUS
<1>1. ASSUME UNCHANGED <<now, gate, hits, admitted>> PROVE WindowInv'
  BY <1>1 DEF WindowInv
<1>2. ASSUME NEW r \in Requests, Arrive(r) PROVE WindowInv'
  <2>1. PICK x \in gate.arrivals : Refuses(x.caller) \/ Admits(x.caller)
    BY <1>2 DEF Arrive
  <2>2. x.caller \in Callers /\ UNCHANGED <<now, gate>>
    BY <1>2, GateAssumption DEF Arrive, WindowInv
  <2> QED BY <2>1, <2>2, ConsumeKept
<1>3. ASSUME NEW r \in Requests, GateStep(r), ~Arrive(r) PROVE WindowInv'
  BY <1>1, <1>3 DEF GateStep, CreateRecord, Look, Reclaim, Handle, Complete, Abandon
<1>4. CASE GateCrash
  <2>1. Remembers(<<>>, <<>>, now) /\ Timed(<<>>, now) /\ Spaced(<<>>, gate.limit) /\ <<>> \in Seq(Nat)
    BY DEF Remembers, Timed, Spaced
  <2> QED BY <1>4, <2>1 DEF GateCrash, WindowInv
<1>5. CASE Tick
  <2>1. now \in Nat /\ now' = now + 1 /\ now <= now + 1 /\ UNCHANGED <<hits, admitted, gate>>
    BY <1>5 DEF WindowInv, Tick
  <2>2. ASSUME NEW c \in Callers
        PROVE  Remembers(hits[c], admitted[c], now + 1) /\ Timed(admitted[c], now + 1)
    BY <2>1, TimePasses DEF WindowInv
  <2> QED BY <2>1, <2>2 DEF WindowInv
<1>6. CASE UNCHANGED gateVars
  BY <1>1, <1>6 DEF gateVars
<1> QED BY <1>2, <1>3, <1>4, <1>5, <1>6 DEF GateNext

(* At any time the limiter has every admission of the window.              *)
THEOREM WindowIsKept == GateSpec => []WindowInv
BY WindowInitial, WindowKept, PTL DEF GateSpec

(* However arrivals fall and sweeps run, no stretch of one window admits   *)
(* more writes of a caller than the limit (lib/rate-limit.ts).             *)
THEOREM LimitHolds == GateSpec => []WindowHolds
<1>1. WindowInv => WindowHolds
  <2> SUFFICES ASSUME WindowInv, NEW c \in Callers, NEW i \in DOMAIN admitted[c], i > gate.limit
               PROVE  admitted[c][i] - admitted[c][i - gate.limit] >= Window
    BY DEF WindowHolds
  <2>1. admitted[c] \in Seq(Nat) /\ Spaced(admitted[c], gate.limit)
    BY DEF WindowInv
  <2>2. i \in 1 .. Len(admitted[c])
    BY <2>1
  <2> QED BY <2>1, <2>2 DEF Spaced
<1> QED BY <1>1, WindowIsKept, PTL

-----------------------------------------------------------------------------
(* The credentials.                                                        *)

Places == {"idle", "find", "create", "verify", "check", "resolve", "store", "told"}
LoginAnswers ==
  {"none", "unauthorized", "forbidden", "misconfigured", "signedIn", "session", "changed", "internal"}

Memory ==
  [password : Passwords \union {Unset}, new : Passwords \union {Unset},
   answer : LoginAnswers, during : SUBSET (Passwords \union {Unset})]

CredentialsTypeOK ==
  /\ credential \in Passwords \union {Unset}
  /\ environment \in [password : Passwords \union {Unset}, key : Nat]
  /\ cpc \in [Clients -> Places]
  /\ cmem \in [Clients -> Memory]

(* Places where a request has still to look at the credential, or acts on  *)
(* what it saw there.                                                      *)
Asking == {"find", "create", "verify", "check", "resolve", "store"}
Verified == {"resolve", "store"}

(* A request in progress knows every password that was in force since it   *)
(* arrived, and its own is one of them from the moment it is verified.     *)
Followed(c) ==
  /\ cpc[c] \in Asking => credential \in cmem[c].during
  /\ cpc[c] \in Verified => cmem[c].password \in cmem[c].during
  /\ cmem[c].answer \in {"session", "changed"} => cmem[c].password \in cmem[c].during

ForceInv ==
  /\ CredentialsTypeOK
  /\ credential = chosen
  /\ \A c \in Clients : Followed(c)

(* A request that is answered or forgotten follows nothing any more.       *)
LEMMA ForceHoldsInitially == CredentialsInit => ForceInv
<1> SUFFICES ASSUME CredentialsInit PROVE ForceInv
  OBVIOUS
<1>1. NoRequest \in Memory
  BY DEF NoRequest, Memory, LoginAnswers
<1>2. CredentialsTypeOK
  BY <1>1, CredentialsAssumption DEF CredentialsInit, CredentialsTypeOK, Places
<1>3. ASSUME NEW c \in Clients PROVE Followed(c)
  BY DEF CredentialsInit, Followed, NoRequest, Asking, Verified
<1> QED BY <1>2, <1>3 DEF CredentialsInit, ForceInv

(* A step of one request that leaves the credential alone.                 *)
LEMMA OneMoves ==
  ASSUME ForceInv, NEW c \in Clients, NEW l \in Places, NEW m \in Memory,
         UNCHANGED <<credential, environment, chosen>>,
         ClientGo(c, l), cmem' = [cmem EXCEPT ![c] = m],
         l \in Asking => credential \in m.during,
         l \in Verified => m.password \in m.during,
         m.answer \in {"session", "changed"} => m.password \in m.during
  PROVE  ForceInv'
<1>1. cpc' \in [Clients -> Places] /\ cmem' \in [Clients -> Memory]
  BY DEF ForceInv, CredentialsTypeOK, ClientGo
<1>2. cpc'[c] = l /\ cmem'[c] = m
  BY DEF ForceInv, CredentialsTypeOK, ClientGo
<1>3. \A d \in Clients \ {c} : cpc'[d] = cpc[d] /\ cmem'[d] = cmem[d]
  BY DEF ForceInv, CredentialsTypeOK, ClientGo
<1>4. CredentialsTypeOK'
  BY <1>1 DEF ForceInv, CredentialsTypeOK
<1>5. ASSUME NEW d \in Clients PROVE Followed(d)'
  <2>1. CASE d = c
    BY <2>1, <1>2 DEF Followed
  <2>2. CASE d # c
    BY <2>2, <1>3 DEF ForceInv, Followed
  <2> QED BY <2>1, <2>2
<1> QED BY <1>4, <1>5 DEF ForceInv

(* A password stored is in force for every request in progress.            *)
LEMMA OneChooses ==
  ASSUME ForceInv, NEW c \in Clients, NEW l \in Places, NEW answer \in LoginAnswers,
         NEW password \in Passwords \union {Unset},
         cpc[c] # "idle", Choose(password, c, answer), ClientGo(c, l),
         UNCHANGED environment,
         l \in Verified \/ answer \in {"session", "changed"} => cmem[c].password \in cmem[c].during
  PROVE  ForceInv'
<1> DEFINE next(d) ==
      IF cpc[d] = "idle" THEN cmem[d]
      ELSE [password |-> cmem[d].password, new |-> cmem[d].new,
            during |-> cmem[d].during \union {password},
            answer |-> IF d = c THEN answer ELSE cmem[d].answer]
<1>1. cmem' = [d \in Clients |-> next(d)] /\ credential' = password /\ chosen' = password
  BY DEF Choose
<1>2. \A d \in Clients : next(d) \in Memory
  BY DEF ForceInv, CredentialsTypeOK, Memory
<1>3. cpc' = [cpc EXCEPT ![c] = l] /\ cpc' \in [Clients -> Places]
  BY DEF ClientGo, ForceInv, CredentialsTypeOK
<1>4. CredentialsTypeOK'
  BY <1>1, <1>2, <1>3 DEF ForceInv, CredentialsTypeOK
<1>5. ASSUME NEW d \in Clients PROVE Followed(d)'
  <2> USE DEF ForceInv, CredentialsTypeOK, Memory
  <2>1. CASE cpc[d] = "idle"
    <3>1. d # c /\ cpc'[d] = "idle" /\ cmem'[d] = cmem[d]
      BY <2>1, <1>1, <1>3
    <3> QED BY <3>1 DEF Followed, Asking, Verified
  <2>2. CASE cpc[d] # "idle"
    <3>1. /\ cmem'[d].during = cmem[d].during \union {password}
          /\ cmem'[d].password = cmem[d].password
          /\ cmem'[d].answer = IF d = c THEN answer ELSE cmem[d].answer
      BY <2>2, <1>1
    <3>2. cpc'[d] = IF d = c THEN l ELSE cpc[d]
      BY <1>3
    <3> QED BY <3>1, <3>2, <1>1 DEF Followed
  <2> QED BY <2>1, <2>2
<1> QED BY <1>1, <1>4, <1>5 DEF ForceInv

(* A request is answered; what it says it did, it did with a password that *)
(* was in force.                                                           *)
LEMMA RequestAnswered ==
  ASSUME ForceInv, NEW c \in Clients, NEW a \in LoginAnswers, Answer(c, a),
         UNCHANGED <<credential, environment, chosen>>,
         a \in {"session", "changed"} => cmem[c].password \in cmem[c].during
  PROVE  ForceInv'
<1> DEFINE m == [cmem[c] EXCEPT !.answer = a]
<1>1. cmem[c] \in Memory
  BY DEF ForceInv, CredentialsTypeOK
<1>2. m \in Memory /\ m.answer = a /\ m.password = cmem[c].password /\ m.during = cmem[c].during
  BY <1>1 DEF Memory
<1>3. cmem' = [cmem EXCEPT ![c] = m] /\ ClientGo(c, "told")
  BY DEF Answer
<1> HIDE DEF m
<1> QED BY <1>2, <1>3, OneMoves DEF Asking, Verified, Places

-----------------------------------------------------------------------------
(* The requests, one by one.                                               *)

(* Signing in, up to its answer, and a key looked up (lib/admin-auth.ts).  *)
LEMMA LoginKeepsForce ==
  ASSUME ForceInv, NEW c \in Clients,
         \/ Login(c) \/ FindCredential(c) \/ CreateCredential(c) \/ VerifyLogin(c) \/ ResolveKey(c)
  PROVE  ForceInv'
<1>0. cmem[c] \in Memory /\ cmem = [cmem EXCEPT ![c] = cmem[c]] /\ Followed(c) /\ credential = chosen
  BY DEF ForceInv, CredentialsTypeOK
<1>1. CASE Login(c)
  <2>1. PICK password \in Passwords : cmem' = [cmem EXCEPT ![c] = Asked(password, Unset)]
    BY <1>1 DEF Login
  <2>2. /\ Asked(password, Unset) \in Memory
        /\ Asked(password, Unset).answer = "none"
        /\ Asked(password, Unset).during = {credential}
    BY <1>0, <1>1 DEF Asked, Memory, LoginAnswers, ForceInv, CredentialsTypeOK
  <2>3. ClientGo(c, "find") /\ UNCHANGED <<credential, environment, chosen>>
    BY <1>1 DEF Login
  <2> QED BY <2>1, <2>2, <2>3, OneMoves DEF Verified, Places
<1>2. CASE FindCredential(c)
  <2>1. cpc[c] \in Asking /\ UNCHANGED <<credential, environment, chosen>>
    BY <1>2 DEF FindCredential, Asking
  <2>2. ASSUME UNCHANGED cmem, NEW l \in {"verify", "create"}, ClientGo(c, l) PROVE ForceInv'
    BY <1>0, <2>1, <2>2, OneMoves DEF Followed, Verified, Places
  <2>3. CASE Answer(c, "misconfigured")
    BY <2>1, <2>3, RequestAnswered DEF LoginAnswers
  <2> QED BY <1>2, <2>2, <2>3 DEF FindCredential
<1>3. CASE CreateCredential(c)
  <2>1. CASE credential = Unset
    <3>1. /\ cpc[c] # "idle" /\ Choose(environment.password, c, "none") /\ ClientGo(c, "verify")
          /\ environment.password \in Passwords \union {Unset} /\ UNCHANGED environment
      BY <1>3, <2>1 DEF CreateCredential, ForceInv, CredentialsTypeOK
    <3> QED BY <3>1, OneChooses DEF Verified, Places, LoginAnswers
  <2>2. CASE credential # Unset
    <3>1. /\ cpc[c] \in Asking /\ ClientGo(c, "verify")
          /\ UNCHANGED <<cmem, credential, environment, chosen>>
      BY <1>3, <2>2 DEF CreateCredential, AfterRace, Asking
    <3> QED BY <1>0, <3>1, OneMoves DEF Followed, Verified, Places
  <2> QED BY <2>1, <2>2
<1>4. CASE VerifyLogin(c)
  <2>1. cpc[c] \in Asking /\ UNCHANGED <<credential, environment, chosen>>
    BY <1>4 DEF VerifyLogin, Asking
  <2>2. CASE cmem[c].password = credential
    <3>1. UNCHANGED cmem /\ ClientGo(c, "resolve")
      BY <1>4, <2>2 DEF VerifyLogin
    <3> QED BY <1>0, <2>1, <2>2, <3>1, OneMoves DEF Followed, Places
  <2>3. CASE Answer(c, "unauthorized")
    BY <2>1, <2>3, RequestAnswered DEF LoginAnswers
  <2> QED BY <1>4, <2>2, <2>3 DEF VerifyLogin
<1>5. CASE ResolveKey(c)
  <2>1. cpc[c] \in Verified /\ UNCHANGED <<credential, environment, chosen>>
    BY <1>5 DEF ResolveKey, Verified
  <2>2. PICK a \in {"session", "misconfigured"} : Answer(c, a)
    BY <1>5 DEF ResolveKey
  <2> QED BY <1>0, <2>1, <2>2, RequestAnswered DEF Followed, LoginAnswers
<1> QED BY <1>1, <1>2, <1>3, <1>4, <1>5

(* Signing in by key, changing the password, and the next request.         *)
LEMMA ChangeKeepsForce ==
  ASSUME ForceInv, NEW c \in Clients,
         KeyLogin(c) \/ ChangePassword(c) \/ CheckCurrent(c) \/ StorePassword(c) \/ NextRequest(c)
  PROVE  ForceInv'
<1>0. cmem[c] \in Memory /\ cmem = [cmem EXCEPT ![c] = cmem[c]] /\ Followed(c) /\ credential = chosen
  BY DEF ForceInv, CredentialsTypeOK
<1>1. CASE KeyLogin(c)
  <2>1. PICK a \in {"unauthorized", "signedIn"} : Answer(c, a)
    BY <1>1 DEF KeyLogin
  <2> QED BY <1>1, <2>1, RequestAnswered DEF KeyLogin, LoginAnswers
<1>2. CASE ChangePassword(c)
  <2>1. UNCHANGED <<credential, environment, chosen>>
    BY <1>2 DEF ChangePassword
  <2>2. ASSUME NEW password \in Passwords, NEW new \in Passwords,
               cmem' = [cmem EXCEPT ![c] = Asked(password, new)], ClientGo(c, "check")
        PROVE  ForceInv'
    <3>1. /\ Asked(password, new) \in Memory
          /\ Asked(password, new).answer = "none"
          /\ Asked(password, new).during = {credential}
      BY <1>0 DEF Asked, Memory, LoginAnswers, ForceInv, CredentialsTypeOK
    <3> QED BY <2>1, <2>2, <3>1, OneMoves DEF Verified, Places
  <2>3. ASSUME NEW a \in {"unauthorized", "forbidden"}, Answer(c, a) PROVE ForceInv'
    BY <2>1, <2>3, RequestAnswered DEF LoginAnswers
  <2>4. \A principal : Refusal(principal) \in {"unauthorized", "forbidden"}
    BY DEF Refusal
  <2> QED BY <1>2, <2>2, <2>3, <2>4 DEF ChangePassword
<1>3. CASE CheckCurrent(c)
  <2>1. cpc[c] \in Asking /\ UNCHANGED <<credential, environment, chosen>>
    BY <1>3 DEF CheckCurrent, Asking
  <2>2. CASE CurrentOk(c) /\ ClientGo(c, "store") /\ UNCHANGED cmem
    BY <1>0, <2>1, <2>2, OneMoves DEF Followed, CurrentOk, Places
  <2>3. ASSUME NEW a \in {"misconfigured", "unauthorized"}, Answer(c, a) PROVE ForceInv'
    BY <2>1, <2>3, RequestAnswered DEF LoginAnswers
  <2> QED BY <1>3, <2>2, <2>3 DEF CheckCurrent
<1>4. CASE StorePassword(c)
  <2>1. cpc[c] \in Verified /\ cpc[c] # "idle" /\ UNCHANGED environment
    BY <1>4 DEF StorePassword, Verified
  <2>2. CASE Choose(cmem[c].new, c, "changed") /\ ClientGo(c, "told")
    <3>1. cmem[c].new \in Passwords \union {Unset} /\ cmem[c].password \in cmem[c].during
      BY <1>0, <2>1 DEF Memory, Followed
    <3> QED BY <2>1, <2>2, <3>1, OneChooses DEF Places, LoginAnswers
  <2>3. CASE Answer(c, "internal") /\ UNCHANGED <<credential, chosen>>
    BY <2>1, <2>3, RequestAnswered DEF LoginAnswers
  <2> QED BY <1>4, <2>2, <2>3 DEF StorePassword
<1>5. CASE NextRequest(c)
  <2>1. NoRequest \in Memory /\ NoRequest.answer = "none"
    BY DEF NoRequest, Memory, LoginAnswers
  <2>2. /\ ClientGo(c, "idle") /\ cmem' = [cmem EXCEPT ![c] = NoRequest]
        /\ UNCHANGED <<credential, environment, chosen>>
    BY <1>5 DEF NextRequest
  <2> QED BY <2>1, <2>2, OneMoves DEF Asking, Verified, Places
<1> QED BY <1>1, <1>2, <1>3, <1>4, <1>5

(* A restart forgets every request in progress, with another environment.  *)
LEMMA RestartKeepsForce == ASSUME ForceInv, Restart PROVE ForceInv'
<1>1. NoRequest \in Memory
  BY DEF NoRequest, Memory, LoginAnswers
<1>2. /\ cpc' = [c \in Clients |-> "idle"] /\ cmem' = [c \in Clients |-> NoRequest]
      /\ environment' \in Envs /\ UNCHANGED <<credential, chosen>>
  BY DEF Restart
<1>3. CredentialsTypeOK'
  BY <1>1, <1>2, CredentialsAssumption DEF ForceInv, CredentialsTypeOK, Places
<1>4. ASSUME NEW c \in Clients PROVE Followed(c)'
  BY <1>2 DEF Followed, NoRequest, Asking, Verified
<1> QED BY <1>2, <1>3, <1>4 DEF ForceInv

(* Every reachable state keeps the invariant.                              *)
THEOREM ForceIsFollowed == CredentialsSpec => []ForceInv
<1>1. ASSUME ForceInv, [CredentialsNext]_credentialVars PROVE ForceInv'
  <2>1. CASE \E c \in Clients :
               \/ Login(c) \/ FindCredential(c) \/ CreateCredential(c) \/ VerifyLogin(c) \/ ResolveKey(c)
               \/ KeyLogin(c) \/ ChangePassword(c) \/ CheckCurrent(c) \/ StorePassword(c) \/ NextRequest(c)
    BY <1>1, <2>1, LoginKeepsForce, ChangeKeepsForce
  <2>2. CASE Restart
    BY <1>1, <2>2, RestartKeepsForce
  <2>3. CASE SeedKeys \/ UNCHANGED credentialVars
    <3>1. UNCHANGED <<credential, environment, cpc, cmem, chosen>>
      BY <2>3 DEF SeedKeys, credentialVars
    <3>2. CredentialsTypeOK' /\ \A c \in Clients : Followed(c)'
      BY <1>1, <3>1 DEF ForceInv, CredentialsTypeOK, Followed
    <3> QED BY <1>1, <3>1, <3>2 DEF ForceInv
  <2> QED BY <1>1, <2>1, <2>2, <2>3 DEF CredentialsNext
<1> QED BY <1>1, ForceHoldsInitially, PTL DEF CredentialsSpec

(* A password is accepted only while it is in force (lib/admin-auth.ts:90, *)
(* app/api/admin/password/route.ts:77), whatever restarts, reseeds or      *)
(* overlaps.                                                               *)
THEOREM OnlyInForce == CredentialsSpec => []AcceptedInForce
<1>1. ForceInv => AcceptedInForce
  BY DEF ForceInv, Followed, AcceptedInForce
<1> QED BY <1>1, ForceIsFollowed, PTL

=============================================================================
