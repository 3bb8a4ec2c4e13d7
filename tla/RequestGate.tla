----------------------------- MODULE RequestGate -----------------------------
(***************************************************************************)
(* What every write passes before and after its handler: the sliding       *)
(* window of lib/rate-limit.ts and the Idempotency-Key records of          *)
(* lib/idempotency.ts, as app/api/idempotency.ts drives them.              *)
(*                                                                         *)
(* Time is a clock in ticks.  A request is assumed to end before its       *)
(* record's time to live (24 hours) is over; the clock waits for it.       *)
(***************************************************************************)
EXTENDS Integers, Sequences, SequencesExt, FiniteSets

CONSTANTS
  Requests,    \* requests that may arrive
  Null,        \* no header, no column, no body
  Window,      \* RATE_LIMIT_WINDOW_MS, in ticks
  SweepEvery,  \* SWEEP_EVERY
  Ttl,         \* IDEMPOTENCY_TTL_MS, in ticks
  Callers,     \* key ids, or addresses before there is a principal
  Keys,        \* what an Idempotency-Key header may say
  GateWorlds   \* what a behaviour may meet: see gate

Slots == Callers \X Keys
Answers == {"ok", "refused", "limited", "inFlight", "mismatch"}

ASSUME GateAssumption ==
  /\ {Window, SweepEvery, Ttl} \subseteq Nat \ {0}
  /\ Null \notin Requests \union Callers \union Keys \union Answers
  /\ \A w \in GateWorlds :
       w.limit \in Nat /\ \A a \in w.arrivals : a.caller \in Callers /\ a.key \in Keys \union {Null}

VARIABLES
  now,         \* Date.now()
  hits,        \* the limiter's map; an absent caller is an empty sequence
  sinceSweep,
  record,      \* the IdempotencyRecord of each caller and key
  nextRecord,  \* the next record's id
  gatePc,
  gateMem,     \* what each request carries and remembers
  effects,     \* what handlers have done, in order
  admitted,    \* when each caller was admitted, since the process started
  gate         \* arrivals: the [caller, key, body] there are, key or body possibly
               \* Null; limit: writes per caller and window; faults: what may fail;
               \* horizon: a bound, where the clock stops

gateVars == <<now, hits, sinceSweep, record, nextRecord, gatePc, gateMem, effects, admitted, gate>>

NoRecord == [id |-> 0, at |-> 0, body |-> Null, answer |-> Null, by |-> Null]
Forgotten ==
  [caller |-> Null, key |-> Null, body |-> Null, attempt |-> 1, id |-> 0, at |-> 0,
   answer |-> Null,   \* what its handler answers, or the gate instead
   from |-> Null]     \* the request whose answer is replayed to it

(* What a request carries, and what it keeps of the record it claims.      *)
Arrived(a) ==
  [caller |-> a.caller, key |-> a.key, body |-> a.body, attempt |-> 1, id |-> 0, at |-> now,
   answer |-> Null, from |-> Null]
Claiming(mem, id, at) == LET m == [mem EXCEPT !.id = id] IN [m EXCEPT !.at = at]

(* The record of a request that has claimed its key, and its answer.       *)
Claim(r, id) == [id |-> id, at |-> now, body |-> gateMem[r].body, answer |-> Null, by |-> Null]
Answered(rec, r) ==
  [id |-> rec.id, at |-> rec.at, body |-> rec.body, answer |-> gateMem[r].answer, by |-> r]

Busy(r) == gatePc[r] \notin {"idle", "done"}
GateGo(r, l) == gatePc' = [gatePc EXCEPT ![r] = l]
GateKeep(r, m) == gateMem' = [gateMem EXCEPT ![r] = m]
Slot(r) == <<gateMem[r].caller, gateMem[r].key>>

GateInit ==
  /\ now = 0
  /\ hits = [c \in Callers |-> <<>>]
  /\ sinceSweep = 0
  /\ record = [s \in Slots |-> NoRecord]
  /\ nextRecord = 1
  /\ gatePc = [r \in Requests |-> "idle"]
  /\ gateMem = [r \in Requests |-> Forgotten]
  /\ effects = <<>>
  /\ admitted = [c \in Callers |-> <<>>]
  /\ gate \in GateWorlds

-----------------------------------------------------------------------------
(* The rate limiter.                                                       *)

(* A caller's hits are kept oldest first: how many are no later than t.    *)
HitsUntil(c, t) == Max({0} \union {i \in DOMAIN hits[c] : hits[c][i] <= t})

(* Slip: the oldest hit of a full window is forgiven.                      *)
RecentTooFew(c) == SubSeq(hits[c], HitsUntil(c, now - Window + 1) + 1, Len(hits[c]))

Recent(c) == SubSeq(hits[c], HitsUntil(c, now - Window) + 1, Len(hits[c]))

(* Every SweepEvery admissions, callers with nothing in the window go.     *)
Sweep(h) ==
  IF sinceSweep + 1 < SweepEvery THEN h
  ELSE [c \in Callers |-> IF h[c] = <<>> \/ Last(h[c]) <= now - Window THEN <<>> ELSE h[c]]

(* consumeRateLimit: a refused hit is not counted.                         *)
Refuses(c) ==
  /\ Len(Recent(c)) >= gate.limit
  /\ hits' = [hits EXCEPT ![c] = Recent(c)]
  /\ UNCHANGED <<sinceSweep, admitted>>

Admits(c) ==
  /\ Len(Recent(c)) < gate.limit
  /\ hits' = Sweep([hits EXCEPT ![c] = Append(Recent(c), now)])
  /\ sinceSweep' = (sinceSweep + 1) % SweepEvery
  /\ admitted' = [admitted EXCEPT ![c] = Append(@, now)]

(* beginWrite: the limiter first, then the body; a key is claimed next.    *)
Arrive(r) ==
  /\ gatePc[r] = "idle"
  /\ \E a \in gate.arrivals :
       \/ /\ Refuses(a.caller)
          /\ GateKeep(r, [gateMem[r] EXCEPT !.answer = "limited"])
          /\ GateGo(r, "done")
       \/ /\ Admits(a.caller)
          /\ GateKeep(r, Arrived(a))
          /\ GateGo(r, IF a.key = Null THEN "handle" ELSE "create")
  /\ UNCHANGED <<now, record, nextRecord, effects, gate>>

-----------------------------------------------------------------------------
(* beginIdempotent: two attempts to claim the key.                         *)

(* The unique (caller, key) lets one create through.                       *)
CreateRecord(r) ==
  /\ gatePc[r] = "create"
  /\ \/ /\ record[Slot(r)] = NoRecord
        /\ record' = [record EXCEPT ![Slot(r)] = Claim(r, nextRecord)]
        /\ nextRecord' = nextRecord + 1
        /\ GateKeep(r, Claiming(gateMem[r], nextRecord, now))
        /\ GateGo(r, "handle")
     \/ /\ record[Slot(r)] # NoRecord
        /\ GateGo(r, "look")
        /\ UNCHANGED <<record, nextRecord, gateMem>>
  /\ UNCHANGED <<now, hits, sinceSweep, effects, admitted, gate>>

(* Another pass, or the in-flight answer.                                  *)
Again(r) ==
  IF gateMem[r].attempt = 1
  THEN GateGo(r, "create") /\ GateKeep(r, [gateMem[r] EXCEPT !.attempt = 2])
  ELSE GateGo(r, "done") /\ GateKeep(r, [gateMem[r] EXCEPT !.answer = "inFlight"])

Expired(rec) == now - rec.at >= Ttl

(* Slip: the key alone decides what is replayed.                           *)
MatchesAnything(rec, body) == TRUE

Matches(rec, body) == rec.body = body

(* What a live record tells a request that is not its first.               *)
Told(mem, rec) ==
  IF ~Matches(rec, mem.body) THEN [mem EXCEPT !.answer = "mismatch"]
  ELSE IF rec.answer = Null THEN [mem EXCEPT !.answer = "inFlight"]
  ELSE LET told == [mem EXCEPT !.answer = rec.answer] IN [told EXCEPT !.from = rec.by]

Look(r) ==
  LET found == record[Slot(r)]
  IN  /\ gatePc[r] = "look"
      /\ \/ found = NoRecord /\ Again(r)
         \/ /\ found # NoRecord /\ Expired(found)
            /\ GateKeep(r, Claiming(gateMem[r], found.id, found.at))
            /\ GateGo(r, "reclaim")
         \/ /\ found # NoRecord /\ ~Expired(found)
            /\ GateKeep(r, Told(gateMem[r], found))
            /\ GateGo(r, "done")
      /\ UNCHANGED <<now, hits, sinceSweep, record, nextRecord, effects, admitted, gate>>

(* Slip: whoever read the record first is not asked about.                 *)
SameRecordById(r) == record[Slot(r)].id = gateMem[r].id

SameRecord(r) == record[Slot(r)].id = gateMem[r].id /\ record[Slot(r)].at = gateMem[r].at

(* The row keeps its id and starts over, if it is still the one read.      *)
Reclaim(r) ==
  /\ gatePc[r] = "reclaim"
  /\ \/ /\ SameRecord(r)
        /\ record' = [record EXCEPT ![Slot(r)] = Claim(r, gateMem[r].id)]
        /\ GateKeep(r, [gateMem[r] EXCEPT !.at = now])
        /\ GateGo(r, "handle")
     \/ ~SameRecord(r) /\ Again(r) /\ UNCHANGED record
  /\ UNCHANGED <<now, hits, sinceSweep, nextRecord, effects, admitted, gate>>

-----------------------------------------------------------------------------
(* The handler, and the two ways a key is left.                            *)

(* A handler that succeeds commits its effect once; it may refuse, throw   *)
(* before the effect or, late, after it.  A body that is no object is      *)
(* refused, and the routes that need one then free the key.                *)
Handle(r) ==
  LET leave(l) == GateGo(r, IF gateMem[r].key = Null THEN "done" ELSE l)
  IN  /\ gatePc[r] = "handle"
      /\ \/ /\ gateMem[r].body # Null
            /\ effects' = Append(effects, [caller |-> gateMem[r].caller, key |-> gateMem[r].key,
                                           body |-> gateMem[r].body, claimed |-> gateMem[r].at, of |-> r])
            /\ leave("complete") \/ ("late" \in gate.faults /\ leave("abandon"))
            /\ GateKeep(r, [gateMem[r] EXCEPT !.answer = "ok"])
         \/ /\ leave(IF gateMem[r].body = Null THEN "abandon" ELSE "complete")
            /\ GateKeep(r, [gateMem[r] EXCEPT !.answer = "refused"])
            /\ UNCHANGED effects
         \/ /\ "throw" \in gate.faults
            /\ leave("abandon")
            /\ UNCHANGED <<effects, gateMem>>
      /\ UNCHANGED <<now, hits, sinceSweep, record, nextRecord, admitted, gate>>

Owned(r) == {s \in Slots : record[s].id = gateMem[r].id}

(* completeIdempotent, by id: a record that is gone throws, and so may the *)
(* database, whether or not it has written; the caller then gets an error, *)
(* the handler's answer is kept here all the same.                         *)
Complete(r) ==
  /\ gatePc[r] = "complete"
  /\ \/ /\ Owned(r) # {}
        /\ record' = [s \in Slots |-> IF s \in Owned(r) THEN Answered(record[s], r) ELSE record[s]]
        /\ GateGo(r, "done") \/ ("db" \in gate.faults /\ GateGo(r, "abandon"))
     \/ /\ Owned(r) = {} \/ "db" \in gate.faults
        /\ GateGo(r, "abandon")
        /\ UNCHANGED record
  /\ UNCHANGED <<now, hits, sinceSweep, nextRecord, gateMem, effects, admitted, gate>>

(* Slip: the record stays.                                                 *)
AbandonForgotten(r) ==
  /\ gatePc[r] = "abandon"
  /\ GateGo(r, "done")
  /\ UNCHANGED <<now, hits, sinceSweep, record, nextRecord, gateMem, effects, admitted, gate>>

(* abandonIdempotent, by id.                                               *)
Abandon(r) ==
  /\ gatePc[r] = "abandon"
  /\ \/ record' = [s \in Slots |-> IF s \in Owned(r) THEN NoRecord ELSE record[s]]
     \/ "db" \in gate.faults /\ UNCHANGED record
  /\ GateGo(r, "done")
  /\ UNCHANGED <<now, hits, sinceSweep, nextRecord, gateMem, effects, admitted, gate>>

-----------------------------------------------------------------------------

(* The process dies: records stay, the limiter's map is gone.              *)
GateCrash ==
  /\ "crash" \in gate.faults
  /\ \E r \in Requests : Busy(r)
  /\ gatePc' = [r \in Requests |-> IF Busy(r) THEN "done" ELSE gatePc[r]]
  /\ hits' = [c \in Callers |-> <<>>]
  /\ admitted' = [c \in Callers |-> <<>>]
  /\ sinceSweep' = 0
  /\ UNCHANGED <<now, record, nextRecord, gateMem, effects, gate>>

Tick ==
  /\ now < gate.horizon
  /\ \A r \in Requests : Busy(r) => now + 1 < gateMem[r].at + Ttl
  /\ now' = now + 1
  /\ UNCHANGED <<hits, sinceSweep, record, nextRecord, gatePc, gateMem, effects, admitted, gate>>

GateStep(r) ==
  \/ Arrive(r) \/ CreateRecord(r) \/ Look(r) \/ Reclaim(r)
  \/ Handle(r) \/ Complete(r) \/ Abandon(r)

GateNext == (\E r \in Requests : GateStep(r)) \/ GateCrash \/ Tick

GateSpec == GateInit /\ [][GateNext]_gateVars

-----------------------------------------------------------------------------
(* Correctness.                                                            *)

(* Whatever races, and whatever crashes or throws before its effect, the   *)
(* effects of one key are a time to live apart: a retry repeats nothing.   *)
(* A handler that throws after its effect, or a database that fails while  *)
(* the answer is stored, frees the key and so forgoes this.                *)
EffectsApart ==
  gate.faults \subseteq {"throw", "crash"} =>
    \A i, j \in DOMAIN effects :
      i < j /\ effects[i].key # Null /\ effects[i].key = effects[j].key
        /\ effects[i].caller = effects[j].caller
      => effects[j].claimed >= effects[i].claimed + Ttl

(* A replayed answer is what the handler of this very request answered     *)
(* before, under the same key by the same caller; and what it reports done *)
(* was done.  (A caller whose answer could not be stored is told of an     *)
(* error instead.)                                                         *)
ReplayMatches ==
  \A r \in Requests :
    LET first == gateMem[r].from
    IN  first # Null =>
          /\ Slot(first) = Slot(r) /\ gateMem[first].body = gateMem[r].body
          /\ gateMem[first].answer = gateMem[r].answer
          /\ gateMem[r].answer = "ok" => \E i \in DOMAIN effects : effects[i].of = first

(* Unless the process or the database failed, a key that answers in flight *)
(* has a request in flight: no throw or refusal locks it out.              *)
KeyHasRunner ==
  gate.faults \subseteq {"throw", "late"} =>
    \A s \in Slots :
      record[s] # NoRecord /\ record[s].answer = Null =>
        \E r \in Requests : Busy(r) /\ gateMem[r].id = record[s].id /\ gatePc[r] \in {"handle", "complete", "abandon"}

(* However arrivals fall and sweeps run, no stretch of one window admits   *)
(* more than Limit writes of a caller.                                     *)
WindowHolds ==
  \A c \in Callers : \A i \in DOMAIN admitted[c] :
    i > gate.limit => admitted[c][i] - admitted[c][i - gate.limit] >= Window
=============================================================================
