------------------------------ MODULE AuditChain ------------------------------
(***************************************************************************)
(* The hash-chained audit log (lib/audit.ts): appends inside their         *)
(* callers' transactions, signed checkpoints, verification, and the page   *)
(* walk of GET /api/audit (lib/pagination.ts).                             *)
(*                                                                         *)
(* A hash stands for what it covers: the hash of an event after prevHash   *)
(* is prevHash with the event appended, so hashes are equal exactly when   *)
(* the histories are.  A signature covers a position and a hash and cannot *)
(* be made without the key, which is configured.  Outside a transaction's  *)
(* lock, each read sees what is committed when it runs.                    *)
(***************************************************************************)
EXTENDS Integers, Sequences, SequencesExt, FiniteSets

CONSTANTS
  Appenders,  \* transactions that record an event or a checkpoint
  Readers,    \* requests to GET /api/audit, each walking all pages
  Nobody,     \* no holder, no edit
  Interval,   \* AUDIT_CHECKPOINT_INTERVAL
  PageLimit,  \* rows of a page
  MaxId,      \* bound: the event ids there are
  Edits       \* bound: the kinds of edit to committed rows a behaviour may meet

ASSUME AuditAssumption ==
  /\ {Interval, PageLimit} \subseteq Nat \ {0}
  /\ MaxId \in Nat
  /\ Edits \subseteq {"content", "rehash"}
  /\ Nobody \notin Appenders \union [kind : Edits, id : Nat, anchors : Nat]

VARIABLES
  events,   \* committed AuditEvent rows, by id
  nextId,   \* the id sequence; a rolled back insert leaves a gap
  anchors,  \* committed AuditCheckpoint rows
  lock,     \* who holds the chain's advisory lock
  apc, amem,  \* the appenders
  rpc, rmem,  \* the readers
  edit      \* the edit made, if any: its kind, the first id it changed

auditVars == <<events, nextId, anchors, lock, apc, amem, rpc, rmem, edit>>

GENESIS == <<>>
hashEvent(prevHash, detail) == Append(prevHash, detail)
signAnchor(lastEventId, chainHash) == <<lastEventId, chainHash>>

NoTx == [prev |-> GENESIS, event |-> <<>>, anchor |-> <<>>]
NoWalk == [cursor |-> 0, seen |-> <<>>, start |-> {}, edited |-> Nobody,
           valid |-> TRUE, anchor |-> <<>>]

Ids(rows) == {rows[i].id : i \in DOMAIN rows}
TipHash == IF events = <<>> THEN GENESIS ELSE Last(events).hash

(* How many rows come before an id, the rows being in the order of theirs. *)
Before(id) == Max({0} \union {i \in DOMAIN events : events[i].id < id})
LastAnchored == IF anchors = <<>> THEN 0 ELSE Last(anchors).lastEventId

AuditInit ==
  /\ events = <<>>
  /\ nextId = 1
  /\ anchors = <<>>
  /\ lock = Nobody
  /\ apc = [a \in Appenders |-> "idle"]
  /\ amem = [a \in Appenders |-> NoTx]
  /\ rpc = [r \in Readers |-> "idle"]
  /\ rmem = [r \in Readers |-> NoWalk]
  /\ edit = Nobody

Anchor(id, hash) == [lastEventId |-> id, chainHash |-> hash, signature |-> signAnchor(id, hash)]

-----------------------------------------------------------------------------
(* appendEvent and createCheckpoint.                                       *)

(* Slip: nobody waits.                                                     *)
LockAuditChainSkipped(a) == lock' = lock

(* lockAuditChain: held until the transaction ends.                        *)
LockAuditChain(a) == lock = Nobody /\ lock' = a

Release == lock' = Nobody

(* The tip is read under the lock.                                         *)
ReadTip(a) ==
  /\ apc[a] = "idle"
  /\ nextId <= MaxId
  /\ LockAuditChain(a)
  /\ amem' = [amem EXCEPT ![a].prev = TipHash]
  /\ apc' = [apc EXCEPT ![a] = "create"]
  /\ UNCHANGED <<events, nextId, anchors, rpc, rmem, edit>>

(* Events since the last checkpoint, with the one this transaction adds.   *)
Since(id) == Cardinality({i \in Ids(events) \union {id} : i > LastAnchored})

(* The row, and maybeCheckpoint in the same transaction.                   *)
CreateEvent(a) ==
  /\ apc[a] = "create"
  /\ LET prev == amem[a].prev
         hash == hashEvent(prev, nextId)
     IN  amem' = [amem EXCEPT ![a] =
           [prev |-> prev,
            event |-> [id |-> nextId, detail |-> nextId, prevHash |-> prev, hash |-> hash],
            anchor |-> IF Since(nextId) < Interval THEN <<>> ELSE Anchor(nextId, hash)]]
  /\ nextId' = nextId + 1
  /\ apc' = [apc EXCEPT ![a] = "commit"]
  /\ UNCHANGED <<events, anchors, lock, rpc, rmem, edit>>

(* createCheckpoint: nothing to sign, or already signed, adds nothing.     *)
CreateCheckpoint(a) ==
  /\ apc[a] = "idle"
  /\ events # <<>>
  /\ LastAnchored # Last(events).id
  /\ LockAuditChain(a)
  /\ amem' = [amem EXCEPT ![a].anchor = Anchor(Last(events).id, TipHash)]
  /\ apc' = [apc EXCEPT ![a] = "commit"]
  /\ UNCHANGED <<events, nextId, anchors, rpc, rmem, edit>>

(* The caller's transaction commits, event, checkpoint and all.            *)
Commit(a) ==
  /\ apc[a] = "commit"
  /\ events' = IF amem[a].event = <<>> THEN events
               ELSE InsertAt(events, Before(amem[a].event.id) + 1, amem[a].event)
  /\ anchors' = IF amem[a].anchor = <<>> THEN anchors ELSE Append(anchors, amem[a].anchor)
  /\ Release
  /\ amem' = [amem EXCEPT ![a] = NoTx]
  /\ apc' = [apc EXCEPT ![a] = "idle"]
  /\ UNCHANGED <<nextId, rpc, rmem, edit>>

(* It rolls back, or its process dies.                                     *)
Rollback(a) ==
  /\ apc[a] \in {"create", "commit"}
  /\ Release
  /\ amem' = [amem EXCEPT ![a] = NoTx]
  /\ apc' = [apc EXCEPT ![a] = "idle"]
  /\ UNCHANGED <<events, nextId, anchors, rpc, rmem, edit>>

-----------------------------------------------------------------------------
(* What happens to the table from outside: a row's content is changed and  *)
(* nothing else, or every hash from it on is computed anew.                *)

HashUpTo(rows, j) == [k \in 1 .. j |-> rows[k].detail]

Rehashed(rows, i) ==
  [j \in DOMAIN rows |->
    IF j < i THEN rows[j]
    ELSE [rows[j] EXCEPT !.prevHash = HashUpTo(rows, j - 1), !.hash = HashUpTo(rows, j)]]

Edit ==
  /\ edit = Nobody
  /\ \E kind \in Edits, i \in DOMAIN events :
       LET changed == [events EXCEPT ![i].detail = 0]
       IN  /\ events' = IF kind = "content" THEN changed ELSE Rehashed(changed, i)
           /\ edit' = [kind |-> kind, id |-> events[i].id, anchors |-> Len(anchors)]
  /\ UNCHANGED <<nextId, anchors, lock, apc, amem, rpc, rmem>>

-----------------------------------------------------------------------------
(* GET /api/audit: a page, and verifyAuditChain, in three reads.           *)

(* Slip: only the links are followed, no content is hashed.                *)
VerifyFromLinks(rows) ==
  \A i \in DOMAIN rows : rows[i].prevHash = IF i = 1 THEN GENESIS ELSE rows[i - 1].hash

(* verifyFrom genesis: every row hashes to what it says and links back.    *)
VerifyFrom(rows) ==
  \A i \in DOMAIN rows :
    LET prev == IF i = 1 THEN GENESIS ELSE rows[i - 1].hash
    IN  rows[i].prevHash = prev /\ rows[i].hash = hashEvent(prev, rows[i].detail)

(* Slip: the cursor's own row is served again.                             *)
FetchFromCursor(cursor) ==
  LET older == IF cursor = 0 THEN Len(events) ELSE Before(cursor + 1)
  IN  [k \in 1 .. Min({older, PageLimit + 1}) |-> events[older + 1 - k]]

(* Newest first, after the cursor, one row more than the page.             *)
Fetch(cursor) ==
  LET older == IF cursor = 0 THEN Len(events) ELSE Before(cursor)
  IN  [k \in 1 .. Min({older, PageLimit + 1}) |-> events[older + 1 - k]]

(* toPage: the extra row says there is more, and is dropped.               *)
ReadPage(r) ==
  LET fetched == Fetch(rmem[r].cursor)
      page == SubSeq(fetched, 1, Min({Len(fetched), PageLimit}))
      first == rpc[r] = "idle"
  IN  /\ rpc[r] \in {"idle", "next"}
      /\ rmem' = [rmem EXCEPT ![r] =
           [cursor |-> IF Len(fetched) > PageLimit THEN Last(page).id ELSE 0,
            seen |-> @.seen \o [i \in DOMAIN page |-> page[i].id],
            start |-> IF first THEN Ids(events) ELSE @.start,
            edited |-> edit,
            valid |-> VerifyFrom(events),
            anchor |-> <<>>]]
      /\ rpc' = [rpc EXCEPT ![r] = "anchor"]
      /\ UNCHANGED <<events, nextId, anchors, lock, apc, amem, edit>>

(* The newest checkpoint, and whether the key signed it.                   *)
ReadAnchor(r) ==
  /\ rpc[r] = "anchor"
  /\ LET newest == IF anchors = <<>> THEN <<>> ELSE Last(anchors)
     IN  rmem' = [rmem EXCEPT ![r].anchor = newest,
           ![r].valid = @ /\ (newest # <<>> =>
              newest.signature = signAnchor(newest.lastEventId, newest.chainHash))]
  /\ rpc' = [rpc EXCEPT ![r] = "event"]
  /\ UNCHANGED <<events, nextId, anchors, lock, apc, amem, edit>>

AnchorHolds(anchor) ==
  \E i \in DOMAIN events : events[i].id = anchor.lastEventId /\ events[i].hash = anchor.chainHash

(* The anchored event is still there with the hash that was signed.        *)
ReadAnchorEvent(r) ==
  /\ rpc[r] = "event"
  /\ rmem' = [rmem EXCEPT ![r].valid = @ /\ (rmem[r].anchor # <<>> => AnchorHolds(rmem[r].anchor))]
  /\ rpc' = [rpc EXCEPT ![r] = "told"]
  /\ UNCHANGED <<events, nextId, anchors, lock, apc, amem, edit>>

(* The client follows the cursor, or has walked it all.                    *)
NextPage(r) ==
  /\ rpc[r] = "told"
  /\ rpc' = [rpc EXCEPT ![r] = IF rmem[r].cursor = 0 THEN "walked" ELSE "next"]
  /\ UNCHANGED <<events, nextId, anchors, lock, apc, amem, rmem, edit>>

AuditNext ==
  \/ \E a \in Appenders : ReadTip(a) \/ CreateEvent(a) \/ CreateCheckpoint(a) \/ Commit(a) \/ Rollback(a)
  \/ \E r \in Readers : ReadPage(r) \/ ReadAnchor(r) \/ ReadAnchorEvent(r) \/ NextPage(r)
  \/ Edit

AuditSpec == AuditInit /\ [][AuditNext]_auditVars

-----------------------------------------------------------------------------
(* Correctness.                                                            *)

(* A log nobody changed is never reported broken, whatever is appended,    *)
(* signed or rolled back between the three reads of a verification.        *)
NoFalseAlarm == \A r \in Readers : rpc[r] = "told" /\ edit = Nobody => rmem[r].valid

(* A row changed in place is reported by every later verification; a chain *)
(* computed anew is, as long as the newest checkpoint signed what was      *)
(* changed: the next one signs the tip it finds.                           *)
EditReported ==
  \A r \in Readers :
    rpc[r] = "told" /\ rmem[r].edited # Nobody
      /\ (rmem[r].edited.kind = "rehash" =>
            /\ rmem[r].anchor # <<>>
            /\ rmem[r].anchor.lastEventId >= rmem[r].edited.id
            /\ \E i \in 1 .. rmem[r].edited.anchors : anchors[i] = rmem[r].anchor)
    => ~rmem[r].valid

(* A walk of the log while it grows serves newest first, no row twice, and *)
(* every row there was when it started.                                    *)
WalkComplete ==
  \A r \in Readers :
    /\ \A i \in 2 .. Len(rmem[r].seen) : rmem[r].seen[i] < rmem[r].seen[i - 1]
    /\ rpc[r] = "walked" => rmem[r].start \subseteq ToSet(rmem[r].seen)
=============================================================================
