---------------------------- MODULE DeployProofs ----------------------------
(***************************************************************************)
(* That no unforced run gives a registered network a second escrow, that   *)
(* a file rewritten in place keeps the only copy of its keys, and that a   *)
(* run which says it is done leaves a network the app can use, for any     *)
(* tokens, entities and balances, whatever the operator runs, and wherever *)
(* it dies.                                                                *)
(*                                                                         *)
(* DeployInv: a run on a registered network has no escrow to deploy and    *)
(* holds the registered one, and a run holds the keys of the file it is    *)
(* about to rewrite.  UsableInv: what a run sets out for is reached, or is *)
(* reached by a step it has left.                                          *)
(***************************************************************************)
EXTENDS Deploy, TLAPS

Ents == ToSet(Entities)
Pasts == [runs : Nat, crashes : Nat, forced : BOOLEAN, restarted : BOOLEAN, unsure : BOOLEAN]

(* The fields of a slice, and keys wherever the file is readable.          *)
Shaped(o) ==
  /\ DOMAIN o = DOMAIN NoOverlay
  /\ DOMAIN o.contracts = Kinds
  /\ o.is = "slice" => Keyed(o)
  /\ o.is # "slice" => o.entities = NoWallets

Planned(p) ==
  DOMAIN p = {"net", "mode"} \union DOMAIN NoOverlay /\ p.net \in Nets /\ DOMAIN p.contracts = Kinds

Shapes ==
  /\ DOMAIN world.registry = Kinds
  /\ DOMAIN chain = Nets
  /\ \A n \in Nets : DOMAIN chain[n] = DOMAIN Genesis
  /\ DOMAIN overlay = Nets
  /\ \A n \in Nets : Shaped(overlay[n])
  /\ Planned(plan)
  /\ past \in Pasts
  /\ nextKey \in Nat

(* A step that deploys no escrow.                                          *)
Doings ==
  {"fund", "deploy", "setApprovedAsset", "mint", "approve", "buffer", "approveOnce", "write", "merge",
   "register", "wipe", "readLive", "seed"}
Subjects == {None, "treasury", "settlement", "fund"} \union Ents \union Tokens
Safe == {s \in [do : Doings, on : Subjects, to : Subjects] : ~(s.do = "deploy" /\ s.on = "settlement")}

(* A registered network, its file and an unforced run know one escrow.     *)
Registered == world.registry # NoContracts /\ ~past.forced
EscrowKnown ==
  Registered =>
    /\ \A c \in chain.live.code : c.kind = "settlement" => c.at = world.registry["settlement"]
    /\ overlay.live.contracts["settlement"] \in {None, world.registry["settlement"]}
    /\ plan.net = "live" /\ todo # <<>> =>
         plan.contracts["settlement"] \in {None, world.registry["settlement"]} /\ todo \in Seq(Safe)

(* A run goes on with the keys of its file, and local ones are the same    *)
(* every time.                                                             *)
SameKeys(o, p) ==
  o.is = "slice" => p.entities = o.entities /\ (o.inline /\ world.env = None => p.treasury = o.treasury)
OfDev(o) == o.entities = DevSlice.entities /\ o.treasury = DevSlice.treasury

KeysKnown ==
  /\ overlay.local.is = "slice" => OfDev(overlay.local)
  /\ todo # <<>> =>
       /\ plan.is = "slice" /\ Keyed(plan)
       /\ SameKeys(overlay[plan.net], plan)
       /\ plan.net = "local" => OfDev(plan)

DeployInv == Shapes /\ EscrowKnown /\ KeysKnown

-----------------------------------------------------------------------------
(* What a plan, a file and a list of steps are made of.                    *)

(* A plan is its slice, and where it goes.                                 *)
LEMMA PlanIs ==
  ASSUME NEW net \in Nets, NEW mode, NEW s, Shaped(s)
  PROVE  Planned(RunPlan(net, mode, s))
<1>1. DOMAIN NoOverlay = {"is", "contracts", "treasury", "inline", "entities"}
  BY DEF NoOverlay
<1> QED BY <1>1 DEF Planned, RunPlan, Shaped

(* No file is one, of nothing.                                             *)
LEMMA NoOverlayIs == Shaped(NoOverlay) /\ NoOverlay.is = "absent" /\ NoOverlay.contracts = NoContracts
<1>1. DOMAIN NoOverlay.contracts = Kinds
  BY DEF NoOverlay, NoContracts
<1> QED BY <1>1 DEF NoOverlay, Shaped

(* The file written is the plan's slice.                                   *)
LEMMA RecordedIs ==
  ASSUME Planned(plan)
  PROVE  /\ DOMAIN Recorded = DOMAIN NoOverlay
         /\ Recorded.is = plan.is /\ Recorded.contracts = plan.contracts
         /\ Recorded.treasury = plan.treasury /\ Recorded.inline = plan.inline
         /\ Recorded.entities = plan.entities
<1>1. DOMAIN NoOverlay = {"is", "contracts", "treasury", "inline", "entities"}
  BY DEF NoOverlay
<1> QED BY <1>1 DEF Recorded

(* The names of a step's subject.                                          *)
LEMMA NamesAre == Entities \in Seq(Ents) /\ USDC \in Tokens
<1>1. Entities \in Seq(STRING)
  BY DeployAssumption
<1> QED BY <1>1, DeployAssumption DEF Ents, ToSet

(* Steps of any other kind deploy no escrow.                               *)
LEMMA StepsAreSafe ==
  ASSUME NEW do \in Doings, do # "deploy", NEW on \in Seq(Subjects)
  PROVE  StepsOn(do, on) \in Seq(Safe)
<1>1. \A i \in 1 .. Len(on) : Step(do, on[i], None) \in Safe
  BY DEF Step, Safe, Subjects
<1>2. DOMAIN on = 1 .. Len(on) /\ Len(on) \in Nat
  OBVIOUS
<1> QED BY <1>1, <1>2 DEF StepsOn

(* Neither do the mints.                                                   *)
LEMMA MintsAreSafe == MintSteps \in Seq(Safe)
<1>1. Mints \in Seq(Tokens \X Holders)
  BY DeployAssumption
<1>2. ASSUME NEW i \in 1 .. Len(Mints) PROVE Step("mint", Mints[i][1], Mints[i][2]) \in Safe
  <2>1. Mints[i] \in Tokens \X Holders
    BY <1>1
  <2>2. Mints[i][1] \in Subjects /\ Mints[i][2] \in Subjects
    BY <2>1 DEF Holders, Ents, Subjects
  <2> QED BY <2>2 DEF Step, Safe, Doings
<1>3. DOMAIN Mints = 1 .. Len(Mints) /\ Len(Mints) \in Nat
  BY <1>1
<1> QED BY <1>2, <1>3 DEF MintSteps

(* The fund alone is deployed by an add-on.                                *)
LEMMA AddonIsSafe == MmfAddonSteps \in Seq(Safe) /\ AddonSteps \in Seq(Safe) /\ Tail(AddonSteps) \in Seq(Safe)
<1>1. /\ Step("deploy", "fund", None) \in Safe /\ Step("buffer", USDC, "fund") \in Safe
      /\ Step("approveOnce", USDC, "fund") \in Safe /\ Step("merge", None, None) \in Safe
  BY NamesAre DEF Step, Safe, Doings, Subjects
<1>2. AddonSteps \in Seq(Safe) /\ Tail(AddonSteps) \in Seq(Safe)
  BY <1>1 DEF AddonSteps
<1> QED BY <1>1, <1>2 DEF MmfAddonSteps

(* Adopting deploys the fund at most.                                      *)
LEMMA AdoptIsSafe == AdoptSteps \in Seq(Safe)
<1>1. Entities \in Seq(Subjects) /\ <<"treasury">> \o Entities \in Seq(Subjects)
  BY NamesAre DEF Subjects
<1>2. FundSteps \in Seq(Safe) /\ RegisterSteps \in Seq(Safe)
  BY <1>1, StepsAreSafe DEF FundSteps, RegisterSteps, Doings
<1>3. <<Step("write", None, None)>> \in Seq(Safe)
  BY DEF Step, Safe, Doings, Subjects
<1>4. (IF adoptNeedsMmf THEN AddonSteps ELSE Tail(AddonSteps)) \in Seq(Safe)
  BY AddonIsSafe
<1> QED BY <1>2, <1>3, <1>4, MintsAreSafe DEF AdoptSteps
-----------------------------------------------------------------------------
(* What a step owes.                                                       *)

(* What is on the live chain stays of the same escrow.                     *)
ChainKept ==
  /\ DOMAIN chain' = Nets
  /\ \A n \in Nets : DOMAIN chain'[n] = DOMAIN Genesis
  /\ chain'.live.code \subseteq chain.live.code

(* A transaction that creates no contract, or none at all.                 *)
LEMMA Transacted ==
  ASSUME Shapes, NEW changed, DOMAIN changed = DOMAIN Genesis, changed.code = Here.code,
         Transact(changed)
  PROVE  ChainKept
<1>1. DOMAIN chain = Nets /\ plan.net \in Nets /\ Nets = {"live", "local"}
  BY DEF Shapes, Planned, Nets
<1> QED BY <1>1 DEF Shapes, Transact, Here, ChainKept

(* A transaction of the deployer's.                                        *)
LEMMA Sent ==
  ASSUME Shapes, NEW changed, DOMAIN changed = DOMAIN Genesis, changed.code = Here.code,
         FromDeployer(changed)
  PROVE  ChainKept
<1>1. PICK h : h = [changed EXCEPT !.nonce = @ + 1]
  OBVIOUS
<1>2. DOMAIN h = DOMAIN Genesis /\ h.code = Here.code
  BY <1>1 DEF Genesis
<1>3. Transact(h)
  BY <1>1 DEF FromDeployer
<1> QED BY <1>2, <1>3, Transacted

(* Nothing is sent.                                                        *)
LEMMA NothingSent == ASSUME Shapes, UNCHANGED chain PROVE ChainKept
  BY DEF Shapes, ChainKept

(* A run goes on.                                                          *)
LEMMA Goes ==
  ASSUME DeployInv, todo # <<>>, Advance, ChainKept, UNCHANGED <<plan, overlay>>
  PROVE  DeployInv'
<1>1. Shapes'
  BY DEF DeployInv, Shapes, Advance, ChainKept, Planned, Shaped, Keyed, Keys
<1>2. EscrowKnown'
  <2>1. Registered' => Registered /\ world' = world
    BY DEF Registered, Advance
  <2>2. todo \in Seq(Safe) => todo' \in Seq(Safe)
    BY DEF Advance
  <2>3. \A c \in chain'.live.code : c \in chain.live.code
    BY DEF ChainKept
  <2> QED BY <2>1, <2>2, <2>3 DEF DeployInv, EscrowKnown
<1>3. KeysKnown'
  BY DEF DeployInv, KeysKnown, Advance, SameKeys, OfDev, Keyed, Keys, DevSlice
<1> QED BY <1>1, <1>2, <1>3 DEF DeployInv

(* A run stops, or is refused, or nothing runs; a file may be lost.        *)
LEMMA Stops ==
  ASSUME DeployInv, ChainKept, todo' = <<>>, Planned(plan)', UNCHANGED <<nextKey, world>>,
         past' \in Pasts, past'.forced = past.forced, DOMAIN overlay' = Nets,
         \A n \in Nets : \/ overlay'[n] = overlay[n]
                         \/ Shaped(overlay'[n]) /\ overlay'[n].is # "slice" /\ overlay'[n].contracts = NoContracts
  PROVE  DeployInv'
<1>1. \A n \in Nets : Shaped(overlay'[n])
  BY DEF DeployInv, Shapes
<1>2. Shapes'
  BY <1>1 DEF DeployInv, Shapes, ChainKept, Shaped, Keyed, Keys
<1>3. EscrowKnown'
  <2>1. Registered' => Registered /\ world' = world
    BY DEF Registered
  <2>2. \A c \in chain'.live.code : c \in chain.live.code
    BY DEF ChainKept
  <2>3. overlay'.live.contracts["settlement"] \in {None, overlay.live.contracts["settlement"]}
    BY DEF Nets, NoContracts, Kinds
  <2> QED BY <2>1, <2>2, <2>3 DEF DeployInv, EscrowKnown
<1>4. KeysKnown'
  <2>1. overlay'.local.is = "slice" => overlay'.local = overlay.local
    BY DEF Nets
  <2> QED BY <2>1 DEF DeployInv, KeysKnown, OfDev, DevSlice
<1> QED BY <1>2, <1>3, <1>4 DEF DeployInv

(* What a run adds to the past.                                            *)
LEMMA PastBegun ==
  ASSUME past \in Pasts, NEW net, NEW mode, NEW s, NEW steps, NEW force \in BOOLEAN,
         Begin(net, mode, s, steps, force)
  PROVE  /\ past' \in Pasts /\ past'.forced = (past.forced \/ force) /\ past'.restarted = past.restarted
         /\ ~past'.unsure => ~past.unsure /\ (mode = "adopt" => ~past.restarted)
<1>1. PICK f \in BOOLEAN, u \in BOOLEAN :
        /\ f = (past.forced \/ force)
        /\ u = (past.unsure \/ (mode = "adopt" /\ past.restarted))
  OBVIOUS
<1>2. past' = [past EXCEPT !.runs = @ + 1, !.forced = f, !.unsure = u]
  BY <1>1 DEF Begin
<1>3. past' = [runs |-> past.runs + 1, crashes |-> past.crashes, forced |-> f,
               restarted |-> past.restarted, unsure |-> u]
  BY <1>2 DEF Pasts
<1>4. past.runs + 1 \in Nat /\ past.crashes \in Nat /\ past.restarted \in BOOLEAN
  BY DEF Pasts
<1>5. past' \in Pasts
  BY <1>3, <1>4 DEF Pasts
<1>6. past'.forced = f /\ past'.restarted = past.restarted /\ past'.unsure = u
  BY <1>3
<1> QED BY <1>1, <1>5, <1>6

(* A run begins.                                                           *)
LEMMA Begins ==
  ASSUME DeployInv, NEW net \in Nets, NEW mode, NEW s, NEW steps, NEW force \in BOOLEAN,
         Begin(net, mode, s, steps, force), UNCHANGED <<chain, overlay, world>>,
         Shaped(s), s.is = "slice", SameKeys(overlay[net], s), net = "local" => OfDev(s),
         net = "live" /\ Registered /\ ~force =>
           s.contracts["settlement"] \in {None, world.registry["settlement"]} /\ steps \in Seq(Safe)
  PROVE  DeployInv'
<1>1. /\ plan' = RunPlan(net, mode, s) /\ todo' = steps /\ Planned(plan')
      /\ plan'.net = net /\ plan'.is = s.is /\ plan'.contracts = s.contracts /\ plan'.treasury = s.treasury
      /\ plan'.inline = s.inline /\ plan'.entities = s.entities
  BY PlanIs DEF Begin, RunPlan
<1>2. past' \in Pasts /\ past'.forced = (past.forced \/ force)
  BY PastBegun DEF DeployInv, Shapes
<1>3. nextKey' \in Nat
  <2>1. Len(Entities) \in Nat
    BY NamesAre
  <2> QED BY <2>1 DEF DeployInv, Shapes, Begin
<1>4. Shapes'
  BY <1>1, <1>2, <1>3 DEF DeployInv, Shapes, Planned, Shaped, Keyed, Keys
<1>5. EscrowKnown'
  <2>1. Registered' => Registered /\ ~force
    BY <1>2 DEF Registered
  <2> QED BY <1>1, <2>1 DEF DeployInv, EscrowKnown
<1>6. KeysKnown'
  BY <1>1 DEF DeployInv, KeysKnown, SameKeys, OfDev, DevSlice, Shaped, Keyed, Keys
<1> QED BY <1>4, <1>5, <1>6 DEF DeployInv
-----------------------------------------------------------------------------
(* The runs an operator can begin.                                         *)

(* Whatever a behaviour starts from, it is in order.                       *)
LEMMA BeginsInOrder == Init => DeployInv
<1> SUFFICES ASSUME Init PROVE DeployInv
  OBVIOUS
<1>1. /\ DOMAIN world.overlay = DOMAIN NoOverlay /\ DOMAIN world.overlay.contracts = Kinds
      /\ DOMAIN world.registry = Kinds
      /\ world.overlay.is = "slice" => Keyed(world.overlay)
      /\ world.overlay.is # "slice" => world.overlay.entities = NoWallets
      /\ world.registry # NoContracts =>
           /\ world.overlay.contracts["settlement"] \in {None, world.registry["settlement"]}
           /\ world.original.contracts["settlement"] \in {None, world.registry["settlement"]}
  BY SituationAssumption DEF Init
<1>2. PICK nonce : chain.live = IF world.original = NoOverlay THEN Genesis ELSE Deployed(world.original, nonce)
  BY DEF Init
<1>3. /\ DOMAIN chain = Nets /\ chain.local = Genesis
      /\ overlay = [live |-> world.overlay, local |-> NoOverlay]
      /\ plan = NoPlan /\ todo = <<>> /\ nextKey = 1
      /\ past = [runs |-> 0, crashes |-> 0, forced |-> FALSE, restarted |-> FALSE, unsure |-> FALSE]
  BY DEF Init, Nets
<1>4. DOMAIN chain.live = DOMAIN Genesis
  BY <1>2 DEF Genesis, Deployed
<1>5. Shapes
  <2>1. \A n \in Nets : Shaped(overlay[n])
    BY <1>1, <1>3, NoOverlayIs DEF Nets, Shaped
  <2>2. Planned(plan)
    BY <1>3, NoOverlayIs, PlanIs DEF NoPlan, Nets
  <2> QED BY <1>1, <1>3, <1>4, <2>1, <2>2 DEF Shapes, Nets, Pasts
<1>6. EscrowKnown
  <2>1. ASSUME Registered, NEW c \in chain.live.code, c.kind = "settlement"
        PROVE  c.at = world.registry["settlement"]
    <3>1. CASE world.original = NoOverlay
      BY <1>2, <2>1, <3>1 DEF Genesis
    <3>2. CASE world.original # NoOverlay
      <4>1. PICK k \in Kinds : /\ world.original.contracts[k] # None
                               /\ c = [at |-> world.original.contracts[k], kind |-> k]
        BY <1>2, <2>1, <3>2 DEF Deployed
      <4> QED BY <1>1, <2>1, <4>1 DEF Registered
    <3> QED BY <3>1, <3>2
  <2> QED BY <1>1, <1>3, <2>1 DEF EscrowKnown, Registered
<1>7. KeysKnown
  BY <1>3, NoOverlayIs DEF KeysKnown
<1> QED BY <1>5, <1>6, <1>7 DEF DeployInv

(* Generated keys are keys.                                                *)
LEMMA FreshAre ==
  ASSUME nextKey \in Nat
  PROVE  /\ DOMAIN FreshWallets = Ents /\ \A e \in Ents : FreshWallets[e] # None
         /\ \A s : s.entities = FreshWallets => Keyed(s)
<1>1. ASSUME NEW e \in Ents PROVE FreshWallets[e] # None
  <2>1. \E i \in DOMAIN Entities : Entities[i] = e
    BY DEF Ents, ToSet
  <2>2. Position(e) \in DOMAIN Entities
    BY <2>1 DEF Position
  <2>3. DOMAIN Entities \subseteq Nat
    BY NamesAre
  <2>4. Fresh(Position(e)) \in {"fresh", "dev"} \X Nat
    BY <2>2, <2>3 DEF Fresh
  <2>5. Fresh(Position(e)) # None
    BY <2>4, DeployAssumption
  <2> QED BY <2>5 DEF FreshWallets, Ents
<1>2. DOMAIN FreshWallets = Ents
  BY DEF FreshWallets, Ents
<1>3. ASSUME NEW s, s.entities = FreshWallets PROVE Keyed(s)
  BY <1>1, <1>2, <1>3 DEF Keyed, Keys, FreshWallets, Ents
<1> QED BY <1>1, <1>2, <1>3

(* The demo's keys are keys.                                               *)
LEMMA DevIs == Shaped(DevSlice) /\ DevSlice.is = "slice" /\ OfDev(DevSlice)
<1>1. ASSUME NEW e \in Ents PROVE <<"dev", Position(e)>> # None
  <2>1. \E i \in DOMAIN Entities : Entities[i] = e
    BY DEF Ents, ToSet
  <2>2. Position(e) \in DOMAIN Entities
    BY <2>1 DEF Position
  <2>3. DOMAIN Entities \subseteq Nat
    BY NamesAre
  <2> QED BY <2>2, <2>3, DeployAssumption
<1>2. Keyed(DevSlice)
  BY <1>1 DEF Keyed, Keys, DevSlice, Ents
<1>3. DOMAIN DevSlice = DOMAIN NoOverlay /\ DOMAIN DevSlice.contracts = Kinds /\ DevSlice.is = "slice"
  BY DEF DevSlice, NoOverlay, NoContracts
<1> QED BY <1>2, <1>3 DEF Shaped, OfDev

(* A full deploy keeps the keys of the file it replaces.                   *)
LEMMA FullIs ==
  ASSUME nextKey \in Nat, NEW o, Shaped(o)
  PROVE  Shaped(FullSlice(o)) /\ FullSlice(o).is = "slice" /\ SameKeys(o, FullSlice(o))
<1>1. DOMAIN FullSlice(o) = DOMAIN NoOverlay /\ DOMAIN FullSlice(o).contracts = Kinds
      /\ FullSlice(o).is = "slice"
  BY DEF FullSlice, NoOverlay, NoContracts
<1>2. CASE o.is = "slice"
  <2>1. Keyed(o)
    BY <1>2 DEF Shaped
  <2>2. \A e \in Ents : o.entities[e] # None
    BY <2>1 DEF Keyed, Keys, Ents
  <2>3. o.entities = [e \in Ents |-> o.entities[e]]
    BY <2>1 DEF Keyed, Ents
  <2>4. FullSlice(o).entities = [e \in Ents |-> o.entities[e]]
    BY <2>2 DEF FullSlice, Ents
  <2>5. FullSlice(o).entities = o.entities
    BY <2>3, <2>4
  <2>6. Keyed(FullSlice(o))
    BY <2>1, <2>5 DEF Keyed, Keys
  <2>7. o.inline /\ world.env = None => FullSlice(o).treasury = o.treasury
    BY DEF FullSlice
  <2> QED BY <1>1, <2>5, <2>6, <2>7 DEF Shaped, SameKeys
<1>3. CASE o.is # "slice"
  <2>1. \A e \in Ents : o.entities[e] = None
    BY <1>3 DEF Shaped, NoWallets, Ents
  <2>2. FullSlice(o).entities = [e \in Ents |-> FreshWallets[e]]
    BY <2>1 DEF FullSlice, Ents
  <2>3. FullSlice(o).entities = FreshWallets
    BY <2>2 DEF FreshWallets, Ents
  <2>4. Keyed(FullSlice(o))
    BY <2>3, FreshAre
  <2> QED BY <1>1, <1>3, <2>4 DEF Shaped, SameKeys
<1> QED BY <1>2, <1>3
(* A run that is refused, or has nothing to do.                            *)
LEMMA RefusedKept ==
  ASSUME DeployInv, Idle, UNCHANGED <<chain, overlay, world, nextKey, todo, past>>,
         plan' = NoPlan \/ \E mode : plan' = RunPlan("live", mode, overlay.live)
  PROVE  DeployInv'
<1>1. Planned(plan')
  BY NoOverlayIs, PlanIs DEF NoPlan, DeployInv, Shapes, Nets
<1>2. Planned(plan)'
  BY <1>1 DEF Planned
<1>3. ChainKept /\ todo' = <<>> /\ past' \in Pasts /\ past'.forced = past.forced /\ DOMAIN overlay' = Nets
  BY NothingSent DEF DeployInv, Shapes, Idle
<1> QED BY <1>2, <1>3, Stops

(* Adopting: the registry's contracts, and keys nobody had.                *)
LEMMA AdoptKept ==
  ASSUME DeployInv, Idle, NEW p \in BOOLEAN, Adopt(p), UNCHANGED <<chain, overlay, world>>
  PROVE  DeployInv'
<1>1. CASE Leave
  BY <1>1, RefusedKept DEF Leave
<1>2. CASE AdoptAllowed /\ Begin("live", "adopt", AdoptSlice, AdoptSteps, FALSE)
  <2>1. AdoptSlice.is = "slice" /\ AdoptSlice.contracts = world.registry
        /\ AdoptSlice.entities = FreshWallets /\ DOMAIN AdoptSlice = DOMAIN NoOverlay
    BY DEF AdoptSlice, NoOverlay
  <2>2. Keyed(AdoptSlice)
    BY <2>1, FreshAre DEF DeployInv, Shapes
  <2>3. Shaped(AdoptSlice)
    BY <2>1, <2>2 DEF DeployInv, Shapes, Shaped
  <2>4. SameKeys(overlay["live"], AdoptSlice)
    BY <1>2 DEF AdoptAllowed, SameKeys
  <2> QED BY <1>2, <2>1, <2>3, <2>4, AdoptIsSafe, Begins DEF Nets
<1> QED BY <1>1, <1>2 DEF Adopt

(* Otherwise the file decides.                                             *)
LEMMA DeployKept ==
  ASSUME DeployInv, Idle, NEW p \in BOOLEAN, NEW force \in BOOLEAN, Deploy(p, force),
         UNCHANGED <<chain, overlay, world>>
  PROVE  DeployInv'
<1>0. PICK o : o = overlay.live
  OBVIOUS
<1>1. Shaped(o) /\ nextKey \in Nat
  BY <1>0 DEF DeployInv, Shapes, Nets
<1>2. CASE Leave
  BY <1>2, RefusedKept DEF Leave
<1>3. CASE plan' = RunPlan("live", "noop", o) /\ UNCHANGED <<nextKey, todo, past>>
  BY <1>0, <1>3, RefusedKept
<1>4. CASE decideDeployMode(o) = "mmf_addon" /\ Begin("live", "mmf_addon", o, MmfAddonSteps, FALSE)
  <2>1. o.is = "slice"
    BY <1>4 DEF decideDeployMode
  <2>2. SameKeys(overlay["live"], o)
    BY <1>0 DEF SameKeys
  <2>3. Registered => o.contracts["settlement"] \in {None, world.registry["settlement"]}
    BY <1>0 DEF DeployInv, EscrowKnown
  <2> QED BY <1>1, <1>4, <2>1, <2>2, <2>3, AddonIsSafe, Begins DEF Nets
<1>5. CASE /\ FullDeployAllowed("full", force) /\ o.is # "torn"
           /\ Begin("live", "full", FullSlice(o), FullSteps, force)
  <2>1. Registered => force
    BY <1>5 DEF Registered, FullDeployAllowed
  <2>2. Shaped(FullSlice(o)) /\ FullSlice(o).is = "slice" /\ SameKeys(overlay["live"], FullSlice(o))
    BY <1>0, <1>1, FullIs
  <2> QED BY <1>5, <2>1, <2>2, Begins DEF Nets
<1> QED BY <1>0, <1>2, <1>3, <1>4, <1>5 DEF Deploy

(* The scripts begun, or refused.                                          *)
LEMMA RunsKept ==
  ASSUME DeployInv, RunDeploy \/ RunSetup
  PROVE  DeployInv'
<1>0. Idle /\ UNCHANGED <<chain, overlay, world>>
  BY DEF RunDeploy, RunSetup
<1>1. CASE Leave
  BY <1>0, <1>1, RefusedKept DEF Leave
<1>2. CASE RunDeploy /\ ~Leave
  <2>1. PICK args \in parseDeployArgs :
          \/ args.adopt /\ Adopt(args.preflightOnly)
          \/ ~args.adopt /\ Deploy(args.preflightOnly, args.forceFullDeploy)
    BY <1>2 DEF RunDeploy
  <2>2. args.preflightOnly \in BOOLEAN /\ args.forceFullDeploy \in BOOLEAN
    BY DEF parseDeployArgs
  <2> QED BY <1>0, <2>1, <2>2, AdoptKept, DeployKept
<1>3. CASE Begin("local", "setup", DevSlice, SetupSteps, FALSE)
  <2>1. SameKeys(overlay["local"], DevSlice)
    BY DEF DeployInv, KeysKnown, OfDev, SameKeys
  <2> QED BY <1>0, <1>3, <2>1, DevIs, Begins DEF Nets
<1> QED BY <1>1, <1>2, <1>3 DEF RunSetup
-----------------------------------------------------------------------------
(* The steps of a run, and what happens between runs.                      *)

(* Transactions that create no contract.                                   *)
LEMMA SpendingKept ==
  ASSUME DeployInv, Fund \/ SetApprovedAsset \/ Mint \/ Approve
  PROVE  DeployInv'
<1>1. todo # <<>> /\ Advance /\ UNCHANGED <<plan, overlay>> /\ Shapes
  BY DEF Fund, SetApprovedAsset, Mint, Approve, Doing, DeployInv
<1>2. DOMAIN Here = DOMAIN Genesis
  BY DEF Here, DeployInv, Shapes, Planned
<1>3. CASE OffChain
  BY <1>1, <1>3, NothingSent, Goes DEF OffChain
<1>4. ASSUME NEW to, FromDeployer([Here EXCEPT !.funded = @ \union {to}])
      PROVE  DeployInv'
  <2>1. PICK h : h = [Here EXCEPT !.funded = @ \union {to}]
    OBVIOUS
  <2>2. DOMAIN h = DOMAIN Genesis /\ h.code = Here.code
    BY <1>2, <2>1 DEF Genesis
  <2> QED BY <1>1, <1>4, <2>1, <2>2, Sent, Goes
<1>5. ASSUME NEW asset, FromDeployer([Here EXCEPT !.assets = @ \union {asset}])
      PROVE  DeployInv'
  <2>1. PICK h : h = [Here EXCEPT !.assets = @ \union {asset}]
    OBVIOUS
  <2>2. DOMAIN h = DOMAIN Genesis /\ h.code = Here.code
    BY <1>2, <2>1 DEF Genesis
  <2> QED BY <1>1, <1>5, <2>1, <2>2, Sent, Goes
<1>6. ASSUME NEW minted, FromDeployer([Here EXCEPT !.minted = @ \union {minted}])
      PROVE  DeployInv'
  <2>1. PICK h : h = [Here EXCEPT !.minted = @ \union {minted}]
    OBVIOUS
  <2>2. DOMAIN h = DOMAIN Genesis /\ h.code = Here.code
    BY <1>2, <2>1 DEF Genesis
  <2> QED BY <1>1, <1>6, <2>1, <2>2, Sent, Goes
<1>7. CASE Transact([Here EXCEPT !.allowance = @ \union {FundApproval}])
  <2>1. PICK h : h = [Here EXCEPT !.allowance = @ \union {FundApproval}]
    OBVIOUS
  <2>2. DOMAIN h = DOMAIN Genesis /\ h.code = Here.code
    BY <1>2, <2>1 DEF Genesis
  <2> QED BY <1>1, <1>7, <2>1, <2>2, Transacted, Goes
<1>8. CASE Fund
  BY <1>3, <1>4, <1>8 DEF Fund
<1>9. CASE SetApprovedAsset
  BY <1>5, <1>9 DEF SetApprovedAsset
<1>10. CASE Mint
  BY <1>3, <1>6, <1>10 DEF Mint
<1>11. CASE Approve
  BY <1>3, <1>7, <1>11 DEF Approve
<1> QED BY <1>8, <1>9, <1>10, <1>11

(* A new contract: an escrow only where the network is not registered, or  *)
(* the run was forced.                                                     *)
LEMMA DeployContractKept == ASSUME DeployInv, DeployContract PROVE DeployInv'
<1>0. /\ todo # <<>> /\ Advance /\ UNCHANGED overlay /\ Head(todo).do = "deploy"
      /\ Shapes /\ EscrowKnown /\ KeysKnown /\ Planned(plan) /\ plan.net \in Nets
  BY DEF DeployContract, Doing, DeployInv, Shapes, Planned
<1>1. PICK kind, at, code, h :
        /\ kind = Head(todo).on /\ code = Here.code \union {[at |-> at, kind |-> kind]}
        /\ h = [[Here EXCEPT !.code = code] EXCEPT !.nonce = @ + 1]
        /\ Transact(h) /\ plan' = [plan EXCEPT !.contracts[kind] = at]
  BY DEF DeployContract, FromDeployer
<1>2. DOMAIN h = DOMAIN Genesis /\ h.code = code
  BY <1>0, <1>1 DEF Shapes, Here, Genesis
<1>3. /\ DOMAIN chain' = Nets /\ \A n \in Nets : DOMAIN chain'[n] = DOMAIN Genesis
      /\ chain'.live.code = IF plan.net = "live" THEN code ELSE chain.live.code
  BY <1>0, <1>1, <1>2 DEF Shapes, Transact, Nets
<1>4. /\ Planned(plan') /\ plan'.net = plan.net /\ plan'.is = plan.is /\ plan'.entities = plan.entities
      /\ plan'.treasury = plan.treasury /\ plan'.inline = plan.inline
      /\ kind # "settlement" => plan'.contracts["settlement"] = plan.contracts["settlement"]
  <2>1. DOMAIN NoOverlay = {"is", "contracts", "treasury", "inline", "entities"} /\ "settlement" \in Kinds
    BY DEF NoOverlay, Kinds
  <2> QED BY <1>0, <1>1, <2>1 DEF Planned
<1>5. Shapes'
  BY <1>0, <1>3, <1>4 DEF Shapes, Advance, Planned, Shaped, Keyed, Keys
<1>6. EscrowKnown'
  <2>1. Registered' => Registered /\ world' = world
    BY <1>0 DEF Registered, Advance
  <2>2. ASSUME Registered, plan.net = "live"
        PROVE  /\ kind # "settlement" /\ todo' \in Seq(Safe)
               /\ plan.contracts["settlement"] \in {None, world.registry["settlement"]}
    <3>1. todo \in Seq(Safe) /\ plan.contracts["settlement"] \in {None, world.registry["settlement"]}
      BY <1>0, <2>2 DEF EscrowKnown
    <3>2. Head(todo) \in Safe /\ Tail(todo) \in Seq(Safe)
      BY <1>0, <3>1
    <3> QED BY <1>0, <1>1, <3>1, <3>2 DEF Safe, Advance
  <2>3. ASSUME Registered, NEW c \in chain'.live.code, c.kind = "settlement"
        PROVE  c.at = world.registry["settlement"]
    <3>1. c \in chain.live.code
      BY <1>0, <1>1, <1>3, <2>2, <2>3 DEF Here
    <3> QED BY <1>0, <2>3, <3>1 DEF EscrowKnown
  <2>4. overlay' = overlay
    BY <1>0
  <2> QED BY <1>0, <1>4, <2>1, <2>2, <2>3, <2>4 DEF EscrowKnown
<1>7. KeysKnown'
  BY <1>0, <1>4 DEF KeysKnown, SameKeys, OfDev, DevSlice, Keyed, Keys, Advance
<1> QED BY <1>5, <1>6, <1>7 DEF DeployInv

(* The file is written: with the keys it had.                              *)
LEMMA WriteKept ==
  ASSUME DeployInv, WriteOverlay
  PROVE  /\ DeployInv'
         /\ \A n \in Nets : overlay[n].is = "slice" =>
              /\ overlay'[n].entities = overlay[n].entities
              /\ overlay[n].inline /\ world.env = None => overlay'[n].treasury = overlay[n].treasury
<1>0. /\ todo # <<>> /\ Advance /\ UNCHANGED <<plan, chain>>
      /\ Shapes /\ EscrowKnown /\ KeysKnown /\ Planned(plan) /\ plan.net \in Nets
      /\ DOMAIN overlay = Nets /\ Shaped(overlay[plan.net])
  BY DEF WriteOverlay, OffChain, Doing, DeployInv, Shapes, Planned
<1>1. PICK o : /\ overlay' = [overlay EXCEPT ![plan.net] = o]
               /\ \/ o = [overlay[plan.net] EXCEPT !.contracts["fund"] = plan.contracts["fund"]]
                  \/ o = Recorded
  BY DEF WriteOverlay
<1>2. /\ overlay'[plan.net] = o /\ DOMAIN overlay' = Nets
      /\ \A n \in Nets : n # plan.net => overlay'[n] = overlay[n]
  BY <1>0, <1>1
<1>3. /\ Shaped(o) /\ SameKeys(overlay[plan.net], o) /\ SameKeys(o, plan)
      /\ o.is = "slice" /\ plan.net = "local" => OfDev(o)
      /\ o.contracts["settlement"] \in {overlay[plan.net].contracts["settlement"], plan.contracts["settlement"]}
  <2>1. DOMAIN NoOverlay = {"is", "contracts", "treasury", "inline", "entities"} /\ "settlement" \in Kinds
    BY DEF NoOverlay, Kinds
  <2>2. CASE o = [overlay[plan.net] EXCEPT !.contracts["fund"] = plan.contracts["fund"]]
    <3>1. /\ DOMAIN o = DOMAIN NoOverlay /\ DOMAIN o.contracts = Kinds
          /\ o.is = overlay[plan.net].is /\ o.entities = overlay[plan.net].entities
          /\ o.treasury = overlay[plan.net].treasury /\ o.inline = overlay[plan.net].inline
          /\ o.contracts["settlement"] = overlay[plan.net].contracts["settlement"]
      BY <1>0, <2>1, <2>2 DEF Shaped
    <3>2. Shaped(o)
      BY <1>0, <3>1 DEF Shaped, Keyed, Keys
    <3> QED BY <1>0, <3>1, <3>2 DEF KeysKnown, SameKeys, OfDev
  <2>3. CASE o = Recorded
    <3>1. /\ DOMAIN o = DOMAIN NoOverlay /\ o.is = plan.is /\ o.contracts = plan.contracts
          /\ o.treasury = plan.treasury /\ o.inline = plan.inline /\ o.entities = plan.entities
      BY <1>0, <2>3, RecordedIs
    <3>2. Shaped(o)
      BY <1>0, <3>1 DEF KeysKnown, Planned, Shaped, Keyed, Keys
    <3> QED BY <1>0, <3>1, <3>2 DEF KeysKnown, SameKeys, OfDev
  <2> QED BY <1>1, <2>2, <2>3
<1>4. Shapes'
  <2>1. \A n \in Nets : Shaped(overlay'[n])
    BY <1>0, <1>2, <1>3 DEF Shapes
  <2> QED BY <1>0, <1>2, <2>1 DEF Shapes, Advance, Planned, Shaped, Keyed, Keys
<1>5. EscrowKnown'
  <2>1. Registered' => Registered /\ world' = world
    BY <1>0 DEF Registered, Advance
  <2>2. todo \in Seq(Safe) => todo' \in Seq(Safe)
    BY <1>0 DEF Advance
  <2>3. Registered => overlay'.live.contracts["settlement"] \in {None, world.registry["settlement"]}
    BY <1>0, <1>2, <1>3 DEF EscrowKnown, Nets
  <2> QED BY <1>0, <2>1, <2>2, <2>3 DEF EscrowKnown
<1>6. KeysKnown'
  <2>1. overlay'.local.is = "slice" => OfDev(overlay'.local)
    BY <1>0, <1>2, <1>3 DEF KeysKnown, Nets
  <2> QED BY <1>0, <1>2, <1>3, <2>1 DEF KeysKnown, SameKeys, OfDev, DevSlice, Keyed, Keys, Advance
<1>7. ASSUME NEW n \in Nets, overlay[n].is = "slice"
      PROVE  /\ overlay'[n].entities = overlay[n].entities
             /\ overlay[n].inline /\ world.env = None => overlay'[n].treasury = overlay[n].treasury
  BY <1>2, <1>3, <1>7 DEF SameKeys
<1> QED BY <1>4, <1>5, <1>6, <1>7 DEF DeployInv

(* Rows and the database alone.                                            *)
LEMMA RowsKept ==
  ASSUME DeployInv, RegisterWallet \/ Wipe \/ ReadLive \/ SeedEntity
  PROVE  DeployInv' /\ UNCHANGED overlay
<1>1. todo # <<>> /\ UNCHANGED <<chain, overlay>> /\ Shapes
  BY DEF RegisterWallet, Wipe, ReadLive, SeedEntity, OffChain, Doing, DeployInv
<1>2. CASE Advance /\ UNCHANGED plan
  BY <1>1, <1>2, NothingSent, Goes
<1>3. CASE todo' = <<>> /\ plan' = NoPlan /\ UNCHANGED <<nextKey, past, world>>
  <2>1. Planned(plan)'
    BY <1>3, NoOverlayIs, PlanIs DEF NoPlan, Nets, Planned
  <2> QED BY <1>1, <1>3, <2>1, NothingSent, Stops DEF Shapes
<1> QED BY <1>1, <1>2, <1>3 DEF RegisterWallet, Wipe, ReadLive, SeedEntity
(* A run dies, perhaps in the middle of a write; the operator moves the    *)
(* file aside; the live chain starts over.                                 *)
LEMMA BetweenKept ==
  ASSUME DeployInv, Crash \/ MoveAside \/ Regenesis
  PROVE  /\ DeployInv'
         /\ \A n \in Nets : overlay'[n] = overlay[n] \/ overlay'[n].is # "slice"
<1>0. /\ Shapes /\ DOMAIN overlay = Nets /\ DOMAIN chain = Nets /\ past \in Pasts /\ plan.net \in Nets
      /\ UNCHANGED <<nextKey, world>> /\ plan' = NoPlan
  BY DEF DeployInv, Shapes, Planned, Crash, MoveAside, Regenesis
<1>1. Planned(plan)'
  BY <1>0, NoOverlayIs, PlanIs DEF NoPlan, Nets, Planned
<1>2. todo' = <<>>
  BY DEF Crash, MoveAside, Regenesis, Idle
<1>3. past' \in Pasts /\ past'.forced = past.forced
  <2>1. CASE Crash
    <3>1. past' = [runs |-> past.runs, crashes |-> past.crashes + 1, forced |-> past.forced,
                   restarted |-> past.restarted, unsure |-> past.unsure]
      BY <1>0, <2>1 DEF Crash, Pasts
    <3>2. past.crashes + 1 \in Nat
      BY <1>0 DEF Pasts
    <3> QED BY <1>0, <3>1, <3>2 DEF Pasts
  <2>2. CASE MoveAside
    BY <1>0, <2>2 DEF MoveAside, Pasts
  <2>3. CASE Regenesis
    BY <1>0, <2>3 DEF Regenesis, Pasts
  <2> QED BY <2>1, <2>2, <2>3
<1>4. ChainKept
  <2>1. CASE UNCHANGED chain
    BY <1>0, <2>1, NothingSent
  <2>2. CASE chain' = [chain EXCEPT !.live = Genesis]
    <3>1. DOMAIN chain' = Nets /\ chain'.live = Genesis /\ chain'.local = chain.local
      BY <1>0, <2>2 DEF Nets
    <3> QED BY <1>0, <3>1 DEF ChainKept, Shapes, Nets, Genesis
  <2> QED BY <2>1, <2>2 DEF Crash, MoveAside, Regenesis
<1>5. PICK o : /\ Shaped(o) /\ o.is # "slice" /\ o.contracts = NoContracts
               /\ \/ UNCHANGED overlay
                  \/ \E n \in Nets : overlay' = [overlay EXCEPT ![n] = o]
  <2>1. CASE UNCHANGED overlay
    BY <2>1, NoOverlayIs
  <2>2. CASE overlay' = [overlay EXCEPT !.live = NoOverlay]
    BY <2>2, NoOverlayIs DEF Nets
  <2>3. CASE overlay' = [overlay EXCEPT ![plan.net] = [NoOverlay EXCEPT !.is = "torn"]]
    <3>1. PICK o : o = [NoOverlay EXCEPT !.is = "torn"]
      OBVIOUS
    <3>2. Shaped(o) /\ o.is = "torn" /\ o.contracts = NoContracts
      BY <3>1 DEF NoOverlay, NoContracts, Shaped
    <3> QED BY <1>0, <2>3, <3>1, <3>2
  <2> QED BY <2>1, <2>2, <2>3 DEF Crash, MoveAside, Regenesis
<1>6. DOMAIN overlay' = Nets /\ \A n \in Nets : overlay'[n] = overlay[n] \/ overlay'[n] = o
  BY <1>0, <1>5
<1> QED BY <1>0, <1>1, <1>2, <1>3, <1>4, <1>5, <1>6, Stops

-----------------------------------------------------------------------------
(* Every step.                                                             *)

(* What one step may do to a file.                                         *)
KeepsKeys ==
  \A n \in Nets :
    overlay[n].is = "slice" /\ overlay'[n].is = "slice" =>
      /\ overlay'[n].entities = overlay[n].entities
      /\ overlay[n].inline /\ world.env = None => overlay'[n].treasury = overlay[n].treasury

(* Each step leaves the invariant, and every key in a file.                *)
LEMMA StepKeeps == ASSUME DeployInv, [DeployNext]_vars PROVE DeployInv' /\ KeepsKeys
<1>0. UNCHANGED overlay => KeepsKeys
  BY DEF KeepsKeys
<1>1. CASE RunDeploy \/ RunSetup
  BY <1>0, <1>1, RunsKept DEF RunDeploy, RunSetup
<1>2. CASE Fund \/ SetApprovedAsset \/ Mint \/ Approve
  BY <1>0, <1>2, SpendingKept DEF Fund, SetApprovedAsset, Mint, Approve
<1>3. CASE DeployContract
  BY <1>0, <1>3, DeployContractKept DEF DeployContract
<1>4. CASE WriteOverlay
  BY <1>4, WriteKept DEF KeepsKeys
<1>5. CASE RegisterWallet \/ Wipe \/ ReadLive \/ SeedEntity
  BY <1>0, <1>5, RowsKept
<1>6. CASE Crash \/ MoveAside \/ Regenesis
  BY <1>6, BetweenKept DEF KeepsKeys
<1>7. CASE UNCHANGED vars
  <2>1. UNCHANGED <<chain, overlay, nextKey, plan, todo, past, world>>
    BY <1>7 DEF vars
  <2> QED BY <1>0, <2>1 DEF DeployInv, Shapes, EscrowKnown, KeysKnown, Registered, Planned, Shaped,
            Keyed, Keys, SameKeys, OfDev, DevSlice
<1> QED BY <1>1, <1>2, <1>3, <1>4, <1>5, <1>6, <1>7 DEF DeployNext

(* The invariant holds in every behaviour.                                 *)
THEOREM DeployInvariant == Spec => []DeployInv
<1> QED BY BeginsInOrder, StepKeeps, PTL DEF Spec

(* OneEscrow: no unforced run adds a second escrow to a registered         *)
(* network, and no file names another (scripts/deploy-testnet.mjs,         *)
(* assertAdoptableFullDeployAllowed).                                      *)
THEOREM EscrowStaysOne == Spec => []OneEscrow
<1>1. DeployInv => OneEscrow
  BY DEF DeployInv, EscrowKnown, Registered, OneEscrow
<1> QED BY <1>1, DeployInvariant, PTL

(* KeysKept: a file rewritten in place keeps the generated keys it held    *)
(* (scripts/deploy-testnet.mjs, runFullDeploy and runMmfAddon).            *)
THEOREM KeysAreKept == Spec => KeysKept
<1>1. DeployInv /\ [DeployNext]_vars =>
        [\A n \in Nets :
           overlay[n].is = "slice" /\ overlay'[n].is = "slice" =>
             /\ overlay'[n].entities = overlay[n].entities
             /\ overlay[n].inline /\ world.env = None => overlay'[n].treasury = overlay[n].treasury]_vars
  BY StepKeeps DEF KeepsKeys
<1> QED BY <1>1, DeployInvariant, PTL DEF Spec, KeysKept

-----------------------------------------------------------------------------
(* What a run must achieve, and what its steps do to that.                 *)

Steps == [do : Doings, on : Subjects, to : Subjects]
Escrowed == {Step("deploy", k, None) : k \in Kinds \ {"fund"}} \union {Step("setApprovedAsset", t, None) : t \in Tokens}
Endowed == {Step("mint", Mints[i][1], Mints[i][2]) : i \in DOMAIN Mints}
Gas == {Step("fund", h, None) : h \in Holders}
FundSet == {Step("deploy", "fund", None), Step("mint", USDC, "fund"), Step("approve", USDC, "fund")}
File == Step("write", None, None)
OnChain == Escrowed \union Endowed \union FundSet

(* The goals of a run: what it leaves behind when it is done.              *)
Goals(mode) ==
  OnChain \union {File} \union
  (IF mode = "setup" THEN {Step("readLive", None, None)} \union {Step("seed", e, None) : e \in Ents}
   ELSE Gas \union IF mode \in {"full", "adopt"} THEN {Step("register", e, None) : e \in Ents} ELSE {})

(* A step reaches a goal, and undoes one until a later step reaches it.    *)
Serves(s, g) ==
  \/ s = g
  \/ s.do = "merge" /\ g = File
  \/ s = Step("buffer", USDC, "fund") /\ g = Step("mint", USDC, "fund")
  \/ s = Step("approveOnce", USDC, "fund") /\ g = Step("approve", USDC, "fund")

Disturbs(s, g) ==
  \/ s.do = "deploy" /\ g.do = "deploy" /\ g.on = s.on
  \/ s.do = "deploy" /\ s.on # "fund" /\ g.do \in {"setApprovedAsset", "mint", "approve", "write"}
  \/ s.do = "deploy" /\ s.on = "fund" /\ g \in FundSet \union {File}
  \/ s.do \in {"wipe", "seed"} /\ g.do = "register"
  \/ s.do = "wipe" /\ g.do = "seed"

Serving(P, g) == \E i \in 1 .. Len(P) : Serves(P[i], g)
Mends(P, g) ==
  \A j \in 1 .. Len(P) :
    Disturbs(P[j], g) => Serves(P[j], g) \/ \E i \in 1 .. Len(P) : i > j /\ Serves(P[i], g)
MendsAll(P, G) == \A g \in G : Mends(P, g)

(* Nothing is sent once the file is written.                               *)
Does(P, X) == P \in Seq(Steps) /\ \A i \in 1 .. Len(P) : P[i].do \in X
Quiet == {"register", "wipe", "readLive", "seed"}
Sending == Doings \ (Quiet \union {"write", "merge"})
Tidy(P) == \A i \in 1 .. Len(P), j \in 1 .. Len(P) : i < j /\ P[i].do \in {"write", "merge"} => P[j].do \in Quiet

-----------------------------------------------------------------------------
(* Lists of steps, one after the other.                                    *)

(* Where the steps of two lists are.                                       *)
LEMMA JoinedAre ==
  ASSUME NEW a \in Seq(Steps), NEW b \in Seq(Steps), NEW c, c = a \o b
  PROVE  /\ c \in Seq(Steps) /\ Len(c) = Len(a) + Len(b) /\ Len(a) \in Nat /\ Len(b) \in Nat
         /\ \A i \in 1 .. Len(a) : i \in 1 .. Len(c) /\ c[i] = a[i]
         /\ \A i \in 1 .. Len(b) : Len(a) + i \in 1 .. Len(c) /\ c[Len(a) + i] = b[i]
         /\ \A i \in 1 .. Len(c) : i \in 1 .. Len(a) \/ (i > Len(a) /\ i - Len(a) \in 1 .. Len(b))
  OBVIOUS

(* What either reaches, both do.                                           *)
LEMMA JoinServes ==
  ASSUME NEW a \in Seq(Steps), NEW b \in Seq(Steps), NEW g, Serving(a, g) \/ Serving(b, g)
  PROVE  Serving(a \o b, g)
<1>1. PICK c : c = a \o b
  OBVIOUS
<1>2. CASE Serving(a, g)
  BY <1>1, <1>2, JoinedAre DEF Serving
<1>3. CASE Serving(b, g)
  <2>1. PICK i \in 1 .. Len(b) : Serves(b[i], g)
    BY <1>3 DEF Serving
  <2>2. Len(a) + i \in 1 .. Len(c) /\ c[Len(a) + i] = b[i]
    BY <1>1, JoinedAre
  <2> QED BY <1>1, <2>1, <2>2 DEF Serving
<1> QED BY <1>2, <1>3

(* A goal that the second mends, or reaches after the first, both mend.    *)
LEMMA JoinMends ==
  ASSUME NEW a \in Seq(Steps), NEW b \in Seq(Steps), NEW g, Mends(b, g), Mends(a, g) \/ Serving(b, g)
  PROVE  Mends(a \o b, g)
<1>1. PICK c : c = a \o b
  OBVIOUS
<1>2. ASSUME NEW j \in 1 .. Len(c), Disturbs(c[j], g)
      PROVE  Serves(c[j], g) \/ \E i \in 1 .. Len(c) : i > j /\ Serves(c[i], g)
  <2>1. CASE j \in 1 .. Len(a)
    <3>1. c[j] = a[j]
      BY <1>1, <2>1, JoinedAre
    <3>2. CASE Serving(b, g)
      <4>1. PICK i \in 1 .. Len(b) : Serves(b[i], g)
        BY <3>2 DEF Serving
      <4>2. Len(a) + i \in 1 .. Len(c) /\ c[Len(a) + i] = b[i] /\ Len(a) + i > j
        BY <1>1, <2>1, JoinedAre
      <4> QED BY <4>1, <4>2
    <3>3. CASE Mends(a, g)
      BY <1>1, <1>2, <2>1, <3>1, <3>3, JoinedAre DEF Mends
    <3> QED BY <3>2, <3>3
  <2>2. CASE j \notin 1 .. Len(a)
    <3>1. PICK k \in 1 .. Len(b) : k = j - Len(a) /\ j = Len(a) + k /\ c[j] = b[k]
      <4>1. Len(a) \in Nat /\ Len(b) \in Nat /\ j - Len(a) \in 1 .. Len(b) /\ j \in Int
        BY <1>1, <2>2, JoinedAre
      <4>2. j = Len(a) + (j - Len(a))
        BY <4>1
      <4> QED BY <1>1, <4>1, <4>2, JoinedAre
    <3>2. CASE Serves(b[k], g)
      BY <3>1, <3>2
    <3>3. CASE ~Serves(b[k], g)
      <4>1. PICK i \in 1 .. Len(b) : i > k /\ Serves(b[i], g)
        BY <1>2, <3>1, <3>3 DEF Mends
      <4>2. Len(a) + i \in 1 .. Len(c) /\ c[Len(a) + i] = b[i] /\ Len(a) + i > j
        BY <1>1, <3>1, <4>1, JoinedAre
      <4> QED BY <4>1, <4>2
    <3> QED BY <3>2, <3>3
  <2> QED BY <2>1, <2>2
<1> QED BY <1>1, <1>2 DEF Mends

(* Steps that deploy and wipe nothing undo no goal but a wallet's.         *)
LEMMA CalmMends ==
  ASSUME NEW P, Does(P, Doings \ {"deploy", "wipe"}), NEW g,
         g.do = "register" => Does(P, Doings \ {"deploy", "wipe", "seed"})
  PROVE  Mends(P, g)
BY DEF Does, Mends, Disturbs

(* What both do is what each does.                                         *)
LEMMA JoinDoes ==
  ASSUME NEW a, NEW b, NEW X, Does(a, X), Does(b, X)
  PROVE  Does(a \o b, X)
<1>1. PICK c : c = a \o b
  OBVIOUS
<1>2. a \in Seq(Steps) /\ b \in Seq(Steps)
  BY DEF Does
<1>3. ASSUME NEW i \in 1 .. Len(c) PROVE c[i].do \in X
  <2>1. CASE i \in 1 .. Len(a)
    BY <1>1, <1>2, <2>1, JoinedAre DEF Does
  <2>2. CASE i \notin 1 .. Len(a)
    <3>1. Len(a) \in Nat /\ i - Len(a) \in 1 .. Len(b) /\ i \in Int
      BY <1>1, <1>2, <2>2, JoinedAre
    <3>2. i = Len(a) + (i - Len(a))
      BY <3>1
    <3>3. c[i] = b[i - Len(a)]
      BY <1>1, <1>2, <3>1, <3>2, JoinedAre
    <3> QED BY <3>1, <3>3 DEF Does
  <2> QED BY <2>1, <2>2
<1> QED BY <1>1, <1>2, <1>3, JoinedAre DEF Does

(* Doing less is doing so.                                                 *)
LEMMA DoesMore == ASSUME NEW P, NEW X, NEW Y, X \subseteq Y, Does(P, X) PROVE Does(P, Y)
  BY DEF Does

(* Sending, the write, and what is quiet: a run in order.                  *)
LEMMA TidyRuns ==
  ASSUME NEW a, Does(a, Sending), NEW w \in Seq(Steps), Tidy(w), NEW q, Does(q, Quiet)
  PROVE  Tidy((a \o w) \o q)
<1>1. PICK b, c : b = a \o w /\ c = b \o q
  OBVIOUS
<1>2. /\ a \in Seq(Steps) /\ q \in Seq(Steps) /\ b \in Seq(Steps)
      /\ Len(a) \in Nat /\ Len(w) \in Nat /\ Len(q) \in Nat /\ Len(b) = Len(a) + Len(w)
      /\ Len(c) = Len(b) + Len(q)
  BY <1>1 DEF Does
<1>3. ASSUME NEW k \in 1 .. Len(c)
      PROVE  \/ c[k].do \in Sending /\ k <= Len(a)
             \/ k - Len(a) \in 1 .. Len(w) /\ c[k] = w[k - Len(a)]
             \/ c[k].do \in Quiet /\ k > Len(b)
  <2>1. CASE k > Len(b)
    <3>1. k - Len(b) \in 1 .. Len(q) /\ k = Len(b) + (k - Len(b))
      BY <1>2, <2>1
    <3>2. c[k] = q[k - Len(b)]
      BY <1>1, <1>2, <3>1, JoinedAre
    <3> QED BY <2>1, <3>1, <3>2 DEF Does
  <2>2. CASE k <= Len(a)
    <3>1. k \in 1 .. Len(a) /\ k \in 1 .. Len(b)
      BY <1>2, <2>2
    <3>2. c[k] = b[k] /\ b[k] = a[k]
      BY <1>1, <1>2, <3>1, JoinedAre
    <3> QED BY <2>2, <3>1, <3>2 DEF Does
  <2>3. CASE k > Len(a) /\ k <= Len(b)
    <3>1. k - Len(a) \in 1 .. Len(w) /\ k = Len(a) + (k - Len(a)) /\ k \in 1 .. Len(b)
      BY <1>2, <2>3
    <3>2. c[k] = b[k] /\ b[k] = w[k - Len(a)]
      BY <1>1, <1>2, <3>1, JoinedAre
    <3> QED BY <3>1, <3>2
  <2> QED BY <1>2, <2>1, <2>2, <2>3
<1>4. ASSUME NEW i \in 1 .. Len(c), NEW j \in 1 .. Len(c), i < j, c[i].do \in {"write", "merge"}
      PROVE  c[j].do \in Quiet
  <2>1. c[i].do \notin Sending /\ c[i].do \notin Quiet
    BY <1>4 DEF Sending, Quiet
  <2>2. i - Len(a) \in 1 .. Len(w) /\ c[i] = w[i - Len(a)]
    BY <1>3, <2>1
  <2>3. CASE j - Len(a) \in 1 .. Len(w) /\ c[j] = w[j - Len(a)]
    <3>1. i - Len(a) < j - Len(a)
      BY <1>2, <1>4
    <3> QED BY <1>4, <2>2, <2>3, <3>1 DEF Tidy
  <2>4. CASE c[j].do \in Sending /\ j <= Len(a)
    BY <1>2, <1>4, <2>2, <2>4
  <2> QED BY <1>3, <2>3, <2>4
<1> QED BY <1>1, <1>4 DEF Tidy

-----------------------------------------------------------------------------
(* The blocks the runs are made of.                                        *)

(* The names of tokens.                                                    *)
LEMMA TokensAre ==
  /\ TOKENS \in Seq(Tokens) /\ Entities \in Seq(Ents) /\ USDC \in Tokens
  /\ Kinds \subseteq Subjects /\ Ents \subseteq Subjects /\ Holders \subseteq Subjects /\ None \in Subjects
  /\ "settlement" \notin Tokens /\ "fund" \notin Tokens /\ "fund" \notin Holders
<1>1. TOKENS \in Seq(STRING)
  BY DeployAssumption
<1>2. TOKENS \in Seq(Tokens)
  BY <1>1 DEF Tokens, ToSet
<1>3. "fund" \notin Holders
  BY DeployAssumption DEF Holders
<1> QED BY <1>2, <1>3, NamesAre, DeployAssumption DEF Kinds, Subjects, Holders, Ents

(* A block of one kind reaches what it names.                              *)
LEMMA StepsOnAre ==
  ASSUME NEW do \in Doings, NEW on \in Seq(Subjects)
  PROVE  /\ Does(StepsOn(do, on), {do}) /\ Len(StepsOn(do, on)) = Len(on) /\ Len(on) \in Nat
         /\ \A i \in 1 .. Len(on) : StepsOn(do, on)[i] = Step(do, on[i], None)
         /\ \A i \in 1 .. Len(on) : Serving(StepsOn(do, on), Step(do, on[i], None))
<1>1. PICK P : P = [i \in 1 .. Len(on) |-> Step(do, on[i], None)]
  OBVIOUS
<1>2. DOMAIN on = 1 .. Len(on) /\ Len(on) \in Nat
  OBVIOUS
<1>3. StepsOn(do, on) = P
  BY <1>1, <1>2 DEF StepsOn
<1>4. \A i \in 1 .. Len(on) : Step(do, on[i], None) \in Steps
  BY TokensAre DEF Step, Steps
<1>5. P \in Seq(Steps) /\ Len(P) = Len(on)
  BY <1>1, <1>2, <1>4
<1>6. \A i \in 1 .. Len(on) : P[i] = Step(do, on[i], None) /\ P[i].do = do
  BY <1>1 DEF Step
<1> QED BY <1>2, <1>3, <1>5, <1>6 DEF Does, Serving, Serves

(* So does the block of the mints.                                         *)
LEMMA MintStepsAre == Does(MintSteps, {"mint"}) /\ \A g \in Endowed : Serving(MintSteps, g)
<1>1. Mints \in Seq(Tokens \X Holders) /\ DOMAIN Mints = 1 .. Len(Mints) /\ Len(Mints) \in Nat
  BY DeployAssumption
<1>2. PICK P : P = [i \in 1 .. Len(Mints) |-> Step("mint", Mints[i][1], Mints[i][2])]
  OBVIOUS
<1>3. MintSteps = P
  BY <1>1, <1>2 DEF MintSteps
<1>4. ASSUME NEW i \in 1 .. Len(Mints) PROVE Step("mint", Mints[i][1], Mints[i][2]) \in Steps
  <2>1. Mints[i] \in Tokens \X Holders
    BY <1>1
  <2>2. Mints[i][1] \in Subjects /\ Mints[i][2] \in Subjects
    BY <2>1, TokensAre DEF Kinds
  <2> QED BY <2>2 DEF Step, Steps, Doings
<1>5. P \in Seq(Steps) /\ Len(P) = Len(Mints)
  BY <1>1, <1>2, <1>4
<1>6. \A i \in 1 .. Len(Mints) : P[i].do = "mint"
  BY <1>2 DEF Step
<1>7. ASSUME NEW g \in Endowed PROVE Serving(P, g)
  <2>1. PICK i \in 1 .. Len(Mints) : g = Step("mint", Mints[i][1], Mints[i][2])
    BY <1>1 DEF Endowed
  <2>2. P[i] = g
    BY <1>2, <2>1
  <2> QED BY <1>5, <2>2 DEF Serving, Serves
<1> QED BY <1>3, <1>5, <1>6, <1>7 DEF Does

(* What is to be done of each kind.                                        *)
LEMMA GoalsAre ==
  ASSUME NEW mode, NEW g \in Goals(mode)
  PROVE  \/ \E k \in Kinds : g = Step("deploy", k, None)
         \/ \E t \in Tokens : g = Step("setApprovedAsset", t, None)
         \/ g \in Endowed /\ g.do = "mint" /\ g.on \in Tokens /\ g.to \in Holders
         \/ g = Step("mint", USDC, "fund")
         \/ g = Step("approve", USDC, "fund")
         \/ g = File
         \/ mode = "setup" /\ g = Step("readLive", None, None)
         \/ mode = "setup" /\ \E e \in Ents : g = Step("seed", e, None)
         \/ mode # "setup" /\ \E h \in Holders : g = Step("fund", h, None)
         \/ mode \in {"full", "adopt"} /\ \E e \in Ents : g = Step("register", e, None)
<1>1. CASE g \in Endowed
  <2>1. PICK i \in DOMAIN Mints : g = Step("mint", Mints[i][1], Mints[i][2])
    BY <1>1 DEF Endowed
  <2>2. Mints[i] \in Tokens \X Holders
    BY <2>1, DeployAssumption
  <2> QED BY <1>1, <2>1, <2>2 DEF Step
<1>2. CASE g \notin Endowed
  BY <1>2 DEF Goals, OnChain, Escrowed, FundSet, Gas, Kinds
<1> QED BY <1>1, <1>2

(* The block that deploys the contracts deploys each.                      *)
LEMMA ContractsAre ==
  LET P == StepsOn("deploy", TOKENS \o <<"settlement", "fund">>)
  IN  /\ Does(P, {"deploy"})
      /\ \A k \in Kinds : Serving(P, Step("deploy", k, None))
      /\ \A g : /\ g.do \in {"deploy", "fund", "register", "readLive", "seed"}
                /\ g.do = "deploy" => g = Step("deploy", g.on, None)
              => Mends(P, g)
<1>1. PICK on : on = TOKENS \o <<"settlement", "fund">>
  OBVIOUS
<1>2. PICK P : P = StepsOn("deploy", on)
  OBVIOUS
<1>3. TOKENS \in Seq(Subjects) /\ on \in Seq(Subjects)
  BY <1>1, TokensAre DEF Kinds, Subjects
<1>4. /\ Does(P, {"deploy"}) /\ Len(P) = Len(on) /\ Len(on) \in Nat
      /\ \A i \in 1 .. Len(on) : P[i] = Step("deploy", on[i], None)
      /\ \A i \in 1 .. Len(on) : Serving(P, Step("deploy", on[i], None))
  BY <1>2, <1>3, StepsOnAre DEF Doings
<1>5. ASSUME NEW k \in Kinds PROVE \E i \in 1 .. Len(on) : on[i] = k
  <2>1. CASE k \in Tokens
    <3>1. PICK i \in 1 .. Len(TOKENS) : TOKENS[i] = k
      BY <2>1, TokensAre DEF Tokens, ToSet
    <3> QED BY <1>1, <1>3, <3>1
  <2>2. CASE k = "settlement"
    BY <1>1, <1>3, <2>2
  <2>3. CASE k = "fund"
    BY <1>1, <1>3, <2>3
  <2> QED BY <2>1, <2>2, <2>3 DEF Kinds
<1>6. \A k \in Kinds : Serving(P, Step("deploy", k, None))
  BY <1>4, <1>5
<1>7. ASSUME NEW g, g.do \in {"deploy", "fund", "register", "readLive", "seed"},
             g.do = "deploy" => g = Step("deploy", g.on, None)
      PROVE  Mends(P, g)
  <2>1. ASSUME NEW j \in 1 .. Len(P), Disturbs(P[j], g) PROVE Serves(P[j], g)
    <3>1. P[j] = Step("deploy", on[j], None) /\ P[j].do = "deploy" /\ P[j].on = on[j]
      BY <1>4 DEF Step
    <3>2. g.do = "deploy" /\ (g.on = on[j] \/ (on[j] = "fund" /\ g \in FundSet))
      <4>1. PICK s : s = P[j] /\ s.do = "deploy" /\ s.on = on[j]
        BY <3>1
      <4>2. Disturbs(s, g)
        BY <2>1, <4>1
      <4>3. g # File
        BY <1>7 DEF File, Step
      <4>4. g.do \notin {"setApprovedAsset", "mint", "approve", "write"} /\ s.do \notin {"wipe", "seed"}
        BY <1>7, <4>1
      <4>5. g \in FundSet => g.do \in {"deploy", "mint", "approve"}
        BY DEF FundSet, Step
      <4> QED BY ONLY <4>1, <4>2, <4>3, <4>4, <4>5 DEF Disturbs
    <3>3. g \in FundSet /\ g.do = "deploy" => g.on = "fund"
      BY DEF FundSet, Step
    <3> QED BY <1>7, <3>1, <3>2, <3>3 DEF Serves
  <2> QED BY <2>1 DEF Mends
<1> QED BY <1>1, <1>2, <1>4, <1>6, <1>7

(* A list of steps in order that reaches each goal, and undoes none for    *)
(* good.                                                                   *)
Fulfils(P, mode) ==
  P \in Seq(Steps) /\ Tidy(P) /\ \A g \in Goals(mode) : Mends(P, g)

(* One step alone.                                                         *)
LEMMA OneStepIs ==
  ASSUME NEW s \in Steps
  PROVE  Does(<<s>>, {s.do}) /\ \A g : Serves(s, g) => Serving(<<s>>, g)
BY DEF Does, Serving

(* Joining what cannot disturb a goal.                                     *)
LEMMA JoinCalm ==
  ASSUME NEW a \in Seq(Steps), NEW b, Does(b, Doings \ {"deploy", "wipe", "seed"}), NEW g, Mends(a, g) \/ Serving(b, g)
  PROVE  Mends(a \o b, g)
<1>1. Does(b, Doings \ {"deploy", "wipe"}) /\ b \in Seq(Steps)
  BY DoesMore DEF Does
<1> QED BY <1>1, CalmMends, JoinMends

(* Deploying everything.                                                   *)
LEMMA DeployStepsAre ==
  /\ Does(DeploySteps, {"deploy", "setApprovedAsset", "mint", "approve"})
  /\ \A g \in OnChain : Serving(DeploySteps, g)
  /\ \A mode : \A g \in Goals(mode) : g # File => Mends(DeploySteps, g)
<1> DEFINE dep == StepsOn("deploy", TOKENS \o <<"settlement", "fund">>)
           assets == StepsOn("setApprovedAsset", TOKENS)
           rest == <<Step("mint", USDC, "fund"), Step("approve", USDC, "fund")>>
           X == {"deploy", "setApprovedAsset", "mint", "approve"}
           Y == Doings \ {"deploy", "wipe", "seed"}
<1>1. PICK a, b, m, c : a = dep /\ b = assets /\ m = MintSteps /\ c = rest
  OBVIOUS
<1>2. DeploySteps = ((a \o b) \o m) \o c
  BY <1>1 DEF DeploySteps
<1>3. /\ Does(b, {"setApprovedAsset"})
      /\ \A t \in Tokens : Serving(b, Step("setApprovedAsset", t, None))
  <2>1. TOKENS \in Seq(Subjects)
    BY TokensAre DEF Kinds
  <2>2. \A t \in Tokens : \E i \in 1 .. Len(TOKENS) : TOKENS[i] = t
    BY TokensAre DEF Tokens, ToSet
  <2> QED BY <1>1, <2>1, <2>2, StepsOnAre DEF Doings
<1>4. Does(c, {"mint", "approve"}) /\ Serving(c, Step("mint", USDC, "fund")) /\ Serving(c, Step("approve", USDC, "fund"))
  <2>1. Step("mint", USDC, "fund") \in Steps /\ Step("approve", USDC, "fund") \in Steps
    BY TokensAre DEF Step, Steps, Doings, Kinds, Subjects
  <2>2. c \in Seq(Steps) /\ Len(c) = 2 /\ c[1] = Step("mint", USDC, "fund") /\ c[2] = Step("approve", USDC, "fund")
    BY <1>1, <2>1
  <2> QED BY <2>2 DEF Does, Serving, Serves, Step
<1>5. /\ Does(a, {"deploy"}) /\ Does(m, {"mint"})
      /\ \A k \in Kinds : Serving(a, Step("deploy", k, None))
      /\ \A g \in Endowed : Serving(m, g)
      /\ \A g : /\ g.do \in {"deploy", "fund", "register", "readLive", "seed"}
                /\ g.do = "deploy" => g = Step("deploy", g.on, None)
              => Mends(a, g)
  BY <1>1, ContractsAre, MintStepsAre
<1>6. Does(a, X) /\ Does(b, X) /\ Does(m, X) /\ Does(c, X) /\ Does(b, Y) /\ Does(m, Y) /\ Does(c, Y)
  BY <1>3, <1>4, <1>5, DoesMore DEF Doings
<1>7. PICK ab, abm : ab = a \o b /\ abm = ab \o m
  OBVIOUS
<1>8. DeploySteps = abm \o c
  BY <1>2, <1>7
<1>9. Does(ab, X) /\ Does(abm, X) /\ Does(DeploySteps, X)
  BY <1>6, <1>7, <1>8, JoinDoes
<1>10. {a, b, m, c, ab, abm} \subseteq Seq(Steps)
  BY <1>6, <1>9 DEF Does
<1>11. ASSUME NEW g, Serving(a, g) \/ Serving(b, g) \/ Serving(m, g) \/ Serving(c, g)
       PROVE  Serving(DeploySteps, g)
  BY <1>7, <1>8, <1>10, <1>11, JoinServes
<1>12. ASSUME NEW g, Mends(a, g) \/ Serving(b, g) \/ Serving(m, g) \/ Serving(c, g)
       PROVE  Mends(DeploySteps, g)
  BY <1>6, <1>7, <1>8, <1>10, <1>12, JoinCalm
<1>13. ASSUME NEW g \in OnChain PROVE Serving(DeploySteps, g)
  BY <1>3, <1>4, <1>5, <1>11 DEF OnChain, Escrowed, FundSet, Kinds
<1>14. ASSUME NEW mode, NEW g \in Goals(mode), g # File PROVE Mends(DeploySteps, g)
  <2>1. \/ /\ g.do \in {"deploy", "fund", "register", "readLive", "seed"}
           /\ g.do = "deploy" => g = Step("deploy", g.on, None)
        \/ \E t \in Tokens : g = Step("setApprovedAsset", t, None)
        \/ g \in Endowed \/ g = Step("mint", USDC, "fund") \/ g = Step("approve", USDC, "fund")
    BY <1>14, GoalsAre DEF Step
  <2> QED BY <2>1, <1>3, <1>4, <1>5, <1>12
<1> QED BY <1>9, <1>13, <1>14

(* Funding, and what registers or seeds an entity.                         *)
LEMMA HoldersAre ==
  /\ Does(FundSteps, {"fund"}) /\ \A h \in Holders : Serving(FundSteps, Step("fund", h, None))
  /\ Does(RegisterSteps, {"register"}) /\ \A e \in Ents : Serving(RegisterSteps, Step("register", e, None))
  /\ Does(StepsOn("seed", Entities), {"seed"})
  /\ \A e \in Ents : Serving(StepsOn("seed", Entities), Step("seed", e, None))
<1>1. \A e \in Ents : \E i \in 1 .. Len(Entities) : Entities[i] = e
  BY TokensAre DEF Ents, ToSet
<1>2. PICK on : on = <<"treasury">> \o Entities
  OBVIOUS
<1>3. Entities \in Seq(Subjects) /\ on \in Seq(Subjects)
  BY <1>2, TokensAre DEF Subjects
<1>4. ASSUME NEW h \in Holders PROVE \E i \in 1 .. Len(on) : on[i] = h
  <2>1. CASE h = "treasury"
    BY <1>2, <1>3, <2>1
  <2>2. CASE h \in Ents
    <3>1. PICK i \in 1 .. Len(Entities) : Entities[i] = h
      BY <1>1, <2>2
    <3> QED BY <1>2, <1>3, <3>1
  <2> QED BY <2>1, <2>2 DEF Holders, Ents
<1>5. FundSteps = StepsOn("fund", on)
  BY <1>2 DEF FundSteps
<1> QED BY <1>1, <1>3, <1>4, <1>5, StepsOnAre DEF RegisterSteps, Doings

(* What the runs that write the whole file and seed nothing do.            *)
Plain == Doings \ {"merge", "seed"}

(* Writing, once everything is sent, and what follows.                     *)
LEMMA WritesLast ==
  ASSUME NEW a, Does(a, Sending), NEW w \in Steps, w = File \/ w.do = "merge",
         NEW q, Does(q, {"register"}), NEW mode,
         \A g \in Goals(mode) : g = File \/ Mends(a, g)
  PROVE  /\ Fulfils((a \o <<w>>) \o q, mode)
         /\ Serving((a \o <<w>>) \o q, File)
         /\ \A g : Serving(a, g) \/ Serving(q, g) => Serving((a \o <<w>>) \o q, g)
         /\ w = File => Does((a \o <<w>>) \o q, Plain)
<1>1. PICK b, c : b = a \o <<w>> /\ c = b \o q
  OBVIOUS
<1>2. /\ Does(<<w>>, {w.do}) /\ Does(q, Quiet) /\ Does(q, Doings) /\ Does(a, Doings)
      /\ Does(<<w>>, Doings \ {"deploy", "wipe", "seed"}) /\ Does(q, Doings \ {"deploy", "wipe", "seed"})
  BY OneStepIs, DoesMore DEF Quiet, Sending, Doings, Steps, File, Step
<1>3. {a, <<w>>, q} \subseteq Seq(Steps)
  BY <1>2 DEF Does
<1>4. Does(<<w>>, Doings)
  BY <1>2, DoesMore
<1>5. Does(b, Doings) /\ Does(c, Doings)
  BY <1>1, <1>2, <1>4, JoinDoes
<1>6. b \in Seq(Steps) /\ c \in Seq(Steps)
  BY <1>5 DEF Does
<1>7. Tidy(c)
  <2>1. Tidy(<<w>>)
    BY DEF Tidy
  <2> QED BY <1>1, <1>2, <1>3, <2>1, TidyRuns
<1>8. Serving(<<w>>, File)
  <2>1. Serves(w, File)
    BY DEF Serves
  <2> QED BY <2>1, OneStepIs
<1>9. ASSUME NEW g \in Goals(mode) PROVE Mends(c, g)
  <2>1. Mends(b, g)
    BY <1>1, <1>2, <1>3, <1>8, JoinCalm
  <2> QED BY <1>1, <1>2, <1>6, <2>1, JoinCalm
<1>10. ASSUME NEW g, Serving(a, g) \/ Serving(<<w>>, g) \/ Serving(q, g) PROVE Serving(c, g)
  BY <1>1, <1>3, <1>6, <1>10, JoinServes
<1>11. w = File => Does(c, Plain)
  <2>1. Does(a, Plain) /\ Does(q, Plain)
    BY DoesMore DEF Plain, Doings, Sending, Quiet
  <2>2. w = File => Does(<<w>>, Plain)
    BY <1>2, DoesMore DEF Plain, Doings, File, Step
  <2> QED BY <1>1, <2>1, <2>2, JoinDoes
<1> QED BY <1>1, <1>6, <1>7, <1>8, <1>9, <1>10, <1>11 DEF Fulfils

(* A full deploy reaches everything.                                       *)
LEMMA FullFulfils ==
  Fulfils(FullSteps, "full") /\ Does(FullSteps, Plain) /\ \A g \in Goals("full") : Serving(FullSteps, g)
<1>1. PICK f, d, r, a : f = FundSteps /\ d = DeploySteps /\ r = RegisterSteps /\ a = f \o d
  OBVIOUS
<1>2. FullSteps = (a \o <<File>>) \o r
  BY <1>1 DEF FullSteps, File
<1>3. File \in Steps /\ File.do = "write"
  BY TokensAre DEF File, Step, Steps, Doings
<1>4. /\ Does(f, {"fund"}) /\ Does(d, {"deploy", "setApprovedAsset", "mint", "approve"}) /\ Does(r, {"register"})
      /\ \A h \in Holders : Serving(f, Step("fund", h, None))
      /\ \A e \in Ents : Serving(r, Step("register", e, None))
      /\ \A g \in OnChain : Serving(d, g)
      /\ \A g \in Goals("full") : g # File => Mends(d, g)
  BY <1>1, HoldersAre, DeployStepsAre
<1>5. Does(f, Sending) /\ Does(d, Sending) /\ Does(f, Doings \ {"deploy", "wipe", "seed"})
  BY <1>4, DoesMore DEF Sending, Doings, Quiet
<1>6. Does(a, Sending) /\ {f, d, a} \subseteq Seq(Steps)
  BY <1>1, <1>5, JoinDoes DEF Does
<1>7. ASSUME NEW g \in Goals("full"), g # File PROVE Mends(a, g)
  <2>1. Mends(d, g)
    BY <1>4, <1>7
  <2>2. Does(f, Doings \ {"deploy", "wipe"})
    BY <1>5, DoesMore
  <2>3. Mends(f, g)
    BY <1>5, <2>2, CalmMends
  <2> QED BY <1>1, <1>6, <2>1, <2>3, JoinMends
<1>8. ASSUME NEW g \in Goals("full") PROVE g = File \/ Serving(a, g) \/ Serving(r, g)
  <2>1. g \in OnChain => Serving(a, g)
    BY <1>1, <1>4, <1>6, JoinServes
  <2>2. g \in Gas => Serving(a, g)
    BY <1>1, <1>4, <1>6, JoinServes DEF Gas
  <2> QED BY <1>4, <2>1, <2>2 DEF Goals
<1> QED BY <1>2, <1>3, <1>4, <1>6, <1>7, <1>8, WritesLast

(* What a fund add-on sends, with the fund to deploy or not.               *)
LEMMA AddonIs ==
  /\ AddonSteps = <<Step("deploy", "fund", None), Step("buffer", USDC, "fund"), Step("approveOnce", USDC, "fund")>>
  /\ Tail(AddonSteps) = <<Step("buffer", USDC, "fund"), Step("approveOnce", USDC, "fund")>>
  /\ {Step("deploy", "fund", None), Step("buffer", USDC, "fund"), Step("approveOnce", USDC, "fund")} \subseteq Steps
<1>1. {Step("deploy", "fund", None), Step("buffer", USDC, "fund"), Step("approveOnce", USDC, "fund")} \subseteq Steps
  BY TokensAre DEF Step, Steps, Doings, Kinds, Subjects
<1> QED BY <1>1 DEF AddonSteps

(* It reaches what belongs to the fund.                                    *)
LEMMA AddonReaches ==
  /\ \A P \in {AddonSteps, Tail(AddonSteps)} :
       /\ Does(P, Sending)
       /\ \A mode : \A g \in Goals(mode) : g = File \/ Mends(P, g)
       /\ \A g \in FundSet : g.do # "deploy" => Serving(P, g)
  /\ \A g \in FundSet : Serving(AddonSteps, g)
<1>1. PICK d, b, p, P, Q :
        /\ d = Step("deploy", "fund", None) /\ b = Step("buffer", USDC, "fund") /\ p = Step("approveOnce", USDC, "fund")
        /\ P = <<d, b, p>> /\ Q = <<b, p>>
  OBVIOUS
<1>2. /\ P = AddonSteps /\ Q = Tail(AddonSteps) /\ {d, b, p} \subseteq Steps
      /\ d.do = "deploy" /\ d.on = "fund" /\ b.do = "buffer" /\ p.do = "approveOnce"
  BY <1>1, AddonIs DEF Step
<1>3. /\ P \in Seq(Steps) /\ Len(P) = 3 /\ P[1] = d /\ P[2] = b /\ P[3] = p
      /\ Q \in Seq(Steps) /\ Len(Q) = 2 /\ Q[1] = b /\ Q[2] = p
  BY <1>1, <1>2
<1>4. Does(P, Sending) /\ Does(Q, Sending)
  BY <1>2, <1>3 DEF Does, Sending, Doings, Quiet
<1>5. /\ Serves(d, d) /\ Serves(b, Step("mint", USDC, "fund")) /\ Serves(p, Step("approve", USDC, "fund"))
      /\ FundSet = {d, Step("mint", USDC, "fund"), Step("approve", USDC, "fund")}
  BY <1>1 DEF Serves, FundSet
<1>6. ASSUME NEW g \in FundSet PROVE Serving(P, g) /\ (g.do # "deploy" => Serving(Q, g))
  <2>1. g = d \/ g = Step("mint", USDC, "fund") \/ g = Step("approve", USDC, "fund")
    BY <1>5
  <2>2. Serves(P[1], d) /\ Serves(P[2], Step("mint", USDC, "fund")) /\ Serves(P[3], Step("approve", USDC, "fund"))
    BY <1>3, <1>5
  <2>3. Serves(Q[1], Step("mint", USDC, "fund")) /\ Serves(Q[2], Step("approve", USDC, "fund"))
    BY <1>3, <1>5
  <2>4. g # d => Serving(Q, g)
    BY <1>3, <2>1, <2>3 DEF Serving
  <2> QED BY <1>2, <1>3, <2>1, <2>2, <2>4 DEF Serving
<1>7. ASSUME NEW mode, NEW g \in Goals(mode), g # File PROVE Mends(P, g)
  <2>1. ASSUME NEW j \in 1 .. 3, Disturbs(P[j], g)
        PROVE  Serves(P[j], g) \/ \E i \in 1 .. 3 : i > j /\ Serves(P[i], g)
    <3>1. j = 1
      BY <1>2, <1>3, <2>1 DEF Disturbs
    <3>2. g = d \/ g \in FundSet
      <4>1. Disturbs(d, g)
        BY <1>3, <2>1, <3>1
      <4>2. g.do = "deploy" => g = Step("deploy", g.on, None)
        BY GoalsAre DEF Step, File
      <4> QED BY <1>1, <1>2, <1>7, <4>1, <4>2 DEF Disturbs
    <3>3. g = d \/ g = Step("mint", USDC, "fund") \/ g = Step("approve", USDC, "fund")
      BY <1>5, <3>2
    <3> QED BY <1>3, <1>5, <3>1, <3>3
  <2> QED BY <1>3, <2>1 DEF Mends
<1>8. ASSUME NEW g PROVE Mends(Q, g)
  BY <1>2, <1>3 DEF Mends, Disturbs
<1> QED BY <1>2, <1>4, <1>6, <1>7, <1>8

(* A fund add-on reaches what belongs to the fund, and the file.           *)
LEMMA MmfAddonFulfils ==
  Fulfils(MmfAddonSteps, "mmf_addon") /\ \A g \in FundSet \union {File} : Serving(MmfAddonSteps, g)
<1>1. PICK a, w, q : a = AddonSteps /\ w = Step("merge", None, None) /\ q = <<>>
  OBVIOUS
<1>2. w \in Steps /\ w.do = "merge"
  BY <1>1, TokensAre DEF Step, Steps, Doings
<1>3. Does(q, {"register"})
  BY <1>1 DEF Does
<1>4. /\ Does(a, Sending) /\ \A g \in Goals("mmf_addon") : g = File \/ Mends(a, g)
      /\ \A g \in FundSet : Serving(a, g)
  BY <1>1, AddonReaches
<1>5. MmfAddonSteps = (a \o <<w>>) \o q
  <2>1. a \in Seq(Steps) /\ a \o <<w>> \in Seq(Steps)
    BY <1>2, <1>4 DEF Does
  <2> QED BY <1>1, <2>1 DEF MmfAddonSteps
<1> QED BY <1>2, <1>3, <1>4, <1>5, WritesLast

(* Adopting reaches all but the contracts of the registry.                 *)
LEMMA AdoptFulfils ==
  /\ Fulfils(AdoptSteps, "adopt") /\ Does(AdoptSteps, Plain)
  /\ \A g \in Goals("adopt") :
       \/ Serving(AdoptSteps, g) \/ g \in Escrowed
       \/ g = Step("deploy", "fund", None) /\ world.registry["fund"] # None
<1>1. PICK f, m, n, r, fm, a :
        /\ f = FundSteps /\ m = MintSteps /\ n = (IF adoptNeedsMmf THEN AddonSteps ELSE Tail(AddonSteps))
        /\ r = RegisterSteps /\ fm = f \o m /\ a = fm \o n
  OBVIOUS
<1>2. AdoptSteps = (a \o <<File>>) \o r
  BY <1>1 DEF AdoptSteps, File
<1>3. File \in Steps /\ File.do = "write"
  BY TokensAre DEF File, Step, Steps, Doings
<1>4. /\ Does(f, {"fund"}) /\ Does(m, {"mint"}) /\ Does(r, {"register"}) /\ Does(n, Sending)
      /\ \A h \in Holders : Serving(f, Step("fund", h, None))
      /\ \A e \in Ents : Serving(r, Step("register", e, None))
      /\ \A g \in Endowed : Serving(m, g)
      /\ \A g \in FundSet : g.do # "deploy" => Serving(n, g)
      /\ adoptNeedsMmf => \A g \in FundSet : Serving(n, g)
      /\ \A g \in Goals("adopt") : g = File \/ Mends(n, g)
  BY <1>1, HoldersAre, MintStepsAre, AddonReaches
<1>5. /\ Does(f, Sending) /\ Does(m, Sending)
      /\ Does(f, Doings \ {"deploy", "wipe", "seed"}) /\ Does(m, Doings \ {"deploy", "wipe", "seed"})
  BY <1>4, DoesMore DEF Sending, Doings, Quiet
<1>6. /\ Does(fm, Sending) /\ Does(fm, Doings \ {"deploy", "wipe", "seed"}) /\ Does(a, Sending)
      /\ {f, m, n, fm, a} \subseteq Seq(Steps)
  <2>1. Does(fm, Sending) /\ Does(fm, Doings \ {"deploy", "wipe", "seed"})
    BY <1>1, <1>5, JoinDoes
  <2>2. Does(a, Sending)
    BY <1>1, <1>4, <2>1, JoinDoes
  <2> QED BY <1>4, <1>5, <2>1, <2>2 DEF Does
<1>7. ASSUME NEW g \in Goals("adopt"), g # File PROVE Mends(a, g)
  <2>1. Mends(n, g)
    BY <1>4, <1>7
  <2>2. Does(fm, Doings \ {"deploy", "wipe"})
    BY <1>6, DoesMore
  <2>3. Mends(fm, g)
    BY <1>6, <2>2, CalmMends
  <2> QED BY <1>1, <1>6, <2>1, <2>3, JoinMends
<1>8. ASSUME NEW g, Serving(f, g) \/ Serving(m, g) \/ Serving(n, g) PROVE Serving(a, g)
  BY <1>1, <1>6, <1>8, JoinServes
<1>9. ASSUME NEW g \in Goals("adopt")
      PROVE  \/ g = File \/ Serving(a, g) \/ Serving(r, g) \/ g \in Escrowed
             \/ g = Step("deploy", "fund", None) /\ world.registry["fund"] # None
  <2>1. g \in FundSet => Serving(a, g) \/ (g = Step("deploy", "fund", None) /\ world.registry["fund"] # None)
    <3>1. g \in FundSet /\ g.do = "deploy" => g = Step("deploy", "fund", None)
      BY DEF FundSet, Step
    <3> QED BY <1>4, <1>8, <3>1 DEF adoptNeedsMmf
  <2> QED BY <1>4, <1>8, <2>1 DEF Goals, OnChain, Gas
<1>10. /\ Fulfils(AdoptSteps, "adopt") /\ Serving(AdoptSteps, File) /\ Does(AdoptSteps, Plain)
       /\ \A g : Serving(a, g) \/ Serving(r, g) => Serving(AdoptSteps, g)
  BY <1>2, <1>3, <1>4, <1>6, <1>7, WritesLast
<1> QED BY <1>9, <1>10

(* A setup reaches everything, after it emptied the database.              *)
LEMMA SetupFulfils == Fulfils(SetupSteps, "setup") /\ \A g \in Goals("setup") : Serving(SetupSteps, g)
<1>1. PICK d, x, y, w, q, b :
        /\ d = DeploySteps /\ x = Step("wipe", None, None) /\ y = Step("readLive", None, None)
        /\ w = <<File, x, y>> /\ q = StepsOn("seed", Entities) /\ b = d \o w
  OBVIOUS
<1>2. SetupSteps = b \o q
  BY <1>1 DEF SetupSteps, File
<1>3. {File, x, y} \subseteq Steps /\ File.do = "write" /\ x.do = "wipe" /\ y.do = "readLive"
  BY <1>1, TokensAre DEF File, Step, Steps, Doings
<1>4. w \in Seq(Steps) /\ Len(w) = 3 /\ w[1] = File /\ w[2] = x /\ w[3] = y
  BY <1>1, <1>3
<1>5. /\ Does(d, {"deploy", "setApprovedAsset", "mint", "approve"}) /\ Does(q, {"seed"})
      /\ \A e \in Ents : Serving(q, Step("seed", e, None))
      /\ \A g \in OnChain : Serving(d, g)
      /\ \A g \in Goals("setup") : g # File => Mends(d, g)
  BY <1>1, HoldersAre, DeployStepsAre
<1>6. /\ Does(d, Sending) /\ Does(q, Quiet) /\ Does(q, Doings \ {"deploy", "wipe"})
      /\ Does(d, Doings) /\ Does(q, Doings)
  BY <1>5, DoesMore DEF Sending, Doings, Quiet
<1>7. Does(w, Doings)
  BY <1>3, <1>4 DEF Does, Doings
<1>8. Does(b, Doings) /\ Does(b \o q, Doings)
  BY <1>1, <1>6, <1>7, JoinDoes
<1>9. {d, b, q} \subseteq Seq(Steps) /\ SetupSteps \in Seq(Steps)
  BY <1>2, <1>6, <1>8 DEF Does
<1>10. Tidy(w)
  BY <1>3, <1>4 DEF Tidy, Quiet
<1>11. Tidy(SetupSteps)
  BY <1>1, <1>2, <1>4, <1>6, <1>10, TidyRuns
<1>12. Serving(w, File) /\ Serving(w, y)
  BY <1>4 DEF Serving, Serves
<1>13. ASSUME NEW g \in Goals("setup") PROVE g.do # "register" /\ (g.do = "seed" => Serving(q, g))
  <2>1. PICK h : h = g /\ h \in Goals("setup")
    OBVIOUS
  <2>2. \/ g.do \in {"deploy", "setApprovedAsset", "mint", "approve", "write", "readLive"}
        \/ \E e \in Ents : g = Step("seed", e, None)
    BY GoalsAre DEF Step, File
  <2> QED BY <1>5, <2>2 DEF Step
<1>14. ASSUME NEW g \in Goals("setup") PROVE Mends(SetupSteps, g)
  <2>1. CASE g.do = "seed"
    <3>1. Mends(q, g)
      BY <1>6, <2>1, CalmMends
    <3> QED BY <1>2, <1>9, <1>13, <2>1, <3>1, JoinMends
  <2>2. CASE g.do # "seed"
    <3>1. Mends(w, g)
      BY <1>3, <1>4, <1>13, <2>2 DEF Mends, Disturbs
    <3>2. Mends(b, g)
      BY <1>1, <1>4, <1>5, <1>9, <1>12, <3>1, JoinMends
    <3>3. Mends(q, g)
      BY <1>6, <1>13, CalmMends
    <3> QED BY <1>2, <1>9, <3>2, <3>3, JoinMends
  <2> QED BY <2>1, <2>2
<1>15. ASSUME NEW g, Serving(d, g) \/ Serving(w, g) \/ Serving(q, g) PROVE Serving(SetupSteps, g)
  BY <1>1, <1>2, <1>4, <1>9, <1>15, JoinServes
<1>16. ASSUME NEW g \in Goals("setup") PROVE Serving(d, g) \/ Serving(w, g) \/ Serving(q, g)
  BY <1>1, <1>5, <1>12 DEF Goals
<1> QED BY <1>9, <1>11, <1>14, <1>15, <1>16 DEF Fulfils

-----------------------------------------------------------------------------
(* Where a goal is reached.                                                *)

HolderOf(s, h) == IF h = "fund" THEN s.contracts["fund"] ELSE Wallet(s, h)

(* On a chain, for the contracts and wallets of a slice.                   *)
On(s, ch, g) ==
  /\ g.do = "fund" => Wallet(s, g.on) \in ch.funded
  /\ g.do = "deploy" => [at |-> s.contracts[g.on], kind |-> g.on] \in ch.code
  /\ g.do = "setApprovedAsset" => <<s.contracts["settlement"], s.contracts[g.on]>> \in ch.assets
  /\ g.do = "mint" => <<s.contracts[g.on], HolderOf(s, g.to)>> \in ch.minted
  /\ g.do = "approve" => <<s.treasury, s.contracts[USDC], s.contracts["fund"]>> \in ch.allowance

SameBut(o, p, K) ==
  /\ o.is = p.is /\ o.treasury = p.treasury /\ o.inline = p.inline /\ o.entities = p.entities
  /\ \A k \in Kinds \ K : o.contracts[k] = p.contracts[k]

(* For the running script.                                                 *)
Holds(g) ==
  /\ On(plan, chain[plan.net], g)
  /\ g.do = "write" => SameBut(overlay[plan.net], plan, {})
  /\ g.do = "register" /\ g.on \in seeded => rows[plan.net][g.on] = plan.entities[g.on]
  /\ g.do = "readLive" => overlay.live.is # "torn"
  /\ g.do = "seed" =>
       /\ g.on \in seeded /\ rows.local[g.on] = plan.entities[g.on]
       /\ rows.live[g.on] = overlay.live.entities[g.on]

-----------------------------------------------------------------------------
(* The invariant.                                                          *)

Modes == {"full", "adopt", "mmf_addon", "noop", "setup"}
Complete(o) == decideDeployMode(o) # "full"
AllOn(o, ch) ==
  /\ \A g \in (Escrowed \union Endowed) \union Gas : On(o, ch, g)
  /\ o.contracts["fund"] # None => \A g \in FundSet : On(o, ch, g)

RowsShaped ==
  /\ seeded \subseteq Ents /\ DOMAIN rows = Nets
  /\ \A n \in Nets : rows[n] = [e \in Ents |-> rows[n][e]]
  /\ \A n \in Nets : overlay[n].is \in {"absent", "slice", "torn"}
  /\ world.secret.is \in {"absent", "slice"}

(* A live file that names escrow and asset names what is on its chain,     *)
(* unless that started over and no run goes by the file.                   *)
LiveSound ==
  Complete(overlay.live) /\ ~past.unsure =>
    \/ AllOn(overlay.live, chain.live)
    \/ chain.live.code = {} /\ ~(plan.net = "live" /\ todo # <<>>)

OriginalThere ==
  world.registry # NoContracts /\ ~past.restarted =>
    /\ \A k \in Kinds \ {"fund"} : world.registry[k] # None
    /\ \A k \in Kinds : world.registry[k] # None => [at |-> world.registry[k], kind |-> k] \in chain.live.code
    /\ \A t \in Tokens : <<world.registry["settlement"], world.registry[t]>> \in chain.live.assets

(* The steps of a run fit it.                                              *)
Fitting(P, mode) ==
  \A i \in 1 .. Len(P) :
    /\ P[i].do = "merge" => mode = "mmf_addon"
    /\ mode = "mmf_addon" /\ P[i].do = "deploy" => P[i].on = "fund"
    /\ P[i].do = "seed" => P[i].on \in Ents

Running(mode) ==
  /\ mode \in Modes /\ plan.is = "slice" /\ (plan.net = "local" <=> mode = "setup")
  /\ mode = "setup" => DatabaseUrl = "local"
  /\ Fulfils(todo, mode) /\ Fitting(todo, mode)
  /\ mode = "mmf_addon" => SameBut(overlay.live, plan, {"fund"})
  /\ ~past.unsure => \A g \in Goals(mode) : Holds(g) \/ Serving(todo, g)

InProgress ==
  /\ todo # <<>> => outcome = "running"
  /\ outcome = "done" => todo = <<>>
  /\ outcome # "none" => Running(plan.mode)

UsableInv == DeployInv /\ RowsShaped /\ LiveSound /\ OriginalThere /\ InProgress

-----------------------------------------------------------------------------
(* What lasts.                                                             *)

Grows(c, d) ==
  /\ c.code \subseteq d.code /\ c.funded \subseteq d.funded /\ c.minted \subseteq d.minted
  /\ c.assets \subseteq d.assets /\ c.allowance \subseteq d.allowance

(* What is on a chain stays there.                                         *)
LEMMA OnGrows == ASSUME NEW s, NEW c, NEW d, NEW g, On(s, c, g), Grows(c, d) PROVE On(s, d, g)
  BY DEF On, Grows

(* Slices that agree on what a goal names agree on it.                     *)
LEMMA OnSame ==
  ASSUME NEW s, NEW p, NEW ch, NEW g, On(s, ch, g), p.treasury = s.treasury, p.entities = s.entities,
         g \notin Gas => /\ p.contracts[g.on] = s.contracts[g.on]
                         /\ g.do = "setApprovedAsset" => p.contracts["settlement"] = s.contracts["settlement"]
                         /\ g.do = "mint" /\ g.to = "fund" => p.contracts["fund"] = s.contracts["fund"]
                         /\ g.do = "approve" => /\ p.contracts[USDC] = s.contracts[USDC]
                                                /\ p.contracts["fund"] = s.contracts["fund"]
  PROVE  On(p, ch, g)
<1>1. \A h : Wallet(p, h) = Wallet(s, h)
  BY DEF Wallet
<1>2. g.do = "mint" /\ g \notin Gas => HolderOf(p, g.to) = HolderOf(s, g.to)
  BY <1>1 DEF HolderOf
<1>3. g \in Gas => g.do = "fund"
  BY DEF Gas, Step
<1> QED BY <1>1, <1>2, <1>3 DEF On

(* A file that names the plan's contracts serves as the plan does.         *)
LEMMA OnFile ==
  ASSUME NEW mode, NEW g \in Goals(mode) \union Gas, NEW o, NEW p, NEW ch, SameBut(o, p, {}), On(p, ch, g)
  PROVE  On(o, ch, g)
<1>1. CASE g \in Gas
  BY <1>1, OnSame DEF SameBut
<1>2. CASE g \notin Gas
  <2>1. \/ g.on \in Kinds
        \/ g.do \in {"write", "readLive", "seed", "fund", "register"}
    BY <1>2, GoalsAre, TokensAre DEF Step, Kinds, File
  <2>2. g.do # "fund"
    BY <1>2, GoalsAre DEF Step, File, Gas
  <2>3. CASE g.on \in Kinds
    BY <1>2, <2>3, OnSame, TokensAre DEF SameBut, Kinds
  <2>4. CASE g.do \in {"write", "readLive", "seed", "register"}
    BY <2>4 DEF On
  <2> QED BY <2>1, <2>2, <2>3, <2>4
<1> QED BY <1>1, <1>2

(* A step on a network, while its plan stands, leaves a sound file sound.  *)
LEMMA SoundKept ==
  ASSUME LiveSound, todo # <<>>, overlay'.live = overlay.live, past'.unsure = past.unsure,
         plan'.net = plan.net, Grows(chain.live, chain'.live),
         plan.net # "live" => chain'.live = chain.live
  PROVE  LiveSound'
<1>1. AllOn(overlay.live, chain.live) => AllOn(overlay.live, chain'.live)
  BY OnGrows DEF AllOn
<1>2. AllOn(overlay.live, chain'.live) => AllOn(overlay.live, chain.live)'
  BY DEF AllOn, On, HolderOf, Wallet, Escrowed, Endowed, FundSet, Gas
<1>3. Complete(overlay.live)' => Complete(overlay.live)
  BY DEF Complete, decideDeployMode
<1> QED BY <1>1, <1>2, <1>3 DEF LiveSound

(* The earlier deployment stays until its chain starts over.               *)
LEMMA OriginalKept ==
  ASSUME OriginalThere, UNCHANGED world, past'.restarted = past.restarted, Grows(chain.live, chain'.live)
  PROVE  OriginalThere'
BY DEF OriginalThere, Grows

(* One step further: a goal is reached, or a later step reaches it.        *)
LEMMA GoesOn ==
  ASSUME NEW mode, todo # <<>>, Fulfils(todo, mode), Fitting(todo, mode), todo' = Tail(todo)
  PROVE  /\ Fulfils(todo', mode) /\ Fitting(todo', mode)
         /\ Head(todo) \in Steps /\ Head(todo) = todo[1] /\ 1 \in 1 .. Len(todo)
         /\ \A g \in Goals(mode) :
              /\ Serving(todo, g) => Serves(Head(todo), g) \/ Serving(todo', g)
              /\ Disturbs(Head(todo), g) => Serves(Head(todo), g) \/ Serving(todo', g)
<1>1. todo \in Seq(Steps) /\ Len(todo) \in Nat /\ Len(todo) > 0
  BY DEF Fulfils
<1>2. /\ todo' \in Seq(Steps) /\ Len(todo') = Len(todo) - 1
      /\ \A i \in 1 .. Len(todo') : todo'[i] = todo[i + 1] /\ i + 1 \in 1 .. Len(todo)
      /\ Head(todo) = todo[1] /\ Head(todo) \in Steps
  BY <1>1
<1>3. ASSUME NEW g, NEW i \in 1 .. Len(todo), i > 1, Serves(todo[i], g) PROVE Serving(todo', g)
  <2>1. i - 1 \in 1 .. Len(todo') /\ i = (i - 1) + 1
    BY <1>1, <1>2, <1>3
  <2>2. todo'[i - 1] = todo[i]
    BY <1>2, <2>1
  <2> QED BY <1>3, <2>1, <2>2 DEF Serving
<1>4. ASSUME NEW g \in Goals(mode), Serving(todo, g) PROVE Serves(Head(todo), g) \/ Serving(todo', g)
  <2>1. PICK i \in 1 .. Len(todo) : Serves(todo[i], g)
    BY <1>4 DEF Serving
  <2> QED BY <1>1, <1>2, <1>3, <2>1
<1>5. ASSUME NEW g \in Goals(mode), Disturbs(Head(todo), g) PROVE Serves(Head(todo), g) \/ Serving(todo', g)
  BY <1>1, <1>2, <1>3, <1>5 DEF Fulfils, Mends
<1>6. ASSUME NEW g \in Goals(mode) PROVE Mends(todo', g)
  <2>1. Mends(todo, g)
    BY DEF Fulfils
  <2>2. ASSUME NEW j \in 1 .. Len(todo'), Disturbs(todo'[j], g), ~Serves(todo'[j], g)
        PROVE  \E i \in 1 .. Len(todo') : i > j /\ Serves(todo'[i], g)
    <3>1. todo'[j] = todo[j + 1] /\ j + 1 \in 1 .. Len(todo)
      BY <1>2
    <3>2. PICK k \in 1 .. Len(todo) : k > j + 1 /\ Serves(todo[k], g)
      BY <2>1, <2>2, <3>1 DEF Mends
    <3>3. k - 1 \in 1 .. Len(todo') /\ k = (k - 1) + 1 /\ k - 1 > j
      BY <1>1, <1>2, <3>2
    <3>4. todo'[k - 1] = todo[k]
      BY <1>2, <3>3
    <3> QED BY <3>2, <3>3, <3>4
  <2> QED BY <2>2 DEF Mends
<1>7. Tidy(todo')
  <2>1. Tidy(todo)
    BY DEF Fulfils
  <2>2. ASSUME NEW i \in 1 .. Len(todo'), NEW j \in 1 .. Len(todo'), i < j, todo'[i].do \in {"write", "merge"}
        PROVE  todo'[j].do \in Quiet
    <3>1. i + 1 < j + 1 /\ todo'[i] = todo[i + 1] /\ todo'[j] = todo[j + 1]
          /\ i + 1 \in 1 .. Len(todo) /\ j + 1 \in 1 .. Len(todo)
      BY <1>2, <2>2
    <3> QED BY <2>1, <2>2, <3>1 DEF Tidy
  <2> QED BY <2>2 DEF Tidy
<1>8. Fitting(todo', mode)
  BY <1>2 DEF Fitting
<1> QED BY <1>1, <1>2, <1>4, <1>5, <1>6, <1>7, <1>8 DEF Fulfils

-----------------------------------------------------------------------------
(* A run goes on.                                                          *)

(* What a step leaves to the next, when it reaches its goals and keeps the *)
(* others it does not undo.                                                *)
LEMMA GoesOnUsably ==
  ASSUME UsableInv, todo # <<>>, Advance, DeployInv', RowsShaped', LiveSound',
         Grows(chain.live, chain'.live),
         plan'.net = plan.net, plan'.mode = plan.mode, plan'.is = plan.is,
         plan.mode = "mmf_addon" => SameBut(overlay.live, plan, {"fund"})',
         ~past.unsure => \A g \in Goals(plan.mode) :
           /\ Serves(Head(todo), g) => Holds(g)'
           /\ Holds(g) /\ ~Disturbs(Head(todo), g) => Holds(g)'
  PROVE  UsableInv'
<1>1. OriginalThere'
  BY OriginalKept DEF UsableInv, Advance
<1>2. /\ outcome = "running" /\ todo' = Tail(todo) /\ UNCHANGED <<past, world>>
      /\ outcome' = IF Tail(todo) = <<>> THEN "done" ELSE "running"
      /\ Running(plan.mode)
  BY DEF UsableInv, InProgress, Advance
<1>3. PICK mode : mode = plan.mode
  OBVIOUS
<1>4. /\ Fulfils(todo', mode) /\ Fitting(todo', mode)
      /\ \A g \in Goals(mode) :
           /\ Serving(todo, g) => Serves(Head(todo), g) \/ Serving(todo', g)
           /\ Disturbs(Head(todo), g) => Serves(Head(todo), g) \/ Serving(todo', g)
  BY <1>2, <1>3, GoesOn DEF Running
<1>5. ASSUME ~past.unsure, NEW g \in Goals(mode) PROVE Holds(g)' \/ Serving(todo', g)
  <2>1. Holds(g) \/ Serving(todo, g)
    BY <1>2, <1>3, <1>5 DEF Running
  <2> QED BY <1>3, <1>4, <1>5, <2>1
<1>6. Running(mode)'
  BY <1>2, <1>3, <1>4, <1>5 DEF Running, DatabaseUrl
<1>7. InProgress'
  BY <1>2, <1>3, <1>6 DEF InProgress
<1> QED BY <1>1, <1>7 DEF UsableInv

-----------------------------------------------------------------------------
(* Transactions.                                                           *)

(* One transaction on the plan's network.                                  *)
LEMMA OneMore ==
  ASSUME Shapes, NEW d, Transact(d)
  PROVE  /\ chain'[plan.net] = d /\ \A n \in Nets : n # plan.net => chain'[n] = chain[n]
         /\ Grows(Here, d) => \A n \in Nets : Grows(chain[n], chain'[n])
<1>1. DOMAIN chain = Nets /\ plan.net \in Nets
  BY DEF Shapes, Planned
<1>2. chain'[plan.net] = d /\ \A n \in Nets : n # plan.net => chain'[n] = chain[n]
  BY <1>1 DEF Transact
<1>3. \A c : Grows(c, c)
  BY DEF Grows
<1> QED BY <1>1, <1>2, <1>3 DEF Here

(* The deployer's nonce moves, and nothing else.                           *)
LEMMA OneSent ==
  ASSUME Shapes, NEW d, DOMAIN d = DOMAIN Genesis, FromDeployer(d)
  PROVE  /\ \A n \in Nets : n # plan.net => chain'[n] = chain[n]
         /\ chain'[plan.net].code = d.code /\ chain'[plan.net].funded = d.funded
         /\ chain'[plan.net].minted = d.minted /\ chain'[plan.net].assets = d.assets
         /\ chain'[plan.net].allowance = d.allowance
         /\ Grows(Here, d) => \A n \in Nets : Grows(chain[n], chain'[n])
<1>1. PICK h : h = [d EXCEPT !.nonce = @ + 1]
  OBVIOUS
<1>2. /\ h.code = d.code /\ h.funded = d.funded /\ h.minted = d.minted /\ h.assets = d.assets
      /\ h.allowance = d.allowance
  BY <1>1 DEF Genesis
<1>3. Transact(h)
  BY <1>1 DEF FromDeployer
<1>4. Grows(Here, d) => Grows(Here, h)
  BY <1>2 DEF Grows
<1> QED BY <1>2, <1>3, <1>4, OneMore

(* Nothing is sent.                                                        *)
LEMMA NoneSent == ASSUME UNCHANGED chain PROVE \A n \in Nets : chain'[n] = chain[n] /\ Grows(chain[n], chain'[n])
  BY DEF Grows

(* What a transaction of a run leaves on its chain.                        *)
Spent(s, d) ==
  /\ s.do \in {"fund", "setApprovedAsset", "mint", "buffer", "approve", "approveOnce"}
  /\ s.do = "fund" => Wallet(plan, s.on) \in d.funded
  /\ s.do = "setApprovedAsset" => <<plan.contracts["settlement"], plan.contracts[s.on]>> \in d.assets
  /\ s.do = "mint" => <<plan.contracts[s.on], HolderOf(plan, s.to)>> \in d.minted
  /\ s = Step("buffer", USDC, "fund") => <<plan.contracts[USDC], plan.contracts["fund"]>> \in d.minted
  /\ s.do \in {"approve", "approveOnce"} => FundApproval \in d.allowance

(* Each leaves what it is about.                                           *)
LEMMA SpendingGrows ==
  ASSUME Shapes, Fund \/ SetApprovedAsset \/ Mint \/ Approve
  PROVE  /\ \A n \in Nets : Grows(chain[n], chain'[n]) /\ (n # plan.net => chain'[n] = chain[n])
         /\ Spent(Head(todo), chain'[plan.net])
<1>1. DOMAIN Here = DOMAIN Genesis /\ Here = chain[plan.net] /\ plan.net \in Nets
  BY DEF Here, Shapes, Planned
<1>2. PICK s : s = Head(todo)
  OBVIOUS
<1>3. Step("buffer", USDC, "fund").do = "buffer"
  BY DEF Step
<1>4. CASE Fund
  <2>1. s.do = "fund"
    BY <1>2, <1>4 DEF Fund, Doing
  <2>2. CASE OffChain /\ Wallet(plan, s.on) \in Here.funded
    <3>1. Spent(s, Here)
      BY <1>3, <2>1, <2>2 DEF Spent
    <3> QED BY <1>1, <1>2, <2>2, <3>1, NoneSent DEF OffChain
  <2>3. CASE FromDeployer([Here EXCEPT !.funded = @ \union {Wallet(plan, s.on)}])
    <3>1. PICK d : d = [Here EXCEPT !.funded = @ \union {Wallet(plan, s.on)}]
      OBVIOUS
    <3>2. DOMAIN d = DOMAIN Genesis /\ Grows(Here, d) /\ Wallet(plan, s.on) \in d.funded
      BY <1>1, <3>1 DEF Grows, Genesis
    <3>3. Spent(s, chain'[plan.net])
      BY <1>3, <2>1, <2>3, <3>1, <3>2, OneSent DEF Spent
    <3> QED BY <1>1, <1>2, <2>3, <3>1, <3>2, <3>3, OneSent
  <2> QED BY <1>2, <1>4, <2>2, <2>3 DEF Fund
<1>5. CASE SetApprovedAsset
  <2>1. PICK a, d : /\ a = <<plan.contracts["settlement"], plan.contracts[s.on]>>
                    /\ d = [Here EXCEPT !.assets = @ \union {a}]
    OBVIOUS
  <2>2. s.do = "setApprovedAsset" /\ FromDeployer(d)
    BY <1>2, <1>5, <2>1 DEF SetApprovedAsset, Doing
  <2>3. DOMAIN d = DOMAIN Genesis /\ Grows(Here, d) /\ a \in d.assets
    BY <1>1, <2>1 DEF Grows, Genesis
  <2>4. Spent(s, chain'[plan.net])
    BY <1>3, <2>1, <2>2, <2>3, OneSent DEF Spent
  <2> QED BY <1>1, <1>2, <2>2, <2>3, <2>4, OneSent
<1>6. CASE Mint
  <2>1. PICK m, d : /\ m = <<plan.contracts[s.on], ContractOr(s.to)>>
                    /\ d = [Here EXCEPT !.minted = @ \union {m}]
    OBVIOUS
  <2>2. s.do \in {"mint", "buffer"}
    BY <1>2, <1>6 DEF Mint, Doing
  <2>3. m = <<plan.contracts[s.on], HolderOf(plan, s.to)>>
    BY <2>1 DEF ContractOr, HolderOf
  <2>4. s = Step("buffer", USDC, "fund") => m = <<plan.contracts[USDC], plan.contracts["fund"]>>
    BY <2>3 DEF HolderOf, Step
  <2>5. CASE s.do = "buffer" /\ OffChain /\ mmfYieldBufferSatisfied
    <3>1. Spent(s, Here)
      BY <2>5 DEF mmfYieldBufferSatisfied, Spent
    <3> QED BY <1>1, <1>2, <2>5, <3>1, NoneSent DEF OffChain
  <2>6. CASE FromDeployer(d)
    <3>1. DOMAIN d = DOMAIN Genesis /\ Grows(Here, d) /\ m \in d.minted
      BY <1>1, <2>1 DEF Grows, Genesis
    <3>2. m \in chain'[plan.net].minted
      BY <2>6, <3>1, OneSent
    <3>3. Spent(s, chain'[plan.net])
      BY <2>2, <2>3, <2>4, <3>2 DEF Spent
    <3> QED BY <1>1, <1>2, <2>6, <3>1, <3>3, OneSent
  <2> QED BY <1>2, <1>6, <2>1, <2>2, <2>5, <2>6 DEF Mint, Doing
<1>7. CASE Approve
  <2>1. PICK d : d = [Here EXCEPT !.allowance = @ \union {FundApproval}]
    OBVIOUS
  <2>2. s.do \in {"approve", "approveOnce"}
    BY <1>2, <1>7 DEF Approve, Doing
  <2>3. CASE OffChain /\ treasuryMmfApprovalSatisfied
    <3>1. Spent(s, Here)
      BY <1>3, <2>2, <2>3 DEF treasuryMmfApprovalSatisfied, Spent
    <3> QED BY <1>1, <1>2, <2>3, <3>1, NoneSent DEF OffChain
  <2>4. CASE Transact(d)
    <3>1. Grows(Here, d) /\ FundApproval \in d.allowance
      BY <1>1, <2>1 DEF Grows, Genesis
    <3>2. FundApproval \in chain'[plan.net].allowance
      BY <2>4, <3>1, OneMore
    <3>3. Spent(s, chain'[plan.net])
      BY <1>3, <2>2, <3>2 DEF Spent
    <3> QED BY <1>1, <1>2, <2>4, <3>1, <3>3, OneMore
  <2> QED BY <1>2, <1>7, <2>1, <2>3, <2>4 DEF Approve
<1> QED BY <1>4, <1>5, <1>6, <1>7

(* A transaction reaches its goal and undoes none.                         *)
LEMMA SpendingUsable ==
  ASSUME UsableInv, Fund \/ SetApprovedAsset \/ Mint \/ Approve
  PROVE  UsableInv'
<1>0. /\ todo # <<>> /\ Advance /\ UNCHANGED <<plan, overlay, seeded, rows, past, world>>
      /\ Shapes /\ LiveSound /\ RowsShaped /\ plan.net \in Nets
      /\ InProgress /\ Running(plan.mode)
  BY DEF Fund, SetApprovedAsset, Mint, Approve, Doing, UsableInv, DeployInv, Shapes, Planned, Advance, InProgress
<1>1. DeployInv'
  BY SpendingKept DEF UsableInv
<1>2. PICK s, d : s = Head(todo) /\ d = chain'[plan.net]
  OBVIOUS
<1>3. /\ \A n \in Nets : Grows(chain[n], chain'[n]) /\ (n # plan.net => chain'[n] = chain[n])
      /\ Spent(s, d)
  BY <1>0, <1>2, SpendingGrows
<1>4. LiveSound'
  BY <1>0, <1>3, SoundKept DEF Nets
<1>5. RowsShaped'
  BY <1>0 DEF RowsShaped
<1>6. ASSUME NEW g \in Goals(plan.mode) PROVE (Serves(s, g) \/ Holds(g)) => Holds(g)'
  <2>1. On(plan, chain[plan.net], g) => On(plan, d, g)
    BY <1>0, <1>2, <1>3, OnGrows
  <2>2. Holds(g) => Holds(g)'
    BY <1>0, <1>2, <2>1 DEF Holds
  <2>3. CASE s = g
    <3>1. On(plan, d, g) /\ g.do \notin {"write", "register", "readLive", "seed"}
      BY <1>3, <2>3 DEF Spent, On, FundApproval
    <3> QED BY <1>0, <1>2, <3>1 DEF Holds
  <2>4. CASE s = Step("buffer", USDC, "fund") /\ g = Step("mint", USDC, "fund")
    <3>1. On(plan, d, g) /\ g.do = "mint"
      BY <1>3, <2>4 DEF Spent, On, HolderOf, Step
    <3> QED BY <1>0, <1>2, <3>1 DEF Holds
  <2>5. CASE s = Step("approveOnce", USDC, "fund") /\ g = Step("approve", USDC, "fund")
    <3>1. s.do = "approveOnce" /\ g.do = "approve"
      BY <2>5 DEF Step
    <3>2. On(plan, d, g)
      BY <1>3, <3>1 DEF Spent, On, FundApproval
    <3> QED BY <1>0, <1>2, <3>1, <3>2 DEF Holds
  <2>6. s.do # "merge"
    BY <1>3 DEF Spent
  <2> QED BY <2>2, <2>3, <2>4, <2>5, <2>6 DEF Serves
<1>7. Grows(chain.live, chain'.live)
  BY <1>3 DEF Nets
<1>8. plan.mode = "mmf_addon" => SameBut(overlay.live, plan, {"fund"})'
  BY <1>0 DEF Running, SameBut
<1> QED BY <1>0, <1>1, <1>2, <1>4, <1>5, <1>6, <1>7, <1>8, GoesOnUsably

(* A contract deployed is named by the plan; what named the one before has *)
(* still to be done.                                                       *)
LEMMA DeployUsable == ASSUME UsableInv, DeployContract PROVE UsableInv'
<1>0. /\ todo # <<>> /\ Advance /\ UNCHANGED <<overlay, seeded, rows, past, world>>
      /\ Head(todo).do = "deploy"
      /\ Shapes /\ LiveSound /\ RowsShaped /\ Planned(plan) /\ plan.net \in Nets
      /\ InProgress /\ Running(plan.mode)
  BY DEF DeployContract, Doing, UsableInv, DeployInv, Shapes, Planned, Advance, InProgress
<1>1. DeployInv'
  BY DeployContractKept DEF UsableInv
<1>2. PICK s, kind, at, new, d :
        /\ s = Head(todo) /\ kind = s.on /\ new = [at |-> at, kind |-> kind]
        /\ d = [Here EXCEPT !.code = @ \union {new}]
        /\ FromDeployer(d) /\ plan' = [plan EXCEPT !.contracts[kind] = at]
  BY DEF DeployContract
<1>3. DOMAIN Here = DOMAIN Genesis /\ Here = chain[plan.net]
  BY <1>0 DEF Here, Shapes
<1>4. DOMAIN d = DOMAIN Genesis /\ Grows(Here, d) /\ new \in d.code
  BY <1>2, <1>3 DEF Grows, Genesis
<1>5. /\ \A n \in Nets : Grows(chain[n], chain'[n]) /\ (n # plan.net => chain'[n] = chain[n])
      /\ new \in chain'[plan.net].code
  <2>1. Shapes /\ FromDeployer(d)
    BY <1>0, <1>2
  <2> QED BY <1>4, <2>1, OneSent
<1>6. /\ plan'.net = plan.net /\ plan'.mode = plan.mode /\ plan'.is = plan.is /\ plan'.entities = plan.entities
      /\ plan'.treasury = plan.treasury /\ plan'.inline = plan.inline
      /\ kind \in Kinds => plan'.contracts[kind] = at
      /\ \A k \in Kinds : k # kind => plan'.contracts[k] = plan.contracts[k]
  <2>1. DOMAIN NoOverlay = {"is", "contracts", "treasury", "inline", "entities"}
    BY DEF NoOverlay
  <2> QED BY <1>0, <1>2, <2>1 DEF Planned
<1>7. LiveSound'
  BY <1>0, <1>5, <1>6, SoundKept DEF Nets
<1>8. RowsShaped'
  BY <1>0 DEF RowsShaped
<1>9. ASSUME NEW g \in Goals(plan.mode), Serves(s, g) PROVE Holds(g)'
  <2>1. g = s /\ g.do = "deploy"
    BY <1>0, <1>2, <1>9 DEF Serves, Step
  <2>2. g.on \in Kinds
    BY <2>1, GoalsAre DEF Step, File
  <2>3. On(plan', chain'[plan.net], g)
    BY <1>2, <1>5, <1>6, <2>1, <2>2 DEF On
  <2> QED BY <1>6, <2>1, <2>3 DEF Holds
<1>10. ASSUME NEW g \in Goals(plan.mode), Holds(g), ~Disturbs(s, g) PROVE Holds(g)'
  <2>1. g.do # "write"
    <3>1. g.do = "write" => g = File
      BY GoalsAre DEF Step, File
    <3> QED BY <1>0, <1>2, <1>10, <3>1 DEF Disturbs
  <2>2. On(plan', chain[plan.net], g)
    <3>1. On(plan, chain[plan.net], g)
      BY <1>10 DEF Holds
    <3>2. CASE g.do \in {"write", "readLive", "seed", "register"}
      BY <3>2 DEF On
    <3>3. CASE g.do = "fund"
      <4>1. g \in Gas
        BY <3>3, GoalsAre DEF Step, File, Gas
      <4> QED BY <1>6, <3>1, <4>1, OnSame
    <3>4. CASE g.do = "deploy"
      <4>1. g.on \in Kinds /\ g.on # kind
        BY <1>0, <1>2, <1>10, <3>4, GoalsAre DEF Step, File, Disturbs
      <4> QED BY <1>6, <3>1, <3>4, <4>1, OnSame
    <3>5. CASE g.do \in {"setApprovedAsset", "mint", "approve"}
      <4>1. kind = "fund" /\ g \notin FundSet
        BY <1>0, <1>2, <1>10, <3>5 DEF Disturbs
      <4>2. g.do \in {"setApprovedAsset", "mint"} /\ g.on \in Tokens /\ (g.do = "mint" => g.to \in Holders)
        BY <3>5, <4>1, GoalsAre DEF Step, File, FundSet
      <4>3. g.on \in Kinds /\ g.on # kind /\ "settlement" \in Kinds /\ (g.do = "mint" => g.to # "fund")
        BY <4>1, <4>2, TokensAre DEF Kinds
      <4> QED BY <1>6, <3>1, <4>1, <4>2, <4>3, OnSame
    <3>6. g.do \in {"deploy", "setApprovedAsset", "mint", "approve", "write", "readLive", "seed", "fund", "register"}
      BY GoalsAre DEF Step, File
    <3> QED BY <3>2, <3>3, <3>4, <3>5, <3>6
  <2>3. On(plan', chain'[plan.net], g)
    BY <1>0, <1>5, <2>2, OnGrows
  <2> QED BY <1>0, <1>6, <1>10, <2>1, <2>3 DEF Holds
<1>11. plan.mode = "mmf_addon" => SameBut(overlay.live, plan, {"fund"})'
  <2>1. plan.mode = "mmf_addon" => kind = "fund"
    <3>1. 1 \in 1 .. Len(todo) /\ s = todo[1]
      BY <1>0, <1>2, GoesOn DEF Running, Advance
    <3> QED BY <1>0, <1>2, <3>1 DEF Running, Fitting
  <2>2. plan.mode = "mmf_addon" => SameBut(overlay.live, plan, {"fund"})
    BY <1>0 DEF Running
  <2> QED BY <1>0, <1>6, <2>1, <2>2 DEF SameBut
<1>12. Grows(chain.live, chain'.live)
  BY <1>5 DEF Nets
<1> QED BY <1>0, <1>1, <1>2, <1>6, <1>7, <1>8, <1>9, <1>10, <1>11, <1>12, GoesOnUsably

(* When the file is written everything was sent.                           *)
LEMMA AllSent ==
  ASSUME UsableInv, todo # <<>>, Head(todo).do \in {"write", "merge"}, ~past.unsure,
         NEW g \in Goals(plan.mode), g.do \in {"fund", "deploy", "setApprovedAsset", "mint", "approve"}
  PROVE  On(plan, chain[plan.net], g)
<1>1. Running(plan.mode) /\ Fulfils(todo, plan.mode)
  BY DEF UsableInv, InProgress, Running
<1>2. todo \in Seq(Steps) /\ Tidy(todo) /\ 1 \in 1 .. Len(todo) /\ Len(todo) \in Nat /\ Head(todo) = todo[1]
  BY <1>1 DEF Fulfils
<1>3. ASSUME NEW i \in 1 .. Len(todo), Serves(todo[i], g) PROVE FALSE
  <2>1. todo[i].do \in {"fund", "deploy", "setApprovedAsset", "mint", "approve", "buffer", "approveOnce"}
    BY <1>3 DEF Serves, File, Step
  <2>2. i # 1
    BY <1>2, <2>1
  <2>3. todo[i].do \in Quiet
    BY <1>2, <2>2 DEF Tidy
  <2> QED BY <2>1, <2>3 DEF Quiet
<1> QED BY <1>1, <1>3 DEF Running, Serving, Holds

(* The file written names what the run has put on the chain.               *)
LEMMA WriteUsable == ASSUME UsableInv, WriteOverlay PROVE UsableInv'
<1>0. /\ todo # <<>> /\ Advance /\ UNCHANGED <<plan, chain, seeded, rows, past, world>>
      /\ Head(todo).do \in {"write", "merge"}
      /\ Shapes /\ LiveSound /\ RowsShaped /\ Planned(plan) /\ plan.net \in Nets
      /\ InProgress /\ Running(plan.mode) /\ DOMAIN overlay = Nets /\ Shaped(overlay[plan.net])
  BY DEF WriteOverlay, OffChain, Doing, UsableInv, DeployInv, Shapes, Planned, Advance, InProgress
<1>1. DeployInv'
  BY WriteKept DEF UsableInv
<1>2. PICK s : s = Head(todo)
  OBVIOUS
<1>3. s.do = "merge" => plan.mode = "mmf_addon" /\ plan.net = "live" /\ SameBut(overlay.live, plan, {"fund"})
  <2>1. 1 \in 1 .. Len(todo) /\ s = todo[1]
    BY <1>0, <1>2, GoesOn DEF Running, Advance
  <2> QED BY <1>0, <2>1 DEF Running, Fitting, Nets
<1>4. PICK o :
        /\ overlay' = [overlay EXCEPT ![plan.net] = o]
        /\ o = IF s.do = "merge" THEN [overlay[plan.net] EXCEPT !.contracts["fund"] = plan.contracts["fund"]]
               ELSE Recorded
  BY <1>0, <1>2 DEF WriteOverlay, Doing
<1>5. SameBut(o, plan, {})
  <2>1. CASE s.do = "merge"
    <3>1. DOMAIN NoOverlay = {"is", "contracts", "treasury", "inline", "entities"} /\ "fund" \in Kinds
      BY DEF NoOverlay, Kinds
    <3>2. PICK old : old = overlay.live /\ Shaped(old) /\ SameBut(old, plan, {"fund"})
      BY <1>0, <1>3, <2>1
    <3>3. o = [old EXCEPT !.contracts["fund"] = plan.contracts["fund"]]
      BY <1>3, <1>4, <2>1, <3>2
    <3> QED BY <3>1, <3>2, <3>3 DEF SameBut, Shaped
  <2>2. CASE s.do # "merge"
    BY <1>0, <1>4, <2>2, RecordedIs DEF SameBut
  <2> QED BY <2>1, <2>2
<1>6. /\ overlay'[plan.net] = o /\ DOMAIN overlay' = Nets
      /\ \A n \in Nets : n # plan.net => overlay'[n] = overlay[n]
  BY <1>0, <1>4
<1>7. RowsShaped'
  <2>1. o.is = "slice"
    BY <1>0, <1>5 DEF SameBut, Running
  <2> QED BY <1>0, <1>6, <2>1 DEF RowsShaped
<1>8. LiveSound'
  <2>1. CASE plan.net # "live"
    <3>1. overlay'.live = overlay.live
      BY <1>6, <2>1 DEF Nets
    <3>2. Grows(chain.live, chain'.live)
      BY <1>0 DEF Grows
    <3> QED BY <1>0, <2>1, <3>1, <3>2, SoundKept
  <2>2. CASE plan.net = "live" /\ ~past.unsure
    <3>1. plan.mode # "setup"
      BY <1>0, <2>2 DEF Running
    <3>2. ASSUME NEW g \in OnChain \union Gas PROVE On(o, chain.live, g)
      <4>1. g \in Goals(plan.mode)
        BY <3>1 DEF Goals
      <4>2. g.do \in {"fund", "deploy", "setApprovedAsset", "mint", "approve"}
        BY DEF OnChain, Escrowed, Endowed, FundSet, Gas, Step
      <4>3. On(plan, chain.live, g)
        BY <1>0, <2>2, <4>1, <4>2, AllSent
      <4> QED BY <1>5, <4>1, <4>3, OnFile
    <3>3. AllOn(o, chain.live)
      BY <3>2 DEF AllOn, OnChain
    <3>4. AllOn(overlay'.live, chain'.live)
      BY <1>0, <1>6, <2>2, <3>3
    <3>5. AllOn(overlay.live, chain.live)'
      BY <3>4 DEF AllOn, On, HolderOf, Wallet, Escrowed, Endowed, FundSet, Gas
    <3> QED BY <3>5 DEF LiveSound
  <2>3. CASE past.unsure
    BY <1>0, <2>3 DEF LiveSound
  <2> QED BY <2>1, <2>2, <2>3
<1>9. ASSUME NEW g \in Goals(plan.mode), Serves(s, g) \/ Holds(g) PROVE Holds(g)'
  <2>1. CASE g = File
    <3>1. g.do = "write"
      BY <2>1 DEF File, Step
    <3> QED BY <1>0, <1>5, <1>6, <3>1 DEF Holds, On, SameBut
  <2>2. CASE g # File
    <3>1. g.do \notin {"write", "merge"}
      BY <2>2, GoalsAre DEF Step, File
    <3>2. Holds(g)
      BY <1>0, <1>2, <1>9, <2>2, <3>1 DEF Serves, Step
    <3>3. g.do \in {"readLive", "seed"} => overlay'.live = overlay.live
      <4>1. g.do \in {"readLive", "seed"} => plan.mode = "setup"
        BY GoalsAre DEF Step, File
      <4> QED BY <1>0, <1>6, <4>1 DEF Running, Nets
    <3> QED BY <1>0, <3>1, <3>2, <3>3 DEF Holds, On, HolderOf, Wallet
  <2> QED BY <2>1, <2>2
<1>10. plan.mode = "mmf_addon" => SameBut(overlay.live, plan, {"fund"})'
  <2>1. CASE plan.net = "live"
    BY <1>0, <1>5, <1>6, <2>1 DEF SameBut
  <2>2. CASE plan.net # "live"
    BY <1>0, <1>6, <2>2 DEF SameBut, Running, Nets
  <2> QED BY <2>1, <2>2
<1>11. Grows(chain.live, chain'.live)
  BY <1>0 DEF Grows
<1> QED BY <1>0, <1>1, <1>2, <1>7, <1>8, <1>9, <1>10, <1>11, GoesOnUsably

(* A run that ends before it is done.                                      *)
LEMMA EndsUsably ==
  ASSUME UsableInv, DeployInv', RowsShaped', todo' = <<>>, outcome' = "none",
         UNCHANGED <<chain, world>>, past'.unsure = past.unsure, past'.restarted = past.restarted,
         overlay'.live = overlay.live \/ ~Complete(overlay'.live)
  PROVE  UsableInv'
<1>1. LiveSound'
  <2>1. CASE overlay'.live = overlay.live
    <3>1. AllOn(overlay.live, chain.live) => AllOn(overlay.live, chain.live)'
      BY <2>1 DEF AllOn, On, HolderOf, Wallet, Escrowed, Endowed, FundSet, Gas
    <3>2. Complete(overlay.live)' => Complete(overlay.live)
      BY <2>1 DEF Complete, decideDeployMode
    <3> QED BY <3>1, <3>2 DEF UsableInv, LiveSound
  <2>2. CASE ~Complete(overlay'.live)
    BY <2>2 DEF LiveSound, Complete, decideDeployMode
  <2> QED BY <2>1, <2>2
<1>2. OriginalThere'
  <2>1. Grows(chain.live, chain'.live)
    BY DEF Grows
  <2> QED BY <2>1, OriginalKept DEF UsableInv
<1>3. InProgress'
  BY DEF InProgress
<1> QED BY <1>1, <1>2, <1>3 DEF UsableInv

(* Rows and the database.                                                  *)
LEMMA RowsUsable ==
  ASSUME UsableInv, RegisterWallet \/ Wipe \/ ReadLive \/ SeedEntity
  PROVE  UsableInv'
<1>0. /\ todo # <<>> /\ UNCHANGED <<chain, overlay, past, world>>
      /\ Shapes /\ LiveSound /\ RowsShaped /\ plan.net \in Nets
      /\ InProgress /\ Running(plan.mode) /\ Grows(chain.live, chain'.live)
  BY DEF RegisterWallet, Wipe, ReadLive, SeedEntity, OffChain, Doing, UsableInv, DeployInv, Shapes, Planned, Advance,
         InProgress, Grows
<1>1. DeployInv'
  BY RowsKept DEF UsableInv
<1>2. PICK s, e : s = Head(todo) /\ e = s.on
  OBVIOUS
<1>3. CASE todo' = <<>> /\ outcome' = "none" /\ UNCHANGED <<seeded, rows>>
  <2>1. RowsShaped'
    BY <1>0, <1>3 DEF RowsShaped
  <2> QED BY <1>0, <1>1, <1>3, <2>1, EndsUsably
<1>4. CASE Advance /\ UNCHANGED plan
  <2>1. LiveSound'
    BY <1>0, <1>4, SoundKept
  <2>2. plan.mode = "mmf_addon" => SameBut(overlay.live, plan, {"fund"})'
    BY <1>0, <1>4 DEF Running, SameBut
  <2>3. ASSUME NEW g PROVE On(plan, chain[plan.net], g) => On(plan, chain[plan.net], g)'
    BY <1>0, <1>4 DEF On, HolderOf, Wallet
  <2>4. s.do = "seed" => e \in Ents
    <3>1. 1 \in 1 .. Len(todo) /\ s = todo[1]
      BY <1>0, <1>2, <1>4, GoesOn DEF Running, Advance
    <3> QED BY <1>0, <1>2, <3>1 DEF Running, Fitting
  <2>5. ASSUME NEW g \in Goals(plan.mode)
        PROVE  /\ g.do \in {"fund", "deploy", "setApprovedAsset", "mint", "approve", "write", "register",
                           "readLive", "seed"}
               /\ g.do \in {"readLive", "seed"} => plan.net = "local"
               /\ g.do \in {"register", "seed"} => g.on \in Ents
    BY <1>0, GoalsAre DEF Step, File, Running
  <2>6. SameBut(overlay[plan.net], plan, {}) => SameBut(overlay[plan.net], plan, {})'
    BY <1>0, <1>4 DEF SameBut
  <2>7. ASSUME NEW g \in Goals(plan.mode), g.do \notin {"register", "seed"}, s.do \in Quiet, s.do # "readLive"
        PROVE  (Serves(s, g) \/ Holds(g)) => Holds(g)'
    <3>1. ~Serves(s, g)
      BY <2>5, <2>7 DEF Serves, Quiet, Step
    <3> QED BY <1>0, <1>4, <2>3, <2>6, <2>7, <3>1 DEF Holds
  <2>8. CASE RegisterWallet
    <3>1. s.do = "register" /\ UNCHANGED seeded
          /\ rows' = IF e \in seeded THEN [rows EXCEPT ![plan.net][e] = plan.entities[e]] ELSE rows
      BY <1>2, <2>8 DEF RegisterWallet, Doing
    <3>2. /\ DOMAIN rows' = Nets
          /\ \A n \in Nets : rows'[n] = [x \in Ents |-> IF n = plan.net /\ x = e /\ e \in seeded
                                                       THEN plan.entities[e] ELSE rows[n][x]]
      BY <1>0, <3>1 DEF RowsShaped
    <3>3. RowsShaped'
      BY <1>0, <3>1, <3>2 DEF RowsShaped
    <3>4. ASSUME NEW g \in Goals(plan.mode), g.do = "register", Serves(s, g) \/ Holds(g) PROVE Holds(g)'
      <4>1. Serves(s, g) => g = s
        BY <3>1 DEF Serves, Step
      <4> QED BY <1>0, <1>2, <1>4, <2>5, <3>1, <3>2, <3>4, <4>1 DEF Holds, On
    <3>5. ASSUME NEW g \in Goals(plan.mode), g.do = "seed", Serves(s, g) \/ Holds(g) PROVE Holds(g)'
      <4>1. ~Serves(s, g)
        BY <3>1, <3>5 DEF Serves, Step
      <4> QED BY <1>0, <1>4, <2>5, <3>1, <3>2, <3>5, <4>1 DEF Holds, On, Nets
    <3> QED BY <1>0, <1>1, <1>2, <1>4, <2>1, <2>2, <2>7, <3>1, <3>3, <3>4, <3>5, GoesOnUsably DEF Quiet
  <2>9. CASE Wipe
    <3>1. s.do = "wipe" /\ seeded' = {} /\ rows' = [n \in Nets |-> NoWallets]
      BY <1>2, <2>9 DEF Wipe, Doing
    <3>2. RowsShaped'
      BY <1>0, <3>1 DEF RowsShaped, NoWallets, Ents
    <3>3. \A g : Disturbs(s, g) <=> g.do \in {"register", "seed"}
      BY <3>1 DEF Disturbs
    <3>4. \A g \in Goals(plan.mode) : ~(Serves(s, g) /\ g.do \in {"register", "seed"})
      BY <3>1 DEF Serves, Step
    <3> QED BY <1>0, <1>1, <1>2, <1>4, <2>1, <2>2, <2>7, <3>1, <3>2, <3>3, <3>4, GoesOnUsably DEF Quiet
  <2>10. CASE ReadLive
    <3>1. s.do = "readLive" /\ UNCHANGED <<seeded, rows>> /\ overlay.live.is # "torn"
      BY <1>2, <1>4, <2>10 DEF ReadLive, Doing, Advance
    <3>2. RowsShaped'
      BY <1>0, <3>1 DEF RowsShaped
    <3>3. ASSUME NEW g \in Goals(plan.mode), Serves(s, g) \/ Holds(g) PROVE Holds(g)'
      <4>1. CASE Holds(g)
        BY <1>0, <1>4, <2>3, <3>1, <4>1 DEF Holds, SameBut
      <4>2. CASE Serves(s, g)
        <5>1. g.do = "readLive"
          BY <3>1, <4>2 DEF Serves, Step
        <5> QED BY <1>0, <3>1, <5>1 DEF Holds, On
      <4> QED BY <3>3, <4>1, <4>2
    <3> QED BY <1>0, <1>1, <1>2, <1>4, <2>1, <2>2, <3>2, <3>3, GoesOnUsably
  <2>11. CASE SeedEntity
    <3>1. s.do = "seed" /\ seeded' = seeded \union {e} /\ e \in Ents
          /\ rows' = [rows EXCEPT !.local[e] = plan.entities[e], !.live[e] = overlay.live.entities[e]]
      BY <1>2, <2>4, <2>11 DEF SeedEntity, Doing
    <3>2. /\ DOMAIN rows' = Nets
          /\ rows'.local = [x \in Ents |-> IF x = e THEN plan.entities[e] ELSE rows.local[x]]
          /\ rows'.live = [x \in Ents |-> IF x = e THEN overlay.live.entities[e] ELSE rows.live[x]]
      BY <1>0, <3>1 DEF RowsShaped, Nets
    <3>3. RowsShaped'
      BY <1>0, <3>1, <3>2 DEF RowsShaped, Nets
    <3>4. \A g : g.do = "register" => Disturbs(s, g) /\ ~Serves(s, g)
      BY <3>1 DEF Disturbs, Serves, File, Step
    <3>5. ASSUME NEW g \in Goals(plan.mode), g.do = "seed", Serves(s, g) \/ Holds(g) PROVE Holds(g)'
      <4>1. Serves(s, g) => g = s
        BY <3>1 DEF Serves, Step
      <4>2. g.on \in seeded' /\ rows'.local[g.on] = plan.entities[g.on] /\ rows'.live[g.on] = overlay.live.entities[g.on]
        BY <1>2, <2>5, <3>1, <3>2, <3>5, <4>1 DEF Holds
      <4> QED BY <1>0, <1>4, <3>5, <4>2 DEF Holds, On
    <3> QED BY <1>0, <1>1, <1>2, <1>4, <2>1, <2>2, <2>7, <3>1, <3>3, <3>4, <3>5, GoesOnUsably DEF Quiet
  <2> QED BY <2>8, <2>9, <2>10, <2>11
<1> QED BY <1>3, <1>4 DEF RegisterWallet, Wipe, ReadLive, SeedEntity

-----------------------------------------------------------------------------
(* Between runs.                                                           *)

(* A run that dies, a file moved aside, a chain that starts over.          *)
LEMMA BetweenUsable ==
  ASSUME UsableInv, Crash \/ MoveAside \/ Regenesis
  PROVE  UsableInv'
<1>0. /\ Shapes /\ DOMAIN overlay = Nets /\ DOMAIN chain = Nets /\ past \in Pasts /\ plan.net \in Nets
      /\ RowsShaped /\ LiveSound /\ OriginalThere
      /\ todo' = <<>> /\ outcome' = "none" /\ UNCHANGED <<seeded, rows, world>>
  BY DEF UsableInv, DeployInv, Shapes, Planned, Crash, MoveAside, Regenesis, Idle
<1>1. DeployInv'
  BY BetweenKept DEF UsableInv
<1>2. InProgress'
  BY <1>0 DEF InProgress
<1>3. CASE Crash
  <2>1. past'.unsure = past.unsure /\ past'.restarted = past.restarted /\ UNCHANGED chain
    BY <1>0, <1>3 DEF Crash, Pasts
  <2>2. PICK o : o = [NoOverlay EXCEPT !.is = "torn"]
    OBVIOUS
  <2>3. o.is = "torn" /\ ~Complete(o)
    BY <2>2 DEF NoOverlay, Complete, decideDeployMode
  <2>4. UNCHANGED overlay \/ overlay' = [overlay EXCEPT ![plan.net] = o]
    BY <1>3, <2>2 DEF Crash
  <2>5. \A n \in Nets : overlay'[n] = overlay[n] \/ overlay'[n] = o
    BY <1>0, <2>4
  <2>6. RowsShaped'
    BY <1>0, <2>3, <2>5 DEF RowsShaped
  <2>7. overlay'.live = overlay.live \/ ~Complete(overlay'.live)
    BY <2>3, <2>5 DEF Nets
  <2> QED BY <1>0, <1>1, <2>1, <2>6, <2>7, EndsUsably
<1>4. CASE MoveAside
  <2>1. overlay'.live = NoOverlay /\ overlay'.local = overlay.local /\ UNCHANGED chain /\ past'.restarted = past.restarted
    BY <1>0, <1>4 DEF MoveAside, Pasts, Nets
  <2>2. NoOverlay.is = "absent"
    BY DEF NoOverlay
  <2>3. RowsShaped'
    BY <1>0, <2>1, <2>2 DEF RowsShaped, Nets
  <2>4. LiveSound'
    BY <2>1, <2>2 DEF LiveSound, Complete, decideDeployMode
  <2>5. OriginalThere'
    BY <1>0, <2>1 DEF OriginalThere
  <2> QED BY <1>1, <1>2, <2>3, <2>4, <2>5 DEF UsableInv
<1>5. CASE Regenesis
  <2>1. chain'.live.code = {} /\ UNCHANGED overlay /\ past'.restarted = TRUE
    BY <1>0, <1>5 DEF Regenesis, Genesis, Pasts, Nets
  <2>2. RowsShaped'
    BY <1>0, <2>1 DEF RowsShaped
  <2>3. LiveSound'
    BY <1>0, <2>1 DEF LiveSound
  <2>4. OriginalThere'
    BY <2>1 DEF OriginalThere
  <2> QED BY <1>1, <1>2, <2>2, <2>3, <2>4 DEF UsableInv
<1> QED BY <1>3, <1>4, <1>5

(* A run that is refused.                                                  *)
LEMMA LeavesUsably ==
  ASSUME UsableInv, Idle, Leave, UNCHANGED <<chain, overlay, seeded, rows, world>>
  PROVE  UsableInv'
<1>1. DeployInv'
  BY RefusedKept DEF Leave, UsableInv
<1>2. RowsShaped'
  BY DEF RowsShaped, UsableInv
<1>3. todo' = <<>> /\ outcome' = "none" /\ UNCHANGED past
  BY DEF Leave, Idle
<1> QED BY <1>1, <1>2, <1>3, EndsUsably

(* A verified overlay that names a contract found one.                     *)
LEMMA CodeThere ==
  ASSUME NEW o, Complete(o), verifyOverlayOnchain(o) => OverlayOnchain(o)
  PROVE  /\ o.is = "slice" /\ o.contracts["settlement"] # None /\ o.contracts[USDC] # None
         /\ chain.live.code # {}
<1>1. o.is = "slice" /\ o.contracts["settlement"] # None /\ o.contracts[USDC] # None
  BY DEF Complete, decideDeployMode
<1>2. "settlement" \in ContractEntries(o.contracts)
  BY <1>1 DEF ContractEntries, Kinds
<1>3. OverlayOnchain(o)
  BY <1>2 DEF verifyOverlayOnchain
<1> QED BY <1>1, <1>2, <1>3 DEF OverlayOnchain

(* A run that begins, with what it need not do done.                       *)
LEMMA BeginsUsably ==
  ASSUME UsableInv, Idle, NEW net \in Nets, NEW mode \in Modes, NEW s, NEW steps, NEW force \in BOOLEAN,
         Begin(net, mode, s, steps, force), UNCHANGED <<chain, overlay, seeded, rows, world>>, DeployInv',
         s.is = "slice", net = "local" <=> mode = "setup", mode = "setup" => DatabaseUrl = "local",
         Fulfils(steps, mode), Fitting(steps, mode),
         mode = "mmf_addon" => SameBut(overlay.live, s, {"fund"}),
         net = "live" => ~Complete(overlay.live) \/ chain.live.code # {},
         ~past.unsure /\ (mode = "adopt" => ~past.restarted) =>
           \A g \in Goals(mode) : Serving(steps, g) \/ (g \in OnChain \union Gas /\ On(s, chain[net], g))
  PROVE  UsableInv'
<1>1. /\ plan' = RunPlan(net, mode, s) /\ todo' = steps /\ outcome' = "running"
      /\ plan'.net = net /\ plan'.mode = mode /\ plan'.is = s.is /\ plan'.contracts = s.contracts
      /\ plan'.treasury = s.treasury /\ plan'.inline = s.inline /\ plan'.entities = s.entities
  BY DEF Begin, RunPlan
<1>2. /\ past'.restarted = past.restarted
      /\ ~past'.unsure => ~past.unsure /\ (mode = "adopt" => ~past.restarted)
  BY PastBegun DEF UsableInv, DeployInv, Shapes
<1>3. RowsShaped'
  BY DEF UsableInv, RowsShaped
<1>4. LiveSound'
  <2>1. AllOn(overlay.live, chain.live) => AllOn(overlay.live, chain.live)'
    BY DEF AllOn, On, HolderOf, Wallet, Escrowed, Endowed, FundSet, Gas
  <2>2. Complete(overlay.live)' <=> Complete(overlay.live)
    BY DEF Complete, decideDeployMode
  <2>3. net # "live" => plan'.net # "live"
    BY <1>1
  <2> QED BY <1>2, <2>1, <2>2, <2>3 DEF UsableInv, LiveSound
<1>5. OriginalThere'
  <2>1. Grows(chain.live, chain'.live)
    BY DEF Grows
  <2> QED BY <1>2, <2>1, OriginalKept DEF UsableInv
<1>6. ASSUME ~past'.unsure, NEW g \in Goals(mode) PROVE Holds(g)' \/ Serving(steps, g)
  <2>1. SUFFICES ASSUME g \in OnChain \union Gas, On(s, chain[net], g) PROVE Holds(g)'
    BY <1>2, <1>6
  <2>2. g.do \notin {"write", "register", "readLive", "seed"}
    BY <2>1 DEF OnChain, Escrowed, Endowed, FundSet, Gas, Step
  <2>3. On(plan', chain'[plan'.net], g)
    BY <1>1, <2>1 DEF On, HolderOf, Wallet
  <2> QED BY <2>2, <2>3 DEF Holds
<1>7. mode = "mmf_addon" => SameBut(overlay.live, plan, {"fund"})'
  BY <1>1 DEF SameBut
<1>8. Running(mode)'
  BY <1>1, <1>6, <1>7 DEF Running, DatabaseUrl
<1>9. InProgress'
  BY <1>1, <1>8 DEF InProgress
<1> QED BY <1>3, <1>4, <1>5, <1>9 DEF UsableInv

-----------------------------------------------------------------------------
(* The steps of each run fit it.                                           *)

(* Joined steps fit a run that each fits.                                  *)
LEMMA JoinFits ==
  ASSUME NEW a \in Seq(Steps), NEW b \in Seq(Steps), NEW mode, Fitting(a, mode), Fitting(b, mode)
  PROVE  Fitting(a \o b, mode)
<1>1. PICK c : c = a \o b
  OBVIOUS
<1>2. ASSUME NEW i \in 1 .. Len(c)
      PROVE  \/ \E j \in 1 .. Len(a) : c[i] = a[j]
             \/ \E j \in 1 .. Len(b) : c[i] = b[j]
  <2>1. CASE i \in 1 .. Len(a)
    BY <1>1, <2>1, JoinedAre
  <2>2. CASE i \notin 1 .. Len(a)
    <3>1. Len(a) \in Nat /\ i - Len(a) \in 1 .. Len(b) /\ i = Len(a) + (i - Len(a))
      BY <1>1, <2>2, JoinedAre
    <3>2. c[i] = b[i - Len(a)]
      BY <1>1, <3>1, JoinedAre
    <3> QED BY <3>1, <3>2
  <2> QED BY <2>1, <2>2
<1> QED BY <1>1, <1>2 DEF Fitting

(* Every run's steps do.                                                   *)
LEMMA AllFit ==
  /\ Fitting(FullSteps, "full") /\ Fitting(AdoptSteps, "adopt")
  /\ Fitting(MmfAddonSteps, "mmf_addon") /\ Fitting(SetupSteps, "setup")
<1>1. ASSUME NEW P, Does(P, Plain), NEW mode, mode # "mmf_addon" PROVE Fitting(P, mode)
  BY <1>1 DEF Does, Plain, Fitting
<1>2. Fitting(FullSteps, "full") /\ Fitting(AdoptSteps, "adopt")
  BY <1>1, FullFulfils, AdoptFulfils
<1>3. Fitting(MmfAddonSteps, "mmf_addon")
  <2>1. PICK d, b, p, w :
          /\ d = Step("deploy", "fund", None) /\ b = Step("buffer", USDC, "fund") /\ p = Step("approveOnce", USDC, "fund")
          /\ w = Step("merge", None, None)
    OBVIOUS
  <2>2. /\ d \in Steps /\ b \in Steps /\ p \in Steps /\ w \in Steps
        /\ d.do = "deploy" /\ d.on = "fund" /\ b.do = "buffer" /\ p.do = "approveOnce" /\ w.do = "merge"
    BY <2>1, AddonIs, TokensAre DEF Step, Steps, Doings
  <2>3. PICK a, m : a = <<d, b, p>> /\ m = <<w>> /\ MmfAddonSteps = a \o m
    BY <2>1, AddonIs DEF MmfAddonSteps
  <2>4. /\ a \in Seq(Steps) /\ Len(a) = 3 /\ a[1] = d /\ a[2] = b /\ a[3] = p
        /\ m \in Seq(Steps) /\ Len(m) = 1 /\ m[1] = w
    BY <2>2, <2>3
  <2>5. Fitting(a, "mmf_addon") /\ Fitting(m, "mmf_addon")
    BY <2>2, <2>4 DEF Fitting
  <2> QED BY <2>3, <2>4, <2>5, JoinFits
<1>4. Fitting(SetupSteps, "setup")
  <2>1. PICK d, w, q, x, y :
          /\ d = DeploySteps /\ x = Step("wipe", None, None) /\ y = Step("readLive", None, None)
          /\ w = <<File, x, y>> /\ q = StepsOn("seed", Entities) /\ SetupSteps = (d \o w) \o q
    BY DEF SetupSteps, File
  <2>2. {File, x, y} \subseteq Steps /\ File.do = "write" /\ x.do = "wipe" /\ y.do = "readLive"
    BY <2>1, TokensAre DEF File, Step, Steps, Doings
  <2>3. Does(d, Plain) /\ Does(q, {"seed"})
    BY <2>1, DeployStepsAre, HoldersAre, DoesMore DEF Plain, Doings
  <2>4. w \in Seq(Steps) /\ Len(w) = 3 /\ w[1] = File /\ w[2] = x /\ w[3] = y
    BY <2>1, <2>2
  <2>5. d \in Seq(Steps) /\ q \in Seq(Steps) /\ d \o w \in Seq(Steps)
    BY <2>3, <2>4 DEF Does
  <2>6. Fitting(d, "setup") /\ Fitting(w, "setup")
    <3>1. Fitting(d, "setup")
      BY <1>1, <2>3
    <3>2. \A i \in 1 .. Len(w) : w[i] = File \/ w[i] = x \/ w[i] = y
      BY <2>4
    <3>3. Fitting(w, "setup")
      BY <2>2, <3>2 DEF Fitting
    <3> QED BY <3>1, <3>3
  <2>7. Fitting(q, "setup")
    <3>1. Entities \in Seq(Subjects) /\ \A i \in 1 .. Len(Entities) : Entities[i] \in Ents
      BY TokensAre DEF Subjects
    <3>2. Len(q) = Len(Entities) /\ \A i \in 1 .. Len(Entities) : q[i] = Step("seed", Entities[i], None)
      BY <2>1, <3>1, StepsOnAre DEF Doings
    <3>3. \A e : Step("seed", e, None).do = "seed" /\ Step("seed", e, None).on = e
      BY DEF Step
    <3>4. ASSUME NEW i \in 1 .. Len(q) PROVE q[i].do = "seed" /\ q[i].on \in Ents
      <4>1. i \in 1 .. Len(Entities)
        BY <3>2
      <4> QED BY <3>1, <3>2, <3>3, <4>1
    <3> QED BY <3>4 DEF Fitting
  <2> QED BY <2>1, <2>4, <2>5, <2>6, <2>7, JoinFits
<1> QED BY <1>2, <1>3, <1>4

-----------------------------------------------------------------------------
(* What a run sets out for when it begins.                                 *)

(* Adopting: what the registry names is there.                             *)
LEMMA AdoptUsable ==
  ASSUME UsableInv, Idle, NEW p \in BOOLEAN, Adopt(p), UNCHANGED <<chain, overlay, seeded, rows, world>>
  PROVE  UsableInv'
<1>1. CASE Leave
  BY <1>1, LeavesUsably
<1>2. CASE AdoptAllowed /\ Begin("live", "adopt", AdoptSlice, AdoptSteps, FALSE)
  <2>1. DeployInv'
    BY AdoptKept DEF UsableInv
  <2>2. AdoptSlice.is = "slice" /\ AdoptSlice.contracts = world.registry
    BY DEF AdoptSlice
  <2>3. ~Complete(overlay.live) /\ world.registry # NoContracts
    BY <1>2 DEF AdoptAllowed, Complete, decideDeployMode
  <2>4. ASSUME ~past.restarted, NEW g \in Goals("adopt")
        PROVE  Serving(AdoptSteps, g) \/ (g \in OnChain \union Gas /\ On(AdoptSlice, chain.live, g))
    <3>1. SUFFICES ASSUME g \in Escrowed \/ (g = Step("deploy", "fund", None) /\ world.registry["fund"] # None)
                   PROVE  g \in OnChain /\ On(AdoptSlice, chain.live, g)
      BY AdoptFulfils
    <3>2. g \in OnChain
      BY <3>1 DEF OnChain, FundSet
    <3>3. \/ g.do = "deploy" /\ g.on \in Kinds /\ world.registry[g.on] # None
          \/ g.do = "setApprovedAsset" /\ g.on \in Tokens
      BY <2>3, <2>4, <3>1 DEF Escrowed, Step, Kinds, UsableInv, OriginalThere
    <3>4. On(AdoptSlice, chain.live, g)
      BY <2>2, <2>3, <2>4, <3>3 DEF On, UsableInv, OriginalThere
    <3> QED BY <3>2, <3>4
  <2> QED BY <1>2, <2>1, <2>2, <2>3, <2>4, AdoptFulfils, AllFit, BeginsUsably DEF Nets, Modes
<1> QED BY <1>1, <1>2 DEF Adopt

(* Nothing to do: a complete file is sound.                                *)
LEMMA NoopUsable ==
  ASSUME UsableInv, Idle, decideDeployMode(overlay.live) = "noop", chain.live.code # {},
         plan' = RunPlan("live", "noop", overlay.live), outcome' = "done", UNCHANGED <<nextKey, todo, past>>,
         UNCHANGED <<chain, overlay, seeded, rows, world>>
  PROVE  UsableInv'
<1>1. PICK o : o = overlay.live
  OBVIOUS
<1>2. DeployInv'
  BY RefusedKept DEF UsableInv
<1>3. RowsShaped'
  BY DEF UsableInv, RowsShaped
<1>4. /\ plan'.net = "live" /\ plan'.mode = "noop" /\ plan'.is = o.is /\ plan'.contracts = o.contracts
      /\ plan'.treasury = o.treasury /\ plan'.inline = o.inline /\ plan'.entities = o.entities /\ todo = <<>>
  BY <1>1 DEF RunPlan, Idle
<1>5. Complete(o) /\ o.is = "slice" /\ o.contracts["fund"] # None
  BY <1>1 DEF Complete, decideDeployMode
<1>6. ~past.unsure => AllOn(o, chain.live)
  BY <1>1, <1>5 DEF UsableInv, LiveSound
<1>7. LiveSound'
  <2>1. AllOn(overlay.live, chain.live) => AllOn(overlay.live, chain.live)'
    BY DEF AllOn, On, HolderOf, Wallet, Escrowed, Endowed, FundSet, Gas
  <2> QED BY <1>1, <1>6, <2>1 DEF LiveSound
<1>8. OriginalThere'
  <2>1. Grows(chain.live, chain'.live)
    BY DEF Grows
  <2> QED BY <2>1, OriginalKept DEF UsableInv
<1>9. ASSUME ~past.unsure, NEW g \in Goals("noop") PROVE Holds(g)'
  <2>1. CASE g \in OnChain \union Gas
    <3>1. On(o, chain.live, g)
      BY <1>5, <1>6, <1>9, <2>1 DEF AllOn, OnChain
    <3>2. On(plan', chain'[plan'.net], g)
      BY <1>4, <3>1 DEF On, HolderOf, Wallet
    <3>3. g.do \notin {"write", "register", "readLive", "seed"}
      BY <2>1 DEF OnChain, Escrowed, Endowed, FundSet, Gas, Step
    <3> QED BY <3>2, <3>3 DEF Holds
  <2>2. CASE g \notin OnChain \union Gas
    <3>1. g = File
      BY <2>2 DEF Goals
    <3>2. g.do = "write"
      BY <3>1 DEF File, Step
    <3> QED BY <1>1, <1>4, <3>2 DEF Holds, On, SameBut
  <2> QED BY <2>1, <2>2
<1>10. Fulfils(<<>>, "noop") /\ Fitting(<<>>, "noop")
  BY DEF Fulfils, Fitting, Tidy, Mends
<1>11. Running("noop")'
  BY <1>4, <1>5, <1>9, <1>10 DEF Running, Modes
<1>12. InProgress'
  BY <1>4, <1>11 DEF InProgress
<1> QED BY <1>2, <1>3, <1>7, <1>8, <1>12 DEF UsableInv

(* Otherwise the file decides.                                             *)
LEMMA DeployRunUsable ==
  ASSUME UsableInv, Idle, NEW p \in BOOLEAN, NEW force \in BOOLEAN, Deploy(p, force),
         UNCHANGED <<chain, overlay, seeded, rows, world>>
  PROVE  UsableInv'
<1>0. PICK o, mode : o = overlay.live /\ mode = decideDeployMode(o)
  OBVIOUS
<1>1. DeployInv'
  BY DeployKept DEF UsableInv
<1>2. mode # "full" <=> Complete(o)
  BY <1>0 DEF Complete
<1>3. CASE Leave
  BY <1>3, LeavesUsably
<1>4. CASE /\ verifyOverlayOnchain(o) => OverlayOnchain(o)
           /\ mode = "noop" /\ outcome' = "done" /\ plan' = RunPlan("live", "noop", o)
           /\ UNCHANGED <<nextKey, todo, past>>
  BY <1>0, <1>2, <1>4, CodeThere, NoopUsable
<1>5. CASE /\ verifyOverlayOnchain(o) => OverlayOnchain(o)
           /\ mode = "mmf_addon" /\ Begin("live", mode, o, MmfAddonSteps, FALSE)
  <2>1. o.is = "slice" /\ chain.live.code # {} /\ Complete(o)
    BY <1>2, <1>5, CodeThere
  <2>2. ~past.unsure => AllOn(o, chain.live)
    BY <1>0, <2>1 DEF UsableInv, LiveSound
  <2>3. ASSUME ~past.unsure, NEW g \in Goals("mmf_addon")
        PROVE  Serving(MmfAddonSteps, g) \/ (g \in OnChain \union Gas /\ On(o, chain.live, g))
    <3>1. CASE g \in FundSet \union {File}
      BY <3>1, MmfAddonFulfils
    <3>2. CASE g \notin FundSet \union {File}
      <4>1. g \in (Escrowed \union Endowed) \union Gas
        BY <3>2 DEF Goals, OnChain
      <4> QED BY <2>2, <2>3, <4>1 DEF AllOn, OnChain
    <3> QED BY <3>1, <3>2
  <2>4. SameBut(overlay.live, o, {"fund"})
    BY <1>0 DEF SameBut
  <2>5. Fulfils(MmfAddonSteps, "mmf_addon") /\ Fitting(MmfAddonSteps, "mmf_addon")
    BY MmfAddonFulfils, AllFit
  <2>6. "live" \in Nets /\ "mmf_addon" \in Modes
    BY DEF Nets, Modes
  <2>7. Begin("live", "mmf_addon", o, MmfAddonSteps, FALSE)
    BY <1>5
  <2>8. ~past.unsure =>
          \A g \in Goals("mmf_addon") :
            Serving(MmfAddonSteps, g) \/ (g \in OnChain \union Gas /\ On(o, chain["live"], g))
    BY <2>3
  <2>9. PICK st : st = MmfAddonSteps
    OBVIOUS
  <2>10. ~past.unsure /\ ("mmf_addon" = "adopt" => ~past.restarted) =>
          \A g \in Goals("mmf_addon") : Serving(st, g) \/ (g \in OnChain \union Gas /\ On(o, chain["live"], g))
    BY ONLY <2>8, <2>9
  <2>11. Begin("live", "mmf_addon", o, st, FALSE) /\ Fulfils(st, "mmf_addon") /\ Fitting(st, "mmf_addon")
    BY ONLY <2>5, <2>7, <2>9
  <2>12. o.is = "slice" /\ ("live" = "live" => ~Complete(overlay.live) \/ chain.live.code # {})
    BY ONLY <2>1
  <2> QED BY ONLY UsableInv, Idle, UNCHANGED <<chain, overlay, seeded, rows, world>>,
                  <1>1, <2>4, <2>6, <2>10, <2>11, <2>12, BeginsUsably
<1>6. CASE mode = "full" /\ Begin("live", mode, FullSlice(o), FullSteps, force)
  <2>1. PICK s : s = FullSlice(o)
    OBVIOUS
  <2>2. s.is = "slice" /\ ~Complete(overlay.live)
    BY <1>0, <1>2, <1>6, <2>1 DEF FullSlice
  <2>3. Begin("live", "full", s, FullSteps, force)
    BY <1>6, <2>1
  <2>4. Fulfils(FullSteps, "full") /\ Fitting(FullSteps, "full")
    BY FullFulfils, AllFit
  <2>5. \A g \in Goals("full") :
          Serving(FullSteps, g) \/ (g \in OnChain \union Gas /\ On(s, chain["live"], g))
    BY FullFulfils
  <2>6. "live" \in Nets /\ "full" \in Modes
    BY DEF Nets, Modes
  <2> QED BY <1>1, <2>2, <2>3, <2>4, <2>5, <2>6, BeginsUsably
<1> QED BY <1>0, <1>3, <1>4, <1>5, <1>6 DEF Deploy

(* The scripts begun, or refused.                                          *)
LEMMA RunsUsable == ASSUME UsableInv, RunDeploy \/ RunSetup PROVE UsableInv'
<1>0. Idle /\ UNCHANGED <<chain, overlay, seeded, rows, world>>
  BY DEF RunDeploy, RunSetup
<1>1. CASE Leave
  BY <1>0, <1>1, LeavesUsably
<1>2. CASE RunDeploy /\ ~Leave
  <2>1. PICK args \in parseDeployArgs :
          \/ args.adopt /\ Adopt(args.preflightOnly)
          \/ ~args.adopt /\ Deploy(args.preflightOnly, args.forceFullDeploy)
    BY <1>2 DEF RunDeploy
  <2>2. args.preflightOnly \in BOOLEAN /\ args.forceFullDeploy \in BOOLEAN
    BY DEF parseDeployArgs
  <2> QED BY <1>0, <2>1, <2>2, AdoptUsable, DeployRunUsable
<1>3. CASE RunSetup /\ SetupAllowed /\ Begin("local", "setup", DevSlice, SetupSteps, FALSE)
  <2>1. DeployInv'
    BY <1>3, RunsKept DEF UsableInv
  <2>2. DatabaseUrl = "local"
    BY <1>3 DEF SetupAllowed, checkLocalDatabaseUrl
  <2> QED BY <1>0, <1>3, <2>1, <2>2, DevIs, SetupFulfils, AllFit, BeginsUsably DEF Nets, Modes
<1> QED BY <1>1, <1>2, <1>3 DEF RunSetup

-----------------------------------------------------------------------------
(* The theorems.                                                           *)

(* What an earlier deployment left is what its slice names.                *)
LEMMA DeployedIs ==
  ASSUME NEW s, NEW nonce, \A k \in Kinds \ {"fund"} : s.contracts[k] # None
  PROVE  /\ \A k \in Kinds : s.contracts[k] # None =>
              [at |-> s.contracts[k], kind |-> k] \in Deployed(s, nonce).code
         /\ \A t \in Tokens : <<s.contracts["settlement"], s.contracts[t]>> \in Deployed(s, nonce).assets
         /\ \A g \in (Escrowed \union Endowed) \union Gas : On(s, Deployed(s, nonce), g)
<1>1. PICK ch : ch = Deployed(s, nonce)
  OBVIOUS
<1>2. /\ ch.code = {[at |-> s.contracts[k], kind |-> k] : k \in {k \in Kinds : s.contracts[k] # None}}
      /\ ch.funded = Wallets(s)
      /\ ch.minted = {<<s.contracts[Mints[i][1]], Wallet(s, Mints[i][2])>> : i \in DOMAIN Mints}
      /\ ch.assets = {<<s.contracts["settlement"], s.contracts[t]>> : t \in Tokens}
  BY <1>1 DEF Deployed
<1>3. \A k \in Kinds : s.contracts[k] # None => [at |-> s.contracts[k], kind |-> k] \in ch.code
  BY <1>2
<1>4. ASSUME NEW g \in Escrowed PROVE On(s, ch, g)
  BY <1>2, <1>3 DEF Escrowed, On, Step
<1>5. ASSUME NEW g \in Endowed PROVE On(s, ch, g)
  <2>1. PICK i \in DOMAIN Mints : g = Step("mint", Mints[i][1], Mints[i][2])
    BY DEF Endowed
  <2>2. Mints[i][2] \in Holders /\ "fund" \notin Holders
    BY DeployAssumption DEF Holders
  <2>3. g.do = "mint" /\ g.on = Mints[i][1] /\ g.to = Mints[i][2]
    BY <2>1 DEF Step
  <2>4. HolderOf(s, g.to) = Wallet(s, Mints[i][2])
    BY <2>2, <2>3 DEF HolderOf
  <2> QED BY <1>2, <2>3, <2>4 DEF On
<1>6. ASSUME NEW g \in Gas PROVE On(s, ch, g)
  BY <1>2 DEF Gas, On, Step, Wallets
<1> QED BY <1>1, <1>2, <1>3, <1>4, <1>5, <1>6

(* It holds at first.                                                      *)
LEMMA UsableAtStart == Init => UsableInv
<1> SUFFICES ASSUME Init PROVE UsableInv
  OBVIOUS
<1>1. DeployInv
  BY BeginsInOrder
<1>2. PICK w, s : w \in Situations /\ w = world /\ s = world.original
  BY DEF Init
<1>3. /\ chain.live = IF s = NoOverlay THEN Genesis ELSE Deployed(s, IF w.deployer = "operator" THEN 20 ELSE 0)
      /\ overlay = [live |-> w.overlay, local |-> NoOverlay] /\ overlay.live = w.overlay
      /\ seeded = {} /\ rows = [n \in Nets |-> NoWallets] /\ plan = NoPlan /\ todo = <<>> /\ outcome = "none"
  BY <1>2 DEF Init
<1>4. /\ w.overlay.is \in {"absent", "slice", "torn"} /\ w.secret.is \in {"absent", "slice"}
      /\ s # NoOverlay => \A k \in Kinds \ {"fund"} : s.contracts[k] # None
      /\ None \notin {w.overlay.contracts["settlement"], w.overlay.contracts[USDC]} =>
           w.overlay = s /\ w.overlay.contracts["fund"] = None
      /\ w.registry # NoContracts => w.registry = s.contracts
  BY <1>2, SituationAssumption
<1>5. NoOverlay.contracts = NoContracts /\ NoContracts["settlement"] = None
  BY DEF NoOverlay, NoContracts, Kinds
<1>6. s # NoOverlay =>
        /\ \A k \in Kinds \ {"fund"} : s.contracts[k] # None
        /\ \A k \in Kinds : s.contracts[k] # None => [at |-> s.contracts[k], kind |-> k] \in chain.live.code
        /\ \A t \in Tokens : <<s.contracts["settlement"], s.contracts[t]>> \in chain.live.assets
        /\ \A g \in (Escrowed \union Endowed) \union Gas : On(s, chain.live, g)
  BY <1>3, <1>4, DeployedIs
<1>7. RowsShaped
  <2>1. overlay["local"].is = "absent"
    BY <1>3 DEF NoOverlay
  <2> QED BY <1>2, <1>3, <1>4, <2>1 DEF RowsShaped, NoWallets, Ents, Nets
<1>8. LiveSound
  <2>1. SUFFICES ASSUME Complete(overlay.live) PROVE AllOn(overlay.live, chain.live)
    BY DEF LiveSound
  <2>2. None \notin {w.overlay.contracts["settlement"], w.overlay.contracts[USDC]}
    BY <1>3, <2>1 DEF Complete, decideDeployMode
  <2>3. overlay.live = s /\ s # NoOverlay /\ s.contracts["fund"] = None
    BY <1>3, <1>4, <1>5, <2>2
  <2> QED BY <1>6, <2>3 DEF AllOn
<1>9. OriginalThere
  <2>1. SUFFICES ASSUME world.registry # NoContracts PROVE s # NoOverlay /\ world.registry = s.contracts
    BY <1>6 DEF OriginalThere
  <2> QED BY <1>2, <1>4, <1>5, <2>1
<1>10. InProgress
  BY <1>3 DEF InProgress
<1> QED BY <1>1, <1>7, <1>8, <1>9, <1>10 DEF UsableInv

(* And after every step.                                                   *)
LEMMA UsableStep == ASSUME UsableInv, [DeployNext]_vars PROVE UsableInv'
<1>1. CASE RunDeploy \/ RunSetup
  BY <1>1, RunsUsable
<1>2. CASE Fund \/ SetApprovedAsset \/ Mint \/ Approve
  BY <1>2, SpendingUsable
<1>3. CASE DeployContract
  BY <1>3, DeployUsable
<1>4. CASE WriteOverlay
  BY <1>4, WriteUsable
<1>5. CASE RegisterWallet \/ Wipe \/ ReadLive \/ SeedEntity
  BY <1>5, RowsUsable
<1>6. CASE Crash \/ MoveAside \/ Regenesis
  BY <1>6, BetweenUsable
<1>7. CASE UNCHANGED vars
  <2>0. UNCHANGED <<chain, overlay, seeded, rows, nextKey, plan, todo, outcome, past, world>>
    BY <1>7 DEF vars
  <2>1. DeployInv'
    BY <1>7, StepKeeps DEF UsableInv
  <2>2. RowsShaped'
    BY <2>0 DEF UsableInv, RowsShaped
  <2>3. LiveSound'
    <3>1. AllOn(overlay.live, chain.live) => AllOn(overlay.live, chain.live)'
      BY <2>0 DEF AllOn, On, HolderOf, Wallet, Escrowed, Endowed, FundSet, Gas
    <3>2. Complete(overlay.live)' => Complete(overlay.live)
      BY <2>0 DEF Complete, decideDeployMode
    <3> QED BY <2>0, <3>1, <3>2 DEF UsableInv, LiveSound
  <2>4. OriginalThere'
    BY <2>0 DEF UsableInv, OriginalThere
  <2>5. InProgress'
    <3>1. ASSUME NEW g PROVE Holds(g) => Holds(g)'
      BY <2>0 DEF Holds, On, HolderOf, Wallet, SameBut
    <3>2. SameBut(overlay.live, plan, {"fund"}) => SameBut(overlay.live, plan, {"fund"})'
      BY <2>0 DEF SameBut
    <3>3. Running(plan.mode) => Running(plan.mode)'
      BY <2>0, <3>1, <3>2 DEF Running, DatabaseUrl
    <3> QED BY <2>0, <3>3 DEF UsableInv, InProgress
  <2> QED BY <2>1, <2>2, <2>3, <2>4, <2>5 DEF UsableInv
<1> QED BY <1>1, <1>2, <1>3, <1>4, <1>5, <1>6, <1>7 DEF DeployNext

(* What the file names when a run says it is done is what it set out for.  *)
LEMMA GoalsReached ==
  ASSUME UsableInv, outcome = "done", ~past.unsure
  PROVE  /\ Running(plan.mode) /\ plan.net \in Nets /\ overlay[plan.net].is = "slice"
         /\ SameBut(overlay[plan.net], plan, {})
         /\ \A g \in Goals(plan.mode) : Holds(g) /\ On(overlay[plan.net], chain[plan.net], g)
<1>1. /\ Running(plan.mode) /\ todo = <<>> /\ plan.is = "slice" /\ plan.net \in Nets
  BY DEF UsableInv, InProgress, Running, DeployInv, Shapes, Planned
<1>2. \A g : ~Serving(todo, g)
  BY <1>1 DEF Serving
<1>3. \A g \in Goals(plan.mode) : Holds(g)
  BY <1>1, <1>2 DEF Running
<1>4. File \in Goals(plan.mode) /\ File.do = "write"
  BY DEF Goals, File, Step
<1>5. SameBut(overlay[plan.net], plan, {})
  BY <1>3, <1>4 DEF Holds
<1>6. ASSUME NEW g \in Goals(plan.mode) PROVE On(overlay[plan.net], chain[plan.net], g)
  BY <1>3, <1>5, OnFile DEF Holds
<1> QED BY <1>1, <1>3, <1>5, <1>6 DEF SameBut

(* So the app can use the network.                                         *)
LEMMA UsableThen == UsableInv => UsableWhenDone
<1> SUFFICES ASSUME UsableInv, outcome = "done", ~past.unsure PROVE UsableWhenDone
  BY DEF UsableWhenDone
<1>1. PICK n, o, c, ch, mode :
        n = plan.net /\ o = overlay[n] /\ c = o.contracts /\ ch = chain[n] /\ mode = plan.mode
  OBVIOUS
<1>2. /\ Running(mode) /\ n \in Nets /\ o.is = "slice" /\ SameBut(o, plan, {})
      /\ \A g \in Goals(mode) : Holds(g) /\ On(o, ch, g)
  BY <1>1, GoalsReached
<1>3. /\ mode \in Modes /\ (n = "local" <=> mode = "setup") /\ (mode = "setup" => DatabaseUrl = "local")
      /\ RowsShaped /\ DeployInv
  BY <1>1, <1>2 DEF Running, UsableInv
<1>4. OverlayRead(n) = o /\ n \in Present
  BY <1>1, <1>2 DEF OverlayRead, Present
<1>5. accountsFor(plan.net) = o /\ networkContracts(plan.net) = c
  BY <1>1, <1>4 DEF accountsFor, networkContracts
<1>6. isChainReady
  BY <1>2, <1>4 DEF isChainReady
<1>7. n = "local" \/ overlay.local.is # "torn" => loadDeployments
  <2>1. n = "local" => overlay.live.is # "torn"
    <3>1. mode = "setup" => Step("readLive", None, None) \in Goals(mode)
      BY DEF Goals
    <3>2. Step("readLive", None, None).do = "readLive"
      BY DEF Step
    <3> QED BY <1>2, <1>3, <3>1, <3>2 DEF Holds
  <2>2. /\ \A m \in Nets : overlay[m].is \in {"absent", "slice", "torn"}
        /\ world.secret.is \in {"absent", "slice"}
    BY <1>3 DEF RowsShaped
  <2>3. ASSUME n = "local" \/ overlay.local.is # "torn", NEW m \in Present PROVE OverlayRead(m).is = "slice"
    <3>1. m \in Nets /\ OverlayRead(m).is # "absent"
      BY DEF Present
    <3>2. CASE m = n
      BY <1>2, <1>4, <3>2
    <3>3. CASE m # n
      <4>1. overlay[m].is # "torn"
        BY <1>2, <2>1, <2>3, <3>1, <3>3 DEF Nets
      <4> QED BY <2>2, <3>1, <4>1 DEF OverlayRead
    <3> QED BY <3>2, <3>3
  <2> QED BY <1>4, <2>3 DEF loadDeployments
<1>8. \A k \in Kinds : [at |-> c[k], kind |-> k] \in ch.code
  <2>1. ASSUME NEW k \in Kinds PROVE Step("deploy", k, None) \in Goals(mode)
    BY DEF Goals, OnChain, Escrowed, FundSet
  <2>2. \A k : Step("deploy", k, None).do = "deploy" /\ Step("deploy", k, None).on = k
    BY DEF Step
  <2> QED BY <1>1, <1>2, <2>1, <2>2 DEF On
<1>9. \A t \in Tokens : <<c["settlement"], c[t]>> \in ch.assets
  <2>1. ASSUME NEW t \in Tokens PROVE Step("setApprovedAsset", t, None) \in Goals(mode)
    BY DEF Goals, OnChain, Escrowed
  <2>2. \A t : Step("setApprovedAsset", t, None).do = "setApprovedAsset" /\ Step("setApprovedAsset", t, None).on = t
    BY DEF Step
  <2> QED BY <1>1, <1>2, <2>1, <2>2 DEF On
<1>10. \A i \in DOMAIN Mints : <<c[Mints[i][1]], Wallet(o, Mints[i][2])>> \in ch.minted
  <2> TAKE i \in DOMAIN Mints
  <2>1. PICK g : g = Step("mint", Mints[i][1], Mints[i][2])
    OBVIOUS
  <2>2. g \in Goals(mode) /\ g.do = "mint" /\ g.on = Mints[i][1] /\ g.to = Mints[i][2]
    BY <2>1 DEF Goals, OnChain, Endowed, Step
  <2>3. Mints[i][2] \in Holders /\ "fund" \notin Holders
    BY DeployAssumption DEF Holders
  <2> QED BY <1>1, <1>2, <2>2, <2>3 DEF On, HolderOf
<1>11. <<c[USDC], c["fund"]>> \in ch.minted
  <2>1. PICK g : g = Step("mint", USDC, "fund")
    OBVIOUS
  <2>2. g \in Goals(mode) /\ g.do = "mint" /\ g.on = USDC /\ g.to = "fund"
    BY <2>1 DEF Goals, OnChain, FundSet, Step
  <2> QED BY <1>1, <1>2, <2>2 DEF On, HolderOf
<1>12. <<o.treasury, c[USDC], c["fund"]>> \in ch.allowance
  <2>1. PICK g : g = Step("approve", USDC, "fund")
    OBVIOUS
  <2>2. g \in Goals(mode) /\ g.do = "approve"
    BY <2>1 DEF Goals, OnChain, FundSet, Step
  <2> QED BY <1>1, <1>2, <2>2 DEF On
<1>13. n = "live" => Wallets(o) \subseteq ch.funded
  <2>1. ASSUME n = "live", NEW h \in Holders PROVE Wallet(o, h) \in ch.funded
    <3>1. PICK g : g = Step("fund", h, None)
      OBVIOUS
    <3>2. g \in Goals(mode) /\ g.do = "fund" /\ g.on = h
      BY <1>3, <2>1, <3>1 DEF Goals, Gas, Step
    <3> QED BY <1>2, <3>2 DEF On
  <2> QED BY <2>1 DEF Wallets
<1>14. o.entities = plan.entities
  BY <1>2 DEF SameBut
<1>15. mode \in {"full", "adopt"} => \A e \in seeded : rows[n][e] = o.entities[e]
  <2>1. ASSUME mode \in {"full", "adopt"}, NEW e \in seeded PROVE rows[n][e] = o.entities[e]
    <3>1. PICK g : g = Step("register", e, None)
      OBVIOUS
    <3>2. g \in Goals(mode) /\ g.do = "register" /\ g.on = e
      BY <1>3, <2>1, <3>1 DEF Goals, RowsShaped, Step
    <3> QED BY <1>1, <1>2, <1>14, <3>2 DEF Holds
  <2> QED BY <2>1
<1>16. mode = "setup" => \A e \in Ents : e \in seeded /\ rows.local[e] = o.entities[e]
                                          /\ rows.live[e] = overlay.live.entities[e]
  <2>1. ASSUME mode = "setup", NEW e \in Ents
        PROVE  e \in seeded /\ rows.local[e] = o.entities[e] /\ rows.live[e] = overlay.live.entities[e]
    <3>1. PICK g : g = Step("seed", e, None)
      OBVIOUS
    <3>2. g \in Goals(mode) /\ g.do = "seed" /\ g.on = e
      BY <2>1, <3>1 DEF Goals, Step
    <3> QED BY <1>2, <1>14, <3>2 DEF Holds
  <2> QED BY <2>1
<1>17. mode = "setup" =>
         DatabaseUrl = "local" /\ seeded = ToSet(Entities) /\ rows.live = overlay.live.entities
  <2>1. SUFFICES ASSUME mode = "setup" PROVE seeded = Ents /\ rows.live = overlay.live.entities
    BY <1>3 DEF Ents
  <2>2. seeded = Ents
    BY <1>3, <1>16, <2>1 DEF RowsShaped
  <2>3. rows.live = [e \in Ents |-> rows.live[e]]
    BY <1>3 DEF RowsShaped, Nets
  <2>4. DOMAIN overlay.live.entities = Ents /\ overlay.live.entities = [e \in Ents |-> overlay.live.entities[e]]
    <3>1. Shaped(overlay.live)
      BY <1>3 DEF DeployInv, Shapes, Nets
    <3>2. CASE overlay.live.is = "slice"
      BY <3>1, <3>2 DEF Shaped, Keyed, Ents
    <3>3. CASE overlay.live.is # "slice"
      BY <3>1, <3>3 DEF Shaped, NoWallets, Ents
    <3> QED BY <3>2, <3>3
  <2>5. \A e \in Ents : rows.live[e] = overlay.live.entities[e]
    BY <1>16, <2>1
  <2>6. [e \in Ents |-> rows.live[e]] = [e \in Ents |-> overlay.live.entities[e]]
    BY <2>5
  <2> QED BY <2>2, <2>3, <2>4, <2>6
<1>18. mode \notin {"noop", "mmf_addon"} => \A e \in seeded : rows[n][e] = o.entities[e]
  <2>1. mode = "setup" => n = "local" /\ seeded \subseteq Ents
    BY <1>3 DEF RowsShaped
  <2> QED BY <1>3, <1>15, <1>16, <2>1 DEF Modes
<1>19. n = plan.net /\ mode = plan.mode /\ ch = chain[plan.net]
  BY <1>1
<1> QED BY ONLY <1>5, <1>6, <1>7, <1>8, <1>9, <1>10, <1>11, <1>12, <1>13, <1>17, <1>18, <1>19
    DEF UsableWhenDone

(* It holds throughout.                                                    *)
THEOREM UsableInvariant == Spec => []UsableInv
<1> QED BY UsableAtStart, UsableStep, PTL DEF Spec

(* UsableWhenDone: a run that says it is done leaves a network the app can *)
(* use, whatever died, was refused or started over before it               *)
(* (scripts/deploy-testnet.mjs, runFullDeploy, runAdopt and runMmfAddon;   *)
(* scripts/setup.mjs, main).                                               *)
THEOREM DoneIsUsable == Spec => []UsableWhenDone
<1> QED BY UsableThen, UsableInvariant, PTL
=============================================================================
