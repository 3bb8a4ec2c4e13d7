-------------------------------- MODULE Deploy --------------------------------
(***************************************************************************)
(* Deploying to a testnet (scripts/deploy-testnet.mjs) and resetting the   *)
(* local demo (scripts/setup.mjs), as an operator runs them one after the  *)
(* other: the chains' contracts, the overlay file that is the only copy of *)
(* generated keys, and the wallets the database knows.                     *)
(*                                                                         *)
(* A run is a list of steps, each one transaction, file write or row; it   *)
(* may die between any two, or in the middle of a write.  An address is    *)
(* its deployer and its nonce, so a chain that starts over hands out the   *)
(* same ones.  A key stands for the address it derives.                    *)
(***************************************************************************)
EXTENDS Integers, Sequences, SequencesExt

CONSTANTS
  None,
  TOKENS,    \* the tokens deployed, in order
  USDC,      \* mockUSDC, the asset of the fund
  Entities,  \* ENTITY_PROFILES, in order
  Mints,     \* the <<token, holder>> of the demo balances, in order
  Decimals,  \* what decimals() answers, by kind; None where there is none
  Situations,  \* what a behaviour may start from: see world
  MaxRuns,   \* bound: runs that send anything
  MaxCrashes \* bound: runs that die

Tokens == ToSet(TOKENS)
Kinds == Tokens \union {"settlement", "fund"}
Holders == {"treasury"} \union ToSet(Entities)

ASSUME DeployAssumption ==
  /\ USDC \in Tokens
  /\ Mints \in Seq(Tokens \X Holders)
  /\ {"settlement", "fund"} \intersect Tokens = {} /\ {"treasury", "fund"} \intersect ToSet(Entities) = {}
  /\ {TOKENS, Entities} \subseteq Seq(STRING)
  /\ None \notin {"fresh", "dev"} \X Nat
  /\ DOMAIN Decimals = Kinds
  /\ MaxRuns \in Nat /\ MaxCrashes \in Nat

VARIABLES
  chain,    \* per network: nonce, code, and what was funded, minted, approved
  overlay,  \* per network: the deployments file
  seeded,   \* entities in the database
  rows,     \* the wallet registered per network and entity
  nextKey,
  plan,     \* what the running script has resolved
  todo,     \* the steps it has left
  outcome,  \* "none", "running", or "done": what the last run said
  past,     \* runs begun, runs that died, whether a run was forced, whether live started
            \* over, whether the overlay comes from adopting what was there after that
  world     \* urls: DATABASE_URL of the process and of .env; deployer; env:
            \* TREASURY_PRIVATE_KEY; registry: ADOPTABLE_NETWORKS[live];
            \* original: the slice of an earlier deployment; overlay: what is left of its file;
            \* secret: a live overlay mounted where only the app looks

vars == <<chain, overlay, seeded, rows, nextKey, plan, todo, outcome, past, world>>

Nets == {"live", "local"}
NoContracts == [k \in Kinds |-> None]
NoWallets == [e \in ToSet(Entities) |-> None]
NoOverlay == [is |-> "absent", contracts |-> NoContracts, treasury |-> None, inline |-> FALSE, entities |-> NoWallets]
Genesis == [nonce |-> 0, code |-> {}, funded |-> {}, minted |-> {}, assets |-> {}, allowance |-> {}]

(* A network, a mode, and the slice that the run works on.                 *)
RunPlan(net, mode, slice) ==
  [net |-> net, mode |-> mode, is |-> slice.is, contracts |-> slice.contracts,
   treasury |-> slice.treasury, inline |-> slice.inline, entities |-> slice.entities]
NoPlan == RunPlan("live", "none", NoOverlay)

Wallet(slice, holder) == IF holder = "treasury" THEN slice.treasury ELSE slice.entities[holder]
Wallets(slice) == {Wallet(slice, h) : h \in Holders}

Keys(slice) == {slice.entities[e] : e \in ToSet(Entities)}
Keyed(slice) == slice.entities \in [ToSet(Entities) -> Keys(slice)] /\ None \notin Keys(slice)

(* A file the scripts wrote has a key for every entity, and one that names *)
(* escrow and asset is that of the earlier deployment, without a fund; the *)
(* registry names that deployment's contracts; a mounted file is whole.    *)
ASSUME SituationAssumption ==
  \A w \in Situations :
    /\ {DOMAIN w.overlay, DOMAIN w.original} = {DOMAIN NoOverlay}
    /\ {DOMAIN w.overlay.contracts, DOMAIN w.registry} = {Kinds}
    /\ w.overlay.is \in {"absent", "slice", "torn"} /\ w.secret.is \in {"absent", "slice"}
    /\ w.overlay.is = "slice" => Keyed(w.overlay)
    /\ w.overlay.is # "slice" => w.overlay.entities = NoWallets /\ w.overlay.contracts = NoContracts
    /\ w.original # NoOverlay => \A k \in Kinds \ {"fund"} : w.original.contracts[k] # None
    /\ None \notin {w.overlay.contracts["settlement"], w.overlay.contracts[USDC]} =>
         w.overlay = w.original /\ w.overlay.contracts["fund"] = None
    /\ w.registry # NoContracts =>
         /\ w.registry = w.original.contracts
         /\ w.overlay.contracts["settlement"] \in {None, w.registry["settlement"]}

(* What a completed deployment has put on its chain.                       *)
Deployed(slice, nonce) ==
  LET c == slice.contracts
  IN  [nonce |-> nonce,
       code |-> {[at |-> c[k], kind |-> k] : k \in {k \in Kinds : c[k] # None}},
       funded |-> Wallets(slice),
       minted |-> {<<c[Mints[i][1]], Wallet(slice, Mints[i][2])>> : i \in DOMAIN Mints},
       assets |-> {<<c["settlement"], c[t]>> : t \in Tokens},
       allowance |-> {}]

Init ==
  /\ world \in Situations
  /\ chain = [live |-> IF world.original = NoOverlay THEN Genesis
                       ELSE Deployed(world.original, IF world.deployer = "operator" THEN 20 ELSE 0),
              local |-> Genesis]
  /\ overlay = [live |-> world.overlay, local |-> NoOverlay]
  /\ seeded = {}
  /\ rows = [n \in Nets |-> NoWallets]
  /\ nextKey = 1
  /\ plan = NoPlan
  /\ todo = <<>>
  /\ outcome = "none"
  /\ past = [runs |-> 0, crashes |-> 0, forced |-> FALSE, restarted |-> FALSE, unsure |-> FALSE]

HasCode(n, at) == \E c \in chain[n].code : c.at = at

(* listAdoptContractAddresses, of the registry or of an overlay.           *)
ContractEntries(contracts) == {k \in Kinds : contracts[k] # None}

-----------------------------------------------------------------------------
(* What a run decides before it sends anything.                            *)

decideDeployMode(o) ==
  IF o.is # "slice" \/ None \in {o.contracts["settlement"], o.contracts[USDC]} THEN "full"
  ELSE IF o.contracts["fund"] # None THEN "noop"
  ELSE "mmf_addon"

(* Slip: an overlay file, of any content, is taken for a deployment.       *)
FullDeployAllowedByFile(mode, force) ==
  force \/ world.registry = NoContracts \/ overlay.live.is # "absent" \/ mode # "full"

(* assertAdoptableFullDeployAllowed                                        *)
FullDeployAllowed(mode, force) ==
  force \/ world.registry = NoContracts \/ mode # "full"

(* Slip: a recorded address is taken as it stands.                         *)
OverlayOnchainUnread(o) == TRUE

(* evaluateOverlayOnchain: code at every recorded address, and decimals as *)
(* recorded at the tokens'.                                                *)
OverlayOnchain(o) ==
  \A k \in ContractEntries(o.contracts) :
    \E c \in chain.live.code :
      c.at = o.contracts[k] /\ (k \in Tokens => Decimals[c.kind] = Decimals[k])

(* listOverlayContractEntries, planNonAdoptExecution: there is something   *)
(* to verify, whatever the flags.                                          *)
verifyOverlayOnchain(o) == ContractEntries(o.contracts) # {}

(* decideAdoptPlan, and the bytecode of what the registry names.           *)
AdoptAllowed ==
  /\ world.registry # NoContracts
  /\ overlay.live.is = "absent"
  /\ world.deployer = "operator"
  /\ \A k \in ContractEntries(world.registry) : HasCode("live", world.registry[k])

adoptNeedsMmf == world.registry["fund"] = None

(* Prisma's DATABASE_URL, the process's over the .env file's; two that     *)
(* disagree are refused.                                                   *)
DatabaseUrl == IF world.urls.process # None THEN world.urls.process ELSE world.urls.file
checkLocalDatabaseUrl(url) == url = "local"
resolveSetupDatabaseUrl ==
  /\ None \in {world.urls.process, world.urls.file} \/ world.urls.process = world.urls.file
  /\ checkLocalDatabaseUrl(DatabaseUrl)

(* The guard in front of setup, and the one setup starts with.             *)
SetupAllowed == resolveSetupDatabaseUrl /\ checkLocalDatabaseUrl(DatabaseUrl)

(* resolveAddonTreasuryKey: the recorded key, else the environment's, must *)
(* derive the recorded address.                                            *)
AddonKeyResolves(o) == o.treasury # None /\ (o.inline \/ world.env = o.treasury)

-----------------------------------------------------------------------------
(* The plans, step by step.                                                *)

Step(do, on, to) == [do |-> do, on |-> on, to |-> to]
StepsOn(do, on) == [i \in DOMAIN on |-> Step(do, on[i], None)]

FundSteps == StepsOn("fund", <<"treasury">> \o Entities)
MintSteps == [i \in DOMAIN Mints |-> Step("mint", Mints[i][1], Mints[i][2])]
DeploySteps ==
  StepsOn("deploy", TOKENS \o <<"settlement", "fund">>) \o StepsOn("setApprovedAsset", TOKENS)
    \o MintSteps \o <<Step("mint", USDC, "fund"), Step("approve", USDC, "fund")>>
AddonSteps == <<Step("deploy", "fund", None), Step("buffer", USDC, "fund"), Step("approveOnce", USDC, "fund")>>
RegisterSteps == StepsOn("register", Entities)

FullSteps == FundSteps \o DeploySteps \o <<Step("write", None, None)>> \o RegisterSteps
AdoptSteps ==
  FundSteps \o MintSteps
    \o (IF adoptNeedsMmf THEN AddonSteps ELSE Tail(AddonSteps))
    \o <<Step("write", None, None)>> \o RegisterSteps
MmfAddonSteps == AddonSteps \o <<Step("merge", None, None)>>
SetupSteps ==
  DeploySteps \o <<Step("write", None, None), Step("wipe", None, None), Step("readLive", None, None)>>
    \o StepsOn("seed", Entities)

(* Keys are resolved first: the environment's, the file's, or fresh ones.  *)
Position(e) == CHOOSE i \in DOMAIN Entities : Entities[i] = e
Fresh(i) == <<"fresh", nextKey + i>>
FreshWallets == [e \in ToSet(Entities) |-> Fresh(Position(e))]

(* Slip: the file's keys are not looked at.                                *)
FullSliceFresh(old) ==
  [is |-> "slice", contracts |-> NoContracts,
   treasury |-> IF world.env # None THEN world.env ELSE Fresh(0),
   inline |-> world.env = None,
   entities |-> FreshWallets]

FullSlice(old) ==
  [is |-> "slice", contracts |-> NoContracts,
   treasury |-> IF world.env # None THEN world.env ELSE IF old.inline THEN old.treasury ELSE Fresh(0),
   inline |-> world.env = None,
   entities |-> [e \in ToSet(Entities) |-> IF old.entities[e] # None THEN old.entities[e] ELSE FreshWallets[e]]]

AdoptSlice ==
  [is |-> "slice", contracts |-> world.registry,
   treasury |-> IF world.env # None THEN world.env ELSE Fresh(0),
   inline |-> world.env = None,
   entities |-> FreshWallets]

DevSlice ==
  [is |-> "slice", contracts |-> NoContracts, treasury |-> <<"dev", 0>>, inline |-> TRUE,
   entities |-> [e \in ToSet(Entities) |-> <<"dev", Position(e)>>]]

Idle == todo = <<>>
Begin(net, mode, slice, steps, force) ==
  /\ past.runs < MaxRuns
  /\ past' = [past EXCEPT !.runs = @ + 1, !.forced = @ \/ force,
                           !.unsure = @ \/ (mode = "adopt" /\ past.restarted)]
  /\ plan' = RunPlan(net, mode, slice)
  /\ nextKey' = nextKey + Len(Entities) + 1
  /\ todo' = steps
  /\ outcome' = "running"

(* Refused, or a dry run: nothing is sent.                                 *)
Leave ==
  /\ outcome' = "none"
  /\ plan' = NoPlan
  /\ UNCHANGED <<nextKey, todo, past>>

(* --adopt.                                                                *)
Adopt(preflightOnly) ==
  \/ ~AdoptAllowed /\ Leave
  \/ AdoptAllowed /\ preflightOnly /\ Leave
  \/ AdoptAllowed /\ ~preflightOnly /\ Begin("live", "adopt", AdoptSlice, AdoptSteps, FALSE)

(* Without it the overlay decides.  A file that is no JSON stops a forced  *)
(* full deploy where it looks for the keys.                                *)
Deploy(preflightOnly, force) ==
  LET o == overlay.live
      mode == decideDeployMode(o)
      allowed == FullDeployAllowed(mode, force) /\ (verifyOverlayOnchain(o) => OverlayOnchain(o))
  IN  \/ ~allowed /\ Leave
      \/ allowed /\ preflightOnly /\ Leave
      \/ /\ allowed /\ ~preflightOnly /\ mode = "noop"
         /\ outcome' = "done"
         /\ plan' = RunPlan("live", "noop", o)
         /\ UNCHANGED <<nextKey, todo, past>>
      \/ /\ allowed /\ ~preflightOnly /\ mode = "mmf_addon"
         /\ \/ ~AddonKeyResolves(o) /\ Leave
            \/ AddonKeyResolves(o) /\ Begin("live", mode, o, MmfAddonSteps, FALSE)
      \/ /\ allowed /\ ~preflightOnly /\ mode = "full"
         /\ \/ o.is = "torn" /\ Leave
            \/ o.is # "torn" /\ Begin("live", mode, FullSlice(o), FullSteps, force)

(* parseDeployArgs: any of the flags, or it throws.                        *)
parseDeployArgs == [preflightOnly : BOOLEAN, adopt : BOOLEAN, forceFullDeploy : BOOLEAN]

(* main of deploy-testnet.mjs; a command line or a check may stop any run. *)
RunDeploy ==
  /\ Idle
  /\ \/ Leave
     \/ \E args \in parseDeployArgs :
          \/ args.adopt /\ Adopt(args.preflightOnly)
          \/ ~args.adopt /\ Deploy(args.preflightOnly, args.forceFullDeploy)
  /\ UNCHANGED <<chain, overlay, seeded, rows, world>>

(* main of setup.mjs; a local chain may not answer, or be another one.     *)
RunSetup ==
  /\ Idle
  /\ \/ SetupAllowed /\ Begin("local", "setup", DevSlice, SetupSteps, FALSE)
     \/ Leave
  /\ UNCHANGED <<chain, overlay, seeded, rows, world>>

-----------------------------------------------------------------------------
(* The steps.                                                              *)

Doing(do) == todo # <<>> /\ Head(todo).do = do
Advance ==
  /\ todo' = Tail(todo)
  /\ outcome' = IF Tail(todo) = <<>> THEN "done" ELSE "running"
  /\ UNCHANGED <<nextKey, past, world>>

Here == chain[plan.net]
Address(net) == <<IF net = "live" THEN world.deployer ELSE "dev", chain[net].nonce>>
ContractOr(holder) == IF holder = "fund" THEN plan.contracts["fund"] ELSE Wallet(plan, holder)
Transact(changed) == chain' = [chain EXCEPT ![plan.net] = changed]
FromDeployer(changed) == Transact([changed EXCEPT !.nonce = @ + 1])
OffChain == UNCHANGED chain

(* Gas dust for a wallet below its target.                                 *)
Fund ==
  /\ Doing("fund")
  /\ LET to == Wallet(plan, Head(todo).on)
     IN  IF to \in Here.funded THEN OffChain ELSE FromDeployer([Here EXCEPT !.funded = @ \union {to}])
  /\ Advance
  /\ UNCHANGED <<overlay, seeded, rows, plan>>

DeployContract ==
  /\ Doing("deploy")
  /\ LET kind == Head(todo).on
         at == Address(plan.net)
     IN  /\ FromDeployer([Here EXCEPT !.code = @ \union {[at |-> at, kind |-> kind]}])
         /\ plan' = [plan EXCEPT !.contracts[kind] = at]
  /\ Advance
  /\ UNCHANGED <<overlay, seeded, rows>>

SetApprovedAsset ==
  /\ Doing("setApprovedAsset")
  /\ FromDeployer([Here EXCEPT !.assets = @ \union {<<plan.contracts["settlement"], plan.contracts[Head(todo).on]>>}])
  /\ Advance
  /\ UNCHANGED <<overlay, seeded, rows, plan>>

(* Fund add-ons skip what is already there.                                *)
mmfYieldBufferSatisfied == <<plan.contracts[USDC], plan.contracts["fund"]>> \in Here.minted

(* A mint, or the fund's yield buffer unless it is there.                  *)
Mint ==
  /\ Doing("mint") \/ Doing("buffer")
  /\ LET minted == <<plan.contracts[Head(todo).on], ContractOr(Head(todo).to)>>
     IN  IF Doing("buffer") /\ mmfYieldBufferSatisfied THEN OffChain
         ELSE FromDeployer([Here EXCEPT !.minted = @ \union {minted}])
  /\ Advance
  /\ UNCHANGED <<overlay, seeded, rows, plan>>

FundApproval == <<plan.treasury, plan.contracts[USDC], plan.contracts["fund"]>>
treasuryMmfApprovalSatisfied == FundApproval \in Here.allowance

(* The treasury, not the deployer, lets the fund pull mockUSDC.            *)
Approve ==
  /\ Doing("approve") \/ Doing("approveOnce")
  /\ IF Doing("approveOnce") /\ treasuryMmfApprovalSatisfied THEN OffChain
     ELSE Transact([Here EXCEPT !.allowance = @ \union {FundApproval}])
  /\ Advance
  /\ UNCHANGED <<overlay, seeded, rows, plan>>

Recorded == [k \in DOMAIN NoOverlay |-> plan[k]]

(* The whole file, or the fund merged into the one that was read.          *)
WriteOverlay ==
  /\ Doing("write") \/ Doing("merge")
  /\ overlay' = [overlay EXCEPT ![plan.net] =
       IF Doing("merge") THEN [@ EXCEPT !.contracts["fund"] = plan.contracts["fund"]] ELSE Recorded]
  /\ Advance
  /\ OffChain /\ UNCHANGED <<seeded, rows, plan>>

(* registerEntityWallet: nothing for an entity that is not seeded.         *)
RegisterWallet ==
  /\ Doing("register")
  /\ LET e == Head(todo).on
     IN  rows' = IF e \in seeded THEN [rows EXCEPT ![plan.net][e] = plan.entities[e]] ELSE rows
  /\ Advance
  /\ OffChain /\ UNCHANGED <<overlay, seeded, plan>>

(* setup.mjs empties the database before it reads the live overlays, and   *)
(* stops at one that is no JSON.                                           *)
Wipe ==
  /\ Doing("wipe")
  /\ seeded' = {}
  /\ rows' = [n \in Nets |-> NoWallets]
  /\ Advance
  /\ OffChain /\ UNCHANGED <<overlay, plan>>

ReadLive ==
  /\ Doing("readLive")
  /\ IF overlay.live.is = "torn"
     THEN todo' = <<>> /\ outcome' = "none" /\ plan' = NoPlan /\ UNCHANGED <<nextKey, past, world>>
     ELSE Advance /\ UNCHANGED plan
  /\ OffChain /\ UNCHANGED <<overlay, seeded, rows>>

(* An entity, its local wallet and the live ones read before.              *)
SeedEntity ==
  /\ Doing("seed")
  /\ LET e == Head(todo).on
     IN  /\ seeded' = seeded \union {e}
         /\ rows' = [rows EXCEPT !.local[e] = plan.entities[e], !.live[e] = overlay.live.entities[e]]
  /\ Advance
  /\ OffChain /\ UNCHANGED <<overlay, plan>>

-----------------------------------------------------------------------------
(* Between and during runs.                                                *)

(* The run dies, or a transaction fails; a write in progress may be torn.  *)
Crash ==
  /\ ~Idle
  /\ past.crashes < MaxCrashes
  /\ past' = [past EXCEPT !.crashes = @ + 1]
  /\ todo' = <<>>
  /\ outcome' = "none" /\ plan' = NoPlan
  /\ \/ UNCHANGED overlay
     \/ /\ Doing("write") \/ Doing("merge")
        /\ overlay' = [overlay EXCEPT ![plan.net] = [NoOverlay EXCEPT !.is = "torn"]]
  /\ UNCHANGED <<chain, seeded, rows, nextKey, world>>

(* The operator moves the overlay aside, as the refusals advise.           *)
MoveAside ==
  /\ Idle
  /\ overlay.live.is # "absent"
  /\ overlay' = [overlay EXCEPT !.live = NoOverlay]
  /\ past' = [past EXCEPT !.unsure = FALSE]
  /\ outcome' = "none" /\ plan' = NoPlan
  /\ UNCHANGED <<chain, seeded, rows, nextKey, todo, world>>

(* The live chain starts over.                                             *)
Regenesis ==
  /\ Idle
  /\ chain.live # Genesis
  /\ ~past.restarted
  /\ chain' = [chain EXCEPT !.live = Genesis]
  /\ past' = [past EXCEPT !.restarted = TRUE]
  /\ outcome' = "none" /\ plan' = NoPlan
  /\ UNCHANGED <<overlay, seeded, rows, nextKey, todo, world>>

DeployNext ==
  \/ RunDeploy \/ RunSetup
  \/ Fund \/ DeployContract \/ SetApprovedAsset \/ Mint \/ Approve
  \/ WriteOverlay \/ RegisterWallet \/ Wipe \/ ReadLive \/ SeedEntity
  \/ Crash \/ MoveAside \/ Regenesis

Spec == Init /\ [][DeployNext]_vars

-----------------------------------------------------------------------------
(* What the app reads (lib/chain.ts): every file there is, each time, so   *)
(* one that is no JSON takes every network down with it.                   *)

(* resolveLiveOverlayPath: the scripts' file, else the mounted one.        *)
OverlayRead(n) == IF n = "live" /\ overlay.live.is = "absent" THEN world.secret ELSE overlay[n]

Present == {n \in Nets : OverlayRead(n).is # "absent"}
loadDeployments == Present # {} /\ \A n \in Present : OverlayRead(n).is = "slice"
networkContracts(n) == OverlayRead(n).contracts

(* One file that reads is enough.                                          *)
isChainReady == \E n \in Present : OverlayRead(n).is = "slice"

(* A network's own accounts, else the ones the local networks share.       *)
accountsFor(n) == IF n \in Present THEN OverlayRead(n) ELSE overlay.local

-----------------------------------------------------------------------------
(* Correctness.                                                            *)

(* A run that says it is done, whatever died, was refused or started over  *)
(* before it, leaves a network the app can use: what the file names is on  *)
(* chain, each contract of its kind, assets approved, wallets funded with  *)
(* gas and tokens, the fund allowed to pull, and, from a run that          *)
(* registers, wallets in the database that the files have the keys of; a   *)
(* setup emptied a local database only.                                    *)
(* Adopting trusts that what the registry names was once completed, which  *)
(* a chain that started over undoes; and a torn local file keeps the app   *)
(* from reading the live one.                                              *)
(* Setup registers the live wallets of the files the scripts wrote; those  *)
(* of a file that is only mounted it does not know.                        *)
UsableWhenDone ==
  LET n == plan.net
      o == accountsFor(n)
      c == networkContracts(n)
  IN  outcome = "done" /\ ~past.unsure =>
        /\ isChainReady
        /\ n = "local" \/ overlay.local.is # "torn" => loadDeployments
        /\ \A k \in Kinds : [at |-> c[k], kind |-> k] \in chain[n].code
        /\ \A t \in Tokens : <<c["settlement"], c[t]>> \in chain[n].assets
        /\ \A i \in DOMAIN Mints : <<c[Mints[i][1]], Wallet(o, Mints[i][2])>> \in chain[n].minted
        /\ <<c[USDC], c["fund"]>> \in chain[n].minted
        /\ <<o.treasury, c[USDC], c["fund"]>> \in chain[n].allowance
        /\ n = "live" => Wallets(o) \subseteq chain[n].funded
        /\ plan.mode \notin {"noop", "mmf_addon"} =>
             \A e \in seeded : rows[n][e] = o.entities[e]
        /\ plan.mode = "setup" =>
             DatabaseUrl = "local" /\ seeded = ToSet(Entities) /\ rows.live = overlay.live.entities

(* On a network whose live contracts are registered, no run without        *)
(* --force-full-deploy adds a second escrow, whatever the overlay file has *)
(* become, and every overlay names the registered one.                     *)
OneEscrow ==
  world.registry # NoContracts /\ ~past.forced =>
    /\ \A c \in chain.live.code : c.kind = "settlement" => c.at = world.registry["settlement"]
    /\ overlay.live.contracts["settlement"] \in {None, world.registry["settlement"]}

(* A file rewritten in place keeps every generated key it held: they exist *)
(* nowhere else.  A treasury key in the environment replaces the file's.   *)
KeysKept ==
  [][\A n \in Nets :
       overlay[n].is = "slice" /\ overlay'[n].is = "slice" =>
         /\ overlay'[n].entities = overlay[n].entities
         /\ overlay[n].inline /\ world.env = None => overlay'[n].treasury = overlay[n].treasury]_vars
=============================================================================
