------------------------------ MODULE MCService ------------------------------
(* The request gate, the audit log and the credentials of one process:     *)
(* they share nothing, so a behaviour runs one of them.                    *)
EXTENDS RequestGate, AuditChain, Credentials

VARIABLE part

Symmetry == Permutations(Requests) \union Permutations(Appenders) \union Permutations(Clients)

(* A password that a restart changes; none; a key seeded later or never.   *)
Environments ==
  {[password |-> "first", key |-> 1], [password |-> "second", key |-> 2], [password |-> Unset, key |-> 1]}

Arrival(c, k, b) == [caller |-> c, key |-> k, body |-> b]

(* Retries of one key that race its expiry; keys shared by callers and     *)
(* refused bodies; a database that fails; arrivals against the window.     *)
Sampled ==
  {[arrivals |-> {Arrival("c1", "k", "a"), Arrival("c1", "k", "b")},
    limit |-> 3, horizon |-> 3, faults |-> {"throw", "crash"}],
   [arrivals |-> {Arrival("c1", "k", "a"), Arrival("c2", "k", "a"), Arrival("c1", "k", Null)},
    limit |-> 3, horizon |-> 1, faults |-> {"late", "throw"}],
   [arrivals |-> {Arrival("c1", "k", "a"), Arrival("c1", "k", "b")},
    limit |-> 3, horizon |-> 0, faults |-> {"db"}],
   [arrivals |-> {Arrival("c1", Null, "a"), Arrival("c2", Null, "a")},
    limit |-> 2, horizon |-> 4, faults |-> {}]}

Init ==
  /\ part \in {"gate", "audit", "credentials"}
  /\ AuditInit /\ GateInit /\ CredentialsInit
  /\ part # "gate" => gate = CHOOSE w \in GateWorlds : TRUE
  /\ part # "credentials" => environment = CHOOSE e \in Envs : TRUE

Next ==
  /\ UNCHANGED part
  /\ \/ part = "gate" /\ GateNext /\ UNCHANGED <<auditVars, credentialVars>>
     \/ part = "audit" /\ AuditNext /\ UNCHANGED <<gateVars, credentialVars>>
     \/ part = "credentials" /\ CredentialsNext /\ UNCHANGED <<gateVars, auditVars>>

Spec == Init /\ [][Next]_<<part, gateVars, auditVars, credentialVars>>
=============================================================================
