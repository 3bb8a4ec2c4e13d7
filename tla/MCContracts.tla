------------------------------ MODULE MCContracts ------------------------------
(* The contracts as they are deployed, and the escrow as payments use it:  *)
(* the two share nothing, so a behaviour runs one of them.                 *)
EXTENDS MCDeploy, MCEscrow

VARIABLE part

ContractsInit ==
  /\ part \in {"deploy", "escrow"}
  /\ Init /\ EscrowInit
  /\ part # "deploy" => world = CHOOSE w \in Situations : TRUE
  /\ part # "escrow" => setting = CHOOSE s \in Settings : TRUE

ContractsNext ==
  /\ UNCHANGED part
  /\ \/ part = "deploy" /\ DeployNext /\ UNCHANGED escrowVars
     \/ part = "escrow" /\ EscrowNext /\ UNCHANGED vars

ContractsSpec == ContractsInit /\ [][ContractsNext]_<<part, vars, escrowVars>>
=============================================================================
