------------------------------- MODULE MCDeploy -------------------------------
(* One entity and two tokens of different decimals, on networks that are   *)
(* new, known to the registry, or hold an older deployment.                *)
EXTENDS Deploy

Profiles == <<"acme">>
Symbols == <<"usdc", "jpy">>
Balances == << <<"usdc", "acme">>, <<"usdc", "treasury">>, <<"jpy", "treasury">> >>
TokenDecimals == [k \in {"usdc", "jpy", "settlement", "fund"} |->
  CASE k = "usdc" -> 6 [] k = "jpy" -> 0 [] OTHER -> None]

(* The earlier deployment: made by the operator, without a fund.           *)
Earlier ==
  [usdc |-> <<"operator", 2>>, jpy |-> <<"operator", 3>>, settlement |-> <<"operator", 4>>, fund |-> None]
Slice(treasury, inline) ==
  [NoOverlay EXCEPT !.is = "slice", !.contracts = Earlier, !.treasury = treasury,
                    !.inline = inline, !.entities = [e \in {"acme"} |-> <<"earlier", 1>>]]
Incomplete(slice) == [slice EXCEPT !.contracts["usdc"] = None]

Situation(urls, deployer, env, registered, original, left) ==
  [urls |-> urls, deployer |-> deployer, env |-> env, original |-> original, overlay |-> left,
   registry |-> IF registered THEN Earlier ELSE NoContracts, secret |-> NoOverlay]
Mounted(situation, slice) == [situation EXCEPT !.secret = slice]

(* DATABASE_URL of the shell and of .env.                                  *)
Urls(process, file) == [process |-> process, file |-> file]
Local == Urls(None, "local")
Exported == Urls("local", "local")
Conflict == Urls("local", "shared")
Shared == Urls(None, "shared")

Sampled ==
  LET own == Slice(<<"earlier", 0>>, TRUE)
      lent == Slice(<<"env", 0>>, FALSE)
  IN  {Situation(Local, "operator", None, FALSE, NoOverlay, NoOverlay),
       Situation(Exported, "operator", <<"env", 0>>, FALSE, NoOverlay, NoOverlay),
       Situation(Local, "operator", None, TRUE, own, NoOverlay),
       Mounted(Situation(Local, "operator", None, FALSE, own, NoOverlay), own),
       Situation(Local, "operator", None, TRUE, own, own),
       Situation(Local, "operator", None, TRUE, own, Incomplete(own)),
       Situation(Local, "operator", None, FALSE, own, Incomplete(own)),
       Situation(Local, "operator", <<"env", 0>>, FALSE, lent, lent),
       Situation(Shared, "operator", <<"env", 1>>, FALSE, lent, lent),
       Situation(Conflict, "other", None, TRUE, own, NoOverlay)}
=============================================================================
