----------------------------- MODULE Credentials -----------------------------
(***************************************************************************)
(* Who may act: the API keys (lib/auth.ts, app/api/guard.ts), the one      *)
(* administrator's password (lib/admin-auth.ts) and the requests that use  *)
(* and change it (app/api/auth, app/api/admin/password).                   *)
(*                                                                         *)
(* A hash stands for what it covers, and a user name other than the        *)
(* administrator's counts as a wrong password.  An operator's key is the   *)
(* generation it was seeded in.                                            *)
(***************************************************************************)
EXTENDS Integers

CONSTANTS
  Clients,     \* who sends requests, one at a time each
  Passwords,
  Unset,       \* no row, no variable
  Envs,        \* what the environment of the process may say: see environment
  MaxKeys      \* bound: how often the keys are seeded

ASSUME CredentialsAssumption ==
  /\ Unset \notin Passwords
  /\ Envs \subseteq [password : Passwords \union {Unset}, key : Nat]
  /\ MaxKeys \in Nat

VARIABLES
  credential,  \* the AdminCredential row
  keys,        \* the generation of the operator key in the ApiKey table
  environment, \* ADMIN_USERNAME and ADMIN_PASSWORD; ADMIN_API_KEY
  cpc, cmem,   \* the clients' requests
  chosen       \* the password the administrator chose last: seeded, or changed to

credentialVars == <<credential, keys, environment, cpc, cmem, chosen>>

NoRequest == [password |-> Unset, new |-> Unset, answer |-> "none", during |-> {}]
Asked(password, new) == [password |-> password, new |-> new, answer |-> "none", during |-> {chosen}]
ClientGo(c, l) == cpc' = [cpc EXCEPT ![c] = l]
Answer(c, a) == cmem' = [cmem EXCEPT ![c].answer = a] /\ ClientGo(c, "told")

CredentialsInit ==
  /\ credential = Unset
  /\ keys = 1
  /\ environment \in Envs
  /\ cpc = [c \in Clients |-> "idle"]
  /\ cmem = [c \in Clients |-> NoRequest]
  /\ chosen = Unset

(* A client has a password stored: every request in progress sees it in    *)
(* force.                                                                  *)
Choose(password, by, answer) ==
  /\ credential' = password
  /\ chosen' = password
  /\ cmem' = [c \in Clients |->
       IF cpc[c] = "idle" THEN cmem[c]
       ELSE [password |-> cmem[c].password, new |-> cmem[c].new,
             during |-> cmem[c].during \union {password},
             answer |-> IF c = by THEN answer ELSE cmem[c].answer]]

-----------------------------------------------------------------------------
(* Keys.                                                                   *)

Tenant == 0  \* a key of an entity

(* principalForKey: the seeding of new keys forgets the old.               *)
principalForKey(raw) == CASE raw = keys -> "OPERATOR" [] raw = Tenant -> "ENTITY" [] OTHER -> Unset

RawKeys == 0 .. MaxKeys + 1

(* authenticate: the header's key before the cookie's; none is anonymous.  *)
authenticate(header, cookie) ==
  IF header # Unset THEN principalForKey(header)
  ELSE IF cookie # Unset THEN principalForKey(cookie) ELSE Unset

(* requireRole: what anyone but that role is answered.                     *)
Refusal(principal) == IF principal = Unset THEN "unauthorized" ELSE "forbidden"

(* POST /api/auth/login: any key that resolves becomes the cookie.         *)
KeyLogin(c) ==
  /\ cpc[c] = "idle"
  /\ \E raw \in RawKeys : Answer(c, IF principalForKey(raw) = Unset THEN "unauthorized" ELSE "signedIn")
  /\ UNCHANGED <<credential, keys, environment, chosen>>

(* setup.mjs empties the keys and seeds new ones, and leaves the password. *)
SeedKeys ==
  /\ keys <= MaxKeys
  /\ keys' = keys + 1
  /\ UNCHANGED <<credential, environment, cpc, cmem, chosen>>

-----------------------------------------------------------------------------
(* POST /api/auth/session.                                                 *)

Login(c) ==
  /\ cpc[c] = "idle"
  /\ \E password \in Passwords : cmem' = [cmem EXCEPT ![c] = Asked(password, Unset)]
  /\ ClientGo(c, "find")
  /\ UNCHANGED <<credential, keys, environment, chosen>>

(* ensureAdminCredential: a row wins over the environment.                 *)
FindCredential(c) ==
  /\ cpc[c] = "find"
  /\ \/ credential # Unset /\ ClientGo(c, "verify") /\ UNCHANGED cmem
     \/ credential = Unset /\ environment.password # Unset /\ ClientGo(c, "create") /\ UNCHANGED cmem
     \/ credential = Unset /\ environment.password = Unset /\ Answer(c, "misconfigured")
  /\ UNCHANGED <<credential, keys, environment, chosen>>

(* Slip: what the environment says is stored whoever created the row.      *)
AfterRaceStored == environment.password

(* The create that loses leaves the winner's row.                          *)
AfterRace == credential

CreateCredential(c) ==
  /\ cpc[c] = "create"
  /\ \/ /\ credential = Unset
        /\ Choose(environment.password, c, "none")
        /\ ClientGo(c, "verify")
     \/ /\ credential # Unset
        /\ credential' = AfterRace
        /\ ClientGo(c, "verify")
        /\ UNCHANGED <<cmem, chosen>>
  /\ UNCHANGED <<keys, environment>>

(* verifyAdminLogin reads the row once more.                               *)
VerifyLogin(c) ==
  /\ cpc[c] = "verify"
  /\ IF cmem[c].password = credential THEN ClientGo(c, "resolve") /\ UNCHANGED cmem
     ELSE Answer(c, "unauthorized")
  /\ UNCHANGED <<credential, keys, environment, chosen>>

(* resolveOperatorSessionKey: the cookie is the configured operator key.   *)
ResolveKey(c) ==
  /\ cpc[c] = "resolve"
  /\ Answer(c, IF principalForKey(environment.key) = "OPERATOR" THEN "session" ELSE "misconfigured")
  /\ UNCHANGED <<credential, keys, environment, chosen>>

-----------------------------------------------------------------------------
(* POST /api/admin/password, for an operator's key alone.                  *)

ChangePassword(c) ==
  /\ cpc[c] = "idle"
  /\ \E header, cookie \in RawKeys \union {Unset}, password, new \in Passwords :
       \/ /\ authenticate(header, cookie) = "OPERATOR"
          /\ cmem' = [cmem EXCEPT ![c] = Asked(password, new)]
          /\ ClientGo(c, "check")
       \/ /\ authenticate(header, cookie) # "OPERATOR"
          /\ Answer(c, Refusal(authenticate(header, cookie)))
  /\ UNCHANGED <<credential, keys, environment, chosen>>

CurrentOk(c) == cmem[c].password = credential

CheckCurrent(c) ==
  /\ cpc[c] = "check"
  /\ \/ credential = Unset /\ Answer(c, "misconfigured")
     \/ credential # Unset /\ CurrentOk(c) /\ ClientGo(c, "store") /\ UNCHANGED cmem
     \/ credential # Unset /\ ~CurrentOk(c) /\ Answer(c, "unauthorized")
  /\ UNCHANGED <<credential, keys, environment, chosen>>

(* The row and its audit event commit together, or neither does.           *)
StorePassword(c) ==
  /\ cpc[c] = "store"
  /\ \/ Choose(cmem[c].new, c, "changed") /\ ClientGo(c, "told")
     \/ Answer(c, "internal") /\ UNCHANGED <<credential, chosen>>
  /\ UNCHANGED <<keys, environment>>

-----------------------------------------------------------------------------

NextRequest(c) ==
  /\ cpc[c] = "told"
  /\ ClientGo(c, "idle")
  /\ cmem' = [cmem EXCEPT ![c] = NoRequest]
  /\ UNCHANGED <<credential, keys, environment, chosen>>

(* The process starts again, perhaps with another environment.             *)
Restart ==
  /\ environment' \in Envs
  /\ cpc' = [c \in Clients |-> "idle"]
  /\ cmem' = [c \in Clients |-> NoRequest]
  /\ UNCHANGED <<credential, keys, chosen>>

CredentialsNext ==
  \/ \E c \in Clients :
       \/ KeyLogin(c) \/ Login(c) \/ FindCredential(c) \/ CreateCredential(c) \/ VerifyLogin(c) \/ ResolveKey(c)
       \/ ChangePassword(c) \/ CheckCurrent(c) \/ StorePassword(c) \/ NextRequest(c)
  \/ SeedKeys \/ Restart

CredentialsSpec == CredentialsInit /\ [][CredentialsNext]_credentialVars

-----------------------------------------------------------------------------
(* Correctness.                                                            *)

(* A password that signs in, or that authorises a change, was the one      *)
(* chosen last at some moment of that request: once a change is confirmed  *)
(* the old password is dead, whatever logins were seeding the row, however *)
(* the environment reads and whenever the process starts again.            *)
AcceptedInForce ==
  \A c \in Clients : cmem[c].answer \in {"session", "changed"} => cmem[c].password \in cmem[c].during
=============================================================================
