SPECIFICATION Spec
CONSTANTS
  Requests = {r1, r2, r3}
  Null = Null
  Callers = {"c1", "c2"}
  Keys = {"k"}
  Window = 3
  SweepEvery = 2
  Ttl = 2
  GateWorlds <- Sampled
  Appenders = {a1, a2}
  Readers = {"walk"}
  Nobody = Nobody
  Interval = 2
  PageLimit = 1
  MaxId = 4
  Edits = {"content", "rehash"}
  Clients = {c1, c2}
  Passwords = {"first", "second", "third"}
  Unset = Unset
  Envs <- Environments
  MaxKeys = 1
SYMMETRY Symmetry
CHECK_DEADLOCK FALSE
INVARIANTS EffectsApart ReplayMatches KeyHasRunner WindowHolds NoFalseAlarm EditReported WalkComplete AcceptedInForce
