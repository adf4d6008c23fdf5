SPECIFICATION Spec
CONSTANTS
  T1 = T1
  T2 = T2
  Turns = {1, 2}
  Kinds = {"create", "prompt", "resume", "sync", "eval"}
  Disabled = {TRUE, FALSE}
  Tenants = {T1, T2}
  Sessions = {"old", "new"}
  Legacy = {"old"}
  MaxSteps = 1
  MaxRounds = 2
  MaxLost = 1
  Modulus = 4
PROPERTY
  TurnEnds
CHECK_DEADLOCK FALSE
