\* Every outcome; four slots, three of them in one stage, two permits.
CONSTANTS
  c1 = c1
  c2 = c2
  c3 = c3
  c4 = c4
  s1 = s1
  s2 = s2
  Calls = {c1, c2, c3, c4}
  Stages = {s1, s2}
  StageOf <- TwoStages
  FailureThreshold = 2
  Cooldown = 1
  RetryAfters = {0, 2}
  MaxConcurrency = 2
  MinConcurrency = 1
  SuccessWindow = 2
  MaxAttempts = 2
  Outcomes = {"validated", "invalid", "refused", "rate_limit", "outage", "escape"}
SPECIFICATION Spec
SYMMETRY Callers
INVARIANTS
  TypeOK
  OpenExactlyAtThreshold
  ProbeOnlyHalfOpen
  AccountedFor
  NoLostWakeup
PROPERTIES
  ClosesOnlyOnAnswer
  GateSpec
