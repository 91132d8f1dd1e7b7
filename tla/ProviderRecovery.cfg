\* No outcome escapes the handlers; three slots in two stages, three permits.
CONSTANTS
  c1 = c1
  c2 = c2
  c3 = c3
  c4 = c4
  s1 = s1
  s2 = s2
  Calls = {c1, c2, c3}
  Stages = {s1, s2}
  StageOf <- SplitStages
  FailureThreshold = 2
  Cooldown = 1
  RetryAfters = {0, 2}
  MaxConcurrency = 3
  MinConcurrency = 1
  SuccessWindow = 2
  MaxAttempts = 2
  Outcomes = {"validated", "invalid", "refused", "rate_limit", "outage"}
SPECIFICATION FairSpec
INVARIANTS
  ProbeFlagOwned
PROPERTIES
  StageReopens
  CapacityRecurs
