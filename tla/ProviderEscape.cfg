\* Three slots in one stage; an exception may escape the handlers of _post.
CONSTANTS
  c1 = c1
  c2 = c2
  c3 = c3
  c4 = c4
  s1 = s1
  s2 = s2
  Calls = {c1, c2, c3}
  Stages = {s1}
  StageOf <- OneStage
  FailureThreshold = 2
  Cooldown = 1
  RetryAfters = {0, 2}
  MaxConcurrency = 2
  MinConcurrency = 1
  SuccessWindow = 2
  MaxAttempts = 2
  Outcomes = {"validated", "invalid", "refused", "rate_limit", "outage", "escape"}
SPECIFICATION FairSpec
PROPERTIES
  StageReopens
