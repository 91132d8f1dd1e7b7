SPECIFICATION FairSpec
CONSTANTS
  Plans <- MCPlans
  Budget = 4
  Rounds = 2
INVARIANTS PlannedAndOnce NothingLost NoOrphans
PROPERTY EventuallySettled
\* One request is answered or given up, and stops.
CHECK_DEADLOCK FALSE
