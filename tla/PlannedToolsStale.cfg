SPECIFICATION FairSpec
CONSTANTS
  Plans <- MCPlans
  Budget = 4
  Rounds = 2
INVARIANT StaleIsSaid
\* One request is answered or given up, and stops.
CHECK_DEADLOCK FALSE
