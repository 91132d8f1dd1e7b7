CONSTANTS
  Revisions <- TwoRevisions
  Builders = {b1, b2}
  MaxPublishes = 2
  MaxBuilds = 3
SPECIFICATION Spec
INVARIANTS
  MixedNeedsOverlap
  BuiltIsLoadable
  NothingPaidTwice
