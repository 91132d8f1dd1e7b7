\* Two workers that may die anywhere; the session may end, or stay wedged.
CONSTANTS
  ra = ra
  rb = rb
  adj = adj
  k1 = k1
  k2 = k2
  w1 = w1
  w2 = w2
  NoCase = NoCase
  Missing = Missing
  Torn = Torn
  Workers = {w1, w2}
  Reviewers = {ra, rb}
  Adjudicator = adj
  Cases = {k1, k2}
  CaseOrder <- Orders
  Verdicts = {"approve", "reject"}
SPECIFICATION FairSpec
CHECK_DEADLOCK FALSE
INVARIANTS
  AtMostOneUnreceipted
  WholeUnlessInterrupted
  EvidenceStands
PROPERTIES
  ReviewPromise
  EventuallyFinalized
