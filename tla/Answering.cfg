CONSTANTS
  s1 = s1
  s2 = s2
  Sections <- TwoSections
  Claims <- SomeClaims
  MaxWhole = 2
  Questions <- SomeQuestions
  Adaptive = TRUE
SPECIFICATION Spec
INVARIANTS
  EvidenceNeedsRetrieval
  GeneralKnowledgeIsBounded
  PublishedStands
  PartialIsSaid
  CallsAreBounded
