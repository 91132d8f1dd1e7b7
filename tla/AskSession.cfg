CONSTANTS
  fire1 = fire1
  Records = {fire1}
  Replies <- FewReplies
  KeptTurns = 1
  MaxAsks = 2
  MaxPrompts = 1
  MaxResets = 1
  Slots = {1, 2}
SPECIFICATION Spec
INVARIANTS
  ViewHasOneOwner
  ResetIsBoundary
  PromptIsLatest
  LoadingIsOwned
  NothingCrosses
CHECK_DEADLOCK FALSE
PROPERTIES
  WaitingEnds
  KeepsRefreshing
