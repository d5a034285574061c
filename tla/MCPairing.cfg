SPECIFICATION MCSpec
CONSTANTS
  MaxLinks = 2
  MaxAttempts = 2
  MaxEdges = 1
  MaxResets = 1
  MayDrop = TRUE
  MayFail = TRUE
  MayMix = FALSE
INVARIANTS BondsAreFresh BondedIsBacked ClientHasSeen
PROPERTIES SucceedsUndisturbed
CHECK_DEADLOCK FALSE
