SPECIFICATION MCSpec
CONSTANTS
  Light = Light
  Gesture = Gesture
  NoChar = NoChar
  Chars <- MCChars
  SIZE = 2
  MaxValues = 4
  MaxConns = 2
  MaxEvents = 2
  MayDisable = TRUE
  MayTimeout = TRUE
  MayFail = TRUE
CHECK_DEADLOCK FALSE
INVARIANTS
  TypeOK
  NeverInProgress
  NoDuplicates
  ViewCatchesUp
  LeftoversFitTheQueue
  FlagWhenCalm
PROPERTIES
  DrainsWhenCalm
  AdvertisesAgain
