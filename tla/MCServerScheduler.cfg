SPECIFICATION MCSpec
CONSTANTS
  Readings <- MCReadings
  MaxWaves = 2
  MayPress = TRUE
  Prompt = FALSE
  MayMatchOld = FALSE
INVARIANTS SettledUnlessOld PoweredWhileConverting GestureFollowsLight NoPhantomGesture
PROPERTIES StopsInVainInTime
