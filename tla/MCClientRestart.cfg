SPECIFICATION FairSpec
CONSTANTS
  Light = Light
  Gesture = Gesture
  None = None
  Readings <- MCReadings
  Gestures <- MCGestures
  MaxConns = 2
  MaxValues = 0
  MaxPresses = 2
  MaxEvents = 2
  PressEarly = FALSE
  MayDrop = TRUE
  MayRefuse = FALSE
PROPERTY StartsOver
