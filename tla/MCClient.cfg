SPECIFICATION FairSpec
CONSTANTS
  Light = Light
  Gesture = Gesture
  None = None
  Readings <- MCReadings
  Gestures <- MCGestures
  MaxConns = 2
  MaxValues = 3
  MaxPresses = 3
  MaxEvents = 2
  PressEarly = TRUE
  MayDrop = TRUE
  MayRefuse = TRUE
INVARIANTS NoRepeat ConfirmsIndications ReadyMeansSubscribed
PROPERTIES DiscoveryFinishes LightIsFollowed
