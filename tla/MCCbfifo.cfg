SPECIFICATION Spec
CONSTANTS
  a = a
  b = b
  NoItem = NoItem
  Item <- MCItem
  SIZE = 4
INVARIANTS
  TypeOK
  QueuedSlotsWritten
  LengthTellsEmptiness
PROPERTIES
  ImplementsQueue
