SPECIFICATION Spec
CONSTANTS
  s = s
  t = t
  Track <- MCTrack
  Order <- MCOrder
  Database <- MCDatabase
  Queue <- MCQueue
  Stored <- MCStored
  Touched = {"a"}
  MaxYank = 1
  Cuts = {0}
INVARIANTS
  TypeOK
  CursorIsOpen
  ListingIsFresh
  BufferIsFresh
PROPERTIES
  OnlyRowIsLost
  DeletesTheRows
  HiddenIsUntouched
