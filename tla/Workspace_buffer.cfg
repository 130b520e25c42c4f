SPECIFICATION Spec
CONSTANTS
  s = s
  t = t
  Track <- MCTrack
  Order <- MCOrder
  Database <- MCDatabase
  Queue <- MCQueue
  Stored <- MCStored
  Touched = {"a"}
  MaxYank = 1
  Cuts = {0}
INVARIANT
  EditsWhatIsShown
