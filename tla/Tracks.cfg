SPECIFICATION Spec
CONSTANTS
  one = one
  two = two
  three = three
  Song <- MCSong
  Collections <- MCCollections
  NoQuery = ""
  Matching <- MCMatching
  Heights = {6, 8}
  MaxRows = 4
  MaxBehind = 2
  Drift = 1
INVARIANTS TypeOK ScreenShowsCursor
PROPERTIES KeysFollowTheScreen
