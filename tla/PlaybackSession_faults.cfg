SPECIFICATION Spec
CONSTANTS
  a = a
  b = b
  c = c
  NoUri = NoUri
  NoId = NoId
  NoContext = NoContext
  Uri <- MCUri
  Id <- MCId
  Fresh <- MCFresh
  MaxQueue = 2
  Outside = {"client","link"}
  Lists <- MCDistinctLists
  Contexts = {"playlist"}
INVARIANTS
  TypeOK
  MarkerTruth
  ObservedNamesRow
  PlayerViewFresh
