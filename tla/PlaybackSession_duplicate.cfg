SPECIFICATION Spec
CONSTANTS
  a = a
  b = b
  c = c
  NoUri = NoUri
  NoId = NoId
  NoContext = NoContext
  Uri <- MCUri
  Id <- MCId
  Fresh <- MCFresh
  MaxQueue = 3
  Outside = {}
  Lists <- MCDuplicateLists
  Contexts = {"playlist"}
INVARIANT
  MarkerNamesTheEntry
