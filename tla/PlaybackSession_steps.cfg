SPECIFICATION FairSpec
CONSTANTS
  a = a
  b = b
  c = c
  NoUri = NoUri
  NoId = NoId
  NoContext = NoContext
  Uri <- MCUri3
  Id <- MCId
  Fresh <- MCFresh
  MaxQueue = 3
  Outside = {"remote", "shuffle"}
  Lists <- MCShuffleLists
  Contexts = {"playlist"}
PROPERTIES
  StepPlaysNeighbour
  ShuffleNeverRepeats
  MarkerSettles
