SPECIFICATION StoreSpec
CONSTANTS
  a = a
  b = b
  NoSong = NoSong
  Song <- MCSong
  Caps = {1, 2}
  Switches = {TRUE}
  Files <- MCFiles
  Disks <- MCFaults
  MaxId = 3
SYMMETRY MCSymmetry
INVARIANTS
  StoreTypeOK
  IdsIncrease
PROPERTIES
  RecordsAreStarts
  StartIsRecorded
  DeletionHitsView
  KeepsPromise
