SPECIFICATION Spec
CONSTANTS
  Garbage = Garbage
  NoText = ""
  Nowhere = Nowhere
  Empty = Empty
  home = home
  given = given
  Place = {home, given}
  Relative = {}
  Disks <- MCDisks
  Launches <- MCLaunches
  Themes <- MCThemes
  Offered <- MCOffered
  Typed <- MCTyped
  Faults = {"crash", "readonly", "unreadable"}
  MaxEdits = 2
  Texts <- MCTexts
  KeyLists <- MCKeyLists
INVARIANTS TypeOK SettingsSurvive NextLaunchConnects
PROPERTIES SaveIsAtomic SectionsStay EndpointIsConfirmed
