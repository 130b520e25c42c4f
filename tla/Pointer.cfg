SPECIFICATION Spec
CONSTANTS
  Cell = {1, 2, 3, 4, 5, 6, 7, 8}
  Size = {"large", "small"}
  TreeRow <- MCTreeRow
  TrackRow <- MCTrackRow
  Layout <- MCLayout
PROPERTY
  HitsWhatIsDrawn
