SPECIFICATION Spec
CONSTANTS
  Grammars <- MCGrammars
  FixedStart = "FixedStart"
  MaxChart = 40
  Targets <- MCTargets
  MaxItems = 12
  TrackBacks <- MCTrackBacks
INVARIANTS
  GrammarIsUsable
  TreesAreWords
CHECK_DEADLOCK FALSE
