SPECIFICATION SessionSpec
CONSTANTS
  w1 = w1  w2 = w2
  Workers = {w1, w2}
  Controllers = {c1, c2}
  Configurations <- Sessions
  MaxActive = 2
  Step = 1
  MaxCallbacks = 2
  Savers = {s1, s2}
  Ender = ender
  Goal = 2
  Endings <- GoodEndings
INVARIANTS TypeOK StoppedForGood
PROPERTIES ReplacedWhenDone SessionGoesOnOrEnds
CHECK_DEADLOCK FALSE
