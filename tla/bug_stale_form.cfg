SPECIFICATION Spec
CONSTANTS
  v1 = v1  v2 = v2  t1 = t1
  Values <- TwoValues
  Initial = v1
  Tasks <- OneTask
  Regimes <- OnlyIncremental
  MaxId = 4
  MaxSaves = 3
PROPERTIES LoadGivesSavedValues
CHECK_DEADLOCK FALSE
