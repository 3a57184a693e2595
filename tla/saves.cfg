SPECIFICATION Spec
CONSTANTS
  v1 = v1  v2 = v2  t1 = t1
  Values <- TwoValues
  Initial = v1
  Tasks <- OneTask
  Regimes <- FullOrIncremental
  MaxId = 4
  MaxSaves = 3
INVARIANTS NamesAreFresh RecordsComeBack
PROPERTIES StoreSpec
CHECK_DEADLOCK FALSE
