SPECIFICATION Spec
CONSTANTS
  l1 = l1  l2 = l2  m1 = m1  h1 = h1  h2 = h2
  None = None  Session = Session
  Tasks <- ThreeTasks
  FunctionType <- MCFunctionType
  Bypass = {h1}
  NumLight = 0  NumMedium = 0  NumHeavy = 1  NumAll = 2
  MediumEnabled = TRUE
  StopModes = {TRUE, FALSE}
  ClearsIn = {"idle", "frozen"}
  MaxFreezes = 1
INVARIANTS TypeOK NoTaskLostOrRepeated
PROPERTIES StopDrains CallsReturn PoolSpec
CHECK_DEADLOCK FALSE
