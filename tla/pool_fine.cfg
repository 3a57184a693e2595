SPECIFICATION Spec
CONSTANTS
  l1 = l1  l2 = l2  m1 = m1  h1 = h1  h2 = h2
  None = None  Session = Session
  Tasks <- ThreeTasks
  FunctionType <- MCFunctionType
  Bypass = {}
  NumLight = 1  NumMedium = 1  NumHeavy = 1  NumAll = 0
  MediumEnabled = TRUE
  StopModes = {FALSE}
  ClearsIn = {"idle", "frozen"}
  MaxFreezes = 1
PROPERTIES FrontLostOnlyToFrozenClear QuiescenceIsStable PoolSafety UnfrozenTasksEnd
CHECK_DEADLOCK FALSE
