SPECIFICATION Safety
CONSTANTS
  l1 = l1  l2 = l2  m1 = m1  h1 = h1  h2 = h2
  None = None  Session = Session
  Tasks <- LightAndHeavy
  FunctionType <- MCFunctionType
  Bypass = {}
  NumLight = 0  NumMedium = 0  NumHeavy = 1  NumAll = 1
  MediumEnabled = TRUE
  StopModes = {}
  ClearsIn = {}
  MaxFreezes = 1
INVARIANTS SaveIsQuiescent
CHECK_DEADLOCK FALSE
