SPECIFICATION Spec
CONSTANTS
  a = a  b = b  p1 = p1  None = None
  Tests <- TwoTests
  Bypass = {b}
  Preparers = {p1}
  MaxConcurrent = 2
  Courses <- SavedEndedOrReinitialised
INVARIANTS HandledOnce CurrentTestsExact 
PROPERTIES FrozenKeepsResults  EveryTestAnswered
CHECK_DEADLOCK FALSE
