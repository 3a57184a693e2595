SPECIFICATION Spec
CONSTANTS
  Tests = {t1, t2}
  Writers = {w1}
  Capacity = 2
  Courses <- MCCourses
  None = None
INVARIANTS TypeOK InputInOrder
PROPERTIES EveryTestEnds
CHECK_DEADLOCK FALSE
