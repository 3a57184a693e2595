SPECIFICATION Spec
CONSTANTS
  Configurations <- Reductions
  Changes <- LastOrMiddle
  LightThreads = {l1, l2}
  Listeners = {c1}
  MaxBatches = 3
  FollowUp = TRUE
INVARIANTS RangesAreExact NoPhantomTasks
PROPERTIES Reduces LossesDoNotAddUp QuietAfterFinish AcceptedCallbacksRun LevelsEnd
CHECK_DEADLOCK FALSE
