SPECIFICATION Spec
CONSTANTS
  a = a  b = b
  Inputs <- AllInputs
  Sequence <- Sequences
  Strings <- TwoStrings
  LengthLimit = 3
  NoInput = NoInput
INVARIANTS TypeOK TreeIsPruned CountsAreExact ChangesAreFlagged AnswersAreRight
PROPERTIES ExclusionSpec
