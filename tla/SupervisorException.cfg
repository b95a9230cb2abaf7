SPECIFICATION Spec
CONSTANTS
  MayThrow = TRUE
  MayDie = FALSE
  MaySignal = FALSE
INVARIANT VerdictCorrect
