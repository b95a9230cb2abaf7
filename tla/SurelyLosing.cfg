CONSTANTS
  Inputs <- Ins
  Outputs <- Outs
  K = 2
  TopK = 5
  Automata <- ComparisonAutomata
  Unreal <- NoAutomata
  Invariants <- SomeInvariants
SPECIFICATION Spec
INVARIANT WinnerKept
