CONSTANTS
  Inputs <- Ins
  Outputs <- Outs
  K = 2
  TopK = 5
  Automata <- ProductAutomata
  Unreal <- PushedAutomata
  Invariants <- SomeInvariants
SPECIFICATION FairSpec
INVARIANTS TypeOK ThresholdShape WinnerKept PlayDelayed ActionsComplete
PROPERTY Termination
