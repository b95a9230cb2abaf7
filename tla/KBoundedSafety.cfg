SPECIFICATION FairSpec
CONSTANTS
  States = {"a", "b"}
  NonBool = {"a", "b"}
  Inputs = {"i", "j"}
  Outputs = {"o", "p"}
  Automata <- TwoCounters
  TopK = 2
  EltHalf = 3
  Kfrom = 1
  Kto = 2
  Kinc = 1
INVARIANTS TypeOK Complete VerdictExact RegionControlled
PROPERTIES Termination
