SPECIFICATION FairSpec
CONSTANTS
  States = {"a", "b", "c"}
  NonBool = {"b", "c"}
  Inputs = {"i", "j"}
  Outputs = {"o", "p"}
  Automata <- OneBoolean
  TopK = 2
  EltHalf = 3
  Kfrom = 1
  Kto = 2
  Kinc = 1
  Pickers <- AllPickers
INVARIANTS TypeOK MatchesReference
PROPERTIES ImplementsSolver Termination
