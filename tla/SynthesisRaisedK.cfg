SPECIFICATION Spec
CONSTANTS
  States = {"a", "b", "c", "d"}
  NonBool = {"b", "c", "d"}
  InBits = {0}
  OutBits = {1, 2}
  Inputs <- In
  Outputs <- Out
  Automata <- AutomataOfGames
  TopK = 3
  Kfrom = 1
  Kto = 3
  Solved <- Games
INVARIANTS CircuitSafe
