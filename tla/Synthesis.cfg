SPECIFICATION FairSpec
CONSTANTS
  States = {"a", "b", "c", "d"}
  NonBool = {"b", "c", "d"}
  InBits = {0}
  OutBits = {1, 2}
  Inputs <- In
  Outputs <- Out
  Automata <- AutomataOfGames
  TopK = 3
  Kfrom = 3
  Kto = 3
  Solved <- Games
INVARIANTS TypeOK StrategyClosed NothingLost CircuitSafe RegionExact VectorReadable
PROPERTIES Termination
