SPECIFICATION Spec
CONSTANTS
  Inputs = {"i", "j"}
  Outputs = {"o", "p"}
  K = 2
  Pairs <- AllPairs
INVARIANTS Lockstep RegionIsProduct StartIsGood
