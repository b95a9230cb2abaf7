SPECIFICATION Spec
CONSTANTS
  Formulas = {"f", "g"}
  WorkerCount = 2
  IdHalf = 128
  CrashWorlds = {}
  Worlds <- OnlyInvariants
INVARIANTS VerdictExact
