SPECIFICATION FairSpec
CONSTANTS
  Formulas = {"f", "g", "h"}
  WorkerCount = 2
  IdHalf = 2
  Worlds <- WithGames
  CrashWorlds <- MayCrash
INVARIANTS TypeOK EachFormulaOnce AnnouncedOnce CountdownExact
PROPERTIES ImplementsConjunction AnswerComes
