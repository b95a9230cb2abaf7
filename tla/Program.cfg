SPECIFICATION ProgramSpec
CONSTANTS
  MayThrow = TRUE
  MayDie = TRUE
  MaySignal = TRUE
  Formulas <- F
  UMax = 31
  EltHalf = 12
  Worlds <- CommandLines
INVARIANTS ProgramTypeOK VerdictAboutInput OptionsChecked OutputComplete UnknownJustified DrainStops
PROPERTIES Termination
