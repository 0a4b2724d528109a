CHECK_DEADLOCK FALSE
SPECIFICATION Spec
CONSTANTS
  Name <- Six
  NoName = NoName
  Base <- Stars
  Child <- Children
  Proposals <- Plans
  MaxKids = 1
  Attempts = 3
  Limits <- TwoOrFour
INVARIANTS
  TypeOK
  AcceptedPlanRuns
  WavesAreRounds
