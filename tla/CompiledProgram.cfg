SPECIFICATION Spec
CONSTANTS
  Layouts <- Table
  Programs <- AllPrograms
  MaxInputs = 3
VIEW Seen
INVARIANTS
  TypeOK
  OutputAsMeant
  ScopesReleased
  StatementsBalanced
  RootsExact
  PositionsTrue
  NeverRunsOff
  WarningIsTrue
