SPECIFICATION Spec
CONSTANTS
  Layouts <- Table
  Programs <- ShadowedPrograms
  MaxInputs = 3
VIEW Seen
INVARIANT NeverRunsOff
