SPECIFICATION Spec
CONSTANTS
  a = a
  b = b
  Sessions <- MCSessions
  NoSession = none
  Budget = 3
SYMMETRY MCSym
INVARIANTS
  OwnTranscript
  FreeWhenQuiet
  RestIsTrue
  PostedOnce
CHECK_DEADLOCK FALSE
