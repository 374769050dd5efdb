SPECIFICATION Spec
CONSTANTS
  r1 = r1
  r2 = r2
  Ids = {r1, r2}
  NoRow = NoRow
  InitRows <- MCInitRows
  Budget <- MCBudget
SYMMETRY MCSym
CHECK_DEADLOCK FALSE
INVARIANTS
  QuietPageIsIdle
  InOrderIsCurrent
  OneWriteAtATime
  NewestLoadShown
  SecretIsOfLiveKey
