\* The same documents: a number that is written -0.
CONSTANTS
  Leaves <- MCLeaves
  Keys <- MCKeys
  CodePoints <- MCCodePoints
  Nfc <- MCNfc
  ArrayIndex <- MCArrayIndex
  Replacement = "REPLACEMENT"
  MaxSafeInteger = 2
  Considered <- MCConsidered
SPECIFICATION Spec
INVARIANTS NoSilentNumberDisagreement
CHECK_DEADLOCK FALSE
