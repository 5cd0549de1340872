\* Every edit of a document of at most two keys or members, nested once.
CONSTANTS
  Leaves <- MCLeaves
  Keys <- MCKeys
  CodePoints <- MCCodePoints
  Nfc <- MCNfc
  ArrayIndex <- MCArrayIndex
  Replacement = "REPLACEMENT"
  MaxSafeInteger = 2
  Considered <- MCConsidered
SPECIFICATION Spec
INVARIANTS VerdictIsTheProfile LanguagesAgree DigestsIdentify
CHECK_DEADLOCK FALSE
