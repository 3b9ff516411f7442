CONSTANTS
  Declared <- MCDeclared
  ElementTypes <- MCElementTypes
  MaxTokens = 11
  Chars <- MCChars
  StringAt = 180
  Considered <- MCConsidered
  ConsideredGlobal <- MCConsideredGlobal
SPECIFICATION Spec
INVARIANTS PlacesInOrder PlacesMatch VerdictAgrees LocalAsC GlobalAsC
CHECK_DEADLOCK FALSE
