SPECIFICATION Spec
CONSTANTS
  Sources <- FloatTexts
  Code <- MCCode
  IntBits = 4
  LongBits = 6
  MaxSaved = 0
  Considered <- WithFloats
INVARIANTS
  TokensAgree
