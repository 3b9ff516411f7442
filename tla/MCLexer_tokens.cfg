SPECIFICATION Spec
CONSTANTS
  Sources <- AllTexts
  Code <- MCCode
  IntBits = 4
  LongBits = 6
  MaxSaved = 1
  Considered <- Plain
INVARIANTS
  TypeOK
  TokensAgree
  PositionsAgree
  LiteralsAgree
  ReportsAreErrors
