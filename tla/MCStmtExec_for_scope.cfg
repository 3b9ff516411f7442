SPECIFICATION Spec
CONSTANTS
  v1 = v1
  v2 = v2
  Names <- OneName
  Anonymous = "{"
  CaseValues <- OneValue
  ForShapes <- FullForms
  MayBegin <- Headers
  MaxNodes = 5
  Considered <- Every
INVARIANTS
  ScopesAgree
