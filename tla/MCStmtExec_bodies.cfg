SPECIFICATION Spec
CONSTANTS
  v1 = v1
  v2 = v2
  Names <- OneName
  Anonymous = "{"
  CaseValues <- TwoValues
  ForShapes <- SomeForms
  MayBegin <- LoopsAndSwitches
  MaxNodes = 7
  Considered <- Plain
INVARIANTS
  TargetsAreInnermost
  ScopesMatch
  NamesAreLexical
PROPERTIES
  RunsAsWritten
