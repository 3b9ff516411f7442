SPECIFICATION Spec
CONSTANTS
  v1 = v1
  v2 = v2
  Names <- OneName
  Anonymous = "{"
  CaseValues <- OneValue
  ForShapes <- FullForms
  MayBegin <- Switches
  MaxNodes = 6
  Considered <- Labelled
INVARIANTS
  ModuleVerifies
