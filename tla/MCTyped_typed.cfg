CONSTANTS
  Variables <- MCVariables
  Strings <- MCStrings
  Numbers <- MCNumbers
  TypeNames <- MCTypeNames
  Memory <- MCMemory
  Returns <- MCReturns
  MayHave <- MCMayHave
  Considered <- MCConsidered
SPECIFICATION Spec
INVARIANTS TypeOK OperandsFit EvaluatesAsC RejectsOnlyErrors FoldsAsRun
