CONSTANTS
  Variables <- MCVariables
  Strings <- MCStrings
  Numbers <- MCNumbers
  TypeNames <- MCTypeNames
  Memory <- MCMemory
  Returns <- MCReturns
  MayHave <- MCMayHave
  Considered <- WithPointers
SPECIFICATION Spec
INVARIANT EvaluatesAsC
