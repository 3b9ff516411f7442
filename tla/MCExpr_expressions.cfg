SPECIFICATION FairSpec
CONSTANTS
  Texts <- Expressions
  Values <- SmallInts
  Considered <- Plain
INVARIANTS
  ReadsTheGrammar
  EvaluatesAsC
PROPERTIES
  Terminates
  StepsDescend
