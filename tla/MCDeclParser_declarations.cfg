SPECIFICATION Spec
CONSTANTS
  a = a
  b = b
  Names <- MCNames
  Anonymous = "{"
  Alphabet <- DeclarationTexts
  MaxTokens = 9
  MayFollow <- AnyToken
SYMMETRY Symmetry
INVARIANTS
  TypeOK
  StackDiscipline
  SpeculationLeavesNoTrace
  TokenFollowsLexer
  ReadingsAgree
  VerdictAgrees
  ExternalsAreDeclared
PROPERTIES
  BlockStructured
  StepsDescend
