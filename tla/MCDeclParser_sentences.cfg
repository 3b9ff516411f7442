SPECIFICATION FairSpec
CONSTANTS
  a = a
  b = b
  Names <- MCNames
  Anonymous = "{"
  Alphabet <- AllNamesTexts
  MaxTokens = 100
  MayFollow <- InSentenceOrShort
INVARIANTS
  StackDiscipline
  SpeculationLeavesNoTrace
PROPERTIES
  BlockStructured
  Terminates
