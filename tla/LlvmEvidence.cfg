SPECIFICATION Spec
CONSTANTS
  ModuleCount = 2
  RawSymbol = raw
  OtherSymbols = {s1, s2}
SYMMETRY Symmetry
INVARIANTS
  AnswerIsExact
