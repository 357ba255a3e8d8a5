SPECIFICATION Spec
CONSTANTS
  Limit = 3
  Sizes = {2, 3}
  MaxForeign = 4
  MaxChanges = 1
  Width = 2
  Lengths = {2, 3}
  CopyBuffer = 2
  TailCapacity = 2
  MaxRows = 2
  MaxBodies = 2
INVARIANTS
  BudgetsAgree
  OutputIsPrefix
  ResultIsTrue
  RangesAreExact
PROPERTIES
  AcceptsOnlyWholeRecords
\* A command ends when its process does.
CHECK_DEADLOCK FALSE
