SPECIFICATION Spec
CONSTANTS
  Limit = 3
  Sizes = {2, 3}
  MaxForeign = 4
  MaxChanges = 0
  Width = 2
  Lengths = {2, 3}
  CopyBuffer = 2
  TailCapacity = 2
  MaxRows = 1
  MaxBodies = 1
INVARIANTS
  SuccessIsShown
\* A command ends when its process does.
CHECK_DEADLOCK FALSE
