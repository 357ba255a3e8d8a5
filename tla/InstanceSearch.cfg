SPECIFICATION SearchSpec
CONSTANTS
  MaxText = 2
  MaxInstances = 2
  MaxCaptures = 2
  MaxLimit = 2
INVARIANTS
  RowsAreExact
