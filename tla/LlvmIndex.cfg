SPECIFICATION ScanSpec
CONSTANTS
  Items <- MCItems
  MaxItems = 2
  HeaderLimit = 20
INVARIANTS
  HeadersAreBounded
  IndexIsExact
  CutIsNoticed
