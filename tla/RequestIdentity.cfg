SPECIFICATION PrepareSpec
CONSTANTS
  FirstCalls <- OneChange
  SecondCalls <- TwoChanges
  Rank <- Letters
INVARIANTS
  KeyIsTheBuild
  OnlyTheDriverWraps
\* Calls end, and two are enough to compare.
CHECK_DEADLOCK FALSE
