\* A prepared build ends once it has returned.
CHECK_DEADLOCK FALSE
SPECIFICATION FairSpec
CONSTANTS
  Selected = selected
  Dependencies = {d1, d2}
  MaxFaults = 2
INVARIANTS
  AnswersAreConfirmed
  RecordedIsAnalysed
  DiagnosticsAreRelayed
PROPERTIES
  ImplementsPreparedBuild
  Returns
