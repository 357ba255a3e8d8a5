SPECIFICATION FairSetupSpec
CONSTANTS
  Callers = {c1, c2}
  MaxInterrupts = 2
INVARIANTS
  IgnoredBeforeUse
PROPERTIES
  ConflictsRemain
  InitializationResumes
