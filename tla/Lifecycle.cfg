SPECIFICATION FairSpec
CONSTANTS
  Callers = {c1}
  Keys = {k1, k2}
  Configs = {a, b}
  None = None
  MaxTokens = 6
  MaxDisturbances = 2
INVARIANTS
  TypeOK
  EvidenceIsCurrent
  UnitsMatchEvidence
PROPERTIES
  PublishedNeverRecompiled
  CallsReturn
  ReuseResumes
