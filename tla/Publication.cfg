SPECIFICATION Spec
CONSTANTS
  Publishers = {p1}
  Readers = {r1}
  Ids = {i1, i2}
  Keys = {k1, k2}
  Tokens = {t1, t2}
  Artifacts = {a1, a2}
  Absent = Absent
  Torn = Torn
SYMMETRY Symmetry
INVARIANTS
  TypeOK
  CompletedIsWhole
  CandidateAgrees
  ReadersNeverFail
  FailureInvalidatesAtMost
PROPERTIES
  AbandonedNeverAdopted
  ImplementsHistory
