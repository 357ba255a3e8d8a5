SPECIFICATION FairSpec
CONSTANTS
  Callers = {c1, c2}
  Keys = {k1, k2}
  Absent = Absent
  MaxFaults = 2
INVARIANTS
  TypeOK
  EntriesAreWhole
PROPERTIES
  EntriesStay
  ProvisioningResumes
