SPECIFICATION Spec
CONSTANTS
  UnitCount = 2
  InstanceCount = 2
  Files = {f1, f2}
  TextLength = 2
  Ends = {1, 3}
  Builds <- MCBuilds
  MaxFaults = 2
SYMMETRY Symmetry
INVARIANTS
  AcceptedSourcesAreExact
  AcceptedModulesAreExact
  OnlyFaultsRefuse
