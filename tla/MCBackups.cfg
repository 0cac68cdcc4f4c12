SPECIFICATION Spec
CONSTANTS
  a1 = a1  Full = Full
  Apps = {a1}
  Providers = {"filesystem", "caas"}
  MaxBackups = 4
  MaxEvents = 1
CHECK_DEADLOCK FALSE
INVARIANTS TypeOK DependenciesKept DependenciesApart
