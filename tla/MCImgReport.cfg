CONSTANTS
  MaxFacts = 3
  MaxFiles = 18
SPECIFICATION Spec
INVARIANTS TypeOK Fat32Fits Fat32Offered SupportedIfBootable WindowsAgrees
PROPERTIES Fat32StaysOut PersistenceOnlyLostToSystems
CHECK_DEADLOCK FALSE
