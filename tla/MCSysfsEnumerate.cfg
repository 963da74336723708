CONSTANTS
  Names <- MCNames
  PartsOf <- MCPartsOf
  HardwareOf <- MCHardwareOf
  OtherDevs <- MCOtherDevs
  MountEntries <- MCMountEntries
  InitMounts <- MCInitMounts
  PathRank <- MCPathRank
  MountsUnreadable = TRUE
  MaxEvents = 3
SPECIFICATION Spec
INVARIANTS TypeOK Faithful ScanComplete
PROPERTY ImplementsCensus
