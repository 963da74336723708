CONSTANTS
  Names <- MCNames
  PartsOf <- MCPartsOf
  HardwareOf <- MCHardwareOf
  OtherDevs <- MCOtherDevs
  MountEntries <- MCMountEntries
  InitMounts <- MCInitMounts
  PathRank <- MCPathRank
  MountsUnreadable = TRUE
  MaxEvents = 2
SPECIFICATION Spec
INVARIANT NeverListsPartition
