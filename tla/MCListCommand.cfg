CONSTANTS
  Names <- MCNames
  PartsOf <- MCPartsOf
  HardwareOf <- MCHardwareOf
  OtherDevs <- MCOtherDevs
  MountEntries <- MCMountEntries
  InitMounts <- MCInitMounts
  PathRank <- MCPathRank
  MountsUnreadable = TRUE
  MaxEvents = 2
  Commands <- MCCommands
SPECIFICATION ListSpec
INVARIANTS ListTypeOK ScreenTellsListing DefaultIsHarmless SizeAccurate SizesInOrder
PROPERTIES EveryStepCounts CallReturns ListEnds
CHECK_DEADLOCK FALSE
