CONSTANTS
  Names <- MCNames
  PartsOf <- MCPartsOf
  HardwareOf <- StillHardwareOf
  OtherDevs <- MCOtherDevs
  MountEntries <- LiveMountEntries
  InitMounts <- LiveInitMounts
  PathRank <- MCPathRank
  MountsUnreadable = FALSE
  MaxEvents = 0
  FileSystems <- MCFileSystems
  Images <- MCImages
  ImageSizes <- MCImageSizes
  Backing <- MCBacking
SPECIFICATION SessionSpec
INVARIANT RootDiskProtected
