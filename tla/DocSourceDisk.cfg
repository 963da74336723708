CONSTANTS
  Names <- MCNames
  PartsOf <- MCPartsOf
  HardwareOf <- StillHardwareOf
  OtherDevs <- MCOtherDevs
  MountEntries <- CryptMountEntries
  InitMounts <- CryptInitMounts
  PathRank <- MCPathRank
  MountsUnreadable = FALSE
  MaxEvents = 0
  FileSystems <- MCFileSystems
  Images <- MCImages
  ImageSizes <- MCImageSizes
  Backing <- MCBacking
SPECIFICATION SessionSpec
INVARIANT SourceDiskRefused
