CONSTANTS
  Names <- MCNames
  PartsOf <- MCPartsOf
  HardwareOf <- StillHardwareOf
  OtherDevs <- MCOtherDevs
  MountEntries <- LatinMountEntries
  InitMounts <- LatinInitMounts
  PathRank <- MCPathRank
  MountsUnreadable = FALSE
  MaxEvents = 0
  FileSystems <- MCFileSystems
  Images <- MCImages
  ImageSizes <- MCImageSizes
  Backing <- MCBacking
SPECIFICATION SessionSpec
INVARIANT MountNamesAreBytes
