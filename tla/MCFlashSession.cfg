CONSTANTS
  Names <- MCNames
  PartsOf <- MCPartsOf
  HardwareOf <- MCHardwareOf
  OtherDevs <- MCOtherDevs
  MountEntries <- MCMountEntries
  InitMounts <- MCInitMounts
  PathRank <- MCPathRank
  MountsUnreadable = TRUE
  MaxEvents = 2
  FileSystems <- MCFileSystems
  Images <- MCImages
  ImageSizes <- MCImageSizes
  Backing <- MCBacking
SPECIFICATION SessionSpec
INVARIANTS SessionTypeOK OkIsSound SourceNeverMasked RefusalHasGrounds VerdictWasTrue ForceBuysSystemOnly
