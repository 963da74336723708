CONSTANTS
  Files <- MCFiles
  Labels <- MCLabels
  Lengths <- MCLengths
SPECIFICATION Spec
INVARIANTS TypeOK WarnedOrWritable SettledAtDetectionHead
PROPERTIES KindsOnlyRise PermissionIsKept HybridIsFinal
CHECK_DEADLOCK FALSE
