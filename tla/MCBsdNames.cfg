CONSTANT Labels <- MCLabels
SPECIFICATION Spec
INVARIANTS TypeOK AtCharBoundary FlavorIsRight
PROPERTIES EveryRoundCounts NameIsDecided
CHECK_DEADLOCK FALSE
