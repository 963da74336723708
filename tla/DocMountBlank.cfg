CONSTANT Paths <- MCPaths
SPECIFICATION Spec
INVARIANT EveryLabelSurvives
CHECK_DEADLOCK FALSE
