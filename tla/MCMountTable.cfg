CONSTANT Paths <- MCPaths
SPECIFICATION Spec
INVARIANTS TypeOK NeverOutOfStep RoundTrip
CHECK_DEADLOCK FALSE
