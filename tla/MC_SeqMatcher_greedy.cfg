CONSTANTS
  Values <- MCValues
  Schemas <- MCSchemas
SPECIFICATION Spec
INVARIANT GreedyComplete
CHECK_DEADLOCK FALSE
