CONSTANTS
  Values <- MCValues
  Schemas <- MCSchemas
SPECIFICATION Spec
INVARIANT TypeOK
INVARIANT GreedySound
PROPERTY MatchTerminates
\* A match call returns: its final state has no successor.
CHECK_DEADLOCK FALSE
