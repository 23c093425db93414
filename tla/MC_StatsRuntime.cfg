\* A scalar int stat, a per-processor and a scalar hashtable stat, with checkpoints
\* holding every attribute.
CONSTANTS
  k1 = k1
  k2 = k2
  Absent = Absent
  NoCheckpoint = NoCheckpoint
  Stats <- PassStats
  Procs <- MCProcs
  Keys <- MCKeys
  SetVals <- MCSetVals
  Ns <- MCNs
  Missing <- NoneMissing
  IntWidth = 3
  LongWidth = 5
  MaxOps = 3
SPECIFICATION Spec
INVARIANT TypeOK
INVARIANT StatsTrackCounts
