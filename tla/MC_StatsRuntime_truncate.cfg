\* A per-processor int stat saved in a checkpoint and restored.
CONSTANTS
  k1 = k1
  k2 = k2
  Absent = Absent
  NoCheckpoint = NoCheckpoint
  Stats <- ProcIntOnly
  Procs <- MCProcs
  Keys <- MCKeys
  SetVals <- MCSetVals
  Ns <- MCNs
  Missing <- NoneMissing
  IntWidth = 3
  LongWidth = 5
  MaxOps = 3
SPECIFICATION Spec
INVARIANT StatsTrackCounts
