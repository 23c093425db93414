\* A restart from a checkpoint written before the per-processor hashtable
\* stat existed: its attribute is absent from the checkpoint.
CONSTANTS
  k1 = k1
  k2 = k2
  Absent = Absent
  NoCheckpoint = NoCheckpoint
  Stats <- PassStats
  Procs <- MCProcs
  Keys <- MCKeys
  SetVals <- MCSetVals
  Ns <- MCNs
  Missing <- ProcHashMissing
  IntWidth = 3
  LongWidth = 5
  MaxOps = 3
SPECIFICATION Spec
INVARIANT StatsAllocated
