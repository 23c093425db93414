\* Two program threads, one request each, sharing the global channel.
CONSTANTS
  t1 = t1
  t2 = t2
  v1 = v1
  v2 = v2
  Main = t1
  RegRequest <- MCRegRequest
  Threads <- TwoThreads
  Requests <- MCRequests
  Vals <- MCVals
  MaxCalls = 1
  MaxRestores = 1
  NoCheckpoint = NoCheckpoint
SPECIFICATION Spec
INVARIANT HandlerGetsCallerArgs
\* The program ends after its last request.
CHECK_DEADLOCK FALSE
