\* One program thread running PYRITE_experimentSetup, then making two
\* requests in a row: the stores of the
\* request function and the reads of the simulator's switch branch.
CONSTANTS
  t1 = t1
  t2 = t2
  v1 = v1
  v2 = v2
  Main = t1
  RegRequest <- MCRegRequest
  Threads <- OneThread
  Requests <- MCRequests
  Vals <- MCVals
  MaxCalls = 2
  MaxRestores = 1
  NoCheckpoint = NoCheckpoint
SPECIFICATION Spec
INVARIANT TypeOK
INVARIANT HandlerGetsCallerArgs
INVARIANT NoUnmappedRead
INVARIANT ChannelsRegistered
\* The program ends after its last request.
CHECK_DEADLOCK FALSE
