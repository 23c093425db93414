--------------------------- MODULE MC_StatsRuntime ---------------------------
(***************************************************************************)
(* Bounds for StatsRuntime: int is 3 bits (-4..3) and integer_t 5 bits    *)
(* (-16..15), so one increment past the largest int is reachable; two     *)
(* processors and two keys, so per-processor and per-key cells differ.   *)
(***************************************************************************)
EXTENDS StatsRuntime

CONSTANTS k1, k2

\* A STAT_INT with 'per-processor': False, a per-processor STAT_HASHTABLE
\* and a STAT_INT with the default 'per-processor': True.
ScalarInt == [kind |-> "int", perProc |-> FALSE, init |-> 2]
ProcHash  == [kind |-> "hashtable", perProc |-> TRUE, init |-> 1]
ProcInt   == [kind |-> "int", perProc |-> TRUE, init |-> 0]
\* A STAT_HASHTABLE with 'per-processor': False.
ScalarHash == [kind |-> "hashtable", perProc |-> FALSE, init |-> 0]
MCKeys    == {k1, k2}
MCProcs   == {0, 1}
\* 0 and the largest int.
MCSetVals == {0, 3}
MCNs      == {1, -1}
PassStats   == {ScalarInt, ProcHash, ScalarHash}
NoneMissing == {}
ProcIntOnly == {ProcInt}
\* The per-processor hashtable stat was added to the .def file after the
\* checkpoint was written.
ProcHashMissing == {ProcHash}
=============================================================================
