--------------------------- MODULE MC_SimReqChannel ---------------------------
(***************************************************************************)
(* Bounds for SimReqChannel: every shape of request generateSimRequest     *)
(* accepts (0 to 3 arguments, the first argument in a register or not),   *)
(* two distinct argument values so that a stale or foreign value shows.   *)
(***************************************************************************)
EXTENDS SimReqChannel

CONSTANTS t1, t2, v1, v2

MCRequests ==
  { [nargs |-> 0, viaReg |-> FALSE],
    [nargs |-> 1, viaReg |-> FALSE], [nargs |-> 1, viaReg |-> TRUE],
    [nargs |-> 2, viaReg |-> FALSE], [nargs |-> 2, viaReg |-> TRUE],
    [nargs |-> 3, viaReg |-> FALSE], [nargs |-> 3, viaReg |-> TRUE] }
\* PYRITE_generateRegisterChannelData<i>SimRequest(void* addr): the one
\* argument travels in %ecx, which the switch reads without a channel address.
MCRegRequest == [nargs |-> 1, viaReg |-> TRUE]
MCVals == {v1, v2}
OneThread  == {t1}
TwoThreads == {t1, t2}
=============================================================================
