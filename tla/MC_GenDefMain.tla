---------------------------- MODULE MC_GenDefMain ----------------------------
(* A catalogue of .def files: a well-formed file of each defType, and one  *)
(* file for each way main() or a generator can stop.                       *)
EXTENDS GenDefMain

Global(dt) == DictV("global" :> BoolV(TRUE) @@ "defType" :> StrV(dt))
Other(k)   == DictV("kind" :> StrV(k) @@ "name" :> StrV("other"))

IntStat(n, iv) == DictV("kind" :> StrV("STAT_INT") @@ "name" :> StrV(n) @@ "initialValue" :> iv)
Histogram(n)   == DictV("kind" :> StrV("STAT_HISTOGRAM") @@ "name" :> StrV(n)
                          @@ "buckets" :> IntV(4) @@ "start" :> IntV(0) @@ "step" :> IntV(1))
HashStat(n)    == DictV("kind" :> StrV("STAT_HASHTABLE") @@ "name" :> StrV(n)
                          @@ "initialValue" :> IntV(0) @@ "per-processor" :> BoolV(FALSE))

Arg(t) == TupleV(<<StrV(t), StrV("arg")>>)
SimReq(n, ret, args, viaReg) ==
  DictV("kind" :> StrV("SIM_REQUEST") @@ "name" :> StrV(n) @@ "returnType" :> StrV(ret)
          @@ "arguments" :> ListV(args) @@ "passFirstArgViaRegister" :> BoolV(viaReg))

BoolParam(n, ro) == DictV("kind" :> StrV("PARAM_BOOL") @@ "name" :> StrV(n)
                            @@ "initialValue" :> BoolV(TRUE) @@ "readOnly" :> BoolV(ro))
IntParam(n)      == DictV("kind" :> StrV("PARAM_INT") @@ "name" :> StrV(n) @@ "initialValue" :> IntV(1))
StringParam(n)   == DictV("kind" :> StrV("PARAM_STRING") @@ "name" :> StrV(n) @@ "initialValue" :> StrV("s"))
EnumParam(n)     == DictV("kind" :> StrV("PARAM_ENUM") @@ "name" :> StrV(n) @@ "initialValue" :> StrV("A")
                            @@ "possibleValues" :> ListV(<<StrV("A"), StrV("B")>>))

Debug(n, sc) == DictV("kind" :> StrV("DEBUG_CATEGORY") @@ "name" :> StrV(n)
                        @@ "shortcut" :> StrV(sc) @@ "color" :> StrV("RED"))

GoodStat   == <<Global("Stat"), IntStat("hits", IntV(0)), Histogram("lat"), HashStat("map")>>
GoodSimReq == <<SimReq("PYRITE_GET", "int", <<Arg("int")>>, FALSE), Global("SimulatorRequest"), Other("NOTE"),
                SimReq("PYRITE_PUT", "void", <<Arg("int*"), Arg("int")>>, TRUE)>>
GoodDebug  == <<Global("DebugCategory"), Debug("DEBUG_A", "a"), Debug("DEBUG_B", "b")>>

MCDefFiles == {
  <<>>,
  <<IntStat("hits", IntV(0))>>,
  <<Global("Bogus")>>,
  GoodStat, GoodSimReq, GoodDebug,
  <<Global("Stat"), IntStat("hits", IntV(0))>>,
  <<Global("Stat"), Histogram("lat"), Other("STAT_FOO")>>,
  <<Global("Stat"), IntStat("neg", IntV(-1))>>,
  <<Global("Stat"), IntStat("bad", StrV("0"))>>,
  <<Global("SimulatorRequest"), SimReq("GET", "int", <<>>, FALSE)>>,
  <<Global("SimulatorRequest"), SimReq("PYRITE_GET", "long", <<>>, FALSE)>>,
  <<Global("SimulatorRequest"), SimReq("PYRITE_GET", "int", <<Arg("int"), Arg("int"), Arg("int"), Arg("int")>>, FALSE)>>,
  <<Global("SimulatorRequest"), SimReq("PYRITE_GET", "int", <<Arg("void")>>, FALSE)>>,
  <<Global("SimulatorRequest"), SimReq("PYRITE_GET", "int", <<>>, TRUE)>>,
  <<Global("Param"), BoolParam("on", FALSE), IntParam("n"), StringParam("s")>>,
  <<Global("Param"), EnumParam("mode")>>,
  <<Global("Param"), BoolParam("on", TRUE)>>,
  <<Global("Param"), Other("PARAM_FOO")>>,
  <<Global("DebugCategory"), Debug("DEBUG_A", "a"), Debug("DEBUG_B", "a")>>,
  <<Global("DebugCategory"), Debug("DEBUG_A", "ab")>>
}
\* A Param file of every record kind but PARAM_ENUM.
NoEnumParamFiles == {<<Global("Param"), BoolParam("on", FALSE), IntParam("n"), StringParam("s")>>}

\* A Stat file of counters only.
CounterStatFiles == {<<Global("Stat"), IntStat("hits", IntV(0)), HashStat("map")>>}

\* A simulator-request file holding a record of a kind it does not know.
=============================================================================
