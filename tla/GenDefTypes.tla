----------------------------- MODULE GenDefTypes -----------------------------
(***************************************************************************)
(* Every type-expression src/gendef.py declares: the schema of each kind  *)
(* of .def record its generators accept, the schemas main() checks the    *)
(* generated dictionaries against, and the sequence schemas of stringify  *)
(* and of the .def list.  A Python dict {k: t, Optional(k2): t2} is        *)
(* Mapping(k :> t @@ k2 :> t2, {k2}).                                      *)
(***************************************************************************)
EXTENDS TypeExpr, TLC

str  == Base("str")
int  == Base("int")
bool == Base("bool")

\* stringify: a list of one or more strings.
StringListType == ListSchema(<<OneOrMore(str)>>)
\* main: the evaluated .def file is a list of one or more dicts.
DefListType == ListSchema(<<OneOrMore(Base("dict"))>>)
\* generateSimRequest 'arguments': any number of (type, name) pairs.
ArgumentsType == ListSchema(<<ZeroOrMore(TupleSchema(<<str, str>>))>>)
\* generateEnumParam 'possibleValues'.
PossibleValuesType == ListSchema(<<OneOrMore(str)>>)

(* --------------------- input records, one per kind ---------------------- *)
HistogramType == Strict(Mapping(
  "kind" :> str @@ "name" :> str @@ "buckets" :> int @@ "start" :> int
    @@ "step" :> int @@ "allowOverflow" :> bool, {"allowOverflow"}))

HashtableStatType == Strict(Mapping(
  "kind" :> str @@ "name" :> str @@ "initialValue" :> int
    @@ "per-processor" :> bool @@ "printHexKey" :> bool,
  {"per-processor", "printHexKey"}))

IntStatType == Strict(Mapping(
  "kind" :> str @@ "name" :> str @@ "initialValue" :> int
    @@ "per-processor" :> bool, {"per-processor"}))

SimRequestType == Strict(Mapping(
  "kind" :> str @@ "name" :> str @@ "returnType" :> str
    @@ "arguments" :> ArgumentsType
    @@ "passFirstArgViaRegister" :> bool @@ "returnWhichArg" :> bool
    @@ "needsProcessorNumber" :> bool @@ "sanityCheck" :> bool,
  {"passFirstArgViaRegister", "returnWhichArg", "needsProcessorNumber", "sanityCheck"}))

\* generateBoolParam, generateIntParam, generateStringParam: the type of the
\* initial value differs.
ScalarParamType(T) == Strict(Mapping(
  "kind" :> str @@ "name" :> str @@ "initialValue" :> T @@ "readOnly" :> bool,
  {"readOnly"}))
BoolParamType   == ScalarParamType(bool)
IntParamType    == ScalarParamType(int)
StringParamType == ScalarParamType(str)

EnumParamType == Strict(Mapping(
  "kind" :> str @@ "name" :> str @@ "initialValue" :> str
    @@ "possibleValues" :> PossibleValuesType @@ "readOnly" :> bool,
  {"readOnly"}))

DebugCategoryType == Strict(Mapping(
  "kind" :> str @@ "name" :> str @@ "shortcut" :> str @@ "color" :> str, {}))

(* ------------------ generated dictionaries main() checks ----------------- *)
IntStatOutType == Strict(Mapping(
  "stat_method" :> StringListType @@ "stat_member" :> str @@ "stat_dump" :> str
    @@ "stat_init" :> str @@ "stat_clear" :> str @@ "stat_wrapper" :> str
    @@ "stat_attribute" :> str, {}))

ParamOutType == Strict(Mapping(
  "param_method" :> StringListType @@ "param_member" :> str @@ "param_dump" :> str
    @@ "param_init" :> str @@ "param_wrapper" :> str @@ "param_attribute" :> str
    @@ "param_python_code" :> str @@ "param_preamble" :> str,
  {"param_python_code", "param_preamble"}))

DebugOutType == Strict(Mapping(
  "debug_enum_member" :> str @@ "debug_color_ifelse" :> str
    @@ "debug_shortcut" :> str @@ "debug_help" :> str, {}))
=============================================================================
