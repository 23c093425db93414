----------------------------- MODULE GenDefMain -----------------------------
(***************************************************************************)
(* gendef.py main(): one .def file (a Python list of dicts) turned into   *)
(* the source files of its defType.  The file is parsed and checked, the  *)
(* 'global' record picks the defType and its templates, each remaining    *)
(* record is handed to the generator of its kind and the result appended  *)
(* to Defs, then every template is expanded from the Defs entries and the *)
(* fixed replacements and written out.                                     *)
(*                                                                         *)
(* Generated code is abstracted to what main() and the templates use: the *)
(* set of keys of each generated dict, the type of each value, and the    *)
(* name of the record it came from.  Output text, warnings and path       *)
(* handling are left out.                                                  *)
(***************************************************************************)
EXTENDS GenDefTypes, SequencesExt

CONSTANTS DefFiles          \* the evaluated .def files, lists of DictV records

VARIABLES
  input,        \* the file as evaluated: never changes
  deps,         \* the --deps option
  pc,           \* where main() is
  listOfDicts,         \* listOfDicts: the records not yet generated
  defType,      \* the defType of the 'global' record, "none" before
  Defs,         \* the generated dictionaries, in order
  numSimReqs,   \* NUM_SIMULATOR_REQUESTS
  shortcuts,    \* DEBUG_CATEGORY_SHORTCUTS
  todo,         \* the templates not yet expanded
  files,        \* what each output file holds
  outcome       \* "running", "ok", or how main() stopped

vars == <<input, deps, pc, listOfDicts, defType, Defs, numSimReqs, shortcuts, todo, files, outcome>>

(* ------------------------------- values --------------------------------- *)
StrV(t)  == [kind |-> "scalar", type |-> "str", text |-> t]
IntV(n)  == [kind |-> "scalar", type |-> "int", val |-> n]
BoolV(b) == [kind |-> "scalar", type |-> "bool", val |-> b]

Has(d, k)  == k \in DOMAIN d.map
Text(d, k) == d.map[k].text
\* 'k' in d and d[k]
Flag(d, k) == Has(d, k) /\ d.map[k].val

\* A generated dict: every key holds code naming the record; listKeys hold
\* a list of code strings.
GenDict(keys, listKeys, name) ==
  DictV([k \in keys |-> IF k \in listKeys THEN ListV(<<StrV(name)>>) ELSE StrV(name)])

Result(status, def) == [status |-> status, def |-> def]
Fail(status) == Result(status, NoneV)

(* ------------------------------ generators ------------------------------ *)
StatKeys      == {"stat_method", "stat_member", "stat_dump", "stat_init",
                  "stat_clear", "stat_wrapper", "stat_attribute"}
HistogramKeys == {"histogram_global", "histogram_decl", "create_histogram",
                  "histogram_init", "histogram_dump"}
SimReqKeys    == {"simreq_enum_member", "simreq_lut_entry", "simreq_function_cilnoremove",
                  "simreq_function_prototype", "simreq_function",
                  "simreq_handler_prototype", "simreq_branch"}
ParamKeys     == {"param_method", "param_dump", "param_member", "param_init",
                  "param_wrapper", "param_attribute"}
DebugKeys     == {"debug_enum_member", "debug_color_ifelse", "debug_shortcut", "debug_help"}

GenerateHistogram(d) ==
  IF Match(d, HistogramType)
    THEN Result("ok", GenDict(HistogramKeys, HistogramKeys, Text(d, "name")))
    ELSE Fail("typeError")

GenerateHashtableStat(d) ==
  CASE ~Match(d, HashtableStatType)    -> Fail("typeError")
    [] d.map["initialValue"].val < 0   -> Fail("assert")
    [] OTHER -> Result("ok", GenDict(StatKeys, {"stat_method"}, Text(d, "name")))

GenerateIntStat(d) ==
  CASE ~Match(d, IntStatType)          -> Fail("typeError")
    [] d.map["initialValue"].val < 0   -> Fail("assert")
    [] OTHER -> Result("ok", GenDict(StatKeys, {"stat_method"}, Text(d, "name")))

NumChannels      == 3       \* SIMULATOR_REQUEST_NUM_CHANNELS
AllowedUserTypes == {"void", "int", "int*", "void*"}
Prefix7(s) == IF Len(s) >= 7 THEN SubSeq(s, 1, 7) ELSE s

\* The checks in the order the code makes them; the (type, name) pairs
\* come from the record's 'arguments'.
GenerateSimRequest(d) ==
  LET args == d.map["arguments"].elems
      BadArg(a) == a.elems[1].text \notin AllowedUserTypes \/ a.elems[1].text = "void"
  IN CASE ~Match(d, SimRequestType)                      -> Fail("typeError")
       [] Prefix7(Text(d, "name")) # "PYRITE_"           -> Fail("exit")
       [] Text(d, "returnType") \notin AllowedUserTypes  -> Fail("exit")
       [] Len(args) > NumChannels                        -> Fail("assert")
       [] \E n \in DOMAIN args : BadArg(args[n])         -> Fail("exit")
       \* arguments[0][1] of an empty argument list
       [] Flag(d, "passFirstArgViaRegister") /\ args = <<>> -> Fail("crash")
       [] OTHER -> Result("ok", GenDict(SimReqKeys, {}, Text(d, "name")))

\* The param generators differ in the record type they accept; each calls
\* simicsAttributeWrapper, which asserts that a setter is generated, so a
\* readOnly param fails that assertion.
GenerateParam(d, T, keys, listKeys) ==
  CASE ~Match(d, T)           -> Fail("typeError")
    [] Flag(d, "readOnly")    -> Fail("assert")
    [] OTHER -> Result("ok", GenDict(keys, listKeys, Text(d, "name")))

GenerateBoolParam(d)   == GenerateParam(d, BoolParamType, ParamKeys, {"param_method"})
GenerateIntParam(d)    == GenerateParam(d, IntParamType, ParamKeys, {"param_method"})
GenerateStringParam(d) == GenerateParam(d, StringParamType, ParamKeys, {"param_method"})
GenerateEnumParam(d)   ==
  GenerateParam(d, EnumParamType, ParamKeys \cup {"param_preamble", "param_python_code"},
                {"param_method", "param_python_code"})

GenerateDebugCategory(d, used) ==
  CASE ~Match(d, DebugCategoryType)     -> Fail("typeError")
    [] Len(Text(d, "shortcut")) # 1     -> Fail("exit")
    [] Text(d, "shortcut") \in used     -> Fail("assert")
    [] OTHER -> Result("ok", GenDict(DebugKeys, {}, Text(d, "name")))

\* main()'s dispatch on d['kind'] for the file's defType.  "skip": main()
\* ignores the record; an unknown Stat or Param kind yields None.
Produce(d, dt, used) ==
  LET k == Text(d, "kind") IN
  CASE dt = "Stat" ->
         (CASE k = "STAT_INT"       -> GenerateIntStat(d)
            [] k = "STAT_HISTOGRAM" -> GenerateHistogram(d)
            [] k = "STAT_HASHTABLE" -> GenerateHashtableStat(d)
            [] OTHER                -> Result("ok", NoneV))
    [] dt = "SimulatorRequest" ->
         IF k = "SIM_REQUEST" THEN GenerateSimRequest(d) ELSE Fail("skip")
    [] dt = "Param" ->
         (CASE k = "PARAM_BOOL"   -> GenerateBoolParam(d)
            [] k = "PARAM_INT"    -> GenerateIntParam(d)
            [] k = "PARAM_ENUM"   -> GenerateEnumParam(d)
            [] k = "PARAM_STRING" -> GenerateStringParam(d)
            [] OTHER              -> Result("ok", NoneV))
    [] dt = "DebugCategory" ->
         IF k = "DEBUG_CATEGORY" THEN GenerateDebugCategory(d, used) ELSE Fail("skip")

\* The schema main() checks the generated dict against, where it checks one:
\* STAT_INT results, every Param result, DEBUG_CATEGORY results.
Unchecked == [kind |-> "unchecked"]
OutType(d, dt) ==
  CASE dt = "Stat" /\ Text(d, "kind") = "STAT_INT"             -> IntStatOutType
    [] dt = "Param"                                           -> ParamOutType
    [] dt = "DebugCategory" /\ Text(d, "kind") = "DEBUG_CATEGORY" -> DebugOutType
    [] OTHER -> Unchecked

Generator(d, dt, used) ==
  LET r == Produce(d, dt, used) IN
  IF r.status = "ok" /\ OutType(d, dt) # Unchecked /\ ~Match(r.def, OutType(d, dt))
    THEN Fail("typeError") ELSE r

(* ------------------------------ templates ------------------------------- *)
\* Each template by the file it writes, and the %%TOKEN%%s its text holds.
StatTemplates  == <<"stat.cpp", "stat.h", "stat_wrappers.inc", "stat_attributes.inc">>
SimReqTemplates == <<"simreq.c", "simreq.h", "simreq_types.h", "simreq_handlers.h",
                     "simreq_lut.cpp", "simreq_switch.inc", "simreq_channel_wrappers.inc",
                     "simreq_channel_attributes.inc">>
ParamTemplates == <<"param.cpp", "param.h", "param_wrappers.inc", "param_attributes.inc",
                    "param_dump.inc", "param.py">>
DebugTemplates == <<"debug_enum.inc", "debug_shortcuts.inc", "debug_help.inc", "debug_colors.inc">>

W == "AUTO_GENERATED_WARNING"
Tokens ==
     "stat.cpp" :> {W, "FILE_ROOT", "STATS_CLASS", "STATS_GLOBAL", "histogram_global",
                    "create_histogram", "stat_dump", "histogram_dump"}
  @@ "stat.h" :> {W, "HEADER_PROTECTION", "STATS_CLASS", "STATS_GLOBAL", "stat_member",
                  "stat_method", "stat_init", "histogram_init", "stat_clear", "histogram_decl"}
  @@ "stat_wrappers.inc" :> {W, "stat_wrapper"}
  @@ "stat_attributes.inc" :> {W, "stat_attribute"}
  @@ "simreq.c" :> {W, "FILE_ROOT", "SIMULATOR_REQUEST_CHANNEL_TYPE", "SIMULATOR_REQUEST_CHANNEL_GLOBAL"}
  @@ "simreq.h" :> {W, "HEADER_PROTECTION", "FILE_ROOT", "SIMULATOR_REQUEST_CHANNEL_TYPE",
                    "SIMULATOR_REQUEST_CHANNEL_GLOBAL", "simreq_function",
                    "simreq_function_cilnoremove", "USING_SIMICS_DEF", "init_channel",
                    "register_channel_with_simulator"}
  @@ "simreq_types.h" :> {W, "HEADER_PROTECTION", "simreq_enum_member", "FILE_ROOT",
                          "SIMULATOR_REQUEST_CHANNEL_TYPE"}
  @@ "simreq_handlers.h" :> {W, "HEADER_PROTECTION", "FILE_ROOT", "simreq_handler_prototype"}
  @@ "simreq_lut.cpp" :> {W, "FILE_ROOT", "simreq_lut_entry", "NUM_SIMULATOR_REQUESTS"}
  @@ "simreq_switch.inc" :> {W, "simreq_branch"}
  @@ "simreq_channel_wrappers.inc" :> {W, "channel_accessors"}
  @@ "simreq_channel_attributes.inc" :> {W, "register_channel_with_simics"}
  @@ "param.cpp" :> {W, "FILE_ROOT", "PARAM_CLASS", "PARAM_GLOBAL"}
  @@ "param.h" :> {W, "HEADER_PROTECTION", "param_preamble", "PARAM_CLASS", "param_member",
                   "param_init", "param_method", "PARAM_GLOBAL"}
  @@ "param_wrappers.inc" :> {W, "param_wrapper"}
  @@ "param_attributes.inc" :> {W, "param_attribute"}
  @@ "param_dump.inc" :> {W, "param_dump"}
  @@ "param.py" :> {W, "param_python_code"}
  @@ "debug_enum.inc" :> {W, "debug_enum_member"}
  @@ "debug_shortcuts.inc" :> {W, "debug_shortcut"}
  @@ "debug_help.inc" :> {"debug_help"}
  @@ "debug_colors.inc" :> {"debug_color_ifelse"}

DefTypes == {"Stat", "SimulatorRequest", "Param", "DebugCategory"}
TemplatesOf(dt) ==
  CASE dt = "Stat" -> StatTemplates [] dt = "SimulatorRequest" -> SimReqTemplates
    [] dt = "Param" -> ParamTemplates [] dt = "DebugCategory" -> DebugTemplates
KindsOf(dt) ==
  CASE dt = "Stat" -> {"STAT_INT", "STAT_HISTOGRAM", "STAT_HASHTABLE"}
    [] dt = "SimulatorRequest" -> {"SIM_REQUEST"}
    [] dt = "Param" -> {"PARAM_BOOL", "PARAM_INT", "PARAM_ENUM", "PARAM_STRING"}
    [] dt = "DebugCategory" -> {"DEBUG_CATEGORY"}

\* g_replacements, the generic tokens set per template, and the tokens of
\* generateSimRequestChannelRegistration().
FixedKeys ==
  {"STATS_CLASS", "STATS_GLOBAL", "PARAM_CLASS", "PARAM_GLOBAL", "USING_SIMICS_DEF",
   "SIMULATOR_REQUEST_CHANNEL_GLOBAL", "SIMULATOR_REQUEST_CHANNEL_TYPE"}
    \cup {W, "FILE_ROOT", "HEADER_PROTECTION", "NUM_SIMULATOR_REQUESTS"}
    \cup {"init_channel", "register_channel_with_simulator",
          "register_channel_with_simics", "channel_accessors"}

\* What a value contributes once stringified: the code it names.
CodeOf(v) == IF v.kind = "list" THEN v.elems[1].text ELSE v.text

\* replacements[key]: the contribution of every Defs entry holding key, in
\* Defs order, each with the count its %%count%% became.
Contribs(key) ==
  LET ns == SetToSortSeq({n \in 1..Len(Defs) : key \in DOMAIN Defs[n].map}, <)
  IN [p \in 1..Len(ns) |-> <<ns[p], CodeOf(Defs[ns[p]].map[key])>>]

ReplacementKeys == FixedKeys \cup UNION {DOMAIN Defs[n].map : n \in 1..Len(Defs)}

Stale == [state |-> "stale"]
Empty == [state |-> "empty"]
Written(t) == [state |-> "new", repl |-> [k \in Tokens[t] |-> Contribs(k)], num |-> numSimReqs]
AllTemplates == DOMAIN Tokens

(* -------------------------------- main() -------------------------------- *)
Init ==
  /\ input \in DefFiles /\ deps \in BOOLEAN
  /\ listOfDicts = input
  /\ pc = "parse" /\ defType = "none"
  /\ Defs = <<>> /\ numSimReqs = 0 /\ shortcuts = {}
  /\ todo = <<>> /\ files = [t \in AllTemplates |-> Stale]
  /\ outcome = "running"

Stop(how) == pc' = "done" /\ outcome' = how

\* mustBeType(listOfDicts, [OneOrMore(types.DictType)])
ParseDefs ==
  /\ pc = "parse"
  /\ IF Match(ListV(listOfDicts), DefListType) THEN pc' = "global" /\ UNCHANGED outcome
                                               ELSE Stop("typeError")
  /\ UNCHANGED <<input, deps, listOfDicts, defType, Defs, numSimReqs, shortcuts, todo, files>>

\* Mutant: the else branch's assert on an unknown defType is missing.
FindGlobalNoAssert ==
  /\ pc = "global"
  /\ LET gs == {n \in 1..Len(listOfDicts) : Has(listOfDicts[n], "global")}
         g  == Min(gs)
         dt == Text(listOfDicts[g], "defType")
     IN \/ gs = {} /\ Stop("crash") /\ UNCHANGED <<listOfDicts, defType, todo>>
        \/ /\ gs # {}
           /\ defType' = dt /\ todo' = IF dt \in DefTypes THEN TemplatesOf(dt) ELSE <<>>
           /\ listOfDicts' = RemoveAt(listOfDicts, g)
           /\ pc' = "templates" /\ UNCHANGED outcome
  /\ UNCHANGED <<input, deps, Defs, numSimReqs, shortcuts, files>>

\* The first record holding 'global' names the defType; it is then deleted.
\* With none, the loop leaves globalIndex = len(listOfDicts) and the del
\* raises IndexError.
FindGlobal ==
  /\ pc = "global"
  /\ LET gs == {n \in 1..Len(listOfDicts) : Has(listOfDicts[n], "global")}
         g  == Min(gs)
         dt == Text(listOfDicts[g], "defType")
     IN \/ gs = {} /\ Stop("crash") /\ UNCHANGED <<listOfDicts, defType, todo>>
        \/ gs # {} /\ dt \notin DefTypes /\ Stop("assert") /\ UNCHANGED <<listOfDicts, defType, todo>>
        \/ /\ gs # {} /\ dt \in DefTypes
           /\ defType' = dt /\ todo' = TemplatesOf(dt)
           /\ listOfDicts' = RemoveAt(listOfDicts, g)
           /\ pc' = "templates" /\ UNCHANGED outcome
  /\ UNCHANGED <<input, deps, Defs, numSimReqs, shortcuts, files>>

\* --deps prints the paths of the files and returns; otherwise generate.
StartGenerate ==
  /\ pc = "templates"
  /\ IF deps THEN Stop("ok") ELSE pc' = "generate" /\ UNCHANGED outcome
  /\ UNCHANGED <<input, deps, listOfDicts, defType, Defs, numSimReqs, shortcuts, todo, files>>

\* Mutant: NUM_SIMULATOR_REQUESTS is bumped for every record of the file.
SimReqCountAll(d) ==
  IF defType = "SimulatorRequest" THEN numSimReqs + 1 ELSE numSimReqs

\* NUM_SIMULATOR_REQUESTS += 1 for a SIM_REQUEST record, before generating it.
SimReqCount(d) ==
  IF defType = "SimulatorRequest" /\ Text(d, "kind") = "SIM_REQUEST"
    THEN numSimReqs + 1 ELSE numSimReqs

\* One turn of the generation loop: the record's generator, then DEFS.append
\* of its result, or the exit/exception that stops main().
GenerateDef ==
  /\ pc = "generate" /\ listOfDicts # <<>>
  /\ LET d == Head(listOfDicts)
         r == Generator(d, defType, shortcuts)
     IN /\ listOfDicts' = Tail(listOfDicts)
        /\ numSimReqs' = SimReqCount(d)
        /\ \/ /\ r.status = "ok"
              /\ Defs' = Append(Defs, r.def)
              /\ shortcuts' = IF defType = "DebugCategory"
                                THEN shortcuts \cup {Text(d, "shortcut")} ELSE shortcuts
              /\ UNCHANGED <<pc, outcome>>
           \/ r.status = "skip" /\ UNCHANGED <<Defs, shortcuts, pc, outcome>>
           \/ r.status \notin {"ok", "skip"} /\ Stop(r.status) /\ UNCHANGED <<Defs, shortcuts>>
  /\ UNCHANGED <<input, deps, defType, todo, files>>

EndGenerate ==
  /\ pc = "generate" /\ listOfDicts = <<>>
  /\ pc' = "expand"
  /\ UNCHANGED <<input, deps, listOfDicts, defType, Defs, numSimReqs, shortcuts, todo, files, outcome>>

\* Mutant: a template with a token left unexpanded is left empty, and
\* main() goes on to the next template instead of exiting.
ExpandTemplateNoExit ==
  /\ pc = "expand" /\ todo # <<>>
  /\ LET t == Head(todo)
         values == UNION {Range(Defs[n].map) : n \in {m \in 1..Len(Defs) : Defs[m] # NoneV}}
         bad == NoneV \in Range(Defs)
                  \/ \E v \in values : v.kind = "list" /\ ~Match(v, StringListType)
     IN \/ bad /\ Stop(IF NoneV \in Range(Defs) THEN "crash" ELSE "typeError")
              /\ files' = [files EXCEPT ![t] = Empty] /\ UNCHANGED todo
        \/ ~bad /\ ~(Tokens[t] \subseteq ReplacementKeys)
              /\ files' = [files EXCEPT ![t] = Empty] /\ todo' = Tail(todo)
              /\ UNCHANGED <<pc, outcome>>
        \/ ~bad /\ Tokens[t] \subseteq ReplacementKeys
              /\ files' = [files EXCEPT ![t] = Written(t)] /\ todo' = Tail(todo)
              /\ UNCHANGED <<pc, outcome>>
  /\ UNCHANGED <<input, deps, listOfDicts, defType, Defs, numSimReqs, shortcuts>>

\* One template: the file is opened for writing (truncated) first; the
\* replacements are built from every DEFS entry (a None entry raises on
\* iteritems(), a list stringify rejects raises); a token left unexpanded
\* makes main() exit, else the file is written.
ExpandTemplate ==
  /\ pc = "expand" /\ todo # <<>>
  /\ LET t == Head(todo)
         values == UNION {Range(Defs[n].map) : n \in {m \in 1..Len(Defs) : Defs[m] # NoneV}}
         bad == NoneV \in Range(Defs)
                  \/ \E v \in values : v.kind = "list" /\ ~Match(v, StringListType)
     IN \/ bad /\ Stop(IF NoneV \in Range(Defs) THEN "crash" ELSE "typeError")
              /\ files' = [files EXCEPT ![t] = Empty] /\ UNCHANGED todo
        \/ ~bad /\ ~(Tokens[t] \subseteq ReplacementKeys) /\ Stop("exit")
              /\ files' = [files EXCEPT ![t] = Empty] /\ UNCHANGED todo
        \/ ~bad /\ Tokens[t] \subseteq ReplacementKeys
              /\ files' = [files EXCEPT ![t] = Written(t)] /\ todo' = Tail(todo)
              /\ UNCHANGED <<pc, outcome>>
  /\ UNCHANGED <<input, deps, listOfDicts, defType, Defs, numSimReqs, shortcuts>>

EndExpand ==
  /\ pc = "expand" /\ todo = <<>>
  /\ Stop("ok")
  /\ UNCHANGED <<input, deps, listOfDicts, defType, Defs, numSimReqs, shortcuts, todo, files>>

Next ==
  \/ ParseDefs \/ FindGlobal \/ StartGenerate \/ GenerateDef \/ EndGenerate
  \/ ExpandTemplate \/ EndExpand

Spec == Init /\ [][Next]_vars

(* ------------------------------ properties ------------------------------ *)
Outcomes == {"running", "ok", "exit", "assert", "typeError", "crash"}

TypeOK ==
  /\ input \in DefFiles /\ deps \in BOOLEAN
  /\ pc \in {"parse", "global", "templates", "generate", "expand", "done"}
  /\ defType \in DefTypes \cup {"none"}
  /\ numSimReqs \in 0..Len(input)
  /\ Len(Defs) <= Len(input)
  /\ todo \in Seq(AllTemplates)
  /\ \A t \in AllTemplates : files[t].state \in {"stale", "empty", "new"}
  /\ outcome \in Outcomes /\ (outcome = "running" <=> pc # "done")

\* The two tables of a simulator-request file agree: the enum in _types.h
\* (INVALID = 0, then one member per request, each tagged with its count)
\* and the string table in _lut.cpp (index 0 a dummy) list the same
\* requests in the same order, one per SIM_REQUEST record, and the bound
\* simRequest2String asserts, 0 < req <= NUM_SIMULATOR_REQUESTS, admits
\* exactly the enum values of those requests.
SimReqTablesAgree ==
  (outcome = "ok" /\ ~deps /\ defType = "SimulatorRequest") =>
    LET enum == files["simreq_types.h"].repl["simreq_enum_member"]
        lut  == files["simreq_lut.cpp"].repl["simreq_lut_entry"]
        num  == files["simreq_lut.cpp"].num
        reqs == {n \in 1..Len(input) : ~Has(input[n], "global")
                                         /\ Text(input[n], "kind") = "SIM_REQUEST"}
    IN /\ Len(enum) = num /\ Len(lut) = num /\ num = Cardinality(reqs)
       /\ \A p \in 1..num : enum[p][1] = p /\ lut[p][1] = p /\ enum[p][2] = lut[p][2]
       /\ {enum[p][2] : p \in 1..num} = {Text(input[n], "name") : n \in reqs}

\* The file as its author means it: one 'global' record of a known defType,
\* every other record of a kind that defType knows and accepted by its own
\* generator, debug shortcuts pairwise distinct.
WellFormedInput ==
  \E g \in 1..Len(input) :
    LET dt == Text(input[g], "defType")
        others == (1..Len(input)) \ {g}
    IN /\ Has(input[g], "global") /\ dt \in DefTypes
       /\ \A n \in others :
            /\ ~Has(input[n], "global")
            /\ Text(input[n], "kind") \in KindsOf(dt)
            /\ Produce(input[n], dt, {}).status = "ok"
       /\ \A m, n \in others :
            dt = "DebugCategory" /\ m # n
               => Text(input[m], "shortcut") # Text(input[n], "shortcut")

\* A well-formed .def file is generated: main() reaches the end with every
\* file written, when each record on its own is accepted by its generator.
AcceptedDefsGenerate == (pc = "done" /\ ~deps /\ WellFormedInput) => outcome = "ok"
\* What main() leaves on disk is a prefix of its defType's template list:
\* each template is opened 'w+' (truncated) before its tokens are
\* checked, and an exit or exception there stops main(), so the files
\* before it are new, that one is at most emptied, the ones after it (and
\* every file of another defType) are untouched; a run that returns
\* normally without --deps has written every one of them.
OutputIsPrefix ==
  LET ts == IF defType \in DefTypes THEN TemplatesOf(defType) ELSE <<>>
  IN /\ \E n \in 0..Len(ts) :
          /\ \A i \in 1..n : files[ts[i]].state = "new"
          /\ \A i \in (n + 2)..Len(ts) : files[ts[i]].state = "stale"
     /\ \A t \in AllTemplates \ Range(ts) : files[t].state = "stale"
     /\ (outcome = "ok" /\ ~deps) => \A i \in 1..Len(ts) : files[ts[i]].state = "new"
=============================================================================
