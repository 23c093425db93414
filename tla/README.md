# TLA+ models of gendef.py and the code it generates

`src/gendef.py` is a Python 2 code generator for the FeS2 simulator. It reads one
`.def` file, a Python list of dicts. One dict carries `'global'` and a `defType`
(`Stat`, `SimulatorRequest`, `Param` or `DebugCategory`). Every other dict is a
record of a `kind` that the defType knows. gendef.py typechecks each record with
`pacg.typesystem.mustBeType`. The generator for each kind turns the record into a
dictionary of code fragments, which is appended to `DEFS`. Finally every template
of the defType is expanded: each `%%TOKEN%%` is replaced by the fixed replacements
plus the concatenated fragments of every `DEFS` entry, with `%%count%%` becoming
the entry's position. The file is written out only if no token remains.

The generated code is itself a small system. The most delicate part is the
simulator-request channel:
- The simulated program stores the arguments of a request in the global
  `PYRITE_SIMULATOR_CHANNEL.data0..2`, then executes a magic instruction.
- The simulator's generated `switch` branch takes the first argument from `%ecx`
  if the request passes it there, and reads the others from the channel
  addresses that `PYRITE_experimentSetup` registered.
- It then calls the handler.

## Inventory

| Part | Source | State | Operations | Model |
|---|---|---|---|---|
| Type-expressions and `typecheck` (`pacg.typesystem`) | `src/external/pacg/typesystem.py` 48–315 | none (pure) | combinators, `typecheck` of base, list/tuple, mapping, Strict, Nullable | `TypeExpr`, `SeqMatcher` |
| Record and output schemas | `gendef.py` 477–486, 699–1000, 1208–1469, 1551, 1600–1641 | none | the `t = {...}` of every generator and of `main` | `GenDefTypes` |
| Generators | `gendef.py` 495–1493 | `DEFS`, `DEBUG_CATEGORY_SHORTCUTS` | `generateHistogram`, `generateHashtableStat`, `generateIntStat`, `generateSimRequest`, `generate{Bool,Int,Enum,String}Param`, `generateDebugCategory` | `GenDefMain` (`Generate*`) |
| `main()` pipeline | `gendef.py` 1495–1709 | `listOfDicts`, `defType`, `DEFS`, `NUM_SIMULATOR_REQUESTS`, output files | parse, find global, `--deps`, generation loop, per-template expansion | `GenDefMain` |
| Templates and replacements | `gendef.py` 18–470, 1169–1202, 1654–1705 | none | token sets, `%%count%%` tags | `GenDefMain` (`Tokens`, `Contribs`, `Written`) |
| Simulator-request channel (generated) | `gendef.py` 1040–1202, templates 205–351 | channel memory, simulator `data0..2`, `virtAddrData0..2`, the `simReqChannelData<i>` attributes | `PYRITE_experimentSetup` registration, request function stores, magic instruction, switch asserts and reads, checkpoint and restart | `SimReqChannel` |
| Stats runtime (generated C++) | `gendef.py` 731–986, 495–694, templates 38–204 | per-processor `Map<int, int>`s and `integer_t` counters | init, set, increment/incrementN/decrement, clear, checkpoint save and restore | `StatsRuntime` (histograms are `#if 0` in the templates and are not) |
| Params runtime (generated) | `gendef.py` 1205–1459, 495–694 | `DEBUG_CATEGORY`, `DEBUG_CATEGORY_STRING`, checkpoint | the debugCategory param's setter, getter, `param_init`, dump, checkpoint save/restore | `DebugCatParam`; other params are plain members |
| Debug categories (generated) | `gendef.py` 1461–1493 | bitmask enum, shortcut string | shortcut array, its decoding and encoding | `DebugCatParam` (the enum numbering is not) |
| Option parsing, paths, file I/O | `gendef.py` 1497–1533 | none | | not modelled (I/O) |
| `install-simics.py` | `src/simics/install-simics.py` | none | shells out to the installer | not modelled (I/O) |

The parts interact in a single direction:
1. `main` uses the matcher (through `mustBeType`) on the input, on each record
   and on the generated dicts.
2. The generators fill `DEFS`.
3. Template expansion reads `DEFS`.
4. The generated code then runs in the simulated program and the simulator.

The hard behaviours are:
- **Error paths.** The order of checks inside each generator and `main`, and
  files truncated before an exit.
- **Greedy matching.** The non-backtracking sequence matcher.
- **Concurrency.** The threads of the simulated program sharing one channel.

## Modules

- **`TypeExpr`**: values and type-expressions as records, and the construction
  rule (`WellFormed`). The recursive matcher is split into `Match`, `Walk`,
  `RunLength` and `MapMatch`, following `typecheck`, `typecheckListOrTuple` and
  `typecheckMapping` in typesystem.py. `BaseMatch` is `isinstance`, so a bool
  also passes `int` and a long passes `int`. `MapMatch` skips an Optional key
  altogether: the key is an old-style instance compared by identity, so
  `key in expr` is always false and a present optional value is never checked. It also holds `Lang`, a reference reading of
  sequence schemas that chooses repetition counts by existential choice.
- **`SeqMatcher`**: `typecheckListOrTuple`'s loop (typesystem.py 222–282). It has
  a schema cursor `i`, a value cursor `j` and a repetition count `taken`. The
  actions are one per node kind: `PlainNode`, `OptionalNode`, `RepeatTake` and
  `RepeatStop`, plus `CheckContainer` and `Finish`.
- **`GenDefTypes`**: every schema gendef.py writes, with the source line of each
  recorded in PROJECT.json.
- **`GenDefMain`**: `main()` as a state machine over `pc` (`parse`, `global`,
  `templates`, `generate`, `expand`, `done`).
  - `Init` picks a `.def` file from `DefFiles` and the `--deps` flag.
  - `ParseDefs`, `FindGlobal`, `StartGenerate` and `EndGenerate` follow main's
    steps.
  - `GenerateDef` takes one record through `Generator`. That is main's dispatch
    `Produce` and its output typecheck `OutType`. The result is appended, the
    record is skipped, or main stops.
  - `ExpandTemplate` handles one template, in the order of the defType's
    template list. The file is truncated first. A `None`
    entry or a list that fails stringify raises. An unexpanded token exits.
    Otherwise the file holds, for each of its tokens, the sequence of
    `<<count, record>>` contributions.
  - Generated dicts are abstracted to their keys, the type of each value, and the
    record name.
- **`SimReqChannel`**: one process per thread of the simulated program.
  - `Begin` calls a request function with arguments from a small set.
  - `WriteArg` is one `PYRITE_SIMULATOR_CHANNEL.data<k> = arg` store.
  - `Trap` is the magic instruction together with the simulator's switch branch,
    which `SwitchReads` models (`RegArgs`/`FirstCounter` are the
    `passFirstArgViaRegister` bookkeeping). The simulator handles the
    instruction synchronously, so this is one step.
  - A log records what each handler got against what its caller passed.
  - `BeginSetup` makes the calls of `PYRITE_experimentSetup` (`SetupCalls`):
    `RegisterProcess`, then `RegisterChannelData<i>(&data<i>)` for each
    channel. The other threads begin only after the setup has returned.
    The handlers of those requests are simulator code outside the
    repository. They are read as storing their argument in
    `virtAddrData<i>`, which is what the switch later reads through.
  - The switch's `addressHasTranslation` asserts (`AssertsHold`) are checked
    as the invariant `NoUnmappedRead` at every magic instruction, rather
    than as a failing step.
  - `RegRequest` is the shape of the `RegisterChannelData` requests. Their
    `.def` file is not in the repository. The MC gives them one argument in
    `%ecx`. With that argument passed through the channel, their own switch
    branch would read `virtAddrData0` before it is set.
  - `Save` is a Simics checkpoint between two steps: the simulated machine
    (channel memory, the threads, and the ghost log) and the
    `simReqChannelData<i>` attributes, whose getters return
    `virtAddrData<i>`. `Restore` restarts from it. The machine resumes
    where it was saved, past `PYRITE_experimentSetup` if the setup had
    finished, and the attribute setters write the saved integers back into
    `virtAddrData<i>`. `MaxRestores` bounds the restarts.
- **`DebugCatParam`**: the `debugCategory` string param of
  `generateStringParam`. Its state is `DEBUG_CATEGORY` (a set of bit
  positions), the global `DEBUG_CATEGORY_STRING`, and the last checkpoint's
  string.
  - `Setter`/`SetterMask` are the generated setter. It starts with
    `NO_DEBUG()`; `#` and `*` end it; any other character ors in the bit of
    each equal shortcut before the `' '` terminator.
  - `GetterText` is the generated getter. It appends to the string it is
    given.
  - `Init` is `param_init`. `Set` is the attribute setter. `Dump` is
    `dumpParams`. `Save` writes a checkpoint through the attribute getter.
    `Restore` is a fresh process, then the attribute setter with the saved
    string.
  - `debug_cat.h` is not in the repository. `DEBUG_NONE`, `DEBUG_ALL`,
    `NO_DEBUG`, `ALL_DEBUG` and `DEBUG_CAT` are read as their names suggest,
    and the shortcut array as `debug_shortcuts.inc` followed by `' '`.

- **`StatsRuntime`**: the generated `Stats` class for `STAT_INT` and
  `STAT_HASHTABLE` records, scalar or per-processor (`Stats` is a set of
  such records).
  - A stat's storage `val[s]` maps cells `<<processor, key>>` to values.
    `alloc` holds the stats whose array or `Map` pointer is set.
  - `count` is the stat as the simulator means it, and the properties
    compare `val` with it.
  - `Init` is `Stats::init()` running `initStats()`.
  - `Set`, `IncrementN` (which covers increment and decrement) and `Clear`
    are the generated methods.
  - `Save` is a checkpoint through the attribute getter wrappers.
  - `Restore` is a restart that loads the checkpoint. There `init()` skips
    `initStats()`, and each attribute's setter wrapper runs
    (`RestoredStat`).
  - `AttrSet` is a write of a whole attribute while the simulator runs. It
    calls the same setter wrapper, so a dict or list is re-initialised
    before its entries are set. `AttrValues` holds the values the attribute's
    registered type admits. `AttrSetIndexed` is an indexed write
    `attr[key] = x`. The registration gives an indexed type only to a scalar
    hashtable stat's dict (`IndexedWritable`), and its setter calls
    `set<Name>(key, x)`.
  - `int` and `integer_t` are scaled to `IntWidth` and `LongWidth` bits.
    The narrowing conversions are `ToInt`/`ToLong`.
  - `Map.h` is outside `src/`. A key not in a Map is `Absent`, and the
    model never reads it through `lookup`.

The MC modules (`MC_SeqMatcher`, `MC_GenDefMain`,
`MC_SimReqChannel`, `MC_DebugCatParam`, `MC_StatsRuntime`) define the bounded inputs.

## Runs

| Run | Cfg | Expect | What it shows |
|---|---|---|---|
| seqmatcher | `MC_SeqMatcher.cfg` | pass | See below. |
| seqmatcher_greedy | `MC_SeqMatcher_greedy.cfg` | violation | `GreedyComplete` fails, and not only for the repetition case the KNOWN BUGS docstring names. `["a"]` fails `[Optional(str), str]`, because Optional never backtracks either. |
| gendef_main | `MC_GenDefMain.cfg` | pass | See below. |
| gendef_param_files | `MC_GenDefMain_param.cfg` | violation | A Param file with a bool, an int and a string param, each accepted by its generator, does not generate: only `generateEnumParam` supplies the `param_preamble` and `param_python_code` tokens of the Param templates (gendef.py:377, 430), so main exits on them after truncating the first output. A file with an enum param generates. |
| gendef_counter_stats | `MC_GenDefMain_counters.cfg` | violation | A Stat file without a `STAT_HISTOGRAM` exits on unexpanded `histogram_*` tokens. The first output file has already been truncated. |
| simreq_sequential | `MC_SimReqChannel.cfg` | pass | One thread runs `PYRITE_experimentSetup`, then makes two requests of every shape (0–3 arguments, first in `%ecx` or not). No switch branch reads an unregistered channel address (`NoUnmappedRead`). After the setup every `virtAddrData<i>` holds `&data<i>` (`ChannelsRegistered`). Every handler gets exactly its caller's arguments. All of this holds across one restart from a checkpoint written at any step, mid-request included (about 10^5 states). |
| debugcat_roundtrip | `MC_DebugCatParam.cfg` | pass | Over any sequence of sets, dumps, checkpoints and restores, with three shortcuts and eight input strings, the setter applied to the getter's result in a fresh process gives back `DEBUG_CATEGORY` (`FreshRoundTrip`). |
| debugcat_checkpoint | `MC_DebugCatParam_checkpoint.cfg` | violation | A checkpoint written after a dump restores the wrong categories. TLC's trace: set `{}`, dump (the getter writes `"#"`), set `{0}`, save `"#a"`; the setter stops at the leading `#`, so the restore enables nothing instead of category 0. The getter never clears `DEBUG_CATEGORY_STRING` (gendef.py:1401). |
| stats_runtime | `MC_StatsRuntime.cfg` | pass | For a scalar int stat, a per-processor hashtable stat and a scalar hashtable stat, any sequence of up to 3 sets, increments and attribute writes (whole, or one key by index), with `clearStats`, checkpoints and restarts from checkpoints that hold every stat in between, leaves every stat holding what was counted, reduced to its storage width (`StatsTrackCounts`). |
| stats_checkpoint_truncate | `MC_StatsRuntime_truncate.cfg` | violation | A per-processor int stat set to the largest int and incremented is saved as that value plus one. Its setter wrapper reads it back through `int curr` (gendef.py:612), so the restore wraps it to the smallest int. |
| stats_missing_attribute | `MC_StatsRuntime_missing.cfg` | violation | A restart from a checkpoint without the per-processor hashtable stat's attribute (Sim_Attr_Optional, gendef.py:671) leaves that stat unallocated (`StatsAllocated`): `init()` skips `initStats()` when loading a configuration (gendef.py:55). |
| simreq_channel_race | `MC_SimReqChannel_race.cfg` | violation | Two threads making channel-passed requests: thread 2's store lands between thread 1's store and its trap, and handler 1 receives thread 2's argument. |

**seqmatcher** runs over every list of up to 3 elements (str, int, long, bool, None),
a few tuples and a scalar, against every well-formed schema of up to 3 nodes.
It checks that the loop:
- accepts only what the schema covers (`GreedySound`);
- always stops (`MatchTerminates`).

**gendef_main** runs over 21 `.def` files, which reach every error path of every
generator and of `main` (typeError, exit, assert, crash, skip), with and without
`--deps`. Every successful simulator-request run writes an enum in `_types.h`
and a string table in `_lut.cpp`. The check is that the two agree with each
other and with the `SIM_REQUEST` records, in length, count tags, order and
names, and that `NUM_SIMULATOR_REQUESTS` equals the number of those records.
It also checks `OutputIsPrefix`: whatever stops `main()`, the output files it
wrote are a prefix of the defType's template list. At most the next file is
truncated to empty, and every later file (and every file of another defType)
is left as it was. A normal return without `--deps` has written them all. Its
mutant is an unexpanded-token exit that goes on to the next template.

Every property of a passing run has a mutant in PROJECT.json: a plausible bug in
the mapped definition that TLC catches under the run's own cfg.

### Bounds

- **Matcher.** Three nodes and three elements are enough for every pair of
  adjacent node kinds to meet an element both match. That is the shape of every
  greedy failure. The run has about 10^5 states.
- **`main`.** The `.def` files are listed by hand, one or more per error path,
  plus well-formed files of each defType with two or more records. That way
  `%%count%%` order and the skip of a stray record both show. An unknown
  kind in a SimulatorRequest file is dropped, as the code does, although the
  comment on main's final `else` says otherwise. This is listed as a
  hazard.
- **Debug categories.** Three shortcuts, which is enough for an encoded mask with
  more than one bit. Inputs cover `#`, `*`, an unknown character, and a `#`
  after a shortcut. `MaxStringLen = 4` bounds the string, which only grows.
- **Stats.** `int` is 3 bits and `integer_t` is 5. Set values are 0 and the
  largest int, so one increment crosses the int range. There are two
  processors and two keys, and `MaxOps = 3` bounds the sets, increments and
  attribute writes (about 6*10^5 states).
  Clears, checkpoints and restarts are unbounded. The pass run leaves out the
  per-processor int stat, whose restore is the finding.
  `Missing` (stats whose attribute a checkpoint lacks) is empty in the pass
  run and holds the per-processor hashtable stat in stats_missing_attribute.
- **Channel.** Three channels, two values and two requests per thread. A stale
  value from the previous request, and a foreign value from another thread, are
  then both distinguishable. `MaxRestores = 1`: the checkpoint may be written
  at any step, so one restart already reaches every saved state, before,
  during or after the setup.

### Fairness

- `SeqMatcher` assumes `WF_vars(Next)`: the loop is sequential code with nothing
  else to run.
- `SimReqChannel` has no fairness and checks only safety. The restarts are
  bounded by `MaxRestores`.
- `DebugCatParam` has no fairness and checks only safety. Set is always
  enabled, so it never deadlocks.
- `StatsRuntime` has no fairness and checks only safety. `Clear` and `Save`
  stay enabled, so it never deadlocks.
- The `main()` runs check only safety.
- `CHECK_DEADLOCK FALSE` is set where the program really ends: the match call
  returns, `main()` returns or exits, or the program has made its last request.

## Not modelled, and why

- **`pacg.typesystem` messages.** The failure-chain diagnostics
  (`constructTypeCheckErrorMessage`) are text.
- **Generated text.** C/C++/Python text, formatting, warnings, option parsing and
  paths are out of scope; only the keys and tokens are kept.
- **`KeyError` on missing keys.** A missing `defType` or `kind` key raises
  `KeyError` in `main`. It is not enumerated.
- **Debug enum numbering.** The enum numbers categories `1 << count` from
  1, and the setter uses `1 << j` from 0. Whether the two agree depends on
  `DEBUG_CAT` and the shortcut array in `debug_cat.h`, which is not in the
  repository.
- **Argument widths and preprocessor branches of the generated C.** The
  4-byte reads of `void*` channel words, the `addressIsAligned` asserts,
  and the `sanityCheck` return path are not modelled. They depend on the
  build's word size and macros, not on a sequence of steps. They are
  listed as hazards.
- **Out-of-range attribute writes.** These cases would each need a
  violation run of their own. The project already has the 12 runs it keeps,
  so they are recorded as hazards with notes:
  - a list attribute shorter than the processor count;
  - an indexed write to a per-processor stat, which hits the setter's
    `idx` assert;
  - a checkpoint that lacks the channel or stat attributes
    (`Sim_Attr_Optional`).
- **`Map.h`.** It is outside `src/`. An indexed read `get<Name>(key)` of a key
  that is not in the Map does a `Map::lookup`, and what that returns is
  defined in `Map.h`. Indexed reads change no state, so they are not
  modelled.
