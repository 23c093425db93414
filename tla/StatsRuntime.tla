---------------------------- MODULE StatsRuntime ----------------------------
(***************************************************************************)
(* The Stats class gendef.py generates for a Stat .def file: one member    *)
(* per STAT_INT record (an integer_t, or an integer_t array per           *)
(* processor) and per STAT_HASHTABLE record (a Map<int, int>, or one per   *)
(* processor), with get/set/increment/incrementN/decrement/clear methods,  *)
(* initStats and clearStats, and one Simics attribute per stat whose      *)
(* getter and setter wrappers save and restore it in a checkpoint.        *)
(*                                                                         *)
(* A stat's storage is a function from its cells to values: a cell is a  *)
(* processor (0 for a stat that is not per-processor) and a key (NoKey    *)
(* for an int stat).  A hashtable cell whose key is not in the Map is     *)
(* Absent.  alloc holds the stats whose storage exists: a pointer member  *)
(* that was never set by init<Name> is null.                               *)
(*                                                                         *)
(* Widths are scaled: int is IntWidth bits and integer_t LongWidth bits,  *)
(* two's complement, so that values past the int range are reachable.     *)
(* Signed int overflow wraps, as the build's plain additions do.          *)
(*                                                                         *)
(* count is the stat as the simulator means it: the value last set, moved *)
(* by every increment, an absent key counting as initialValue, reset by   *)
(* clear, and carried across a checkpoint.                                 *)
(***************************************************************************)
EXTENDS Integers

CONSTANTS Stats,      \* records [kind |-> "int" or "hashtable", perProc |-> BOOLEAN, init |-> Nat]
          Procs,      \* processor numbers 0..m_num_processors-1
          Keys,       \* hashtable keys
          SetVals,    \* integer_t values passed to set<Name>
          Ns,         \* the n of incrementN<Name>; 1 is increment, -1 decrement
          Missing,    \* stats whose attribute the restored checkpoint lacks
          IntWidth,   \* bits of int
          LongWidth,  \* bits of integer_t
          MaxOps,     \* bound on sets and increments
          Absent,     \* a hashtable key that is not in its Map
          NoCheckpoint \* saved before the first checkpoint

ASSUME /\ IntWidth < LongWidth /\ Missing \subseteq Stats
       /\ \A s \in Stats : s.kind \in {"int", "hashtable"} /\ s.init >= 0

NoKey   == "nokey"

\* Two's complement conversion of an integer to w bits.
Wrap(x, w) == LET m == x % (2 ^ w) IN IF m >= 2 ^ (w - 1) THEN m - 2 ^ w ELSE m
ToInt(x)  == Wrap(x, IntWidth)
ToLong(x) == Wrap(x, LongWidth)

\* The cells of stat s, and the width its storage keeps: Map<int, int>
\* values are ints, STAT_INT members integer_t.
Cells(s) == (IF s.perProc THEN Procs ELSE {0}) \X (IF s.kind = "hashtable" THEN Keys ELSE {NoKey})
Width(s) == IF s.kind = "hashtable" THEN IntWidth ELSE LongWidth

VARIABLES
  val,        \* each stat's storage, as the generated code holds it
  alloc,      \* the stats whose storage is allocated
  count,      \* each stat as the simulator means it
  saved,      \* the attribute values of the last checkpoint, NoCheckpoint before any
  savedCount, \* count when that checkpoint was written
  ops         \* sets and increments made, bounded by MaxOps

vars == <<val, alloc, count, saved, savedCount, ops>>

\* init<Name>(): a per-processor int stat mallocs its array and sets each
\* processor to initialValue, a scalar one is set to it; a hashtable stat
\* news empty Maps.
InitStat(s) ==
  [c \in Cells(s) |-> IF s.kind = "int" THEN s.init ELSE Absent]

\* clear<Name>(): set<Name>(i, initialValue) for every processor, or
\* Map::clear() on every Map.
ClearStat(s) ==
  [c \in Cells(s) |-> IF s.kind = "int" THEN s.init ELSE Absent]

\* Process start without a configuration to load: init() runs initStats().
Init ==
  /\ val = [s \in Stats |-> InitStat(s)] /\ alloc = Stats
  /\ count = [s \in Stats |-> InitStat(s)]
  /\ saved = NoCheckpoint /\ savedCount = NoCheckpoint
  /\ ops = 0

\* set<Name>(..., integer_t x): Map<int, int>::add takes an int.
Set(s, c, x) ==
  /\ ops < MaxOps /\ s \in alloc
  /\ val' = [val EXCEPT ![s][c] = IF s.kind = "hashtable" THEN ToInt(x) ELSE x]
  /\ count' = [count EXCEPT ![s][c] = x]
  /\ ops' = ops + 1
  /\ UNCHANGED <<alloc, saved, savedCount>>

\* Mutant: the sum is stored without narrowing to the storage's width.
IncrementNUnwrapped(s, c, n) ==
  /\ ops < MaxOps /\ s \in alloc
  /\ val' = [val EXCEPT ![s][c] =
               IF s.kind = "int" THEN val[s][c] + n
               ELSE n + (IF val[s][c] = Absent THEN s.init ELSE val[s][c])]
  /\ count' = [count EXCEPT ![s][c] = n + (IF @ = Absent THEN s.init ELSE @)]
  /\ ops' = ops + 1
  /\ UNCHANGED <<alloc, saved, savedCount>>

\* incrementN<Name>(..., n), and increment/decrement, which call it with
\* 1 and -1: an int stat adds n to its integer_t; a hashtable stat
\* computes int value = n + (the key's value, or initialValue if the key
\* does not exist) and adds it to the Map.
IncrementN(s, c, n) ==
  /\ ops < MaxOps /\ s \in alloc
  /\ val' = [val EXCEPT ![s][c] =
               IF s.kind = "int" THEN ToLong(val[s][c] + n)
               ELSE ToInt(n + (IF val[s][c] = Absent THEN s.init ELSE val[s][c]))]
  /\ count' = [count EXCEPT ![s][c] = n + (IF @ = Absent THEN s.init ELSE @)]
  /\ ops' = ops + 1
  /\ UNCHANGED <<alloc, saved, savedCount>>

\* clearStats(): clear<Name>() for every stat.
Clear ==
  /\ alloc = Stats
  /\ val' = [s \in Stats |-> ClearStat(s)]
  /\ count' = [s \in Stats |-> ClearStat(s)]
  /\ UNCHANGED <<alloc, saved, savedCount, ops>>

\* A checkpoint is written: Simics calls every stat attribute's getter
\* wrapper with no index.  Each returns the stat's values as attribute
\* integers (64 bits, so no value is lost): a list over the processors,
\* of dicts of the Map's keys for a hashtable stat.
Save ==
  /\ alloc = Stats
  /\ saved' = val /\ savedCount' = count
  /\ UNCHANGED <<val, alloc, count, ops>>

\* A restored stat's storage before its attribute is set: g_stats is a
\* global, so a scalar integer_t member is 0 and every pointer is null
\* (the cells of unallocated storage are shown as 0 too).
Unrestored(s) == [c \in Cells(s) |-> 0]
\* A scalar int stat's storage is the member itself.
Allocated(s)  == s.kind = "int" /\ ~s.perProc

\* Mutant: the scalar int setter also goes through an int.
RestoredStatNarrow(s, a) ==
  [c \in Cells(s) |-> IF a[c] = Absent THEN Absent ELSE ToInt(a[c])]

\* The setter wrapper of stat s given the saved attribute value a.  A
\* per-processor int stat calls init<Name>(size), then set<Name>(i, curr)
\* with int curr = the list element; a scalar int stat calls
\* set<Name>(val->u.integer); a hashtable stat calls init<Name>, then
\* set<Name>(..., key_value, value_value) with both ints.
RestoredStat(s, a) ==
  [c \in Cells(s) |-> IF a[c] = Absent THEN Absent
                     ELSE IF s.kind = "int" /\ ~s.perProc THEN a[c] ELSE ToInt(a[c])]

\* The simulator is restarted from the last checkpoint: a fresh process
\* loading a configuration, whose init() skips initStats(); Simics then
\* calls the setter wrapper of every stat attribute the checkpoint holds.
\* The attributes are Sim_Attr_Optional: a stat in Missing keeps its
\* unrestored storage, and is meant to start from its initial value.
Restore ==
  /\ saved # NoCheckpoint
  /\ val' = [s \in Stats |-> IF s \in Missing THEN Unrestored(s) ELSE RestoredStat(s, saved[s])]
  /\ alloc' = {s \in Stats : s \notin Missing \/ Allocated(s)}
  /\ count' = [s \in Stats |-> IF s \in Missing THEN InitStat(s) ELSE savedCount[s]]
  /\ UNCHANGED << saved, savedCount, ops>>

\* The values a Simics write of the whole attribute of stat s may carry:
\* an integer per cell, and for a dict any set of present keys.
AttrValues(s) ==
  [Cells(s) -> IF s.kind = "hashtable" THEN SetVals \cup {Absent} ELSE SetVals]

\* Mutant: the dict setter wrapper adds the pairs to the Map it has,
\* without init<Name>() first.
AttrSetNoInit(s, a) ==
  /\ ops < MaxOps
  /\ val' = [val EXCEPT ![s] = [c \in Cells(s) |-> IF a[c] = Absent THEN val[s][c]
                                                   ELSE RestoredStat(s, a)[c]]]
  /\ alloc' = alloc \cup {s}
  /\ count' = [count EXCEPT ![s] = a]
  /\ ops' = ops + 1
  /\ UNCHANGED <<saved, savedCount>>

\* The user writes the whole attribute of stat s while the simulator
\* runs: Simics calls its setter wrapper with no index, which does what
\* it does on a restore (init<Name> first, for a list or a dict).
AttrSet(s, a) ==
  /\ ops < MaxOps
  /\ val' = [val EXCEPT ![s] = RestoredStat(s, a)]
  /\ alloc' = alloc \cup {s}
  /\ count' = [count EXCEPT ![s] = a]
  /\ ops' = ops + 1
  /\ UNCHANGED <<saved, savedCount>>

\* The registration gives an indexed type ("i") to a scalar hashtable
\* stat's dict attribute only.
IndexedWritable(s) == s.kind = "hashtable" /\ ~s.perProc

\* An indexed write attr[key] = x: the dict setter wrapper calls
\* set<Name>(idx->u.integer, val->u.integer), which adds x to the Map.
AttrSetIndexed(s, key, x) ==
  /\ IndexedWritable(s)
  /\ Set(s, <<0, key>>, x)

Next ==
  \/ \E s \in Stats : \E c \in Cells(s) :
        \/ \E x \in SetVals : Set(s, c, x)
        \/ \E n \in Ns : IncrementN(s, c, n)
  \/ \E s \in Stats : \E a \in AttrValues(s) : AttrSet(s, a)
  \/ \E s \in Stats : \E key \in Keys : \E x \in SetVals : AttrSetIndexed(s, key, x)
  \/ Clear \/ Save \/ Restore

Spec == Init /\ [][Next]_vars

(* ------------------------------ properties ------------------------------ *)
TypeOK ==
  /\ ops \in 0..MaxOps
  /\ alloc \subseteq Stats
  /\ \A s \in Stats :
        \A c \in Cells(s) : val[s][c] = Absent \/ val[s][c] \in -(2 ^ (Width(s) - 1))..(2 ^ (Width(s) - 1) - 1)

\* Every stat holds what the simulator counted, reduced to the width of
\* its storage, after any sequence of sets, increments, decrements,
\* clearStats, checkpoints and restarts from a checkpoint: the getter
\* returns the value last set moved by every increment since, with a key
\* never touched since a clear absent.
StatsTrackCounts ==
  \A s \in alloc :
    \A c \in Cells(s) :
      val[s][c] = IF count[s][c] = Absent THEN Absent ELSE Wrap(count[s][c], Width(s))

\* The storage of every stat is allocated whenever the simulator runs, so
\* that no get, set, increment, dumpStats or checkpoint dereferences a
\* null pointer.
StatsAllocated == alloc = Stats
=============================================================================
