---------------------------- MODULE DebugCatParam ----------------------------
(***************************************************************************)
(* The string parameter named debugCategory, whose getter and setter      *)
(* generateStringParam writes specially: the setter turns a string of     *)
(* category shortcuts ('#' none, '*' all) into the DEBUG_CATEGORY bitmask, *)
(* the getter turns the bitmask back into a string, appending to the      *)
(* global DEBUG_CATEGORY_STRING.  The getter serves the Simics attribute  *)
(* (saved in a checkpoint) and dumpParams; the setter serves the attribute *)
(* (set by the user or restored from a checkpoint) and param_init.        *)
(*                                                                         *)
(* debug_cat.h is not in the repository.  Read here as its names suggest: *)
(* DEBUG_NONE is the empty mask, DEBUG_ALL the full one, NO_DEBUG() and   *)
(* ALL_DEBUG() assign them, DEBUG_CAT(c) ors c in, and                    *)
(* DEBUG_CATEGORY_SHORTCUTS is the generated debug_shortcuts.inc entries  *)
(* followed by a ' ' terminator.  A bitmask is the set of its bit         *)
(* positions.                                                              *)
(***************************************************************************)
EXTENDS Naturals, SequencesExt

CONSTANTS Shortcuts,   \* the 'shortcut' of each DEBUG_CATEGORY record, in DEFS order
          Inputs,      \* strings the attribute may be set to, as sequences of characters
          InitialValue, \* the param's 'initialValue'
          MaxStringLen  \* bound on DEBUG_CATEGORY_STRING, which only grows

IntBits   == 0..31                   \* sizeof(int) * 8
DebugNone == {}
DebugAll  == IntBits
ShortcutArray == Shortcuts \o <<" ">>   \* DEBUG_CATEGORY_SHORTCUTS, indexed from 0 as [j + 1]

VARIABLES
  category,   \* DEBUG_CATEGORY
  catString,  \* DEBUG_CATEGORY_STRING
  saved,      \* the string the last checkpoint holds, <<>> before any
  savedCat    \* DEBUG_CATEGORY when that checkpoint was taken

vars == <<category, catString, saved, savedCat>>

\* The indices j the setter's inner loop visits: up to the first ' '.
RECURSIVE ScanEnd(_)
ScanEnd(j) == IF ShortcutArray[j + 1] = " " THEN j ELSE ScanEnd(j + 1)
Scanned == 0..ScanEnd(0) - 1

\* setDebugCategory(param), from the mask m it has built so far: '#' and
\* '*' end it, any other character ors in the bit of every shortcut it
\* equals.
RECURSIVE SetterMask(_, _)
SetterMask(s, m) ==
  IF s = <<>> THEN m
  ELSE CASE Head(s) = "#" -> DebugNone
         [] Head(s) = "*" -> DebugAll
         [] OTHER -> SetterMask(Tail(s), m \cup {j \in Scanned : ShortcutArray[j + 1] = Head(s)})

\* The setter starts with NO_DEBUG().
Setter(s) == SetterMask(s, DebugNone)

\* Mutant: the getter reads the shortcut one entry past the bit's.
GetterTextNext(str, m) ==
  CASE m = DebugNone -> <<"#">>
    [] m = DebugAll  -> <<"*">>
    [] OTHER ->
         LET bits == SetToSortSeq(m, <)
         IN str \o [p \in 1..Len(bits) |-> ShortcutArray[bits[p] + 2]]

\* getDebugCategory() applied to the string str and the mask m: '#' or '*'
\* replace the string, else the shortcut of each set bit, lowest first, is
\* appended to it.
GetterText(str, m) ==
  CASE m = DebugNone -> <<"#">>
    [] m = DebugAll  -> <<"*">>
    [] OTHER ->
         LET bits == SetToSortSeq(m, <)
         IN str \o [p \in 1..Len(bits) |-> ShortcutArray[bits[p] + 1]]

\* Process start: the string is empty, and param_init calls
\* setDebugCategory(initialValue).
Init ==
  /\ category = Setter(InitialValue) /\ catString = <<>>
  /\ saved = <<>> /\ savedCat = DebugNone

\* The attribute is set by the user.
Set(s) ==
  /\ category' = Setter(s)
  /\ UNCHANGED <<catString, saved, savedCat>>

\* dumpParams prints the getter's result.
Dump ==
  /\ Len(GetterText(catString, category)) <= MaxStringLen
  /\ catString' = GetterText(catString, category)
  /\ UNCHANGED <<category, saved, savedCat>>

\* A checkpoint is written: Simics calls the attribute getter.
Save ==
  /\ Len(GetterText(catString, category)) <= MaxStringLen
  /\ catString' = GetterText(catString, category)
  /\ saved' = catString' /\ savedCat' = category
  /\ UNCHANGED category

\* The simulator is restarted from the last checkpoint: a fresh process
\* (empty string, param_init), then Simics sets the attribute to the saved
\* string.
Restore ==
  /\ saved # <<>>
  /\ category' = Setter(saved) /\ catString' = <<>>
  /\ UNCHANGED <<saved, savedCat>>

Next == (\E s \in Inputs : Set(s)) \/ Dump \/ Save \/ Restore

Spec == Init /\ [][Next]_vars

(* ------------------------------ properties ------------------------------ *)
\* The getter and setter are inverse on a fresh string: whatever the
\* categories, setDebugCategory(getDebugCategory()) in a new process gives
\* them back, so a checkpoint written before any dump restores them.  It
\* needs shortcuts that are distinct, not ' ' (the array's terminator) and
\* not '#' or '*'.
FreshRoundTrip == Setter(GetterText(<<>>, category)) = category

\* A checkpoint restores the debug categories that were enabled when it
\* was written: the setter applied to the attribute's saved string yields
\* the DEBUG_CATEGORY of that moment.
CheckpointRestores == saved # <<>> => Setter(saved) = savedCat
=============================================================================
