------------------------------ MODULE TypeExpr ------------------------------
(***************************************************************************)
(* The type-expressions of src/external/pacg/typesystem.py and its        *)
(* typecheck(), the predicate behind gendef.py's mustBeType/mustBeString/  *)
(* mustBeBool.  Match is true where typecheck returns and false where it   *)
(* raises TypeCheckFailedError.                                           *)
(*                                                                         *)
(* Values and type-expressions are records.  A scalar value carries only  *)
(* its runtime type: the matcher never looks at a scalar's contents.       *)
(***************************************************************************)
EXTENDS Naturals, Sequences

(* ---------------------------- runtime values ---------------------------- *)
Scalar(T)  == [kind |-> "scalar", type |-> T]
NoneV      == [kind |-> "none"]
ListV(s)   == [kind |-> "list", elems |-> s]
TupleV(s)  == [kind |-> "tuple", elems |-> s]
DictV(f)   == [kind |-> "dict", map |-> f]

\* The runtime type name of a value, as type(value) would report it.
TypeOf(v) == IF v.kind = "scalar" THEN v.type ELSE v.kind

(* --------------------------- type-expressions --------------------------- *)
Base(T)          == [kind |-> "base", type |-> T]
ListSchema(es)   == [kind |-> "seq", flavor |-> "list", elems |-> es]
TupleSchema(es)  == [kind |-> "seq", flavor |-> "tuple", elems |-> es]
\* A mapping schema: f maps each key to its expression; keys in opt were
\* written Optional(key) in the schema.
Mapping(f, opt)  == [kind |-> "map", map |-> f, optional |-> opt]
Strict(m)        == [kind |-> "strict", inner |-> m]
Nullable(e)      == [kind |-> "nullable", inner |-> e]
Optional(e)      == [kind |-> "optional", inner |-> e]
ZeroOrMore(e)    == [kind |-> "zeroOrMore", inner |-> e]
OneOrMore(e)     == [kind |-> "oneOrMore", inner |-> e]

RepKinds == {"optional", "zeroOrMore", "oneOrMore"}
Repeats  == {"zeroOrMore", "oneOrMore"}

\* The construction-time rule: Optional, ZeroOrMore and OneOrMore never wrap
\* one another, and Strict wraps only a mapping.  Only expressions with this
\* property can exist, since the constructors raise otherwise.
RECURSIVE WellFormed(_)
WellFormed(e) ==
  CASE e.kind = "base"     -> TRUE
    [] e.kind = "seq"      -> \A i \in DOMAIN e.elems : WellFormed(e.elems[i])
    [] e.kind = "map"      -> \A k \in DOMAIN e.map : WellFormed(e.map[k])
    [] e.kind = "strict"   -> e.inner.kind = "map" /\ WellFormed(e.inner)
    [] e.kind = "nullable" -> WellFormed(e.inner)
    [] e.kind \in RepKinds -> e.inner.kind \notin RepKinds /\ WellFormed(e.inner)

(* ------------------------------- matcher -------------------------------- *)
\* typecheckBaseType: isinstance(expr, T), under which a bool is an int
\* too, or a long where int is asked.
BaseMatch(v, T) == TypeOf(v) = T \/ (T = "int" /\ TypeOf(v) \in {"long", "bool"})

RECURSIVE Match(_, _), Walk(_, _), RunLength(_, _), MapMatch(_, _, _)

Match(v, e) ==
  CASE e.kind = "base"     -> BaseMatch(v, e.type)
    [] e.kind = "nullable" -> v = NoneV \/ Match(v, e.inner)
    [] e.kind = "seq"      -> v.kind = e.flavor /\ Walk(v.elems, e.elems) = "ok"
    [] e.kind = "map"      -> MapMatch(v, e, FALSE)
    [] e.kind = "strict"   -> MapMatch(v, e.inner, TRUE)

\* The number of leading elements of vs that each match x: what a greedy
\* ZeroOrMore/OneOrMore consumes.
RunLength(vs, x) ==
  IF vs # <<>> /\ Match(Head(vs), x) THEN 1 + RunLength(Tail(vs), x) ELSE 0

\* The sequence walk: schema nodes es against value elements vs, one cursor
\* into each, never giving back what a repetition consumed.  The result is
\* "ok" or the reason of the first failure.
Walk(vs, es) ==
  IF es = <<>> THEN IF vs = <<>> THEN "ok" ELSE "tooMany"
  ELSE LET e == Head(es) IN
    CASE e.kind = "optional" ->
           IF vs # <<>> /\ Match(Head(vs), e.inner)
             THEN Walk(Tail(vs), Tail(es)) ELSE Walk(vs, Tail(es))
      [] e.kind \in Repeats ->
           LET n == RunLength(vs, e.inner) IN
           IF e.kind = "oneOrMore" /\ n = 0 THEN "noneMatched"
           ELSE Walk(SubSeq(vs, n + 1, Len(vs)), Tail(es))
      [] OTHER ->
           IF vs = <<>> THEN "tooFew"
           ELSE IF Match(Head(vs), e) THEN Walk(Tail(vs), Tail(es))
           ELSE "mismatch"

\* typecheckDictionary: for each schema key, `key in expr`.  An
\* Optional(name) key is an instance compared by identity, never found in
\* the dict, so it is skipped and its value never checked; a plain key
\* must be present and its value match.  A strict schema admits no key
\* beyond the schema's names, Optional ones unboxed.
MapMatch(v, m, strict) ==
  /\ v.kind = "dict"
  /\ \A k \in DOMAIN m.map :
       k \in m.optional \/ (k \in DOMAIN v.map /\ Match(v.map[k], m.map[k]))
  /\ strict => DOMAIN v.map \subseteq DOMAIN m.map

\* The outcome of matching a sequence value against a sequence schema.
SeqVerdict(v, e) == IF v.kind # e.flavor THEN "notList" ELSE Walk(v.elems, e.elems)

(* ------------------------- reference semantics -------------------------- *)
\* The language reading of a sequence schema: some way of choosing how many
\* elements each Optional/ZeroOrMore/OneOrMore takes covers vs exactly.
RECURSIVE Lang(_, _)
Lang(vs, es) ==
  IF es = <<>> THEN vs = <<>>
  ELSE LET e == Head(es) IN
    CASE e.kind = "optional" ->
           \/ Lang(vs, Tail(es))
           \/ vs # <<>> /\ Match(Head(vs), e.inner) /\ Lang(Tail(vs), Tail(es))
      [] e.kind \in Repeats ->
           \E n \in (IF e.kind = "oneOrMore" THEN 1 ELSE 0)..Len(vs) :
              /\ \A k \in 1..n : Match(vs[k], e.inner)
              /\ Lang(SubSeq(vs, n + 1, Len(vs)), Tail(es))
      [] OTHER -> vs # <<>> /\ Match(Head(vs), e) /\ Lang(Tail(vs), Tail(es))
=============================================================================
