----------------------------- MODULE SeqMatcher -----------------------------
(***************************************************************************)
(* typecheckListOrTuple (typesystem.py 222-282) as the loop it runs: the  *)
(* schema cursor type_index (i), the value cursor expr_index (j) and      *)
(* found_match of the current repetition (taken > 0).  Each branch of the *)
(* loop body is one action; a nested element is decided by TypeExpr!Match, *)
(* the recursive typecheck the loop calls.                                  *)
(***************************************************************************)
EXTENDS TypeExpr

CONSTANTS Values,   \* the values handed to match()
          Schemas   \* the (well-formed) sequence schemas they are checked against

ASSUME \A e \in Schemas : e.kind = "seq" /\ WellFormed(e)

VARIABLES value, schema, i, j, taken, result
vars == <<value, schema, i, j, taken, result>>

Pending  == {"start", "running"}
Verdicts == {"ok", "notList", "tooFew", "mismatch", "noneMatched", "tooMany"}

Node    == schema.elems[i]
Elem    == value.elems[j]
HasElem == j <= Len(value.elems)
\* The current element exists and matches x: the probe of an Optional node
\* or of one more repetition, whose failure is swallowed.
Probe(x) == HasElem /\ Match(Elem, x)

Init ==
  /\ value \in Values /\ schema \in Schemas
  /\ i = 1 /\ j = 1 /\ taken = 0
  /\ result = "start"

\* Reject a value that is not the schema's container flavor.
CheckContainer ==
  /\ result = "start"
  /\ result' = IF value.kind = schema.flavor THEN "running" ELSE "notList"
  /\ UNCHANGED <<value, schema, i, j, taken>>

\* A plain node consumes exactly one element, or the match fails.
PlainNode ==
  /\ result = "running" /\ i <= Len(schema.elems)
  /\ Node.kind \notin RepKinds
  /\ \/ ~HasElem /\ result' = "tooFew" /\ UNCHANGED <<i, j>>
     \/ HasElem /\ Match(Elem, Node) /\ i' = i + 1 /\ j' = j + 1 /\ UNCHANGED result
     \/ HasElem /\ ~Match(Elem, Node) /\ result' = "mismatch" /\ UNCHANGED <<i, j>>
  /\ UNCHANGED <<value, schema, taken>>

\* Mutant: Optional(x) takes the next position whether or not it matches.
OptionalNodeAlwaysTake ==
  /\ result = "running" /\ i <= Len(schema.elems)
  /\ Node.kind = "optional"
  /\ i' = i + 1 /\ j' = j + 1
  /\ UNCHANGED <<value, schema, taken, result>>

\* Optional(x): take the element if it matches x, else take nothing.
OptionalNode ==
  /\ result = "running" /\ i <= Len(schema.elems)
  /\ Node.kind = "optional"
  /\ i' = i + 1
  /\ j' = IF Probe(Node.inner) THEN j + 1 ELSE j
  /\ UNCHANGED <<value, schema, taken, result>>

\* ZeroOrMore(x)/OneOrMore(x): one more element matches x, take it.
RepeatTake ==
  /\ result = "running" /\ i <= Len(schema.elems)
  /\ Node.kind \in Repeats
  /\ Probe(Node.inner)
  /\ j' = j + 1 /\ taken' = taken + 1
  /\ UNCHANGED <<value, schema, i, result>>

\* Mutant: OneOrMore is not checked for having taken anything.
RepeatStopNoCheck ==
  /\ result = "running" /\ i <= Len(schema.elems)
  /\ Node.kind \in Repeats
  /\ ~Probe(Node.inner)
  /\ i' = i + 1 /\ taken' = 0
  /\ UNCHANGED <<value, schema, j, result>>

\* Mutant: the end of a run does not move on to the next schema node.
RepeatStopStuck ==
  /\ result = "running" /\ i <= Len(schema.elems)
  /\ Node.kind \in Repeats
  /\ ~Probe(Node.inner)
  /\ IF Node.kind = "oneOrMore" /\ taken = 0
       THEN result' = "noneMatched" /\ UNCHANGED <<i, taken>>
       ELSE taken' = 0 /\ UNCHANGED <<i, result>>
  /\ UNCHANGED <<value, schema, j>>

\* The run ended: OneOrMore fails if it took nothing, else the next node.
RepeatStop ==
  /\ result = "running" /\ i <= Len(schema.elems)
  /\ Node.kind \in Repeats
  /\ ~Probe(Node.inner)
  /\ IF Node.kind = "oneOrMore" /\ taken = 0
       THEN result' = "noneMatched" /\ UNCHANGED <<i, taken>>
       ELSE i' = i + 1 /\ taken' = 0 /\ UNCHANGED result
  /\ UNCHANGED <<value, schema, j>>

\* The schema is exhausted: leftover elements are an error.
Finish ==
  /\ result = "running" /\ i > Len(schema.elems)
  /\ result' = IF HasElem THEN "tooMany" ELSE "ok"
  /\ UNCHANGED <<value, schema, i, j, taken>>

Next ==
  \/ CheckContainer \/ PlainNode \/ OptionalNode
  \/ RepeatTake \/ RepeatStop \/ Finish

Spec == Init /\ [][Next]_vars /\ WF_vars(Next)

(* ------------------------------ properties ------------------------------ *)
TypeOK ==
  /\ value \in Values /\ schema \in Schemas
  /\ i \in 1..Len(schema.elems) + 1
  /\ taken \in Nat
  /\ result \in Pending \cup Verdicts
  /\ result = "running" => j \in 1..Len(value.elems) + 1

\* Greedy consumption is sound: every sequence the loop accepts is one that
\* some choice of repetition lengths in the schema covers exactly.
GreedySound == result = "ok" => Lang(value.elems, schema.elems)

\* Greedy consumption is complete: every sequence some choice of repetition
\* lengths covers is accepted.  The module's KNOWN BUGS docstring says it is
\* not, for ZeroOrMore and OneOrMore.
GreedyComplete ==
  (result \notin Pending /\ value.kind = schema.flavor /\ Lang(value.elems, schema.elems))
     => result = "ok"

\* Every match call returns a verdict: no node makes the loop spin.
MatchTerminates == <>(result \notin Pending)
=============================================================================
