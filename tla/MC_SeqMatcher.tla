---------------------------- MODULE MC_SeqMatcher ----------------------------
(* Every list of up to three scalars (bool and None included) against     *)
(* every schema of up to three nodes drawn from each node kind, plus a     *)
(* tuple value, a tuple schema and a non-sequence value for the container *)
(* check.                                                                   *)
EXTENDS SeqMatcher

SeqsUpTo(S, n) == UNION {[1..k -> S] : k \in 0..n}

Elems == {Scalar("str"), Scalar("int"), Scalar("long"), Scalar("bool"), NoneV}

Nodes == {Base("str"), Base("int"), Nullable(Base("int")), Optional(Base("str")),
          ZeroOrMore(Base("str")), OneOrMore(Base("int"))}

MCValues ==
  {ListV(s) : s \in SeqsUpTo(Elems, 3)}
    \cup {TupleV(s) : s \in SeqsUpTo({Scalar("str")}, 2)}
    \cup {Scalar("str")}

MCSchemas == {ListSchema(s) : s \in SeqsUpTo(Nodes, 3)} \cup {TupleSchema(<<Base("str")>>)}
=============================================================================
