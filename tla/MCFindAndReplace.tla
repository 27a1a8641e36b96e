--------------------------- MODULE MCFindAndReplace ---------------------------
(***************************************************************************)
(* Small instances of FindAndReplace.                                      *)
(***************************************************************************)
EXTENDS FindAndReplace

CONSTANTS x, y, A, B, C, t

\* One access to each of three arrays.
MCUmaps ==
  {s \in UNION {[1..k -> Space] : k \in 0..Cardinality(Space)} : IsInjective(s)}

\* Patterns: twice in the accesses to A; in A and B; in B and C; in C only.
TwiceA == [s \in Space |-> IF s.array = A THEN <<x, y>> ELSE <<>>]
AorB == [s \in Space |-> IF s.array = C THEN <<>> ELSE <<x>>]
BorC == [s \in Space |-> IF s.array = A THEN <<>> ELSE <<y>>]
OnlyC == [s \in Space |-> IF s.array = C THEN <<x>> ELSE <<>>]

\* allOf for placeholders with the given ids and patterns.
AllOf(shape, ids, patterns) ==
  [pattern |-> patterns, id |-> ids, groups |-> shape,
   folds |-> FoldsOf(ids), grouped |-> FALSE, groupFolds |-> <<>>]

\* One replacement or two; some use a placeholder of the other pattern, or one
\* that no pattern has (id 7).
OneGroup == {<<{1}>>, <<{1, 2}>>}
TwoGroups == {<<{1}, {2}>>, <<{1, 2}, {3}>>}

MCCalls ==
  UNION {{[ps |-> AllOf(shape, ids, pats), replacement |-> rep] :
            ids \in {SubSeq(<<0, 1, 2>>, 1, Cardinality(UNION Range(shape))),
                     SubSeq(<<0, 1, 0>>, 1, Cardinality(UNION Range(shape)))},
            pats \in [1..Cardinality(UNION Range(shape)) ->
                        {TwiceA, AorB, BorC, OnlyC}],
            rep \in IF Len(shape) = 1 THEN {<<<<0>>>>, <<<<7>>>>}
                    ELSE {<<<<0>>, <<1, 0>>>>, <<<<1>>, <<7>>>>}} :
           shape \in OneGroup \cup TwoGroups}

Identity == {<<x, x>>, <<y, y>>}

=============================================================================
