---------------------------- MODULE MCAccessMatcher ----------------------------
(***************************************************************************)
(* Small instances of AccessMatcher.                                       *)
(***************************************************************************)
EXTENDS AccessMatcher

CONSTANTS x, y, A, B, t, untagged

\* One tagged and one untagged access to A, one access to B.
MCSpaces == {[tag |-> t, array |-> A], [tag |-> untagged, array |-> A],
             [tag |-> t, array |-> B]}

\* The union maps, in every order isl may visit their maps in.
MCAccesses ==
  {s \in UNION {[1..k -> MCSpaces] : k \in 0..Cardinality(MCSpaces)} :
     IsInjective(s)}

\* A pattern that matches twice in every map; one that captures what the
\* reference is tagged with; one that only matches accesses to B.
Twice == [s \in Space |-> <<x, y>>]
ByTag == [s \in Space |-> IF s.tag = t THEN <<x>> ELSE <<y>>]
OnlyB == [s \in Space |-> IF s.array = B THEN <<y>> ELSE <<>>]

\* How the placeholders are split into accesses: positions of each group.
Shapes == {<<>>, <<{1}>>, <<{1, 2}>>, <<{1}, {2}>>,
           <<{1, 2}, {3}>>, <<{1}, {2}, {3}>>}

\* allOf for placeholders with the given ids and patterns; arrays are the ids of
\* the array placeholders of the groups, if any.
AllOf(shape, ids, patterns, arrays) ==
  [pattern |-> patterns, id |-> ids, groups |-> shape,
   folds |-> [p \in DOMAIN ids |->
                CHOOSE q \in 1..p : /\ ids[q] = ids[p]
                                    /\ \A r \in 1..(q - 1) : ids[r] # ids[p]],
   grouped |-> arrays # <<>>,
   groupFolds |-> arrays]

\* The ids of n placeholders, up to renaming.
Ids(k) == {s \in [1..k -> 0..2] :
             /\ k > 0 => s[1] = 0
             /\ \A p \in 2..k : \E q \in 1..(p - 1) : s[p] <= s[q] + 1}

SetsOver(shapes, patterns) ==
  UNION {{AllOf(shape, ids, pats, arrays) :
            ids \in Ids(Cardinality(UNION Range(shape))),
            pats \in [1..Cardinality(UNION Range(shape)) -> patterns],
            arrays \in {<<>>} \cup
                       (IF Len(shape) = 2 THEN {<<0, 0>>, <<0, 1>>}
                        ELSE IF Len(shape) = 3 THEN {<<0, 1, 0>>} ELSE {})} :
           shape \in shapes}

MCPlaceholderSets ==
  SetsOver(Shapes, {Twice, OnlyB}) \cup
  SetsOver({s \in Shapes : Cardinality(UNION Range(s)) = 2}, {ByTag, Twice})

\* operator== of SingleInputDim: equal positions.
Identity == {<<x, x>>, <<y, y>>}

=============================================================================
