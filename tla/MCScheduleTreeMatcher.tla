------------------------- MODULE MCScheduleTreeMatcher -------------------------
(***************************************************************************)
(* Small instances of ScheduleTreeMatcher.                                 *)
(***************************************************************************)
EXTENDS ScheduleTreeMatcher

\* A schedule tree node of a type with child trees.
Tree(type, kids) == Node(type, kids)

Leaf == Tree("leaf", <<>>)
Band(t) == Tree("band", <<t>>)
Filter(t) == Tree("filter", <<t>>)

\* Nested bands; a sequence of filters of different depths; a set below a band;
\* an expansion; a sequence in a sequence of as many filters.
MCTrees ==
  {Tree("domain", <<Band(Band(Leaf))>>),
   Tree("domain", <<Tree("sequence", <<Filter(Leaf), Filter(Band(Leaf)),
                                       Filter(Leaf)>>)>>),
   Band(Tree("set", <<Filter(Band(Leaf)), Filter(Leaf)>>)),
   Tree("domain", <<Tree("expansion", <<Band(Leaf)>>)>>),
   Tree("sequence", <<Filter(Tree("sequence", <<Filter(Leaf), Filter(Leaf)>>)),
                      Filter(Band(Leaf))>>)}

AllPaths == UNION {DOMAIN t : t \in MCTrees}
\* A callback that accepts first children at an even depth, and one node more.
EvenPaths ==
  LET even == {p \in AllPaths : Len(p) % 2 = 0}
      first == {p \in AllPaths : p = <<>> \/ Last(p) = 1}
  IN _or(<<_and(<<even, first>>), {<<1, 2>>}>>)

Terminals ==
  {terminalMatcher("leaf", FALSE), terminalMatcher("anyTree", TRUE),
   terminalMatcher("anyForest", TRUE), terminalMatcher("anyForest", FALSE),
   terminalMatcher("filterForest", TRUE)}

Single(types, acc, kids) ==
  {typeMatcher(type, c, a, <<k>>) :
     type \in types, c \in BOOLEAN, a \in acc, k \in kids}

Filters == Single({"filter"}, {AllPaths},
                  {terminalMatcher("leaf", TRUE), terminalMatcher("anyTree", TRUE),
                   terminalMatcher("anyForest", TRUE)})
Lists == {<<terminalMatcher("anyForest", TRUE)>>,
          <<terminalMatcher("anyTree", TRUE), terminalMatcher("anyForest", TRUE)>>,
          <<terminalMatcher("anyForest", TRUE), terminalMatcher("anyTree", TRUE)>>}
         \cup [1..2 -> Filters] \cup [1..3 -> {terminalMatcher("anyTree", TRUE)}]

Nested == Single({"band", "filter", "domain"}, {AllPaths, EvenPaths}, Terminals)
Multiple == {typeMatcher(type, c, AllPaths, kids) :
               type \in {"sequence", "set"}, c \in {TRUE}, kids \in Lists}

\* loop(f) and loop(f, loop(f)); an expansion matcher.
Loops ==
  LET loop(k) == typeMatcher("loop", FALSE, AllPaths, <<k>>)
      any == terminalMatcher("anyTree", FALSE)
  IN  {loop(any), loop(loop(any)), typeMatcher("expansion", TRUE, AllPaths, <<any>>)}

MCMatchers ==
  Terminals \cup Nested \cup Multiple \cup Loops
    \cup Single({"band", "domain"}, {AllPaths},
                {k \in Nested : k[<<>>].captures} \cup Multiple)

=============================================================================
