------------------------- MODULE MCScheduleTreeBuilder -------------------------
(***************************************************************************)
(* Small instances of ScheduleTreeBuilder.                                 *)
(***************************************************************************)
EXTENDS ScheduleTreeBuilder

Tree(type, data, kids) == Node([type |-> type, data |-> data], kids)
T(type, data) == Tree(type, data, <<Leaf>>)
B(type, data, kids) == Node([type |-> type, data |-> data, sub |-> NoSub], kids)

\* A filter below a filter below a sequence, bands with properties, an extension
\* with a set, an expansion above and in the middle.
MCExisting ==
  {Tree("domain", {"S", "R"},
     <<Tree("band", {"i", "permutable"},
         <<Tree("sequence", {},
             <<Tree("filter", {"S"}, <<T("filter", {"S"})>>),
               Tree("filter", {"R"}, <<T("band", {"j", "coincident"})>>)>>)>>)>>),
   Tree("domain", {"S", "R"},
     <<Tree("context", {"c"},
         <<Tree("extension", {"e"},
             <<Tree("set", {}, <<T("filter", {"S"}), T("filter", {"R"})>>)>>)>>)>>),
   Tree("domain", {"S"},
     <<Tree("mark", {"m"},
         <<Tree("expansion", {"x"}, <<T("band", {"k", "astOptions"})>>)>>)>>)}

L == LeafBuilder
Lazy == subtree(B("band", {"l", "permutable"}, <<L>>))

\* Leaves, builders of one node, malformed ones among them.
Small ==
  {L, Lazy, subtree(Lazy), B("band", {"i", "permutable"}, <<>>),
   B("leaf", {}, <<L>>), B("band", {"i"}, <<L, L>>),
   B("filter", {"S"}, <<Lazy>>), B("filter", {"S"}, <<L, L>>),
   B("mark", {"m"}, <<Lazy>>), B("sequence", {}, <<>>)}

\* Builders of sequences and sets: two filters each with zero or one child, or
\* with a child that is not a filter.
F(kids) == B("filter", {"R"}, kids)
Filters == {F(<<>>), F(<<L, L>>), F(<<Lazy>>), F(<<F(<<Lazy>>)>>),
            F(<<B("sequence", {}, <<F(<<>>), F(<<Lazy>>)>>)>>), B("band", {"i"}, <<>>)}
Branches == {B(type, {}, <<f, g>>) : type \in Branching, f, g \in Filters}

Chains(kids) ==
  {B(type, {"S"}, <<b>>) : type \in {"filter", "context", "guard", "band"}, b \in kids}
  \cup {B("extension", {"e"}, <<b>>) : b \in kids}
  \cup {B("expansion", {"x"}, <<b>>) : b \in kids}

Expansions ==
  {B("expansion", {"identity"}, <<L>>), B("expansion", {"x"}, <<>>),
   B("expansion", {"x"}, <<B("expansion", {"y"}, <<Lazy>>)>>),
   B("expansion", {"x"}, <<B("domain", {"S"}, <<L>>)>>)}

Deep == Small \cup Branches \cup Chains(Small) \cup Expansions
        \cup Chains({B(type, {}, <<F(<<>>), F(<<Lazy>>)>>) : type \in Branching})

MCBuilders == Deep \cup {B("domain", {"S", "R"}, <<b>>) : b \in Deep}

=============================================================================
