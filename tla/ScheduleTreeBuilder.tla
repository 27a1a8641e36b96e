-------------------------- MODULE ScheduleTreeBuilder --------------------------
(***************************************************************************)
(* Schedule tree builders: insertAt and build, which insert the nodes a    *)
(* builder describes while they carry one isl::schedule_node up and down   *)
(* the tree, and subtreeBuilder, which makes the builder of a given tree   *)
(* (src/islutils/builders.h, builders.cc).                                 *)
(*                                                                         *)
(* A node of a schedule tree is [type, data], where data is a set: the     *)
(* statements of a filter, the schedule of a band together with its        *)
(* properties.  A node of a builder is [type, data, sub]: data is what its *)
(* callback returns, sub holds what subBuilder_ returns, if there is one.  *)
(*                                                                         *)
(* The frames of the recursion are the prefixes of "at", as in             *)
(* ScheduleTreeMatcher.                                                    *)
(***************************************************************************)
EXTENDS Trees

CONSTANTS
  Existing,  \* schedule trees to insert into
  Builders   \* builders, as a client writes them

(***************************************************************************)
(* BandDescriptor: what it keeps of a band when made from its schedule.    *)
(***************************************************************************)
BandProperty == {"coincident", "permutable", "astOptions"}

fromSchedule(data) == data \ BandProperty

Single == {"band", "filter", "context", "domain", "guard", "mark", "extension"}
Branching == {"sequence", "set"}

NoSub == <<>>
LeafBuilder == Node([type |-> "leaf", data |-> {}, sub |-> NoSub], <<>>)

\* subtree(...): a leaf that is built by another builder.
subtree(b) == [LeafBuilder EXCEPT ![<<>>].sub = <<b>>]

\* A bug: band properties and the statements of filters are lost.
CopiesNoData(t) ==
  [p \in DOMAIN t |-> [type |-> t[p].type, data |-> {}, sub |-> NoSub]]

subtreeBuilder(t) ==
  [p \in DOMAIN t |->
     [type |-> t[p].type,
      data |-> IF t[p].type = "band" THEN fromSchedule(t[p].data) ELSE t[p].data,
      sub |-> NoSub]]

\* The overload context(set, child) does not pass the child on; all the others
\* that take a value do.
withValues(b) ==
  LET dropped == {p \in DOMAIN b : \E q \in DOMAIN b :
                    b[q].type = "context" /\ IsStrictPrefix(q, p)}
      kept == {p \in DOMAIN b : p \notin dropped}
      leaves == {Append(q, 1) : q \in {q \in kept : b[q].type = "context"}}
  IN  [p \in kept \cup leaves |-> IF p \in leaves THEN LeafBuilder[<<>>] ELSE b[p]]

VARIABLES
  given,    \* the call: the tree, the node to insert at, what the client wrote
  tree,     \* the schedule tree "node" belongs to
  node,     \* the isl::schedule_node of the running frame
  builder,  \* the builder, with the results of subBuilder_ in place
  at,       \* the builder node of the running frame
  pc,       \* "enter", "loop" and "leave": insertAt; "done", "died"
  child,    \* the child the loop of a sequence or set handles next
  outer,    \* the trees and nodes of the expansions that are being built
  called    \* the callbacks called so far: the builder nodes they belong to,
            \* and for subBuilder_ what it returns

vars == <<given, tree, node, builder, at, pc, child, outer, called>>

Leaf == Node([type |-> "leaf", data |-> {}], <<>>)

\* isl inserts a node between any node and its parent, but not above the root,
\* nor between a sequence or set and its filters.
Insertable(t) ==
  {v \in DOMAIN t : v # <<>> /\ t[Front(v)].type \notin Branching}

\* build() starts from the null node, insertAt from a node; a client that
\* replaces a subtree cuts it before.
Calls ==
  {[op |-> "build", original |-> <<>>, tree |-> <<>>, start |-> <<>>, copy |-> FALSE,
    written |-> b, values |-> v] : b \in Builders, v \in BOOLEAN}
  \cup UNION {
    {[op |-> "insertAt", original |-> t, tree |-> IF cut THEN Replace(t, v, Leaf) ELSE t,
      start |-> v, copy |-> FALSE, written |-> b, values |-> FALSE] :
        v \in Insertable(t), b \in Builders, cut \in BOOLEAN}
    \cup
    {[op |-> "insertAt", original |-> t, tree |-> Replace(t, v, Leaf), start |-> v,
      copy |-> TRUE, written |-> subtree(subtreeBuilder(Subtree(t, v))),
      values |-> FALSE] : v \in Insertable(t)}
    : t \in Existing}

Init ==
  /\ given \in Calls
  /\ tree = given.tree
  /\ node = given.start
  /\ builder = IF given.values THEN withValues(given.written) ELSE given.written
  /\ at = <<>>
  /\ pc = IF given.op = "build" /\ builder[<<>>].type # "domain" THEN "died" ELSE "enter"
  /\ child = 1
  /\ outer = <<>>
  /\ called = <<>>

-----------------------------------------------------------------------------
self == builder[at]
arity(p) == Cardinality(children(p, builder))
islNode(p) == [type |-> builder[p].type, data |-> builder[p].data]

\* insert_filter at a filter merges the two; all others put the new node above
\* the old subtree.
Hung(x, old) ==
  IF x.type = "filter" /\ old[<<>>].type = "filter"
  THEN [old EXCEPT ![<<>>].data = @ \cap x.data]
  ELSE Node(x, <<old>>)

\* A bug: the extension is hung above the old subtree, as all other types are.
ExtensionKeepsSubtree(x, v) ==
  IF x.type = "domain" THEN Node(x, <<Leaf>>)
  ELSE Replace(tree, v, Hung(x, Subtree(tree, v)))

\* The tree with a node of a single-child type inserted at v.  An extension is
\* grafted together with a sequence, which is cut again, and with it what was
\* at v; a domain is the root of a new tree.
Inserted(x, v) ==
  CASE x.type = "domain" -> Node(x, <<Leaf>>)
    [] x.type = "extension" -> Replace(tree, v, Node(x, <<Leaf>>))
    [] OTHER -> Replace(tree, v, Hung(x, Subtree(tree, v)))

\* A bug: further children are not noticed.
IgnoresChildren ==
  /\ pc = "enter"
  /\ self.type \in Single
  /\ self.type = "domain" => DOMAIN tree = {}
  /\ tree' = Inserted(islNode(at), node)
  /\ called' = Append(called, [at |-> at, sub |-> NoSub])
  /\ IF arity(at) = 0
     THEN pc' = "leave" /\ UNCHANGED <<node, at>>
     ELSE pc' = "enter" /\ node' = Append(node, 1) /\ at' = Append(at, 1)
  /\ UNCHANGED <<given, builder, child, outer>>

\* insertSingleChildTypeNodeAt
EnterSingle ==
  /\ pc = "enter"
  /\ self.type \in Single
  /\ arity(at) <= 1
  /\ self.type = "domain" => DOMAIN tree = {}
  /\ tree' = Inserted(islNode(at), node)
  /\ called' = Append(called, [at |-> at, sub |-> NoSub])
  /\ IF arity(at) = 0
     THEN pc' = "leave" /\ UNCHANGED <<node, at>>
     ELSE pc' = "enter" /\ node' = Append(node, 1) /\ at' = Append(at, 1)
  /\ UNCHANGED <<given, builder, child, outer>>

\* collectChildFilters, and the insertion of a sequence or set with its filters
\* above copies of the old subtree.
EnterBranching ==
  /\ pc = "enter"
  /\ self.type \in Branching
  /\ arity(at) > 0
  /\ \A i \in 1..arity(at) : builder[Append(at, i)].type = "filter"
  /\ tree' = Replace(tree, node,
               Node(islNode(at), [i \in 1..arity(at) |->
                      Hung(islNode(Append(at, i)), Subtree(tree, node))]))
  /\ called' = called \o [i \in 1..arity(at) |-> [at |-> Append(at, i), sub |-> NoSub]]
  /\ child' = 1
  /\ pc' = "loop"
  /\ UNCHANGED <<given, node, builder, at, outer>>

\* A bug: the filter is built once more when the loop comes to it.
FilterTwice ==
  /\ pc = "loop"
  /\ child <= arity(at)
  /\ arity(Append(at, child)) = 1
  /\ node' = Append(node, child)
  /\ at' = Append(at, child)
  /\ pc' = "enter"
  /\ UNCHANGED <<given, tree, builder, child, outer, called>>

\* The loop goes on below the filter.
EnterFilter ==
  /\ pc = "loop"
  /\ child <= arity(at)
  /\ arity(Append(at, child)) = 1
  /\ node' = node \o <<child, 1>>
  /\ at' = at \o <<child, 1>>
  /\ pc' = "enter"
  /\ UNCHANGED <<given, tree, builder, child, outer, called>>

\* A filter without children: the loop goes to it and back.
SkipFilter ==
  /\ pc = "loop"
  /\ child <= arity(at)
  /\ arity(Append(at, child)) = 0
  /\ child' = child + 1
  /\ UNCHANGED <<given, tree, node, builder, at, pc, outer, called>>

LoopDone ==
  /\ pc = "loop"
  /\ child > arity(at)
  /\ pc' = "leave"
  /\ UNCHANGED <<given, tree, node, builder, at, child, outer, called>>

EnterLeaf ==
  /\ pc = "enter"
  /\ self.type = "leaf"
  /\ arity(at) = 0
  /\ self.sub = NoSub
  /\ pc' = "leave"
  /\ UNCHANGED <<given, tree, node, builder, at, child, outer, called>>

\* return subBuilder_().insertAt(node)
EnterSub ==
  /\ pc = "enter"
  /\ self.type = "leaf"
  /\ arity(at) = 0
  /\ self.sub # NoSub
  /\ builder' = Replace(builder, at, self.sub[1])
  /\ called' = Append(called, [at |-> at, sub |-> self.sub])
  /\ UNCHANGED <<given, tree, node, at, pc, child, outer>>

\* expandTree builds the tree below the expansion on its own, under a domain.
EnterExpansion ==
  /\ pc = "enter"
  /\ self.type = "expansion"
  /\ "identity" \notin self.data
  /\ arity(at) > 0
  /\ outer' = Append(outer, [tree |-> tree, node |-> node])
  /\ tree' = Node([type |-> "domain", data |-> {}], <<Leaf>>)
  /\ node' = <<1>>
  /\ at' = Append(at, 1)
  /\ called' = Append(called, [at |-> at, sub |-> NoSub])
  /\ UNCHANGED <<given, builder, pc, child>>

-----------------------------------------------------------------------------
LeavesOf(t) == {p \in DOMAIN t : t[p].type = "leaf"}

\* t with s in the place of each of its leaves.
Planted(t, s) ==
  [q \in (DOMAIN t \ LeavesOf(t)) \cup
         {l \o r : l \in LeavesOf(t), r \in DOMAIN s} |->
     IF q \in DOMAIN t \ LeavesOf(t) THEN t[q]
     ELSE s[CHOOSE r \in DOMAIN s : \E l \in LeavesOf(t) : q = l \o r]]

\* The expansion, with the tree built for it, replaces the leaves below the node
\* expandTree was called on (isl_schedule_expand), where a mark was put to find
\* the place again.
LeaveExpansion ==
  /\ pc = "leave"
  /\ at # <<>>
  /\ builder[Front(at)].type = "expansion"
  /\ LET x == Last(outer)
         expanded == Node(islNode(Front(at)), <<Subtree(tree, <<1>>)>>)
     IN  /\ tree' = Replace(x.tree, x.node,
                            Planted(Subtree(x.tree, x.node), expanded))
         /\ node' = x.node
  /\ outer' = Front(outer)
  /\ at' = Front(at)
  /\ UNCHANGED <<given, builder, pc, child, called>>

\* The builder node above is a filter that was inserted with its sequence or set.
BelowFilter ==
  Len(at) >= 2 /\ builder[Front(Front(at))].type \in Branching

\* A bug: only one of the two parent() is taken.
OneParentMissing ==
  /\ pc = "leave"
  /\ BelowFilter
  /\ at' = Front(Front(at))
  /\ node' = Front(node)
  /\ child' = Last(Front(at)) + 1
  /\ pc' = "loop"
  /\ UNCHANGED <<given, tree, builder, outer, called>>

LeaveBelowFilter ==
  /\ pc = "leave"
  /\ BelowFilter
  /\ at' = Front(Front(at))
  /\ node' = Front(Front(node))
  /\ child' = Last(Front(at)) + 1
  /\ pc' = "loop"
  /\ UNCHANGED <<given, tree, builder, outer, called>>

LeaveSingle ==
  /\ pc = "leave"
  /\ at # <<>>
  /\ ~BelowFilter
  /\ builder[Front(at)].type \in Single
  /\ at' = Front(at)
  /\ node' = Front(node)
  /\ UNCHANGED <<given, tree, builder, pc, child, outer, called>>

Return ==
  /\ pc = "leave"
  /\ at = <<>>
  /\ pc' = "done"
  /\ UNCHANGED <<given, tree, node, builder, at, child, outer, called>>

\* The failed assertions of insertAt, and children_.at(0) without children.
Malformed(p) ==
  \/ builder[p].type \in Single /\ arity(p) > 1
  \/ /\ builder[p].type \in Branching
     /\ \/ arity(p) = 0
        \/ \E i \in 1..arity(p) : builder[Append(p, i)].type # "filter"
  \/ builder[p].type = "expansion" /\ ("identity" \in builder[p].data \/ arity(p) = 0)
  \/ builder[p].type = "leaf" /\ arity(p) > 0
  \/ builder[p].type = "domain" /\ p # <<>>

EnterDies ==
  /\ pc = "enter"
  /\ Malformed(at) \/ (self.type = "domain" /\ DOMAIN tree # {})
  /\ pc' = "died"
  /\ UNCHANGED <<given, tree, node, builder, at, child, outer, called>>

\* "more than one child of a filter node"
LoopDies ==
  /\ pc = "loop"
  /\ child <= arity(at)
  /\ arity(Append(at, child)) > 1
  /\ pc' = "died"
  /\ UNCHANGED <<given, tree, node, builder, at, child, outer, called>>

Next ==
  \/ EnterSingle
  \/ EnterBranching
  \/ EnterFilter
  \/ SkipFilter
  \/ LoopDone
  \/ EnterLeaf
  \/ EnterSub
  \/ EnterExpansion
  \/ LeaveExpansion
  \/ LeaveBelowFilter
  \/ LeaveSingle
  \/ Return
  \/ EnterDies
  \/ LoopDies

Spec == Init /\ [][Next]_vars

-----------------------------------------------------------------------------
(***************************************************************************)
(* Properties.                                                             *)
(***************************************************************************)

\* The node of the running frame and its builder node exist.
TypeOK ==
  /\ pc \in {"enter", "loop", "leave", "done", "died"}
  /\ at \in DOMAIN builder
  /\ node \in DOMAIN tree \cup {<<>>}
  /\ child \in Nat
  /\ \A i \in 1..Len(outer) : outer[i].node \in DOMAIN outer[i].tree
  /\ \A i \in 1..Len(called) : called[i].at \in DOMAIN builder

(***************************************************************************)
(* The tree a builder stands for, where "rest" is what the builder's       *)
(* leaves are above of.                                                    *)
(***************************************************************************)
Merges(p, rest) == builder[p].type = "filter" /\ rest[<<>>].type = "filter"

Below(p, rest) ==
  CASE builder[p].type \in {"domain", "extension", "expansion"} -> Leaf
    [] Merges(p, rest) -> Subtree(rest, <<1>>)
    [] OTHER -> rest

Built(old) ==
  LET Rest[p \in DOMAIN builder] ==
        IF p = <<>> THEN old ELSE Below(Front(p), Rest[Front(p)])
      Grown[p \in DOMAIN builder] ==
        LET kids == [i \in 1..arity(p) |-> Grown[Append(p, i)]]
            below == IF kids = <<>> THEN <<Below(p, Rest[p])>> ELSE kids
        IN  CASE builder[p].type = "leaf" -> Rest[p]
              [] builder[p].type = "expansion" ->
                   Planted(Rest[p], Node(islNode(p), below))
              [] Merges(p, Rest[p]) ->
                   Node([islNode(p) EXCEPT !.data = @ \cap Rest[p][<<>>].data], below)
              [] OTHER -> Node(islNode(p), below)
  IN  Grown[<<>>]

\* insertAt inserts the tree the builder stands for, leaves every other node of
\* the schedule tree as it is and returns the node it was called on, whatever
\* the isl calls did to the pointer in between; clients take parent() of it.
BuildsTheTree ==
  pc = "done" =>
    /\ node = given.start
    /\ tree = Replace(given.tree, given.start,
                      Built(IF given.op = "build" THEN Leaf
                            ELSE Subtree(given.tree, given.start)))

\* "each property-creation function object will be called at most once during
\* tree construction": also those of filters, which the sequence collects before
\* anything below it is built, and the lazy ones.
CallbacksOnce ==
  \A i, j \in 1..Len(called) : i # j => called[i] # called[j]

\* A tree is only returned for a builder all of whose nodes, those made late by
\* subtree(...) included, have the children their type may have.
OnlyWellFormedBuilds == pc = "done" => \A p \in DOMAIN builder : ~Malformed(p)

\* A copied subtree has the nodes of the original, with the schedules of its
\* bands and the data of all others.
CopyKeepsStructure ==
  pc = "done" /\ given.copy =>
    /\ DOMAIN tree = DOMAIN given.original
    /\ \A p \in DOMAIN tree :
         /\ tree[p].type = given.original[p].type
         /\ IF tree[p].type = "band"
            THEN fromSchedule(tree[p].data) = fromSchedule(given.original[p].data)
            ELSE tree[p].data = given.original[p].data

=============================================================================
