---------------------------- MODULE ScheduleRewriter ----------------------------
(***************************************************************************)
(* Matchers and builders at work: the functions with which clients rewrite *)
(* a whole schedule tree, replaceDFSPreorderRepeatedly,                    *)
(* replaceDFSPreorderOnce and replaceDFSPostorderOnce, with the matchers   *)
(* and builders of mergeIfTilable, of markCoincident and of the data       *)
(* layout transformation of stencils (src/test/test_transformer.cc).       *)
(*                                                                         *)
(* The frames of the recursion are the prefixes of "node", and the loop of *)
(* a frame stands at the next element.  isMatching and insertAt are one    *)
(* step each: see ScheduleTreeMatcher and ScheduleTreeBuilder.             *)
(***************************************************************************)
EXTENDS Trees

CONSTANTS
  Deps,      \* dependences: records [source, sink] of statements
  Originals  \* schedule trees: functions from paths to the records below

(***************************************************************************)
(* A node of a schedule tree.  stmts is the set of a domain, filter or     *)
(* extension; a member of a band gives, for every dependence, the sign of  *)
(* the distance between its source and its sink; stencil says what the     *)
(* accesses of the statements below a band look like.                      *)
(***************************************************************************)
plain(type, stmts) ==
  [type |-> type, stmts |-> stmts, members |-> <<>>, permutable |-> FALSE,
   coincident |-> <<>>, stencil |-> FALSE]

Leaf == Node(plain("leaf", {}), <<>>)

\* A schedule tree starts with the domain; a band has one child and, for each of
\* its members, a coincidence flag.
IsSchedule(t) ==
  /\ IsTree(t) /\ t = [p \in DOMAIN t |-> t[p]]
  /\ t[<<>>].type = "domain"
  /\ \A p \in DOMAIN t :
       /\ t[p].members \in Seq([Deps -> Int])
       /\ Len(t[p].coincident) = Len(t[p].members)
       /\ IF t[p].type = "band" THEN children(p, t) = {1}
          ELSE t[p].members = <<>> /\ ~t[p].permutable

\* What insertAt makes of BandDescriptor(schedule): no property is set.
band(members, stencil) ==
  [plain("band", {}) EXCEPT !.members = members, !.stencil = stencil,
     !.coincident = [m \in 1..Len(members) |-> FALSE]]

\* What insertAt makes of subtreeBuilder(t): bands lose their properties.
copy(t) == [p \in DOMAIN t |-> IF t[p].type = "band"
                               THEN band(t[p].members, t[p].stencil) ELSE t[p]]

VARIABLES
  job,       \* "merge", "mark" or "layout"
  original,  \* the tree the client starts with
  tree,      \* the tree "node" belongs to
  node,      \* the node of the running frame
  i,         \* the child its loop comes to next
  pc,        \* "visit", "match", "cut", "insert", "loop", "leave", "done", "failed"
  captured   \* the subtree at the node that matched last

vars == <<job, original, tree, node, i, pc, captured>>

Init ==
  /\ job \in {"merge", "mark", "layout"}
  /\ original \in Originals
  /\ tree = original
  /\ node = <<>>
  /\ i = 1
  /\ pc = "visit"
  /\ captured = Leaf

-----------------------------------------------------------------------------
(***************************************************************************)
(* What holds at a node v of a tree t.                                     *)
(***************************************************************************)
Above(v) == {p \in {SubSeq(v, 1, k) : k \in 0..Len(v)} : p # v}

\* get_domain: the statements that get to v: the domain and extensions bring
\* them in, and the filters between there and v let them pass.
DomainOf(t, v) ==
  LET brings(p, s) == t[p].type \in {"domain", "extension"} /\ s \in t[p].stmts
      passes(p, s) == t[p].type = "filter" => s \in t[p].stmts
  IN  {s \in UNION {t[p].stmts : p \in Above(v)} :
         \E p \in Above(v) :
           /\ brings(p, s)
           /\ \A q \in Above(v) : IsStrictPrefix(p, q) => passes(q, s)}

Within(t, v) == {d \in Deps : {d.source, d.sink} \subseteq DomainOf(t, v)}

\* filterOutCarriedDependences: no band above v separates source and sink.
NotCarried(t, v) ==
  {d \in Within(t, v) :
     \A p \in Above(v) : \A m \in 1..Len(t[p].members) : t[p].members[m][d] = 0}

NonNegative(members, deps) ==
  \A m \in 1..Len(members) : \A d \in deps : members[m][d] >= 0

\* A bug: the dependences are filtered at the child, so that those the parent
\* carries are not looked at.
CanMergeAtChild(t, v) ==
  NonNegative(t[v].members \o t[Append(v, 1)].members, NotCarried(t, Append(v, 1)))

canMerge(t, v) ==
  NonNegative(t[v].members \o t[Append(v, 1)].members, NotCarried(t, v))

\* What the client starts with; bands are marked permutable only if they are.
ASSUME OriginalsAssumption ==
  \A t \in Originals :
    /\ IsSchedule(t)
    /\ \A p \in DOMAIN t :
         t[p].permutable => NonNegative(t[p].members, NotCarried(t, p))

detectCoincidence(t, v) ==
  [m \in 1..Len(t[v].members) |-> \A d \in Within(t, v) : t[v].members[m][d] = 0]

\* A bug: the dependences are filtered as for merging.
FailsOnCarried(t, v) ==
  Deps # {} /\ t[v].members # <<>> /\ NotCarried(t, v) = {}

\* With no dependence at all it returns early.  Otherwise it makes, for each member,
\* a set of the union of the distances between the statements of the band, which isl
\* refuses to do of an empty union: it has no space.
CoincidenceFails(t, v) ==
  Deps # {} /\ t[v].members # <<>> /\ Within(t, v) = {}

\* The matchers band(parent, band(canMergeCaptureChild, anyTree(grandchild))),
\* band(node, anyTree(child)) and band(is3Dstencil, anyTree()).
isMatching(t, v) ==
  /\ t[v].type = "band"
  /\ job = "merge" => t[Append(v, 1)].type = "band" /\ canMerge(t, v)
  /\ job = "layout" => t[v].stencil

\* A bug: the child goes first.
ReversedMerge(t) ==
  Node([band(t[<<1>>].members \o t[<<>>].members, t[<<>>].stencil) EXCEPT
          !.permutable = TRUE],
       <<copy(Subtree(t, <<1, 1>>))>>)

\* The builders, which read what was captured when they are called.
mergedBand(t) ==
  Node([band(t[<<>>].members \o t[<<1>>].members, t[<<>>].stencil) EXCEPT
          !.permutable = TRUE],
       <<copy(Subtree(t, <<1, 1>>))>>)

markedBand(t, coincident) ==
  Node([band(t[<<>>].members, t[<<>>].stencil) EXCEPT !.coincident = coincident],
       <<copy(Subtree(t, <<1>>))>>)

\* Copies to the new layout and back around the computation itself.
New == {"to", "from"}
aroundBand(t, core) ==
  LET zero == [d \in Deps |-> 0]
      move(s) == Node(plain("filter", {s}), <<Node(band(<<zero>>, FALSE), <<Leaf>>)>>)
  IN  Node(plain("extension", New),
        <<Node(plain("sequence", {}),
            <<move("to"), Node(plain("filter", core), <<copy(t)>>), move("from")>>)>>)

-----------------------------------------------------------------------------
\* A bug: every job visits a node before its children.
AlwaysPreorder == TRUE

preorder == job \in {"merge", "mark"}

\* A preorder function tries the node first, a postorder function its children.
Visit ==
  /\ pc = "visit"
  /\ pc' = IF preorder THEN "match" ELSE "loop"
  /\ i' = 1
  /\ UNCHANGED <<job, original, tree, node, captured>>

Match ==
  /\ pc = "match"
  /\ isMatching(tree, node)
  /\ captured' = Subtree(tree, node)
  /\ pc' = "cut"
  /\ UNCHANGED <<job, original, tree, node, i>>

AfterNode == IF preorder THEN "loop" ELSE "leave"

NoMatch ==
  /\ pc = "match"
  /\ ~isMatching(tree, node)
  /\ pc' = AfterNode
  /\ i' = 1
  /\ UNCHANGED <<job, original, tree, node, captured>>

\* rebuild: the subtree is cut, and the builder inserted at its place.
Cut ==
  /\ pc = "cut"
  /\ tree' = Replace(tree, node, Leaf)
  /\ pc' = "insert"
  /\ UNCHANGED <<job, original, node, i, captured>>

\* What was captured is still a node of the tree before the cut.
Whole == Replace(tree, node, captured)

Replacement ==
  CASE job = "merge" -> mergedBand(captured)
    [] job = "mark" -> markedBand(captured, detectCoincidence(Whole, node))
    [] job = "layout" -> aroundBand(captured, DomainOf(Whole, node))

BuilderFails == job = "mark" /\ CoincidenceFails(Whole, node)

\* Two bugs: the matcher is not tried again; the new tree is dropped.
InsertsOnce ==
  /\ pc = "insert"
  /\ ~BuilderFails
  /\ tree' = Replace(tree, node, Replacement)
  /\ pc' = AfterNode
  /\ i' = 1
  /\ UNCHANGED <<job, original, node, captured>>

DropsResult ==
  /\ pc = "insert"
  /\ ~BuilderFails
  /\ tree' = Replace(tree, node, captured)
  /\ pc' = IF job = "merge" THEN "match" ELSE AfterNode
  /\ i' = 1
  /\ UNCHANGED <<job, original, node, captured>>

\* replaceRepeatedly tries the matcher again, replaceOnce does not.
Insert ==
  /\ pc = "insert"
  /\ ~BuilderFails
  /\ tree' = Replace(tree, node, Replacement)
  /\ pc' = IF job = "merge" THEN "match" ELSE AfterNode
  /\ i' = 1
  /\ UNCHANGED <<job, original, node, captured>>

\* The error of isl ends the model: the flags and the tree are then not those of
\* anything that was asked for.
InsertFails ==
  /\ pc = "insert"
  /\ BuilderFails
  /\ pc' = "failed"
  /\ UNCHANGED <<job, original, tree, node, i, captured>>

nChildren == Cardinality(children(node, tree))

\* A bug: the loop runs once too often.
DescendsFurther ==
  /\ pc = "loop"
  /\ i <= nChildren + 1
  /\ node' = Append(node, i)
  /\ pc' = "visit"
  /\ UNCHANGED <<job, original, tree, i, captured>>

Descend ==
  /\ pc = "loop"
  /\ i <= nChildren
  /\ node' = Append(node, i)
  /\ pc' = "visit"
  /\ UNCHANGED <<job, original, tree, i, captured>>

LoopDone ==
  /\ pc = "loop"
  /\ i > nChildren
  /\ pc' = IF preorder THEN "leave" ELSE "match"
  /\ UNCHANGED <<job, original, tree, node, i, captured>>

\* .parent()
Leave ==
  /\ pc = "leave"
  /\ node # <<>>
  /\ node' = Front(node)
  /\ i' = Last(node) + 1
  /\ pc' = "loop"
  /\ UNCHANGED <<job, original, tree, captured>>

Return ==
  /\ pc = "leave"
  /\ node = <<>>
  /\ pc' = "done"
  /\ UNCHANGED <<job, original, tree, node, i, captured>>

Next ==
  \/ Visit
  \/ Match
  \/ NoMatch
  \/ Cut
  \/ Insert
  \/ InsertFails
  \/ Descend
  \/ LoopDone
  \/ Leave
  \/ Return

Spec == Init /\ [][Next]_vars

\* The functions are called and run to their end.
FairSpec == Spec /\ WF_vars(Next)

-----------------------------------------------------------------------------
(***************************************************************************)
(* Properties.                                                             *)
(***************************************************************************)

\* The node of the running frame is a node of the tree, whatever was built
\* there; a band has a coincidence flag for each member.
TypeOK ==
  /\ pc \in {"visit", "match", "cut", "insert", "loop", "leave", "done", "failed"}
  /\ node \in DOMAIN tree
  /\ i \in Nat \ {0}
  /\ \A p \in DOMAIN tree :
       /\ tree[p].type = "band" => Append(p, 1) \in DOMAIN tree
       /\ Len(tree[p].coincident) = Len(tree[p].members)

\* The leaves at which something of the program is executed.
Executes(t) == {p \in DOMAIN t : children(p, t) = {} /\ ~(DomainOf(t, p) \subseteq New)}

\* All band members above p, from the outermost to the innermost.
MembersAbove(t, p) ==
  FlattenSeq([k \in 1..Len(p) |-> t[SubSeq(p, 1, k - 1)].members])

\* Whatever is merged, marked or wrapped, the statements of the program are
\* executed in the same order: the leaves keep their order, and each of them its
\* statements and all band members above it, so that no band is lost, repeated or
\* moved when a capture of one tree is built into the next.
OrderIsKept ==
  pc \notin {"insert", "failed"} =>
    \E f \in Bijection(Executes(original), Executes(tree)) :
      \A p \in Executes(original) :
        /\ \A q \in Executes(original) : Before(p, q) => Before(f[p], f[q])
        /\ DomainOf(tree, f[p]) = DomainOf(original, p)
        /\ MembersAbove(tree, f[p]) = MembersAbove(original, p)

\* "Permutability condition: there are no negative distances along the
\* dimensions that are not carried until now": of every band marked permutable,
\* at every moment.
PermutableIsSound ==
  \A p \in DOMAIN tree :
    tree[p].permutable => NonNegative(tree[p].members, NotCarried(tree, p))

\* Merging is complete: one pass in preorder leaves nothing to merge, although
\* no node is visited again when the bands below it have changed.
NothingLeftToMerge ==
  pc = "done" /\ job = "merge" => \A p \in DOMAIN tree : ~isMatching(tree, p)

\* Marking is complete: the builder of an outer band copies the inner ones
\* without their flags, so every band is marked only if they come later.
EveryBandIsMarked ==
  pc = "done" /\ job = "mark" =>
    \A p \in DOMAIN tree :
      tree[p].type = "band" => tree[p].coincident = detectCoincidence(tree, p)

\* The replacement of the layout transformation contains the band it replaces,
\* which matches again: no band is wrapped twice, and at the end every one is.
WrappedOnce ==
  LET stencils(t) == {p \in DOMAIN t : t[p].type = "band" /\ t[p].stencil}
      wrapped == {p \in stencils(tree) :
                    Len(p) >= 3 /\ tree[Front(Front(Front(p)))].type = "extension"}
      extensions(t) == {p \in DOMAIN t : t[p].type = "extension"}
  IN  job = "layout" =>
        /\ Cardinality(extensions(tree)) <=
             Cardinality(extensions(original)) + Cardinality(stencils(original))
        /\ pc = "done" => wrapped = stencils(tree)

\* Every band is rewritten once, though marking an outer band after an inner one
\* would undo it and wrapping a band would never end before the bands below it
\* (test_transformer.cc:1631-1672, 1748-1768, 2373-2382).
EachBandOnce == EveryBandIsMarked /\ WrappedOnce

\* The bands with members between whose statements there is no dependence.
Unrelated(t) ==
  {p \in DOMAIN t : /\ t[p].type = "band" /\ t[p].members # <<>>
                    /\ \A d \in Deps : ~({d.source, d.sink} \subseteq DomainOf(t, p))}

\* Whether marking fails is decided by the tree it is given and not by the order in
\* which bands are replaced: it fails if, in a program with dependences, there are
\* none between the statements of some band, and completes otherwise, with all bands
\* marked.  The other uses complete (test_transformer.cc:1726-1735, 1748-1768).
FailsOnUnrelated ==
  LET fails == job = "mark" /\ Deps # {} /\ Unrelated(original) # {}
  IN  /\ pc = "failed" => fails
      /\ pc = "done" => ~fails

\* The rewriting ends.
Ends == <>(pc \in {"done", "failed"})

=============================================================================
