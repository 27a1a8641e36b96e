-------------------------- MODULE ScheduleTreeMatcher --------------------------
(***************************************************************************)
(* Structural matchers on schedule trees: isMatching, and the searches     *)
(* that call it on one node after the other (src/islutils/matchers.h,      *)
(* matchers-inl.h, matchers.cc).                                           *)
(*                                                                         *)
(* A node of a schedule tree is the path to it from the root, the sequence *)
(* of the (1-based) child positions; so is a node of a matcher.  While     *)
(* isMatching runs, the node that is matched against the matcher node "at" *)
(* is start \o at, and the frames of the recursion are the prefixes of     *)
(* "at": the caller's loop stands at the last element of "at".             *)
(***************************************************************************)
EXTENDS Trees

CONSTANTS
  Trees,    \* schedule trees: functions from paths to isl node types
  Matchers  \* matchers: functions from paths to [type, captures, accepts]

ASSUME TreesAssumption == \A t \in Trees : IsTree(t)

(***************************************************************************)
(* ScheduleNodeType.  Loop is a band; toIslType knows all others by their  *)
(* own name, except three that have no isl type and expansion, which has   *)
(* one that toIslType does not know.                                       *)
(***************************************************************************)
Wildcard == {"anyTree", "anyForest"}
Unconvertible == {"expansion", "filterForest"}

\* No factory function gives children to a matcher for any tree or forest.
ASSUME MatchersAssumption ==
  \A matcher \in Matchers :
    /\ IsTree(matcher)
    /\ \A p \in DOMAIN matcher :
         matcher[p].type \in Wildcard => children(p, matcher) = {}

toIslType(type) == IF type = "loop" THEN "band" ELSE type

(***************************************************************************)
(* The factory functions: a matcher node of a type, with child matchers.   *)
(* captures says whether a variable to capture in was passed; accepts is   *)
(* the set of tree nodes for which the callback, if any, returns true.     *)
(***************************************************************************)
typeMatcher(type, captures, accepts, kids) ==
  Node([type |-> type, captures |-> captures, accepts |-> accepts], kids)

\* leaf, anyTree, anyForest and filterForest have no children and no callback.
terminalMatcher(type, captures) ==
  typeMatcher(type, captures, UNION {DOMAIN t : t \in Trees}, <<>>)

\* Callbacks made of callbacks: those after the first that decides are not called.
_and(callbacks) == {v \in callbacks[1] : \A i \in DOMAIN callbacks : v \in callbacks[i]}
_or(callbacks) == UNION Range(callbacks)

VARIABLES
  tree, matcher, \* the schedule tree, the matcher
  op, node,      \* the search called, and the node it is called on
  pc,            \* "call", "next": the loop of the search, "enter", "loop" and
                 \* "leave": the body of isMatching, "done", "died"
  todo,          \* the nodes the search has not tried yet
  start,         \* the node isMatching was called on
  at,            \* the matcher node of the running frame
  child,         \* the child its loop tries next
  result,        \* what isMatching returned last
  capture,       \* the variables matcher nodes capture in: NoNode or a node
  multiCapture   \* the vectors AnyForest nodes capture in

input == <<tree, matcher, op, node>>
captures == <<capture, multiCapture>>
vars == <<input, pc, todo, start, at, child, result, captures>>

\* The null isl::schedule_node; no path is a string.
NoNode == <<0>>

nChildren(v) == Cardinality(children(v, tree))
Position(v) == Last(v)
hasPrevious(v) == v # <<>> /\ Position(v) > 1

\* A node and its next siblings, in order.
ThisAndNextSiblings(v) ==
  IF v = <<>> THEN <<v>>
  ELSE [k \in 1..(nChildren(Front(v)) - Position(v) + 1) |->
          Append(Front(v), Position(v) + k - 1)]

nextIsAnyForest(p) ==
  /\ children(p, matcher) = {1}
  /\ matcher[Append(p, 1)].type = "anyForest"

-----------------------------------------------------------------------------
(***************************************************************************)
(* The searches: the nodes isMatching is called on, in order, until it     *)
(* returns true.  The order in which isl visits descendants and ancestors  *)
(* is that of isl_schedule_node_foreach_descendant_top_down, which starts  *)
(* at the node, and of ..._foreach_ancestor_top_down, which starts at the  *)
(* root and leaves the node out.                                           *)
(***************************************************************************)
Siblings(v) == IF v = <<>> THEN {} ELSE {Append(Front(v), i) :
                                          i \in children(Front(v), tree)}

InOrder(S, Less(_, _)) ==
  [k \in 1..Cardinality(S) |->
     CHOOSE v \in S : Cardinality({w \in S : Less(w, v)}) = k - 1]

\* A bug: the siblings are looked at from the first to the last.
VisitedFromTheFirst(o, v) ==
  CASE o = "isMatching" -> <<v>>
    [] o \in {"hasPreviousSibling", "hasNextSibling", "hasSibling"} ->
         InOrder(Siblings(v) \ {v}, Before)
    [] OTHER -> InOrder(DOMAIN tree, Before)

Visited(o, v) ==
  LET previous == {s \in Siblings(v) : Before(s, v)}
      next == {s \in Siblings(v) : Before(v, s)}
      after(p, q) == Before(q, p)
  IN  CASE o = "isMatching" -> <<v>>
        [] o = "hasPreviousSibling" -> InOrder(previous, after)
        [] o = "hasNextSibling" -> InOrder(next, Before)
        [] o = "hasSibling" ->
             InOrder(previous, after) \o InOrder(next, Before)
        [] o = "hasDescendant" ->
             InOrder({d \in DOMAIN tree : IsPrefix(v, d)}, Before)
        [] o = "hasAncestor" ->
             InOrder({d \in DOMAIN tree : IsStrictPrefix(d, v)}, Before)

Op == {"isMatching", "hasPreviousSibling", "hasNextSibling", "hasSibling",
       "hasDescendant", "hasAncestor"}

Init ==
  /\ tree \in Trees
  /\ matcher \in Matchers
  /\ op \in Op
  /\ node \in DOMAIN tree
  /\ pc = "call"
  /\ todo = <<>>
  /\ start = NoNode
  /\ at = <<>>
  /\ child = 1
  /\ result = FALSE
  /\ capture = [p \in DOMAIN matcher |-> NoNode]
  /\ multiCapture = [p \in DOMAIN matcher |-> <<>>]

Call ==
  /\ pc = "call"
  /\ todo' = Visited(op, node)
  /\ pc' = "next"
  /\ UNCHANGED <<input, start, at, child, result, captures>>

Attempt ==
  /\ pc = "next"
  /\ ~result
  /\ todo # <<>>
  /\ start' = Head(todo)
  /\ todo' = Tail(todo)
  /\ at' = <<>>
  /\ pc' = "enter"
  /\ UNCHANGED <<input, child, result, captures>>

Answer ==
  /\ pc = "next"
  /\ result \/ todo = <<>>
  /\ pc' = "done"
  /\ UNCHANGED <<input, todo, start, at, child, result, captures>>

\* What the caller is told.  The callback of hasAncestor stops the iteration
\* with isl_stat_error, and hasAncestor wants isl_stat_ok.
answer == result /\ op # "hasAncestor"

-----------------------------------------------------------------------------
(***************************************************************************)
(* isMatching.                                                             *)
(***************************************************************************)
self == matcher[at]
target == start \o at

EnterAnyTree ==
  /\ pc = "enter"
  /\ self.type = "anyTree"
  /\ capture' = IF self.captures THEN [capture EXCEPT ![at] = target]
                ELSE capture
  /\ result' = TRUE
  /\ pc' = "leave"
  /\ UNCHANGED <<input, todo, start, at, child, multiCapture>>

\* A bug: the vector is not cleared.
AnyForestAppends ==
  /\ pc = "enter"
  /\ self.type = "anyForest"
  /\ ~hasPrevious(target)
  /\ multiCapture' = [multiCapture EXCEPT ![at] = @ \o ThisAndNextSiblings(target)]
  /\ result' = TRUE
  /\ pc' = "leave"
  /\ UNCHANGED <<input, todo, start, at, child, capture>>

\* Without a vector of the caller's, a dummy that nobody reads is written.
EnterAnyForest ==
  /\ pc = "enter"
  /\ self.type = "anyForest"
  /\ ~hasPrevious(target)
  /\ multiCapture' = [multiCapture EXCEPT ![at] = ThisAndNextSiblings(target)]
  /\ result' = TRUE
  /\ pc' = "leave"
  /\ UNCHANGED <<input, todo, start, at, child, capture>>

\* "AnyForest matcher combined with other types", "cannot convert the given
\* node type".
EnterDies ==
  /\ pc = "enter"
  /\ \/ self.type = "anyForest" /\ hasPrevious(target)
     \/ self.type \in Unconvertible
  /\ pc' = "died"
  /\ UNCHANGED <<input, todo, start, at, child, result, captures>>

\* A bug: a node may have more children than its matcher.
ArityAtMost(p, v) == Cardinality(children(p, matcher)) <= nChildren(v)

\* The children are as many, unless the only matcher child is AnyForest.
ArityAgrees(p, v) ==
  IF nextIsAnyForest(p) THEN nChildren(v) > 0
  ELSE Cardinality(children(p, matcher)) = nChildren(v)

NodeAgrees(p, v) ==
  /\ toIslType(matcher[p].type) = tree[v]
  /\ v \in matcher[p].accepts
  /\ ArityAgrees(p, v)

IsTypeMatcher(p) == matcher[p].type \notin Wildcard \cup Unconvertible

EnterMismatch ==
  /\ pc = "enter"
  /\ IsTypeMatcher(at)
  /\ ~NodeAgrees(at, target)
  /\ result' = FALSE
  /\ pc' = "leave"
  /\ UNCHANGED <<input, todo, start, at, child, captures>>

EnterNode ==
  /\ pc = "enter"
  /\ IsTypeMatcher(at)
  /\ NodeAgrees(at, target)
  /\ child' = 1
  /\ pc' = "loop"
  /\ UNCHANGED <<input, todo, start, at, result, captures>>

TryChild ==
  /\ pc = "loop"
  /\ child <= nChildren(target)
  /\ at' = Append(at, child)
  /\ pc' = "enter"
  /\ UNCHANGED <<input, todo, start, child, result, captures>>

\* All children match: the node is captured.
ChildrenMatch ==
  /\ pc = "loop"
  /\ child > nChildren(target)
  /\ capture' = IF self.captures THEN [capture EXCEPT ![at] = target]
                ELSE capture
  /\ result' = TRUE
  /\ pc' = "leave"
  /\ UNCHANGED <<input, todo, start, at, child, multiCapture>>

\* A bug: the result of the last child decides.
IgnoresFailure ==
  /\ pc = "leave"
  /\ at # <<>>
  /\ at' = Front(at)
  /\ IF nextIsAnyForest(Front(at))
     THEN UNCHANGED <<pc, child>>
     ELSE pc' = "loop" /\ child' = Last(at) + 1
  /\ UNCHANGED <<input, todo, start, result, captures>>

\* Back in the caller's loop, which returns when the child does not match, and
\* when the child was AnyForest, which has included all the siblings.
ReturnToParent ==
  /\ pc = "leave"
  /\ at # <<>>
  /\ at' = Front(at)
  /\ IF ~result \/ nextIsAnyForest(Front(at))
     THEN UNCHANGED <<pc, child>>
     ELSE pc' = "loop" /\ child' = Last(at) + 1
  /\ UNCHANGED <<input, todo, start, result, captures>>

ReturnToSearch ==
  /\ pc = "leave"
  /\ at = <<>>
  /\ pc' = "next"
  /\ UNCHANGED <<input, todo, start, at, child, result, captures>>

Next ==
  \/ Call
  \/ Attempt
  \/ Answer
  \/ EnterAnyTree
  \/ EnterAnyForest
  \/ EnterDies
  \/ EnterMismatch
  \/ EnterNode
  \/ TryChild
  \/ ChildrenMatch
  \/ ReturnToParent
  \/ ReturnToSearch

Spec == Init /\ [][Next]_vars

-----------------------------------------------------------------------------
(***************************************************************************)
(* Properties.                                                             *)
(***************************************************************************)

\* The types of the state; isMatching only asks for nodes and matcher children
\* that exist (child(i) and children_.at(i) never fail).
TypeOK ==
  /\ node \in DOMAIN tree
  /\ pc \in {"call", "next", "enter", "loop", "leave", "done", "died"}
  /\ Range(todo) \subseteq DOMAIN tree
  /\ at \in DOMAIN matcher
  /\ pc \in {"enter", "loop", "leave"} => target \in DOMAIN tree
  /\ child \in Nat
  /\ result \in BOOLEAN
  /\ capture \in [DOMAIN matcher -> DOMAIN tree \cup {NoNode}]
  /\ \A p \in DOMAIN matcher : Range(multiCapture[p]) \subseteq DOMAIN tree

\* Whether one matcher node, looked at alone, matches the tree node it faces
\* when the matcher's root faces v.
Dies(p, v) ==
  \/ matcher[p].type = "anyForest" /\ hasPrevious(v \o p)
  \/ matcher[p].type \in Unconvertible

Agrees(p, v) ==
  /\ v \o p \in DOMAIN tree
  /\ ~Dies(p, v)
  /\ IsTypeMatcher(p) => NodeAgrees(p, v \o p)

Matches(v) == \A p \in DOMAIN matcher : Agrees(p, v)

\* The first matcher node that decides against a match at v.
Decides(p, v) ==
  /\ ~Agrees(p, v)
  /\ \A q \in DOMAIN matcher : Before(q, p) => Agrees(q, v)

\* "A matcher ... provides functionality to detect if a subtree in the schedule
\* tree has the same structure": the traversal, with its early returns, returns
\* true exactly when every matcher node agrees with the tree node it faces.  It
\* dies only at the first matcher node, in preorder, that does not agree: a
\* mismatch before one that would kill the program hides it.
ResultIsStructural ==
  /\ pc = "leave" /\ at = <<>> => (result <=> Matches(start))
  /\ pc = "died" => Decides(at, start) /\ Dies(at, start)

\* The nodes a search is about.
Region ==
  CASE op = "isMatching" -> {node}
    [] op = "hasDescendant" -> {v \in DOMAIN tree : IsPrefix(node, v)}
    [] op = "hasAncestor" -> {v \in DOMAIN tree : IsStrictPrefix(v, node)}
    [] OTHER ->
         {v \in DOMAIN tree :
            /\ v # <<>> /\ node # <<>> /\ Front(v) = Front(node)
            /\ \/ /\ op \in {"hasPreviousSibling", "hasSibling"}
                  /\ Last(v) < Last(node)
               \/ /\ op \in {"hasNextSibling", "hasSibling"}
                  /\ Last(v) > Last(node)}

\* A search tries v before the node it has found: previous siblings from the
\* nearest on and before the next ones, all other nodes in preorder.
TriedBefore(v) ==
  IF op \in {"hasPreviousSibling", "hasSibling"} /\ Before(start, node)
  THEN Before(start, v) /\ Before(v, node)
  ELSE Before(v, start)

\* A search stops at the first match of its region, so that the captures are of
\* the nearest previous sibling, the topmost descendant, and finds none only if
\* there is none.
FoundIsFirst ==
  pc = "done" =>
    IF result
    THEN /\ start \in Region /\ Matches(start)
         /\ \A v \in Region : TriedBefore(v) => ~Matches(v)
    ELSE \A v \in Region : ~Matches(v)

\* The nodes captured when a search ends with a match are those of this match:
\* nothing is left in them of the attempts before, which wrote the same
\* variables.  The parent of a lone AnyForest is left out: see below.
CapturesAreOfTheMatch ==
  pc = "done" /\ result =>
    \A p \in DOMAIN matcher :
      /\ /\ matcher[p].captures
         /\ matcher[p].type # "anyForest"
         /\ ~nextIsAnyForest(p)
         => capture[p] = start \o p
      /\ matcher[p].captures /\ matcher[p].type = "anyForest" =>
           multiCapture[p] = ThisAndNextSiblings(start \o p)

-----------------------------------------------------------------------------
(***************************************************************************)
(* Claims that do not hold.                                                *)
(***************************************************************************)

\* "@param capture: It will contain the captured node." (band and others)
CaptureWillContainTheNode ==
  pc = "done" /\ result =>
    \A p \in DOMAIN matcher :
      matcher[p].captures /\ IsTypeMatcher(p) => capture[p] = start \o p

\* hasAncestor tells whether some ancestor matches.
AncestorIsReported ==
  pc = "done" /\ op = "hasAncestor" =>
    (answer <=> \E v \in DOMAIN tree : IsStrictPrefix(v, node) /\ Matches(v))

=============================================================================
