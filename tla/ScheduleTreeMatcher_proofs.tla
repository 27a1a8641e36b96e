---------------------- MODULE ScheduleTreeMatcher_proofs ----------------------
(***************************************************************************)
(* Proofs about ScheduleTreeMatcher, for every set of schedule trees and   *)
(* matchers: trees of any depth and width, and matchers of any shape.      *)
(***************************************************************************)
EXTENDS ScheduleTreeMatcher, Trees_proofs

-----------------------------------------------------------------------------
(***************************************************************************)
(* Visiting a set of nodes in order.                                       *)
(***************************************************************************)
Orders(R, S) ==
  /\ \A v \in S : <<v, v>> \notin R
  /\ \A v, w \in S : v # w => <<v, w>> \in R \/ <<w, v>> \in R
  /\ \A u, v, w \in S : <<u, v>> \in R /\ <<v, w>> \in R => <<u, w>> \in R

\* s visits every element of S once, in the order R.
Visits(s, S, R) ==
  /\ s \in [1..Cardinality(S) -> S]
  /\ \A v \in S : \E i \in 1..Cardinality(S) : v = s[i]
  /\ \A i, j \in 1..Cardinality(S) : <<s[i], s[j]>> \in R => i < j

\* The elements of a finite ordered set are numbered by how many are before them.
LEMMA Ranks ==
  ASSUME NEW S, IsFiniteSet(S), NEW R, Orders(R, S)
  PROVE  /\ \A v, w \in S : <<v, w>> \in R =>
              Cardinality({u \in S : <<u, v>> \in R})
                < Cardinality({u \in S : <<u, w>> \in R})
         /\ \A k \in 1..Cardinality(S) : \E v \in S :
              Cardinality({u \in S : <<u, v>> \in R}) = k - 1
         /\ \A v \in S :
              Cardinality({u \in S : <<u, v>> \in R}) + 1 \in 1..Cardinality(S)
<1> DEFINE before(v) == {u \in S : <<u, v>> \in R}
           rank(v) == Cardinality(before(v)) + 1
           n == Cardinality(S)
           f == [v \in S |-> rank(v)]
<1>1. ASSUME NEW v \in S
      PROVE  IsFiniteSet(before(v)) /\ Cardinality(before(v)) \in Nat
  <2>1. before(v) \in SUBSET S
    OBVIOUS
  <2>2. QED
    BY <2>1, FS_Subset, FS_CardinalityType
<1>2. ASSUME NEW v \in S
      PROVE  /\ Cardinality(before(v) \cup {v}) = Cardinality(before(v)) + 1
             /\ before(v) \cup {v} \in SUBSET S
  BY <1>1, FS_AddElement DEF Orders
<1>3. n \in Nat
  BY FS_CardinalityType
<1>4. \A v \in S : rank(v) \in 1..n
  <2>1. ASSUME NEW v \in S PROVE rank(v) \in 1..n
    <3>1. /\ Cardinality(before(v) \cup {v}) <= n
          /\ Cardinality(before(v) \cup {v}) = Cardinality(before(v)) + 1
          /\ Cardinality(before(v)) \in Nat
      BY <1>1, <1>2, FS_Subset
    <3> HIDE DEF before, n
    <3>2. Cardinality(before(v)) + 1 \in 1..n
      BY <1>3, <3>1
    <3>3. QED
      BY <3>2
  <2>2. QED
    BY <2>1
<1>5. ASSUME NEW v \in S, NEW w \in S, <<v, w>> \in R
      PROVE  Cardinality(before(v)) < Cardinality(before(w))
  <2>1. before(v) \cup {v} \in SUBSET before(w)
    BY <1>5 DEF Orders
  <2>2. /\ Cardinality(before(v) \cup {v}) <= Cardinality(before(w))
        /\ Cardinality(before(v) \cup {v}) = Cardinality(before(v)) + 1
        /\ Cardinality(before(v)) \in Nat /\ Cardinality(before(w)) \in Nat
    BY <1>1, <1>2, <2>1, FS_Subset
  <2> HIDE DEF before
  <2>3. QED
    BY <2>2
<1> HIDE DEF before
<1>6. f \in Injection(S, 1..n)
  <2>1. \A v, w \in S : rank(v) = rank(w) => v = w
    <3>1. ASSUME NEW v \in S, NEW w \in S, rank(v) = rank(w), v # w PROVE FALSE
      <4>1. Cardinality(before(v)) = Cardinality(before(w))
        BY <1>1, <3>1
      <4>2. <<v, w>> \in R \/ <<w, v>> \in R
        BY <3>1 DEF Orders
      <4>3. QED
        BY <1>1, <1>5, <4>1, <4>2
    <3>2. QED
      BY <3>1
  <2>2. QED
    BY <1>4, <2>1 DEF Injection, IsInjective
<1>7. f \in Surjection(S, 1..n)
  <2>1. IsFiniteSet(1..n) /\ Cardinality(1..n) = n
    BY <1>3, FS_Interval
  <2> HIDE DEF f
  <2>2. QED
    BY <1>6, <2>1, FS_Injection
<1>8. \A k \in 1..n : \E v \in S : Cardinality(before(v)) = k - 1
  <2>1. ASSUME NEW k \in 1..n PROVE \E v \in S : Cardinality(before(v)) = k - 1
    <3>1. PICK v \in S : f[v] = k
      BY <1>7 DEF Surjection
    <3>2. QED
      BY <1>1, <1>3, <3>1
  <2>2. QED
    BY <2>1
<1>9. QED
  BY <1>4, <1>5, <1>8 DEF before

LEMMA VisitsInOrder ==
  ASSUME NEW S, IsFiniteSet(S), NEW R, Orders(R, S),
         NEW s \in [1..Cardinality(S) -> S],
         \A k \in 1..Cardinality(S) : Cardinality({u \in S : <<u, s[k]>> \in R}) = k - 1
  PROVE  Visits(s, S, R)
<1> DEFINE before(v) == {u \in S : <<u, v>> \in R}
           n == Cardinality(S)
<1>1. /\ n \in Nat
      /\ \A v, w \in S : <<v, w>> \in R => Cardinality(before(v)) < Cardinality(before(w))
      /\ \A v \in S : Cardinality(before(v)) + 1 \in 1..n
      /\ \A k \in 1..n : Cardinality(before(s[k])) = k - 1
  BY Ranks, FS_CardinalityType
<1>2. \A v \in S : Cardinality(before(v)) \in Nat
  <2>1. \A v \in S : before(v) \in SUBSET S
    OBVIOUS
  <2>2. QED
    BY <2>1, FS_Subset, FS_CardinalityType
<1> HIDE DEF before
<1>3. ASSUME NEW i \in 1..n, NEW j \in 1..n, <<s[i], s[j]>> \in R PROVE i < j
  <2>1. s[i] \in S /\ s[j] \in S
    OBVIOUS
  <2>2. Cardinality(before(s[i])) < Cardinality(before(s[j]))
    BY <1>1, <1>3, <2>1
  <2>3. Cardinality(before(s[i])) = i - 1 /\ Cardinality(before(s[j])) = j - 1
    BY <1>1
  <2>4. QED
    BY <1>1, <2>2, <2>3
<1>4. ASSUME NEW v \in S PROVE \E i \in 1..n : v = s[i]
  <2> DEFINE i == Cardinality(before(v)) + 1
  <2>1. i \in 1..n
    BY <1>1
  <2>2. Cardinality(before(s[i])) = Cardinality(before(v)) /\ s[i] \in S
    BY <1>1, <1>2, <2>1
  <2>3. s[i] = v
    <3>1. CASE <<s[i], v>> \in R
      BY <1>1, <1>2, <2>2, <3>1
    <3>2. CASE <<v, s[i]>> \in R
      BY <1>1, <1>2, <2>2, <3>2
    <3>3. QED
      BY <2>2, <3>1, <3>2 DEF Orders
  <2>4. QED
    BY <2>1, <2>3
<1>5. QED
  BY <1>3, <1>4 DEF Visits

-----------------------------------------------------------------------------
(***************************************************************************)
(* The inductive invariant of isMatching.                                  *)
(***************************************************************************)
Inputs ==
  /\ tree \in Trees /\ matcher \in Matchers
  /\ op \in Op /\ node \in DOMAIN tree

\* Where the traversal is.
Frame ==
  /\ TypeOK
  /\ todo \in Seq(DOMAIN tree)
  /\ pc \in {"enter", "loop", "leave", "died"} => start \in DOMAIN tree
  /\ pc \in {"call", "next", "done"} => at = <<>>
  /\ DOMAIN multiCapture = DOMAIN matcher
  /\ pc = "loop" =>
       /\ IsTypeMatcher(at)
       /\ nextIsAnyForest(at) => child = 1
       /\ child \in 1..(nChildren(target) + 1)

\* The matcher nodes the traversal has found to agree.
Passed ==
  {q \in DOMAIN matcher :
     \/ Before(q, at)
     \/ pc = "loop" /\ (q = at \/ (IsStrictPrefix(at, q) /\ q[Len(at) + 1] < child))
     \/ pc = "leave" /\ IsPrefix(at, q)}

Succeeding == pc \in {"enter", "loop"} \/ (pc = "leave" /\ result)

Traversal ==
  /\ Succeeding => \A q \in Passed : Agrees(q, start)
  /\ pc = "leave" /\ ~result => \E q \in DOMAIN matcher : ~Agrees(q, start)
  /\ pc = "died" => Decides(at, start) /\ Dies(at, start)

\* The matcher nodes whose isMatching has returned, and what they captured.
Returned ==
  {q \in DOMAIN matcher :
     \/ Before(q, at) /\ ~IsStrictPrefix(q, at)
     \/ pc = "loop" /\ IsStrictPrefix(at, q) /\ q[Len(at) + 1] < child
     \/ pc \in {"leave", "next", "done"} /\ IsPrefix(at, q)}

Captured(p) ==
  /\ /\ matcher[p].captures
     /\ matcher[p].type # "anyForest"
     /\ ~nextIsAnyForest(p)
     => capture[p] = start \o p
  /\ matcher[p].captures /\ matcher[p].type = "anyForest" =>
       multiCapture[p] = ThisAndNextSiblings(start \o p)

Capturing == Succeeding \/ (pc \in {"next", "done"} /\ result)

Captures == Capturing => \A q \in Returned : Captured(q)

\* The search has tried the first j nodes of the ones it visits; all but the
\* last of them, and that one too when it is to go on, do not match.
Tried(j) ==
  LET visited == Visited(op, node)
  IN  /\ j \in 0..Len(visited)
      /\ todo = SubSeq(visited, j + 1, Len(visited))
      /\ j > 0 => start = visited[j]
      /\ \A i \in 1..(j - 1) : ~Matches(visited[i])
      /\ pc \in {"enter", "loop", "leave", "died"} => j > 0
      /\ pc \in {"next", "done"} => (result <=> j > 0 /\ Matches(visited[j]))

Search ==
  /\ pc = "call" => ~result
  /\ pc = "done" => result \/ todo = <<>>
  /\ pc # "call" => \E j \in 0..Len(Visited(op, node)) : Tried(j)

-----------------------------------------------------------------------------
(***************************************************************************)
(* The nodes a search visits.                                              *)
(***************************************************************************)
LEMMA InputFacts ==
  ASSUME Inputs
  PROVE  /\ IsTree(tree) /\ IsTree(matcher)
         /\ DOMAIN tree \subseteq Path /\ DOMAIN matcher \subseteq Path
         /\ IsFiniteSet(DOMAIN tree)
         /\ <<>> \in DOMAIN tree /\ <<>> \in DOMAIN matcher
         /\ node \in Path
         /\ \A p \in DOMAIN matcher :
              matcher[p].type \in Wildcard => children(p, matcher) = {}
BY TreesAssumption, MatchersAssumption DEF Inputs, IsTree

Ascending(S) == {e \in S \X S : Before(e[1], e[2])}
Descending(S) == {e \in S \X S : Before(e[2], e[1])}

TopDown(S) ==
  [k \in 1..Cardinality(S) |->
     CHOOSE v \in S : Cardinality({w \in S : Before(w, v)}) = k - 1]
BottomUp(S) ==
  [k \in 1..Cardinality(S) |->
     CHOOSE v \in S : Cardinality({w \in S : Before(v, w)}) = k - 1]

LEMMA TopDownVisits ==
  ASSUME NEW S \in SUBSET Path, IsFiniteSet(S)
  PROVE  Visits(TopDown(S), S, Ascending(S))
<1> DEFINE R == Ascending(S)
           s == TopDown(S)
<1>1. \A v, w \in S : <<v, w>> \in R <=> Before(v, w)
  BY DEF Ascending
<1>2. Orders(R, S)
  <2>1. \A v \in S : <<v, v>> \notin R
    BY <1>1, BeforeIsStrict
  <2>2. \A v, w \in S : v # w => <<v, w>> \in R \/ <<w, v>> \in R
    BY <1>1, BeforeIsTotal
  <2>3. \A u, v, w \in S : <<u, v>> \in R /\ <<v, w>> \in R => <<u, w>> \in R
    BY <1>1, BeforeIsTransitive
  <2> HIDE DEF R
  <2>4. QED
    BY <2>1, <2>2, <2>3 DEF Orders
<1>3. ASSUME NEW v \in S
      PROVE  {u \in S : <<u, v>> \in R} = {u \in S : Before(u, v)}
  BY <1>1
<1> HIDE DEF R
<1>4. ASSUME NEW k \in 1..Cardinality(S)
      PROVE  s[k] \in S /\ Cardinality({u \in S : <<u, s[k]>> \in R}) = k - 1
  <2>1. PICK v \in S : Cardinality({u \in S : <<u, v>> \in R}) = k - 1
    BY <1>2, Ranks
  <2>2. Cardinality({u \in S : Before(u, v)}) = k - 1
    BY <1>3, <2>1
  <2>3. s[k] = CHOOSE x \in S : Cardinality({w \in S : Before(w, x)}) = k - 1
    BY DEF TopDown
  <2>4. s[k] \in S /\ Cardinality({u \in S : Before(u, s[k])}) = k - 1
    BY <2>2, <2>3
  <2>5. QED
    BY <1>3, <2>4
<1>5. s \in [1..Cardinality(S) -> S]
  BY <1>4 DEF TopDown
<1>6. QED
  BY <1>2, <1>4, <1>5, VisitsInOrder DEF R

LEMMA BottomUpVisits ==
  ASSUME NEW S \in SUBSET Path, IsFiniteSet(S)
  PROVE  Visits(BottomUp(S), S, Descending(S))
<1> DEFINE R == Descending(S)
           s == BottomUp(S)
<1>1. \A v, w \in S : <<v, w>> \in R <=> Before(w, v)
  BY DEF Descending
<1>2. Orders(R, S)
  <2>1. \A v \in S : <<v, v>> \notin R
    BY <1>1, BeforeIsStrict
  <2>2. \A v, w \in S : v # w => <<v, w>> \in R \/ <<w, v>> \in R
    BY <1>1, BeforeIsTotal
  <2>3. \A u, v, w \in S : <<u, v>> \in R /\ <<v, w>> \in R => <<u, w>> \in R
    BY <1>1, BeforeIsTransitive
  <2> HIDE DEF R
  <2>4. QED
    BY <2>1, <2>2, <2>3 DEF Orders
<1>3. ASSUME NEW v \in S
      PROVE  {u \in S : <<u, v>> \in R} = {u \in S : Before(v, u)}
  BY <1>1
<1> HIDE DEF R
<1>4. ASSUME NEW k \in 1..Cardinality(S)
      PROVE  s[k] \in S /\ Cardinality({u \in S : <<u, s[k]>> \in R}) = k - 1
  <2>1. PICK v \in S : Cardinality({u \in S : <<u, v>> \in R}) = k - 1
    BY <1>2, Ranks
  <2>2. Cardinality({u \in S : Before(v, u)}) = k - 1
    BY <1>3, <2>1
  <2>3. s[k] = CHOOSE x \in S : Cardinality({w \in S : Before(x, w)}) = k - 1
    BY DEF BottomUp
  <2>4. s[k] \in S /\ Cardinality({u \in S : Before(s[k], u)}) = k - 1
    BY <2>2, <2>3
  <2>5. QED
    BY <1>3, <2>4
<1>5. s \in [1..Cardinality(S) -> S]
  BY <1>4 DEF BottomUp
<1>6. QED
  BY <1>2, <1>4, <1>5, VisitsInOrder DEF R

\* The siblings, the descendants and the ancestors of the node of the search.
Previous == {s \in Siblings(node) : Before(s, node)}
NextOnes == {s \in Siblings(node) : Before(node, s)}
Below == {d \in DOMAIN tree : IsPrefix(node, d)}
Above == {d \in DOMAIN tree : IsStrictPrefix(d, node)}

LEMMA VisitedCases ==
  /\ op = "isMatching" => Visited(op, node) = <<node>>
  /\ op = "hasPreviousSibling" => Visited(op, node) = BottomUp(Previous)
  /\ op = "hasNextSibling" => Visited(op, node) = TopDown(NextOnes)
  /\ op = "hasSibling" => Visited(op, node) = BottomUp(Previous) \o TopDown(NextOnes)
  /\ op = "hasDescendant" => Visited(op, node) = TopDown(Below)
  /\ op = "hasAncestor" => Visited(op, node) = TopDown(Above)
BY DEF Visited, InOrder, BottomUp, TopDown, Previous, NextOnes, Below, Above

LEMMA SiblingFacts ==
  ASSUME Inputs
  PROVE  /\ Siblings(node) \subseteq DOMAIN tree /\ Siblings(node) \subseteq Path
         /\ \A v \in DOMAIN tree : v \in Siblings(node) <=>
              v # <<>> /\ node # <<>> /\ Front(v) = Front(node)
         /\ \A v, w \in Siblings(node) : Before(v, w) <=> Last(v) < Last(w)
         /\ node # <<>> => node \in Siblings(node)
<1>1. /\ IsTree(tree) /\ DOMAIN tree \subseteq Path /\ node \in Path
      /\ node \in DOMAIN tree
  BY InputFacts DEF Inputs
<1>2. CASE node = <<>>
  BY <1>1, <1>2 DEF Siblings
<1>3. CASE node # <<>>
  <2> DEFINE f == Front(node)
  <2>1. f \in Path
    BY <1>1, <1>3, ParentPath
  <2> HIDE DEF f
  <2>2. Siblings(node) = {Append(f, i) : i \in children(f, tree)}
    BY <1>3 DEF Siblings, f
  <2>3. \A i \in children(f, tree) : i \in Nat \ {0} /\ Append(f, i) \in DOMAIN tree
    BY <1>1, <2>1, ChildNumbers DEF children
  <2>4. ASSUME NEW v \in DOMAIN tree
        PROVE  v \in Siblings(node) <=> v # <<>> /\ Front(v) = f
    <3>1. ASSUME v \in Siblings(node) PROVE v # <<>> /\ Front(v) = f
      <4>1. PICK i \in children(f, tree) : v = Append(f, i)
        BY <2>2, <3>1
      <4>2. QED
        BY <2>1, <2>3, <4>1, AppendPath
    <3>2. ASSUME v # <<>>, Front(v) = f PROVE v \in Siblings(node)
      <4>1. v \in Path /\ v = Append(f, Last(v)) /\ Last(v) \in Nat \ {0}
        BY <1>1, <3>2, ParentPath
      <4>2. Append(f, Last(v)) \in DOMAIN tree
        BY <4>1
      <4>3. Last(v) \in children(f, tree)
        <5> DEFINE n == Cardinality(children(f, tree))
        <5>1. n \in Nat /\ children(f, tree) = 1..n /\ Last(v) <= n
          BY <1>1, <2>1, <4>1, <4>2, ChildNumbers
        <5> HIDE DEF n
        <5>2. QED
          BY <4>1, <5>1
      <4>4. QED
        BY <2>2, <4>1, <4>3
    <3>3. QED
      BY <3>1, <3>2
  <2>5. Siblings(node) \subseteq DOMAIN tree
    BY <2>2, <2>3
  <2>6. ASSUME NEW v \in Siblings(node), NEW w \in Siblings(node)
        PROVE  Before(v, w) <=> Last(v) < Last(w)
    <3>1. PICK i \in children(f, tree) : v = Append(f, i)
      BY <2>2
    <3>2. PICK j \in children(f, tree) : w = Append(f, j)
      BY <2>2
    <3> DEFINE a == Append(f, i)
    <3>0. i \in Nat \ {0} /\ j \in Nat \ {0}
      BY <2>3
    <3>10. /\ a \in Path /\ Last(a) = i /\ a[Len(f) + 1] = i /\ Len(a) = Len(f) + 1
           /\ \A k \in 1..Len(f) : a[k] = f[k]
           /\ Last(Append(f, j)) = j /\ Len(f) \in Nat
      BY <2>1, <3>0, AppendPath, PathFacts
    <3> HIDE DEF a
    <3>11. v = a
      BY <3>1 DEF a
    <3>12. Last(w) = j
      BY <3>2, <3>10
    <3>3. /\ v \in Path /\ Last(v) = i /\ v[Len(f) + 1] = i /\ Len(v) = Len(f) + 1
          /\ i \in Nat \ {0} /\ j \in Nat \ {0} /\ Len(f) \in Nat
          /\ \A k \in 1..Len(f) : v[k] = f[k]
          /\ Last(w) = j
      BY <3>0, <3>10, <3>11, <3>12
    <3>4. IsStrictPrefix(f, v)
      BY <2>1, <3>3, StrictPrefixFacts
    <3>5. Before(v, w) <=> Before(v, f) \/ v = f \/ (IsStrictPrefix(f, v) /\ v[Len(f) + 1] < j)
      BY <2>1, <3>2, <3>3, BeforeChild
    <3>6. Before(f, v)
      BY <2>1, <3>3, <3>4, BeforeFacts
    <3>7. ~Before(v, f)
      BY <2>1, <3>3, <3>6, BeforeIsTransitive, BeforeIsStrict
    <3>8. QED
      BY <3>3, <3>4, <3>5, <3>7
  <2>7. QED
    BY <1>1, <1>3, <2>4, <2>5, <2>6 DEF f
<1>4. QED
  BY <1>2, <1>3

LEMMA ListFacts ==
  ASSUME NEW S, IsFiniteSet(S), NEW T, S \subseteq T, NEW R, NEW s, Visits(s, S, R)
  PROVE  /\ s \in Seq(T) /\ Len(s) \in Nat
         /\ \A i \in 1..Len(s) : s[i] \in S
         /\ \A v \in S : \E i \in 1..Len(s) : s[i] = v
         /\ \A i, j \in 1..Len(s) : <<s[i], s[j]>> \in R => i < j
<1> DEFINE n == Cardinality(S)
<1>1. n \in Nat
  BY FS_CardinalityType
<1>2. /\ s \in [1..n -> S]
      /\ \A v \in S : \E i \in 1..n : v = s[i]
      /\ \A i, j \in 1..n : <<s[i], s[j]>> \in R => i < j
  BY DEF Visits
<1> HIDE DEF n
<1>3. s \in [1..n -> T]
  BY <1>2
<1>4. s \in Seq(T) /\ Len(s) = n
  BY <1>1, <1>3, SeqDef, LenProperties
<1>5. QED
  BY <1>1, <1>2, <1>4

\* The siblings before and after the node, as the regions of the searches.
LEMMA RegionFacts ==
  ASSUME Inputs
  PROVE  /\ Region \subseteq DOMAIN tree
         /\ op = "isMatching" => Region = {node}
         /\ op = "hasPreviousSibling" => Region = Previous
         /\ op = "hasNextSibling" => Region = NextOnes
         /\ op = "hasSibling" => Region = Previous \cup NextOnes
         /\ op = "hasDescendant" => Region = Below
         /\ op = "hasAncestor" => Region = Above
<1>1. /\ Siblings(node) \subseteq DOMAIN tree
      /\ \A v \in DOMAIN tree : v \in Siblings(node) <=>
              v # <<>> /\ node # <<>> /\ Front(v) = Front(node)
      /\ \A v, w \in Siblings(node) : Before(v, w) <=> Last(v) < Last(w)
      /\ node # <<>> => node \in Siblings(node)
      /\ node \in DOMAIN tree /\ op \in Op
  BY SiblingFacts DEF Inputs
<1>2. ASSUME NEW v \in DOMAIN tree
      PROVE  /\ v \in Previous <=> /\ v # <<>> /\ node # <<>> /\ Front(v) = Front(node)
                                   /\ Last(v) < Last(node)
             /\ v \in NextOnes <=> /\ v # <<>> /\ node # <<>> /\ Front(v) = Front(node)
                                   /\ Last(node) < Last(v)
  BY <1>1 DEF Previous, NextOnes
<1>3. \A v \in DOMAIN tree : Last(v) > Last(node) <=> Last(node) < Last(v)
  OBVIOUS
<1>4. Previous \subseteq DOMAIN tree /\ NextOnes \subseteq DOMAIN tree
      /\ Below \subseteq DOMAIN tree /\ Above \subseteq DOMAIN tree
  BY <1>1 DEF Previous, NextOnes, Below, Above
<1>5. CASE op \in {"isMatching", "hasDescendant", "hasAncestor"}
  BY <1>1, <1>4, <1>5 DEF Region, Below, Above
<1>6. CASE op = "hasPreviousSibling"
  BY <1>2, <1>4, <1>6 DEF Region
<1>7. CASE op = "hasNextSibling"
  BY <1>2, <1>3, <1>4, <1>7 DEF Region
<1>8. CASE op = "hasSibling"
  BY <1>2, <1>3, <1>4, <1>8 DEF Region
<1>9. QED
  BY <1>1, <1>5, <1>6, <1>7, <1>8 DEF Op

\* A search that finds w tries v before it.
Earlier(v, w) ==
  IF op \in {"hasPreviousSibling", "hasSibling"} /\ Before(w, node)
  THEN Before(w, v) /\ Before(v, node)
  ELSE Before(v, w)

\* A search visits its region, each node once, in the order that TriedBefore
\* says.
LEMMA VisitedFacts ==
  ASSUME Inputs
  PROVE  LET V == Visited(op, node)
         IN  /\ V \in Seq(DOMAIN tree) /\ Len(V) \in Nat
             /\ \A i \in 1..Len(V) : V[i] \in Region
             /\ \A v \in Region : \E i \in 1..Len(V) : V[i] = v
             /\ \A i, j \in 1..Len(V) : Earlier(V[i], V[j]) => i < j
<1> DEFINE V == Visited(op, node)
<1>1. /\ DOMAIN tree \subseteq Path /\ IsFiniteSet(DOMAIN tree) /\ node \in Path
      /\ node \in DOMAIN tree /\ op \in Op
      /\ Siblings(node) \subseteq DOMAIN tree
  BY InputFacts, SiblingFacts DEF Inputs
<1>2. /\ Previous \subseteq DOMAIN tree /\ NextOnes \subseteq DOMAIN tree
      /\ Below \subseteq DOMAIN tree /\ Above \subseteq DOMAIN tree
      /\ \A v \in Previous : Before(v, node)
      /\ \A v \in NextOnes : Before(node, v)
  BY <1>1 DEF Previous, NextOnes, Below, Above
<1>3. \A v \in NextOnes : ~Before(v, node)
  BY <1>1, <1>2, BeforeIsTransitive, BeforeIsStrict
<1>4. ASSUME NEW S, S \subseteq DOMAIN tree
      PROVE  /\ TopDown(S) \in Seq(DOMAIN tree) /\ Len(TopDown(S)) \in Nat
             /\ \A i \in 1..Len(TopDown(S)) : TopDown(S)[i] \in S
             /\ \A v \in S : \E i \in 1..Len(TopDown(S)) : TopDown(S)[i] = v
             /\ \A i, j \in 1..Len(TopDown(S)) :
                  Before(TopDown(S)[i], TopDown(S)[j]) => i < j
  <2> DEFINE s == TopDown(S)
  <2>1. S \in SUBSET Path /\ IsFiniteSet(S)
    BY <1>1, <1>4, FS_Subset
  <2>2. Visits(s, S, Ascending(S))
    BY <2>1, TopDownVisits
  <2> HIDE DEF s
  <2>3. /\ s \in Seq(DOMAIN tree) /\ Len(s) \in Nat
        /\ \A i \in 1..Len(s) : s[i] \in S
        /\ \A v \in S : \E i \in 1..Len(s) : s[i] = v
        /\ \A i, j \in 1..Len(s) : <<s[i], s[j]>> \in Ascending(S) => i < j
    BY <1>4, <2>1, <2>2, ListFacts
  <2>4. \A v, w \in S : Before(v, w) => <<v, w>> \in Ascending(S)
    BY DEF Ascending
  <2>5. \A i, j \in 1..Len(s) : Before(s[i], s[j]) => i < j
    BY <2>3, <2>4
  <2>6. QED
    BY <2>3, <2>5 DEF s
<1>5. ASSUME NEW S, S \subseteq DOMAIN tree
      PROVE  /\ BottomUp(S) \in Seq(DOMAIN tree) /\ Len(BottomUp(S)) \in Nat
             /\ \A i \in 1..Len(BottomUp(S)) : BottomUp(S)[i] \in S
             /\ \A v \in S : \E i \in 1..Len(BottomUp(S)) : BottomUp(S)[i] = v
             /\ \A i, j \in 1..Len(BottomUp(S)) :
                  Before(BottomUp(S)[j], BottomUp(S)[i]) => i < j
  <2> DEFINE s == BottomUp(S)
  <2>1. S \in SUBSET Path /\ IsFiniteSet(S)
    BY <1>1, <1>5, FS_Subset
  <2>2. Visits(s, S, Descending(S))
    BY <2>1, BottomUpVisits
  <2> HIDE DEF s
  <2>3. /\ s \in Seq(DOMAIN tree) /\ Len(s) \in Nat
        /\ \A i \in 1..Len(s) : s[i] \in S
        /\ \A v \in S : \E i \in 1..Len(s) : s[i] = v
        /\ \A i, j \in 1..Len(s) : <<s[i], s[j]>> \in Descending(S) => i < j
    BY <1>5, <2>1, <2>2, ListFacts
  <2>4. \A v, w \in S : Before(w, v) => <<v, w>> \in Descending(S)
    BY DEF Descending
  <2>5. \A i, j \in 1..Len(s) : Before(s[j], s[i]) => i < j
    BY <2>3, <2>4
  <2>6. QED
    BY <2>3, <2>5 DEF s
<1>6. CASE op = "isMatching"
  <2>1. V = <<node>> /\ Region = {node}
    BY <1>6, VisitedCases, RegionFacts
  <2>2. /\ <<node>> \in Seq(DOMAIN tree) /\ Len(<<node>>) = 1 /\ <<node>>[1] = node
    BY <1>1
  <2>3. ~Before(node, node)
    BY <1>1, BeforeIsStrict
  <2>4. \A i, j \in 1..1 : Earlier(<<node>>[i], <<node>>[j]) => i < j
    BY <1>6, <2>2, <2>3 DEF Earlier
  <2>5. QED
    BY <2>1, <2>2, <2>4
<1>7. CASE op \in {"hasNextSibling", "hasDescendant", "hasAncestor"}
  <2>1. PICK S : S \subseteq DOMAIN tree /\ V = TopDown(S) /\ Region = S
    BY <1>2, <1>7, VisitedCases, RegionFacts
  <2>2. \A v, w : Earlier(v, w) <=> Before(v, w)
    BY <1>7 DEF Earlier
  <2> HIDE DEF V
  <2>3. /\ V \in Seq(DOMAIN tree) /\ Len(V) \in Nat
        /\ \A i \in 1..Len(V) : V[i] \in S
        /\ \A v \in S : \E i \in 1..Len(V) : V[i] = v
        /\ \A i, j \in 1..Len(V) : Before(V[i], V[j]) => i < j
    BY <1>4, <2>1
  <2>4. QED
    BY <2>1, <2>2, <2>3 DEF V
<1>8. CASE op = "hasPreviousSibling"
  <2>1. V = BottomUp(Previous) /\ Region = Previous
    BY <1>8, VisitedCases, RegionFacts
  <2>2. \A v, w \in Previous : Earlier(v, w) => Before(w, v)
    BY <1>2, <1>8 DEF Earlier
  <2> HIDE DEF V
  <2>3. /\ V \in Seq(DOMAIN tree) /\ Len(V) \in Nat
        /\ \A i \in 1..Len(V) : V[i] \in Previous
        /\ \A v \in Previous : \E i \in 1..Len(V) : V[i] = v
        /\ \A i, j \in 1..Len(V) : Before(V[j], V[i]) => i < j
    BY <1>2, <1>5, <2>1
  <2>4. QED
    BY <2>1, <2>2, <2>3 DEF V
<1>9. CASE op = "hasSibling"
  <2> DEFINE a == BottomUp(Previous)
             b == TopDown(NextOnes)
  <2>1. V = a \o b /\ Region = Previous \cup NextOnes
    BY <1>9, VisitedCases, RegionFacts
  <2>2. /\ a \in Seq(DOMAIN tree) /\ Len(a) \in Nat
        /\ \A i \in 1..Len(a) : a[i] \in Previous
        /\ \A v \in Previous : \E i \in 1..Len(a) : a[i] = v
        /\ \A i, j \in 1..Len(a) : Before(a[j], a[i]) => i < j
    BY <1>2, <1>5
  <2>3. /\ b \in Seq(DOMAIN tree) /\ Len(b) \in Nat
        /\ \A i \in 1..Len(b) : b[i] \in NextOnes
        /\ \A v \in NextOnes : \E i \in 1..Len(b) : b[i] = v
        /\ \A i, j \in 1..Len(b) : Before(b[i], b[j]) => i < j
    BY <1>2, <1>4
  <2> HIDE DEF a, b, V
  <2>4. /\ V \in Seq(DOMAIN tree) /\ Len(V) = Len(a) + Len(b)
        /\ \A i \in 1..Len(V) : V[i] = IF i <= Len(a) THEN a[i] ELSE b[i - Len(a)]
    BY <2>1, <2>2, <2>3, ConcatProperties
  <2>5. ASSUME NEW i \in 1..Len(V)
        PROVE  V[i] \in Previous \cup NextOnes /\ (Before(V[i], node) => i <= Len(a))
    <3>1. CASE i <= Len(a)
      BY <2>2, <2>4, <3>1
    <3>2. CASE i > Len(a)
      <4>1. i - Len(a) \in 1..Len(b) /\ V[i] = b[i - Len(a)]
        BY <2>2, <2>3, <2>4, <3>2
      <4>2. QED
        BY <1>3, <2>3, <4>1
    <3>3. QED
      BY <2>2, <2>4, <3>1, <3>2
  <2>6. ASSUME NEW v \in Previous \cup NextOnes PROVE \E i \in 1..Len(V) : V[i] = v
    <3>1. CASE v \in Previous
      <4>1. PICK i \in 1..Len(a) : a[i] = v
        BY <2>2, <3>1
      <4>2. i \in 1..Len(V) /\ V[i] = v
        BY <2>2, <2>3, <2>4, <4>1
      <4>3. QED
        BY <4>2
    <3>2. CASE v \in NextOnes
      <4>1. PICK i \in 1..Len(b) : b[i] = v
        BY <2>3, <3>2
      <4>2. i + Len(a) \in 1..Len(V) /\ ~(i + Len(a) <= Len(a)) /\ (i + Len(a)) - Len(a) = i
        BY <2>2, <2>3, <2>4, <4>1
      <4>3. V[i + Len(a)] = v
        BY <2>4, <4>1, <4>2
      <4>4. QED
        BY <4>2, <4>3
    <3>3. QED
      BY <3>1, <3>2
  <2>7. ASSUME NEW i \in 1..Len(V), NEW j \in 1..Len(V), Earlier(V[i], V[j]) PROVE i < j
    <3>1. CASE Before(V[j], node)
      <4>1. Before(V[j], V[i]) /\ Before(V[i], node)
        BY <1>9, <2>7, <3>1 DEF Earlier
      <4>2. i <= Len(a) /\ j <= Len(a)
        BY <2>5, <3>1, <4>1
      <4>3. i \in 1..Len(a) /\ j \in 1..Len(a) /\ V[i] = a[i] /\ V[j] = a[j]
        BY <2>2, <2>3, <2>4, <4>2
      <4>4. QED
        BY <2>2, <4>1, <4>3
    <3>2. CASE ~Before(V[j], node)
      <4>1. Before(V[i], V[j])
        BY <2>7, <3>2 DEF Earlier
      <4>2. j > Len(a)
        <5>1. SUFFICES ASSUME j <= Len(a) PROVE FALSE
          BY <2>2, <2>3, <2>4
        <5>2. V[j] = a[j] /\ j \in 1..Len(a)
          BY <2>2, <2>3, <2>4, <5>1
        <5>3. QED
          BY <1>2, <2>2, <3>2, <5>2
      <4>3. CASE i <= Len(a)
        BY <2>2, <2>3, <2>4, <4>2, <4>3
      <4>4. CASE i > Len(a)
        <5> DEFINE x == i - Len(a)
                   y == j - Len(a)
        <5>1. x \in 1..Len(b) /\ y \in 1..Len(b) /\ V[i] = b[x] /\ V[j] = b[y]
          BY <2>2, <2>3, <2>4, <4>2, <4>4
        <5>2. x < y
          BY <2>3, <4>1, <5>1
        <5>3. QED
          BY <2>2, <5>2
      <4>5. QED
        BY <2>2, <2>4, <4>3, <4>4
    <3>3. QED
      BY <3>1, <3>2
  <2>8. QED
    BY <2>1, <2>2, <2>3, <2>4, <2>5, <2>6, <2>7 DEF V
<1>10. QED
  BY <1>1, <1>6, <1>7, <1>8, <1>9 DEF Op

-----------------------------------------------------------------------------
(***************************************************************************)
(* The steps of isMatching.                                                *)
(***************************************************************************)
LEMMA SameInputs ==
  ASSUME UNCHANGED input
  PROVE  /\ Inputs' <=> Inputs
         /\ \A v : nChildren(v)' = nChildren(v)
         /\ \A v : ThisAndNextSiblings(v)' = ThisAndNextSiblings(v)
         /\ \A p : nextIsAnyForest(p)' <=> nextIsAnyForest(p)
         /\ \A p : IsTypeMatcher(p)' <=> IsTypeMatcher(p)
         /\ \A p, v : Dies(p, v)' <=> Dies(p, v)
         /\ \A p, v : Agrees(p, v)' <=> Agrees(p, v)
         /\ \A v : Matches(v)' <=> Matches(v)
         /\ Visited(op, node)' = Visited(op, node)
<1>1. tree' = tree /\ matcher' = matcher /\ op' = op /\ node' = node
  BY DEF input
<1>2. Inputs' <=> Inputs
  BY <1>1 DEF Inputs
<1>3. \A v : nChildren(v)' = nChildren(v)
  BY <1>1 DEF nChildren
<1>4. \A v : ThisAndNextSiblings(v)' = ThisAndNextSiblings(v)
  BY <1>1 DEF ThisAndNextSiblings, nChildren
<1>5. \A p : nextIsAnyForest(p)' <=> nextIsAnyForest(p)
  BY <1>1 DEF nextIsAnyForest
<1>6. \A p : IsTypeMatcher(p)' <=> IsTypeMatcher(p)
  BY <1>1 DEF IsTypeMatcher
<1>7. \A p, v : Dies(p, v)' <=> Dies(p, v)
  BY <1>1 DEF Dies
<1>8. \A p, v : NodeAgrees(p, v)' <=> NodeAgrees(p, v)
  BY <1>1 DEF NodeAgrees, ArityAgrees, nextIsAnyForest, nChildren
<1>9. \A p, v : Agrees(p, v)' <=> Agrees(p, v)
  <2>1. ASSUME NEW p, NEW v PROVE Agrees(p, v)' <=> Agrees(p, v)
    <3>1. /\ Dies(p, v)' <=> Dies(p, v)
          /\ IsTypeMatcher(p)' <=> IsTypeMatcher(p)
          /\ NodeAgrees(p, v \o p)' <=> NodeAgrees(p, v \o p)
      BY <1>6, <1>7, <1>8
    <3>2. QED
      BY <1>1, <3>1 DEF Agrees
  <2>2. QED
    BY <2>1
<1>10. \A v : Matches(v)' <=> Matches(v)
  BY <1>1, <1>9 DEF Matches
<1>11. Visited(op, node)' = Visited(op, node)
  BY <1>1 DEF Visited, InOrder, Siblings
<1>12. QED
  BY <1>2, <1>3, <1>4, <1>5, <1>6, <1>7, <1>9, <1>10, <1>11

LEMMA FramePrime ==
  ASSUME UNCHANGED input
  PROVE  Frame' <=>
    /\ node \in DOMAIN tree
    /\ pc' \in {"call", "next", "enter", "loop", "leave", "done", "died"}
    /\ Range(todo') \subseteq DOMAIN tree
    /\ at' \in DOMAIN matcher
    /\ pc' \in {"enter", "loop", "leave"} => start' \o at' \in DOMAIN tree
    /\ child' \in Nat
    /\ result' \in BOOLEAN
    /\ capture' \in [DOMAIN matcher -> DOMAIN tree \cup {NoNode}]
    /\ \A p \in DOMAIN matcher : Range(multiCapture'[p]) \subseteq DOMAIN tree
    /\ todo' \in Seq(DOMAIN tree)
    /\ pc' \in {"enter", "loop", "leave", "died"} => start' \in DOMAIN tree
    /\ pc' \in {"call", "next", "done"} => at' = <<>>
    /\ DOMAIN multiCapture' = DOMAIN matcher
    /\ pc' = "loop" =>
         /\ IsTypeMatcher(at')
         /\ nextIsAnyForest(at') => child' = 1
         /\ child' \in 1..(nChildren(start' \o at') + 1)
<1>1. tree' = tree /\ matcher' = matcher /\ op' = op /\ node' = node
  BY DEF input
<1>2. QED
  BY <1>1 DEF Frame, TypeOK, target, IsTypeMatcher, nextIsAnyForest, nChildren

\* The matcher node and the tree node of the running frame, and their children.
LEMMA AtFacts ==
  ASSUME Inputs, Frame
  PROVE  /\ at \in DOMAIN matcher /\ at \in Path
         /\ pc \in {"enter", "loop", "leave"} =>
              /\ target \in DOMAIN tree /\ target \in Path
              /\ start \in DOMAIN tree /\ start \in Path
              /\ nChildren(target) \in Nat
              /\ \A i \in Nat \ {0} :
                   Append(target, i) \in DOMAIN tree <=> i <= nChildren(target)
         /\ \A p \in DOMAIN matcher :
              /\ p \in Path /\ Cardinality(children(p, matcher)) \in Nat
              /\ children(p, matcher) = 1..Cardinality(children(p, matcher))
              /\ \A i \in Nat \ {0} : Append(p, i) \in DOMAIN matcher
                                        <=> i <= Cardinality(children(p, matcher))
<1>1. /\ IsTree(tree) /\ IsTree(matcher)
      /\ DOMAIN tree \subseteq Path /\ DOMAIN matcher \subseteq Path
  BY InputFacts
<1>2. at \in DOMAIN matcher
  BY DEF Frame, TypeOK
<1>3. ASSUME pc \in {"enter", "loop", "leave"}
      PROVE  target \in DOMAIN tree /\ start \in DOMAIN tree
  BY <1>3 DEF Frame, TypeOK
<1>4. QED
  BY <1>1, <1>2, <1>3, ChildNumbers DEF nChildren

LEMMA SiblingsInTree ==
  ASSUME Inputs, NEW v \in DOMAIN tree
  PROVE  Range(ThisAndNextSiblings(v)) \subseteq DOMAIN tree
<1>1. IsTree(tree) /\ v \in Path
  BY InputFacts
<1>2. CASE v = <<>>
  <2>1. ThisAndNextSiblings(v) = <<v>>
    BY <1>2 DEF ThisAndNextSiblings
  <2>2. \A i \in DOMAIN <<v>> : <<v>>[i] = v
    OBVIOUS
  <2>3. QED
    BY <2>1, <2>2 DEF Range
<1>3. CASE v # <<>>
  <2> DEFINE f == Front(v)
             n == nChildren(f)
             i == Last(v)
             s == [k \in 1..(n - i + 1) |-> Append(f, i + k - 1)]
  <2>1. f \in Path /\ i \in Nat \ {0}
    BY <1>1, <1>3, ParentPath
  <2>2. n \in Nat /\ \A j \in Nat \ {0} : Append(f, j) \in DOMAIN tree <=> j <= n
    BY <1>1, <2>1, ChildNumbers DEF nChildren
  <2>3. ThisAndNextSiblings(v) = s
    BY <1>3 DEF ThisAndNextSiblings, Position
  <2> HIDE DEF n, i, f
  <2>4. ASSUME NEW k \in 1..(n - i + 1) PROVE Append(f, i + k - 1) \in DOMAIN tree
    <3>1. i + k - 1 \in Nat \ {0} /\ i + k - 1 <= n
      BY <2>1, <2>2
    <3>2. QED
      BY <2>2, <3>1
  <2>5. Range(s) \subseteq DOMAIN tree
    BY <2>4 DEF Range
  <2>6. QED
    BY <2>3, <2>5
<1>4. QED
  BY <1>2, <1>3

\* The caller of a frame: its matcher node has agreed and is not a wildcard.
LEMMA ParentFacts ==
  ASSUME Inputs, Frame, Traversal, pc = "leave", at # <<>>
  PROVE  LET f == Front(at)
             i == Last(at)
         IN  /\ f \in DOMAIN matcher /\ f \in Path /\ i \in Nat \ {0}
             /\ at = Append(f, i)
             /\ start \o at = Append(start \o f, i)
             /\ start \o f \in DOMAIN tree
             /\ i <= Cardinality(children(f, matcher))
             /\ i <= nChildren(start \o f) /\ nChildren(start \o f) \in Nat
             /\ nextIsAnyForest(f) => i = 1
             /\ result => IsTypeMatcher(f) /\ Agrees(f, start)
<1> DEFINE f == Front(at)
           i == Last(at)
<1>1. /\ IsTree(tree) /\ IsTree(matcher) /\ DOMAIN tree \subseteq Path
      /\ at \in DOMAIN matcher /\ at \in Path
      /\ start \in Path /\ start \o at \in DOMAIN tree
  BY InputFacts, AtFacts DEF target
<1>2. f \in Path /\ i \in Nat \ {0} /\ at = Append(f, i)
  BY <1>1, ParentPath
<1> HIDE DEF f, i
<1>3. start \o at = Append(start \o f, i) /\ start \o f \in Path
  <2>1. start \o Append(f, i) = Append(start \o f, i)
    BY ONLY <1>1, <1>2, ConcatAppend
  <2>2. start \o f \in Path
    BY <1>1, <1>2, ConcatPath
  <2>3. QED
    BY ONLY <1>2, <2>1, <2>2
<1>4. IsPrefix(f, at) /\ IsStrictPrefix(f, at) /\ Before(f, at)
  BY <1>2, ChildIsBelow
<1>5. f \in DOMAIN matcher
  BY <1>1, <1>2, <1>4, TreeIsClosed
<1>6. start \o f \in DOMAIN tree
  <2> DEFINE w == start \o f
             u == Append(w, i)
  <2>1. w \in Path /\ u \in DOMAIN tree
    BY <1>1, <1>3
  <2> HIDE DEF w
  <2>2. IsPrefix(w, u)
    BY <1>2, <2>1, ChildIsBelow
  <2>3. w \in DOMAIN tree
    BY <1>1, <2>1, <2>2, TreeIsClosed
  <2>4. QED
    BY <2>3 DEF w
<1>7. /\ Cardinality(children(f, matcher)) \in Nat
      /\ i <= Cardinality(children(f, matcher))
      /\ children(f, matcher) = 1..Cardinality(children(f, matcher))
      /\ i \in children(f, matcher)
  <2> DEFINE n == Cardinality(children(f, matcher))
  <2>1. n \in Nat /\ children(f, matcher) = 1..n
        /\ (Append(f, i) \in DOMAIN matcher <=> i <= n)
    BY <1>1, <1>2, ChildNumbers
  <2> HIDE DEF n
  <2>2. i <= n /\ i \in children(f, matcher)
    BY <1>1, <1>2, <2>1
  <2>3. QED
    BY <2>1, <2>2 DEF n
<1>8. nChildren(start \o f) \in Nat /\ i <= nChildren(start \o f)
  BY <1>1, <1>2, <1>3, ChildNumbers DEF nChildren
<1>9. nextIsAnyForest(f) => i = 1
  BY <1>7 DEF nextIsAnyForest
<1>10. ASSUME result PROVE IsTypeMatcher(f) /\ Agrees(f, start)
  <2>1. f \in Passed
    BY <1>4, <1>5 DEF Passed
  <2>2. Agrees(f, start)
    BY <1>10, <2>1 DEF Traversal, Succeeding
  <2>3. matcher[f].type \notin Unconvertible
    BY <2>2 DEF Agrees, Dies
  <2>4. matcher[f].type \notin Wildcard
    BY <1>5, <1>7, InputFacts
  <2>5. QED
    BY <2>2, <2>3, <2>4 DEF IsTypeMatcher
<1>11. QED
  BY <1>2, <1>3, <1>5, <1>6, <1>7, <1>8, <1>9, <1>10 DEF f, i

\* The traversal asks only for nodes and matcher children that exist: what has
\* agreed so far has the children that are asked for next.
LEMMA FrameStep ==
  ASSUME Inputs, Frame, Traversal, [Next]_vars
  PROVE  Frame' /\ UNCHANGED input
<1>1. UNCHANGED input
  BY DEF Next, vars, Call, Attempt, Answer, EnterAnyTree, EnterAnyForest, EnterDies,
         EnterMismatch, EnterNode, TryChild, ChildrenMatch, ReturnToParent, ReturnToSearch
<1> DEFINE kept ==
      /\ Range(todo) \subseteq DOMAIN tree /\ todo \in Seq(DOMAIN tree)
      /\ at \in DOMAIN matcher /\ at \in Path
      /\ node \in DOMAIN tree
      /\ child \in Nat /\ result \in BOOLEAN
      /\ capture \in [DOMAIN matcher -> DOMAIN tree \cup {NoNode}]
      /\ \A p \in DOMAIN matcher : Range(multiCapture[p]) \subseteq DOMAIN tree
      /\ DOMAIN multiCapture = DOMAIN matcher
      /\ pc \in {"enter", "loop", "leave", "died"} => start \in DOMAIN tree
      /\ pc \in {"call", "next", "done"} => at = <<>>
      /\ pc \in {"enter", "loop", "leave"} =>
           start \o at \in DOMAIN tree /\ nChildren(start \o at) \in Nat
      /\ pc = "loop" =>
           /\ IsTypeMatcher(at)
           /\ nextIsAnyForest(at) => child = 1
           /\ child \in 1..(nChildren(start \o at) + 1)
<1>2. kept
  BY AtFacts DEF Frame, TypeOK, target
<1>3. <<>> \in DOMAIN matcher /\ DOMAIN tree \subseteq Path
  BY InputFacts
<1> HIDE DEF kept
<1>4. CASE Call
  <2>1. todo' \in Seq(DOMAIN tree)
    BY <1>4, VisitedFacts DEF Call
  <2>2. Range(todo') \subseteq DOMAIN tree
    BY <2>1, LenProperties, ElementOfSeq DEF Range
  <2>3. QED
    BY <1>1, <1>2, <1>4, <2>1, <2>2, FramePrime DEF Call, captures, kept
<1>5. CASE Attempt
  <2>1. Head(todo) \in DOMAIN tree /\ Tail(todo) \in Seq(DOMAIN tree)
    BY <1>2, <1>5, HeadTailProperties DEF Attempt, kept
  <2>2. Range(Tail(todo)) \subseteq DOMAIN tree
    BY <2>1, LenProperties, ElementOfSeq DEF Range
  <2>3. start' \o at' = start'
    BY <1>3, <1>5, <2>1, ConcatPath DEF Attempt
  <2>4. start' \o at' \in DOMAIN tree
    BY <1>5, <2>1, <2>3 DEF Attempt
  <2>5. QED
    BY <1>1, <1>2, <1>3, <1>5, <2>1, <2>2, <2>4, FramePrime DEF Attempt, captures, kept
<1>6. CASE Answer
  BY <1>1, <1>2, <1>6, FramePrime DEF Answer, captures, kept
<1>7. CASE EnterAnyTree
  <2>1. capture' \in [DOMAIN matcher -> DOMAIN tree \cup {NoNode}]
    BY <1>2, <1>7 DEF EnterAnyTree, target, kept
  <2>2. QED
    BY <1>1, <1>2, <1>7, <2>1, FramePrime DEF EnterAnyTree, kept
<1>8. CASE EnterAnyForest
  <2>1. target \in DOMAIN tree
    BY <1>2, <1>8 DEF EnterAnyForest, target, kept
  <2>2. Range(ThisAndNextSiblings(target)) \subseteq DOMAIN tree
    BY <2>1, SiblingsInTree
  <2>3. /\ DOMAIN multiCapture' = DOMAIN matcher
        /\ \A p \in DOMAIN matcher : Range(multiCapture'[p]) \subseteq DOMAIN tree
    BY <1>2, <1>8, <2>2 DEF EnterAnyForest, kept
  <2>4. QED
    BY <1>1, <1>2, <1>8, <2>3, FramePrime DEF EnterAnyForest, kept
<1>9. CASE EnterDies
  BY <1>1, <1>2, <1>9, FramePrime DEF EnterDies, captures, kept
<1>10. CASE EnterMismatch
  BY <1>1, <1>2, <1>10, FramePrime DEF EnterMismatch, captures, kept
<1>11. CASE EnterNode
  <2>1. IsTypeMatcher(at) /\ nChildren(start \o at) \in Nat
    BY <1>2, <1>11 DEF EnterNode, kept
  <2>2. 1 \in 1..(nChildren(start \o at) + 1)
    BY <2>1
  <2>3. QED
    BY <1>1, <1>2, <1>11, <2>1, <2>2, FramePrime DEF EnterNode, captures, kept
<1>12. CASE TryChild
  <2>1. /\ pc = "loop" /\ child \in 1..nChildren(target) /\ nChildren(target) \in Nat
        /\ start \in Path /\ at \in Path
    BY <1>2, <1>12, AtFacts DEF TryChild, kept, target
  <2>2. child \in Nat \ {0} /\ child <= nChildren(target)
    BY <2>1
  <2>3. start \o Append(at, child) = Append(start \o at, child)
    BY <2>1, <2>2, ConcatAppend
  <2>4. start \o Append(at, child) \in DOMAIN tree
    BY <2>1, <2>2, <2>3, AtFacts DEF target
  <2>5. Append(at, child) \in DOMAIN matcher
    <3> DEFINE n == Cardinality(children(at, matcher))
    <3>1. NodeAgrees(at, target)
      <4>1. at \in Passed
        BY <1>2, <2>1 DEF Passed, kept
      <4>2. Agrees(at, start) /\ IsTypeMatcher(at)
        BY <1>2, <2>1, <4>1 DEF Traversal, Succeeding, kept
      <4>3. QED
        BY <4>2 DEF Agrees, target
    <3>2. n \in Nat /\ children(at, matcher) = 1..n
          /\ (Append(at, child) \in DOMAIN matcher <=> child <= n)
      BY <1>2, <2>2, AtFacts DEF kept
    <3> HIDE DEF n
    <3>3. CASE nextIsAnyForest(at)
      <4>1. child = 1 /\ 1 \in 1..n
        BY <1>2, <2>1, <3>2, <3>3 DEF nextIsAnyForest, kept
      <4>2. QED
        BY <3>2, <4>1
    <3>4. CASE ~nextIsAnyForest(at)
      BY <2>2, <3>1, <3>2, <3>4 DEF NodeAgrees, ArityAgrees, n
    <3>5. QED
      BY <3>3, <3>4
  <2>6. /\ at' = Append(at, child) /\ pc' = "enter"
        /\ start' \in DOMAIN tree /\ start' = start
    BY <1>2, <1>12 DEF TryChild, kept
  <2>7. start' \o at' \in DOMAIN tree /\ at' \in DOMAIN matcher
    BY <2>4, <2>5, <2>6
  <2>8. QED
    BY <1>1, <1>2, <1>12, <2>6, <2>7, FramePrime DEF TryChild, captures, kept
<1>13. CASE ChildrenMatch
  <2>1. capture' \in [DOMAIN matcher -> DOMAIN tree \cup {NoNode}]
    BY <1>2, <1>13 DEF ChildrenMatch, target, kept
  <2>2. QED
    BY <1>1, <1>2, <1>13, <2>1, FramePrime DEF ChildrenMatch, kept
<1>14. CASE ReturnToParent
  <2> DEFINE f == Front(at)
             i == Last(at)
  <2>1. pc = "leave" /\ at # <<>> /\ at' = f /\ start' = start
    BY <1>14 DEF ReturnToParent
  <2>2. /\ f \in DOMAIN matcher /\ f \in Path /\ i \in Nat \ {0}
        /\ start \o f \in DOMAIN tree
        /\ i <= nChildren(start \o f) /\ nChildren(start \o f) \in Nat
        /\ result => IsTypeMatcher(f)
    BY <2>1, ParentFacts
  <2> HIDE DEF f, i
  <2>3. start' \o at' \in DOMAIN tree
    BY <2>1, <2>2
  <2>4. CASE ~result \/ nextIsAnyForest(f)
    <3>1. pc' = pc /\ child' = child
      BY <1>14, <2>4 DEF ReturnToParent, f
    <3>2. QED
      BY <1>1, <1>2, <1>14, <2>1, <2>2, <2>3, <3>1, FramePrime
         DEF ReturnToParent, captures, kept
  <2>5. CASE result /\ ~nextIsAnyForest(f)
    <3>1. pc' = "loop" /\ child' = i + 1
      BY <1>14, <2>5 DEF ReturnToParent, f, i
    <3>2. /\ child' \in Nat /\ child' \in 1..(nChildren(start \o f) + 1)
          /\ start' \o at' = start \o f
      BY <2>1, <2>2, <3>1
    <3>3. QED
      BY <1>1, <1>2, <1>14, <2>1, <2>2, <2>3, <2>5, <3>1, <3>2, FramePrime
         DEF ReturnToParent, captures, kept
  <2>6. QED
    BY <1>2, <2>4, <2>5 DEF kept
<1>15. CASE ReturnToSearch
  BY <1>1, <1>2, <1>15, FramePrime DEF ReturnToSearch, captures, kept
<1>16. CASE UNCHANGED vars
  BY <1>1, <1>2, <1>16, FramePrime DEF vars, captures, Frame, TypeOK, kept
<1>17. QED
  BY <1>1, <1>4, <1>5, <1>6, <1>7, <1>8, <1>9, <1>10, <1>11, <1>12, <1>13, <1>14,
     <1>15, <1>16 DEF Next

LEMMA TraversalPrime ==
  ASSUME UNCHANGED input
  PROVE  /\ Passed' =
              {q \in DOMAIN matcher :
                 \/ Before(q, at')
                 \/ pc' = "loop" /\ (q = at' \/ (IsStrictPrefix(at', q) /\ q[Len(at') + 1] < child'))
                 \/ pc' = "leave" /\ IsPrefix(at', q)}
         /\ Succeeding' <=> pc' \in {"enter", "loop"} \/ (pc' = "leave" /\ result')
         /\ Traversal' <=>
              /\ Succeeding' => \A q \in Passed' : Agrees(q, start')
              /\ pc' = "leave" /\ ~result' => \E q \in DOMAIN matcher : ~Agrees(q, start')
              /\ pc' = "died" => Decides(at', start') /\ Dies(at', start')
<1>1. tree' = tree /\ matcher' = matcher
  BY DEF input
<1>2. \A q : Agrees(q, start)' <=> Agrees(q, start')
  BY <1>1 DEF Agrees, Dies, IsTypeMatcher, NodeAgrees, ArityAgrees, nextIsAnyForest, nChildren
<1>3. Decides(at, start)' <=> Decides(at', start')
  BY <1>1 DEF Decides, Agrees, Dies, IsTypeMatcher, NodeAgrees, ArityAgrees,
              nextIsAnyForest, nChildren
<1>4. Dies(at, start)' <=> Dies(at', start')
  BY <1>1 DEF Dies
<1>5. Succeeding' <=> pc' \in {"enter", "loop"} \/ (pc' = "leave" /\ result')
  BY DEF Succeeding
<1>6. Traversal' <=>
              /\ Succeeding' => \A q \in Passed' : Agrees(q, start')
              /\ pc' = "leave" /\ ~result' => \E q \in DOMAIN matcher : ~Agrees(q, start')
              /\ pc' = "died" => Decides(at', start') /\ Dies(at', start')
  BY <1>1, <1>2, <1>3, <1>4 DEF Traversal
<1>7. QED
  BY <1>1, <1>5, <1>6 DEF Passed

LEMMA NothingBeforeRoot ==
  ASSUME NEW q \in Path
  PROVE  ~Before(q, <<>>)
<1>1. <<>> \in Path /\ Len(<<>>) = 0 /\ Len(q) \in Nat
  BY PathFacts DEF Path
<1>2. ~IsStrictPrefix(q, <<>>)
  BY <1>1, StrictPrefixFacts
<1>3. ~BranchesBefore(q, <<>>)
  BY <1>1 DEF BranchesBefore
<1>4. QED
  BY <1>1, <1>2, <1>3, BeforeFacts

LEMMA NothingBelow ==
  ASSUME Inputs, NEW p \in DOMAIN matcher, matcher[p].type \in Wildcard,
         NEW q \in DOMAIN matcher, IsPrefix(p, q)
  PROVE  q = p
<1>1. p \in Path /\ q \in Path /\ IsTree(matcher) /\ children(p, matcher) = {}
  BY InputFacts
<1>2. IsStrictPrefix(p, q) \/ q = p
  BY <1>1, BelowChild
<1>3. ~IsStrictPrefix(p, q)
  BY <1>1, StepBelow
<1>4. QED
  BY <1>2, <1>3

\* When the children match, the loop has been at all of the matcher's children.
LEMMA LoopIsComplete ==
  ASSUME Inputs, Frame, Traversal, ChildrenMatch,
         NEW q \in DOMAIN matcher, IsStrictPrefix(at, q)
  PROVE  q[Len(at) + 1] < child
<1> DEFINE n == Cardinality(children(at, matcher))
           i == q[Len(at) + 1]
<1>1. /\ pc = "loop" /\ child > nChildren(target) /\ child \in Nat
      /\ at \in DOMAIN matcher /\ at \in Path /\ IsTree(matcher)
  BY AtFacts, InputFacts DEF ChildrenMatch, Frame, TypeOK
<1>2. /\ i \in Nat \ {0} /\ i \in children(at, matcher)
      /\ n \in Nat /\ children(at, matcher) = 1..n
      /\ nChildren(target) \in Nat
  BY <1>1, StepBelow, AtFacts
<1>3. at \in Passed /\ Agrees(at, start) /\ IsTypeMatcher(at)
  BY <1>1 DEF Passed, Traversal, Succeeding, Frame
<1>4. NodeAgrees(at, target)
  BY <1>3 DEF Agrees, target
<1> HIDE DEF n, i
<1>5. ~nextIsAnyForest(at)
  BY <1>1, <1>2, <1>4 DEF NodeAgrees, ArityAgrees, Frame
<1>6. n = nChildren(target)
  BY <1>4, <1>5 DEF NodeAgrees, ArityAgrees, n
<1>7. i < child
  BY <1>1, <1>2, <1>6
<1>8. QED
  BY <1>7 DEF i

\* The result of a frame says whether all of what the traversal has passed
\* agrees; what it passes grows in preorder.
LEMMA TraversalStep ==
  ASSUME Inputs, Frame, Traversal, [Next]_vars
  PROVE  Traversal'
<1>1. UNCHANGED input /\ Frame'
  BY FrameStep
<1>2. /\ at \in DOMAIN matcher /\ at \in Path /\ DOMAIN matcher \subseteq Path
      /\ IsTree(matcher)
      /\ pc \in {"enter", "loop", "leave"} => target \in DOMAIN tree
  BY AtFacts, InputFacts
<1>3. ASSUME pc' \notin {"enter", "loop", "leave", "died"} PROVE Traversal'
  BY <1>1, <1>3, TraversalPrime
<1>4. \A q \in DOMAIN matcher : ~Before(q, <<>>)
  BY <1>2, NothingBeforeRoot
\* A frame that ends: what was passed before it, and the node with all below it.
<1>5. ASSUME pc \in {"enter", "loop"}, pc' = "leave", result', at' = at, start' = start,
             Agrees(at, start),
             \A q \in DOMAIN matcher : IsPrefix(at, q) => q = at \/ q \in Passed
      PROVE  Traversal'
  <2>1. \A q \in Passed : Agrees(q, start)
    BY <1>5 DEF Traversal, Succeeding
  <2>2. \A q \in DOMAIN matcher : Before(q, at) => q \in Passed
    BY DEF Passed
  <2>3. \A q \in Passed' : q \in DOMAIN matcher /\ (Before(q, at) \/ IsPrefix(at, q))
    BY <1>1, <1>5, TraversalPrime
  <2>4. \A q \in Passed' : Agrees(q, start')
    BY <1>5, <2>1, <2>2, <2>3
  <2>5. QED
    BY <1>1, <1>5, <2>4, TraversalPrime
\* A frame that goes on.
<1>6. ASSUME Succeeding, Succeeding', pc' # "leave", start' = start,
             \A q \in Passed' : q \in Passed \/ Agrees(q, start)
      PROVE  Traversal'
  <2>1. \A q \in Passed : Agrees(q, start)
    BY <1>6 DEF Traversal
  <2>2. pc' \in {"enter", "loop"}
    BY <1>1, <1>6, TraversalPrime
  <2>3. QED
    BY <1>1, <1>6, <2>1, <2>2, TraversalPrime
<1>7. CASE Call \/ Answer \/ ReturnToSearch
  BY <1>3, <1>7 DEF Call, Answer, ReturnToSearch
<1>8. CASE Attempt
  <2>1. pc' = "enter" /\ at' = <<>>
    BY <1>8 DEF Attempt
  <2>2. Passed' = {}
    BY <1>1, <1>4, <2>1, TraversalPrime
  <2>3. QED
    BY <1>1, <2>1, <2>2, TraversalPrime
<1>9. CASE EnterAnyTree
  <2>1. /\ pc = "enter" /\ pc' = "leave" /\ result' /\ at' = at /\ start' = start
        /\ matcher[at].type = "anyTree"
    BY <1>9 DEF EnterAnyTree, self
  <2>2. matcher[at].type \in Wildcard /\ matcher[at].type \notin Unconvertible
    BY <2>1 DEF Wildcard, Unconvertible
  <2>3. Agrees(at, start)
    BY <1>2, <2>1, <2>2 DEF Agrees, Dies, IsTypeMatcher, target
  <2>4. QED
    BY <1>2, <1>5, <2>1, <2>2, <2>3, NothingBelow
<1>10. CASE EnterAnyForest
  <2>1. /\ pc = "enter" /\ pc' = "leave" /\ result' /\ at' = at /\ start' = start
        /\ matcher[at].type = "anyForest" /\ ~hasPrevious(target)
    BY <1>10 DEF EnterAnyForest, self
  <2>2. matcher[at].type \in Wildcard /\ matcher[at].type \notin Unconvertible
    BY <2>1 DEF Wildcard, Unconvertible
  <2>3. Agrees(at, start)
    BY <1>2, <2>1, <2>2 DEF Agrees, Dies, IsTypeMatcher, target
  <2>4. QED
    BY <1>2, <1>5, <2>1, <2>2, <2>3, NothingBelow
<1>11. CASE EnterDies
  <2>1. /\ pc = "enter" /\ pc' = "died" /\ at' = at /\ start' = start
        /\ Dies(at, start)
    BY <1>11 DEF EnterDies, self, Dies, target
  <2>2. \A q \in DOMAIN matcher : Before(q, at) => Agrees(q, start)
    BY <2>1 DEF Traversal, Succeeding, Passed
  <2>3. Decides(at, start)
    BY <2>1, <2>2 DEF Decides, Agrees
  <2>4. QED
    BY <1>1, <2>1, <2>3, TraversalPrime
<1>12. CASE EnterMismatch
  <2>1. /\ pc' = "leave" /\ ~result' /\ start' = start
        /\ IsTypeMatcher(at) /\ ~NodeAgrees(at, start \o at)
    BY <1>12 DEF EnterMismatch, target
  <2>2. ~Agrees(at, start')
    BY <2>1 DEF Agrees
  <2>3. QED
    BY <1>1, <1>2, <2>1, <2>2, TraversalPrime
<1>13. CASE EnterNode
  <2>1. /\ pc = "enter" /\ pc' = "loop" /\ at' = at /\ start' = start /\ child' = 1
        /\ IsTypeMatcher(at) /\ NodeAgrees(at, start \o at) /\ start \o at \in DOMAIN tree
    BY <1>2, <1>13 DEF EnterNode, target
  <2>2. Agrees(at, start)
    BY <2>1 DEF Agrees, Dies, IsTypeMatcher, Wildcard
  <2>3. ASSUME NEW q \in Passed' PROVE q \in Passed \/ Agrees(q, start)
    <3>1. /\ q \in DOMAIN matcher
          /\ Before(q, at) \/ q = at \/ (IsStrictPrefix(at, q) /\ q[Len(at) + 1] < 1)
      BY <1>1, <2>1, TraversalPrime
    <3>2. IsStrictPrefix(at, q) => q[Len(at) + 1] \in Nat \ {0}
      BY <1>2, <3>1, StepBelow
    <3>3. Before(q, at) \/ q = at
      BY <3>1, <3>2
    <3>4. QED
      BY <2>2, <3>1, <3>3 DEF Passed
  <2>4. Succeeding /\ Succeeding' /\ pc' # "leave"
    BY <2>1 DEF Succeeding
  <2>5. QED
    BY <1>6, <2>1, <2>3, <2>4
<1>14. CASE TryChild
  <2>1. /\ pc = "loop" /\ pc' = "enter" /\ at' = Append(at, child) /\ start' = start
        /\ child \in Nat \ {0}
    BY <1>14 DEF TryChild, Frame
  <2>2. ASSUME NEW q \in Passed' PROVE q \in Passed
    <3>1. q \in DOMAIN matcher /\ Before(q, Append(at, child))
      BY <1>1, <2>1, TraversalPrime
    <3>2. Before(q, at) \/ q = at \/ (IsStrictPrefix(at, q) /\ q[Len(at) + 1] < child)
      BY <1>2, <2>1, <3>1, BeforeChild
    <3>3. QED
      BY <2>1, <3>1, <3>2 DEF Passed
  <2>3. Succeeding /\ Succeeding' /\ pc' # "leave"
    BY <2>1 DEF Succeeding
  <2>4. QED
    BY <1>6, <2>1, <2>2, <2>3
<1>15. CASE ChildrenMatch
  <2>1. /\ pc = "loop" /\ pc' = "leave" /\ result' /\ at' = at /\ start' = start
        /\ child > nChildren(target)
    BY <1>15 DEF ChildrenMatch
  <2>2. at \in Passed /\ Agrees(at, start) /\ IsTypeMatcher(at)
    BY <1>2, <2>1 DEF Passed, Traversal, Succeeding, Frame
  <2>3. ASSUME NEW q \in DOMAIN matcher, IsPrefix(at, q) PROVE q = at \/ q \in Passed
    BY <1>2, <1>15, <2>1, <2>3, BelowChild, LoopIsComplete DEF Passed
  <2>4. QED
    BY <1>5, <2>1, <2>2, <2>3
<1>16. CASE ReturnToParent
  <2> DEFINE f == Front(at)
             i == Last(at)
  <2>1. pc = "leave" /\ at # <<>> /\ at' = f /\ start' = start /\ result' = result
    BY <1>16 DEF ReturnToParent
  <2>2. /\ f \in DOMAIN matcher /\ f \in Path /\ i \in Nat \ {0}
        /\ at = Append(f, i)
        /\ nextIsAnyForest(f) => i = 1
    BY <2>1, ParentFacts
  <2> HIDE DEF f, i
  <2>3. CASE ~result
    <3>1. pc' = "leave" /\ \E q \in DOMAIN matcher : ~Agrees(q, start)
      BY <1>16, <2>1, <2>3 DEF ReturnToParent, Traversal
    <3>2. QED
      BY <1>1, <2>1, <2>3, <3>1, TraversalPrime
  <2>4. CASE result
    <3>1. \A q \in Passed : Agrees(q, start)
      BY <2>1, <2>4 DEF Traversal, Succeeding
    <3>2. ASSUME NEW q \in DOMAIN matcher,
                 Before(q, f) \/ q = f \/ (IsStrictPrefix(f, q) /\ q[Len(f) + 1] <= i)
          PROVE  q \in Passed
      <4>1. IsStrictPrefix(f, q) => q[Len(f) + 1] \in Nat
        BY <1>2, <2>2, StepBelow
      <4>2. Before(q, at) \/ IsPrefix(at, q)
        BY <1>2, <2>2, <3>2, <4>1, BeforeChild, BelowChild
      <4>3. QED
        BY <2>1, <4>2 DEF Passed
    <3>3. CASE nextIsAnyForest(f)
      <4>1. pc' = "leave"
        BY <1>16, <2>1, <3>3 DEF ReturnToParent, f
      <4>2. ASSUME NEW q \in Passed' PROVE q \in Passed
        <5>1. q \in DOMAIN matcher /\ (Before(q, f) \/ IsPrefix(f, q))
          BY <1>1, <2>1, <4>1, TraversalPrime
        <5>2. IsPrefix(f, q) => IsStrictPrefix(f, q) \/ q = f
          BY <1>2, <2>2, <5>1, BelowChild
        <5>3. ASSUME IsStrictPrefix(f, q) PROVE q[Len(f) + 1] = 1
          <6>1. children(f, matcher) = {1}
            BY <3>3 DEF nextIsAnyForest
          <6>2. QED
            BY <1>2, <2>2, <5>1, <5>3, <6>1, StepBelow
        <5>4. QED
          BY <2>2, <3>2, <3>3, <5>1, <5>2, <5>3
      <4>3. QED
        BY <1>1, <2>1, <2>4, <3>1, <4>1, <4>2, TraversalPrime
    <3>4. CASE ~nextIsAnyForest(f)
      <4>1. pc' = "loop" /\ child' = i + 1
        BY <1>16, <2>4, <3>4 DEF ReturnToParent, f, i
      <4>2. ASSUME NEW q \in Passed' PROVE q \in Passed
        <5>1. /\ q \in DOMAIN matcher
              /\ Before(q, f) \/ q = f \/ (IsStrictPrefix(f, q) /\ q[Len(f) + 1] < i + 1)
          BY <1>1, <2>1, <4>1, TraversalPrime
        <5>2. IsStrictPrefix(f, q) => q[Len(f) + 1] \in Nat
          BY <1>2, <2>2, <5>1, StepBelow
        <5>3. QED
          BY <2>2, <3>2, <5>1, <5>2
      <4>3. QED
        BY <1>1, <2>1, <3>1, <4>1, <4>2, TraversalPrime
    <3>5. QED
      BY <3>3, <3>4
  <2>5. QED
    BY <2>3, <2>4
<1>17. CASE UNCHANGED vars
  <2>1. pc' = pc /\ at' = at /\ start' = start /\ child' = child /\ result' = result
    BY <1>17 DEF vars
  <2>2. (Passed' = Passed) /\ (Succeeding' <=> Succeeding)
    BY <1>1, <2>1, TraversalPrime DEF Passed, Succeeding
  <2>3. QED
    BY <1>1, <2>1, <2>2, TraversalPrime DEF Traversal
<1>18. QED
  BY <1>7, <1>8, <1>9, <1>10, <1>11, <1>12, <1>13, <1>14, <1>15, <1>16, <1>17 DEF Next

-----------------------------------------------------------------------------
(***************************************************************************)
(* What a match captures.                                                  *)
(***************************************************************************)
LEMMA CapturesPrime ==
  ASSUME UNCHANGED input
  PROVE  /\ Returned' =
              {q \in DOMAIN matcher :
                 \/ Before(q, at') /\ ~IsStrictPrefix(q, at')
                 \/ pc' = "loop" /\ IsStrictPrefix(at', q) /\ q[Len(at') + 1] < child'
                 \/ pc' \in {"leave", "next", "done"} /\ IsPrefix(at', q)}
         /\ Capturing' <=> \/ pc' \in {"enter", "loop"}
                           \/ pc' \in {"leave", "next", "done"} /\ result'
         /\ Captures' <=> (Capturing' => \A q \in Returned' : Captured(q)')
         /\ start' = start =>
              \A q : capture'[q] = capture[q] /\ multiCapture'[q] = multiCapture[q] =>
                       (Captured(q)' <=> Captured(q))
<1>1. tree' = tree /\ matcher' = matcher
  BY DEF input
<1>2. Capturing' <=> \/ pc' \in {"enter", "loop"}
                     \/ pc' \in {"leave", "next", "done"} /\ result'
  BY DEF Capturing, Succeeding
<1>3. ASSUME start' = start, NEW q,
             capture'[q] = capture[q], multiCapture'[q] = multiCapture[q]
      PROVE  Captured(q)' <=> Captured(q)
  BY <1>1, <1>3 DEF Captured, nextIsAnyForest, ThisAndNextSiblings, nChildren
<1>4. QED
  BY <1>1, <1>2, <1>3 DEF Captures, Returned

\* The captures are those of the match: what has returned is not written again
\* before the next attempt, and an attempt that succeeds writes all of them.
LEMMA CapturesStep ==
  ASSUME Inputs, Frame, Traversal, Captures, Search, [Next]_vars
  PROVE  Captures'
<1>1. UNCHANGED input /\ Frame'
  BY FrameStep
<1>2. /\ at \in DOMAIN matcher /\ at \in Path /\ DOMAIN matcher \subseteq Path
      /\ IsTree(matcher) /\ tree' = tree /\ matcher' = matcher
      /\ capture \in [DOMAIN matcher -> DOMAIN tree \cup {NoNode}]
      /\ DOMAIN multiCapture = DOMAIN matcher
  BY <1>1, AtFacts, InputFacts DEF input, Frame, TypeOK
<1>3. \A q \in Returned : q \in DOMAIN matcher
  BY DEF Returned
\* A step that writes no capture.
<1>4. ASSUME UNCHANGED captures, start' = start, Capturing' => Capturing,
             Capturing' => \A q \in Returned' : q \in Returned \/ Captured(q)
      PROVE  Captures'
  <2>1. \A q : Captured(q)' <=> Captured(q)
    BY <1>1, <1>4, CapturesPrime DEF captures
  <2>2. Capturing => \A q \in Returned : Captured(q)
    BY DEF Captures
  <2>3. QED
    BY <1>1, <1>4, <2>1, <2>2, CapturesPrime
\* A frame that ends writes its own variable, and nothing else.
<1>5. ASSUME pc \in {"enter", "loop"}, pc' = "leave", at' = at, start' = start,
             \A q \in DOMAIN matcher : q # at =>
               capture'[q] = capture[q] /\ multiCapture'[q] = multiCapture[q],
             Captured(at)',
             \A q \in DOMAIN matcher : IsPrefix(at, q) => q = at \/ q \in Returned
      PROVE  Captures'
  <2>1. \A q \in Returned : Captured(q)
    BY <1>5 DEF Captures, Capturing, Succeeding
  <2>2. ASSUME NEW q \in Returned' PROVE Captured(q)'
    <3>1. /\ q \in DOMAIN matcher
          /\ (Before(q, at) /\ ~IsStrictPrefix(q, at)) \/ IsPrefix(at, q)
      BY <1>1, <1>5, CapturesPrime
    <3>2. q = at \/ q \in Returned
      BY <1>5, <3>1 DEF Returned
    <3>3. CASE q # at
      <4>1. Captured(q)' <=> Captured(q)
        BY <1>1, <1>5, <3>1, <3>3, CapturesPrime
      <4>2. QED
        BY <2>1, <3>2, <3>3, <4>1
    <3>4. QED
      BY <1>5, <3>3
  <2>3. QED
    BY <1>1, <2>2, CapturesPrime
<1>6. CASE Call \/ EnterDies \/ EnterMismatch
  <2>1. ~Capturing'
    BY <1>1, <1>6, CapturesPrime DEF Call, EnterDies, EnterMismatch, Search
  <2>2. QED
    BY <1>1, <2>1, CapturesPrime
<1>7. CASE Attempt
  <2>1. pc' = "enter" /\ at' = <<>>
    BY <1>7 DEF Attempt
  <2>2. Returned' = {}
    BY <1>1, <1>2, <2>1, CapturesPrime, NothingBeforeRoot
  <2>3. QED
    BY <1>1, <2>2, CapturesPrime
<1>8. CASE Answer
  <2>1. /\ pc = "next" /\ pc' = "done" /\ at' = at /\ start' = start /\ result' = result
        /\ UNCHANGED captures
    BY <1>8 DEF Answer
  <2>2. (Capturing' => Capturing) /\ \A q \in Returned' : q \in Returned
    BY <1>1, <2>1, CapturesPrime DEF Capturing, Returned
  <2>3. QED
    BY <1>4, <2>1, <2>2
<1>9. CASE EnterAnyTree
  <2>1. /\ pc = "enter" /\ pc' = "leave" /\ at' = at /\ start' = start
        /\ matcher[at].type = "anyTree" /\ multiCapture' = multiCapture
        /\ capture' = IF matcher[at].captures THEN [capture EXCEPT ![at] = start \o at]
                      ELSE capture
    BY <1>9 DEF EnterAnyTree, self, target
  <2>2. \A q \in DOMAIN matcher : q # at =>
          capture'[q] = capture[q] /\ multiCapture'[q] = multiCapture[q]
    BY <1>2, <2>1
  <2>3. Captured(at)'
    BY <1>2, <2>1 DEF Captured
  <2>4. matcher[at].type \in Wildcard
    BY <2>1 DEF Wildcard
  <2>5. QED
    BY <1>2, <1>5, <2>1, <2>2, <2>3, <2>4, NothingBelow
<1>10. CASE EnterAnyForest
  <2>1. /\ pc = "enter" /\ pc' = "leave" /\ at' = at /\ start' = start
        /\ matcher[at].type = "anyForest" /\ capture' = capture
        /\ multiCapture' = [multiCapture EXCEPT ![at] = ThisAndNextSiblings(start \o at)]
    BY <1>10 DEF EnterAnyForest, self, target
  <2>2. \A q \in DOMAIN matcher : q # at =>
          capture'[q] = capture[q] /\ multiCapture'[q] = multiCapture[q]
    BY <1>2, <2>1
  <2>3. Captured(at)'
    BY <1>2, <2>1 DEF Captured, ThisAndNextSiblings, nChildren
  <2>4. matcher[at].type \in Wildcard
    BY <2>1 DEF Wildcard
  <2>5. QED
    BY <1>2, <1>5, <2>1, <2>2, <2>3, <2>4, NothingBelow
<1>11. CASE EnterNode
  <2>1. /\ pc = "enter" /\ pc' = "loop" /\ at' = at /\ start' = start /\ child' = 1
        /\ UNCHANGED captures
    BY <1>11 DEF EnterNode
  <2>2. ASSUME NEW q \in Returned' PROVE q \in Returned
    <3>1. /\ q \in DOMAIN matcher
          /\ \/ Before(q, at) /\ ~IsStrictPrefix(q, at)
             \/ IsStrictPrefix(at, q) /\ q[Len(at) + 1] < 1
      BY <1>1, <2>1, CapturesPrime
    <3>2. IsStrictPrefix(at, q) => q[Len(at) + 1] \in Nat \ {0}
      BY <1>2, <3>1, StepBelow
    <3>3. QED
      BY <3>1, <3>2 DEF Returned
  <2>3. Capturing
    BY <2>1 DEF Capturing, Succeeding
  <2>4. QED
    BY <1>4, <2>1, <2>2, <2>3
<1>12. CASE TryChild
  <2>1. /\ pc = "loop" /\ pc' = "enter" /\ at' = Append(at, child) /\ start' = start
        /\ child \in Nat \ {0} /\ UNCHANGED captures
    BY <1>12 DEF TryChild, Frame
  <2>2. ASSUME NEW q \in Returned' PROVE q \in Returned
    <3>1. q \in DOMAIN matcher /\ q \in Path
          /\ Before(q, Append(at, child)) /\ ~IsStrictPrefix(q, Append(at, child))
      BY <1>1, <1>2, <2>1, CapturesPrime
    <3>2. Before(q, at) \/ q = at \/ (IsStrictPrefix(at, q) /\ q[Len(at) + 1] < child)
      BY <1>2, <2>1, <3>1, BeforeChild
    <3>3. q # at /\ ~IsStrictPrefix(q, at)
      BY <1>2, <2>1, <3>1, StrictlyAboveChild
    <3>4. QED
      BY <2>1, <3>1, <3>2, <3>3 DEF Returned
  <2>3. Capturing
    BY <2>1 DEF Capturing, Succeeding
  <2>4. QED
    BY <1>4, <2>1, <2>2, <2>3
<1>13. CASE ChildrenMatch
  <2>1. /\ pc = "loop" /\ pc' = "leave" /\ at' = at /\ start' = start
        /\ multiCapture' = multiCapture /\ IsTypeMatcher(at)
        /\ capture' = IF matcher[at].captures THEN [capture EXCEPT ![at] = start \o at]
                      ELSE capture
    BY <1>13 DEF ChildrenMatch, self, target, Frame
  <2>2. \A q \in DOMAIN matcher : q # at =>
          capture'[q] = capture[q] /\ multiCapture'[q] = multiCapture[q]
    BY <1>2, <2>1
  <2>3. Captured(at)'
    BY <1>2, <2>1 DEF Captured, IsTypeMatcher, Wildcard
  <2>4. ASSUME NEW q \in DOMAIN matcher, IsPrefix(at, q) PROVE q = at \/ q \in Returned
    BY <1>2, <1>13, <2>1, <2>4, BelowChild, LoopIsComplete DEF Returned
  <2>5. QED
    BY <1>5, <2>1, <2>2, <2>3, <2>4
<1>14. CASE ReturnToParent
  <2> DEFINE f == Front(at)
             i == Last(at)
  <2>1. /\ pc = "leave" /\ at # <<>> /\ at' = f /\ start' = start /\ result' = result
        /\ UNCHANGED captures
    BY <1>14 DEF ReturnToParent
  <2>2. /\ f \in DOMAIN matcher /\ f \in Path /\ i \in Nat \ {0}
        /\ at = Append(f, i)
        /\ nextIsAnyForest(f) => i = 1
        /\ result => IsTypeMatcher(f)
    BY <2>1, ParentFacts
  <2> HIDE DEF f, i
  <2>3. CASE ~result
    <3>1. pc' = "leave" /\ ~Capturing'
      BY <1>1, <1>14, <2>1, <2>3, CapturesPrime DEF ReturnToParent
    <3>2. QED
      BY <1>1, <3>1, CapturesPrime
  <2>4. CASE result
    <3>1. Capturing
      BY <2>1, <2>4 DEF Capturing, Succeeding
    <3>2. ASSUME NEW q \in DOMAIN matcher,
                 \/ Before(q, f) /\ ~IsStrictPrefix(q, f)
                 \/ IsStrictPrefix(f, q) /\ q[Len(f) + 1] <= i
          PROVE  q \in Returned
      <4>1. q \in Path /\ (IsStrictPrefix(f, q) => q[Len(f) + 1] \in Nat)
        BY <1>2, <2>2, StepBelow
      <4>2. Before(q, at) \/ IsPrefix(at, q)
        BY <1>2, <2>2, <3>2, <4>1, BeforeChild, BelowChild
      <4>3. q # f
        BY <1>2, <2>2, <3>2, BeforeIsStrict DEF IsStrictPrefix
      <4>4. ~IsStrictPrefix(q, f)
        BY <2>2, <3>2, <4>1, StrictPrefixFacts, PathFacts
      <4>5. ~IsStrictPrefix(q, at)
        BY <2>2, <4>1, <4>3, <4>4, StrictlyAboveChild
      <4>6. QED
        BY <2>1, <4>2, <4>5 DEF Returned
    <3>3. CASE nextIsAnyForest(f)
      <4>1. pc' = "leave"
        BY <1>14, <2>1, <3>3 DEF ReturnToParent, f
      <4>2. Captured(f)
        BY <2>2, <2>4, <3>3 DEF Captured, IsTypeMatcher, Wildcard
      <4>3. ASSUME NEW q \in Returned' PROVE q \in Returned \/ Captured(q)
        <5>1. /\ q \in DOMAIN matcher
              /\ (Before(q, f) /\ ~IsStrictPrefix(q, f)) \/ IsPrefix(f, q)
          BY <1>1, <2>1, <4>1, CapturesPrime
        <5>2. IsPrefix(f, q) => IsStrictPrefix(f, q) \/ q = f
          BY <1>2, <2>2, <5>1, BelowChild
        <5>3. ASSUME IsStrictPrefix(f, q) PROVE q[Len(f) + 1] = 1
          <6>1. children(f, matcher) = {1}
            BY <3>3 DEF nextIsAnyForest
          <6>2. QED
            BY <1>2, <2>2, <5>1, <5>3, <6>1, StepBelow
        <5>4. QED
          BY <2>2, <3>2, <3>3, <4>2, <5>1, <5>2, <5>3
      <4>4. QED
        BY <1>4, <2>1, <3>1, <4>3
    <3>4. CASE ~nextIsAnyForest(f)
      <4>1. pc' = "loop" /\ child' = i + 1
        BY <1>14, <2>4, <3>4 DEF ReturnToParent, f, i
      <4>2. ASSUME NEW q \in Returned' PROVE q \in Returned
        <5>1. /\ q \in DOMAIN matcher
              /\ \/ Before(q, f) /\ ~IsStrictPrefix(q, f)
                 \/ IsStrictPrefix(f, q) /\ q[Len(f) + 1] < i + 1
          BY <1>1, <2>1, <4>1, CapturesPrime
        <5>2. IsStrictPrefix(f, q) => q[Len(f) + 1] \in Nat
          BY <1>2, <2>2, <5>1, StepBelow
        <5>3. QED
          BY <2>2, <3>2, <5>1, <5>2
      <4>3. QED
        BY <1>4, <2>1, <3>1, <4>2
    <3>5. QED
      BY <3>3, <3>4
  <2>5. QED
    BY <2>3, <2>4
<1>15. CASE ReturnToSearch
  <2>1. /\ pc = "leave" /\ pc' = "next" /\ at' = at /\ start' = start /\ result' = result
        /\ UNCHANGED captures
    BY <1>15 DEF ReturnToSearch
  <2>2. (Capturing' => Capturing) /\ \A q \in Returned' : q \in Returned
    BY <1>1, <2>1, CapturesPrime DEF Capturing, Succeeding, Returned
  <2>3. QED
    BY <1>4, <2>1, <2>2
<1>16. CASE UNCHANGED vars
  <2>1. /\ pc' = pc /\ at' = at /\ start' = start /\ result' = result /\ child' = child
        /\ UNCHANGED captures
    BY <1>16 DEF vars
  <2>2. (Capturing' => Capturing) /\ \A q \in Returned' : q \in Returned
    BY <1>1, <2>1, CapturesPrime DEF Capturing, Succeeding, Returned
  <2>3. QED
    BY <1>4, <2>1, <2>2
<1>17. QED
  BY <1>6, <1>7, <1>8, <1>9, <1>10, <1>11, <1>12, <1>13, <1>14, <1>15, <1>16 DEF Next


-----------------------------------------------------------------------------
(***************************************************************************)
(* The search.                                                             *)
(***************************************************************************)
LEMMA RestOfList ==
  ASSUME NEW S, NEW s \in Seq(S), NEW j \in 0..Len(s)
  PROVE  /\ SubSeq(s, 1, Len(s)) = s
         /\ SubSeq(s, j + 1, Len(s)) = <<>> <=> j = Len(s)
         /\ j < Len(s) => /\ Head(SubSeq(s, j + 1, Len(s))) = s[j + 1]
                          /\ Tail(SubSeq(s, j + 1, Len(s))) = SubSeq(s, j + 2, Len(s))
<1> DEFINE n == Len(s)
           r == SubSeq(s, j + 1, n)
           t == SubSeq(s, j + 2, n)
           u == SubSeq(s, 1, n)
<1>1. n \in Nat /\ \A i \in 1..n : s[i] \in S
  BY LenProperties, ElementOfSeq
<1>2. /\ u \in Seq(S) /\ Len(u) = n /\ \A i \in 1..n : u[i] = s[i]
  BY <1>1, SubSeqProperties
<1>3. /\ r \in Seq(S) /\ Len(r) = n - j /\ \A i \in 1..(n - j) : r[i] = s[j + i]
  BY <1>1, SubSeqProperties
<1>4. j < n => t \in Seq(S) /\ Len(t) = n - j - 1 /\ \A i \in 1..(n - j - 1) : t[i] = s[j + 1 + i]
  BY <1>1, SubSeqProperties
<1> HIDE DEF n, r, t, u
<1>5. u = s
  BY <1>1, <1>2, SeqEqual DEF n
<1>6. r = <<>> <=> j = n
  BY <1>1, <1>3, EmptySeq, LenProperties DEF n
<1>7. ASSUME j < n PROVE Head(r) = s[j + 1] /\ Tail(r) = t
  <2>1. r # <<>>
    BY <1>1, <1>6, <1>7
  <2>2. /\ Head(r) = r[1] /\ Tail(r) \in Seq(S) /\ Len(Tail(r)) = Len(r) - 1
        /\ \A i \in 1..(Len(r) - 1) : Tail(r)[i] = r[i + 1]
    BY <1>3, <2>1, HeadTailProperties, LenProperties
  <2>3. Head(r) = s[j + 1]
    BY <1>1, <1>3, <1>7, <2>2 DEF n
  <2>4. Len(Tail(r)) = n - j - 1 /\ \A i \in 1..(n - j - 1) : Tail(r)[i] = t[i]
    <3>1. j \in Nat /\ Len(Tail(r)) = n - j - 1
      BY <1>1, <1>3, <2>2 DEF n
    <3>2. ASSUME NEW i \in 1..(n - j - 1) PROVE Tail(r)[i] = t[i]
      <4>1. /\ i \in 1..(Len(r) - 1) /\ i + 1 \in 1..(n - j)
            /\ j + (i + 1) = j + 1 + i
        BY <1>1, <1>3, <3>1
      <4>2. Tail(r)[i] = r[i + 1] /\ r[i + 1] = s[j + (i + 1)]
        BY <1>3, <2>2, <4>1
      <4>3. t[i] = s[j + 1 + i]
        BY <1>4, <1>7
      <4>4. QED
        BY <4>1, <4>2, <4>3
    <3>3. QED
      BY <3>1, <3>2
  <2>5. Tail(r) = t
    BY <1>4, <1>7, <2>2, <2>4, SeqEqual
  <2>6. QED
    BY <2>3, <2>5
<1>8. QED
  BY <1>5, <1>6, <1>7 DEF n, r, t, u

LEMMA ResultFact ==
  ASSUME Inputs, Frame, Traversal
  PROVE  ResultIsStructural
<1>1. ASSUME pc = "leave", at = <<>> PROVE result <=> Matches(start)
  <2>1. DOMAIN matcher \subseteq Path /\ <<>> \in Path /\ Len(<<>>) = 0
    BY InputFacts
  <2>2. \A q \in DOMAIN matcher : IsPrefix(<<>>, q)
    BY <2>1, PrefixFacts, PathFacts
  <2>3. \A q \in DOMAIN matcher : q \in Passed
    BY <1>1, <2>2 DEF Passed
  <2>4. result => Matches(start)
    BY <1>1, <2>3 DEF Traversal, Succeeding, Matches
  <2>5. ~result => ~Matches(start)
    BY <1>1 DEF Traversal, Matches
  <2>6. QED
    BY <2>4, <2>5
<1>2. QED
  BY <1>1 DEF ResultIsStructural, Traversal

LEMMA TriedPrime ==
  ASSUME UNCHANGED input, NEW V, V = Visited(op, node), NEW j
  PROVE  /\ V = Visited(op, node)'
         /\ Tried(j)' <=>
              /\ j \in 0..Len(V)
              /\ todo' = SubSeq(V, j + 1, Len(V))
              /\ j > 0 => start' = V[j]
              /\ \A i \in 1..(j - 1) : ~Matches(V[i])
              /\ pc' \in {"enter", "loop", "leave", "died"} => j > 0
              /\ pc' \in {"next", "done"} => (result' <=> j > 0 /\ Matches(V[j]))
<1>1. V = Visited(op, node)'
  BY SameInputs
<1>2. \A i : Matches(V[i])' <=> Matches(V[i])
  BY SameInputs
<1>3. QED
  BY <1>1, <1>2 DEF Tried

\* An attempt follows only on attempts that did not match.
LEMMA SearchStep ==
  ASSUME Inputs, Frame, Traversal, Search, [Next]_vars
  PROVE  Search'
<1>1. UNCHANGED input /\ Frame'
  BY FrameStep
<1>2. PICK V : V = Visited(op, node)
  OBVIOUS
<1>3. V \in Seq(DOMAIN tree) /\ Len(V) \in Nat
  BY <1>2, VisitedFacts
<1>4. Search' <=> /\ pc' = "call" => ~result'
                  /\ pc' = "done" => result' \/ todo' = <<>>
                  /\ pc' # "call" => \E j \in 0..Len(V) : Tried(j)'
  BY <1>1, <1>2, TriedPrime DEF Search
<1>5. ASSUME NEW j, Tried(j)
      PROVE  /\ j \in 0..Len(V)
             /\ todo = SubSeq(V, j + 1, Len(V))
             /\ j > 0 => start = V[j]
             /\ \A i \in 1..(j - 1) : ~Matches(V[i])
             /\ pc \in {"enter", "loop", "leave", "died"} => j > 0
             /\ pc \in {"next", "done"} => (result <=> j > 0 /\ Matches(V[j]))
  BY <1>2, <1>5 DEF Tried
<1>6. pc # "call" => \E j \in 0..Len(V) : Tried(j)
  BY <1>2 DEF Search
\* A step within an attempt.
<1>7. ASSUME pc \in {"enter", "loop", "leave"},
             pc' \in {"enter", "loop", "leave", "died"}, UNCHANGED <<todo, start>>
      PROVE  Search'
  <2>1. PICK j \in 0..Len(V) : Tried(j)
    BY <1>6, <1>7
  <2>2. Tried(j)'
    BY <1>1, <1>2, <1>5, <1>7, <2>1, TriedPrime
  <2>3. QED
    BY <1>4, <1>7, <2>1, <2>2
<1>8. CASE Call
  <2>1. pc' = "next" /\ todo' = V /\ ~result'
    BY <1>2, <1>8 DEF Call, Search
  <2>2. todo' = SubSeq(V, 0 + 1, Len(V)) /\ 0 \in 0..Len(V)
    BY <1>3, <2>1, RestOfList
  <2>3. Tried(0)'
    BY <1>1, <1>2, <2>1, <2>2, TriedPrime
  <2>4. QED
    BY <1>4, <2>1, <2>2, <2>3
<1>9. CASE Attempt
  <2>1. /\ pc = "next" /\ pc' = "enter" /\ ~result /\ todo # <<>>
        /\ start' = Head(todo) /\ todo' = Tail(todo)
    BY <1>9 DEF Attempt
  <2>2. PICK j \in 0..Len(V) : Tried(j)
    BY <1>6, <2>1
  <2>3. /\ todo = SubSeq(V, j + 1, Len(V)) /\ \A i \in 1..(j - 1) : ~Matches(V[i])
        /\ ~(j > 0 /\ Matches(V[j]))
    BY <1>5, <2>1, <2>2
  <2>4. j # Len(V)
    BY <1>3, <2>1, <2>3, RestOfList
  <2>5. j < Len(V) /\ j + 1 \in 0..Len(V) /\ j + 1 > 0 /\ (j + 1) + 1 = j + 2
    BY <1>3, <2>4
  <2>6. start' = V[j + 1] /\ todo' = SubSeq(V, j + 2, Len(V))
    BY <1>3, <2>1, <2>3, <2>5, RestOfList
  <2>7. \A i \in 1..((j + 1) - 1) : ~Matches(V[i])
    <3>1. ASSUME NEW i \in 1..((j + 1) - 1) PROVE ~Matches(V[i])
      <4>1. i \in 1..(j - 1) \/ (i = j /\ j > 0)
        OBVIOUS
      <4>2. QED
        BY <2>3, <4>1
    <3>2. QED
      BY <3>1
  <2>8. Tried(j + 1)'
    BY <1>1, <1>2, <2>1, <2>5, <2>6, <2>7, TriedPrime
  <2>9. QED
    BY <1>4, <2>1, <2>5, <2>8
<1>10. CASE Answer
  <2>1. /\ pc = "next" /\ pc' = "done" /\ (result \/ todo = <<>>)
        /\ UNCHANGED <<todo, start, result>>
    BY <1>10 DEF Answer
  <2>2. PICK j \in 0..Len(V) : Tried(j)
    BY <1>6, <2>1
  <2>3. Tried(j)'
    BY <1>1, <1>2, <1>5, <2>1, <2>2, TriedPrime
  <2>4. QED
    BY <1>4, <2>1, <2>2, <2>3
<1>11. CASE EnterAnyTree \/ EnterAnyForest \/ EnterDies \/ EnterMismatch \/ EnterNode
            \/ TryChild \/ ChildrenMatch
  BY <1>7, <1>11 DEF EnterAnyTree, EnterAnyForest, EnterDies, EnterMismatch, EnterNode,
                     TryChild, ChildrenMatch
<1>12. CASE ReturnToParent
  BY <1>7, <1>12 DEF ReturnToParent
<1>13. CASE ReturnToSearch
  <2>1. /\ pc = "leave" /\ at = <<>> /\ pc' = "next" /\ UNCHANGED <<todo, start, result>>
    BY <1>13 DEF ReturnToSearch
  <2>2. PICK j \in 0..Len(V) : Tried(j)
    BY <1>6, <2>1
  <2>3. j > 0 /\ start = V[j]
    BY <1>5, <2>1, <2>2
  <2>4. result <=> Matches(V[j])
    BY <2>1, <2>3, ResultFact DEF ResultIsStructural
  <2>5. Tried(j)'
    BY <1>1, <1>2, <1>5, <2>1, <2>2, <2>3, <2>4, TriedPrime
  <2>6. QED
    BY <1>4, <2>1, <2>2, <2>5
<1>14. CASE UNCHANGED vars
  <2>1. UNCHANGED <<todo, start, result, pc>>
    BY <1>14 DEF vars
  <2>2. ASSUME NEW j, Tried(j) PROVE Tried(j)'
    BY <1>1, <1>2, <1>5, <2>1, <2>2, TriedPrime
  <2>3. QED
    BY <1>4, <1>6, <2>1, <2>2 DEF Search
<1>15. QED
  BY <1>8, <1>9, <1>10, <1>11, <1>12, <1>13, <1>14 DEF Next

-----------------------------------------------------------------------------
(***************************************************************************)
(* Theorems.                                                               *)
(***************************************************************************)
Inv == Inputs /\ Frame /\ Traversal /\ Captures /\ Search

LEMMA InitInv == Init => Inv
<1> SUFFICES ASSUME Init PROVE Inv
  OBVIOUS
<1>1. Inputs
  BY DEF Init, Inputs
<1>2. <<>> \in DOMAIN matcher
  BY <1>1, InputFacts
<1>3. Range(<<>>) \subseteq DOMAIN tree /\ <<>> \in Seq(DOMAIN tree)
  BY DEF Range
<1>4. Frame
  BY <1>1, <1>2, <1>3 DEF Init, Inputs, Frame, TypeOK
<1>5. Traversal /\ Captures /\ Search
  BY DEF Init, Traversal, Captures, Search, Capturing, Succeeding
<1>6. QED
  BY <1>1, <1>4, <1>5 DEF Inv

LEMMA NextInv == Inv /\ [Next]_vars => Inv'
<1> SUFFICES ASSUME Inv, [Next]_vars PROVE Inv'
  OBVIOUS
<1>1. Inputs /\ Frame /\ Traversal /\ Captures /\ Search
  BY DEF Inv
<1>2. Frame' /\ UNCHANGED input
  BY <1>1, FrameStep
<1>3. Inputs'
  BY <1>1, <1>2, SameInputs
<1>4. Traversal' /\ Captures' /\ Search'
  BY <1>1, TraversalStep, CapturesStep, SearchStep
<1>5. QED
  BY <1>2, <1>3, <1>4 DEF Inv

LEMMA Invariance == Spec => []Inv
BY InitInv, NextInv, PTL DEF Spec

LEMMA FoundFact ==
  ASSUME Inputs, Search
  PROVE  FoundIsFirst
<1> SUFFICES ASSUME pc = "done"
             PROVE  IF result
                    THEN /\ start \in Region /\ Matches(start)
                         /\ \A v \in Region : TriedBefore(v) => ~Matches(v)
                    ELSE \A v \in Region : ~Matches(v)
  BY DEF FoundIsFirst
<1> DEFINE V == Visited(op, node)
<1>1. /\ V \in Seq(DOMAIN tree) /\ Len(V) \in Nat
      /\ \A i \in 1..Len(V) : V[i] \in Region
      /\ \A v \in Region : \E i \in 1..Len(V) : V[i] = v
      /\ \A i, j \in 1..Len(V) : Earlier(V[i], V[j]) => i < j
  BY VisitedFacts
<1>2. PICK j \in 0..Len(V) : Tried(j)
  BY DEF Search
<1>3. /\ todo = SubSeq(V, j + 1, Len(V))
      /\ j > 0 => start = V[j]
      /\ \A i \in 1..(j - 1) : ~Matches(V[i])
      /\ result <=> j > 0 /\ Matches(V[j])
  BY <1>2 DEF Tried
<1>4. result \/ todo = <<>>
  BY DEF Search
<1> HIDE DEF V
<1>5. CASE result
  <2>1. j \in 1..Len(V) /\ start = V[j] /\ Matches(start) /\ start \in Region
    BY <1>1, <1>2, <1>3, <1>5
  <2>2. ASSUME NEW v \in Region, TriedBefore(v) PROVE ~Matches(v)
    <3>1. PICK i \in 1..Len(V) : V[i] = v
      BY <1>1
    <3>2. Earlier(v, start)
      BY <2>2 DEF TriedBefore, Earlier
    <3>3. i < j
      BY <1>1, <2>1, <3>1, <3>2
    <3>4. i \in 1..(j - 1)
      BY <1>1, <2>1, <3>3
    <3>5. QED
      BY <1>3, <3>1, <3>4
  <2>3. QED
    BY <1>5, <2>1, <2>2
<1>6. CASE ~result
  <2>1. j = Len(V)
    BY <1>1, <1>2, <1>3, <1>4, <1>6, RestOfList
  <2>2. ASSUME NEW v \in Region PROVE ~Matches(v)
    <3>1. PICK i \in 1..Len(V) : V[i] = v
      BY <1>1
    <3>2. i \in 1..(j - 1) \/ (i = j /\ j > 0)
      BY <1>1, <2>1
    <3>3. QED
      BY <1>3, <1>6, <3>1, <3>2
  <2>3. QED
    BY <1>6, <2>2
<1>7. QED
  BY <1>5, <1>6

LEMMA CapturesFact ==
  ASSUME Inputs, Frame, Captures
  PROVE  CapturesAreOfTheMatch
<1> SUFFICES ASSUME pc = "done", result, NEW p \in DOMAIN matcher
             PROVE  Captured(p)
  BY DEF CapturesAreOfTheMatch, Captured
<1>1. at = <<>> /\ p \in Path /\ <<>> \in Path /\ Len(<<>>) = 0
  BY InputFacts DEF Frame
<1>2. IsPrefix(<<>>, p)
  BY <1>1, PrefixFacts, PathFacts
<1>3. p \in Returned
  BY <1>1, <1>2 DEF Returned
<1>4. QED
  BY <1>3 DEF Captures, Capturing

\* The types of the state: isMatching asks only for nodes and matcher children
\* that exist, so child(i) and children_.at(i) never fail.
THEOREM TypeCorrect == Spec => []TypeOK
<1>1. Inv => TypeOK
  BY DEF Inv, Frame
<1>2. QED
  BY <1>1, Invariance, PTL

\* isMatching returns true exactly when every matcher node agrees with the tree
\* node it faces, whatever the shape of the two trees, and it ends the program
\* only at the first matcher node, in preorder, that does not agree.
THEOREM ResultStructural == Spec => []ResultIsStructural
<1>1. Inv => ResultIsStructural
  BY ResultFact DEF Inv
<1>2. QED
  BY <1>1, Invariance, PTL

\* Each search finds the first match of its region, in the order of the nearest
\* previous sibling, the nearest next one, or the topmost node, and says that
\* there is none only if there is none.
THEOREM FirstFound == Spec => []FoundIsFirst
<1>1. Inv => FoundIsFirst
  BY FoundFact DEF Inv
<1>2. QED
  BY <1>1, Invariance, PTL

\* The nodes captured when a search ends with a match are those of this match,
\* and none is left of the attempts before it.
THEOREM CapturesOfTheMatch == Spec => []CapturesAreOfTheMatch
<1>1. Inv => CapturesAreOfTheMatch
  BY CapturesFact DEF Inv
<1>2. QED
  BY <1>1, Invariance, PTL

=============================================================================
