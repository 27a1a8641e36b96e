--------------------------------- MODULE Trees ---------------------------------
(***************************************************************************)
(* Ordered trees as functions: the nodes are the paths from the root (the  *)
(* sequences of 1-based child positions), and the function gives what is   *)
(* at each node.  isl::schedule_node, ScheduleNodeMatcher and              *)
(* ScheduleNodeBuilder are nodes of such trees; a schedule tree has its    *)
(* leaves, which isl keeps implicit, as nodes of their own.                *)
(***************************************************************************)
EXTENDS Integers, Sequences, SequencesExt

Path == Seq(Nat \ {0})

\* A tree: the children of every node on a path are numbered from one on.
IsTree(t) ==
  /\ DOMAIN t \subseteq Path
  /\ IsFiniteSet(DOMAIN t)
  /\ <<>> \in DOMAIN t
  /\ \A v \in DOMAIN t : \A k \in 1..Len(v) : \A i \in 1..v[k] :
       Append(SubSeq(v, 1, k - 1), i) \in DOMAIN t

\* A tree with x at its root and the trees kids below it.
Node(x, kids) ==
  [path \in {<<>>} \cup UNION {{<<i>> \o p : p \in DOMAIN kids[i]} :
                                 i \in DOMAIN kids} |->
     IF path = <<>> THEN x ELSE kids[Head(path)][Tail(path)]]

\* The positions of the children of v in t.
children(v, t) == {i \in 1..Cardinality(DOMAIN t) : Append(v, i) \in DOMAIN t}

\* p comes before q in the depth-first preorder.
Before(p, q) ==
  \/ IsStrictPrefix(p, q)
  \/ \E k \in 1..Len(p) : /\ k <= Len(q)
                          /\ SubSeq(p, 1, k - 1) = SubSeq(q, 1, k - 1)
                          /\ p[k] < q[k]

Subtree(t, v) ==
  [p \in {SubSeq(q, Len(v) + 1, Len(q)) : q \in {q \in DOMAIN t : IsPrefix(v, q)}}
     |-> t[v \o p]]

\* t with the subtree at v replaced by s.
Replace(t, v, s) ==
  LET outside == {q \in DOMAIN t : ~IsPrefix(v, q)}
      inside == {v \o q : q \in DOMAIN s}
  IN  [q \in outside \cup inside |->
         IF q \in outside THEN t[q] ELSE s[SubSeq(q, Len(v) + 1, Len(q))]]

=============================================================================
