--------------------------- MODULE MCPlaceholderSets ---------------------------
(***************************************************************************)
(* Small instances of PlaceholderSets.                                     *)
(***************************************************************************)
EXTENDS PlaceholderSets, TLC

\* Lists of at most two objects; the calls below have at most three
\* placeholders, in at most three lists, so that a list may be empty between
\* two others and a placeholder may be repeated in one list and across lists.
Lists(objs) == UNION {[1..k -> objs] : k \in 0..2}

Total(lists) == FoldSeq(LAMBDA l, sum : Len(l) + sum, 0, lists)

CallsOver(objs, arrays) ==
  UNION {{[i \in 1..k |-> [array |-> arr[i], list |-> lists[i]]] :
            lists \in {ls \in [1..k -> Lists(objs)] : Total(ls) <= 3},
            arr \in [1..k -> arrays]} : k \in 1..3}

\* Plain lists, and lists with array placeholders.
MCCalls == CallsOver({2, 3, 4}, {NoArray}) \cup CallsOver({3, 4}, {1, 2})

ThreadSymmetry == Permutations(Thread)

=============================================================================
