----------------------------- MODULE Suitability -----------------------------
(***************************************************************************)
(* When a combination of candidates is an admissible assignment to the     *)
(* placeholders of a set: the filter the access-relation matcher applies   *)
(* to partial and to full combinations (src/islutils/access-inl.h).        *)
(*                                                                         *)
(* Positions are 1-based here and 0-based in the code.                     *)
(***************************************************************************)
EXTENDS Integers, Sequences, Functions

CONSTANTS
  Tag,       \* reference tags of right-tagged accesses, with one value that
             \* stands for "untagged"
  Array,     \* array tuple ids, with one value that stands for "no tuple id"
  Payload,   \* what a pattern captures (SingleInputDim, StrideCandidate, ...)
  PayloadEq  \* the payload's operator== : the set of pairs it holds of

ASSUME PayloadEqAssumption == PayloadEq \subseteq Payload \X Payload

(***************************************************************************)
(* The space of an access map, [] -> [tag[] -> array[]] or [] -> array[].  *)
(* "It is sufficient to uniquely identify the map in the union_map".       *)
(***************************************************************************)
Space == [tag : Tag, array : Array]

\* A captured payload together with the map it was captured in.
DimCandidate == [payload : Payload, space : Space]

isEqualModuloMap(left, right) == <<left.payload, right.payload>> \in PayloadEq

(***************************************************************************)
(* A placeholder set: co-indexed patterns, ids and folds of the            *)
(* placeholders, the groups of positions that come from one access(...),   *)
(* and, when the set is a PlaceholderGroupedSet, the folds of the groups.  *)
(* A pattern is what CandidateTy::candidates(map, pattern) returns for     *)
(* each map.                                                               *)
(***************************************************************************)
Pattern == [Space -> Seq(Payload)]

size(ps) == Len(ps.pattern)

\* What the allOf functions build; areFoldsValid dies without it.
WellFormed(ps) ==
  /\ ps.pattern \in Seq(Pattern)
  /\ ps.id \in Seq(Nat)
  /\ ps.folds \in Seq(Nat)
  /\ ps.groups \in Seq(SUBSET (1..size(ps)))
  /\ ps.groupFolds \in Seq(Nat)
  /\ ps.grouped \in BOOLEAN
  /\ Len(ps.id) = size(ps)
  /\ Len(ps.folds) = size(ps)
  /\ \A p, q \in 1..size(ps) : ps.folds[p] = ps.folds[q] <=> ps.id[p] = ps.id[q]
  /\ ps.grouped => Len(ps.groups) <= Len(ps.groupFolds)

-----------------------------------------------------------------------------

(***************************************************************************)
(* Elements of one fold must not compare unequal, elements of different    *)
(* folds must not compare equal.  The comparisons need not be each other's *)
(* negation ("tri-state logic").                                           *)
(***************************************************************************)
areFoldsValid(n, folds, Eq(_, _), Ne(_, _)) ==
  \A i, j \in 1..n :
    i < j => IF folds[i] = folds[j] THEN ~Ne(i, j) ELSE ~Eq(i, j)

\* A bug: the placeholders of a fold may hold different payloads.
FoldsMayDisagree(combination, ps) ==
  LET Eq(i, j) == isEqualModuloMap(combination[i], combination[j])
      Ne(i, j) == FALSE
  IN  areFoldsValid(Len(combination), ps.folds, Eq, Ne)

hasNoDuplicateAssignments(combination, ps) ==
  LET Eq(i, j) == isEqualModuloMap(combination[i], combination[j])
      Ne(i, j) == ~isEqualModuloMap(combination[i], combination[j])
  IN  areFoldsValid(Len(combination), ps.folds, Eq, Ne)

\* The positions of a group that already have a candidate.
Assigned(group, combination) == {p \in group : p <= Len(combination)}

(***************************************************************************)
(* Within a group all candidates come from one map; different groups have  *)
(* candidates from different maps.                                         *)
(***************************************************************************)
groupsAreProperlyFormed(combination, ps) ==
  \A g, h \in 1..Len(ps.groups) :
    \A p \in Assigned(ps.groups[g], combination),
       q \in Assigned(ps.groups[h], combination) :
      (combination[p].space = combination[q].space) <=> (g = h)

(***************************************************************************)
(* The map a group matched, once it has a candidate.  The code takes the   *)
(* first assigned position; it asks only once the groups are properly      *)
(* formed, when all of them have the same space.                           *)
(***************************************************************************)
findSpace(group, combination) ==
  combination[CHOOSE p \in Assigned(group, combination) : TRUE].space

extractArrayId(space) == space.array

\* A bug: a group without a candidate counts as one that matched another array.
TwoStateComparison(group1, group2, combination, equality) ==
  LET same == /\ Assigned(group1, combination) # {}
              /\ Assigned(group2, combination) # {}
              /\ extractArrayId(findSpace(group1, combination))
                   = extractArrayId(findSpace(group2, combination))
  IN  same <=> equality

\* FALSE for equality and for inequality while one of the spaces is null.
compareGroupsBelongToSameArray(group1, group2, combination, equality) ==
  /\ Assigned(group1, combination) # {}
  /\ Assigned(group2, combination) # {}
  /\ (extractArrayId(findSpace(group1, combination))
        = extractArrayId(findSpace(group2, combination))) <=> equality

groupFoldsAreValid(combination, ps) ==
  LET Same(i, j) == compareGroupsBelongToSameArray(
                      ps.groups[i], ps.groups[j], combination, TRUE)
      Different(i, j) == compareGroupsBelongToSameArray(
                           ps.groups[i], ps.groups[j], combination, FALSE)
  IN  areFoldsValid(Len(ps.groups), ps.groupFolds, Same, Different)

isSuitableCombination(combination, ps) ==
  /\ hasNoDuplicateAssignments(combination, ps)
  /\ groupsAreProperlyFormed(combination, ps)
  /\ ps.grouped => groupFoldsAreValid(combination, ps)

-----------------------------------------------------------------------------
(***************************************************************************)
(* What there is to find in a union map.                                   *)
(***************************************************************************)

\* Every candidate the placeholder at position p has in some of the maps.
CandidateSet(maps, set, p) ==
  UNION {{[payload |-> x, space |-> m] : x \in Range(set.pattern[p][m])} :
           m \in Range(maps)}

SuitableAssignments(maps, set) ==
  LET n == size(set)
  IN  {c \in [1..n -> UNION {CandidateSet(maps, set, p) : p \in 1..n}] :
         /\ \A p \in 1..n : c[p] \in CandidateSet(maps, set, p)
         /\ isSuitableCombination(c, set)}

=============================================================================
