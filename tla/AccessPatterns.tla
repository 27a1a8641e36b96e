----------------------------- MODULE AccessPatterns -----------------------------
(***************************************************************************)
(* The patterns with which access relations are matched and rewritten      *)
(* (access_patterns.h, access_patterns.cc): affine expressions of one      *)
(* iterator, fixed to a dimension of the array, and strides.  One access   *)
(* relation is matched by a list of placeholders, access(...), and then    *)
(* transformed, as transformOneMap does, by the list of its replacement;   *)
(* or it is asked for a stride; or two affine functions are compared with  *)
(* the operators of Makers, which the patterns are built from.             *)
(*                                                                         *)
(* An access relation is a set of pairs of an iteration and an array       *)
(* element.  Iterations are taken from a window that stands for the        *)
(* universe of isl, elements from one that no expression leaves.           *)
(***************************************************************************)
EXTENDS Makers, FiniteSets, Sequences, SequencesExt

CONSTANTS
  Coordinates,   \* values of an iterator
  Elements,      \* values of an array index
  Unset,         \* INT_MAX, the position of a pattern without a dimension
  Accesses,      \* access relations: records [in, out, pairs]
  Patterns,      \* lists of placeholders: records [id, coefficient, constant, pos]
  Replacements,  \* lists of placeholders
  Strides,       \* expected strides
  ActivePoints,  \* sets of iterations, for nonEmptySchedulePoints; with AllPoints
  AllPoints,     \* the null set: all iterations are active
  Affs           \* affine functions

\* The windows have no gaps, and no expression that is written leaves them.
ASSUME WindowAssumption ==
  /\ Coordinates \subseteq Int /\ Elements \subseteq Int
  /\ \A c, d \in Coordinates : c..d \subseteq Coordinates
  /\ \A list \in Replacements : \A n \in DOMAIN list : \A c \in Coordinates :
       list[n].coefficient * c + list[n].constant \in Elements

Iterations(in) == [1..in -> Coordinates]

RelationType(r) ==
  /\ r.in \in Nat /\ r.out \in Nat
  /\ r.pairs \subseteq (Iterations(r.in) \X [1..r.out -> Elements])

ASSUME InputsAssumption ==
  /\ \A r \in Accesses : RelationType(r)
  /\ \A list \in Patterns \cup Replacements :
       /\ list \in Seq({list[n] : n \in DOMAIN list})
       /\ \A n \in DOMAIN list : {list[n].coefficient, list[n].constant, list[n].pos} \subseteq Int
  /\ \A f \in Affs : f \in [DOMAIN f -> Int]

Relation(in, out, pairs) == [in |-> in, out |-> out, pairs |-> pairs]

\* The relation to one of the dimensions, counted from 0.
project(r, pos) ==
  Relation(r.in, 1, {<<p[1], <<p[2][pos + 1]>>>> : p \in r.pairs})

IsSingleValued(r) == \A p, q \in r.pairs : p[1] = q[1] => p[2] = q[2]

-----------------------------------------------------------------------------
(* Writing placeholders: placeholder(ctx), i * p, p + i, p - i, dim(i, p). *)

placeholder(id) == [id |-> id, coefficient |-> 1, constant |-> 0, pos |-> Unset]

\* The constant is not multiplied: 2 * (p + 1) is 2 * p + 1.
times(i, p) == [p EXCEPT !.coefficient = @ * i]
plus(p, i) == [p EXCEPT !.constant = @ + i]
minus(p, i) == [p EXCEPT !.constant = @ - i]

dim(pos, p) == [p EXCEPT !.pos = pos]

\* access(p1, ..., pn) fixes every placeholder to its place in the list.
access(list) == [k \in 1..Len(list) |-> dim(k - 1, list[k])]

-----------------------------------------------------------------------------
(* Candidates.                                                             *)

\* Negative positions count from the last dimension.
FromEnd(pos, n) == IF pos < 0 THEN n + pos ELSE pos

\* coefficient * X + constant, X being the given iterator.
valueAt(aff, x, i) == aff.coefficient * x[i + 1] + aff.constant

\* The function is one affine piece if isl finds an expression that holds on all
\* of its domain; it is compared with the pattern on that domain only.
singleInputDim(r, aff) ==
  IF r.pairs # {} /\ IsSingleValued(r)
  THEN {i \in 0..r.in - 1 : \A p \in r.pairs : p[2][1] = valueAt(aff, p[1], i)}
  ELSE {}

\* A bug: positions from the end are counted from 0.
CandidatesFromZero(r, p) ==
  LET pos == IF p.pos < 0 THEN r.out - 1 + p.pos ELSE p.pos
  IN IF pos \in 0..r.out - 1 THEN singleInputDim(project(r, pos), p) ELSE {}

candidates(r, p) ==
  LET pos == FromEnd(p.pos, r.out)
  IN IF pos \in 0..r.out - 1 THEN singleInputDim(project(r, pos), p) ELSE {}

-----------------------------------------------------------------------------
(* Transformation.                                                         *)

\* One dimension becomes the expression of the replacement, for all iterations.
transform1D(r, i, aff) ==
  Relation(r.in, 1, map_eq([x \in Iterations(r.in) |-> valueAt(aff, x, i)],
                           [y \in [1..1 -> Elements] |-> y[1]]))

\* A bug: the first dimensions come last.
ListFromTheEnd(r) == [d \in 1..r.out |-> project(r, r.out - d)]

\* A bug: the loop stops before the last dimension.
ListWithoutLast(r) == [d \in 1..r.out - 1 |-> project(r, d - 1)]

listOf1DMaps(r) == [d \in 1..r.out |-> project(r, d - 1)]

mapFrom1DMaps(in, list) ==
  Relation(in, Len(list),
    {p \in Iterations(in) \X [DOMAIN list -> Elements] :
       \A d \in DOMAIN list : <<p[1], <<p[2][d]>>>> \in list[d].pairs})

\* Only for a position of the list.
transformMap(r, i, p) ==
  IF r.out = 0 THEN r
  ELSE mapFrom1DMaps(r.in,
         [listOf1DMaps(r) EXCEPT ![FromEnd(p.pos, r.out) + 1] = transform1D(@, i, p)])

-----------------------------------------------------------------------------
(* Strides.                                                                *)

\* The last iterators are one apart, or in order; all others are equal.
mapToNext(in, all) ==
  LET var(i) == [x \in Iterations(in) |-> x[i]]
      equal(i) == map_eq(var(i), var(i))
      last == IF all THEN map_lt(var(in), var(in))
                     ELSE map_eq(add_val(var(in), 1), var(in))
  IN IF in = 0 THEN Iterations(0) \X Iterations(0)
     ELSE {p \in last : \A i \in 1..in - 1 : p \in equal(i)}

\* All points of an image have the same iterators but the last.
lexmin(in, pairs) ==
  {p \in pairs : \A q \in pairs : p[1] = q[1] /\ in > 0 => p[2][in] <= q[2][in]}

\* A bug: the relation to all later iterations is used as it is.
KeepsLater(in, points) ==
  {p \in mapToNext(in, points # AllPoints) :
     points # AllPoints => p[1] \in points /\ p[2] \in points}

nextIteration(in, points) ==
  LET next == mapToNext(in, points # AllPoints)
  IN IF points = AllPoints THEN next
     ELSE lexmin(in, {p \in next : p[1] \in points /\ p[2] \in points})

deltas(r, next) ==
  UNION {{b[2][1] - a[2][1] : a \in {a \in r.pairs : a[1] = n[1]},
                              b \in {b \in r.pairs : b[1] = n[2]}} : n \in next}

strideCandidates(r, stride, points) ==
  LET delta == deltas(r, nextIteration(r.in, points))
  IN delta # {} /\ delta \subseteq {stride}

-----------------------------------------------------------------------------
VARIABLES
  op,           \* "transform", "stride" or "compare"
  map,          \* the access relation
  pattern,      \* the placeholders it is matched by
  binding,      \* the iterator each of them is bound to
  replacement,  \* the placeholders it is transformed by
  k,            \* how many of them have been
  result,       \* the relation transformed so far
  points,       \* nonEmptySchedulePoints
  answer,       \* the strides found
  affs,         \* the functions compared
  pc            \* "start", "matched", "done", "unmatched", "died", "undefined"

vars == <<op, map, pattern, binding, replacement, k, result, points, answer, affs, pc>>

Nothing == Relation(0, 0, {})

Init ==
  /\ op \in {"transform", "stride", "compare"}
  /\ map \in IF op = "compare" THEN {Nothing} ELSE Accesses
  /\ pattern = <<>>
  /\ binding = <<>>
  /\ replacement = <<>>
  /\ k = 0
  /\ result = map
  /\ points = AllPoints
  /\ answer = {}
  /\ affs = <<>>
  /\ pc = "start"

Ids(list) == {list[n].id : n \in DOMAIN list}

\* The first placeholder of the list without candidates ends the match.
Stops(list, n) ==
  /\ list[n].pos = Unset \/ candidates(map, list[n]) = {}
  /\ \A m \in 1..n - 1 : list[m].pos # Unset /\ candidates(map, list[m]) # {}

\* "no out dimension specified for FixedOutDimPattern"
MatchDies ==
  /\ op = "transform" /\ pc = "start"
  /\ pattern' \in Patterns
  /\ \E n \in DOMAIN pattern' : Stops(pattern', n) /\ pattern'[n].pos = Unset
  /\ pc' = "died"
  /\ UNCHANGED <<op, map, binding, replacement, k, result, points, answer, affs>>

\* Equal ids have equal payloads and different ids different ones.
Bindings(list) ==
  {b \in [Ids(list) -> 0..map.in - 1] :
     /\ IsInjective(b)
     /\ \A n \in DOMAIN list : b[list[n].id] \in candidates(map, list[n])}

MatchPattern ==
  /\ op = "transform" /\ pc = "start"
  /\ pattern' \in Patterns
  /\ \A n \in DOMAIN pattern' : pattern'[n].pos # Unset
  /\ binding' \in Bindings(pattern')
  /\ replacement' \in {l \in Replacements : Ids(l) \subseteq Ids(pattern')}
  /\ pc' = "matched"
  /\ UNCHANGED <<op, map, k, result, points, answer, affs>>

NoMatch ==
  /\ op = "transform" /\ pc = "start"
  /\ pattern' \in Patterns
  /\ ~\E n \in DOMAIN pattern' : Stops(pattern', n) /\ pattern'[n].pos = Unset
  /\ Bindings(pattern') = {}
  /\ pc' = "unmatched"
  /\ UNCHANGED <<op, map, binding, replacement, k, result, points, answer, affs>>

\* list[pos] of a vector that has no such element.
Outside(p) == result.out > 0 /\ FromEnd(p.pos, result.out) \notin 0..result.out - 1

TransformNext ==
  /\ pc = "matched" /\ k < Len(replacement)
  /\ ~Outside(replacement[k + 1])
  /\ k' = k + 1
  /\ result' = transformMap(result, binding[replacement[k'].id], replacement[k'])
  /\ UNCHANGED <<op, map, pattern, binding, replacement, points, answer, affs, pc>>

TransformUndefined ==
  /\ pc = "matched" /\ k < Len(replacement)
  /\ Outside(replacement[k + 1])
  /\ pc' = "undefined"
  /\ UNCHANGED <<op, map, pattern, binding, replacement, k, result, points, answer, affs>>

TransformDone ==
  /\ pc = "matched" /\ k = Len(replacement)
  /\ pc' = "done"
  /\ UNCHANGED <<op, map, pattern, binding, replacement, k, result, points, answer, affs>>

\* stride(ctx, s) fixed to a dimension, for each s.
FindStrides ==
  /\ op = "stride" /\ pc = "start"
  /\ points' \in {S \in ActivePoints : S \subseteq Iterations(map.in)} \cup {AllPoints}
  /\ \E pos \in 0..map.out - 1 :
       /\ result' = project(map, pos)
       /\ answer' = {s \in Strides : strideCandidates(result', s, points')}
  /\ pc' = "done"
  /\ UNCHANGED <<op, map, pattern, binding, replacement, k, affs>>

\* What the client passes to the operators of Makers.
Compare ==
  /\ op = "compare" /\ pc = "start"
  /\ affs' \in Affs \X Affs
  /\ pc' = "done"
  /\ UNCHANGED <<op, map, pattern, binding, replacement, k, result, points, answer>>

Next ==
  \/ MatchDies \/ NoMatch \/ MatchPattern
  \/ TransformNext \/ TransformUndefined \/ TransformDone
  \/ FindStrides \/ Compare

Spec == Init /\ [][Next]_vars

-----------------------------------------------------------------------------
\* Type invariant.  The result of every step of a transformation is a relation
\* between the spaces of the access: mapFrom1DMaps puts all dimensions together
\* again (access_patterns.cc:138-147).
TypeOK ==
  /\ op \in {"transform", "stride", "compare"}
  /\ pc \in {"start", "matched", "done", "unmatched", "died", "undefined"}
  /\ RelationType(map) /\ RelationType(result)
  /\ result.in = map.in /\ (op = "transform" => result.out = map.out)
  /\ pattern \in Patterns \cup {<<>>} /\ replacement \in Replacements \cup {<<>>}
  /\ k \in 0..Len(replacement)
  /\ pc # "start" /\ replacement # <<>> =>
       binding \in [Ids(pattern) -> 0..map.in - 1]
  /\ points = AllPoints \/ points \in ActivePoints
  /\ answer \subseteq Strides
  /\ affs = <<>> \/ affs \in Affs \X Affs

\* The dimensions that a list of placeholders is about.
Dimensions(list) == {FromEnd(list[n].pos, map.out) : n \in DOMAIN list}
AreDistinct(list) == Cardinality(Dimensions(list)) = Len(list)

\* What findAndReplace does to an access relation with patterns of this kind: an
\* empty replacement leaves it alone, the dimensions in another one become its
\* expressions of the iterators that were bound, the others keep their values, each
\* on its own, and the iterations stay those of the access, even if all dimensions
\* are replaced, since that is done one by one.  Only an access of one dimension is
\* made for all iterations: transformMap forgets the domain of what it replaces
\* (access_patterns.h:112-133, access_patterns.cc:46-57, 125-147).
TransformIsExact ==
  op = "transform" /\ pc = "done" /\ AreDistinct(replacement) =>
    result.pairs = IF replacement = <<>> THEN map.pairs ELSE
      {p \in Iterations(map.in) \X [1..map.out -> Elements] :
         /\ map.out = 1 \/ \E q \in map.pairs : q[1] = p[1]
         /\ \A n \in DOMAIN replacement :
              p[2][FromEnd(replacement[n].pos, map.out) + 1] =
                valueAt(replacement[n], p[1], binding[replacement[n].id])
         /\ \A d \in 0..map.out - 1 : d \in Dimensions(replacement) \/
              \E q \in map.pairs : q[1] = p[1] /\ q[2][d + 1] = p[2][d + 1]}

\* A replacement for the dimensions that the pattern has matched is defined, since
\* the positions that transformMap does not check were checked by candidates, and
\* the access it makes is matched by it, with the iterators that were bound
\* (access_patterns.h:48-69 against 112-133).
ReplacementIsMatched ==
  /\ Dimensions(replacement) \subseteq Dimensions(pattern) => pc # "undefined"
  /\ op = "transform" /\ pc = "done" /\ AreDistinct(replacement) =>
       \A n \in DOMAIN replacement :
         binding[replacement[n].id] \in candidates(result, replacement[n])

\* An iteration and the one that follows it in the innermost loop.
Subsequent(x, y) ==
  LET in == Len(x)
      active(z) == points = AllPoints \/ z \in points
      later(u, v) == u[in] < v[in] /\ \A i \in 1..in - 1 : u[i] = v[i]
  IN /\ active(x) /\ active(y) /\ later(x, y)
     /\ ~\E z \in Iterations(in) : active(z) /\ later(x, z) /\ later(z, y)

\* "By stride, we understand the constant offset in number of elements between
\* elements of an array accessed by subsequent iterations of the innermost loop";
\* accesses that no subsequent iterations perform have none (access_patterns.h:
\* 220-240, access_patterns.cc:61-120).  Iterations outside the active ones are
\* stepped over, gaps between iterations are not when none are given.
StrideIsConstantOffset ==
  op = "stride" /\ pc = "done" /\ map.in > 0 =>
    LET offsets == {q[2][1] - p[2][1] : p \in result.pairs, q \in result.pairs}
        occurs(o) == \E p, q \in result.pairs :
                       Subsequent(p[1], q[1]) /\ q[2][1] - p[2][1] = o
    IN answer = {s \in Strides : {o \in offsets : occurs(o)} = {s}}

\* The two namespaces of makers and the arithmetic agree: on equal points the
\* relations are the sets, the six relations are unions of three that split all
\* pairs, and comparing is comparing the difference with zero (locus-inl.h,
\* aff_op.h).  The set maker's != is left out: it builds the set of ==,
\* not of the points where the functions differ (locus.h:10-12, locus-inl.h:7-9).
OperatorsAgree ==
  op = "compare" /\ pc = "done" =>
    LET f == affs[1]
        g == affs[2]
        all == (DOMAIN f) \X (DOMAIN g)
        diagonal(r) == {x \in Common(f, g) : <<x, x>> \in r}
        zero == isl_constant(Common(f, g), 0)
    IN /\ map_ne(f, g) = all \ map_eq(f, g)
       /\ map_le(f, g) = all \ map_gt(f, g)
       /\ map_ge(f, g) = all \ map_lt(f, g)
       /\ map_ne(f, g) = map_lt(f, g) \cup map_gt(f, g)
       /\ diagonal(map_eq(f, g)) = set_eq(f, g)
       /\ diagonal(map_le(f, g)) = set_le(f, g)
       /\ diagonal(map_lt(f, g)) = set_lt(f, g)
       /\ diagonal(map_ge(f, g)) = set_ge(f, g)
       /\ diagonal(map_gt(f, g)) = set_gt(f, g)
       /\ set_lt(aff_sub(f, g), zero) = set_lt(f, g)
       /\ aff_add(aff_sub(f, g), g) = [x \in Common(f, g) |-> f[x]]
       /\ \A n \in Elements :
            /\ set_eq(val_sub(n, f), sub_val(f, n)) = set_eq(mul_val(f, 2), isl_constant(DOMAIN f, 2 * n))
            /\ n > 0 => \A x \in DOMAIN f : mod_val(f, n)[x] \in 0..n - 1

=============================================================================
