------------------------- MODULE AccessPatterns_proofs -------------------------
(***************************************************************************)
(* Patterns, their transformations and strides, and the operators they are *)
(* built from, for all access relations, patterns and windows.             *)
(***************************************************************************)
EXTENDS AccessPatterns, FunctionTheorems, FiniteSetTheorems, SequenceTheorems, TLAPS

\* Elements of one index.
LEMMA OneIndex ==
  /\ \A v, S : <<v>> \in [1..1 -> S] <=> v \in S
  /\ \A v, S : \A y \in [1..1 -> S] : <<v>> = y <=> v = y[1]
  /\ \A S : \A y \in [1..1 -> S] : y = <<y[1]>> /\ y[1] \in S
<1>1. \A v, S : <<v>> \in [1..1 -> S] <=> v \in S
  OBVIOUS
<1>2. \A v, S : \A y \in [1..1 -> S] : <<v>> = y <=> v = y[1]
  OBVIOUS
<1>3. \A S : \A y \in [1..1 -> S] : y = <<y[1]>> /\ y[1] \in S
  BY <1>2
<1>4. QED
  BY <1>1, <1>2, <1>3

-----------------------------------------------------------------------------
(***************************************************************************)
(* The operators of Makers.                                                *)
(***************************************************************************)
\* The relations of map_maker are unions of three that split all pairs.
LEMMA MapsAgree ==
  ASSUME NEW D, NEW E, NEW f, NEW g, f \in [D -> Int], g \in [E -> Int]
  PROVE  /\ map_ne(f, g) = (D \X E) \ map_eq(f, g)
         /\ map_le(f, g) = (D \X E) \ map_gt(f, g)
         /\ map_ge(f, g) = (D \X E) \ map_lt(f, g)
         /\ map_ne(f, g) = map_lt(f, g) \cup map_gt(f, g)
<1>1. \A p \in D \X E : f[p[1]] \in Int /\ g[p[2]] \in Int
  OBVIOUS
<1>2. \A p \in D \X E :
        /\ p \in map_eq(f, g) <=> f[p[1]] = g[p[2]]
        /\ p \in map_lt(f, g) <=> f[p[1]] < g[p[2]]
        /\ p \in map_gt(f, g) <=> f[p[1]] > g[p[2]]
  BY DEF map_eq, map_lt, map_gt, isl_eq_map, isl_lt_map, isl_gt_map
<1>3. /\ map_eq(f, g) \subseteq D \X E /\ map_lt(f, g) \subseteq D \X E
      /\ map_gt(f, g) \subseteq D \X E
  BY DEF map_eq, map_lt, map_gt, isl_eq_map, isl_lt_map, isl_gt_map
<1>4. \A p \in D \X E :
        /\ p \in map_lt(f, g) \/ p \in map_gt(f, g) <=> p \notin map_eq(f, g)
        /\ p \in map_eq(f, g) \/ p \in map_lt(f, g) <=> p \notin map_gt(f, g)
        /\ p \in map_eq(f, g) \/ p \in map_gt(f, g) <=> p \notin map_lt(f, g)
  BY <1>1, <1>2
<1>5. QED
  BY <1>3, <1>4 DEF map_ne, map_le, map_ge

\* On equal points they are the sets of set_maker.
LEMMA DiagonalsAgree ==
  ASSUME NEW D, NEW E, NEW f, NEW g, f \in [D -> Int], g \in [E -> Int]
  PROVE  LET diagonal(r) == {x \in Common(f, g) : <<x, x>> \in r}
         IN /\ diagonal(map_eq(f, g)) = set_eq(f, g)
            /\ diagonal(map_le(f, g)) = set_le(f, g)
            /\ diagonal(map_lt(f, g)) = set_lt(f, g)
            /\ diagonal(map_ge(f, g)) = set_ge(f, g)
            /\ diagonal(map_gt(f, g)) = set_gt(f, g)
<1> DEFINE diagonal(r) == {x \in Common(f, g) : <<x, x>> \in r}
<1>1. /\ Common(f, g) = D \cap E /\ Common(g, f) = D \cap E
      /\ \A x \in D \cap E : f[x] \in Int /\ g[x] \in Int
  BY DEF Common
<1>2. \A x \in D \cap E :
        /\ <<x, x>> \in map_eq(f, g) <=> f[x] = g[x]
        /\ <<x, x>> \in map_lt(f, g) <=> f[x] < g[x]
        /\ <<x, x>> \in map_gt(f, g) <=> f[x] > g[x]
  BY DEF map_eq, map_lt, map_gt, isl_eq_map, isl_lt_map, isl_gt_map
<1>3. \A x \in D \cap E :
        /\ <<x, x>> \in map_le(f, g) <=> f[x] <= g[x]
        /\ <<x, x>> \in map_ge(f, g) <=> g[x] <= f[x]
  <2>1. \A x \in D \cap E :
          /\ <<x, x>> \in map_le(f, g) <=> f[x] = g[x] \/ f[x] < g[x]
          /\ <<x, x>> \in map_ge(f, g) <=> f[x] = g[x] \/ f[x] > g[x]
    BY <1>2, Zenon DEF map_le, map_ge
  <2>2. \A x \in D \cap E :
          /\ f[x] = g[x] \/ f[x] < g[x] <=> f[x] <= g[x]
          /\ f[x] = g[x] \/ f[x] > g[x] <=> g[x] <= f[x]
    BY <1>1
  <2>3. QED
    BY <2>1, <2>2, Zenon
<1>4. diagonal(map_eq(f, g)) = set_eq(f, g)
  BY <1>1, <1>2 DEF set_eq, isl_eq_set
<1>5. diagonal(map_le(f, g)) = set_le(f, g)
  BY <1>1, <1>3 DEF set_le, isl_le_set
<1>6. diagonal(map_lt(f, g)) = set_lt(f, g)
  BY <1>1, <1>2 DEF set_lt, isl_lt_set
<1>7. diagonal(map_ge(f, g)) = set_ge(f, g)
  BY <1>1, <1>3 DEF set_ge, isl_le_set
<1>8. diagonal(map_gt(f, g)) = set_gt(f, g)
  BY <1>1, <1>2 DEF set_gt, isl_lt_set
<1>9. QED
  BY <1>4, <1>5, <1>6, <1>7, <1>8

\* Comparing is comparing the difference with zero, and the arithmetic is that of
\* the values.
LEMMA ArithmeticAgrees ==
  ASSUME NEW D, NEW E, NEW f, NEW g, f \in [D -> Int], g \in [E -> Int]
  PROVE  /\ set_lt(aff_sub(f, g), isl_constant(Common(f, g), 0)) = set_lt(f, g)
         /\ aff_add(aff_sub(f, g), g) = [x \in Common(f, g) |-> f[x]]
         /\ \A n \in Int :
              /\ set_eq(val_sub(n, f), sub_val(f, n)) = set_eq(mul_val(f, 2), isl_constant(D, 2 * n))
              /\ n > 0 => \A x \in D : mod_val(f, n)[x] \in 0..n - 1
<1>1. /\ Common(f, g) = D \cap E
      /\ \A x \in D : f[x] \in Int
      /\ \A x \in E : g[x] \in Int
  BY DEF Common
<1>2. set_lt(aff_sub(f, g), isl_constant(Common(f, g), 0)) = set_lt(f, g)
  <2>1. aff_sub(f, g) = [x \in D \cap E |-> f[x] - g[x]]
    BY <1>1 DEF aff_sub, isl_sub
  <2>2. isl_constant(Common(f, g), 0) = [x \in D \cap E |-> 0]
    BY <1>1 DEF isl_constant
  <2>3. \A x \in D \cap E : f[x] - g[x] < 0 <=> f[x] < g[x]
    BY <1>1
  <2>4. QED
    BY <1>1, <2>1, <2>2, <2>3 DEF set_lt, isl_lt_set, Common
<1>3. aff_add(aff_sub(f, g), g) = [x \in Common(f, g) |-> f[x]]
  <2>1. aff_sub(f, g) = [x \in D \cap E |-> f[x] - g[x]]
    BY <1>1 DEF aff_sub, isl_sub
  <2>2. aff_add(aff_sub(f, g), g) = [x \in D \cap E |-> f[x] - g[x] + g[x]]
    BY <2>1 DEF aff_add, isl_add, Common
  <2>3. \A x \in D \cap E : f[x] - g[x] + g[x] = f[x]
    BY <1>1
  <2>4. QED
    BY <1>1, <2>2, <2>3
<1>4. ASSUME NEW n \in Int
      PROVE  /\ set_eq(val_sub(n, f), sub_val(f, n)) = set_eq(mul_val(f, 2), isl_constant(D, 2 * n))
             /\ n > 0 => \A x \in D : mod_val(f, n)[x] \in 0..n - 1
  <2>1. val_sub(n, f) = [x \in D |-> -f[x] + n]
    BY DEF val_sub, aff_neg, isl_neg, add_val, isl_add, isl_constant, Common
  <2>2. sub_val(f, n) = [x \in D |-> f[x] + -n]
    BY DEF sub_val, add_val, isl_add, isl_constant, Common
  <2>3. /\ mul_val(f, 2) = [x \in D |-> f[x] * 2]
        /\ isl_constant(D, 2 * n) = [x \in D |-> 2 * n]
    BY DEF mul_val, isl_scale, isl_constant
  <2>4. \A x \in D : -f[x] + n = f[x] + -n <=> f[x] * 2 = 2 * n
    BY <1>1
  <2>5. set_eq(val_sub(n, f), sub_val(f, n)) = set_eq(mul_val(f, 2), isl_constant(D, 2 * n))
    BY <2>1, <2>2, <2>3, <2>4 DEF set_eq, isl_eq_set, Common
  <2>6. mod_val(f, n) = [x \in D |-> f[x] % n]
    BY DEF mod_val, isl_mod
  <2>7. QED
    BY <1>1, <2>5, <2>6
<1>5. QED
  BY <1>2, <1>3, <1>4


-----------------------------------------------------------------------------
(***************************************************************************)
(* Relations.                                                              *)
(***************************************************************************)
LEMMA RelationFields ==
  ASSUME NEW in, NEW out, NEW pairs
  PROVE  /\ Relation(in, out, pairs).in = in
         /\ Relation(in, out, pairs).out = out
         /\ Relation(in, out, pairs).pairs = pairs
BY DEF Relation

\* A list of n things is a sequence.
LEMMA ListIsSequence ==
  ASSUME NEW n \in Nat, NEW f, DOMAIN f = 1..n, f = [d \in 1..n |-> f[d]]
  PROVE  f \in Seq({f[d] : d \in 1..n}) /\ Len(f) = n
<1>1. f \in [1..n -> {f[d] : d \in 1..n}]
  OBVIOUS
<1>2. f \in Seq({f[d] : d \in 1..n})
  BY <1>1
<1>3. QED
  BY <1>2, LenProperties

\* The pairs of the projection on a dimension.
LEMMA ProjectPairs ==
  ASSUME NEW r, NEW pos
  PROVE  \A x, v : <<x, <<v>>>> \in project(r, pos).pairs
                     <=> \E q \in r.pairs : q[1] = x /\ q[2][pos + 1] = v
<1>1. project(r, pos).pairs = {<<q[1], <<q[2][pos + 1]>>>> : q \in r.pairs}
  BY RelationFields DEF project
<1>2. QED
  BY <1>1

LEMMA ProjectFacts ==
  ASSUME NEW r, RelationType(r), NEW pos \in 0..r.out - 1
  PROVE  /\ RelationType(project(r, pos))
         /\ project(r, pos).in = r.in /\ project(r, pos).out = 1
         /\ \A x, v : <<x, <<v>>>> \in project(r, pos).pairs
                        <=> \E q \in r.pairs : q[1] = x /\ q[2][pos + 1] = v
         /\ \A y \in project(r, pos).pairs :
              \E q \in r.pairs : y = <<q[1], <<q[2][pos + 1]>>>>
<1> DEFINE pairs == {<<q[1], <<q[2][pos + 1]>>>> : q \in r.pairs}
<1>1. /\ project(r, pos).in = r.in /\ project(r, pos).out = 1
      /\ project(r, pos).pairs = pairs
  BY RelationFields DEF project
<1>2. \A q \in r.pairs : q[1] \in Iterations(r.in) /\ q[2][pos + 1] \in Elements
  BY DEF RelationType
<1>3. pairs \subseteq Iterations(r.in) \X [1..1 -> Elements]
  <2> SUFFICES ASSUME NEW q \in r.pairs
               PROVE  <<q[1], <<q[2][pos + 1]>>>> \in Iterations(r.in) \X [1..1 -> Elements]
    OBVIOUS
  <2>1. <<q[2][pos + 1]>> \in [1..1 -> Elements]
    BY <1>2, OneIndex
  <2>2. QED
    BY <1>2, <2>1
<1>4. \A x, v : <<x, <<v>>>> \in pairs <=> \E q \in r.pairs : q[1] = x /\ q[2][pos + 1] = v
  OBVIOUS
<1>5. \A y \in pairs : \E q \in r.pairs : y = <<q[1], <<q[2][pos + 1]>>>>
  OBVIOUS
<1> HIDE DEF pairs
<1>6. RelationType(project(r, pos))
  BY <1>1, <1>3 DEF RelationType
<1>7. QED
  BY <1>1, <1>4, <1>5, <1>6

\* A candidate for a placeholder is an iterator that gives the values of its dimension.
LEMMA CandidatesFacts ==
  ASSUME NEW r, RelationType(r), NEW p, NEW i
  PROVE  i \in candidates(r, p) <=>
           /\ FromEnd(p.pos, r.out) \in 0..r.out - 1
           /\ r.pairs # {} /\ IsSingleValued(project(r, FromEnd(p.pos, r.out)))
           /\ i \in 0..r.in - 1
           /\ \A q \in r.pairs : q[2][FromEnd(p.pos, r.out) + 1] = valueAt(p, q[1], i)
<1> DEFINE pos == FromEnd(p.pos, r.out)
<1>1. CASE pos \notin 0..r.out - 1
  BY <1>1 DEF candidates
<1>2. CASE pos \in 0..r.out - 1
  <2> DEFINE single == project(r, pos)
  <2>1. /\ single.in = r.in
        /\ \A x, v : <<x, <<v>>>> \in single.pairs
                        <=> \E q \in r.pairs : q[1] = x /\ q[2][pos + 1] = v
        /\ \A y \in single.pairs : \E q \in r.pairs : y = <<q[1], <<q[2][pos + 1]>>>>
    <3> HIDE DEF pos
    <3>1. QED
      BY <1>2, ProjectFacts
  <2>2. candidates(r, p) = singleInputDim(single, p)
    BY <1>2 DEF candidates
  <2> HIDE DEF single, pos
  <2>3. single.pairs # {} <=> r.pairs # {}
    BY <2>1
  <2>4. (\A y \in single.pairs : y[2][1] = valueAt(p, y[1], i))
           <=> \A q \in r.pairs : q[2][pos + 1] = valueAt(p, q[1], i)
    <3>1. ASSUME \A y \in single.pairs : y[2][1] = valueAt(p, y[1], i), NEW q \in r.pairs
          PROVE  q[2][pos + 1] = valueAt(p, q[1], i)
      <4>1. <<q[1], <<q[2][pos + 1]>>>> \in single.pairs
        BY <2>1
      <4>2. QED
        BY <3>1, <4>1
    <3>2. ASSUME \A q \in r.pairs : q[2][pos + 1] = valueAt(p, q[1], i), NEW y \in single.pairs
          PROVE  y[2][1] = valueAt(p, y[1], i)
      BY <2>1, <3>2
    <3>3. QED
      BY <3>1, <3>2
  <2>5. i \in singleInputDim(single, p)
           <=> /\ single.pairs # {} /\ IsSingleValued(single) /\ i \in 0..single.in - 1
               /\ \A y \in single.pairs : y[2][1] = valueAt(p, y[1], i)
    BY DEF singleInputDim
  <2>6. QED
    BY <1>2, <2>1, <2>2, <2>3, <2>4, <2>5 DEF single, pos
<1>3. QED
  BY <1>1, <1>2

\* An iterator of an iteration is an integer, and so is an expression of it.
LEMMA ValueFacts ==
  ASSUME NEW in \in Nat, NEW x \in Iterations(in), NEW i \in 0..in - 1, NEW aff,
         aff.coefficient \in Int, aff.constant \in Int
  PROVE  /\ i + 1 \in 1..in /\ x[i + 1] \in Coordinates /\ x[i + 1] \in Int
         /\ valueAt(aff, x, i) \in Int
<1>1. i + 1 \in 1..in
  OBVIOUS
<1>2. x[i + 1] \in Coordinates
  BY <1>1 DEF Iterations
<1>3. x[i + 1] \in Int
  BY <1>2, WindowAssumption
<1>4. QED
  BY <1>1, <1>2, <1>3 DEF valueAt

\* transformMap gives a dimension the values of the expression, and leaves the
\* values that the others have for an iteration.
LEMMA TransformMapFacts ==
  ASSUME NEW r, RelationType(r), NEW p, p.coefficient \in Int, p.constant \in Int,
         FromEnd(p.pos, r.out) \in 0..r.out - 1, NEW i \in 0..r.in - 1
  PROVE  /\ RelationType(transformMap(r, i, p))
         /\ transformMap(r, i, p).in = r.in /\ transformMap(r, i, p).out = r.out
         /\ \A y : y \in transformMap(r, i, p).pairs <=>
              /\ y \in Iterations(r.in) \X [1..r.out -> Elements]
              /\ y[2][FromEnd(p.pos, r.out) + 1] = valueAt(p, y[1], i)
              /\ \A d \in (0..r.out - 1) \ {FromEnd(p.pos, r.out)} :
                   \E q \in r.pairs : q[1] = y[1] /\ q[2][d + 1] = y[2][d + 1]
<1> DEFINE pos == FromEnd(p.pos, r.out)
           old == listOf1DMaps(r)
           new == transform1D(old[pos + 1], i, p)
           list == [old EXCEPT ![pos + 1] = new]
           pairs == {y \in Iterations(r.in) \X [DOMAIN list -> Elements] :
                       \A d \in DOMAIN list : <<y[1], <<y[2][d]>>>> \in list[d].pairs}
<1>1. r.in \in Nat /\ r.out \in Nat /\ r.out > 0 /\ pos \in 0..r.out - 1
  BY DEF RelationType
<1>2. transformMap(r, i, p) = Relation(r.in, Len(list), pairs)
  BY <1>1 DEF transformMap, mapFrom1DMaps
<1> HIDE DEF pos
<1>3. old = [d \in 1..r.out |-> project(r, d - 1)]
  BY DEF listOf1DMaps
<1>4. /\ DOMAIN list = 1..r.out /\ list = [d \in 1..r.out |-> list[d]]
      /\ list[pos + 1] = new
      /\ \A d \in 1..r.out : d # pos + 1 => list[d] = project(r, d - 1)
  <2> HIDE DEF old, new
  <2>1. pos + 1 \in 1..r.out
    BY <1>1
  <2>2. QED
    BY <1>3, <2>1
<1>5. Len(list) = r.out
  <2> HIDE DEF list
  <2>1. QED
    BY <1>1, <1>4, ListIsSequence
<1>6. old[pos + 1].in = r.in
  BY <1>1, <1>3, ProjectFacts
<1> DEFINE f == [x \in Iterations(r.in) |-> valueAt(p, x, i)]
           g == [y \in [1..1 -> Elements] |-> y[1]]
<1>7. new.pairs = map_eq(f, g)
  BY <1>6, RelationFields DEF transform1D
<1>8. \A x \in Iterations(r.in), v \in Elements :
        <<x, <<v>>>> \in new.pairs <=> v = valueAt(p, x, i)
  <2> SUFFICES ASSUME NEW x \in Iterations(r.in), NEW v \in Elements
               PROVE  <<x, <<v>>>> \in map_eq(f, g) <=> v = valueAt(p, x, i)
    BY <1>7
  <2>1. <<v>> \in [1..1 -> Elements] /\ <<v>>[1] = v
    BY OneIndex
  <2>2. <<x, <<v>>>> \in map_eq(f, g) <=> f[x] = g[<<v>>]
    <3>1. DOMAIN f = Iterations(r.in) /\ DOMAIN g = [1..1 -> Elements]
      OBVIOUS
    <3> HIDE DEF f, g
    <3>2. QED
      BY <2>1, <3>1 DEF map_eq, isl_eq_map
  <2>3. QED
    BY <2>1, <2>2
<1> HIDE DEF new, list, old, f, g
<1>9. ASSUME NEW y \in Iterations(r.in) \X [1..r.out -> Elements], NEW d \in 1..r.out
      PROVE  <<y[1], <<y[2][d]>>>> \in list[d].pairs <=>
               IF d = pos + 1 THEN y[2][d] = valueAt(p, y[1], i)
               ELSE \E q \in r.pairs : q[1] = y[1] /\ q[2][d] = y[2][d]
  <2>1. y[1] \in Iterations(r.in) /\ y[2][d] \in Elements
    OBVIOUS
  <2>2. CASE d = pos + 1
    BY <1>4, <1>8, <2>1, <2>2
  <2>3. CASE d # pos + 1
    <3> DEFINE e == d - 1
    <3>1. e \in 0..r.out - 1
      BY <1>1
    <3>2. e + 1 = d
      BY <1>1
    <3>3. list[d] = project(r, e)
      BY <1>4, <2>3
    <3> HIDE DEF e
    <3>4. <<y[1], <<y[2][d]>>>> \in project(r, e).pairs
             <=> \E q \in r.pairs : q[1] = y[1] /\ q[2][e + 1] = y[2][d]
      BY ProjectPairs
    <3>5. QED
      BY <2>3, <3>2, <3>3, <3>4
  <2>4. QED
    BY <2>2, <2>3
<1>10. \A y : y \in pairs <=>
         /\ y \in Iterations(r.in) \X [1..r.out -> Elements]
         /\ y[2][pos + 1] = valueAt(p, y[1], i)
         /\ \A d \in (0..r.out - 1) \ {pos} :
              \E q \in r.pairs : q[1] = y[1] /\ q[2][d + 1] = y[2][d + 1]
  <2> SUFFICES ASSUME NEW y \in Iterations(r.in) \X [1..r.out -> Elements]
               PROVE  (\A d \in 1..r.out : <<y[1], <<y[2][d]>>>> \in list[d].pairs) <=>
                        /\ y[2][pos + 1] = valueAt(p, y[1], i)
                        /\ \A d \in (0..r.out - 1) \ {pos} :
                             \E q \in r.pairs : q[1] = y[1] /\ q[2][d + 1] = y[2][d + 1]
    BY <1>4
  <2> DEFINE Same(d) == \E q \in r.pairs : q[1] = y[1] /\ q[2][d] = y[2][d]
  <2>1. (\A d \in 1..r.out : <<y[1], <<y[2][d]>>>> \in list[d].pairs) <=>
          /\ y[2][pos + 1] = valueAt(p, y[1], i)
          /\ \A d \in (1..r.out) \ {pos + 1} : Same(d)
    <3>1. pos + 1 \in 1..r.out
      BY <1>1
    <3>2. QED
      BY <1>9, <3>1
  <2> HIDE DEF Same
  <2>2. (\A d \in (1..r.out) \ {pos + 1} : Same(d))
          <=> \A d \in (0..r.out - 1) \ {pos} : Same(d + 1)
    <3>1. \A d \in (1..r.out) \ {pos + 1} : d - 1 \in (0..r.out - 1) \ {pos} /\ d - 1 + 1 = d
      BY <1>1
    <3>2. \A d \in (0..r.out - 1) \ {pos} : d + 1 \in (1..r.out) \ {pos + 1}
      BY <1>1
    <3>3. ASSUME \A d \in (0..r.out - 1) \ {pos} : Same(d + 1),
                 NEW d \in (1..r.out) \ {pos + 1}
          PROVE  Same(d)
      <4>1. Same(d - 1 + 1)
        BY <3>1, <3>3
      <4>2. d - 1 + 1 = d
        BY <3>1
      <4>3. QED
        BY <4>1, <4>2
    <3>4. QED
      BY <3>2, <3>3
  <2>3. QED
    BY <2>1, <2>2 DEF Same
<1>11. pairs \subseteq Iterations(r.in) \X [1..r.out -> Elements]
  BY <1>10
<1> HIDE DEF pairs
<1>12. QED
  BY <1>1, <1>2, <1>5, <1>10, <1>11, RelationFields DEF RelationType, pos


-----------------------------------------------------------------------------
(***************************************************************************)
(* The inductive invariant.                                                *)
(***************************************************************************)
\* What a match has found for the placeholders of the pattern.
Matched ==
  /\ pattern \in Patterns /\ replacement \in Replacements
  /\ binding \in Bindings(pattern)
  /\ Ids(replacement) \subseteq Ids(pattern)

\* The dimension that a placeholder of the replacement is about.
Position(n) == FromEnd(replacement[n].pos, map.out)

\* An iteration of the access and an element whose dimensions have the values of the
\* first n placeholders, or the access's own.
IsRewritten(n, y) ==
  /\ y \in Iterations(map.in) \X [1..map.out -> Elements]
  /\ map.out = 1 \/ \E q \in map.pairs : q[1] = y[1]
  /\ \A m \in 1..n :
       y[2][Position(m) + 1] = valueAt(replacement[m], y[1], binding[replacement[m].id])
  /\ \A d \in 0..map.out - 1 : d \in {Position(m) : m \in 1..n} \/
       \E q \in map.pairs : q[1] = y[1] /\ q[2][d + 1] = y[2][d + 1]

IsDistinct == \A m, n \in DOMAIN replacement : Position(m) = Position(n) => m = n

\* What the operation has chosen, and when.
Chosen ==
  /\ op \in {"transform", "stride", "compare"}
  /\ pc \in {"start", "matched", "done", "unmatched", "died", "undefined"}
  /\ RelationType(map)
  /\ pattern \in Patterns \cup {<<>>}
  /\ pc \in {"matched", "undefined", "unmatched", "died"} => op = "transform"
  /\ op = "transform" /\ pc \in {"matched", "done", "undefined"} => Matched
  /\ op # "transform" \/ pc \notin {"matched", "done", "undefined"} =>
       k = 0 /\ replacement = <<>>
  /\ points = AllPoints \/ points \in ActivePoints
  /\ answer \subseteq Strides
  /\ affs = <<>> \/ affs \in Affs \X Affs
  /\ op = "compare" /\ pc = "done" => affs \in Affs \X Affs

\* How far the transformation is, and what the relation has become.
Progress ==
  /\ RelationType(result) /\ result.in = map.in
  /\ op = "transform" => result.out = map.out
  /\ pc = "start" => result = map
  /\ k \in 0..Len(replacement)
  /\ op = "transform" /\ pc = "done" => k = Len(replacement)
  /\ pc = "undefined" =>
       k < Len(replacement) /\ Position(k + 1) \notin 0..map.out - 1
  /\ \A n \in 1..k : Position(n) \in 0..map.out - 1
  /\ op = "transform" /\ IsDistinct =>
       IF k = 0 THEN result.pairs = map.pairs
       ELSE \A y : y \in result.pairs <=> IsRewritten(k, y)

\* The strides found are those of a dimension of the access.
Strided ==
  op = "stride" /\ pc = "done" =>
    /\ points = AllPoints \/ points \subseteq Iterations(map.in)
    /\ answer = {s \in Strides : strideCandidates(result, s, points)}

Inv == Chosen /\ Progress /\ Strided

LEMMA ListFacts ==
  ASSUME NEW list \in Patterns \cup Replacements
  PROVE  /\ Len(list) \in Nat /\ DOMAIN list = 1..Len(list)
         /\ \A n \in DOMAIN list : /\ list[n].coefficient \in Int
                                   /\ list[n].constant \in Int /\ list[n].pos \in Int
<1>1. list \in Seq({list[n] : n \in DOMAIN list})
  BY InputsAssumption
<1>2. Len(list) \in Nat /\ DOMAIN list = 1..Len(list)
  BY ONLY <1>1, LenProperties
<1>3. \A n \in DOMAIN list : {list[n].coefficient, list[n].constant, list[n].pos} \subseteq Int
  BY InputsAssumption
<1>4. QED
  BY <1>2, <1>3

\* Every placeholder of the replacement has the iterator of one that was matched, in
\* an access that is not empty and has dimensions.
LEMMA MatchedFacts ==
  ASSUME Matched, RelationType(map), NEW n \in DOMAIN replacement
  PROVE  binding[replacement[n].id] \in 0..map.in - 1 /\ map.out > 0 /\ map.pairs # {}
<1>1. PICK m \in DOMAIN pattern : pattern[m].id = replacement[n].id
  BY DEF Matched, Ids
<1>2. binding[pattern[m].id] \in candidates(map, pattern[m])
  BY DEF Matched, Bindings
<1> DEFINE pos == FromEnd(pattern[m].pos, map.out)
<1>3. /\ pos \in 0..map.out - 1 /\ map.pairs # {}
      /\ binding[pattern[m].id] \in 0..map.in - 1
  BY <1>2, CandidatesFacts
<1> HIDE DEF pos
<1>4. map.out > 0
  BY <1>3 DEF RelationType
<1>5. QED
  BY <1>1, <1>3, <1>4

LEMMA SameMatch ==
  UNCHANGED <<map, pattern, binding, replacement>> => (Matched' <=> Matched)
BY DEF Matched, Bindings, Ids

LEMMA InvInit == Init => Inv
<1> SUFFICES ASSUME Init PROVE Inv
  OBVIOUS
<1>1. RelationType(map) /\ result = map
  <2>1. RelationType(Nothing)
    BY RelationFields DEF Nothing, RelationType
  <2>2. QED
    BY <2>1, InputsAssumption DEF Init
<1>2. Chosen
  BY <1>1 DEF Init, Chosen
<1>3. Progress
  <2>1. Len(replacement) = 0 /\ k = 0 /\ pc = "start" /\ result = map
    BY DEF Init
  <2>2. QED
    BY <1>1, <2>1 DEF Progress
<1>4. Strided
  BY DEF Init, Strided
<1>5. QED
  BY <1>2, <1>3, <1>4 DEF Inv

LEMMA ChosenStep == Chosen /\ [Next]_vars => Chosen'
<1> SUFFICES ASSUME Chosen, [Next]_vars PROVE Chosen'
  OBVIOUS
<1>1. CASE MatchDies \/ NoMatch
  BY <1>1 DEF MatchDies, NoMatch, Chosen
<1>2. CASE MatchPattern
  <2>1. Matched'
    BY <1>2 DEF MatchPattern, Matched, Bindings, Ids
  <2>2. QED
    BY <1>2, <2>1 DEF MatchPattern, Chosen
<1>3. CASE TransformNext
  BY <1>3, SameMatch DEF TransformNext, Chosen
<1>4. CASE TransformUndefined \/ TransformDone
  BY <1>4, SameMatch DEF TransformUndefined, TransformDone, Chosen
<1>5. CASE FindStrides
  BY <1>5, SameMatch DEF FindStrides, Chosen
<1>6. CASE Compare
  BY <1>6, SameMatch DEF Compare, Chosen
<1>7. CASE UNCHANGED vars
  BY <1>7, SameMatch DEF vars, Chosen
<1>8. QED
  BY <1>1, <1>2, <1>3, <1>4, <1>5, <1>6, <1>7 DEF Next

\* The step of the transformation for one placeholder, on what was rewritten.
LEMMA RewriteNext ==
  ASSUME Chosen, Progress, IsDistinct, pc = "matched", op = "transform",
         k < Len(replacement), NEW pos, pos = Position(k + 1), pos \in 0..map.out - 1,
         NEW y \in Iterations(map.in) \X [1..map.out -> Elements]
  PROVE  IsRewritten(k + 1, y) <=>
           /\ y[2][pos + 1] = valueAt(replacement[k + 1], y[1], binding[replacement[k + 1].id])
           /\ \A d \in (0..map.out - 1) \ {pos} :
                \E q \in result.pairs : q[1] = y[1] /\ q[2][d + 1] = y[2][d + 1]
<1> DEFINE value(x) == valueAt(replacement[k + 1], x, binding[replacement[k + 1].id])
           Own(d) == \E q \in map.pairs : q[1] = y[1] /\ q[2][d + 1] = y[2][d + 1]
           Before(d) == \E q \in result.pairs : q[1] = y[1] /\ q[2][d + 1] = y[2][d + 1]
           Performed == \E q \in map.pairs : q[1] = y[1]
           Has(m) == y[2][Position(m) + 1]
                       = valueAt(replacement[m], y[1], binding[replacement[m].id])
<1> SUFFICES IsRewritten(k + 1, y) <=>
               /\ y[2][pos + 1] = value(y[1])
               /\ \A d \in (0..map.out - 1) \ {pos} : Before(d)
  OBVIOUS
<1>1. /\ k \in Nat /\ map.out \in Nat /\ RelationType(map)
      /\ \A n \in 1..k : Position(n) \in 0..map.out - 1
      /\ DOMAIN replacement = 1..Len(replacement) /\ Len(replacement) \in Nat
  BY ListFacts DEF Chosen, Progress, Matched, RelationType
<1>2. \A n \in 1..k : Position(n) # pos
  <2>1. k + 1 \in DOMAIN replacement
    BY <1>1
  <2>2. \A n \in 1..k : n \in DOMAIN replacement /\ n # k + 1
    BY <1>1
  <2>3. QED
    BY <2>1, <2>2 DEF IsDistinct
<1>3. Has(k + 1) <=> y[2][pos + 1] = value(y[1])
  OBVIOUS
<1>4. IsRewritten(k + 1, y) <=>
        /\ map.out = 1 \/ Performed
        /\ Has(k + 1) /\ \A m \in 1..k : Has(m)
        /\ \A d \in (0..map.out - 1) \ {pos} : d \in {Position(m) : m \in 1..k} \/ Own(d)
  <2>1. (\A m \in 1..k + 1 : Has(m)) <=> Has(k + 1) /\ \A m \in 1..k : Has(m)
    <3> HIDE DEF Has
    <3>1. 1..k + 1 = (1..k) \cup {k + 1}
      BY <1>1
    <3>2. QED
      BY <3>1
  <2>2. \A d : d \in {Position(m) : m \in 1..k + 1}
                 <=> d = pos \/ d \in {Position(m) : m \in 1..k}
    <3>1. 1..k + 1 = (1..k) \cup {k + 1}
      BY <1>1
    <3>2. QED
      BY <3>1
  <2> HIDE DEF Has, Own, Performed
  <2>3. (\A d \in 0..map.out - 1 : d \in {Position(m) : m \in 1..k + 1} \/ Own(d)) <=>
           \A d \in (0..map.out - 1) \ {pos} : d \in {Position(m) : m \in 1..k} \/ Own(d)
    BY <2>2
  <2>4. IsRewritten(k + 1, y) <=>
          /\ map.out = 1 \/ Performed
          /\ \A m \in 1..k + 1 : Has(m)
          /\ \A d \in 0..map.out - 1 : d \in {Position(m) : m \in 1..k + 1} \/ Own(d)
    BY DEF IsRewritten, Has, Own, Performed
  <2>5. QED
    BY <2>1, <2>3, <2>4
<1>5. map.out = 1 \/ \E d \in 0..map.out - 1 : d # pos
  <2>1. CASE pos = 0 /\ map.out # 1
    <3>1. 1 \in 0..map.out - 1 /\ 1 # pos
      BY <1>1, <2>1
    <3>2. QED
      BY <3>1
  <2>2. CASE pos # 0
    <3>1. 0 \in 0..map.out - 1
      BY <1>1
    <3>2. QED
      BY <2>2, <3>1
  <2>3. QED
    BY <2>1, <2>2
<1>6. CASE k = 0
  <2>1. result.pairs = map.pairs
    BY <1>6 DEF Progress
  <2>2. \A d : Before(d) <=> Own(d)
    BY <2>1
  <2>3. \A d : Own(d) => Performed
    OBVIOUS
  <2>4. 1..k = {}
    BY <1>6
  <2> HIDE DEF Has, Own, Before, Performed, value
  <2>5. QED
    BY <1>3, <1>4, <1>5, <2>2, <2>3, <2>4
<1>7. CASE k # 0
  <2>1. \A z : z \in result.pairs <=> IsRewritten(k, z)
    BY <1>7 DEF Progress
  <2>2. ASSUME NEW d \in (0..map.out - 1) \ {pos}, Before(d)
        PROVE  /\ map.out = 1 \/ Performed
               /\ \A m \in 1..k : Position(m) = d => Has(m)
               /\ d \in {Position(m) : m \in 1..k} \/ Own(d)
    <3>1. PICK q \in result.pairs : q[1] = y[1] /\ q[2][d + 1] = y[2][d + 1]
      BY <2>2
    <3>2. IsRewritten(k, q)
      BY <2>1
    <3>3. QED
      BY <3>1, <3>2 DEF IsRewritten
  <2>3. ASSUME y[2][pos + 1] = value(y[1]),
               \A d \in (0..map.out - 1) \ {pos} : Before(d)
        PROVE  IsRewritten(k + 1, y)
    <3> HIDE DEF Has, Own, Before, Performed, value
    <3>1. map.out = 1 \/ Performed
      BY <1>5, <2>2, <2>3
    <3>2. \A m \in 1..k : Has(m)
      BY <1>1, <1>2, <2>2, <2>3
    <3>3. \A d \in (0..map.out - 1) \ {pos} : d \in {Position(m) : m \in 1..k} \/ Own(d)
      BY <2>2, <2>3
    <3>4. QED
      BY <1>3, <1>4, <2>3, <3>1, <3>2, <3>3
  <2>4. ASSUME IsRewritten(k + 1, y), NEW d \in (0..map.out - 1) \ {pos}
        PROVE  Before(d)
    <3>1. map.out # 1
      BY <1>1
    <3>2. PICK q \in map.pairs : q[1] = y[1]
      BY <1>4, <2>4, <3>1
    <3> DEFINE e == [y[2] EXCEPT ![pos + 1] = q[2][pos + 1]]
               z == <<y[1], e>>
    <3>3. /\ e \in [1..map.out -> Elements] /\ e[pos + 1] = q[2][pos + 1]
          /\ \A c \in 0..map.out - 1 : c # pos => e[c + 1] = y[2][c + 1]
      <4>1. q[2] \in [1..map.out -> Elements] /\ y[2] \in [1..map.out -> Elements]
        BY <1>1 DEF RelationType
      <4>2. pos + 1 \in 1..map.out
        BY <1>1
      <4>3. \A c \in 0..map.out - 1 : c + 1 \in 1..map.out /\ (c # pos => c + 1 # pos + 1)
        BY <1>1
      <4>4. QED
        BY <4>1, <4>2, <4>3
    <3>4. z[1] = y[1] /\ z[2] = e /\ z \in Iterations(map.in) \X [1..map.out -> Elements]
      BY <3>3
    <3> HIDE DEF e, z
    <3>5. \A m \in 1..k :
            z[2][Position(m) + 1]
              = valueAt(replacement[m], z[1], binding[replacement[m].id])
      <4>1. \A m \in 1..k : Has(m) /\ e[Position(m) + 1] = y[2][Position(m) + 1]
        BY <1>1, <1>2, <1>4, <2>4, <3>3
      <4>2. QED
        BY <3>4, <4>1
    <3>6. ASSUME NEW c \in 0..map.out - 1
          PROVE  c \in {Position(m) : m \in 1..k} \/
                   \E r \in map.pairs : r[1] = z[1] /\ r[2][c + 1] = z[2][c + 1]
      <4>1. CASE c = pos
        BY <3>2, <3>3, <3>4, <4>1
      <4>2. CASE c # pos
        <5>1. c \in {Position(m) : m \in 1..k} \/ Own(c)
          BY <1>4, <2>4, <4>2
        <5>2. z[2][c + 1] = y[2][c + 1]
          BY <3>3, <3>4, <4>2
        <5>3. QED
          BY <3>4, <5>1, <5>2
      <4>3. QED
        BY <4>1, <4>2
    <3>7. IsRewritten(k, z)
      BY <3>2, <3>4, <3>5, <3>6 DEF IsRewritten
    <3>8. z \in result.pairs /\ z[2][d + 1] = y[2][d + 1]
      BY <2>1, <3>3, <3>4, <3>7
    <3>9. QED
      BY <3>4, <3>8
  <2>5. IsRewritten(k + 1, y) => y[2][pos + 1] = value(y[1])
    BY <1>3, <1>4
  <2> HIDE DEF Has, Own, Performed
  <2>6. QED
    BY <2>3, <2>4, <2>5
<1>8. QED
  BY <1>6, <1>7


LEMMA SamePositions ==
  UNCHANGED <<map, replacement, binding>> =>
    /\ \A n : Position(n)' = Position(n)
    /\ IsDistinct' <=> IsDistinct
    /\ \A n, y : IsRewritten(n, y)' <=> IsRewritten(n, y)
BY DEF Position, IsDistinct, IsRewritten

LEMMA TransformProgress ==
  ASSUME Chosen, Progress, TransformNext
  PROVE  Progress'
<1> DEFINE p == replacement[k + 1]
           i == binding[p.id]
<1>1. /\ pc = "matched" /\ k < Len(replacement) /\ k' = k + 1 /\ ~Outside(p)
      /\ result' = transformMap(result, i, p)
      /\ UNCHANGED <<op, map, binding, replacement, pc>>
  BY DEF TransformNext
<1>2. op = "transform" /\ Matched /\ RelationType(map)
  BY <1>1 DEF Chosen
<1>3. /\ k \in Nat /\ Len(replacement) \in Nat /\ DOMAIN replacement = 1..Len(replacement)
      /\ k + 1 \in DOMAIN replacement
      /\ p.coefficient \in Int /\ p.constant \in Int
  <2>1. /\ Len(replacement) \in Nat /\ DOMAIN replacement = 1..Len(replacement)
        /\ \A n \in DOMAIN replacement : /\ replacement[n].coefficient \in Int
                                         /\ replacement[n].constant \in Int
    BY <1>2, ListFacts DEF Matched
  <2>2. k \in Nat /\ k + 1 \in DOMAIN replacement
    BY <1>1, <2>1 DEF Progress
  <2>3. QED
    BY <2>1, <2>2
<1>4. RelationType(result) /\ result.in = map.in /\ result.out = map.out
  BY <1>2 DEF Progress
<1>5. i \in 0..map.in - 1 /\ map.out > 0
  BY <1>2, <1>3, MatchedFacts
<1>6. /\ Position(k + 1) = FromEnd(p.pos, result.out)
      /\ Position(k + 1) \in 0..map.out - 1
  BY <1>1, <1>4, <1>5 DEF Outside, Position
<1> DEFINE pos == Position(k + 1)
<1> HIDE DEF p, i
<1>7. /\ RelationType(result') /\ result'.in = map.in /\ result'.out = map.out
      /\ \A y : y \in result'.pairs <=>
           /\ y \in Iterations(map.in) \X [1..map.out -> Elements]
           /\ y[2][pos + 1] = valueAt(p, y[1], i)
           /\ \A d \in (0..map.out - 1) \ {pos} :
                \E q \in result.pairs : q[1] = y[1] /\ q[2][d + 1] = y[2][d + 1]
  <2>1. /\ FromEnd(p.pos, result.out) \in 0..result.out - 1 /\ i \in 0..result.in - 1
        /\ p.coefficient \in Int /\ p.constant \in Int /\ RelationType(result)
    BY <1>3, <1>4, <1>5, <1>6
  <2>2. /\ RelationType(transformMap(result, i, p))
        /\ transformMap(result, i, p).in = result.in
        /\ transformMap(result, i, p).out = result.out
    BY ONLY <2>1, TransformMapFacts
  <2>3. ASSUME NEW y
        PROVE  y \in transformMap(result, i, p).pairs <=>
                 /\ y \in Iterations(result.in) \X [1..result.out -> Elements]
                 /\ y[2][FromEnd(p.pos, result.out) + 1] = valueAt(p, y[1], i)
                 /\ \A d \in (0..result.out - 1) \ {FromEnd(p.pos, result.out)} :
                      \E q \in result.pairs : q[1] = y[1] /\ q[2][d + 1] = y[2][d + 1]
    BY ONLY <2>1, TransformMapFacts
  <2>4. QED
    BY <1>1, <1>4, <1>6, <2>2, <2>3
<1>8. IsDistinct => \A y : y \in result'.pairs <=> IsRewritten(k + 1, y)
  <2> SUFFICES ASSUME IsDistinct, NEW y
               PROVE  y \in result'.pairs <=> IsRewritten(k + 1, y)
    OBVIOUS
  <2>1. y \in result'.pairs => y \in Iterations(map.in) \X [1..map.out -> Elements]
    BY <1>7
  <2>2. IsRewritten(k + 1, y) => y \in Iterations(map.in) \X [1..map.out -> Elements]
    BY DEF IsRewritten
  <2>3. ASSUME y \in Iterations(map.in) \X [1..map.out -> Elements]
        PROVE  y \in result'.pairs <=> IsRewritten(k + 1, y)
    <3>1. IsRewritten(k + 1, y) <=>
            /\ y[2][pos + 1] = valueAt(p, y[1], i)
            /\ \A d \in (0..map.out - 1) \ {pos} :
                 \E q \in result.pairs : q[1] = y[1] /\ q[2][d + 1] = y[2][d + 1]
      BY <1>1, <1>2, <1>6, <2>3, RewriteNext DEF p, i
    <3>2. QED
      BY <1>7, <2>3, <3>1
  <2>4. QED
    BY <2>1, <2>2, <2>3
<1>9. \A n \in 1..k + 1 : Position(n) \in 0..map.out - 1
  <2>1. \A n \in 1..k + 1 : n \in 1..k \/ n = k + 1
    BY <1>3
  <2>2. QED
    BY <1>6, <2>1 DEF Progress
<1>10. k' \in 0..Len(replacement) /\ k' # 0
  BY <1>1, <1>3
<1>11. QED
  BY <1>1, <1>2, <1>7, <1>8, <1>9, <1>10, SamePositions DEF Progress

LEMMA ProgressStep == Chosen /\ Progress /\ [Next]_vars => Progress'
<1> SUFFICES ASSUME Chosen, Progress, [Next]_vars PROVE Progress'
  OBVIOUS
<1>1. CASE MatchDies \/ NoMatch
  BY <1>1, SamePositions DEF MatchDies, NoMatch, Progress
<1>2. CASE MatchPattern
  <2>1. /\ pc = "start" /\ pc' = "matched" /\ op = "transform" /\ k = 0
        /\ replacement' \in Replacements /\ UNCHANGED <<op, map, k, result>>
    BY <1>2 DEF MatchPattern, Chosen
  <2>2. Len(replacement') \in Nat
    BY <2>1, ListFacts
  <2>3. k' \in 0..Len(replacement') /\ 1..k' = {}
    BY <2>1, <2>2
  <2>4. QED
    BY <2>1, <2>3 DEF Progress
<1>3. CASE TransformNext
  BY <1>3, TransformProgress
<1>4. CASE TransformUndefined
  <2>1. Len(replacement) \in Nat /\ RelationType(map) /\ op = "transform"
    BY <1>4, ListFacts DEF TransformUndefined, Chosen, Matched
  <2>2. /\ k < Len(replacement) /\ Outside(replacement[k + 1])
        /\ pc' = "undefined" /\ UNCHANGED <<op, map, binding, replacement, k, result>>
    BY <1>4 DEF TransformUndefined
  <2>3. Position(k + 1) \notin 0..map.out - 1
    BY <2>1, <2>2 DEF Outside, Position, Progress
  <2>4. QED
    BY <2>1, <2>2, <2>3, SamePositions DEF Progress
<1>5. CASE TransformDone
  BY <1>5, SamePositions DEF TransformDone, Progress
<1>6. CASE FindStrides
  <2>1. PICK pos \in 0..map.out - 1 : result' = project(map, pos)
    BY <1>6 DEF FindStrides
  <2>2. /\ op = "stride" /\ pc = "start" /\ pc' = "done"
        /\ UNCHANGED <<op, map, pattern, binding, replacement, k>>
    BY <1>6 DEF FindStrides
  <2>3. RelationType(project(map, pos)) /\ project(map, pos).in = map.in
    <3>1. RelationType(map)
      BY DEF Chosen
    <3>2. QED
      BY <3>1, ProjectFacts
  <2>4. QED
    BY <2>1, <2>2, <2>3, SamePositions DEF Progress
<1>7. CASE Compare
  BY <1>7, SamePositions DEF Compare, Progress
<1>8. CASE UNCHANGED vars
  BY <1>8, SamePositions DEF vars, Progress
<1>9. QED
  BY <1>1, <1>2, <1>3, <1>4, <1>5, <1>6, <1>7, <1>8 DEF Next

LEMMA StridedStep == Chosen /\ Strided /\ [Next]_vars => Strided'
<1> SUFFICES ASSUME Chosen, Strided, [Next]_vars PROVE Strided'
  OBVIOUS
<1>1. CASE FindStrides
  BY <1>1 DEF FindStrides, Strided
<1>2. CASE UNCHANGED vars
  BY <1>2 DEF vars, Strided
<1>3. CASE MatchDies \/ NoMatch \/ MatchPattern \/ TransformNext \/ TransformUndefined
           \/ TransformDone \/ Compare
  <2>1. op' # "stride" \/ pc' # "done"
    BY <1>3 DEF MatchDies, NoMatch, MatchPattern, TransformNext, TransformUndefined,
                TransformDone, Compare, Chosen
  <2>2. QED
    BY <2>1 DEF Strided
<1>4. QED
  BY <1>1, <1>2, <1>3 DEF Next

LEMMA Invariant == Spec => []Inv
<1>1. Inv /\ [Next]_vars => Inv'
  BY ChosenStep, ProgressStep, StridedStep DEF Inv
<1>2. QED
  BY <1>1, InvInit, PTL DEF Spec

-----------------------------------------------------------------------------
(***************************************************************************)
(* Theorems.                                                               *)
(***************************************************************************)
\* Every step of a transformation makes a relation between the spaces of the access.
THEOREM TypeCorrect == Spec => []TypeOK
<1>1. Inv => TypeOK
  <2> SUFFICES ASSUME Inv PROVE TypeOK
    OBVIOUS
  <2>1. Chosen /\ Progress
    BY DEF Inv
  <2>2. replacement # <<>> => Matched
    BY <2>1 DEF Chosen
  <2>3. pc # "start" /\ replacement # <<>> => binding \in [Ids(pattern) -> 0..map.in - 1]
    BY <2>2 DEF Matched, Bindings
  <2>4. replacement \in Replacements \cup {<<>>}
    BY <2>2 DEF Matched
  <2>5. QED
    BY <2>1, <2>3, <2>4 DEF TypeOK, Chosen, Progress
<1>2. QED
  BY <1>1, Invariant, PTL

\* The relations and sets that the operators make of two functions agree.
THEOREM OperatorsCorrect == Spec => []OperatorsAgree
<1>1. Inv => OperatorsAgree
  <2> SUFFICES ASSUME Inv, op = "compare", pc = "done"
               PROVE  OperatorsAgree
    BY DEF OperatorsAgree
  <2> DEFINE f == affs[1]
             g == affs[2]
             D == DOMAIN f
             E == DOMAIN g
  <2>1. f \in Affs /\ g \in Affs
    BY DEF Inv, Chosen
  <2>2. f \in [D -> Int] /\ g \in [E -> Int]
    BY <2>1, InputsAssumption
  <2> HIDE DEF f, g, D, E
  <2>3. \A n \in Elements : n \in Int
    BY WindowAssumption
  <2>4. /\ map_ne(f, g) = (D \X E) \ map_eq(f, g)
        /\ map_le(f, g) = (D \X E) \ map_gt(f, g)
        /\ map_ge(f, g) = (D \X E) \ map_lt(f, g)
        /\ map_ne(f, g) = map_lt(f, g) \cup map_gt(f, g)
    BY ONLY <2>2, MapsAgree
  <2>5. LET diagonal(r) == {x \in Common(f, g) : <<x, x>> \in r}
        IN /\ diagonal(map_eq(f, g)) = set_eq(f, g)
           /\ diagonal(map_le(f, g)) = set_le(f, g)
           /\ diagonal(map_lt(f, g)) = set_lt(f, g)
           /\ diagonal(map_ge(f, g)) = set_ge(f, g)
           /\ diagonal(map_gt(f, g)) = set_gt(f, g)
    BY ONLY <2>2, DiagonalsAgree
  <2>6. /\ set_lt(aff_sub(f, g), isl_constant(Common(f, g), 0)) = set_lt(f, g)
        /\ aff_add(aff_sub(f, g), g) = [x \in Common(f, g) |-> f[x]]
    BY ONLY <2>2, ArithmeticAgrees
  <2>7. ASSUME NEW n \in Int
        PROVE  /\ set_eq(val_sub(n, f), sub_val(f, n)) = set_eq(mul_val(f, 2), isl_constant(D, 2 * n))
               /\ n > 0 => \A x \in D : mod_val(f, n)[x] \in 0..n - 1
    BY ONLY <2>2, n \in Int, ArithmeticAgrees
  <2>8. QED
    BY <2>3, <2>4, <2>5, <2>6, <2>7 DEF OperatorsAgree, f, g, D, E
<1>2. QED
  BY <1>1, Invariant, PTL


\* As many dimensions as placeholders: no two are about one dimension.
LEMMA DistinctFacts ==
  ASSUME Matched, AreDistinct(replacement)
  PROVE  IsDistinct
<1> DEFINE n == Len(replacement)
           T == Dimensions(replacement)
           f == [m \in 1..n |-> Position(m)]
<1>1. n \in Nat /\ DOMAIN replacement = 1..n
  BY ListFacts DEF Matched
<1>2. Cardinality(T) = n
  BY DEF AreDistinct
<1>3. IsFiniteSet(1..n) /\ Cardinality(1..n) = n
  <2> HIDE DEF n
  <2>1. 1 \in Int /\ n \in Int
    BY <1>1
  <2>2. IsFiniteSet(1..n) /\ Cardinality(1..n) = IF 1 > n THEN 0 ELSE n - 1 + 1
    BY <2>1, FS_Interval, Zenon
  <2>3. QED
    BY <1>1, <2>2
<1>4. T = {Position(m) : m \in 1..n}
  BY <1>1 DEF Dimensions, Position
<1> HIDE DEF n, T
<1>5. f \in Surjection(1..n, T)
  BY <1>4 DEF Surjection
<1> HIDE DEF f
<1>6. Cardinality(1..n) = Cardinality(T)
  BY <1>2, <1>3
<1>7. f \in Injection(1..n, T)
  BY <1>3, <1>5, <1>6, FS_SurjSameCardinalityImpliesInj, Zenon
<1>8. \A l, m \in 1..n : f[l] = f[m] => l = m
  BY <1>7 DEF Injection, IsInjective
<1>9. QED
  BY <1>1, <1>8 DEF IsDistinct, f

\* What a transformation by distinct dimensions has made in the end.
LEMMA DoneFacts ==
  ASSUME Inv, op = "transform", pc = "done", AreDistinct(replacement)
  PROVE  /\ Matched /\ RelationType(map) /\ RelationType(result)
         /\ result.in = map.in /\ result.out = map.out
         /\ Len(replacement) \in Nat /\ DOMAIN replacement = 1..Len(replacement)
         /\ Dimensions(replacement) = {Position(m) : m \in 1..Len(replacement)}
         /\ \A n \in 1..Len(replacement) : Position(n) \in 0..map.out - 1
         /\ replacement = <<>> => result.pairs = map.pairs
         /\ replacement # <<>> =>
              \A y : y \in result.pairs <=> IsRewritten(Len(replacement), y)
<1>1. Matched /\ Chosen /\ Progress /\ k = Len(replacement) /\ IsDistinct
  BY DistinctFacts DEF Inv, Chosen, Progress
<1>2. Len(replacement) \in Nat /\ DOMAIN replacement = 1..Len(replacement)
  BY <1>1, ListFacts DEF Matched
<1>3. Dimensions(replacement) = {Position(m) : m \in 1..Len(replacement)}
  BY <1>2 DEF Dimensions, Position
<1>4. replacement = <<>> <=> Len(replacement) = 0
  <2>1. replacement \in Seq({replacement[n] : n \in DOMAIN replacement})
    BY <1>1, InputsAssumption DEF Matched
  <2>2. QED
    BY <2>1, EmptySeq
<1>5. replacement = <<>> => result.pairs = map.pairs
  BY <1>1, <1>4 DEF Progress
<1>6. replacement # <<>> => \A y : y \in result.pairs <=> IsRewritten(Len(replacement), y)
  BY <1>1, <1>4 DEF Progress
<1>7. QED
  BY <1>1, <1>2, <1>3, <1>5, <1>6 DEF Chosen, Progress

\* A transformation makes of an access exactly what its replacement says: the
\* dimensions in it become its expressions, the others keep their values.
THEOREM TransformExact == Spec => []TransformIsExact
<1>1. Inv => TransformIsExact
  <2> SUFFICES ASSUME Inv, op = "transform", pc = "done", AreDistinct(replacement),
                      replacement # <<>>
               PROVE  result.pairs =
                        {p \in Iterations(map.in) \X [1..map.out -> Elements] :
                           /\ map.out = 1 \/ \E q \in map.pairs : q[1] = p[1]
                           /\ \A n \in DOMAIN replacement :
                                p[2][FromEnd(replacement[n].pos, map.out) + 1] =
                                  valueAt(replacement[n], p[1], binding[replacement[n].id])
                           /\ \A d \in 0..map.out - 1 : d \in Dimensions(replacement) \/
                                \E q \in map.pairs : q[1] = p[1] /\ q[2][d + 1] = p[2][d + 1]}
    BY DoneFacts DEF TransformIsExact
  <2>1. /\ DOMAIN replacement = 1..Len(replacement)
        /\ Dimensions(replacement) = {Position(m) : m \in 1..Len(replacement)}
        /\ \A y : y \in result.pairs <=> IsRewritten(Len(replacement), y)
    BY DoneFacts
  <2> DEFINE Exact(p) ==
               /\ map.out = 1 \/ \E q \in map.pairs : q[1] = p[1]
               /\ \A n \in DOMAIN replacement :
                    p[2][FromEnd(replacement[n].pos, map.out) + 1] =
                      valueAt(replacement[n], p[1], binding[replacement[n].id])
               /\ \A d \in 0..map.out - 1 : d \in Dimensions(replacement) \/
                    \E q \in map.pairs : q[1] = p[1] /\ q[2][d + 1] = p[2][d + 1]
  <2>2. \A p : IsRewritten(Len(replacement), p) <=>
                 p \in Iterations(map.in) \X [1..map.out -> Elements] /\ Exact(p)
    BY <2>1 DEF IsRewritten, Position
  <2> SUFFICES result.pairs =
                 {p \in Iterations(map.in) \X [1..map.out -> Elements] : Exact(p)}
    OBVIOUS
  <2> HIDE DEF Exact
  <2>3. QED
    BY <2>1, <2>2
<1>2. QED
  BY <1>1, Invariant, PTL


\* Expressions of the replacement do not leave the window.
LEMMA ValuesInWindow ==
  ASSUME Matched, RelationType(map), NEW n \in DOMAIN replacement,
         NEW x \in Iterations(map.in)
  PROVE  valueAt(replacement[n], x, binding[replacement[n].id]) \in Elements
<1> DEFINE i == binding[replacement[n].id]
<1>1. i \in 0..map.in - 1
  BY MatchedFacts
<1> HIDE DEF i
<1>2. i + 1 \in 1..map.in
  BY <1>1 DEF RelationType
<1>3. x[i + 1] \in Coordinates
  BY <1>2 DEF Iterations
<1>4. replacement[n].coefficient * x[i + 1] + replacement[n].constant \in Elements
  BY <1>3, WindowAssumption DEF Matched
<1>5. QED
  BY <1>4 DEF valueAt, i

\* The access that a transformation makes is not empty.
LEMMA DoneIsNotEmpty ==
  ASSUME Inv, op = "transform", pc = "done", AreDistinct(replacement), replacement # <<>>
  PROVE  result.pairs # {}
<1> DEFINE n == Len(replacement)
<1>1. /\ Matched /\ RelationType(map)
      /\ DOMAIN replacement = 1..n /\ n \in Nat
      /\ \A y : y \in result.pairs <=> IsRewritten(n, y)
      /\ \A m \in 1..n : Position(m) \in 0..map.out - 1
  BY DoneFacts
<1>2. IsDistinct
  BY <1>1, DistinctFacts
<1>3. 1 \in 1..n
  <2>1. replacement \in Seq({replacement[m] : m \in DOMAIN replacement})
    BY <1>1, InputsAssumption DEF Matched
  <2>2. n \in Nat \ {0}
    BY <2>1, EmptySeq
  <2>3. QED
    BY <2>2
<1>4. map.pairs # {}
  BY <1>1, <1>3, MatchedFacts
<1>5. PICK q \in map.pairs : TRUE
  BY <1>4
<1>6. q[1] \in Iterations(map.in) /\ q[2] \in [1..map.out -> Elements] /\ map.out \in Nat
  BY <1>1 DEF RelationType
<1> DEFINE value(m) == valueAt(replacement[m], q[1], binding[replacement[m].id])
           at(d) == CHOOSE m \in 1..n : Position(m) = d
           new(d) == IF \E m \in 1..n : Position(m) = d THEN value(at(d)) ELSE q[2][d + 1]
           e == [c \in 1..map.out |-> new(c - 1)]
           z == <<q[1], e>>
<1>7. \A m \in 1..n : value(m) \in Elements
  BY <1>1, <1>6, ValuesInWindow
<1> HIDE DEF value, n
<1>8. \A m \in 1..n : at(Position(m)) = m
  BY <1>1, <1>2 DEF IsDistinct
<1>9. \A d : (\E m \in 1..n : Position(m) = d) => at(d) \in 1..n
  OBVIOUS
<1> HIDE DEF at
<1>10. \A d \in 0..map.out - 1 : new(d) \in Elements
  <2>1. \A d \in 0..map.out - 1 : q[2][d + 1] \in Elements
    <3>1. \A d \in 0..map.out - 1 : d + 1 \in 1..map.out
      BY <1>6
    <3>2. QED
      BY <1>6, <3>1
  <2>2. QED
    BY <1>7, <1>9, <2>1
<1>11. /\ \A m \in 1..n : new(Position(m)) = value(m)
       /\ \A d : (\A m \in 1..n : Position(m) # d) => new(d) = q[2][d + 1]
  BY <1>8
<1> HIDE DEF new
<1>12. e \in [1..map.out -> Elements] /\ \A d \in 0..map.out - 1 : e[d + 1] = new(d)
  <2>1. \A c \in 1..map.out : c - 1 \in 0..map.out - 1
    BY <1>6
  <2>2. \A d \in 0..map.out - 1 : d + 1 \in 1..map.out /\ d + 1 - 1 = d
    BY <1>6
  <2>3. QED
    BY <1>10, <2>1, <2>2
<1> HIDE DEF e
<1>13. z \in Iterations(map.in) \X [1..map.out -> Elements] /\ z[1] = q[1] /\ z[2] = e
  BY <1>6, <1>12
<1> HIDE DEF z
<1>14. \A m \in 1..n :
         z[2][Position(m) + 1]
           = valueAt(replacement[m], z[1], binding[replacement[m].id])
  BY <1>1, <1>11, <1>12, <1>13 DEF value
<1>15. \A d \in 0..map.out - 1 : d \in {Position(m) : m \in 1..n} \/
         \E p \in map.pairs : p[1] = z[1] /\ p[2][d + 1] = z[2][d + 1]
  BY <1>11, <1>12, <1>13
<1>16. IsRewritten(n, z)
  BY <1>13, <1>14, <1>15 DEF IsRewritten
<1>17. QED
  BY <1>1, <1>16

\* A replacement for dimensions that were matched is defined, and the access that it
\* makes is matched by it with the iterators that were bound.
THEOREM ReplacementMatched == Spec => []ReplacementIsMatched
<1>1. ASSUME Inv, Dimensions(replacement) \subseteq Dimensions(pattern), pc = "undefined"
      PROVE  FALSE
  <2>1. /\ Matched /\ RelationType(map) /\ k \in Nat
        /\ k < Len(replacement) /\ Position(k + 1) \notin 0..map.out - 1
    BY <1>1 DEF Inv, Chosen, Progress
  <2>2. k + 1 \in DOMAIN replacement
    BY <2>1, ListFacts DEF Matched
  <2>3. PICK m \in DOMAIN pattern : FromEnd(pattern[m].pos, map.out) = Position(k + 1)
    BY <1>1, <2>2 DEF Dimensions, Position
  <2>4. binding[pattern[m].id] \in candidates(map, pattern[m])
    BY <2>1 DEF Matched, Bindings
  <2>5. FromEnd(pattern[m].pos, map.out) \in 0..map.out - 1
    BY <2>1, <2>4, CandidatesFacts
  <2>6. QED
    BY <2>1, <2>3, <2>5
<1>2. ASSUME Inv, op = "transform", pc = "done", AreDistinct(replacement),
             NEW n \in DOMAIN replacement
      PROVE  binding[replacement[n].id] \in candidates(result, replacement[n])
  <2> DEFINE p == replacement[n]
             i == binding[p.id]
             pos == Position(n)
  <2>1. replacement # <<>>
    OBVIOUS
  <2>2. /\ Matched /\ RelationType(map) /\ RelationType(result)
        /\ result.in = map.in /\ result.out = map.out
        /\ n \in 1..Len(replacement) /\ pos \in 0..map.out - 1
        /\ \A y : y \in result.pairs <=> IsRewritten(Len(replacement), y)
    BY <1>2, <2>1, DoneFacts
  <2>3. pos = FromEnd(p.pos, result.out)
    BY <2>2 DEF Position
  <2>4. i \in 0..result.in - 1
    BY <1>2, <2>2, MatchedFacts
  <2>5. \A q \in result.pairs : q[2][pos + 1] = valueAt(p, q[1], i)
    BY <2>2 DEF IsRewritten
  <2>6. result.pairs # {}
    BY <1>2, <2>1, DoneIsNotEmpty
  <2> HIDE DEF p, i, pos
  <2>7. IsSingleValued(project(result, pos))
    <3> SUFFICES ASSUME NEW x \in project(result, pos).pairs,
                        NEW y \in project(result, pos).pairs, x[1] = y[1]
                 PROVE  x[2] = y[2]
      BY DEF IsSingleValued
    <3>1. project(result, pos).pairs = {<<q[1], <<q[2][pos + 1]>>>> : q \in result.pairs}
      BY RelationFields DEF project
    <3>2. PICK q \in result.pairs : x = <<q[1], <<q[2][pos + 1]>>>>
      BY <3>1
    <3>3. PICK r \in result.pairs : y = <<r[1], <<r[2][pos + 1]>>>>
      BY <3>1
    <3>4. q[1] = r[1]
      BY <3>2, <3>3
    <3>5. q[2][pos + 1] = r[2][pos + 1]
      BY <2>5, <3>4
    <3>6. QED
      BY <3>2, <3>3, <3>5
  <2>8. i \in candidates(result, p)
    BY <2>2, <2>3, <2>4, <2>5, <2>6, <2>7, CandidatesFacts
  <2>9. QED
    BY <2>8 DEF p, i
<1>3. Inv => ReplacementIsMatched
  BY <1>1, <1>2 DEF ReplacementIsMatched
<1>4. QED
  BY <1>3, Invariant, PTL


-----------------------------------------------------------------------------
(***************************************************************************)
(* Strides.                                                                *)
(***************************************************************************)
\* The same iterators but the last, which is larger in y.
Later(in, x, y) == x[in] < y[in] /\ \A i \in 1..in - 1 : x[i] = y[i]

LEMMA IterationFacts ==
  ASSUME NEW in \in Nat \ {0}, NEW x \in Iterations(in)
  PROVE  Len(x) = in /\ DOMAIN x = 1..in /\ x[in] \in Int /\ x[in] \in Coordinates
<1>1. DOMAIN x = 1..in /\ x = [d \in 1..in |-> x[d]] /\ in \in Nat /\ in \in 1..in
  BY DEF Iterations
<1>2. Len(x) = in
  BY <1>1, ListIsSequence
<1>3. x[in] \in Coordinates
  BY <1>1 DEF Iterations
<1>4. x[in] \in Int
  BY <1>3, WindowAssumption
<1>5. QED
  BY <1>1, <1>2, <1>3, <1>4

\* mapToNext relates iterations that differ in the last iterator only: to the one
\* after it, or to all later ones.
LEMMA MapToNextFacts ==
  ASSUME NEW in \in Nat \ {0}, NEW all \in BOOLEAN
  PROVE  /\ mapToNext(in, all) \subseteq Iterations(in) \X Iterations(in)
         /\ \A x, y \in Iterations(in) :
              <<x, y>> \in mapToNext(in, all) <=>
                /\ IF all THEN x[in] < y[in] ELSE x[in] + 1 = y[in]
                /\ \A i \in 1..in - 1 : x[i] = y[i]
<1> DEFINE It == Iterations(in)
           var(i) == [x \in It |-> x[i]]
           equal(i) == map_eq(var(i), var(i))
           next == map_eq(add_val(var(in), 1), var(in))
           later == map_lt(var(in), var(in))
           last == IF all THEN later ELSE next
<1>1. mapToNext(in, all) = {p \in last : \A i \in 1..in - 1 : p \in equal(i)}
  BY DEF mapToNext
<1> HIDE DEF It
<1>2. \A i, p : p \in equal(i) <=> p \in It \X It /\ p[1][i] = p[2][i]
  BY DEF map_eq, isl_eq_map
<1>3. \A p : p \in later <=> p \in It \X It /\ p[1][in] < p[2][in]
  BY DEF map_lt, isl_lt_map
<1>4. \A p : p \in next <=> p \in It \X It /\ p[1][in] + 1 = p[2][in]
  <2>1. add_val(var(in), 1) = [x \in It |-> x[in] + 1]
    BY DEF add_val, isl_add, isl_constant, Common
  <2>2. QED
    BY <2>1 DEF map_eq, isl_eq_map
<1> HIDE DEF equal, later, next
<1>5. QED
  BY <1>1, <1>2, <1>3, <1>4 DEF It

\* The iterations that follow each other in the innermost loop, whether all are
\* active or those given are.
LEMMA NextIterationFacts ==
  ASSUME NEW in \in Nat \ {0}, points = AllPoints \/ points \subseteq Iterations(in)
  PROVE  /\ nextIteration(in, points) \subseteq Iterations(in) \X Iterations(in)
         /\ \A x, y \in Iterations(in) :
              <<x, y>> \in nextIteration(in, points) <=> Subsequent(x, y)
<1> DEFINE It == Iterations(in)
           active(z) == points = AllPoints \/ z \in points
<1>1. ASSUME NEW x \in It, NEW y \in It
      PROVE  Subsequent(x, y) <=>
               /\ active(x) /\ active(y) /\ Later(in, x, y)
               /\ ~\E z \in It : active(z) /\ Later(in, x, z) /\ Later(in, z, y)
  BY IterationFacts DEF Subsequent, Later
<1>2. CASE points = AllPoints
  <2> DEFINE next == mapToNext(in, FALSE)
  <2>1. nextIteration(in, points) = next
    BY <1>2 DEF nextIteration
  <2>2. next \subseteq It \X It
    BY MapToNextFacts
  <2>3. ASSUME NEW x \in It, NEW y \in It
        PROVE  <<x, y>> \in next <=> Subsequent(x, y)
    <3>1. <<x, y>> \in next <=> x[in] + 1 = y[in] /\ \A i \in 1..in - 1 : x[i] = y[i]
      BY MapToNextFacts
    <3>2. x[in] \in Int /\ y[in] \in Int /\ x[in] \in Coordinates /\ y[in] \in Coordinates
      BY IterationFacts
    <3>3. ASSUME x[in] + 1 = y[in]
          PROVE  x[in] < y[in] /\ ~\E z \in It : Later(in, x, z) /\ Later(in, z, y)
      <4>1. \A z \in It : z[in] \in Int
        BY IterationFacts
      <4>2. QED
        BY <3>2, <3>3, <4>1 DEF Later
    <3>4. ASSUME Later(in, x, y), x[in] + 1 # y[in]
          PROVE  \E z \in It : Later(in, x, z) /\ Later(in, z, y)
      <4> DEFINE z == [x EXCEPT ![in] = x[in] + 1]
      <4>1. x[in] + 1 \in Coordinates
        <5>1. x[in]..y[in] \subseteq Coordinates
          BY <3>2, WindowAssumption
        <5>2. x[in] + 1 \in x[in]..y[in]
          BY <3>2, <3>4 DEF Later
        <5>3. QED
          BY <5>1, <5>2
      <4>2. z \in It /\ z[in] = x[in] + 1 /\ \A i \in 1..in - 1 : z[i] = x[i]
        BY <4>1 DEF Iterations
      <4> HIDE DEF z
      <4>3. Later(in, x, z) /\ Later(in, z, y)
        BY <3>2, <3>4, <4>2 DEF Later
      <4>4. QED
        BY <4>2, <4>3
    <3>5. Subsequent(x, y) <=>
            Later(in, x, y) /\ ~\E z \in It : Later(in, x, z) /\ Later(in, z, y)
      BY <1>1, <1>2
    <3>6. <<x, y>> \in next => Subsequent(x, y)
      BY <3>1, <3>3, <3>5 DEF Later
    <3>7. Subsequent(x, y) => <<x, y>> \in next
      <4>1. Later(in, x, y) => \A i \in 1..in - 1 : x[i] = y[i]
        BY DEF Later
      <4>2. QED
        BY <3>1, <3>4, <3>5, <4>1
    <3>8. QED
      BY <3>6, <3>7
  <2>4. QED
    BY <2>1, <2>2, <2>3
<1>3. CASE points # AllPoints
  <2> DEFINE next == mapToNext(in, TRUE)
             pairs == {p \in next : p[1] \in points /\ p[2] \in points}
  <2>1. nextIteration(in, points) = lexmin(in, pairs)
    BY <1>3 DEF nextIteration
  <2>2. next \subseteq It \X It
    BY MapToNextFacts
  <2>3. \A x, y \in It : <<x, y>> \in pairs <=> x \in points /\ y \in points /\ Later(in, x, y)
    <3>1. ASSUME NEW x \in It, NEW y \in It
          PROVE  <<x, y>> \in next <=> Later(in, x, y)
      BY MapToNextFacts DEF Later
    <3> HIDE DEF next
    <3>2. QED
      BY <3>1
  <2>4. pairs \subseteq It \X It
    BY <2>2
  <2> HIDE DEF next, pairs
  <2>5. lexmin(in, pairs) \subseteq pairs
    BY DEF lexmin
  <2>6. ASSUME NEW x \in It, NEW y \in It
        PROVE  <<x, y>> \in lexmin(in, pairs) <=> Subsequent(x, y)
    <3>1. <<x, y>> \in lexmin(in, pairs) <=>
            <<x, y>> \in pairs /\ \A z \in It : <<x, z>> \in pairs => y[in] <= z[in]
      <4>1. \A q \in pairs : q = <<q[1], q[2]>> /\ q[2] \in It
        BY <2>4
      <4>2. <<x, y>> \in lexmin(in, pairs) <=>
              <<x, y>> \in pairs /\ \A q \in pairs : x = q[1] => y[in] <= q[2][in]
        BY DEF lexmin
      <4>3. QED
        BY <4>1, <4>2
    <3>2. \A z \in It : z[in] \in Int
      BY IterationFacts
    <3>3. ASSUME Later(in, x, y), NEW z \in It, Later(in, x, z)
          PROVE  Later(in, z, y) <=> ~(y[in] <= z[in])
      BY <3>2, <3>3 DEF Later
    <3>4. Subsequent(x, y) <=>
            /\ x \in points /\ y \in points /\ Later(in, x, y)
            /\ ~\E z \in It : z \in points /\ Later(in, x, z) /\ Later(in, z, y)
      BY <1>1, <1>3
    <3>5. \A z \in It : <<x, z>> \in pairs <=> x \in points /\ z \in points /\ Later(in, x, z)
      BY <2>3
    <3>6. QED
      BY <3>1, <3>3, <3>4, <3>5
  <2>7. QED
    BY <2>1, <2>4, <2>5, <2>6
<1>4. QED
  BY <1>2, <1>3

\* A stride is found exactly if it is the one offset between the elements accessed by
\* iterations that follow each other in the innermost loop.
THEOREM StrideIsOffset == Spec => []StrideIsConstantOffset
<1>1. ASSUME Inv, op = "stride", pc = "done", map.in > 0
      PROVE  StrideIsConstantOffset
  <2> DEFINE next == nextIteration(result.in, points)
             offsets == {q[2][1] - p[2][1] : p \in result.pairs, q \in result.pairs}
             occurs(o) == \E p, q \in result.pairs :
                            Subsequent(p[1], q[1]) /\ q[2][1] - p[2][1] = o
             found == {o \in offsets : occurs(o)}
             delta == deltas(result, next)
  <2>1. /\ RelationType(result) /\ result.in \in Nat \ {0}
        /\ points = AllPoints \/ points \subseteq Iterations(result.in)
        /\ answer = {s \in Strides : strideCandidates(result, s, points)}
    BY <1>1 DEF Inv, Chosen, Progress, Strided, RelationType
  <2>2. \A p \in result.pairs : p[1] \in Iterations(result.in)
    BY <2>1 DEF RelationType
  <2>3. /\ next \subseteq Iterations(result.in) \X Iterations(result.in)
        /\ \A x, y \in Iterations(result.in) : <<x, y>> \in next <=> Subsequent(x, y)
    BY <2>1, NextIterationFacts
  <2>4. \A p, q \in result.pairs : <<p[1], q[1]>> \in next <=> Subsequent(p[1], q[1])
    BY <2>2, <2>3
  <2> HIDE DEF next
  <2>5. delta = found
    <3>1. ASSUME NEW o \in delta
          PROVE  o \in found
      <4>1. PICK n \in next :
              o \in {b[2][1] - a[2][1] : a \in {a \in result.pairs : a[1] = n[1]},
                                         b \in {b \in result.pairs : b[1] = n[2]}}
        BY <3>1 DEF deltas
      <4>2. PICK a \in result.pairs, b \in result.pairs :
              a[1] = n[1] /\ b[1] = n[2] /\ o = b[2][1] - a[2][1]
        BY <4>1
      <4>3. n = <<a[1], b[1]>>
        BY <2>3, <4>2
      <4>4. Subsequent(a[1], b[1])
        BY <2>4, <4>3
      <4>5. QED
        BY <4>2, <4>4
    <3>2. ASSUME NEW o \in found
          PROVE  o \in delta
      <4>1. PICK p \in result.pairs, q \in result.pairs :
              Subsequent(p[1], q[1]) /\ q[2][1] - p[2][1] = o
        BY <3>2
      <4> DEFINE n == <<p[1], q[1]>>
      <4>2. n \in next /\ n[1] = p[1] /\ n[2] = q[1]
        BY <2>4, <4>1
      <4> HIDE DEF n
      <4>3. o \in {b[2][1] - a[2][1] : a \in {a \in result.pairs : a[1] = n[1]},
                                       b \in {b \in result.pairs : b[1] = n[2]}}
        BY <4>1, <4>2
      <4>4. QED
        BY <4>2, <4>3 DEF deltas
    <3> HIDE DEF delta, found
    <3>3. QED
      BY <3>1, <3>2
  <2>6. \A s : strideCandidates(result, s, points) <=> delta = {s}
    <3>1. \A s : strideCandidates(result, s, points) <=> delta # {} /\ delta \subseteq {s}
      BY DEF strideCandidates, next
    <3> HIDE DEF delta
    <3>2. QED
      BY <3>1
  <2> HIDE DEF delta, found
  <2>7. answer = {s \in Strides : found = {s}}
    BY <2>1, <2>5, <2>6
  <2>8. QED
    BY <2>7 DEF StrideIsConstantOffset, found
<1>2. ~(op = "stride" /\ pc = "done" /\ map.in > 0) => StrideIsConstantOffset
  BY DEF StrideIsConstantOffset
<1>3. Inv => StrideIsConstantOffset
  BY <1>1, <1>2
<1>4. QED
  BY <1>3, Invariant, PTL

=============================================================================
