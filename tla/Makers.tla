--------------------------------- MODULE Makers ---------------------------------
(***************************************************************************)
(* The operators on affine functions that islutils offers to clients: the  *)
(* arithmetic of namespace aff_op (aff_op.h) and the sets and relations of *)
(* namespaces set_maker and map_maker (locus-inl.h).                       *)
(*                                                                         *)
(* An isl::aff or isl::pw_aff is a function from the points of its domain  *)
(* to integers.  What is said of aff holds of pw_aff, whose operators have *)
(* the same bodies.  Division, whose values are rational, is left out.     *)
(***************************************************************************)
EXTENDS Integers

\* isl's own: the functions are known to islutils by these only.
Common(f, g) == DOMAIN f \cap DOMAIN g
isl_neg(f) == [x \in DOMAIN f |-> -f[x]]
isl_add(f, g) == [x \in Common(f, g) |-> f[x] + g[x]]
isl_sub(f, g) == [x \in Common(f, g) |-> f[x] - g[x]]
isl_scale(f, v) == [x \in DOMAIN f |-> f[x] * v]
isl_mod(f, v) == [x \in DOMAIN f |-> f[x] % v]
isl_constant(S, v) == [x \in S |-> v]

isl_eq_set(f, g) == {x \in Common(f, g) : f[x] = g[x]}
isl_le_set(f, g) == {x \in Common(f, g) : f[x] <= g[x]}
isl_lt_set(f, g) == {x \in Common(f, g) : f[x] < g[x]}

isl_eq_map(f, g) == {p \in (DOMAIN f) \X (DOMAIN g) : f[p[1]] = g[p[2]]}
isl_lt_map(f, g) == {p \in (DOMAIN f) \X (DOMAIN g) : f[p[1]] < g[p[2]]}
isl_gt_map(f, g) == {p \in (DOMAIN f) \X (DOMAIN g) : f[p[1]] > g[p[2]]}

-----------------------------------------------------------------------------
(* aff_op: between two functions, and between one and a number.            *)

aff_add(f, g) == isl_add(f, g)
aff_sub(f, g) == isl_sub(f, g)
aff_neg(f) == isl_neg(f)

\* f + v and v + f; f - v; v - f; f * v and v * f; f % v.
add_val(f, v) == isl_add(f, isl_constant(DOMAIN f, v))
sub_val(f, v) == add_val(f, -v)
val_sub(v, f) == add_val(aff_neg(f), v)
mul_val(f, v) == isl_scale(f, v)
mod_val(f, v) == isl_mod(f, v)

-----------------------------------------------------------------------------
(* set_maker: the points at which two functions compare.  The operator !=  *)
(* of the code builds what == builds.                                      *)

set_eq(f, g) == isl_eq_set(f, g)
set_ne(f, g) == isl_eq_set(f, g)
set_le(f, g) == isl_le_set(f, g)
set_lt(f, g) == isl_lt_set(f, g)
set_ge(f, g) == isl_le_set(g, f)
set_gt(f, g) == isl_lt_set(g, f)

-----------------------------------------------------------------------------
(* map_maker: pairs of points at which two functions compare.  isl has ==, *)
(* < and > only.                                                           *)

map_eq(f, g) == isl_eq_map(f, g)
map_lt(f, g) == isl_lt_map(f, g)
map_gt(f, g) == isl_gt_map(f, g)

\* A bug: <= is also written as the union of < and >.
LeWithoutEq(f, g) == map_gt(f, g) \cup map_lt(f, g)

map_ne(f, g) == map_gt(f, g) \cup map_lt(f, g)
map_le(f, g) == map_eq(f, g) \cup map_lt(f, g)
map_ge(f, g) == map_eq(f, g) \cup map_gt(f, g)

=============================================================================
