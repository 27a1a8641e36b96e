--------------------------- MODULE MCAccessPatterns ---------------------------
(***************************************************************************)
(* Small instances of AccessPatterns.                                      *)
(***************************************************************************)
EXTENDS AccessPatterns

CONSTANTS p, q

Points(in) == Iterations(in)

\* Iteration domains: all, a triangle, a row, a diagonal, with gaps, one point.
Domains ==
  [in \in 0..2 |->
     IF in = 0 THEN {Points(0)}
     ELSE IF in = 1 THEN {Points(1), {<<0>>, <<2>>}, {<<1>>}}
     ELSE {Points(2), {x \in Points(2) : x[1] <= x[2]}, {x \in Points(2) : x[1] = 1},
           {x \in Points(2) : x[1] = x[2]}, {x \in Points(2) : x[2] # 1}}]

\* Index expressions: of one iterator, of two, constant, and any of two values.
Expressions(in) ==
  {[x \in Points(in) |-> {1}], [x \in Points(in) |-> {0, 1}]} \cup
  {[x \in Points(in) |-> {a * x[i] + c}] : <<a, c>> \in {<<1, 0>>, <<2, 1>>}, i \in 1..in} \cup
  (IF in = 2 THEN {[x \in Points(2) |-> {x[1] + x[2]}],
                   [x \in Points(2) |-> {x[1] * x[2]}]} ELSE {})

Access(in, domain, es) ==
  Relation(in, Len(es),
    {<<x, y>> \in domain \X [DOMAIN es -> Elements] :
       \A d \in DOMAIN es : y[d] \in es[d][x]})

MCAccesses ==
  UNION {{Access(in, d, es) : d \in Domains[in],
            es \in {<<>>} \cup [1..1 -> Expressions(in)] \cup [1..2 -> Expressions(in)]} :
         in \in 0..2}
  \cup {Relation(1, 1, {}),
        Relation(1, 2, {<<<<x>>, <<x, x>>>> : x \in Coordinates}
                       \cup {<<<<x>>, <<0, x>>>> : x \in Coordinates})}

\* X, 2 * X + 1
Written(id) == {placeholder(id), plus(times(2, placeholder(id)), 1)}

MCPatterns ==
  {<<dim(pos, w)>> : pos \in {0, 1, -1, -2, Unset}, w \in Written(p)} \cup
  {access(<<v, w>>) : v \in Written(p), w \in Written(p) \cup Written(q)} \cup
  {<<dim(-1, v), dim(pos, w)>> : pos \in {-2, Unset}, v \in Written(p), w \in Written(q)}

\* X, 2 * X, X + 1
Rewritten(id) == {placeholder(id), times(2, placeholder(id)), plus(minus(placeholder(id), 1), 2)}

MCReplacements ==
  {<<>>} \cup
  {<<dim(pos, w)>> : pos \in {0, 1, -1}, w \in Rewritten(p)} \cup
  {access(<<v, w>>) : v \in {placeholder(q)}, w \in Rewritten(p)} \cup
  {<<dim(0, placeholder(p)), dim(1, w)>> : w \in Rewritten(p)} \cup
  {<<dim(-2, times(2, placeholder(p))), dim(-1, w)>> : w \in Rewritten(q)}

MCActivePoints ==
  UNION {Domains[in] : in \in 0..2}

\* Affine functions on one domain and on a part of it.
MCAffs ==
  {[x \in d |-> a * x[1] + c] :
     d \in {Points(1), {<<0>>, <<2>>}}, a \in {-1, 0, 1, 2}, c \in {-1, 0, 1}}

MCStrides == {-1, 0, 1, 2, 4}

=============================================================================
