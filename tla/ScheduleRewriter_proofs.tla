------------------------ MODULE ScheduleRewriter_proofs ------------------------
(***************************************************************************)
(* Proofs about ScheduleRewriter, for every set of schedule trees and      *)
(* dependences: trees of any depth and width, bands with any number of     *)
(* members.                                                                *)
(***************************************************************************)
EXTENDS ScheduleRewriter, Trees_proofs

(***************************************************************************)
(* What a replacement is made of.                                          *)
(***************************************************************************)
\* A node as subtreeBuilder rebuilds it.
Copied(x) == IF x.type = "band" THEN band(x.members, x.stencil) ELSE x

LEMMA SameNodes ==
  ASSUME NEW s, NEW t, DOMAIN s = DOMAIN t, IsTree(t)
  PROVE  IsTree(s)
BY DEF IsTree

LEMMA CopyFacts ==
  ASSUME NEW t, IsTree(t)
  PROVE  /\ IsTree(copy(t)) /\ DOMAIN copy(t) = DOMAIN t
         /\ \A p \in DOMAIN t : copy(t)[p] = Copied(t[p])
<1> DEFINE s == copy(t)
<1>1. s = [p \in DOMAIN t |-> IF t[p].type = "band"
                              THEN band(t[p].members, t[p].stencil) ELSE t[p]]
  BY DEF copy
<1>2. DOMAIN s = DOMAIN t
  BY <1>1
<1>3. \A p \in DOMAIN t : s[p] = Copied(t[p])
  BY <1>1 DEF Copied
<1> HIDE DEF s
<1>4. IsTree(s)
  BY <1>2, SameNodes
<1>5. QED
  BY <1>2, <1>3, <1>4 DEF s

LEMMA BandFacts ==
  ASSUME NEW members \in Seq([Deps -> Int]), NEW stencil
  PROVE  /\ band(members, stencil).type = "band"
         /\ band(members, stencil).members = members
         /\ band(members, stencil).stencil = stencil
         /\ ~band(members, stencil).permutable
         /\ band(members, stencil).stmts = {}
         /\ Len(band(members, stencil).coincident) = Len(members)
<1>1. Len(members) \in Nat
  BY LenProperties
<1> DEFINE c == [m \in 1..Len(members) |-> FALSE]
<1>2. c \in Seq({FALSE}) /\ Len(c) = Len(members)
  <2>1. c \in [1..Len(members) -> {FALSE}]
    OBVIOUS
  <2>2. c \in Seq({FALSE})
    BY <1>1, <2>1, SeqDef
  <2>3. DOMAIN c = 1..Len(c) /\ Len(c) \in Nat
    BY <2>2, LenProperties
  <2>4. DOMAIN c = 1..Len(members)
    OBVIOUS
  <2>5. QED
    BY <1>1, <2>2, <2>3, <2>4
<1> HIDE DEF c
<1>3. band(members, stencil) = [plain("band", {}) EXCEPT !.members = members,
        !.stencil = stencil, !.coincident = c]
  BY DEF band, c
<1>4. QED
  BY <1>2, <1>3 DEF plain

\* What a node of a schedule tree is, but for its children.
Sensible(x) ==
  /\ x.members \in Seq([Deps -> Int])
  /\ Len(x.coincident) = Len(x.members)
  /\ x.type # "band" => x.members = <<>> /\ ~x.permutable

LEMMA CopiedFacts ==
  ASSUME NEW x, Sensible(x)
  PROVE  /\ Sensible(Copied(x)) /\ ~Copied(x).permutable
         /\ Copied(x).type = x.type /\ Copied(x).members = x.members
         /\ x.type # "band" => Copied(x) = x
         /\ x.type = "band" => Copied(x).stencil = x.stencil
<1>1. CASE x.type = "band"
  <2>1. Copied(x) = band(x.members, x.stencil)
    BY <1>1 DEF Copied
  <2>2. x.members \in Seq([Deps -> Int]) /\ Len(x.coincident) = Len(x.members)
    BY DEF Sensible
  <2> DEFINE y == band(x.members, x.stencil)
  <2>3. /\ y.type = "band" /\ y.members = x.members /\ y.stencil = x.stencil
        /\ ~y.permutable /\ Len(y.coincident) = Len(x.members)
    BY ONLY <2>2, BandFacts
  <2> HIDE DEF y
  <2>4. QED
    BY <1>1, <2>1, <2>2, <2>3 DEF y, Sensible
<1>2. CASE x.type # "band"
  BY <1>2 DEF Copied, Sensible
<1>3. QED
  BY <1>1, <1>2

\* The nodes of r that are not below v are those of t.
KeptOutside(t, v, r) ==
  \A q \in Path : ~IsPrefix(v, q) =>
    (q \in DOMAIN r <=> q \in DOMAIN t) /\ (q \in DOMAIN t => r[q] = t[q])

\* The subtree of t at v \o b is copied to v \o a in r.
Moved(t, v, r, a, b) ==
  \A q \in Path :
    /\ v \o (a \o q) \in DOMAIN r <=> v \o (b \o q) \in DOMAIN t
    /\ v \o (b \o q) \in DOMAIN t => r[v \o (a \o q)] = Copied(t[v \o (b \o q)])

LEMMA SubtreeOfSubtree ==
  ASSUME NEW t, IsTree(t), NEW v \in DOMAIN t, NEW b \in Path, v \o b \in DOMAIN t
  PROVE  LET s == Subtree(Subtree(t, v), b)
         IN  /\ IsTree(s)
             /\ \A q \in Path : /\ q \in DOMAIN s <=> v \o (b \o q) \in DOMAIN t
                                /\ q \in DOMAIN s => s[q] = t[v \o (b \o q)]
<1> DEFINE u == Subtree(t, v)
           s == Subtree(u, b)
<1>1. /\ IsTree(u) /\ \A q \in Path : q \in DOMAIN u <=> v \o q \in DOMAIN t
      /\ \A q \in Path : v \o q \in DOMAIN t => u[q] = t[v \o q]
  BY SubtreeFacts
<1> HIDE DEF u
<1>2. b \in DOMAIN u
  BY <1>1
<1>3. /\ IsTree(s) /\ \A q \in Path : q \in DOMAIN s <=> b \o q \in DOMAIN u
      /\ \A q \in Path : b \o q \in DOMAIN u => s[q] = u[b \o q]
  BY <1>1, <1>2, SubtreeFacts
<1> HIDE DEF s
<1>4. \A q \in Path : b \o q \in Path
  BY ConcatPath
<1>5. QED
  BY <1>1, <1>3, <1>4 DEF s, u

\* A band in place of another, above a copy of what is at b below it.
LEMMA BandReplaced ==
  ASSUME NEW t, IsTree(t), NEW v \in DOMAIN t, NEW b \in Path, v \o b \in DOMAIN t,
         NEW x, NEW r,
         r = Replace(t, v, Node(x, <<copy(Subtree(Subtree(t, v), b))>>))
  PROVE  /\ IsTree(r) /\ v \in DOMAIN r /\ r[v] = x
         /\ KeptOutside(t, v, r) /\ Moved(t, v, r, <<1>>, b)
         /\ \A q \in DOMAIN r : IsPrefix(v, q) =>
              q = v \/ \E u \in Path : q = v \o (<<1>> \o u)
<1> DEFINE k == copy(Subtree(Subtree(t, v), b))
           kids == <<k>>
           n == Node(x, kids)
<1>1. v \in Path
  BY DEF IsTree
<1>2. /\ IsTree(k)
      /\ \A q \in Path : /\ q \in DOMAIN k <=> v \o (b \o q) \in DOMAIN t
                         /\ q \in DOMAIN k => k[q] = Copied(t[v \o (b \o q)])
  <2> DEFINE s == Subtree(Subtree(t, v), b)
  <2>1. /\ IsTree(s)
        /\ \A q \in Path : /\ q \in DOMAIN s <=> v \o (b \o q) \in DOMAIN t
                           /\ q \in DOMAIN s => s[q] = t[v \o (b \o q)]
    BY SubtreeOfSubtree
  <2> HIDE DEF s
  <2>2. /\ IsTree(copy(s)) /\ DOMAIN copy(s) = DOMAIN s
        /\ \A q \in DOMAIN s : copy(s)[q] = Copied(s[q])
    BY <2>1, CopyFacts
  <2>3. k = copy(s)
    BY DEF s
  <2> HIDE DEF k
  <2>4. QED
    BY <2>1, <2>2, <2>3
<1> HIDE DEF k
<1>3. DOMAIN kids = 1..1 /\ \A j \in 1..1 : kids[j] = k
  OBVIOUS
<1>4. \A j \in 1..1 : IsTree(kids[j])
  BY <1>2, <1>3
<1> HIDE DEF kids
<1>5. /\ IsTree(n) /\ <<>> \in DOMAIN n /\ n[<<>>] = x
      /\ \A j \in Nat \ {0} : \A p \in Path :
           /\ <<j>> \o p \in DOMAIN n <=> j <= 1 /\ p \in DOMAIN kids[j]
           /\ j <= 1 /\ p \in DOMAIN kids[j] => n[<<j>> \o p] = kids[j][p]
  <2>1. Len(kids) = 1 /\ Len(kids) \in Nat
    BY DEF kids
  <2>2. DOMAIN kids = 1..Len(kids) /\ \A j \in 1..Len(kids) : IsTree(kids[j])
    BY <1>3, <1>4, <2>1
  <2>3. /\ IsTree(n) /\ <<>> \in DOMAIN n /\ n[<<>>] = x
        /\ \A j \in Nat \ {0} : \A p \in Path :
             /\ <<j>> \o p \in DOMAIN n <=> j <= Len(kids) /\ p \in DOMAIN kids[j]
             /\ j <= Len(kids) /\ p \in DOMAIN kids[j] => n[<<j>> \o p] = kids[j][p]
    BY ONLY <2>1, <2>2, NodeFacts DEF n
  <2>4. QED
    BY <2>1, <2>3
<1> HIDE DEF n
<1>6. \A p \in Path : /\ <<1>> \o p \in DOMAIN n <=> p \in DOMAIN k
                      /\ p \in DOMAIN k => n[<<1>> \o p] = k[p]
  BY <1>3, <1>5
<1>7. r = Replace(t, v, n)
  BY DEF n, kids, k
<1>8. /\ IsTree(r) /\ KeptOutside(t, v, r)
      /\ \A q \in Path : /\ v \o q \in DOMAIN r <=> q \in DOMAIN n
                         /\ q \in DOMAIN n => r[v \o q] = n[q]
  <2>1. IsTree(n)
    BY <1>5
  <2>2. /\ IsTree(r)
        /\ \A q \in Path : ~IsPrefix(v, q) =>
             /\ q \in DOMAIN r <=> q \in DOMAIN t
             /\ q \in DOMAIN t => r[q] = t[q]
        /\ \A q \in Path : /\ v \o q \in DOMAIN r <=> q \in DOMAIN n
                           /\ q \in DOMAIN n => r[v \o q] = n[q]
    BY ONLY IsTree(t), v \in DOMAIN t, <1>7, <2>1, ReplaceFacts
  <2>3. KeptOutside(t, v, r)
    BY <2>2 DEF KeptOutside
  <2>4. QED
    BY <2>2, <2>3
<1>9. v \in DOMAIN r /\ r[v] = x
  <2>1. v \o <<>> = v /\ <<>> \in Path
    BY <1>1, EmptyPath
  <2>2. QED
    BY <1>5, <1>8, <2>1
<1>10. Moved(t, v, r, <<1>>, b)
  <2>1. ASSUME NEW q \in Path
        PROVE  /\ v \o (<<1>> \o q) \in DOMAIN r <=> v \o (b \o q) \in DOMAIN t
               /\ v \o (b \o q) \in DOMAIN t =>
                    r[v \o (<<1>> \o q)] = Copied(t[v \o (b \o q)])
    <3>1. <<1>> \o q \in Path
      BY FirstStep
    <3>2. QED
      BY <1>2, <1>6, <1>8, <3>1
  <2>2. QED
    BY <2>1 DEF Moved
<1>11. ASSUME NEW q \in DOMAIN r, IsPrefix(v, q)
       PROVE  q = v \/ \E u \in Path : q = v \o (<<1>> \o u)
  <2>1. q \in Path
    BY <1>8 DEF IsTree
  <2>2. PICK w \in Path : q = v \o w
    BY <1>1, <1>11, <2>1, RestOfPath
  <2>3. w \in DOMAIN n
    BY <1>8, <2>2
  <2>4. CASE w = <<>>
    BY <1>1, <2>2, <2>4, EmptyPath
  <2>5. CASE w # <<>>
    <3>1. PICK j \in Nat \ {0}, u \in Path : w = <<j>> \o u
      BY <2>5, FirstStep
    <3>2. j = 1
      BY <1>5, <2>3, <3>1
    <3>3. QED
      BY <2>2, <3>1, <3>2
  <2>6. QED
    BY <2>4, <2>5
<1>12. QED
  BY <1>8, <1>9, <1>10, <1>11

-----------------------------------------------------------------------------
(***************************************************************************)
(* The replacement of the layout transformation.                           *)
(***************************************************************************)
LEMMA OneChildNode ==
  ASSUME NEW x, NEW k, IsTree(k)
  PROVE  /\ IsTree(Node(x, <<k>>))
         /\ <<>> \in DOMAIN Node(x, <<k>>) /\ Node(x, <<k>>)[<<>>] = x
         /\ \A p \in Path : <<1>> \o p \in DOMAIN Node(x, <<k>>) <=> p \in DOMAIN k
         /\ \A p \in DOMAIN k : Node(x, <<k>>)[<<1>> \o p] = k[p]
         /\ \A q \in DOMAIN Node(x, <<k>>) :
              q = <<>> \/ \E p \in DOMAIN k : q = <<1>> \o p
<1> DEFINE kids == <<k>>
           n == Node(x, kids)
<1>1. Len(kids) = 1 /\ Len(kids) \in Nat /\ DOMAIN kids = 1..Len(kids) /\ kids[1] = k
  OBVIOUS
<1>2. \A j \in 1..Len(kids) : IsTree(kids[j])
  BY <1>1
<1> HIDE DEF kids
<1>3. /\ IsTree(n) /\ <<>> \in DOMAIN n /\ n[<<>>] = x
      /\ \A j \in Nat \ {0} : \A p \in Path :
           /\ <<j>> \o p \in DOMAIN n <=> j <= Len(kids) /\ p \in DOMAIN kids[j]
           /\ j <= Len(kids) /\ p \in DOMAIN kids[j] => n[<<j>> \o p] = kids[j][p]
  BY ONLY <1>1, <1>2, NodeFacts
<1> HIDE DEF n
<1>4. \A p \in Path : /\ <<1>> \o p \in DOMAIN n <=> p \in DOMAIN k
                      /\ p \in DOMAIN k => n[<<1>> \o p] = k[p]
  BY ONLY <1>1, <1>3
<1>5. DOMAIN k \subseteq Path /\ DOMAIN n \subseteq Path
  BY <1>3 DEF IsTree
<1>6. ASSUME NEW q \in DOMAIN n, q # <<>> PROVE \E p \in DOMAIN k : q = <<1>> \o p
  <2>1. PICK j \in Nat \ {0}, p \in Path : q = <<j>> \o p
    BY <1>5, <1>6, FirstStep
  <2>2. j = 1
    BY ONLY <1>1, <1>3, <1>6, <2>1
  <2>3. QED
    BY <1>4, <1>6, <2>1, <2>2
<1>7. QED
  BY <1>3, <1>4, <1>5, <1>6 DEF n, kids

LEMMA LeafFacts ==
  IsTree(Leaf) /\ DOMAIN Leaf = {<<>>} /\ Leaf[<<>>] = plain("leaf", {})
<1> DEFINE kids == <<>>
           x == plain("leaf", {})
           n == Node(x, kids)
<1>1. Len(kids) = 0 /\ Len(kids) \in Nat /\ DOMAIN kids = 1..Len(kids)
  OBVIOUS
<1>2. \A j \in 1..Len(kids) : IsTree(kids[j])
  OBVIOUS
<1> HIDE DEF kids, x
<1>3. /\ IsTree(n) /\ <<>> \in DOMAIN n /\ n[<<>>] = x
      /\ \A j \in Nat \ {0} : \A p \in Path :
           /\ <<j>> \o p \in DOMAIN n <=> j <= Len(kids) /\ p \in DOMAIN kids[j]
           /\ j <= Len(kids) /\ p \in DOMAIN kids[j] => n[<<j>> \o p] = kids[j][p]
  BY ONLY <1>1, <1>2, NodeFacts
<1> HIDE DEF n
<1>4. ASSUME NEW q \in DOMAIN n PROVE q = <<>>
  <2>1. q \in Path
    BY <1>3 DEF IsTree
  <2>2. ASSUME q # <<>> PROVE FALSE
    <3>1. PICK j \in Nat \ {0}, p \in Path : q = <<j>> \o p
      BY <2>1, <2>2, FirstStep
    <3>2. j <= 0
      BY ONLY <1>1, <1>3, <1>4, <3>1
    <3>3. QED
      BY <3>2
  <2>3. QED
    BY <2>2
<1>5. DOMAIN n = {<<>>}
  BY <1>3, <1>4
<1>6. QED
  BY <1>3, <1>5 DEF Leaf, n, kids, x

Zero == <<[d \in Deps |-> 0]>>

LEMMA ZeroFacts ==
  Zero \in Seq([Deps -> Int]) /\ Len(Zero) = 1 /\ \A d \in Deps : Zero[1][d] = 0
<1>1. [d \in Deps |-> 0] \in [Deps -> Int]
  OBVIOUS
<1>2. QED
  BY <1>1 DEF Zero

LEMMA ZeroBand ==
  /\ band(Zero, FALSE).type = "band" /\ band(Zero, FALSE).members = Zero
  /\ ~band(Zero, FALSE).stencil /\ ~band(Zero, FALSE).permutable
  /\ band(Zero, FALSE).stmts = {}
  /\ Len(band(Zero, FALSE).coincident) = Len(Zero)
<1> DEFINE no == FALSE
           b == band(Zero, no)
<1>1. no = FALSE
  OBVIOUS
<1> HIDE DEF no
<1>2. /\ b.type = "band" /\ b.members = Zero /\ b.stencil = no /\ ~b.permutable
      /\ b.stmts = {} /\ Len(b.coincident) = Len(Zero)
  BY ONLY ZeroFacts, BandFacts
<1>3. QED
  BY <1>1, <1>2

\* A copy to the new layout or back.
Move(s) == Node(plain("filter", {s}), <<Node(band(Zero, FALSE), <<Leaf>>)>>)

LEMMA MoveFacts ==
  ASSUME NEW s
  PROVE  /\ IsTree(Move(s))
         /\ DOMAIN Move(s) = {<<>>, <<1>>, <<1>> \o <<1>>}
         /\ Move(s)[<<>>] = plain("filter", {s})
         /\ Move(s)[<<1>>] = band(Zero, FALSE)
         /\ Move(s)[<<1>> \o <<1>>] = plain("leaf", {})
<1> DEFINE f == plain("filter", {s})
           b == band(Zero, FALSE)
           inner == Node(b, <<Leaf>>)
           m == Node(f, <<inner>>)
<1>1. <<1>> \in Path /\ <<>> \in Path /\ <<1>> \o <<>> = <<1>>
  BY StepPath, EmptyPath
<1> HIDE DEF f, b
<1>2. /\ IsTree(inner) /\ <<>> \in DOMAIN inner /\ inner[<<>>] = b
      /\ \A p \in Path : <<1>> \o p \in DOMAIN inner <=> p \in DOMAIN Leaf
      /\ \A p \in DOMAIN Leaf : inner[<<1>> \o p] = Leaf[p]
      /\ \A q \in DOMAIN inner : q = <<>> \/ \E p \in DOMAIN Leaf : q = <<1>> \o p
  BY ONLY LeafFacts, OneChildNode
<1> HIDE DEF inner
<1>3. DOMAIN inner = {<<>>, <<1>>} /\ inner[<<1>>] = plain("leaf", {})
  <2>1. DOMAIN Leaf = {<<>>} /\ Leaf[<<>>] = plain("leaf", {})
    BY LeafFacts
  <2>2. inner[<<1>> \o <<>>] = Leaf[<<>>]
    BY ONLY <1>2, <2>1
  <2>3. <<1>> \o <<>> \in DOMAIN inner
    BY ONLY <1>1, <1>2, <2>1
  <2>4. \A q \in DOMAIN inner : q = <<>> \/ q = <<1>> \o <<>>
    BY ONLY <1>2, <2>1
  <2>5. <<1>> \o <<>> = <<1>> /\ <<>> \in DOMAIN inner
    BY <1>1, <1>2
  <2>6. DOMAIN inner = {<<>>, <<1>>}
    BY ONLY <2>3, <2>4, <2>5
  <2>7. QED
    BY ONLY <2>1, <2>2, <2>5, <2>6
<1>4. /\ IsTree(m) /\ <<>> \in DOMAIN m /\ m[<<>>] = f
      /\ \A p \in Path : <<1>> \o p \in DOMAIN m <=> p \in DOMAIN inner
      /\ \A p \in DOMAIN inner : m[<<1>> \o p] = inner[p]
      /\ \A q \in DOMAIN m : q = <<>> \/ \E p \in DOMAIN inner : q = <<1>> \o p
  BY ONLY <1>2, OneChildNode
<1> HIDE DEF m
<1>5. DOMAIN m = {<<>>, <<1>>, <<1>> \o <<1>>}
  <2>1. <<1>> \o <<>> \in DOMAIN m /\ <<1>> \o <<1>> \in DOMAIN m
    BY <1>1, <1>3, <1>4
  <2>2. \A q \in DOMAIN m : q = <<>> \/ q = <<1>> \o <<>> \/ q = <<1>> \o <<1>>
    BY <1>3, <1>4
  <2>3. QED
    BY <1>1, <1>4, <2>1, <2>2
<1>6. m[<<1>>] = b /\ m[<<1>> \o <<1>>] = plain("leaf", {})
  BY <1>1, <1>2, <1>3, <1>4
<1>7. QED
  BY <1>4, <1>5, <1>6 DEF Move, m, inner, f, b

\* The place of the computation in the replacement.
Within3 == <<1>> \o (<<2>> \o <<1>>)

\* What the replacement a of the band of t looks like.
AroundLooks(a, t, core) ==
  /\ IsTree(a)
  /\ <<>> \in DOMAIN a
  /\ a[<<>>] = plain("extension", New)
  /\ <<1>> \in DOMAIN a
  /\ a[<<1>>] = plain("sequence", {})
  /\ \A j \in Nat \ {0} : \A p \in Path :
       /\ j \in {1, 3} =>
            (<<1>> \o (<<j>> \o p) \in DOMAIN a
               <=> p \in {<<>>, <<1>>, <<1>> \o <<1>>})
       /\ j \in {1, 3} /\ p \in {<<>>, <<1>>, <<1>> \o <<1>>} =>
            \E s \in New : a[<<1>> \o (<<j>> \o p)] = Move(s)[p]
       /\ j \notin {1, 2, 3} =>
            <<1>> \o (<<j>> \o p) \notin DOMAIN a
  /\ <<1>> \o <<2>> \in DOMAIN a
  /\ a[<<1>> \o <<2>>] = plain("filter", core)
  /\ \A p \in Path :
       /\ Within3 \o p \in DOMAIN a <=> p \in DOMAIN t
       /\ p \in DOMAIN t => a[Within3 \o p] = Copied(t[p])
  /\ \A q \in DOMAIN a :
       \/ q \in {<<>>, <<1>>, <<1>> \o <<2>>}
       \/ \E p \in Path : q = Within3 \o p
       \/ \E j \in {1, 3} : \E p \in Path : q = <<1>> \o (<<j>> \o p)

LEMMA AroundFacts ==
  ASSUME NEW t, IsTree(t), NEW core, NEW a, a = aroundBand(t, core)
  PROVE  AroundLooks(a, t, core)
<1> DEFINE f == plain("filter", core)
           e == plain("extension", New)
           x == plain("sequence", {})
           k == copy(t)
           inner == Node(f, <<k>>)
           m1 == Move("to")
           m3 == Move("from")
           kids == <<m1, inner, m3>>
           s == Node(x, kids)
           n == Node(e, <<s>>)
<1>0. a = n
  BY DEF aroundBand, Move, Zero
<1>1. /\ IsTree(k) /\ DOMAIN k = DOMAIN t /\ \A p \in DOMAIN t : k[p] = Copied(t[p])
      /\ DOMAIN k \subseteq Path
  BY CopyFacts DEF IsTree
<1> HIDE DEF k, f, e, x
<1>2. /\ IsTree(inner) /\ <<>> \in DOMAIN inner /\ inner[<<>>] = f
      /\ \A p \in Path : <<1>> \o p \in DOMAIN inner <=> p \in DOMAIN k
      /\ \A p \in DOMAIN k : inner[<<1>> \o p] = k[p]
      /\ \A q \in DOMAIN inner : q = <<>> \/ \E p \in DOMAIN k : q = <<1>> \o p
  BY ONLY <1>1, OneChildNode
<1>3. /\ IsTree(m1) /\ DOMAIN m1 = {<<>>, <<1>>, <<1>> \o <<1>>}
      /\ IsTree(m3) /\ DOMAIN m3 = {<<>>, <<1>>, <<1>> \o <<1>>}
  BY MoveFacts
<1> HIDE DEF inner, m1, m3
<1>4. /\ Len(kids) = 3 /\ Len(kids) \in Nat /\ DOMAIN kids = 1..Len(kids)
      /\ kids[1] = m1 /\ kids[2] = inner /\ kids[3] = m3
  OBVIOUS
<1> HIDE DEF kids
<1>5. \A j \in 1..Len(kids) : IsTree(kids[j])
  BY <1>2, <1>3, <1>4
<1>6. /\ IsTree(s) /\ <<>> \in DOMAIN s /\ s[<<>>] = x
      /\ \A j \in Nat \ {0} : \A p \in Path :
           /\ <<j>> \o p \in DOMAIN s <=> j <= Len(kids) /\ p \in DOMAIN kids[j]
           /\ j <= Len(kids) /\ p \in DOMAIN kids[j] => s[<<j>> \o p] = kids[j][p]
  BY ONLY <1>4, <1>5, NodeFacts
<1> HIDE DEF s
<1>7. /\ IsTree(a) /\ <<>> \in DOMAIN a /\ a[<<>>] = e
      /\ \A p \in Path : <<1>> \o p \in DOMAIN a <=> p \in DOMAIN s
      /\ \A p \in DOMAIN s : a[<<1>> \o p] = s[p]
      /\ \A q \in DOMAIN a : q = <<>> \/ \E p \in DOMAIN s : q = <<1>> \o p
  <2>1. /\ IsTree(n) /\ <<>> \in DOMAIN n /\ n[<<>>] = e
        /\ \A p \in Path : <<1>> \o p \in DOMAIN n <=> p \in DOMAIN s
        /\ \A p \in DOMAIN s : n[<<1>> \o p] = s[p]
        /\ \A q \in DOMAIN n : q = <<>> \/ \E p \in DOMAIN s : q = <<1>> \o p
    BY ONLY <1>6, OneChildNode
  <2> HIDE DEF n
  <2>2. QED
    BY ONLY <1>0, <2>1
<1> HIDE DEF n
<1>8. /\ <<>> \in Path /\ <<1>> \in Path /\ <<2>> \in Path /\ <<2>> \o <<1>> \in Path
      /\ <<1>> \o <<>> = <<1>> /\ <<2>> \o <<>> = <<2>>
  BY StepPath, EmptyPath, ConcatPath
<1>9. <<1>> \in DOMAIN a /\ a[<<1>>] = x
  BY <1>6, <1>7, <1>8
<1>10. ASSUME NEW j \in Nat \ {0}, NEW p \in Path
       PROVE  /\ <<1>> \o (<<j>> \o p) \in DOMAIN a <=> j <= 3 /\ p \in DOMAIN kids[j]
              /\ j <= 3 /\ p \in DOMAIN kids[j] => a[<<1>> \o (<<j>> \o p)] = kids[j][p]
  <2>1. <<j>> \o p \in Path
    BY FirstStep
  <2>2. /\ <<j>> \o p \in DOMAIN s <=> j <= 3 /\ p \in DOMAIN kids[j]
        /\ j <= 3 /\ p \in DOMAIN kids[j] => s[<<j>> \o p] = kids[j][p]
    BY ONLY <1>4, <1>6, j \in Nat \ {0}, p \in Path
  <2>3. QED
    BY <1>7, <2>1, <2>2
<1>11. ASSUME NEW j \in Nat \ {0}, NEW p \in Path
       PROVE  /\ j \in {1, 3} => (<<1>> \o (<<j>> \o p) \in DOMAIN a
                                    <=> p \in {<<>>, <<1>>, <<1>> \o <<1>>})
              /\ j \in {1, 3} /\ p \in {<<>>, <<1>>, <<1>> \o <<1>>} =>
                   \E y \in New : a[<<1>> \o (<<j>> \o p)] = Move(y)[p]
              /\ j \notin {1, 2, 3} => <<1>> \o (<<j>> \o p) \notin DOMAIN a
  <2>1. CASE j = 1
    <3>1. "to" \in New
      BY DEF New
    <3>2. QED
      BY <1>3, <1>4, <1>10, <2>1, <3>1 DEF m1
  <2>2. CASE j = 3
    <3>1. "from" \in New
      BY DEF New
    <3>2. QED
      BY <1>3, <1>4, <1>10, <2>2, <3>1 DEF m3
  <2>3. CASE j \notin {1, 3}
    <3>1. j \notin {1, 2, 3} => ~(j <= 3)
      OBVIOUS
    <3>2. QED
      BY <1>10, <2>3, <3>1
  <2>4. QED
    BY <2>1, <2>2, <2>3
<1>12. <<1>> \o <<2>> \in DOMAIN a /\ a[<<1>> \o <<2>>] = f
  <2>1. /\ <<1>> \o (<<2>> \o <<>>) \in DOMAIN a
        /\ a[<<1>> \o (<<2>> \o <<>>)] = kids[2][<<>>]
    <3>1. 2 \in Nat \ {0} /\ 2 <= 3 /\ <<>> \in DOMAIN kids[2]
      BY <1>2, <1>4
    <3>2. QED
      BY <1>8, <1>10, <3>1
  <2>2. QED
    BY <1>2, <1>4, <1>8, <2>1
<1>13. ASSUME NEW p \in Path
       PROVE  /\ Within3 \o p = <<1>> \o (<<2>> \o (<<1>> \o p))
              /\ Within3 \o p \in DOMAIN a <=> p \in DOMAIN t
              /\ p \in DOMAIN t => a[Within3 \o p] = Copied(t[p])
  <2>1. <<1>> \o p \in Path
    BY FirstStep
  <2>2. Within3 \o p = <<1>> \o (<<2>> \o (<<1>> \o p))
    <3>1. (<<1>> \o (<<2>> \o <<1>>)) \o p = <<1>> \o ((<<2>> \o <<1>>) \o p)
      BY <1>8, ConcatAgain
    <3>2. (<<2>> \o <<1>>) \o p = <<2>> \o (<<1>> \o p)
      BY <1>8, ConcatAgain
    <3>3. QED
      BY <3>1, <3>2 DEF Within3
  <2>3. /\ <<1>> \o (<<2>> \o (<<1>> \o p)) \in DOMAIN a <=> <<1>> \o p \in DOMAIN inner
        /\ <<1>> \o p \in DOMAIN inner =>
             a[<<1>> \o (<<2>> \o (<<1>> \o p))] = inner[<<1>> \o p]
    BY <1>4, <1>10, <2>1
  <2>4. QED
    BY <1>1, <1>2, <2>2, <2>3
<1>14. ASSUME NEW q \in DOMAIN a
       PROVE  \/ q \in {<<>>, <<1>>, <<1>> \o <<2>>}
              \/ \E p \in Path : q = Within3 \o p
              \/ \E j \in {1, 3} : \E p \in Path : q = <<1>> \o (<<j>> \o p)
  <2> DEFINE top == {<<>>, <<1>>}
  <2>1. SUFFICES ASSUME q \notin top PROVE
              \/ q = <<1>> \o <<2>>
              \/ \E p \in Path : q = Within3 \o p
              \/ \E j \in {1, 3} : \E p \in Path : q = <<1>> \o (<<j>> \o p)
    OBVIOUS
  <2>2. PICK w \in DOMAIN s : q = <<1>> \o w
    BY <1>7, <2>1
  <2>3. w \in Path /\ w # <<>>
    BY <1>6, <1>8, <2>1, <2>2 DEF IsTree
  <2>4. PICK j \in Nat \ {0}, p \in Path : w = <<j>> \o p
    BY <2>3, FirstStep
  <2>5. j <= 3 /\ p \in DOMAIN kids[j]
    BY <1>4, <1>6, <2>2, <2>4
  <2>6. CASE j = 2
    <3>1. p \in DOMAIN inner
      BY <1>4, <2>5, <2>6
    <3>2. CASE p = <<>>
      BY <1>8, <2>2, <2>4, <2>6, <3>2
    <3>3. CASE p # <<>>
      <4>1. PICK u \in DOMAIN k : p = <<1>> \o u
        BY <1>2, <3>1, <3>3
      <4>2. QED
        BY <1>1, <1>13, <2>2, <2>4, <2>6, <4>1
    <3>4. QED
      BY <3>2, <3>3
  <2>7. CASE j # 2
    <3>1. j \in {1, 3}
      BY <2>4, <2>5, <2>7
    <3>2. QED
      BY <2>2, <2>4, <3>1
  <2>8. QED
    BY <2>6, <2>7
<1>15. /\ IsTree(a) /\ <<>> \in DOMAIN a /\ a[<<>>] = plain("extension", New)
       /\ <<1>> \in DOMAIN a /\ a[<<1>>] = plain("sequence", {})
       /\ <<1>> \o <<2>> \in DOMAIN a /\ a[<<1>> \o <<2>>] = plain("filter", core)
  BY ONLY <1>7, <1>9, <1>12 DEF e, x, f
<1>16. QED
  BY ONLY <1>11, <1>13, <1>14, <1>15 DEF AroundLooks

\* The nodes of the replacement around v: the sequence, its i-th filter, and the
\* band and leaf below it.
Seq1(v) == Append(v, 1)
Part(v, j) == Append(Append(v, 1), j)
PartBand(v, j) == Append(Part(v, j), 1)
PartLeaf(v, j) == Append(PartBand(v, j), 1)

LEMMA PartPaths ==
  ASSUME NEW v \in Path, NEW j \in Nat \ {0}
  PROVE  /\ Seq1(v) \in Path /\ Part(v, j) \in Path
         /\ PartBand(v, j) \in Path /\ PartLeaf(v, j) \in Path
         /\ v \o <<1>> = Seq1(v)
         /\ \A p \in Path : v \o (<<1>> \o (<<j>> \o p)) = Part(v, j) \o p
         /\ Part(v, j) \o <<>> = Part(v, j)
         /\ Part(v, j) \o <<1>> = PartBand(v, j)
         /\ Part(v, j) \o (<<1>> \o <<1>>) = PartLeaf(v, j)
         /\ v \o (<<1>> \o <<j>>) = Part(v, j)
<1>1. Seq1(v) \in Path /\ v \o <<1>> = Seq1(v)
  BY AppendPath, AppendIsStep DEF Seq1
<1>2. Part(v, j) \in Path /\ Part(v, j) = Append(Seq1(v), j)
  BY <1>1, AppendPath DEF Seq1, Part
<1>3. PartBand(v, j) \in Path /\ Part(v, j) \o <<1>> = PartBand(v, j)
  BY <1>2, AppendPath, AppendIsStep DEF PartBand
<1>4. PartLeaf(v, j) \in Path /\ PartBand(v, j) \o <<1>> = PartLeaf(v, j)
  BY <1>3, AppendPath, AppendIsStep DEF PartLeaf
<1>5. ASSUME NEW p \in Path
      PROVE  v \o (<<1>> \o (<<j>> \o p)) = Part(v, j) \o p
  <2>1. <<j>> \o p \in Path
    BY FirstStep
  <2>2. v \o (<<1>> \o (<<j>> \o p)) = Seq1(v) \o (<<j>> \o p)
    BY <2>1, StepOfConcat DEF Seq1
  <2>3. Seq1(v) \o (<<j>> \o p) = Append(Seq1(v), j) \o p
    BY <1>1, StepOfConcat
  <2>4. QED
    BY <1>2, <2>2, <2>3
<1>6. Part(v, j) \o (<<1>> \o <<1>>) = PartLeaf(v, j)
  <2>1. <<1>> \in Path
    BY StepPath
  <2>2. Part(v, j) \o (<<1>> \o <<1>>) = (Part(v, j) \o <<1>>) \o <<1>>
    BY <1>2, <2>1, ConcatAgain
  <2>3. QED
    BY <1>3, <1>4, <2>2
<1>7. v \o (<<1>> \o <<j>>) = Part(v, j)
  <2>1. <<j>> \in Path /\ <<>> \in Path /\ <<j>> \o <<>> = <<j>>
    BY StepPath, EmptyPath
  <2>2. v \o (<<1>> \o (<<j>> \o <<>>)) = Part(v, j) \o <<>>
    BY <1>5, <2>1
  <2>3. QED
    BY <1>2, <2>1, <2>2, EmptyPath
<1>8. QED
  BY <1>1, <1>2, <1>3, <1>4, <1>5, <1>6, <1>7, EmptyPath

\* What the tree r is in which the band at v of t has been wrapped.
LayoutLooks(t, v, core, r) ==
  /\ IsTree(r) /\ KeptOutside(t, v, r) /\ Moved(t, v, r, Within3, <<>>)
  /\ v \in DOMAIN r /\ r[v] = plain("extension", New)
  /\ Seq1(v) \in DOMAIN r /\ r[Seq1(v)] = plain("sequence", {})
  /\ Part(v, 2) \in DOMAIN r /\ r[Part(v, 2)] = plain("filter", core)
  /\ \A j \in {1, 3} :
       /\ Part(v, j) \in DOMAIN r
       /\ \E s \in New : r[Part(v, j)] = plain("filter", {s})
       /\ PartBand(v, j) \in DOMAIN r /\ r[PartBand(v, j)] = band(Zero, FALSE)
       /\ PartLeaf(v, j) \in DOMAIN r /\ r[PartLeaf(v, j)] = plain("leaf", {})
       /\ \A p \in Path : Part(v, j) \o p \in DOMAIN r
                            <=> p \in {<<>>, <<1>>, <<1>> \o <<1>>}
  /\ \A q \in DOMAIN r : IsPrefix(v, q) =>
       \/ q \in {v, Seq1(v), Part(v, 2)}
       \/ \E u \in Path : q = v \o (Within3 \o u)
       \/ \E j \in {1, 3} : q \in {Part(v, j), PartBand(v, j), PartLeaf(v, j)}

LEMMA LayoutReplaced ==
  ASSUME NEW t, IsTree(t), NEW v \in DOMAIN t, NEW core, NEW r,
         r = Replace(t, v, aroundBand(Subtree(t, v), core))
  PROVE  LayoutLooks(t, v, core, r)
<1> DEFINE u == Subtree(t, v)
           a == aroundBand(u, core)
<1>1. v \in Path
  BY DEF IsTree
<1>2. /\ IsTree(u)
      /\ \A q \in Path : q \in DOMAIN u <=> v \o q \in DOMAIN t
      /\ \A q \in Path : v \o q \in DOMAIN t => u[q] = t[v \o q]
  BY SubtreeFacts
<1> HIDE DEF u
<1>0. a = aroundBand(u, core)
  OBVIOUS
<1>4. r = Replace(t, v, a)
  BY DEF u
<1> HIDE DEF a
<1>3. /\ IsTree(a) /\ <<>> \in DOMAIN a /\ a[<<>>] = plain("extension", New)
      /\ <<1>> \in DOMAIN a /\ a[<<1>>] = plain("sequence", {})
      /\ \A j \in Nat \ {0} : \A p \in Path :
           /\ j \in {1, 3} => (<<1>> \o (<<j>> \o p) \in DOMAIN a
                                 <=> p \in {<<>>, <<1>>, <<1>> \o <<1>>})
           /\ j \in {1, 3} /\ p \in {<<>>, <<1>>, <<1>> \o <<1>>} =>
                \E s \in New : a[<<1>> \o (<<j>> \o p)] = Move(s)[p]
           /\ j \notin {1, 2, 3} => <<1>> \o (<<j>> \o p) \notin DOMAIN a
      /\ <<1>> \o <<2>> \in DOMAIN a /\ a[<<1>> \o <<2>>] = plain("filter", core)
      /\ \A p \in Path : /\ Within3 \o p \in DOMAIN a <=> p \in DOMAIN u
                         /\ p \in DOMAIN u => a[Within3 \o p] = Copied(u[p])
      /\ \A q \in DOMAIN a :
              \/ q \in {<<>>, <<1>>, <<1>> \o <<2>>}
              \/ \E p \in Path : q = Within3 \o p
              \/ \E j \in {1, 3} : \E p \in Path : q = <<1>> \o (<<j>> \o p)
  <2>1. IsTree(u)
    BY <1>2
  <2>2. AroundLooks(a, u, core)
    BY ONLY <1>0, <2>1, AroundFacts
  <2>3. QED
    BY ONLY <2>2 DEF AroundLooks
<1>5. /\ IsTree(r)
      /\ \A q \in Path : ~IsPrefix(v, q) =>
           /\ q \in DOMAIN r <=> q \in DOMAIN t
           /\ q \in DOMAIN t => r[q] = t[q]
      /\ \A q \in Path : /\ v \o q \in DOMAIN r <=> q \in DOMAIN a
                         /\ q \in DOMAIN a => r[v \o q] = a[q]
  BY ONLY IsTree(t), v \in DOMAIN t, <1>3, <1>4, ReplaceFacts
<1>6. KeptOutside(t, v, r)
  BY <1>5 DEF KeptOutside
<1>7. /\ <<>> \in Path /\ <<1>> \in Path /\ <<2>> \in Path /\ <<1>> \o <<1>> \in Path
      /\ <<1>> \o <<2>> \in Path /\ Within3 \in Path
      /\ \A q \in Path : <<>> \o q = q /\ q \o <<>> = q
  BY StepPath, EmptyPath, ConcatPath DEF Within3
<1>8. Moved(t, v, r, Within3, <<>>)
  <2>1. ASSUME NEW q \in Path
        PROVE  /\ v \o (Within3 \o q) \in DOMAIN r <=> v \o (<<>> \o q) \in DOMAIN t
               /\ v \o (<<>> \o q) \in DOMAIN t =>
                    r[v \o (Within3 \o q)] = Copied(t[v \o (<<>> \o q)])
    <3>1. Within3 \o q \in Path /\ <<>> \o q = q
      BY <1>7, ConcatPath
    <3>2. Within3 \o q \in DOMAIN a <=> q \in DOMAIN u
      BY <1>3
    <3>3. q \in DOMAIN u => a[Within3 \o q] = Copied(u[q])
      BY <1>3
    <3>4. QED
      BY <1>2, <1>5, <3>1, <3>2, <3>3
  <2>2. QED
    BY <2>1 DEF Moved
<1>9. v \in DOMAIN r /\ r[v] = plain("extension", New)
  <2>1. <<>> \in Path /\ v \o <<>> = v
    BY <1>1, <1>7
  <2>2. <<>> \in DOMAIN a /\ a[<<>>] = plain("extension", New)
    BY ONLY <1>3
  <2>3. v \o <<>> \in DOMAIN r /\ r[v \o <<>>] = a[<<>>]
    BY ONLY <1>5, <2>1, <2>2
  <2>4. QED
    BY ONLY <2>1, <2>2, <2>3
<1>10. Seq1(v) \in DOMAIN r /\ r[Seq1(v)] = plain("sequence", {})
  <2>1. 2 \in Nat \ {0}
    OBVIOUS
  <2>2. v \o <<1>> = Seq1(v)
    BY ONLY <1>1, <2>1, PartPaths
  <2>3. QED
    BY <1>3, <1>5, <1>7, <2>2
<1>11. Part(v, 2) \in DOMAIN r /\ r[Part(v, 2)] = plain("filter", core)
  <2>0. 2 \in Nat \ {0}
    OBVIOUS
  <2>1. v \o (<<1>> \o <<2>>) = Part(v, 2)
    BY ONLY <1>1, <2>0, PartPaths
  <2>2. <<1>> \o <<2>> \in DOMAIN a /\ a[<<1>> \o <<2>>] = plain("filter", core)
    BY <1>3
  <2>3. QED
    BY ONLY <1>5, <1>7, <2>1, <2>2
<1>12. ASSUME NEW j \in {1, 3}
       PROVE  /\ Part(v, j) \in DOMAIN r
              /\ \E s \in New : r[Part(v, j)] = plain("filter", {s})
              /\ PartBand(v, j) \in DOMAIN r /\ r[PartBand(v, j)] = band(Zero, FALSE)
              /\ PartLeaf(v, j) \in DOMAIN r /\ r[PartLeaf(v, j)] = plain("leaf", {})
              /\ \A p \in Path : Part(v, j) \o p \in DOMAIN r
                                   <=> p \in {<<>>, <<1>>, <<1>> \o <<1>>}
  <2>1. j \in Nat \ {0}
    OBVIOUS
  <2>2. /\ \A p \in Path : v \o (<<1>> \o (<<j>> \o p)) = Part(v, j) \o p
        /\ Part(v, j) \o <<>> = Part(v, j)
        /\ Part(v, j) \o <<1>> = PartBand(v, j)
        /\ Part(v, j) \o (<<1>> \o <<1>>) = PartLeaf(v, j)
    BY <1>1, <2>1, PartPaths
  <2>3. ASSUME NEW p \in Path
        PROVE  /\ Part(v, j) \o p \in DOMAIN r <=> p \in {<<>>, <<1>>, <<1>> \o <<1>>}
               /\ p \in {<<>>, <<1>>, <<1>> \o <<1>>} =>
                    \E s \in New : r[Part(v, j) \o p] = Move(s)[p]
    <3>1. <<1>> \o (<<j>> \o p) \in Path
      BY <2>1, FirstStep, ConcatPath, <1>7
    <3>2. /\ <<1>> \o (<<j>> \o p) \in DOMAIN a <=> p \in {<<>>, <<1>>, <<1>> \o <<1>>}
          /\ p \in {<<>>, <<1>>, <<1>> \o <<1>>} =>
               \E s \in New : a[<<1>> \o (<<j>> \o p)] = Move(s)[p]
      BY ONLY <1>3, <2>1, p \in Path, j \in {1, 3}
    <3>3. v \o (<<1>> \o (<<j>> \o p)) = Part(v, j) \o p
      BY <2>2
    <3>4. QED
      BY ONLY <1>5, <3>1, <3>2, <3>3
  <2>4. Part(v, j) \in DOMAIN r /\ \E s \in New : r[Part(v, j)] = plain("filter", {s})
    <3>1. /\ Part(v, j) \o <<>> \in DOMAIN r
          /\ \E s \in New : r[Part(v, j) \o <<>>] = Move(s)[<<>>]
      BY ONLY <1>7, <2>3
    <3>2. QED
      BY <2>2, <3>1, MoveFacts
  <2>5. PartBand(v, j) \in DOMAIN r /\ r[PartBand(v, j)] = band(Zero, FALSE)
    <3>1. /\ Part(v, j) \o <<1>> \in DOMAIN r
          /\ \E s \in New : r[Part(v, j) \o <<1>>] = Move(s)[<<1>>]
      BY ONLY <1>7, <2>3
    <3>2. QED
      BY <2>2, <3>1, MoveFacts
  <2>6. PartLeaf(v, j) \in DOMAIN r /\ r[PartLeaf(v, j)] = plain("leaf", {})
    <3>1. /\ Part(v, j) \o (<<1>> \o <<1>>) \in DOMAIN r
          /\ \E s \in New : r[Part(v, j) \o (<<1>> \o <<1>>)] = Move(s)[<<1>> \o <<1>>]
      BY ONLY <1>7, <2>3
    <3>2. QED
      BY <2>2, <3>1, MoveFacts
  <2>7. QED
    BY <2>3, <2>4, <2>5, <2>6
<1>13. ASSUME NEW q \in DOMAIN r, IsPrefix(v, q)
       PROVE  \/ q \in {v, Seq1(v), Part(v, 2)}
              \/ \E p \in Path : q = v \o (Within3 \o p)
              \/ \E j \in {1, 3} : q \in {Part(v, j), PartBand(v, j), PartLeaf(v, j)}
  <2>1. q \in Path
    BY <1>5 DEF IsTree
  <2>2. PICK w \in Path : q = v \o w
    BY <1>1, <1>13, <2>1, RestOfPath
  <2>3. w \in DOMAIN a
    BY <1>5, <2>2
  <2>4. \/ w \in {<<>>, <<1>>, <<1>> \o <<2>>}
        \/ \E p \in Path : w = Within3 \o p
        \/ \E j \in {1, 3} : \E p \in Path : w = <<1>> \o (<<j>> \o p)
    BY <1>3, <2>3
  <2>5. CASE w \in {<<>>, <<1>>, <<1>> \o <<2>>}
    <3>0. 2 \in Nat \ {0}
      OBVIOUS
    <3>1. v \o <<>> = v /\ v \o <<1>> = Seq1(v) /\ v \o (<<1>> \o <<2>>) = Part(v, 2)
      BY ONLY <1>1, <3>0, PartPaths, EmptyPath
    <3>2. QED
      BY <2>2, <2>5, <3>1
  <2>6. CASE \E p \in Path : w = Within3 \o p
    BY <2>2, <2>6
  <2>7. CASE \E j \in {1, 3} : \E p \in Path : w = <<1>> \o (<<j>> \o p)
    <3>1. PICK j \in {1, 3}, p \in Path : w = <<1>> \o (<<j>> \o p)
      BY <2>7
    <3>2. j \in Nat \ {0}
      OBVIOUS
    <3>3. /\ q = Part(v, j) \o p
          /\ Part(v, j) \o <<>> = Part(v, j)
          /\ Part(v, j) \o <<1>> = PartBand(v, j)
          /\ Part(v, j) \o (<<1>> \o <<1>>) = PartLeaf(v, j)
      BY <1>1, <2>2, <3>1, <3>2, PartPaths
    <3>4. p \in {<<>>, <<1>>, <<1>> \o <<1>>}
      BY <1>12, <3>3
    <3>5. QED
      BY <3>3, <3>4
  <2>8. QED
    BY <2>4, <2>5, <2>6, <2>7
<1>14. QED
  BY <1>5, <1>6, <1>8, <1>9, <1>10, <1>11, <1>12, <1>13 DEF LayoutLooks

-----------------------------------------------------------------------------
(***************************************************************************)
(* What is above a node decides what gets to it.                           *)
(***************************************************************************)
LEMMA AboveFacts ==
  ASSUME NEW v \in Path, NEW p
  PROVE  p \in Above(v) <=> p \in Path /\ IsStrictPrefix(p, v)
<1>1. Len(v) \in Nat
  BY PathFacts
<1>2. ASSUME p \in Above(v) PROVE p \in Path /\ IsStrictPrefix(p, v)
  <2>1. PICK k \in 0..Len(v) : p = SubSeq(v, 1, k)
    BY <1>2 DEF Above
  <2>2. p # v
    BY <1>2 DEF Above
  <2>3. p \in Path /\ Len(p) = k /\ \A j \in 1..k : p[j] = v[j]
    BY <2>1, BeginningFacts
  <2>4. k # Len(v)
    BY <2>2, <2>3, PathEqual
  <2>5. QED
    BY <1>1, <2>3, <2>4, StrictPrefixFacts
<1>3. ASSUME p \in Path, IsStrictPrefix(p, v) PROVE p \in Above(v)
  <2>1. Len(p) \in Nat /\ Len(p) < Len(v) /\ \A j \in 1..Len(p) : p[j] = v[j]
    BY <1>3, StrictPrefixFacts, PathFacts
  <2> DEFINE k == Len(p)
             q == SubSeq(v, 1, k)
  <2>2. k \in 0..Len(v)
    BY <1>1, <2>1
  <2>3. q \in Path /\ Len(q) = k /\ \A j \in 1..k : q[j] = v[j]
    BY <2>2, BeginningFacts
  <2>4. p = q
    BY <1>3, <2>1, <2>3, PathEqual
  <2>5. p # v
    BY <2>1
  <2>6. QED
    BY <2>2, <2>4, <2>5 DEF Above
<1>4. QED
  BY <1>2, <1>3

\* Two trees which agree above p, which may be at different places.
LEMMA SameAbove ==
  ASSUME NEW t, NEW r, NEW p, \A q \in Above(p) : r[q] = t[q]
  PROVE  /\ DomainOf(r, p) = DomainOf(t, p)
         /\ Within(r, p) = Within(t, p)
         /\ NotCarried(r, p) = NotCarried(t, p)
<1>1. DomainOf(r, p) = DomainOf(t, p)
  <2>1. UNION {r[q].stmts : q \in Above(p)} = UNION {t[q].stmts : q \in Above(p)}
    OBVIOUS
  <2>2. QED
    BY <2>1 DEF DomainOf
<1>2. Within(r, p) = Within(t, p)
  BY <1>1 DEF Within
<1>3. NotCarried(r, p) = NotCarried(t, p)
  BY <1>2 DEF NotCarried
<1>4. QED
  BY <1>1, <1>2, <1>3

\* What is above a node outside, and above v, is outside.
LEMMA AboveOutside ==
  ASSUME NEW t, IsTree(t), NEW v \in DOMAIN t, NEW r, KeptOutside(t, v, r),
         NEW p \in DOMAIN t, ~IsPrefix(v, p) \/ p = v
  PROVE  \A q \in Above(p) : ~IsPrefix(v, q) /\ q \in DOMAIN t /\ r[q] = t[q]
<1>1. p \in Path /\ v \in Path
  BY DEF IsTree
<1>2. ASSUME NEW q \in Above(p)
      PROVE  ~IsPrefix(v, q) /\ q \in DOMAIN t /\ r[q] = t[q]
  <2>1. q \in Path /\ IsStrictPrefix(q, p)
    BY <1>1, AboveFacts
  <2>2. /\ Len(q) \in Nat /\ Len(p) \in Nat /\ Len(v) \in Nat
        /\ Len(q) < Len(p) /\ \A j \in 1..Len(q) : q[j] = p[j]
    BY <1>1, <2>1, StrictPrefixFacts, PathFacts
  <2>3. ~IsPrefix(v, q)
    <3>1. ASSUME IsPrefix(v, q) PROVE FALSE
      <4>1. Len(v) <= Len(q) /\ \A j \in 1..Len(v) : v[j] = q[j]
        BY <1>1, <2>1, <3>1, PrefixFacts
      <4>2. Len(v) <= Len(p) /\ \A j \in 1..Len(v) : v[j] = p[j]
        BY <2>2, <4>1
      <4>3. IsPrefix(v, p)
        BY <1>1, <4>2, PrefixFacts
      <4>4. p # v
        BY <2>2, <4>1
      <4>5. QED
        BY <4>3, <4>4
    <3>2. QED
      BY <3>1
  <2>4. IsPrefix(q, p)
    BY <1>1, <2>1, <2>2, PrefixFacts
  <2>5. q \in DOMAIN t
    BY <2>1, <2>4, TreeIsClosed
  <2>6. QED
    BY <2>1, <2>3, <2>5 DEF KeptOutside
<1>3. QED
  BY <1>2

-----------------------------------------------------------------------------
(***************************************************************************)
(* Schedule trees stay schedule trees.                                     *)
(***************************************************************************)
IsFunction(t) == t = [p \in DOMAIN t |-> t[p]]

LEMMA ScheduleFacts ==
  ASSUME NEW t
  PROVE  IsSchedule(t) <=>
           /\ IsTree(t) /\ IsFunction(t) /\ t[<<>>].type = "domain"
           /\ \A p \in DOMAIN t : /\ Sensible(t[p])
                                  /\ t[p].type = "band" => children(p, t) = {1}
BY DEF IsSchedule, Sensible, IsFunction

LEMMA ReplaceIsFunction ==
  ASSUME NEW t, NEW v, NEW s
  PROVE  IsFunction(Replace(t, v, s))
<1> DEFINE D == {q \in DOMAIN t : ~IsPrefix(v, q)} \cup {v \o q : q \in DOMAIN s}
           f == [q \in D |-> IF q \in {q1 \in DOMAIN t : ~IsPrefix(v, q1)} THEN t[q]
                             ELSE s[SubSeq(q, Len(v) + 1, Len(q))]]
<1>1. Replace(t, v, s) = f
  BY Zenon DEF Replace
<1>2. f = [q \in DOMAIN f |-> f[q]]
  OBVIOUS
<1> HIDE DEF f
<1>3. QED
  BY <1>1, <1>2 DEF IsFunction

\* What the subtree of v holds when it has been cut and put back, or replaced.
LEMMA ReplacedAgain ==
  ASSUME NEW t, IsTree(t), NEW v \in DOMAIN t, NEW s, IsTree(s), NEW u
  PROVE  Replace(Replace(t, v, s), v, u) = Replace(t, v, u)
<1> DEFINE c == Replace(t, v, s)
           O(x) == {q \in DOMAIN x : ~IsPrefix(v, q)}
           D(x) == O(x) \cup {v \o q : q \in DOMAIN u}
           f(x) == [q \in D(x) |-> IF q \in O(x) THEN x[q]
                                   ELSE u[SubSeq(q, Len(v) + 1, Len(q))]]
<1>1. Replace(c, v, u) = f(c) /\ Replace(t, v, u) = f(t)
  BY Zenon DEF Replace
<1>2. /\ IsTree(c)
      /\ \A q \in Path : ~IsPrefix(v, q) =>
           /\ q \in DOMAIN c <=> q \in DOMAIN t
           /\ q \in DOMAIN t => c[q] = t[q]
  BY ReplaceFacts
<1> HIDE DEF c
<1>3. DOMAIN c \subseteq Path /\ DOMAIN t \subseteq Path
  BY <1>2 DEF IsTree
<1>4. O(c) = O(t) /\ \A q \in O(t) : c[q] = t[q]
  BY <1>2, <1>3
<1>5. f(c) = f(t)
  BY <1>4
<1>6. QED
  BY <1>1, <1>5 DEF c

LEMMA PutBack ==
  ASSUME NEW t, IsTree(t), IsFunction(t), NEW v \in DOMAIN t
  PROVE  Replace(t, v, Subtree(t, v)) = t
<1> DEFINE u == Subtree(t, v)
           b == Replace(t, v, u)
<1>1. v \in Path
  BY DEF IsTree
<1>2. /\ IsTree(u)
      /\ \A q \in Path : q \in DOMAIN u <=> v \o q \in DOMAIN t
      /\ \A q \in Path : v \o q \in DOMAIN t => u[q] = t[v \o q]
  BY SubtreeFacts
<1> HIDE DEF u
<1>3. /\ IsTree(b)
      /\ \A q \in Path : ~IsPrefix(v, q) =>
           /\ q \in DOMAIN b <=> q \in DOMAIN t
           /\ q \in DOMAIN t => b[q] = t[q]
      /\ \A q \in Path : /\ v \o q \in DOMAIN b <=> q \in DOMAIN u
                         /\ q \in DOMAIN u => b[v \o q] = u[q]
  BY <1>2, ReplaceFacts
<1>4. IsFunction(b)
  BY ReplaceIsFunction
<1> HIDE DEF b
<1>5. DOMAIN b \subseteq Path /\ DOMAIN t \subseteq Path
  BY <1>3 DEF IsTree
<1>6. \A q \in Path : (q \in DOMAIN b <=> q \in DOMAIN t)
                        /\ (q \in DOMAIN b => b[q] = t[q])
  <2>1. ASSUME NEW q \in Path, IsPrefix(v, q)
        PROVE  (q \in DOMAIN b <=> q \in DOMAIN t) /\ (q \in DOMAIN b => b[q] = t[q])
    <3>1. PICK w \in Path : q = v \o w
      BY <1>1, <2>1, RestOfPath
    <3>2. QED
      BY <1>2, <1>3, <3>1
  <2>2. QED
    BY <1>3, <2>1
<1>7. b = t
  BY <1>4, <1>5, <1>6, TreesEqual DEF IsFunction
<1>8. QED
  BY <1>7 DEF b, u

\* The nodes below v that are not copies of those below it in t.
Built(v, r, a) ==
  {q \in DOMAIN r : IsPrefix(v, q) /\ ~\E u \in Path : q = v \o (a \o u)}

LEMMA ScheduleAfter ==
  ASSUME NEW t, IsSchedule(t), NEW v \in DOMAIN t, v # <<>>,
         NEW a \in Path, NEW b \in Path, v \o b \in DOMAIN t,
         NEW r, IsTree(r), IsFunction(r), v \in DOMAIN r,
         KeptOutside(t, v, r), Moved(t, v, r, a, b),
         \A q \in Built(v, r, a) : /\ Sensible(r[q])
                                   /\ r[q].type = "band" => children(q, r) = {1}
  PROVE  IsSchedule(r)
<1>1. /\ IsTree(t) /\ t[<<>>].type = "domain"
      /\ \A p \in DOMAIN t : /\ Sensible(t[p])
                             /\ t[p].type = "band" => children(p, t) = {1}
  BY ScheduleFacts
<1>2. v \in Path /\ DOMAIN r \subseteq Path /\ <<>> \in Path
  BY <1>1, EmptyPath DEF IsTree
<1>3. r[<<>>].type = "domain"
  <2>1. ~IsPrefix(v, <<>>)
    BY <1>2, PrefixFacts, PathFacts
  <2>2. <<>> \in DOMAIN t
    BY <1>1 DEF IsTree
  <2>3. QED
    BY <1>1, <1>2, <2>1, <2>2 DEF KeptOutside
<1>4. ASSUME NEW p \in DOMAIN r
      PROVE  Sensible(r[p]) /\ (r[p].type = "band" => children(p, r) = {1})
  <2>1. p \in Path
    BY <1>2
  <2>2. CASE ~IsPrefix(v, p)
    <3>1. p \in DOMAIN t /\ r[p] = t[p]
      BY <2>1, <2>2 DEF KeptOutside
    <3>2. ASSUME NEW j \in Nat \ {0}
          PROVE  Append(p, j) \in DOMAIN r <=> Append(p, j) \in DOMAIN t
      <4>1. Append(p, j) \in Path
        BY <2>1, AppendPath
      <4>2. IsPrefix(v, Append(p, j)) => v = Append(p, j)
        BY <1>2, <2>1, <2>2, PrefixOfChild
      <4>3. QED
        BY <4>1, <4>2 DEF KeptOutside
    <3>3. 1 \in Nat \ {0} /\ 2 \in Nat \ {0}
      OBVIOUS
    <3>4. children(p, r) = {1} <=> children(p, t) = {1}
      BY <1>1, <2>1, <3>2, <3>3, OnlyChild
    <3>5. QED
      BY <1>1, <3>1, <3>4
  <2>3. CASE p \in Built(v, r, a)
    BY <2>3
  <2>4. CASE IsPrefix(v, p) /\ p \notin Built(v, r, a)
    <3>1. PICK q \in Path : p = v \o (a \o q)
      BY <2>4 DEF Built
    <3> DEFINE o == v \o (b \o q)
    <3>2. /\ o \in DOMAIN t /\ r[p] = Copied(t[o])
      BY <3>1 DEF Moved
    <3>3. /\ Sensible(r[p]) /\ r[p].type = t[o].type
      BY <1>1, <3>2, CopiedFacts
    <3>4. o \in Path /\ a \o q \in Path /\ b \o q \in Path
      BY <1>2, ConcatPath
    <3>5. ASSUME NEW j \in Nat \ {0}
          PROVE  Append(p, j) \in DOMAIN r <=> Append(o, j) \in DOMAIN t
      <4>1. Append(q, j) \in Path
        BY AppendPath
      <4>2. v \o (a \o Append(q, j)) = Append(p, j)
        BY <1>2, <3>1, <3>4, ConcatAppend
      <4>3. v \o (b \o Append(q, j)) = Append(o, j)
        BY <1>2, <3>4, ConcatAppend
      <4>4. QED
        BY <4>1, <4>2, <4>3 DEF Moved
    <3> HIDE DEF o
    <3>6. 1 \in Nat \ {0} /\ 2 \in Nat \ {0}
      OBVIOUS
    <3>7. children(p, r) = {1} <=> children(o, t) = {1}
      BY <1>1, <2>1, <3>4, <3>5, <3>6, OnlyChild
    <3>8. QED
      BY <1>1, <3>2, <3>3, <3>7
  <2>5. QED
    BY <2>2, <2>3, <2>4
<1>5. QED
  BY <1>3, <1>4, ScheduleFacts

-----------------------------------------------------------------------------
(***************************************************************************)
(* What the three rewritings make of a tree.                               *)
(***************************************************************************)
MergedNode(members, stencil) == [band(members, stencil) EXCEPT !.permutable = TRUE]
MarkedNode(members, stencil, flags) ==
  [band(members, stencil) EXCEPT !.coincident = flags]

IsMergedBand(x, members, stencil) ==
  /\ Sensible(x) /\ x.type = "band" /\ x.members = members
  /\ x.stencil = stencil /\ x.stmts = {}

LEMMA PermutableBand ==
  ASSUME NEW members, members \in Seq([Deps -> Int]), NEW stencil, NEW x,
         x = MergedNode(members, stencil)
  PROVE  IsMergedBand(x, members, stencil)
<1> DEFINE b == band(members, stencil)
           c == [m \in 1..Len(members) |-> FALSE]
<1>1. /\ b.type = "band" /\ b.members = members /\ b.stencil = stencil
      /\ b.stmts = {} /\ Len(b.coincident) = Len(members)
  BY BandFacts
<1> HIDE DEF c
<1>2. b = [plain("band", {}) EXCEPT !.members = members, !.stencil = stencil,
                                    !.coincident = c]
  BY DEF band, c
<1>5. b = [type |-> "band", stmts |-> {}, members |-> members, permutable |-> FALSE,
           coincident |-> c, stencil |-> stencil]
  BY <1>2 DEF plain
<1> HIDE DEF b
<1>6. x = [b EXCEPT !.permutable = TRUE]
  BY DEF b, MergedNode
<1>3. x = [type |-> "band", stmts |-> {}, members |-> members, permutable |-> TRUE,
           coincident |-> b.coincident, stencil |-> stencil]
  BY <1>5, <1>6
<1>4. QED
  BY <1>1, <1>3 DEF Sensible, IsMergedBand

LEMMA MarkedBand ==
  ASSUME NEW members \in Seq([Deps -> Int]), NEW stencil, NEW flags,
         Len(flags) = Len(members), NEW x,
         x = MarkedNode(members, stencil, flags)
  PROVE  /\ Sensible(x) /\ x.type = "band" /\ x.members = members
         /\ x.stencil = stencil /\ ~x.permutable /\ x.stmts = {}
         /\ x.coincident = flags
<1> DEFINE b == band(members, stencil)
           c == [m \in 1..Len(members) |-> FALSE]
<1> HIDE DEF c
<1>1. b = [plain("band", {}) EXCEPT !.members = members, !.stencil = stencil,
                                    !.coincident = c]
  BY DEF band, c
<1>4. b = [type |-> "band", stmts |-> {}, members |-> members, permutable |-> FALSE,
           coincident |-> c, stencil |-> stencil]
  BY <1>1 DEF plain
<1>5. x = [b EXCEPT !.coincident = flags]
  BY DEF MarkedNode
<1> HIDE DEF b
<1>2. x = [type |-> "band", stmts |-> {}, members |-> members, permutable |-> FALSE,
           coincident |-> flags, stencil |-> stencil]
  BY <1>4, <1>5
<1>3. QED
  BY <1>2 DEF Sensible

LEMMA ScheduleBand ==
  ASSUME NEW t, IsSchedule(t), NEW v \in DOMAIN t, t[v].type = "band"
  PROVE  /\ v # <<>> /\ v \in Path /\ v \o <<1>> = Append(v, 1)
         /\ Append(v, 1) \in DOMAIN t /\ Append(v, 2) \notin DOMAIN t
         /\ Sensible(t[v]) /\ Sensible(t[Append(v, 1)])
<1>1. /\ IsTree(t) /\ t[<<>>].type = "domain"
      /\ \A p \in DOMAIN t : /\ Sensible(t[p])
                             /\ t[p].type = "band" => children(p, t) = {1}
  BY ScheduleFacts
<1>2. v \in Path
  BY <1>1 DEF IsTree
<1>3. 1 \in Nat \ {0}
  OBVIOUS
<1>4. Append(v, 1) \in DOMAIN t /\ Append(v, 2) \notin DOMAIN t
  BY <1>1, <1>2, OnlyChild
<1>5. v \o <<1>> = Append(v, 1)
  BY <1>2, <1>3, AppendIsStep
<1>6. v # <<>>
  BY <1>1
<1>7. QED
  BY <1>1, <1>2, <1>4, <1>5, <1>6

\* A band in place of a band, above a copy of what is at b below it: a schedule.
LEMMA BandSchedule ==
  ASSUME NEW t, IsSchedule(t), NEW v \in DOMAIN t, t[v].type = "band",
         NEW b \in Path, v \o b \in DOMAIN t, NEW x, Sensible(x), x.type = "band",
         NEW r, r = Replace(t, v, Node(x, <<copy(Subtree(Subtree(t, v), b))>>))
  PROVE  /\ IsSchedule(r) /\ v \in DOMAIN r /\ r[v] = x /\ Built(v, r, <<1>>) = {v}
         /\ KeptOutside(t, v, r) /\ Moved(t, v, r, <<1>>, b)
<1>1. IsTree(t) /\ v # <<>> /\ v \in Path
  BY ScheduleBand, ScheduleFacts
<1>2. <<1>> \in Path /\ 1 \in Nat \ {0} /\ 2 \in Nat \ {0} /\ <<>> \in Path
  BY StepPath, EmptyPath
<1>3. /\ IsTree(r) /\ v \in DOMAIN r /\ r[v] = x
      /\ KeptOutside(t, v, r) /\ Moved(t, v, r, <<1>>, b)
      /\ \A q \in DOMAIN r : IsPrefix(v, q) =>
           q = v \/ \E u \in Path : q = v \o (<<1>> \o u)
  BY ONLY <1>1, v \in DOMAIN t, b \in Path, v \o b \in DOMAIN t,
          r = Replace(t, v, Node(x, <<copy(Subtree(Subtree(t, v), b))>>)), BandReplaced
<1>4. \A u \in Path : v \o (<<1>> \o u) = Append(v, 1) \o u
  BY <1>1, <1>2, StepOfConcat
<1>5. Append(v, 1) \in Path /\ Append(v, 2) \in Path /\ IsPrefix(v, v)
  BY <1>1, <1>2, AppendPath, PrefixFacts
<1>6. \A u \in Path : v # Append(v, 1) \o u /\ Append(v, 2) # Append(v, 1) \o u
  <2>1. ASSUME NEW u \in Path
        PROVE  v # Append(v, 1) \o u /\ Append(v, 2) # Append(v, 1) \o u
    <3> DEFINE c == Append(v, 1)
               w == c \o u
               d == Append(v, 2)
    <3>1. /\ Len(v) \in Nat /\ Len(c) = Len(v) + 1 /\ c[Len(v) + 1] = 1 /\ Len(u) \in Nat
          /\ d[Len(v) + 1] = 2
      BY <1>1, <1>2, AppendPath, PathFacts
    <3>2. /\ Len(w) = Len(c) + Len(u)
          /\ \A k \in 1..(Len(c) + Len(u)) : w[k] = IF k <= Len(c) THEN c[k] ELSE u[k - Len(c)]
      BY <1>5, ConcatPath
    <3> HIDE DEF c, w, d
    <3>3. w[Len(v) + 1] = 1 /\ Len(w) # Len(v)
      BY <3>1, <3>2
    <3>4. v # w /\ d # w
      BY <3>1, <3>3
    <3>5. QED
      BY <3>4 DEF c, w, d
  <2>2. QED
    BY <2>1
<1>7. Built(v, r, <<1>>) = {v}
  BY <1>3, <1>4, <1>5, <1>6 DEF Built
<1>8. children(v, r) = {1}
  <2>1. Append(v, 1) \in DOMAIN r
    <3>1. ASSUME b = <<>> PROVE v \o (b \o <<>>) = v \o b
      BY <3>1, <1>2, EmptyPath
    <3>2. b \o <<>> = b /\ Append(v, 1) \o <<>> = Append(v, 1)
      BY <1>5, EmptyPath
    <3>3. v \o (<<1>> \o <<>>) \in DOMAIN r
      BY <1>2, <1>3, <3>2 DEF Moved
    <3>4. QED
      BY <1>2, <1>4, <3>2, <3>3
  <2>2. Append(v, 2) \notin DOMAIN r
    <3>1. IsPrefix(v, Append(v, 2)) /\ Append(v, 2) # v
      BY <1>1, <1>2, ChildIsBelow, AppendPath
    <3>2. QED
      BY <1>3, <1>4, <1>6, <3>1
  <2>3. QED
    BY <1>1, <1>3, <2>1, <2>2, OnlyChild
<1>9. IsFunction(r)
  BY ReplaceIsFunction
<1>10. \A q \in Built(v, r, <<1>>) : /\ Sensible(r[q])
                                     /\ r[q].type = "band" => children(q, r) = {1}
  BY <1>3, <1>7, <1>8
<1>11. IsSchedule(r)
  BY ONLY <1>1, <1>2, <1>3, <1>9, <1>10, IsSchedule(t), v \in DOMAIN t, b \in Path,
          v \o b \in DOMAIN t, ScheduleAfter
<1>12. QED
  BY <1>3, <1>7, <1>11

\* What the tree r is in which the band at v of t has been merged with its child.
MergeLooks(t, v, r) ==
  /\ IsSchedule(r) /\ v \in DOMAIN r /\ Built(v, r, <<1>>) = {v}
  /\ KeptOutside(t, v, r) /\ Moved(t, v, r, <<1>>, <<1>> \o <<1>>)
  /\ v \o (<<1>> \o <<1>>) \in DOMAIN t
  /\ r[v].members = t[v].members \o t[Append(v, 1)].members
  /\ r[v].type = "band" /\ r[v].stencil = t[v].stencil

LEMMA MergeSchedule ==
  ASSUME NEW t, IsSchedule(t), NEW v \in DOMAIN t, t[v].type = "band",
         t[Append(v, 1)].type = "band",
         NEW r, r = Replace(t, v, mergedBand(Subtree(t, v)))
  PROVE  MergeLooks(t, v, r)
<1> DEFINE u == Subtree(t, v)
           c == Append(v, 1)
           m == u[<<>>].members \o u[<<1>>].members
           st == u[<<>>].stencil
           x == MergedNode(m, st)
           b == <<1>> \o <<1>>
<1>1. /\ IsTree(t) /\ v \in Path /\ v \o <<1>> = c /\ c \in DOMAIN t
      /\ Sensible(t[v]) /\ Sensible(t[c])
  BY ScheduleBand, ScheduleFacts
<1>2. <<1>> \in Path /\ <<>> \in Path /\ v \o <<>> = v /\ b \in Path /\ 1 \in Nat \ {0}
  BY <1>1, StepPath, EmptyPath, ConcatPath
<1>3. u[<<>>] = t[v] /\ u[<<1>>] = t[c]
  <2>1. \A q \in Path : v \o q \in DOMAIN t => u[q] = t[v \o q]
    BY <1>1, SubtreeFacts
  <2> HIDE DEF u
  <2>2. QED
    BY <1>1, <1>2, <2>1
<1>4. m = t[v].members \o t[c].members /\ st = t[v].stencil
  BY <1>3
<1>5. v \o b \in DOMAIN t
  <2>1. Append(c, 1) \in DOMAIN t /\ c \o <<1>> = Append(c, 1)
    BY <1>1, ScheduleBand
  <2>2. v \o b = c \o <<1>>
    BY <1>1, <1>2, StepOfConcat
  <2>3. QED
    BY <2>1, <2>2
<1>6. m \in Seq([Deps -> Int])
  <2>1. t[v].members \in Seq([Deps -> Int]) /\ t[c].members \in Seq([Deps -> Int])
    BY <1>1 DEF Sensible
  <2>2. QED
    BY <1>4, <2>1, ConcatProperties
<1>7. <<1, 1>> = b
  OBVIOUS
<1>8. r = Replace(t, v, Node(x, <<copy(Subtree(u, b))>>))
  BY <1>7 DEF mergedBand, MergedNode
<1>10. x = MergedNode(m, st)
  OBVIOUS
<1> HIDE DEF b, m, st, x
<1>9. Sensible(x) /\ x.type = "band" /\ x.members = m /\ x.stencil = st
  <2>1. IsMergedBand(x, m, st)
    BY ONLY <1>6, <1>10, PermutableBand
  <2>2. QED
    BY ONLY <2>1 DEF IsMergedBand
<1>11. /\ IsSchedule(r) /\ v \in DOMAIN r /\ r[v] = x /\ Built(v, r, <<1>>) = {v}
       /\ KeptOutside(t, v, r) /\ Moved(t, v, r, <<1>>, b)
  <2>1. x.type = "band" /\ Sensible(x) /\ b \in Path
    BY <1>2, <1>9
  <2>2. r = Replace(t, v, Node(x, <<copy(Subtree(Subtree(t, v), b))>>))
    BY <1>8 DEF u
  <2>3. QED
    BY ONLY <1>5, <2>1, <2>2, IsSchedule(t), v \in DOMAIN t, t[v].type = "band", BandSchedule
<1>12. QED
  BY <1>4, <1>5, <1>9, <1>11 DEF b, MergeLooks

\* What the tree r is in which the band at v of t has been marked.
MarkLooks(t, v, flags, r) ==
  /\ IsSchedule(r) /\ v \in DOMAIN r /\ Built(v, r, <<1>>) = {v}
  /\ KeptOutside(t, v, r) /\ Moved(t, v, r, <<1>>, <<1>>)
  /\ v \o <<1>> \in DOMAIN t
  /\ r[v].members = t[v].members /\ r[v].coincident = flags
  /\ r[v].type = "band" /\ r[v].stencil = t[v].stencil /\ ~r[v].permutable

LEMMA MarkSchedule ==
  ASSUME NEW t, IsSchedule(t), NEW v \in DOMAIN t, t[v].type = "band",
         NEW flags, Len(flags) = Len(t[v].members),
         NEW r, r = Replace(t, v, markedBand(Subtree(t, v), flags))
  PROVE  MarkLooks(t, v, flags, r)
<1> DEFINE u == Subtree(t, v)
           m == u[<<>>].members
           st == u[<<>>].stencil
           x == MarkedNode(m, st, flags)
<1>1. /\ IsTree(t) /\ v \in Path /\ v \o <<1>> \in DOMAIN t /\ Sensible(t[v])
  BY ScheduleBand, ScheduleFacts
<1>2. <<1>> \in Path /\ <<>> \in Path /\ v \o <<>> = v
  BY <1>1, StepPath, EmptyPath
<1>3. u[<<>>] = t[v]
  <2>1. \A q \in Path : v \o q \in DOMAIN t => u[q] = t[v \o q]
    BY <1>1, SubtreeFacts
  <2> HIDE DEF u
  <2>2. QED
    BY <1>1, <1>2, <2>1
<1>4. m = t[v].members /\ st = t[v].stencil
  BY <1>3
<1>5. m \in Seq([Deps -> Int]) /\ Len(flags) = Len(m)
  BY <1>1, <1>4 DEF Sensible
<1>6. r = Replace(t, v, Node(x, <<copy(Subtree(Subtree(t, v), <<1>>))>>))
  BY DEF markedBand, MarkedNode
<1>7. x = MarkedNode(m, st, flags)
  OBVIOUS
<1> HIDE DEF m, st, x
<1>8. /\ Sensible(x) /\ x.type = "band" /\ x.members = m /\ x.stencil = st
      /\ ~x.permutable /\ x.coincident = flags
  BY ONLY <1>5, <1>7, MarkedBand
<1>9. /\ IsSchedule(r) /\ v \in DOMAIN r /\ r[v] = x /\ Built(v, r, <<1>>) = {v}
      /\ KeptOutside(t, v, r) /\ Moved(t, v, r, <<1>>, <<1>>)
  <2>1. x.type = "band" /\ Sensible(x) /\ <<1>> \in Path /\ v \o <<1>> \in DOMAIN t
    BY <1>1, <1>2, <1>8
  <2>2. QED
    BY ONLY <1>6, <2>1, IsSchedule(t), v \in DOMAIN t, t[v].type = "band", BandSchedule
<1>10. QED
  BY <1>1, <1>4, <1>8, <1>9 DEF MarkLooks

LEMMA PlainIsSensible ==
  ASSUME NEW type, type # "band", NEW stmts
  PROVE  /\ Sensible(plain(type, stmts)) /\ plain(type, stmts).type = type
         /\ plain(type, stmts).stmts = stmts /\ plain(type, stmts).members = <<>>
         /\ ~plain(type, stmts).permutable
<1>1. <<>> \in Seq([Deps -> Int])
  OBVIOUS
<1>2. QED
  BY <1>1 DEF plain, Sensible

\* Which nodes the layout transformation brings.
BuiltByLayout(v, core, r) ==
  \A q \in Built(v, r, Within3) :
    \/ q = v /\ r[q] = plain("extension", New)
    \/ q = Seq1(v) /\ r[q] = plain("sequence", {})
    \/ q = Part(v, 2) /\ r[q] = plain("filter", core)
    \/ \E j \in {1, 3} :
         \/ q = Part(v, j) /\ \E s \in New : r[q] = plain("filter", {s})
         \/ q = PartBand(v, j) /\ r[q] = band(Zero, FALSE)
         \/ q = PartLeaf(v, j) /\ r[q] = plain("leaf", {})

LEMMA LayoutBuilds ==
  ASSUME NEW t, IsSchedule(t), NEW v \in DOMAIN t, t[v].type = "band",
         NEW core, NEW r, r = Replace(t, v, aroundBand(Subtree(t, v), core))
  PROVE  BuiltByLayout(v, core, r)
<1>1. IsTree(t)
  BY ScheduleFacts
<1>0. LayoutLooks(t, v, core, r)
  BY ONLY <1>1, v \in DOMAIN t, r = Replace(t, v, aroundBand(Subtree(t, v), core)),
          LayoutReplaced
<1>2. /\ r[v] = plain("extension", New)
      /\ r[Seq1(v)] = plain("sequence", {})
      /\ r[Part(v, 2)] = plain("filter", core)
      /\ \A j \in {1, 3} :
           /\ \E s \in New : r[Part(v, j)] = plain("filter", {s})
           /\ r[PartBand(v, j)] = band(Zero, FALSE)
           /\ r[PartLeaf(v, j)] = plain("leaf", {})
  BY ONLY <1>0 DEF LayoutLooks
<1>3. \A q \in DOMAIN r : IsPrefix(v, q) =>
        \/ q \in {v, Seq1(v), Part(v, 2)}
        \/ \E u \in Path : q = v \o (Within3 \o u)
        \/ \E j \in {1, 3} : q \in {Part(v, j), PartBand(v, j), PartLeaf(v, j)}
  BY ONLY <1>0 DEF LayoutLooks
<1>4. ASSUME NEW q \in Built(v, r, Within3)
      PROVE  \/ q \in {v, Seq1(v), Part(v, 2)}
             \/ \E j \in {1, 3} : q \in {Part(v, j), PartBand(v, j), PartLeaf(v, j)}
  BY ONLY <1>3, <1>4 DEF Built
<1>5. QED
  BY ONLY <1>2, <1>4 DEF BuiltByLayout

LEMMA LayoutSchedule ==
  ASSUME NEW t, IsSchedule(t), NEW v \in DOMAIN t, t[v].type = "band",
         NEW core, NEW r, r = Replace(t, v, aroundBand(Subtree(t, v), core))
  PROVE  /\ IsSchedule(r) /\ v \in DOMAIN r
         /\ KeptOutside(t, v, r) /\ Moved(t, v, r, Within3, <<>>)
         /\ Within3 \in Path /\ v \o <<>> = v
<1>1. IsTree(t) /\ v # <<>> /\ v \in Path
  BY ScheduleBand, ScheduleFacts
<1>0. LayoutLooks(t, v, core, r)
  BY ONLY <1>1, v \in DOMAIN t, r = Replace(t, v, aroundBand(Subtree(t, v), core)),
          LayoutReplaced
<1>2. /\ IsTree(r) /\ KeptOutside(t, v, r) /\ Moved(t, v, r, Within3, <<>>)
      /\ v \in DOMAIN r
      /\ \A j \in {1, 3} :
           /\ PartBand(v, j) \in DOMAIN r /\ PartLeaf(v, j) \in DOMAIN r
           /\ \A p \in Path : Part(v, j) \o p \in DOMAIN r
                                <=> p \in {<<>>, <<1>>, <<1>> \o <<1>>}
  BY ONLY <1>0 DEF LayoutLooks
<1>3. Within3 \in Path /\ <<>> \in Path /\ v \o <<>> = v
  BY <1>1, StepPath, EmptyPath, ConcatPath DEF Within3
<1>4. ASSUME NEW j \in {1, 3} PROVE children(PartBand(v, j), r) = {1}
  <2>1. j \in Nat \ {0} /\ 1 \in Nat \ {0} /\ 2 \in Nat \ {0}
    OBVIOUS
  <2>2. /\ Part(v, j) \in Path /\ PartBand(v, j) \in Path
        /\ Part(v, j) \o <<1>> = PartBand(v, j)
    BY ONLY <1>1, <2>1, PartPaths
  <2>3. <<1>> \in Path /\ <<2>> \in Path /\ Len(<<1>>) = 1
    BY <2>1, StepPath
  <2>4. Append(PartBand(v, j), 1) = PartLeaf(v, j)
    BY DEF PartLeaf
  <2>5. Append(PartBand(v, j), 2) \notin DOMAIN r
    <3> DEFINE p == Append(<<1>>, 2)
    <3>1. p \in Path /\ Len(p) = 2 /\ p[2] = 2
      BY <2>1, <2>3, AppendPath
    <3>2. Append(PartBand(v, j), 2) = Part(v, j) \o p
      BY <2>1, <2>2, <2>3, ConcatAppend
    <3>3. p \notin {<<>>, <<1>>, <<1>> \o <<1>>}
      BY ONLY <3>1
    <3>4. QED
      BY <1>2, <3>1, <3>2, <3>3
  <2>6. QED
    BY <1>2, <2>1, <2>2, <2>4, <2>5, OnlyChild
<1>5. ASSUME NEW q \in Built(v, r, Within3)
      PROVE  Sensible(r[q]) /\ (r[q].type = "band" => children(q, r) = {1})
  <2>1. \/ r[q] = plain("extension", New)
        \/ r[q] = plain("sequence", {})
        \/ r[q] = plain("filter", core)
        \/ \E j \in {1, 3} :
             \/ \E s \in New : r[q] = plain("filter", {s})
             \/ q = PartBand(v, j) /\ r[q] = band(Zero, FALSE)
             \/ r[q] = plain("leaf", {})
    <3>1. BuiltByLayout(v, core, r)
      BY ONLY IsSchedule(t), v \in DOMAIN t, t[v].type = "band",
              r = Replace(t, v, aroundBand(Subtree(t, v), core)), LayoutBuilds
    <3>2. QED
      BY ONLY <1>5, <3>1 DEF BuiltByLayout
  <2>2. CASE \E type \in {"extension", "sequence", "filter", "leaf"} : \E s :
               r[q] = plain(type, s)
    <3>1. PICK type \in {"extension", "sequence", "filter", "leaf"} :
            \E s : r[q] = plain(type, s)
      BY <2>2
    <3>2. type # "band"
      OBVIOUS
    <3>3. QED
      BY ONLY <3>1, <3>2, PlainIsSensible
  <2>3. CASE \E j \in {1, 3} : q = PartBand(v, j) /\ r[q] = band(Zero, FALSE)
    <3>1. PICK j \in {1, 3} : q = PartBand(v, j) /\ r[q] = band(Zero, FALSE)
      BY <2>3
    <3>2. /\ band(Zero, FALSE).type = "band" /\ band(Zero, FALSE).members = Zero
          /\ Len(band(Zero, FALSE).coincident) = Len(Zero)
      BY ONLY ZeroBand
    <3>3. Sensible(r[q])
      BY ONLY <3>1, <3>2, ZeroFacts DEF Sensible
    <3>4. QED
      BY <1>4, <3>1, <3>3
  <2>4. QED
    BY ONLY <2>1, <2>2, <2>3
<1>6. IsFunction(r)
  BY ReplaceIsFunction
<1>7. IsSchedule(r)
  <2>1. v \o <<>> \in DOMAIN t
    BY <1>3
  <2>2. QED
    BY ONLY <1>1, <1>2, <1>3, <1>5, <1>6, <2>1, IsSchedule(t), v \in DOMAIN t,
            ScheduleAfter
<1>8. QED
  BY <1>2, <1>3, <1>7

-----------------------------------------------------------------------------
(***************************************************************************)
(* The tree as it is when nothing is cut, and the invariant that says how  *)
(* the frames, the cut and the capture belong together.                    *)
(***************************************************************************)
Current == IF pc \in {"insert", "failed"} THEN Replace(tree, node, captured) ELSE tree

TreeInv ==
  /\ job \in {"merge", "mark", "layout"} /\ original \in Originals
  /\ pc \in {"visit", "match", "cut", "insert", "loop", "leave", "done", "failed"}
  /\ i \in Nat \ {0}
  /\ IsSchedule(Current) /\ node \in DOMAIN Current
  /\ pc = "done" => node = <<>>
  /\ pc \in {"cut", "insert", "failed"} =>
       captured = Subtree(Current, node) /\ isMatching(Current, node)
  /\ pc \in {"insert", "failed"} => tree = Replace(Current, node, Leaf)

\* What the job at hand makes of t at v, in r.
Rewrites(t, v, r) ==
  /\ isMatching(t, v)
  /\ job = "merge" => r = Replace(t, v, mergedBand(Subtree(t, v)))
  /\ job = "mark" => r = Replace(t, v, markedBand(Subtree(t, v), detectCoincidence(t, v)))
  /\ job = "layout" => r = Replace(t, v, aroundBand(Subtree(t, v), DomainOf(t, v)))

LEMMA CoincidenceFacts ==
  ASSUME NEW t, NEW v, Sensible(t[v])
  PROVE  Len(detectCoincidence(t, v)) = Len(t[v].members)
<1> DEFINE n == Len(t[v].members)
           c == detectCoincidence(t, v)
<1>1. n \in Nat
  BY LenProperties DEF Sensible
<1>2. c \in [1..n -> BOOLEAN] /\ DOMAIN c = 1..n
  BY DEF detectCoincidence
<1> HIDE DEF c, n
<1>3. c \in Seq(BOOLEAN)
  BY <1>1, <1>2, SeqDef
<1>4. Len(c) \in Nat /\ DOMAIN c = 1..Len(c)
  BY <1>3, LenProperties
<1>5. Len(c) = n
  BY <1>1, <1>2, <1>4
<1>6. QED
  BY <1>5 DEF c, n

LEMMA RewrittenSchedule ==
  ASSUME job \in {"merge", "mark", "layout"},
         NEW t, IsSchedule(t), NEW v \in DOMAIN t, NEW r, Rewrites(t, v, r)
  PROVE  IsSchedule(r) /\ v \in DOMAIN r /\ KeptOutside(t, v, r)
<1>1. t[v].type = "band"
  BY DEF Rewrites, isMatching
<1>2. CASE job = "merge"
  <2>1. /\ t[Append(v, 1)].type = "band"
        /\ r = Replace(t, v, mergedBand(Subtree(t, v)))
    BY <1>2 DEF Rewrites, isMatching
  <2>2. MergeLooks(t, v, r)
    BY <1>1, <2>1, MergeSchedule
  <2>3. QED
    BY ONLY <2>2 DEF MergeLooks
<1>3. CASE job = "mark"
  <2>1. r = Replace(t, v, markedBand(Subtree(t, v), detectCoincidence(t, v)))
    BY <1>3 DEF Rewrites
  <2>2. Len(detectCoincidence(t, v)) = Len(t[v].members)
    BY <1>1, ScheduleBand, CoincidenceFacts
  <2> DEFINE flags == detectCoincidence(t, v)
  <2> HIDE DEF flags
  <2>3. r = Replace(t, v, markedBand(Subtree(t, v), flags)) /\ Len(flags) = Len(t[v].members)
    BY <2>1, <2>2 DEF flags
  <2>4. MarkLooks(t, v, flags, r)
    BY ONLY <1>1, <2>3, IsSchedule(t), v \in DOMAIN t, MarkSchedule
  <2>5. QED
    BY ONLY <2>4 DEF MarkLooks
<1>4. CASE job = "layout"
  <2>1. r = Replace(t, v, aroundBand(Subtree(t, v), DomainOf(t, v)))
    BY <1>4 DEF Rewrites
  <2>2. QED
    BY ONLY <1>1, <2>1, IsSchedule(t), v \in DOMAIN t, LayoutSchedule
<1>5. QED
  BY <1>2, <1>3, <1>4

LEMMA JobIsKept ==
  ASSUME [Next]_vars
  PROVE  job' = job /\ original' = original
BY DEF Next, vars, Visit, Match, NoMatch, Cut, Insert, InsertFails, Descend, LoopDone,
       Leave, Return

\* A step rewrites the tree at the node of the running frame, or leaves it alone.
LEMMA CurrentSteps ==
  ASSUME TreeInv, [Next]_vars
  PROVE  /\ Insert => Rewrites(Current, node, Current')
         /\ ~Insert => Current' = Current
<1>1. CASE Insert
  <2>1. /\ pc = "insert" /\ tree' = Replace(tree, node, Replacement)
        /\ pc' \notin {"insert", "failed"}
    BY <1>1 DEF Insert, AfterNode
  <2>2. Current' = Replace(tree, node, Replacement)
    BY <2>1 DEF Current
  <2> DEFINE C == Current
             R == Replacement
  <2>3. /\ captured = Subtree(C, node) /\ isMatching(C, node)
        /\ tree = Replace(C, node, Leaf) /\ Replace(tree, node, captured) = C
        /\ IsTree(C) /\ node \in DOMAIN C
    BY <2>1, ScheduleFacts DEF TreeInv, Current
  <2>4. /\ job = "merge" => R = mergedBand(Subtree(C, node))
        /\ job = "mark" => R = markedBand(Subtree(C, node), detectCoincidence(C, node))
        /\ job = "layout" => R = aroundBand(Subtree(C, node), DomainOf(C, node))
    BY <2>3 DEF Replacement, Whole
  <2> HIDE DEF C, R
  <2>5. Replace(tree, node, R) = Replace(C, node, R)
    BY <2>3, LeafFacts, ReplacedAgain
  <2>6. Current' = Replace(C, node, R)
    BY <2>2, <2>5 DEF R
  <2>7. Rewrites(C, node, Current')
    BY <2>3, <2>4, <2>6 DEF Rewrites
  <2>8. QED
    BY <1>1, <2>7 DEF C
<1>2. CASE Cut
  <2>1. /\ pc = "cut" /\ tree' = Replace(tree, node, Leaf) /\ pc' = "insert"
        /\ UNCHANGED <<node, captured>>
    BY <1>2 DEF Cut
  <2>2. /\ Current = tree /\ captured = Subtree(tree, node)
        /\ IsTree(tree) /\ IsFunction(tree) /\ node \in DOMAIN tree
    BY <2>1, ScheduleFacts DEF TreeInv, Current
  <2>3. Current' = Replace(Replace(tree, node, Leaf), node, Subtree(tree, node))
    BY <2>1, <2>2 DEF Current
  <2>4. Current' = Replace(tree, node, Subtree(tree, node))
    BY <2>2, <2>3, LeafFacts, ReplacedAgain
  <2>5. Current' = Current
    BY <2>2, <2>4, PutBack
  <2>6. QED
    BY <2>1, <2>5 DEF Insert
<1>3. CASE Visit \/ Match \/ NoMatch \/ Descend \/ LoopDone \/ Leave \/ Return
  <2>1. /\ pc \notin {"insert", "failed"} /\ pc' \notin {"insert", "failed"}
        /\ tree' = tree
    BY <1>3 DEF Visit, Match, NoMatch, Descend, LoopDone, Leave, Return, AfterNode
  <2>2. QED
    BY <2>1 DEF Current, Insert
<1>4. CASE InsertFails
  <2>1. /\ pc = "insert" /\ pc' = "failed" /\ UNCHANGED <<tree, node, captured>>
    BY <1>4 DEF InsertFails
  <2>2. Current' = Current
    BY <2>1 DEF Current
  <2>3. ~Insert
    BY <1>4 DEF InsertFails, Insert
  <2>4. QED
    BY <2>2, <2>3
<1>5. CASE UNCHANGED vars
  <2>1. Current' = Current
    BY <1>5 DEF Current, vars
  <2>2. ~Insert
    BY <1>5 DEF Insert, vars, AfterNode
  <2>3. QED
    BY <2>1, <2>2
<1>6. QED
  BY <1>1, <1>2, <1>3, <1>4, <1>5 DEF Next

LEMMA TreeInit ==
  ASSUME Init
  PROVE  TreeInv /\ Current = original /\ tree = original
<1>1. /\ job \in {"merge", "mark", "layout"} /\ original \in Originals
      /\ tree = original /\ node = <<>> /\ i = 1 /\ pc = "visit"
  BY DEF Init
<1>2. Current = original
  BY <1>1 DEF Current
<1>3. IsSchedule(original)
  BY <1>1, OriginalsAssumption
<1>4. <<>> \in DOMAIN original
  BY <1>3, ScheduleFacts DEF IsTree
<1>5. QED
  BY <1>1, <1>2, <1>3, <1>4 DEF TreeInv

\* The parts of a step that move between the frames.
LEMMA FrameSteps ==
  ASSUME TreeInv, [Next]_vars
  PROVE  /\ node' \in DOMAIN Current' /\ i' \in Nat \ {0}
         /\ pc' = "done" => node' = <<>>
<1>1. /\ IsSchedule(Current) /\ node \in DOMAIN Current /\ i \in Nat \ {0}
      /\ pc = "done" => node = <<>>
  BY DEF TreeInv
<1>2. IsTree(Current) /\ node \in Path
  BY <1>1, ScheduleFacts DEF IsTree
<1>3. CASE Insert
  <2>1. Rewrites(Current, node, Current')
    BY <1>3, CurrentSteps
  <2>2. node \in DOMAIN Current'
    BY <1>1, <2>1, RewrittenSchedule DEF TreeInv
  <2>3. node' = node /\ i' = 1 /\ pc' # "done"
    BY <1>3 DEF Insert, AfterNode
  <2>4. QED
    BY <2>2, <2>3
<1>4. CASE Descend
  <2>1. /\ pc = "loop" /\ i <= nChildren /\ node' = Append(node, i) /\ pc' = "visit"
        /\ i' = i
    BY <1>4 DEF Descend
  <2>2. Current = tree /\ Current' = Current
    BY <2>1, CurrentSteps DEF Current, Insert
  <2>3. Append(node, i) \in DOMAIN tree
    BY <1>1, <1>2, <2>1, <2>2, ChildNumbers DEF nChildren
  <2>4. QED
    BY <1>1, <2>1, <2>2, <2>3
<1>5. CASE Leave
  <2>1. /\ pc = "leave" /\ node # <<>> /\ node' = Front(node) /\ i' = Last(node) + 1
        /\ pc' = "loop"
    BY <1>5 DEF Leave
  <2>2. Current' = Current
    BY <2>1, CurrentSteps DEF Insert
  <2>3. /\ Front(node) \in Path /\ Last(node) \in Nat \ {0}
        /\ node = Append(Front(node), Last(node))
    BY <1>2, <2>1, ParentPath
  <2>4. Front(node) \in DOMAIN Current
    <3> DEFINE p == Front(node)
               l == Last(node)
    <3>1. p \in Path /\ l \in Nat \ {0} /\ Append(p, l) \in DOMAIN Current
      BY <1>1, <2>3
    <3> HIDE DEF p, l
    <3>2. p \in DOMAIN Current
      BY <1>2, <3>1, ParentInTree
    <3>3. QED
      BY <3>2 DEF p
  <2>5. QED
    BY <2>1, <2>2, <2>3, <2>4
<1>6. CASE Visit \/ Match \/ NoMatch \/ Cut \/ InsertFails \/ LoopDone \/ UNCHANGED vars
  <2>1. Current' = Current
    <3>1. ~Insert
      BY <1>6 DEF Visit, Match, NoMatch, Cut, InsertFails, LoopDone, vars, Insert,
                  AfterNode
    <3>2. QED
      BY <3>1, CurrentSteps
  <2>2. node' = node
    BY <1>6 DEF Visit, Match, NoMatch, Cut, InsertFails, LoopDone, vars
  <2>3. i' = i \/ i' = 1
    BY <1>6 DEF Visit, Match, NoMatch, Cut, InsertFails, LoopDone, vars
  <2>4. pc' = "done" => pc = "done"
    BY <1>6 DEF Visit, Match, NoMatch, Cut, InsertFails, LoopDone, vars, AfterNode
  <2>5. QED
    BY <1>1, <2>1, <2>2, <2>3, <2>4
<1>7. CASE Return
  <2>1. node' = node /\ node = <<>> /\ i' = i /\ ~Insert
    BY <1>7 DEF Return, Insert
  <2>2. Current' = Current
    BY <2>1, CurrentSteps
  <2>3. QED
    BY <1>1, <2>1, <2>2
<1>8. QED
  BY <1>3, <1>4, <1>5, <1>6, <1>7 DEF Next

LEMMA TreeStep ==
  ASSUME TreeInv, [Next]_vars
  PROVE  TreeInv'
<1>1. /\ job' = job /\ original' = original
      /\ pc' \in {"visit", "match", "cut", "insert", "loop", "leave", "done", "failed"}
  BY DEF TreeInv, Next, vars, Visit, Match, NoMatch, Cut, Insert, InsertFails, Descend,
         LoopDone, Leave, Return, AfterNode
<1>2. IsSchedule(Current')
  BY CurrentSteps, RewrittenSchedule DEF TreeInv
<1>3. /\ node' \in DOMAIN Current' /\ i' \in Nat \ {0}
      /\ pc' = "done" => node' = <<>>
  BY FrameSteps
<1>4. /\ pc' \in {"cut", "insert", "failed"} =>
           captured' = Subtree(Current', node') /\ isMatching(Current, node)
             /\ Current' = Current /\ node' = node
      /\ pc' \in {"insert", "failed"} => tree' = Replace(Current', node', Leaf)
  <2>1. CASE Match
    <3>1. /\ pc = "match" /\ isMatching(tree, node) /\ captured' = Subtree(tree, node)
          /\ pc' = "cut" /\ node' = node /\ ~Insert
      BY <2>1 DEF Match, Insert
    <3>2. Current = tree /\ Current' = Current
      BY <3>1, CurrentSteps DEF Current
    <3>3. QED
      BY <3>1, <3>2
  <2>2. CASE Cut
    <3>1. /\ pc = "cut" /\ tree' = Replace(tree, node, Leaf) /\ captured' = captured
          /\ pc' = "insert" /\ node' = node /\ ~Insert
      BY <2>2 DEF Cut, Insert
    <3>2. Current = tree /\ Current' = Current
      BY <3>1, CurrentSteps DEF Current
    <3>3. captured = Subtree(Current, node) /\ isMatching(Current, node)
      BY <3>1 DEF TreeInv
    <3>4. QED
      BY <3>1, <3>2, <3>3
  <2>3. CASE Insert \/ Visit \/ NoMatch \/ Descend \/ LoopDone \/ Leave \/ Return
    <3>1. pc' \notin {"cut", "insert", "failed"}
      BY <2>3 DEF Insert, Visit, NoMatch, Descend, LoopDone, Leave, Return, AfterNode
    <3>2. QED
      BY <3>1
  <2>4. CASE InsertFails
    <3>1. /\ pc = "insert" /\ pc' = "failed" /\ captured' = captured
          /\ node' = node /\ tree' = tree /\ ~Insert
      BY <2>4 DEF InsertFails, Insert
    <3>2. Current' = Current
      BY <3>1, CurrentSteps
    <3>3. QED
      BY <3>1, <3>2 DEF TreeInv
  <2>5. CASE UNCHANGED vars
    <3>1. /\ pc' = pc /\ captured' = captured /\ node' = node /\ tree' = tree /\ ~Insert
      BY <2>5 DEF vars, Insert, AfterNode
    <3>2. Current' = Current
      BY <3>1, CurrentSteps
    <3>3. QED
      BY <3>1, <3>2 DEF TreeInv
  <2>6. QED
    BY <2>1, <2>2, <2>3, <2>4, <2>5 DEF Next
<1>5. pc' \in {"cut", "insert", "failed"} => isMatching(Current, node)'
  BY <1>1, <1>4 DEF isMatching
<1>6. pc' \in {"cut", "insert", "failed"} => captured' = Subtree(Current', node')
  BY <1>4
<1>7. QED
  BY <1>1, <1>2, <1>3, <1>4, <1>5, <1>6 DEF TreeInv

LEMMA TreeCorrect == Spec => []TreeInv
<1>1. Init => TreeInv
  BY TreeInit
<1>2. TreeInv /\ [Next]_vars => TreeInv'
  BY TreeStep
<1>3. QED
  BY <1>1, <1>2, PTL DEF Spec

\* While the subtree is cut, there is a leaf in its place.
LEMMA CutFacts ==
  ASSUME TreeInv, pc \in {"insert", "failed"}
  PROVE  /\ IsTree(tree) /\ node \in DOMAIN tree /\ tree[node] = plain("leaf", {})
         /\ KeptOutside(Current, node, tree)
         /\ \A p \in DOMAIN tree : IsPrefix(node, p) => p = node
<1> DEFINE C == Current
<1>1. IsTree(C) /\ node \in DOMAIN C /\ tree = Replace(C, node, Leaf) /\ node \in Path
  BY ScheduleFacts DEF TreeInv, IsTree
<1> HIDE DEF C
<1>2. /\ IsTree(tree)
      /\ \A q \in Path : ~IsPrefix(node, q) =>
           /\ q \in DOMAIN tree <=> q \in DOMAIN C
           /\ q \in DOMAIN C => tree[q] = C[q]
      /\ \A q \in Path : /\ node \o q \in DOMAIN tree <=> q \in DOMAIN Leaf
                         /\ q \in DOMAIN Leaf => tree[node \o q] = Leaf[q]
  BY <1>1, LeafFacts, ReplaceFacts
<1>3. node \o <<>> = node /\ <<>> \in Path
  BY <1>1, EmptyPath
<1>4. node \in DOMAIN tree /\ tree[node] = plain("leaf", {})
  BY <1>2, <1>3, LeafFacts
<1>5. ASSUME NEW p \in DOMAIN tree, IsPrefix(node, p) PROVE p = node
  <2>1. p \in Path
    BY <1>2 DEF IsTree
  <2>2. PICK q \in Path : p = node \o q
    BY <1>1, <1>5, <2>1, RestOfPath
  <2>3. q = <<>>
    BY <1>2, <2>2, LeafFacts
  <2>4. QED
    BY <1>3, <2>2, <2>3
<1>6. QED
  BY <1>2, <1>4, <1>5 DEF KeptOutside, C

\* The tree of the running frame is well formed at every moment.
THEOREM TypeCorrect == Spec => []TypeOK
<1>1. TreeInv => TypeOK
  <2> SUFFICES ASSUME TreeInv PROVE TypeOK
    OBVIOUS
  <2> DEFINE C == Current
  <2>1. /\ IsTree(C) /\ node \in DOMAIN C
        /\ \A p \in DOMAIN C : /\ Sensible(C[p])
                               /\ C[p].type = "band" => Append(p, 1) \in DOMAIN C
    BY ScheduleFacts, ScheduleBand DEF TreeInv
  <2>2. CASE pc \in {"insert", "failed"}
    <3>1. /\ IsTree(tree) /\ node \in DOMAIN tree /\ tree[node] = plain("leaf", {})
          /\ KeptOutside(C, node, tree)
          /\ \A p \in DOMAIN tree : IsPrefix(node, p) => p = node
      BY <2>2, CutFacts
    <3> HIDE DEF C
    <3>2. node \in Path /\ DOMAIN tree \subseteq Path
      BY <2>1, <3>1 DEF IsTree
    <3>3. ASSUME NEW p \in DOMAIN tree
          PROVE  /\ tree[p].type = "band" => Append(p, 1) \in DOMAIN tree
                 /\ Len(tree[p].coincident) = Len(tree[p].members)
      <4>1. CASE IsPrefix(node, p)
        <5>1. p = node
          BY <3>1, <4>1
        <5>2. QED
          BY <3>1, <5>1 DEF plain
      <4>2. CASE ~IsPrefix(node, p)
        <5>1. p \in Path /\ p \in DOMAIN C /\ tree[p] = C[p]
          BY <3>1, <3>2, <4>2 DEF KeptOutside
        <5>2. 1 \in Nat \ {0}
          OBVIOUS
        <5>3. Append(p, 1) \in DOMAIN C => Append(p, 1) \in DOMAIN tree
          <6>1. Append(p, 1) \in Path
            BY <5>1, <5>2, AppendPath
          <6>2. IsPrefix(node, Append(p, 1)) => node = Append(p, 1)
            BY <3>2, <4>2, <5>1, <5>2, PrefixOfChild
          <6>3. QED
            BY <3>1, <6>1, <6>2 DEF KeptOutside
        <5>4. QED
          BY <2>1, <5>1, <5>3 DEF Sensible
      <4>3. QED
        BY <4>1, <4>2
    <3>4. QED
      BY <3>1, <3>3 DEF TypeOK, TreeInv
  <2>3. CASE pc \notin {"insert", "failed"}
    <3>1. C = tree
      BY <2>3 DEF Current
    <3>2. QED
      BY <2>1, <3>1 DEF TypeOK, TreeInv, Sensible
  <2>4. QED
    BY <2>2, <2>3
<1>2. QED
  BY <1>1, TreeCorrect, PTL

-----------------------------------------------------------------------------
(***************************************************************************)
(* Permutable bands.                                                       *)
(***************************************************************************)
\* Every band of t that is marked permutable is.
IsSound(t) ==
  \A p \in DOMAIN t : t[p].permutable => NonNegative(t[p].members, NotCarried(t, p))

\* What is rewritten gives no permutable band but the one merging has tested.
LEMMA SoundAfter ==
  ASSUME job \in {"merge", "mark", "layout"},
         NEW t, IsSchedule(t), IsSound(t), NEW v \in DOMAIN t, NEW r, Rewrites(t, v, r)
  PROVE  IsSound(r)
<1>1. /\ IsTree(t) /\ t[v].type = "band" /\ v \in Path
      /\ \A p \in DOMAIN t : Sensible(t[p])
  BY ScheduleFacts, ScheduleBand DEF Rewrites, isMatching
<1>2. IsSchedule(r) /\ v \in DOMAIN r /\ KeptOutside(t, v, r)
  BY RewrittenSchedule
<1>3. DOMAIN r \subseteq Path
  BY <1>2, ScheduleFacts DEF IsTree
<1>4. ASSUME NEW p \in DOMAIN r, ~IsPrefix(v, p), r[p].permutable
      PROVE  NonNegative(r[p].members, NotCarried(r, p))
  <2>1. p \in DOMAIN t /\ r[p] = t[p]
    BY <1>2, <1>3, <1>4 DEF KeptOutside
  <2>2. NotCarried(r, p) = NotCarried(t, p)
    BY <1>1, <1>2, <1>4, <2>1, AboveOutside, SameAbove
  <2>3. QED
    BY <1>4, <2>1, <2>2 DEF IsSound
<1>5. ASSUME NEW a \in Path, NEW b \in Path, Moved(t, v, r, a, b),
             NEW p \in DOMAIN r, IsPrefix(v, p), p \notin Built(v, r, a)
      PROVE  ~r[p].permutable
  <2>1. PICK q \in Path : p = v \o (a \o q)
    BY <1>5 DEF Built
  <2>2. v \o (b \o q) \in DOMAIN t /\ r[p] = Copied(t[v \o (b \o q)])
    BY <1>5, <2>1 DEF Moved
  <2>3. QED
    BY <1>1, <2>2, CopiedFacts
<1>6. <<1>> \in Path /\ <<1>> \o <<1>> \in Path /\ <<>> \in Path
  BY StepPath, EmptyPath, ConcatPath
<1>7. CASE job = "merge"
  <2>1. /\ t[Append(v, 1)].type = "band" /\ canMerge(t, v)
        /\ r = Replace(t, v, mergedBand(Subtree(t, v)))
    BY <1>7 DEF Rewrites, isMatching
  <2>2. /\ Built(v, r, <<1>>) = {v} /\ Moved(t, v, r, <<1>>, <<1>> \o <<1>>)
        /\ r[v].members = t[v].members \o t[Append(v, 1)].members
    <3>1. MergeLooks(t, v, r)
      BY <1>1, <2>1, MergeSchedule
    <3>2. QED
      BY ONLY <3>1 DEF MergeLooks
  <2>3. NonNegative(r[v].members, NotCarried(r, v))
    <3>1. NotCarried(r, v) = NotCarried(t, v)
      BY <1>1, <1>2, AboveOutside, SameAbove
    <3>2. QED
      BY <2>1, <2>2, <3>1 DEF canMerge
  <2>4. QED
    BY <1>4, <1>5, <1>6, <2>2, <2>3 DEF IsSound
<1>8. CASE job = "mark"
  <2> DEFINE flags == detectCoincidence(t, v)
  <2>1. r = Replace(t, v, markedBand(Subtree(t, v), flags)) /\ Len(flags) = Len(t[v].members)
    BY <1>1, <1>8, CoincidenceFacts DEF Rewrites
  <2> HIDE DEF flags
  <2>2. MarkLooks(t, v, flags, r)
    BY ONLY <1>1, <2>1, IsSchedule(t), v \in DOMAIN t, MarkSchedule
  <2>4. /\ Built(v, r, <<1>>) = {v} /\ Moved(t, v, r, <<1>>, <<1>>)
        /\ ~r[v].permutable
    BY ONLY <2>2 DEF MarkLooks
  <2>3. QED
    BY <1>4, <1>5, <1>6, <2>4 DEF IsSound
<1>9. CASE job = "layout"
  <2> DEFINE core == DomainOf(t, v)
  <2>1. r = Replace(t, v, aroundBand(Subtree(t, v), core))
    BY <1>9 DEF Rewrites
  <2> HIDE DEF core
  <2>2. BuiltByLayout(v, core, r)
    BY ONLY <1>1, <2>1, IsSchedule(t), v \in DOMAIN t, LayoutBuilds
  <2>3. Moved(t, v, r, Within3, <<>>) /\ Within3 \in Path
    BY ONLY <1>1, <2>1, IsSchedule(t), v \in DOMAIN t, LayoutSchedule
  <2>4. ASSUME NEW q \in Built(v, r, Within3) PROVE ~r[q].permutable
    <3>1. (\E type, s : r[q] = plain(type, s)) \/ r[q] = band(Zero, FALSE)
      BY ONLY <2>2, <2>4 DEF BuiltByLayout
    <3>2. ~band(Zero, FALSE).permutable
      BY ONLY ZeroBand
    <3>3. ASSUME NEW type, NEW s PROVE ~plain(type, s).permutable
      BY DEF plain
    <3>4. QED
      BY ONLY <3>1, <3>2, <3>3
  <2>5. QED
    BY <1>4, <1>5, <1>6, <2>3, <2>4 DEF IsSound
<1>10. QED
  BY <1>7, <1>8, <1>9

\* A band is marked permutable only if it is, although merging changes the bands
\* below which, and marking and wrapping those around which, it stands.
THEOREM PermutableSound == Spec => []PermutableIsSound
<1> DEFINE Inv == TreeInv /\ IsSound(Current)
<1>1. Init => Inv
  <2> SUFFICES ASSUME Init PROVE Inv
    OBVIOUS
  <2>1. TreeInv /\ Current = original
    BY TreeInit
  <2>2. IsSound(original)
    BY <2>1, OriginalsAssumption DEF TreeInv, IsSound
  <2>3. QED
    BY <2>1, <2>2
<1>2. Inv /\ [Next]_vars => Inv'
  <2> SUFFICES ASSUME Inv, [Next]_vars PROVE Inv'
    OBVIOUS
  <2>1. TreeInv'
    BY TreeStep
  <2>2. IsSound(Current')
    <3>1. CASE Insert
      <4>1. Rewrites(Current, node, Current')
        BY <3>1, CurrentSteps
      <4>2. QED
        BY <4>1, SoundAfter DEF TreeInv
    <3>2. CASE ~Insert
      BY <3>2, CurrentSteps
    <3>3. QED
      BY <3>1, <3>2
  <2>3. QED
    BY <2>1, <2>2 DEF IsSound
<1>3. Inv => PermutableIsSound
  <2> SUFFICES ASSUME Inv PROVE PermutableIsSound
    OBVIOUS
  <2> DEFINE C == Current
  <2>1. CASE pc \in {"insert", "failed"}
    <3>1. /\ node \in DOMAIN tree /\ tree[node] = plain("leaf", {})
          /\ KeptOutside(C, node, tree) /\ IsTree(tree)
          /\ \A p \in DOMAIN tree : IsPrefix(node, p) => p = node
      BY <2>1, CutFacts
    <3>2. IsTree(C) /\ node \in DOMAIN C /\ IsSound(C)
      BY ScheduleFacts DEF TreeInv
    <3> HIDE DEF C
    <3>3. ASSUME NEW p \in DOMAIN tree, tree[p].permutable
          PROVE  NonNegative(tree[p].members, NotCarried(tree, p))
      <4>1. ~IsPrefix(node, p)
        BY <3>1, <3>3 DEF plain
      <4>2. p \in DOMAIN C /\ tree[p] = C[p]
        BY <3>1, <4>1 DEF KeptOutside, IsTree
      <4>3. NotCarried(tree, p) = NotCarried(C, p)
        BY <3>1, <3>2, <4>1, <4>2, AboveOutside, SameAbove
      <4>4. QED
        BY <3>2, <3>3, <4>2, <4>3 DEF IsSound
    <3>4. QED
      BY <3>3 DEF PermutableIsSound
  <2>2. CASE pc \notin {"insert", "failed"}
    BY <2>2 DEF Current, IsSound, PermutableIsSound
  <2>3. QED
    BY <2>1, <2>2
<1>4. QED
  <2>1. Spec => []Inv
    BY <1>1, <1>2, PTL DEF Spec
  <2>2. QED
    BY <1>3, <2>1, PTL

-----------------------------------------------------------------------------
(***************************************************************************)
(* The visit in preorder.                                                  *)
(***************************************************************************)
EarlierChild(p) == IsStrictPrefix(node, p) /\ p[Len(node) + 1] < i

\* The nodes at which the matcher has been tried for the last time.
Visited(p) ==
  \/ pc \in {"visit", "match", "cut", "insert", "failed"} /\ Before(p, node)
  \/ pc = "loop" /\ (Before(p, node) \/ p = node \/ EarlierChild(p))
  \/ pc = "leave" /\ (Before(p, node) \/ IsPrefix(node, p))
  \/ pc = "done"

\* Nothing below a node is left when its loop is over.
LEMMA LoopCovers ==
  ASSUME NEW t, IsTree(t), NEW v \in DOMAIN t, NEW j \in Nat,
         j > Cardinality(children(v, t)), NEW p \in DOMAIN t, IsPrefix(v, p)
  PROVE  p = v \/ (IsStrictPrefix(v, p) /\ p[Len(v) + 1] < j)
<1>1. v \in Path /\ p \in Path
  BY DEF IsTree
<1>2. /\ Cardinality(children(v, t)) \in Nat
      /\ children(v, t) = 1..Cardinality(children(v, t))
  BY <1>1, ChildNumbers
<1>3. CASE IsStrictPrefix(v, p)
  <2>1. p[Len(v) + 1] \in children(v, t)
    BY <1>1, <1>3, StepBelow
  <2> DEFINE n == Cardinality(children(v, t))
             c == p[Len(v) + 1]
  <2>2. n \in Nat /\ c \in 1..n /\ j > n
    BY <1>2, <2>1
  <2> HIDE DEF n
  <2>3. c < j
    BY <2>2
  <2>4. QED
    BY <1>3, <2>3
<1>4. CASE ~IsStrictPrefix(v, p)
  BY <1>4 DEF IsStrictPrefix
<1>5. QED
  BY <1>3, <1>4

\* Before the i-th child come the node, what is before it, and its earlier children.
LEMMA ParentCovers ==
  ASSUME NEW v \in Path, NEW j \in Nat \ {0}, NEW p \in Path
  PROVE  \/ Before(p, v) \/ p = v \/ (IsStrictPrefix(v, p) /\ p[Len(v) + 1] < j + 1)
         <=> Before(p, Append(v, j)) \/ IsPrefix(Append(v, j), p)
<1>1. Before(p, Append(v, j))
        <=> Before(p, v) \/ p = v \/ (IsStrictPrefix(v, p) /\ p[Len(v) + 1] < j)
  BY BeforeChild
<1>2. IsPrefix(Append(v, j), p) <=> IsStrictPrefix(v, p) /\ p[Len(v) + 1] = j
  BY BelowChild
<1>3. IsStrictPrefix(v, p) => p[Len(v) + 1] \in Nat
  <2>1. SUFFICES ASSUME IsStrictPrefix(v, p) PROVE p[Len(v) + 1] \in Nat
    OBVIOUS
  <2>2. Len(v) < Len(p) /\ Len(v) \in Nat /\ Len(p) \in Nat
    BY <2>1, StrictPrefixFacts, PathFacts
  <2>3. Len(v) + 1 \in 1..Len(p)
    BY <2>2
  <2>4. QED
    BY <2>3, PathFacts
<1>4. IsStrictPrefix(v, p) =>
        (p[Len(v) + 1] < j + 1 <=> p[Len(v) + 1] < j \/ p[Len(v) + 1] = j)
  BY <1>3
<1>5. QED
  BY <1>1, <1>2, <1>4

\* A step of a preorder job adds the node that does not match, or is rewritten.
LEMMA VisitedSteps ==
  ASSUME TreeInv, [Next]_vars, preorder, NEW p \in DOMAIN Current', Visited(p)'
  PROVE  \/ Visited(p)
         \/ p = node /\ pc = "match" /\ ~isMatching(Current, node) /\ Current' = Current
         \/ p = node /\ Insert /\ job = "mark"
<1>1. /\ IsTree(Current) /\ node \in DOMAIN Current /\ node \in Path /\ i \in Nat \ {0}
      /\ pc = "done" => node = <<>>
  BY ScheduleFacts DEF TreeInv, IsTree
<1>2. p \in Path
  <2>1. IsTree(Current')
    BY TreeStep, ScheduleFacts DEF TreeInv
  <2>2. QED
    BY <2>1 DEF IsTree
<1>3. ASSUME i' = 1, node' = node PROVE ~EarlierChild(p)'
  <2>1. SUFFICES ASSUME IsStrictPrefix(node, p), p[Len(node) + 1] < 1 PROVE FALSE
    BY <1>3 DEF EarlierChild
  <2>2. Len(node) < Len(p) /\ Len(node) \in Nat /\ Len(p) \in Nat
    BY <1>1, <1>2, <2>1, StrictPrefixFacts, PathFacts
  <2>3. Len(node) + 1 \in 1..Len(p)
    BY <2>2
  <2>4. p[Len(node) + 1] \in Nat \ {0}
    BY <1>2, <2>3, PathFacts
  <2>5. QED
    BY <2>1, <2>4
<1>4. CASE Visit \/ Match \/ Cut \/ InsertFails
  <2>1. /\ pc \in {"visit", "match", "cut", "insert"}
        /\ pc' \in {"match", "cut", "insert", "failed"}
        /\ node' = node
    BY <1>4 DEF Visit, Match, Cut, InsertFails
  <2>2. QED
    BY <2>1 DEF Visited
<1>5. CASE NoMatch
  <2>1. /\ pc = "match" /\ ~isMatching(tree, node) /\ pc' = "loop" /\ node' = node
        /\ i' = 1 /\ ~Insert
    BY <1>5 DEF NoMatch, AfterNode, Insert
  <2>2. Current = tree /\ Current' = Current
    BY <2>1, CurrentSteps DEF Current
  <2>3. Before(p, node) \/ p = node
    BY <1>3, <2>1 DEF Visited
  <2>4. QED
    BY <2>1, <2>2, <2>3 DEF Visited
<1>6. CASE Insert
  <2>1. /\ pc = "insert" /\ node' = node /\ i' = 1
        /\ pc' = IF job = "merge" THEN "match" ELSE "loop"
    BY <1>6 DEF Insert, AfterNode
  <2>2. Before(p, node) \/ (p = node /\ job # "merge")
    BY <1>3, <2>1 DEF Visited
  <2>3. QED
    BY <1>6, <2>1, <2>2 DEF Visited, preorder
<1>7. CASE Descend
  <2>1. pc = "loop" /\ pc' = "visit" /\ node' = Append(node, i)
    BY <1>7 DEF Descend
  <2>2. Before(p, Append(node, i))
    BY <2>1 DEF Visited
  <2>3. Before(p, node) \/ p = node \/ EarlierChild(p)
    BY <1>1, <1>2, <2>2, BeforeChild DEF EarlierChild
  <2>4. QED
    BY <2>1, <2>3 DEF Visited
<1>8. CASE LoopDone
  <2>1. pc = "loop" /\ pc' = "leave" /\ node' = node /\ i > nChildren /\ ~Insert
    BY <1>8 DEF LoopDone, Insert
  <2>2. Current = tree /\ Current' = Current
    BY <2>1, CurrentSteps DEF Current
  <2>3. Before(p, node) \/ IsPrefix(node, p)
    BY <2>1 DEF Visited
  <2>4. IsPrefix(node, p) => p = node \/ EarlierChild(p)
    BY <1>1, <2>1, <2>2, LoopCovers DEF nChildren, EarlierChild
  <2>5. QED
    BY <2>1, <2>3, <2>4 DEF Visited
<1>9. CASE Leave
  <2>1. /\ pc = "leave" /\ node # <<>> /\ node' = Front(node) /\ i' = Last(node) + 1
        /\ pc' = "loop"
    BY <1>9 DEF Leave
  <2> DEFINE v == Front(node)
             j == Last(node)
  <2>2. v \in Path /\ j \in Nat \ {0} /\ node = Append(v, j)
    BY <1>1, <2>1, ParentPath
  <2>3. \/ Before(p, v) \/ p = v \/ (IsStrictPrefix(v, p) /\ p[Len(v) + 1] < j + 1)
    BY <2>1 DEF Visited, EarlierChild
  <2> HIDE DEF v, j
  <2>4. Before(p, node) \/ IsPrefix(node, p)
    BY <1>2, <2>2, <2>3, ParentCovers
  <2>5. QED
    BY <2>1, <2>4 DEF Visited
<1>10. CASE Return
  <2>1. pc = "leave" /\ node = <<>>
    BY <1>10 DEF Return
  <2>2. IsPrefix(node, p)
    BY <1>2, <2>1, PrefixFacts, EmptyPath, PathFacts
  <2>3. QED
    BY <2>1, <2>2 DEF Visited
<1>11. CASE UNCHANGED vars
  BY <1>11 DEF vars, Visited, EarlierChild
<1>12. QED
  BY <1>4, <1>5, <1>6, <1>7, <1>8, <1>9, <1>10, <1>11 DEF Next

\* A node visited before v is outside v.
LEMMA BeforeIsOutside ==
  ASSUME NEW p \in Path, NEW v \in Path, Before(p, v)
  PROVE  ~IsPrefix(v, p)
<1>1. SUFFICES ASSUME IsPrefix(v, p) PROVE FALSE
  OBVIOUS
<1>2. p # v
  BY BeforeIsStrict
<1>3. IsStrictPrefix(v, p)
  BY <1>1, <1>2 DEF IsStrictPrefix
<1>4. Before(v, p)
  BY <1>3 DEF Before
<1>5. QED
  BY <1>4, BeforeIsStrict, BeforeIsTransitive

LEMMA NonNegativeParts ==
  ASSUME NEW a \in Seq([Deps -> Int]), NEW b \in Seq([Deps -> Int]),
         NEW c \in Seq([Deps -> Int]), NEW deps, NonNegative(a \o (b \o c), deps)
  PROVE  NonNegative(a \o b, deps)
<1>1. /\ Len(a) \in Nat /\ Len(b) \in Nat /\ Len(c) \in Nat
      /\ b \o c \in Seq([Deps -> Int]) /\ Len(b \o c) = Len(b) + Len(c)
      /\ \A k \in 1..(Len(b) + Len(c)) :
           (b \o c)[k] = IF k <= Len(b) THEN b[k] ELSE c[k - Len(b)]
  BY ConcatProperties, LenProperties
<1> DEFINE y == b \o c
           x == a \o y
           z == a \o b
<1> HIDE DEF y
<1>2. /\ Len(x) = Len(a) + Len(y)
      /\ \A k \in 1..(Len(a) + Len(y)) :
           x[k] = IF k <= Len(a) THEN a[k] ELSE y[k - Len(a)]
  BY <1>1, ConcatProperties DEF y
<1>3. /\ Len(z) = Len(a) + Len(b)
      /\ \A k \in 1..(Len(a) + Len(b)) :
           z[k] = IF k <= Len(a) THEN a[k] ELSE b[k - Len(a)]
  BY ConcatProperties
<1>4. NonNegative(x, deps)
  BY DEF y
<1> HIDE DEF x, z
<1>5. Len(y) = Len(b) + Len(c)
  BY <1>1 DEF y
<1>6. ASSUME NEW k \in 1..Len(z) PROVE k \in 1..Len(x) /\ x[k] = z[k]
  <2>1. k \in 1..(Len(a) + Len(b)) /\ k \in 1..(Len(a) + Len(y))
    BY <1>1, <1>3, <1>5
  <2>2. k > Len(a) => y[k - Len(a)] = b[k - Len(a)]
    <3>1. k > Len(a) => k - Len(a) \in 1..Len(b) /\ k - Len(a) \in 1..(Len(b) + Len(c))
      BY <1>1, <2>1
    <3>2. QED
      BY <1>1, <3>1 DEF y
  <2>3. k \in 1..Len(x)
    BY ONLY <1>2, <2>1
  <2>4. x[k] = IF k <= Len(a) THEN a[k] ELSE y[k - Len(a)]
    BY ONLY <1>2, <2>1
  <2>5. z[k] = IF k <= Len(a) THEN a[k] ELSE b[k - Len(a)]
    BY ONLY <1>3, <2>1
  <2>6. k <= Len(a) \/ k > Len(a)
    BY ONLY <1>1, <2>1
  <2>7. QED
    BY ONLY <2>2, <2>3, <2>4, <2>5, <2>6
<1>7. NonNegative(z, deps)
  BY <1>4, <1>6 DEF NonNegative
<1>8. QED
  BY <1>7 DEF z

\* Merging a band with its child does not let its parent be merged with it, as the
\* members that stand in the way are still there.
LEMMA StillNotMatching ==
  ASSUME job = "merge", NEW t, IsSchedule(t), NEW v \in DOMAIN t, NEW r,
         Rewrites(t, v, r), NEW p \in DOMAIN r, Before(p, v), isMatching(r, p)
  PROVE  p \in DOMAIN t /\ isMatching(t, p)
<1>1. t[v].type = "band" /\ t[Append(v, 1)].type = "band"
      /\ r = Replace(t, v, mergedBand(Subtree(t, v)))
  BY DEF Rewrites, isMatching
<1>2. MergeLooks(t, v, r)
  BY <1>1, MergeSchedule
<1>3. /\ IsSchedule(r) /\ KeptOutside(t, v, r) /\ r[v].type = "band"
      /\ r[v].members = t[v].members \o t[Append(v, 1)].members
  BY <1>2 DEF MergeLooks
<1>4. /\ IsTree(t) /\ v \in Path /\ p \in Path
      /\ \A q \in DOMAIN t : Sensible(t[q])
  BY <1>3, ScheduleFacts DEF IsTree
<1>5. ~IsPrefix(v, p)
  BY <1>4, BeforeIsOutside
<1>6. p \in DOMAIN t /\ r[p] = t[p]
  BY <1>3, <1>4, <1>5 DEF KeptOutside
<1>7. NotCarried(r, p) = NotCarried(t, p)
  BY <1>3, <1>4, <1>5, <1>6, AboveOutside, SameAbove
<1> DEFINE c == Append(p, 1)
<1>8. r[p].type = "band" /\ r[c].type = "band" /\ canMerge(r, p)
  BY DEF isMatching
<1>9. c \in DOMAIN t
  BY <1>6, <1>8, ScheduleBand
<1>10. c \in Path
  BY <1>4, <1>9 DEF IsTree
<1>11. CASE c = v
  <2>1. NonNegative(t[p].members \o (t[v].members \o t[Append(v, 1)].members),
                    NotCarried(t, p))
    BY <1>3, <1>6, <1>7, <1>8, <1>11 DEF canMerge
  <2>2. /\ t[p].members \in Seq([Deps -> Int]) /\ t[v].members \in Seq([Deps -> Int])
        /\ t[Append(v, 1)].members \in Seq([Deps -> Int])
    BY <1>1, <1>4, <1>6, ScheduleBand DEF Sensible
  <2>3. NonNegative(t[p].members \o t[v].members, NotCarried(t, p))
    BY <2>1, <2>2, NonNegativeParts
  <2>4. QED
    BY <1>1, <1>6, <1>8, <1>11, <2>3 DEF isMatching, canMerge
<1>12. CASE c # v
  <2>1. ~IsPrefix(v, c)
    BY <1>4, <1>5, <1>12, PrefixOfChild
  <2>2. r[c] = t[c]
    BY <1>3, <1>9, <1>10, <2>1 DEF KeptOutside
  <2>3. QED
    BY <1>6, <1>7, <1>8, <2>2 DEF isMatching, canMerge
<1>13. QED
  BY <1>11, <1>12

\* Visited nodes do not match, or have been marked.
PreorderInv ==
  \A p \in DOMAIN Current : Visited(p) =>
    /\ job = "merge" => ~isMatching(Current, p)
    /\ job = "mark" /\ Current[p].type = "band" =>
         Current[p].coincident = detectCoincidence(Current, p)

LEMMA PreorderStep ==
  ASSUME TreeInv, PreorderInv, [Next]_vars
  PROVE  PreorderInv'
<1>1. SUFFICES ASSUME preorder, NEW p \in DOMAIN Current', Visited(p)'
               PROVE  /\ job' = "merge" => ~isMatching(Current, p)'
                      /\ job' = "mark" /\ (Current')[p].type = "band" =>
                           (Current')[p].coincident = detectCoincidence(Current', p)
  <2>1. job' = job
    BY JobIsKept
  <2>2. QED
    BY <2>1 DEF PreorderInv, preorder
<1>2. job' = job
  BY JobIsKept
<1>3. /\ isMatching(Current, p)' <=> isMatching(Current', p)
  BY <1>2 DEF isMatching
<1>4. \/ Visited(p)
      \/ p = node /\ pc = "match" /\ ~isMatching(Current, node) /\ Current' = Current
      \/ p = node /\ Insert /\ job = "mark"
  BY <1>1, VisitedSteps
<1>5. CASE ~Insert
  <2>1. Current' = Current
    BY <1>5, CurrentSteps
  <2>2. CASE Visited(p)
    BY <1>1, <1>2, <1>3, <2>1, <2>2 DEF PreorderInv
  <2>3. CASE p = node /\ ~isMatching(Current, node)
    <3>1. job = "mark" => Current[p].type # "band"
      BY <2>3 DEF isMatching
    <3>2. QED
      BY <1>2, <1>3, <2>1, <2>3, <3>1
  <2>4. QED
    BY <1>4, <1>5, <2>2, <2>3
<1>6. CASE Insert
  <2> DEFINE t == Current
             r == Current'
             v == node
  <2>1. Rewrites(t, v, r) /\ IsSchedule(t) /\ v \in DOMAIN t /\ pc = "insert"
    BY <1>6, CurrentSteps DEF TreeInv, Insert
  <2>2. Visited(p) \/ (p = v /\ job = "mark")
    BY <1>4, <1>6 DEF Insert
  <2>3. Visited(p) <=> Before(p, v)
    BY <2>1 DEF Visited
  <2>4. \A q \in DOMAIN t : Visited(q) =>
          /\ job = "merge" => ~isMatching(t, q)
          /\ job = "mark" /\ t[q].type = "band" =>
               t[q].coincident = detectCoincidence(t, q)
    BY DEF PreorderInv
  <2>5. p \in DOMAIN r
    OBVIOUS
  <2>6. job \in {"merge", "mark", "layout"}
    BY DEF TreeInv
  <2> HIDE DEF t, r, v
  <2>7. CASE job = "merge"
    <3>1. Before(p, v)
      BY <2>2, <2>3, <2>7
    <3>2. ~isMatching(r, p)
      BY <2>1, <2>3, <2>4, <2>5, <2>7, <3>1, StillNotMatching
    <3>3. QED
      BY <1>2, <1>3, <2>7, <3>2 DEF r
  <2>8. CASE job = "mark"
    <3>1. /\ IsSchedule(r) /\ v \in DOMAIN r /\ KeptOutside(t, v, r)
          /\ IsTree(t) /\ v \in Path /\ p \in Path /\ t[v].type = "band"
      BY <2>1, <2>5, <2>6, RewrittenSchedule, ScheduleFacts DEF IsTree, Rewrites, isMatching
    <3>2. CASE p = v
      <4> DEFINE flags == detectCoincidence(t, v)
      <4>1. r = Replace(t, v, markedBand(Subtree(t, v), flags))
        BY <2>1, <2>8 DEF Rewrites
      <4>2. Len(flags) = Len(t[v].members)
        BY <2>1, <3>1, ScheduleBand, CoincidenceFacts
      <4> HIDE DEF flags
      <4>3. MarkLooks(t, v, flags, r)
        BY ONLY <2>1, <3>1, <4>1, <4>2, MarkSchedule
      <4>4. r[v].coincident = flags /\ r[v].members = t[v].members
        BY ONLY <4>3 DEF MarkLooks
      <4>5. Within(r, v) = Within(t, v)
        BY ONLY <2>1, <3>1, AboveOutside, SameAbove
      <4>6. r[v].coincident = detectCoincidence(r, v)
        BY <4>4, <4>5 DEF detectCoincidence, flags
      <4>7. QED
        BY <1>2, <2>8, <3>2, <4>6 DEF r
    <3>3. CASE Before(p, v)
      <4>1. ~IsPrefix(v, p)
        BY <3>1, <3>3, BeforeIsOutside
      <4>2. p \in DOMAIN t /\ r[p] = t[p]
        BY <2>5, <3>1, <4>1 DEF KeptOutside
      <4>3. Within(r, p) = Within(t, p)
        BY ONLY <2>1, <3>1, <4>1, <4>2, AboveOutside, SameAbove
      <4>4. t[p].type = "band" => t[p].coincident = detectCoincidence(t, p)
        BY <2>3, <2>4, <2>8, <3>3, <4>2
      <4>5. detectCoincidence(r, p) = detectCoincidence(t, p)
        BY <4>2, <4>3 DEF detectCoincidence
      <4>6. r[p].type = "band" => r[p].coincident = detectCoincidence(r, p)
        BY <4>2, <4>4, <4>5
      <4>7. QED
        BY <1>2, <2>8, <4>6 DEF r
    <3>4. QED
      BY <2>2, <2>3, <3>2, <3>3
  <2>9. QED
    BY <1>1, <2>7, <2>8 DEF preorder
<1>7. QED
  BY <1>5, <1>6

LEMMA NothingVisited ==
  ASSUME Init, NEW p \in DOMAIN Current
  PROVE  ~Visited(p)
<1>1. TreeInv /\ node = <<>> /\ pc = "visit"
  BY TreeInit DEF Init
<1>2. p \in Path /\ <<>> \in Path
  BY <1>1, ScheduleFacts, EmptyPath DEF TreeInv, IsTree
<1>3. IsPrefix(<<>>, p)
  BY <1>2, PrefixFacts, EmptyPath, PathFacts
<1>4. ~Before(p, <<>>)
  BY <1>2, <1>3, BeforeIsOutside
<1>5. QED
  BY <1>1, <1>4 DEF Visited

LEMMA PreorderCorrect == Spec => [](TreeInv /\ PreorderInv)
<1>1. Init => TreeInv /\ PreorderInv
  <2> SUFFICES ASSUME Init PROVE TreeInv /\ PreorderInv
    OBVIOUS
  <2>1. TreeInv /\ Current = original /\ node = <<>> /\ pc = "visit"
    BY TreeInit DEF Init
  <2>2. \A p \in DOMAIN Current : ~Visited(p)
    BY NothingVisited
  <2>3. QED
    BY <2>1, <2>2 DEF PreorderInv
<1>2. TreeInv /\ PreorderInv /\ [Next]_vars => (TreeInv /\ PreorderInv)'
  BY TreeStep, PreorderStep
<1>3. QED
  BY <1>1, <1>2, PTL DEF Spec

\* One pass in preorder merges all that can be merged.
THEOREM MergeComplete == Spec => []NothingLeftToMerge
<1>1. TreeInv /\ PreorderInv => NothingLeftToMerge
  BY DEF PreorderInv, NothingLeftToMerge, Visited, Current
<1>2. QED
  BY <1>1, PreorderCorrect, PTL

\* A marking that completes has marked every band, in one pass in preorder.
THEOREM MarkingComplete == Spec => []EveryBandIsMarked
<1>1. TreeInv /\ PreorderInv => EveryBandIsMarked
  BY DEF PreorderInv, EveryBandIsMarked, Visited, Current
<1>2. QED
  BY <1>1, PreorderCorrect, PTL

-----------------------------------------------------------------------------
(***************************************************************************)
(* Whether marking fails.                                                  *)
(***************************************************************************)
\* s is t but for the properties of its bands.
SameShape(s, t) ==
  /\ DOMAIN s = DOMAIN t
  /\ \A p \in DOMAIN t : /\ s[p].type = t[p].type /\ s[p].members = t[p].members
                         /\ t[p].type # "band" => s[p].stmts = t[p].stmts

LEMMA DomainMembers ==
  ASSUME NEW t, NEW v, NEW x
  PROVE  x \in DomainOf(t, v) <=>
           \E p \in Above(v) :
             /\ t[p].type \in {"domain", "extension"} /\ x \in t[p].stmts
             /\ \A q \in Above(v) :
                  IsStrictPrefix(p, q) => (t[q].type = "filter" => x \in t[q].stmts)
BY DEF DomainOf

LEMMA SameShapeFails ==
  ASSUME NEW s, NEW t, IsTree(t), SameShape(s, t), NEW v \in DOMAIN t
  PROVE  CoincidenceFails(s, v) <=> CoincidenceFails(t, v)
<1>1. ASSUME NEW p \in Above(v)
      PROVE  /\ s[p].type = t[p].type
             /\ t[p].type # "band" => s[p].stmts = t[p].stmts
  <2>1. v \in Path
    BY DEF IsTree
  <2>2. p \in Path /\ IsPrefix(p, v)
    BY <2>1, AboveFacts DEF IsStrictPrefix
  <2>3. p \in DOMAIN t
    BY <2>1, <2>2, TreeIsClosed
  <2>4. QED
    BY <2>3 DEF SameShape
<1>2. ASSUME NEW x PROVE x \in DomainOf(s, v) <=> x \in DomainOf(t, v)
  BY <1>1, DomainMembers
<1>3. DomainOf(s, v) = DomainOf(t, v)
  BY <1>2 DEF DomainOf
<1>4. s[v].members = t[v].members
  BY DEF SameShape
<1>5. QED
  BY <1>3, <1>4 DEF CoincidenceFails, Within

LEMMA SameShapeTransitive ==
  ASSUME NEW s, NEW t, NEW u, SameShape(s, t), SameShape(t, u)
  PROVE  SameShape(s, u)
BY DEF SameShape

\* Marking changes nothing but properties of bands.
LEMMA MarkedShape ==
  ASSUME NEW t, IsSchedule(t), NEW v \in DOMAIN t, t[v].type = "band",
         NEW flags, NEW r, MarkLooks(t, v, flags, r)
  PROVE  SameShape(r, t)
<1>1. /\ IsTree(t) /\ IsTree(r) /\ v \in Path /\ children(v, t) = {1}
      /\ \A q \in DOMAIN t : Sensible(t[q])
  BY ScheduleFacts DEF MarkLooks, IsTree
<1>2. /\ Built(v, r, <<1>>) = {v} /\ KeptOutside(t, v, r) /\ Moved(t, v, r, <<1>>, <<1>>)
      /\ v \in DOMAIN r /\ r[v].members = t[v].members /\ r[v].type = "band"
  BY DEF MarkLooks
<1>3. Append(v, 1) = v \o <<1>> /\ <<1>> \in Path
  BY ScheduleBand, StepPath
<1>4. DOMAIN t \subseteq Path /\ DOMAIN r \subseteq Path
  BY <1>1 DEF IsTree
<1>5. ASSUME NEW p \in Path
      PROVE  /\ p \in DOMAIN r <=> p \in DOMAIN t
             /\ p \in DOMAIN t => /\ r[p].type = t[p].type /\ r[p].members = t[p].members
                                  /\ t[p].type # "band" => r[p].stmts = t[p].stmts
  <2>1. CASE ~IsPrefix(v, p)
    BY <1>2, <2>1 DEF KeptOutside
  <2>2. CASE p = v
    BY <1>2, <2>2
  <2>3. CASE \E u \in Path : p = v \o (<<1>> \o u)
    <3>1. /\ p \in DOMAIN r <=> p \in DOMAIN t
          /\ p \in DOMAIN t => r[p] = Copied(t[p])
      BY <1>2, <2>3 DEF Moved
    <3>2. QED
      BY <1>1, <3>1, CopiedFacts
  <2>4. CASE IsPrefix(v, p) /\ p # v /\ ~\E u \in Path : p = v \o (<<1>> \o u)
    <3>1. p \notin DOMAIN r
      BY <1>2, <2>4 DEF Built
    <3>2. ASSUME p \in DOMAIN t PROVE FALSE
      <4>1. IsStrictPrefix(v, p)
        BY <2>4 DEF IsStrictPrefix
      <4>2. p[Len(v) + 1] = 1
        BY <1>1, <3>2, <4>1, StepBelow
      <4>3. 1 \in Nat \ {0}
        OBVIOUS
      <4>4. IsPrefix(Append(v, 1), p) /\ Append(v, 1) \in Path
        BY <1>1, <4>1, <4>2, <4>3, BelowChild, AppendPath
      <4>5. PICK u \in Path : p = (v \o <<1>>) \o u
        BY <1>3, <4>4, RestOfPath
      <4>6. p = v \o (<<1>> \o u)
        BY <1>1, <1>3, <4>5, ConcatAgain
      <4>7. QED
        BY <2>4, <4>6
    <3>3. QED
      BY <3>1, <3>2
  <2>5. QED
    BY <2>1, <2>2, <2>3, <2>4
<1>6. QED
  BY <1>4, <1>5 DEF SameShape

\* The bands marked so far could be, and where marking failed it had to.
MarkInv ==
  job = "mark" =>
    /\ SameShape(Current, original)
    /\ \A p \in DOMAIN original :
         Visited(p) /\ original[p].type = "band" => ~CoincidenceFails(original, p)
    /\ pc = "failed" => CoincidenceFails(original, node)

LEMMA MarkStep ==
  ASSUME TreeInv, MarkInv, [Next]_vars
  PROVE  MarkInv'
<1>1. SUFFICES ASSUME job = "mark" PROVE MarkInv'
  BY JobIsKept DEF MarkInv
<1> DEFINE C == Current
           D == Current'
           o == original
<1>2. /\ IsSchedule(C) /\ node \in DOMAIN C /\ SameShape(C, o)
      /\ \A p \in DOMAIN o : Visited(p) /\ o[p].type = "band" => ~CoincidenceFails(o, p)
      /\ pc = "failed" => CoincidenceFails(o, node)
  BY <1>1 DEF TreeInv, MarkInv
<1>3. IsTree(o) /\ job' = job /\ original' = o
  BY JobIsKept, OriginalsAssumption, ScheduleFacts DEF TreeInv
<1>4. node \in DOMAIN o /\ (CoincidenceFails(C, node) <=> CoincidenceFails(o, node))
  <2>1. node \in DOMAIN o
    BY <1>2 DEF SameShape
  <2> HIDE DEF C, o
  <2>2. QED
    BY <1>2, <1>3, <2>1, SameShapeFails
<1>5. BuilderFails /\ pc = "insert" <=> pc = "insert" /\ CoincidenceFails(C, node)
  BY <1>1 DEF BuilderFails, Whole, Current
<1>6. SameShape(D, o)
  <2>1. CASE Insert
    <3> DEFINE flags == detectCoincidence(C, node)
    <3>1. /\ C[node].type = "band"
          /\ D = Replace(C, node, markedBand(Subtree(C, node), flags))
      BY <1>1, <2>1, CurrentSteps DEF Rewrites, isMatching
    <3> HIDE DEF C, D
    <3>2. Len(flags) = Len(C[node].members)
      BY <1>2, <3>1, ScheduleBand, CoincidenceFacts
    <3> HIDE DEF flags
    <3>3. MarkLooks(C, node, flags, D)
      BY ONLY <1>2, <3>1, <3>2, MarkSchedule
    <3>4. SameShape(D, C)
      BY ONLY <1>2, <3>1, <3>3, MarkedShape
    <3> HIDE DEF o
    <3>5. QED
      BY <1>2, <3>4, SameShapeTransitive
  <2>2. CASE ~Insert
    BY <1>2, <2>2, CurrentSteps
  <2>3. QED
    BY <2>1, <2>2
<1>7. ASSUME NEW p \in DOMAIN o, Visited(p)', o[p].type = "band"
      PROVE  ~CoincidenceFails(o, p)
  <2>1. p \in DOMAIN D
    BY <1>6 DEF SameShape
  <2>2. \/ Visited(p)
        \/ p = node /\ ~isMatching(C, node)
        \/ p = node /\ Insert
    BY <1>1, <1>7, <2>1, VisitedSteps DEF preorder
  <2>3. CASE Visited(p)
    BY <1>2, <1>7, <2>3
  <2>4. CASE p = node /\ ~isMatching(C, node)
    <3>1. C[node].type = "band"
      BY <1>2, <1>7, <2>4 DEF SameShape
    <3>2. QED
      BY <1>1, <2>4, <3>1 DEF isMatching
  <2>5. CASE p = node /\ Insert
    <3>1. pc = "insert" /\ ~BuilderFails
      BY <2>5 DEF Insert
    <3>2. QED
      BY <1>4, <1>5, <2>5, <3>1
  <2>6. QED
    BY <2>2, <2>3, <2>4, <2>5
<1>8. pc' = "failed" => CoincidenceFails(o, node')
  <2>1. CASE InsertFails
    BY <1>4, <1>5, <2>1 DEF InsertFails
  <2>2. CASE UNCHANGED vars
    BY <1>2, <2>2 DEF vars
  <2>3. CASE Visit \/ Match \/ NoMatch \/ Cut \/ Insert \/ Descend \/ LoopDone \/ Leave
               \/ Return
    <3>1. pc' # "failed"
      BY <2>3 DEF Visit, Match, NoMatch, Cut, Insert, Descend, LoopDone, Leave, Return,
                  AfterNode
    <3>2. QED
      BY <3>1
  <2>4. QED
    BY <2>1, <2>2, <2>3 DEF Next
<1>9. QED
  BY <1>3, <1>6, <1>7, <1>8 DEF MarkInv

\* Only a builder of marking fails.
FailInv == pc = "failed" => job = "mark"

\* Marking fails if and only if, in a program with dependences, there are none
\* between the statements of some band (detectCoincidence makes a set of the union
\* of their distances), whatever order the bands are replaced in.
THEOREM MarkingFails == Spec => []FailsOnUnrelated
<1>1. Init => TreeInv /\ MarkInv /\ FailInv
  <2> SUFFICES ASSUME Init PROVE TreeInv /\ MarkInv /\ FailInv
    OBVIOUS
  <2>1. TreeInv /\ Current = original /\ node = <<>> /\ pc = "visit"
    BY TreeInit DEF Init
  <2>2. \A p \in DOMAIN Current : ~Visited(p)
    BY NothingVisited
  <2>3. SameShape(Current, original)
    BY <2>1 DEF SameShape
  <2>4. QED
    BY <2>1, <2>2, <2>3 DEF MarkInv, FailInv
<1>2. TreeInv /\ MarkInv /\ FailInv /\ [Next]_vars => (TreeInv /\ MarkInv /\ FailInv)'
  <2> SUFFICES ASSUME TreeInv, MarkInv, FailInv, [Next]_vars
               PROVE  (TreeInv /\ MarkInv /\ FailInv)'
    OBVIOUS
  <2>1. FailInv'
    BY DEF FailInv, Next, vars, Visit, Match, NoMatch, Cut, Insert, InsertFails,
           BuilderFails, Descend, LoopDone, Leave, Return, AfterNode
  <2>2. QED
    BY <2>1, TreeStep, MarkStep
<1>3. TreeInv /\ MarkInv /\ FailInv => FailsOnUnrelated
  <2> SUFFICES ASSUME TreeInv, MarkInv, FailInv PROVE FailsOnUnrelated
    OBVIOUS
  <2> DEFINE o == original
  <2>1. ASSUME NEW p \in DOMAIN o, o[p].type = "band"
        PROVE  CoincidenceFails(o, p) <=> Deps # {} /\ p \in Unrelated(o)
    BY <2>1 DEF CoincidenceFails, Unrelated, Within
  <2>2. ASSUME pc = "failed"
        PROVE  job = "mark" /\ Deps # {} /\ Unrelated(o) # {}
    <3>1. job = "mark" /\ SameShape(Current, o) /\ CoincidenceFails(o, node)
      BY <2>2 DEF FailInv, MarkInv
    <3>2. isMatching(Current, node) /\ node \in DOMAIN Current
      BY <2>2 DEF TreeInv
    <3>3. node \in DOMAIN o /\ o[node].type = "band"
      BY <3>1, <3>2 DEF SameShape, isMatching
    <3>4. QED
      BY <2>1, <3>1, <3>3
  <2>3. ASSUME pc = "done", job = "mark", Deps # {}
        PROVE  Unrelated(o) = {}
    <3>1. ASSUME NEW p \in Unrelated(o) PROVE FALSE
      <4>1. p \in DOMAIN o /\ o[p].type = "band"
        BY <3>1 DEF Unrelated
      <4>2. Visited(p)
        BY <2>3 DEF Visited
      <4>3. ~CoincidenceFails(o, p)
        BY <2>3, <4>1, <4>2 DEF MarkInv
      <4>4. QED
        BY <2>1, <2>3, <3>1, <4>1, <4>3
    <3>2. QED
      BY <3>1
  <2>4. QED
    BY <2>2, <2>3 DEF FailsOnUnrelated
<1>4. QED
  <2>1. Spec => [](TreeInv /\ MarkInv /\ FailInv)
    BY <1>1, <1>2, PTL DEF Spec
  <2>2. QED
    BY <1>3, <2>1, PTL

-----------------------------------------------------------------------------
(***************************************************************************)
(* The visit in postorder.                                                 *)
(***************************************************************************)
\* p is not above q and comes before it.
Left(p, q) == Before(p, q) /\ ~IsStrictPrefix(p, q)

\* The nodes at and below which nothing is tried any more.
Finished(p) ==
  \/ pc = "visit" /\ Left(p, node)
  \/ pc = "loop" /\ (Left(p, node) \/ EarlierChild(p))
  \/ pc \in {"match", "cut", "insert", "failed"} /\ (Left(p, node) \/ IsStrictPrefix(node, p))
  \/ pc = "leave" /\ (Left(p, node) \/ IsPrefix(node, p))
  \/ pc = "done"

LEMMA NotBoth ==
  ASSUME NEW v \in Path, NEW p \in Path, IsStrictPrefix(v, p)
  PROVE  p # v /\ ~IsStrictPrefix(p, v)
<1>1. Len(v) < Len(p) /\ Len(v) \in Nat /\ Len(p) \in Nat
  BY StrictPrefixFacts, PathFacts
<1>2. IsStrictPrefix(p, v) => Len(p) < Len(v)
  BY StrictPrefixFacts
<1>3. QED
  BY <1>1, <1>2

LEMMA LeftOfChild ==
  ASSUME NEW v \in Path, NEW j \in Nat \ {0}, NEW p \in Path
  PROVE  Left(p, Append(v, j))
           <=> Left(p, v) \/ (IsStrictPrefix(v, p) /\ p[Len(v) + 1] < j)
<1>1. Before(p, Append(v, j))
        <=> Before(p, v) \/ p = v \/ (IsStrictPrefix(v, p) /\ p[Len(v) + 1] < j)
  BY BeforeChild
<1>2. IsStrictPrefix(p, Append(v, j)) <=> IsStrictPrefix(p, v) \/ p = v
  BY StrictlyAboveChild
<1>3. Before(p, v) => p # v
  BY BeforeIsStrict
<1>4. QED
  BY <1>1, <1>2, <1>3, NotBoth DEF Left

\* Left of a node or at and below it, seen from its parent.
LEMMA LeftOrAtChild ==
  ASSUME NEW v \in Path, NEW j \in Nat \ {0}, NEW p \in Path
  PROVE  Left(p, v) \/ (IsStrictPrefix(v, p) /\ p[Len(v) + 1] < j + 1)
           <=> Left(p, Append(v, j)) \/ IsPrefix(Append(v, j), p)
<1>1. \/ Before(p, v) \/ p = v \/ (IsStrictPrefix(v, p) /\ p[Len(v) + 1] < j + 1)
         <=> Before(p, Append(v, j)) \/ IsPrefix(Append(v, j), p)
  BY ParentCovers
<1>2. IsStrictPrefix(p, Append(v, j)) <=> IsStrictPrefix(p, v) \/ p = v
  BY StrictlyAboveChild
<1>3. Append(v, j) \in Path
  BY AppendPath
<1>4. IsPrefix(Append(v, j), p) => ~IsStrictPrefix(p, v) /\ p # v
  <2>1. IsPrefix(Append(v, j), p) => IsStrictPrefix(v, p)
    BY BelowChild
  <2>2. QED
    BY <2>1, NotBoth
<1>5. Before(p, v) => p # v
  BY BeforeIsStrict
<1>6. QED
  BY <1>1, <1>2, <1>4, <1>5, NotBoth DEF Left

LEMMA FinishedSteps ==
  ASSUME TreeInv, [Next]_vars, ~preorder, ~Insert, NEW p \in DOMAIN Current
  PROVE  Finished(p)' <=>
           \/ Finished(p)
           \/ NoMatch /\ p = node /\ ~isMatching(Current, node)
<1>1. /\ IsTree(Current) /\ node \in DOMAIN Current /\ node \in Path /\ i \in Nat \ {0}
      /\ pc = "done" => node = <<>>
  BY ScheduleFacts DEF TreeInv, IsTree
<1>2. p \in Path
  BY <1>1 DEF IsTree
<1>3. CASE Visit
  <2>1. pc = "visit" /\ pc' = "loop" /\ node' = node /\ i' = 1
    BY <1>3 DEF Visit
  <2>2. ~EarlierChild(p)'
    <3>1. SUFFICES ASSUME IsStrictPrefix(node, p), p[Len(node) + 1] < 1 PROVE FALSE
      BY <2>1 DEF EarlierChild
    <3>2. Len(node) < Len(p) /\ Len(node) \in Nat /\ Len(p) \in Nat
      BY <1>1, <1>2, <3>1, StrictPrefixFacts, PathFacts
    <3>3. Len(node) + 1 \in 1..Len(p)
      BY <3>2
    <3>4. p[Len(node) + 1] \in Nat \ {0}
      BY <1>2, <3>3, PathFacts
    <3>5. QED
      BY <3>1, <3>4
  <2>3. ~NoMatch
    BY <2>1 DEF NoMatch
  <2>4. QED
    BY <2>1, <2>2, <2>3 DEF Finished
<1>4. CASE Match \/ Cut \/ InsertFails
  <2>1. /\ pc \in {"match", "cut", "insert"} /\ pc' \in {"cut", "insert", "failed"}
        /\ node' = node
    BY <1>4 DEF Match, Cut, InsertFails
  <2>2. ~NoMatch
    BY <2>1 DEF NoMatch, AfterNode
  <2>3. QED
    BY <2>1, <2>2 DEF Finished
<1>5. CASE NoMatch
  <2>1. /\ pc = "match" /\ ~isMatching(tree, node) /\ pc' = "leave" /\ node' = node
    BY <1>5 DEF NoMatch, AfterNode
  <2>2. Current = tree
    BY <2>1 DEF Current
  <2>3. IsPrefix(node, p) <=> IsStrictPrefix(node, p) \/ p = node
    <3>1. 1 \in Nat \ {0}
      OBVIOUS
    <3>2. QED
      BY <1>1, <1>2, <3>1, BelowChild
  <2>4. QED
    BY <1>5, <2>1, <2>2, <2>3 DEF Finished
<1>6. CASE Descend
  <2>1. pc = "loop" /\ pc' = "visit" /\ node' = Append(node, i)
    BY <1>6 DEF Descend
  <2>2. Left(p, Append(node, i)) <=> Left(p, node) \/ EarlierChild(p)
    BY <1>1, <1>2, LeftOfChild DEF EarlierChild
  <2>3. ~NoMatch
    BY <2>1 DEF NoMatch
  <2>4. QED
    BY <2>1, <2>2, <2>3 DEF Finished
<1>7. CASE LoopDone
  <2>1. pc = "loop" /\ pc' = "match" /\ node' = node /\ i > nChildren
    BY <1>7 DEF LoopDone
  <2>2. Current = tree
    BY <2>1 DEF Current
  <2>3. IsPrefix(node, p) => p = node \/ EarlierChild(p)
    BY <1>1, <2>1, <2>2, LoopCovers DEF nChildren, EarlierChild
  <2>4. IsStrictPrefix(node, p) <=> EarlierChild(p)
    BY <1>1, <1>2, <2>3, NotBoth DEF EarlierChild, IsStrictPrefix
  <2>5. ~NoMatch
    BY <2>1 DEF NoMatch
  <2>6. QED
    BY <2>1, <2>4, <2>5 DEF Finished
<1>8. CASE Leave
  <2>1. /\ pc = "leave" /\ node # <<>> /\ node' = Front(node) /\ i' = Last(node) + 1
        /\ pc' = "loop"
    BY <1>8 DEF Leave
  <2> DEFINE v == Front(node)
             j == Last(node)
  <2>2. v \in Path /\ j \in Nat \ {0} /\ node = Append(v, j)
    BY <1>1, <2>1, ParentPath
  <2>3. Finished(p)' <=> Left(p, v) \/ (IsStrictPrefix(v, p) /\ p[Len(v) + 1] < j + 1)
    BY <2>1 DEF Finished, EarlierChild
  <2> HIDE DEF v, j
  <2>4. Finished(p)' <=> Left(p, node) \/ IsPrefix(node, p)
    BY <1>2, <2>2, <2>3, LeftOrAtChild
  <2>5. ~NoMatch
    BY <2>1 DEF NoMatch
  <2>6. QED
    BY <2>1, <2>4, <2>5 DEF Finished
<1>9. CASE Return
  <2>1. pc = "leave" /\ node = <<>> /\ pc' = "done"
    BY <1>9 DEF Return
  <2>2. IsPrefix(node, p)
    BY <1>2, <2>1, PrefixFacts, EmptyPath, PathFacts
  <2>3. QED
    BY <2>1, <2>2 DEF Finished
<1>10. CASE UNCHANGED vars
  <2>1. ~NoMatch
    BY <1>10 DEF vars, NoMatch, AfterNode
  <2>2. QED
    BY <1>10, <2>1 DEF vars, Finished, EarlierChild
<1>11. QED
  BY <1>3, <1>4, <1>5, <1>6, <1>7, <1>8, <1>9, <1>10 DEF Next

Stencils(t) == {p \in DOMAIN t : t[p].type = "band" /\ t[p].stencil}
Extensions(t) == {p \in DOMAIN t : t[p].type = "extension"}

\* The band at p has been wrapped at e.
WrappedAt(t, p, e) ==
  /\ e \in DOMAIN t /\ t[e].type = "extension"
  /\ \E w \in Path : Len(w) = 3 /\ p = e \o w

Unfinished == {p \in Stencils(Current) : ~Finished(p)}

\* What is finished is wrapped, and each stencil gives one extension at most.
LayoutInv ==
  job = "layout" =>
    /\ \A p \in Stencils(Current) : Finished(p) =>
         \E e \in DOMAIN Current : Finished(e) /\ WrappedAt(Current, p, e)
    /\ Cardinality(Extensions(Current)) + Cardinality(Unfinished)
         <= Cardinality(Extensions(original)) + Cardinality(Stencils(original))

LEMMA PrefixOfRest ==
  ASSUME NEW v \in Path, NEW e \in Path, NEW w \in Path, IsPrefix(v, e)
  PROVE  IsPrefix(v, e \o w)
<1>1. /\ Len(v) <= Len(e) /\ \A k \in 1..Len(v) : v[k] = e[k]
      /\ Len(v) \in Nat /\ Len(e) \in Nat /\ Len(w) \in Nat
  BY PrefixFacts, PathFacts
<1> DEFINE p == e \o w
<1>2. /\ p \in Path /\ Len(p) = Len(e) + Len(w)
      /\ \A k \in 1..(Len(e) + Len(w)) : p[k] = IF k <= Len(e) THEN e[k] ELSE w[k - Len(e)]
  BY ConcatPath
<1> HIDE DEF p
<1>3. Len(v) <= Len(p) /\ \A k \in 1..Len(v) : v[k] = p[k]
  BY <1>1, <1>2
<1>4. IsPrefix(v, p)
  BY <1>2, <1>3, PrefixFacts
<1>5. QED
  BY <1>4 DEF p

\* Two beginnings of a path.
LEMMA Comparable ==
  ASSUME NEW v \in Path, NEW e \in Path, NEW p \in Path, IsPrefix(v, p), IsPrefix(e, p)
  PROVE  IsPrefix(v, e) \/ IsStrictPrefix(e, v)
<1>1. /\ Len(v) <= Len(p) /\ \A k \in 1..Len(v) : v[k] = p[k]
      /\ Len(e) <= Len(p) /\ \A k \in 1..Len(e) : e[k] = p[k]
      /\ Len(v) \in Nat /\ Len(e) \in Nat /\ Len(p) \in Nat
  BY PrefixFacts, PathFacts
<1>2. CASE Len(v) <= Len(e)
  <2>1. \A k \in 1..Len(v) : v[k] = e[k]
    BY <1>1, <1>2
  <2>2. QED
    BY <1>2, <2>1, PrefixFacts
<1>3. CASE Len(e) < Len(v)
  <2>1. \A k \in 1..Len(e) : e[k] = v[k]
    BY <1>1, <1>3
  <2>2. QED
    BY <1>3, <2>1, StrictPrefixFacts
<1>4. QED
  BY <1>1, <1>2, <1>3

\* What is left of v is outside v, and so is what is above both.
LEMMA LeftIsOutside ==
  ASSUME NEW p \in Path, NEW v \in Path, Left(p, v)
  PROVE  ~IsPrefix(v, p)
BY BeforeIsOutside DEF Left

LEMMA LeftIsNotAbove ==
  ASSUME NEW e \in Path, NEW v \in Path, NEW p \in Path, IsPrefix(v, p), IsPrefix(e, p),
         Left(e, v)
  PROVE  FALSE
<1>1. ~IsPrefix(v, e) /\ ~IsStrictPrefix(e, v)
  BY LeftIsOutside DEF Left
<1>2. QED
  BY <1>1, Comparable

LEMMA Within3Facts == Within3 \in Path /\ Len(Within3) = 3
<1>1. /\ <<1>> \in Path /\ <<2>> \in Path /\ Len(<<1>>) = 1 /\ Len(<<2>>) = 1
  BY StepPath
<1>2. <<2>> \o <<1>> \in Path /\ Len(<<2>> \o <<1>>) = 1 + 1
  BY <1>1, ConcatPath
<1>3. QED
  BY <1>1, <1>2, ConcatPath DEF Within3

\* Inserting finishes the stencils at and below the node.
LEMMA WrappedAfter ==
  ASSUME job = "layout", NEW t, IsSchedule(t), NEW v \in DOMAIN t, NEW r,
         Rewrites(t, v, r),
         \A p \in Stencils(t) : Left(p, v) \/ IsStrictPrefix(v, p) =>
           \E e \in DOMAIN t : /\ Left(e, v) \/ IsStrictPrefix(v, e)
                               /\ WrappedAt(t, p, e),
         NEW p \in Stencils(r), Left(p, v) \/ IsPrefix(v, p)
  PROVE  \E e \in DOMAIN r : /\ Left(e, v) \/ IsPrefix(v, e)
                             /\ WrappedAt(r, p, e)
<1> DEFINE core == DomainOf(t, v)
<1>1. r = Replace(t, v, aroundBand(Subtree(t, v), core)) /\ t[v].type = "band"
  BY DEF Rewrites, isMatching
<1> HIDE DEF core
<1>2. LayoutLooks(t, v, core, r) /\ IsTree(t) /\ v \in Path
  BY ONLY <1>1, IsSchedule(t), v \in DOMAIN t, LayoutReplaced, ScheduleFacts, ScheduleBand
<1>3. /\ IsTree(r) /\ KeptOutside(t, v, r) /\ Moved(t, v, r, Within3, <<>>)
      /\ v \in DOMAIN r /\ r[v] = plain("extension", New)
  BY ONLY <1>2 DEF LayoutLooks
<1>4. BuiltByLayout(v, core, r)
  BY ONLY <1>1, IsSchedule(t), v \in DOMAIN t, LayoutBuilds
<1>5. p \in DOMAIN r /\ p \in Path /\ r[p].type = "band" /\ r[p].stencil
  BY <1>3 DEF Stencils, IsTree
<1>6. v \o <<>> = v /\ <<>> \in Path /\ IsPrefix(v, v) /\ Within3 \in Path /\ Len(Within3) = 3
  BY <1>2, EmptyPath, PrefixFacts, Within3Facts
<1>7. \A q \in Path : <<>> \o q = q /\ q \o <<>> = q
  BY EmptyPath
<1>8. \A q \in DOMAIN t : Sensible(t[q]) /\ q \in Path
  BY <1>2, ScheduleFacts DEF IsTree
<1>9. CASE Left(p, v)
  <2>1. ~IsPrefix(v, p)
    BY <1>2, <1>5, <1>9, LeftIsOutside
  <2>2. p \in Stencils(t)
    BY <1>3, <1>5, <2>1 DEF KeptOutside, Stencils
  <2>3. PICK e \in DOMAIN t : (Left(e, v) \/ IsStrictPrefix(v, e)) /\ WrappedAt(t, p, e)
    BY <1>9, <2>2
  <2>4. PICK w \in Path : Len(w) = 3 /\ p = e \o w
    BY <2>3 DEF WrappedAt
  <2>5. e \in Path /\ ~IsPrefix(v, e)
    BY <1>2, <1>8, <2>1, <2>4, PrefixOfRest
  <2>6. Left(e, v)
    BY <2>3, <2>5 DEF IsStrictPrefix
  <2>7. e \in DOMAIN r /\ r[e] = t[e]
    BY <1>3, <2>5 DEF KeptOutside
  <2>8. WrappedAt(r, p, e)
    BY <2>3, <2>7 DEF WrappedAt
  <2>9. QED
    BY <2>6, <2>7, <2>8
<1>10. CASE IsPrefix(v, p)
  <2>1. p \notin Built(v, r, Within3)
    <3>1. ASSUME p \in Built(v, r, Within3) PROVE FALSE
      <4>1. (\E type \in {"extension", "sequence", "filter", "leaf"} :
               \E s : r[p] = plain(type, s)) \/ r[p] = band(Zero, FALSE)
        BY ONLY <1>4, <3>1 DEF BuiltByLayout
      <4>2. ~band(Zero, FALSE).stencil
        BY ONLY ZeroBand
      <4>3. ASSUME NEW type, NEW s PROVE plain(type, s).type = type
        BY DEF plain
      <4>4. QED
        BY ONLY <1>5, <4>1, <4>2, <4>3
    <3>2. QED
      BY <3>1
  <2>2. PICK q \in Path : p = v \o (Within3 \o q)
    BY <1>5, <1>10, <2>1 DEF Built
  <2> DEFINE o == v \o q
  <2>3. o \in DOMAIN t /\ r[p] = Copied(t[o])
    <3>1. v \o (<<>> \o q) = o
      BY <1>7
    <3>2. QED
      BY <1>3, <1>5, <2>2, <3>1 DEF Moved
  <2>4. o \in Stencils(t)
    <3>1. t[o].type = "band" /\ t[o].stencil = r[p].stencil
      BY <1>5, <1>8, <2>3, CopiedFacts
    <3>2. QED
      BY <1>5, <2>3, <3>1 DEF Stencils
  <2>5. CASE q = <<>>
    <3>1. p = v \o Within3
      BY <1>6, <1>7, <2>2, <2>5
    <3>2. WrappedAt(r, p, v)
      <4>1. r[v].type = "extension"
        BY <1>3 DEF plain
      <4>2. QED
        BY <1>3, <1>6, <3>1, <4>1 DEF WrappedAt
    <3>3. QED
      BY <1>3, <1>6, <3>2
  <2>6. CASE q # <<>>
    <3>1. IsPrefix(v, o) /\ o # v
      <4>1. IsPrefix(v, o)
        BY <1>2, PrefixOfConcat
      <4>2. o # v
        BY <1>2, <1>6, <2>6, ConcatCancel
      <4>3. QED
        BY <4>1, <4>2
    <3>2. IsStrictPrefix(v, o)
      BY <3>1 DEF IsStrictPrefix
    <3>3. PICK e \in DOMAIN t : (Left(e, v) \/ IsStrictPrefix(v, e)) /\ WrappedAt(t, o, e)
      BY <2>4, <3>2
    <3>4. PICK w \in Path : Len(w) = 3 /\ o = e \o w
      BY <3>3 DEF WrappedAt
    <3>5. e \in Path /\ o \in Path /\ IsPrefix(e, o)
      BY <1>8, <2>3, <3>4, PrefixOfConcat
    <3>6. IsStrictPrefix(v, e)
      BY <1>2, <3>1, <3>3, <3>5, LeftIsNotAbove
    <3>7. PICK u \in Path : e = v \o u
      BY <1>2, <3>5, <3>6, RestOfPath DEF IsStrictPrefix
    <3>8. q = u \o w
      <4>0. v \o (u \o w) = (v \o u) \o w
        BY ONLY <1>2, u \in Path, w \in Path, ConcatAgain
      <4>1. v \o q = v \o (u \o w) /\ u \o w \in Path
        BY <3>4, <3>7, <4>0, ConcatPath
      <4>2. QED
        BY <1>2, <4>1, ConcatCancel
    <3> DEFINE f == v \o (Within3 \o u)
    <3>9. p = f \o w
      <4>1. Within3 \o (u \o w) = (Within3 \o u) \o w
        BY <1>6, ConcatAgain
      <4>2. Within3 \o u \in Path
        BY <1>6, ConcatPath
      <4>3. v \o ((Within3 \o u) \o w) = (v \o (Within3 \o u)) \o w
        BY <1>2, <4>2, ConcatAgain
      <4>4. QED
        BY <2>2, <3>8, <4>1, <4>3
    <3>10. f \in DOMAIN r /\ r[f] = Copied(t[e])
      <4>1. v \o (<<>> \o u) = e
        BY <1>7, <3>7
      <4>2. QED
        BY <1>3, <4>1 DEF Moved
    <3>11. r[f].type = "extension"
      BY <1>8, <3>3, <3>10, CopiedFacts DEF WrappedAt
    <3>12. IsPrefix(v, f)
      <4>1. Within3 \o u \in Path
        BY <1>6, ConcatPath
      <4>2. QED
        BY <1>2, <4>1, PrefixOfConcat
    <3> HIDE DEF f
    <3>13. WrappedAt(r, p, f)
      BY <3>4, <3>9, <3>10, <3>11 DEF WrappedAt
    <3>14. QED
      BY <3>10, <3>12, <3>13
  <2>7. QED
    BY <2>5, <2>6
<1>11. QED
  BY <1>9, <1>10

LEMMA ImageBound ==
  ASSUME NEW S, IsFiniteSet(S), NEW g, DOMAIN g = S, g = [x \in S |-> g[x]], NEW T, NEW v,
         \A y \in T : y = v \/ \E x \in S : y = g[x]
  PROVE  IsFiniteSet(T) /\ Cardinality(T) <= Cardinality(S) + 1
<1> DEFINE I == {g[x] : x \in S}
<1>1. g \in Surjection(S, I)
  BY DEF Surjection
<1>2. T \subseteq I \cup {v}
  OBVIOUS
<1> HIDE DEF I
<1>3. IsFiniteSet(I) /\ Cardinality(I) <= Cardinality(S)
  BY <1>1, FS_Surjection
<1>4. /\ IsFiniteSet(I \cup {v})
      /\ Cardinality(I \cup {v}) = IF v \in I THEN Cardinality(I) ELSE Cardinality(I) + 1
  BY <1>3, FS_AddElement
<1>5. IsFiniteSet(T) /\ Cardinality(T) <= Cardinality(I \cup {v})
  BY <1>2, <1>4, FS_Subset
<1>6. /\ Cardinality(I) \in Nat /\ Cardinality(S) \in Nat /\ Cardinality(T) \in Nat
      /\ Cardinality(I \cup {v}) \in Nat
  BY <1>3, <1>4, <1>5, FS_CardinalityType
<1> DEFINE a == Cardinality(I)
           b == Cardinality(S)
           c == Cardinality(T)
           d == Cardinality(I \cup {v})
<1>7. /\ a \in Nat /\ b \in Nat /\ c \in Nat /\ d \in Nat
      /\ a <= b /\ (d = a \/ d = a + 1) /\ c <= d
  BY <1>3, <1>4, <1>5, <1>6
<1> HIDE DEF a, b, c, d
<1>8. c <= b + 1
  BY <1>7
<1>9. QED
  BY <1>5, <1>8 DEF b, c

\* Wrapping a band brings one extension and finishes one stencil.
LEMMA CountAfter ==
  ASSUME job = "layout", NEW t, IsSchedule(t), NEW v \in DOMAIN t, NEW r,
         Rewrites(t, v, r)
  PROVE  /\ Cardinality(Extensions(r)) <= Cardinality(Extensions(t)) + 1
         /\ {p \in Stencils(r) : ~(Left(p, v) \/ IsPrefix(v, p))}
              = {p \in Stencils(t) : ~(Left(p, v) \/ IsStrictPrefix(v, p))} \ {v}
         /\ v \in {p \in Stencils(t) : ~(Left(p, v) \/ IsStrictPrefix(v, p))}
<1> DEFINE core == DomainOf(t, v)
<1>1. /\ r = Replace(t, v, aroundBand(Subtree(t, v), core)) /\ t[v].type = "band"
      /\ t[v].stencil
  BY DEF Rewrites, isMatching
<1> HIDE DEF core
<1>2. LayoutLooks(t, v, core, r) /\ IsTree(t) /\ v \in Path
  BY ONLY <1>1, IsSchedule(t), v \in DOMAIN t, LayoutReplaced, ScheduleFacts, ScheduleBand
<1>3. /\ IsTree(r) /\ KeptOutside(t, v, r) /\ Moved(t, v, r, Within3, <<>>)
      /\ v \in DOMAIN r
  BY ONLY <1>2 DEF LayoutLooks
<1>4. BuiltByLayout(v, core, r)
  BY ONLY <1>1, IsSchedule(t), v \in DOMAIN t, LayoutBuilds
<1>5. DOMAIN r \subseteq Path /\ DOMAIN t \subseteq Path /\ IsPrefix(v, v)
  BY <1>2, <1>3, PrefixFacts DEF IsTree
<1>6. \A q \in Path : <<>> \o q = q
  BY EmptyPath
<1>7. \A q \in DOMAIN t : Sensible(t[q])
  BY ScheduleFacts
<1> DEFINE S == Extensions(t)
           rest(x) == SubSeq(x, Len(v) + 1, Len(x))
           g == [x \in S |-> IF IsPrefix(v, x) THEN v \o (Within3 \o rest(x)) ELSE x]
<1>8. ASSUME NEW y \in Extensions(r) PROVE y = v \/ \E x \in S : y = g[x]
  <2>1. y \in DOMAIN r /\ y \in Path /\ r[y].type = "extension"
    BY <1>5, <1>8 DEF Extensions
  <2>2. CASE ~IsPrefix(v, y)
    <3>1. y \in S
      BY <1>3, <2>1, <2>2 DEF KeptOutside, Extensions
    <3>2. QED
      BY <2>2, <3>1
  <2>3. CASE y \in Built(v, r, Within3)
    <3>1. \/ y = v \/ r[y] = band(Zero, FALSE)
          \/ \E type \in {"sequence", "filter", "leaf"} : \E s : r[y] = plain(type, s)
      BY ONLY <1>4, <2>3 DEF BuiltByLayout
    <3>2. band(Zero, FALSE).type = "band"
      BY ONLY ZeroBand
    <3>3. ASSUME NEW type, NEW s PROVE plain(type, s).type = type
      BY DEF plain
    <3>4. QED
      BY ONLY <2>1, <3>1, <3>2, <3>3
  <2>4. CASE IsPrefix(v, y) /\ y \notin Built(v, r, Within3)
    <3>1. PICK q \in Path : y = v \o (Within3 \o q)
      BY <2>1, <2>4 DEF Built
    <3> DEFINE x == v \o q
    <3>2. x \in DOMAIN t /\ r[y] = Copied(t[x])
      <4>1. v \o (<<>> \o q) = x
        BY <1>6
      <4>2. QED
        BY <1>3, <2>1, <3>1, <4>1 DEF Moved
    <3>3. x \in S
      BY <1>7, <2>1, <3>2, CopiedFacts DEF Extensions
    <3>4. IsPrefix(v, x) /\ rest(x) = q
      BY <1>2, PrefixOfConcat
    <3>5. y = g[x]
      BY <3>1, <3>3, <3>4
    <3>6. QED
      BY <3>3, <3>5
  <2>5. QED
    BY <2>2, <2>3, <2>4
<1>9. DOMAIN g = S /\ g = [x \in S |-> g[x]]
  OBVIOUS
<1>10. IsFiniteSet(S)
  <2>1. IsFiniteSet(DOMAIN t) /\ S \subseteq DOMAIN t
    BY <1>2 DEF IsTree, Extensions
  <2>2. QED
    BY <2>1, FS_Subset
<1> HIDE DEF S, g
<1>11. Cardinality(Extensions(r)) <= Cardinality(S) + 1
  BY <1>8, <1>9, <1>10, ImageBound
<1>12. v \in {p \in Stencils(t) : ~(Left(p, v) \/ IsStrictPrefix(v, p))}
  <2>1. v \in Stencils(t)
    BY <1>1 DEF Stencils
  <2>2. ~Left(v, v) /\ ~IsStrictPrefix(v, v)
    BY <1>2, BeforeIsStrict DEF Left, IsStrictPrefix
  <2>3. QED
    BY <2>1, <2>2
<1>13. ASSUME NEW p
       PROVE  p \in {q \in Stencils(r) : ~(Left(q, v) \/ IsPrefix(v, q))}
                <=> p \in {q \in Stencils(t) : ~(Left(q, v) \/ IsStrictPrefix(v, q))} \ {v}
  <2>1. CASE p \in Path /\ ~IsPrefix(v, p)
    <3>1. p \in Stencils(r) <=> p \in Stencils(t)
      BY <1>3, <2>1 DEF KeptOutside, Stencils
    <3>2. ~IsStrictPrefix(v, p) /\ p # v
      BY <1>5, <2>1 DEF IsStrictPrefix
    <3>3. QED
      BY <2>1, <3>1, <3>2
  <2>2. CASE p \in Path /\ IsPrefix(v, p)
    BY <2>2 DEF IsStrictPrefix
  <2>3. CASE p \notin Path
    BY <1>5, <2>3 DEF Stencils
  <2>4. QED
    BY <2>1, <2>2, <2>3
<1>14. QED
  BY <1>11, <1>12, <1>13 DEF S

LEMMA LayoutStep ==
  ASSUME TreeInv, LayoutInv, [Next]_vars
  PROVE  LayoutInv'
<1>1. job' = job /\ original' = original
  BY JobIsKept
<1>2. SUFFICES ASSUME job = "layout" PROVE LayoutInv'
  BY <1>1 DEF LayoutInv
<1> DEFINE C == Current
           D == Current'
           N == Cardinality(Extensions(original)) + Cardinality(Stencils(original))
<1>3. /\ \A p \in Stencils(C) : Finished(p) =>
           \E e \in DOMAIN C : Finished(e) /\ WrappedAt(C, p, e)
      /\ Cardinality(Extensions(C)) + Cardinality(Unfinished) <= N
  BY <1>2 DEF LayoutInv
<1>4. ~preorder
  BY <1>2 DEF preorder
<1>5. /\ \A p \in Stencils(D) : Finished(p)' =>
           \E e \in DOMAIN D : Finished(e)' /\ WrappedAt(D, p, e)
      /\ Cardinality(Extensions(D)) + Cardinality(Unfinished') <= N
  <2>1. CASE ~Insert
    <3>1. D = C
      BY <2>1, CurrentSteps
    <3>2. \A p \in DOMAIN C : Finished(p)' <=>
            Finished(p) \/ (NoMatch /\ p = node /\ ~isMatching(C, node))
      BY <1>4, <2>1, FinishedSteps
    <3>3. \A p \in Stencils(C) : Finished(p)' <=> Finished(p)
      <4>1. ~isMatching(C, node) => node \notin Stencils(C)
        BY <1>2 DEF isMatching, Stencils
      <4>2. Stencils(C) \subseteq DOMAIN C
        BY DEF Stencils
      <4> HIDE DEF C
      <4>3. QED
        BY <3>2, <4>1, <4>2
    <3>4. Unfinished' = Unfinished
      BY <3>1, <3>3 DEF Unfinished
    <3> HIDE DEF C, D
    <3>5. QED
      BY <1>3, <3>1, <3>2, <3>3, <3>4
  <2>2. CASE Insert
    <3> DEFINE v == node
    <3>1. Rewrites(C, v, D) /\ IsSchedule(C) /\ v \in DOMAIN C
      BY <2>2, CurrentSteps DEF TreeInv
    <3>2. pc = "insert" /\ pc' = "leave" /\ node' = v
      BY <1>4, <2>2, <1>2 DEF Insert, AfterNode
    <3>3. \A p : Finished(p) <=> Left(p, v) \/ IsStrictPrefix(v, p)
      BY <3>2 DEF Finished
    <3>4. \A p : Finished(p)' <=> Left(p, v) \/ IsPrefix(v, p)
      BY <3>2 DEF Finished
    <3>5. Unfinished = {p \in Stencils(C) : ~(Left(p, v) \/ IsStrictPrefix(v, p))}
      BY <3>3 DEF Unfinished
    <3>6. Unfinished' = {p \in Stencils(D) : ~(Left(p, v) \/ IsPrefix(v, p))}
      BY <3>4 DEF Unfinished
    <3>7. /\ IsTree(C) /\ IsTree(D)
      BY <3>1, TreeStep, ScheduleFacts DEF TreeInv
    <3> DEFINE U == Unfinished
               W == Unfinished'
    <3> HIDE DEF C, D, v, N
    <3>8. \A p \in Stencils(D) : Finished(p)' =>
            \E e \in DOMAIN D : Finished(e)' /\ WrappedAt(D, p, e)
      <4>1. SUFFICES ASSUME NEW p \in Stencils(D), Left(p, v) \/ IsPrefix(v, p)
                     PROVE  \E e \in DOMAIN D : /\ Left(e, v) \/ IsPrefix(v, e)
                                                /\ WrappedAt(D, p, e)
        BY <3>4
      <4>2. \A q \in Stencils(C) : Left(q, v) \/ IsStrictPrefix(v, q) =>
              \E e \in DOMAIN C : /\ Left(e, v) \/ IsStrictPrefix(v, e)
                                  /\ WrappedAt(C, q, e)
        BY <1>3, <3>3
      <4>3. QED
        BY <1>2, <3>1, <4>1, <4>2, WrappedAfter
    <3>9. /\ Cardinality(Extensions(D)) <= Cardinality(Extensions(C)) + 1
          /\ W = U \ {v} /\ v \in U
      BY <1>2, <3>1, <3>5, <3>6, CountAfter
    <3>10. /\ IsFiniteSet(Extensions(C)) /\ IsFiniteSet(Extensions(D)) /\ IsFiniteSet(U)
      <4>1. /\ IsFiniteSet(DOMAIN C) /\ IsFiniteSet(DOMAIN D)
            /\ Extensions(C) \subseteq DOMAIN C /\ Extensions(D) \subseteq DOMAIN D
            /\ U \subseteq DOMAIN C
        BY <3>7 DEF IsTree, Extensions, Stencils, Unfinished, C
      <4> HIDE DEF U
      <4>2. QED
        BY <4>1, FS_Subset
    <3>11. Cardinality(Extensions(D)) + Cardinality(W) <= N
      <4> HIDE DEF U, W
      <4>1. Cardinality(U \ {v}) = Cardinality(U) - 1
        BY <3>9, <3>10, FS_RemoveElement
      <4>2. /\ Cardinality(Extensions(C)) \in Nat /\ Cardinality(Extensions(D)) \in Nat
            /\ Cardinality(U) \in Nat
        BY <3>10, FS_CardinalityType
      <4>3. N \in Nat
        <5>1. IsTree(original)
          BY OriginalsAssumption, ScheduleFacts DEF TreeInv
        <5>2. Extensions(original) \subseteq DOMAIN original
              /\ Stencils(original) \subseteq DOMAIN original
              /\ IsFiniteSet(DOMAIN original)
          BY <5>1 DEF IsTree, Extensions, Stencils
        <5>3. IsFiniteSet(Extensions(original)) /\ IsFiniteSet(Stencils(original))
          BY <5>2, FS_Subset
        <5>4. QED
          BY <5>3, FS_CardinalityType DEF N
      <4>4. Cardinality(Extensions(C)) + Cardinality(U) <= N
        BY <1>3 DEF U
      <4> DEFINE a == Cardinality(Extensions(C))
                 b == Cardinality(Extensions(D))
                 c == Cardinality(U)
                 d == Cardinality(W)
      <4>5. /\ a \in Nat /\ b \in Nat /\ c \in Nat /\ N \in Nat
            /\ a + c <= N /\ b <= a + 1 /\ d = c - 1
        BY <3>9, <4>1, <4>2, <4>3, <4>4
      <4> HIDE DEF a, b, c, d
      <4>6. b + d <= N
        BY <4>5
      <4>7. QED
        BY <4>6 DEF b, d
    <3>12. QED
      BY <3>8, <3>11 DEF W
  <2>3. QED
    BY <2>1, <2>2
<1>6. QED
  BY <1>1, <1>5 DEF LayoutInv

\* The node above a node.
LEMMA OneUp ==
  ASSUME NEW p \in Path, NEW n \in Nat, Len(p) = n + 1
  PROVE  /\ Front(p) \in Path /\ Len(Front(p)) = n
         /\ \A k \in 1..n : Front(p)[k] = p[k]
<1>1. p # <<>>
  BY PathFacts
<1> DEFINE a == Front(p)
<1>2. a \in Path /\ Len(a) = Len(p) - 1 /\ \A k \in 1..(Len(p) - 1) : a[k] = p[k]
  BY ONLY <1>1, p \in Path, ParentPath
<1> HIDE DEF a
<1>3. Len(p) - 1 = n
  OBVIOUS
<1>4. a \in Path /\ Len(a) = n /\ \A k \in 1..n : a[k] = p[k]
  BY ONLY <1>2, <1>3
<1>5. QED
  BY <1>4 DEF a

LEMMA ThreeUp ==
  ASSUME NEW e \in Path, NEW w \in Path, Len(w) = 3, NEW p, p = e \o w
  PROVE  Len(p) >= 3 /\ Front(Front(Front(p))) = e
<1> DEFINE n == Len(e)
           a == Front(p)
           b == Front(a)
           c == Front(b)
<1>0. /\ e \o w \in Path /\ Len(e \o w) = Len(e) + Len(w)
      /\ \A k \in 1..(Len(e) + Len(w)) :
           (e \o w)[k] = IF k <= Len(e) THEN e[k] ELSE w[k - Len(e)]
  BY ONLY e \in Path, w \in Path, ConcatPath
<1>1. n \in Nat
  BY PathFacts
<1> HIDE DEF n
<1>2. p \in Path /\ Len(p) = n + 2 + 1 /\ \A k \in 1..n : p[k] = e[k]
  BY <1>0, <1>1 DEF n
<1>3. a \in Path /\ Len(a) = n + 1 + 1 /\ \A k \in 1..(n + 2) : a[k] = p[k]
  <2>1. n + 2 \in Nat /\ n + 2 = n + 1 + 1
    BY <1>1
  <2>2. QED
    BY ONLY <1>2, <2>1, OneUp
<1> HIDE DEF a
<1>4. b \in Path /\ Len(b) = n + 1 /\ \A k \in 1..(n + 1) : b[k] = a[k]
  <2>1. n + 1 \in Nat
    BY <1>1
  <2>2. QED
    BY ONLY <1>3, <2>1, OneUp
<1> HIDE DEF b
<1>5. c \in Path /\ Len(c) = n /\ \A k \in 1..n : c[k] = b[k]
  BY ONLY <1>1, <1>4, OneUp
<1> HIDE DEF c
<1>6. \A k \in 1..n : c[k] = e[k]
  BY <1>1, <1>2, <1>3, <1>4, <1>5
<1>7. c = e
  BY <1>5, <1>6, PathEqual DEF n
<1>8. Len(p) >= 3
  BY <1>1, <1>2
<1>9. QED
  BY <1>7, <1>8 DEF c, b, a

LEMMA LayoutCorrect == Spec => [](TreeInv /\ LayoutInv)
<1>1. Init => TreeInv /\ LayoutInv
  <2> SUFFICES ASSUME Init PROVE TreeInv /\ LayoutInv
    OBVIOUS
  <2>1. /\ TreeInv /\ Current = original /\ node = <<>>
        /\ pc = "visit"
    BY TreeInit DEF Init
  <2>2. ASSUME NEW p \in DOMAIN Current PROVE ~Finished(p)
    <3>1. p \in Path /\ <<>> \in Path
      BY <2>1, ScheduleFacts, EmptyPath DEF TreeInv, IsTree
    <3>2. IsPrefix(<<>>, p)
      BY <3>1, PrefixFacts, EmptyPath, PathFacts
    <3>3. ~Left(p, <<>>)
      BY <3>1, <3>2, LeftIsOutside
    <3>4. QED
      BY <2>1, <3>3 DEF Finished
  <2>3. Unfinished = Stencils(original)
    BY <2>1, <2>2 DEF Unfinished, Stencils
  <2>4. Cardinality(Extensions(original)) + Cardinality(Stencils(original)) \in Nat
    <3>1. IsTree(original)
      BY <2>1, ScheduleFacts DEF TreeInv
    <3>2. Extensions(original) \subseteq DOMAIN original
          /\ Stencils(original) \subseteq DOMAIN original
          /\ IsFiniteSet(DOMAIN original)
      BY <3>1 DEF IsTree, Extensions, Stencils
    <3>3. IsFiniteSet(Extensions(original)) /\ IsFiniteSet(Stencils(original))
      BY <3>2, FS_Subset
    <3>4. QED
      BY <3>3, FS_CardinalityType
  <2>5. \A p \in Stencils(Current) : ~Finished(p)
    BY <2>2 DEF Stencils
  <2>6. QED
    BY <2>1, <2>3, <2>4, <2>5 DEF LayoutInv
<1>2. TreeInv /\ LayoutInv /\ [Next]_vars => (TreeInv /\ LayoutInv)'
  BY TreeStep, LayoutStep
<1>3. QED
  BY <1>1, <1>2, PTL DEF Spec

\* The layout transformation wraps every stencil, and none more than once.
THEOREM WrappingComplete == Spec => []WrappedOnce
<1>1. TreeInv /\ LayoutInv => WrappedOnce
  <2> SUFFICES ASSUME TreeInv, LayoutInv, job = "layout" PROVE WrappedOnce
    BY DEF WrappedOnce
  <2> DEFINE C == Current
             N == Cardinality(Extensions(original)) + Cardinality(Stencils(original))
             wrapped == {p \in Stencils(tree) :
                           Len(p) >= 3 /\ tree[Front(Front(Front(p)))].type = "extension"}
  <2>1. /\ \A p \in Stencils(C) : Finished(p) =>
             \E e \in DOMAIN C : Finished(e) /\ WrappedAt(C, p, e)
        /\ Cardinality(Extensions(C)) + Cardinality(Unfinished) <= N
    BY DEF LayoutInv
  <2>2. IsTree(C)
    BY ScheduleFacts DEF TreeInv
  <2>3. Cardinality(Extensions(tree)) <= N
    <3>1. Extensions(tree) \subseteq Extensions(C)
      <4>1. CASE pc \in {"insert", "failed"}
        <5>1. /\ IsTree(tree) /\ tree[node] = plain("leaf", {}) /\ KeptOutside(C, node, tree)
              /\ \A p \in DOMAIN tree : IsPrefix(node, p) => p = node
          BY <4>1, CutFacts
        <5>2. tree[node].type # "extension"
          BY <5>1 DEF plain
        <5> HIDE DEF C
        <5>3. QED
          BY <5>1, <5>2 DEF KeptOutside, Extensions, IsTree
      <4>2. CASE pc \notin {"insert", "failed"}
        BY <4>2 DEF Current
      <4>3. QED
        BY <4>1, <4>2
    <3>2. IsFiniteSet(DOMAIN C) /\ Extensions(C) \subseteq DOMAIN C
          /\ Unfinished \subseteq DOMAIN C
      BY <2>2 DEF IsTree, Extensions, Unfinished, Stencils
    <3>3. IsFiniteSet(Extensions(C)) /\ IsFiniteSet(Unfinished)
      BY <3>2, FS_Subset
    <3>4. /\ IsFiniteSet(Extensions(tree))
          /\ Cardinality(Extensions(tree)) <= Cardinality(Extensions(C))
      BY <3>1, <3>3, FS_Subset
    <3>5. /\ Cardinality(Extensions(C)) \in Nat /\ Cardinality(Extensions(tree)) \in Nat
          /\ Cardinality(Unfinished) \in Nat
      BY <3>3, <3>4, FS_CardinalityType
    <3>6. N \in Int
      <4>1. IsTree(original)
        BY OriginalsAssumption, ScheduleFacts DEF TreeInv
      <4>2. Extensions(original) \subseteq DOMAIN original
            /\ Stencils(original) \subseteq DOMAIN original
            /\ IsFiniteSet(DOMAIN original)
        BY <4>1 DEF IsTree, Extensions, Stencils
      <4>3. IsFiniteSet(Extensions(original)) /\ IsFiniteSet(Stencils(original))
        BY <4>2, FS_Subset
      <4>4. QED
        BY <4>3, FS_CardinalityType
    <3> DEFINE a == Cardinality(Extensions(C))
               b == Cardinality(Extensions(tree))
               c == Cardinality(Unfinished)
    <3>7. a \in Nat /\ b \in Nat /\ c \in Nat /\ b <= a /\ a + c <= N
      BY <2>1, <3>4, <3>5
    <3> HIDE DEF a, b, c, N
    <3>8. b <= N
      BY <3>6, <3>7
    <3>9. QED
      BY <3>8 DEF b
  <2>4. pc = "done" => wrapped = Stencils(tree)
    <3>1. SUFFICES ASSUME pc = "done", NEW p \in Stencils(tree)
                   PROVE  Len(p) >= 3 /\ tree[Front(Front(Front(p)))].type = "extension"
      OBVIOUS
    <3>2. C = tree
      BY <3>1 DEF Current
    <3>3. PICK e \in DOMAIN tree : WrappedAt(tree, p, e)
      BY <2>1, <3>1, <3>2 DEF Finished
    <3>4. PICK w \in Path : Len(w) = 3 /\ p = e \o w
      BY <3>3 DEF WrappedAt
    <3>5. e \in Path
      BY <2>2, <3>2 DEF IsTree
    <3>6. Len(p) >= 3 /\ Front(Front(Front(p))) = e
      BY <3>4, <3>5, ThreeUp
    <3>7. QED
      BY <3>3, <3>6 DEF WrappedAt
  <2> HIDE DEF N, wrapped
  <2>5. QED
    BY <2>3, <2>4 DEF WrappedOnce, N, wrapped, Stencils, Extensions
<1>2. QED
  BY <1>1, LayoutCorrect, PTL

\* Every band is rewritten, and none twice: marking that completes has marked every
\* band as it stands at the end, and wrapping wraps each stencil once.
THEOREM EachOnce == Spec => []EachBandOnce
<1>1. EveryBandIsMarked /\ WrappedOnce => EachBandOnce
  BY DEF EachBandOnce
<1>2. QED
  BY <1>1, MarkingComplete, WrappingComplete, PTL

-----------------------------------------------------------------------------
(***************************************************************************)
(* The order of execution.                                                 *)
(***************************************************************************)
LEMMA MembersAboveRoot ==
  ASSUME NEW t
  PROVE  MembersAbove(t, <<>>) = <<>>
<1> DEFINE s == [k \in 1..Len(<<>>) |-> t[SubSeq(<<>>, 1, k - 1)].members]
<1>1. s = <<>>
  OBVIOUS
<1>2. Len(s) = 0
  BY <1>1
<1> HIDE DEF s
<1>3. FlattenSeq(s) = <<>>
  BY <1>1, <1>2, FlattenEmpty
<1>4. QED
  BY <1>3 DEF MembersAbove, s

\* The members above a child are those above its parent, then the parent's own.
LEMMA MembersAboveChild ==
  ASSUME NEW t, NEW p \in Path, NEW c \in Nat \ {0},
         t[<<>>].members \in Seq([Deps -> Int])
  PROVE  MembersAbove(t, Append(p, c)) = MembersAbove(t, p) \o t[p].members
<1> DEFINE q == Append(p, c)
           n == Len(p)
           r == [k \in 1..n |-> t[SubSeq(p, 1, k - 1)].members]
           s == [k \in 1..Len(q) |-> t[SubSeq(q, 1, k - 1)].members]
<1>1. n \in Nat /\ q \in Path /\ Len(q) = n + 1 /\ \A k \in 1..n : q[k] = p[k]
  BY AppendPath, PathFacts
<1>2. MembersAbove(t, p) = FlattenSeq(r) /\ MembersAbove(t, q) = FlattenSeq(s)
  BY DEF MembersAbove
<1>3. SubSeq(q, 1, n) = p
  BY BeginningOfAppend
<1>4. ASSUME NEW k \in 1..n PROVE SubSeq(q, 1, k - 1) = SubSeq(p, 1, k - 1)
  <2> DEFINE j == k - 1
             a == SubSeq(q, 1, j)
             b == SubSeq(p, 1, j)
  <2>1. j \in 0..Len(p) /\ j \in 0..Len(q)
    BY <1>1
  <2>2. j <= n
    BY <1>1
  <2> HIDE DEF j, q, n
  <2>3. /\ a \in Path /\ Len(a) = j /\ \A l \in 1..j : a[l] = q[l]
        /\ b \in Path /\ Len(b) = j /\ \A l \in 1..j : b[l] = p[l]
    BY <1>1, <2>1, BeginningFacts
  <2>4. \A l \in 1..j : a[l] = b[l]
    BY <1>1, <2>1, <2>2, <2>3
  <2> HIDE DEF a, b
  <2>5. a = b
    BY <2>3, <2>4, PathEqual
  <2>6. QED
    BY <2>5 DEF a, b, j
<1>5. DOMAIN s = 1..(n + 1) /\ DOMAIN r = 1..n
  BY <1>1
<1>6. Len(s) = n + 1 /\ Len(r) = n
  <2>1. \E S : s \in Seq(S)
    <3> DEFINE S == {s[k] : k \in 1..(n + 1)}
    <3>1. s \in [1..(n + 1) -> S]
      BY <1>1
    <3> HIDE DEF S
    <3>2. n + 1 \in Nat
      BY <1>1
    <3> HIDE DEF s, n
    <3>3. s \in Seq(S)
      BY <3>1, <3>2, SeqDef
    <3>4. QED
      BY <3>3
  <2>2. \E S : r \in Seq(S)
    <3> DEFINE S == {r[k] : k \in 1..n}
    <3>1. r \in [1..n -> S]
      BY <1>1
    <3> HIDE DEF S, r, n
    <3>2. r \in Seq(S)
      BY <1>1, <3>1, SeqDef
    <3>3. QED
      BY <3>2
  <2> HIDE DEF r, s, n
  <2>3. Len(s) \in Nat /\ DOMAIN s = 1..Len(s) /\ Len(r) \in Nat /\ DOMAIN r = 1..Len(r)
    BY <2>1, <2>2, LenProperties
  <2>4. QED
    BY <1>1, <1>5, <2>3
<1>7. s[n + 1] = t[p].members
  <2>1. n + 1 \in 1..Len(q) /\ (n + 1) - 1 = n
    BY <1>1
  <2>2. s[n + 1] = t[SubSeq(q, 1, (n + 1) - 1)].members
    BY ONLY <2>1
  <2>3. QED
    BY <1>3, <2>1, <2>2
<1>8. \A k \in 1..n : s[k] = r[k]
  <2>1. ASSUME NEW k \in 1..n PROVE s[k] = r[k]
    <3>1. k \in 1..Len(q)
      BY <1>1
    <3>2. s[k] = t[SubSeq(q, 1, k - 1)].members /\ r[k] = t[SubSeq(p, 1, k - 1)].members
      BY ONLY <3>1, <2>1
    <3>3. QED
      BY <1>4, <3>2
  <2>2. QED
    BY <2>1
<1>9. CASE n # 0
  <2>1. n \in Nat \ {0}
    BY <1>1, <1>9
  <2> HIDE DEF n, r, s
  <2>2. FlattenSeq(s) = FlattenSeq(r) \o s[n + 1]
    BY ONLY <1>6, <1>8, <2>1, FlattenStep
  <2>3. QED
    BY <1>2, <1>7, <2>2
<1>10. CASE n = 0
  <2>1. p = <<>>
    BY <1>10, PathFacts
  <2>2. MembersAbove(t, p) = <<>>
    BY <2>1, MembersAboveRoot
  <2>3. Len(s) = 1 /\ s[1] = t[<<>>].members
    BY <1>6, <1>7, <1>10, <2>1
  <2> HIDE DEF s
  <2>4. FlattenSeq(s) = t[<<>>].members
    BY ONLY <2>3, FlattenOne
  <2>5. <<>> \o t[<<>>].members = t[<<>>].members
    BY ConcatEmptySeq
  <2>6. QED
    BY <1>2, <2>1, <2>2, <2>4, <2>5
<1>11. QED
  BY <1>9, <1>10

\* What of the statements D that get to a node x gets to its children.
Passing(D, x) ==
  {s \in D : x.type = "filter" => s \in x.stmts}
    \cup (IF x.type \in {"domain", "extension"} THEN x.stmts ELSE {})

LEMMA DomainOfChild ==
  ASSUME NEW t, NEW p \in Path, NEW c \in Nat \ {0}
  PROVE  DomainOf(t, Append(p, c)) = Passing(DomainOf(t, p), t[p])
<1> DEFINE q == Append(p, c)
           brings(x, s) == t[x].type \in {"domain", "extension"} /\ s \in t[x].stmts
           passes(x, s) == t[x].type = "filter" => s \in t[x].stmts
           gets(v, s) == \E x \in Above(v) :
                           /\ brings(x, s)
                           /\ \A y \in Above(v) : IsStrictPrefix(x, y) => passes(y, s)
<1>1. \A v, s : s \in DomainOf(t, v) <=> gets(v, s)
  BY DEF DomainOf
<1>2. \A x : x \in Above(q) <=> x \in Above(p) \/ x = p
  <2>1. ASSUME NEW x PROVE x \in Above(q) <=> x \in Above(p) \/ x = p
    <3>1. q \in Path
      BY AppendPath
    <3>2. /\ x \in Above(q) <=> x \in Path /\ IsStrictPrefix(x, q)
          /\ x \in Above(p) <=> x \in Path /\ IsStrictPrefix(x, p)
      BY <3>1, AboveFacts
    <3>3. x \in Path => (IsStrictPrefix(x, q) <=> IsStrictPrefix(x, p) \/ x = p)
      BY StrictlyAboveChild
    <3>4. QED
      BY <3>2, <3>3
  <2>2. QED
    BY <2>1
<1>3. \A x \in Above(p) : IsStrictPrefix(x, p) /\ ~IsStrictPrefix(p, x)
  <2>1. ASSUME NEW x \in Above(p) PROVE IsStrictPrefix(x, p) /\ ~IsStrictPrefix(p, x)
    <3>1. x \in Path /\ IsStrictPrefix(x, p) /\ Len(x) \in Nat /\ Len(p) \in Nat
      BY AboveFacts, PathFacts
    <3>2. Len(x) < Len(p)
      BY <3>1, StrictPrefixFacts
    <3>3. QED
      BY <3>1, <3>2, StrictPrefixFacts
  <2>2. QED
    BY <2>1
<1>4. ~IsStrictPrefix(p, p)
  <2>1. Len(p) \in Nat
    BY PathFacts
  <2>2. QED
    BY <2>1, StrictPrefixFacts
<1>5. ASSUME NEW s
      PROVE  gets(q, s) <=> (gets(p, s) /\ passes(p, s)) \/ brings(p, s)
  <2> HIDE DEF brings, passes, q
  <2>1. ASSUME NEW x \in Above(q), brings(x, s),
               \A y \in Above(q) : IsStrictPrefix(x, y) => passes(y, s)
        PROVE  (gets(p, s) /\ passes(p, s)) \/ brings(p, s)
    BY <1>2, <1>3, <2>1
  <2>2. ASSUME NEW x \in Above(p), brings(x, s), passes(p, s),
               \A y \in Above(p) : IsStrictPrefix(x, y) => passes(y, s)
        PROVE  gets(q, s)
    BY <1>2, <1>3, <2>2
  <2>3. ASSUME brings(p, s) PROVE gets(q, s)
    BY <1>2, <1>3, <1>4, <2>3
  <2>4. QED
    BY <2>1, <2>2, <2>3
<1>6. \A s : s \in Passing(DomainOf(t, p), t[p])
               <=> (gets(p, s) /\ passes(p, s)) \/ brings(p, s)
  BY <1>1 DEF Passing
<1>7. QED
  BY <1>1, <1>5, <1>6

\* Of p in t and q in r: the same statements get there, below the same bands.
SameAt(t, p, r, q) ==
  DomainOf(r, q) = DomainOf(t, p) /\ MembersAbove(r, q) = MembersAbove(t, p)

LEMMA RootMembers ==
  ASSUME NEW t, IsSchedule(t)
  PROVE  t[<<>>].members \in Seq([Deps -> Int])
BY ScheduleFacts DEF IsTree, Sensible

LEMMA CopiedPasses ==
  ASSUME NEW x, Sensible(x), NEW D
  PROVE  Passing(D, Copied(x)) = Passing(D, x) /\ Copied(x).members = x.members
BY CopiedFacts DEF Passing

LEMMA SameAtChild ==
  ASSUME NEW t, IsSchedule(t), NEW p \in DOMAIN t, NEW c \in Nat \ {0},
         NEW r, IsSchedule(r), NEW q \in DOMAIN r, NEW d \in Nat \ {0},
         SameAt(t, p, r, q), r[q] = Copied(t[p])
  PROVE  SameAt(t, Append(p, c), r, Append(q, d))
<1>1. p \in Path /\ q \in Path /\ Sensible(t[p])
  BY ScheduleFacts DEF IsTree
<1>2. \A D : Passing(D, r[q]) = Passing(D, t[p])
  BY <1>1, CopiedPasses
<1>3. r[q].members = t[p].members
  BY <1>1, CopiedPasses
<1>4. /\ DomainOf(t, Append(p, c)) = Passing(DomainOf(t, p), t[p])
      /\ DomainOf(r, Append(q, d)) = Passing(DomainOf(r, q), r[q])
  BY <1>1, DomainOfChild
<1>5. /\ MembersAbove(t, Append(p, c)) = MembersAbove(t, p) \o t[p].members
      /\ MembersAbove(r, Append(q, d)) = MembersAbove(r, q) \o r[q].members
  BY <1>1, RootMembers, MembersAboveChild
<1>6. QED
  BY <1>2, <1>3, <1>4, <1>5 DEF SameAt

\* What moves keeps what gets to it and what is above it.
LEMMA SameTrails ==
  ASSUME NEW t, IsSchedule(t), NEW r, IsSchedule(r),
         NEW v \in Path, NEW a \in Path, NEW b \in Path,
         Moved(t, v, r, a, b), SameAt(t, v \o b, r, v \o a)
  PROVE  \A q \in Path : v \o (b \o q) \in DOMAIN t =>
           SameAt(t, v \o (b \o q), r, v \o (a \o q))
<1> DEFINE Bad == {q \in Path : v \o (b \o q) \in DOMAIN t
                                  /\ ~SameAt(t, v \o (b \o q), r, v \o (a \o q))}
           T == {Len(q) : q \in Bad}
<1>1. SUFFICES ASSUME Bad # {} PROVE FALSE
  OBVIOUS
<1>2. T \subseteq Nat /\ T # {}
  <2>1. \A q \in Bad : Len(q) \in Nat
    <3>1. ASSUME NEW q \in Bad PROVE Len(q) \in Nat
      BY PathFacts
    <3>2. QED
      BY <3>1
  <2> HIDE DEF Bad
  <2>2. QED
    BY <1>1, <2>1
<1>3. PICK k \in T : \A j \in T : k <= j
  <2> HIDE DEF T
  <2>1. QED
    BY <1>2, Least
<1>4. PICK q \in Bad : Len(q) = k
  OBVIOUS
<1>5. /\ q \in Path /\ v \o (b \o q) \in DOMAIN t
      /\ ~SameAt(t, v \o (b \o q), r, v \o (a \o q))
  OBVIOUS
<1>6. \A f \in Path : Len(f) < k /\ v \o (b \o f) \in DOMAIN t =>
        SameAt(t, v \o (b \o f), r, v \o (a \o f))
  <2>1. ASSUME NEW f \in Path, Len(f) < k, f \in Bad PROVE FALSE
    <3>1. Len(f) \in T
      BY <2>1
    <3>2. Len(f) \in Nat /\ k \in Nat
      BY <1>2, PathFacts
    <3> HIDE DEF T, Bad
    <3>3. QED
      BY <1>3, <2>1, <3>1, <3>2
  <2>2. QED
    BY <2>1
<1> HIDE DEF T, Bad
<1>7. q # <<>>
  <2>1. a \o <<>> = a /\ b \o <<>> = b
    BY EmptyPath
  <2>2. QED
    BY <1>5, <2>1
<1>8. PICK f \in Path, c \in Nat \ {0} : q = Append(f, c) /\ Len(f) = Len(q) - 1
  BY <1>5, <1>7, ParentPath
<1>9. Len(f) < k
  BY <1>4, <1>5, <1>8, PathFacts
<1>10. a \o f \in Path /\ b \o f \in Path
  BY ConcatPath
<1> DEFINE o == v \o (b \o f)
           u == v \o (a \o f)
<1>11. /\ v \o (b \o q) = Append(o, c) /\ v \o (a \o q) = Append(u, c)
       /\ o \in Path /\ u \in Path
  <2>1. a \o q = Append(a \o f, c) /\ b \o q = Append(b \o f, c)
    BY <1>8, ConcatAppend
  <2>2. /\ v \o Append(b \o f, c) = Append(o, c)
        /\ v \o Append(a \o f, c) = Append(u, c)
    BY <1>10, ConcatAppend
  <2>3. o \in Path /\ u \in Path
    BY <1>10, ConcatPath
  <2> HIDE DEF o, u
  <2>4. QED
    BY <2>1, <2>2, <2>3
<1>12. o \in DOMAIN t
  <2>1. IsTree(t)
    BY ScheduleFacts
  <2> HIDE DEF o
  <2>2. QED
    BY <1>5, <1>11, <2>1, ParentInTree
<1>13. u \in DOMAIN r /\ r[u] = Copied(t[o])
  BY <1>12 DEF Moved
<1>14. SameAt(t, o, r, u)
  BY <1>6, <1>9, <1>12
<1> HIDE DEF o, u
<1>15. SameAt(t, Append(o, c), r, Append(u, c))
  BY ONLY IsSchedule(t), IsSchedule(r), c \in Nat \ {0}, <1>12, <1>13, <1>14, SameAtChild
<1>16. QED
  BY <1>5, <1>11, <1>15

-----------------------------------------------------------------------------
(***************************************************************************)
(* The leaves that execute something, before and after a rewriting.        *)
(***************************************************************************)
LEMMA Childless ==
  ASSUME NEW t, IsTree(t), NEW p \in Path
  PROVE  children(p, t) = {} <=> Append(p, 1) \notin DOMAIN t
<1>1. 1 \in Nat \ {0}
  OBVIOUS
<1>2. 1 \in children(p, t) <=> Append(p, 1) \in DOMAIN t
  BY <1>1, ChildInTree
<1>3. ASSUME NEW c \in children(p, t) PROVE Append(p, 1) \in DOMAIN t
  <2>1. c \in Nat \ {0}
    BY ChildNumbers
  <2>2. Append(p, c) \in DOMAIN t /\ 1 \in 1..c
    BY <1>3, <2>1, ChildInTree
  <2>3. QED
    BY <2>1, <2>2, ParentInTree
<1>4. QED
  BY <1>2, <1>3

LEMMA SameMembers ==
  ASSUME NEW t, NEW r, NEW p \in Path, \A q \in Above(p) : r[q] = t[q]
  PROVE  MembersAbove(r, p) = MembersAbove(t, p)
<1>1. ASSUME NEW k \in 1..Len(p)
      PROVE  r[SubSeq(p, 1, k - 1)].members = t[SubSeq(p, 1, k - 1)].members
  <2> DEFINE j == k - 1
             q == SubSeq(p, 1, j)
  <2>1. j \in 0..Len(p) /\ j # Len(p)
    BY PathFacts
  <2> HIDE DEF j
  <2>2. Len(q) = j
    BY <2>1, BeginningFacts
  <2>3. q # p
    BY <2>1, <2>2
  <2>4. q \in Above(p)
    BY <2>1, <2>3 DEF Above
  <2>5. QED
    BY <2>4 DEF j
<1>2. [k \in 1..Len(p) |-> r[SubSeq(p, 1, k - 1)].members]
        = [k \in 1..Len(p) |-> t[SubSeq(p, 1, k - 1)].members]
  BY <1>1
<1>3. QED
  BY <1>2 DEF MembersAbove

LEMMA SameAtOutside ==
  ASSUME NEW t, IsTree(t), NEW v \in DOMAIN t, NEW r, KeptOutside(t, v, r),
         NEW p \in DOMAIN t, ~IsPrefix(v, p) \/ p = v
  PROVE  SameAt(t, p, r, p)
<1>1. \A q \in Above(p) : r[q] = t[q]
  BY AboveOutside
<1>2. p \in Path
  BY DEF IsTree
<1>3. QED
  BY <1>1, <1>2, SameAbove, SameMembers DEF SameAt

\* f takes the leaves of s that execute something to those of t, in their order.
Orders(s, t, f) ==
  \A p \in Executes(s) : \A q \in Executes(s) : Before(p, q) => Before(f[p], f[q])

SameOrder(s, t) ==
  \E f \in Bijection(Executes(s), Executes(t)) :
    Orders(s, t, f) /\ \A p \in Executes(s) : SameAt(s, p, t, f[p])

LEMMA OrderedIsBijection ==
  ASSUME NEW s, NEW t, Executes(s) \subseteq Path, Executes(t) \subseteq Path,
         NEW f, f \in [Executes(s) -> Executes(t)], Orders(s, t, f),
         \A y \in Executes(t) : \E x \in Executes(s) : f[x] = y
  PROVE  f \in Bijection(Executes(s), Executes(t))
<1>1. ASSUME NEW p \in Executes(s), NEW q \in Executes(s), f[p] = f[q], p # q
      PROVE  FALSE
  <2>1. Before(p, q) \/ Before(q, p)
    BY <1>1, BeforeIsTotal
  <2>2. Before(f[p], f[p])
    BY <1>1, <2>1 DEF Orders
  <2>3. f[p] \in Path
    OBVIOUS
  <2>4. QED
    BY <2>2, <2>3, BeforeIsStrict
<1>2. IsInjective(f)
  BY <1>1 DEF IsInjective
<1>3. QED
  BY <1>2 DEF Bijection, Injection, Surjection

\* What is at v \o b in t, and executes all that is below v, is at v \o a in r.
Carries(t, v, r, a, b) ==
  /\ KeptOutside(t, v, r) /\ Moved(t, v, r, a, b) /\ SameAt(t, v \o b, r, v \o a)
  /\ \A p \in Executes(t) : IsPrefix(v, p) => \E q \in Path : p = v \o (b \o q)
  /\ \A q \in Built(v, r, a) : q \notin Executes(r)

LEMMA ExecutesOutside ==
  ASSUME NEW t, IsTree(t), NEW v \in DOMAIN t, NEW r, IsTree(r), v \in DOMAIN r,
         KeptOutside(t, v, r), NEW p \in Path, ~IsPrefix(v, p)
  PROVE  /\ p \in Executes(t) <=> p \in Executes(r)
         /\ p \in Executes(t) => SameAt(t, p, r, p)
<1>1. p \in DOMAIN t <=> p \in DOMAIN r
  BY DEF KeptOutside
<1>2. ASSUME p \in DOMAIN t PROVE SameAt(t, p, r, p)
  BY <1>2, SameAtOutside
<1>3. Append(p, 1) \in DOMAIN t <=> Append(p, 1) \in DOMAIN r
  <2>1. v \in Path /\ 1 \in Nat \ {0}
    BY DEF IsTree
  <2>2. Append(p, 1) \in Path
    BY <2>1, AppendPath
  <2>3. IsPrefix(v, Append(p, 1)) => v = Append(p, 1)
    BY <2>1, PrefixOfChild
  <2>4. QED
    BY <2>2, <2>3 DEF KeptOutside
<1>4. children(p, t) = {} <=> children(p, r) = {}
  BY <1>3, Childless
<1>5. QED
  BY <1>1, <1>2, <1>4 DEF Executes, SameAt

LEMMA ExecutesMoved ==
  ASSUME NEW t, IsSchedule(t), NEW r, IsSchedule(r), NEW v \in Path,
         NEW a \in Path, NEW b \in Path,
         Moved(t, v, r, a, b), SameAt(t, v \o b, r, v \o a), NEW q \in Path
  PROVE  /\ v \o (b \o q) \in Executes(t) <=> v \o (a \o q) \in Executes(r)
         /\ v \o (b \o q) \in Executes(t) => SameAt(t, v \o (b \o q), r, v \o (a \o q))
<1> DEFINE o == v \o (b \o q)
           u == v \o (a \o q)
<1>0. IsTree(t) /\ IsTree(r)
  BY ScheduleFacts
<1>1. o \in DOMAIN t <=> u \in DOMAIN r
  BY DEF Moved
<1>2. o \in DOMAIN t => SameAt(t, o, r, u)
  BY SameTrails
<1>3. Append(o, 1) \in DOMAIN t <=> Append(u, 1) \in DOMAIN r
  <2>1. /\ 1 \in Nat \ {0} /\ a \o q \in Path /\ b \o q \in Path
        /\ Append(q, 1) \in Path
    BY ConcatPath, AppendPath
  <2>2. v \o (b \o Append(q, 1)) = Append(o, 1)
    BY <2>1, ConcatAppend
  <2>3. v \o (a \o Append(q, 1)) = Append(u, 1)
    BY <2>1, ConcatAppend
  <2>4. QED
    BY <2>1, <2>2, <2>3 DEF Moved
<1>4. o \in Path /\ u \in Path
  <2>1. a \o q \in Path /\ b \o q \in Path
    BY ConcatPath
  <2>2. QED
    BY <2>1, ConcatPath
<1> HIDE DEF o, u
<1>5. children(o, t) = {} <=> children(u, r) = {}
  BY <1>0, <1>3, <1>4, Childless
<1>6. (o \in Executes(t) <=> u \in Executes(r)) /\ (o \in Executes(t) => SameAt(t, o, r, u))
  BY <1>1, <1>2, <1>5 DEF Executes, SameAt
<1>7. QED
  BY <1>6 DEF o, u

LEMMA OrderAfter ==
  ASSUME NEW t, IsSchedule(t), NEW v \in DOMAIN t, NEW r, IsSchedule(r), v \in DOMAIN r,
         NEW a \in Path, NEW b \in Path, Carries(t, v, r, a, b)
  PROVE  SameOrder(t, r)
<1> DEFINE g(p) == CHOOSE q \in Path : p = v \o (b \o q)
           f == [p \in Executes(t) |-> IF IsPrefix(v, p) THEN v \o (a \o g(p)) ELSE p]
<1>1. /\ IsTree(t) /\ IsTree(r) /\ v \in Path
      /\ Executes(t) \subseteq Path /\ Executes(r) \subseteq Path
  BY ScheduleFacts DEF IsTree, Executes
<1>2. ASSUME NEW p \in Executes(t), IsPrefix(v, p)
      PROVE  g(p) \in Path /\ p = v \o (b \o g(p)) /\ f[p] = v \o (a \o g(p))
  <2>1. \E q \in Path : p = v \o (b \o q)
    BY <1>2 DEF Carries
  <2>2. QED
    BY <1>2, <2>1
<1>3. \A p \in Executes(t) : ~IsPrefix(v, p) => f[p] = p
  OBVIOUS
<1>4. \A p \in Path : ~IsPrefix(v, p) =>
        /\ p \in Executes(t) <=> p \in Executes(r)
        /\ p \in Executes(t) => SameAt(t, p, r, p)
  BY <1>1, ExecutesOutside DEF Carries
<1>5. \A q \in Path :
        /\ v \o (b \o q) \in Executes(t) <=> v \o (a \o q) \in Executes(r)
        /\ v \o (b \o q) \in Executes(t) => SameAt(t, v \o (b \o q), r, v \o (a \o q))
  BY <1>1, ExecutesMoved DEF Carries
<1>6. ASSUME NEW q \in Path, v \o (b \o q) \in Executes(t)
      PROVE  f[v \o (b \o q)] = v \o (a \o q)
  <2> DEFINE p == v \o (b \o q)
  <2>1. b \o q \in Path
    BY ConcatPath
  <2>2. IsPrefix(v, p)
    BY <1>1, <2>1, PrefixOfConcat
  <2>3. g(p) \in Path /\ p = v \o (b \o g(p)) /\ f[p] = v \o (a \o g(p))
    BY <1>2, <1>6, <2>2
  <2> DEFINE x == g(p)
  <2> HIDE DEF x
  <2>4. x \in Path /\ v \o (b \o q) = v \o (b \o x)
    BY <2>3 DEF x
  <2>5. b \o x \in Path
    BY <2>4, ConcatPath
  <2>6. b \o q = b \o x
    BY <1>1, <2>1, <2>4, <2>5, ConcatCancel
  <2>7. q = x
    BY <2>4, <2>6, ConcatCancel
  <2>8. QED
    BY <2>3, <2>7 DEF x
<1>7. f = [p \in Executes(t) |-> f[p]]
  <2> HIDE DEF g
  <2>1. DOMAIN f = Executes(t) /\ f = [p \in DOMAIN f |-> f[p]]
    OBVIOUS
  <2> HIDE DEF f
  <2>2. QED
    BY <2>1
<1>8. \A p \in Executes(t) : IsPrefix(v, p) =>
        \E q \in Path : p = v \o (b \o q) /\ f[p] = v \o (a \o q)
  BY <1>2
<1> HIDE DEF f
<1>9. ASSUME NEW p \in Executes(t) PROVE f[p] \in Executes(r) /\ SameAt(t, p, r, f[p])
  <2>1. CASE IsPrefix(v, p)
    BY <1>5, <1>8, <2>1
  <2>2. CASE ~IsPrefix(v, p)
    BY <1>1, <1>3, <1>4, <2>2
  <2>3. QED
    BY <2>1, <2>2
<1>10. ASSUME NEW y \in Executes(r) PROVE \E x \in Executes(t) : f[x] = y
  <2>1. CASE IsPrefix(v, y)
    <3>1. y \notin Built(v, r, a) /\ y \in DOMAIN r
      BY DEF Carries, Executes
    <3>2. PICK q \in Path : y = v \o (a \o q)
      BY <2>1, <3>1 DEF Built
    <3>3. QED
      BY <1>5, <1>6, <3>2
  <2>2. CASE ~IsPrefix(v, y)
    BY <1>1, <1>3, <1>4, <2>2
  <2>3. QED
    BY <2>1, <2>2
<1>11. ASSUME NEW p \in Executes(t), NEW q \in Executes(t), Before(p, q)
       PROVE  Before(f[p], f[q])
  <2>1. CASE ~IsPrefix(v, p) /\ ~IsPrefix(v, q)
    BY <1>3, <1>11, <2>1
  <2>2. CASE ~IsPrefix(v, p) /\ IsPrefix(v, q)
    <3>1. PICK y \in Path : q = v \o (b \o y) /\ f[q] = v \o (a \o y)
      BY <1>8, <2>2
    <3>2. b \o y \in Path /\ a \o y \in Path /\ p \in Path
      BY <1>1, ConcatPath
    <3>3. Before(p, v)
      BY <1>1, <1>11, <2>2, <3>1, <3>2, BranchAbove
    <3>4. Before(p, f[q])
      BY <1>1, <2>2, <3>1, <3>2, <3>3, BranchAbove
    <3>5. QED
      BY <1>3, <2>2, <3>4
  <2>3. CASE IsPrefix(v, p) /\ ~IsPrefix(v, q)
    <3>1. PICK x \in Path : p = v \o (b \o x) /\ f[p] = v \o (a \o x)
      BY <1>8, <2>3
    <3>2. b \o x \in Path /\ a \o x \in Path /\ q \in Path
      BY <1>1, ConcatPath
    <3>3. Before(v, q)
      BY <1>1, <1>11, <2>3, <3>1, <3>2, BranchAbove
    <3>4. Before(f[p], q)
      BY <1>1, <2>3, <3>1, <3>2, <3>3, BranchAbove
    <3>5. QED
      BY <1>3, <2>3, <3>4
  <2>4. CASE IsPrefix(v, p) /\ IsPrefix(v, q)
    <3>1. PICK x \in Path : p = v \o (b \o x) /\ f[p] = v \o (a \o x)
      BY <1>8, <2>4
    <3>2. PICK y \in Path : q = v \o (b \o y) /\ f[q] = v \o (a \o y)
      BY <1>8, <2>4
    <3>3. b \o x \in Path /\ a \o x \in Path /\ b \o y \in Path /\ a \o y \in Path
      BY ConcatPath
    <3>4. Before(b \o x, b \o y)
      BY <1>1, <1>11, <3>1, <3>2, <3>3, BeforeBelow
    <3>5. Before(a \o x, a \o y)
      BY <3>4, BeforeBelow
    <3>6. QED
      BY <1>1, <3>1, <3>2, <3>3, <3>5, BeforeBelow
  <2>5. QED
    BY <2>1, <2>2, <2>3, <2>4
<1>12. Orders(t, r, f)
  BY <1>11 DEF Orders
<1>13. f \in [Executes(t) -> Executes(r)]
  BY <1>7, <1>9
<1>14. f \in Bijection(Executes(t), Executes(r))
  BY ONLY <1>1, <1>10, <1>12, <1>13, OrderedIsBijection
<1>15. QED
  BY <1>9, <1>12, <1>14 DEF SameOrder

LEMMA SameOrderReflexive ==
  ASSUME NEW t
  PROVE  SameOrder(t, t)
<1> DEFINE E == Executes(t)
           f == [p \in E |-> p]
<1>1. f \in [E -> E] /\ \A p \in E : f[p] = p
  OBVIOUS
<1> HIDE DEF f
<1>2. f \in Bijection(E, E)
  BY <1>1 DEF Bijection, Injection, Surjection, IsInjective
<1>3. Orders(t, t, f) /\ \A p \in E : SameAt(t, p, t, f[p])
  BY <1>1 DEF Orders, SameAt
<1>4. QED
  BY <1>2, <1>3 DEF SameOrder

LEMMA SameOrderTransitive ==
  ASSUME NEW s, NEW t, NEW u, SameOrder(s, t), SameOrder(t, u)
  PROVE  SameOrder(s, u)
<1> DEFINE A == Executes(s)
           B == Executes(t)
           C == Executes(u)
<1>1. PICK f \in Bijection(A, B) :
        Orders(s, t, f) /\ \A p \in A : SameAt(s, p, t, f[p])
  BY DEF SameOrder
<1>2. PICK g \in Bijection(B, C) :
        Orders(t, u, g) /\ \A p \in B : SameAt(t, p, u, g[p])
  BY DEF SameOrder
<1>3. /\ f \in [A -> B] /\ \A p, q \in A : f[p] = f[q] => p = q
      /\ \A y \in B : \E x \in A : f[x] = y
  BY DEF Bijection, Injection, Surjection, IsInjective
<1>4. /\ g \in [B -> C] /\ \A p, q \in B : g[p] = g[q] => p = q
      /\ \A y \in C : \E x \in B : g[x] = y
  BY DEF Bijection, Injection, Surjection, IsInjective
<1> DEFINE h == [p \in A |-> g[f[p]]]
<1>5. /\ h \in [A -> C] /\ \A p \in A : h[p] = g[f[p]]
  BY <1>3, <1>4
<1> HIDE DEF h
<1>6. \A p, q \in A : h[p] = h[q] => p = q
  BY <1>3, <1>4, <1>5
<1>7. \A y \in C : \E x \in A : h[x] = y
  BY <1>3, <1>4, <1>5
<1>8. h \in Bijection(A, C)
  BY <1>5, <1>6, <1>7 DEF Bijection, Injection, Surjection, IsInjective
<1>9. Orders(s, u, h)
  <2>1. ASSUME NEW p \in A, NEW q \in A, Before(p, q) PROVE Before(h[p], h[q])
    <3>1. Before(f[p], f[q]) /\ f[p] \in B /\ f[q] \in B
      BY <1>1, <1>3, <2>1 DEF Orders
    <3>2. QED
      BY <1>2, <1>5, <3>1 DEF Orders
  <2>2. QED
    BY <2>1 DEF Orders
<1>10. ASSUME NEW p \in A PROVE SameAt(s, p, u, h[p])
  <2>1. SameAt(s, p, t, f[p]) /\ SameAt(t, f[p], u, h[p])
    BY <1>1, <1>2, <1>3, <1>5
  <2>2. QED
    BY <2>1 DEF SameAt
<1>11. QED
  BY <1>8, <1>9, <1>10 DEF SameOrder

LEMMA MembersAreMembers ==
  ASSUME NEW t, IsSchedule(t)
  PROVE  \A p \in DOMAIN t : MembersAbove(t, p) \in Seq([Deps -> Int])
<1> DEFINE S == Seq([Deps -> Int])
           Bad == {p \in DOMAIN t : MembersAbove(t, p) \notin S}
           T == {Len(p) : p \in Bad}
<1>0. IsTree(t) /\ DOMAIN t \subseteq Path /\ t[<<>>].members \in S
  BY ScheduleFacts, RootMembers DEF IsTree
<1>1. SUFFICES ASSUME Bad # {} PROVE FALSE
  OBVIOUS
<1>2. T \subseteq Nat /\ T # {}
  <2>1. \A q \in Bad : Len(q) \in Nat
    <3>1. ASSUME NEW q \in Bad PROVE Len(q) \in Nat
      BY <1>0, PathFacts
    <3>2. QED
      BY <3>1
  <2> HIDE DEF Bad
  <2>2. QED
    BY <1>1, <2>1
<1>3. PICK k \in T : \A j \in T : k <= j
  <2> HIDE DEF T
  <2>1. QED
    BY <1>2, Least
<1>4. PICK q \in Bad : Len(q) = k
  OBVIOUS
<1>5. q \in Path /\ q \in DOMAIN t /\ MembersAbove(t, q) \notin S
  BY <1>0
<1>6. \A p \in DOMAIN t : Len(p) < k => MembersAbove(t, p) \in S
  <2>1. ASSUME NEW p \in DOMAIN t, Len(p) < k, p \in Bad PROVE FALSE
    <3>1. Len(p) \in T
      BY <2>1
    <3>2. Len(p) \in Nat /\ k \in Nat
      BY <1>0, <1>2, PathFacts
    <3> HIDE DEF T, Bad
    <3>3. QED
      BY <1>3, <2>1, <3>1, <3>2
  <2>2. QED
    BY <2>1
<1> HIDE DEF T, Bad
<1>7. q # <<>>
  <2>1. <<>> \in S
    OBVIOUS
  <2>2. QED
    BY <1>5, <2>1, MembersAboveRoot
<1>8. PICK f \in Path, c \in Nat \ {0} : q = Append(f, c) /\ Len(f) = Len(q) - 1
  BY <1>5, <1>7, ParentPath
<1>9. Len(f) < k
  BY <1>4, <1>5, <1>8, PathFacts
<1>10. f \in DOMAIN t
  BY <1>0, <1>5, <1>8, ParentInTree
<1>11. MembersAbove(t, f) \in S /\ t[f].members \in S
  BY <1>6, <1>9, <1>10, ScheduleFacts DEF Sensible
<1>12. MembersAbove(t, q) = MembersAbove(t, f) \o t[f].members
  BY <1>0, <1>8, MembersAboveChild
<1>13. MembersAbove(t, q) \in S
  <2> DEFINE m == MembersAbove(t, f)
             n == t[f].members
  <2>1. m \in S /\ n \in S
    BY <1>11
  <2> HIDE DEF m, n
  <2>2. m \o n \in S
    BY <2>1, ConcatProperties
  <2>3. QED
    BY <1>12, <2>2 DEF m, n
<1>14. QED
  BY <1>5, <1>13

LEMMA BelowBand ==
  ASSUME NEW t, IsSchedule(t), NEW v \in DOMAIN t, t[v].type = "band",
         NEW p \in DOMAIN t, IsPrefix(v, p), p # v
  PROVE  IsPrefix(Append(v, 1), p) /\ \E q \in Path : p = v \o (<<1>> \o q)
<1>1. IsTree(t) /\ v \in Path /\ p \in Path /\ children(v, t) = {1} /\ 1 \in Nat \ {0}
  BY ScheduleFacts DEF IsTree
<1>2. IsStrictPrefix(v, p)
  BY <1>1, BelowChild
<1>3. p[Len(v) + 1] \in children(v, t)
  BY <1>1, <1>2, StepBelow
<1>4. IsPrefix(Append(v, 1), p)
  BY <1>1, <1>2, <1>3, BelowChild
<1>5. Append(v, 1) \in Path
  BY <1>1, AppendPath
<1>6. PICK q \in Path : p = Append(v, 1) \o q
  BY <1>1, <1>4, <1>5, RestOfPath
<1>7. p = v \o (<<1>> \o q)
  BY <1>1, <1>6, StepOfConcat
<1>8. QED
  BY <1>4, <1>7

LEMMA BandPasses ==
  ASSUME NEW x, x.type = "band", NEW D
  PROVE  Passing(D, x) = D
BY DEF Passing

\* What is above the child of a band.
LEMMA BelowBandAbove ==
  ASSUME NEW t, IsSchedule(t), NEW v \in DOMAIN t, t[v].type = "band"
  PROVE  /\ DomainOf(t, Append(v, 1)) = DomainOf(t, v)
         /\ MembersAbove(t, Append(v, 1)) = MembersAbove(t, v) \o t[v].members
<1>1. v \in Path /\ 1 \in Nat \ {0} /\ t[<<>>].members \in Seq([Deps -> Int])
  BY ScheduleFacts, RootMembers DEF IsTree
<1>2. DomainOf(t, Append(v, 1)) = Passing(DomainOf(t, v), t[v])
  BY <1>1, DomainOfChild
<1>3. QED
  BY <1>1, <1>2, BandPasses, MembersAboveChild

LEMMA MarkCarries ==
  ASSUME NEW t, IsSchedule(t), NEW v \in DOMAIN t, t[v].type = "band",
         NEW flags, NEW r, MarkLooks(t, v, flags, r)
  PROVE  Carries(t, v, r, <<1>>, <<1>>)
<1>1. /\ IsSchedule(r) /\ v \in DOMAIN r /\ Built(v, r, <<1>>) = {v}
      /\ KeptOutside(t, v, r) /\ Moved(t, v, r, <<1>>, <<1>>)
      /\ r[v].members = t[v].members /\ r[v].type = "band"
  BY DEF MarkLooks
<1>2. IsTree(t) /\ v \in Path /\ v \o <<1>> = Append(v, 1)
  BY ScheduleBand, ScheduleFacts
<1>3. SameAt(t, v, r, v)
  BY <1>1, <1>2, SameAtOutside
<1>4. SameAt(t, v \o <<1>>, r, v \o <<1>>)
  <2>1. /\ DomainOf(t, Append(v, 1)) = DomainOf(t, v)
        /\ MembersAbove(t, Append(v, 1)) = MembersAbove(t, v) \o t[v].members
    BY BelowBandAbove
  <2>2. /\ DomainOf(r, Append(v, 1)) = DomainOf(r, v)
        /\ MembersAbove(r, Append(v, 1)) = MembersAbove(r, v) \o r[v].members
    BY <1>1, BelowBandAbove
  <2>3. QED
    BY <1>1, <1>2, <1>3, <2>1, <2>2 DEF SameAt
<1>5. ASSUME NEW p \in Executes(t), IsPrefix(v, p)
      PROVE  \E q \in Path : p = v \o (<<1>> \o q)
  <2>1. p \in DOMAIN t /\ children(p, t) = {}
    BY DEF Executes
  <2>2. children(v, t) = {1}
    BY ScheduleFacts
  <2>3. p # v
    BY <2>1, <2>2
  <2>4. QED
    BY <1>5, <2>1, <2>3, BelowBand
<1>6. v \notin Executes(r)
  <2>1. children(v, r) = {1}
    BY <1>1, ScheduleFacts
  <2>2. QED
    BY <2>1 DEF Executes
<1>7. QED
  BY <1>1, <1>4, <1>5, <1>6 DEF Carries

LEMMA MergeCarries ==
  ASSUME NEW t, IsSchedule(t), NEW v \in DOMAIN t, t[v].type = "band",
         t[Append(v, 1)].type = "band", NEW r, MergeLooks(t, v, r)
  PROVE  Carries(t, v, r, <<1>>, <<1>> \o <<1>>)
<1> DEFINE c == Append(v, 1)
           S == Seq([Deps -> Int])
<1>1. /\ IsSchedule(r) /\ v \in DOMAIN r /\ Built(v, r, <<1>>) = {v}
      /\ KeptOutside(t, v, r) /\ Moved(t, v, r, <<1>>, <<1>> \o <<1>>)
      /\ r[v].members = t[v].members \o t[c].members /\ r[v].type = "band"
  BY DEF MergeLooks
<1>2. /\ IsTree(t) /\ v \in Path /\ v \o <<1>> = c /\ c \in DOMAIN t /\ c \in Path
      /\ 1 \in Nat \ {0}
  BY ScheduleBand, ScheduleFacts DEF IsTree
<1>3. SameAt(t, v, r, v)
  BY <1>1, <1>2, SameAtOutside
<1>4. \A q \in Path : v \o ((<<1>> \o <<1>>) \o q) = Append(c, 1) \o q
  <2>1. ASSUME NEW q \in Path
        PROVE  v \o ((<<1>> \o <<1>>) \o q) = Append(c, 1) \o q
    <3>1. <<1>> \in Path /\ <<1>> \o q \in Path
      BY <1>2, StepPath, FirstStep
    <3>2. (<<1>> \o <<1>>) \o q = <<1>> \o (<<1>> \o q)
      BY <3>1, ConcatAgain
    <3>3. v \o (<<1>> \o (<<1>> \o q)) = c \o (<<1>> \o q)
      BY <1>2, <3>1, StepOfConcat
    <3>4. c \o (<<1>> \o q) = Append(c, 1) \o q
      BY <1>2, StepOfConcat
    <3>5. QED
      BY <3>2, <3>3, <3>4
  <2>2. QED
    BY <2>1
<1>5. v \o (<<1>> \o <<1>>) = Append(c, 1)
  <2>1. <<1>> \o <<1>> \in Path /\ <<>> \in Path /\ Append(c, 1) \in Path
    BY <1>2, StepPath, EmptyPath, ConcatPath, AppendPath
  <2>2. v \o ((<<1>> \o <<1>>) \o <<>>) = Append(c, 1) \o <<>>
    BY <1>4, <2>1
  <2>3. QED
    BY <2>1, <2>2, EmptyPath
<1>6. SameAt(t, v \o (<<1>> \o <<1>>), r, v \o <<1>>)
  <2>1. /\ DomainOf(t, c) = DomainOf(t, v)
        /\ MembersAbove(t, c) = MembersAbove(t, v) \o t[v].members
    BY BelowBandAbove
  <2>2. /\ DomainOf(t, Append(c, 1)) = DomainOf(t, c)
        /\ MembersAbove(t, Append(c, 1)) = MembersAbove(t, c) \o t[c].members
    BY <1>2, BelowBandAbove
  <2>3. /\ DomainOf(r, c) = DomainOf(r, v)
        /\ MembersAbove(r, c) = MembersAbove(r, v) \o r[v].members
    BY <1>1, BelowBandAbove
  <2> DEFINE m == MembersAbove(t, v)
             x == t[v].members
             y == t[c].members
  <2>4. m \in S /\ x \in S /\ y \in S
    BY <1>2, MembersAreMembers, ScheduleFacts DEF Sensible
  <2>5. MembersAbove(t, Append(c, 1)) = (m \o x) \o y
    BY <2>1, <2>2
  <2>6. MembersAbove(r, c) = m \o (x \o y)
    BY <1>1, <1>3, <2>3 DEF SameAt
  <2> HIDE DEF m, x, y
  <2>7. (m \o x) \o y = m \o (x \o y)
    BY <2>4, ConcatAssociative
  <2>8. DomainOf(r, c) = DomainOf(t, Append(c, 1))
    BY <1>3, <2>1, <2>2, <2>3 DEF SameAt
  <2>9. QED
    BY <1>2, <1>5, <2>5, <2>6, <2>7, <2>8 DEF SameAt
<1>7. ASSUME NEW p \in Executes(t), IsPrefix(v, p)
      PROVE  \E q \in Path : p = v \o ((<<1>> \o <<1>>) \o q)
  <2>1. p \in DOMAIN t /\ p \in Path /\ children(p, t) = {}
    BY <1>2 DEF Executes, IsTree
  <2>2. children(v, t) = {1} /\ children(c, t) = {1}
    BY <1>2, ScheduleFacts
  <2>3. p # v /\ p # c
    BY <2>1, <2>2
  <2>4. IsPrefix(c, p)
    BY <1>7, <2>1, <2>3, BelowBand
  <2>5. IsPrefix(Append(c, 1), p)
    BY <1>2, <2>1, <2>3, <2>4, BelowBand
  <2>6. Append(c, 1) \in Path
    BY <1>2, AppendPath
  <2>7. PICK q \in Path : p = Append(c, 1) \o q
    BY <2>1, <2>5, <2>6, RestOfPath
  <2>8. QED
    BY <1>4, <2>7
<1>8. v \notin Executes(r)
  <2>1. children(v, r) = {1}
    BY <1>1, ScheduleFacts
  <2>2. QED
    BY <2>1 DEF Executes
<1>9. QED
  BY <1>1, <1>6, <1>7, <1>8 DEF Carries

\* What gets to the parts of the replacement around a band.
LEMMA LayoutPasses ==
  ASSUME NEW D, NEW s
  PROVE  /\ Passing(D, plain("extension", s)) = D \cup s
         /\ Passing(D, plain("sequence", {})) = D
         /\ Passing(D, plain("filter", s)) = D \cap s
         /\ plain("extension", s).members = <<>>
         /\ plain("sequence", {}).members = <<>>
         /\ plain("filter", s).members = <<>>
BY DEF Passing, plain

LEMMA LayoutAbove ==
  ASSUME NEW t, IsSchedule(t), NEW v \in DOMAIN t, t[v].type = "band",
         NEW r, IsSchedule(r), LayoutLooks(t, v, DomainOf(t, v), r)
  PROVE  /\ SameAt(t, v, r, Append(Part(v, 2), 1))
         /\ \A j \in {1, 3} : DomainOf(r, PartLeaf(v, j)) \subseteq New
<1> DEFINE D == DomainOf(t, v)
           M == MembersAbove(t, v)
<1>1. /\ KeptOutside(t, v, r)
      /\ v \in DOMAIN r /\ r[v] = plain("extension", New)
      /\ Seq1(v) \in DOMAIN r /\ r[Seq1(v)] = plain("sequence", {})
      /\ Part(v, 2) \in DOMAIN r /\ r[Part(v, 2)] = plain("filter", D)
      /\ \A j \in {1, 3} :
           /\ Part(v, j) \in DOMAIN r
           /\ \E s \in New : r[Part(v, j)] = plain("filter", {s})
           /\ PartBand(v, j) \in DOMAIN r /\ r[PartBand(v, j)] = band(Zero, FALSE)
  BY ONLY LayoutLooks(t, v, DomainOf(t, v), r) DEF LayoutLooks
<1>2. /\ IsTree(t) /\ v \in Path
      /\ 1 \in Nat \ {0} /\ 2 \in Nat \ {0} /\ r[<<>>].members \in Seq([Deps -> Int])
  BY ScheduleFacts, RootMembers DEF IsTree
<1> HIDE DEF D, M
<1>3. DomainOf(r, v) = D /\ MembersAbove(r, v) = M
  BY <1>1, <1>2, SameAtOutside DEF SameAt, D, M
<1>4. M \in Seq([Deps -> Int]) /\ M \o <<>> = M
  BY <1>2, MembersAreMembers, ConcatEmptySeq DEF M
<1>5. DomainOf(r, Seq1(v)) = D \cup New /\ MembersAbove(r, Seq1(v)) = M
  <2>1. /\ DomainOf(r, Append(v, 1)) = Passing(DomainOf(r, v), r[v])
        /\ MembersAbove(r, Append(v, 1)) = MembersAbove(r, v) \o r[v].members
    BY <1>2, DomainOfChild, MembersAboveChild
  <2>2. Passing(D, r[v]) = D \cup New /\ r[v].members = <<>>
    BY <1>1, LayoutPasses
  <2>3. QED
    BY <1>3, <1>4, <2>1, <2>2 DEF Seq1
<1>6. ASSUME NEW j \in Nat \ {0}
      PROVE  DomainOf(r, Part(v, j)) = D \cup New /\ MembersAbove(r, Part(v, j)) = M
  <2>1. Seq1(v) \in Path /\ Part(v, j) = Append(Seq1(v), j)
    BY <1>2, PartPaths DEF Part, Seq1
  <2>2. /\ DomainOf(r, Part(v, j)) = Passing(DomainOf(r, Seq1(v)), r[Seq1(v)])
        /\ MembersAbove(r, Part(v, j)) = MembersAbove(r, Seq1(v)) \o r[Seq1(v)].members
    BY <1>2, <2>1, DomainOfChild, MembersAboveChild
  <2>3. Passing(D \cup New, r[Seq1(v)]) = D \cup New /\ r[Seq1(v)].members = <<>>
    BY <1>1, LayoutPasses
  <2>4. QED
    BY <1>4, <1>5, <2>2, <2>3
<1>7. SameAt(t, v, r, Append(Part(v, 2), 1))
  <2>1. Part(v, 2) \in Path
    BY <1>2, PartPaths
  <2>2. /\ DomainOf(r, Append(Part(v, 2), 1)) = Passing(DomainOf(r, Part(v, 2)), r[Part(v, 2)])
        /\ MembersAbove(r, Append(Part(v, 2), 1))
             = MembersAbove(r, Part(v, 2)) \o r[Part(v, 2)].members
    BY <1>2, <2>1, DomainOfChild, MembersAboveChild
  <2>3. Passing(D \cup New, r[Part(v, 2)]) = D /\ r[Part(v, 2)].members = <<>>
    <3>1. /\ Passing(D \cup New, r[Part(v, 2)]) = (D \cup New) \cap D
          /\ r[Part(v, 2)].members = <<>>
      BY <1>1, LayoutPasses
    <3>2. (D \cup New) \cap D = D
      OBVIOUS
    <3>3. QED
      BY <3>1, <3>2
  <2>4. QED
    BY <1>2, <1>4, <1>6, <2>2, <2>3 DEF SameAt, D, M
<1>8. ASSUME NEW j \in {1, 3} PROVE DomainOf(r, PartLeaf(v, j)) \subseteq New
  <2>1. PICK s \in New : r[Part(v, j)] = plain("filter", {s})
    BY <1>1
  <2>2. j \in Nat \ {0}
    OBVIOUS
  <2>3. Part(v, j) \in Path /\ PartBand(v, j) \in Path
    BY <1>2, <2>2, PartPaths
  <2>4. DomainOf(r, PartBand(v, j)) = Passing(DomainOf(r, Part(v, j)), r[Part(v, j)])
    BY <1>2, <2>3, DomainOfChild DEF PartBand
  <2>5. Passing(D \cup New, r[Part(v, j)]) = (D \cup New) \cap {s}
    BY <2>1, LayoutPasses
  <2>6. DomainOf(r, PartBand(v, j)) \subseteq New
    BY <1>6, <2>1, <2>2, <2>4, <2>5
  <2>7. r[PartBand(v, j)].type = "band"
    BY <1>1, ZeroBand
  <2>8. DomainOf(r, PartLeaf(v, j)) = DomainOf(r, PartBand(v, j))
    BY <1>1, <2>7, BelowBandAbove DEF PartLeaf
  <2>9. QED
    BY <2>6, <2>8
<1>9. QED
  BY <1>7, <1>8

LEMMA LayoutCarries ==
  ASSUME NEW t, IsSchedule(t), NEW v \in DOMAIN t, t[v].type = "band",
         NEW r, IsSchedule(r), LayoutLooks(t, v, DomainOf(t, v), r),
         BuiltByLayout(v, DomainOf(t, v), r)
  PROVE  Carries(t, v, r, Within3, <<>>)
<1>1. /\ KeptOutside(t, v, r) /\ Moved(t, v, r, Within3, <<>>)
      /\ Seq1(v) \in DOMAIN r /\ Part(v, 2) \in DOMAIN r
      /\ \A j \in {1, 3} : PartBand(v, j) \in DOMAIN r /\ PartLeaf(v, j) \in DOMAIN r
  BY ONLY LayoutLooks(t, v, DomainOf(t, v), r) DEF LayoutLooks
<1>2. /\ IsTree(t) /\ IsTree(r) /\ v \in Path /\ v \o <<>> = v /\ <<>> \in Path
      /\ 1 \in Nat \ {0} /\ 2 \in Nat \ {0}
  BY ScheduleFacts, EmptyPath DEF IsTree
<1>3. /\ SameAt(t, v, r, Append(Part(v, 2), 1))
      /\ \A j \in {1, 3} : DomainOf(r, PartLeaf(v, j)) \subseteq New
  BY LayoutAbove
<1>4. v \o Within3 = Append(Part(v, 2), 1)
  <2>1. <<1>> \in Path /\ Part(v, 2) \in Path
    BY <1>2, StepPath, PartPaths
  <2>2. v \o (<<1>> \o (<<2>> \o <<1>>)) = Part(v, 2) \o <<1>>
    BY <1>2, <2>1, PartPaths
  <2>3. Part(v, 2) \o <<1>> = Append(Part(v, 2), 1)
    BY <1>2, <2>1, AppendIsStep
  <2>4. QED
    BY <2>2, <2>3 DEF Within3
<1>5. SameAt(t, v \o <<>>, r, v \o Within3)
  BY <1>2, <1>3, <1>4
<1>6. ASSUME NEW p \in Executes(t), IsPrefix(v, p)
      PROVE  \E q \in Path : p = v \o (<<>> \o q)
  <2>1. p \in Path
    BY <1>2 DEF Executes, IsTree
  <2>2. PICK q \in Path : p = v \o q
    BY <1>2, <1>6, <2>1, RestOfPath
  <2>3. <<>> \o q = q
    BY EmptyPath
  <2>4. QED
    BY <2>2, <2>3
<1>7. ASSUME NEW x \in Path, Append(x, 1) \in DOMAIN r PROVE x \notin Executes(r)
  BY <1>2, <1>7, Childless DEF Executes
<1>8. ASSUME NEW q \in Built(v, r, Within3) PROVE q \notin Executes(r)
  <2>1. \/ q = v \/ q = Seq1(v) \/ q = Part(v, 2)
        \/ \E j \in {1, 3} : q = Part(v, j) \/ q = PartBand(v, j) \/ q = PartLeaf(v, j)
    BY ONLY <1>8, BuiltByLayout(v, DomainOf(t, v), r) DEF BuiltByLayout
  <2>2. CASE q = v
    BY <1>1, <1>2, <1>7, <2>2 DEF Seq1
  <2>3. CASE q = Seq1(v)
    <3>1. Append(q, 1) \in DOMAIN r /\ q \in Path
      <4>1. Append(q, 2) \in DOMAIN r /\ q \in Path
        BY <1>1, <1>2, <2>3, PartPaths DEF Part, Seq1
      <4>2. 1 \in 1..2
        OBVIOUS
      <4>3. QED
        BY <1>2, <4>1, <4>2, ParentInTree
    <3>2. QED
      BY <1>7, <3>1
  <2>4. CASE q = Part(v, 2)
    <3>1. v \o (Within3 \o <<>>) \in DOMAIN r
      <4>1. v \o (<<>> \o <<>>) \in DOMAIN t
        BY <1>2, EmptyPath
      <4>2. v \o (Within3 \o <<>>) \in DOMAIN r <=> v \o (<<>> \o <<>>) \in DOMAIN t
        BY <1>1, <1>2 DEF Moved
      <4>3. QED
        BY <4>1, <4>2
    <3>2. Within3 \o <<>> = Within3
      BY Within3Facts, EmptyPath
    <3>3. q \in Path
      BY <1>2, <2>4, PartPaths
    <3>4. QED
      BY <1>4, <1>7, <2>4, <3>1, <3>2, <3>3
  <2>5. ASSUME NEW j \in {1, 3}, q = Part(v, j) \/ q = PartBand(v, j) \/ q = PartLeaf(v, j)
        PROVE  q \notin Executes(r)
    <3>1. j \in Nat \ {0}
      OBVIOUS
    <3>2. Part(v, j) \in Path /\ PartBand(v, j) \in Path
      BY <1>2, <3>1, PartPaths
    <3>3. Part(v, j) \notin Executes(r)
      BY <1>1, <1>7, <3>2 DEF PartBand
    <3>4. PartBand(v, j) \notin Executes(r)
      BY <1>1, <1>7, <3>2 DEF PartLeaf
    <3>5. PartLeaf(v, j) \notin Executes(r)
      BY <1>3 DEF Executes
    <3>6. QED
      BY <2>5, <3>3, <3>4, <3>5
  <2>6. QED
    BY <2>1, <2>2, <2>3, <2>4, <2>5
<1>9. QED
  BY <1>1, <1>5, <1>6, <1>8 DEF Carries

LEMMA OrderRewritten ==
  ASSUME job \in {"merge", "mark", "layout"},
         NEW t, IsSchedule(t), NEW v \in DOMAIN t, NEW r, Rewrites(t, v, r)
  PROVE  SameOrder(t, r)
<1>1. t[v].type = "band" /\ IsTree(t)
  BY ScheduleFacts DEF Rewrites, isMatching
<1>2. IsSchedule(r) /\ v \in DOMAIN r
  BY RewrittenSchedule
<1>3. <<1>> \in Path /\ <<1>> \o <<1>> \in Path /\ <<>> \in Path /\ Within3 \in Path
  BY StepPath, EmptyPath, ConcatPath, Within3Facts
<1>4. ASSUME NEW a \in Path, NEW b \in Path, Carries(t, v, r, a, b) PROVE SameOrder(t, r)
  BY <1>2, <1>4, OrderAfter
<1>5. CASE job = "merge"
  <2>1. /\ t[Append(v, 1)].type = "band"
        /\ r = Replace(t, v, mergedBand(Subtree(t, v)))
    BY <1>5 DEF Rewrites, isMatching
  <2>2. MergeLooks(t, v, r)
    BY <1>1, <2>1, MergeSchedule
  <2>3. Carries(t, v, r, <<1>>, <<1>> \o <<1>>)
    BY <1>1, <2>1, <2>2, MergeCarries
  <2>4. QED
    BY <1>3, <1>4, <2>3
<1>6. CASE job = "mark"
  <2> DEFINE flags == detectCoincidence(t, v)
  <2>1. r = Replace(t, v, markedBand(Subtree(t, v), flags)) /\ Len(flags) = Len(t[v].members)
    BY <1>1, <1>6, ScheduleBand, CoincidenceFacts DEF Rewrites
  <2> HIDE DEF flags
  <2>2. MarkLooks(t, v, flags, r)
    BY ONLY <1>1, <2>1, IsSchedule(t), v \in DOMAIN t, MarkSchedule
  <2>3. Carries(t, v, r, <<1>>, <<1>>)
    BY ONLY <1>1, <2>2, IsSchedule(t), v \in DOMAIN t, MarkCarries
  <2>4. QED
    BY <1>3, <1>4, <2>3
<1>7. CASE job = "layout"
  <2>1. r = Replace(t, v, aroundBand(Subtree(t, v), DomainOf(t, v)))
    BY <1>7 DEF Rewrites
  <2> DEFINE core == DomainOf(t, v)
  <2> HIDE DEF core
  <2>2. r = Replace(t, v, aroundBand(Subtree(t, v), core))
    BY <2>1 DEF core
  <2>3. LayoutLooks(t, v, core, r)
    BY ONLY <1>1, <2>2, v \in DOMAIN t, LayoutReplaced
  <2>4. BuiltByLayout(v, core, r)
    BY ONLY <1>1, <2>2, IsSchedule(t), v \in DOMAIN t, LayoutBuilds
  <2>5. LayoutLooks(t, v, DomainOf(t, v), r) /\ BuiltByLayout(v, DomainOf(t, v), r)
    BY <2>3, <2>4 DEF core
  <2>6. Carries(t, v, r, Within3, <<>>)
    BY ONLY <1>1, <1>2, <2>5, IsSchedule(t), v \in DOMAIN t, LayoutCarries
  <2>7. QED
    BY <1>3, <1>4, <2>6
<1>8. QED
  BY <1>5, <1>6, <1>7

OrderInv == SameOrder(original, Current)

\* Whatever is merged, marked or wrapped, the statements of the program are
\* executed in the same order, below the same bands (mergeIfTilable, markCoincident
\* and the layout transformation, whose builders read captures of older trees).
THEOREM OrderKept == Spec => []OrderIsKept
<1>1. Init => TreeInv /\ OrderInv
  <2> SUFFICES ASSUME Init PROVE TreeInv /\ OrderInv
    OBVIOUS
  <2>1. QED
    BY TreeInit, SameOrderReflexive DEF OrderInv
<1>2. TreeInv /\ OrderInv /\ [Next]_vars => (TreeInv /\ OrderInv)'
  <2> SUFFICES ASSUME TreeInv, OrderInv, [Next]_vars PROVE (TreeInv /\ OrderInv)'
    OBVIOUS
  <2>1. TreeInv'
    BY TreeStep
  <2>2. original' = original
    BY JobIsKept
  <2>3. CASE Insert
    <3>1. Rewrites(Current, node, Current')
      BY <2>3, CurrentSteps
    <3>2. SameOrder(Current, Current')
      BY <3>1, OrderRewritten DEF TreeInv
    <3>3. SameOrder(original, Current')
      BY <3>2, SameOrderTransitive DEF OrderInv
    <3>4. QED
      BY <2>1, <2>2, <3>3 DEF OrderInv
  <2>4. CASE ~Insert
    <3>1. Current' = Current
      BY <2>4, CurrentSteps
    <3>2. QED
      BY <2>1, <2>2, <3>1 DEF OrderInv
  <2>5. QED
    BY <2>3, <2>4
<1>3. OrderInv => OrderIsKept
  <2> SUFFICES ASSUME OrderInv, pc \notin {"insert", "failed"}
               PROVE  \E f \in Bijection(Executes(original), Executes(tree)) :
                        \A p \in Executes(original) :
                          /\ \A q \in Executes(original) : Before(p, q) => Before(f[p], f[q])
                          /\ DomainOf(tree, f[p]) = DomainOf(original, p)
                          /\ MembersAbove(tree, f[p]) = MembersAbove(original, p)
    BY DEF OrderIsKept
  <2>1. SameOrder(original, tree)
    BY DEF OrderInv, Current
  <2>2. QED
    BY <2>1 DEF SameOrder, Orders, SameAt
<1>4. QED
  <2>1. Spec => [](TreeInv /\ OrderInv)
    BY <1>1, <1>2, PTL DEF Spec
  <2>2. QED
    BY <1>3, <2>1, PTL

=============================================================================
