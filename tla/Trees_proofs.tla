----------------------------- MODULE Trees_proofs -----------------------------
(***************************************************************************)
(* Lemmas about paths and trees.                                           *)
(***************************************************************************)
EXTENDS Trees, SequenceTheorems, FiniteSetTheorems, WellFoundedInduction, TLAPS

LEMMA Least ==
  ASSUME NEW T \in SUBSET Nat, T # {}
  PROVE  \E k \in T : \A j \in T : k <= j
<1> DEFINE R == OpToRel(<, Nat)
<1>1. IsWellFoundedOn(R, Nat)
  BY NatLessThanWellFounded
<1>2. \A j, k \in Nat : <<j, k>> \in R <=> j < k
  BY DEF OpToRel
<1> HIDE DEF R
<1>3. PICK k \in T : \A j \in T : ~(<<j, k>> \in R)
  BY <1>1, WFMin
<1>4. ASSUME NEW j \in T PROVE k <= j
  <2>1. j \in Nat /\ k \in Nat
    OBVIOUS
  <2>2. ~(j < k)
    BY <1>2, <1>3, <2>1
  <2>3. QED
    BY <2>1, <2>2
<1>5. QED
  BY <1>4

-----------------------------------------------------------------------------
(***************************************************************************)
(* Paths.                                                                  *)
(***************************************************************************)
LEMMA PathFacts ==
  ASSUME NEW p \in Path
  PROVE  /\ Len(p) \in Nat /\ DOMAIN p = 1..Len(p)
         /\ \A k \in 1..Len(p) : p[k] \in Nat \ {0}
         /\ p = <<>> <=> Len(p) = 0
<1>1. /\ Len(p) \in Nat /\ DOMAIN p = 1..Len(p)
      /\ \A k \in 1..Len(p) : p[k] \in Nat \ {0}
  BY LenProperties, ElementOfSeq DEF Path
<1>2. p = <<>> <=> Len(p) = 0
  BY EmptySeq DEF Path
<1>3. QED
  BY <1>1, <1>2

LEMMA PathEqual ==
  ASSUME NEW p \in Path, NEW q \in Path, Len(p) = Len(q),
         \A k \in 1..Len(p) : p[k] = q[k]
  PROVE  p = q
BY SeqEqual DEF Path

LEMMA BeginningFacts ==
  ASSUME NEW p \in Path, NEW k \in 0..Len(p)
  PROVE  /\ SubSeq(p, 1, k) \in Path /\ Len(SubSeq(p, 1, k)) = k
         /\ \A i \in 1..k : SubSeq(p, 1, k)[i] = p[i]
<1>1. Len(p) \in Nat /\ \A i \in 1..k : p[i] \in Nat \ {0}
  BY PathFacts
<1>2. /\ SubSeq(p, 1, k) \in Seq(Nat \ {0})
      /\ Len(SubSeq(p, 1, k)) = IF 1 <= k THEN k - 1 + 1 ELSE 0
      /\ \A i \in 1..(k - 1 + 1) : SubSeq(p, 1, k)[i] = p[1 + i - 1]
  BY <1>1, SubSeqProperties
<1>3. QED
  BY <1>1, <1>2 DEF Path

LEMMA PrefixFacts ==
  ASSUME NEW p \in Path, NEW q \in Path
  PROVE  IsPrefix(p, q) <=> Len(p) <= Len(q) /\ \A i \in 1..Len(p) : p[i] = q[i]
<1>1. Len(p) \in Nat /\ Len(q) \in Nat
  BY PathFacts
<1>2. ASSUME Len(p) <= Len(q)
      PROVE  SubSeq(p, 1, Len(p)) = SubSeq(q, 1, Len(p))
               <=> \A i \in 1..Len(p) : p[i] = q[i]
  <2> DEFINE a == SubSeq(p, 1, Len(p))
             b == SubSeq(q, 1, Len(p))
  <2>1. /\ a \in Path /\ Len(a) = Len(p) /\ \A i \in 1..Len(p) : a[i] = p[i]
        /\ b \in Path /\ Len(b) = Len(p) /\ \A i \in 1..Len(p) : b[i] = q[i]
    BY <1>1, <1>2, BeginningFacts
  <2> HIDE DEF a, b
  <2>2. ASSUME \A i \in 1..Len(p) : p[i] = q[i] PROVE a = b
    BY <2>1, <2>2, PathEqual
  <2>3. a = b <=> \A i \in 1..Len(p) : p[i] = q[i]
    BY <2>1, <2>2
  <2>4. QED
    BY <2>3 DEF a, b
<1>3. QED
  BY <1>1, <1>2 DEF IsPrefix

LEMMA StrictPrefixFacts ==
  ASSUME NEW p \in Path, NEW q \in Path
  PROVE  IsStrictPrefix(p, q) <=> Len(p) < Len(q) /\ \A i \in 1..Len(p) : p[i] = q[i]
<1>1. Len(p) \in Nat /\ Len(q) \in Nat
  BY PathFacts
<1>2. IsPrefix(p, q) /\ Len(p) = Len(q) => p = q
  BY PrefixFacts, PathEqual
<1>3. QED
  BY <1>1, <1>2, PrefixFacts DEF IsStrictPrefix

LEMMA AppendPath ==
  ASSUME NEW p \in Path, NEW i \in Nat \ {0}
  PROVE  /\ Append(p, i) \in Path /\ Append(p, i) # <<>>
         /\ Len(Append(p, i)) = Len(p) + 1
         /\ \A k \in 1..Len(p) : Append(p, i)[k] = p[k]
         /\ Append(p, i)[Len(p) + 1] = i
         /\ Front(Append(p, i)) = p /\ Last(Append(p, i)) = i
<1> DEFINE a == Append(p, i)
<1>1. /\ a \in Path /\ Len(p) \in Nat /\ Len(a) = Len(p) + 1
      /\ \A k \in 1..Len(p) : a[k] = p[k]
      /\ a[Len(p) + 1] = i
  BY AppendProperties, LenProperties DEF Path
<1> HIDE DEF a
<1>2. a # <<>>
  BY <1>1, PathFacts
<1>3. Front(a) = p
  <2>1. Front(a) = SubSeq(a, 1, Len(p))
    BY <1>1 DEF Front
  <2>2. /\ SubSeq(a, 1, Len(p)) \in Path /\ Len(SubSeq(a, 1, Len(p))) = Len(p)
        /\ \A k \in 1..Len(p) : SubSeq(a, 1, Len(p))[k] = p[k]
    BY <1>1, BeginningFacts
  <2>3. QED
    BY <2>1, <2>2, PathEqual
<1>4. Last(a) = i
  BY <1>1 DEF Last
<1>5. QED
  BY <1>1, <1>2, <1>3, <1>4 DEF a

LEMMA ParentPath ==
  ASSUME NEW p \in Path, p # <<>>
  PROVE  /\ Front(p) \in Path /\ Last(p) \in Nat \ {0} /\ Len(p) \in Nat \ {0}
         /\ p = Append(Front(p), Last(p))
         /\ Len(Front(p)) = Len(p) - 1 /\ Last(p) = p[Len(p)]
         /\ \A k \in 1..(Len(p) - 1) : Front(p)[k] = p[k]
<1>1. Len(p) \in Nat \ {0} /\ Last(p) = p[Len(p)]
  BY PathFacts DEF Last
<1>2. Last(p) \in Nat \ {0}
  BY <1>1, PathFacts
<1>3. /\ Front(p) \in Path /\ Len(Front(p)) = Len(p) - 1
      /\ \A k \in 1..(Len(p) - 1) : Front(p)[k] = p[k]
  <2>1. Len(p) - 1 \in 0..Len(p) /\ Front(p) = SubSeq(p, 1, Len(p) - 1)
    BY <1>1 DEF Front
  <2>2. QED
    BY <2>1, BeginningFacts
<1>4. p = Append(Front(p), Last(p))
  <2> DEFINE a == Append(Front(p), Last(p))
  <2>1. /\ a \in Path /\ Len(a) = Len(p)
        /\ \A k \in 1..(Len(p) - 1) : a[k] = p[k]
        /\ a[Len(p)] = p[Len(p)]
    BY <1>1, <1>2, <1>3, AppendPath
  <2> HIDE DEF a
  <2>2. \A k \in 1..Len(p) : a[k] = p[k]
    BY <1>1, <2>1
  <2>3. a = p
    BY <2>1, <2>2, PathEqual
  <2>4. QED
    BY <2>3 DEF a
<1>5. QED
  BY <1>1, <1>2, <1>3, <1>4

LEMMA ConcatPath ==
  ASSUME NEW v \in Path, NEW p \in Path
  PROVE  /\ v \o p \in Path /\ Len(v \o p) = Len(v) + Len(p)
         /\ \A k \in 1..(Len(v) + Len(p)) :
              (v \o p)[k] = IF k <= Len(v) THEN v[k] ELSE p[k - Len(v)]
         /\ v \o <<>> = v
BY ConcatProperties, ConcatEmptySeq DEF Path

LEMMA ConcatAppend ==
  ASSUME NEW v \in Path, NEW p \in Path, NEW i \in Nat \ {0}
  PROVE  v \o Append(p, i) = Append(v \o p, i)
<1>1. /\ Len(v) \in Nat /\ Len(p) \in Nat
      /\ v \o p \in Path /\ Append(p, i) \in Path
  BY PathFacts, ConcatPath, AppendPath
<1> DEFINE a == v \o Append(p, i)
           b == Append(v \o p, i)
<1>2. /\ a \in Path /\ b \in Path
      /\ Len(a) = Len(v) + Len(p) + 1 /\ Len(b) = Len(v) + Len(p) + 1
  BY <1>1, ConcatPath, AppendPath
<1>3. ASSUME NEW k \in 1..(Len(v) + Len(p) + 1) PROVE a[k] = b[k]
  <2>1. a[k] = IF k <= Len(v) THEN v[k] ELSE Append(p, i)[k - Len(v)]
    <3>1. k \in 1..(Len(v) + Len(Append(p, i)))
      BY <1>1, AppendPath
    <3>2. QED
      BY <1>1, <3>1, ConcatPath
  <2>2. CASE k <= Len(v) + Len(p)
    <3>1. b[k] = (v \o p)[k]
      BY <1>1, <2>2, ConcatPath, AppendPath
    <3>2. (v \o p)[k] = IF k <= Len(v) THEN v[k] ELSE p[k - Len(v)]
      BY <1>1, <2>2, ConcatPath
    <3>3. ~(k <= Len(v)) => Append(p, i)[k - Len(v)] = p[k - Len(v)]
      BY <1>1, <2>2, AppendPath
    <3>4. QED
      BY <2>1, <3>1, <3>2, <3>3
  <2>3. CASE k = Len(v) + Len(p) + 1
    <3>1. b[k] = i
      BY <1>1, <2>3, ConcatPath, AppendPath
    <3>2. Append(p, i)[k - Len(v)] = i /\ ~(k <= Len(v))
      BY <1>1, <2>3, AppendPath
    <3>3. QED
      BY <2>1, <3>1, <3>2
  <2>4. QED
    BY <1>1, <2>2, <2>3
<1> HIDE DEF a, b
<1>4. a = b
  BY <1>2, <1>3, PathEqual
<1>5. QED
  BY <1>4 DEF a, b

-----------------------------------------------------------------------------
(***************************************************************************)
(* Trees.                                                                  *)
(***************************************************************************)
LEMMA BeginningOfAppend ==
  ASSUME NEW v \in Path, NEW i \in Nat \ {0}
  PROVE  SubSeq(Append(v, i), 1, Len(v)) = v
<1>1. Front(Append(v, i)) = v /\ Len(Append(v, i)) = Len(v) + 1 /\ Len(v) \in Nat
  BY AppendPath, PathFacts
<1>2. QED
  BY <1>1 DEF Front

LEMMA TreeIsClosed ==
  ASSUME NEW t, IsTree(t), NEW v \in DOMAIN t, NEW p \in Path, IsPrefix(p, v)
  PROVE  p \in DOMAIN t
<1>1. v \in Path
  BY DEF IsTree
<1>2. /\ Len(p) \in Nat /\ Len(v) \in Nat /\ Len(p) <= Len(v)
      /\ \A k \in 1..Len(p) : p[k] = v[k] /\ p[k] \in Nat \ {0}
  BY <1>1, PrefixFacts, PathFacts
<1>3. CASE p = <<>>
  BY <1>3 DEF IsTree
<1>4. CASE p # <<>>
  <2>1. /\ Len(p) \in 1..Len(v) /\ p = Append(Front(p), Last(p))
        /\ Last(p) = v[Len(p)] /\ Last(p) \in Nat \ {0}
    BY <1>2, <1>4, ParentPath
  <2>2. Append(SubSeq(v, 1, Len(p) - 1), v[Len(p)]) \in DOMAIN t
    <3>1. v[Len(p)] \in 1..v[Len(p)]
      BY <2>1
    <3>2. QED
      BY <2>1, <3>1 DEF IsTree
  <2>3. SubSeq(v, 1, Len(p) - 1) = Front(p)
    <3>1. Len(p) - 1 \in 0..Len(v)
      BY <2>1
    <3>2. /\ SubSeq(v, 1, Len(p) - 1) \in Path
          /\ Len(SubSeq(v, 1, Len(p) - 1)) = Len(p) - 1
          /\ \A k \in 1..(Len(p) - 1) : SubSeq(v, 1, Len(p) - 1)[k] = v[k]
      BY <1>1, <3>1, BeginningFacts
    <3>3. /\ Front(p) \in Path /\ Len(Front(p)) = Len(p) - 1
          /\ \A k \in 1..(Len(p) - 1) : Front(p)[k] = p[k]
      BY <1>4, ParentPath
    <3>4. \A k \in 1..(Len(p) - 1) : p[k] = v[k]
      BY <1>2
    <3>5. QED
      BY <3>2, <3>3, <3>4, PathEqual
  <2>4. QED
    BY <2>1, <2>2, <2>3
<1>5. QED
  BY <1>3, <1>4

\* children(v, t) is 1..k, where k is the number of children of v.
LEMMA ChildNumbers ==
  ASSUME NEW t, IsTree(t), NEW v \in Path
  PROVE  /\ Cardinality(children(v, t)) \in Nat
         /\ children(v, t) = 1..Cardinality(children(v, t))
         /\ \A i \in Nat \ {0} :
              Append(v, i) \in DOMAIN t <=> i <= Cardinality(children(v, t))
<1> DEFINE S == {i \in Nat \ {0} : Append(v, i) \in DOMAIN t}
           C == Cardinality(DOMAIN t)
<1>1. C \in Nat /\ IsFiniteSet(DOMAIN t)
  BY FS_CardinalityType DEF IsTree
<1>2. ASSUME NEW i \in S, NEW j \in 1..i PROVE j \in S
  <2> DEFINE w == Append(v, i)
  <2>1. /\ w \in DOMAIN t /\ Len(w) = Len(v) + 1 /\ w[Len(v) + 1] = i
        /\ Len(v) \in Nat /\ SubSeq(w, 1, Len(v)) = v
    BY AppendPath, PathFacts, BeginningOfAppend
  <2> HIDE DEF w
  <2>2. /\ Len(v) + 1 \in 1..Len(w) /\ Len(v) + 1 - 1 = Len(v)
        /\ j \in 1..w[Len(v) + 1]
    BY <2>1
  <2>3. Append(SubSeq(w, 1, Len(v) + 1 - 1), j) \in DOMAIN t
    BY <2>1, <2>2 DEF IsTree
  <2>4. Append(v, j) \in DOMAIN t
    BY <2>1, <2>2, <2>3
  <2>5. QED
    BY <2>4
<1>3. ASSUME NEW i \in S PROVE i <= C
  <2> DEFINE f == [j \in 1..i |-> Append(v, j)]
  <2>1. \A j \in 1..i : Append(v, j) \in DOMAIN t
    BY <1>2
  <2>2. \A j, k \in 1..i : Append(v, j) = Append(v, k) => j = k
    <3>1. \A j \in 1..i : Last(Append(v, j)) = j
      BY AppendPath
    <3>2. QED
      BY <3>1
  <2>3. f \in Injection(1..i, DOMAIN t)
    BY <2>1, <2>2 DEF Injection, IsInjective
  <2>4. Cardinality(1..i) <= C
    BY <1>1, <2>3, FS_Injection
  <2>5. Cardinality(1..i) = i
    BY FS_Interval
  <2>6. QED
    BY <2>4, <2>5
<1>4. children(v, t) = S
  BY <1>1, <1>3 DEF children
<1>5. PICK k \in Nat : S = 1..k
  <2> DEFINE T == {k \in Nat \ {0} : k \notin S}
  <2>1. C + 1 \in T
    BY <1>1, <1>3
  <2>2. PICK n \in T : \A j \in T : n <= j
    <3>1. T \in SUBSET Nat
      OBVIOUS
    <3>2. QED
      BY <2>1, <3>1, Least
  <2>3. \A j \in 1..(n - 1) : j \in S
    BY <2>2
  <2>4. \A j \in S : j < n
    BY <1>2, <2>2
  <2>5. S = 1..(n - 1)
    BY <2>2, <2>3, <2>4
  <2>6. QED
    BY <2>2, <2>5
<1>6. Cardinality(1..k) = k
  BY FS_Interval
<1>7. \A i \in Nat \ {0} : Append(v, i) \in DOMAIN t <=> i \in S
  OBVIOUS
<1> HIDE DEF S
<1>8. QED
  BY <1>4, <1>5, <1>6, <1>7

-----------------------------------------------------------------------------
(***************************************************************************)
(* The depth-first preorder.                                               *)
(***************************************************************************)
\* p leaves the path to q to an earlier child.
BranchesBefore(p, q) ==
  \E k \in 1..Len(p) : /\ k <= Len(q)
                       /\ \A i \in 1..(k - 1) : p[i] = q[i]
                       /\ p[k] < q[k]

LEMMA BeforeFacts ==
  ASSUME NEW p \in Path, NEW q \in Path
  PROVE  Before(p, q) <=> IsStrictPrefix(p, q) \/ BranchesBefore(p, q)
<1>1. Len(p) \in Nat /\ Len(q) \in Nat
  BY PathFacts
<1>2. ASSUME NEW k \in 1..Len(p), k <= Len(q)
      PROVE  SubSeq(p, 1, k - 1) = SubSeq(q, 1, k - 1)
               <=> \A i \in 1..(k - 1) : p[i] = q[i]
  <2> DEFINE j == k - 1
             a == SubSeq(p, 1, j)
             b == SubSeq(q, 1, j)
  <2>1. j \in 0..Len(p) /\ j \in 0..Len(q)
    BY <1>1, <1>2
  <2> HIDE DEF j
  <2>2. /\ a \in Path /\ Len(a) = j /\ \A i \in 1..j : a[i] = p[i]
        /\ b \in Path /\ Len(b) = j /\ \A i \in 1..j : b[i] = q[i]
    BY <2>1, BeginningFacts
  <2> HIDE DEF a, b
  <2>3. ASSUME \A i \in 1..j : p[i] = q[i] PROVE a = b
    BY <2>2, <2>3, PathEqual
  <2>4. a = b <=> \A i \in 1..j : p[i] = q[i]
    BY <2>2, <2>3
  <2>5. QED
    BY <2>4 DEF a, b, j
<1>3. QED
  BY <1>1, <1>2 DEF Before, BranchesBefore

LEMMA ChildIsBelow ==
  ASSUME NEW v \in Path, NEW i \in Nat \ {0}
  PROVE  /\ IsPrefix(v, Append(v, i)) /\ IsStrictPrefix(v, Append(v, i))
         /\ Before(v, Append(v, i))
<1> DEFINE w == Append(v, i)
<1>1. w \in Path /\ Len(w) = Len(v) + 1 /\ Len(v) \in Nat /\ \A k \in 1..Len(v) : v[k] = w[k]
  BY AppendPath, PathFacts
<1> HIDE DEF w
<1>2. IsPrefix(v, w) /\ IsStrictPrefix(v, w)
  BY <1>1, PrefixFacts, StrictPrefixFacts
<1>3. Before(v, w)
  BY <1>1, <1>2, BeforeFacts
<1>4. QED
  BY <1>2, <1>3 DEF w

LEMMA StrictlyAboveChild ==
  ASSUME NEW v \in Path, NEW i \in Nat \ {0}, NEW q \in Path
  PROVE  IsStrictPrefix(q, Append(v, i)) <=> IsStrictPrefix(q, v) \/ q = v
<1> DEFINE w == Append(v, i)
           n == Len(v)
<1>1. /\ w \in Path /\ n \in Nat /\ Len(w) = n + 1 /\ Len(q) \in Nat
      /\ \A k \in 1..n : w[k] = v[k]
  BY AppendPath, PathFacts
<1> HIDE DEF w
<1>2. IsStrictPrefix(q, w) <=> Len(q) < n + 1 /\ \A k \in 1..Len(q) : q[k] = w[k]
  BY <1>1, StrictPrefixFacts
<1>3. IsStrictPrefix(q, v) <=> Len(q) < n /\ \A k \in 1..Len(q) : q[k] = v[k]
  BY StrictPrefixFacts
<1>4. q = v <=> Len(q) = n /\ \A k \in 1..n : q[k] = v[k]
  BY PathEqual
<1>5. IsStrictPrefix(q, w) <=> IsStrictPrefix(q, v) \/ q = v
  BY <1>1, <1>2, <1>3, <1>4
<1>6. QED
  BY <1>5 DEF w

\* What comes before the i-th child of v.
LEMMA BeforeChild ==
  ASSUME NEW v \in Path, NEW i \in Nat \ {0}, NEW q \in Path
  PROVE  Before(q, Append(v, i))
           <=> \/ Before(q, v) \/ q = v
               \/ IsStrictPrefix(v, q) /\ q[Len(v) + 1] < i
<1> DEFINE w == Append(v, i)
           n == Len(v)
<1>1. /\ w \in Path /\ n \in Nat /\ Len(w) = n + 1 /\ Len(q) \in Nat
      /\ \A k \in 1..n : w[k] = v[k]
      /\ w[n + 1] = i
  BY AppendPath, PathFacts
<1> HIDE DEF w
<1>2. Before(q, w) <=> IsStrictPrefix(q, w) \/ BranchesBefore(q, w)
  BY <1>1, BeforeFacts
<1>3. Before(q, v) <=> IsStrictPrefix(q, v) \/ BranchesBefore(q, v)
  BY BeforeFacts
<1>4. IsStrictPrefix(q, w) <=> IsStrictPrefix(q, v) \/ q = v
  BY StrictlyAboveChild DEF w
<1>5. IsStrictPrefix(v, q) <=> n < Len(q) /\ \A k \in 1..n : v[k] = q[k]
  BY StrictPrefixFacts
<1>6. ASSUME BranchesBefore(q, w)
      PROVE  BranchesBefore(q, v) \/ (IsStrictPrefix(v, q) /\ q[n + 1] < i)
  <2>1. PICK k \in 1..Len(q) : /\ k <= n + 1
                               /\ \A j \in 1..(k - 1) : q[j] = w[j]
                               /\ q[k] < w[k]
    BY <1>1, <1>6 DEF BranchesBefore
  <2>2. CASE k <= n
    BY <1>1, <2>1, <2>2 DEF BranchesBefore
  <2>3. CASE k = n + 1
    BY <1>1, <1>5, <2>1, <2>3
  <2>4. QED
    BY <1>1, <2>1, <2>2, <2>3
<1>7. ASSUME BranchesBefore(q, v) PROVE BranchesBefore(q, w)
  <2>1. PICK k \in 1..Len(q) : /\ k <= n
                               /\ \A j \in 1..(k - 1) : q[j] = v[j]
                               /\ q[k] < v[k]
    BY <1>7 DEF BranchesBefore
  <2>2. k <= n + 1 /\ (\A j \in 1..(k - 1) : q[j] = w[j]) /\ q[k] < w[k]
    BY <1>1, <2>1
  <2>3. QED
    BY <1>1, <2>2 DEF BranchesBefore
<1>8. ASSUME IsStrictPrefix(v, q), q[n + 1] < i PROVE BranchesBefore(q, w)
  <2>1. n + 1 \in 1..Len(q) /\ n + 1 <= Len(w)
        /\ (\A j \in 1..(n + 1 - 1) : q[j] = w[j]) /\ q[n + 1] < w[n + 1]
    BY <1>1, <1>5, <1>8
  <2>2. QED
    BY <2>1 DEF BranchesBefore
<1>9. QED
  BY <1>2, <1>3, <1>4, <1>6, <1>7, <1>8 DEF w

\* The nodes below v are those at and below its children.
LEMMA BelowChild ==
  ASSUME NEW v \in Path, NEW i \in Nat \ {0}, NEW q \in Path
  PROVE  /\ IsPrefix(Append(v, i), q)
              <=> IsStrictPrefix(v, q) /\ q[Len(v) + 1] = i
         /\ IsPrefix(v, q) <=> IsStrictPrefix(v, q) \/ q = v
<1> DEFINE w == Append(v, i)
           n == Len(v)
<1>1. /\ w \in Path /\ n \in Nat /\ Len(w) = n + 1 /\ Len(q) \in Nat
      /\ \A k \in 1..n : w[k] = v[k]
      /\ w[n + 1] = i
  BY AppendPath, PathFacts
<1> HIDE DEF w
<1>2. IsPrefix(w, q) <=> n + 1 <= Len(q) /\ \A k \in 1..(n + 1) : w[k] = q[k]
  BY <1>1, PrefixFacts
<1>3. IsStrictPrefix(v, q) <=> n < Len(q) /\ \A k \in 1..n : v[k] = q[k]
  BY StrictPrefixFacts
<1>4. IsPrefix(v, q) <=> n <= Len(q) /\ \A k \in 1..n : v[k] = q[k]
  BY PrefixFacts
<1>5. q = v <=> Len(q) = n /\ \A k \in 1..n : q[k] = v[k]
  BY PathEqual
<1>6. IsPrefix(w, q) <=> IsStrictPrefix(v, q) /\ q[n + 1] = i
  BY <1>1, <1>2, <1>3
<1>7. IsPrefix(v, q) <=> IsStrictPrefix(v, q) \/ q = v
  BY <1>1, <1>3, <1>4, <1>5
<1>8. QED
  BY <1>6, <1>7 DEF w

\* A child on the path to a node of a tree is one of the children.
LEMMA StepBelow ==
  ASSUME NEW t, IsTree(t), NEW v \in Path, NEW q \in DOMAIN t, IsStrictPrefix(v, q)
  PROVE  /\ q[Len(v) + 1] \in Nat \ {0}
         /\ Append(v, q[Len(v) + 1]) \in DOMAIN t
         /\ q[Len(v) + 1] \in children(v, t)
<1>1. q \in Path
  BY DEF IsTree
<1>2. q[Len(v) + 1] \in Nat \ {0}
  BY <1>1, StrictPrefixFacts, PathFacts
<1>3. IsPrefix(Append(v, q[Len(v) + 1]), q)
  BY <1>1, <1>2, BelowChild
<1>4. Append(v, q[Len(v) + 1]) \in DOMAIN t
  BY <1>2, <1>3, AppendPath, TreeIsClosed
<1>5. QED
  BY <1>2, <1>4, ChildNumbers

LEMMA BeforeIsStrict ==
  ASSUME NEW p \in Path
  PROVE  ~Before(p, p)
<1>1. ~IsStrictPrefix(p, p)
  BY DEF IsStrictPrefix
<1>2. \A k \in 1..Len(p) : ~(p[k] < p[k])
  BY PathFacts
<1>3. QED
  BY <1>1, <1>2, BeforeFacts DEF BranchesBefore

LEMMA BeforeIsTransitive ==
  ASSUME NEW p \in Path, NEW q \in Path, NEW r \in Path, Before(p, q), Before(q, r)
  PROVE  Before(p, r)
<1>1. /\ Len(p) \in Nat /\ Len(q) \in Nat /\ Len(r) \in Nat
      /\ \A k \in 1..Len(p) : p[k] \in Nat
      /\ \A k \in 1..Len(q) : q[k] \in Nat
      /\ \A k \in 1..Len(r) : r[k] \in Nat
  BY PathFacts
<1>2. CASE IsStrictPrefix(p, q) /\ IsStrictPrefix(q, r)
  <2>1. IsStrictPrefix(p, r)
    BY <1>1, <1>2, StrictPrefixFacts
  <2>2. QED
    BY <2>1, BeforeFacts
<1>3. CASE IsStrictPrefix(p, q) /\ BranchesBefore(q, r)
  <2>1. Len(p) < Len(q) /\ \A i \in 1..Len(p) : p[i] = q[i]
    BY <1>3, StrictPrefixFacts
  <2>2. PICK k \in 1..Len(q) : k <= Len(r) /\ q[k] < r[k]
                               /\ \A i \in 1..(k - 1) : q[i] = r[i]
    BY <1>3 DEF BranchesBefore
  <2>3. CASE k <= Len(p)
    <3>1. k \in 1..Len(p) /\ p[k] < r[k] /\ \A i \in 1..(k - 1) : p[i] = r[i]
      BY <1>1, <2>1, <2>2, <2>3
    <3>2. BranchesBefore(p, r)
      BY <2>2, <3>1 DEF BranchesBefore
    <3>3. QED
      BY <3>2, BeforeFacts
  <2>4. CASE Len(p) < k
    <3>1. Len(p) < Len(r) /\ \A i \in 1..Len(p) : p[i] = r[i]
      BY <1>1, <2>1, <2>2, <2>4
    <3>2. QED
      BY <3>1, StrictPrefixFacts, BeforeFacts
  <2>5. QED
    BY <1>1, <2>3, <2>4
<1>4. CASE BranchesBefore(p, q) /\ IsStrictPrefix(q, r)
  <2>1. Len(q) < Len(r) /\ \A i \in 1..Len(q) : q[i] = r[i]
    BY <1>4, StrictPrefixFacts
  <2>2. PICK k \in 1..Len(p) : k <= Len(q) /\ p[k] < q[k]
                               /\ \A i \in 1..(k - 1) : p[i] = q[i]
    BY <1>4 DEF BranchesBefore
  <2>3. k <= Len(r) /\ p[k] < r[k] /\ \A i \in 1..(k - 1) : p[i] = r[i]
    BY <1>1, <2>1, <2>2
  <2>4. BranchesBefore(p, r)
    BY <2>2, <2>3 DEF BranchesBefore
  <2>5. QED
    BY <2>4, BeforeFacts
<1>5. CASE BranchesBefore(p, q) /\ BranchesBefore(q, r)
  <2>1. PICK k \in 1..Len(p) : k <= Len(q) /\ p[k] < q[k]
                               /\ \A i \in 1..(k - 1) : p[i] = q[i]
    BY <1>5 DEF BranchesBefore
  <2>2. PICK l \in 1..Len(q) : l <= Len(r) /\ q[l] < r[l]
                               /\ \A i \in 1..(l - 1) : q[i] = r[i]
    BY <1>5 DEF BranchesBefore
  <2> DEFINE m == IF k <= l THEN k ELSE l
  <2>3. /\ m \in 1..Len(p) /\ m <= Len(r) /\ p[m] < r[m]
        /\ \A i \in 1..(m - 1) : p[i] = r[i]
    <3>1. CASE k < l
      BY <1>1, <2>1, <2>2, <3>1
    <3>2. CASE k = l
      BY <1>1, <2>1, <2>2, <3>2
    <3>3. CASE l < k
      BY <1>1, <2>1, <2>2, <3>3
    <3>4. QED
      BY <1>1, <3>1, <3>2, <3>3
  <2> HIDE DEF m
  <2>4. BranchesBefore(p, r)
    BY <2>3 DEF BranchesBefore
  <2>5. QED
    BY <2>4, BeforeFacts
<1>6. QED
  BY <1>2, <1>3, <1>4, <1>5, BeforeFacts

LEMMA BeforeIsTotal ==
  ASSUME NEW p \in Path, NEW q \in Path, p # q
  PROVE  Before(p, q) \/ Before(q, p)
<1>1. /\ Len(p) \in Nat /\ Len(q) \in Nat
      /\ \A k \in 1..Len(p) : p[k] \in Nat
      /\ \A k \in 1..Len(q) : q[k] \in Nat
  BY PathFacts
<1> DEFINE D == {k \in Nat \ {0} : k <= Len(p) /\ k <= Len(q) /\ p[k] # q[k]}
<1>2. CASE D = {}
  <2>1. \A k \in 1..Len(p) : k <= Len(q) => p[k] = q[k]
    BY <1>1, <1>2
  <2>2. CASE Len(p) < Len(q)
    BY <1>1, <2>1, <2>2, StrictPrefixFacts, BeforeFacts
  <2>3. CASE Len(q) < Len(p)
    <3>1. \A k \in 1..Len(q) : q[k] = p[k]
      BY <1>1, <2>1, <2>3
    <3>2. QED
      BY <2>3, <3>1, StrictPrefixFacts, BeforeFacts
  <2>4. CASE Len(p) = Len(q)
    BY <1>1, <2>1, <2>4, PathEqual
  <2>5. QED
    BY <1>1, <2>2, <2>3, <2>4
<1>3. CASE D # {}
  <2>1. D \in SUBSET Nat
    OBVIOUS
  <2>2. PICK k \in D : \A j \in D : k <= j
    BY <1>3, <2>1, Least
  <2>3. \A j \in 1..(k - 1) : p[j] = q[j]
    BY <1>1, <2>2
  <2>4. BranchesBefore(p, q) \/ BranchesBefore(q, p)
    BY <1>1, <2>2, <2>3 DEF BranchesBefore
  <2>5. QED
    BY <2>4, BeforeFacts
<1>4. QED
  BY <1>2, <1>3

-----------------------------------------------------------------------------
(***************************************************************************)
(* Paths that are put together and taken apart.                            *)
(***************************************************************************)
LEMMA ConcatAgain ==
  ASSUME NEW u \in Path, NEW v \in Path, NEW w \in Path
  PROVE  u \o (v \o w) = (u \o v) \o w
<1>1. u \in Seq(Nat \ {0}) /\ v \in Seq(Nat \ {0}) /\ w \in Seq(Nat \ {0})
  BY DEF Path
<1>2. QED
  BY ONLY <1>1

LEMMA ConcatCancel ==
  ASSUME NEW u \in Path, NEW v \in Path, NEW w \in Path, u \o v = u \o w
  PROVE  v = w
BY ConcatSimplifications DEF Path

LEMMA EmptyPath ==
  /\ <<>> \in Path
  /\ \A u \in Path : <<>> \o u = u /\ u \o <<>> = u
BY ConcatEmptySeq, EmptySeq DEF Path

LEMMA StepPath ==
  ASSUME NEW i \in Nat \ {0}
  PROVE  <<i>> \in Path /\ Len(<<i>>) = 1 /\ <<i>>[1] = i /\ <<i>> # <<>>
<1>1. <<i>> \in Seq(Nat \ {0}) /\ Len(<<i>>) = 1 /\ <<i>>[1] = i
  OBVIOUS
<1>2. QED
  BY <1>1, PathFacts DEF Path

LEMMA AppendIsStep ==
  ASSUME NEW v \in Path, NEW i \in Nat \ {0}
  PROVE  Append(v, i) = v \o <<i>>
BY AppendIsConcat DEF Path

\* What comes after v on a path that starts with v.
LEMMA RestOfPath ==
  ASSUME NEW v \in Path, NEW q \in Path, IsPrefix(v, q)
  PROVE  /\ SubSeq(q, Len(v) + 1, Len(q)) \in Path
         /\ q = v \o SubSeq(q, Len(v) + 1, Len(q))
         /\ Len(SubSeq(q, Len(v) + 1, Len(q))) = Len(q) - Len(v)
<1> DEFINE r == SubSeq(q, Len(v) + 1, Len(q))
           n == Len(v)
<1>1. n \in Nat /\ Len(q) \in Nat /\ n <= Len(q) /\ \A k \in 1..n : v[k] = q[k]
  BY PathFacts, PrefixFacts
<1> HIDE DEF n
<1>2. \A k \in (n + 1)..Len(q) : q[k] \in Nat \ {0}
  BY <1>1, PathFacts
<1>3. /\ r \in Seq(Nat \ {0})
      /\ Len(r) = IF n + 1 <= Len(q) THEN Len(q) - (n + 1) + 1 ELSE 0
      /\ \A k \in 1..(Len(q) - (n + 1) + 1) : r[k] = q[n + 1 + k - 1]
  <2>1. n + 1 \in Int /\ Len(q) \in Int
    BY <1>1
  <2>2. QED
    BY ONLY <2>1, <1>2, q \in Path, SubSeqProperties DEF r, n, Path
<1> HIDE DEF r
<1>4. r \in Path /\ Len(r) = Len(q) - n /\ \A k \in 1..(Len(q) - n) : r[k] = q[n + k]
  <2>1. r \in Path
    BY <1>3 DEF Path
  <2>2. Len(r) = Len(q) - n
    BY <1>1, <1>3
  <2>3. \A k \in 1..(Len(q) - n) : r[k] = q[n + k]
    BY <1>1, <1>3
  <2>4. QED
    BY <2>1, <2>2, <2>3
<1>5. /\ v \o r \in Path /\ Len(v \o r) = Len(q)
      /\ \A k \in 1..Len(q) : (v \o r)[k] = IF k <= n THEN v[k] ELSE r[k - n]
  <2>1. /\ v \o r \in Path /\ Len(v \o r) = n + Len(r)
        /\ \A k \in 1..(n + Len(r)) : (v \o r)[k] = IF k <= n THEN v[k] ELSE r[k - n]
    BY <1>4, ConcatPath DEF n
  <2>2. n + Len(r) = Len(q)
    BY <1>1, <1>4
  <2>3. QED
    BY <2>1, <2>2
<1>6. \A k \in 1..Len(q) : (v \o r)[k] = q[k]
  <2>1. ASSUME NEW k \in 1..Len(q), k <= n PROVE (v \o r)[k] = q[k]
    BY <1>1, <1>5, <2>1
  <2>2. ASSUME NEW k \in 1..Len(q), ~(k <= n) PROVE (v \o r)[k] = q[k]
    <3>1. k - n \in 1..(Len(q) - n) /\ n + (k - n) = k
      BY <1>1, <2>2
    <3>2. QED
      BY <1>4, <1>5, <2>2, <3>1
  <2>3. QED
    BY <2>1, <2>2
<1>7. q = v \o r
  BY <1>5, <1>6, PathEqual
<1>8. QED
  BY <1>4, <1>7 DEF r, n

LEMMA PrefixOfConcat ==
  ASSUME NEW v \in Path, NEW p \in Path
  PROVE  /\ IsPrefix(v, v \o p)
         /\ SubSeq(v \o p, Len(v) + 1, Len(v \o p)) = p
<1> DEFINE q == v \o p
           r == SubSeq(q, Len(v) + 1, Len(q))
<1>1. /\ q \in Path /\ Len(v) \in Nat /\ Len(p) \in Nat /\ Len(q) = Len(v) + Len(p)
      /\ \A k \in 1..(Len(v) + Len(p)) : q[k] = IF k <= Len(v) THEN v[k] ELSE p[k - Len(v)]
  BY PathFacts, ConcatPath
<1> HIDE DEF q
<1>2. IsPrefix(v, q)
  BY <1>1, PrefixFacts
<1>3. r \in Path /\ q = v \o r
  BY <1>1, <1>2, RestOfPath
<1> HIDE DEF r
<1>4. r = p
  BY <1>3, ConcatCancel DEF q
<1>5. QED
  BY <1>2, <1>4 DEF q, r

\* The beginnings of a path that starts with v.
LEMMA PrefixesOfConcat ==
  ASSUME NEW v \in Path, NEW p \in Path, NEW u \in Path
  PROVE  /\ IsPrefix(v \o u, v \o p) <=> IsPrefix(u, p)
         /\ IsStrictPrefix(v \o u, v \o p) <=> IsStrictPrefix(u, p)
         /\ ~IsPrefix(v, u) => (IsStrictPrefix(u, v \o p) <=> IsStrictPrefix(u, v))
<1> DEFINE a == v \o u
           b == v \o p
           n == Len(v)
<1>1. /\ a \in Path /\ b \in Path /\ n \in Nat /\ Len(u) \in Nat /\ Len(p) \in Nat
      /\ Len(a) = n + Len(u) /\ Len(b) = n + Len(p)
      /\ \A k \in 1..(n + Len(u)) : a[k] = IF k <= n THEN v[k] ELSE u[k - n]
      /\ \A k \in 1..(n + Len(p)) : b[k] = IF k <= n THEN v[k] ELSE p[k - n]
  BY PathFacts, ConcatPath
<1> HIDE DEF a, b, n
<1>2. \A k \in 1..Len(u) : a[n + k] = u[k]
  <2>1. ASSUME NEW k \in 1..Len(u) PROVE a[n + k] = u[k]
    <3>1. n + k \in 1..(n + Len(u)) /\ ~(n + k <= n) /\ n + k - n = k
      BY <1>1
    <3>2. QED
      BY <1>1, <3>1
  <2>2. QED
    BY <2>1
<1>3. \A k \in 1..Len(p) : b[n + k] = p[k]
  <2>1. ASSUME NEW k \in 1..Len(p) PROVE b[n + k] = p[k]
    <3>1. n + k \in 1..(n + Len(p)) /\ ~(n + k <= n) /\ n + k - n = k
      BY <1>1
    <3>2. QED
      BY <1>1, <3>1
  <2>2. QED
    BY <2>1
<1>4. IsPrefix(a, b) <=> IsPrefix(u, p)
  <2>1. IsPrefix(a, b) <=> Len(a) <= Len(b) /\ \A k \in 1..Len(a) : a[k] = b[k]
    BY <1>1, PrefixFacts
  <2>2. IsPrefix(u, p) <=> Len(u) <= Len(p) /\ \A k \in 1..Len(u) : u[k] = p[k]
    BY PrefixFacts
  <2>3. ASSUME IsPrefix(a, b) PROVE IsPrefix(u, p)
    <3>1. ASSUME NEW k \in 1..Len(u) PROVE u[k] = p[k]
      <4>1. n + k \in 1..Len(a) /\ k \in 1..Len(p)
        BY <1>1, <2>1, <2>3
      <4>2. QED
        BY <1>2, <1>3, <2>1, <2>3, <4>1
    <3>2. QED
      BY <1>1, <2>1, <2>2, <2>3, <3>1
  <2>4. ASSUME IsPrefix(u, p) PROVE IsPrefix(a, b)
    <3>1. ASSUME NEW k \in 1..Len(a) PROVE a[k] = b[k]
      <4>1. CASE k <= n
        BY <1>1, <2>2, <2>4, <4>1
      <4>2. CASE ~(k <= n)
        <5>1. k - n \in 1..Len(u) /\ k \in 1..(n + Len(p))
          BY <1>1, <2>2, <2>4, <4>2
        <5>2. QED
          BY <1>1, <2>2, <2>4, <4>2, <5>1
      <4>3. QED
        BY <4>1, <4>2
    <3>2. QED
      BY <1>1, <2>1, <2>2, <2>4, <3>1
  <2>5. QED
    BY <2>3, <2>4
<1>5. a = b <=> u = p
  BY ConcatCancel DEF a, b
<1>6. ASSUME ~IsPrefix(v, u) PROVE IsStrictPrefix(u, b) <=> IsStrictPrefix(u, v)
  <2>1. IsStrictPrefix(u, b) <=> Len(u) < Len(b) /\ \A k \in 1..Len(u) : u[k] = b[k]
    BY <1>1, StrictPrefixFacts
  <2>2. IsStrictPrefix(u, v) <=> Len(u) < n /\ \A k \in 1..Len(u) : u[k] = v[k]
    BY StrictPrefixFacts DEF n
  <2>3. ~(n <= Len(u) /\ \A k \in 1..n : v[k] = u[k])
    BY <1>6, PrefixFacts DEF n
  <2>4. \A k \in 1..n : b[k] = v[k]
    BY <1>1
  <2>5. ASSUME IsStrictPrefix(u, b), n <= Len(u) PROVE FALSE
    BY <1>1, <2>1, <2>3, <2>4, <2>5
  <2>6. QED
    BY <1>1, <2>1, <2>2, <2>4, <2>5
<1>7. QED
  BY <1>4, <1>5, <1>6 DEF a, b, IsStrictPrefix

LEMMA BeginningStep ==
  ASSUME NEW v \in Path, NEW k \in 1..Len(v)
  PROVE  /\ SubSeq(v, 1, k) = Append(SubSeq(v, 1, k - 1), v[k])
         /\ SubSeq(v, 1, k - 1) \in Path /\ v[k] \in Nat \ {0}
<1> DEFINE a == SubSeq(v, 1, k)
           b == SubSeq(v, 1, k - 1)
           c == Append(b, v[k])
<1>1. Len(v) \in Nat /\ k \in 0..Len(v) /\ k - 1 \in 0..Len(v) /\ v[k] \in Nat \ {0}
  BY PathFacts
<1>2. /\ a \in Path /\ Len(a) = k /\ \A i \in 1..k : a[i] = v[i]
      /\ b \in Path /\ Len(b) = k - 1 /\ \A i \in 1..(k - 1) : b[i] = v[i]
  BY <1>1, BeginningFacts
<1> HIDE DEF a, b
<1>3. /\ c \in Path /\ Len(c) = k /\ c[k] = v[k]
      /\ \A i \in 1..(k - 1) : c[i] = b[i]
  <2>1. /\ c \in Path /\ Len(c) = k - 1 + 1 /\ c[k - 1 + 1] = v[k]
        /\ \A i \in 1..(k - 1) : c[i] = b[i]
    BY <1>1, <1>2, AppendPath
  <2>2. k - 1 + 1 = k
    BY <1>1
  <2>3. QED
    BY <2>1, <2>2
<1> HIDE DEF c
<1>4. \A i \in 1..k : a[i] = c[i]
  BY <1>1, <1>2, <1>3
<1>5. a = c
  BY <1>2, <1>3, <1>4, PathEqual
<1>6. QED
  BY <1>1, <1>2, <1>5 DEF a, b, c

-----------------------------------------------------------------------------
(***************************************************************************)
(* What makes a function a tree.                                           *)
(***************************************************************************)
LEMMA ChildInTree ==
  ASSUME NEW t, IsTree(t), NEW v \in Path, NEW i \in Nat \ {0}
  PROVE  i \in children(v, t) <=> Append(v, i) \in DOMAIN t
<1>1. /\ Cardinality(children(v, t)) \in Nat
      /\ children(v, t) = 1..Cardinality(children(v, t))
      /\ Append(v, i) \in DOMAIN t <=> i <= Cardinality(children(v, t))
  BY ChildNumbers
<1>2. QED
  BY <1>1

LEMMA ParentInTree ==
  ASSUME NEW t, IsTree(t), NEW p \in Path, NEW i \in Nat \ {0}, Append(p, i) \in DOMAIN t
  PROVE  p \in DOMAIN t /\ \A j \in 1..i : Append(p, j) \in DOMAIN t
<1>1. p \in DOMAIN t
  BY ChildIsBelow, TreeIsClosed
<1>2. \A j \in 1..i : Append(p, j) \in DOMAIN t
  BY ChildNumbers
<1>3. QED
  BY <1>1, <1>2

LEMMA TreeByParents ==
  ASSUME NEW t, DOMAIN t \subseteq Path, IsFiniteSet(DOMAIN t), <<>> \in DOMAIN t,
         \A p \in Path : \A i \in Nat \ {0} :
           Append(p, i) \in DOMAIN t =>
             p \in DOMAIN t /\ \A j \in 1..i : Append(p, j) \in DOMAIN t
  PROVE  IsTree(t)
<1> SUFFICES ASSUME NEW v \in DOMAIN t, NEW k \in 1..Len(v), NEW i \in 1..v[k]
             PROVE  Append(SubSeq(v, 1, k - 1), i) \in DOMAIN t
  BY DEF IsTree
<1>1. v \in Path /\ Len(v) \in Nat
  BY PathFacts
<1> DEFINE T == {j \in Nat : j <= Len(v) /\ SubSeq(v, 1, Len(v) - j) \notin DOMAIN t}
<1>2. T = {}
  <2>1. SUFFICES ASSUME T # {} PROVE FALSE
    OBVIOUS
  <2>2. PICK j \in T : \A l \in T : j <= l
    <3>1. T \in SUBSET Nat
      OBVIOUS
    <3>2. QED
      BY <2>1, <3>1, Least
  <2>3. SubSeq(v, 1, Len(v)) = v
    BY <1>1, SubSeqFull DEF Path
  <2>4. j \in Nat /\ j <= Len(v) /\ SubSeq(v, 1, Len(v) - j) \notin DOMAIN t
    BY <2>2
  <2>5. j # 0
    <3>1. j = 0 => Len(v) - j = Len(v)
      BY <1>1
    <3>2. QED
      BY <2>3, <2>4, <3>1
  <2> DEFINE n == Len(v) - j + 1
  <2>6. n \in 1..Len(v) /\ n - 1 = Len(v) - j
    BY <1>1, <2>4, <2>5
  <2>7. SubSeq(v, 1, n) \in DOMAIN t
    <3>1. j - 1 \in Nat /\ ~(j <= j - 1) /\ j - 1 <= Len(v) /\ Len(v) - (j - 1) = n
      BY <1>1, <2>4, <2>5
    <3>2. j - 1 \notin T
      BY <2>2, <3>1
    <3>3. QED
      BY <3>1, <3>2
  <2> HIDE DEF n, T
  <2>8. /\ SubSeq(v, 1, n) = Append(SubSeq(v, 1, n - 1), v[n])
        /\ SubSeq(v, 1, n - 1) \in Path /\ v[n] \in Nat \ {0}
    BY <1>1, <2>6, BeginningStep
  <2>9. SubSeq(v, 1, n - 1) \in DOMAIN t
    <3> DEFINE p == SubSeq(v, 1, n - 1)
               l == v[n]
    <3>1. p \in Path /\ l \in Nat \ {0} /\ Append(p, l) \in DOMAIN t
      BY <2>7, <2>8
    <3> HIDE DEF p, l
    <3>2. p \in DOMAIN t
      BY <3>1
    <3>3. QED
      BY <3>2 DEF p
  <2>10. QED
    BY <2>4, <2>6, <2>9
<1>3. SubSeq(v, 1, k) \in DOMAIN t
  <2>1. Len(v) - k \in Nat /\ Len(v) - k <= Len(v) /\ Len(v) - (Len(v) - k) = k
    BY <1>1
  <2>2. Len(v) - k \notin T
    BY <1>2
  <2>3. QED
    BY <2>1, <2>2
<1>4. /\ SubSeq(v, 1, k) = Append(SubSeq(v, 1, k - 1), v[k])
      /\ SubSeq(v, 1, k - 1) \in Path /\ v[k] \in Nat \ {0}
  BY <1>1, BeginningStep
<1> DEFINE p == SubSeq(v, 1, k - 1)
           l == v[k]
<1>5. p \in Path /\ l \in Nat \ {0} /\ Append(p, l) \in DOMAIN t /\ i \in 1..l
  BY <1>3, <1>4
<1> HIDE DEF p, l
<1>6. Append(p, i) \in DOMAIN t
  BY <1>5
<1>7. QED
  BY <1>6 DEF p

\* A tree cannot be told from another with the same nodes.
LEMMA TreesEqual ==
  ASSUME NEW D, NEW E, NEW s, NEW t, s = [p \in D |-> s[p]], t = [p \in E |-> t[p]],
         \A p : p \in D <=> p \in E, \A p \in D : s[p] = t[p]
  PROVE  s = t
<1>1. D = E
  OBVIOUS
<1>2. QED
  BY <1>1

LEMMA ImageIsFinite ==
  ASSUME NEW S, IsFiniteSet(S), NEW f
  PROVE  IsFiniteSet({f[x] : x \in S})
<1> DEFINE T == {f[x] : x \in S}
           g == [x \in S |-> f[x]]
<1>1. g \in Surjection(S, T)
  BY DEF Surjection
<1> HIDE DEF g, T
<1>2. IsFiniteSet(T)
  BY <1>1, FS_Surjection
<1>3. QED
  BY <1>2 DEF T

-----------------------------------------------------------------------------
(***************************************************************************)
(* The operators on trees.                                                 *)
(***************************************************************************)
LEMMA PrefixOfChild ==
  ASSUME NEW v \in Path, NEW p \in Path, NEW i \in Nat \ {0}
  PROVE  IsPrefix(v, Append(p, i)) <=> IsPrefix(v, p) \/ v = Append(p, i)
<1>1. Append(p, i) \in Path
  BY AppendPath
<1>2. IsStrictPrefix(v, Append(p, i)) <=> IsStrictPrefix(v, p) \/ v = p
  BY StrictlyAboveChild
<1>3. IsPrefix(v, p) <=> IsStrictPrefix(v, p) \/ p = v
  BY BelowChild
<1>4. IsPrefix(v, Append(p, i)) <=> IsStrictPrefix(v, Append(p, i)) \/ Append(p, i) = v
  BY <1>1, BelowChild
<1>5. QED
  BY <1>2, <1>3, <1>4

LEMMA SubtreeFacts ==
  ASSUME NEW t, IsTree(t), NEW v \in DOMAIN t
  PROVE  /\ IsTree(Subtree(t, v))
         /\ \A q \in Path : q \in DOMAIN Subtree(t, v) <=> v \o q \in DOMAIN t
         /\ \A q \in Path : v \o q \in DOMAIN t => Subtree(t, v)[q] = t[v \o q]
<1> DEFINE s == Subtree(t, v)
           X == {q \in DOMAIN t : IsPrefix(v, q)}
           D == {SubSeq(q, Len(v) + 1, Len(q)) : q \in X}
<1>1. v \in Path /\ DOMAIN t \subseteq Path
  BY DEF IsTree
<1>2. s = [p \in D |-> t[v \o p]]
  BY DEF Subtree
<1>3. DOMAIN s = D /\ \A p \in D : s[p] = t[v \o p]
  BY <1>2
<1>4. ASSUME NEW q \in Path PROVE q \in D <=> v \o q \in DOMAIN t
  <2>1. ASSUME q \in D PROVE v \o q \in DOMAIN t
    <3>1. PICK p \in X : q = SubSeq(p, Len(v) + 1, Len(p))
      BY <2>1
    <3>2. p = v \o q
      BY <1>1, <3>1, RestOfPath
    <3>3. QED
      BY <3>1, <3>2
  <2>2. ASSUME v \o q \in DOMAIN t PROVE q \in D
    <3>1. IsPrefix(v, v \o q) /\ q = SubSeq(v \o q, Len(v) + 1, Len(v \o q))
      BY <1>1, PrefixOfConcat
    <3>2. QED
      BY <2>2, <3>1
  <2>3. QED
    BY <2>1, <2>2
<1>5. D \subseteq Path
  <2>1. ASSUME NEW p \in X PROVE SubSeq(p, Len(v) + 1, Len(p)) \in Path
    BY <1>1, RestOfPath
  <2>2. QED
    BY <2>1
<1>6. IsFiniteSet(D)
  <2> DEFINE f == [q \in X |-> SubSeq(q, Len(v) + 1, Len(q))]
  <2>1. IsFiniteSet(X)
    BY FS_Subset DEF IsTree
  <2>2. D = {f[q] : q \in X}
    OBVIOUS
  <2> HIDE DEF f, X, D
  <2>3. QED
    BY <2>1, <2>2, ImageIsFinite
<1> HIDE DEF D, s
<1>7. <<>> \in D
  <2>1. v \o <<>> = v /\ <<>> \in Path
    BY <1>1, EmptyPath
  <2>2. QED
    BY <1>4, <2>1
<1>8. ASSUME NEW p \in Path, NEW i \in Nat \ {0}, Append(p, i) \in D
      PROVE  p \in D /\ \A j \in 1..i : Append(p, j) \in D
  <2>1. \A j \in Nat \ {0} : /\ v \o Append(p, j) = Append(v \o p, j)
                             /\ Append(p, j) \in Path
    BY <1>1, ConcatAppend, AppendPath
  <2>2. v \o p \in Path /\ Append(v \o p, i) \in DOMAIN t
    BY <1>1, <1>4, <1>8, <2>1, ConcatPath
  <2>3. v \o p \in DOMAIN t /\ \A j \in 1..i : Append(v \o p, j) \in DOMAIN t
    BY <2>2, ParentInTree
  <2>4. p \in D
    BY <1>4, <2>3
  <2>5. ASSUME NEW j \in 1..i PROVE Append(p, j) \in D
    <3>1. j \in Nat \ {0}
      OBVIOUS
    <3>2. Append(p, j) \in Path /\ v \o Append(p, j) \in DOMAIN t
      BY <2>1, <2>3, <3>1
    <3>3. QED
      BY <1>4, <3>2
  <2>6. QED
    BY <2>4, <2>5
<1>9. IsTree(s)
  BY <1>3, <1>5, <1>6, <1>7, <1>8, TreeByParents
<1>10. QED
  BY <1>3, <1>4, <1>9 DEF s

LEMMA ReplaceFacts ==
  ASSUME NEW t, IsTree(t), NEW v \in DOMAIN t, NEW s, IsTree(s)
  PROVE  /\ IsTree(Replace(t, v, s))
         /\ \A q \in Path : ~IsPrefix(v, q) =>
              /\ q \in DOMAIN Replace(t, v, s) <=> q \in DOMAIN t
              /\ q \in DOMAIN t => Replace(t, v, s)[q] = t[q]
         /\ \A q \in Path :
              /\ v \o q \in DOMAIN Replace(t, v, s) <=> q \in DOMAIN s
              /\ q \in DOMAIN s => Replace(t, v, s)[v \o q] = s[q]
<1> DEFINE r == Replace(t, v, s)
           O == {q \in DOMAIN t : ~IsPrefix(v, q)}
           I == {v \o q : q \in DOMAIN s}
<1>1. v \in Path /\ DOMAIN t \subseteq Path /\ DOMAIN s \subseteq Path
  BY DEF IsTree
<1>2. r = [q \in O \cup I |-> IF q \in O THEN t[q] ELSE s[SubSeq(q, Len(v) + 1, Len(q))]]
  BY DEF Replace
<1>3. /\ DOMAIN r = O \cup I
      /\ \A q \in O : r[q] = t[q]
      /\ \A q \in I : q \notin O => r[q] = s[SubSeq(q, Len(v) + 1, Len(q))]
  BY <1>2
<1>4. ASSUME NEW q \in Path
      PROVE  /\ v \o q \in Path /\ IsPrefix(v, v \o q)
             /\ SubSeq(v \o q, Len(v) + 1, Len(v \o q)) = q
             /\ v \o q \notin O /\ (v \o q \in I <=> q \in DOMAIN s)
  <2>1. /\ v \o q \in Path /\ IsPrefix(v, v \o q)
        /\ SubSeq(v \o q, Len(v) + 1, Len(v \o q)) = q
    BY <1>1, ConcatPath, PrefixOfConcat
  <2>2. ASSUME v \o q \in I PROVE q \in DOMAIN s
    <3>1. PICK p \in DOMAIN s : v \o q = v \o p
      BY <2>2
    <3>2. p = q
      BY <1>1, <3>1, ConcatCancel
    <3>3. QED
      BY <3>2
  <2>3. QED
    BY <2>1, <2>2
<1>5. ASSUME NEW q \in Path, ~IsPrefix(v, q)
      PROVE  (q \in O <=> q \in DOMAIN t) /\ q \notin I
  BY <1>1, <1>4, <1>5
<1>6. IsFiniteSet(O \cup I)
  <2> DEFINE f == [q \in DOMAIN s |-> v \o q]
  <2>1. IsFiniteSet(O)
    BY FS_Subset DEF IsTree
  <2>2. I = {f[q] : q \in DOMAIN s} /\ IsFiniteSet(DOMAIN s)
    BY DEF IsTree
  <2> HIDE DEF f, O, I
  <2>3. IsFiniteSet(I)
    BY <2>2, ImageIsFinite
  <2>4. QED
    BY <2>1, <2>3, FS_Union
<1>7. O \cup I \subseteq Path
  BY <1>1, <1>4
<1> HIDE DEF O, I, r
<1>8. \A q \in Path : ~IsPrefix(v, q) =>
        (q \in DOMAIN r <=> q \in DOMAIN t) /\ (q \in DOMAIN t => r[q] = t[q])
  BY <1>3, <1>5
<1>9. \A q \in Path : /\ v \o q \in DOMAIN r <=> q \in DOMAIN s
                      /\ q \in DOMAIN s => r[v \o q] = s[q]
  BY <1>3, <1>4
<1>10. v \in DOMAIN r
  <2>1. v \o <<>> = v /\ <<>> \in Path /\ <<>> \in DOMAIN s
    BY <1>1, EmptyPath DEF IsTree
  <2>2. QED
    BY <1>9, <2>1
<1>11. <<>> \in DOMAIN r
  <2>1. <<>> \in Path /\ <<>> \in DOMAIN t
    BY EmptyPath DEF IsTree
  <2>2. CASE IsPrefix(v, <<>>)
    <3>1. v = <<>>
      <4>1. Len(v) \in Nat /\ Len(v) <= Len(<<>>) /\ Len(<<>>) = 0
        BY <1>1, <2>1, <2>2, PrefixFacts, PathFacts
      <4>2. QED
        BY <1>1, <4>1, PathFacts
    <3>2. QED
      BY <1>10, <3>1
  <2>3. QED
    BY <1>8, <2>1, <2>2
<1>12. ASSUME NEW p \in Path, NEW i \in Nat \ {0}, Append(p, i) \in DOMAIN r
       PROVE  p \in DOMAIN r /\ \A j \in 1..i : Append(p, j) \in DOMAIN r
  <2>1. CASE IsPrefix(v, p)
    <3>1. PICK u \in Path : p = v \o u
      BY <1>1, <2>1, RestOfPath
    <3>2. ASSUME NEW j \in Nat \ {0}
          PROVE  Append(p, j) = v \o Append(u, j) /\ Append(u, j) \in Path
      <4>1. Append(u, j) \in Path
        BY AppendPath
      <4>2. Append(v \o u, j) = v \o Append(u, j)
        BY <1>1, ConcatAppend
      <4>3. QED
        BY <3>1, <4>1, <4>2
    <3>3. Append(u, i) \in DOMAIN s
      BY <1>9, <1>12, <3>2
    <3>4. u \in DOMAIN s /\ \A j \in 1..i : Append(u, j) \in DOMAIN s
      BY <3>3, ParentInTree
    <3>5. ASSUME NEW j \in 1..i PROVE Append(p, j) \in DOMAIN r
      <4>1. j \in Nat \ {0}
        OBVIOUS
      <4>2. Append(p, j) = v \o Append(u, j) /\ Append(u, j) \in Path
        BY <3>2, <4>1
      <4>3. QED
        BY <1>9, <3>4, <4>2
    <3>6. QED
      BY <1>9, <3>1, <3>4, <3>5
  <2>2. CASE ~IsPrefix(v, p)
    <3>1. ASSUME NEW j \in Nat \ {0}
          PROVE  Append(p, j) \in DOMAIN r <=> Append(p, j) \in DOMAIN t
      <4>1. Append(p, j) \in Path
        BY AppendPath
      <4>2. IsPrefix(v, Append(p, j)) => v = Append(p, j)
        BY <1>1, <2>2, PrefixOfChild
      <4>3. QED
        BY <1>8, <1>10, <4>1, <4>2
    <3>2. p \in DOMAIN t /\ \A j \in 1..i : Append(p, j) \in DOMAIN t
      BY <1>12, <3>1, ParentInTree
    <3>3. ASSUME NEW j \in 1..i PROVE Append(p, j) \in DOMAIN r
      BY <3>1, <3>2
    <3>4. QED
      BY <1>8, <2>2, <3>2, <3>3
  <2>3. QED
    BY <2>1, <2>2
<1>13. IsTree(r)
  BY <1>3, <1>6, <1>7, <1>11, <1>12, TreeByParents
<1>14. QED
  BY <1>8, <1>9, <1>13 DEF r

LEMMA FirstStep ==
  /\ \A i \in Nat \ {0} : \A p \in Path :
       /\ <<i>> \o p \in Path /\ <<i>> \o p # <<>>
       /\ Head(<<i>> \o p) = i /\ Tail(<<i>> \o p) = p
       /\ Len(<<i>> \o p) = Len(p) + 1 /\ (<<i>> \o p)[1] = i
  /\ \A q \in Path : q # <<>> =>
       q = <<Head(q)>> \o Tail(q) /\ Head(q) \in Nat \ {0} /\ Tail(q) \in Path
<1>1. ASSUME NEW i \in Nat \ {0}, NEW p \in Path
      PROVE  /\ <<i>> \o p \in Path /\ <<i>> \o p # <<>>
             /\ Head(<<i>> \o p) = i /\ Tail(<<i>> \o p) = p
             /\ Len(<<i>> \o p) = Len(p) + 1 /\ (<<i>> \o p)[1] = i
  <2> DEFINE q == <<i>> \o p
  <2>1. /\ Len(p) \in Nat /\ q \in Path /\ Len(q) = 1 + Len(p)
        /\ \A k \in 1..(1 + Len(p)) : q[k] = IF k <= 1 THEN <<i>>[k] ELSE p[k - 1]
    <3>1. <<i>> \in Path /\ Len(<<i>>) = 1 /\ Len(p) \in Nat
      BY StepPath, PathFacts
    <3>2. QED
      BY <3>1, ConcatPath
  <2> HIDE DEF q
  <2>2. q[1] = i /\ q # <<>>
    BY <2>1, StepPath, PathFacts
  <2>3. Head(q) = i
    BY <2>1, <2>2, HeadTailProperties DEF Path
  <2>4. Tail(q) \in Path /\ Len(Tail(q)) = Len(p) /\ \A k \in 1..Len(p) : Tail(q)[k] = q[k + 1]
    BY <2>1, <2>2, HeadTailProperties DEF Path
  <2>5. ASSUME NEW k \in 1..Len(p) PROVE Tail(q)[k] = p[k]
    <3>1. k + 1 \in 1..(1 + Len(p)) /\ ~(k + 1 <= 1) /\ k + 1 - 1 = k
      BY <2>1
    <3>2. QED
      BY <2>1, <2>4, <3>1
  <2>6. Tail(q) = p
    BY <2>4, <2>5, PathEqual
  <2>7. QED
    BY <2>1, <2>2, <2>3, <2>6 DEF q
<1>2. ASSUME NEW q \in Path, q # <<>>
      PROVE  q = <<Head(q)>> \o Tail(q) /\ Head(q) \in Nat \ {0} /\ Tail(q) \in Path
  <2>1. /\ Head(q) \in Nat \ {0} /\ Head(q) = q[1]
        /\ Tail(q) \in Path /\ Len(Tail(q)) = Len(q) - 1
        /\ \A k \in 1..(Len(q) - 1) : Tail(q)[k] = q[k + 1]
    <3>1. Len(q) \in Nat \ {0}
      BY <1>2, PathFacts
    <3>2. Head(q) = q[1]
      BY <1>2, HeadTailProperties DEF Path
    <3>3. q[1] \in Nat \ {0}
      BY <3>1, PathFacts
    <3>4. /\ Tail(q) \in Path /\ Len(Tail(q)) = Len(q) - 1
          /\ \A k \in 1..(Len(q) - 1) : Tail(q)[k] = q[k + 1]
      <4>1. Tail(q) \in Seq(Nat \ {0}) /\ Len(Tail(q)) = Len(q) - 1
            /\ \A k \in 1..Len(Tail(q)) : Tail(q)[k] = q[k + 1]
        BY <1>2, HeadTailProperties DEF Path
      <4>2. QED
        BY <4>1 DEF Path
    <3>5. QED
      BY <3>2, <3>3, <3>4
  <2> DEFINE h == Head(q)
             u == Tail(q)
             w == <<h>> \o u
  <2>2. h \in Nat \ {0} /\ u \in Path /\ Len(u) = Len(q) - 1
        /\ h = q[1] /\ \A k \in 1..(Len(q) - 1) : u[k] = q[k + 1]
    BY <2>1
  <2> HIDE DEF h, u
  <2>3. <<h>> \in Path /\ Len(<<h>>) = 1 /\ <<h>>[1] = h
    BY <2>2, StepPath
  <2>4. /\ w \in Path /\ Len(w) = 1 + Len(u)
        /\ \A k \in 1..(1 + Len(u)) : w[k] = IF k <= 1 THEN <<h>>[k] ELSE u[k - 1]
    BY <2>2, <2>3, ConcatPath
  <2>5. Len(q) \in Nat /\ Len(w) = Len(q)
    BY <2>2, <2>4, PathFacts
  <2> HIDE DEF w
  <2>6. ASSUME NEW k \in 1..Len(q) PROVE w[k] = q[k]
    <3>1. CASE k = 1
      BY <2>2, <2>3, <2>4, <2>5, <3>1
    <3>2. CASE k # 1
      <4>1. k - 1 \in 1..(Len(q) - 1) /\ k - 1 + 1 = k /\ ~(k <= 1)
        BY <2>5, <3>2
      <4>2. QED
        BY <2>2, <2>4, <2>5, <4>1
    <3>3. QED
      BY <3>1, <3>2
  <2>7. w = q
    BY <2>4, <2>5, <2>6, PathEqual
  <2>8. QED
    BY <2>2, <2>7 DEF h, u, w
<1>3. QED
  BY <1>1, <1>2

LEMMA NodeFacts ==
  ASSUME NEW x, NEW kids, Len(kids) \in Nat, DOMAIN kids = 1..Len(kids),
         \A i \in 1..Len(kids) : IsTree(kids[i])
  PROVE  /\ IsTree(Node(x, kids))
         /\ <<>> \in DOMAIN Node(x, kids) /\ Node(x, kids)[<<>>] = x
         /\ \A i \in Nat \ {0} : \A p \in Path :
              /\ <<i>> \o p \in DOMAIN Node(x, kids) <=>
                   i <= Len(kids) /\ p \in DOMAIN kids[i]
              /\ i <= Len(kids) /\ p \in DOMAIN kids[i] =>
                   Node(x, kids)[<<i>> \o p] = kids[i][p]
<1> DEFINE n == Len(kids)
<1> n \in Nat /\ DOMAIN kids = 1..n /\ \A i \in 1..n : IsTree(kids[i])
  OBVIOUS
<1> HIDE DEF n
<1> DEFINE t == Node(x, kids)
           K(i) == {<<i>> \o p : p \in DOMAIN kids[i]}
           D == {<<>>} \cup UNION {K(i) : i \in 1..n}
<1>1. t = [path \in D |-> IF path = <<>> THEN x ELSE kids[Head(path)][Tail(path)]]
  BY DEF Node
<1>2. /\ DOMAIN t = D /\ t[<<>>] = x
      /\ \A q \in D : q # <<>> => t[q] = kids[Head(q)][Tail(q)]
  BY <1>1
<1>3. \A i \in 1..n : \A p \in DOMAIN kids[i] : i \in Nat \ {0} /\ p \in Path
  BY DEF IsTree
<1>4. ASSUME NEW i \in Nat \ {0}, NEW p \in Path
      PROVE  <<i>> \o p \in D <=> i <= n /\ p \in DOMAIN kids[i]
  <2>1. ASSUME i <= n, p \in DOMAIN kids[i] PROVE <<i>> \o p \in D
    BY <2>1
  <2>2. ASSUME <<i>> \o p \in D PROVE i <= n /\ p \in DOMAIN kids[i]
    <3>1. <<i>> \o p # <<>>
      BY FirstStep
    <3>2. PICK j \in 1..n : <<i>> \o p \in K(j)
      BY <2>2, <3>1
    <3>3. PICK q \in DOMAIN kids[j] : <<i>> \o p = <<j>> \o q
      BY <3>2
    <3>4. i = j /\ p = q
      <4>1. Head(<<i>> \o p) = i /\ Tail(<<i>> \o p) = p
        BY FirstStep
      <4>2. j \in Nat \ {0} /\ q \in Path
        BY <1>3
      <4>3. Head(<<j>> \o q) = j /\ Tail(<<j>> \o q) = q
        BY <4>2, FirstStep
      <4>4. QED
        BY <3>3, <4>1, <4>3
    <3>5. QED
      BY <3>3, <3>4
  <2>3. QED
    BY <2>1, <2>2
<1>5. D \subseteq Path
  <2>1. ASSUME NEW i \in 1..n, NEW p \in DOMAIN kids[i] PROVE <<i>> \o p \in Path
    <3>1. i \in Nat \ {0} /\ p \in Path
      BY <1>3
    <3>2. QED
      BY <3>1, FirstStep
  <2>2. ASSUME NEW q \in D, q # <<>> PROVE q \in Path
    <3>1. PICK i \in 1..n : q \in K(i)
      BY <2>2
    <3>2. PICK p \in DOMAIN kids[i] : q = <<i>> \o p
      BY <3>1
    <3>3. QED
      BY <2>1, <3>2
  <2>3. QED
    BY <2>2, EmptyPath
<1>6. IsFiniteSet(D)
  <2>1. ASSUME NEW i \in 1..n PROVE IsFiniteSet(K(i))
    <3> DEFINE f == [p \in DOMAIN kids[i] |-> <<i>> \o p]
    <3>1. K(i) = {f[p] : p \in DOMAIN kids[i]} /\ IsFiniteSet(DOMAIN kids[i])
      BY DEF IsTree
    <3> HIDE DEF f, K
    <3>2. QED
      BY <3>1, ImageIsFinite
  <2> DEFINE g == [i \in 1..n |-> K(i)]
             U == {g[i] : i \in 1..n}
  <2>2. U = {K(i) : i \in 1..n}
    OBVIOUS
  <2>3. IsFiniteSet(1..n)
    BY FS_Interval
  <2> HIDE DEF K
  <2>4. \A T \in U : IsFiniteSet(T)
    BY <2>1
  <2> HIDE DEF g
  <2>5. IsFiniteSet(U)
    BY <2>3, ImageIsFinite
  <2> HIDE DEF U
  <2>6. IsFiniteSet(UNION U) /\ IsFiniteSet({<<>>})
    BY <2>4, <2>5, FS_UNION, FS_Singleton
  <2>7. D = {<<>>} \cup UNION U
    BY <2>2
  <2> HIDE DEF D
  <2>8. QED
    BY <2>6, <2>7, FS_Union
<1>7. <<>> \in D
  OBVIOUS
<1> HIDE DEF D, t, K
<1>8. ASSUME NEW i \in Nat \ {0}, NEW p \in Path, i <= n, p \in DOMAIN kids[i]
      PROVE  t[<<i>> \o p] = kids[i][p]
  BY <1>2, <1>4, <1>8, FirstStep
<1>9. ASSUME NEW p \in Path, NEW i \in Nat \ {0}, Append(p, i) \in D
      PROVE  p \in D /\ \A j \in 1..i : Append(p, j) \in D
  <2>1. CASE p = <<>>
    <3>1. \A j \in Nat \ {0} : Append(p, j) = <<j>> \o <<>>
      <4>1. ASSUME NEW j \in Nat \ {0} PROVE Append(p, j) = <<j>> \o <<>>
        <5>1. Append(p, j) = p \o <<j>> /\ <<j>> \in Path
          BY AppendIsStep, StepPath
        <5>2. QED
          BY <2>1, <5>1, EmptyPath
      <4>2. QED
        BY <4>1
    <3>2. i <= n
      BY <1>4, <1>9, <3>1, EmptyPath
    <3>3. ASSUME NEW j \in 1..i PROVE Append(p, j) \in D
      <4>1. j \in Nat \ {0} /\ j \in 1..n /\ j <= n
        BY <3>2
      <4>2. <<>> \in Path /\ <<>> \in DOMAIN kids[j]
        BY <4>1, EmptyPath DEF IsTree
      <4>3. <<j>> \o <<>> \in D
        BY <1>4, <4>1, <4>2
      <4>4. QED
        BY <3>1, <4>1, <4>3
    <3>4. QED
      BY <1>7, <2>1, <3>3
  <2>2. CASE p # <<>>
    <3>1. PICK h \in Nat \ {0}, u \in Path : p = <<h>> \o u
      BY <2>2, FirstStep
    <3>2. \A j \in Nat \ {0} : Append(p, j) = <<h>> \o Append(u, j) /\ Append(u, j) \in Path
      <4>1. <<h>> \in Path
        BY StepPath
      <4>2. QED
        BY <3>1, <4>1, ConcatAppend, AppendPath
    <3>3. h <= n /\ Append(u, i) \in DOMAIN kids[h]
      BY <1>4, <1>9, <3>2
    <3>4. h \in 1..n
      BY <3>3
    <3>5. u \in DOMAIN kids[h] /\ \A j \in 1..i : Append(u, j) \in DOMAIN kids[h]
      BY <3>3, <3>4, ParentInTree
    <3>6. ASSUME NEW j \in 1..i PROVE Append(p, j) \in D
      <4>1. j \in Nat \ {0}
        OBVIOUS
      <4>2. Append(p, j) = <<h>> \o Append(u, j) /\ Append(u, j) \in Path
        BY <3>2, <4>1
      <4>3. QED
        BY <1>4, <3>3, <3>5, <4>2
    <3>7. QED
      BY <1>4, <3>1, <3>3, <3>5, <3>6
  <2>3. QED
    BY <2>1, <2>2
<1>10. IsTree(t)
  BY <1>2, <1>5, <1>6, <1>7, <1>9, TreeByParents
<1>11. QED
  BY <1>2, <1>4, <1>7, <1>8, <1>10 DEF t, n

LEMMA StepOfConcat ==
  ASSUME NEW v \in Path, NEW i \in Nat \ {0}, NEW u \in Path
  PROVE  v \o (<<i>> \o u) = Append(v, i) \o u
<1>1. <<i>> \in Path
  BY StepPath
<1>2. v \o (<<i>> \o u) = (v \o <<i>>) \o u
  BY <1>1, ConcatAgain
<1>3. Append(v, i) = v \o <<i>>
  BY AppendIsStep
<1>4. QED
  BY <1>2, <1>3

LEMMA OnlyChild ==
  ASSUME NEW t, IsTree(t), NEW p \in Path
  PROVE  children(p, t) = {1} <=> Append(p, 1) \in DOMAIN t /\ Append(p, 2) \notin DOMAIN t
<1> DEFINE n == Cardinality(children(p, t))
<1>1. /\ n \in Nat /\ children(p, t) = 1..n
      /\ \A i \in Nat \ {0} : Append(p, i) \in DOMAIN t <=> i <= n
  BY ChildNumbers
<1> HIDE DEF n
<1>2. /\ Append(p, 1) \in DOMAIN t <=> 1 <= n
      /\ Append(p, 2) \in DOMAIN t <=> 2 <= n
  BY <1>1
<1>3. 1..n = {1} <=> n = 1
  <2>1. n = 1 => 1..n = {1}
    OBVIOUS
  <2>2. 1..n = {1} => n = 1
    <3>1. ASSUME 1..n = {1} PROVE 1 <= n /\ ~(2 <= n)
      <4>1. 1 \in 1..n /\ 2 \notin 1..n
        BY <3>1
      <4>2. QED
        BY <1>1, <4>1
    <3>2. QED
      BY <1>1, <3>1
  <2>3. QED
    BY <2>1, <2>2
<1>4. QED
  BY <1>1, <1>2, <1>3

\* The order of a path outside v and one below v is that of the first and v.
LEMMA BranchAbove ==
  ASSUME NEW v \in Path, NEW x \in Path, NEW p \in Path, ~IsPrefix(v, p)
  PROVE  /\ Before(p, v \o x) <=> Before(p, v)
         /\ Before(v \o x, p) <=> Before(v, p)
<1>1. PICK o \in Path : o = v \o x
  BY ConcatPath
<1>2. /\ Len(o) = Len(v) + Len(x) /\ Len(v) \in Nat /\ Len(x) \in Nat
      /\ Len(p) \in Nat /\ \A k \in 1..Len(v) : o[k] = v[k]
  <2>1. \A k \in 1..(Len(v) + Len(x)) :
          o[k] = IF k <= Len(v) THEN v[k] ELSE x[k - Len(v)]
    BY <1>1, ConcatPath
  <2>2. Len(o) = Len(v) + Len(x) /\ Len(v) \in Nat /\ Len(x) \in Nat /\ Len(p) \in Nat
    BY <1>1, ConcatPath, PathFacts
  <2>3. ASSUME NEW k \in 1..Len(v) PROVE o[k] = v[k]
    <3>1. k \in 1..(Len(v) + Len(x)) /\ k <= Len(v)
      BY <2>2
    <3>2. QED
      BY <2>1, <3>1
  <2>4. QED
    BY <2>2, <2>3
<1>3. ~(Len(v) <= Len(p) /\ \A k \in 1..Len(v) : v[k] = p[k])
  BY PrefixFacts
<1>4. IsStrictPrefix(p, o) <=> IsStrictPrefix(p, v)
  BY <1>1, PrefixesOfConcat
<1>5. ~IsStrictPrefix(o, p) /\ ~IsStrictPrefix(v, p)
  <2>1. ~IsStrictPrefix(v, p)
    BY <1>2, <1>3, StrictPrefixFacts
  <2>2. ASSUME IsStrictPrefix(o, p) PROVE FALSE
    <3>1. Len(o) < Len(p) /\ \A k \in 1..Len(o) : o[k] = p[k]
      BY <2>2, StrictPrefixFacts
    <3>2. QED
      BY <1>2, <1>3, <3>1
  <2>3. QED
    BY <2>1, <2>2
<1>6. BranchesBefore(p, o) <=> BranchesBefore(p, v)
  <2>1. ASSUME NEW k \in 1..Len(p), k <= Len(o), \A j \in 1..(k - 1) : p[j] = o[j],
               p[k] < o[k]
        PROVE  k <= Len(v) /\ (\A j \in 1..(k - 1) : p[j] = v[j]) /\ p[k] < v[k]
    <3>1. k <= Len(v)
      BY <1>2, <1>3, <2>1
    <3>2. QED
      BY <1>2, <2>1, <3>1
  <2>2. ASSUME NEW k \in 1..Len(p), k <= Len(v), \A j \in 1..(k - 1) : p[j] = v[j],
               p[k] < v[k]
        PROVE  k <= Len(o) /\ (\A j \in 1..(k - 1) : p[j] = o[j]) /\ p[k] < o[k]
    BY <1>2, <2>2
  <2>3. QED
    BY <2>1, <2>2 DEF BranchesBefore
<1>7. BranchesBefore(o, p) <=> BranchesBefore(v, p)
  <2>1. ASSUME NEW k \in 1..Len(o), k <= Len(p), \A j \in 1..(k - 1) : o[j] = p[j],
               o[k] < p[k]
        PROVE  k \in 1..Len(v) /\ (\A j \in 1..(k - 1) : v[j] = p[j]) /\ v[k] < p[k]
    <3>1. k <= Len(v)
      BY <1>2, <1>3, <2>1
    <3>2. QED
      BY <1>2, <2>1, <3>1
  <2>2. ASSUME NEW k \in 1..Len(v), k <= Len(p), \A j \in 1..(k - 1) : v[j] = p[j],
               v[k] < p[k]
        PROVE  k \in 1..Len(o) /\ (\A j \in 1..(k - 1) : o[j] = p[j]) /\ o[k] < p[k]
    BY <1>2, <2>2
  <2>3. QED
    BY <2>1, <2>2 DEF BranchesBefore
<1>8. QED
  BY <1>1, <1>4, <1>5, <1>6, <1>7, BeforeFacts

\* The order of two paths below v is that of their rests.
LEMMA BeforeBelow ==
  ASSUME NEW v \in Path, NEW x \in Path, NEW y \in Path
  PROVE  Before(v \o x, v \o y) <=> Before(x, y)
<1> DEFINE o == v \o x
           u == v \o y
           n == Len(v)
<1>1. /\ o \in Path /\ u \in Path
      /\ n \in Nat /\ Len(x) \in Nat /\ Len(y) \in Nat
      /\ Len(o) = n + Len(x) /\ Len(u) = n + Len(y)
  BY ConcatPath, PathFacts
<1>2. \A k \in 1..(n + Len(x)) : o[k] = IF k <= n THEN v[k] ELSE x[k - n]
  BY ConcatPath
<1>3. \A k \in 1..(n + Len(y)) : u[k] = IF k <= n THEN v[k] ELSE y[k - n]
  BY ConcatPath
<1>4. IsStrictPrefix(o, u) <=> IsStrictPrefix(x, y)
  BY PrefixesOfConcat
<1> HIDE DEF o, u, n
<1>5. (\A k \in 1..n : k <= Len(o) /\ o[k] = v[k] /\ k <= Len(u) /\ u[k] = v[k])
  BY <1>1, <1>2, <1>3
<1>6. \A k \in 1..Len(x) : n + k \in 1..Len(o) /\ o[n + k] = x[k]
  BY <1>1, <1>2
<1>7. \A k \in 1..Len(y) : n + k \in 1..Len(u) /\ u[n + k] = y[k]
  BY <1>1, <1>3
<1>8. \A k \in 1..Len(v) : v[k] \in Nat
  BY PathFacts
<1>9. ASSUME BranchesBefore(o, u) PROVE BranchesBefore(x, y)
  <2>1. PICK k \in 1..Len(o) : /\ k <= Len(u)
                               /\ \A j \in 1..(k - 1) : o[j] = u[j]
                               /\ o[k] < u[k]
    BY <1>9 DEF BranchesBefore
  <2>2. ~(k <= n)
    BY <1>1, <1>5, <1>8, <2>1 DEF n
  <2>3. PICK l \in 1..Len(x) : k = n + l
    <3>1. k - n \in 1..Len(x) /\ k = n + (k - n)
      BY <1>1, <2>1, <2>2
    <3>2. QED
      BY <3>1
  <2>4. l \in 1..Len(y) /\ l <= Len(y)
    BY <1>1, <2>1, <2>3
  <2>5. x[l] < y[l]
    BY <1>6, <1>7, <2>1, <2>3, <2>4
  <2>6. ASSUME NEW j \in 1..(l - 1) PROVE x[j] = y[j]
    <3>1. n + j \in 1..(k - 1) /\ j \in 1..Len(x) /\ j \in 1..Len(y)
      BY <1>1, <2>3, <2>4
    <3>2. QED
      BY <1>6, <1>7, <2>1, <3>1
  <2>7. QED
    BY <2>4, <2>5, <2>6 DEF BranchesBefore
<1>10. ASSUME BranchesBefore(x, y) PROVE BranchesBefore(o, u)
  <2>1. PICK l \in 1..Len(x) : /\ l <= Len(y)
                               /\ \A j \in 1..(l - 1) : x[j] = y[j]
                               /\ x[l] < y[l]
    BY <1>10 DEF BranchesBefore
  <2>2. l \in 1..Len(y)
    BY <1>1, <2>1
  <2>3. PICK k \in 1..Len(o) : k = n + l
    BY <1>6
  <2>4. k <= Len(u) /\ o[k] < u[k]
    BY <1>1, <1>6, <1>7, <2>1, <2>2, <2>3
  <2>5. ASSUME NEW j \in 1..(k - 1) PROVE o[j] = u[j]
    <3>1. CASE j <= n
      BY <1>1, <1>5, <3>1
    <3>2. CASE ~(j <= n)
      <4>1. PICK m \in 1..(l - 1) : j = n + m
        <5>1. j - n \in 1..(l - 1) /\ j = n + (j - n)
          BY <1>1, <2>3, <3>2
        <5>2. QED
          BY <5>1
      <4>2. m \in 1..Len(x) /\ m \in 1..Len(y)
        BY <1>1, <2>1, <2>2
      <4>3. QED
        BY <1>6, <1>7, <2>1, <4>1, <4>2
    <3>3. QED
      BY <3>1, <3>2
  <2>6. QED
    BY <2>4, <2>5 DEF BranchesBefore
<1>11. Before(o, u) <=> Before(x, y)
  BY <1>1, <1>4, <1>9, <1>10, BeforeFacts
<1>12. QED
  BY <1>11 DEF o, u

-----------------------------------------------------------------------------
(***************************************************************************)
(* Sequences that are flattened.  FlattenSeq is a recursive function: what *)
(* it makes of a sequence is what it makes of the beginning, and the last. *)
(***************************************************************************)
\* The results of flattening the beginnings of s, as FlattenSeq defines them.
FlatUpTo(s, n, f) ==
  f = [k \in 1..n |-> IF k = 1 THEN s[k] ELSE f[k - 1] \o s[k]]

LEMMA FlatExists ==
  ASSUME NEW s, NEW n \in Nat \ {0}
  PROVE  \E f : FlatUpTo(s, n, f)
<1> DEFINE T == {m \in Nat \ {0} : ~\E f : FlatUpTo(s, m, f)}
<1>1. SUFFICES ASSUME T # {} PROVE FALSE
  OBVIOUS
<1>2. PICK m \in T : \A j \in T : m <= j
  <2>1. T \subseteq Nat
    OBVIOUS
  <2> HIDE DEF T
  <2>2. QED
    BY <1>1, <2>1, Least
<1>3. m \in Nat \ {0} /\ ~\E f : FlatUpTo(s, m, f)
  OBVIOUS
<1>4. CASE m = 1
  <2> DEFINE g == [k \in 1..1 |-> s[1]]
  <2>1. DOMAIN g = 1..1 /\ \A k \in 1..1 : g[k] = s[k]
    OBVIOUS
  <2>2. [k \in 1..1 |-> IF k = 1 THEN s[k] ELSE g[k - 1] \o s[k]] = g
    OBVIOUS
  <2> HIDE DEF g
  <2>3. FlatUpTo(s, m, g)
    BY <1>4, <2>2 DEF FlatUpTo
  <2>4. QED
    BY <1>3, <2>3
<1>5. CASE m # 1
  <2>1. m - 1 \in Nat \ {0} /\ m - 1 \notin T
    BY <1>2, <1>3, <1>5
  <2>2. PICK f : FlatUpTo(s, m - 1, f)
    BY <2>1
  <2>3. f = [k \in 1..(m - 1) |-> IF k = 1 THEN s[k] ELSE f[k - 1] \o s[k]]
    BY <2>2 DEF FlatUpTo
  <2>4. \A k \in 1..(m - 1) : f[k] = IF k = 1 THEN s[k] ELSE f[k - 1] \o s[k]
    BY <2>3
  <2> DEFINE g == [k \in 1..m |-> IF k <= m - 1 THEN f[k] ELSE f[m - 1] \o s[m]]
  <2>5. g = [k \in 1..m |-> g[k]]
    OBVIOUS
  <2>6. ASSUME NEW k \in 1..m
        PROVE  g[k] = IF k = 1 THEN s[k] ELSE g[k - 1] \o s[k]
    <3>1. CASE k = 1
      BY <1>3, <1>5, <2>4, <3>1
    <3>2. CASE k # 1 /\ k <= m - 1
      <4>1. k - 1 \in 1..m /\ k - 1 <= m - 1 /\ k \in 1..(m - 1)
        BY <1>3, <3>2
      <4>2. QED
        BY <2>4, <3>2, <4>1
    <3>3. CASE k # 1 /\ ~(k <= m - 1)
      <4>1. k = m /\ m - 1 \in 1..m /\ m - 1 <= m - 1 /\ ~(m <= m - 1) /\ m \in 1..m
        BY <1>3, <3>3
      <4>2. g[m] = f[m - 1] \o s[m] /\ g[m - 1] = f[m - 1]
        BY ONLY <4>1
      <4>3. QED
        BY <1>5, <4>1, <4>2
    <3>4. QED
      BY <3>1, <3>2, <3>3
  <2> HIDE DEF g
  <2>7. g = [k \in 1..m |-> IF k = 1 THEN s[k] ELSE g[k - 1] \o s[k]]
    BY <2>5, <2>6
  <2>8. FlatUpTo(s, m, g)
    BY <2>7 DEF FlatUpTo
  <2>9. QED
    BY <1>3, <2>8
<1>6. QED
  BY <1>4, <1>5

LEMMA FlattenIs ==
  ASSUME NEW s, NEW n \in Nat \ {0}, Len(s) = n
  PROVE  \E f : /\ FlattenSeq(s) = f[n]
                /\ \A k \in 1..n : f[k] = IF k = 1 THEN s[k] ELSE f[k - 1] \o s[k]
<1> DEFINE F == CHOOSE f : f = [k \in 1..Len(s) |-> IF k = 1 THEN s[k] ELSE f[k - 1] \o s[k]]
<1>1. FlattenSeq(s) = F[n]
  BY DEF FlattenSeq
<1>2. \E f : f = [k \in 1..Len(s) |-> IF k = 1 THEN s[k] ELSE f[k - 1] \o s[k]]
  BY FlatExists DEF FlatUpTo
<1>3. F = [k \in 1..Len(s) |-> IF k = 1 THEN s[k] ELSE F[k - 1] \o s[k]]
  BY <1>2
<1> HIDE DEF F
<1>4. \A k \in 1..n : F[k] = IF k = 1 THEN s[k] ELSE F[k - 1] \o s[k]
  BY <1>3
<1>5. QED
  BY <1>1, <1>4

LEMMA FlattenStep ==
  ASSUME NEW n \in Nat \ {0}, NEW r, Len(r) = n, NEW s, Len(s) = n + 1,
         \A k \in 1..n : s[k] = r[k]
  PROVE  FlattenSeq(s) = FlattenSeq(r) \o s[n + 1]
<1>1. PICK f : /\ FlattenSeq(r) = f[n]
               /\ \A k \in 1..n : f[k] = IF k = 1 THEN r[k] ELSE f[k - 1] \o r[k]
  BY FlattenIs
<1>2. PICK m \in Nat \ {0} : m = n + 1
  OBVIOUS
<1>3. PICK g : /\ FlattenSeq(s) = g[m]
               /\ \A k \in 1..m : g[k] = IF k = 1 THEN s[k] ELSE g[k - 1] \o s[k]
  BY <1>2, FlattenIs
<1> DEFINE T == {k \in 1..n : g[k] # f[k]}
<1>4. T = {}
  <2>1. SUFFICES ASSUME T # {} PROVE FALSE
    OBVIOUS
  <2>2. T \subseteq Nat
    OBVIOUS
  <2>3. PICK l \in T : \A j \in T : l <= j
    <3> HIDE DEF T
    <3>1. QED
      BY <2>1, <2>2, Least
  <2>4. l \in 1..n /\ l \in 1..m /\ g[l] # f[l]
    BY <1>2, <2>3
  <2>5. l # 1
    BY <1>1, <1>3, <2>4
  <2>6. l - 1 \in 1..n /\ l - 1 \notin T
    BY <2>3, <2>4, <2>5
  <2>7. g[l - 1] = f[l - 1]
    BY <2>6
  <2> HIDE DEF T
  <2>8. QED
    BY <1>1, <1>3, <2>4, <2>5, <2>7
<1>5. g[n] = f[n]
  BY <1>4
<1>6. m \in 1..m /\ m # 1 /\ m - 1 = n
  BY <1>2
<1>7. g[m] = g[m - 1] \o s[m]
  BY <1>3, <1>6
<1> HIDE DEF T
<1>8. QED
  BY <1>1, <1>2, <1>3, <1>5, <1>6, <1>7

LEMMA FlattenOne ==
  ASSUME NEW s, Len(s) = 1
  PROVE  FlattenSeq(s) = s[1]
<1>1. 1 \in Nat \ {0}
  OBVIOUS
<1>2. PICK f : /\ FlattenSeq(s) = f[1]
               /\ \A k \in 1..1 : f[k] = IF k = 1 THEN s[k] ELSE f[k - 1] \o s[k]
  BY <1>1, FlattenIs
<1>3. QED
  BY <1>2

LEMMA FlattenEmpty ==
  ASSUME NEW s, Len(s) = 0
  PROVE  FlattenSeq(s) = s
BY DEF FlattenSeq

LEMMA FlattenType ==
  ASSUME NEW S, NEW n \in Nat \ {0}, NEW s, Len(s) = n, \A k \in 1..n : s[k] \in Seq(S)
  PROVE  FlattenSeq(s) \in Seq(S)
<1>1. PICK f : /\ FlattenSeq(s) = f[n]
               /\ \A k \in 1..n : f[k] = IF k = 1 THEN s[k] ELSE f[k - 1] \o s[k]
  BY FlattenIs
<1> DEFINE T == {k \in 1..n : f[k] \notin Seq(S)}
<1>2. SUFFICES ASSUME T # {} PROVE FALSE
  BY <1>1
<1>3. T \subseteq Nat
  OBVIOUS
<1>4. PICK k \in T : \A j \in T : k <= j
  <2> HIDE DEF T
  <2>1. QED
    BY <1>2, <1>3, Least
<1>5. k \in 1..n /\ f[k] \notin Seq(S) /\ s[k] \in Seq(S)
  OBVIOUS
<1>6. k # 1
  BY <1>1, <1>5
<1>7. k - 1 \in 1..n /\ k - 1 \notin T
  BY <1>4, <1>5, <1>6
<1>8. f[k - 1] \in Seq(S)
  BY <1>7
<1>9. f[k] = f[k - 1] \o s[k]
  BY <1>1, <1>5, <1>6
<1> HIDE DEF T
<1>10. QED
  BY <1>5, <1>8, <1>9

=============================================================================
