------------------------- MODULE AccessMatcher_proofs -------------------------
(***************************************************************************)
(* Proofs about AccessMatcher, for every set of spaces, payloads, union    *)
(* maps and well-formed placeholder sets, and every operator== of the      *)
(* payload.                                                                *)
(***************************************************************************)
EXTENDS AccessMatcher, SequenceTheorems, WellFoundedInduction, TLAPS

(***************************************************************************)
(* The filter of the matcher may be applied to partial combinations: when  *)
(* it rejects one, it rejects everything that starts with it.              *)
(***************************************************************************)
\* The two combinations agree on the positions of the shorter one, c.
IsBeginning(c, d) ==
  /\ Len(c) <= Len(d)
  /\ \A p \in 1..Len(c) : c[p] = d[p]

LEMMA AssignedInBeginning ==
  ASSUME NEW c \in Seq(DimCandidate), NEW d \in Seq(DimCandidate),
         IsBeginning(c, d), NEW G \in SUBSET (Nat \ {0}),
         NEW p \in Assigned(G, c)
  PROVE  p \in Assigned(G, d) /\ c[p] = d[p]
BY LenProperties DEF IsBeginning, Assigned

LEMMA GroupIsPositions ==
  ASSUME NEW set, WellFormed(set), NEW g \in 1..Len(set.groups)
  PROVE  set.groups[g] \in SUBSET (Nat \ {0})
<1>1. set.groups[g] \in SUBSET (1..size(set))
  BY ElementOfSeq DEF WellFormed
<1>2. size(set) \in Nat
  BY LenProperties DEF WellFormed, size
<1>3. QED
  BY <1>1, <1>2

\* While the groups are properly formed, it does not matter which assigned
\* position of a group findSpace takes.
LEMMA FindSpaceIsAny ==
  ASSUME NEW set, WellFormed(set), NEW d \in Seq(DimCandidate),
         groupsAreProperlyFormed(d, set), NEW g \in 1..Len(set.groups),
         NEW p \in Assigned(set.groups[g], d)
  PROVE  findSpace(set.groups[g], d) = d[p].space
<1>1. (CHOOSE q \in Assigned(set.groups[g], d) : TRUE) \in Assigned(set.groups[g], d)
  OBVIOUS
<1>2. QED
  BY <1>1 DEF findSpace, groupsAreProperlyFormed

LEMMA GroupsOfBeginning ==
  ASSUME NEW set, WellFormed(set),
         NEW c \in Seq(DimCandidate), NEW d \in Seq(DimCandidate),
         IsBeginning(c, d), groupsAreProperlyFormed(d, set)
  PROVE  groupsAreProperlyFormed(c, set)
<1> SUFFICES ASSUME NEW g \in 1..Len(set.groups), NEW h \in 1..Len(set.groups),
                    NEW p \in Assigned(set.groups[g], c),
                    NEW q \in Assigned(set.groups[h], c)
             PROVE  (c[p].space = c[q].space) <=> (g = h)
  BY DEF groupsAreProperlyFormed
<1>1. set.groups[g] \in SUBSET (Nat \ {0}) /\ set.groups[h] \in SUBSET (Nat \ {0})
  BY GroupIsPositions
<1>2. /\ p \in Assigned(set.groups[g], d) /\ c[p] = d[p]
      /\ q \in Assigned(set.groups[h], d) /\ c[q] = d[q]
  BY <1>1, AssignedInBeginning
<1>3. QED
  BY <1>2 DEF groupsAreProperlyFormed

LEMMA CompareInBeginning ==
  ASSUME NEW set, WellFormed(set),
         NEW c \in Seq(DimCandidate), NEW d \in Seq(DimCandidate),
         IsBeginning(c, d), groupsAreProperlyFormed(d, set),
         NEW g \in 1..Len(set.groups), NEW h \in 1..Len(set.groups),
         NEW eq \in BOOLEAN,
         compareGroupsBelongToSameArray(set.groups[g], set.groups[h], c, eq)
  PROVE  compareGroupsBelongToSameArray(set.groups[g], set.groups[h], d, eq)
<1> DEFINE G == set.groups[g]
           H == set.groups[h]
<1>1. groupsAreProperlyFormed(c, set)
  BY GroupsOfBeginning
<1>2. G \in SUBSET (Nat \ {0}) /\ H \in SUBSET (Nat \ {0})
  BY GroupIsPositions
<1>3. PICK p \in Assigned(G, c), q \in Assigned(H, c) : TRUE
  BY DEF compareGroupsBelongToSameArray
<1>4. findSpace(G, c) = c[p].space /\ findSpace(H, c) = c[q].space
  BY <1>1, <1>3, FindSpaceIsAny
<1>5. /\ p \in Assigned(G, d) /\ c[p] = d[p]
      /\ q \in Assigned(H, d) /\ c[q] = d[q]
  BY <1>2, AssignedInBeginning
<1>6. findSpace(G, d) = d[p].space /\ findSpace(H, d) = d[q].space
  BY <1>5, FindSpaceIsAny
<1>7. QED
  BY <1>4, <1>5, <1>6 DEF compareGroupsBelongToSameArray

\* "The filter must work on incomplete candidates for the branch-and-cut to
\* work": a beginning of a suitable combination is suitable, for ungrouped and
\* for grouped sets and whatever the payload's operator== is.
THEOREM BeginningIsSuitable ==
  ASSUME NEW set, WellFormed(set),
         NEW c \in Seq(DimCandidate), NEW d \in Seq(DimCandidate),
         IsBeginning(c, d), isSuitableCombination(d, set)
  PROVE  isSuitableCombination(c, set)
<1>1. Len(c) \in Nat /\ Len(d) \in Nat
  BY LenProperties
<1>2. hasNoDuplicateAssignments(c, set)
  BY <1>1 DEF isSuitableCombination, hasNoDuplicateAssignments, areFoldsValid,
              IsBeginning, isEqualModuloMap
<1>3. groupsAreProperlyFormed(c, set) /\ groupsAreProperlyFormed(d, set)
  BY GroupsOfBeginning DEF isSuitableCombination
<1>4. ASSUME set.grouped PROVE groupFoldsAreValid(c, set)
  <2>1. groupFoldsAreValid(d, set)
    BY <1>4 DEF isSuitableCombination
  <2>2. \A g, h \in 1..Len(set.groups) : \A eq \in BOOLEAN :
          compareGroupsBelongToSameArray(set.groups[g], set.groups[h], c, eq)
            => compareGroupsBelongToSameArray(set.groups[g], set.groups[h], d, eq)
    BY <1>3, CompareInBeginning
  <2>3. QED
    BY <2>1, <2>2 DEF groupFoldsAreValid, areFoldsValid
<1>5. QED
  BY <1>2, <1>3, <1>4 DEF isSuitableCombination

-----------------------------------------------------------------------------

USE DEF size

(***************************************************************************)
(* What is fixed at the call, and the shape of the front of a sequence.    *)
(***************************************************************************)
LEMMA FrontFacts ==
  ASSUME NEW S, NEW s \in Seq(S), s # <<>>
  PROVE  /\ Front(s) \in Seq(S)
         /\ Len(Front(s)) = Len(s) - 1
         /\ Len(s) \in Nat \ {0}
         /\ \A i \in 1..(Len(s) - 1) : Front(s)[i] = s[i]
         /\ Last(s) = s[Len(s)]
         /\ Last(s) \in S
<1>1. Len(s) \in Nat \ {0}
  BY EmptySeq, LenProperties
<1>2. \A i \in 1..(Len(s) - 1) : s[i] \in S
  BY <1>1, ElementOfSeq
<1> DEFINE k == Len(s) - 1
<1>3. k \in Nat /\ \A i \in 1..k : s[i] \in S
  BY <1>1, <1>2
<1> HIDE DEF k
<1>4. /\ SubSeq(s, 1, k) \in Seq(S)
      /\ Len(SubSeq(s, 1, k)) = k
      /\ \A i \in 1..k : SubSeq(s, 1, k)[i] = s[i]
  <2>1. /\ SubSeq(s, 1, k) \in Seq(S)
        /\ Len(SubSeq(s, 1, k)) = IF 1 <= k THEN k - 1 + 1 ELSE 0
        /\ \A i \in 1..(k - 1 + 1) : SubSeq(s, 1, k)[i] = s[1 + i - 1]
    BY <1>3, SubSeqProperties
  <2>2. QED
    BY <1>3, <2>1
<1>5. QED
  BY <1>1, <1>4, ElementOfSeq DEF Front, Last, k

LEMMA FoundType ==
  ASSUME WellFormed(ps), NEW p \in 1..n, NEW map \in Space
  PROVE  [k \in 1..Len(ps.pattern[p][map]) |->
            [payload |-> ps.pattern[p][map][k], space |-> map]]
           \in Seq(DimCandidate)
<1> DEFINE payloads == ps.pattern[p][map]
<1>1. payloads \in Seq(Payload)
  BY ElementOfSeq DEF WellFormed, Pattern, n
<1>2. \A k \in 1..Len(payloads) :
        [payload |-> payloads[k], space |-> map] \in DimCandidate
  BY <1>1 DEF DimCandidate
<1> HIDE DEF payloads
<1>3. QED
  BY <1>1, <1>2, IsASeq, LenProperties DEF payloads

LEMMA LengthsAreNat ==
  ASSUME WellFormed(ps), access \in Seq(Space)
  PROVE  n \in Nat /\ Len(access) \in Nat
BY LenProperties DEF WellFormed, n

LEMMA TypeInit == Init => TypeOK
<1> SUFFICES ASSUME Init PROVE TypeOK
  OBVIOUS
<1>1. WellFormed(ps) /\ access \in Seq(Space)
  BY AccessesAssumption, PlaceholderSetsAssumption DEF Init
<1>2. n \in Nat /\ Len(access) \in Nat
  BY <1>1, LengthsAreNat
<1>3. candidates \in [1..n -> Seq(DimCandidate)]
  BY EmptySeq DEF Init
<1>4. /\ combination \in Seq(Nat \ {0})
      /\ Len(combination) = 0
      /\ matches \in Seq(Seq(Nat \ {0}))
  BY EmptySeq DEF Init
<1>5. QED
  BY <1>1, <1>2, <1>3, <1>4 DEF Init, TypeOK

LEMMA TypeStep == TypeOK /\ [Next]_vars => TypeOK'
<1> SUFFICES ASSUME TypeOK, [Next]_vars PROVE TypeOK'
  OBVIOUS
<1> n \in Nat /\ Len(access) \in Nat
  BY LengthsAreNat DEF TypeOK
<1> USE DEF TypeOK, n, input, filling
<1>1. CASE FillFromAccess
  <2> DEFINE map == access[acc]
             found == [k \in 1..Len(ps.pattern[ph][map]) |->
                         [payload |-> ps.pattern[ph][map][k], space |-> map]]
  <2>1. ph \in 1..n /\ map \in Space
    BY <1>1, ElementOfSeq DEF FillFromAccess
  <2>2. found \in Seq(DimCandidate)
    BY <2>1, FoundType
  <2>3. candidates' = [candidates EXCEPT ![ph] = candidates[ph] \o found]
    BY <1>1 DEF FillFromAccess
  <2> HIDE DEF found
  <2>4. candidates[ph] \o found \in Seq(DimCandidate)
    BY <2>1, <2>2, ConcatProperties
  <2>5. candidates' \in [1..n -> Seq(DimCandidate)]
    BY <2>3, <2>4
  <2>6. combination = <<>> /\ Len(combination) = 0
    BY <1>1, EmptySeq DEF FillFromAccess
  <2>7. /\ UNCHANGED <<input, pc, ph, combination, nxt, matches>>
        /\ acc' = acc + 1
        /\ acc <= Len(access)
        /\ pc = "fill"
    BY <1>1 DEF FillFromAccess
  <2>8. QED
    BY <2>5, <2>6, <2>7
<1>2. CASE NextPlaceholder
  BY <1>2 DEF NextPlaceholder
<1>3. CASE EarlyExit
  BY <1>3 DEF EarlyExit
<1>4. CASE StartSearch
  BY <1>4 DEF StartSearch
<1>5. CASE EnterCut
  BY <1>5 DEF EnterCut
<1>6. CASE EnterFull
  BY <1>6, AppendProperties DEF EnterFull
<1>7. CASE EnterPartial
  BY <1>7 DEF EnterPartial
<1>8. CASE TryCandidate
  BY <1>8, AppendProperties DEF TryCandidate
<1>9. CASE LoopEnds
  BY <1>9 DEF LoopEnds
<1>10. CASE ReturnToLoop
  <2>1. /\ Front(combination) \in Seq(Nat \ {0})
        /\ Len(combination) \in Nat \ {0}
        /\ Len(Front(combination)) = Len(combination) - 1
        /\ \A i \in 1..(Len(combination) - 1) :
             Front(combination)[i] = combination[i]
        /\ Last(combination) \in Nat \ {0}
    BY <1>10, FrontFacts DEF ReturnToLoop
  <2>2. /\ combination' = Front(combination)
        /\ nxt' = Last(combination) + 1
        /\ UNCHANGED <<input, filling, matches>>
        /\ pc = "leave" /\ pc' = "loop"
    BY <1>10 DEF ReturnToLoop
  <2> HIDE DEF n
  <2>3. n' = n
    BY <2>2 DEF n
  <2>4. Len(combination') < n
    <3>1. Len(combination) <= n
      OBVIOUS
    <3>2. QED
      BY ONLY <2>1, <2>2, <3>1, n \in Nat
  <2>5. \A p \in 1..Len(combination') : combination'[p] <= Len(candidates'[p])
    <3>1. \A p \in 1..Len(combination) : combination[p] <= Len(candidates[p])
      OBVIOUS
    <3>2. QED
      BY ONLY <2>1, <2>2, <3>1 DEF filling
  <2>6. combination' \in Seq(Nat \ {0}) /\ nxt' \in Nat \ {0}
    BY ONLY <2>1, <2>2
  <2>7. QED
    BY <2>2, <2>3, <2>4, <2>5, <2>6
<1>11. CASE ReturnMatches
  BY <1>11 DEF ReturnMatches
<1>12. CASE UNCHANGED vars
  BY <1>12 DEF vars
<1>13. QED
  BY <1>1, <1>2, <1>3, <1>4, <1>5, <1>6, <1>7, <1>8, <1>9, <1>10, <1>11, <1>12
     DEF Next

\* match never indexes a candidate list out of its bounds and never extends a
\* combination beyond the placeholders: its state is well-typed at every step.
THEOREM TypeCorrect == Spec => []TypeOK
<1>1. QED
  BY TypeInit, TypeStep, PTL DEF Spec

-----------------------------------------------------------------------------
(***************************************************************************)
(* The order of the recursion, on sequences of positions.                  *)
(***************************************************************************)
Positions == Seq(Nat \ {0})

LEMMA OrderOfAppend ==
  ASSUME NEW c \in Positions, NEW d \in Positions, NEW k \in Nat \ {0},
         Len(d) < Len(c)
  PROVE  (StartsWith(c, Append(d, k)) \/ After(c, Append(d, k)))
           <=> (After(c, d) \/ (StartsWith(c, d) /\ c[Len(d) + 1] >= k))
<1> DEFINE e == Append(d, k)
<1>1. /\ Len(c) \in Nat /\ Len(d) \in Nat
      /\ \A p \in 1..Len(c) : c[p] \in Nat
      /\ \A p \in 1..Len(d) : d[p] \in Nat
  BY LenProperties, ElementOfSeq DEF Positions
<1>2. /\ Len(e) = Len(d) + 1
      /\ e[Len(d) + 1] = k
      /\ \A p \in 1..Len(d) : e[p] = d[p]
  BY AppendProperties DEF Positions
<1> HIDE DEF e
<1>3. ASSUME StartsWith(c, e) PROVE StartsWith(c, d) /\ c[Len(d) + 1] >= k
  BY <1>1, <1>2, <1>3 DEF StartsWith
<1>4. ASSUME After(c, e)
      PROVE  After(c, d) \/ (StartsWith(c, d) /\ c[Len(d) + 1] >= k)
  <2>1. PICK p \in 1..Len(e) : /\ p <= Len(c)
                               /\ \A q \in 1..(p - 1) : c[q] = e[q]
                               /\ c[p] > e[p]
    BY <1>4 DEF After
  <2>2. CASE p <= Len(d)
    <3>1. \A q \in 1..(p - 1) : c[q] = d[q]
      BY <1>1, <1>2, <2>1, <2>2
    <3>2. c[p] > d[p] /\ p \in 1..Len(d)
      BY <1>1, <1>2, <2>1, <2>2
    <3>3. QED
      BY <2>1, <3>1, <3>2 DEF After
  <2>3. CASE p = Len(d) + 1
    BY <1>1, <1>2, <2>1, <2>3 DEF StartsWith
  <2>4. QED
    BY <1>1, <1>2, <2>1, <2>2, <2>3
<1>5. ASSUME After(c, d) PROVE After(c, e)
  <2>1. PICK p \in 1..Len(d) : /\ p <= Len(c)
                               /\ \A q \in 1..(p - 1) : c[q] = d[q]
                               /\ c[p] > d[p]
    BY <1>5 DEF After
  <2>2. p \in 1..Len(e) /\ c[p] > e[p] /\ \A q \in 1..(p - 1) : c[q] = e[q]
    BY <1>1, <1>2, <2>1
  <2>3. QED
    BY <2>1, <2>2 DEF After
<1>6. ASSUME StartsWith(c, d), c[Len(d) + 1] >= k
      PROVE  StartsWith(c, e) \/ After(c, e)
  <2>1. CASE c[Len(d) + 1] = k
    BY <1>1, <1>2, <1>6, <2>1 DEF StartsWith
  <2>2. CASE c[Len(d) + 1] > k
    <3>1. Len(d) + 1 \in 1..Len(e) /\ Len(d) + 1 <= Len(c)
      BY <1>1, <1>2
    <3>2. \A q \in 1..(Len(d) + 1 - 1) : c[q] = e[q]
      BY <1>1, <1>2, <1>6 DEF StartsWith
    <3>3. QED
      BY <1>2, <2>2, <3>1, <3>2 DEF After
  <2>3. QED
    BY <1>1, <1>6, <2>1, <2>2
<1>7. QED
  BY <1>3, <1>4, <1>5, <1>6 DEF e

LEMMA StartsWithIsNotAfter ==
  ASSUME NEW c \in Positions, NEW d \in Positions, StartsWith(c, d)
  PROVE  ~After(c, d)
<1>1. \A p \in 1..Len(d) : d[p] \in Nat
  BY ElementOfSeq DEF Positions
<1>2. QED
  BY <1>1 DEF StartsWith, After

LEMMA OrderOfFront ==
  ASSUME NEW c \in Positions, NEW d \in Positions, d # <<>>, Len(d) <= Len(c)
  PROVE  After(c, d) <=> \/ After(c, Front(d))
                         \/ /\ StartsWith(c, Front(d))
                            /\ c[Len(Front(d)) + 1] >= Last(d) + 1
<1> DEFINE f == Front(d)
<1>1. /\ f \in Positions
      /\ Len(d) \in Nat \ {0}
      /\ Len(f) = Len(d) - 1
      /\ \A p \in 1..(Len(d) - 1) : f[p] = d[p]
      /\ Last(d) = d[Len(d)]
  BY FrontFacts DEF Positions
<1>2. /\ Len(c) \in Nat
      /\ \A p \in 1..Len(c) : c[p] \in Nat
      /\ \A p \in 1..Len(d) : d[p] \in Nat
  BY LenProperties, ElementOfSeq DEF Positions
<1> HIDE DEF f
<1>3. ASSUME After(c, d)
      PROVE  After(c, f) \/ (StartsWith(c, f) /\ c[Len(f) + 1] >= Last(d) + 1)
  <2>1. PICK p \in 1..Len(d) : /\ p <= Len(c)
                               /\ \A q \in 1..(p - 1) : c[q] = d[q]
                               /\ c[p] > d[p]
    BY <1>3 DEF After
  <2>2. CASE p < Len(d)
    <3>1. p \in 1..Len(f) /\ c[p] > f[p] /\ \A q \in 1..(p - 1) : c[q] = f[q]
      BY <1>1, <1>2, <2>1, <2>2
    <3>2. QED
      BY <2>1, <3>1 DEF After
  <2>3. CASE p = Len(d)
    BY <1>1, <1>2, <2>1, <2>3 DEF StartsWith
  <2>4. QED
    BY <1>1, <2>1, <2>2, <2>3
<1>4. ASSUME After(c, f) PROVE After(c, d)
  <2>1. PICK p \in 1..Len(f) : /\ p <= Len(c)
                               /\ \A q \in 1..(p - 1) : c[q] = f[q]
                               /\ c[p] > f[p]
    BY <1>4 DEF After
  <2>2. p \in 1..Len(d) /\ c[p] > d[p] /\ \A q \in 1..(p - 1) : c[q] = d[q]
    BY <1>1, <1>2, <2>1
  <2>3. QED
    BY <2>1, <2>2 DEF After
<1>5. ASSUME StartsWith(c, f), c[Len(f) + 1] >= Last(d) + 1 PROVE After(c, d)
  <2>1. \A q \in 1..(Len(d) - 1) : c[q] = d[q]
    BY <1>1, <1>5 DEF StartsWith
  <2>2. Len(d) \in 1..Len(d) /\ c[Len(d)] > d[Len(d)]
    BY <1>1, <1>2, <1>5
  <2>3. QED
    BY <2>1, <2>2 DEF After
<1>6. QED
  BY <1>3, <1>4, <1>5 DEF f

-----------------------------------------------------------------------------
(***************************************************************************)
(* Combinations of candidates.                                             *)
(***************************************************************************)
IsCombination(c) ==
  /\ c \in Positions
  /\ Len(c) <= n
  /\ \A p \in 1..Len(c) : c[p] <= Len(candidates[p])

LEMMA FullIsCombination ==
  ASSUME TypeOK, NEW c \in FullCombinations
  PROVE  IsCombination(c) /\ Len(c) = n /\ c \in [1..n -> Nat \ {0}]
<1>1. n \in Nat
  BY LengthsAreNat DEF TypeOK
<1>2. \A p \in 1..n : /\ Len(candidates[p]) \in Nat
                       /\ DOMAIN candidates[p] = 1..Len(candidates[p])
  BY LenProperties DEF TypeOK
<1>3. /\ DOMAIN c = 1..n
      /\ c = [p \in 1..n |-> c[p]]
      /\ \A p \in 1..n : c[p] \in DOMAIN candidates[p]
  BY DEF FullCombinations
<1>4. \A p \in 1..n : c[p] \in Nat \ {0} /\ c[p] <= Len(candidates[p])
  BY <1>2, <1>3
<1>5. c \in [1..n -> Nat \ {0}]
  BY <1>3, <1>4
<1>6. c \in Positions /\ Len(c) = n
  BY <1>1, <1>5, SeqDef, LenProperties DEF Positions
<1>7. QED
  BY <1>4, <1>5, <1>6 DEF IsCombination

LEMMA CombinationIsFull ==
  ASSUME TypeOK, NEW c, IsCombination(c), Len(c) = n
  PROVE  c \in FullCombinations
<1>1. c \in [1..n -> Nat \ {0}]
  BY LenProperties DEF IsCombination, Positions
<1>2. \A p \in 1..n : /\ Len(candidates[p]) \in Nat
                       /\ DOMAIN candidates[p] = 1..Len(candidates[p])
  BY LenProperties DEF TypeOK
<1>3. \A p \in 1..n : c[p] \in DOMAIN candidates[p]
  BY <1>1, <1>2 DEF IsCombination
<1>4. QED
  BY <1>1, <1>3 DEF FullCombinations

LEMMA ChosenFacts ==
  ASSUME TypeOK, NEW c, IsCombination(c)
  PROVE  /\ Chosen(c) \in Seq(DimCandidate)
         /\ Len(Chosen(c)) = Len(c)
         /\ \A p \in 1..Len(c) : Chosen(c)[p] = candidates[p][c[p]]
<1>1. n \in Nat
  BY LengthsAreNat DEF TypeOK
<1>2. Len(c) \in Nat /\ \A p \in 1..Len(c) : c[p] \in Nat \ {0}
  BY LenProperties, ElementOfSeq DEF IsCombination, Positions
<1>3. ASSUME NEW p \in 1..Len(c)
      PROVE  candidates[p] \in Seq(DimCandidate) /\ c[p] \in 1..Len(candidates[p])
  <2>1. p \in 1..n /\ c[p] <= Len(candidates[p])
    BY <1>1, <1>2 DEF IsCombination
  <2>2. candidates[p] \in Seq(DimCandidate)
    BY <2>1 DEF TypeOK
  <2>3. Len(candidates[p]) \in Nat
    BY <2>2, LenProperties
  <2>4. QED
    BY <1>2, <2>1, <2>2, <2>3
<1>4. \A p \in 1..Len(c) : candidates[p][c[p]] \in DimCandidate
  BY <1>3, ElementOfSeq
<1>5. Chosen(c) \in [1..Len(c) -> DimCandidate]
  BY <1>4 DEF Chosen
<1>6. Chosen(c) \in Seq(DimCandidate) /\ Len(Chosen(c)) = Len(c)
  BY <1>2, <1>5, SeqDef, LenProperties
<1>7. QED
  BY <1>6 DEF Chosen

\* A cut is safe: what starts with an unsuitable combination is unsuitable.
LEMMA SuitableBeginning ==
  ASSUME TypeOK, NEW c, NEW d, IsCombination(c), IsCombination(d),
         StartsWith(c, d), Suitable(c)
  PROVE  Suitable(d)
<1>1. Len(d) \in Nat /\ Len(c) \in Nat
  BY LenProperties DEF IsCombination, Positions
<1>2. IsBeginning(Chosen(d), Chosen(c))
  BY <1>1, ChosenFacts DEF StartsWith, IsBeginning
<1>3. QED
  BY <1>2, ChosenFacts, BeginningIsSuitable DEF Suitable, TypeOK

LEMMA CombinationIsCombination == TypeOK => IsCombination(combination)
BY DEF TypeOK, IsCombination, Positions

\* During the search only the place of the search and the matches change.
LEMMA SearchKeeps ==
  ASSUME UNCHANGED <<ps, candidates>>
  PROVE  /\ n' = n
         /\ FullCombinations' = FullCombinations
         /\ \A c : Suitable(c)' <=> Suitable(c)
         /\ \A c : Chosen(c)' = Chosen(c)
BY DEF n, FullCombinations, Suitable, Chosen

LEMMA SameRemaining ==
  ASSUME MatchesAreExact, UNCHANGED <<ps, candidates, matches>>,
         \A c \in FullCombinations :
           Suitable(c) => (Remaining(c)' <=> Remaining(c))
  PROVE  MatchesAreExact'
<1>1. Range(matches') = Range(matches)
  OBVIOUS
<1>2. QED
  BY <1>1, SearchKeeps DEF MatchesAreExact

-----------------------------------------------------------------------------
(***************************************************************************)
(* MatchesAreExact is inductive, given the types.                          *)
(***************************************************************************)
LEMMA ExactInit == Init => MatchesAreExact
<1> SUFFICES ASSUME Init PROVE MatchesAreExact
  OBVIOUS
<1>1. Range(matches) = {}
  BY DEF Init, Range
<1>2. QED
  BY <1>1 DEF Init, MatchesAreExact, Remaining

\* Stage 1: nothing is found and everything remains.
LEMMA ExactFill ==
  ASSUME MatchesAreExact, pc = "fill", pc' = "fill", matches' = matches
  PROVE  MatchesAreExact'
<1>1. Range(matches) = {}
  BY DEF MatchesAreExact, Remaining
<1>2. Range(matches') = {}
  BY <1>1
<1>3. QED
  BY <1>2 DEF MatchesAreExact, Remaining

LEMMA ExactEarlyExit ==
  ASSUME TypeOK, MatchesAreExact, EarlyExit
  PROVE  MatchesAreExact'
<1>1. Range(matches) = {} /\ Range(matches') = {}
  BY DEF MatchesAreExact, Remaining, EarlyExit
<1>2. ph \in 1..n /\ candidates[ph] = <<>>
  BY DEF TypeOK, EarlyExit
<1>3. DOMAIN candidates[ph] = {}
  BY <1>2
<1>4. FullCombinations = {}
  BY <1>2, <1>3 DEF FullCombinations
<1>5. FullCombinations' = {}
  BY <1>4, SearchKeeps DEF EarlyExit, input, filling
<1>6. QED
  BY <1>1, <1>5 DEF MatchesAreExact

LEMMA ExactStartSearch ==
  ASSUME TypeOK, MatchesAreExact, StartSearch
  PROVE  MatchesAreExact'
<1>1. combination' = <<>> /\ Len(combination') = 0
  BY EmptySeq DEF TypeOK, StartSearch
<1>2. ASSUME NEW c \in FullCombinations PROVE StartsWith(c, combination')
  BY <1>1, FullIsCombination, LengthsAreNat DEF StartsWith, TypeOK
<1>3. QED
  BY <1>2, SameRemaining DEF StartSearch, Remaining, input, filling

LEMMA ExactEnterCut ==
  ASSUME TypeOK, MatchesAreExact, EnterCut
  PROVE  MatchesAreExact'
<1>1. ASSUME NEW c \in FullCombinations, Suitable(c)
      PROVE  ~StartsWith(c, combination)
  BY <1>1, FullIsCombination, CombinationIsCombination, SuitableBeginning
     DEF EnterCut
<1>2. QED
  BY <1>1, SameRemaining DEF EnterCut, Remaining, input, filling

LEMMA ExactEnterFull ==
  ASSUME TypeOK, MatchesAreExact, EnterFull
  PROVE  MatchesAreExact'
<1>1. combination \in FullCombinations
  BY CombinationIsCombination, CombinationIsFull DEF EnterFull
<1>2. ASSUME NEW c \in FullCombinations
      PROVE  StartsWith(c, combination) <=> c = combination
  <2>1. /\ c \in Positions /\ combination \in Positions
        /\ Len(c) = n /\ Len(combination) = n /\ n \in Nat
    <3>1. c \in Positions /\ Len(c) = n
      BY FullIsCombination DEF IsCombination
    <3>2. combination \in Positions /\ Len(combination) = n
      BY DEF TypeOK, Positions, EnterFull
    <3>3. QED
      BY <3>1, <3>2, LengthsAreNat DEF TypeOK
  <2>2. StartsWith(c, combination) => c = combination
    BY <2>1, SeqEqual DEF StartsWith, Positions
  <2>3. StartsWith(combination, combination)
    BY <2>1 DEF StartsWith
  <2>4. QED
    BY <2>2, <2>3
<1>3. ~After(combination, combination)
  BY <1>1, <1>2, FullIsCombination, StartsWithIsNotAfter DEF IsCombination
<1>4. Range(matches') = Range(matches) \cup {combination}
  <2>1. /\ Len(matches') = Len(matches) + 1
        /\ Len(matches) \in Nat
        /\ DOMAIN matches = 1..Len(matches)
        /\ DOMAIN matches' = 1..(Len(matches) + 1)
        /\ \A i \in 1..Len(matches) : matches'[i] = matches[i]
        /\ matches'[Len(matches) + 1] = combination
    BY AppendProperties, LenProperties DEF EnterFull, TypeOK
  <2>2. QED
    BY <2>1 DEF Range
<1>5. /\ FullCombinations' = FullCombinations
      /\ \A c : Suitable(c)' <=> Suitable(c)
  BY SearchKeeps DEF EnterFull, input, filling
<1>6. \A c \in FullCombinations :
        Remaining(c)' <=> (Remaining(c) /\ c # combination)
  BY <1>2, <1>3 DEF EnterFull, Remaining
<1>7. Remaining(combination) /\ Suitable(combination)
  BY <1>1, <1>2 DEF EnterFull, Remaining
<1>8. QED
  BY <1>1, <1>4, <1>5, <1>6, <1>7 DEF MatchesAreExact

LEMMA ExactEnterPartial ==
  ASSUME TypeOK, MatchesAreExact, EnterPartial
  PROVE  MatchesAreExact'
<1>1. ASSUME NEW c \in FullCombinations
      PROVE  c[Len(combination) + 1] >= 1
  <2>1. Len(combination) \in Nat /\ Len(combination) < n
    <3>1. n \in Nat /\ Len(combination) \in Nat
      BY LengthsAreNat, LenProperties DEF TypeOK
    <3>2. Len(combination) <= n /\ Len(combination) # n
      BY DEF TypeOK, EnterPartial
    <3>3. QED
      BY <3>1, <3>2
  <2>2. n \in Nat /\ c \in [1..n -> Nat \ {0}]
    BY FullIsCombination, LengthsAreNat DEF TypeOK
  <2>3. QED
    BY <2>1, <2>2
<1>2. QED
  BY <1>1, SameRemaining DEF EnterPartial, Remaining, input, filling

LEMMA ExactTryCandidate ==
  ASSUME TypeOK, MatchesAreExact, TryCandidate
  PROVE  MatchesAreExact'
<1>1. ASSUME NEW c \in FullCombinations
      PROVE  Remaining(c)' <=> Remaining(c)
  <2>1. /\ c \in Positions /\ combination \in Positions
        /\ Len(combination) < Len(c)
    BY FullIsCombination DEF TypeOK, Positions, TryCandidate, IsCombination
  <2>2. (StartsWith(c, combination') \/ After(c, combination'))
          <=> \/ After(c, combination)
              \/ StartsWith(c, combination) /\ c[Len(combination) + 1] >= nxt
    BY <2>1, OrderOfAppend DEF TypeOK, TryCandidate
  <2>3. QED
    BY <2>2 DEF TryCandidate, Remaining
<1>2. QED
  BY <1>1, SameRemaining DEF TryCandidate, input, filling

LEMMA ExactLoopEnds ==
  ASSUME TypeOK, MatchesAreExact, LoopEnds
  PROVE  MatchesAreExact'
<1>1. ASSUME NEW c \in FullCombinations
      PROVE  ~(c[Len(combination) + 1] >= nxt)
  <2>1. /\ Len(combination) \in Nat
        /\ Len(combination) + 1 \in 1..n
    BY LenProperties, LengthsAreNat DEF TypeOK, LoopEnds
  <2>2. /\ c[Len(combination) + 1] \in Nat
        /\ c[Len(combination) + 1] <= Len(candidates[Len(combination) + 1])
        /\ Len(candidates[Len(combination) + 1]) \in Nat
    BY <2>1, FullIsCombination, LenProperties DEF IsCombination, TypeOK
  <2>3. QED
    BY <2>2 DEF LoopEnds, TypeOK
<1>2. QED
  BY <1>1, SameRemaining DEF LoopEnds, Remaining, input, filling

LEMMA ExactReturnToLoop ==
  ASSUME TypeOK, MatchesAreExact, ReturnToLoop
  PROVE  MatchesAreExact'
<1>1. ASSUME NEW c \in FullCombinations
      PROVE  Remaining(c)' <=> Remaining(c)
  <2>1. /\ c \in Positions /\ combination \in Positions
        /\ combination # <<>> /\ Len(combination) <= Len(c)
    BY FullIsCombination DEF TypeOK, Positions, ReturnToLoop, IsCombination
  <2>2. After(c, combination)
          <=> \/ After(c, combination')
              \/ /\ StartsWith(c, combination')
                 /\ c[Len(combination') + 1] >= nxt'
    BY <2>1, OrderOfFront DEF ReturnToLoop
  <2>3. QED
    BY <2>2 DEF ReturnToLoop, Remaining
<1>2. QED
  BY <1>1, SameRemaining DEF ReturnToLoop, input, filling

LEMMA ExactReturnMatches ==
  ASSUME TypeOK, MatchesAreExact, ReturnMatches
  PROVE  MatchesAreExact'
<1>1. \A c : ~After(c, combination)
  BY EmptySeq DEF After, ReturnMatches
<1>2. QED
  BY <1>1, SameRemaining DEF ReturnMatches, Remaining, input, filling

LEMMA ExactStep == TypeOK /\ MatchesAreExact /\ [Next]_vars => MatchesAreExact'
<1> SUFFICES ASSUME TypeOK, MatchesAreExact, [Next]_vars PROVE MatchesAreExact'
  OBVIOUS
<1>1. CASE FillFromAccess
  BY <1>1, ExactFill DEF FillFromAccess
<1>2. CASE NextPlaceholder
  BY <1>2, ExactFill DEF NextPlaceholder
<1>3. CASE UNCHANGED vars
  <2>1. \A c : Remaining(c)' <=> Remaining(c)
    BY <1>3 DEF vars, Remaining
  <2>2. QED
    BY <1>3, <2>1, SameRemaining DEF vars
<1>4. QED
  BY <1>1, <1>2, <1>3, ExactEarlyExit, ExactStartSearch, ExactEnterCut,
     ExactEnterFull, ExactEnterPartial, ExactTryCandidate, ExactLoopEnds,
     ExactReturnToLoop, ExactReturnMatches DEF Next

\* Branch and cut loses nothing and invents nothing: at every step the matches
\* are exactly the full suitable combinations the recursion has passed.
THEOREM MatchesExact == Spec => []MatchesAreExact
<1>1. QED
  BY TypeInit, TypeStep, ExactInit, ExactStep, PTL DEF Spec

\* The cut of a partial combination never drops a match.
THEOREM CutsAreSafe == Spec => CutsLoseNothing
<1>1. TypeOK /\ [Next]_vars =>
        [EnterCut => \A c \in FullCombinations :
                       StartsWith(c, combination) => ~Suitable(c)]_vars
  BY FullIsCombination, CombinationIsCombination, SuitableBeginning DEF EnterCut
<1>2. QED
  BY <1>1, TypeInit, TypeStep, PTL DEF Spec, CutsLoseNothing

-----------------------------------------------------------------------------
(***************************************************************************)
(* What a match means to the caller.                                       *)
(***************************************************************************)
LEMMA MatchIsFull ==
  ASSUME TypeOK, MatchesAreExact, NEW i \in 1..Len(matches)
  PROVE  matches[i] \in FullCombinations /\ Suitable(matches[i])
<1>1. matches[i] \in Range(matches)
  BY LenProperties DEF Range, TypeOK
<1>2. QED
  BY <1>1 DEF MatchesAreExact

LEMMA PayloadsStep == TypeOK /\ MatchesAreExact => PayloadsFollowIds
<1> SUFFICES ASSUME TypeOK, MatchesAreExact, NEW i \in 1..Len(matches),
                    NEW p \in 1..n, NEW q \in 1..n, p < q
             PROVE  ps.id[p] = ps.id[q] <=>
                      isEqualModuloMap(Chosen(matches[i])[p], Chosen(matches[i])[q])
  BY DEF PayloadsFollowIds
<1>1. Len(Chosen(matches[i])) = n
  BY MatchIsFull, FullIsCombination, ChosenFacts
<1>2. hasNoDuplicateAssignments(Chosen(matches[i]), ps)
  BY MatchIsFull DEF Suitable, isSuitableCombination
<1>3. ps.folds[p] = ps.folds[q] <=> ps.id[p] = ps.id[q]
  BY DEF TypeOK, WellFormed, n
<1>4. QED
  BY <1>1, <1>2, <1>3 DEF hasNoDuplicateAssignments, areFoldsValid

\* In every match, placeholders with one id captured equal payloads and
\* placeholders with different ids unequal ones.
THEOREM MatchesFollowIds == Spec => []PayloadsFollowIds
<1>1. QED
  BY TypeCorrect, MatchesExact, PayloadsStep, PTL

LEMMA SmallestPosition ==
  ASSUME NEW T \in SUBSET Nat, T # {}
  PROVE  \E k \in T : \A j \in T : k <= j
<1> DEFINE R == OpToRel(<, Nat)
<1>1. IsWellFoundedOn(R, Nat)
  BY NatLessThanWellFounded
<1>2. \A j, k \in Nat : <<j, k>> \in R <=> j < k
  BY DEF OpToRel
<1> HIDE DEF R
<1>3. PICK k \in T : \A j \in T : ~(<<j, k>> \in R)
  BY <1>1, WFMin
<1>4. ASSUME NEW j \in T PROVE k <= j
  <2>1. j \in Nat /\ k \in Nat
    OBVIOUS
  <2>2. ~(j < k)
    BY <1>2, <1>3, <2>1
  <2>3. QED
    BY <2>1, <2>2
<1>5. QED
  BY <1>4

LEMMA LookupStep == TypeOK /\ MatchesAreExact => LookupNeverDies
<1> SUFFICES ASSUME TypeOK, MatchesAreExact,
                    NEW i \in 1..Len(matches), NEW p \in 1..n
             PROVE  ~LookupDies(matches[i], ps.id[p])
  BY DEF LookupNeverDies
<1> DEFINE P == PositionsOf(ps.id[p])
           first == CHOOSE k \in P : \A j \in P : k <= j
<1>1. p \in P /\ P \in SUBSET (1..n) /\ P \in SUBSET Nat
  <2>1. n \in Nat
    BY LengthsAreNat DEF TypeOK
  <2>2. p \in P /\ P \in SUBSET (1..n)
    BY DEF PositionsOf
  <2> HIDE DEF P
  <2>3. QED
    BY ONLY <2>1, <2>2
<1>2. \E k \in P : \A j \in P : k <= j
  BY <1>1, SmallestPosition
<1>3. first \in P /\ \A j \in P : first <= j
  BY <1>2
<1>4. Lookup(matches[i], ps.id[p]).payload = Chosen(matches[i])[first].payload
  BY DEF Lookup
<1> HIDE DEF first
<1>5. ASSUME NEW k \in P, NEW j \in P, j < k
      PROVE  <<Chosen(matches[i])[first].payload,
               Chosen(matches[i])[k].payload>> \in PayloadEq
  <2>1. first \in 1..n /\ k \in 1..n /\ first < k /\ ps.id[first] = ps.id[k]
    BY <1>1, <1>3, <1>5, LengthsAreNat DEF PositionsOf, TypeOK
  <2>2. isEqualModuloMap(Chosen(matches[i])[first], Chosen(matches[i])[k])
    BY <2>1, PayloadsStep DEF PayloadsFollowIds
  <2>3. QED
    BY <2>2 DEF isEqualModuloMap
<1>6. QED
  BY <1>1, <1>4, <1>5 DEF LookupDies

\* Match::operator[] is total on the placeholders the set was made of.
THEOREM LookupIsTotal == Spec => []LookupNeverDies
<1>1. QED
  BY TypeCorrect, MatchesExact, LookupStep, PTL

-----------------------------------------------------------------------------
(***************************************************************************)
(* Stage 1.                                                                *)
(***************************************************************************)
\* How many of the maps the placeholder at position p has been filled from.
FilledFrom(p) == IF p < ph THEN Len(access) ELSE IF p = ph THEN acc - 1 ELSE 0

LEMMA CandidatesInit == Init => CandidatesAreExact
<1> SUFFICES ASSUME Init, NEW p \in 1..n
             PROVE  Range(candidates[p]) = CandidatesFrom(p, FilledFrom(p))
  BY DEF CandidatesAreExact, FilledFrom
<1>1. Range(candidates[p]) = {}
  BY DEF Init, Range
<1>2. FilledFrom(p) = 0
  BY DEF Init, FilledFrom
<1>3. QED
  BY <1>1, <1>2 DEF CandidatesFrom

LEMMA CandidatesFill ==
  ASSUME TypeOK, CandidatesAreExact, FillFromAccess
  PROVE  CandidatesAreExact'
<1> DEFINE map == access[acc]
           payloads == ps.pattern[ph][map]
           found == [k \in 1..Len(payloads) |->
                       [payload |-> payloads[k], space |-> map]]
<1>1. /\ n \in Nat /\ Len(access) \in Nat
      /\ ph \in 1..n /\ acc \in 1..Len(access)
      /\ n' = n /\ ph' = ph /\ acc' = acc + 1
      /\ UNCHANGED <<ps, access>>
  BY LengthsAreNat DEF TypeOK, FillFromAccess, n, input
<1>2. candidates' = [candidates EXCEPT ![ph] = candidates[ph] \o found]
  BY DEF FillFromAccess
<1>3. \A p \in 1..n : \A k : CandidatesFrom(p, k)' = CandidatesFrom(p, k)
  BY <1>1 DEF CandidatesFrom
<1>4. map \in Space
  BY <1>1, ElementOfSeq DEF TypeOK
<1>5. found \in Seq(DimCandidate)
  BY <1>1, <1>4, FoundType DEF TypeOK
<1>6. Range(found) = {[payload |-> x, space |-> map] : x \in Range(payloads)}
  <2>1. payloads \in Seq(Payload)
    <3>1. ps.pattern \in Seq(Pattern) /\ ph \in 1..Len(ps.pattern)
      BY <1>1 DEF TypeOK, WellFormed, n
    <3>2. ps.pattern[ph] \in Pattern
      BY <3>1, ElementOfSeq
    <3>3. QED
      BY <1>4, <3>2 DEF Pattern
  <2>2. DOMAIN payloads = 1..Len(payloads)
    BY <2>1, LenProperties
  <2> HIDE DEF payloads
  <2>3. QED
    BY <2>2 DEF Range
<1> HIDE DEF found
<1>7. candidates[ph] \in Seq(DimCandidate)
  BY <1>1 DEF TypeOK
<1>8. Range(candidates[ph] \o found) = Range(candidates[ph]) \cup Range(found)
  BY <1>5, <1>7, RangeConcatenation
<1>9. CandidatesFrom(ph, acc) = CandidatesFrom(ph, acc - 1) \cup
        {[payload |-> x, space |-> map] : x \in Range(payloads)}
  BY <1>1 DEF CandidatesFrom
<1>10. ASSUME NEW p \in 1..n
       PROVE  Range(candidates'[p]) = CandidatesFrom(p, FilledFrom(p)')
  <2>1. Range(candidates[p]) = CandidatesFrom(p, FilledFrom(p))
    BY DEF CandidatesAreExact, FilledFrom
  <2>2. CASE p = ph
    <3>1. FilledFrom(p) = acc - 1 /\ FilledFrom(p)' = acc
      BY <1>1, <2>2 DEF FilledFrom
    <3>2. candidates'[p] = candidates[ph] \o found
      BY <1>1, <1>2, <2>2 DEF TypeOK
    <3>3. QED
      BY <1>6, <1>8, <1>9, <2>1, <2>2, <3>1, <3>2
  <2>3. CASE p # ph
    <3>1. FilledFrom(p)' = FilledFrom(p) /\ candidates'[p] = candidates[p]
      BY <1>1, <1>2, <2>3 DEF FilledFrom, TypeOK
    <3>2. QED
      BY <2>1, <3>1
  <2>4. QED
    BY <2>2, <2>3
<1>11. QED
  BY <1>1, <1>3, <1>10 DEF CandidatesAreExact, FilledFrom

LEMMA CandidatesStep ==
  TypeOK /\ CandidatesAreExact /\ [Next]_vars => CandidatesAreExact'
<1> SUFFICES ASSUME TypeOK, CandidatesAreExact, [Next]_vars
             PROVE  CandidatesAreExact'
  OBVIOUS
<1>1. CASE FillFromAccess
  BY <1>1, CandidatesFill
<1>2. CASE NextPlaceholder
  <2>1. \A p \in 1..n : FilledFrom(p)' = FilledFrom(p)
    BY <1>2, LengthsAreNat DEF TypeOK, NextPlaceholder, FilledFrom, input
  <2>2. QED
    BY <1>2, <2>1
       DEF NextPlaceholder, CandidatesAreExact, FilledFrom, CandidatesFrom, n, input
<1>3. CASE UNCHANGED <<input, filling>>
  BY <1>3 DEF CandidatesAreExact, CandidatesFrom, n, input, filling
<1>4. QED
  BY <1>1, <1>2, <1>3
     DEF Next, vars, EarlyExit, StartSearch, EnterCut, EnterFull, EnterPartial,
         TryCandidate, LoopEnds, ReturnToLoop, ReturnMatches, input, filling

\* Stage 1 collects the candidates of every placeholder in every map, each
\* tagged with the map it was found in, and nothing else.
THEOREM CandidatesExact == Spec => []CandidatesAreExact
<1>1. QED
  BY TypeInit, TypeStep, CandidatesInit, CandidatesStep, PTL DEF Spec

-----------------------------------------------------------------------------
(***************************************************************************)
(* The order of the matches.                                               *)
(***************************************************************************)
\* Where a match found earlier lies with respect to the running frame.
Passed(m) ==
  CASE pc = "fill" -> FALSE
    [] pc = "enter" -> After(combination, m)
    [] pc = "loop" -> \/ After(combination, m)
                      \/ StartsWith(m, combination) /\ m[Len(combination) + 1] < nxt
    [] pc = "leave" -> After(combination, m) \/ StartsWith(m, combination)
    [] pc = "done" -> TRUE

OrderInv == MatchesOrdered /\ \A i \in 1..Len(matches) : Passed(matches[i])

LEMMA NothingInFill ==
  ASSUME TypeOK, MatchesAreExact, pc = "fill"
  PROVE  Len(matches) = 0
<1>1. Range(matches) = {}
  BY DEF MatchesAreExact, Remaining
<1>2. Len(matches) \in Nat /\ DOMAIN matches = 1..Len(matches)
  BY LenProperties DEF TypeOK
<1>3. ASSUME Len(matches) # 0 PROVE FALSE
  <2>1. 1 \in DOMAIN matches
    BY <1>2, <1>3
  <2>2. matches[1] \in Range(matches)
    BY <2>1 DEF Range
  <2>3. QED
    BY <1>1, <2>2
<1>4. QED
  BY <1>3

LEMMA AppendIsAfter ==
  ASSUME NEW c \in Positions, NEW m \in Positions, NEW k \in Nat \ {0},
         Len(c) < Len(m),
         After(c, m) \/ (StartsWith(m, c) /\ m[Len(c) + 1] < k)
  PROVE  After(Append(c, k), m)
<1> DEFINE e == Append(c, k)
<1>1. /\ Len(c) \in Nat /\ Len(m) \in Nat
      /\ Len(e) = Len(c) + 1
      /\ e[Len(c) + 1] = k
      /\ \A p \in 1..Len(c) : e[p] = c[p]
      /\ \A p \in 1..Len(m) : m[p] \in Nat
  BY AppendProperties, LenProperties, ElementOfSeq DEF Positions
<1> HIDE DEF e
<1>2. CASE After(c, m)
  <2>1. PICK p \in 1..Len(m) : /\ p <= Len(c)
                               /\ \A q \in 1..(p - 1) : c[q] = m[q]
                               /\ c[p] > m[p]
    BY <1>2 DEF After
  <2>2. p <= Len(e) /\ e[p] > m[p] /\ \A q \in 1..(p - 1) : e[q] = m[q]
    BY <1>1, <2>1
  <2>3. QED
    BY <2>2 DEF After, e
<1>3. CASE StartsWith(m, c) /\ m[Len(c) + 1] < k
  <2>1. Len(c) + 1 \in 1..Len(m) /\ Len(c) + 1 <= Len(e)
    BY <1>1
  <2>2. e[Len(c) + 1] > m[Len(c) + 1]
    BY <1>1, <1>3
  <2>3. \A q \in 1..(Len(c) + 1 - 1) : e[q] = m[q]
    BY <1>1, <1>3 DEF StartsWith
  <2>4. QED
    BY <2>1, <2>2, <2>3 DEF After, e
<1>4. QED
  BY <1>2, <1>3

LEMMA FrontIsAfter ==
  ASSUME NEW c \in Positions, NEW m \in Positions, c # <<>>, Len(c) <= Len(m),
         After(c, m) \/ StartsWith(m, c)
  PROVE  \/ After(Front(c), m)
         \/ /\ StartsWith(m, Front(c))
            /\ m[Len(Front(c)) + 1] < Last(c) + 1
<1> DEFINE f == Front(c)
<1>1. /\ f \in Positions
      /\ Len(c) \in Nat \ {0}
      /\ Len(f) = Len(c) - 1
      /\ \A p \in 1..(Len(c) - 1) : f[p] = c[p]
      /\ Last(c) = c[Len(c)]
  BY FrontFacts DEF Positions
<1>2. /\ Len(m) \in Nat
      /\ \A p \in 1..Len(m) : m[p] \in Nat
      /\ \A p \in 1..Len(c) : c[p] \in Nat
  BY LenProperties, ElementOfSeq DEF Positions
<1> HIDE DEF f
<1>3. CASE After(c, m)
  <2>1. PICK p \in 1..Len(m) : /\ p <= Len(c)
                               /\ \A q \in 1..(p - 1) : c[q] = m[q]
                               /\ c[p] > m[p]
    BY <1>3 DEF After
  <2>2. CASE p < Len(c)
    <3>1. p <= Len(f) /\ f[p] > m[p] /\ \A q \in 1..(p - 1) : f[q] = m[q]
      BY <1>1, <1>2, <2>1, <2>2
    <3>2. QED
      BY <3>1 DEF After, f
  <2>3. CASE p = Len(c)
    <3>1. StartsWith(m, f)
      BY <1>1, <1>2, <2>1, <2>3 DEF StartsWith
    <3>2. m[Len(f) + 1] < Last(c) + 1
      BY <1>1, <1>2, <2>1, <2>3
    <3>3. QED
      BY <3>1, <3>2 DEF f
  <2>4. QED
    BY <1>1, <2>1, <2>2, <2>3
<1>4. CASE StartsWith(m, c)
  <2>1. StartsWith(m, f)
    BY <1>1, <1>2, <1>4 DEF StartsWith
  <2>2. m[Len(f) + 1] < Last(c) + 1
    BY <1>1, <1>2, <1>4 DEF StartsWith
  <2>3. QED
    BY <2>1, <2>2 DEF f
<1>5. QED
  BY <1>3, <1>4

LEMMA OrderKeeps ==
  ASSUME OrderInv, matches' = matches,
         \A i \in 1..Len(matches) : Passed(matches[i]) => Passed(matches[i])'
  PROVE  OrderInv'
BY DEF OrderInv, MatchesOrdered

LEMMA OrderStep ==
  TypeOK /\ MatchesAreExact /\ OrderInv /\ [Next]_vars => OrderInv'
<1> SUFFICES ASSUME TypeOK, MatchesAreExact, OrderInv, [Next]_vars
             PROVE  OrderInv'
  OBVIOUS
<1>1. n \in Nat /\ Len(matches) \in Nat /\ combination \in Positions
  BY LengthsAreNat, LenProperties DEF TypeOK, Positions
<1>2. ASSUME NEW i \in 1..Len(matches)
      PROVE  matches[i] \in Positions /\ Len(matches[i]) = n
  BY MatchIsFull, FullIsCombination DEF IsCombination
<1>3. CASE pc = "fill" /\ matches' = matches
  BY <1>3, NothingInFill, OrderKeeps
<1>4. CASE EnterCut
  BY <1>4, OrderKeeps DEF EnterCut, Passed
<1>5. CASE EnterFull
  <2>1. /\ Len(matches') = Len(matches) + 1
        /\ \A i \in 1..Len(matches) : matches'[i] = matches[i]
        /\ matches'[Len(matches) + 1] = combination
    BY <1>5, AppendProperties DEF EnterFull, TypeOK
  <2>2. \A i \in 1..Len(matches) : After(combination, matches[i])
    BY <1>5 DEF EnterFull, OrderInv, Passed
  <2>3. MatchesOrdered'
    <3> SUFFICES ASSUME NEW i \in 1..Len(matches'), NEW j \in 1..Len(matches'),
                        i < j
                 PROVE  After(matches'[j], matches'[i])
      BY DEF MatchesOrdered
    <3>1. CASE j \in 1..Len(matches)
      <4>1. i \in 1..Len(matches)
        BY <1>1, <3>1
      <4>2. QED
        BY <2>1, <3>1, <4>1 DEF OrderInv, MatchesOrdered
    <3>2. CASE j = Len(matches) + 1
      <4>1. i \in 1..Len(matches)
        BY <1>1, <2>1, <3>2
      <4>2. QED
        BY <2>1, <2>2, <3>2, <4>1
    <3>3. QED
      BY <1>1, <2>1, <3>1, <3>2
  <2>4. StartsWith(combination, combination)
    BY <1>1, LenProperties DEF StartsWith, Positions
  <2>5. ASSUME NEW i \in 1..Len(matches') PROVE Passed(matches[i])'
    <3>1. After(combination, matches'[i]) \/ StartsWith(matches'[i], combination)
      BY <1>1, <2>1, <2>2, <2>4
    <3>2. QED
      BY <1>5, <3>1 DEF EnterFull, Passed
  <2>6. QED
    BY <2>3, <2>5 DEF OrderInv
<1>6. CASE EnterPartial
  BY <1>6, OrderKeeps DEF EnterPartial, Passed
<1>7. CASE TryCandidate
  <2>1. nxt \in Nat \ {0} /\ Len(combination) < n
    BY <1>7 DEF TypeOK, TryCandidate
  <2>2. QED
    BY <1>1, <1>2, <1>7, <2>1, AppendIsAfter, OrderKeeps DEF TryCandidate, Passed
<1>8. CASE LoopEnds
  BY <1>8, OrderKeeps DEF LoopEnds, Passed
<1>9. CASE ReturnToLoop
  <2>1. Len(combination) <= n
    BY DEF TypeOK
  <2>2. QED
    BY <1>1, <1>2, <1>9, <2>1, FrontIsAfter, OrderKeeps DEF ReturnToLoop, Passed
<1>10. CASE ReturnMatches
  BY <1>10, OrderKeeps DEF ReturnMatches, Passed
<1>11. CASE UNCHANGED vars
  BY <1>11, OrderKeeps DEF vars, Passed
<1>12. QED
  BY <1>3, <1>4, <1>5, <1>6, <1>7, <1>8, <1>9, <1>10, <1>11
     DEF Next, FillFromAccess, NextPlaceholder, EarlyExit, StartSearch

\* The matches are returned in the order of the candidate lists and no match is
\* returned twice.
THEOREM MatchesInOrder == Spec => []MatchesOrdered
<1>1. Init => OrderInv
  BY EmptySeq DEF Init, OrderInv, MatchesOrdered
<1>2. OrderInv => MatchesOrdered
  BY DEF OrderInv
<1>3. QED
  BY <1>1, <1>2, TypeCorrect, MatchesExact, OrderStep, PTL DEF Spec

\* At every point of match the candidates, the matches and their order are exact.
THEOREM SearchExact == Spec => []SearchIsExact
<1>1. CandidatesAreExact /\ MatchesAreExact /\ MatchesOrdered => SearchIsExact
  BY DEF SearchIsExact
<1>2. QED
  BY <1>1, CandidatesExact, MatchesExact, MatchesInOrder, PTL

-----------------------------------------------------------------------------
(***************************************************************************)
(* The search implements its abstract specification.                       *)
(***************************************************************************)
LEMMA CandidateSets ==
  ASSUME TypeOK, NEW p \in 1..n
  PROVE  Enumeration!CandidateSet(access, ps, p) = CandidatesFrom(p, Len(access))
<1>1. DOMAIN access = 1..Len(access)
  BY LenProperties DEF TypeOK
<1> DEFINE E(m) == {[payload |-> x, space |-> m] : x \in Range(ps.pattern[p][m])}
<1>2. \A f : Enumeration!Range(f) = Range(f)
  BY DEF Enumeration!Range, Range
<1>3. Enumeration!CandidateSet(access, ps, p) = UNION {E(m) : m \in Range(access)}
  BY <1>2 DEF Enumeration!CandidateSet
<1>4. CandidatesFrom(p, Len(access)) = UNION {E(access[a]) : a \in 1..Len(access)}
  BY DEF CandidatesFrom
<1> HIDE DEF E
<1>5. Range(access) = {access[a] : a \in 1..Len(access)}
  BY <1>1 DEF Range
<1>6. QED
  BY <1>3, <1>4, <1>5

\* The abstract specification has its own instance of the filter.
LEMMA SameFilter ==
  ASSUME NEW f, NEW set
  PROVE  /\ Enumeration!isSuitableCombination(f, set)
              <=> isSuitableCombination(f, set)
         /\ Enumeration!size(set) = size(set)
BY DEF isSuitableCombination, hasNoDuplicateAssignments, groupsAreProperlyFormed,
       groupFoldsAreValid, areFoldsValid, isEqualModuloMap, Assigned, findSpace,
       extractArrayId, compareGroupsBelongToSameArray, size,
       Enumeration!isSuitableCombination, Enumeration!hasNoDuplicateAssignments,
       Enumeration!groupsAreProperlyFormed, Enumeration!groupFoldsAreValid,
       Enumeration!areFoldsValid, Enumeration!isEqualModuloMap,
       Enumeration!Assigned, Enumeration!findSpace, Enumeration!extractArrayId,
       Enumeration!compareGroupsBelongToSameArray, Enumeration!size

LEMMA AnswerOfSearch ==
  ASSUME TypeOK, MatchesAreExact, CandidatesAreExact, ReturnMatches
  PROVE  {Chosen(m) : m \in Range(matches)}
           = Enumeration!SuitableAssignments(access, ps)
<1> DEFINE CS(p) == Enumeration!CandidateSet(access, ps, p)
<1>1. n \in Nat
  BY LengthsAreNat DEF TypeOK
<1>2. \A p \in 1..n : Range(candidates[p]) = CS(p)
  <2>1. ph = n + 1
    BY DEF TypeOK, ReturnMatches
  <2>2. \A p \in 1..n : Range(candidates[p]) = CandidatesFrom(p, Len(access))
    BY <1>1, <2>1 DEF CandidatesAreExact
  <2>3. QED
    BY <2>2, CandidateSets
<1>3. Range(matches) = {c \in FullCombinations : Suitable(c)}
  <2>1. \A c : ~After(c, combination)
    BY EmptySeq DEF After, ReturnMatches
  <2>2. QED
    BY <2>1 DEF MatchesAreExact, Remaining, ReturnMatches
<1> HIDE DEF CS
<1>4. Enumeration!SuitableAssignments(access, ps) =
        {f \in [1..n -> UNION {CS(p) : p \in 1..n}] :
           /\ \A p \in 1..n : f[p] \in CS(p)
           /\ isSuitableCombination(f, ps)}
  BY SameFilter DEF Enumeration!SuitableAssignments, CS, n
<1>5. ASSUME NEW c \in FullCombinations, Suitable(c)
      PROVE  Chosen(c) \in Enumeration!SuitableAssignments(access, ps)
  <2>1. /\ Len(c) = n
        /\ \A p \in 1..n : c[p] \in DOMAIN candidates[p]
    BY FullIsCombination DEF FullCombinations
  <2>2. \A p \in 1..n : candidates[p][c[p]] \in CS(p)
    BY <1>2, <2>1 DEF Range
  <2>3. Chosen(c) = [p \in 1..n |-> candidates[p][c[p]]]
    BY <2>1 DEF Chosen
  <2>4. isSuitableCombination(Chosen(c), ps)
    BY <1>5 DEF Suitable
  <2>5. Chosen(c) \in [1..n -> UNION {CS(p) : p \in 1..n}]
    BY <2>2, <2>3
  <2>6. \A p \in 1..n : Chosen(c)[p] \in CS(p)
    BY <2>2, <2>3
  <2>7. QED
    BY <1>4, <2>4, <2>5, <2>6
<1>6. ASSUME NEW f \in Enumeration!SuitableAssignments(access, ps)
      PROVE  \E c \in FullCombinations : Suitable(c) /\ Chosen(c) = f
  <2>1. /\ f \in [1..n -> UNION {CS(p) : p \in 1..n}]
        /\ \A p \in 1..n : f[p] \in CS(p)
        /\ isSuitableCombination(f, ps)
    BY <1>4
  <2> DEFINE c == [p \in 1..n |->
                     CHOOSE k \in DOMAIN candidates[p] : candidates[p][k] = f[p]]
  <2>2. \A p \in 1..n : \E k \in DOMAIN candidates[p] : candidates[p][k] = f[p]
    BY <1>2, <2>1 DEF Range
  <2>3. \A p \in 1..n : c[p] \in DOMAIN candidates[p] /\ candidates[p][c[p]] = f[p]
    BY <2>2
  <2>4. DOMAIN c = 1..n /\ c = [p \in 1..n |-> c[p]]
    OBVIOUS
  <2> HIDE DEF c
  <2>5. c \in FullCombinations
    BY <2>3, <2>4 DEF FullCombinations
  <2>6. Len(c) = n
    BY <2>5, FullIsCombination
  <2>7. Chosen(c) = f
    BY <2>1, <2>3, <2>6 DEF Chosen
  <2>8. QED
    BY <2>1, <2>5, <2>7 DEF Suitable
<1>7. QED
  BY <1>3, <1>5, <1>6

LEMMA AnswerOfEarlyExit ==
  ASSUME TypeOK, MatchesAreExact, CandidatesAreExact, EarlyExit
  PROVE  {Chosen(m) : m \in Range(matches)}
           = Enumeration!SuitableAssignments(access, ps)
<1>1. Range(matches) = {}
  BY DEF MatchesAreExact, Remaining, EarlyExit
<1>2. /\ ph \in 1..n /\ acc - 1 = Len(access)
  BY LengthsAreNat DEF TypeOK, EarlyExit
<1>3. Range(candidates[ph]) = {}
  BY DEF EarlyExit, Range
<1>4. Range(candidates[ph]) = CandidatesFrom(ph, Len(access))
  BY <1>2 DEF CandidatesAreExact
<1>5. Enumeration!CandidateSet(access, ps, ph) = {}
  BY <1>2, <1>3, <1>4, CandidateSets
<1>6. Enumeration!SuitableAssignments(access, ps) = {}
  BY <1>2, <1>5, SameFilter DEF Enumeration!SuitableAssignments, n
<1>7. QED
  BY <1>1, <1>6

\* match(access, ps) returns the set of all full suitable assignments of
\* candidates to placeholders, whichever way it returns.
THEOREM MatchIsEnumeration == Spec => ReturnsAllSuitable
<1>1. Init => Enumeration!Init
  BY DEF Init, Enumeration!Init
<1>2. TypeOK /\ MatchesAreExact /\ CandidatesAreExact /\ [Next]_vars
        => [Enumeration!Return]_<<access, ps, pc = "done",
              IF pc = "done" THEN {Chosen(m) : m \in Range(matches)} ELSE {}>>
  <2> SUFFICES ASSUME TypeOK, MatchesAreExact, CandidatesAreExact, [Next]_vars
               PROVE  [Enumeration!Return]_<<access, ps, pc = "done",
                        IF pc = "done" THEN {Chosen(m) : m \in Range(matches)}
                                       ELSE {}>>
    OBVIOUS
  <2>1. CASE ReturnMatches \/ EarlyExit
    <3>1. /\ pc # "done" /\ pc' = "done"
          /\ UNCHANGED <<access, ps, candidates, matches>>
      BY <2>1 DEF ReturnMatches, EarlyExit, input, filling
    <3>2. {Chosen(m) : m \in Range(matches)}
            = Enumeration!SuitableAssignments(access, ps)
      BY <2>1, AnswerOfSearch, AnswerOfEarlyExit
    <3>3. {Chosen(m) : m \in Range(matches)}' = {Chosen(m) : m \in Range(matches)}
      BY <3>1 DEF Chosen
    <3>4. QED
      BY <3>1, <3>2, <3>3 DEF Enumeration!Return
  <2>2. CASE pc # "done" /\ pc' # "done" /\ UNCHANGED input
    BY <2>2 DEF input
  <2>3. CASE UNCHANGED vars
    BY <2>3 DEF vars, Chosen
  <2>4. QED
    BY <2>1, <2>2, <2>3
       DEF Next, FillFromAccess, NextPlaceholder, StartSearch, EnterCut, EnterFull,
           EnterPartial, TryCandidate, LoopEnds, ReturnToLoop
<1>3. QED
  BY <1>1, <1>2, TypeCorrect, MatchesExact, CandidatesExact, PTL
     DEF Spec, ReturnsAllSuitable, Enumeration!Spec

=============================================================================
