------------------------- MODULE FindAndReplace_proofs -------------------------
(***************************************************************************)
(* Proofs about FindAndReplace, for every union map, any number of         *)
(* replacements and every payload comparison.                              *)
(***************************************************************************)
EXTENDS FindAndReplace, SequenceTheorems, FiniteSetTheorems,
        WellFoundedInduction, TLAPS

Inputs == umap \in Umaps /\ call \in Calls

LEMMA CallFacts ==
  ASSUME Inputs
  PROVE  /\ WellFormed(ps) /\ ~ps.grouped /\ size(ps) \in Nat
         /\ call.replacement \in Seq(Seq(Nat))
         /\ Len(ps.groups) \in Nat /\ Replacements = 1..Len(ps.groups)
         /\ \A i \in Replacements : \E a, b \in 1..size(ps) :
              a <= b /\ ps.groups[i] = a..b
         /\ \A p \in 1..size(ps) : \E i \in Replacements : p \in ps.groups[i]
<1>1. /\ WellFormed(ps) /\ ~ps.grouped /\ call.replacement \in Seq(Seq(Nat))
      /\ Len(call.replacement) = Len(ps.groups)
      /\ \A i \in 1..Len(ps.groups) : \E a, b \in 1..size(ps) :
           a <= b /\ ps.groups[i] = a..b
      /\ UNION Range(ps.groups) = 1..size(ps)
  BY CallsAssumption DEF Inputs, ps
<1>2. size(ps) \in Nat /\ ps.groups \in Seq(SUBSET (1..size(ps)))
  BY <1>1, LenProperties DEF WellFormed, size
<1>3. Len(ps.groups) \in Nat /\ DOMAIN ps.groups = 1..Len(ps.groups)
  BY <1>2, LenProperties
<1>4. \A p \in 1..size(ps) : \E i \in 1..Len(ps.groups) : p \in ps.groups[i]
  BY <1>1, <1>3 DEF Range
<1>5. QED
  BY <1>1, <1>2, <1>3, <1>4 DEF Replacements

\* A match has a candidate of a map of the union map at every position.
LEMMA MatchFacts ==
  ASSUME Inputs, NEW match \in AllMatches
  PROVE  /\ match \in Seq(DimCandidate) /\ Len(match) = size(ps)
         /\ \A p \in 1..size(ps) :
              /\ match[p] = [payload |-> match[p].payload, space |-> match[p].space]
              /\ match[p].space \in Range(umap) /\ match[p].space \in Space
              /\ match[p].payload \in Payload
              /\ match[p].payload \in Range(ps.pattern[p][match[p].space])
         /\ isSuitableCombination(match, ps)
<1>1. WellFormed(ps) /\ size(ps) \in Nat /\ umap \in Seq(Space)
  BY CallFacts, UmapsAssumption DEF Inputs
<1>2. /\ match \in [1..size(ps) -> UNION {CandidateSet(umap, ps, p) : p \in 1..size(ps)}]
      /\ \A p \in 1..size(ps) : match[p] \in CandidateSet(umap, ps, p)
      /\ isSuitableCombination(match, ps)
  BY DEF AllMatches, SuitableAssignments
<1>3. ASSUME NEW p \in 1..size(ps)
      PROVE  /\ match[p] = [payload |-> match[p].payload, space |-> match[p].space]
             /\ match[p].space \in Range(umap) /\ match[p].space \in Space
             /\ match[p].payload \in Payload
             /\ match[p].payload \in Range(ps.pattern[p][match[p].space])
  <2>1. PICK s \in Range(umap) :
          match[p] \in {[payload |-> z, space |-> s] : z \in Range(ps.pattern[p][s])}
    BY <1>2 DEF CandidateSet
  <2>2. PICK z \in Range(ps.pattern[p][s]) : match[p] = [payload |-> z, space |-> s]
    BY <2>1
  <2>3. s \in Space
    BY <1>1, <2>1, LenProperties, ElementOfSeq DEF Range
  <2>4. ps.pattern[p] \in Pattern
    BY <1>1, ElementOfSeq DEF WellFormed, size
  <2>5. ps.pattern[p][s] \in Seq(Payload)
    BY <2>3, <2>4 DEF Pattern
  <2>6. z \in Payload
    BY <2>2, <2>5, LenProperties, ElementOfSeq DEF Range
  <2>7. match[p].payload = z /\ match[p].space = s
    BY <2>2
  <2>8. QED
    BY <2>1, <2>2, <2>3, <2>6, <2>7
<1>4. \A p \in 1..size(ps) : match[p] \in DimCandidate
  <2>1. \A z \in Payload, s \in Space : [payload |-> z, space |-> s] \in DimCandidate
    BY DEF DimCandidate
  <2>2. QED
    BY <1>3, <2>1
<1>5. match \in [1..size(ps) -> DimCandidate]
  BY <1>2, <1>4
<1>6. match \in Seq(DimCandidate)
  BY <1>1, <1>5, SeqDef
<1>7. Len(match) = size(ps)
  BY <1>1, <1>5, <1>6, LenProperties
<1>8. QED
  BY <1>2, <1>3, <1>6, <1>7

LEMMA GroupFacts ==
  ASSUME Inputs, NEW i \in Replacements
  PROVE  /\ ps.groups[i] # {}
         /\ ps.groups[i] \subseteq 1..size(ps)
<1>1. PICK a \in 1..size(ps), b \in 1..size(ps) : a <= b /\ ps.groups[i] = a..b
  BY CallFacts
<1>2. size(ps) \in Nat
  BY CallFacts
<1>3. QED
  BY <1>1, <1>2

\* The maps of a match are those of its groups, one for each.
LEMMA MapsOfMatch ==
  ASSUME Inputs, NEW match \in AllMatches
  PROVE  /\ \A i \in Replacements : \A p \in ps.groups[i] :
              match[p].space = MapOf(match, i)
         /\ \A i, j \in Replacements :
              MapOf(match, i) = MapOf(match, j) => i = j
         /\ \A i \in Replacements : MapOf(match, i) \in SpacesOf(match)
         /\ \A map \in SpacesOf(match) :
              \E i \in Replacements : map = MapOf(match, i)
         /\ SpacesOf(match) \subseteq Range(umap)
<1>1. /\ Len(match) = size(ps)
      /\ groupsAreProperlyFormed(match, ps)
      /\ \A p \in 1..size(ps) : match[p].space \in Range(umap)
  BY MatchFacts DEF isSuitableCombination
<1>2. /\ size(ps) \in Nat /\ Replacements = 1..Len(ps.groups)
      /\ \A p \in 1..size(ps) : \E i \in Replacements : p \in ps.groups[i]
  BY CallFacts
<1>3. \A i \in Replacements : Assigned(ps.groups[i], match) = ps.groups[i]
  BY <1>1, <1>2, GroupFacts DEF Assigned
<1>4. \A i, j \in Replacements : \A p \in ps.groups[i], q \in ps.groups[j] :
        (match[p].space = match[q].space) <=> (i = j)
  BY <1>1, <1>2, <1>3 DEF groupsAreProperlyFormed
<1>5. \A i \in Replacements : \E q \in ps.groups[i] : MapOf(match, i) = match[q].space
  <2>1. ASSUME NEW i \in Replacements
        PROVE  (CHOOSE p \in ps.groups[i] : TRUE) \in ps.groups[i]
    BY GroupFacts
  <2>2. QED
    BY <2>1 DEF MapOf
<1>6. \A i \in Replacements : \A p \in ps.groups[i] : match[p].space = MapOf(match, i)
  BY <1>4, <1>5
<1>7. \A i, j \in Replacements : MapOf(match, i) = MapOf(match, j) => i = j
  BY <1>4, <1>5
<1>8. \A i \in Replacements : MapOf(match, i) \in SpacesOf(match)
  BY <1>5, GroupFacts DEF SpacesOf
<1>9. ASSUME NEW map \in SpacesOf(match)
      PROVE  \E i \in Replacements : map = MapOf(match, i)
  <2>1. PICK p \in 1..size(ps) : map = match[p].space
    BY DEF SpacesOf
  <2>2. QED
    BY <1>2, <1>6, <2>1
<1>10. SpacesOf(match) \subseteq Range(umap)
  BY <1>1 DEF SpacesOf
<1>11. QED
  BY <1>6, <1>7, <1>8, <1>9, <1>10

-----------------------------------------------------------------------------
(***************************************************************************)
(* A matched map, when it is alone, is matched by the pattern of its group.*)
(***************************************************************************)
LEMMA Least ==
  ASSUME NEW T \in SUBSET Nat, T # {}
  PROVE  \E k \in T : \A j \in T : k <= j
<1> DEFINE R == OpToRel(<, Nat)
<1>1. IsWellFoundedOn(R, Nat)
  BY NatLessThanWellFounded
<1>2. \A j, k \in Nat : <<j, k>> \in R <=> j < k
  BY DEF OpToRel
<1> HIDE DEF R
<1>3. PICK k \in T : \A j \in T : ~(<<j, k>> \in R)
  BY <1>1, WFMin
<1>4. ASSUME NEW j \in T PROVE k <= j
  <2>1. j \in Nat /\ k \in Nat
    OBVIOUS
  <2>2. ~(j < k)
    BY <1>2, <1>3, <2>1
  <2>3. QED
    BY <2>1, <2>2
<1>5. QED
  BY <1>4

\* setupFolds, as the proofs about PlaceholderSets have it: two positions have
\* one fold exactly if they have one id.
LEMMA FoldsAreIds ==
  ASSUME NEW ids \in Seq(Nat)
  PROVE  /\ FoldsOf(ids) \in Seq(Nat) /\ Len(FoldsOf(ids)) = Len(ids)
         /\ \A p, q \in 1..Len(ids) :
              FoldsOf(ids)[p] = FoldsOf(ids)[q] <=> ids[p] = ids[q]
<1> DEFINE IsFold(p, q) == ids[q] = ids[p] /\ \A r \in 1..(q - 1) : ids[r] # ids[p]
           fold(p) == CHOOSE q \in 1..p : IsFold(p, q)
<1>1. Len(ids) \in Nat
  BY LenProperties
<1>2. ASSUME NEW p \in 1..Len(ids)
      PROVE  fold(p) \in 1..p /\ IsFold(p, fold(p))
  <2> DEFINE T == {q \in 1..p : ids[q] = ids[p]}
  <2>1. p \in T /\ T \in SUBSET Nat
    BY <1>1
  <2>2. PICK q \in T : \A j \in T : q <= j
    BY <2>1, Least
  <2>3. q \in 1..p /\ IsFold(p, q)
    <3>1. ASSUME NEW r \in 1..(q - 1), ids[r] = ids[p] PROVE FALSE
      <4>1. r \in T
        BY <3>1, <1>1
      <4>2. QED
        BY <1>1, <2>2, <4>1
    <3>2. QED
      BY <3>1
  <2> HIDE DEF IsFold
  <2>4. QED
    BY <2>3
<1>3. FoldsOf(ids) = [p \in 1..Len(ids) |-> fold(p)]
  BY DEF FoldsOf
<1> HIDE DEF fold
<1>4. FoldsOf(ids) \in [1..Len(ids) -> Nat]
  BY <1>1, <1>2, <1>3
<1>5. FoldsOf(ids) \in Seq(Nat) /\ Len(FoldsOf(ids)) = Len(ids)
  BY <1>1, <1>4, SeqDef, LenProperties
<1>6. ASSUME NEW p \in 1..Len(ids), NEW q \in 1..Len(ids)
      PROVE  fold(p) = fold(q) <=> ids[p] = ids[q]
  <2>1. fold(p) \in 1..p /\ fold(q) \in 1..q
    BY <1>2
  <2>4. /\ ids[fold(p)] = ids[p] /\ \A r \in 1..(fold(p) - 1) : ids[r] # ids[p]
        /\ ids[fold(q)] = ids[q] /\ \A r \in 1..(fold(q) - 1) : ids[r] # ids[q]
    BY <1>2
  <2>2. ASSUME ids[p] = ids[q] PROVE ~(fold(p) < fold(q)) /\ ~(fold(q) < fold(p))
    <3>1. fold(p) \notin 1..(fold(q) - 1) /\ fold(q) \notin 1..(fold(p) - 1)
      BY <2>2, <2>4
    <3>2. QED
      BY <1>1, <2>1, <3>1
  <2>3. ASSUME fold(p) = fold(q) PROVE ids[p] = ids[q]
    BY <2>3, <2>4
  <2>5. QED
    BY <1>1, <2>1, <2>2, <2>3
<1>7. QED
  BY <1>3, <1>5, <1>6

LEMMA AloneFacts ==
  ASSUME Inputs, NEW i \in Replacements, NEW a \in 1..size(ps), NEW b \in 1..size(ps),
         a <= b, ps.groups[i] = a..b
  PROVE  /\ Alone(i).pattern \in Seq(Pattern) /\ size(Alone(i)) = b - a + 1
         /\ \A k \in 1..(b - a + 1) : Alone(i).pattern[k] = ps.pattern[a + k - 1]
         /\ \A k, j \in 1..(b - a + 1) :
              Alone(i).folds[k] = Alone(i).folds[j] <=> ps.id[a + k - 1] = ps.id[a + j - 1]
         /\ Alone(i).groups = <<1..(b - a + 1)>> /\ ~Alone(i).grouped
<1> DEFINE first == CHOOSE p \in ps.groups[i] : \A q \in ps.groups[i] : p <= q
           last == CHOOSE p \in ps.groups[i] : \A q \in ps.groups[i] : q <= p
           ids == SubSeq(ps.id, a, b)
<1>1. /\ size(ps) \in Nat /\ ps.pattern \in Seq(Pattern) /\ ps.id \in Seq(Nat)
      /\ Len(ps.id) = size(ps) /\ Len(ps.pattern) = size(ps)
  BY CallFacts DEF WellFormed, size
<1>2. first = a /\ last = b
  <2>1. first \in ps.groups[i] /\ \A q \in ps.groups[i] : first <= q
    <3>1. a \in ps.groups[i] /\ \A q \in ps.groups[i] : a <= q
      BY <1>1
    <3>2. QED
      BY <3>1
  <2>2. last \in ps.groups[i] /\ \A q \in ps.groups[i] : q <= last
    <3>1. b \in ps.groups[i] /\ \A q \in ps.groups[i] : q <= b
      BY <1>1
    <3>2. QED
      BY <3>1
  <2> HIDE DEF first, last
  <2>3. first \in a..b /\ last \in a..b /\ a \in ps.groups[i] /\ b \in ps.groups[i]
    BY <1>1, <2>1, <2>2
  <2>4. first <= a /\ b <= last
    BY <2>1, <2>2, <2>3
  <2>5. QED
    BY <1>1, <2>3, <2>4
<1> HIDE DEF first, last
<1>3. Alone(i) = [pattern |-> SubSeq(ps.pattern, a, b), id |-> ids,
                  folds |-> FoldsOf(ids), groups |-> <<1..Len(ids)>>,
                  grouped |-> FALSE, groupFolds |-> <<>>]
  BY <1>2 DEF Alone, first, last
<1>4. /\ ids \in Seq(Nat) /\ Len(ids) = b - a + 1
      /\ \A k \in 1..(b - a + 1) : ids[k] = ps.id[a + k - 1]
  <2>1. \A k \in a..b : ps.id[k] \in Nat
    BY <1>1, ElementOfSeq
  <2>2. /\ ids \in Seq(Nat) /\ Len(ids) = IF a <= b THEN b - a + 1 ELSE 0
        /\ \A k \in 1..(b - a + 1) : ids[k] = ps.id[a + k - 1]
    <3>1. a \in Int /\ b \in Int
      BY <1>1
    <3>2. QED
      BY ONLY <2>1, <3>1, SubSeqProperties
  <2>3. QED
    BY <2>2
<1>5. /\ SubSeq(ps.pattern, a, b) \in Seq(Pattern)
      /\ Len(SubSeq(ps.pattern, a, b)) = b - a + 1
      /\ \A k \in 1..(b - a + 1) : SubSeq(ps.pattern, a, b)[k] = ps.pattern[a + k - 1]
  <2>1. \A k \in a..b : ps.pattern[k] \in Pattern
    BY <1>1, ElementOfSeq
  <2> DEFINE part == SubSeq(ps.pattern, a, b)
  <2>2. /\ part \in Seq(Pattern) /\ Len(part) = IF a <= b THEN b - a + 1 ELSE 0
        /\ \A k \in 1..(b - a + 1) : part[k] = ps.pattern[a + k - 1]
    <3>1. a \in Int /\ b \in Int
      BY <1>1
    <3>2. QED
      BY ONLY <2>1, <3>1, SubSeqProperties
  <2>3. QED
    BY <2>2
<1> HIDE DEF ids
<1>6. \A k, j \in 1..(b - a + 1) : FoldsOf(ids)[k] = FoldsOf(ids)[j] <=> ids[k] = ids[j]
  <2>1. \A k, j \in 1..Len(ids) : FoldsOf(ids)[k] = FoldsOf(ids)[j] <=> ids[k] = ids[j]
    BY <1>4, FoldsAreIds
  <2>2. QED
    BY ONLY <1>4, <2>1
<1>7. /\ Alone(i).pattern = SubSeq(ps.pattern, a, b) /\ Alone(i).folds = FoldsOf(ids)
      /\ Alone(i).groups = <<1..Len(ids)>> /\ ~Alone(i).grouped
  BY <1>3
<1>8. size(Alone(i)) = b - a + 1
  BY <1>5, <1>7 DEF size
<1>9. \A k, j \in 1..(b - a + 1) :
        Alone(i).folds[k] = Alone(i).folds[j] <=> ps.id[a + k - 1] = ps.id[a + j - 1]
  <2> SUFFICES ASSUME NEW k \in 1..(b - a + 1), NEW j \in 1..(b - a + 1)
               PROVE  Alone(i).folds[k] = Alone(i).folds[j]
                        <=> ps.id[a + k - 1] = ps.id[a + j - 1]
    OBVIOUS
  <2>1. ids[k] = ps.id[a + k - 1] /\ ids[j] = ps.id[a + j - 1]
    BY <1>4
  <2>2. Alone(i).folds[k] = Alone(i).folds[j] <=> ids[k] = ids[j]
    BY <1>6, <1>7
  <2>3. QED
    BY ONLY <2>1, <2>2
<1>10. QED
  BY <1>4, <1>5, <1>7, <1>8, <1>9

\* "If we match here something that we would not have matched with the whole set,
\* it's bad": the other way round, nothing that was matched is missed.
LEMMA AloneIsMatched ==
  ASSUME Inputs, NEW match \in AllMatches, NEW i \in Replacements
  PROVE  i \in MatchingAlone(MapOf(match, i))
<1>1. PICK a \in 1..size(ps), b \in 1..size(ps) : a <= b /\ ps.groups[i] = a..b
  BY CallFacts
<1> DEFINE map == MapOf(match, i)
           l == b - a + 1
           part == [k \in 1..l |-> match[a + k - 1]]
<1>2. /\ WellFormed(ps) /\ size(ps) \in Nat
      /\ l \in Nat /\ l >= 1
      /\ \A k \in 1..l : a + k - 1 \in 1..size(ps) /\ a + k - 1 \in ps.groups[i]
  BY <1>1, CallFacts
<1>3. /\ Alone(i).pattern \in Seq(Pattern) /\ size(Alone(i)) = l
      /\ \A k \in 1..l : Alone(i).pattern[k] = ps.pattern[a + k - 1]
      /\ \A k, j \in 1..l :
           Alone(i).folds[k] = Alone(i).folds[j] <=> ps.id[a + k - 1] = ps.id[a + j - 1]
      /\ Alone(i).groups = <<1..l>> /\ ~Alone(i).grouped
  BY <1>1, AloneFacts
<1> HIDE DEF l
<1>4. /\ match \in Seq(DimCandidate) /\ Len(match) = size(ps)
      /\ isSuitableCombination(match, ps)
      /\ \A p \in 1..size(ps) :
           /\ match[p] = [payload |-> match[p].payload, space |-> match[p].space]
           /\ match[p].payload \in Range(ps.pattern[p][match[p].space])
  BY MatchFacts
<1>5. \A k \in 1..l : match[a + k - 1].space = map
  BY <1>2, MapsOfMatch
<1> HIDE DEF map
<1>6. Range(<<map>>) = {map}
  BY DEF Range
<1>7. ASSUME NEW k \in 1..l
      PROVE  part[k] \in CandidateSet(<<map>>, Alone(i), k)
  <2>1. CandidateSet(<<map>>, Alone(i), k)
          = {[payload |-> z, space |-> map] : z \in Range(ps.pattern[a + k - 1][map])}
    BY <1>3, <1>6 DEF CandidateSet
  <2>2. /\ part[k] = [payload |-> match[a + k - 1].payload, space |-> map]
        /\ match[a + k - 1].payload \in Range(ps.pattern[a + k - 1][map])
    BY <1>2, <1>4, <1>5
  <2>3. QED
    BY <2>1, <2>2
<1>8. part \in [1..l -> UNION {CandidateSet(<<map>>, Alone(i), k) : k \in 1..l}]
  BY <1>7
<1>9. Len(part) = l /\ \A k \in 1..l : part[k] = match[a + k - 1]
  <2> DEFINE S == UNION {CandidateSet(<<map>>, Alone(i), k) : k \in 1..l}
  <2>1. part \in [1..l -> S]
    BY <1>8
  <2> HIDE DEF S, part
  <2>2. part \in Seq(S) /\ DOMAIN part = 1..l
    BY <1>2, <2>1, SeqDef
  <2>3. Len(part) = l
    BY <1>2, <2>2, LenProperties
  <2>4. QED
    BY <2>3 DEF part
<1> HIDE DEF part
<1>10. hasNoDuplicateAssignments(part, Alone(i))
  <2>1. hasNoDuplicateAssignments(match, ps)
    BY <1>4 DEF isSuitableCombination
  <2>2. ASSUME NEW k \in 1..l, NEW j \in 1..l, k < j
        PROVE  IF Alone(i).folds[k] = Alone(i).folds[j]
               THEN isEqualModuloMap(part[k], part[j])
               ELSE ~isEqualModuloMap(part[k], part[j])
    <3>1. /\ a + k - 1 \in 1..size(ps) /\ a + j - 1 \in 1..size(ps)
          /\ a + k - 1 < a + j - 1
      BY <1>2, <2>2
    <3>2. IF ps.folds[a + k - 1] = ps.folds[a + j - 1]
          THEN isEqualModuloMap(match[a + k - 1], match[a + j - 1])
          ELSE ~isEqualModuloMap(match[a + k - 1], match[a + j - 1])
      BY <1>4, <2>1, <3>1 DEF hasNoDuplicateAssignments, areFoldsValid
    <3>3. ps.folds[a + k - 1] = ps.folds[a + j - 1] <=> ps.id[a + k - 1] = ps.id[a + j - 1]
      BY <1>2, <3>1 DEF WellFormed
    <3>4. QED
      BY <1>3, <1>9, <3>2, <3>3
  <2>3. QED
    BY <1>9, <2>2 DEF hasNoDuplicateAssignments, areFoldsValid
<1>11. groupsAreProperlyFormed(part, Alone(i))
  <2>1. Len(<<1..l>>) = 1 /\ <<1..l>>[1] = 1..l
    OBVIOUS
  <2>2. Assigned(1..l, part) = 1..l
    BY <1>2, <1>9 DEF Assigned
  <2>3. \A p, q \in 1..l : part[p].space = part[q].space
    BY <1>5, <1>9
  <2>4. /\ Len(Alone(i).groups) = 1 /\ Alone(i).groups[1] = 1..l
        /\ \A g \in 1..Len(Alone(i).groups) : g = 1
    BY <1>3, <2>1
  <2>5. ASSUME NEW g \in 1..Len(Alone(i).groups), NEW h \in 1..Len(Alone(i).groups),
               NEW p \in Assigned(Alone(i).groups[g], part),
               NEW q \in Assigned(Alone(i).groups[h], part)
        PROVE  (part[p].space = part[q].space) <=> (g = h)
    <3>1. g = 1 /\ h = 1
      BY <2>4
    <3>2. p \in 1..l /\ q \in 1..l
      BY <2>2, <2>4, <3>1
    <3>3. QED
      BY <2>3, <3>1, <3>2
  <2>6. QED
    BY <2>5 DEF groupsAreProperlyFormed
<1>12. isSuitableCombination(part, Alone(i))
  BY <1>3, <1>10, <1>11 DEF isSuitableCombination
<1>13. part \in SuitableAssignments(<<map>>, Alone(i))
  BY <1>3, <1>7, <1>8, <1>12 DEF SuitableAssignments
<1>14. QED
  BY <1>13 DEF MatchingAlone, map

-----------------------------------------------------------------------------
(***************************************************************************)
(* Types.                                                                  *)
(***************************************************************************)
Entry == [map : Range(umap), by : Replacements \cup {NoReplacement},
          payloads : Seq(Payload)]

\* Where findAndReplace stands says what it has in hand.
Place ==
  /\ Inputs
  /\ pc = "maps" => m \in AllMatches \ matches /\ toTransform \subseteq SpacesOf(m)
  /\ pc = "done" => matches = {}
  /\ pc = "call" => transformed = <<>>

\* What depends on the parameters only.
LEMMA SameInput ==
  ASSUME UNCHANGED input
  PROVE  /\ ps' = ps /\ Replacements' = Replacements /\ AllMatches' = AllMatches
         /\ Entry' = Entry
         /\ \A x, i : MapOf(x, i)' = MapOf(x, i)
         /\ \A x, i : Expected(x, i)' = Expected(x, i)
         /\ \A x : SpacesOf(x)' = SpacesOf(x)
         /\ \A i : LookupDies(i)' <=> LookupDies(i)
         /\ \A x : MatchingAlone(x)' = MatchingAlone(x)
<1>1. umap' = umap /\ call' = call /\ ps' = ps
  BY DEF input, ps
<1>2. Replacements' = Replacements /\ AllMatches' = AllMatches
  BY <1>1 DEF Replacements, AllMatches
<1>3. /\ \A x, i : MapOf(x, i)' = MapOf(x, i)
      /\ \A x : SpacesOf(x)' = SpacesOf(x)
  BY <1>1 DEF MapOf, SpacesOf
<1>4. \A id : PositionsOf(id)' = PositionsOf(id)
  BY <1>1 DEF PositionsOf
<1>5. \A x, id : PayloadOf(x, id)' = PayloadOf(x, id)
  BY <1>1 DEF PayloadOf, PositionsOf
<1>6. \A x, i : Expected(x, i)' = Expected(x, i)
  BY <1>1 DEF Expected, MapOf, PayloadOf, PositionsOf
<1>7. \A i : LookupDies(i)' <=> LookupDies(i)
  BY <1>1 DEF LookupDies, PositionsOf
<1>8. \A x : MatchingAlone(x)' = MatchingAlone(x)
  BY <1>1 DEF MatchingAlone, Replacements, Alone
<1>9. QED
  BY <1>1, <1>2, <1>3, <1>6, <1>7, <1>8 DEF Entry

LEMMA TypeInit == Init => TypeOK /\ Place
<1> SUFFICES ASSUME Init PROVE TypeOK /\ Place
  OBVIOUS
<1>1. Inputs /\ umap \in Seq(Space)
  BY UmapsAssumption DEF Init, Inputs
<1>2. transformed \in Seq(Entry)
  BY EmptySeq DEF Init
<1>3. QED
  BY <1>1, <1>2, CallFacts DEF Init, TypeOK, Place, Entry

\* A placeholder of the set has a payload in a match.
LEMMA PayloadType ==
  ASSUME Inputs, NEW match \in AllMatches, NEW id, PositionsOf(id) # {}
  PROVE  PayloadOf(match, id) \in Payload
<1> DEFINE P == PositionsOf(id)
           first == CHOOSE p \in P : \A q \in P : p <= q
<1>1. P \in SUBSET Nat /\ P \subseteq 1..size(ps)
  <2>1. size(ps) \in Nat /\ P \subseteq 1..size(ps)
    BY CallFacts DEF PositionsOf
  <2>2. QED
    BY <2>1
<1>2. first \in P
  <2>1. \E p \in P : \A q \in P : p <= q
    BY <1>1, Least
  <2>2. QED
    BY <2>1
<1> HIDE DEF first
<1>3. match[first].payload \in Payload
  BY <1>1, <1>2, MatchFacts
<1>4. QED
  BY <1>3 DEF PayloadOf, first

LEMMA TransformedType ==
  ASSUME Inputs, m \in AllMatches, NEW map \in Range(umap),
         \A i \in MatchingAlone(map) : ~LookupDies(i)
  PROVE  Transformed(map) \in Entry
<1>1. CASE MatchingAlone(map) = {}
  <2>1. <<>> \in Seq(Payload)
    BY EmptySeq
  <2>2. QED
    BY <1>1, <2>1 DEF Transformed, Entry
<1>2. CASE MatchingAlone(map) # {}
  <2> DEFINE i == CHOOSE i \in MatchingAlone(map) : TRUE
             r == call.replacement[i]
             payloads == [k \in 1..Len(r) |-> PayloadOf(m, r[k])]
  <2>1. i \in MatchingAlone(map) /\ i \in Replacements
    BY <1>2 DEF MatchingAlone
  <2>2. Transformed(map) = [map |-> map, by |-> i, payloads |-> payloads]
    BY <1>2 DEF Transformed
  <2> HIDE DEF i
  <2>3. r \in Seq(Nat)
    BY <2>1, CallFacts, ElementOfSeq DEF Replacements
  <2>4. Len(r) \in Nat
    BY <2>3, LenProperties
  <2>5. \A k \in 1..Len(r) : PayloadOf(m, r[k]) \in Payload
    BY <2>1, PayloadType DEF LookupDies
  <2>6. payloads \in [1..Len(r) -> Payload]
    BY <2>5
  <2> HIDE DEF r, payloads
  <2>7. payloads \in Seq(Payload)
    BY <2>4, <2>6, SeqDef
  <2>8. QED
    BY <2>1, <2>2, <2>7 DEF Entry
<1>3. QED
  BY <1>1, <1>2

LEMMA TypeStep == TypeOK /\ Place /\ [Next]_vars => TypeOK' /\ Place'
<1> SUFFICES ASSUME TypeOK, Place, [Next]_vars PROVE TypeOK' /\ Place'
  OBVIOUS
<1>1. /\ UNCHANGED input /\ Inputs /\ transformed \in Seq(Entry)
      /\ umap' = umap /\ call' = call
  <2>1. UNCHANGED input
    BY DEF Next, CallMatch, NextMatch, MapNotFound, TransformMap, TransformDies,
           MatchDone, Finish, vars, input
  <2>2. QED
    BY <2>1 DEF Place, TypeOK, Entry, input
<1>2. /\ ps' = ps /\ Replacements' = Replacements /\ AllMatches' = AllMatches
      /\ Entry' = Entry /\ \A x : SpacesOf(x)' = SpacesOf(x)
  BY <1>1, SameInput
<1>3. /\ AllMatches = SuitableAssignments(umap, ps) /\ WellFormed(ps)' /\ Inputs'
      /\ (umap \in Seq(Space))'
  BY <1>1, <1>2 DEF AllMatches, TypeOK, Inputs
<1>4. /\ TypeOK' <=> /\ pc' \in {"call", "matches", "maps", "done", "died"}
                     /\ matches' \subseteq AllMatches
                     /\ m' = NoMatch \/ m' \in AllMatches
                     /\ toTransform' \subseteq Range(umap)
                     /\ original' \subseteq Range(umap)
                     /\ transformed' \in Seq(Entry)
  BY <1>1, <1>2, <1>3 DEF TypeOK, Entry
<1>5. /\ matches \subseteq AllMatches /\ (m = NoMatch \/ m \in AllMatches)
      /\ toTransform \subseteq Range(umap) /\ original \subseteq Range(umap)
      /\ pc \in {"call", "matches", "maps", "done", "died"}
  BY <1>3 DEF TypeOK
<1>6. CASE CallMatch
  <2>1. TypeOK'
    BY <1>1, <1>3, <1>4, <1>5, <1>6 DEF CallMatch
  <2>2. Place'
    BY <1>3, <1>6 DEF CallMatch, Place
  <2>3. QED
    BY <2>1, <2>2
<1>7. CASE NextMatch
  <2>1. PICK match \in matches : /\ m' = match /\ matches' = matches \ {match}
                                 /\ toTransform' = SpacesOf(match)
    BY <1>7 DEF NextMatch
  <2>2. SpacesOf(match) \subseteq Range(umap)
    BY <1>1, <1>5, <2>1, MapsOfMatch
  <2>3. TypeOK'
    BY <1>1, <1>4, <1>5, <1>7, <2>1, <2>2 DEF NextMatch
  <2>4. Place'
    BY <1>2, <1>3, <1>5, <1>7, <2>1 DEF NextMatch, Place
  <2>5. QED
    BY <2>3, <2>4
<1>8. CASE TransformMap
  <2>1. PICK map \in toTransform : /\ \A i \in MatchingAlone(map) : ~LookupDies(i)
                                   /\ toTransform' = toTransform \ {map}
                                   /\ original' = original \ {map}
                                   /\ transformed' = Append(transformed, Transformed(map))
    BY <1>8 DEF TransformMap
  <2>2. m \in AllMatches /\ toTransform \subseteq SpacesOf(m) /\ pc = "maps"
    BY <1>8 DEF TransformMap, Place
  <2>3. Transformed(map) \in Entry
    BY <1>1, <1>5, <2>1, <2>2, TransformedType
  <2>4. transformed' \in Seq(Entry)
    BY <1>1, <2>1, <2>3, AppendProperties
  <2>5. TypeOK'
    BY <1>4, <1>5, <1>8, <2>1, <2>4 DEF TransformMap
  <2>6. Place'
    BY <1>2, <1>3, <1>8, <2>1, <2>2 DEF TransformMap, Place
  <2>7. QED
    BY <2>5, <2>6
<1>9. CASE MapNotFound \/ TransformDies \/ MatchDone \/ Finish \/ UNCHANGED vars
  <2>1. TypeOK'
    BY <1>1, <1>4, <1>5, <1>9 DEF MapNotFound, TransformDies, MatchDone, Finish, vars
  <2>2. Place'
    BY <1>2, <1>3, <1>9 DEF MapNotFound, TransformDies, MatchDone, Finish, vars, Place
  <2>3. QED
    BY <2>1, <2>2
<1>10. QED
  BY <1>6, <1>7, <1>8, <1>9 DEF Next

\* The maps that findAndReplace has in hand are always maps of the union map,
\* and a transformed map has payloads of a match.
THEOREM TypeCorrect == Spec => []TypeOK
<1>1. QED
  BY TypeInit, TypeStep, PTL DEF Spec

-----------------------------------------------------------------------------
(***************************************************************************)
(* The maps of the handled matches, and of the one in hand without those   *)
(* still in toTransform, have been transformed; each of them belongs to    *)
(* one group of one match and matches the pattern of that group only.      *)
(***************************************************************************)
IsTaken(match, i) ==
  /\ match \in AllMatches \ matches
  /\ i \in Replacements
  /\ pc = "maps" /\ match = m => MapOf(match, i) \notin toTransform

Separated(match, i) ==
  /\ MatchingAlone(MapOf(match, i)) = {i}
  /\ ~LookupDies(i)
  /\ \A other \in AllMatches, j \in Replacements :
       IsTaken(other, j) /\ MapOf(other, j) = MapOf(match, i)
         => other = match /\ j = i

Work ==
  /\ \A map \in Range(umap) :
       map \notin original <=>
         \E match \in AllMatches, i \in Replacements :
           IsTaken(match, i) /\ map = MapOf(match, i)
  /\ \A match \in AllMatches, i \in Replacements :
       IsTaken(match, i) => Separated(match, i)
  /\ \A e \in 1..Len(transformed) :
       \E match \in AllMatches, i \in Replacements :
         IsTaken(match, i) /\ transformed[e] = Expected(match, i)
  /\ \A match \in AllMatches, i \in Replacements :
       IsTaken(match, i) =>
         \E e \in 1..Len(transformed) : transformed[e] = Expected(match, i)
  /\ \A e, f \in 1..Len(transformed) :
       e # f => transformed[e].map # transformed[f].map

WorkInv ==
  /\ pc \in {"matches", "maps", "done"} => Work
  /\ pc = "died" => ~Separable

LEMMA WorkKept ==
  ASSUME Work, UNCHANGED <<input, original, transformed>>,
         \A match \in AllMatches, i \in Replacements :
           IsTaken(match, i)' <=> IsTaken(match, i)
  PROVE  Work'
<1>1. /\ Replacements' = Replacements /\ AllMatches' = AllMatches /\ umap' = umap
      /\ \A x, i : MapOf(x, i)' = MapOf(x, i)
      /\ \A x, i : Expected(x, i)' = Expected(x, i)
      /\ \A i : LookupDies(i)' <=> LookupDies(i)
      /\ \A x : MatchingAlone(x)' = MatchingAlone(x)
  BY SameInput DEF input
<1>2. \A match \in AllMatches, i \in Replacements :
        Separated(match, i) => Separated(match, i)'
  <2>1. ASSUME NEW match \in AllMatches, NEW i \in Replacements, Separated(match, i)
        PROVE  Separated(match, i)'
    <3>1. MatchingAlone(MapOf(match, i))' = MatchingAlone(MapOf(match, i))
      BY <1>1
    <3>2. QED
      BY <1>1, <2>1, <3>1 DEF Separated
  <2>2. QED
    BY <2>1
<1>3. QED
  BY <1>1, <1>2 DEF Work

LEMMA WorkCallMatch ==
  ASSUME TypeOK, Place, CallMatch
  PROVE  Work'
<1>1. /\ matches' = AllMatches /\ original' = Range(umap) /\ transformed' = transformed
      /\ UNCHANGED input
  BY DEF CallMatch, AllMatches
<1>2. AllMatches' = AllMatches /\ umap' = umap
  BY <1>1, SameInput DEF input
<1>3. \A match, i : ~IsTaken(match, i)'
  BY <1>1, <1>2 DEF IsTaken
<1>4. transformed = <<>>
  BY DEF CallMatch, Place
<1>5. QED
  BY <1>1, <1>2, <1>3, <1>4 DEF Work

LEMMA WorkNextMatch ==
  ASSUME TypeOK, Place, Work, NextMatch
  PROVE  Work'
<1>1. PICK match \in matches : /\ m' = match /\ matches' = matches \ {match}
                               /\ toTransform' = SpacesOf(match)
  BY DEF NextMatch
<1>2. /\ UNCHANGED <<input, original, transformed>> /\ pc = "matches" /\ pc' = "maps"
      /\ Inputs /\ match \in AllMatches
  BY DEF NextMatch, Place, TypeOK, AllMatches
<1>3. \A i \in Replacements : MapOf(match, i) \in SpacesOf(match)
  BY <1>2, MapsOfMatch
<1>4. /\ AllMatches' = AllMatches /\ Replacements' = Replacements
      /\ \A x, i : MapOf(x, i)' = MapOf(x, i)
  BY <1>2, SameInput
<1>5. ASSUME NEW other \in AllMatches, NEW i \in Replacements
      PROVE  IsTaken(other, i)' <=> IsTaken(other, i)
  BY <1>1, <1>2, <1>3, <1>4 DEF IsTaken
<1>6. QED
  BY <1>2, <1>5, WorkKept

LEMMA OnlyOne ==
  ASSUME NEW T, IsFiniteSet(T), Cardinality(T) <= 1, NEW e \in T
  PROVE  T = {e}
<1>1. ASSUME NEW f \in T, f # e PROVE FALSE
  <2>1. {e} \cup {f} \in SUBSET T
    OBVIOUS
  <2>2. Cardinality({e}) = 1 /\ IsFiniteSet({e})
    BY FS_Singleton
  <2>3. Cardinality({e} \cup {f}) = 2
    BY <1>1, <2>2, FS_AddElement
  <2>4. Cardinality({e} \cup {f}) <= Cardinality(T)
    BY <2>1, FS_Subset
  <2>5. Cardinality(T) \in Nat
    BY FS_CardinalityType
  <2>6. QED
    BY <2>3, <2>4, <2>5
<1>2. QED
  BY <1>1

LEMMA WorkTransformMap ==
  ASSUME TypeOK, Place, Work, TransformMap
  PROVE  Work'
<1>1. PICK map \in toTransform : /\ map \in original
                                 /\ Cardinality(MatchingAlone(map)) <= 1
                                 /\ \A i \in MatchingAlone(map) : ~LookupDies(i)
                                 /\ toTransform' = toTransform \ {map}
                                 /\ original' = original \ {map}
                                 /\ transformed' = Append(transformed, Transformed(map))
  BY DEF TransformMap
<1>2. /\ Inputs /\ m \in AllMatches \ matches /\ toTransform \subseteq SpacesOf(m)
      /\ UNCHANGED <<input, pc, matches, m>> /\ pc = "maps" /\ map \in Range(umap)
  BY DEF TransformMap, Place, TypeOK
<1>3. PICK i0 \in Replacements : map = MapOf(m, i0)
  BY <1>1, <1>2, MapsOfMatch
<1>4. MatchingAlone(map) = {i0}
  <2>1. i0 \in MatchingAlone(map)
    BY <1>2, <1>3, AloneIsMatched
  <2>2. IsFiniteSet(Replacements)
    <3>1. Len(ps.groups) \in Int /\ 1 \in Int /\ Replacements = 1..Len(ps.groups)
      BY <1>2, CallFacts
    <3>2. QED
      BY <3>1, FS_Interval, Zenon
  <2>3. MatchingAlone(map) \in SUBSET Replacements
    BY DEF MatchingAlone
  <2>4. IsFiniteSet(MatchingAlone(map))
    BY <2>2, <2>3, FS_Subset
  <2>5. QED
    BY <1>1, <2>1, <2>4, OnlyOne
<1>5. Transformed(map) = Expected(m, i0)
  <2>1. (CHOOSE i \in MatchingAlone(map) : TRUE) = i0
    BY <1>4
  <2>2. QED
    BY <1>3, <1>4, <2>1 DEF Transformed, Expected
<1>6. /\ Replacements' = Replacements /\ AllMatches' = AllMatches /\ umap' = umap
      /\ \A x, i : MapOf(x, i)' = MapOf(x, i)
      /\ \A x, i : Expected(x, i)' = Expected(x, i)
      /\ \A i : LookupDies(i)' <=> LookupDies(i)
      /\ \A x : MatchingAlone(x)' = MatchingAlone(x)
  BY <1>2, SameInput DEF input
<1>7. ASSUME NEW match \in AllMatches, NEW i \in Replacements
      PROVE  IsTaken(match, i)' <=> IsTaken(match, i) \/ (match = m /\ i = i0)
  <2>1. MapOf(m, i) = map <=> i = i0
    BY <1>2, <1>3, MapsOfMatch
  <2>2. QED
    BY <1>1, <1>2, <1>6, <2>1 DEF IsTaken
<1>8. ~IsTaken(m, i0)
  BY <1>1, <1>2, <1>3 DEF IsTaken
<1>9. \A match \in AllMatches, i \in Replacements : IsTaken(match, i) => MapOf(match, i) # map
  BY <1>1, <1>2 DEF Work
<1>10. \A s \in Range(umap) :
         s \notin original' <=>
           \E match \in AllMatches, i \in Replacements :
             IsTaken(match, i)' /\ s = MapOf(match, i)
  <2>1. ASSUME NEW s \in Range(umap)
        PROVE  s \notin original' <=>
                 \E match \in AllMatches, i \in Replacements :
                   IsTaken(match, i)' /\ s = MapOf(match, i)
    <3>1. s \notin original' <=> s \notin original \/ s = map
      BY <1>1
    <3>2. s \notin original <=>
            \E match \in AllMatches, i \in Replacements :
              IsTaken(match, i) /\ s = MapOf(match, i)
      BY DEF Work
    <3>3. QED
      BY <1>2, <1>3, <1>7, <3>1, <3>2
  <2>2. QED
    BY <2>1
<1>11. ASSUME NEW match \in AllMatches, NEW i \in Replacements, IsTaken(match, i)'
       PROVE  Separated(match, i)'
  <2>1. /\ MatchingAlone(MapOf(match, i))' = MatchingAlone(MapOf(match, i))
        /\ LookupDies(i)' <=> LookupDies(i) /\ MapOf(match, i)' = MapOf(match, i)
    BY <1>6
  <2>2. /\ MatchingAlone(MapOf(match, i)) = {i} /\ ~LookupDies(i)
        /\ \A other \in AllMatches, j \in Replacements :
             IsTaken(other, j)' /\ MapOf(other, j) = MapOf(match, i)
               => other = match /\ j = i
    <3>1. CASE IsTaken(match, i)
      BY <1>3, <1>7, <1>9, <3>1 DEF Work, Separated
    <3>2. CASE match = m /\ i = i0
      BY <1>1, <1>3, <1>4, <1>7, <1>9, <3>2
    <3>3. QED
      BY <1>7, <1>11, <3>1, <3>2
  <2>3. QED
    BY <1>6, <2>1, <2>2 DEF Separated
<1> DEFINE k == Len(transformed)
<1>12. /\ k \in Nat /\ Len(transformed') = k + 1
       /\ \A e \in 1..k : transformed'[e] = transformed[e]
       /\ transformed'[k + 1] = Expected(m, i0)
  <2>1. transformed \in Seq(Entry)
    BY DEF TypeOK, Entry
  <2>2. Transformed(map) \in Entry
    BY <1>1, <1>2, TransformedType
  <2>3. QED
    BY <1>1, <1>5, <2>1, <2>2, AppendProperties, LenProperties
<1> HIDE DEF k
<1>13. ASSUME NEW e \in 1..(k + 1)
       PROVE  \E match \in AllMatches, i \in Replacements :
                IsTaken(match, i)' /\ transformed'[e] = Expected(match, i)
  <2>1. CASE e \in 1..k
    BY <1>7, <1>12, <2>1 DEF Work, k
  <2>2. CASE e = k + 1
    BY <1>2, <1>7, <1>12, <2>2
  <2>3. QED
    BY <1>12, <2>1, <2>2
<1>14. ASSUME NEW match \in AllMatches, NEW i \in Replacements, IsTaken(match, i)'
       PROVE  \E e \in 1..(k + 1) : transformed'[e] = Expected(match, i)
  <2>1. CASE IsTaken(match, i)
    BY <1>12, <2>1 DEF Work, k
  <2>2. CASE match = m /\ i = i0
    BY <1>12, <2>2
  <2>3. QED
    BY <1>7, <1>14, <2>1, <2>2
<1>15. \A e, f \in 1..(k + 1) : e # f => transformed'[e].map # transformed'[f].map
  <2>1. \A e \in 1..k : transformed[e].map # map
    <3>1. \A x, i : Expected(x, i).map = MapOf(x, i)
      BY DEF Expected
    <3>2. QED
      BY <1>9, <3>1 DEF Work, k
  <2>2. transformed'[k + 1].map = map
    BY <1>3, <1>12 DEF Expected
  <2>3. \A e, f \in 1..k : e # f => transformed[e].map # transformed[f].map
    BY DEF Work, k
  <2>4. QED
    BY <1>12, <2>1, <2>2, <2>3
<1>16. QED
  BY <1>6, <1>10, <1>11, <1>12, <1>13, <1>14, <1>15 DEF Work

\* A map that cannot be found was taken for another match.
LEMMA NotFoundIsShared ==
  ASSUME TypeOK, Place, Work, MapNotFound
  PROVE  ~Separable
<1>1. PICK map \in toTransform : map \notin original
  BY DEF MapNotFound
<1>2. /\ Inputs /\ m \in AllMatches \ matches /\ toTransform \subseteq SpacesOf(m)
      /\ pc = "maps" /\ map \in Range(umap)
  BY DEF MapNotFound, Place, TypeOK
<1>3. PICK other \in AllMatches, j \in Replacements : IsTaken(other, j) /\ map = MapOf(other, j)
  BY <1>1, <1>2 DEF Work
<1>4. other # m
  BY <1>1, <1>2, <1>3 DEF IsTaken
<1>5. map \in SpacesOf(m) /\ map \in SpacesOf(other)
  BY <1>1, <1>2, <1>3, MapsOfMatch
<1>6. QED
  BY <1>2, <1>4, <1>5 DEF Separable

LEMMA DeathIsAmbiguous ==
  ASSUME TypeOK, Place, TransformDies
  PROVE  ~Separable
<1>1. PICK map \in toTransform : \/ Cardinality(MatchingAlone(map)) > 1
                                 \/ \E i \in MatchingAlone(map) : LookupDies(i)
  BY DEF TransformDies
<1>2. Inputs /\ m \in AllMatches /\ toTransform \subseteq SpacesOf(m)
  BY DEF TransformDies, Place
<1>3. PICK i0 \in Replacements : map = MapOf(m, i0)
  BY <1>1, <1>2, MapsOfMatch
<1>4. ASSUME Separable PROVE FALSE
  <2>1. MatchingAlone(map) = {i0} /\ ~LookupDies(i0)
    BY <1>2, <1>3, <1>4 DEF Separable
  <2>2. Cardinality(MatchingAlone(map)) = 1
    BY <2>1, FS_Singleton
  <2>3. QED
    BY <1>1, <2>1, <2>2
<1>5. QED
  BY <1>4

LEMMA WorkStep == TypeOK /\ Place /\ WorkInv /\ [Next]_vars => WorkInv'
<1> SUFFICES ASSUME TypeOK, Place, WorkInv, [Next]_vars PROVE WorkInv'
  OBVIOUS
<1>1. CASE CallMatch
  BY <1>1, WorkCallMatch DEF WorkInv, CallMatch
<1>2. CASE NextMatch
  BY <1>2, WorkNextMatch DEF WorkInv, NextMatch
<1>3. CASE TransformMap
  BY <1>3, WorkTransformMap DEF WorkInv, TransformMap
<1>4. CASE MapNotFound \/ TransformDies
  <2>1. UNCHANGED input /\ pc' = "died" /\ ~Separable
    BY <1>4, NotFoundIsShared, DeathIsAmbiguous DEF MapNotFound, TransformDies, WorkInv
  <2>2. Separable' <=> Separable
    BY <2>1, SameInput DEF Separable
  <2>3. QED
    BY <2>1, <2>2 DEF WorkInv
<1>5. CASE MatchDone \/ Finish
  <2>1. /\ UNCHANGED <<input, matches, m, original, transformed, toTransform>>
        /\ pc \in {"matches", "maps"} /\ pc' \in {"matches", "done"}
        /\ pc = "maps" => toTransform = {}
    BY <1>5 DEF MatchDone, Finish
  <2>2. \A match \in AllMatches, i \in Replacements :
          IsTaken(match, i)' <=> IsTaken(match, i)
    BY <2>1, SameInput DEF IsTaken
  <2>3. QED
    BY <2>1, <2>2, WorkKept DEF WorkInv
<1>6. CASE UNCHANGED vars
  <2>1. UNCHANGED <<input, pc, matches, m, original, transformed, toTransform>>
    BY <1>6 DEF vars, input
  <2>2. \A match \in AllMatches, i \in Replacements :
          IsTaken(match, i)' <=> IsTaken(match, i)
    BY <2>1, SameInput DEF IsTaken
  <2>3. Separable' <=> Separable
    BY <2>1, SameInput DEF Separable
  <2>4. QED
    BY <2>1, <2>2, <2>3, WorkKept DEF WorkInv
<1>7. QED
  BY <1>1, <1>2, <1>3, <1>4, <1>5, <1>6 DEF Next

LEMMA Invariants == Spec => [](TypeOK /\ Place /\ WorkInv)
<1>1. Init => WorkInv
  BY DEF Init, WorkInv
<1>2. QED
  BY <1>1, TypeInit, TypeStep, WorkStep, PTL DEF Spec

\* No map is lost, kept besides its transformed copy, or transformed twice,
\* whatever order the matches and their maps come in.
THEOREM MapsConserved == Spec => []MapsAreConserved
<1>1. ASSUME TypeOK, Place, WorkInv PROVE MapsAreConserved
  <2> SUFFICES ASSUME pc \in {"matches", "maps", "done"}
               PROVE  /\ \A e, f \in 1..Len(transformed) :
                           e # f => transformed[e].map # transformed[f].map
                      /\ {transformed[e].map : e \in 1..Len(transformed)}
                           = Range(umap) \ original
    BY DEF MapsAreConserved
  <2>1. Work /\ Inputs
    BY <1>1 DEF WorkInv, Place
  <2>2. \A x, i : Expected(x, i).map = MapOf(x, i)
    BY DEF Expected
  <2>3. \A match \in AllMatches, i \in Replacements : MapOf(match, i) \in Range(umap)
    BY <2>1, MapsOfMatch
  <2>4. \A e \in 1..Len(transformed) : transformed[e].map \in Range(umap) \ original
    BY <2>1, <2>2, <2>3 DEF Work
  <2>5. \A map \in Range(umap) \ original :
          \E e \in 1..Len(transformed) : transformed[e].map = map
    BY <2>1, <2>2 DEF Work
  <2>6. {transformed[e].map : e \in 1..Len(transformed)} = Range(umap) \ original
    BY <2>4, <2>5
  <2>7. QED
    BY <2>1, <2>6 DEF Work
<1>2. QED
  BY <1>1, Invariants, PTL

\* A call dies exactly when its arguments make it ambiguous.
THEOREM OutcomeDetermined == Spec => []OutcomeIsDetermined
<1>1. ASSUME TypeOK, Place, WorkInv PROVE OutcomeIsDetermined
  <2>1. ASSUME pc = "done" PROVE Separable
    <3>1. Work /\ Inputs /\ matches = {}
      BY <1>1, <2>1 DEF WorkInv, Place
    <3>2. \A match \in AllMatches, i \in Replacements : Separated(match, i) /\ IsTaken(match, i)
      BY <2>1, <3>1 DEF Work, IsTaken
    <3>3. ASSUME NEW m1 \in AllMatches, NEW m2 \in AllMatches,
                 NEW map \in SpacesOf(m1) \cap SpacesOf(m2)
          PROVE  m1 = m2
      <4>1. PICK i \in Replacements : map = MapOf(m1, i)
        BY <3>1, MapsOfMatch
      <4>2. PICK j \in Replacements : map = MapOf(m2, j)
        BY <3>1, MapsOfMatch
      <4>3. QED
        BY <3>2, <4>1, <4>2 DEF Separated
    <3>4. QED
      BY <3>2, <3>3 DEF Separable, Separated
  <2>2. QED
    BY <1>1, <2>1 DEF OutcomeIsDetermined, WorkInv
<1>2. QED
  BY <1>1, Invariants, PTL

\* A call that returns has transformed every matched map and no other, by the
\* replacement of the group that matched it.
THEOREM ResultExact == Spec => []ResultIsExact
<1>1. ASSUME TypeOK, Place, WorkInv PROVE ResultIsExact
  <2> SUFFICES ASSUME pc = "done"
               PROVE  {transformed[e] : e \in 1..Len(transformed)}
                        = {Expected(match, i) : match \in AllMatches, i \in Replacements}
    BY DEF ResultIsExact
  <2>1. Work /\ matches = {}
    BY <1>1 DEF WorkInv, Place
  <2>2. \A match \in AllMatches, i \in Replacements : IsTaken(match, i)
    BY <2>1 DEF IsTaken
  <2>3. \A e \in 1..Len(transformed) : \E match \in AllMatches, i \in Replacements :
          transformed[e] = Expected(match, i)
    BY <2>1 DEF Work
  <2>4. \A match \in AllMatches, i \in Replacements :
          \E e \in 1..Len(transformed) : transformed[e] = Expected(match, i)
    BY <2>1, <2>2 DEF Work
  <2>5. {transformed[e] : e \in 1..Len(transformed)}
          \subseteq {Expected(match, i) : match \in AllMatches, i \in Replacements}
    BY <2>3
  <2>6. {Expected(match, i) : match \in AllMatches, i \in Replacements}
          \subseteq {transformed[e] : e \in 1..Len(transformed)}
    BY <2>4
  <2>7. QED
    BY <2>5, <2>6
<1>2. QED
  BY <1>1, Invariants, PTL

=============================================================================
