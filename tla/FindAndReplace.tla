---------------------------- MODULE FindAndReplace ----------------------------
(***************************************************************************)
(* findAndReplace(umap, replace(pattern, replacement), ...): match all the *)
(* patterns at once, then transform every matched map by the replacement   *)
(* of the pattern it matches (src/islutils/access-inl.h).                  *)
(*                                                                         *)
(* match is the function that AccessMatcher implements, in one step.  The  *)
(* matches, and the maps of one match, are handled in any order: the code  *)
(* goes through them in an order that depends on that of isl's hash table. *)
(***************************************************************************)
EXTENDS Suitability, FiniteSets

CONSTANTS
  Umaps,  \* the union maps: sequences of distinct maps
  Calls   \* the lists of replacements: records [ps, replacement], where
          \* ps is allOf of the patterns and replacement[i] the ids of the
          \* placeholders of the i-th replacement

ASSUME UmapsAssumption == Umaps \subseteq Seq(Space)

\* access(...) takes at least one placeholder, so that every pattern is one
\* group of consecutive positions, and allOf has no other placeholders than
\* those of the patterns; a set of PlaceholderLists has no array folds.
ASSUME CallsAssumption ==
  \A call \in Calls :
    /\ WellFormed(call.ps)
    /\ ~call.ps.grouped
    /\ call.replacement \in Seq(Seq(Nat))
    /\ Len(call.replacement) = Len(call.ps.groups)
    /\ \A i \in 1..Len(call.ps.groups) :
         \E a, b \in 1..size(call.ps) : a <= b /\ call.ps.groups[i] = a..b
    /\ UNION Range(call.ps.groups) = 1..size(call.ps)

VARIABLES
  umap,         \* the union map (a parameter)
  call,         \* the replacements (the other parameters)
  pc,           \* "call", "matches": the loop over the matches, "maps": the
                \* loop over toTransform, "done", "died"
  matches,      \* the matches not handled yet
  m,            \* the match being handled
  toTransform,  \* its maps not handled yet
  original,     \* originalMaps
  transformed   \* transformedMaps: [map, by, payloads], with the replacement
                \* a map was transformed by and the payloads it was given

vars == <<umap, call, pc, matches, m, toTransform, original, transformed>>
input == <<umap, call>>

NoMatch == <<>>
NoReplacement == 0

ps == call.ps
Replacements == 1..Len(call.replacement)

Init ==
  /\ umap \in Umaps
  /\ call \in Calls
  /\ pc = "call"
  /\ matches = {}
  /\ m = NoMatch
  /\ toTransform = {}
  /\ original = {}
  /\ transformed = <<>>

-----------------------------------------------------------------------------

\* setupFolds: the first position with the same id.
FoldsOf(ids) ==
  [p \in 1..Len(ids) |->
     CHOOSE q \in 1..p : /\ ids[q] = ids[p]
                         /\ \A r \in 1..(q - 1) : ids[r] # ids[p]]

\* allOf(rep.pattern), for the i-th replacement.
Alone(i) ==
  LET first == CHOOSE p \in ps.groups[i] : \A q \in ps.groups[i] : p <= q
      last == CHOOSE p \in ps.groups[i] : \A q \in ps.groups[i] : q <= p
      ids == SubSeq(ps.id, first, last)
  IN  [pattern |-> SubSeq(ps.pattern, first, last), id |-> ids,
       folds |-> FoldsOf(ids), groups |-> <<1..Len(ids)>>,
       grouped |-> FALSE, groupFolds |-> <<>>]

\* The replacements whose pattern matches the map when it is alone.
MatchingAlone(map) ==
  {i \in Replacements : SuitableAssignments(<<map>>, Alone(i)) # {}}

PositionsOf(id) == {p \in 1..size(ps) : ps.id[p] = id}

\* A bug: whole candidates instead of their spaces.
CandidatesOf(match) == {match[p] : p \in 1..size(ps)}

\* The candidate spaces of all placeholders of a match.
SpacesOf(match) == {match[p].space : p \in 1..size(ps)}

\* Match::operator[](id).payload(), where id has a position.
PayloadOf(match, id) ==
  match[CHOOSE p \in PositionsOf(id) : \A q \in PositionsOf(id) : p <= q].payload

\* Some placeholder of the i-th replacement is not in the set.
LookupDies(i) ==
  \E k \in 1..Len(call.replacement[i]) : PositionsOf(call.replacement[i][k]) = {}

-----------------------------------------------------------------------------

\* The maps are copied to originalMaps, and matched against the whole set.
CallMatch ==
  /\ pc = "call"
  /\ matches' = SuitableAssignments(umap, ps)
  /\ original' = Range(umap)
  /\ pc' = "matches"
  /\ UNCHANGED <<input, m, toTransform, transformed>>

\* A bug: the maps of only the first placeholder are transformed.
NextMatchFirstMap ==
  /\ pc = "matches"
  /\ \E match \in matches :
       /\ m' = match
       /\ matches' = matches \ {match}
       /\ toTransform' = {match[1].space}
  /\ pc' = "maps"
  /\ UNCHANGED <<input, original, transformed>>

NextMatch ==
  /\ pc = "matches"
  /\ \E match \in matches :
       /\ m' = match
       /\ matches' = matches \ {match}
       /\ toTransform' = SpacesOf(match)
  /\ pc' = "maps"
  /\ UNCHANGED <<input, original, transformed>>

\* "could not find the matched map": it was in another match as well.
MapNotFound ==
  /\ pc = "maps"
  /\ \E map \in toTransform : map \notin original
  /\ pc' = "died"
  /\ UNCHANGED <<input, matches, m, toTransform, original, transformed>>

\* What transformOneMap makes of a map that at most one pattern matches; its
\* result stays null when none does.
Transformed(map) ==
  IF MatchingAlone(map) = {}
  THEN [map |-> map, by |-> NoReplacement, payloads |-> <<>>]
  ELSE LET i == CHOOSE i \in MatchingAlone(map) : TRUE
       IN  [map |-> map, by |-> i,
            payloads |-> [k \in 1..Len(call.replacement[i]) |->
                            PayloadOf(m, call.replacement[i][k])]]

\* A bug: the map is not erased from originalMaps.
KeepsOriginal ==
  /\ pc = "maps"
  /\ \E map \in toTransform :
       /\ map \in original
       /\ Cardinality(MatchingAlone(map)) <= 1
       /\ \A i \in MatchingAlone(map) : ~LookupDies(i)
       /\ toTransform' = toTransform \ {map}
       /\ transformed' = Append(transformed, Transformed(map))
  /\ UNCHANGED <<input, pc, matches, m, original>>

TransformMap ==
  /\ pc = "maps"
  /\ \E map \in toTransform :
       /\ map \in original
       /\ Cardinality(MatchingAlone(map)) <= 1
       /\ \A i \in MatchingAlone(map) : ~LookupDies(i)
       /\ toTransform' = toTransform \ {map}
       /\ original' = original \ {map}
       /\ transformed' = Append(transformed, Transformed(map))
  /\ UNCHANGED <<input, pc, matches, m>>

\* "one relation matched multiple patterns", or operator[] of the match dies of
\* "no match for the placeholder"; the map is erased first.
TransformDies ==
  /\ pc = "maps"
  /\ \E map \in toTransform :
       /\ map \in original
       /\ \/ Cardinality(MatchingAlone(map)) > 1
          \/ \E i \in MatchingAlone(map) : LookupDies(i)
       /\ original' = original \ {map}
  /\ pc' = "died"
  /\ UNCHANGED <<input, matches, m, toTransform, transformed>>

MatchDone ==
  /\ pc = "maps"
  /\ toTransform = {}
  /\ pc' = "matches"
  /\ UNCHANGED <<input, matches, m, toTransform, original, transformed>>

\* A bug: the loop ends after the first match.
FinishesEarly ==
  /\ pc = "matches"
  /\ transformed # <<>>
  /\ pc' = "done"
  /\ UNCHANGED <<input, matches, m, toTransform, original, transformed>>

\* The originals that are left and the transformed maps are united.
Finish ==
  /\ pc = "matches"
  /\ matches = {}
  /\ pc' = "done"
  /\ UNCHANGED <<input, matches, m, toTransform, original, transformed>>

Next ==
  \/ CallMatch
  \/ NextMatch
  \/ MapNotFound
  \/ TransformMap
  \/ TransformDies
  \/ MatchDone
  \/ Finish

Spec == Init /\ [][Next]_vars

-----------------------------------------------------------------------------
(***************************************************************************)
(* Properties.                                                             *)
(***************************************************************************)

\* The types of the state.
TypeOK ==
  /\ umap \in Seq(Space)
  /\ WellFormed(ps)
  /\ pc \in {"call", "matches", "maps", "done", "died"}
  /\ matches \subseteq SuitableAssignments(umap, ps)
  /\ m = NoMatch \/ m \in SuitableAssignments(umap, ps)
  /\ toTransform \subseteq Range(umap)
  /\ original \subseteq Range(umap)
  /\ transformed \in Seq([map : Range(umap),
                          by : Replacements \cup {NoReplacement},
                          payloads : Seq(Payload)])

\* "if not found, the map was deleted already meaning there was an attempt of
\* double transformation": once the maps are copied, and until a call dies,
\* every map of the union map is still to be copied to the result or has been
\* transformed, and not both, and none is transformed twice.
MapsAreConserved ==
  pc \in {"matches", "maps", "done"} =>
    /\ \A e, f \in 1..Len(transformed) :
         e # f => transformed[e].map # transformed[f].map
    /\ {transformed[e].map : e \in 1..Len(transformed)} = Range(umap) \ original

\* The map of the i-th group of a match, and what is to be done with it.
MapOf(match, i) == match[CHOOSE p \in ps.groups[i] : TRUE].space

Expected(match, i) ==
  [map |-> MapOf(match, i), by |-> i,
   payloads |-> [k \in 1..Len(call.replacement[i]) |->
                   PayloadOf(match, call.replacement[i][k])]]

AllMatches == SuitableAssignments(umap, ps)

\* No map is in two matches, and every matched map matches only the pattern of
\* its own group, whose replacement has only placeholders of the set.
Separable ==
  /\ \A m1, m2 \in AllMatches : m1 # m2 => SpacesOf(m1) \cap SpacesOf(m2) = {}
  /\ \A match \in AllMatches : \A i \in Replacements :
       /\ MatchingAlone(MapOf(match, i)) = {i}
       /\ ~LookupDies(i)

\* Whether a call dies is a property of its arguments, whatever the order isl
\* visits the maps in: it dies exactly when a transformation would be done
\* twice, be ambiguous, or use a placeholder that is not matched.
OutcomeIsDetermined ==
  /\ pc = "done" => Separable
  /\ pc = "died" => ~Separable

\* "if we match here something that we would not have matched with the whole
\* set, it's bad!": matching a map alone against the patterns one by one finds
\* the pattern that the whole set matched it by.  A call that returns has
\* transformed every matched map and no other, by the replacement of the group
\* it was matched by, with the payloads of that match.
ResultIsExact ==
  pc = "done" =>
    {transformed[e] : e \in 1..Len(transformed)}
      = {Expected(match, i) : match \in AllMatches, i \in Replacements}

=============================================================================
