----------------------------- MODULE AccessMatcher -----------------------------
(***************************************************************************)
(* match(access, ps): fill the candidate lists of the placeholders, then   *)
(* enumerate the combinations of candidates by a branch-and-cut recursion  *)
(* (src/islutils/access-inl.h).                                            *)
(*                                                                         *)
(* The recursion's frames need no variable of their own: the combination   *)
(* of a frame is a prefix of the combination of the frames it called, and  *)
(* the loop of the caller stands at the last element of its callee's       *)
(* combination.  So "combination" is both the combination of the running   *)
(* frame, as positions in the candidate lists, and the call stack.         *)
(***************************************************************************)
EXTENDS Suitability, SequencesExt

CONSTANTS Accesses, PlaceholderSets

ASSUME AccessesAssumption == Accesses \subseteq Seq(Space)
ASSUME PlaceholderSetsAssumption == \A set \in PlaceholderSets : WellFormed(set)

VARIABLES
  access,       \* the maps of the union map, in the order isl visits them
  ps,           \* the placeholder set (the parameter, candidates_ apart)
  pc,           \* "fill": stage 1, "enter", "loop" and "leave": the body of
                \* recursivelyCheckCombinations, "done": match has returned
  ph,           \* stage 1: the placeholder whose candidates are collected
  acc,          \* stage 1: the map the candidates are collected from
  candidates,   \* the candidates_ of each placeholder
  combination,  \* partialCombination, as positions in candidates
  nxt,          \* the candidate the loop of the running frame tries next
  matches       \* the combinations found, in the order they were found

vars == <<access, ps, pc, ph, acc, candidates, combination, nxt, matches>>
input == <<access, ps>>
filling == <<ph, acc, candidates>>

n == size(ps)

\* The DimCandidates that a sequence of positions stands for.
Chosen(c) == [p \in 1..Len(c) |-> candidates[p][c[p]]]

Suitable(c) == isSuitableCombination(Chosen(c), ps)

Init ==
  /\ access \in Accesses
  /\ ps \in PlaceholderSets
  /\ pc = "fill"
  /\ ph = 1
  /\ acc = 1
  /\ candidates = [p \in 1..n |-> <<>>]
  /\ combination = <<>>
  /\ nxt = 1
  /\ matches = <<>>

-----------------------------------------------------------------------------
(***************************************************************************)
(* Stage 1.                                                                *)
(***************************************************************************)

\* The candidates of placeholder ph in map acc.
FillFromAccess ==
  /\ pc = "fill"
  /\ ph <= n
  /\ acc <= Len(access)
  /\ LET map == access[acc]
         payloads == ps.pattern[ph][map]
         found == [k \in 1..Len(payloads) |->
                     [payload |-> payloads[k], space |-> map]]
     IN  candidates' = [candidates EXCEPT ![ph] = @ \o found]
  /\ acc' = acc + 1
  /\ UNCHANGED <<input, pc, ph, combination, nxt, matches>>

\* All maps are done and there is a candidate.
NextPlaceholder ==
  /\ pc = "fill"
  /\ ph <= n
  /\ acc > Len(access)
  /\ candidates[ph] # <<>>
  /\ ph' = ph + 1
  /\ acc' = 1
  /\ UNCHANGED <<input, pc, candidates, combination, nxt, matches>>

\* A bug: the emptiness test is inside the loop over the maps.
ExitsAfterFirstMap ==
  /\ pc = "fill"
  /\ ph <= n
  /\ acc > 1
  /\ candidates[ph] = <<>>
  /\ pc' = "done"
  /\ UNCHANGED <<input, filling, combination, nxt, matches>>

\* "Early exit if one of the placeholders has no candidates."
EarlyExit ==
  /\ pc = "fill"
  /\ ph <= n
  /\ acc > Len(access)
  /\ candidates[ph] = <<>>
  /\ pc' = "done"
  /\ UNCHANGED <<input, filling, combination, nxt, matches>>

\* suitableCombinations: the outermost call, with the empty combination.
StartSearch ==
  /\ pc = "fill"
  /\ ph > n
  /\ pc' = "enter"
  /\ UNCHANGED <<input, filling, combination, nxt, matches>>

-----------------------------------------------------------------------------
(***************************************************************************)
(* Stage 2: one call of recursivelyCheckCombinations.                      *)
(***************************************************************************)

EnterCut ==
  /\ pc = "enter"
  /\ ~Suitable(combination)
  /\ pc' = "leave"
  /\ UNCHANGED <<input, filling, combination, nxt, matches>>

EnterFull ==
  /\ pc = "enter"
  /\ Suitable(combination)
  /\ Len(combination) = n
  /\ matches' = Append(matches, combination)
  /\ pc' = "leave"
  /\ UNCHANGED <<input, filling, combination, nxt>>

\* A bug: the loop starts before the first candidate.
StartsAtZero ==
  /\ pc = "enter"
  /\ Suitable(combination)
  /\ Len(combination) # n
  /\ nxt' = 0
  /\ pc' = "loop"
  /\ UNCHANGED <<input, filling, combination, matches>>

EnterPartial ==
  /\ pc = "enter"
  /\ Suitable(combination)
  /\ Len(combination) # n
  /\ nxt' = 1
  /\ pc' = "loop"
  /\ UNCHANGED <<input, filling, combination, matches>>

\* push_back and the recursive call.
TryCandidate ==
  /\ pc = "loop"
  /\ nxt <= Len(candidates[Len(combination) + 1])
  /\ combination' = Append(combination, nxt)
  /\ pc' = "enter"
  /\ UNCHANGED <<input, filling, nxt, matches>>

\* Two bugs: the loop may leave the last candidate out, or never ends.
LeavesLastOut ==
  /\ pc = "loop"
  /\ nxt >= Len(candidates[Len(combination) + 1])
  /\ pc' = "leave"
  /\ UNCHANGED <<input, filling, combination, nxt, matches>>

NeverEnds ==
  /\ pc = "loop"
  /\ nxt > Len(candidates[Len(combination) + 1]) + 1
  /\ pc' = "leave"
  /\ UNCHANGED <<input, filling, combination, nxt, matches>>

LoopEnds ==
  /\ pc = "loop"
  /\ nxt > Len(candidates[Len(combination) + 1])
  /\ pc' = "leave"
  /\ UNCHANGED <<input, filling, combination, nxt, matches>>

\* The callee returns to the caller's loop: pop_back, next iteration.
ReturnToLoop ==
  /\ pc = "leave"
  /\ combination # <<>>
  /\ nxt' = Last(combination) + 1
  /\ combination' = Front(combination)
  /\ pc' = "loop"
  /\ UNCHANGED <<input, filling, matches>>

\* The outermost call returns, and match with it.
ReturnMatches ==
  /\ pc = "leave"
  /\ combination = <<>>
  /\ pc' = "done"
  /\ UNCHANGED <<input, filling, combination, nxt, matches>>

Next ==
  \/ FillFromAccess
  \/ NextPlaceholder
  \/ EarlyExit
  \/ StartSearch
  \/ EnterCut
  \/ EnterFull
  \/ EnterPartial
  \/ TryCandidate
  \/ LoopEnds
  \/ ReturnToLoop
  \/ ReturnMatches

Spec == Init /\ [][Next]_vars

\* match is a function called and run to its end.
FairSpec == Spec /\ WF_vars(Next)

-----------------------------------------------------------------------------
(***************************************************************************)
(* Match::operator[] : the payload and the maps of a placeholder id in one *)
(* match.  It dies when the positions of the id have different payloads,   *)
(* and when the id has no position.                                        *)
(***************************************************************************)
PositionsOf(id) == {p \in 1..n : ps.id[p] = id}

Lookup(m, id) ==
  LET first == CHOOSE p \in PositionsOf(id) : \A q \in PositionsOf(id) : p <= q
  IN  [payload |-> Chosen(m)[first].payload,
       spaces  |-> {Chosen(m)[p].space : p \in PositionsOf(id)}]

LookupDies(m, id) ==
  \/ PositionsOf(id) = {}
  \/ \E p \in PositionsOf(id) :
       /\ \E q \in PositionsOf(id) : q < p
       /\ <<Lookup(m, id).payload, Chosen(m)[p].payload>> \notin PayloadEq

-----------------------------------------------------------------------------
(***************************************************************************)
(* Properties.                                                             *)
(***************************************************************************)

\* The state of match and of the recursion is well-typed; a combination only
\* holds positions that exist in the candidate lists (at() never throws).
TypeOK ==
  /\ access \in Seq(Space)
  /\ WellFormed(ps)
  /\ pc \in {"fill", "enter", "loop", "leave", "done"}
  /\ ph \in 1..(n + 1)
  /\ acc \in 1..(Len(access) + 1)
  /\ candidates \in [1..n -> Seq(DimCandidate)]
  /\ combination \in Seq(Nat \ {0})
  /\ Len(combination) <= n
  /\ \A p \in 1..Len(combination) : combination[p] <= Len(candidates[p])
  /\ nxt \in Nat \ {0}
  /\ matches \in Seq(Seq(Nat \ {0}))
  /\ pc = "fill" => combination = <<>>
  /\ pc \in {"enter", "loop", "leave"} => ph = n + 1
  /\ pc = "loop" => Len(combination) < n

\* The full combinations of candidates, suitable or not.
FullCombinations ==
  {c \in [1..n -> UNION {DOMAIN candidates[p] : p \in 1..n}] :
     \A p \in 1..n : c[p] \in DOMAIN candidates[p]}

\* c starts with d.
StartsWith(c, d) == Len(d) <= Len(c) /\ \A p \in 1..Len(d) : c[p] = d[p]

\* c and d differ, and c comes later in the order of the recursion.
After(c, d) ==
  \E p \in 1..Len(d) :
    /\ p <= Len(c)
    /\ \A q \in 1..(p - 1) : c[q] = d[q]
    /\ c[p] > d[p]

\* The full combinations the recursion has not come to yet.
Remaining(c) ==
  \/ pc = "fill"
  \/ pc = "enter" /\ (StartsWith(c, combination) \/ After(c, combination))
  \/ /\ pc = "loop"
     /\ \/ After(c, combination)
        \/ StartsWith(c, combination) /\ c[Len(combination) + 1] >= nxt
  \/ pc = "leave" /\ After(c, combination)

\* At every point of the recursion (the partial combination is pushed to,
\* popped from and copied all the time) the matches are the full suitable
\* combinations it has passed: none is lost by a cut, none is added twice or
\* added for an unsuitable combination.
MatchesAreExact ==
  Range(matches) = {c \in FullCombinations : Suitable(c) /\ ~Remaining(c)}

\* Stage 1 visits every pair of a placeholder and a map once: the candidate
\* list of a finished placeholder has a candidate for exactly the payloads of
\* its pattern in the maps, tagged with the map each of them comes from.
CandidatesFrom(p, k) ==
  UNION {{[payload |-> x, space |-> access[a]] :
            x \in Range(ps.pattern[p][access[a]])} : a \in 1..k}

CandidatesAreExact ==
  \A p \in 1..n :
    Range(candidates[p]) = CandidatesFrom(p, IF p < ph THEN Len(access)
                                             ELSE IF p = ph THEN acc - 1 ELSE 0)

\* Matches come in the order of the candidate lists, the last placeholder's
\* running fastest, and never twice.
MatchesOrdered ==
  \A i, j \in 1..Len(matches) : i < j => After(matches[j], matches[i])

\* The search is exact at every moment, when match leaves it in the middle of
\* filling candidate lists or at any depth of the recursion: the candidates are
\* those of the maps visited, the matches found are the suitable combinations
\* passed, in order and once (access-inl.h:194-274).
SearchIsExact == CandidatesAreExact /\ MatchesAreExact /\ MatchesOrdered

\* What the two comparisons of areFoldsValid are for: whatever operator== of
\* the payload means, the positions of one placeholder (one id) hold equal
\* payloads in a match and those of different placeholders unequal ones.
PayloadsFollowIds ==
  \A i \in 1..Len(matches) : \A p, q \in 1..n :
    LET c == Chosen(matches[i])
    IN  p < q => (ps.id[p] = ps.id[q] <=> isEqualModuloMap(c[p], c[q]))

\* The caller of match may look up every placeholder it passed in: neither
\* "different payloads for the same placeholder" nor "no match for the
\* placeholder although matches found" is reached.
LookupNeverDies ==
  \A i \in 1..Len(matches) : \A p \in 1..n : ~LookupDies(matches[i], ps.id[p])

\* A cut only drops combinations that have no suitable completion ("the filter
\* must work on incomplete candidates for the branch-and-cut to work").
CutsLoseNothing ==
  [][EnterCut => \A c \in FullCombinations :
                   StartsWith(c, combination) => ~Suitable(c)]_vars

Enumeration ==
  INSTANCE MatchEnumeration WITH
    returned <- pc = "done",
    answer   <- IF pc = "done" THEN {Chosen(m) : m \in Range(matches)} ELSE {}

\* match implements its abstract specification: it returns the set of all full
\* suitable assignments, also when it exits early.
ReturnsAllSuitable == Enumeration!Spec

\* match returns.
Returns == <>(pc = "done")

=============================================================================
