--------------------------- MODULE MatchEnumeration ---------------------------
(***************************************************************************)
(* What match(access, ps) promises its caller: all the full suitable       *)
(* assignments of candidates to placeholders, and nothing else, in one     *)
(* step.  Nothing is said of how they are found.                           *)
(***************************************************************************)
EXTENDS Suitability

CONSTANTS Accesses,         \* the union maps: sequences of distinct maps
          PlaceholderSets   \* the placeholder sets to match

VARIABLES
  access,   \* the union map that is matched
  ps,       \* the placeholder set it is matched against
  returned, \* whether match has returned
  answer    \* the matches, once it has

Init ==
  /\ access \in Accesses
  /\ ps \in PlaceholderSets
  /\ returned = FALSE
  /\ answer = {}

Return ==
  /\ ~returned
  /\ returned' = TRUE
  /\ answer' = SuitableAssignments(access, ps)
  /\ UNCHANGED <<access, ps>>

Spec == Init /\ [][Return]_<<access, ps, returned, answer>>

=============================================================================
