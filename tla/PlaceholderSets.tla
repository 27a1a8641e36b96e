---------------------------- MODULE PlaceholderSets ----------------------------
(***************************************************************************)
(* How placeholders get their identity and how allOf(...) turns lists of   *)
(* them into a set to match (src/islutils/access.h, access-inl.h).         *)
(*                                                                         *)
(* Every instantiation of the class template Placeholder has one id        *)
(* counter per thread.  A copy (operator*, operator+, dim, pattern_cast)   *)
(* keeps the id, also when it is of another instantiation.  allOf collects *)
(* the placeholders and their groups; setupFolds numbers them.             *)
(***************************************************************************)
EXTENDS Integers, Sequences, SequencesExt

CONSTANTS
  Thread,          \* threads that construct placeholders
  MaxPlaceholders, \* bound: placeholder objects in a behaviour
  Calls            \* the allOf calls: sequences of [array, list], where array
                   \* and the elements of list number placeholder objects

ASSUME CallsAssumption ==
  Calls \subseteq Seq([array : Nat, list : Seq(Nat \ {0})])

(***************************************************************************)
(* The instantiations of Placeholder: UnfixedOutDimPattern is what         *)
(* placeholder() makes, FixedOutDimPattern what a set is made of, and      *)
(* ArrayPlaceholder is Placeholder<char, char>.                            *)
(***************************************************************************)
Kind == {"unfixed", "fixed", "array"}

\* The array of a PlaceholderList that is not an ArrayPlaceholderList.
NoArray == 0

VARIABLES
  nextId,        \* the thread_local static counters
  objects,       \* the placeholders constructed so far; the code keeps their
                 \* id, thread and origin (the object a chain of copies
                 \* started with) are for the properties
  pc,            \* "client", then allOf: "lists", "placeholderFolds",
                 \* "groupFolds", "done"
  call,          \* the argument of allOf
  li,            \* the list allOf handles next
  placeholders,  \* placeholders_, as numbers of objects
  groups,        \* placeholderGroups_
  index,         \* setupFolds: the element it handles next
  knownIds,      \* setupFolds: pairs of an id and its first index
  folds          \* placeholderFolds_ and placeholderGroupFolds_

client == <<nextId, objects>>
result == <<placeholders, groups, folds>>
vars == <<client, pc, call, li, index, knownIds, result>>

Init ==
  /\ nextId = [t \in Thread |-> [k \in Kind |-> 0]]
  /\ objects = <<>>
  /\ pc = "client"
  /\ call = <<>>
  /\ li = 1
  /\ placeholders = <<>>
  /\ groups = <<>>
  /\ index = 1
  /\ knownIds = {}
  /\ folds = [phase \in {"placeholderFolds", "groupFolds"} |-> <<>>]

-----------------------------------------------------------------------------
(***************************************************************************)
(* The client.                                                             *)
(***************************************************************************)

\* Placeholder(pattern), the public constructor, in thread t.
Construct(t, kind) ==
  /\ pc = "client"
  /\ Len(objects) < MaxPlaceholders
  /\ objects' = Append(objects, [id |-> nextId[t][kind], kind |-> kind,
                                 thread |-> t, origin |-> Len(objects) + 1])
  /\ nextId' = [nextId EXCEPT ![t][kind] = @ + 1]
  /\ UNCHANGED <<pc, call, li, index, knownIds, result>>

\* A bug: the cast goes through the public constructor and gets a new id.
CastsToNewId(o) ==
  /\ pc = "client"
  /\ Len(objects) < MaxPlaceholders
  /\ objects[o].kind = "unfixed"
  /\ objects' = Append(objects, [objects[o] EXCEPT
                                   !.kind = "fixed",
                                   !.id = nextId[objects[o].thread]["fixed"]])
  /\ nextId' = [nextId EXCEPT ![objects[o].thread]["fixed"] = @ + 1]
  /\ UNCHANGED <<pc, call, li, index, knownIds, result>>

\* pattern_cast, by which dim(pos, p) and access(p, ...) fix the dimension.
PatternCast(o) ==
  /\ pc = "client"
  /\ Len(objects) < MaxPlaceholders
  /\ objects[o].kind = "unfixed"
  /\ objects' = Append(objects, [objects[o] EXCEPT !.kind = "fixed"])
  /\ UNCHANGED <<nextId, pc, call, li, index, knownIds, result>>

\* The types of the arguments, which the compiler checks.
WellTyped(c) ==
  /\ \A i \in 1..Len(c) :
       /\ c[i].array # NoArray => /\ c[i].array <= Len(objects)
                                  /\ objects[c[i].array].kind = "array"
       /\ \A o \in Range(c[i].list) : /\ o <= Len(objects)
                                      /\ objects[o].kind = "fixed"
  /\ \A i, j \in 1..Len(c) : c[i].array = NoArray <=> c[j].array = NoArray

CallAllOf(c) ==
  /\ pc = "client"
  /\ WellTyped(c)
  /\ call' = c
  /\ pc' = "lists"
  /\ UNCHANGED <<client, li, index, knownIds, result>>

-----------------------------------------------------------------------------
(***************************************************************************)
(* allOf: one list after the other.                                        *)
(***************************************************************************)
SkipEmptyList ==
  /\ pc = "lists"
  /\ li <= Len(call)
  /\ call[li].list = <<>>
  /\ li' = li + 1
  /\ UNCHANGED <<client, pc, call, index, knownIds, result>>

\* A bug: the positions of a group are off by one.
GroupsFromPreviousPosition ==
  /\ pc = "lists"
  /\ li <= Len(call)
  /\ call[li].list # <<>>
  /\ LET first == Len(placeholders)
         last == Len(placeholders) + Len(call[li].list) - 1
     IN  groups' = Append(groups, first..last)
  /\ placeholders' = placeholders \o call[li].list
  /\ li' = li + 1
  /\ UNCHANGED <<client, pc, call, index, knownIds, folds>>

AddGroup ==
  /\ pc = "lists"
  /\ li <= Len(call)
  /\ call[li].list # <<>>
  /\ LET first == Len(placeholders) + 1
         last == Len(placeholders) + Len(call[li].list)
     IN  groups' = Append(groups, first..last)
  /\ placeholders' = placeholders \o call[li].list
  /\ li' = li + 1
  /\ UNCHANGED <<client, pc, call, index, knownIds, folds>>

ListsDone ==
  /\ pc = "lists"
  /\ li > Len(call)
  /\ pc' = "placeholderFolds"
  /\ UNCHANGED <<client, call, li, index, knownIds, result>>

(***************************************************************************)
(* setupFolds, called for the placeholders of the set and, when the lists  *)
(* have array placeholders, for these: those of all the lists.             *)
(***************************************************************************)
Iterable ==
  IF pc = "placeholderFolds" THEN placeholders
  ELSE [i \in 1..Len(call) |-> call[i].array]

IdAt(i) == objects[Iterable[i]].id

NewId ==
  /\ pc \in {"placeholderFolds", "groupFolds"}
  /\ index <= Len(Iterable)
  /\ ~\E known \in knownIds : known[1] = IdAt(index)
  /\ knownIds' = knownIds \cup {<<IdAt(index), index>>}
  /\ folds' = [folds EXCEPT ![pc] = Append(@, index)]
  /\ index' = index + 1
  /\ UNCHANGED <<client, pc, call, li, placeholders, groups>>

\* A bug: a known id gets its own index.
KnownIdKeepsIndex ==
  /\ pc \in {"placeholderFolds", "groupFolds"}
  /\ index <= Len(Iterable)
  /\ \E known \in knownIds : known[1] = IdAt(index)
  /\ folds' = [folds EXCEPT ![pc] = Append(@, index)]
  /\ index' = index + 1
  /\ UNCHANGED <<client, pc, call, li, knownIds, placeholders, groups>>

KnownId ==
  /\ pc \in {"placeholderFolds", "groupFolds"}
  /\ index <= Len(Iterable)
  /\ \E known \in knownIds :
       /\ known[1] = IdAt(index)
       /\ folds' = [folds EXCEPT ![pc] = Append(@, known[2])]
  /\ index' = index + 1
  /\ UNCHANGED <<client, pc, call, li, knownIds, placeholders, groups>>

\* A bug: the ids known from the placeholders are kept for the arrays.
KeepsKnownIds ==
  /\ pc \in {"placeholderFolds", "groupFolds"}
  /\ index > Len(Iterable)
  /\ pc' = IF pc = "placeholderFolds" /\ call # <<>> /\ call[1].array # NoArray
           THEN "groupFolds" ELSE "done"
  /\ index' = 1
  /\ UNCHANGED <<client, call, li, knownIds, result>>

FoldsDone ==
  /\ pc \in {"placeholderFolds", "groupFolds"}
  /\ index > Len(Iterable)
  /\ pc' = IF pc = "placeholderFolds" /\ call # <<>> /\ call[1].array # NoArray
           THEN "groupFolds" ELSE "done"
  /\ index' = 1
  /\ knownIds' = {}
  /\ UNCHANGED <<client, call, li, result>>

Next ==
  \/ \E t \in Thread, kind \in Kind : Construct(t, kind)
  \/ \E o \in 1..Len(objects) : PatternCast(o)
  \/ \E c \in Calls : CallAllOf(c)
  \/ SkipEmptyList
  \/ AddGroup
  \/ ListsDone
  \/ NewId
  \/ KnownId
  \/ FoldsDone

Spec == Init /\ [][Next]_vars

-----------------------------------------------------------------------------
(***************************************************************************)
(* Properties.                                                             *)
(***************************************************************************)

\* The counters, the objects, and the vectors of the set under construction,
\* which never index an object that does not exist.
TypeOK ==
  /\ nextId \in [Thread -> [Kind -> Nat]]
  /\ objects \in Seq([id : Nat, kind : Kind, thread : Thread,
                     origin : Nat])
  /\ pc \in {"client", "lists", "placeholderFolds", "groupFolds", "done"}
  /\ call \in Seq([array : Nat, list : Seq(Nat \ {0})])
  /\ li \in 1..(Len(call) + 1)
  /\ placeholders \in Seq(1..Len(objects))
  /\ groups \in Seq(SUBSET (1..Len(placeholders)))
  /\ index \in Nat \ {0}
  /\ knownIds \subseteq Nat \X (Nat \ {0})
  /\ folds \in [{"placeholderFolds", "groupFolds"} -> Seq(Nat \ {0})]

\* Two objects are the same placeholder when they are copies of one object.
SamePlaceholder(o, p) == objects[o].origin = objects[p].origin

\* The instantiation of Placeholder whose counter the id came from.
Made(o) == objects[objects[o].origin].kind

\* setupFolds keeps the convention that a fold is "the index in placeholders_
\* of the first placeholder in the fold", and a fold is an id: whatever the
\* order of the lists and however often a placeholder is repeated.
FoldsAreFirstIndices ==
  pc = "done" =>
    /\ Len(folds.placeholderFolds) = Len(placeholders)
    /\ \A p \in 1..Len(placeholders) :
         LET IdOf(q) == objects[placeholders[q]].id
             fold == folds.placeholderFolds[p]
         IN  /\ fold <= p
             /\ IdOf(fold) = IdOf(p)
             /\ \A q \in 1..(fold - 1) : IdOf(q) # IdOf(p)

\* The lists that allOf makes groups of, among the first k of the call.
NonEmptyLists(k) == {i \in 1..k : call[i].list # <<>>}

\* The placeholders of l are at the positions of g, in order and without a gap.
IsListAt(l, g) ==
  \E before \in 0..Len(placeholders) :
    /\ g = (before + 1)..(before + Len(l))
    /\ \A k \in 1..Len(l) : placeholders[before + k] = l[k]

\* The groups split the positions into the non-empty lists of the call, in the
\* order of the lists.
GroupsAreLists ==
  pc = "done" =>
    /\ Len(groups) = Cardinality(NonEmptyLists(Len(call)))
    /\ UNION Range(groups) = 1..Len(placeholders)
    /\ \A g, h \in 1..Len(groups) : g # h => groups[g] \cap groups[h] = {}
    /\ \A i \in NonEmptyLists(Len(call)) :
         IsListAt(call[i].list, groups[Cardinality(NonEmptyLists(i))])

\* What match reads of a set is as its comments say, for every call: folds and
\* groups refer to positions that exist (access-inl.h:408-461, access.h:111-144).
SetIsWellFormed == FoldsAreFirstIndices /\ GroupsAreLists

\* Folds follow the identity of placeholders, and not accidents of numbering,
\* when all of them were constructed by one thread as one instantiation.
FoldsFollowPlaceholders ==
  pc = "done" =>
    \A p, q \in 1..Len(placeholders) :
      LET o == placeholders[p]
          r == placeholders[q]
      IN  objects[o].thread = objects[r].thread /\ Made(o) = Made(r) =>
            (folds.placeholderFolds[p] = folds.placeholderFolds[q]
               <=> SamePlaceholder(o, r))

\* When no list is empty, the fold of a group is that of its array placeholder.
GroupFoldsFollowArrays ==
  pc = "done" /\ Len(groups) = Len(call) /\ folds.groupFolds # <<>> =>
    /\ Len(folds.groupFolds) = Len(groups)
    /\ \A g, h \in 1..Len(groups) :
         folds.groupFolds[g] = folds.groupFolds[h]
           <=> objects[call[g].array].id = objects[call[h].array].id

-----------------------------------------------------------------------------
(***************************************************************************)
(* Claims that do not hold.                                                *)
(***************************************************************************)

\* "By default, each placeholder gets assigned its index in the placeholders_
\* list, that is placeholderFolds_[i] == i": placeholders that are not copies
\* of each other have different folds (access.h, placeholderFolds_).
DifferentPlaceholdersDifferentFolds ==
  pc = "done" =>
    \A p, q \in 1..Len(placeholders) :
      folds.placeholderFolds[p] = folds.placeholderFolds[q]
        => SamePlaceholder(placeholders[p], placeholders[q])

\* "groups that belong to the same group fold have matched the same array while
\* groups that belong to different group folds matched different arrays": the
\* groups of two lists are in one group fold only if the lists were given one
\* array placeholder (access-inl.h, PlaceholderGroupedSet).
GroupsOfOneFoldShareTheirArray ==
  pc = "done" /\ folds.groupFolds # <<>> =>
    LET given == SelectSeq(call, LAMBDA l : l.list # <<>>)
    IN  \A g, h \in 1..Len(groups) :
          folds.groupFolds[g] = folds.groupFolds[h]
            => SamePlaceholder(given[g].array, given[h].array)

=============================================================================
