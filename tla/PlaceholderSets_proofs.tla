------------------------- MODULE PlaceholderSets_proofs -------------------------
(***************************************************************************)
(* Proofs about PlaceholderSets, for any number of threads, placeholders,  *)
(* lists and repetitions of a placeholder in them.                         *)
(***************************************************************************)
EXTENDS PlaceholderSets, SequenceTheorems, FiniteSetTheorems, TLAPS

Phase == {"placeholderFolds", "groupFolds"}

Object == [id : Nat, kind : Kind, thread : Thread, origin : Nat]

List == [array : Nat, list : Seq(Nat \ {0})]

NoFolds == [phase \in Phase |-> <<>>]

\* What TypeOK rests on: where allOf stands says which of its variables are set.
Control ==
  /\ pc = "client" => call = <<>> /\ placeholders = <<>> /\ groups = <<>>
  /\ pc = "client" => li = 1
  /\ pc # "client" => WellTyped(call)
  /\ pc \in {"client", "lists"} => index = 1 /\ knownIds = {} /\ folds = NoFolds
  /\ pc \notin {"client", "lists"} => li = Len(call) + 1
  /\ pc = "groupFolds" => call # <<>> /\ call[1].array # NoArray

LEMMA ControlInit == Init => TypeOK /\ Control
<1> SUFFICES ASSUME Init PROVE TypeOK /\ Control
  OBVIOUS
<1>1. /\ placeholders = <<>> /\ groups = <<>> /\ call = <<>> /\ objects = <<>>
      /\ Len(call) = 0 /\ Len(objects) = 0 /\ Len(placeholders) = 0
  BY EmptySeq DEF Init
<1>2. folds \in [Phase -> Seq(Nat \ {0})] /\ folds = NoFolds
  BY EmptySeq DEF Init, Phase, NoFolds
<1>3. nextId \in [Thread -> [Kind -> Nat]]
  BY DEF Init
<1>4. QED
  BY <1>1, <1>2, <1>3, EmptySeq DEF Init, TypeOK, Control, Phase

\* A constructor appends an object; nothing refers to objects before allOf.
LEMMA ClientStep ==
  ASSUME TypeOK, Control, pc = "client", NEW o \in Object,
         objects' = Append(objects, o), nextId' \in [Thread -> [Kind -> Nat]],
         UNCHANGED <<pc, call, li, index, knownIds, result>>
  PROVE  TypeOK' /\ Control'
<1>1. objects' \in Seq(Object)
  BY AppendProperties DEF TypeOK, Object
<1>2. placeholders' = <<>> /\ placeholders' \in Seq(1..Len(objects'))
  BY EmptySeq DEF Control, result
<1>3. QED
  BY <1>1, <1>2 DEF TypeOK, Control, Object, result

LEMMA ConstructControl ==
  ASSUME TypeOK, Control, NEW t \in Thread, NEW kind \in Kind, Construct(t, kind)
  PROVE  TypeOK' /\ Control'
<1> DEFINE o == [id |-> nextId[t][kind], kind |-> kind, thread |-> t,
                 origin |-> Len(objects) + 1]
<1>1. Len(objects) \in Nat
  BY LenProperties DEF TypeOK
<1>2. o \in Object
  BY <1>1 DEF TypeOK, Object
<1>3. nextId' \in [Thread -> [Kind -> Nat]]
  BY DEF TypeOK, Construct
<1>4. objects' = Append(objects, o) /\ pc = "client"
      /\ UNCHANGED <<pc, call, li, index, knownIds, result>>
  BY DEF Construct
<1> HIDE DEF o
<1>5. QED
  BY <1>2, <1>3, <1>4, ClientStep

LEMMA PatternCastControl ==
  ASSUME TypeOK, Control, NEW o \in 1..Len(objects), PatternCast(o)
  PROVE  TypeOK' /\ Control'
<1>1. objects[o] \in Object
  BY ElementOfSeq DEF TypeOK, Object
<1>2. [objects[o] EXCEPT !.kind = "fixed"] \in Object
  BY <1>1 DEF Object, Kind
<1>3. nextId' \in [Thread -> [Kind -> Nat]]
  BY DEF TypeOK, PatternCast
<1>4. objects' = Append(objects, [objects[o] EXCEPT !.kind = "fixed"]) /\ pc = "client"
      /\ UNCHANGED <<pc, call, li, index, knownIds, result>>
  BY DEF PatternCast
<1>5. QED
  BY <1>2, <1>3, <1>4, ClientStep

LEMMA CallControl ==
  ASSUME TypeOK, Control, NEW c \in Calls, CallAllOf(c)
  PROVE  TypeOK' /\ Control'
<1>1. c \in Seq(List)
  BY CallsAssumption DEF List
<1>2. Len(c) \in Nat
  BY <1>1, LenProperties
<1>3. WellTyped(call)'
  BY DEF CallAllOf, WellTyped, client
<1>4. QED
  BY <1>1, <1>2, <1>3 DEF CallAllOf, TypeOK, Control, client, result, List

LEMMA ListFacts ==
  ASSUME TypeOK, Control, pc = "lists", li <= Len(call)
  PROVE  /\ li \in 1..Len(call)
         /\ call[li].list \in Seq(1..Len(objects))
         /\ Len(call[li].list) \in Nat
         /\ placeholders \o call[li].list \in Seq(1..Len(objects))
         /\ Len(placeholders \o call[li].list)
              = Len(placeholders) + Len(call[li].list)
         /\ Len(placeholders) \in Nat
<1>1. li \in 1..Len(call) /\ Len(call) \in Nat /\ Len(objects) \in Nat
  BY LenProperties DEF TypeOK
<1>2. call[li] \in List
  BY <1>1, ElementOfSeq DEF TypeOK, List
<1>3. call[li].list \in Seq(Nat \ {0})
  BY <1>2 DEF List
<1>4. \A k \in 1..Len(call[li].list) : call[li].list[k] \in 1..Len(objects)
  <2>1. \A o \in Range(call[li].list) : o <= Len(objects)
    BY <1>1 DEF Control, WellTyped
  <2>2. QED
    BY <1>1, <1>3, <2>1, LenProperties, ElementOfSeq DEF Range
<1>5. call[li].list \in Seq(1..Len(objects))
  <2>1. Len(call[li].list) \in Nat
        /\ call[li].list \in [1..Len(call[li].list) -> 1..Len(objects)]
    BY <1>3, <1>4, LenProperties
  <2>2. QED
    BY <2>1, SeqDef
<1>6. QED
  BY <1>1, <1>5, ConcatProperties, LenProperties DEF TypeOK

LEMMA AddGroupControl ==
  ASSUME TypeOK, Control, AddGroup
  PROVE  TypeOK' /\ Control'
<1> DEFINE l == call[li].list
           a == Len(placeholders) + 1
           b == Len(placeholders) + Len(l)
<1>1. /\ pc = "lists" /\ li <= Len(call)
      /\ groups' = Append(groups, a..b)
      /\ placeholders' = placeholders \o l
      /\ li' = li + 1
      /\ UNCHANGED <<client, pc, call, index, knownIds, folds>>
  BY DEF AddGroup
<1>2. /\ li \in 1..Len(call) /\ Len(l) \in Nat /\ Len(placeholders) \in Nat
      /\ placeholders' \in Seq(1..Len(objects))
      /\ Len(placeholders') = Len(placeholders) + Len(l)
  BY <1>1, ListFacts
<1> HIDE DEF l
<1>3. groups \in Seq(SUBSET (1..Len(placeholders')))
  <2>1. SUBSET (1..Len(placeholders)) \subseteq SUBSET (1..Len(placeholders'))
    BY <1>2
  <2>2. QED
    BY <2>1, SeqMonotonic DEF TypeOK
<1>4. a..b \in SUBSET (1..Len(placeholders'))
  BY <1>2
<1>5. groups' \in Seq(SUBSET (1..Len(placeholders')))
  BY <1>1, <1>3, <1>4, AppendProperties
<1>6. UNCHANGED <<nextId, objects>>
  BY <1>1 DEF client
<1>7. WellTyped(call)'
  BY <1>1, <1>6 DEF Control, WellTyped
<1>8. TypeOK'
  <2>1. UNCHANGED <<nextId, objects, pc, call, index, knownIds, folds>>
    BY <1>1, <1>6
  <2>2. li' \in 1..(Len(call') + 1)
    <3>1. Len(call) \in Nat
      BY LenProperties DEF TypeOK
    <3>2. QED
      BY ONLY <1>1, <1>2, <2>1, <3>1
  <2>3. placeholders' \in Seq(1..Len(objects'))
    BY <1>2, <2>1
  <2>4. /\ nextId' \in [Thread -> [Kind -> Nat]]
        /\ objects' \in Seq(Object)
        /\ pc' \in {"client", "lists", "placeholderFolds", "groupFolds", "done"}
        /\ call' \in Seq(List)
    BY <2>1 DEF TypeOK, Object, List
  <2>5. /\ index' \in Nat \ {0}
        /\ knownIds' \subseteq Nat \X (Nat \ {0})
        /\ folds' \in [{"placeholderFolds", "groupFolds"} -> Seq(Nat \ {0})]
    BY <2>1 DEF TypeOK
  <2>6. QED
    BY ONLY <1>5, <2>2, <2>3, <2>4, <2>5 DEF TypeOK, Object, List
<1>9. Control'
  <2>1. /\ pc' = "lists" /\ call' = call /\ index' = index
        /\ knownIds' = knownIds /\ folds' = folds
    BY <1>1
  <2>2. index = 1 /\ knownIds = {} /\ folds = NoFolds
    BY <1>1 DEF Control
  <2>3. QED
    BY ONLY <1>7, <2>1, <2>2 DEF Control
<1>10. QED
  BY <1>8, <1>9

\* One step of setupFolds.
LEMMA FoldControl ==
  ASSUME TypeOK, Control, pc \in Phase, NEW k \in Nat \ {0},
         folds' = [folds EXCEPT ![pc] = Append(@, k)],
         index' = index + 1, knownIds' \subseteq Nat \X (Nat \ {0}),
         UNCHANGED <<client, pc, call, li, placeholders, groups>>
  PROVE  TypeOK' /\ Control'
<1>1. Append(folds[pc], k) \in Seq(Nat \ {0})
  BY AppendProperties DEF TypeOK, Phase
<1>2. folds' \in [Phase -> Seq(Nat \ {0})]
  BY <1>1 DEF TypeOK, Phase
<1>3. UNCHANGED <<nextId, objects>>
  BY DEF client
<1>4. WellTyped(call)'
  BY <1>3 DEF Control, WellTyped, Phase
<1>5. TypeOK'
  BY <1>2, <1>3 DEF TypeOK, Phase
<1>6. Control'
  BY <1>4 DEF Control, Phase
<1>7. QED
  BY <1>5, <1>6

(***************************************************************************)
(* The elements of a phase of setupFolds, and their ids.                   *)
(***************************************************************************)
Elements(phase) ==
  IF phase = "placeholderFolds" THEN placeholders
  ELSE [i \in 1..Len(call) |-> call[i].array]

Id(phase, i) == objects[Elements(phase)[i]].id

LEMMA ElementFacts ==
  ASSUME TypeOK, Control, pc # "client", NEW phase \in Phase,
         phase = "groupFolds" => call # <<>> /\ call[1].array # NoArray
  PROVE  /\ Elements(phase) \in Seq(1..Len(objects))
         /\ Len(Elements(phase)) \in Nat
         /\ \A i \in 1..Len(Elements(phase)) : Id(phase, i) \in Nat
<1>1. Elements(phase) \in Seq(1..Len(objects))
  <2>1. CASE phase = "placeholderFolds"
    BY <2>1 DEF Elements, TypeOK
  <2>2. CASE phase = "groupFolds"
    <3>1. Len(call) \in Nat \ {0} /\ Len(objects) \in Nat
      BY <2>2, EmptySeq, LenProperties DEF TypeOK
    <3>2. \A i \in 1..Len(call) : call[i].array \in Nat
      <4>1. \A i \in 1..Len(call) : call[i] \in List
        BY ElementOfSeq DEF TypeOK, List
      <4>2. QED
        BY <4>1 DEF List
    <3>3. \A i \in 1..Len(call) : call[i].array # NoArray
      BY <2>2, <3>1 DEF Control, WellTyped
    <3>4. \A i \in 1..Len(call) : call[i].array \in 1..Len(objects)
      BY <3>1, <3>2, <3>3 DEF Control, WellTyped, NoArray
    <3>5. Elements(phase) \in [1..Len(call) -> 1..Len(objects)]
      BY <2>2, <3>4 DEF Elements
    <3>6. QED
      BY <3>1, <3>5, SeqDef
  <2>3. QED
    BY <2>1, <2>2 DEF Phase
<1>2. Len(Elements(phase)) \in Nat
  BY <1>1, LenProperties
<1>3. ASSUME NEW i \in 1..Len(Elements(phase)) PROVE Id(phase, i) \in Nat
  <2>1. Elements(phase)[i] \in 1..Len(objects)
    BY <1>1, ElementOfSeq
  <2>2. objects[Elements(phase)[i]] \in Object
    BY <2>1, ElementOfSeq DEF TypeOK, Object
  <2>3. QED
    BY <2>2 DEF Id, Object
<1>4. QED
  BY <1>1, <1>2, <1>3

\* What NewId and KnownId find at the element they come to.
LEMMA IdAtFacts ==
  ASSUME TypeOK, Control, pc \in Phase, index <= Len(Iterable)
  PROVE  /\ Iterable = Elements(pc)
         /\ index \in 1..Len(Elements(pc))
         /\ IdAt(index) = Id(pc, index)
         /\ Id(pc, index) \in Nat
<1>1. Iterable = Elements(pc)
  BY DEF Iterable, Elements
<1>2. /\ Len(Elements(pc)) \in Nat
      /\ \A i \in 1..Len(Elements(pc)) : Id(pc, i) \in Nat
  BY ElementFacts DEF Control, Phase
<1>3. index \in 1..Len(Elements(pc))
  BY <1>1, <1>2 DEF TypeOK
<1>4. QED
  BY <1>1, <1>2, <1>3 DEF IdAt, Id

LEMMA NewIdControl ==
  ASSUME TypeOK, Control, NewId
  PROVE  TypeOK' /\ Control'
<1>1. pc \in Phase /\ index <= Len(Iterable)
  BY DEF NewId, Phase
<1>2. IdAt(index) \in Nat /\ index \in Nat \ {0}
  BY <1>1, IdAtFacts DEF TypeOK
<1>3. knownIds' \subseteq Nat \X (Nat \ {0})
  BY <1>2 DEF NewId, TypeOK
<1>4. QED
  BY <1>1, <1>2, <1>3, FoldControl DEF NewId

LEMMA KnownIdControl ==
  ASSUME TypeOK, Control, KnownId
  PROVE  TypeOK' /\ Control'
<1>1. pc \in Phase
  BY DEF KnownId, Phase
<1>2. PICK known \in knownIds : folds' = [folds EXCEPT ![pc] = Append(@, known[2])]
  BY DEF KnownId
<1>3. known[2] \in Nat \ {0}
  BY DEF TypeOK
<1>4. knownIds' \subseteq Nat \X (Nat \ {0})
  BY DEF KnownId, TypeOK
<1>5. QED
  BY <1>1, <1>2, <1>3, <1>4, FoldControl DEF KnownId

LEMMA ControlStep == TypeOK /\ Control /\ [Next]_vars => TypeOK' /\ Control'
<1> SUFFICES ASSUME TypeOK, Control, [Next]_vars PROVE TypeOK' /\ Control'
  OBVIOUS
<1>1. ASSUME NEW t \in Thread, NEW kind \in Kind, Construct(t, kind)
      PROVE  TypeOK' /\ Control'
  BY <1>1, ConstructControl
<1>2. ASSUME NEW o \in 1..Len(objects), PatternCast(o)
      PROVE  TypeOK' /\ Control'
  BY <1>2, PatternCastControl
<1>3. ASSUME NEW c \in Calls, CallAllOf(c) PROVE TypeOK' /\ Control'
  BY <1>3, CallControl
<1>4. CASE SkipEmptyList
  <2>1. UNCHANGED <<nextId, objects>> /\ WellTyped(call)'
    BY <1>4 DEF SkipEmptyList, client, Control, WellTyped
  <2>2. Len(call) \in Nat
    BY LenProperties DEF TypeOK
  <2>3. /\ UNCHANGED <<pc, call, placeholders, groups, index, knownIds, folds>>
        /\ pc = "lists" /\ li <= Len(call) /\ li' = li + 1
    BY <1>4 DEF SkipEmptyList, result
  <2>4. TypeOK'
    <3>1. li' \in 1..(Len(call') + 1)
      BY <2>2, <2>3 DEF TypeOK
    <3>2. QED
      BY <2>1, <2>3, <3>1 DEF TypeOK
  <2>5. Control'
    BY <2>1, <2>3 DEF Control
  <2>6. QED
    BY <2>4, <2>5
<1>5. CASE AddGroup
  BY <1>5, AddGroupControl
<1>6. CASE ListsDone
  <2>1. UNCHANGED <<nextId, objects>> /\ WellTyped(call)'
    BY <1>6 DEF ListsDone, client, Control, WellTyped
  <2>2. Len(call) \in Nat
    BY LenProperties DEF TypeOK
  <2>3. TypeOK'
    BY <1>6, <2>1 DEF ListsDone, TypeOK, result
  <2>4. Control'
    BY <1>6, <2>1, <2>2 DEF ListsDone, TypeOK, Control, result
  <2>5. QED
    BY <2>3, <2>4
<1>7. CASE NewId
  BY <1>7, NewIdControl
<1>8. CASE KnownId
  BY <1>8, KnownIdControl
<1>9. CASE FoldsDone
  <2>1. UNCHANGED <<nextId, objects>> /\ WellTyped(call)'
    BY <1>9 DEF FoldsDone, client, Control, WellTyped
  <2>2. pc' \in {"groupFolds", "done"}
        /\ (pc' = "groupFolds" => call # <<>> /\ call[1].array # NoArray)
    BY <1>9 DEF FoldsDone
  <2>3. /\ index' = 1 /\ knownIds' = {} /\ pc \notin {"client", "lists"}
        /\ UNCHANGED <<call, li, placeholders, groups, folds>>
    BY <1>9 DEF FoldsDone, result
  <2>4. TypeOK'
    BY <2>1, <2>2, <2>3 DEF TypeOK
  <2>5. Control'
    BY <2>1, <2>2, <2>3 DEF Control
  <2>6. QED
    BY <2>4, <2>5
<1>10. CASE UNCHANGED vars
  <2>1. UNCHANGED <<nextId, objects, pc, call, li, placeholders, groups, index,
                    knownIds, folds>>
    BY <1>10 DEF vars, client, result
  <2>2. TypeOK'
    BY <2>1 DEF TypeOK
  <2>3. Control'
    BY <2>1 DEF Control, WellTyped
  <2>4. QED
    BY <2>2, <2>3
<1>11. QED
  BY <1>1, <1>2, <1>3, <1>4, <1>5, <1>6, <1>7, <1>8, <1>9, <1>10 DEF Next

\* The vectors of a set under construction are well-typed at every step, so that
\* neither allOf nor setupFolds reads a placeholder that does not exist.
THEOREM TypeCorrect == Spec => []TypeOK
<1>1. QED
  BY ControlInit, ControlStep, PTL DEF Spec

-----------------------------------------------------------------------------
(***************************************************************************)
(* setupFolds: every fold is the first index of its id.                    *)
(***************************************************************************)
IsFirst(phase, p, f) ==
  /\ f \in 1..p
  /\ Id(phase, f) = Id(phase, p)
  /\ \A q \in 1..(f - 1) : Id(phase, q) # Id(phase, p)

\* The first k elements have their folds.
FoldedTo(phase, k) ==
  /\ Len(folds[phase]) = k
  /\ \A p \in 1..k : IsFirst(phase, p, folds[phase][p])

\* The ids of the first k elements are known with their first index.
KnownTo(phase, k) ==
  /\ \A known \in knownIds : /\ known[2] \in 1..k
                              /\ known[1] = Id(phase, known[2])
                              /\ IsFirst(phase, known[2], known[2])
  /\ \A p \in 1..k : \E known \in knownIds : known[1] = Id(phase, p)

Grouped == call # <<>> /\ call[1].array # NoArray

FoldsInv ==
  /\ pc \in Phase => /\ index <= Len(Elements(pc)) + 1
                     /\ FoldedTo(pc, index - 1)
                     /\ KnownTo(pc, index - 1)
  /\ pc = "placeholderFolds" => folds["groupFolds"] = <<>>
  /\ pc \in {"groupFolds", "done"} => FoldedTo("placeholderFolds", Len(placeholders))
  /\ pc = "done" => IF Grouped THEN FoldedTo("groupFolds", Len(call))
                    ELSE folds["groupFolds"] = <<>>

\* Once allOf is called, elements and their ids do not change.
LEMMA SameElements ==
  ASSUME UNCHANGED <<client, call, placeholders>>
  PROVE  /\ \A phase : Elements(phase)' = Elements(phase)
         /\ \A phase, i : Id(phase, i)' = Id(phase, i)
         /\ \A phase, p, f : IsFirst(phase, p, f)' <=> IsFirst(phase, p, f)
         /\ Grouped' <=> Grouped
<1>1. UNCHANGED objects
  BY DEF client
<1>2. QED
  BY <1>1 DEF Elements, Id, IsFirst, Grouped

\* The fold of the next element is appended.
LEMMA FoldAppended ==
  ASSUME TypeOK, NEW phase \in Phase, NEW i \in Nat \ {0}, NEW k \in Nat \ {0},
         FoldedTo(phase, i - 1), IsFirst(phase, i, k),
         folds' = [folds EXCEPT ![phase] = Append(@, k)],
         UNCHANGED <<client, call, placeholders>>
  PROVE  FoldedTo(phase, i)'
<1>1. folds[phase] \in Seq(Nat \ {0}) /\ folds'[phase] = Append(folds[phase], k)
  BY DEF TypeOK, Phase
<1>2. /\ Len(folds'[phase]) = i
      /\ \A p \in 1..(i - 1) : folds'[phase][p] = folds[phase][p]
      /\ folds'[phase][i] = k
  BY <1>1, AppendProperties DEF FoldedTo
<1>3. \A p \in 1..i : IsFirst(phase, p, folds'[phase][p])
  BY <1>2 DEF FoldedTo
<1>4. QED
  BY <1>2, <1>3, SameElements DEF FoldedTo

LEMMA FoldsNewId ==
  ASSUME TypeOK, Control, FoldsInv, NewId
  PROVE  FoldsInv'
<1>1. pc \in Phase /\ index <= Len(Iterable) /\ index \in Nat \ {0}
  BY DEF NewId, Phase, TypeOK
<1>2. /\ index \in 1..Len(Elements(pc)) /\ IdAt(index) = Id(pc, index)
      /\ Len(Elements(pc)) \in Nat
  BY <1>1, IdAtFacts
<1>3. FoldedTo(pc, index - 1) /\ KnownTo(pc, index - 1)
  BY <1>1 DEF FoldsInv
<1>4. /\ UNCHANGED <<client, pc, call, placeholders>>
      /\ folds' = [folds EXCEPT ![pc] = Append(@, index)]
      /\ knownIds' = knownIds \cup {<<Id(pc, index), index>>}
      /\ index' = index + 1
  BY <1>2 DEF NewId
<1>5. \A p \in 1..(index - 1) : Id(pc, p) # Id(pc, index)
  <2>1. ~\E known \in knownIds : known[1] = Id(pc, index)
    BY <1>2 DEF NewId
  <2>2. QED
    BY <1>3, <2>1 DEF KnownTo
<1>6. IsFirst(pc, index, index)
  BY <1>1, <1>5 DEF IsFirst
<1>7. \A i : i = index => FoldedTo(pc, i)'
  BY <1>1, <1>3, <1>4, <1>6, FoldAppended
<1>8. /\ \A known \in knownIds' : /\ known[2] \in 1..index
                                  /\ known[1] = Id(pc, known[2])
                                  /\ IsFirst(pc, known[2], known[2])
      /\ \A p \in 1..index : \E known \in knownIds' : known[1] = Id(pc, p)
  <2>1. ASSUME NEW known \in knownIds'
        PROVE  /\ known[2] \in 1..index
               /\ known[1] = Id(pc, known[2])
               /\ IsFirst(pc, known[2], known[2])
    <3>1. CASE known \in knownIds
      BY <1>1, <1>3, <3>1 DEF KnownTo
    <3>2. CASE known = <<Id(pc, index), index>>
      BY <1>1, <1>6, <3>2
    <3>3. QED
      BY <1>4, <3>1, <3>2
  <2>2. ASSUME NEW p \in 1..index PROVE \E known \in knownIds' : known[1] = Id(pc, p)
    <3>1. CASE p \in 1..(index - 1)
      BY <1>3, <1>4, <3>1 DEF KnownTo
    <3>2. CASE p = index
      <4>1. <<Id(pc, index), index>> \in knownIds'
        BY <1>4
      <4>2. <<Id(pc, index), index>>[1] = Id(pc, p)
        BY <3>2
      <4>3. QED
        BY <4>1, <4>2
    <3>3. QED
      BY <1>1, <3>1, <3>2
  <2>3. QED
    BY <2>1, <2>2
<1>9. index' - 1 = index /\ pc' = pc
  BY <1>1, <1>4
<1>10. FoldedTo(pc, index - 1)'
  BY <1>7, <1>9
<1>11. KnownTo(pc, index - 1)'
  BY <1>4, <1>8, <1>9, SameElements DEF KnownTo
<1>12. index' <= Len(Elements(pc)') + 1
  BY <1>2, <1>4, SameElements
<1>13. pc = "placeholderFolds" => folds'["groupFolds"] = <<>>
  BY <1>4 DEF FoldsInv, TypeOK
<1>14. pc = "groupFolds" => FoldedTo("placeholderFolds", Len(placeholders))'
  BY <1>4, SameElements DEF FoldsInv, FoldedTo, TypeOK
<1>15. QED
  BY <1>1, <1>9, <1>10, <1>11, <1>12, <1>13, <1>14 DEF FoldsInv, Phase

LEMMA FoldsKnownId ==
  ASSUME TypeOK, Control, FoldsInv, KnownId
  PROVE  FoldsInv'
<1>1. pc \in Phase /\ index <= Len(Iterable) /\ index \in Nat \ {0}
  BY DEF KnownId, Phase, TypeOK
<1>2. /\ index \in 1..Len(Elements(pc)) /\ IdAt(index) = Id(pc, index)
      /\ Len(Elements(pc)) \in Nat
  BY <1>1, IdAtFacts
<1>3. FoldedTo(pc, index - 1) /\ KnownTo(pc, index - 1)
  BY <1>1 DEF FoldsInv
<1>4. PICK known \in knownIds : /\ known[1] = Id(pc, index)
                                /\ folds' = [folds EXCEPT ![pc] = Append(@, known[2])]
  BY <1>2 DEF KnownId
<1>5. UNCHANGED <<client, pc, call, placeholders, knownIds>> /\ index' = index + 1
  BY DEF KnownId
<1>6. known[2] \in Nat \ {0} /\ IsFirst(pc, index, known[2])
  BY <1>1, <1>3, <1>4 DEF KnownTo, IsFirst
<1>7. \A i : i = index => FoldedTo(pc, i)'
  BY <1>1, <1>3, <1>4, <1>5, <1>6, FoldAppended
<1>8. KnownTo(pc, index)
  BY <1>1, <1>3, <1>4 DEF KnownTo
<1>9. index' - 1 = index /\ pc' = pc
  BY <1>1, <1>5
<1>10. FoldedTo(pc, index - 1)'
  BY <1>7, <1>9
<1>11. KnownTo(pc, index - 1)'
  BY <1>5, <1>8, <1>9, SameElements DEF KnownTo
<1>12. index' <= Len(Elements(pc)') + 1
  BY <1>2, <1>5, SameElements
<1>13. pc = "placeholderFolds" => folds'["groupFolds"] = <<>>
  BY <1>4 DEF FoldsInv, TypeOK
<1>14. pc = "groupFolds" => FoldedTo("placeholderFolds", Len(placeholders))'
  BY <1>4, <1>5, SameElements DEF FoldsInv, FoldedTo, TypeOK
<1>15. QED
  BY <1>1, <1>9, <1>10, <1>11, <1>12, <1>13, <1>14 DEF FoldsInv, Phase

\* Nothing is known and nothing folded when a phase begins.
LEMMA PhaseBegins ==
  ASSUME NEW phase \in Phase, folds'[phase] = <<>>, knownIds' = {}
  PROVE  FoldedTo(phase, 0)' /\ KnownTo(phase, 0)'
BY EmptySeq DEF FoldedTo, KnownTo

LEMMA FoldsFoldsDone ==
  ASSUME TypeOK, Control, FoldsInv, FoldsDone
  PROVE  FoldsInv'
<1>1. pc \in Phase /\ index > Len(Iterable) /\ index \in Nat \ {0}
  BY DEF FoldsDone, Phase, TypeOK
<1>2. /\ UNCHANGED <<client, call, placeholders, folds>>
      /\ index' = 1 /\ knownIds' = {}
      /\ pc' = IF pc = "placeholderFolds" /\ Grouped THEN "groupFolds" ELSE "done"
  BY DEF FoldsDone, result, Grouped
<1>3. Len(Elements(pc)) \in Nat /\ Iterable = Elements(pc)
  BY <1>1, ElementFacts DEF Control, Phase, Iterable, Elements
<1>4. FoldedTo(pc, Len(Elements(pc)))
  BY <1>1, <1>3 DEF FoldsInv
<1>5. FoldedTo("placeholderFolds", Len(placeholders))
  BY <1>1, <1>4 DEF FoldsInv, Phase, Elements
<1>6. FoldedTo("placeholderFolds", Len(placeholders))'
  BY <1>2, <1>5, SameElements DEF FoldedTo
<1>7. CASE pc = "placeholderFolds" /\ Grouped
  <2>1. FoldedTo("groupFolds", 0)' /\ KnownTo("groupFolds", 0)'
    BY <1>2, <1>7, PhaseBegins DEF FoldsInv, Phase
  <2>2. Len(Elements("groupFolds")) \in Nat
    BY <1>1, <1>7, ElementFacts DEF Phase, Grouped
  <2>3. Len(Elements("groupFolds")') \in Nat
    BY <1>2, <2>2, SameElements
  <2>4. pc' = "groupFolds" /\ index' - 1 = 0 /\ index' = 1
    BY <1>2, <1>7
  <2>5. FoldedTo("groupFolds", index - 1)' /\ KnownTo("groupFolds", index - 1)'
    BY <2>1, <2>4
  <2>6. QED
    BY <1>6, <2>3, <2>4, <2>5 DEF FoldsInv, Phase
<1>8. CASE pc = "placeholderFolds" /\ ~Grouped
  BY <1>2, <1>6, <1>8, SameElements DEF FoldsInv, Phase
<1>9. CASE pc = "groupFolds"
  <2>1. Len(Elements("groupFolds")) = Len(call) /\ Grouped
    <3>1. Len(call) \in Nat
      BY LenProperties DEF TypeOK
    <3>2. QED
      BY <1>9, <3>1 DEF Elements, Control, Grouped
  <2>2. FoldedTo("groupFolds", Len(call))'
    BY <1>2, <1>4, <1>9, <2>1, SameElements DEF FoldedTo
  <2>3. Grouped'
    BY <1>2, <2>1, SameElements
  <2>4. pc' = "done"
    BY <1>2, <1>9
  <2>5. QED
    BY <1>6, <2>2, <2>3, <2>4 DEF FoldsInv, Phase
<1>10. QED
  BY <1>1, <1>7, <1>8, <1>9 DEF Phase

LEMMA FoldsStep == TypeOK /\ Control /\ FoldsInv /\ [Next]_vars => FoldsInv'
<1> SUFFICES ASSUME TypeOK, Control, FoldsInv, [Next]_vars PROVE FoldsInv'
  OBVIOUS
<1>1. ASSUME pc' \in {"client", "lists"} PROVE FoldsInv'
  BY <1>1 DEF FoldsInv, Phase
<1>2. CASE ListsDone
  <2>1. /\ pc' = "placeholderFolds" /\ pc = "lists"
        /\ UNCHANGED <<client, call, placeholders, index, knownIds, folds>>
    BY <1>2 DEF ListsDone, result
  <2>2. index' = 1 /\ index' - 1 = 0 /\ knownIds' = {} /\ folds' = NoFolds
    BY <2>1 DEF Control
  <2>3. FoldedTo("placeholderFolds", index - 1)' /\ KnownTo("placeholderFolds", index - 1)'
    BY <2>2, PhaseBegins DEF Phase, NoFolds
  <2>4. Len(Elements("placeholderFolds")') \in Nat
    BY <2>1, LenProperties DEF Elements, TypeOK
  <2>5. QED
    BY <2>1, <2>2, <2>3, <2>4 DEF FoldsInv, Phase, NoFolds
<1>3. CASE NewId
  BY <1>3, FoldsNewId
<1>4. CASE KnownId
  BY <1>4, FoldsKnownId
<1>5. CASE FoldsDone
  BY <1>5, FoldsFoldsDone
<1>6. CASE UNCHANGED vars
  <2>1. UNCHANGED <<client, pc, call, placeholders, index, knownIds, folds>>
    BY <1>6 DEF vars, result
  <2>2. /\ \A phase, k : FoldedTo(phase, k)' <=> FoldedTo(phase, k)
        /\ \A phase, k : KnownTo(phase, k)' <=> KnownTo(phase, k)
    BY <2>1, SameElements DEF FoldedTo, KnownTo
  <2>3. QED
    BY <2>1, <2>2, SameElements DEF FoldsInv
<1>7. CASE \/ \E t \in Thread, kind \in Kind : Construct(t, kind)
           \/ \E o \in 1..Len(objects) : PatternCast(o)
           \/ \E c \in Calls : CallAllOf(c)
           \/ SkipEmptyList
           \/ AddGroup
  BY <1>1, <1>7 DEF Construct, PatternCast, CallAllOf, SkipEmptyList, AddGroup
<1>8. QED
  BY <1>2, <1>3, <1>4, <1>5, <1>6, <1>7 DEF Next

LEMMA FoldsAreFirst == TypeOK /\ FoldsInv => FoldsAreFirstIndices
<1> SUFFICES ASSUME TypeOK, FoldsInv, pc = "done" PROVE FoldsAreFirstIndices
  BY DEF FoldsAreFirstIndices
<1>1. FoldedTo("placeholderFolds", Len(placeholders))
  BY DEF FoldsInv
<1>2. QED
  BY <1>1 DEF FoldsAreFirstIndices, FoldedTo, IsFirst, Id, Elements

-----------------------------------------------------------------------------
(***************************************************************************)
(* allOf: the groups are the non-empty lists handled so far.               *)
(***************************************************************************)
GroupsInv ==
  /\ Len(groups) = Cardinality(NonEmptyLists(li - 1))
  /\ UNION Range(groups) = 1..Len(placeholders)
  /\ \A g, h \in 1..Len(groups) : g # h => groups[g] \cap groups[h] = {}
  /\ \A i \in NonEmptyLists(li - 1) :
       IsListAt(call[i].list, groups[Cardinality(NonEmptyLists(i))])

\* Counting the non-empty lists.
LEMMA CountLists ==
  ASSUME NEW k \in Nat
  PROVE  /\ IsFiniteSet(NonEmptyLists(k))
         /\ Cardinality(NonEmptyLists(k)) \in Nat
         /\ \A i \in NonEmptyLists(k) :
              Cardinality(NonEmptyLists(i)) \in 1..Cardinality(NonEmptyLists(k))
<1>1. ASSUME NEW i \in 1..k
      PROVE  NonEmptyLists(i) \in SUBSET NonEmptyLists(k)
  BY DEF NonEmptyLists
<1>2. \A i \in Nat : IsFiniteSet(NonEmptyLists(i))
  <2>1. ASSUME NEW i \in Nat PROVE IsFiniteSet(NonEmptyLists(i))
    <3>1. NonEmptyLists(i) \in SUBSET (1..i) /\ IsFiniteSet(1..i)
      BY FS_Interval DEF NonEmptyLists
    <3>2. QED
      BY <3>1, FS_Subset
  <2>2. QED
    BY <2>1
<1>3. ASSUME NEW i \in NonEmptyLists(k)
      PROVE  Cardinality(NonEmptyLists(i)) \in 1..Cardinality(NonEmptyLists(k))
  <2>1. i \in 1..k /\ i \in Nat /\ i \in NonEmptyLists(i)
    BY DEF NonEmptyLists
  <2>2. Cardinality(NonEmptyLists(i)) <= Cardinality(NonEmptyLists(k))
    BY <1>1, <1>2, <2>1, FS_Subset
  <2>3. /\ Cardinality(NonEmptyLists(i)) \in Nat
        /\ Cardinality(NonEmptyLists(k)) \in Nat
        /\ Cardinality(NonEmptyLists(i)) # 0
    BY <1>2, <2>1, FS_CardinalityType, FS_EmptySet
  <2>4. QED
    BY <2>2, <2>3
<1>4. QED
  BY <1>2, <1>3, FS_CardinalityType

LEMMA NextList ==
  ASSUME NEW k \in Nat \ {0}
  PROVE  /\ call[k].list = <<>> => NonEmptyLists(k) = NonEmptyLists(k - 1)
         /\ call[k].list # <<>> =>
              /\ NonEmptyLists(k) = NonEmptyLists(k - 1) \cup {k}
              /\ Cardinality(NonEmptyLists(k)) = Cardinality(NonEmptyLists(k - 1)) + 1
<1>1. 1..k = 1..(k - 1) \cup {k} /\ k \notin 1..(k - 1)
  OBVIOUS
<1>2. /\ call[k].list = <<>> => NonEmptyLists(k) = NonEmptyLists(k - 1)
      /\ call[k].list # <<>> => NonEmptyLists(k) = NonEmptyLists(k - 1) \cup {k}
      /\ k \notin NonEmptyLists(k - 1)
  BY <1>1 DEF NonEmptyLists
<1>3. IsFiniteSet(NonEmptyLists(k - 1))
  BY CountLists
<1>4. QED
  BY <1>2, <1>3, FS_AddElement

LEMMA GroupsInit == Init => GroupsInv
<1> SUFFICES ASSUME Init PROVE GroupsInv
  OBVIOUS
<1>1. li - 1 = 0 /\ Len(groups) = 0 /\ Len(placeholders) = 0 /\ groups = <<>>
  BY EmptySeq DEF Init
<1>2. NonEmptyLists(0) = {} /\ Cardinality(NonEmptyLists(0)) = 0
  BY FS_EmptySet DEF NonEmptyLists
<1>3. Range(groups) = {}
  BY <1>1 DEF Range
<1>4. QED
  BY <1>1, <1>2, <1>3 DEF GroupsInv

LEMMA GroupsAddGroup ==
  ASSUME TypeOK, Control, GroupsInv, AddGroup
  PROVE  GroupsInv'
<1> DEFINE l == call[li].list
           n == Len(placeholders)
           group == (n + 1)..(n + Len(l))
           k == Len(groups)
<1>1. /\ li \in 1..Len(call) /\ Len(l) \in Nat \ {0} /\ n \in Nat /\ l # <<>>
      /\ placeholders' = placeholders \o l
      /\ Len(placeholders') = n + Len(l)
      /\ \A i \in 1..Len(l) : placeholders'[n + i] = l[i]
      /\ \A i \in 1..n : placeholders'[i] = placeholders[i]
  <2>1. /\ li \in 1..Len(call) /\ l \in Seq(1..Len(objects)) /\ n \in Nat
        /\ l # <<>> /\ placeholders' = placeholders \o l
        /\ placeholders \in Seq(1..Len(objects))
    BY ListFacts DEF AddGroup, TypeOK
  <2>2. Len(l) \in Nat \ {0}
    BY <2>1, EmptySeq
  <2>3. /\ Len(placeholders \o l) = n + Len(l)
        /\ \A i \in 1..(n + Len(l)) :
             (placeholders \o l)[i] = IF i <= n THEN placeholders[i] ELSE l[i - n]
    BY <2>1, ConcatProperties
  <2> DEFINE both == placeholders \o l
  <2> HIDE DEF l, n, both
  <2>4. \A i \in 1..n : i \in 1..(n + Len(l)) /\ i <= n
    BY <2>1, <2>2
  <2>5. /\ Len(both) = n + Len(l)
        /\ \A i \in 1..(n + Len(l)) :
             both[i] = IF i <= n THEN placeholders[i] ELSE l[i - n]
    BY <2>3 DEF both
  <2>6. ASSUME NEW i \in 1..Len(l) PROVE both[n + i] = l[i]
    <3> DEFINE j == n + i
    <3>1. j \in 1..(n + Len(l)) /\ ~(j <= n) /\ j - n = i
      <4> DEFINE d == Len(l)
      <4>1. n \in Nat /\ d \in Nat /\ i \in 1..d
        BY <2>1, <2>2
      <4> HIDE DEF d
      <4>2. QED
        BY ONLY <4>1 DEF d, j
    <3> HIDE DEF j
    <3>2. both[j] = l[j - n]
      BY ONLY <2>5, <3>1
    <3>3. QED
      BY <3>1, <3>2 DEF j
  <2>7. \A i \in 1..n : both[i] = placeholders[i]
    BY <2>4, <2>5
  <2>8. placeholders' = both
    BY <2>1 DEF both
  <2>9. QED
    BY ONLY <2>1, <2>2, <2>5, <2>6, <2>7, <2>8
<1>2. groups' = Append(groups, group) /\ li' = li + 1 /\ call' = call
  BY DEF AddGroup
<1> HIDE DEF l, n, group
<1>3. k \in Nat /\ \A g \in 1..k : groups[g] \in SUBSET (1..n)
  BY LenProperties, ElementOfSeq DEF TypeOK, n
<1>4. group \in SUBSET (1..Len(placeholders'))
  BY <1>1 DEF group
<1>5. /\ Len(groups') = k + 1
      /\ \A g \in 1..k : groups'[g] = groups[g]
      /\ groups'[k + 1] = group
      /\ DOMAIN groups' = 1..(k + 1) /\ DOMAIN groups = 1..k
  <2>1. groups \in Seq(SUBSET Nat)
    <3>1. SUBSET (1..n) \subseteq SUBSET Nat
      BY <1>1
    <3>2. QED
      BY <3>1, SeqMonotonic DEF TypeOK, n
  <2>2. group \in SUBSET Nat
    BY <1>1 DEF group
  <2> HIDE DEF k
  <2>3. /\ groups' \in Seq(SUBSET Nat) /\ Len(groups') = Len(groups) + 1
        /\ \A g \in 1..Len(groups) : groups'[g] = groups[g]
        /\ groups'[Len(groups) + 1] = group
    BY <1>2, <2>1, <2>2, AppendProperties
  <2>4. QED
    BY <2>1, <2>3, LenProperties DEF k
<1>6. /\ NonEmptyLists(li) = NonEmptyLists(li - 1) \cup {li}
      /\ Cardinality(NonEmptyLists(li)) = k + 1
      /\ k = Cardinality(NonEmptyLists(li - 1))
  BY <1>1, NextList DEF GroupsInv, l
<1>7. \A i : NonEmptyLists(i)' = NonEmptyLists(i)
  BY <1>2 DEF NonEmptyLists
<1>8. li' - 1 = li
  BY <1>1, <1>2
<1>9. (Len(groups) = Cardinality(NonEmptyLists(li - 1)))'
  <2>1. NonEmptyLists(li - 1)' = NonEmptyLists(li)
    BY <1>2, <1>8 DEF NonEmptyLists
  <2>2. QED
    BY <1>5, <1>6, <2>1
<1>10. UNION Range(groups') = 1..Len(placeholders')
  <2>1. UNION Range(groups') = (UNION Range(groups)) \cup group
    BY <1>3, <1>5 DEF Range
  <2>2. UNION Range(groups) = 1..n
    BY DEF GroupsInv, n
  <2>3. (1..n) \cup group = 1..(n + Len(l))
    BY <1>1 DEF group
  <2>4. QED
    BY <1>1, <2>1, <2>2, <2>3
<1>11. \A g, h \in 1..Len(groups') : g # h => groups'[g] \cap groups'[h] = {}
  <2>1. \A g \in 1..k : groups[g] \cap group = {}
    BY <1>1, <1>3 DEF group
  <2>2. \A g, h \in 1..k : g # h => groups[g] \cap groups[h] = {}
    BY DEF GroupsInv
  <2>3. QED
    BY <1>3, <1>5, <2>1, <2>2
<1>12. ASSUME NEW i \in NonEmptyLists(li)
       PROVE  IsListAt(call[i].list, groups[Cardinality(NonEmptyLists(i))])'
  <2>1. CASE i \in NonEmptyLists(li - 1)
    <3> DEFINE g == groups[Cardinality(NonEmptyLists(i))]
    <3>1. Cardinality(NonEmptyLists(i)) \in 1..k
      BY <1>1, <1>6, <2>1, CountLists
    <3>2. g \in SUBSET (1..n) /\ groups'[Cardinality(NonEmptyLists(i))] = g
      BY <1>3, <1>5, <3>1
    <3>3. PICK before \in 0..n :
            /\ g = (before + 1)..(before + Len(call[i].list))
            /\ \A j \in 1..Len(call[i].list) : placeholders[before + j] = call[i].list[j]
      BY <2>1 DEF GroupsInv, IsListAt, n
    <3>4. Len(call[i].list) \in Nat
      <4>1. i \in 1..Len(call)
        BY <1>1, LenProperties, <2>1 DEF NonEmptyLists, TypeOK
      <4>2. call[i] \in List
        BY <4>1, ElementOfSeq DEF TypeOK, List
      <4>3. QED
        BY <4>2, LenProperties DEF List
    <3> HIDE DEF g
    <3>5. \A j \in 1..Len(call[i].list) : before + j \in 1..n
      <4>1. ASSUME NEW j \in 1..Len(call[i].list) PROVE before + j \in g
        BY <1>1, <3>3, <3>4
      <4>2. QED
        BY <3>2, <4>1
    <3>6. \A j \in 1..Len(call[i].list) : placeholders'[before + j] = call[i].list[j]
      BY <1>1, <3>3, <3>5
    <3>7. before \in 0..Len(placeholders')
      BY <1>1
    <3>8. groups'[Cardinality(NonEmptyLists(i)')]
            = (before + 1)..(before + Len(call[i].list))
      BY <1>7, <3>2, <3>3 DEF g
    <3>9. QED
      BY <1>2, <3>6, <3>7, <3>8 DEF IsListAt
  <2>2. CASE i = li
    <3>1. groups'[Cardinality(NonEmptyLists(i))] = group
      BY <1>5, <1>6, <2>2
    <3>2. n \in 0..Len(placeholders')
      BY <1>1
    <3>3. groups'[Cardinality(NonEmptyLists(i)')] = (n + 1)..(n + Len(call[i].list))
      BY <1>7, <2>2, <3>1 DEF group, l
    <3>4. QED
      BY <1>1, <1>2, <2>2, <3>2, <3>3 DEF IsListAt, l
  <2>3. QED
    BY <1>6, <2>1, <2>2
<1>13. (\A i \in NonEmptyLists(li - 1) :
         IsListAt(call[i].list, groups[Cardinality(NonEmptyLists(i))]))'
  <2>1. NonEmptyLists(li - 1)' = NonEmptyLists(li)
    BY <1>2, <1>8 DEF NonEmptyLists
  <2>2. QED
    BY <1>12, <2>1
<1>14. QED
  BY <1>9, <1>10, <1>11, <1>13 DEF GroupsInv

\* Actions that leave the vectors and the place in the call alone.
LEMMA SameGroups ==
  ASSUME GroupsInv, UNCHANGED <<call, li, placeholders, groups>>
  PROVE  GroupsInv'
<1>1. (Len(groups) = Cardinality(NonEmptyLists(li - 1)))'
  BY DEF GroupsInv, NonEmptyLists
<1>2. /\ UNION Range(groups') = 1..Len(placeholders')
      /\ \A g, h \in 1..Len(groups') : g # h => groups'[g] \cap groups'[h] = {}
  BY DEF GroupsInv, Range
<1>3. NonEmptyLists(li - 1)' = NonEmptyLists(li - 1)
  BY DEF NonEmptyLists
<1>4. (\A i \in NonEmptyLists(li - 1) :
         IsListAt(call[i].list, groups[Cardinality(NonEmptyLists(i))]))'
  <2>1. ASSUME NEW i \in NonEmptyLists(li - 1)
        PROVE  IsListAt(call[i].list, groups[Cardinality(NonEmptyLists(i))])'
    <3>1. IsListAt(call[i].list, groups[Cardinality(NonEmptyLists(i))])
      BY DEF GroupsInv
    <3>2. QED
      BY <3>1 DEF IsListAt, NonEmptyLists
  <2>2. QED
    BY <1>3, <2>1
<1>5. QED
  BY <1>1, <1>2, <1>4 DEF GroupsInv, Range

LEMMA GroupsStep == TypeOK /\ Control /\ GroupsInv /\ [Next]_vars => GroupsInv'
<1> SUFFICES ASSUME TypeOK, Control, GroupsInv, [Next]_vars PROVE GroupsInv'
  OBVIOUS
<1>1. ASSUME NEW c \in Calls, CallAllOf(c) PROVE GroupsInv'
  <2>1. /\ pc = "client" /\ UNCHANGED <<li, placeholders, groups>>
        /\ li = 1 /\ placeholders = <<>> /\ groups = <<>>
    BY <1>1 DEF CallAllOf, result, Control
  <2>2. li' - 1 = 0 /\ Len(groups') = 0 /\ Len(placeholders') = 0 /\ groups' = <<>>
    BY <2>1, EmptySeq
  <2>3. NonEmptyLists(li - 1)' = {}
    BY <2>2 DEF NonEmptyLists
  <2>4. Range(groups') = {}
    BY <2>2 DEF Range
  <2>5. (Len(groups) = Cardinality(NonEmptyLists(li - 1)))'
    BY <2>2, <2>3, FS_EmptySet
  <2>6. UNION Range(groups') = 1..Len(placeholders')
    BY <2>2, <2>4
  <2>7. QED
    BY <2>2, <2>3, <2>5, <2>6 DEF GroupsInv
<1>2. CASE SkipEmptyList
  <2>1. /\ pc = "lists" /\ li <= Len(call) /\ call[li].list = <<>> /\ li' = li + 1
        /\ UNCHANGED <<call, placeholders, groups>>
    BY <1>2 DEF SkipEmptyList, result
  <2>2. li \in Nat \ {0} /\ li' - 1 = li
    BY <2>1, ListFacts
  <2>3. NonEmptyLists(li) = NonEmptyLists(li - 1)
    BY <2>1, <2>2, NextList
  <2>4. NonEmptyLists(li - 1)' = NonEmptyLists(li - 1)
    BY <2>1, <2>2, <2>3 DEF NonEmptyLists
  <2>5. (\A i \in NonEmptyLists(li - 1) :
           IsListAt(call[i].list, groups[Cardinality(NonEmptyLists(i))]))'
    <3>1. ASSUME NEW i \in NonEmptyLists(li - 1)
          PROVE  IsListAt(call[i].list, groups[Cardinality(NonEmptyLists(i))])'
      <4>1. IsListAt(call[i].list, groups[Cardinality(NonEmptyLists(i))])
        BY DEF GroupsInv
      <4>2. QED
        BY <2>1, <4>1 DEF IsListAt, NonEmptyLists
    <3>2. QED
      BY <2>4, <3>1
  <2>6. QED
    BY <2>1, <2>4, <2>5 DEF GroupsInv
<1>3. CASE AddGroup
  BY <1>3, GroupsAddGroup
<1>4. ASSUME NEW t \in Thread, NEW kind \in Kind, Construct(t, kind) PROVE GroupsInv'
  BY <1>4, SameGroups DEF Construct, result
<1>5. ASSUME NEW o \in 1..Len(objects), PatternCast(o) PROVE GroupsInv'
  BY <1>5, SameGroups DEF PatternCast, result
<1>6. CASE ListsDone \/ NewId \/ KnownId \/ FoldsDone \/ UNCHANGED vars
  BY <1>6, SameGroups DEF ListsDone, NewId, KnownId, FoldsDone, vars, result
<1>7. QED
  BY <1>1, <1>2, <1>3, <1>4, <1>5, <1>6 DEF Next

LEMMA GroupsAre == TypeOK /\ Control /\ GroupsInv => GroupsAreLists
<1> SUFFICES ASSUME TypeOK, Control, GroupsInv, pc = "done" PROVE GroupsAreLists
  BY DEF GroupsAreLists
<1>1. li - 1 = Len(call)
  BY LenProperties DEF Control, TypeOK
<1>2. QED
  BY <1>1 DEF GroupsAreLists, GroupsInv

LEMMA Invariants == Spec => [](TypeOK /\ Control /\ FoldsInv /\ GroupsInv)
<1>1. Init => FoldsInv
  BY DEF Init, FoldsInv, Phase
<1>2. QED
  BY <1>1, ControlInit, ControlStep, FoldsStep, GroupsInit, GroupsStep, PTL DEF Spec

\* A finished set is as its comments say: the fold of a position is the first
\* position with the same id, and the groups are the non-empty lists of the call,
\* in their order and with their placeholders in order.
THEOREM SetsAreWellFormed == Spec => []SetIsWellFormed
<1>1. TypeOK /\ Control /\ FoldsInv /\ GroupsInv => SetIsWellFormed
  BY FoldsAreFirst, GroupsAre DEF SetIsWellFormed
<1>2. QED
  BY <1>1, Invariants, PTL

\* When no list is empty, the group fold of a list is that of another exactly if
\* their array placeholders have one id.
THEOREM GroupFoldsAreArrays == Spec => []GroupFoldsFollowArrays
<1>1. ASSUME TypeOK, FoldsInv PROVE GroupFoldsFollowArrays
  <2> SUFFICES ASSUME pc = "done", Len(groups) = Len(call), folds["groupFolds"] # <<>>
               PROVE  /\ Len(folds["groupFolds"]) = Len(groups)
                      /\ \A g, h \in 1..Len(groups) :
                           folds["groupFolds"][g] = folds["groupFolds"][h]
                             <=> objects[call[g].array].id = objects[call[h].array].id
    BY DEF GroupFoldsFollowArrays
  <2>1. FoldedTo("groupFolds", Len(call))
    BY <1>1 DEF FoldsInv
  <2>2. \A g \in 1..Len(call) : Id("groupFolds", g) = objects[call[g].array].id
    BY DEF Id, Elements
  <2>3. Len(call) \in Nat
    BY <1>1, LenProperties DEF TypeOK
  <2>4. ASSUME NEW g \in 1..Len(call), NEW h \in 1..Len(call)
        PROVE  folds["groupFolds"][g] = folds["groupFolds"][h]
                 <=> Id("groupFolds", g) = Id("groupFolds", h)
    BY <2>1, <2>3 DEF FoldedTo, IsFirst
  <2>5. QED
    BY <2>1, <2>2, <2>4 DEF FoldedTo
<1>2. QED
  BY <1>1, Invariants, PTL

-----------------------------------------------------------------------------
(***************************************************************************)
(* Identity of placeholders: an id of a thread and an instantiation is     *)
(* given out once, and copies keep it.                                     *)
(***************************************************************************)
IsOriginal(all, r) == r \in 1..Len(all) /\ all[r].origin = r

IdsInv ==
  /\ \A o \in 1..Len(objects) :
       LET r == objects[o].origin
       IN  /\ IsOriginal(objects, r)
           /\ objects[r].id = objects[o].id
           /\ objects[r].thread = objects[o].thread
  /\ \A r \in 1..Len(objects) : IsOriginal(objects, r) =>
       objects[r].id < nextId[objects[r].thread][objects[r].kind]
  /\ \A r, s \in 1..Len(objects) :
       /\ IsOriginal(objects, r) /\ IsOriginal(objects, s)
       /\ objects[r].thread = objects[s].thread
       /\ objects[r].kind = objects[s].kind
       /\ objects[r].id = objects[s].id
       => r = s

LEMMA AppendObject ==
  ASSUME TypeOK, NEW o \in Object, objects' = Append(objects, o)
  PROVE  /\ Len(objects) \in Nat
         /\ Len(objects') = Len(objects) + 1
         /\ \A i \in 1..Len(objects) : objects'[i] = objects[i] /\ objects[i] \in Object
         /\ objects'[Len(objects) + 1] = o
         /\ \A i \in 1..Len(objects) : IsOriginal(objects', i) <=> IsOriginal(objects, i)
<1>1. objects \in Seq(Object)
  BY DEF TypeOK, Object
<1>2. /\ Len(objects) \in Nat
      /\ Len(objects') = Len(objects) + 1
      /\ \A i \in 1..Len(objects) : objects'[i] = objects[i] /\ objects[i] \in Object
      /\ objects'[Len(objects) + 1] = o
  BY <1>1, AppendProperties, LenProperties, ElementOfSeq
<1>3. QED
  BY <1>2 DEF IsOriginal

LEMMA IdsConstruct ==
  ASSUME TypeOK, IdsInv, NEW t \in Thread, NEW kind \in Kind, Construct(t, kind)
  PROVE  IdsInv'
<1> DEFINE n == Len(objects)
           o == [id |-> nextId[t][kind], kind |-> kind, thread |-> t, origin |-> n + 1]
<1>1. o \in Object
  BY LenProperties DEF TypeOK, Object
<1>2. objects' = Append(objects, o)
  BY DEF Construct
<1>3. /\ n \in Nat /\ Len(objects') = n + 1
      /\ \A i \in 1..n : objects'[i] = objects[i] /\ objects[i] \in Object
      /\ objects'[n + 1] = o
      /\ \A i \in 1..n : IsOriginal(objects', i) <=> IsOriginal(objects, i)
  BY <1>1, <1>2, AppendObject
<1>4. IsOriginal(objects', n + 1)
  BY <1>3 DEF IsOriginal
<1>5. /\ nextId' = [nextId EXCEPT ![t] = [nextId[t] EXCEPT ![kind] = nextId[t][kind] + 1]]
      /\ nextId \in [Thread -> [Kind -> Nat]]
  BY DEF Construct, TypeOK
<1>6. \A u \in Thread, j \in Kind :
        nextId'[u][j] = IF u = t /\ j = kind THEN nextId[t][kind] + 1 ELSE nextId[u][j]
  BY <1>5
<1>7. o.id = nextId[t][kind] /\ o.kind = kind /\ o.thread = t /\ o.origin = n + 1
  OBVIOUS
<1>8. \A i \in 1..n : /\ objects[i].id \in Nat /\ objects[i].kind \in Kind
                       /\ objects[i].thread \in Thread
  BY <1>3 DEF Object
<1>9. nextId[t][kind] \in Nat
  BY <1>5
<1> HIDE DEF n, o
<1>10. \A i \in 1..(n + 1) :
         LET r == objects'[i].origin
         IN  /\ IsOriginal(objects', r)
             /\ objects'[r].id = objects'[i].id
             /\ objects'[r].thread = objects'[i].thread
  <2>1. ASSUME NEW i \in 1..n
        PROVE  LET r == objects'[i].origin
               IN  /\ IsOriginal(objects', r)
                   /\ objects'[r].id = objects'[i].id
                   /\ objects'[r].thread = objects'[i].thread
    <3>1. objects[i].origin \in 1..n
      BY DEF IdsInv, IsOriginal, n
    <3>2. QED
      BY <1>3, <3>1 DEF IdsInv, n
  <2>2. QED
    BY <1>3, <1>4, <1>7, <2>1
<1>11. \A r \in 1..(n + 1) : IsOriginal(objects', r) =>
         objects'[r].id < nextId'[objects'[r].thread][objects'[r].kind]
  <2>1. ASSUME NEW r \in 1..n, IsOriginal(objects, r)
        PROVE  objects[r].id < nextId'[objects[r].thread][objects[r].kind]
    <3>1. objects[r].id < nextId[objects[r].thread][objects[r].kind]
      BY <2>1 DEF IdsInv, n
    <3>2. QED
      BY <1>6, <1>8, <1>9, <3>1
  <2>2. nextId[t][kind] < nextId'[t][kind]
    BY <1>6, <1>9
  <2>3. QED
    BY <1>3, <1>7, <2>1, <2>2
<1>12. \A r, s \in 1..(n + 1) :
         /\ IsOriginal(objects', r) /\ IsOriginal(objects', s)
         /\ objects'[r].thread = objects'[s].thread
         /\ objects'[r].kind = objects'[s].kind
         /\ objects'[r].id = objects'[s].id
         => r = s
  <2>1. ASSUME NEW r \in 1..n, IsOriginal(objects, r), objects[r].thread = t, objects[r].kind = kind
        PROVE  objects[r].id # nextId[t][kind]
    BY <1>8, <1>9, <2>1 DEF IdsInv, n
  <2>2. \A r, s \in 1..n :
         /\ IsOriginal(objects, r) /\ IsOriginal(objects, s)
         /\ objects[r].thread = objects[s].thread
         /\ objects[r].kind = objects[s].kind
         /\ objects[r].id = objects[s].id
         => r = s
    BY DEF IdsInv, n
  <2>3. \A r \in 1..n : /\ objects'[r] = objects[r] /\ (IsOriginal(objects', r) <=> IsOriginal(objects, r))
    BY <1>3
  <2>4. QED
    BY <1>3, <1>7, <2>1, <2>2, <2>3
<1>13. QED
  BY <1>3, <1>10, <1>11, <1>12 DEF IdsInv

LEMMA IdsPatternCast ==
  ASSUME TypeOK, IdsInv, NEW c \in 1..Len(objects), PatternCast(c)
  PROVE  IdsInv'
<1> DEFINE n == Len(objects)
           o == [objects[c] EXCEPT !.kind = "fixed"]
<1>1. objects[c] \in Object
  BY ElementOfSeq DEF TypeOK, Object
<1>2. /\ o \in Object /\ o.id = objects[c].id /\ o.thread = objects[c].thread
      /\ o.origin = objects[c].origin
  BY <1>1 DEF Object, Kind
<1>3. objects' = Append(objects, o) /\ nextId' = nextId
  BY DEF PatternCast
<1> HIDE DEF o
<1>4. /\ n \in Nat /\ Len(objects') = n + 1
      /\ \A i \in 1..n : objects'[i] = objects[i] /\ objects[i] \in Object
      /\ objects'[n + 1] = o
      /\ \A i \in 1..n : IsOriginal(objects', i) <=> IsOriginal(objects, i)
  BY <1>2, <1>3, AppendObject
<1>5. \A i \in 1..n : objects[i].origin \in 1..n
  BY DEF IdsInv, IsOriginal
<1>6. ~IsOriginal(objects', n + 1)
  BY <1>2, <1>4, <1>5 DEF IsOriginal
<1> HIDE DEF n
<1>7. ASSUME NEW i \in 1..(n + 1)
      PROVE  LET r == objects'[i].origin
             IN  /\ IsOriginal(objects', r)
                 /\ objects'[r].id = objects'[i].id
                 /\ objects'[r].thread = objects'[i].thread
  <2>1. ASSUME NEW k \in 1..n
        PROVE  LET r == objects[k].origin
               IN  /\ IsOriginal(objects', r)
                   /\ objects'[r].id = objects[k].id
                   /\ objects'[r].thread = objects[k].thread
    BY <1>4, <1>5 DEF IdsInv, n
  <2>2. CASE i \in 1..n
    BY <1>4, <2>1, <2>2
  <2>3. CASE i = n + 1
    BY <1>2, <1>4, <2>1, <2>3 DEF n
  <2>4. QED
    BY <1>4, <2>2, <2>3
<1>8. \A r \in 1..(n + 1) : IsOriginal(objects', r) => r \in 1..n
  BY <1>4, <1>6
<1>9. \A r \in 1..n : /\ IsOriginal(objects', r) <=> IsOriginal(objects, r)
                     /\ objects'[r] = objects[r]
  BY <1>4
<1>10. \A r \in 1..(n + 1) : IsOriginal(objects', r) =>
         objects'[r].id < nextId'[objects'[r].thread][objects'[r].kind]
  BY <1>3, <1>8, <1>9 DEF IdsInv, n
<1>11. \A r, s \in 1..(n + 1) :
         /\ IsOriginal(objects', r) /\ IsOriginal(objects', s)
         /\ objects'[r].thread = objects'[s].thread
         /\ objects'[r].kind = objects'[s].kind
         /\ objects'[r].id = objects'[s].id
         => r = s
  BY <1>8, <1>9 DEF IdsInv, n
<1>12. QED
  BY <1>4, <1>7, <1>10, <1>11 DEF IdsInv

LEMMA IdsStep == TypeOK /\ IdsInv /\ [Next]_vars => IdsInv'
<1> SUFFICES ASSUME TypeOK, IdsInv, [Next]_vars PROVE IdsInv'
  OBVIOUS
<1>1. ASSUME NEW t \in Thread, NEW kind \in Kind, Construct(t, kind) PROVE IdsInv'
  BY <1>1, IdsConstruct
<1>2. ASSUME NEW o \in 1..Len(objects), PatternCast(o) PROVE IdsInv'
  BY <1>2, IdsPatternCast
<1>3. ASSUME UNCHANGED client PROVE IdsInv'
  BY <1>3 DEF client, IdsInv, IsOriginal
<1>4. ASSUME NEW c \in Calls, CallAllOf(c) PROVE UNCHANGED client
  BY <1>4 DEF CallAllOf
<1>5. SkipEmptyList \/ AddGroup \/ ListsDone \/ NewId \/ KnownId \/ FoldsDone
        \/ UNCHANGED vars => UNCHANGED client
  BY DEF SkipEmptyList, AddGroup, ListsDone, NewId, KnownId, FoldsDone, vars
<1>6. QED
  BY <1>1, <1>2, <1>3, <1>4, <1>5 DEF Next

LEMMA FoldsFollow == TypeOK /\ FoldsInv /\ IdsInv => FoldsFollowPlaceholders
<1> SUFFICES ASSUME TypeOK, FoldsInv, IdsInv, pc = "done",
                    NEW p \in 1..Len(placeholders), NEW q \in 1..Len(placeholders),
                    objects[placeholders[p]].thread = objects[placeholders[q]].thread,
                    Made(placeholders[p]) = Made(placeholders[q])
             PROVE  folds["placeholderFolds"][p] = folds["placeholderFolds"][q]
                      <=> SamePlaceholder(placeholders[p], placeholders[q])
  BY DEF FoldsFollowPlaceholders
<1> DEFINE o == placeholders[p]
           r == placeholders[q]
<1>1. o \in 1..Len(objects) /\ r \in 1..Len(objects)
  BY ElementOfSeq DEF TypeOK
<1>2. Len(placeholders) \in Nat
  BY LenProperties DEF TypeOK
<1>3. FoldedTo("placeholderFolds", Len(placeholders))
  BY DEF FoldsInv
<1>4. Id("placeholderFolds", p) = objects[o].id /\ Id("placeholderFolds", q) = objects[r].id
  BY DEF Id, Elements
<1>5. folds["placeholderFolds"][p] = folds["placeholderFolds"][q]
        <=> Id("placeholderFolds", p) = Id("placeholderFolds", q)
  BY <1>2, <1>3 DEF FoldedTo, IsFirst
<1>6. objects[o].id = objects[r].id <=> objects[o].origin = objects[r].origin
  <2> DEFINE a == objects[o].origin
             b == objects[r].origin
  <2>1. /\ IsOriginal(objects, a) /\ objects[o].id = objects[a].id
        /\ objects[o].thread = objects[a].thread
        /\ IsOriginal(objects, b) /\ objects[r].id = objects[b].id
        /\ objects[r].thread = objects[b].thread
    BY <1>1 DEF IdsInv
  <2>2. objects[a].kind = objects[b].kind
    BY DEF Made
  <2> HIDE DEF a, b, o, r
  <2>3. objects[a].thread = objects[b].thread
    BY <2>1 DEF o, r
  <2>4. objects[a].id = objects[b].id => a = b
    BY <2>1, <2>2, <2>3 DEF IdsInv, IsOriginal
  <2>5. QED
    BY <2>1, <2>4 DEF a, b
<1>7. QED
  BY <1>4, <1>5, <1>6 DEF SamePlaceholder

\* Within one thread and instantiation, two positions are in one fold exactly
\* if they hold copies of one placeholder, however it was copied and cast.
THEOREM FoldsAreIdentity == Spec => []FoldsFollowPlaceholders
<1>1. Init => IdsInv
  BY EmptySeq DEF Init, IdsInv
<1>2. QED
  BY <1>1, Invariants, IdsStep, FoldsFollow, PTL DEF Spec

=============================================================================
