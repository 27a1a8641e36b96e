----------------------------- MODULE PetScop_proofs -----------------------------
(***************************************************************************)
(* The objects, schedules and code generation of pet::Scop, for all        *)
(* threads, clients and schedules.                                         *)
(***************************************************************************)
EXTENDS PetScop, Trees_proofs

IsSequence(s) == \E S : s \in Seq(S)

HasFields(r, F) == r = [f \in F |-> r[f]]

PetFields == {"source", "schedule", "freed", "known", "deps", "legal"}

LEMMA SequenceFacts ==
  ASSUME NEW s, IsSequence(s)
  PROVE  Len(s) \in Nat /\ DOMAIN s = 1..Len(s)
<1>1. PICK S : s \in Seq(S)
  BY DEF IsSequence
<1>2. QED
  BY <1>1, LenProperties

LEMMA AppendFacts ==
  ASSUME NEW s, IsSequence(s), NEW x
  PROVE  /\ IsSequence(Append(s, x))
         /\ Len(Append(s, x)) = Len(s) + 1
         /\ \A i \in 1..Len(s) : Append(s, x)[i] = s[i]
         /\ Append(s, x)[Len(s) + 1] = x
<1>1. PICK S : s \in Seq(S)
  BY DEF IsSequence
<1>2. s \in Seq(S \cup {x}) /\ x \in S \cup {x}
  BY <1>1
<1>3. QED
  BY <1>2, AppendProperties DEF IsSequence

LEMMA ExceptFacts ==
  ASSUME NEW seq, IsSequence(seq), NEW k \in 1..Len(seq), NEW x
  PROVE  /\ IsSequence([seq EXCEPT ![k] = x])
         /\ Len([seq EXCEPT ![k] = x]) = Len(seq)
         /\ \A i \in 1..Len(seq) : [seq EXCEPT ![k] = x][i] = IF i = k THEN x ELSE seq[i]
<1>1. PICK S : seq \in Seq(S)
  BY DEF IsSequence
<1>2. seq \in Seq(S \cup {x})
  BY <1>1
<1>3. [seq EXCEPT ![k] = x] \in Seq(S \cup {x}) /\ Len([seq EXCEPT ![k] = x]) = Len(seq)
  BY <1>2, ExceptSeq
<1>4. QED
  BY <1>1, <1>3, LenProperties DEF IsSequence

LEMMA EmptyIsSequence == IsSequence(<<>>) /\ Len(<<>>) = 0 /\ DOMAIN <<>> = {}
<1>1. <<>> \in Seq({})
  OBVIOUS
<1>2. QED
  BY <1>1, LenProperties DEF IsSequence

-----------------------------------------------------------------------------
(***************************************************************************)
(* Objects.                                                                *)
(***************************************************************************)
\* What pets and the objects are, whoever moves them.
PetsInv ==
  /\ client \in DOMAIN Clients
  /\ IsSequence(pets)
  /\ \A p \in 1..Len(pets) :
       /\ HasFields(pets[p], PetFields)
       /\ pets[p].freed \in {0, 1}
       /\ IsSequence(pets[p].schedule)
  /\ scop_ \in [Scops -> 0..Len(pets)]

LEMMA PetsInit == Init => PetsInv
BY EmptyIsSequence DEF Init, PetsInv

\* The steps of code generation leave the objects alone.
LEMMA CallbacksKeepPets ==
  ASSUME NEW t \in Thread,
         AtDomain(t) \/ Describe(t) \/ StartPrinting(t)
           \/ PrintStatement(t) \/ PrintStatementDies(t) \/ ReturnCode(t)
  PROVE  UNCHANGED <<client, pets, scop_, undefined>>
BY DEF AtDomain, Describe, StartPrinting, PrintStatement, PrintStatementDies, ReturnCode, Rest

LEMMA SamePets ==
  PetsInv /\ UNCHANGED <<client, pets, scop_, undefined>>
    => PetsInv'
BY DEF PetsInv

LEMMA ParsePets ==
  ASSUME PetsInv, NEW s \in Scops, parseFile(s)
  PROVE  PetsInv'
<1>1. PICK source \in Clients[client].sources :
        pets' = Append(pets, [source |-> source, schedule |-> source.order,
                              freed |-> 0, known |-> FALSE, deps |-> {}, legal |-> TRUE])
  BY DEF parseFile
<1> DEFINE pet == [source |-> source, schedule |-> source.order,
                   freed |-> 0, known |-> FALSE, deps |-> {}, legal |-> TRUE]
<1>2. /\ IsSequence(pets') /\ Len(pets') = Len(pets) + 1
      /\ \A p \in 1..Len(pets) : pets'[p] = pets[p]
      /\ pets'[Len(pets) + 1] = pet
  BY <1>1, AppendFacts DEF PetsInv
<1>3. HasFields(pet, PetFields) /\ pet.freed = 0 /\ pet.schedule = source.order
  BY DEF HasFields, PetFields
<1>4. IsSequence(source.order)
  BY ClientsAssumption DEF PetsInv, IsSequence
<1> HIDE DEF pet
<1>5. Len(pets) \in Nat
  BY SequenceFacts DEF PetsInv
<1>6. /\ scop_' = [scop_ EXCEPT ![s] = Len(pets) + 1]
      /\ scop_[s] = 0 /\ UNCHANGED <<client, undefined>>
  BY <1>2 DEF parseFile, Call
<1>7. QED
  BY <1>2, <1>3, <1>4, <1>5, <1>6 DEF PetsInv

LEMMA DestroyPets ==
  ASSUME PetsInv, NEW s \in Scops, Destroy(s)
  PROVE  PetsInv'
<1>1. /\ scop_[s] # 0 /\ pets[scop_[s]].freed = 0
      /\ pets' = [pets EXCEPT ![scop_[s]].freed = 1]
      /\ scop_' = [scop_ EXCEPT ![s] = 0]
      /\ UNCHANGED <<client, undefined>>
  BY DEF Destroy, Use
<1>2. Len(pets) \in Nat /\ DOMAIN pets = 1..Len(pets) /\ scop_[s] \in 1..Len(pets)
  BY <1>1, SequenceFacts DEF PetsInv
<1>3. pets' = [pets EXCEPT ![scop_[s]] = [pets[scop_[s]] EXCEPT !.freed = 1]]
  BY <1>1
<1>4. HasFields([pets[scop_[s]] EXCEPT !.freed = 1], PetFields)
      /\ [pets[scop_[s]] EXCEPT !.freed = 1].freed = 1
      /\ [pets[scop_[s]] EXCEPT !.freed = 1].schedule = pets[scop_[s]].schedule
  BY <1>2 DEF PetsInv, HasFields, PetFields
<1>5. /\ IsSequence(pets') /\ Len(pets') = Len(pets)
      /\ \A i \in 1..Len(pets) :
           pets'[i] = IF i = scop_[s] THEN [pets[scop_[s]] EXCEPT !.freed = 1] ELSE pets[i]
  <2> DEFINE pet == [pets[scop_[s]] EXCEPT !.freed = 1]
  <2>1. IsSequence(pets) /\ pets' = [pets EXCEPT ![scop_[s]] = pet]
    BY <1>3 DEF PetsInv
  <2> HIDE DEF pet
  <2>2. /\ IsSequence(pets') /\ Len(pets') = Len(pets)
        /\ \A i \in 1..Len(pets) : pets'[i] = IF i = scop_[s] THEN pet ELSE pets[i]
    BY <1>2, <2>1, ExceptFacts, Zenon
  <2>3. QED
    BY <2>2 DEF pet
<1>6. QED
  BY <1>1, <1>2, <1>4, <1>5 DEF PetsInv

\* Schedules and dependences are changed in a pet_scop that stays whose it is.
LEMMA ChangePets ==
  ASSUME PetsInv, NEW s \in Scops, scop_[s] # 0, NEW STATE changed,
         pets' = [pets EXCEPT ![scop_[s]] = changed],
         HasFields(changed, PetFields), changed.freed = pets[scop_[s]].freed,
         IsSequence(changed.schedule), UNCHANGED <<client, scop_, undefined>>
  PROVE  PetsInv'
<1>1. Len(pets) \in Nat /\ DOMAIN pets = 1..Len(pets) /\ scop_[s] \in 1..Len(pets)
  BY SequenceFacts DEF PetsInv
<1>2. /\ IsSequence(pets') /\ Len(pets') = Len(pets)
      /\ \A i \in 1..Len(pets) : pets'[i] = IF i = scop_[s] THEN changed ELSE pets[i]
  <2>1. IsSequence(pets) /\ pets' = [pets EXCEPT ![scop_[s]] = changed]
    BY DEF PetsInv
  <2>2. QED
    BY ONLY <1>1, <2>1, ExceptFacts, Zenon
<1>3. QED
  BY <1>1, <1>2 DEF PetsInv

LEMMA AssignPets ==
  ASSUME PetsInv, NEW s \in Scops, assignSchedule(s)
  PROVE  PetsInv'
<1>1. PICK schedule \in Clients[client].schedules :
        pets' = [pets EXCEPT ![scop_[s]].schedule = schedule,
                   ![scop_[s]].legal = @ /\ pets[scop_[s]].known
                                         /\ Keeps(schedule, pets[scop_[s]].deps)]
  BY DEF assignSchedule
<1>2. /\ scop_[s] # 0
      /\ UNCHANGED <<client, scop_, undefined>>
  BY DEF assignSchedule, Use
<1>3. Len(pets) \in Nat /\ DOMAIN pets = 1..Len(pets) /\ scop_[s] \in 1..Len(pets)
  BY <1>2, SequenceFacts DEF PetsInv
<1> DEFINE legal == pets[scop_[s]].legal /\ pets[scop_[s]].known
                      /\ Keeps(schedule, pets[scop_[s]].deps)
           pet == [pets[scop_[s]] EXCEPT !.schedule = schedule, !.legal = legal]
<1>4. pets' = [pets EXCEPT ![scop_[s]] = pet]
  BY <1>1, <1>3 DEF PetsInv, HasFields, PetFields
<1>5. HasFields(pet, PetFields) /\ pet.freed = pets[scop_[s]].freed /\ pet.schedule = schedule
  BY <1>3 DEF PetsInv, HasFields, PetFields
<1>6. IsSequence(schedule)
  BY ClientsAssumption DEF PetsInv, IsSequence
<1> HIDE DEF pet
<1>7. QED
  BY <1>2, <1>4, <1>5, <1>6, ChangePets

LEMMA DepsPets ==
  ASSUME PetsInv, NEW s \in Scops, ComputeAllDeps(s)
  PROVE  PetsInv'
<1> DEFINE deps == compute_all_deps(pets[scop_[s]].source, pets[scop_[s]].schedule)
           pet == [pets[scop_[s]] EXCEPT !.known = TRUE, !.deps = deps]
<1>1. /\ scop_[s] # 0
      /\ pets' = [pets EXCEPT ![scop_[s]].known = TRUE, ![scop_[s]].deps = deps]
      /\ UNCHANGED <<client, scop_, undefined>>
  BY DEF ComputeAllDeps, Use
<1>2. Len(pets) \in Nat /\ DOMAIN pets = 1..Len(pets) /\ scop_[s] \in 1..Len(pets)
  BY <1>1, SequenceFacts DEF PetsInv
<1> HIDE DEF deps
<1>3. pets' = [pets EXCEPT ![scop_[s]] = pet]
  BY <1>1, <1>2 DEF PetsInv, HasFields, PetFields
<1>4. /\ HasFields(pet, PetFields) /\ pet.freed = pets[scop_[s]].freed
      /\ pet.schedule = pets[scop_[s]].schedule
  BY <1>2 DEF PetsInv, HasFields, PetFields
<1>5. IsSequence(pet.schedule)
  BY <1>2, <1>4 DEF PetsInv
<1> HIDE DEF pet
<1>6. QED
  BY <1>1, <1>3, <1>4, <1>5, ChangePets

LEMMA PetsStep == PetsInv /\ [Next]_vars => PetsInv'
<1> SUFFICES ASSUME PetsInv, [Next]_vars
             PROVE  PetsInv'
  OBVIOUS
<1>1. Clients[client].scops \subseteq Scops
  BY ClientsAssumption DEF PetsInv
<1>2. ASSUME NEW s \in Scops, UseFreed(s)
      PROVE  PetsInv'
  <2>1. UNCHANGED <<client, pets, scop_>>
    BY <1>2 DEF UseFreed
  <2>2. QED
    BY <2>1 DEF PetsInv
<1>3. ASSUME NEW s \in Scops, NEW from \in Scops, Construct(s, from) \/ Move(s, from)
      PROVE  PetsInv'
  <2>1. /\ scop_' = [scop_ EXCEPT ![s] = scop_[from]]
        /\ UNCHANGED <<client, pets>>
    BY <1>3 DEF Construct, Move
  <2>2. QED
    BY <2>1 DEF PetsInv
<1>4. ASSUME NEW s \in Scops, Arrays(s) \/ codegen(s)
      PROVE  PetsInv'
  <2>1. UNCHANGED <<client, pets, scop_, undefined>>
    BY <1>4 DEF Arrays, codegen
  <2>2. QED
    BY <2>1, SamePets
<1>5. CASE UNCHANGED vars
  BY <1>5, SamePets DEF vars
<1>6. CASE Next
  BY <1>1, <1>2, <1>3, <1>4, <1>6, ParsePets, DestroyPets, AssignPets, DepsPets,
     CallbacksKeepPets, SamePets DEF Next
<1>7. QED
  BY <1>5, <1>6

-----------------------------------------------------------------------------
(***************************************************************************)
(* Code generation.                                                        *)
(***************************************************************************)
GenFields == {"pc", "custom", "source", "leaves", "left", "leaf", "register",
              "statements", "annotation", "printed"}

\* Where the call stands: the leaves that isl has called back for are those not
\* left, and those printed are the first ones.
Shape(g) ==
  /\ HasFields(g, GenFields)
  /\ IsSequence(g.leaves) /\ IsSequence(g.statements) /\ IsSequence(g.printed)
  /\ g.pc \in {"idle", "build", "store", "print", "done", "died"}
  /\ g.left \subseteq DOMAIN g.leaves
  /\ g.register \in Nat
  /\ g.pc = "store" => g.leaf \in (DOMAIN g.leaves) \ g.left
  /\ g.pc \notin {"build", "store"} => g.left = {}
  /\ g.pc \in {"build", "store"} => Len(g.printed) = 0
  /\ g.pc = "print" => g.leaf = Len(g.printed) + 1
  /\ Len(g.printed) <= Len(g.leaves)

\* A leaf is annotated with an id that begins with its statement, and there is a
\* descriptor with that id and the place of the leaf; descriptors are of the
\* statement that their id begins with.
Annotated(g) ==
  /\ DOMAIN g.annotation =
       ((DOMAIN g.leaves) \ g.left) \ (IF g.pc = "store" THEN {g.leaf} ELSE {})
  /\ \A i \in 1..Len(g.statements) :
       g.statements[i].occurrenceId[1] = g.statements[i].stmt
  /\ \A l \in DOMAIN g.annotation :
       /\ g.annotation[l][1] = stmtName(g, l)
       /\ \E i \in 1..Len(g.statements) :
            /\ g.statements[i].occurrenceId = g.annotation[l]
            /\ g.statements[i].astBuild = g.leaves[l]

Printed(g) ==
  \A l \in 1..Len(g.printed) :
    /\ g.printed[l].stmt = stmtName(g, l)
    /\ g.printed[l].comment <=> ~IsPet(g.source, stmtName(g, l))

CallInv(g) == Shape(g) /\ Annotated(g) /\ Printed(g)

GenInv ==
  /\ counter \in Nat
  /\ gen = [t \in Thread |-> gen[t]]
  /\ \A t \in Thread : CallInv(gen[t])

\* The step from g to h ends the building of the AST, or the call, and no more.
Silent(g, h) ==
  /\ h.pc \notin {"build", "store"}
  /\ h.statements = g.statements /\ h.printed = g.printed /\ h.leaves = g.leaves

LEMMA IdleInv == CallInv(Idle)
<1>1. HasFields(Idle, GenFields)
  BY DEF HasFields, GenFields, Idle
<1>2. Shape(Idle)
  BY <1>1, EmptyIsSequence DEF Shape, Idle
<1>3. Annotated(Idle) /\ Printed(Idle)
  BY EmptyIsSequence DEF Annotated, Printed, Idle
<1>4. QED
  BY <1>2, <1>3 DEF CallInv

\* isl's AST is a list of leaves.
LEMMA LeavesAreSequence ==
  ASSUME NEW source, NEW schedule, IsSequence(schedule),
         NEW leaves \in Leaves(source, schedule)
  PROVE  IsSequence(leaves)
<1> DEFINE n == Len(schedule)
           name(i) == source.stmt[schedule[i]]
           changes == {i \in 1..n - 1 : name(i) # name(i + 1)}
<1>1. n \in Nat
  BY SequenceFacts
<1>2. PICK more \in SUBSET (1..n - 1) :
        DOMAIN leaves = 1..Cardinality(changes \cup more \cup {n})
        /\ leaves = [l \in DOMAIN leaves |-> leaves[l]]
  BY DEF Leaves
<1> DEFINE ends == changes \cup more \cup {n}
<1>3. ends \subseteq 0..n
  <2>1. changes \subseteq 1..n - 1 /\ more \subseteq 1..n - 1
    BY <1>2
  <2> HIDE DEF n, changes
  <2>2. QED
    BY <1>1, <2>1
<1>4. IsFiniteSet(ends)
  <2> HIDE DEF n, ends
  <2>1. 0 \in Int /\ n \in Int
    BY <1>1
  <2>2. IsFiniteSet(0..n)
    BY <2>1, FS_Interval, Zenon
  <2>3. QED
    BY <1>3, <2>2, FS_Subset, Zenon
<1>5. Cardinality(ends) \in Nat
  BY <1>4, FS_CardinalityType
<1>6. leaves \in Seq({leaves[l] : l \in DOMAIN leaves})
  <2> DEFINE k == Cardinality(ends)
  <2>1. DOMAIN leaves = 1..k /\ leaves = [l \in DOMAIN leaves |-> leaves[l]]
    BY <1>2
  <2> HIDE DEF k, ends
  <2>2. k \in Nat
    BY <1>5 DEF k
  <2>3. leaves \in [1..k -> {leaves[l] : l \in DOMAIN leaves}]
    BY ONLY <2>1
  <2>4. QED
    BY ONLY <2>2, <2>3, SeqDef
<1>7. QED
  BY <1>6 DEF IsSequence

LEMMA CallsStart ==
  ASSUME PetsInv, GenInv, NEW s \in Scops, codegen(s)
  PROVE  \E h : /\ CallInv(h) /\ gen' = [gen EXCEPT ![s.thread] = h]
               /\ h.pc = "build" /\ h.statements = <<>> /\ h.printed = <<>>
<1>1. PICK custom \in Clients[client].customs,
           leaves \in Leaves(pets[scop_[s]].source, pets[scop_[s]].schedule) :
        gen' = [gen EXCEPT ![s.thread] =
                  [Idle EXCEPT !.pc = "build", !.custom = custom, !.leaves = leaves,
                     !.source = pets[scop_[s]].source, !.left = DOMAIN leaves]]
  BY DEF codegen
<1> DEFINE source == pets[scop_[s]].source
           h == [Idle EXCEPT !.pc = "build", !.custom = custom, !.leaves = leaves,
                   !.source = source, !.left = DOMAIN leaves]
<1>2. scop_[s] \in 1..Len(pets)
  BY SequenceFacts DEF codegen, Use, PetsInv
<1>3. IsSequence(leaves) /\ Len(leaves) \in Nat
  BY <1>2, LeavesAreSequence, SequenceFacts DEF PetsInv
<1>4. /\ HasFields(h, GenFields)
      /\ h.pc = "build" /\ h.leaves = leaves /\ h.left = DOMAIN leaves
      /\ h.register = 0 /\ h.statements = <<>> /\ h.annotation = <<>> /\ h.printed = <<>>
  BY DEF HasFields, GenFields, Idle
<1> HIDE DEF h, source
<1>5. Shape(h) /\ Annotated(h) /\ Printed(h)
  BY <1>3, <1>4, EmptyIsSequence DEF Shape, Annotated, Printed
<1>6. gen' = [gen EXCEPT ![s.thread] = h]
  BY <1>1 DEF h, source
<1>7. QED
  BY <1>4, <1>5, <1>6 DEF CallInv

LEMMA AtDomainCall ==
  ASSUME GenInv, NEW t \in Thread, AtDomain(t)
  PROVE  \E h : CallInv(h) /\ gen' = [gen EXCEPT ![t] = h]
<1>1. PICK l \in gen[t].left :
        gen' = [gen EXCEPT ![t].pc = "store", ![t].leaf = l, ![t].register = counter,
                           ![t].left = @ \ {l}]
  BY DEF AtDomain
<1> DEFINE g == gen[t]
           h == [g EXCEPT !.pc = "store", !.leaf = l, !.register = counter, !.left = @ \ {l}]
<1>2. CallInv(g) /\ g.pc = "build"
  BY DEF GenInv, AtDomain
<1>3. gen' = [gen EXCEPT ![t] = h]
  BY <1>1, <1>2 DEF GenInv, CallInv, Shape, HasFields, GenFields
<1>4. /\ HasFields(h, GenFields)
      /\ h.pc = "store" /\ h.leaf = l /\ h.register = counter /\ h.left = g.left \ {l}
      /\ h.source = g.source /\ h.leaves = g.leaves /\ h.statements = g.statements
      /\ h.annotation = g.annotation /\ h.printed = g.printed
  BY <1>2 DEF CallInv, Shape, HasFields, GenFields
<1> HIDE DEF h
<1>5. l \in g.left /\ counter \in Nat
  BY DEF GenInv
<1> HIDE DEF g
<1>6. Shape(h)
  BY <1>2, <1>4, <1>5 DEF CallInv, Shape
<1>7. Annotated(h)
  BY <1>2, <1>4, <1>5 DEF CallInv, Shape, Annotated, stmtName
<1>8. Printed(h)
  BY <1>2, <1>4 DEF CallInv, Printed, stmtName
<1>9. QED
  BY <1>3, <1>6, <1>7, <1>8 DEF CallInv

LEMMA DescribeCall ==
  ASSUME GenInv, NEW t \in Thread, Describe(t)
  PROVE  \E h, descr :
           /\ CallInv(h) /\ gen' = [gen EXCEPT ![t] = h]
           /\ h.pc = "build" /\ h.printed = gen[t].printed /\ h.leaves = gen[t].leaves
           /\ h.statements = Append(gen[t].statements, descr)
           /\ descr.occurrenceId = occurrenceId(gen[t], gen[t].leaf)
<1> DEFINE g == gen[t]
           id == occurrenceId(g, g.leaf)
           descr == [occurrenceId |-> id, stmt |-> stmtName(g, g.leaf),
                     astBuild |-> g.leaves[g.leaf]]
           statements == Append(g.statements, descr)
           annotation == [x \in DOMAIN g.annotation \cup {g.leaf} |->
                            IF x = g.leaf THEN id ELSE g.annotation[x]]
           h == [g EXCEPT !.pc = "build", !.statements = statements,
                          !.annotation = annotation]
<1>1. CallInv(g) /\ g.pc = "store"
  BY DEF GenInv, Describe
<1>2. gen' = [gen EXCEPT ![t].pc = "build", ![t].statements = statements,
                         ![t].annotation = annotation]
  BY DEF Describe
<1>3. descr.occurrenceId = id /\ descr.stmt = stmtName(g, g.leaf)
      /\ descr.astBuild = g.leaves[g.leaf] /\ id[1] = stmtName(g, g.leaf)
  BY DEF occurrenceId
<1>4. /\ IsSequence(statements) /\ Len(statements) = Len(g.statements) + 1
      /\ \A i \in 1..Len(g.statements) : statements[i] = g.statements[i]
      /\ statements[Len(g.statements) + 1] = descr
      /\ Len(g.statements) \in Nat
  <2>1. IsSequence(g.statements)
    BY <1>1 DEF CallInv, Shape
  <2> HIDE DEF g, descr
  <2>2. QED
    BY <2>1, AppendFacts, SequenceFacts
<1>5. /\ DOMAIN annotation = {g.leaf} \cup DOMAIN g.annotation
      /\ annotation[g.leaf] = id
      /\ \A x \in (DOMAIN g.annotation) \ {g.leaf} : annotation[x] = g.annotation[x]
  OBVIOUS
<1> HIDE DEF statements, annotation, descr, id
<1>6. gen' = [gen EXCEPT ![t] = h]
  BY <1>1, <1>2 DEF GenInv, CallInv, Shape, HasFields, GenFields
<1>7. /\ HasFields(h, GenFields)
      /\ h.pc = "build" /\ h.statements = statements /\ h.annotation = annotation
      /\ h.left = g.left /\ h.register = g.register
      /\ h.source = g.source /\ h.leaves = g.leaves /\ h.printed = g.printed
  BY <1>1 DEF CallInv, Shape, HasFields, GenFields
<1> HIDE DEF h, g
<1>8. Shape(h)
  BY <1>1, <1>4, <1>7 DEF CallInv, Shape
<1>9. Annotated(h)
  <2>1. DOMAIN h.annotation = (DOMAIN h.leaves) \ h.left
    BY <1>1, <1>5, <1>7 DEF CallInv, Shape, Annotated
  <2>2. \A i \in 1..Len(h.statements) :
          h.statements[i].occurrenceId[1] = h.statements[i].stmt
    BY <1>1, <1>3, <1>4, <1>7 DEF CallInv, Annotated
  <2>3. ASSUME NEW l \in DOMAIN h.annotation
        PROVE  /\ h.annotation[l][1] = stmtName(h, l)
               /\ \E i \in 1..Len(h.statements) :
                    /\ h.statements[i].occurrenceId = h.annotation[l]
                    /\ h.statements[i].astBuild = h.leaves[l]
    <3>1. stmtName(h, l) = stmtName(g, l)
      BY <1>7 DEF stmtName
    <3>2. CASE l = g.leaf
      BY <1>3, <1>4, <1>5, <1>7, <3>1, <3>2
    <3>3. CASE l # g.leaf
      <4>1. l \in DOMAIN g.annotation /\ h.annotation[l] = g.annotation[l]
        BY <1>5, <1>7, <3>3
      <4>2. PICK i \in 1..Len(g.statements) :
              /\ g.statements[i].occurrenceId = g.annotation[l]
              /\ g.statements[i].astBuild = g.leaves[l]
        BY <1>1, <4>1 DEF CallInv, Annotated
      <4>3. i \in 1..Len(h.statements) /\ h.statements[i] = g.statements[i]
        BY <1>4, <1>7
      <4>4. g.annotation[l][1] = stmtName(g, l)
        BY <1>1, <4>1 DEF CallInv, Annotated
      <4>5. QED
        BY <1>7, <3>1, <4>1, <4>2, <4>3, <4>4
    <3>4. QED
      BY <3>2, <3>3
  <2>4. QED
    BY <1>7, <2>1, <2>2, <2>3 DEF Annotated
<1>10. Printed(h)
  BY <1>1, <1>7 DEF CallInv, Printed, stmtName
<1>11. h.statements = Append(g.statements, descr)
  BY <1>7 DEF statements
<1>12. descr.occurrenceId = occurrenceId(g, g.leaf)
  BY <1>3 DEF id
<1>13. QED
  BY <1>6, <1>7, <1>8, <1>9, <1>10, <1>11, <1>12 DEF CallInv, g

LEMMA StartPrintingCall ==
  ASSUME GenInv, NEW t \in Thread, StartPrinting(t)
  PROVE  \E h : CallInv(h) /\ gen' = [gen EXCEPT ![t] = h] /\ Silent(gen[t], h)
<1> DEFINE g == gen[t]
           h == [g EXCEPT !.pc = "print", !.leaf = 1]
<1>1. CallInv(g) /\ g.pc = "build" /\ g.left = {}
  BY DEF GenInv, StartPrinting
<1>2. gen' = [gen EXCEPT ![t] = h]
  BY <1>1 DEF StartPrinting, GenInv, CallInv, Shape, HasFields, GenFields
<1>3. /\ HasFields(h, GenFields)
      /\ h.pc = "print" /\ h.leaf = 1
      /\ h.left = g.left /\ h.register = g.register /\ h.statements = g.statements
      /\ h.annotation = g.annotation
      /\ h.source = g.source /\ h.leaves = g.leaves /\ h.printed = g.printed
  BY <1>1 DEF CallInv, Shape, HasFields, GenFields
<1> HIDE DEF h, g
<1>4. Shape(h)
  BY <1>1, <1>3 DEF CallInv, Shape
<1>5. Annotated(h) /\ Printed(h)
  BY <1>1, <1>3 DEF CallInv, Annotated, Printed, stmtName
<1>6. QED
  BY <1>2, <1>3, <1>4, <1>5 DEF CallInv, Silent, g

LEMMA ReturnCall ==
  ASSUME GenInv, NEW t \in Thread, ReturnCode(t)
  PROVE  \E h : CallInv(h) /\ gen' = [gen EXCEPT ![t] = h] /\ Silent(gen[t], h)
<1> DEFINE g == gen[t]
           h == [g EXCEPT !.pc = "done"]
<1>1. CallInv(g) /\ g.pc = "print"
  BY DEF GenInv, ReturnCode
<1>2. gen' = [gen EXCEPT ![t] = h]
  BY <1>1 DEF ReturnCode, GenInv, CallInv, Shape, HasFields, GenFields
<1>3. /\ HasFields(h, GenFields)
      /\ h.pc = "done"
      /\ h.left = g.left /\ h.register = g.register /\ h.statements = g.statements
      /\ h.annotation = g.annotation
      /\ h.source = g.source /\ h.leaves = g.leaves /\ h.printed = g.printed
  BY <1>1 DEF CallInv, Shape, HasFields, GenFields
<1> HIDE DEF h, g
<1>4. Shape(h)
  BY <1>1, <1>3 DEF CallInv, Shape
<1>5. Annotated(h) /\ Printed(h)
  BY <1>1, <1>3 DEF CallInv, Annotated, Printed, stmtName
<1>6. QED
  BY <1>2, <1>3, <1>4, <1>5 DEF CallInv, Silent, g

LEMMA SmallestOf ==
  ASSUME NEW T \in SUBSET Nat, T # {}
  PROVE  \E i \in T : \A j \in T : i <= j
<1> DEFINE R == OpToRel(<, Nat)
<1>1. IsWellFoundedOn(R, Nat)
  BY NatLessThanWellFounded
<1>2. \A j, k \in Nat : <<j, k>> \in R <=> j < k
  BY DEF OpToRel
<1> HIDE DEF R
<1>3. PICK i \in T : \A j \in T : ~(<<j, i>> \in R)
  BY <1>1, WFMin
<1>4. ASSUME NEW j \in T PROVE i <= j
  <2>1. j \in Nat /\ i \in Nat /\ ~(j < i)
    BY <1>2, <1>3
  <2>2. QED
    BY <2>1
<1>5. QED
  BY <1>4

\* "The descriptor is expected to exist": it does, and is of the leaf's statement.
LEMMA DescriptorExists ==
  ASSUME NEW g, CallInv(g), g.pc = "print", g.leaf <= Len(g.leaves)
  PROVE  /\ g.leaf \in DOMAIN g.annotation /\ g.leaf = Len(g.printed) + 1
         /\ Found(g) # {}
         /\ \E i \in 1..Len(g.statements) :
              /\ findStmtDescriptor(g) = g.statements[i]
              /\ g.statements[i].occurrenceId = g.annotation[g.leaf]
         /\ findStmtDescriptor(g).stmt = stmtName(g, g.leaf)
<1>1. /\ Len(g.leaves) \in Nat /\ DOMAIN g.leaves = 1..Len(g.leaves)
      /\ Len(g.statements) \in Nat /\ DOMAIN g.statements = 1..Len(g.statements)
      /\ Len(g.printed) \in Nat
  BY SequenceFacts DEF CallInv, Shape
<1>2. g.leaf = Len(g.printed) + 1 /\ g.left = {}
  BY DEF CallInv, Shape
<1>3. g.leaf \in DOMAIN g.annotation
  BY <1>1, <1>2 DEF CallInv, Annotated
<1>4. Found(g) # {} /\ Found(g) \in SUBSET Nat /\ Found(g) \subseteq 1..Len(g.statements)
  BY <1>1, <1>3 DEF CallInv, Annotated, Found
<1> DEFINE i == CHOOSE i \in Found(g) : \A j \in Found(g) : i <= j
<1>5. i \in Found(g)
  BY <1>4, SmallestOf
<1>6. findStmtDescriptor(g) = g.statements[i]
  BY DEF findStmtDescriptor
<1> HIDE DEF i
<1>7. i \in 1..Len(g.statements) /\ g.statements[i].occurrenceId = g.annotation[g.leaf]
  BY <1>4, <1>5 DEF Found
<1>8. g.statements[i].stmt = stmtName(g, g.leaf)
  BY <1>3, <1>7 DEF CallInv, Annotated
<1>9. QED
  BY <1>2, <1>3, <1>4, <1>6, <1>7, <1>8

LEMMA PrintCall ==
  ASSUME GenInv, NEW t \in Thread, PrintStatement(t)
  PROVE  \E h : CallInv(h) /\ gen' = [gen EXCEPT ![t] = h]
<1> DEFINE g == gen[t]
           d == findStmtDescriptor(g)
           line == IF IsPet(g.source, d.stmt)
                   THEN [comment |-> FALSE, stmt |-> d.stmt, instances |-> d.astBuild]
                   ELSE [comment |-> TRUE, stmt |-> g.annotation[g.leaf][1],
                         instances |-> <<>>]
           printed == Append(g.printed, line)
           h == [g EXCEPT !.leaf = @ + 1, !.printed = printed]
<1>1. CallInv(g) /\ g.pc = "print" /\ g.leaf <= Len(g.leaves)
  BY DEF GenInv, PrintStatement
<1>2. gen' = [gen EXCEPT ![t].leaf = @ + 1, ![t].printed = printed]
  BY DEF PrintStatement
<1>3. /\ g.leaf \in DOMAIN g.annotation /\ g.leaf = Len(g.printed) + 1
      /\ d.stmt = stmtName(g, g.leaf)
  BY <1>1, DescriptorExists
<1>4. g.annotation[g.leaf][1] = stmtName(g, g.leaf)
  BY <1>1, <1>3 DEF CallInv, Annotated
<1>5. /\ line.stmt = stmtName(g, g.leaf)
      /\ line.comment <=> ~IsPet(g.source, stmtName(g, g.leaf))
  <2> HIDE DEF g, d
  <2>1. CASE IsPet(g.source, d.stmt)
    BY <1>3, <2>1
  <2>2. CASE ~IsPet(g.source, d.stmt)
    BY <1>3, <1>4, <2>2
  <2>3. QED
    BY <2>1, <2>2
<1>6. /\ IsSequence(printed) /\ Len(printed) = Len(g.printed) + 1
      /\ \A l \in 1..Len(g.printed) : printed[l] = g.printed[l]
      /\ printed[Len(g.printed) + 1] = line
      /\ Len(g.printed) \in Nat /\ Len(g.leaves) \in Nat
  <2>1. IsSequence(g.printed) /\ IsSequence(g.leaves)
    BY <1>1 DEF CallInv, Shape
  <2> HIDE DEF g, line
  <2>2. QED
    BY <2>1, AppendFacts, SequenceFacts
<1> HIDE DEF printed, line, d
<1>7. gen' = [gen EXCEPT ![t] = h]
  BY <1>1, <1>2 DEF GenInv, CallInv, Shape, HasFields, GenFields
<1>8. /\ HasFields(h, GenFields)
      /\ h.leaf = g.leaf + 1 /\ h.printed = printed
      /\ h.pc = g.pc /\ h.left = g.left /\ h.register = g.register
      /\ h.statements = g.statements /\ h.annotation = g.annotation
      /\ h.source = g.source /\ h.leaves = g.leaves
  BY <1>1 DEF CallInv, Shape, HasFields, GenFields
<1> HIDE DEF h, g
<1>9. Shape(h)
  BY <1>1, <1>3, <1>6, <1>8 DEF CallInv, Shape
<1>10. Annotated(h)
  BY <1>1, <1>8 DEF CallInv, Annotated, stmtName
<1>11. Printed(h)
  <2> SUFFICES ASSUME NEW l \in 1..Len(h.printed)
               PROVE  /\ h.printed[l].stmt = stmtName(h, l)
                      /\ h.printed[l].comment <=> ~IsPet(h.source, stmtName(h, l))
    BY DEF Printed
  <2>1. stmtName(h, l) = stmtName(g, l)
    BY <1>8 DEF stmtName
  <2>2. CASE l = Len(g.printed) + 1
    BY <1>3, <1>5, <1>6, <1>8, <2>1, <2>2
  <2>3. CASE l # Len(g.printed) + 1
    <3>1. l \in 1..Len(g.printed) /\ h.printed[l] = g.printed[l]
      BY <1>6, <1>8, <2>3
    <3>2. QED
      BY <1>1, <1>8, <2>1, <3>1 DEF CallInv, Printed
  <2>4. QED
    BY <2>2, <2>3
<1>12. QED
  BY <1>7, <1>9, <1>10, <1>11 DEF CallInv

LEMMA DiesCall ==
  ASSUME GenInv, NEW t \in Thread, PrintStatementDies(t)
  PROVE  \E h : CallInv(h) /\ gen' = [gen EXCEPT ![t] = h] /\ Silent(gen[t], h)
<1> DEFINE g == gen[t]
           h == [g EXCEPT !.pc = "died"]
<1>1. CallInv(g) /\ g.pc = "print" /\ g.leaf <= Len(g.leaves)
  BY DEF GenInv, PrintStatementDies
<1>2. Found(g) # {}
  BY <1>1, DescriptorExists
<1>3. gen' = [gen EXCEPT ![t] = h]
  BY <1>1, <1>2 DEF PrintStatementDies, GenInv, CallInv, Shape, HasFields, GenFields
<1>4. /\ HasFields(h, GenFields)
      /\ h.pc = "died"
      /\ h.left = g.left /\ h.register = g.register /\ h.statements = g.statements
      /\ h.annotation = g.annotation
      /\ h.source = g.source /\ h.leaves = g.leaves /\ h.printed = g.printed
  BY <1>1 DEF CallInv, Shape, HasFields, GenFields
<1> HIDE DEF h, g
<1>5. Shape(h)
  BY <1>1, <1>4 DEF CallInv, Shape
<1>6. Annotated(h) /\ Printed(h)
  BY <1>1, <1>4 DEF CallInv, Annotated, Printed, stmtName
<1>7. QED
  BY <1>3, <1>4, <1>5, <1>6 DEF CallInv, Silent, g

\* A step of one thread leaves the calls of the others alone.
LEMMA OneThread ==
  ASSUME GenInv, NEW t, \E h : CallInv(h) /\ gen' = [gen EXCEPT ![t] = h],
         counter' \in Nat
  PROVE  GenInv'
<1>1. PICK h : CallInv(h) /\ gen' = [gen EXCEPT ![t] = h]
  OBVIOUS
<1>2. gen' = [u \in Thread |-> gen'[u]]
  BY <1>1 DEF GenInv
<1>3. ASSUME NEW u \in Thread PROVE CallInv(gen'[u])
  BY <1>1 DEF GenInv
<1>4. QED
  BY <1>2, <1>3 DEF GenInv

LEMMA GenStep == PetsInv /\ GenInv /\ [Next]_vars => GenInv'
<1> SUFFICES ASSUME PetsInv, GenInv, [Next]_vars
             PROVE  GenInv'
  OBVIOUS
<1>1. Clients[client].scops \subseteq Scops
  BY ClientsAssumption DEF PetsInv
<1>2. ASSUME NEW s \in Scops,
             \/ UseFreed(s) \/ parseFile(s) \/ Destroy(s) \/ assignSchedule(s)
             \/ ComputeAllDeps(s) \/ Arrays(s)
             \/ \E from \in Scops : Construct(s, from) \/ Move(s, from)
      PROVE  GenInv'
  <2>1. UNCHANGED <<counter, gen>>
    BY <1>2 DEF UseFreed, parseFile, Destroy, assignSchedule, ComputeAllDeps, Arrays,
                Construct, Move
  <2>2. QED
    BY <2>1 DEF GenInv
<1>3. ASSUME NEW s \in Scops, codegen(s)
      PROVE  GenInv'
  <2>1. counter' \in Nat
    BY <1>3 DEF codegen, GenInv
  <2>2. QED
    BY <1>3, <2>1, CallsStart, OneThread
<1>4. ASSUME NEW t \in Thread,
             \/ AtDomain(t) \/ StartPrinting(t) \/ PrintStatement(t)
             \/ PrintStatementDies(t) \/ ReturnCode(t)
      PROVE  GenInv'
  <2>1. counter' \in Nat
    BY <1>4 DEF AtDomain, StartPrinting, PrintStatement, PrintStatementDies, ReturnCode, GenInv
  <2>2. QED
    BY <1>4, <2>1, AtDomainCall, StartPrintingCall, PrintCall, DiesCall, ReturnCall, OneThread
<1>5. ASSUME NEW t \in Thread, Describe(t)
      PROVE  GenInv'
  <2>1. counter' \in Nat
    BY <1>5 DEF Describe, incremented, GenInv, CallInv, Shape
  <2>2. QED
    BY <1>5, <2>1, DescribeCall, OneThread
<1>6. CASE UNCHANGED vars
  BY <1>6 DEF vars, GenInv
<1>7. CASE Next
  BY <1>1, <1>2, <1>3, <1>4, <1>5, <1>7 DEF Next
<1>8. QED
  BY <1>6, <1>7

LEMMA GenInit == Init => GenInv
BY IdleInv DEF Init, GenInv

LEMMA Invariants == Spec => [](PetsInv /\ GenInv)
<1>1. QED
  BY PetsInit, GenInit, PetsStep, GenStep, PTL DEF Spec

\* However the calls of threads interleave, each leaf of an AST is printed as its
\* own statement, and its descriptor is always found.
THEOREM OwnStatements == Spec => []PrintsOwnStatements
<1>1. GenInv => PrintsOwnStatements
  <2> SUFFICES ASSUME GenInv, NEW t \in Thread
               PROVE  /\ gen[t].pc # "lost"
                      /\ \A l \in DOMAIN gen[t].printed :
                           /\ gen[t].printed[l].stmt = stmtName(gen[t], l)
                           /\ gen[t].printed[l].comment
                                <=> ~IsPet(gen[t].source, stmtName(gen[t], l))
    BY DEF PrintsOwnStatements
  <2>1. CallInv(gen[t])
    BY DEF GenInv
  <2>2. gen[t].pc # "lost" /\ DOMAIN gen[t].printed = 1..Len(gen[t].printed)
    BY <2>1, SequenceFacts DEF CallInv, Shape
  <2>3. QED
    BY <2>1, <2>2 DEF CallInv, Printed
<1>2. QED
  BY <1>1, Invariants, PTL

-----------------------------------------------------------------------------
(***************************************************************************)
(* Occurrence ids, while calls do not overlap.                             *)
(***************************************************************************)
Building(g) == g.pc \in {"build", "store"}

UniqueIds(g) ==
  \A i, j \in 1..Len(g.statements) :
    g.statements[i].occurrenceId = g.statements[j].occurrenceId => i = j

\* The counter is above all ids that were made of it.
FreshIds(g, n) ==
  /\ \A i \in 1..Len(g.statements) : g.statements[i].occurrenceId[2] \in 0..n - 1
  /\ g.pc = "store" => g.register = n

OwnPlaces(g) ==
  \A l \in 1..Len(g.printed) :
    g.printed[l].comment \/ g.printed[l].instances = g.leaves[l]

IdsInv ==
  ~overlapped =>
    /\ \A t, u \in Thread : Building(gen[t]) /\ Building(gen[u]) => t = u
    /\ \A t \in Thread :
         /\ UniqueIds(gen[t]) /\ OwnPlaces(gen[t])
         /\ Building(gen[t]) => FreshIds(gen[t], counter)

LEMMA IdsInit == Init => IdsInv
BY EmptyIsSequence DEF Init, IdsInv, Idle, Building, UniqueIds, OwnPlaces

LEMMA IdsOneThread ==
  ASSUME GenInv, IdsInv, NEW t \in Thread, NEW h, gen' = [gen EXCEPT ![t] = h],
         UNCHANGED <<counter, overlapped>>,
         ~overlapped => /\ UniqueIds(h) /\ OwnPlaces(h)
                        /\ Building(h) => Building(gen[t]) /\ FreshIds(h, counter)
  PROVE  IdsInv'
<1>1. gen'[t] = h /\ \A u \in Thread \ {t} : gen'[u] = gen[u]
  BY DEF GenInv
<1>2. QED
  BY <1>1 DEF IdsInv

LEMMA IdsStart ==
  ASSUME PetsInv, GenInv, IdsInv, NEW s \in Scops, codegen(s)
  PROVE  IdsInv'
<1>1. s.thread \in Thread
  BY ClientsAssumption
<1>2. PICK h : /\ gen' = [gen EXCEPT ![s.thread] = h]
               /\ h.pc = "build" /\ h.statements = <<>> /\ h.printed = <<>>
  BY CallsStart
<1>3. gen'[s.thread] = h /\ \A u \in Thread \ {s.thread} : gen'[u] = gen[u]
  BY <1>1, <1>2 DEF GenInv
<1>4. UniqueIds(h) /\ OwnPlaces(h) /\ \A n : FreshIds(h, n)
  BY <1>2, EmptyIsSequence DEF UniqueIds, OwnPlaces, FreshIds
<1>5. counter' = counter
      /\ overlapped' = (overlapped \/ \E u \in Thread \ {s.thread} : Building(gen[u]))
  BY DEF codegen, Building
<1>6. QED
  BY <1>1, <1>3, <1>4, <1>5 DEF IdsInv

LEMMA IdsAtDomain ==
  ASSUME GenInv, IdsInv, NEW t \in Thread, AtDomain(t)
  PROVE  IdsInv'
<1> DEFINE g == gen[t]
<1>1. CallInv(g) /\ g.pc = "build" /\ UNCHANGED <<counter, overlapped>>
  BY DEF GenInv, AtDomain, Rest
<1>2. PICK l \in gen[t].left :
        gen' = [gen EXCEPT ![t].pc = "store", ![t].leaf = l, ![t].register = counter,
                           ![t].left = @ \ {l}]
  BY DEF AtDomain
<1> DEFINE h == [g EXCEPT !.pc = "store", !.leaf = l, !.register = counter, !.left = @ \ {l}]
<1>3. gen' = [gen EXCEPT ![t] = h]
  BY <1>1, <1>2 DEF GenInv, CallInv, Shape, HasFields, GenFields
<1>4. /\ h.pc = "store" /\ h.register = counter
      /\ h.statements = g.statements /\ h.printed = g.printed /\ h.leaves = g.leaves
  BY <1>1 DEF CallInv, Shape, HasFields, GenFields
<1> HIDE DEF h
<1>5. Building(g) /\ Building(h)
  BY <1>1, <1>4 DEF Building
<1>6. ~overlapped => UniqueIds(g) /\ OwnPlaces(g) /\ FreshIds(g, counter)
  BY <1>5 DEF IdsInv
<1>7. ~overlapped => UniqueIds(h) /\ OwnPlaces(h) /\ FreshIds(h, counter)
  BY <1>4, <1>6 DEF UniqueIds, OwnPlaces, FreshIds
<1>8. QED
  BY <1>1, <1>3, <1>5, <1>7, IdsOneThread

LEMMA IdsDescribe ==
  ASSUME GenInv, IdsInv, NEW t \in Thread, Describe(t)
  PROVE  IdsInv'
<1> DEFINE g == gen[t]
           h == gen'[t]
           n == Len(g.statements)
<1>1. CallInv(g) /\ g.pc = "store" /\ UNCHANGED overlapped /\ counter' = g.register + 1
  BY DEF GenInv, Describe, Rest, incremented
<1>2. \E descr :
        /\ h.pc = "build" /\ h.printed = g.printed /\ h.leaves = g.leaves
        /\ \A u \in Thread \ {t} : gen'[u] = gen[u]
        /\ h.statements = Append(g.statements, descr)
        /\ descr.occurrenceId = occurrenceId(g, g.leaf)
  <2>1. PICK k, descr :
          /\ gen' = [gen EXCEPT ![t] = k]
          /\ k.pc = "build" /\ k.printed = g.printed /\ k.leaves = g.leaves
          /\ k.statements = Append(g.statements, descr)
          /\ descr.occurrenceId = occurrenceId(g, g.leaf)
    BY DescribeCall
  <2>2. h = k /\ \A u \in Thread \ {t} : gen'[u] = gen[u]
    BY <2>1 DEF GenInv
  <2>3. QED
    BY <2>1, <2>2
<1> HIDE DEF h
<1>3. PICK descr :
        /\ h.pc = "build" /\ h.printed = g.printed /\ h.leaves = g.leaves
        /\ \A u \in Thread \ {t} : gen'[u] = gen[u]
        /\ h.statements = Append(g.statements, descr)
        /\ descr.occurrenceId = occurrenceId(g, g.leaf)
  BY <1>2
<1>4. /\ Len(h.statements) = n + 1 /\ n \in Nat
      /\ \A i \in 1..n : h.statements[i] = g.statements[i]
      /\ h.statements[n + 1] = descr
  <2>1. IsSequence(g.statements)
    BY <1>1 DEF CallInv, Shape
  <2> HIDE DEF g
  <2>2. QED
    BY <1>3, <2>1, AppendFacts, SequenceFacts
<1>5. descr.occurrenceId[2] = g.register
  BY <1>3 DEF occurrenceId
<1>6. Building(g) /\ Building(h)
  BY <1>1, <1>3 DEF Building
<1>7. CASE overlapped
  BY <1>1, <1>7 DEF IdsInv
<1>8. CASE ~overlapped
  <2>1. /\ UniqueIds(g) /\ OwnPlaces(g) /\ FreshIds(g, counter)
        /\ \A u \in Thread \ {t} : ~Building(gen[u])
    BY <1>6, <1>8 DEF IdsInv
  <2>2. g.register = counter /\ counter \in Nat /\ counter' = counter + 1
    BY <1>1, <2>1 DEF FreshIds, GenInv
  <2> HIDE DEF g, n
  <2>3. \A i \in 1..n : g.statements[i].occurrenceId[2] \in 0..counter - 1
    BY <2>1 DEF FreshIds, n
  <2>4. FreshIds(h, counter')
    <3>1. ASSUME NEW i \in 1..n + 1
          PROVE  h.statements[i].occurrenceId[2] \in 0..counter' - 1
      <4>1. CASE i = n + 1
        BY <1>4, <1>5, <2>2, <4>1
      <4>2. CASE i \in 1..n
        <5>1. g.statements[i].occurrenceId[2] \in 0..counter - 1
          BY <2>3, <4>2
        <5>2. 0..counter - 1 \subseteq 0..counter' - 1
          BY <2>2
        <5>3. h.statements[i] = g.statements[i]
          BY <1>4, <4>2
        <5>4. QED
          BY ONLY <5>1, <5>2, <5>3
      <4>3. QED
        BY <1>4, <4>1, <4>2
    <3>2. h.pc # "store"
      BY <1>3
    <3>3. QED
      BY <1>4, <3>1, <3>2 DEF FreshIds
  <2>5. UniqueIds(h)
    <3> SUFFICES ASSUME NEW i \in 1..n + 1, NEW j \in 1..n + 1,
                        h.statements[i].occurrenceId = h.statements[j].occurrenceId
                 PROVE  i = j
      BY <1>4 DEF UniqueIds
    <3>1. CASE i \in 1..n /\ j \in 1..n
      BY <1>4, <2>1, <3>1 DEF UniqueIds, n
    <3>2. \A k \in 1..n : h.statements[k].occurrenceId # h.statements[n + 1].occurrenceId
      <4> SUFFICES ASSUME NEW k \in 1..n
                   PROVE  h.statements[k].occurrenceId[2] # h.statements[n + 1].occurrenceId[2]
        OBVIOUS
      <4>1. h.statements[k] = g.statements[k] /\ h.statements[n + 1] = descr
        BY <1>4
      <4>2. g.statements[k].occurrenceId[2] \in 0..counter - 1
        BY <2>3
      <4>3. descr.occurrenceId[2] = counter
        BY <1>5, <2>2
      <4>4. counter \notin 0..counter - 1
        BY <2>2
      <4>5. QED
        BY ONLY <4>1, <4>2, <4>3, <4>4
    <3>3. QED
      BY <1>4, <3>1, <3>2
  <2>6. OwnPlaces(h)
    BY <1>3, <2>1 DEF OwnPlaces
  <2>7. QED
    BY <1>3, <1>8, <2>1, <2>4, <2>5, <2>6 DEF IdsInv, h
<1>9. QED
  BY <1>7, <1>8

\* Steps of printing that print no leaf.
LEMMA IdsControl ==
  ASSUME GenInv, IdsInv, NEW t \in Thread,
         StartPrinting(t) \/ PrintStatementDies(t) \/ ReturnCode(t)
  PROVE  IdsInv'
<1> DEFINE g == gen[t]
<1>1. CallInv(g) /\ UNCHANGED <<counter, overlapped>>
  BY DEF GenInv, StartPrinting, PrintStatementDies, ReturnCode, Rest
<1>2. PICK h : gen' = [gen EXCEPT ![t] = h] /\ Silent(g, h)
  BY StartPrintingCall, DiesCall, ReturnCall
<1>3. ~overlapped => UniqueIds(h) /\ OwnPlaces(h)
  BY <1>2 DEF IdsInv, UniqueIds, OwnPlaces, Silent
<1>4. ~Building(h)
  BY <1>2 DEF Silent, Building
<1>5. QED
  BY <1>1, <1>2, <1>3, <1>4, IdsOneThread

LEMMA IdsPrint ==
  ASSUME GenInv, IdsInv, NEW t \in Thread, PrintStatement(t)
  PROVE  IdsInv'
<1> DEFINE g == gen[t]
           d == findStmtDescriptor(g)
           line == IF IsPet(g.source, d.stmt)
                   THEN [comment |-> FALSE, stmt |-> d.stmt, instances |-> d.astBuild]
                   ELSE [comment |-> TRUE, stmt |-> g.annotation[g.leaf][1],
                         instances |-> <<>>]
           printed == Append(g.printed, line)
           h == [g EXCEPT !.leaf = @ + 1, !.printed = printed]
<1>1. /\ CallInv(g) /\ g.pc = "print" /\ g.leaf <= Len(g.leaves)
      /\ UNCHANGED <<counter, overlapped>>
  BY DEF GenInv, PrintStatement, Rest
<1>2. gen' = [gen EXCEPT ![t].leaf = @ + 1, ![t].printed = printed]
  BY DEF PrintStatement
<1>3. line.comment \/ line.instances = d.astBuild
  OBVIOUS
<1>4. /\ IsSequence(printed) /\ Len(printed) = Len(g.printed) + 1
      /\ \A l \in 1..Len(g.printed) : printed[l] = g.printed[l]
      /\ printed[Len(g.printed) + 1] = line
      /\ Len(g.printed) \in Nat
  <2>1. IsSequence(g.printed)
    BY <1>1 DEF CallInv, Shape
  <2> HIDE DEF g, line
  <2>2. QED
    BY <2>1, AppendFacts, SequenceFacts
<1>5. g.leaf = Len(g.printed) + 1 /\ g.leaf \in DOMAIN g.annotation
  BY <1>1, DescriptorExists
<1>6. ~overlapped => d.astBuild = g.leaves[g.leaf]
  <2> SUFFICES ASSUME ~overlapped
               PROVE  d.astBuild = g.leaves[g.leaf]
    OBVIOUS
  <2>1. UniqueIds(g)
    BY DEF IdsInv
  <2>2. PICK i \in 1..Len(g.statements) :
          d = g.statements[i] /\ g.statements[i].occurrenceId = g.annotation[g.leaf]
    BY <1>1, DescriptorExists
  <2>3. PICK j \in 1..Len(g.statements) :
          /\ g.statements[j].occurrenceId = g.annotation[g.leaf]
          /\ g.statements[j].astBuild = g.leaves[g.leaf]
    BY <1>1, <1>5 DEF CallInv, Annotated
  <2>4. i = j
    BY <2>1, <2>2, <2>3 DEF UniqueIds
  <2>5. QED
    BY <2>2, <2>3, <2>4
<1> HIDE DEF printed, line, d
<1>7. gen' = [gen EXCEPT ![t] = h]
  BY <1>1, <1>2 DEF GenInv, CallInv, Shape, HasFields, GenFields
<1>8. /\ h.printed = printed /\ h.pc = "print"
      /\ h.statements = g.statements /\ h.leaves = g.leaves
  BY <1>1 DEF CallInv, Shape, HasFields, GenFields
<1> HIDE DEF h
<1>9. ~overlapped => UniqueIds(h)
  BY <1>8 DEF IdsInv, UniqueIds
<1>10. ~overlapped => OwnPlaces(h)
  <2> SUFFICES ASSUME ~overlapped, NEW l \in 1..Len(h.printed)
               PROVE  h.printed[l].comment \/ h.printed[l].instances = h.leaves[l]
    BY DEF OwnPlaces
  <2>1. OwnPlaces(g)
    BY DEF IdsInv
  <2> HIDE DEF g
  <2>2. CASE l = Len(g.printed) + 1
    BY <1>3, <1>4, <1>5, <1>6, <1>8, <2>2
  <2>3. CASE l # Len(g.printed) + 1
    BY <1>4, <1>8, <2>1, <2>3 DEF OwnPlaces
  <2>4. QED
    BY <2>2, <2>3
<1>11. ~Building(h)
  BY <1>8 DEF Building
<1>12. QED
  BY <1>1, <1>7, <1>9, <1>10, <1>11, IdsOneThread

LEMMA IdsStep == PetsInv /\ GenInv /\ IdsInv /\ [Next]_vars => IdsInv'
<1> SUFFICES ASSUME PetsInv, GenInv, IdsInv, [Next]_vars
             PROVE  IdsInv'
  OBVIOUS
<1>1. Clients[client].scops \subseteq Scops
  BY ClientsAssumption DEF PetsInv
<1>2. ASSUME NEW s \in Scops,
             \/ UseFreed(s) \/ parseFile(s) \/ Destroy(s) \/ assignSchedule(s)
             \/ ComputeAllDeps(s) \/ Arrays(s)
             \/ \E from \in Scops : Construct(s, from) \/ Move(s, from)
      PROVE  IdsInv'
  <2>1. UNCHANGED <<counter, gen, overlapped>>
    BY <1>2 DEF UseFreed, parseFile, Destroy, assignSchedule, ComputeAllDeps, Arrays,
                Construct, Move
  <2>2. QED
    BY <2>1 DEF IdsInv
<1>3. CASE UNCHANGED vars
  BY <1>3 DEF vars, IdsInv
<1>4. CASE Next
  BY <1>1, <1>2, <1>4, IdsStart, IdsAtDomain, IdsDescribe, IdsControl, IdsPrint DEF Next
<1>5. QED
  BY <1>3, <1>4

\* Unless calls overlap, occurrence ids are unique, and each leaf is printed with
\* the AST build of its own place.
THEOREM OwnSchedules == Spec => []PrintsOwnSchedules
<1>1. GenInv /\ IdsInv => PrintsOwnSchedules
  <2> SUFFICES ASSUME GenInv, IdsInv, ~overlapped, NEW t \in Thread,
                      NEW l \in DOMAIN gen[t].printed
               PROVE  gen[t].printed[l].comment
                        \/ gen[t].printed[l].instances = gen[t].leaves[l]
    BY DEF PrintsOwnSchedules
  <2>1. l \in 1..Len(gen[t].printed)
    BY SequenceFacts DEF GenInv, CallInv, Shape
  <2>2. QED
    BY <2>1 DEF IdsInv, OwnPlaces
<1>2. PetsInv /\ GenInv /\ IdsInv /\ [Next]_vars => IdsInv'
  BY IdsStep
<1>3. QED
  BY <1>1, <1>2, Invariants, IdsInit, PTL DEF Spec

-----------------------------------------------------------------------------
(***************************************************************************)
(* Schedules.                                                              *)
(***************************************************************************)
\* The instances in an order of execution.
IsSchedule(source, t) ==
  IsSequence(t) /\ IsInjective(t) /\ Range(t) \subseteq DOMAIN source.stmt

\* A write of an element comes first in t when it does in the program.
WritesFirst(source, t) ==
  \A w \in source.may, a \in source.reads \cup source.may :
    w[2] = a[2] /\ IsBefore(source.order, w[1], a[1]) => IsBefore(t, w[1], a[1])

\* What ClientsAssumption says of accesses.
IsSource(source) ==
  /\ source.must \subseteq source.may
  /\ \A a \in source.reads \cup source.may : a = <<a[1], a[2]>>

LEMMA EarlierIsTransitive ==
  ASSUME NEW t, IsSequence(t), IsInjective(t), NEW a, NEW b, NEW c,
         IsBefore(t, a, b), IsBefore(t, b, c)
  PROVE  IsBefore(t, a, c)
<1>1. Len(t) \in Nat /\ DOMAIN t = 1..Len(t)
  BY SequenceFacts
<1>2. PICK i \in 1..Len(t), j \in 1..Len(t) : i < j /\ t[i] = a /\ t[j] = b
  BY <1>1 DEF IsBefore
<1>3. PICK k \in 1..Len(t), l \in 1..Len(t) : k < l /\ t[k] = b /\ t[l] = c
  BY <1>1 DEF IsBefore
<1>4. j = k
  BY <1>1, <1>2, <1>3 DEF IsInjective
<1>5. i < l
  BY <1>1, <1>2, <1>3, <1>4
<1>6. QED
  BY <1>1, <1>2, <1>3, <1>5 DEF IsBefore

\* A write and a later access of its element are a dependence, or a write that is
\* certain stands between them.
LEMMA DependenceOrWriteBetween ==
  ASSUME NEW source, IsSource(source), NEW sc,
         NEW w \in source.may, NEW a \in source.reads \cup source.may,
         w[2] = a[2], IsBefore(sc, w[1], a[1])
  PROVE  \/ <<w[1], a[1]>> \in compute_all_deps(source, sc)
         \/ \E m \in source.must : /\ m[2] = w[2]
                                   /\ IsBefore(sc, w[1], m[1])
                                   /\ IsBefore(sc, m[1], a[1])
<1> SUFFICES ASSUME ~\E m \in source.must : /\ m[2] = w[2]
                                            /\ IsBefore(sc, w[1], m[1])
                                            /\ IsBefore(sc, m[1], a[1])
             PROVE  <<w[1], a[1]>> \in compute_all_deps(source, sc)
  OBVIOUS
<1>1. w[1] \in Range(sc) /\ a[1] \in Range(sc)
  BY DEF IsBefore, Range
<1>2. a = <<a[1], w[2]>>
  BY DEF IsSource
<1>3. ASSUME NEW sink, a \in sink
      PROVE  <<w[1], a[1]>> \in compute_flow(sc, sink, source.may, source.must)
  BY <1>1, <1>2, <1>3 DEF compute_flow
<1>4. CASE a \in source.reads
  BY <1>3, <1>4 DEF compute_all_deps
<1>5. CASE a \in source.may
  BY <1>3, <1>5 DEF compute_all_deps
<1>6. QED
  BY <1>4, <1>5

\* The dependences carry the order of every write and later access: if t keeps
\* those of sc, a pair that t swaps has a swapped pair strictly inside it in sc.
LEMMA FlowIsKept ==
  ASSUME NEW source, IsSource(source), NEW sc, IsSequence(sc), IsInjective(sc),
         NEW t, IsSequence(t), IsInjective(t),
         Keeps(t, compute_all_deps(source, sc)),
         NEW w \in source.may, NEW a \in source.reads \cup source.may,
         w[2] = a[2], IsBefore(sc, w[1], a[1])
  PROVE  IsBefore(t, w[1], a[1])
<1> DEFINE Swapped(i, j) ==
             /\ i < j
             /\ \E v \in source.may, b \in source.reads \cup source.may :
                  /\ v[2] = b[2] /\ sc[i] = v[1] /\ sc[j] = b[1]
                  /\ ~IsBefore(t, v[1], b[1])
           Distances == {n \in Nat : \E i, j \in 1..Len(sc) : Swapped(i, j) /\ n = j - i}
<1>1. Len(sc) \in Nat /\ DOMAIN sc = 1..Len(sc)
  BY SequenceFacts
<1>2. ASSUME NEW i \in 1..Len(sc), NEW j \in 1..Len(sc), Swapped(i, j)
      PROVE  \E k \in 1..Len(sc) : i < k /\ k < j /\ (Swapped(i, k) \/ Swapped(k, j))
  <2>1. PICK v \in source.may, b \in source.reads \cup source.may :
          /\ v[2] = b[2] /\ sc[i] = v[1] /\ sc[j] = b[1]
          /\ ~IsBefore(t, v[1], b[1])
    BY <1>2
  <2>2. i < j /\ IsBefore(sc, v[1], b[1])
    BY <1>1, <1>2, <2>1 DEF IsBefore
  <2>3. <<v[1], b[1]>> \notin compute_all_deps(source, sc)
    BY <2>1 DEF Keeps
  <2>4. PICK m \in source.must :
          /\ m[2] = v[2] /\ IsBefore(sc, v[1], m[1]) /\ IsBefore(sc, m[1], b[1])
    BY <2>1, <2>2, <2>3, DependenceOrWriteBetween
  <2>5. PICK k \in 1..Len(sc) : i < k /\ k < j /\ sc[k] = m[1]
    <3>1. PICK i1 \in 1..Len(sc), k1 \in 1..Len(sc) :
            i1 < k1 /\ sc[i1] = v[1] /\ sc[k1] = m[1]
      BY <1>1, <2>4 DEF IsBefore
    <3>2. PICK k2 \in 1..Len(sc), j2 \in 1..Len(sc) :
            k2 < j2 /\ sc[k2] = m[1] /\ sc[j2] = b[1]
      BY <1>1, <2>4 DEF IsBefore
    <3>3. i1 = i /\ k2 = k1 /\ j2 = j
      BY <1>1, <2>1, <3>1, <3>2 DEF IsInjective
    <3>4. QED
      BY <3>1, <3>2, <3>3
  <2>6. m \in source.may
    BY DEF IsSource
  <2>7. ~IsBefore(t, v[1], m[1]) \/ ~IsBefore(t, m[1], b[1])
    BY <2>1, EarlierIsTransitive
  <2>8. CASE ~IsBefore(t, v[1], m[1])
    <3>1. Swapped(i, k)
      BY <2>1, <2>4, <2>5, <2>6, <2>8
    <3>2. QED
      BY <2>5, <3>1
  <2>9. CASE ~IsBefore(t, m[1], b[1])
    <3>1. Swapped(k, j)
      BY <2>1, <2>4, <2>5, <2>6, <2>9
    <3>2. QED
      BY <2>5, <3>1
  <2>10. QED
    BY <2>7, <2>8, <2>9
<1>3. PICK i \in 1..Len(sc), j \in 1..Len(sc) : i < j /\ sc[i] = w[1] /\ sc[j] = a[1]
  BY <1>1 DEF IsBefore
<1>4. ~IsBefore(t, w[1], a[1]) => Swapped(i, j)
  BY <1>3
<1>5. \A k, l \in 1..Len(sc) : Swapped(k, l) => k < l
  OBVIOUS
<1> HIDE DEF Swapped
<1>6. Distances = {}
  <2> SUFFICES ASSUME Distances # {}
               PROVE  FALSE
    OBVIOUS
  <2>1. Distances \in SUBSET Nat
    OBVIOUS
  <2>2. PICK n \in Distances : \A m \in Distances : n <= m
    BY <2>1, SmallestOf
  <2>3. PICK p \in 1..Len(sc), q \in 1..Len(sc) : Swapped(p, q) /\ n = q - p
    BY <2>2
  <2>4. PICK k \in 1..Len(sc) : p < k /\ k < q /\ (Swapped(p, k) \/ Swapped(k, q))
    BY <1>2, <2>3
  <2>5. CASE Swapped(p, k)
    <3>1. k - p \in Distances
      BY <1>1, <2>4, <2>5
    <3>2. n <= k - p
      BY <2>2, <3>1
    <3>3. QED
      BY <1>1, <2>3, <2>4, <3>2
  <2>6. CASE Swapped(k, q)
    <3>1. q - k \in Distances
      BY <1>1, <2>4, <2>6
    <3>2. n <= q - k
      BY <2>2, <3>1
    <3>3. QED
      BY <1>1, <2>3, <2>4, <3>2
  <2>7. QED
    BY <2>4, <2>5, <2>6
<1>7. Swapped(i, j) => j - i \in Distances
  BY <1>1, <1>5
<1>8. QED
  BY <1>4, <1>6, <1>7


\* A schedule that the client assigned or the program's own; dependences, if they
\* are known and every assignment has kept those known, are of such a schedule too.
PetInv(pet) ==
  /\ HasFields(pet, PetFields)
  /\ pet.source \in Clients[client].sources
  /\ pet.freed \in {0, 1}
  /\ pet.schedule \in Clients[client].schedules \cup {pet.source.order}
  /\ IsSchedule(pet.source, pet.schedule)
  /\ pet.deps \subseteq (DOMAIN pet.source.stmt) \X (DOMAIN pet.source.stmt)
  /\ pet.legal => WritesFirst(pet.source, pet.schedule)
  /\ pet.legal /\ pet.known =>
       \E sc : /\ IsSchedule(pet.source, sc) /\ WritesFirst(pet.source, sc)
               /\ pet.deps = compute_all_deps(pet.source, sc)

HistoryInv == \A p \in 1..Len(pets) : PetInv(pets[p])

LEMMA SourceFacts ==
  ASSUME PetsInv, NEW source \in Clients[client].sources
  PROVE  IsSource(source) /\ IsSchedule(source, source.order)
<1>1. source.order \in Seq(DOMAIN source.stmt) /\ IsInjective(source.order)
  BY ClientsAssumption DEF PetsInv
<1>2. IsSequence(source.order) /\ Range(source.order) \subseteq DOMAIN source.stmt
  BY <1>1 DEF IsSequence, Range
<1>3. source.must \subseteq source.may
      /\ \A a \in source.reads \cup source.may : a \in (DOMAIN source.stmt) \X {a[2]}
  BY ClientsAssumption DEF PetsInv
<1>4. \A a \in source.reads \cup source.may : a = <<a[1], a[2]>>
  BY <1>3
<1>5. QED
  BY <1>1, <1>2, <1>3, <1>4 DEF IsSource, IsSchedule

\* Dependences are pairs of instances.
LEMMA DepsType ==
  ASSUME NEW source, NEW sc, Range(sc) \subseteq DOMAIN source.stmt
  PROVE  compute_all_deps(source, sc) \subseteq (DOMAIN source.stmt) \X (DOMAIN source.stmt)
<1>1. compute_all_deps(source, sc) \subseteq Range(sc) \X Range(sc)
  BY DEF compute_all_deps, compute_flow
<1>2. QED
  BY <1>1

LEMMA HistoryInit == Init => HistoryInv
BY EmptyIsSequence DEF Init, HistoryInv

\* One pet_scop changes.
LEMMA OnePet ==
  ASSUME PetsInv, HistoryInv, NEW s \in Scops, scop_[s] # 0, NEW STATE changed,
         pets' = [pets EXCEPT ![scop_[s]] = changed], PetInv(changed), UNCHANGED client
  PROVE  HistoryInv'
<1>1. Len(pets) \in Nat /\ DOMAIN pets = 1..Len(pets) /\ scop_[s] \in 1..Len(pets)
  BY SequenceFacts DEF PetsInv
<1>2. IsSequence(pets) /\ pets' = [pets EXCEPT ![scop_[s]] = changed]
  BY DEF PetsInv
<1>3. /\ IsSequence(pets') /\ Len(pets') = Len(pets)
      /\ \A i \in 1..Len(pets) : pets'[i] = IF i = scop_[s] THEN changed ELSE pets[i]
  BY ONLY <1>1, <1>2, ExceptFacts, Zenon
<1>4. QED
  BY <1>1, <1>3 DEF HistoryInv, PetInv

LEMMA ParseHistory ==
  ASSUME PetsInv, HistoryInv, NEW s \in Scops, parseFile(s)
  PROVE  HistoryInv'
<1>1. PICK source \in Clients[client].sources :
        pets' = Append(pets, [source |-> source, schedule |-> source.order,
                              freed |-> 0, known |-> FALSE, deps |-> {}, legal |-> TRUE])
  BY DEF parseFile
<1> DEFINE pet == [source |-> source, schedule |-> source.order,
                   freed |-> 0, known |-> FALSE, deps |-> {}, legal |-> TRUE]
<1>2. /\ Len(pets') = Len(pets) + 1 /\ Len(pets) \in Nat
      /\ \A p \in 1..Len(pets) : pets'[p] = pets[p]
      /\ pets'[Len(pets) + 1] = pet
  BY <1>1, AppendFacts, SequenceFacts DEF PetsInv
<1>3. PetInv(pet)
  <2>1. /\ HasFields(pet, PetFields) /\ pet.source = source /\ pet.schedule = source.order
        /\ pet.freed = 0 /\ ~pet.known /\ pet.deps = {}
    BY DEF HasFields, PetFields
  <2>2. WritesFirst(source, source.order)
    BY DEF WritesFirst
  <2> HIDE DEF pet
  <2>3. QED
    BY <2>1, <2>2, SourceFacts DEF PetInv
<1> HIDE DEF pet
<1>4. UNCHANGED client
  BY DEF parseFile
<1>5. QED
  BY <1>2, <1>3, <1>4 DEF HistoryInv, PetInv

LEMMA DestroyHistory ==
  ASSUME PetsInv, HistoryInv, NEW s \in Scops, Destroy(s)
  PROVE  HistoryInv'
<1> DEFINE pet == [pets[scop_[s]] EXCEPT !.freed = 1]
<1>1. scop_[s] # 0 /\ UNCHANGED client /\ pets' = [pets EXCEPT ![scop_[s]].freed = 1]
  BY DEF Destroy, Use
<1>2. pets' = [pets EXCEPT ![scop_[s]] = pet]
  BY <1>1
<1>3. Len(pets) \in Nat /\ scop_[s] \in 1..Len(pets)
  BY <1>1, SequenceFacts DEF PetsInv
<1>4. PetInv(pets[scop_[s]])
  BY <1>3 DEF HistoryInv
<1>5. /\ HasFields(pet, PetFields) /\ pet.freed = 1
      /\ pet.source = pets[scop_[s]].source /\ pet.schedule = pets[scop_[s]].schedule
      /\ pet.known = pets[scop_[s]].known /\ pet.legal = pets[scop_[s]].legal
      /\ pet.deps = pets[scop_[s]].deps
  BY <1>4 DEF PetInv, HasFields, PetFields
<1> HIDE DEF pet
<1>6. PetInv(pet)
  BY <1>4, <1>5 DEF PetInv
<1>7. QED
  BY <1>1, <1>2, <1>6, OnePet

\* A schedule that keeps the dependences keeps what the schedule kept that they are of.
LEMMA AssignHistory ==
  ASSUME PetsInv, HistoryInv, NEW s \in Scops, assignSchedule(s)
  PROVE  HistoryInv'
<1> DEFINE old == pets[scop_[s]]
<1>1. PICK schedule \in Clients[client].schedules :
        /\ Range(schedule) \subseteq DOMAIN old.source.stmt
        /\ pets' = [pets EXCEPT ![scop_[s]].schedule = schedule,
                      ![scop_[s]].legal = @ /\ old.known /\ Keeps(schedule, old.deps)]
  BY DEF assignSchedule
<1> DEFINE legal == old.legal /\ old.known /\ Keeps(schedule, old.deps)
           pet == [old EXCEPT !.schedule = schedule, !.legal = legal]
<1>2. scop_[s] # 0 /\ UNCHANGED client
  BY DEF assignSchedule, Use
<1>3. Len(pets) \in Nat /\ DOMAIN pets = 1..Len(pets) /\ scop_[s] \in 1..Len(pets)
  BY <1>2, SequenceFacts DEF PetsInv
<1>4. PetInv(old)
  BY <1>3 DEF HistoryInv
<1>5. pets' = [pets EXCEPT ![scop_[s]] = pet]
  BY <1>1, <1>3, <1>4 DEF PetInv, HasFields, PetFields
<1>6. /\ HasFields(pet, PetFields) /\ pet.freed = old.freed /\ pet.source = old.source
      /\ pet.schedule = schedule /\ pet.known = old.known /\ pet.legal = legal
      /\ pet.deps = old.deps
  BY <1>4 DEF PetInv, HasFields, PetFields
<1> HIDE DEF pet, legal
<1>7. IsSchedule(old.source, schedule)
  BY <1>1, ClientsAssumption DEF PetsInv, IsSequence, IsSchedule
<1> DEFINE Known == \E sc : /\ IsSchedule(old.source, sc) /\ WritesFirst(old.source, sc)
                           /\ old.deps = compute_all_deps(old.source, sc)
<1>8. legal => Known /\ Keeps(schedule, old.deps)
  BY <1>4 DEF PetInv, legal
<1>9. Known /\ Keeps(schedule, old.deps) => WritesFirst(old.source, schedule)
  <2> SUFFICES ASSUME Known, Keeps(schedule, old.deps),
                      NEW w \in old.source.may,
                      NEW a \in old.source.reads \cup old.source.may,
                      w[2] = a[2], IsBefore(old.source.order, w[1], a[1])
               PROVE  IsBefore(schedule, w[1], a[1])
    BY DEF WritesFirst
  <2>1. PICK sc : /\ IsSchedule(old.source, sc) /\ WritesFirst(old.source, sc)
                  /\ old.deps = compute_all_deps(old.source, sc)
    OBVIOUS
  <2>2. IsBefore(sc, w[1], a[1])
    BY <2>1 DEF WritesFirst
  <2>3. IsSource(old.source)
    BY <1>4, SourceFacts DEF PetInv
  <2> HIDE DEF old
  <2>4. QED
    BY <1>7, <2>1, <2>2, <2>3, FlowIsKept DEF IsSchedule
<1>10. PetInv(pet)
  <2> HIDE DEF old, Known
  <2>1. pet.legal => WritesFirst(pet.source, pet.schedule)
    BY <1>6, <1>8, <1>9
  <2>2. pet.legal /\ pet.known =>
          \E sc : /\ IsSchedule(pet.source, sc) /\ WritesFirst(pet.source, sc)
                  /\ pet.deps = compute_all_deps(pet.source, sc)
    BY <1>6, <1>8 DEF Known
  <2>3. QED
    BY <1>4, <1>6, <1>7, <2>1, <2>2 DEF PetInv
<1>11. QED
  BY <1>2, <1>5, <1>10, OnePet

LEMMA DepsHistory ==
  ASSUME PetsInv, HistoryInv, NEW s \in Scops, ComputeAllDeps(s)
  PROVE  HistoryInv'
<1> DEFINE old == pets[scop_[s]]
           deps == compute_all_deps(old.source, old.schedule)
           pet == [old EXCEPT !.known = TRUE, !.deps = deps]
<1>1. /\ scop_[s] # 0 /\ UNCHANGED client
      /\ pets' = [pets EXCEPT ![scop_[s]].known = TRUE, ![scop_[s]].deps = deps]
  BY DEF ComputeAllDeps, Use
<1>2. Len(pets) \in Nat /\ DOMAIN pets = 1..Len(pets) /\ scop_[s] \in 1..Len(pets)
  BY <1>1, SequenceFacts DEF PetsInv
<1>3. PetInv(old)
  BY <1>2 DEF HistoryInv
<1> HIDE DEF deps
<1>4. pets' = [pets EXCEPT ![scop_[s]] = pet]
  BY <1>1, <1>2, <1>3 DEF PetInv, HasFields, PetFields
<1>5. /\ HasFields(pet, PetFields) /\ pet.freed = old.freed /\ pet.source = old.source
      /\ pet.schedule = old.schedule /\ pet.legal = old.legal /\ pet.deps = deps
  BY <1>3 DEF PetInv, HasFields, PetFields
<1> HIDE DEF pet
<1>6. deps \subseteq (DOMAIN old.source.stmt) \X (DOMAIN old.source.stmt)
  BY <1>3, DepsType DEF PetInv, IsSchedule, deps
<1>7. PetInv(pet)
  <2> HIDE DEF old
  <2>1. pet.legal =>
          \E sc : /\ IsSchedule(pet.source, sc) /\ WritesFirst(pet.source, sc)
                  /\ pet.deps = compute_all_deps(pet.source, sc)
    BY <1>3, <1>5 DEF PetInv, deps
  <2>2. QED
    BY <1>3, <1>5, <1>6, <2>1 DEF PetInv
<1>8. QED
  BY <1>1, <1>4, <1>7, OnePet

LEMMA HistoryStep == PetsInv /\ HistoryInv /\ [Next]_vars => HistoryInv'
<1> SUFFICES ASSUME PetsInv, HistoryInv, [Next]_vars
             PROVE  HistoryInv'
  OBVIOUS
<1>1. Clients[client].scops \subseteq Scops
  BY ClientsAssumption DEF PetsInv
<1>2. UNCHANGED <<client, pets>> => HistoryInv'
  BY DEF HistoryInv, PetInv
<1>3. ASSUME NEW s \in Scops,
             \/ UseFreed(s) \/ Arrays(s) \/ codegen(s)
             \/ \E from \in Scops : Construct(s, from) \/ Move(s, from)
      PROVE  UNCHANGED <<client, pets>>
  BY <1>3 DEF UseFreed, Arrays, codegen, Construct, Move
<1>4. CASE UNCHANGED vars
  BY <1>2, <1>4 DEF vars
<1>5. CASE Next
  BY <1>1, <1>2, <1>3, <1>5, ParseHistory, DestroyHistory, AssignHistory, DepsHistory,
     CallbacksKeepPets DEF Next
<1>6. QED
  BY <1>4, <1>5

\* A client that reorders a scop step by step, keeping at each step the dependences
\* it computed last, of the schedule the scop had then, never moves an access in
\* front of a write that it came after.
THEOREM WritesFirstKept == Spec => []WritesStayFirst
<1>1. PetsInv /\ HistoryInv => WritesStayFirst
  <2>1. PetsInv => DOMAIN pets = 1..Len(pets)
    BY SequenceFacts DEF PetsInv
  <2>2. QED
    BY <2>1 DEF HistoryInv, PetInv, WritesFirst, WritesStayFirst
<1>2. PetsInv /\ GenInv /\ HistoryInv /\ [Next]_vars => HistoryInv'
  BY HistoryStep
<1>3. QED
  BY <1>1, <1>2, Invariants, HistoryInit, PTL DEF Spec


-----------------------------------------------------------------------------
(***************************************************************************)
(* Types.                                                                  *)
(***************************************************************************)
\* One descriptor for each leaf that isl has called back for, which the callback
\* in progress has still to store.
Counted(g) ==
  Len(g.statements) + Cardinality(g.left) + (IF g.pc = "store" THEN 1 ELSE 0)
    = Len(g.leaves)

CountInv == \A t \in Thread : Counted(gen[t])

LEMMA LeftIsFinite ==
  ASSUME NEW g, Shape(g)
  PROVE  /\ IsFiniteSet(g.left) /\ Cardinality(g.left) \in Nat
         /\ Len(g.statements) \in Nat /\ Len(g.leaves) \in Nat
<1>1. /\ Len(g.statements) \in Nat /\ Len(g.leaves) \in Nat
      /\ g.left \subseteq 1..Len(g.leaves)
  BY SequenceFacts DEF Shape
<1>2. IsFiniteSet(1..Len(g.leaves))
  <2>1. 1 \in Int /\ Len(g.leaves) \in Int
    BY <1>1
  <2>2. QED
    BY <2>1, FS_Interval, Zenon
<1>3. IsFiniteSet(g.left)
  BY <1>1, <1>2, FS_Subset, Zenon
<1>4. Cardinality(g.left) \in Nat
  BY <1>3, FS_CardinalityType, Zenon
<1>5. QED
  BY <1>1, <1>3, <1>4

LEMMA CountInit == Init => CountInv
<1>1. Counted(Idle)
  <2>1. Idle.left = {} /\ Idle.statements = <<>> /\ Idle.leaves = <<>> /\ Idle.pc = "idle"
    BY DEF Idle
  <2>2. Cardinality({}) = 0
    BY FS_EmptySet, Zenon
  <2>3. QED
    BY <2>1, <2>2, EmptyIsSequence DEF Counted
<1>2. QED
  BY <1>1 DEF Init, CountInv

LEMMA CountOneThread ==
  ASSUME GenInv, CountInv, NEW t \in Thread, NEW h, gen' = [gen EXCEPT ![t] = h],
         Counted(h)
  PROVE  CountInv'
<1>1. gen'[t] = h /\ \A u \in Thread \ {t} : gen'[u] = gen[u]
  BY DEF GenInv
<1>2. QED
  BY <1>1 DEF CountInv

LEMMA CountStart ==
  ASSUME PetsInv, GenInv, CountInv, NEW s \in Scops, codegen(s)
  PROVE  CountInv'
<1>1. PICK custom \in Clients[client].customs,
           leaves \in Leaves(pets[scop_[s]].source, pets[scop_[s]].schedule) :
        gen' = [gen EXCEPT ![s.thread] =
                  [Idle EXCEPT !.pc = "build", !.custom = custom, !.leaves = leaves,
                     !.source = pets[scop_[s]].source, !.left = DOMAIN leaves]]
  BY DEF codegen
<1> DEFINE source == pets[scop_[s]].source
           h == [Idle EXCEPT !.pc = "build", !.custom = custom, !.leaves = leaves,
                   !.source = source, !.left = DOMAIN leaves]
<1>2. scop_[s] \in 1..Len(pets) /\ s.thread \in Thread
  BY SequenceFacts, ClientsAssumption DEF codegen, Use, PetsInv
<1>3. Len(leaves) \in Nat /\ DOMAIN leaves = 1..Len(leaves)
  BY <1>2, LeavesAreSequence, SequenceFacts DEF PetsInv
<1>4. h.pc = "build" /\ h.leaves = leaves /\ h.left = DOMAIN leaves /\ h.statements = <<>>
  BY DEF Idle
<1> HIDE DEF h, source
<1>5. Cardinality(DOMAIN leaves) = Len(leaves)
  <2>1. 1 \in Int /\ Len(leaves) \in Int
    BY <1>3
  <2>2. Cardinality(1..Len(leaves)) = IF 1 > Len(leaves) THEN 0 ELSE Len(leaves) - 1 + 1
    BY <2>1, FS_Interval, Zenon
  <2>3. QED
    BY <1>3, <2>2
<1>6. Counted(h)
  BY <1>3, <1>4, <1>5, EmptyIsSequence DEF Counted
<1>7. gen' = [gen EXCEPT ![s.thread] = h]
  BY <1>1 DEF h, source
<1>8. QED
  BY <1>2, <1>6, <1>7, CountOneThread

LEMMA CountAtDomain ==
  ASSUME GenInv, CountInv, NEW t \in Thread, AtDomain(t)
  PROVE  CountInv'
<1>1. PICK l \in gen[t].left :
        gen' = [gen EXCEPT ![t].pc = "store", ![t].leaf = l, ![t].register = counter,
                           ![t].left = @ \ {l}]
  BY DEF AtDomain
<1> DEFINE g == gen[t]
           h == [g EXCEPT !.pc = "store", !.leaf = l, !.register = counter, !.left = @ \ {l}]
<1>2. CallInv(g) /\ Counted(g) /\ g.pc = "build"
  BY DEF GenInv, CountInv, AtDomain
<1>3. gen' = [gen EXCEPT ![t] = h]
  BY <1>1, <1>2 DEF GenInv, CallInv, Shape, HasFields, GenFields
<1>4. /\ h.pc = "store" /\ h.left = g.left \ {l}
      /\ h.leaves = g.leaves /\ h.statements = g.statements
  BY <1>2 DEF CallInv, Shape, HasFields, GenFields
<1>5. l \in g.left
  OBVIOUS
<1> HIDE DEF g, h
<1>6. /\ IsFiniteSet(g.left) /\ Cardinality(g.left) \in Nat
      /\ Len(g.statements) \in Nat /\ Len(g.leaves) \in Nat
  BY <1>2, LeftIsFinite DEF CallInv
<1>7. Cardinality(g.left \ {l}) = Cardinality(g.left) - 1
  BY <1>5, <1>6, FS_RemoveElement, Zenon
<1>8. Counted(h)
  BY <1>2, <1>4, <1>6, <1>7 DEF Counted
<1>9. QED
  BY <1>3, <1>8, CountOneThread

LEMMA CountDescribe ==
  ASSUME GenInv, CountInv, NEW t \in Thread, Describe(t)
  PROVE  CountInv'
<1> DEFINE g == gen[t]
<1>1. CallInv(g) /\ Counted(g) /\ g.pc = "store"
  BY DEF GenInv, CountInv, Describe
<1> DEFINE id == occurrenceId(g, g.leaf)
           descr == [occurrenceId |-> id, stmt |-> stmtName(g, g.leaf),
                     astBuild |-> g.leaves[g.leaf]]
           statements == Append(g.statements, descr)
           annotation == [x \in DOMAIN g.annotation \cup {g.leaf} |->
                            IF x = g.leaf THEN id ELSE g.annotation[x]]
           h == [g EXCEPT !.pc = "build", !.statements = statements,
                          !.annotation = annotation]
<1>2. gen' = [gen EXCEPT ![t].pc = "build", ![t].statements = statements,
                         ![t].annotation = annotation]
  BY DEF Describe
<1>3. Len(statements) = Len(g.statements) + 1
  <2>1. IsSequence(g.statements)
    BY <1>1 DEF CallInv, Shape
  <2> HIDE DEF g, descr
  <2>2. QED
    BY <2>1, AppendFacts
<1> HIDE DEF statements, annotation, descr, id
<1>4. gen' = [gen EXCEPT ![t] = h]
  BY <1>1, <1>2 DEF GenInv, CallInv, Shape, HasFields, GenFields
<1>5. h.pc = "build" /\ h.left = g.left /\ h.leaves = g.leaves /\ h.statements = statements
  BY <1>1 DEF CallInv, Shape, HasFields, GenFields
<1> HIDE DEF g, h
<1>6. /\ Cardinality(g.left) \in Nat /\ Len(g.statements) \in Nat /\ Len(g.leaves) \in Nat
  BY <1>1, LeftIsFinite DEF CallInv
<1>7. Counted(h)
  BY <1>1, <1>3, <1>5, <1>6 DEF Counted
<1>8. QED
  BY <1>4, <1>7, CountOneThread

\* Printing leaves the descriptors and the leaves as they are.
LEMMA CountPrinting ==
  ASSUME GenInv, CountInv, NEW t \in Thread,
         \/ StartPrinting(t) \/ PrintStatement(t) \/ PrintStatementDies(t) \/ ReturnCode(t)
  PROVE  CountInv'
<1> DEFINE g == gen[t]
<1>1. CallInv(g) /\ Counted(g) /\ g.pc \in {"build", "print"}
  BY DEF GenInv, CountInv, StartPrinting, PrintStatement, PrintStatementDies, ReturnCode
<1>2. \E h : /\ gen' = [gen EXCEPT ![t] = h] /\ h.pc # "store" /\ h.left = g.left
             /\ h.leaves = g.leaves /\ h.statements = g.statements
  <2>1. CASE StartPrinting(t)
    <3> DEFINE h == [g EXCEPT !.pc = "print", !.leaf = 1]
    <3>1. gen' = [gen EXCEPT ![t] = h]
      BY <1>1, <2>1 DEF StartPrinting, GenInv, CallInv, Shape, HasFields, GenFields
    <3>2. /\ h.pc = "print" /\ h.left = g.left
          /\ h.leaves = g.leaves /\ h.statements = g.statements
      BY <1>1 DEF CallInv, Shape, HasFields, GenFields
    <3> HIDE DEF h
    <3>3. QED
      BY <3>1, <3>2
  <2>2. CASE PrintStatement(t)
    <3>1. PICK printed : gen' = [gen EXCEPT ![t].leaf = @ + 1, ![t].printed = printed]
      BY <2>2 DEF PrintStatement
    <3> DEFINE h == [g EXCEPT !.leaf = @ + 1, !.printed = printed]
    <3>2. gen' = [gen EXCEPT ![t] = h]
      BY <1>1, <3>1 DEF GenInv, CallInv, Shape, HasFields, GenFields
    <3>3. h.pc = "print"
      BY <1>1, <2>2 DEF PrintStatement, CallInv, Shape, HasFields, GenFields
    <3>4. h.left = g.left /\ h.leaves = g.leaves /\ h.statements = g.statements
      BY <1>1 DEF CallInv, Shape, HasFields, GenFields
    <3> HIDE DEF h
    <3>5. QED
      BY <3>2, <3>3, <3>4
  <2>3. CASE PrintStatementDies(t) \/ ReturnCode(t)
    <3>1. PICK pc \in {"lost", "died", "done"} : gen' = [gen EXCEPT ![t].pc = pc]
      BY <2>3 DEF PrintStatementDies, ReturnCode
    <3> DEFINE h == [g EXCEPT !.pc = pc]
    <3>2. gen' = [gen EXCEPT ![t] = h]
      BY <3>1
    <3>3. /\ h.pc = pc /\ h.left = g.left
          /\ h.leaves = g.leaves /\ h.statements = g.statements
      BY <1>1 DEF CallInv, Shape, HasFields, GenFields
    <3> HIDE DEF h
    <3>4. QED
      BY <3>2, <3>3
  <2>4. QED
    BY <2>1, <2>2, <2>3
<1>3. PICK h : /\ gen' = [gen EXCEPT ![t] = h] /\ h.pc # "store" /\ h.left = g.left
               /\ h.leaves = g.leaves /\ h.statements = g.statements
  BY <1>2
<1>4. Counted(h)
  BY <1>1, <1>3 DEF Counted
<1>5. QED
  BY <1>3, <1>4, CountOneThread

LEMMA CountStep == PetsInv /\ GenInv /\ CountInv /\ [Next]_vars => CountInv'
<1> SUFFICES ASSUME PetsInv, GenInv, CountInv, [Next]_vars
             PROVE  CountInv'
  OBVIOUS
<1>1. Clients[client].scops \subseteq Scops
  BY ClientsAssumption DEF PetsInv
<1>2. ASSUME NEW s \in Scops,
             \/ UseFreed(s) \/ parseFile(s) \/ Destroy(s) \/ assignSchedule(s)
             \/ ComputeAllDeps(s) \/ Arrays(s)
             \/ \E from \in Scops : Construct(s, from) \/ Move(s, from)
      PROVE  CountInv'
  <2>1. UNCHANGED gen
    BY <1>2 DEF UseFreed, parseFile, Destroy, assignSchedule, ComputeAllDeps, Arrays,
                Construct, Move
  <2>2. QED
    BY <2>1 DEF CountInv
<1>3. CASE UNCHANGED vars
  BY <1>3 DEF vars, CountInv
<1>4. CASE Next
  BY <1>1, <1>2, <1>4, CountStart, CountAtDomain, CountDescribe, CountPrinting DEF Next
<1>5. QED
  BY <1>3, <1>4

\* The vector of descriptors has one element for each leaf that isl has called back
\* for, and the pet_scop objects, pointers and the counter have their types.
THEOREM TypeCorrect == Spec => []TypeOK
<1>1. PetsInv /\ GenInv /\ HistoryInv /\ CountInv => TypeOK
  <2> SUFFICES ASSUME PetsInv, GenInv, HistoryInv, CountInv
               PROVE  TypeOK
    OBVIOUS
  <2>1. ASSUME NEW p \in DOMAIN pets
        PROVE  /\ pets[p].source \in Clients[client].sources /\ pets[p].freed \in {0, 1}
               /\ pets[p].schedule \in Clients[client].schedules \cup {pets[p].source.order}
               /\ pets[p].deps \subseteq
                    (DOMAIN pets[p].source.stmt) \X (DOMAIN pets[p].source.stmt)
    <3>1. p \in 1..Len(pets)
      BY SequenceFacts DEF PetsInv
    <3>2. PetInv(pets[p])
      BY <3>1 DEF HistoryInv
    <3>3. QED
      BY <3>2 DEF PetInv
  <2>2. ASSUME NEW t \in Thread
        PROVE  /\ gen[t].pc \in {"idle", "build", "store", "print", "done", "died", "lost"}
               /\ gen[t].left \subseteq DOMAIN gen[t].leaves
               /\ gen[t].pc # "store" =>
                    Len(gen[t].statements) + Cardinality(gen[t].left) = Len(gen[t].leaves)
               /\ Len(gen[t].printed) <= Len(gen[t].leaves)
    <3>1. Shape(gen[t]) /\ Counted(gen[t])
      BY DEF GenInv, CallInv, CountInv
    <3>2. Cardinality(gen[t].left) \in Nat /\ Len(gen[t].statements) \in Nat
      BY <3>1, LeftIsFinite
    <3>3. QED
      BY <3>1, <3>2 DEF Shape, Counted
  <2>3. QED
    BY <2>1, <2>2 DEF TypeOK, PetsInv, GenInv
<1>2. /\ PetsInv /\ GenInv /\ HistoryInv /\ CountInv /\ [Next]_vars
           => HistoryInv' /\ CountInv'
  BY HistoryStep, CountStep
<1>3. QED
  BY <1>1, <1>2, Invariants, HistoryInit, CountInit, PTL DEF Spec

-----------------------------------------------------------------------------
(***************************************************************************)
(* Arrays.                                                                 *)
(***************************************************************************)
\* The list has the values h of the places A, in the order of the places.
Lists(list, A, h) ==
  \E k \in Nat : \E place \in [1..k -> A] :
    /\ \A d \in A : \E i \in 1..k : place[i] = d
    /\ \A i, j \in 1..k : i < j => place[i] < place[j]
    /\ list = [i \in 1..k |-> h[place[i]]]

LEMMA ListsNothing ==
  ASSUME NEW h
  PROVE  Lists(<<>>, {}, h)
<1> DEFINE place == [i \in 1..0 |-> 0]
<1>1. place \in [1..0 -> {}] /\ <<>> = [i \in 1..0 |-> h[place[i]]]
  OBVIOUS
<1> HIDE DEF place
<1>2. \A i, j \in 1..0 : i < j => place[i] < place[j]
  OBVIOUS
<1>3. QED
  BY <1>1, <1>2 DEF Lists

LEMMA ListsMore ==
  ASSUME NEW A, A \subseteq Nat, NEW h, NEW list, Lists(list, A, h),
         NEW m \in Nat, \A d \in A : d < m
  PROVE  Lists(list \o <<h[m]>>, A \cup {m}, h)
<1>0. PICK k \in Nat : \E place \in [1..k -> A] :
        /\ \A d \in A : \E i \in 1..k : place[i] = d
        /\ \A i, j \in 1..k : i < j => place[i] < place[j]
        /\ list = [i \in 1..k |-> h[place[i]]]
  BY DEF Lists
<1>1. PICK place \in [1..k -> A] :
        /\ \A d \in A : \E i \in 1..k : place[i] = d
        /\ \A i, j \in 1..k : i < j => place[i] < place[j]
        /\ list = [i \in 1..k |-> h[place[i]]]
  BY <1>0
<1> DEFINE S == {h[d] : d \in A \cup {m}}
           more == [i \in 1..k + 1 |-> IF i <= k THEN place[i] ELSE m]
           longer == [i \in 1..k + 1 |-> h[more[i]]]
<1>2. list \in Seq(S) /\ Len(list) = k /\ <<h[m]>> \in Seq(S) /\ Len(<<h[m]>>) = 1
  <2>1. \A i \in 1..k : h[place[i]] \in S
    BY <1>1
  <2>2. h[m] \in S
    OBVIOUS
  <2> HIDE DEF S
  <2>3. QED
    BY <1>1, <2>1, <2>2
<1>3. \A i \in 1..k : i \in 1..k + 1 /\ more[i] = place[i]
  OBVIOUS
<1>4. k + 1 \in 1..k + 1 /\ more[k + 1] = m
  OBVIOUS
<1>5. more \in [1..k + 1 -> A \cup {m}]
  OBVIOUS
<1> HIDE DEF more
<1>6. longer \in Seq(S) /\ Len(longer) = k + 1
  <2>1. \A i \in 1..k + 1 : h[more[i]] \in S
    BY <1>5
  <2> HIDE DEF S
  <2>2. QED
    BY <2>1
<1>7. \A i \in 1..k : longer[i] = list[i]
  BY <1>1, <1>3
<1>8. longer[k + 1] = h[m]
  BY <1>4
<1> HIDE DEF longer, S
<1>9. list \o <<h[m]>> = longer
  BY <1>2, <1>6, <1>7, <1>8
<1>10. \A d \in A \cup {m} : \E i \in 1..k + 1 : more[i] = d
  BY <1>1, <1>3, <1>4
<1>11. ASSUME NEW i \in 1..k + 1, NEW j \in 1..k + 1, i < j
       PROVE  more[i] < more[j]
  <2>1. i \in 1..k /\ place[i] < m
    <3>1. i \in 1..k
      BY ONLY <1>11, k \in Nat, i \in 1..k + 1, j \in 1..k + 1
    <3>2. place[i] \in A
      BY <3>1
    <3>3. QED
      BY <3>1, <3>2
  <2>2. CASE j \in 1..k
    BY <1>1, <1>3, <1>11, <2>1, <2>2
  <2>3. CASE j = k + 1
    BY <1>3, <1>4, <2>1, <2>3
  <2>4. QED
    BY <2>2, <2>3
<1>12. k + 1 \in Nat
  OBVIOUS
<1>13. QED
  BY <1>5, <1>9, <1>10, <1>11, <1>12 DEF Lists, longer

\* Flattening lists of at most one element each lists those elements.
LEMMA FlattenLists ==
  ASSUME NEW n \in Nat, NEW A, A \subseteq 1..n, NEW h
  PROVE  Lists(FlattenSeq([d \in 1..n |-> IF d \in A THEN <<h[d]>> ELSE <<>>]), A, h)
<1> DEFINE beginning(m) == [d \in 1..m |-> IF d \in A THEN <<h[d]>> ELSE <<>>]
           T == {m \in Nat : m <= n /\ ~Lists(FlattenSeq(beginning(m)), A \cap 1..m, h)}
<1>1. A \cap 1..n = A
  OBVIOUS
<1>0. T = {} => Lists(FlattenSeq(beginning(n)), A, h)
  <2>1. T = {} => Lists(FlattenSeq(beginning(n)), A \cap 1..n, h)
    <3> HIDE DEF beginning
    <3>1. QED
      OBVIOUS
  <2>2. QED
    BY ONLY <1>1, <2>1
<1>2. SUFFICES ASSUME T # {} PROVE FALSE
  BY <1>0
<1>3. T \subseteq Nat
  OBVIOUS
<1>4. PICK m \in T : \A j \in T : m <= j
  <2> HIDE DEF T
  <2>1. QED
    BY <1>2, <1>3, Least
<1>5. m \in Nat /\ m <= n /\ ~Lists(FlattenSeq(beginning(m)), A \cap 1..m, h)
  OBVIOUS
<1>6. m # 0
  <2>1. SUFFICES ASSUME m = 0 PROVE FALSE
    OBVIOUS
  <2>2. A \cap 1..m = {} /\ beginning(m) = <<>>
    BY <2>1
  <2> HIDE DEF beginning
  <2>3. FlattenSeq(beginning(m)) = <<>>
    BY <2>2, FlattenEmpty
  <2>4. QED
    BY <1>5, <2>2, <2>3, ListsNothing
<1> DEFINE last == IF m \in A THEN <<h[m]>> ELSE <<>>
           r == beginning(m - 1)
           s == beginning(m)
<1>7. m - 1 \in Nat /\ m - 1 <= n /\ m - 1 \notin T
  BY <1>4, <1>5, <1>6
<1>8. Lists(FlattenSeq(r), A \cap 1..m - 1, h)
  BY <1>7
<1>9. Len(r) = m - 1 /\ Len(s) = m /\ s[m] = last /\ \A k \in 1..m - 1 : s[k] = r[k]
  BY <1>5, <1>6
<1>10. r = <<>> \/ m - 1 \in Nat \ {0}
  BY <1>7
<1>11. A \cap 1..m = (A \cap 1..m - 1) \cup (IF m \in A THEN {m} ELSE {})
  BY <1>5, <1>6
<1>12. A \cap 1..m - 1 \subseteq Nat /\ \A d \in A \cap 1..m - 1 : d < m
  BY <1>5
<1>13. ~Lists(FlattenSeq(s), A \cap 1..m, h)
  BY <1>5
<1>14. PICK k \in Nat : \E place \in [1..k -> A \cap 1..m - 1] :
         FlattenSeq(r) = [i \in 1..k |-> h[place[i]]]
  BY <1>8 DEF Lists
<1> HIDE DEF T, r, s, beginning
<1>15. FlattenSeq(s) = FlattenSeq(r) \o last
  <2>1. CASE m - 1 = 0
    <3>1. r = <<>> /\ Len(s) = 1 /\ s[1] = last
      BY <1>5, <1>9, <1>10, <2>1
    <3>2. FlattenSeq(s) = last
      BY <3>1, FlattenOne
    <3>3. FlattenSeq(r) = <<>>
      BY <3>1, FlattenEmpty
    <3>4. <<>> \o last = last
      OBVIOUS
    <3>5. QED
      BY <3>2, <3>3, <3>4
  <2>2. CASE m - 1 # 0
    <3> HIDE DEF last
    <3>1. m - 1 \in Nat \ {0} /\ m - 1 + 1 = m
      BY <1>5, <1>7, <2>2
    <3>2. FlattenSeq(s) = FlattenSeq(r) \o s[m - 1 + 1]
      BY <1>9, <3>1, FlattenStep
    <3>3. QED
      BY <1>9, <3>1, <3>2
  <2>3. QED
    BY <2>1, <2>2
<1>16. CASE m \in A
  <2>1. A \cap 1..m = (A \cap 1..m - 1) \cup {m}
    BY <1>11, <1>16
  <2>2. Lists(FlattenSeq(r) \o <<h[m]>>, (A \cap 1..m - 1) \cup {m}, h)
    BY <1>5, <1>8, <1>12, ListsMore
  <2>3. QED
    BY <1>13, <1>15, <1>16, <2>1, <2>2
<1>17. CASE m \notin A
  <2>1. A \cap 1..m = A \cap 1..m - 1
    BY <1>11, <1>17
  <2>2. FlattenSeq(r) \o <<>> = FlattenSeq(r)
    <3> DEFINE S == {h[d] : d \in A \cap 1..m - 1}
    <3>1. PICK place \in [1..k -> A \cap 1..m - 1] :
            FlattenSeq(r) = [i \in 1..k |-> h[place[i]]]
      BY <1>14
    <3>2. \A i \in 1..k : h[place[i]] \in S
      BY <3>1
    <3> HIDE DEF S
    <3>3. FlattenSeq(r) \in Seq(S)
      BY <3>1, <3>2
    <3>4. QED
      BY <3>3
  <2>3. QED
    BY <1>8, <1>13, <1>15, <1>17, <2>1, <2>2
<1>18. QED
  BY <1>16, <1>17

\* What SourcesAssumption says of one source.
IsListed(source) ==
  /\ source.stmts \in Seq(Range(source.stmts))
  /\ source.arrays \in Seq(Range(source.arrays))
  /\ \A n \in DOMAIN source.stmts :
       /\ source.stmts[n].accesses \in Seq(Range(source.stmts[n].accesses))
       /\ \A x \in DOMAIN source.stmts[n].accesses :
            source.stmts[n].accesses[x] =
              [array |-> source.stmts[n].accesses[x].array,
               ref |-> source.stmts[n].accesses[x].ref]

Accesses(source) ==
  FlattenSeq([n \in DOMAIN source.stmts |-> source.stmts[n].accesses])

IsAccess(a) == a = [array |-> a.array, ref |-> a.ref]

LEMMA AccessesAreListed ==
  ASSUME NEW source, IsListed(source)
  PROVE  /\ Len(Accesses(source)) \in Nat
         /\ DOMAIN Accesses(source) = 1..Len(Accesses(source))
         /\ \A x \in DOMAIN Accesses(source) : IsAccess(Accesses(source)[x])
<1> DEFINE s == [n \in DOMAIN source.stmts |-> source.stmts[n].accesses]
           S == {a \in UNION {Range(source.stmts[n].accesses) : n \in DOMAIN source.stmts} :
                   IsAccess(a)}
<1>1. PICK m \in Nat : m = Len(source.stmts) /\ DOMAIN source.stmts = 1..m
  BY LenProperties DEF IsListed
<1>2. Len(s) = m
  BY <1>1
<1>3. ASSUME NEW n \in 1..m
      PROVE  s[n] \in Seq(S)
  <2> DEFINE list == source.stmts[n].accesses
  <2>1. n \in DOMAIN source.stmts /\ s[n] = list
    BY <1>1
  <2>2. /\ list \in Seq(Range(list))
        /\ \A x \in DOMAIN list : list[x] = [array |-> list[x].array, ref |-> list[x].ref]
    BY <2>1 DEF IsListed
  <2>3. ASSUME NEW x \in DOMAIN list
        PROVE  list[x] \in S
    <3>1. list[x] \in Range(list)
      BY DEF Range
    <3>2. IsAccess(list[x])
      BY <2>2 DEF IsAccess
    <3>3. list[x] \in UNION {Range(source.stmts[k].accesses) : k \in DOMAIN source.stmts}
      <4> HIDE DEF list
      <4>1. list = source.stmts[n].accesses
        BY DEF list
      <4>2. QED
        BY <2>1, <3>1, <4>1
    <3>4. QED
      BY <3>2, <3>3
  <2>4. Len(list) \in Nat /\ DOMAIN list = 1..Len(list) /\ list = [x \in 1..Len(list) |-> list[x]]
    BY <2>2, LenProperties
  <2> HIDE DEF list, S
  <2>5. list \in Seq(S)
    BY <2>3, <2>4
  <2>6. QED
    BY <2>1, <2>5
<1> HIDE DEF s, S
<1>4. FlattenSeq(s) \in Seq(S)
  <2>1. CASE m = 0
    <3>1. s = <<>>
      BY <1>1, <2>1 DEF s
    <3>2. FlattenSeq(s) = <<>>
      BY <1>2, <2>1, <3>1, FlattenEmpty
    <3>3. QED
      BY <3>2
  <2>2. CASE m # 0
    <3>1. m \in Nat \ {0}
      BY <2>2
    <3>2. QED
      BY ONLY <1>2, <1>3, <3>1, FlattenType
  <2>3. QED
    BY <2>1, <2>2
<1>5. Accesses(source) = FlattenSeq(s)
  BY DEF Accesses, s
<1>6. \A x \in DOMAIN FlattenSeq(s) : FlattenSeq(s)[x] \in S
  BY <1>4
<1>7. QED
  BY <1>4, <1>5, <1>6, LenProperties DEF S

\* What ArraysAreAccessed says of one list that was returned.
ArraysDescribe(source, list) ==
  LET accesses == Accesses(source)
      accessed == {d \in DOMAIN source.arrays :
                     \E x \in DOMAIN accesses : accesses[x].array = source.arrays[d]}
  IN \E declaration \in [DOMAIN list -> accessed] :
       /\ accessed = Range(declaration)
       /\ \A m, n \in DOMAIN list : m < n => declaration[m] < declaration[n]
       /\ \A n \in DOMAIN list :
            /\ list[n].array = source.arrays[declaration[n]]
            /\ \E x \in DOMAIN accesses :
                 /\ accesses[x] = [array |-> list[n].array, ref |-> list[n].ref]
                 /\ \A y \in 1..x - 1 : accesses[y].array # list[n].array

LEMMA ArraysListed ==
  ASSUME NEW source, IsListed(source), NEW list, list = arrays(source)
  PROVE  ArraysDescribe(source, list)
<1> DEFINE all == Accesses(source)
           P == payloads(source)
           name(d) == source.arrays[d]
           accessed == {d \in DOMAIN source.arrays : \E x \in DOMAIN all : all[x].array = name(d)}
           its(d) == {x \in DOMAIN P : P[x].array = name(d)}
           h == [d \in accessed |-> P[Min(its(d))]]
<1>1. /\ Len(all) \in Nat /\ DOMAIN all = 1..Len(all)
      /\ \A x \in DOMAIN all : IsAccess(all[x])
  BY AccessesAreListed
<1>2. /\ DOMAIN P = DOMAIN all
      /\ \A x \in DOMAIN all : P[x].array = all[x].array /\ P[x].ref = all[x].ref
  <2> DEFINE line == source.stmts[Len(source.stmts)].line
  <2>1. P = [a \in DOMAIN all |-> [array |-> all[a].array, ref |-> all[a].ref, line |-> line]]
    BY DEF payloads, Accesses
  <2> HIDE DEF P, all, line
  <2>2. QED
    BY <2>1
<1>3. PICK n \in Nat : DOMAIN source.arrays = 1..n
  BY LenProperties DEF IsListed
<1>4. list = FlattenSeq([d \in 1..n |-> IF its(d) = {} THEN <<>> ELSE <<P[Min(its(d))]>>])
  BY <1>3 DEF arrays
<1> HIDE DEF all, P
<1>5. accessed \subseteq 1..n
  BY <1>3
<1>6. \A d \in 1..n : its(d) = {} <=> d \notin accessed
  BY <1>2, <1>3
<1>7. ASSUME NEW d \in accessed
      PROVE  /\ Min(its(d)) \in DOMAIN all /\ all[Min(its(d))].array = name(d)
             /\ \A y \in 1..Min(its(d)) - 1 : all[y].array # name(d)
             /\ h[d] = P[Min(its(d))]
  <2>1. its(d) # {} /\ its(d) \subseteq Nat
    BY <1>1, <1>2, <1>5, <1>6
  <2>2. \E k \in its(d) : \A j \in its(d) : k <= j
    <3> HIDE DEF its
    <3>1. QED
      BY <2>1, Least
  <2>3. Min(its(d)) \in its(d) /\ \A j \in its(d) : Min(its(d)) <= j
    <3> HIDE DEF its
    <3>1. QED
      BY <2>2 DEF Min
  <2>4. Min(its(d)) \in DOMAIN all /\ all[Min(its(d))].array = name(d)
    BY <1>2, <2>3
  <2>5. h[d] = P[Min(its(d))]
    OBVIOUS
  <2> DEFINE k == Min(its(d))
  <2>6. ASSUME NEW y \in 1..k - 1
        PROVE  all[y].array # name(d)
    <3>1. k \in 1..Len(all)
      BY <1>1, <2>4
    <3>2. y \in DOMAIN all /\ ~(k <= y)
      <4> HIDE DEF k
      <4>1. QED
        BY <1>1, <3>1
    <3>3. y \notin its(d)
      BY <2>3, <3>2
    <3>4. QED
      BY <1>2, <3>2, <3>3
  <2>7. QED
    BY <2>4, <2>5, <2>6
<1> HIDE DEF its
<1>8. [d \in 1..n |-> IF its(d) = {} THEN <<>> ELSE <<P[Min(its(d))]>>]
        = [d \in 1..n |-> IF d \in accessed THEN <<h[d]>> ELSE <<>>]
  BY <1>6, <1>7
<1> HIDE DEF h
<1>9. Lists(list, accessed, h)
  <2> HIDE DEF accessed
  <2>1. Lists(FlattenSeq([d \in 1..n |-> IF d \in accessed THEN <<h[d]>> ELSE <<>>]), accessed, h)
    BY <1>5, FlattenLists
  <2>2. QED
    BY <1>4, <1>8, <2>1
<1>10. PICK k \in Nat : \E place \in [1..k -> accessed] :
         /\ \A d \in accessed : \E i \in 1..k : place[i] = d
         /\ \A i, j \in 1..k : i < j => place[i] < place[j]
         /\ list = [i \in 1..k |-> h[place[i]]]
  <2> HIDE DEF accessed
  <2>1. QED
    BY <1>9 DEF Lists
<1>11. PICK place \in [1..k -> accessed] :
         /\ \A d \in accessed : \E i \in 1..k : place[i] = d
         /\ \A i, j \in 1..k : i < j => place[i] < place[j]
         /\ list = [i \in 1..k |-> h[place[i]]]
  BY <1>10
<1>12. DOMAIN list = 1..k /\ \A i \in 1..k : list[i] = h[place[i]] /\ place[i] \in accessed
  BY <1>11
<1>13. accessed = Range(place)
  <2> HIDE DEF accessed
  <2>1. QED
    BY <1>11 DEF Range
<1>14. ASSUME NEW i \in DOMAIN list
       PROVE  /\ list[i].array = source.arrays[place[i]]
              /\ \E x \in DOMAIN all :
                   /\ all[x] = [array |-> list[i].array, ref |-> list[i].ref]
                   /\ \A y \in 1..x - 1 : all[y].array # list[i].array
  <2> DEFINE d == place[i]
             x == Min(its(d))
  <2>1. d \in accessed /\ list[i] = h[d]
    BY <1>12
  <2>2. x \in DOMAIN all /\ all[x].array = name(d) /\ h[d] = P[x]
        /\ \A y \in 1..x - 1 : all[y].array # name(d)
    BY <1>7, <2>1
  <2> HIDE DEF accessed, x, d
  <2>3. list[i].array = all[x].array /\ list[i].ref = all[x].ref
    BY <1>2, <2>1, <2>2
  <2>4. all[x] = [array |-> list[i].array, ref |-> list[i].ref]
    BY <1>1, <2>2, <2>3 DEF IsAccess
  <2>5. QED
    BY <2>2, <2>3, <2>4 DEF d
<1>15. place \in [DOMAIN list -> accessed]
  BY <1>12
<1>16. \A m, j \in DOMAIN list : m < j => place[m] < place[j]
  BY <1>11, <1>12
<1>17. QED
  BY <1>13, <1>14, <1>15, <1>16 DEF all, ArraysDescribe

\* What arrays() returned is of some source of the client.
ArraysInv ==
  /\ arrays_ = [t \in Thread |-> arrays_[t]]
  /\ \A t \in Thread : arrays_[t] # <<>> =>
       \E source \in Clients[client].sources : arrays_[t] = <<source, arrays(source)>>

LEMMA ArraysInit == Init => ArraysInv
BY DEF Init, ArraysInv

LEMMA ArraysStep == PetsInv /\ HistoryInv /\ ArraysInv /\ [Next]_vars => ArraysInv'
<1> SUFFICES ASSUME PetsInv, HistoryInv, ArraysInv, [Next]_vars
             PROVE  ArraysInv'
  OBVIOUS
<1>1. Clients[client].scops \subseteq Scops
  BY ClientsAssumption DEF PetsInv
<1>2. ASSUME UNCHANGED <<client, arrays_>> PROVE ArraysInv'
  BY <1>2 DEF ArraysInv
<1>3. ASSUME NEW s \in Scops,
             \/ UseFreed(s) \/ parseFile(s) \/ Destroy(s) \/ assignSchedule(s)
             \/ ComputeAllDeps(s) \/ codegen(s)
             \/ \E from \in Scops : Construct(s, from) \/ Move(s, from)
      PROVE  ArraysInv'
  BY <1>2, <1>3 DEF UseFreed, parseFile, Destroy, assignSchedule, ComputeAllDeps, codegen,
                    Construct, Move
<1>4. ASSUME NEW t \in Thread,
             \/ AtDomain(t) \/ Describe(t) \/ StartPrinting(t)
             \/ PrintStatement(t) \/ PrintStatementDies(t) \/ ReturnCode(t)
      PROVE  ArraysInv'
  BY <1>2, <1>4 DEF AtDomain, Describe, StartPrinting, PrintStatement, PrintStatementDies,
                    ReturnCode, Rest
<1>5. ASSUME NEW s \in Scops, Arrays(s)
      PROVE  ArraysInv'
  <2> DEFINE source == pets[scop_[s]].source
             result == <<source, arrays(source)>>
  <2>1. scop_[s] # 0 /\ arrays_' = [arrays_ EXCEPT ![s.thread] = result] /\ UNCHANGED client
    BY <1>5 DEF Arrays, Use
  <2>2. source \in Clients[client].sources
    <3>1. scop_[s] \in 1..Len(pets)
      BY <2>1, SequenceFacts DEF PetsInv
    <3>2. QED
      BY <3>1 DEF HistoryInv, PetInv
  <2> HIDE DEF source
  <2>3. \E src \in Clients[client].sources : result = <<src, arrays(src)>>
    BY <2>2
  <2> HIDE DEF result
  <2>4. QED
    BY <2>1, <2>3 DEF ArraysInv
<1>6. CASE UNCHANGED vars
  BY <1>2, <1>6 DEF vars
<1>7. CASE Next
  BY <1>1, <1>3, <1>4, <1>5, <1>7 DEF Next
<1>8. QED
  BY <1>6, <1>7

\* arrays() describes every declared array that is accessed, once, in the order of
\* declaration, by its first access, whatever the number of statements and arrays.
THEOREM ArraysDescribed == Spec => []ArraysAreAccessed
<1>1. PetsInv /\ ArraysInv => ArraysAreAccessed
  <2> SUFFICES ASSUME PetsInv, ArraysInv
               PROVE  ArraysAreAccessed
    OBVIOUS
  <2>1. ASSUME NEW t \in Thread, arrays_[t] # <<>>
        PROVE  ArraysDescribe(arrays_[t][1], arrays_[t][2])
    <3>1. PICK source \in Clients[client].sources : arrays_[t] = <<source, arrays(source)>>
      BY <2>1 DEF ArraysInv
    <3>2. client \in DOMAIN Clients
      BY DEF PetsInv
    <3>3. IsListed(source)
      BY <3>2, SourcesAssumption DEF IsListed
    <3>4. ArraysDescribe(source, arrays(source))
      BY <3>3, ArraysListed
    <3>5. QED
      BY <3>1, <3>4
  <2>2. QED
    BY <2>1 DEF ArraysAreAccessed, ArraysDescribe, Accesses
<1>2. PetsInv /\ HistoryInv /\ ArraysInv /\ [Next]_vars => HistoryInv' /\ ArraysInv'
  BY HistoryStep, ArraysStep
<1>3. QED
  BY <1>1, <1>2, Invariants, HistoryInit, ArraysInit, PTL DEF Spec

=============================================================================
