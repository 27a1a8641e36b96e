-------------------------------- MODULE PetScop --------------------------------
(***************************************************************************)
(* pet::Scop (pet_wrapper.h, pet_wrapper.cc): clients parse a C file, read *)
(* the dependences and arrays of the scop, overwrite its schedule,         *)
(* generate code for it, move and destroy it.  Threads have their own      *)
(* Scop objects and isl contexts; what they share is the static counter of *)
(* at_domain, which is read and written without synchronisation.           *)
(*                                                                         *)
(* codegen is a call of isl, which calls back twice: at_domain for each    *)
(* leaf of the AST while it is built, printStatement for each leaf while   *)
(* it is printed.  The descriptor that the first makes is found by the     *)
(* second with the occurrence id that the leaf is annotated with.          *)
(***************************************************************************)
EXTENDS ScopData

CONSTANTS
  Thread,
  Scops,      \* the Scop objects, records [thread, name]
  Clients     \* bound: what the threads do, a function from names to records
              \*   scops       the Scop objects they use
              \*   sources     what pet extracts from their files: see ScopData
              \*   schedules   what they assign: lists of instances, also of
              \*               statements that extension nodes introduce
              \*   customs     the functions they pass to codegen
              \*   operations  what they call
              \*   calls       how often every thread does, a function from Thread

\* A schedule gives every instance one place in the order of execution; an access
\* is a pair of an instance and an element, and what must be written, may be.
ASSUME ClientsAssumption ==
  /\ \A s \in Scops : s.thread \in Thread
  /\ \A c \in DOMAIN Clients :
       LET sources == Clients[c].sources
       IN /\ Clients[c].scops \subseteq Scops
          /\ \A source \in sources :
               /\ source.order \in Seq(DOMAIN source.stmt) /\ IsInjective(source.order)
               /\ source.must \subseteq source.may
               /\ \A a \in source.reads \cup source.may :
                    a \in (DOMAIN source.stmt) \X {a[2]}
          /\ \A schedule \in Clients[c].schedules :
               /\ schedule \in Seq(UNION {DOMAIN source.stmt : source \in sources})
               /\ IsInjective(schedule)

\* Statements, their accesses and declared arrays are lists, accesses records.
ASSUME SourcesAssumption ==
  \A c \in DOMAIN Clients : \A source \in Clients[c].sources :
    /\ source.stmts \in Seq(Range(source.stmts))
    /\ source.arrays \in Seq(Range(source.arrays))
    /\ \A n \in DOMAIN source.stmts :
         LET accesses == source.stmts[n].accesses
         IN /\ accesses \in Seq(Range(accesses))
            /\ \A x \in DOMAIN accesses :
                 accesses[x] = [array |-> accesses[x].array, ref |-> accesses[x].ref]

VARIABLES
  client,     \* what the clients do in this behaviour
  pets,       \* the pet_scop objects: records [source, schedule, freed, known, deps, legal]
  scop_,      \* the pet_scop every Scop points to; 0 for no object
  counter,    \* the static counter of at_domain
  gen,        \* the last codegen of every thread
  overlapped, \* whether two threads were building an AST at the same time
  arrays_,    \* what arrays() returned last, to every thread: [source, list]
  calls,      \* the calls left to every thread
  undefined   \* whether a pet_scop was used after it was freed

vars == <<client, pets, scop_, counter, gen, overlapped, arrays_, calls, undefined>>

Idle == [pc |-> "idle", custom |-> "none", source |-> {}, leaves |-> <<>>,
         left |-> {}, leaf |-> 0, register |-> 0, statements |-> <<>>,
         annotation |-> <<>>, printed |-> <<>>]

Init ==
  /\ pets = <<>>
  /\ scop_ = [s \in Scops |-> 0]
  /\ counter = 0
  /\ gen = [t \in Thread |-> Idle]
  /\ overlapped = FALSE
  /\ arrays_ = [t \in Thread |-> <<>>]
  /\ client \in DOMAIN Clients
  /\ calls = Clients[client].calls
  /\ undefined = FALSE

\* A thread begins a call when none of its calls is running.
Call(t, operation) ==
  /\ operation \in Clients[client].operations
  /\ ~undefined
  /\ gen[t].pc \in {"idle", "done"}
  /\ calls[t] > 0
  /\ calls' = [calls EXCEPT ![t] = @ - 1]

\* A member function of a Scop object whose pet_scop is still there.
Use(s, operation) ==
  Call(s.thread, operation) /\ scop_[s] # 0 /\ pets[scop_[s]].freed = 0

\* Any other use: a read of freed memory, or a second free.
UseFreed(s) ==
  /\ \E operation \in Clients[client].operations \ {"parseFile", "construct", "move"} :
       Call(s.thread, operation)
  /\ scop_[s] # 0 /\ pets[scop_[s]].freed # 0
  /\ undefined' = TRUE
  /\ UNCHANGED <<client, pets, scop_, counter, gen, overlapped, arrays_>>

-----------------------------------------------------------------------------
(* Ownership.                                                              *)

\* known and deps are the client's: whether it has computed dependences, and which;
\* legal: whether all schedules assigned so far kept those known at the time.
parseFile(s) ==
  /\ Call(s.thread, "parseFile") /\ scop_[s] = 0
  /\ \E source \in Clients[client].sources :
       pets' = Append(pets, [source |-> source, schedule |-> source.order,
                             freed |-> 0, known |-> FALSE, deps |-> {}, legal |-> TRUE])
  /\ scop_' = [scop_ EXCEPT ![s] = Len(pets')]
  /\ UNCHANGED <<client, counter, gen, overlapped, arrays_, undefined>>

\* Scop s(from.get()): the constructor takes the pointer, get() does not give it up.
Construct(s, from) ==
  /\ s.thread = from.thread
  /\ Call(s.thread, "construct") /\ scop_[s] = 0 /\ scop_[from] # 0
  /\ scop_' = [scop_ EXCEPT ![s] = scop_[from]]
  /\ UNCHANGED <<client, pets, counter, gen, overlapped, arrays_, undefined>>

\* The defaulted move operations copy the pointer and leave the other object as
\* it is; what an object pointed to before is not freed.
Move(s, from) ==
  /\ s # from /\ s.thread = from.thread
  /\ Call(s.thread, "move") /\ scop_[from] # 0
  /\ scop_' = [scop_ EXCEPT ![s] = scop_[from]]
  /\ UNCHANGED <<client, pets, counter, gen, overlapped, arrays_, undefined>>

Destroy(s) ==
  /\ Use(s, "destroy")
  /\ pets' = [pets EXCEPT ![scop_[s]].freed = 1]
  /\ scop_' = [scop_ EXCEPT ![s] = 0]
  /\ UNCHANGED <<client, counter, gen, overlapped, arrays_, undefined>>

-----------------------------------------------------------------------------
(* Schedule, dependences and arrays.                                       *)

Keeps(schedule, deps) == \A d \in deps : IsBefore(schedule, d[1], d[2])

\* s.schedule() = schedule: IslCopyRefWrapper overwrites the schedule in pet_scop.
assignSchedule(s) ==
  /\ Use(s, "assign")
  /\ \E schedule \in Clients[client].schedules :
       /\ Range(pets[scop_[s]].source.order) \subseteq Range(schedule)
       /\ Range(schedule) \subseteq DOMAIN pets[scop_[s]].source.stmt
       /\ pets' = [pets EXCEPT ![scop_[s]].schedule = schedule,
                     ![scop_[s]].legal = @ /\ pets[scop_[s]].known
                                           /\ Keeps(schedule, pets[scop_[s]].deps)]
  /\ UNCHANGED <<client, scop_, counter, gen, overlapped, arrays_, undefined>>

ComputeAllDeps(s) ==
  /\ Use(s, "deps")
  /\ pets' = [pets EXCEPT ![scop_[s]].known = TRUE,
                ![scop_[s]].deps = compute_all_deps(pets[scop_[s]].source, pets[scop_[s]].schedule)]
  /\ UNCHANGED <<client, scop_, counter, gen, overlapped, arrays_, undefined>>

Arrays(s) ==
  /\ Use(s, "arrays")
  /\ arrays_' = [arrays_ EXCEPT ![s.thread] =
                   <<pets[scop_[s]].source, arrays(pets[scop_[s]].source)>>]
  /\ UNCHANGED <<client, pets, scop_, counter, gen, overlapped, undefined>>

-----------------------------------------------------------------------------
(* Code generation.                                                        *)

\* Whether the scop has a pet statement of that name: what stmt(id) looks for.
IsPet(source, name) == \E n \in DOMAIN source.stmts : source.stmts[n].name = name

\* isl's AST for a schedule: leaves with successive instances of one statement,
\* which unrolling and loop splitting may make several of.
Leaves(source, schedule) ==
  LET n == Len(schedule)
      name(i) == source.stmt[schedule[i]]
      changes == {i \in 1..n - 1 : name(i) # name(i + 1)}
      split(ends) == LET e == SetToSortSeq(ends, <)
                     IN [l \in 1..Cardinality(ends) |->
                          SubSeq(schedule, (IF l = 1 THEN 0 ELSE e[l - 1]) + 1, e[l])]
  IN {split(changes \cup more \cup {n}) : more \in SUBSET (1..n - 1)}

\* A bug: the vector of descriptors is kept between calls.
KeepsStatements(s) ==
  /\ Use(s, "codegen")
  /\ \E custom \in Clients[client].customs,
        leaves \in Leaves(pets[scop_[s]].source, pets[scop_[s]].schedule) :
       gen' = [gen EXCEPT ![s.thread] =
                 [Idle EXCEPT !.pc = "build", !.custom = custom, !.leaves = leaves,
                    !.source = pets[scop_[s]].source, !.left = DOMAIN leaves,
                    !.statements = gen[s.thread].statements]]
  /\ overlapped' = (overlapped \/ \E t \in Thread \ {s.thread} : gen[t].pc \in {"build", "store"})
  /\ UNCHANGED <<client, pets, scop_, counter, arrays_, undefined>>

\* custom prints pet statements and comments, pet statements only, or is empty.
codegen(s) ==
  /\ Use(s, "codegen")
  /\ \E custom \in Clients[client].customs,
        leaves \in Leaves(pets[scop_[s]].source, pets[scop_[s]].schedule) :
       gen' = [gen EXCEPT ![s.thread] =
                 [Idle EXCEPT !.pc = "build", !.custom = custom, !.leaves = leaves,
                    !.source = pets[scop_[s]].source, !.left = DOMAIN leaves]]
  /\ overlapped' = (overlapped \/ \E t \in Thread \ {s.thread} : gen[t].pc \in {"build", "store"})
  /\ UNCHANGED <<client, pets, scop_, counter, arrays_, undefined>>

\* What the callbacks leave alone.
Rest == <<client, pets, scop_, overlapped, arrays_, calls, undefined>>

stmtName(g, l) == g.source.stmt[g.leaves[l][1]]

\* at_domain takes the value of the counter.
AtDomain(t) ==
  /\ ~undefined /\ gen[t].pc = "build"
  /\ \E l \in gen[t].left :
       gen' = [gen EXCEPT ![t].pc = "store", ![t].leaf = l, ![t].register = counter,
                          ![t].left = @ \ {l}]
  /\ UNCHANGED <<counter, Rest>>

\* A bug: the statement is not a part of the occurrence id.
NamelessOccurrence(g, l) == <<"occ", g.register>>

\* A bug: the counter is not incremented.
KeepsCounter(t) == gen[t].register

occurrenceId(g, l) == <<stmtName(g, l), g.register>>

incremented(t) == gen[t].register + 1

\* It stores the counter and the descriptor, and annotates the leaf.
Describe(t) ==
  /\ ~undefined /\ gen[t].pc = "store"
  /\ counter' = incremented(t)
  /\ LET l == gen[t].leaf
         id == occurrenceId(gen[t], l)
     IN gen' = [gen EXCEPT ![t].pc = "build",
                  ![t].statements = Append(@, [occurrenceId |-> id, stmt |-> stmtName(gen[t], l),
                                               astBuild |-> gen[t].leaves[l]]),
                  ![t].annotation = [x \in DOMAIN @ \cup {l} |-> IF x = l THEN id ELSE @[x]]]
  /\ UNCHANGED Rest

StartPrinting(t) ==
  /\ ~undefined /\ gen[t].pc = "build" /\ gen[t].left = {}
  /\ gen' = [gen EXCEPT ![t].pc = "print", ![t].leaf = 1]
  /\ UNCHANGED <<counter, Rest>>

\* The positions of the descriptors with the id that the leaf is annotated with.
Found(g) ==
  {i \in DOMAIN g.statements : g.statements[i].occurrenceId = g.annotation[g.leaf]}

findStmtDescriptor(g) ==
  g.statements[CHOOSE i \in Found(g) : \A j \in Found(g) : i <= j]

\* "could not find statement", "no statement codegen function provided",
\* "attempting to print non-pet statement".
PrintDies(g) ==
  \/ Found(g) = {}
  \/ g.custom = "none"
  \/ g.custom = "scheduled" /\ ~IsPet(g.source, findStmtDescriptor(g).stmt)

PrintStatement(t) ==
  /\ ~undefined /\ gen[t].pc = "print" /\ gen[t].leaf <= Len(gen[t].leaves)
  /\ ~PrintDies(gen[t])
  /\ LET d == findStmtDescriptor(gen[t])
     IN gen' = [gen EXCEPT ![t].leaf = @ + 1,
                  ![t].printed = Append(@,
                     IF IsPet(gen[t].source, d.stmt)
                     THEN [comment |-> FALSE, stmt |-> d.stmt, instances |-> d.astBuild]
                     ELSE [comment |-> TRUE, stmt |-> gen[t].annotation[gen[t].leaf][1],
                           instances |-> <<>>])]
  /\ UNCHANGED <<counter, Rest>>

PrintStatementDies(t) ==
  /\ ~undefined /\ gen[t].pc = "print" /\ gen[t].leaf <= Len(gen[t].leaves)
  /\ PrintDies(gen[t])
  /\ gen' = [gen EXCEPT ![t].pc = IF Found(gen[t]) = {} THEN "lost" ELSE "died"]
  /\ UNCHANGED <<counter, Rest>>

ReturnCode(t) ==
  /\ ~undefined /\ gen[t].pc = "print" /\ gen[t].leaf > Len(gen[t].leaves)
  /\ gen' = [gen EXCEPT ![t].pc = "done"]
  /\ UNCHANGED <<counter, Rest>>

Next ==
  \/ \E s \in Clients[client].scops :
       \/ UseFreed(s) \/ parseFile(s) \/ Destroy(s)
       \/ assignSchedule(s) \/ ComputeAllDeps(s) \/ Arrays(s) \/ codegen(s)
       \/ \E from \in Clients[client].scops : Construct(s, from) \/ Move(s, from)
  \/ \E t \in Thread :
       \/ AtDomain(t) \/ Describe(t) \/ StartPrinting(t)
       \/ PrintStatement(t) \/ PrintStatementDies(t) \/ ReturnCode(t)

Spec == Init /\ [][Next]_vars

-----------------------------------------------------------------------------
\* Type invariant.  While a thread builds its AST the vector of descriptors has
\* one element for every leaf that isl has called back for, and no other
\* (pet_wrapper.cc:257-261).
TypeOK ==
  /\ \A p \in DOMAIN pets :
       /\ pets[p].source \in Clients[client].sources /\ pets[p].freed \in {0, 1}
       /\ pets[p].schedule \in Clients[client].schedules \cup {pets[p].source.order}
       /\ pets[p].deps \subseteq (DOMAIN pets[p].source.stmt) \X (DOMAIN pets[p].source.stmt)
  /\ scop_ \in [Scops -> 0..Len(pets)]
  /\ counter \in Nat
  /\ \A t \in Thread :
       /\ gen[t].pc \in {"idle", "build", "store", "print", "done", "died", "lost"}
       /\ gen[t].left \subseteq DOMAIN gen[t].leaves
       /\ gen[t].pc # "store" =>
            Len(gen[t].statements) + Cardinality(gen[t].left) = Len(gen[t].leaves)
       /\ Len(gen[t].printed) <= Len(gen[t].leaves)

\* However the threads' calls interleave, what is printed for a leaf of the AST is
\* its own statement if pet has one of that name, and a comment naming it if not;
\* a descriptor is found for every leaf ("The descriptor is expected to exist",
\* pet_wrapper.cc:165-177, 212-221, 228-246).  The counter that threads share
\* does not decide between statements, since ids begin with the statement's name.
PrintsOwnStatements ==
  \A t \in Thread :
    /\ gen[t].pc # "lost"
    /\ \A l \in DOMAIN gen[t].printed :
         /\ gen[t].printed[l].stmt = stmtName(gen[t], l)
         /\ gen[t].printed[l].comment <=> ~IsPet(gen[t].source, stmtName(gen[t], l))

\* Unless two threads have built ASTs at the same time, every leaf is printed with
\* the AST build, and so the subscripts, of the place where it stands, whatever
\* leaves of the same statement there are and in whatever order at_domain sees
\* them: occurrence ids are "unique" (pet_wrapper.cc:101, 139-163, 203-209).
PrintsOwnSchedules ==
  ~overlapped =>
    \A t \in Thread : \A l \in DOMAIN gen[t].printed :
      gen[t].printed[l].comment \/ gen[t].printed[l].instances = gen[t].leaves[l]

\* A client that reorders a scop step by step, each time keeping the dependences
\* that it last computed, of whatever schedule the scop had then, never moves an
\* access in front of a write it came after (pet_wrapper.cc:309-331).  Writes may
\* move in front of reads: compute_all_deps has no anti-dependences.
WritesStayFirst ==
  \A p \in DOMAIN pets :
    pets[p].legal =>
      LET source == pets[p].source
      IN \A w \in source.may, a \in source.reads \cup source.may :
           w[2] = a[2] /\ IsBefore(source.order, w[1], a[1]) =>
             IsBefore(pets[p].schedule, w[1], a[1])

\* arrays() describes every declared array that some statement accesses, once, in
\* the order of declaration, by the reference of its first access in the order of
\* the statements (pet_wrapper.cc:374-433).
ArraysAreAccessed ==
  \A t \in Thread : arrays_[t] # <<>> =>
    LET source == arrays_[t][1]
        list == arrays_[t][2]
        accesses == FlattenSeq([n \in DOMAIN source.stmts |-> source.stmts[n].accesses])
        accessed == {d \in DOMAIN source.arrays :
                       \E x \in DOMAIN accesses : accesses[x].array = source.arrays[d]}
    IN \E declaration \in [DOMAIN list -> accessed] :
         /\ accessed = Range(declaration)
         /\ \A m, n \in DOMAIN list : m < n => declaration[m] < declaration[n]
         /\ \A n \in DOMAIN list :
              /\ list[n].array = source.arrays[declaration[n]]
              /\ \E x \in DOMAIN accesses :
                   /\ accesses[x] = [array |-> list[n].array, ref |-> list[n].ref]
                   /\ \A y \in 1..x - 1 : accesses[y].array # list[n].array

=============================================================================
