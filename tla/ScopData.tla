-------------------------------- MODULE ScopData --------------------------------
(***************************************************************************)
(* What a pet::Scop computes from the accesses of its statements: the      *)
(* dependences of compute_all_deps and the descriptions of arrays()        *)
(* (pet_wrapper.cc).                                                       *)
(*                                                                         *)
(* A source is the scop that pet extracts from a C file, a record of       *)
(*   order        the statement instances, in the order of the program     *)
(*   stmt         the name of the statement of every instance              *)
(*   reads, may, must                                                      *)
(*                sets of pairs of an instance and the element it reads,   *)
(*                may write and must write; what must be written, may be   *)
(*   stmts        the statements: records [name, line, accesses], where    *)
(*                accesses is a list of records [array, ref]               *)
(*   arrays       the names of the declared arrays.                        *)
(* A schedule is the list of the instances in the order of execution.      *)
(***************************************************************************)
EXTENDS Integers, Sequences, SequencesExt, FiniteSets

IsBefore(schedule, a, b) ==
  \E i, j \in DOMAIN schedule : i < j /\ schedule[i] = a /\ schedule[j] = b

\* isl_union_access_info_compute_flow, the may-dependences: pairs of a source and
\* a later sink of one element without a must-source of it between them.
compute_flow(schedule, sink, may, must) ==
  {d \in Range(schedule) \X Range(schedule) :
     \E s \in may \cup must :
       /\ s[1] = d[1] /\ <<d[2], s[2]>> \in sink
       /\ IsBefore(schedule, d[1], d[2])
       /\ ~\E w \in must : /\ w[2] = s[2]
                           /\ IsBefore(schedule, d[1], w[1])
                           /\ IsBefore(schedule, w[1], d[2])}

\* A bug: the output dependences are computed and not returned.
FlowOnly(source, schedule) ==
  compute_flow(schedule, source.reads, source.may, source.must)

\* The dependences under the schedule that the scop has at the time: of reads and
\* of writes on earlier writes.  There are none of writes on earlier reads.
compute_all_deps(source, schedule) ==
  LET false_deps == compute_flow(schedule, source.may \cup source.must,
                                 source.may, source.must)
      flow_deps == compute_flow(schedule, source.reads, source.may, source.must)
  IN flow_deps \cup false_deps

\* The accesses of all statements, each with the line of the last statement:
\* the loop that sets the line of a statement runs over those before it too.
payloads(source) ==
  LET line == source.stmts[Len(source.stmts)].line
      all == FlattenSeq([s \in DOMAIN source.stmts |-> source.stmts[s].accesses])
  IN [a \in DOMAIN all |-> [array |-> all[a].array, ref |-> all[a].ref, line |-> line]]

\* A bug: the search for an array does not stop at its first access.
AllPayloads(source) ==
  FlattenSeq([a \in DOMAIN source.arrays |->
    SelectSeq(payloads(source), LAMBDA p : p.array = source.arrays[a])])

\* For every declared array that is accessed, its first access.
arrays(source) ==
  FlattenSeq([d \in DOMAIN source.arrays |->
    LET its == {x \in DOMAIN payloads(source) : payloads(source)[x].array = source.arrays[d]}
    IN IF its = {} THEN <<>> ELSE <<payloads(source)[Min(its)]>>])

=============================================================================
