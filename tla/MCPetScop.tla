------------------------------- MODULE MCPetScop -------------------------------
(***************************************************************************)
(* Small instances of PetScop.                                             *)
(***************************************************************************)
EXTENDS PetScop

CONSTANTS t1, t2,      \* threads
          S, T, E,     \* statements; E is of an extension node
          A, B, C      \* arrays, used as their elements too

a == [thread |-> t1, name |-> 1]
b == [thread |-> t1, name |-> 2]
c == [thread |-> t2, name |-> 1]
MCScops == {a, b, c}

\* Instances 1 and 2 are of S, 3 and 4 of T, 0 of the extension.
MCStmt == 0 :> E @@ 1 :> S @@ 2 :> S @@ 3 :> T @@ 4 :> T

Read(x) == [array |-> x, ref |-> "read"]
Write(x) == [array |-> x, ref |-> "write"]

\* S assigns to A from B, T uses A and C.
Stmts(list) ==
  <<[name |-> S, line |-> 1, accesses |-> <<Write(A), Read(B)>>],
    [name |-> T, line |-> 2, accesses |-> list]>>
SomeStmts == Stmts(<<Write(C), Read(A)>>)

Source(order, reads, may, must, stmts, declared) ==
  [order |-> order, stmt |-> MCStmt, reads |-> reads, may |-> may, must |-> must,
   stmts |-> stmts, arrays |-> declared]

Printable(order) == Source(order, {}, {}, {}, SomeStmts, <<A>>)

Client(scops, sources, schedules, customs, operations, n1, n2) ==
  [scops |-> scops, sources |-> sources, schedules |-> schedules, customs |-> customs,
   operations |-> operations, calls |-> t1 :> n1 @@ t2 :> n2]

\* Two threads, instances of S next to each other and apart.
Racing ==
  Client({a, c}, {Printable(<<1, 2>>), Printable(<<1, 3, 2>>)}, {}, {"comments"},
         {"parseFile", "codegen"}, 2, 2)

\* One thread, two calls, with instances of an extension.
Printing ==
  Client({a}, {Printable(<<1, 3, 2>>)}, {<<3, 2, 1>>, <<0, 1, 2, 3>>, <<1, 0, 3, 2>>},
         {"comments", "scheduled", "none"}, {"parseFile", "assign", "codegen"}, 4, 0)

\* Three instances with writes, certain or not, and reads of two elements.
Reordering ==
  Client({a}, {s \in {Source(<<1, 2, 3>>, reads, may, must, SomeStmts, <<A>>) :
                   reads \in SUBSET {<<1, B>>, <<2, A>>, <<3, A>>},
                   may \in SUBSET {<<1, A>>, <<2, A>>, <<2, B>>, <<3, B>>},
                   must \in SUBSET {<<1, A>>, <<2, A>>, <<2, B>>}} : s.must \subseteq s.may},
         {s \in [1..3 -> 1..3] : IsInjective(s)}, {}, {"parseFile", "deps", "assign"}, 5, 0)

Describing ==
  Client({a}, {Source(<<1, 3>>, {}, {}, {}, stmts, declared) :
            stmts \in {Stmts(<<Read(A), Write(A)>>), SomeStmts, Stmts(<<>>)},
            declared \in {<<A, B>>, <<C, B, A>>, <<B>>, <<>>}},
         {}, {}, {"parseFile", "arrays"}, 2, 0)

Owning ==
  Client({a, b, c}, {Printable(<<1, 2>>)}, {}, {},
         {"parseFile", "construct", "move", "destroy", "arrays"}, 5, 1)

MCClients ==
  [racing |-> Racing, printing |-> Printing, reordering |-> Reordering,
   describing |-> Describing, owning |-> Owning]

=============================================================================
