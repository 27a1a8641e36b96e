--------------------------- MODULE MCScheduleRewriter ---------------------------
(***************************************************************************)
(* Small instances of ScheduleRewriter.                                    *)
(***************************************************************************)
EXTENDS ScheduleRewriter

\* A dependence of a statement on itself and one between two statements.
Within1 == [source |-> "S", sink |-> "S"]
Across == [source |-> "S", sink |-> "R"]
MCDeps == {Within1, Across}

\* The signs of the distances: a single member, where the dependences may have
\* any sign.
Member == [MCDeps -> {-1, 0, 1}]

Band(m, stencil, kid) == Node(band(<<m>>, stencil), <<kid>>)

\* Nests of up to three bands.
Nests(kids) ==
  {Band(m, s, kid) : m \in Member, s \in BOOLEAN, kid \in kids}

Zero == [d \in MCDeps |-> 0]
Filter(s, kid) == Node(plain("filter", {s}), <<kid>>)
\* A filter above a nest, where only the dependence of S on itself is within.
Inner == {Band([Zero EXCEPT ![Within1] = x], s, Band([Zero EXCEPT ![Within1] = y], FALSE, Leaf)) :
            x, y \in {-1, 0, 1}, s \in BOOLEAN}
Sequences == {Node(plain("sequence", {}), <<Filter("S", kid), Filter("R", Leaf)>>) :
                kid \in Inner}

\* A band of a statement that depends on nothing of its own.
Apart == Node(plain("sequence", {}),
              <<Filter("S", Leaf), Filter("R", Band(Zero, FALSE, Leaf))>>)

Deep == {Band(m, FALSE, kid) : m \in Member,
           kid \in {Band(n, FALSE, Band(o, FALSE, Leaf)) : n, o \in Member}}

\* What a client starts with who has rewritten the tree before.
Rewritten ==
  {aroundBand(Band(Zero, TRUE, kid), {"S", "R"}) : kid \in {Leaf, Band(Zero, TRUE, Leaf)}}
  \cup {Node([band(<<Zero, Zero>>, FALSE) EXCEPT !.permutable = TRUE],
             <<Band(m, FALSE, Leaf)>>) : m \in Member}

MCOriginals ==
  {Node(plain("domain", {"S", "R"}), <<kid>>) :
     kid \in Deep \cup Nests(Sequences) \cup Nests({Band(Zero, TRUE, Leaf), Leaf, Apart})
             \cup Sequences \cup Rewritten}

=============================================================================
