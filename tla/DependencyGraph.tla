--------------------------- MODULE DependencyGraph ---------------------------
(***************************************************************************)
(* include/eafardb/dependency_graph.hpp: the declared dependencies between *)
(* views, and the constructor of src/derived_view.cpp that declares a view *)
(* with its inputs.  An edge <<s, d>> says that d depends on s.            *)
(***************************************************************************)
EXTENDS Naturals, Sequences

CONSTANTS Names,      \* the names a client may use
          MaxInputs   \* bound on the number of inputs of one derived view

ASSUME BoundAssumption == MaxInputs \in Nat

VARIABLES nodes, edges

vars == <<nodes, edges>>

Init == nodes = {} /\ edges = {}

-----------------------------------------------------------------------------
\* DependencyGraph::reachable, by its result: every set of names that holds a
\* and follows the edges G holds b.  DependencySearch has the search itself.
Closed(S, G) == \A e \in G : e[1] \in S => e[2] \in S
Reaches(a, b, G) == \A S \in SUBSET Names : a \in S /\ Closed(S, G) => b \in S

\* Mutants of EdgeAllowed: the search starts at the wrong end; the dependent
\* need not be declared.
EdgeAllowedReversed(N, G, s, d) == s \in N /\ d \in N /\ ~Reaches(s, d, G)
EdgeAllowedUndeclared(N, G, s, d) == s \in N /\ ~Reaches(d, s, G)

\* add_edge does not throw: both ends declared, and no path from d back to s.
EdgeAllowed(N, G, s, d) == s \in N /\ d \in N /\ ~Reaches(d, s, G)

\* declare_node of a new name.
DeclareNode(n) == /\ n \notin nodes
                  /\ nodes' = nodes \cup {n}
                  /\ UNCHANGED edges

AddEdge(s, d) == /\ EdgeAllowed(nodes, edges, s, d)
                 /\ edges' = edges \cup {<<s, d>>}
                 /\ UNCHANGED nodes

\* add_edge that throws.
RejectEdge(s, d) == ~EdgeAllowed(nodes, edges, s, d) /\ UNCHANGED vars

\* The positions of the inputs whose edge is added: each follows only accepted
\* ones, and the loop ends with the first that throws.
Accepted(n, inputs) ==
  LET Added(i) == edges \cup {<<inputs[j], n>> : j \in 1..(i - 1)}
      Ok(i) == EdgeAllowed(nodes \cup {n}, Added(i), inputs[i], n)
  IN  {i \in DOMAIN inputs : \A j \in 1..i : Ok(j)}

\* DerivedView::DerivedView: the name is declared first, then one edge per
\* input; after a throw the name and the edges so far stay declared.
Construct(n, inputs) ==
  /\ n \notin nodes
  /\ nodes' = nodes \cup {n}
  /\ edges' = edges \cup {<<inputs[i], n>> : i \in Accepted(n, inputs)}

Inputs == UNION {[1..m -> Names] : m \in 1..MaxInputs}

Next == \/ \E n \in Names : DeclareNode(n) \/ \E inputs \in Inputs : Construct(n, inputs)
        \/ \E s, d \in Names : AddEdge(s, d) \/ RejectEdge(s, d)

Spec == Init /\ [][Next]_vars

-----------------------------------------------------------------------------
\* Nodes are names and edges join declared nodes: "no undeclared edges".
TypeOK == nodes \subseteq Names /\ edges \subseteq nodes \X nodes

\* In whatever order nodes, edges and derived views are declared, with
\* constructors that fail half-way in between, no view ever depends on itself
\* through any number of edges (dependency_graph.hpp:6-7).
Acyclic == \A e \in edges : ~Reaches(e[2], e[1], edges)
=============================================================================
