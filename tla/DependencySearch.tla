-------------------------- MODULE DependencySearch --------------------------
(***************************************************************************)
(* DependencyGraph with the depth-first search of the code next to the     *)
(* definition of its result.                                               *)
(***************************************************************************)
EXTENDS DependencyGraph

\* Names are ordered, and a std::set is walked from the first one on.
First(S) == CHOOSE n \in S : \A m \in S : n <= m

\* edges_.find(n).
Successors(n, G) == {e[2] : e \in {f \in G : f[1] = n}}

\* DependencyGraph::dfs, with the loop that it runs as a function: whether
\* target was found, and the visited set, which all calls of one search share.
Dfs(loop, node, visited, target, G) ==
  IF node = target THEN [found |-> TRUE, visited |-> visited]
  ELSE IF node \in visited THEN [found |-> FALSE, visited |-> visited]
  ELSE loop[[next |-> Successors(node, G), visited |-> visited \cup {node}]]

\* Mutant of DfsRest: only the first successor is searched.
DfsFirst(loop, s, target, G) ==
  IF s.next = {} THEN [found |-> FALSE, visited |-> s.visited]
  ELSE Dfs(loop, First(s.next), s.visited, target, G)

\* The rest of the loop of dfs, over the successors s.next: it is left as soon
\* as one of them finds the target.
DfsRest(loop, s, target, G) ==
  IF s.next = {} THEN [found |-> FALSE, visited |-> s.visited]
  ELSE LET n == First(s.next)
           r == Dfs(loop, n, s.visited, target, G)
       IN  IF r.found THEN r ELSE loop[[next |-> s.next \ {n}, visited |-> r.visited]]

LoopStates == [next : SUBSET Names, visited : SUBSET Names]

\* DependencyGraph::reachable.
Search(start, target, G) ==
  LET loop[s \in LoopStates] == DfsRest(loop, s, target, G)
  IN  Dfs(loop, start, {}, target, G).found

\* The search, with its shared visited set and its early exit, decides exactly
\* reachability, for every pair of names in every graph that can be declared
\* (dependency_graph.hpp:47-72).
DfsDecidesReachability == \A a, b \in Names : Search(a, b, edges) <=> Reaches(a, b, edges)
=============================================================================
