----------------------- MODULE DependencyGraph_proofs -----------------------
(***************************************************************************)
(* No order of declarations makes a dependency cycle, for any set of names *)
(* and any number of inputs; and the search behind the cycle test decides  *)
(* what it is meant to, for any finite set of names.                       *)
(***************************************************************************)
EXTENDS DependencySearch, FiniteSetTheorems, WellFoundedInduction, TLAPS

\* An edge that add_edge lets through closes no cycle.  The argument needs no
\* induction over paths: where s is not reachable from d there is a closed set
\* that holds d and not s, and it separates the ends of every edge anew.
LEMMA EdgeKeepsAcyclic ==
  ASSUME NEW G, NEW s \in Names, NEW d \in Names, ~Reaches(d, s, G),
         \A e \in G : ~Reaches(e[2], e[1], G)
  PROVE  \A e \in G \cup {<<s, d>>} : ~Reaches(e[2], e[1], G \cup {<<s, d>>})
<1>. DEFINE H == G \cup {<<s, d>>}
<1>1. PICK S \in SUBSET Names : d \in S /\ Closed(S, G) /\ s \notin S
  BY DEF Reaches
<1>2. \A T \in SUBSET Names : Closed(T, G) /\ s \notin T => Closed(T, H)
  BY DEF Closed
<1>3. ~Reaches(d, s, H)
  BY <1>1, <1>2 DEF Reaches
<1>4. ASSUME NEW e \in G PROVE ~Reaches(e[2], e[1], H)
  <2>1. PICK R \in SUBSET Names : e[2] \in R /\ Closed(R, G) /\ e[1] \notin R
    BY <1>4 DEF Reaches
  <2>2. CASE s \notin R
    BY <1>2, <2>1, <2>2 DEF Reaches
  <2>3. CASE e[1] \notin S
    <3>1. Closed(R \cup S, H)
      BY <1>1, <2>1 DEF Closed
    <3>2. R \cup S \in SUBSET Names /\ e[2] \in R \cup S /\ e[1] \notin R \cup S
      BY <2>1, <2>3
    <3>. QED
      BY <3>1, <3>2 DEF Reaches
  <2>4. CASE e[1] \in S
    <3>1. e[2] \in S
      BY <1>1, <1>4, <2>4 DEF Closed
    <3>2. Closed(R \cap S, G)
      BY <1>1, <2>1 DEF Closed
    <3>3. Closed(R \cap S, H)
      BY <1>1, <1>2, <3>2
    <3>4. R \cap S \in SUBSET Names /\ e[2] \in R \cap S /\ e[1] \notin R \cap S
      BY <2>1, <3>1
    <3>. QED
      BY <3>3, <3>4 DEF Reaches
  <2>. QED
    BY <2>3, <2>4
<1>. QED
  BY SMTT(30), <1>3, <1>4

\* A view declared with its inputs closes no cycle: nothing depends on it yet,
\* and an input that is the view itself is refused.
LEMMA InputsKeepAcyclic ==
  ASSUME TypeOK, Acyclic, NEW n \in Names \ nodes, NEW X \in SUBSET nodes
  PROVE  \A e \in edges \cup {<<x, n>> : x \in X} :
           ~Reaches(e[2], e[1], edges \cup {<<x, n>> : x \in X})
<1>. DEFINE H == edges \cup {<<x, n>> : x \in X}
<1>1. \A f \in H : f[1] \in nodes /\ f[1] # n
  BY DEF TypeOK
<1>2. \A f \in H : f \in edges \/ f[2] = n
  OBVIOUS
<1>3. ASSUME NEW e \in H PROVE ~Reaches(e[2], e[1], H)
  <2>1. CASE e[2] = n
    <3>1. {n} \in SUBSET Names /\ Closed({n}, H) /\ e[1] \notin {n} /\ e[2] \in {n}
      BY <1>1, <1>3, <2>1 DEF Closed
    <3>. QED
      BY <3>1 DEF Reaches
  <2>2. CASE e \in edges
    <3>1. PICK R \in SUBSET Names : e[2] \in R /\ Closed(R, edges) /\ e[1] \notin R
      BY <2>2 DEF Acyclic, Reaches
    <3>2. R \cup {n} \in SUBSET Names /\ Closed(R \cup {n}, H)
      BY <1>1, <1>2, <3>1 DEF Closed
    <3>3. e[2] \in R \cup {n} /\ e[1] \notin R \cup {n}
      BY <1>1, <1>3, <3>1
    <3>. QED
      BY <3>2, <3>3 DEF Reaches
  <2>. QED
    BY <1>2, <1>3, <2>1, <2>2
<1>. QED
  BY <1>3

\* What a constructor adds: edges from inputs that were declared before it.
LEMMA AcceptedInputs ==
  ASSUME TypeOK, NEW n \in Names \ nodes, NEW inputs \in Inputs
  PROVE  \A i \in Accepted(n, inputs) : inputs[i] \in nodes
<1>. SUFFICES ASSUME NEW i \in Accepted(n, inputs) PROVE inputs[i] \in nodes
  OBVIOUS
<1>1. i \in DOMAIN inputs /\ i \in Nat \ {0}
  BY BoundAssumption DEF Accepted, Inputs
<1>. DEFINE G == edges \cup {<<inputs[j], n>> : j \in 1..(i - 1)}
<1>2. EdgeAllowed(nodes \cup {n}, G, inputs[i], n)
  <2>1. i \in 1..i
    BY <1>1
  <2>. QED
    BY <2>1 DEF Accepted
<1>3. Reaches(n, n, G)
  BY DEF Reaches
<1>. QED
  BY <1>2, <1>3 DEF EdgeAllowed

\* Only declared names ever have dependencies (dependency_graph.hpp:8), also
\* when the constructor of a derived view throws half-way.
THEOREM DeclaredOnly == Spec => []TypeOK
<1>1. Init => TypeOK
  BY DEF Init, TypeOK
<1>2. TypeOK /\ [Next]_vars => TypeOK'
  <2>. SUFFICES ASSUME TypeOK, [Next]_vars PROVE TypeOK'
    OBVIOUS
  <2>. USE DEF TypeOK
  <2>1. ASSUME NEW n \in Names, DeclareNode(n) PROVE TypeOK'
    BY <2>1 DEF DeclareNode
  <2>2. ASSUME NEW n \in Names, NEW inputs \in Inputs, Construct(n, inputs) PROVE TypeOK'
    <3>1. \A i \in Accepted(n, inputs) : inputs[i] \in nodes
      BY <2>2, AcceptedInputs DEF Construct
    <3>. QED
      BY <2>2, <3>1 DEF Construct
  <2>3. ASSUME NEW s \in Names, NEW d \in Names, AddEdge(s, d) PROVE TypeOK'
    BY <2>3 DEF AddEdge, EdgeAllowed
  <2>4. CASE UNCHANGED vars
    BY <2>4 DEF vars
  <2>. QED
    BY <2>1, <2>2, <2>3, <2>4 DEF Next, RejectEdge
<1>. QED
  BY <1>1, <1>2, PTL DEF Spec

\* Acyclic is inductive together with TypeOK, which makes a name that is being
\* declared one that no edge leaves.
THEOREM NoCycles == Spec => []Acyclic
<1>1. Init => Acyclic
  BY DEF Init, Acyclic
<1>2. TypeOK /\ Acyclic /\ [Next]_vars => Acyclic'
  <2>. SUFFICES ASSUME TypeOK, Acyclic, [Next]_vars PROVE Acyclic'
    OBVIOUS
  <2>1. ASSUME UNCHANGED edges PROVE Acyclic'
    BY <2>1 DEF Acyclic, Reaches, Closed
  <2>2. ASSUME NEW n \in Names, NEW inputs \in Inputs, Construct(n, inputs) PROVE Acyclic'
    <3>. DEFINE X == {inputs[i] : i \in Accepted(n, inputs)}
    <3>1. n \in Names \ nodes /\ X \in SUBSET nodes
      BY <2>2, AcceptedInputs DEF Construct
    <3>2. edges' = edges \cup {<<x, n>> : x \in X}
      BY <2>2 DEF Construct
    <3>3. \A e \in edges' : ~Reaches(e[2], e[1], edges')
      <4>. HIDE DEF X
      <4>. QED
        BY <3>1, <3>2, InputsKeepAcyclic
    <3>. QED
      BY <3>3 DEF Acyclic, Reaches, Closed
  <2>3. ASSUME NEW s \in Names, NEW d \in Names, AddEdge(s, d) PROVE Acyclic'
    <3>1. edges' = edges \cup {<<s, d>>} /\ ~Reaches(d, s, edges)
      BY <2>3 DEF AddEdge, EdgeAllowed
    <3>2. \A e \in edges' : ~Reaches(e[2], e[1], edges')
      BY <3>1, EdgeKeepsAcyclic DEF Acyclic
    <3>. QED
      BY <3>2 DEF Acyclic, Reaches, Closed
  <2>4. CASE Next
    BY <2>1, <2>2, <2>3, <2>4 DEF Next, DeclareNode, RejectEdge, vars
  <2>. QED
    BY <2>1, <2>4 DEF vars
<1>. QED
  BY <1>1, <1>2, DeclaredOnly, PTL DEF Spec

-----------------------------------------------------------------------------
(* The depth-first search, for any finite set of names.  Its loop calls    *)
(* itself with a set of visited names that it got from itself, so that the *)
(* induction is over Weight: each call visits a new name, or has one       *)
(* successor less to try.                                                  *)

Weight(s) == Cardinality(Names \ s.visited) * (Cardinality(Names) + 1) + Cardinality(s.next)

\* A search only adds to the names that it has visited.
Grows(r, s) == /\ r = [found |-> r.found, visited |-> r.visited]
               /\ r.found \in BOOLEAN
               /\ r.visited \in SUBSET Names /\ s.visited \subseteq r.visited

\* Induction: a set that holds 0 and each successor holds every number.
LEMMA SetInduction ==
  ASSUME NEW T, 0 \in T, \A n \in Nat : n \in T => n + 1 \in T
  PROVE  Nat \subseteq T
<1>. SUFFICES ASSUME Nat \ T # {} PROVE FALSE
  OBVIOUS
<1>. DEFINE less == OpToRel(<, Nat)
<1>1. IsWellFoundedOn(less, Nat)
  BY NatLessThanWellFounded
<1>2. \A m, n \in Nat : m < n => <<m, n>> \in less
  BY DEF OpToRel
<1>. HIDE DEF less
<1>3. PICK n \in Nat \ T : \A m \in Nat \ T : ~(<<m, n>> \in less)
  BY <1>1, WFMin
<1>4. n # 0 /\ n - 1 \in Nat /\ n - 1 < n /\ n = (n - 1) + 1
  OBVIOUS
<1>5. n - 1 \in T
  BY <1>2, <1>3, <1>4
<1>. QED
  BY <1>3, <1>4, <1>5

\* A finite set of names has a first one.
LEMMA FirstIn ==
  ASSUME Names \subseteq Int, IsFiniteSet(Names), NEW S \in SUBSET Names, S # {}
  PROVE  First(S) \in S
<1>. DEFINE T == {n \in Nat : \A U \in SUBSET Names :
                    IsFiniteSet(U) /\ Cardinality(U) = n + 1 => \E x \in U : \A y \in U : x <= y}
<1>1. 0 \in T
  <2>. SUFFICES ASSUME NEW U \in SUBSET Names, IsFiniteSet(U), Cardinality(U) = 1
                PROVE  \E x \in U : \A y \in U : x <= y
    OBVIOUS
  <2>1. PICK x : U = {x}
    BY FS_Singleton
  <2>. QED
    BY <2>1
<1>2. ASSUME NEW n \in Nat, n \in T PROVE n + 1 \in T
  <2>. SUFFICES ASSUME NEW U \in SUBSET Names, IsFiniteSet(U), Cardinality(U) = n + 2
                PROVE  \E x \in U : \A y \in U : x <= y
    OBVIOUS
  <2>. U # {}
    <3>1. n + 2 # 0
      OBVIOUS
    <3>. QED
      BY <3>1, FS_EmptySet
  <2>1. PICK x \in U : TRUE
    OBVIOUS
  <2>2. U \ {x} \in SUBSET Names /\ IsFiniteSet(U \ {x}) /\ Cardinality(U \ {x}) = n + 1
    BY FS_RemoveElement
  <2>3. PICK z \in U \ {x} : \A y \in U \ {x} : z <= y
    BY <1>2, <2>2
  <2>4. x \in Int /\ z \in Int /\ \A y \in U : y \in Int
    OBVIOUS
  <2>5. CASE x <= z
    BY <2>3, <2>4, <2>5
  <2>6. CASE z <= x
    BY <2>3, <2>6
  <2>. QED
    BY <2>4, <2>5, <2>6
<1>3. IsFiniteSet(S) /\ Cardinality(S) \in Nat /\ Cardinality(S) # 0
  BY FS_Subset, FS_CardinalityType, FS_EmptySet
<1>4. Cardinality(S) - 1 \in T
  <2>. HIDE DEF T
  <2>1. Cardinality(S) - 1 \in Nat
    BY <1>3
  <2>. QED
    BY <1>1, <1>2, <2>1, SetInduction
<1>5. \E x \in S : \A y \in S : x <= y
  <2>1. Cardinality(S) = (Cardinality(S) - 1) + 1
    BY <1>3
  <2>. QED
    BY <1>3, <1>4, <2>1
<1>. QED
  BY <1>5 DEF First

\* Fewer names to visit weigh more than any number of successors.
LEMMA LessWeight ==
  ASSUME NEW N \in Nat, NEW a \in Nat, NEW b \in Nat, NEW i \in Nat, NEW j \in 0..N
  PROVE  /\ a * (N + 1) + i \in Nat
         /\ b < a => b * (N + 1) + j < a * (N + 1) + i
         /\ b <= a /\ j < i => b * (N + 1) + j < a * (N + 1) + i
<1>1. a * (N + 1) \in Nat /\ b * (N + 1) \in Nat
  OBVIOUS
<1>2. ASSUME b <= a PROVE b * (N + 1) <= a * (N + 1)
  <2>. DEFINE c == a - b
  <2>1. c \in Nat /\ a = b + c
    BY <1>2
  <2>. HIDE DEF c
  <2>2. c * (N + 1) \in Nat /\ (b + c) * (N + 1) = b * (N + 1) + c * (N + 1)
    BY <2>1
  <2>. QED
    BY <1>1, <2>1, <2>2
<1>3. ASSUME b < a PROVE b * (N + 1) + (N + 1) <= a * (N + 1)
  <2>. DEFINE c == a - b - 1
  <2>1. c \in Nat /\ a = b + c + 1
    BY <1>3
  <2>. HIDE DEF c
  <2>2. /\ c * (N + 1) \in Nat
        /\ (b + c + 1) * (N + 1) = b * (N + 1) + c * (N + 1) + (N + 1)
    BY <2>1
  <2>. QED
    BY <1>1, <2>1, <2>2
<1>. QED
  BY <1>1, <1>2, <1>3

\* What the calls of the loop are made with, and that each weighs less.
LEMMA CallsAreLighter ==
  ASSUME Names \subseteq Int, IsFiniteSet(Names), NEW G \in SUBSET (Names \X Names),
         NEW s \in LoopStates, s.next # {}
  PROVE  LET n     == First(s.next)
             inner == [next |-> Successors(n, G), visited |-> s.visited \cup {n}]
             outer(V) == [next |-> s.next \ {n}, visited |-> V]
         IN  /\ n \in s.next
             /\ inner \in LoopStates
             /\ n \notin s.visited => Weight(inner) < Weight(s)
             /\ \A V \in SUBSET Names : s.visited \subseteq V =>
                  outer(V) \in LoopStates /\ Weight(outer(V)) < Weight(s)
<1>. DEFINE n     == First(s.next)
            inner == [next |-> Successors(n, G), visited |-> s.visited \cup {n}]
            outer(V) == [next |-> s.next \ {n}, visited |-> V]
            N == Cardinality(Names)
            size(S) == Cardinality(S)
<1>1. s.next \in SUBSET Names /\ s.visited \in SUBSET Names
  BY DEF LoopStates
<1>2. n \in s.next
  BY <1>1, FirstIn
<1>. HIDE DEF n
<1>3. /\ Successors(n, G) \in SUBSET Names /\ s.visited \cup {n} \in SUBSET Names
      /\ s.next \ {n} \in SUBSET Names
  <2>1. Successors(n, G) \in SUBSET Names
    BY DEF Successors
  <2>. QED
    BY <1>1, <1>2, <2>1
<1>4. inner \in LoopStates /\ \A V \in SUBSET Names : outer(V) \in LoopStates
  BY <1>3 DEF LoopStates
<1>5. N \in Nat /\ \A S \in SUBSET Names : IsFiniteSet(S) /\ size(S) \in 0..N
  <2>. SUFFICES ASSUME NEW S \in SUBSET Names
                PROVE  N \in Nat /\ IsFiniteSet(S) /\ size(S) \in 0..N
    OBVIOUS
  <2>1. IsFiniteSet(S) /\ size(S) <= N
    BY FS_Subset
  <2>2. size(S) \in Nat /\ N \in Nat
    BY <2>1, FS_CardinalityType
  <2>. QED
    BY <2>1, <2>2
<1>6. \A S, T \in SUBSET Names : S \subseteq T => size(S) <= size(T)
  BY <1>5, FS_Subset
<1>7. ASSUME NEW S \in SUBSET Names, NEW x \in S PROVE size(S \ {x}) < size(S)
  <2>1. IsFiniteSet(S) /\ size(S) \in Nat
    BY <1>5
  <2>2. size(S \ {x}) = size(S) - 1
    BY <2>1, FS_RemoveElement
  <2>. QED
    BY <2>1, <2>2
<1>8. ASSUME n \notin s.visited PROVE Weight(inner) < Weight(s)
  <2>. DEFINE a == size(Names \ s.visited)
              b == size(Names \ (s.visited \cup {n}))
  <2>1. (Names \ s.visited) \in SUBSET Names /\ n \in Names \ s.visited
    BY <1>1, <1>2, <1>8
  <2>2. Names \ (s.visited \cup {n}) = (Names \ s.visited) \ {n}
    OBVIOUS
  <2>. DEFINE A == Names \ s.visited
              B == A \ {n}
  <2>3. A \in SUBSET Names /\ n \in A /\ B \in SUBSET Names
    BY <2>1
  <2>. HIDE DEF A
  <2>4. size(B) < size(A) /\ size(A) \in Nat /\ size(B) \in Nat
    BY <1>5, <1>7, <2>3
  <2>5. b < a /\ a \in Nat /\ b \in Nat
    BY <2>2, <2>4 DEF A
  <2>6. size(Successors(n, G)) \in 0..N /\ size(s.next) \in Nat
    BY <1>1, <1>3, <1>5
  <2>7. Weight(inner) = b * (N + 1) + size(Successors(n, G)) /\ Weight(s) = a * (N + 1) + size(s.next)
    BY DEF Weight
  <2>. HIDE DEF a, b, N, inner, size
  <2>. QED
    BY <1>5, <2>5, <2>6, <2>7, LessWeight
<1>9. ASSUME NEW V \in SUBSET Names, s.visited \subseteq V PROVE Weight(outer(V)) < Weight(s)
  <2>. DEFINE a == size(Names \ s.visited)
              b == size(Names \ V)
              j == size(s.next \ {n})
              i == size(s.next)
  <2>1. b <= a /\ a \in Nat /\ b \in Nat
    <3>. DEFINE A == Names \ s.visited
                B == Names \ V
    <3>1. A \in SUBSET Names /\ B \in SUBSET Names /\ B \subseteq A
      BY <1>9
    <3>. HIDE DEF A, B, size
    <3>2. size(B) <= size(A) /\ size(A) \in Nat /\ size(B) \in Nat
      BY <1>5, <1>6, <3>1
    <3>. QED
      BY <3>2 DEF A, B
  <2>2. j \in 0..N /\ i \in Nat /\ j < i
    <3>. HIDE DEF size, N
    <3>1. j \in 0..N /\ i \in 0..N
      BY <1>1, <1>3, <1>5
    <3>2. j < i
      BY <1>1, <1>2, <1>7
    <3>. QED
      BY <1>5, <3>1, <3>2
  <2>3. Weight(outer(V)) = b * (N + 1) + j /\ Weight(s) = a * (N + 1) + i
    BY DEF Weight
  <2>. HIDE DEF a, b, i, j, N, outer
  <2>. QED
    BY <1>5, <2>1, <2>2, <2>3, LessWeight
<1>. QED
  BY <1>2, <1>4, <1>8, <1>9 DEF n

\* Weights are numbers, and bounded.
LEMMA LoopWeight ==
  ASSUME IsFiniteSet(Names)
  PROVE  /\ \A s \in LoopStates : Weight(s) \in Nat
         /\ \E B \in Nat : \A s \in LoopStates : Weight(s) < B
<1>. DEFINE N == Cardinality(Names)
            B == (N + 1) * (N + 1) + 0
<1>1. N \in Nat
  BY FS_CardinalityType
<1>2. ASSUME NEW s \in LoopStates PROVE Weight(s) \in Nat /\ Weight(s) < B
  <2>. DEFINE a == Cardinality(Names \ s.visited)
              j == Cardinality(s.next)
  <2>1. s.next \subseteq Names /\ Names \ s.visited \subseteq Names
    BY DEF LoopStates
  <2>2. IsFiniteSet(s.next) /\ j <= N /\ IsFiniteSet(Names \ s.visited) /\ a <= N
    BY <2>1, FS_Subset
  <2>3. a \in Nat /\ j \in Nat
    BY <2>2, FS_CardinalityType
  <2>4. Weight(s) = a * (N + 1) + j
    BY DEF Weight
  <2>. HIDE DEF a, j, N
  <2>5. j \in 0..N /\ N + 1 \in Nat /\ a < N + 1 /\ 0 \in Nat
    BY <1>1, <2>2, <2>3
  <2>. QED
    BY <1>1, <2>3, <2>4, <2>5, LessWeight
<1>3. B \in Nat
  BY <1>1
<1>. QED
  BY <1>2, <1>3

\* What one turn of the loop makes of two loops that agree on all lighter
\* states: the same, and it grows.
LEMMA RestFromLighter ==
  ASSUME Names \subseteq Int, IsFiniteSet(Names), NEW G \in SUBSET (Names \X Names),
         NEW target, NEW s \in LoopStates, NEW f, NEW g,
         \A t \in LoopStates : Weight(t) < Weight(s) => f[t] = g[t] /\ Grows(f[t], t)
  PROVE  /\ DfsRest(f, s, target, G) = DfsRest(g, s, target, G)
         /\ Grows(DfsRest(f, s, target, G), s)
<1>1. CASE s.next = {}
  <2>. DEFINE r == [found |-> FALSE, visited |-> s.visited]
  <2>1. DfsRest(f, s, target, G) = r /\ DfsRest(g, s, target, G) = r
    BY <1>1 DEF DfsRest
  <2>2. Grows(r, s)
    BY DEF Grows, LoopStates
  <2>. QED
    BY <2>1, <2>2
<1>2. CASE s.next # {}
  <2>. DEFINE n     == First(s.next)
              inner == [next |-> Successors(n, G), visited |-> s.visited \cup {n}]
              outer(V) == [next |-> s.next \ {n}, visited |-> V]
              r == Dfs(f, n, s.visited, target, G)
              q == Dfs(g, n, s.visited, target, G)
  <2>1. /\ n \in s.next /\ inner \in LoopStates
        /\ n \notin s.visited => Weight(inner) < Weight(s)
        /\ \A V \in SUBSET Names : s.visited \subseteq V =>
             outer(V) \in LoopStates /\ Weight(outer(V)) < Weight(s)
    BY <1>2, CallsAreLighter
  <2>2. inner.visited = s.visited \cup {n} /\ \A V : outer(V).visited = V
    OBVIOUS
  <2>3. /\ DfsRest(f, s, target, G) = IF r.found THEN r ELSE f[outer(r.visited)]
        /\ DfsRest(g, s, target, G) = IF q.found THEN q ELSE g[outer(q.visited)]
    BY <1>2 DEF DfsRest
  <2>4. /\ r = IF n = target THEN [found |-> TRUE, visited |-> s.visited]
               ELSE IF n \in s.visited THEN [found |-> FALSE, visited |-> s.visited]
               ELSE f[inner]
        /\ q = IF n = target THEN [found |-> TRUE, visited |-> s.visited]
               ELSE IF n \in s.visited THEN [found |-> FALSE, visited |-> s.visited]
               ELSE g[inner]
    BY DEF Dfs
  <2>. HIDE DEF n, inner, outer, r, q
  <2>5. r = q /\ Grows(r, s)
    <3>1. CASE n = target \/ n \in s.visited
      <4>1. r = q /\ r.visited = s.visited /\ r.found \in BOOLEAN
            /\ r = [found |-> r.found, visited |-> r.visited]
        BY <2>4, <3>1
      <4>2. s.visited \in SUBSET Names
        BY DEF LoopStates
      <4>. QED
        BY <4>1, <4>2 DEF Grows
    <3>2. CASE ~(n = target \/ n \in s.visited)
      <4>1. f[inner] = g[inner] /\ Grows(f[inner], inner) /\ r = f[inner] /\ q = g[inner]
        BY <2>1, <2>4, <3>2
      <4>. QED
        BY <2>2, <4>1 DEF Grows
    <3>. QED
      BY <3>1, <3>2
  <2>6. /\ outer(r.visited) \in LoopStates
        /\ f[outer(r.visited)] = g[outer(r.visited)] /\ Grows(f[outer(r.visited)], s)
    <3>1. r.visited \in SUBSET Names /\ s.visited \subseteq r.visited
      BY <2>5 DEF Grows
    <3>2. /\ outer(r.visited) \in LoopStates
          /\ f[outer(r.visited)] = g[outer(r.visited)]
          /\ Grows(f[outer(r.visited)], outer(r.visited))
      BY <2>1, <3>1
    <3>. QED
      BY <2>2, <3>1, <3>2 DEF Grows
  <2>. QED
    BY <2>3, <2>5, <2>6
<1>. QED
  BY <1>1, <1>2

\* The loop is the function that the code computes: each call returns.
LEMMA LoopExists ==
  ASSUME Names \subseteq Int, IsFiniteSet(Names), NEW G \in SUBSET (Names \X Names), NEW target
  PROVE  \E loop : loop = [s \in LoopStates |-> DfsRest(loop, s, target, G)]
<1>. DEFINE Upto(f, m) ==
       /\ f = [s \in LoopStates |-> f[s]]
       /\ \A s \in LoopStates : Grows(f[s], s)
       /\ \A s \in LoopStates : Weight(s) < m => f[s] = DfsRest(f, s, target, G)
            T == {m \in Nat : \E f : Upto(f, m)}
<1>0. \A s \in LoopStates : Weight(s) \in Nat
  BY LoopWeight
<1>1. 0 \in T
  <2>. DEFINE f == [s \in LoopStates |-> [found |-> FALSE, visited |-> s.visited]]
  <2>1. f = [s \in LoopStates |-> f[s]] /\ \A s \in LoopStates : Grows(f[s], s)
    BY DEF Grows, LoopStates
  <2>. HIDE DEF f
  <2>2. Upto(f, 0)
    BY <1>0, <2>1
  <2>. QED
    BY <2>2
<1>2. ASSUME NEW m \in Nat, m \in T PROVE m + 1 \in T
  <2>1. PICK f : Upto(f, m)
    BY <1>2
  <2>. DEFINE g == [s \in LoopStates |-> IF Weight(s) = m THEN DfsRest(f, s, target, G) ELSE f[s]]
  <2>2. /\ g = [s \in LoopStates |-> g[s]]
        /\ \A s \in LoopStates : g[s] = IF Weight(s) = m THEN DfsRest(f, s, target, G) ELSE f[s]
    OBVIOUS
  <2>. HIDE DEF g
  <2>3. \A s \in LoopStates : Grows(f[s], s) /\ (Weight(s) < m => f[s] = DfsRest(f, s, target, G))
    BY <2>1
  <2>4. ASSUME NEW s \in LoopStates, Weight(s) < m + 1
        PROVE  g[s] = DfsRest(g, s, target, G) /\ Grows(g[s], s)
    <3>1. Weight(s) \in Nat /\ (Weight(s) = m \/ Weight(s) < m)
      BY <1>0, <2>4
    <3>2. ASSUME NEW t \in LoopStates, Weight(t) < Weight(s) PROVE f[t] = g[t] /\ Grows(f[t], t)
      <4>1. Weight(t) \in Nat /\ Weight(t) # m
        BY <1>0, <3>1, <3>2
      <4>. QED
        BY <2>2, <2>3, <4>1
    <3>3. /\ DfsRest(f, s, target, G) = DfsRest(g, s, target, G)
          /\ Grows(DfsRest(f, s, target, G), s)
      BY <3>2, RestFromLighter
    <3>4. g[s] = DfsRest(f, s, target, G)
      BY <2>2, <2>3, <3>1
    <3>. QED
      BY <3>3, <3>4
  <2>5. ASSUME NEW s \in LoopStates PROVE Grows(g[s], s)
    <3>1. CASE Weight(s) = m
      <4>1. Weight(s) < m + 1
        BY <3>1
      <4>. QED
        BY <2>4, <4>1
    <3>2. CASE Weight(s) # m
      BY <2>2, <2>3, <3>2
    <3>. QED
      BY <3>1, <3>2
  <2>6. Upto(g, m + 1)
    BY <2>2, <2>4, <2>5
  <2>. QED
    BY <2>6
<1>3. PICK B \in Nat : \A s \in LoopStates : Weight(s) < B
  BY LoopWeight
<1>4. B \in T
  <2>. HIDE DEF T
  <2>. QED
    BY <1>1, <1>2, SetInduction
<1>5. PICK f : Upto(f, B)
  BY <1>4
<1>6. \A s \in LoopStates : f[s] = DfsRest(f, s, target, G)
  BY <1>3, <1>5
<1>7. f = [s \in LoopStates |-> f[s]]
  BY <1>5
<1>8. f = [s \in LoopStates |-> DfsRest(f, s, target, G)]
  BY <1>6, <1>7
<1>. QED
  BY <1>8

\* What a search with result r owes to its state s: an answer that is yes has
\* a successor from which target is reached; one that is no has visited all of
\* them, and from the names that it visited no edge leads to one that is not.
Right(r, s, target, G) ==
  IF r.found THEN \E n \in s.next : Reaches(n, target, G)
  ELSE target \notin s.visited =>
         /\ target \notin r.visited
         /\ s.next \subseteq r.visited
         /\ \A e \in G : e[1] \in r.visited \ s.visited => e[2] \in r.visited

\* One turn of the loop is right if the calls that it makes are.
LEMMA RestRight ==
  ASSUME Names \subseteq Int, IsFiniteSet(Names), NEW G \in SUBSET (Names \X Names),
         NEW target \in Names, NEW s \in LoopStates, NEW f,
         \A t \in LoopStates : Weight(t) < Weight(s) =>
           Grows(f[t], t) /\ Right(f[t], t, target, G)
  PROVE  Right(DfsRest(f, s, target, G), s, target, G)
<1>1. CASE s.next = {}
  <2>. DEFINE r == [found |-> FALSE, visited |-> s.visited]
  <2>1. DfsRest(f, s, target, G) = r
    BY <1>1 DEF DfsRest
  <2>2. Right(r, s, target, G)
    BY <1>1 DEF Right
  <2>. QED
    BY <2>1, <2>2
<1>2. CASE s.next # {}
  <2>. DEFINE n     == First(s.next)
              inner == [next |-> Successors(n, G), visited |-> s.visited \cup {n}]
              outer(V) == [next |-> s.next \ {n}, visited |-> V]
              r == Dfs(f, n, s.visited, target, G)
              q == f[outer(r.visited)]
  <2>1. /\ n \in s.next /\ inner \in LoopStates
        /\ n \notin s.visited => Weight(inner) < Weight(s)
        /\ \A V \in SUBSET Names : s.visited \subseteq V =>
             outer(V) \in LoopStates /\ Weight(outer(V)) < Weight(s)
    BY <1>2, CallsAreLighter
  <2>2. /\ inner.next = Successors(n, G) /\ inner.visited = s.visited \cup {n}
        /\ \A V : outer(V).next = s.next \ {n} /\ outer(V).visited = V
    OBVIOUS
  <2>3. DfsRest(f, s, target, G) = IF r.found THEN r ELSE q
    BY <1>2 DEF DfsRest
  <2>4. r = IF n = target THEN [found |-> TRUE, visited |-> s.visited]
            ELSE IF n \in s.visited THEN [found |-> FALSE, visited |-> s.visited]
            ELSE f[inner]
    BY DEF Dfs
  <2>5. \A x, y : y \in Successors(x, G) <=> \E e \in G : e[1] = x /\ e[2] = y
    BY DEF Successors
  <2>6. s.visited \in SUBSET Names /\ s.next \in SUBSET Names
    BY DEF LoopStates
  <2>. HIDE DEF n, inner, outer, r, q
  \* the search from n itself
  <2>7. /\ r.visited \in SUBSET Names /\ s.visited \subseteq r.visited
        /\ r.found => Reaches(n, target, G)
        /\ ~r.found /\ target \notin s.visited =>
             /\ target \notin r.visited /\ n \in r.visited
             /\ \A e \in G : e[1] \in r.visited \ s.visited => e[2] \in r.visited
    <3>1. CASE n = target
      <4>1. r.visited = s.visited /\ r.found = TRUE
        BY <2>4, <3>1
      <4>2. Reaches(n, target, G)
        BY <3>1 DEF Reaches
      <4>. QED
        BY <2>6, <4>1, <4>2
    <3>2. CASE n # target /\ n \in s.visited
      <4>1. r.visited = s.visited /\ r.found = FALSE
        BY <2>4, <3>2
      <4>. QED
        BY <2>6, <3>2, <4>1
    <3>3. CASE n # target /\ n \notin s.visited
      <4>1. r = f[inner] /\ Grows(r, inner) /\ Right(r, inner, target, G)
        BY <2>1, <2>4, <3>3
      <4>2. r.visited \in SUBSET Names /\ s.visited \cup {n} \subseteq r.visited
        BY <2>2, <4>1 DEF Grows
      <4>3. ASSUME r.found PROVE Reaches(n, target, G)
        <5>1. PICK m \in Successors(n, G) : Reaches(m, target, G)
          BY <2>2, <4>1, <4>3 DEF Right
        <5>2. PICK e \in G : e[1] = n /\ e[2] = m
          BY <2>5, <5>1
        <5>. QED
          BY <5>1, <5>2 DEF Reaches, Closed
      <4>4. ASSUME ~r.found, target \notin s.visited
            PROVE  /\ target \notin r.visited
                   /\ \A e \in G : e[1] \in r.visited \ s.visited => e[2] \in r.visited
        <5>1. /\ target \notin r.visited /\ Successors(n, G) \subseteq r.visited
              /\ \A e \in G : e[1] \in r.visited \ (s.visited \cup {n}) => e[2] \in r.visited
          <6>1. target \notin inner.visited
            BY <2>2, <3>3, <4>4
          <6>. QED
            BY <2>2, <4>1, <4>4, <6>1 DEF Right
        <5>2. \A e \in G : e[1] = n => e[2] \in r.visited
          BY <2>5, <5>1
        <5>. QED
          BY <5>1, <5>2
      <4>. QED
        BY <4>2, <4>3, <4>4
    <3>. QED
      BY <3>1, <3>2, <3>3
  \* and the rest of the loop
  <2>8. /\ Grows(q, outer(r.visited)) /\ Right(q, outer(r.visited), target, G)
    BY <2>1, <2>7 DEF q
  <2>9. CASE r.found
    BY <2>1, <2>3, <2>7, <2>9 DEF Right
  <2>10. CASE ~r.found
    <3>1. CASE q.found
      <4>1. PICK m \in s.next \ {n} : Reaches(m, target, G)
        BY <2>2, <2>8, <3>1 DEF Right
      <4>. QED
        BY <2>3, <2>10, <3>1, <4>1 DEF Right
    <3>2. CASE ~q.found
      <4>. SUFFICES ASSUME target \notin s.visited
                    PROVE  /\ target \notin q.visited /\ s.next \subseteq q.visited
                           /\ \A e \in G : e[1] \in q.visited \ s.visited => e[2] \in q.visited
        BY <2>3, <2>10, <3>2 DEF Right
      <4>1. /\ target \notin q.visited /\ s.next \ {n} \subseteq q.visited
            /\ \A e \in G : e[1] \in q.visited \ r.visited => e[2] \in q.visited
        BY <2>2, <2>7, <2>8, <2>10, <3>2 DEF Right
      <4>2. r.visited \subseteq q.visited
        BY <2>2, <2>8 DEF Grows
      <4>. QED
        BY <2>7, <2>10, <4>1, <4>2
    <3>. QED
      BY <3>1, <3>2
  <2>. QED
    BY <2>9, <2>10
<1>. QED
  BY <1>1, <1>2

\* So the loop is right from every state.
LEMMA LoopRight ==
  ASSUME Names \subseteq Int, IsFiniteSet(Names), NEW G \in SUBSET (Names \X Names),
         NEW target \in Names, NEW loop, loop = [s \in LoopStates |-> DfsRest(loop, s, target, G)]
  PROVE  \A s \in LoopStates : Grows(loop[s], s) /\ Right(loop[s], s, target, G)
<1>. DEFINE T == {m \in Nat : \A s \in LoopStates :
                    Weight(s) < m => Grows(loop[s], s) /\ Right(loop[s], s, target, G)}
<1>1. \A s \in LoopStates : loop[s] = DfsRest(loop, s, target, G)
  OBVIOUS
<1>2. \A s \in LoopStates : Weight(s) \in Nat
  BY LoopWeight
<1>3. 0 \in T
  BY <1>2
<1>4. ASSUME NEW m \in Nat, m \in T PROVE m + 1 \in T
  <2>. SUFFICES ASSUME NEW s \in LoopStates, Weight(s) < m + 1
                PROVE  Grows(loop[s], s) /\ Right(loop[s], s, target, G)
    OBVIOUS
  <2>1. \A t \in LoopStates : Weight(t) < Weight(s) =>
          Grows(loop[t], t) /\ Right(loop[t], t, target, G)
    <3>. SUFFICES ASSUME NEW t \in LoopStates, Weight(t) < Weight(s)
                  PROVE  Grows(loop[t], t) /\ Right(loop[t], t, target, G)
      OBVIOUS
    <3>1. Weight(t) < m
      BY <1>2
    <3>. QED
      BY <1>4, <3>1
  <2>2. Grows(loop[s], s)
    BY <1>1, <2>1, RestFromLighter
  <2>3. Right(loop[s], s, target, G)
    BY <1>1, <2>1, RestRight
  <2>. QED
    BY <2>2, <2>3
<1>5. PICK B \in Nat : \A s \in LoopStates : Weight(s) < B
  BY LoopWeight
<1>6. B \in T
  <2>. HIDE DEF T
  <2>. QED
    BY <1>3, <1>4, SetInduction
<1>. QED
  BY <1>5, <1>6

\* The search decides reachability in every graph.
LEMMA SearchDecides ==
  ASSUME Names \subseteq Int, IsFiniteSet(Names), NEW G \in SUBSET (Names \X Names),
         NEW a \in Names, NEW b \in Names
  PROVE  Search(a, b, G) <=> Reaches(a, b, G)
<1>. DEFINE IsLoop(f) == f = [s \in LoopStates |-> DfsRest(f, s, b, G)]
            loop  == CHOOSE f : IsLoop(f)
            first == [next |-> Successors(a, G), visited |-> {a}]
            r     == loop[first]
<1>1. Search(a, b, G) <=> Dfs(loop, a, {}, b, G).found
  BY DEF Search
<1>2. IsLoop(loop)
  <2>1. \E f : IsLoop(f)
    BY LoopExists
  <2>. HIDE DEF IsLoop
  <2>. QED
    BY <2>1
<1>. HIDE DEF loop
<1>3. Dfs(loop, a, {}, b, G) = IF a = b THEN [found |-> TRUE, visited |-> {}] ELSE r
  <2>1. {} \cup {a} = {a}
    OBVIOUS
  <2>. QED
    BY <2>1 DEF Dfs
<1>4. \A y : y \in Successors(a, G) <=> \E e \in G : e[1] = a /\ e[2] = y
  BY DEF Successors
<1>5. first \in LoopStates /\ first.next = Successors(a, G) /\ first.visited = {a}
  <2>1. Successors(a, G) \in SUBSET Names
    BY <1>4
  <2>. QED
    BY <2>1 DEF LoopStates
<1>6. Grows(r, first) /\ Right(r, first, b, G)
  <2>. HIDE DEF first
  <2>. QED
    BY <1>2, <1>5, LoopRight
<1>. HIDE DEF first, r
<1>7. CASE a = b
  BY <1>1, <1>3, <1>7 DEF Reaches
<1>8. CASE a # b /\ r.found
  <2>1. PICK m \in Successors(a, G) : Reaches(m, b, G)
    BY <1>5, <1>6, <1>8 DEF Right
  <2>2. PICK e \in G : e[1] = a /\ e[2] = m
    BY <1>4, <2>1
  <2>3. Reaches(a, b, G)
    BY <2>1, <2>2 DEF Reaches, Closed
  <2>. QED
    BY <1>1, <1>3, <1>8, <2>3
<1>9. CASE a # b /\ ~r.found
  <2>1. /\ b \notin r.visited /\ Successors(a, G) \subseteq r.visited
        /\ \A e \in G : e[1] \in r.visited \ {a} => e[2] \in r.visited
    BY <1>5, <1>6, <1>9 DEF Right
  <2>2. r.visited \in SUBSET Names /\ a \in r.visited
    BY <1>5, <1>6 DEF Grows
  <2>3. Closed(r.visited, G)
    BY <1>4, <2>1 DEF Closed
  <2>4. ~Reaches(a, b, G)
    BY <2>1, <2>2, <2>3 DEF Reaches
  <2>. QED
    BY <1>1, <1>3, <1>9, <2>4
<1>. QED
  BY <1>7, <1>8, <1>9

\* The depth-first search of the cycle test finds a path exactly if there is
\* one, in every graph that can be declared, for any finite set of names (the
\* numbers stand for their order).
THEOREM SearchCorrect ==
  ASSUME Names \subseteq Int, IsFiniteSet(Names)
  PROVE  Spec => []DfsDecidesReachability
<1>1. TypeOK => DfsDecidesReachability
  <2>. SUFFICES ASSUME TypeOK, NEW a \in Names, NEW b \in Names
                PROVE  Search(a, b, edges) <=> Reaches(a, b, edges)
    BY DEF DfsDecidesReachability
  <2>1. edges \in SUBSET (Names \X Names)
    BY DEF TypeOK
  <2>. QED
    BY <2>1, SearchDecides
<1>. QED
  BY <1>1, DeclaredOnly, PTL
=============================================================================
