------------------------------ MODULE ViewChain ------------------------------
(***************************************************************************)
(* Views on views: include/eafardb/derived_view.hpp, src/derived_view.cpp. *)
(* A source is a view over a table or a derived view over earlier sources. *)
(* A view is reduced here to what ValueSource shows of it: the sum of its  *)
(* column as it is (`world'), whether pages are pending, the sum it has    *)
(* cached and a version that grows when pages are recomputed (View.tla has *)
(* the rest).  Inputs are pointers to objects that exist, so a source only *)
(* depends on sources before it; DependencyGraph has the declared edges.   *)
(***************************************************************************)
EXTENDS Naturals, Sequences, FiniteSets

Seqs == INSTANCE SequencesExt

CONSTANTS Sums,        \* sums a column may have
          Combine(_),  \* CombineFn, from the sequence of the inputs' values
          MaxSources, MaxInputs, MaxVersion,  \* bounds
          MayThrow     \* what may throw: "refresh" of a view, "combine"

ASSUME ChainAssumption ==
  /\ 0 \in Sums
  /\ {MaxSources, MaxInputs, MaxVersion} \subseteq Nat
  /\ MayThrow \subseteq {"refresh", "combine"}

VARIABLES sources,     \* the sources, in the order of their construction
          owing        \* history: derived views that owe a computation (see Owed)

vars == <<sources, owing>>

Init == sources = << >> /\ owing = {}

IsView(s) == s.inputs = << >>

NewView(sum, pending) ==
  [inputs |-> << >>, world |-> sum, dirty |-> pending, value |-> 0, version |-> 0]

Versions(inputs, S) == [i \in DOMAIN inputs |-> S[inputs[i]].version]

\* The versions that the inputs have at construction count as seen.
NewDerived(inputs, S) ==
  [inputs |-> inputs, last_versions |-> Versions(inputs, S), value |-> 0, version |-> 0]

-----------------------------------------------------------------------------
\* Source n and everything below it.
Below(S, n) ==
  LET below[m \in DOMAIN S] == {m} \cup UNION {below[S[m].inputs[i]] : i \in DOMAIN S[m].inputs}
  IN  below[n]

\* View::value, seen from outside.
RefreshView(S, n) ==
  IF S[n].dirty
  THEN [S EXCEPT ![n].value = S[n].world, ![n].dirty = FALSE, ![n].version = @ + 1]
  ELSE S

\* A query under way: the sources, and the locals of the calls of
\* DerivedView::value that are active (inputs come earlier, so a source has one
\* at most): which saw an input grow, and the values each has read so far.
Begun(S) == [sources |-> S, changed |-> {}, vals |-> [m \in DOMAIN S |-> << >>]]

\* Mutant of CompareInput: the last input alone decides.
CompareLast(Q, m, i) ==
  LET u == Q.sources[m].inputs[i]
      grown == Q.sources[u].version # Q.sources[m].last_versions[i]
  IN  [sources |-> [Q.sources EXCEPT ![m].last_versions[i] = Q.sources[u].version],
       changed |-> IF grown THEN Q.changed \cup {m} ELSE Q.changed \ {m},
       vals |-> [Q.vals EXCEPT ![m] = Append(@, Q.sources[u].value)]]

\* Mutant of CompareInput: the version is not remembered.
CompareForgetful(Q, m, i) ==
  LET u == Q.sources[m].inputs[i]
      grown == Q.sources[u].version # Q.sources[m].last_versions[i]
  IN  [sources |-> Q.sources,
       changed |-> IF grown THEN Q.changed \cup {m} ELSE Q.changed,
       vals |-> [Q.vals EXCEPT ![m] = Append(@, Q.sources[u].value)]]

\* The loop of DerivedView::value of m, once its input i has been queried: the
\* version it has now is remembered before any value is computed from it.
CompareInput(Q, m, i) ==
  LET u == Q.sources[m].inputs[i]
      grown == Q.sources[u].version # Q.sources[m].last_versions[i]
  IN  [sources |-> [Q.sources EXCEPT ![m].last_versions[i] = Q.sources[u].version],
       changed |-> IF grown THEN Q.changed \cup {m} ELSE Q.changed,
       vals |-> [Q.vals EXCEPT ![m] = Append(@, Q.sources[u].value)]]

\* Mutant of CombineInputs: computes whether or not something has grown.
CombineAlways(Q, m) ==
  [sources |-> [Q.sources EXCEPT ![m].value = Combine(Q.vals[m]), ![m].version = @ + 1],
   changed |-> Q.changed \ {m},
   vals |-> [Q.vals EXCEPT ![m] = << >>]]

\* The end of DerivedView::value of m.
CombineInputs(Q, m) ==
  [sources |-> IF m \notin Q.changed THEN Q.sources
               ELSE [Q.sources EXCEPT ![m].value = Combine(Q.vals[m]), ![m].version = @ + 1],
   changed |-> Q.changed \ {m},
   vals |-> [Q.vals EXCEPT ![m] = << >>]]

\* One step of a query: <<m, i>> after input i of m has returned, and <<m, 0>>
\* at the end of m's own value().
Step(Q, m, i) ==
  IF IsView(Q.sources[m]) THEN [Q EXCEPT !.sources = RefreshView(@, m)]
  ELSE IF i = 0 THEN CombineInputs(Q, m)
  ELSE CompareInput(Q, m, i)

\* The steps of value() of n.  The loop queries each input whatever the others
\* said, so a source that can be reached along two paths is visited twice.
Steps(S, n) ==
  LET steps[m \in DOMAIN S] ==
        Seqs!FlattenSeq([i \in DOMAIN S[m].inputs |-> Append(steps[S[m].inputs[i]], <<m, i>>)])
          \o << <<m, 0>> >>
  IN  steps[n]

\* The first k of them.
After(S, steps, k) ==
  LET run[l \in 0..Len(steps)] ==
        IF l = 0 THEN Begun(S) ELSE Step(run[l - 1], steps[l][1], steps[l][2])
  IN  run[k]

\* value() of source n, when nothing throws.
Materialized(S, n) == LET steps == Steps(S, n) IN After(S, steps, Len(steps)).sources

-----------------------------------------------------------------------------
\* A derived view owes a computation when it counted versions as seen that it has
\* computed nothing from: it was made when nothing below it was pending, or its
\* function threw.  It pays with the next one.  Those that owe one still in S:
Owed(S) == {m \in owing : S[m].version = sources[m].version}

\* A view over an empty table has nothing pending, over another all its pages.
AddView(sum, pending) == /\ Len(sources) < MaxSources
                         /\ sum = 0 \/ pending
                         /\ sources' = Append(sources, NewView(sum, pending))
                         /\ UNCHANGED owing

\* Something below one of the inputs has pending pages: its version will grow.
Growing(inputs) ==
  \E i \in DOMAIN inputs : \E m \in Below(sources, inputs[i]) :
    IsView(sources[m]) /\ sources[m].dirty

AddDerived(inputs) ==
  /\ Len(sources) < MaxSources
  /\ sources' = Append(sources, NewDerived(inputs, sources))
  /\ owing' = IF Growing(inputs) THEN owing ELSE owing \cup {Len(sources) + 1}

\* A write to a page of the table: an event for its views.
Write(n, sum) == /\ IsView(sources[n])
                 /\ sources[n].version < MaxVersion
                 /\ sources' = [sources EXCEPT ![n].world = sum, ![n].dirty = TRUE]
                 /\ UNCHANGED owing

Query(n) == sources' = Materialized(sources, n) /\ owing' = Owed(sources')

\* Mutant of RefreshThrows: the events are taken out before the pages are read.
RefreshDropsEvents(n) ==
  /\ "refresh" \in MayThrow
  /\ LET steps == Steps(sources, n) IN
     \E k \in DOMAIN steps, counted \in 0..1 :
        LET S == After(sources, steps, k - 1).sources
            m == steps[k][1]
        IN  /\ IsView(S[m]) /\ S[m].dirty
            /\ counted = 0 \/ S[m].version < MaxVersion
            /\ sources' = [S EXCEPT ![m].version = @ + counted, ![m].dirty = FALSE]
  /\ owing' = Owed(sources')

\* A query that throws in a view's refresh keeps what the steps before it did.
\* The view keeps its events, but pages that went back to sleep and come before
\* the one that throws are counted.  (What they change of the cached sum shows
\* to nobody until a refresh succeeds.)
RefreshThrows(n) ==
  /\ "refresh" \in MayThrow
  /\ LET steps == Steps(sources, n) IN
     \E k \in DOMAIN steps, counted \in 0..1 :
        LET S == After(sources, steps, k - 1).sources
            m == steps[k][1]
        IN  /\ IsView(S[m]) /\ S[m].dirty
            /\ counted = 0 \/ S[m].version < MaxVersion
            /\ sources' = [S EXCEPT ![m].version = @ + counted]
  /\ owing' = Owed(sources')

\* So does one that throws in a combine function: the versions of the inputs of
\* that derived view are remembered, and nothing was computed from them.
CombineThrows(n) ==
  /\ "combine" \in MayThrow
  /\ LET steps == Steps(sources, n) IN
     \E k \in DOMAIN steps :
        LET Q == After(sources, steps, k - 1)
            m == steps[k][1]
        IN  /\ steps[k][2] = 0 /\ m \in Q.changed
            /\ sources' = Q.sources
            /\ owing' = Owed(sources') \cup {m}

Inputs == UNION {[1..m -> DOMAIN sources] : m \in 1..MaxInputs}

Next == \/ \E sum \in Sums, pending \in BOOLEAN : AddView(sum, pending)
        \/ \E inputs \in Inputs : AddDerived(inputs)
        \/ \E n \in DOMAIN sources : \/ Query(n) \/ RefreshThrows(n) \/ CombineThrows(n)
                                    \/ \E sum \in Sums : Write(n, sum)

Spec == Init /\ [][Next]_vars

-----------------------------------------------------------------------------
\* The value a source would have if everything were computed from the tables.
Truth(n) ==
  LET truth[m \in DOMAIN sources] ==
        IF IsView(sources[m]) THEN sources[m].world
        ELSE Combine([i \in DOMAIN sources[m].inputs |-> truth[sources[m].inputs[i]]])
  IN  truth[n]

\* "Materialize if dirty and return the current value" (view.hpp:28): a query of
\* any source answers with the value computed afresh from the tables.
QueriesAnswerTruth == \A n \in DOMAIN sources : Materialized(sources, n)[n].value = Truth(n)

\* What holds of that: whatever was made, written, queried and thrown before, in
\* chains and in diamonds, a query answers with the truth, unless a derived view
\* that it comes by owes a computation and the query gives it no cause for one.
AnswersTruth ==
  \A n \in DOMAIN sources :
    LET S == Materialized(sources, n)
    IN  Below(sources, n) \cap Owed(S) = {} => S[n].value = Truth(n)

\* "No recompute when nothing grew" (spec S6.3): a query that follows another
\* one of the same source changes nothing in any source.
SecondQueryIdle ==
  \A n \in DOMAIN sources :
    LET S == Materialized(sources, n) IN Materialized(S, n) = S

\* "Touches only the path" (test_chain.cpp:8): a query leaves alone what the
\* queried source does not depend on, and recomputes nothing twice, though it
\* comes by a shared input once for every path that leads there.
QueryTouchesPathOnly ==
  \A n \in DOMAIN sources :
    LET S == Materialized(sources, n)
    IN  \A m \in DOMAIN sources :
          IF m \in Below(sources, n)
          THEN S[m].version \in sources[m].version .. sources[m].version + 1
          ELSE S[m] = sources[m]
=============================================================================
