------------------------- MODULE ViewedTable_proofs -------------------------
(***************************************************************************)
(* Views know their table.  A page that no event has marked since a view   *)
(* was first queried has its sum among the partials; what a sum of doubles *)
(* is does not matter for that, only that equal cells give equal sums.     *)
(* Where no sum rounds, the answer of a clean view is the sum that a full  *)
(* scan finds: the order of the rows does not matter then, and the         *)
(* differences that refresh adds to the cache cancel out.                  *)
(***************************************************************************)
EXTENDS ViewedTable, AtomicTable_proofs

-----------------------------------------------------------------------------
(* The views add nothing to the table.                                     *)

\* A step of the table with its views is a step of the table.
LEMMA ViewedSteps == [ViewNext]_viewVars => [Next]_vars
<1>. SUFFICES ASSUME [ViewNext]_viewVars PROVE [Next]_vars
  OBVIOUS
<1>1. ASSUME NEW col \in Columns, ViewAddColumn(col) PROVE Next
  BY <1>1 DEF ViewAddColumn, Next
<1>2. ASSUME NEW k \in Keys, ViewInsert(k) \/ ViewErase(k) \/ ViewRefused(k) PROVE Next
  BY <1>2 DEF ViewInsert, ViewErase, ViewRefused, Next
<1>3. ASSUME NEW k \in Keys, NEW c \in DOMAIN schema, NEW v \in Values, ViewSet(k, c, v) PROVE Next
  BY <1>3 DEF ViewSet, Next
<1>4. ASSUME NEW c, Attach(c) PROVE UNCHANGED vars
  BY <1>4 DEF Attach, vars
<1>5. ASSUME NEW i, Query(i) PROVE UNCHANGED vars
  BY <1>5 DEF Query, vars
<1>6. ASSUME ViewBegin \/ ViewCommit \/ ViewRollback PROVE Next
  BY <1>6 DEF ViewBegin, ViewCommit, ViewRollback, Next
<1>7. ASSUME UNCHANGED viewVars PROVE UNCHANGED vars
  BY <1>7 DEF viewVars, vars
<1>. QED
  BY <1>1, <1>2, <1>3, <1>4, <1>5, <1>6, <1>7 DEF ViewNext

\* Views do not disturb the table: every behaviour with views is one of the
\* table alone, so that what is proved of the table holds with views attached.
THEOREM ViewedIsTable == ViewSpec => Spec
<1>1. ViewInit => Init
  BY DEF ViewInit
<1>. QED
  BY <1>1, ViewedSteps, PTL DEF ViewSpec, Spec

-----------------------------------------------------------------------------
(* One query.                                                              *)

IsView(view) ==
  /\ view = [column |-> view.column, partials |-> view.partials, dirty |-> view.dirty,
             initialized |-> view.initialized, cached |-> view.cached,
             recomputed_pages |-> view.recomputed_pages]
  /\ view.initialized \in BOOLEAN
  /\ view.dirty \subseteq Nat /\ IsFiniteSet(view.dirty)

\* What the view knows of page p: its sum if it is materialized, else nothing.
Settled(view, p, d) ==
  /\ p \in DOMAIN view.partials <=> p \in DOMAIN d.pages
  /\ p \in DOMAIN d.pages => view.partials[p] = SumOf(FloatArray(d, p, view.column))

\* A turn of the loop has left page p alone.
SamePartial(new, old, p) ==
  /\ p \in DOMAIN new.partials <=> p \in DOMAIN old.partials
  /\ p \in DOMAIN new.partials => new.partials[p] = old.partials[p]

SameView(new, old) == /\ IsView(new)
                      /\ new.column = old.column /\ new.dirty = old.dirty
                      /\ new.initialized = old.initialized

\* One turn of the loop settles its page and leaves the others alone.  (That a
\* materialized page has rows is what tells it from a page asleep.)
LEMMA RecomputeSettles ==
  ASSUME NEW view, IsView(view), NEW d, NEW p,
         p \in DOMAIN d.pages => FloatArray(d, p, view.column) # << >>
  PROVE  /\ SameView(Recompute(view, p, d), view)
         /\ Settled(Recompute(view, p, d), p, d)
         /\ \A q : q # p => SamePartial(Recompute(view, p, d), view, q)
<1>. DEFINE new   == Recompute(view, p, d)
            array == IF p \in DOMAIN d.pages THEN FloatArray(d, p, view.column) ELSE << >>
            known == IF array = << >> THEN Without(view.partials, p)
                     ELSE Put(view.partials, p, SumOf(array))
<1>1. /\ SameView(new, view) /\ new.partials = known
  <2>. HIDE DEF array
  <2>1. new = [view EXCEPT !.cached = Plus(@, Minus(SumOf(array), Partial(view, p))),
                           !.partials = known,
                           !.recomputed_pages = @ + 1]
    BY DEF Recompute, array
  <2>. HIDE DEF new, known
  <2>. QED
    BY <2>1 DEF SameView, IsView
<1>2. array = << >> <=> p \notin DOMAIN d.pages
  OBVIOUS
<1>3. p \in DOMAIN known <=> p \in DOMAIN d.pages
  <2>. HIDE DEF array
  <2>. QED
    BY <1>2 DEF Put, Without
<1>4. p \in DOMAIN d.pages => known[p] = SumOf(FloatArray(d, p, view.column))
  <2>1. p \in DOMAIN d.pages => array = FloatArray(d, p, view.column)
    OBVIOUS
  <2>. HIDE DEF array
  <2>. QED
    BY <1>2, <2>1 DEF Put
<1>5. ASSUME NEW q, q # p
      PROVE  /\ q \in DOMAIN known <=> q \in DOMAIN view.partials
             /\ q \in DOMAIN known => known[q] = view.partials[q]
  <2>. HIDE DEF array
  <2>. QED
    BY <1>5 DEF Put, Without
<1>. HIDE DEF known, new
<1>6. Settled(new, p, d)
  BY <1>1, <1>3, <1>4 DEF Settled, SameView
<1>7. \A q : q # p => SamePartial(new, view, q)
  BY <1>1, <1>5 DEF SamePartial
<1>. QED
  BY <1>1, <1>6, <1>7 DEF new

\* The loop of refresh, over the first n pages of its order.
IsLoop(run, view, order, d, n) ==
  run = [i \in 0..n |-> IF i = 0 THEN view ELSE Recompute(run[i - 1], order[i], d)]

\* The loop has a result after each number of turns.
LEMMA LoopExists ==
  ASSUME NEW view, NEW order, NEW d, NEW n \in Nat
  PROVE  \E run : IsLoop(run, view, order, d, n)
<1>. DEFINE T == {m \in Nat : \E run : IsLoop(run, view, order, d, m)}
<1>1. 0 \in T
  <2>1. IsLoop([i \in 0..0 |-> view], view, order, d, 0)
    BY DEF IsLoop
  <2>. QED
    BY <2>1
<1>2. ASSUME NEW m \in Nat, m \in T PROVE m + 1 \in T
  <2>1. PICK run : IsLoop(run, view, order, d, m)
    BY <1>2
  <2>. DEFINE last == Recompute(run[m], order[m + 1], d)
              more == [i \in 0..(m + 1) |-> IF i <= m THEN run[i] ELSE last]
  <2>2. \A i \in 0..m : run[i] = IF i = 0 THEN view ELSE Recompute(run[i - 1], order[i], d)
    BY <2>1 DEF IsLoop
  <2>3. \A i \in 0..(m + 1) : more[i] = IF i <= m THEN run[i] ELSE last
    OBVIOUS
  <2>4. more = [i \in 0..(m + 1) |-> more[i]]
    OBVIOUS
  <2>. HIDE DEF more
  <2>5. ASSUME NEW i \in 0..(m + 1)
        PROVE  more[i] = IF i = 0 THEN view ELSE Recompute(more[i - 1], order[i], d)
    <3>1. CASE i <= m
      <4>1. i \in 0..m /\ (i # 0 => i - 1 \in 0..(m + 1) /\ i - 1 <= m)
        BY <3>1
      <4>2. more[i] = run[i] /\ (i # 0 => more[i - 1] = run[i - 1])
        BY <2>3, <3>1, <4>1
      <4>. QED
        BY <2>2, <4>1, <4>2
    <3>2. CASE ~(i <= m)
      <4>1. i = m + 1 /\ i # 0 /\ i - 1 = m /\ m \in 0..(m + 1)
        BY <3>2
      <4>2. more[i] = last /\ more[i - 1] = run[m]
        BY <2>3, <3>2, <4>1
      <4>. QED
        BY <4>1, <4>2
    <3>. QED
      BY <3>1, <3>2
  <2>6. IsLoop(more, view, order, d, m + 1)
    BY <2>4, <2>5 DEF IsLoop
  <2>. QED
    BY <2>6
<1>. HIDE DEF T
<1>3. n \in T
  BY <1>1, <1>2, SetInduction
<1>. QED
  BY <1>3 DEF T

\* The loop settles every page that it visits and leaves the others alone.
LEMMA LoopSettles ==
  ASSUME NEW view, IsView(view), NEW d, NEW n \in Nat, NEW order, NEW run,
         IsLoop(run, view, order, d, n),
         \A i \in 1..n : order[i] \in DOMAIN d.pages =>
                           FloatArray(d, order[i], view.column) # << >>
  PROVE  /\ SameView(run[n], view)
         /\ \A i \in 1..n : Settled(run[n], order[i], d)
         /\ \A q : (\A i \in 1..n : order[i] # q) => SamePartial(run[n], view, q)
<1>. DEFINE Done(m) == /\ SameView(run[m], view)
                       /\ \A i \in 1..m : Settled(run[m], order[i], d)
                       /\ \A q : (\A i \in 1..m : order[i] # q) => SamePartial(run[m], view, q)
            T == {m \in Nat : m <= n => Done(m)}
<1>1. \A i \in 0..n : run[i] = IF i = 0 THEN view ELSE Recompute(run[i - 1], order[i], d)
  BY DEF IsLoop
<1>2. 0 \in T
  <2>1. run[0] = view
    BY <1>1
  <2>2. Done(0)
    BY <2>1 DEF SameView, SamePartial
  <2>. QED
    BY <2>2
<1>3. ASSUME NEW m \in Nat, m \in T PROVE m + 1 \in T
  <2>. SUFFICES ASSUME m + 1 <= n PROVE Done(m + 1)
    OBVIOUS
  <2>. DEFINE p   == order[m + 1]
              old == run[m]
              new == run[m + 1]
  <2>1. Done(m)
    BY <1>3
  <2>2. new = Recompute(old, p, d) /\ m + 1 \in 1..n
    BY <1>1
  <2>3. IsView(old) /\ old.column = view.column
    BY <2>1 DEF SameView
  <2>4. /\ SameView(new, old) /\ Settled(new, p, d)
        /\ \A q : q # p => SamePartial(new, old, q)
    <3>1. p \in DOMAIN d.pages => FloatArray(d, p, old.column) # << >>
      BY <2>2, <2>3
    <3>. HIDE DEF p, old, new
    <3>. QED
      BY <2>2, <2>3, <3>1, RecomputeSettles
  <2>5. SameView(new, view)
    BY <2>1, <2>4 DEF SameView
  <2>6. ASSUME NEW i \in 1..(m + 1) PROVE Settled(new, order[i], d)
    <3>1. CASE order[i] = p
      BY <2>4, <3>1
    <3>2. CASE order[i] # p
      <4>1. i \in 1..m
        BY <3>2
      <4>2. Settled(old, order[i], d) /\ SamePartial(new, old, order[i])
        BY <2>1, <2>4, <3>2, <4>1
      <4>3. new.column = old.column
        BY <2>4 DEF SameView
      <4>. HIDE DEF old, new, p, Done
      <4>. QED
        BY <4>2, <4>3 DEF Settled, SamePartial
    <3>. QED
      BY <3>1, <3>2
  <2>7. ASSUME NEW q, \A i \in 1..(m + 1) : order[i] # q PROVE SamePartial(new, view, q)
    <3>1. q # p /\ \A i \in 1..m : order[i] # q
      BY <2>7
    <3>2. SamePartial(new, old, q) /\ SamePartial(old, view, q)
      BY <2>1, <2>4, <3>1
    <3>. HIDE DEF old, new, p, Done
    <3>. QED
      BY <3>2 DEF SamePartial
  <2>. QED
    BY <2>5, <2>6, <2>7
<1>. HIDE DEF T
<1>4. n \in T
  BY <1>2, <1>3, SetInduction
<1>. QED
  BY <1>4 DEF T

\* Column and flags are not touched by the loop, whatever it reads.
LEMMA RecomputeKeeps ==
  ASSUME NEW view, IsView(view), NEW d, NEW p
  PROVE  /\ IsView(Recompute(view, p, d))
         /\ Recompute(view, p, d).column = view.column
<1>. DEFINE array == IF p \in DOMAIN d.pages THEN FloatArray(d, p, view.column) ELSE << >>
            known == IF array = << >> THEN Without(view.partials, p)
                     ELSE Put(view.partials, p, SumOf(array))
            sums  == Plus(view.cached, Minus(SumOf(array), Partial(view, p)))
            new   == Recompute(view, p, d)
<1>1. new = [view EXCEPT !.cached = sums, !.partials = known, !.recomputed_pages = @ + 1]
  BY DEF Recompute
<1>. HIDE DEF new, known, sums
<1>2. IsView(new) /\ new.column = view.column
  BY <1>1 DEF IsView
<1>. QED
  BY <1>2 DEF new

\* The same for the whole loop.
LEMMA LoopKeeps ==
  ASSUME NEW view, IsView(view), NEW d, NEW n \in Nat, NEW order, NEW run,
         IsLoop(run, view, order, d, n)
  PROVE  IsView(run[n]) /\ run[n].column = view.column
<1>. DEFINE T == {m \in Nat : m <= n => IsView(run[m]) /\ run[m].column = view.column}
<1>1. \A i \in 0..n : run[i] = IF i = 0 THEN view ELSE Recompute(run[i - 1], order[i], d)
  BY DEF IsLoop
<1>2. 0 \in T
  BY <1>1
<1>3. ASSUME NEW m \in Nat, m \in T PROVE m + 1 \in T
  <2>. SUFFICES ASSUME m + 1 <= n PROVE IsView(run[m + 1]) /\ run[m + 1].column = view.column
    OBVIOUS
  <2>1. /\ run[m + 1] = Recompute(run[m], order[m + 1], d)
        /\ IsView(run[m]) /\ run[m].column = view.column
    BY <1>1, <1>3
  <2>. QED
    BY <2>1, RecomputeKeeps
<1>. HIDE DEF T
<1>4. n \in T
  BY <1>2, <1>3, SetInduction
<1>. QED
  BY <1>4 DEF T

\* What a view that was queried knows: each unmarked page that it has a share
\* of, or that is materialized, is a page of a float column, with its sum.
KnowsPage(view, p, d) ==
  /\ p \in DOMAIN view.partials \cap DOMAIN d.pages
  /\ IsFloatColumn(d, view.column)
  /\ view.partials[p] = SumOf(FloatArray(d, p, view.column))

ViewExact(view, d) ==
  IF view.initialized
  THEN \A p \in (DOMAIN view.partials \cup DOMAIN d.pages) \ view.dirty : KnowsPage(view, p, d)
  ELSE DOMAIN view.partials = {}

\* Every materialized page has rows to add up.
HasRows(d) == /\ DOMAIN d.pages \subseteq Nat /\ IsFiniteSet(DOMAIN d.pages)
              /\ \A p \in DOMAIN d.pages, c \in Nat :
                   IsFloatColumn(d, c) => FloatArray(d, p, c) # << >>

\* The pages that a query gets to: those before the first that it cannot read.
Visited(view, d) == {p \in Pending(view, d) : \A q \in Unreadable(view, d) : p < q}

\* How refresh leaves the flags.
Flagged(last, view, d) ==
  [last EXCEPT !.initialized = TRUE,
               !.dirty = IF Unreadable(view, d) = {} THEN {} ELSE Pending(view, d)]

\* run is the loop of the query, over n pages in the given order.
Visits(n, order, run, view, d) ==
  /\ n \in Nat
  /\ IsLoop(run, view, order, d, n)
  /\ \A i \in 1..n : order[i] \in Visited(view, d)
  /\ \A p \in Visited(view, d) : \E i \in 1..n : order[i] = p
  /\ Refresh(view, d) = Flagged(run[n], view, d)

\* refresh is the loop over those pages, and what it does to the flags.
LEMMA RefreshLoop ==
  ASSUME NEW d, HasRows(d), NEW view, IsView(view)
  PROVE  /\ Visited(view, d) \subseteq Pending(view, d)
         /\ Unreadable(view, d) = {} => Visited(view, d) = Pending(view, d)
         /\ \A p \in Visited(view, d) \cap DOMAIN d.pages : IsFloatColumn(d, view.column)
         /\ Pending(view, d) \subseteq Nat /\ IsFiniteSet(Pending(view, d))
         /\ \E n, order, run : Visits(n, order, run, view, d)
<1>. DEFINE pending == Pending(view, d)
            bad     == Unreadable(view, d)
            before  == Visited(view, d)
            order   == InOrder(before)
            N       == Len(order)
            Loop(f) == IsLoop(f, view, order, d, N)
            run     == CHOOSE f : Loop(f)
<1>1. Refresh(view, d) = Flagged(run[N], view, d)
  BY DEF Refresh, IsLoop, Visited, Flagged
<1>2. IsFiniteSet(pending) /\ pending \subseteq Nat
  <2>1. IsFiniteSet(view.dirty) /\ view.dirty \subseteq Nat
    BY DEF IsView
  <2>2. IsFiniteSet(DOMAIN d.pages) /\ DOMAIN d.pages \subseteq Nat
    BY DEF HasRows
  <2>3. IsFiniteSet(view.dirty \cup DOMAIN d.pages)
    BY <2>1, <2>2, FS_Union
  <2>. QED
    BY <2>1, <2>2, <2>3, FS_Subset DEF Pending
<1>3. bad = {p \in pending \cap DOMAIN d.pages : ~IsFloatColumn(d, view.column)}
  BY DEF Unreadable
<1>4. before = {p \in pending : \A q \in bad : p < q}
  BY DEF Visited
<1>. HIDE DEF pending, bad, before
<1>5. IsFiniteSet(before) /\ before \in SUBSET Int /\ before \subseteq pending
      /\ (bad = {} => before = pending)
  <2>1. before \subseteq pending /\ (bad = {} => before = pending)
    BY <1>4
  <2>2. IsFiniteSet(before)
    BY <1>2, <2>1, FS_Subset
  <2>3. before \subseteq Int
    BY <1>2, <2>1
  <2>. QED
    BY <2>1, <2>2, <2>3
<1>6. ASSUME NEW p \in before \cap DOMAIN d.pages PROVE IsFloatColumn(d, view.column)
  <2>1. p \notin bad
    <3>1. p \in Int /\ ~(p < p)
      BY <1>5
    <3>. QED
      BY <1>4, <3>1
  <2>. QED
    BY <1>3, <1>5, <2>1
<1>7. /\ N \in Nat /\ \A i \in 1..N : order[i] \in before
      /\ \A p \in before : \E i \in 1..N : order[i] = p
  <2>1. /\ Cardinality(before) \in Nat /\ order \in [1..Cardinality(before) -> before]
        /\ \A p \in before : \E i \in 1..Cardinality(before) : order[i] = p
    BY <1>5, InOrderSorts
  <2>. HIDE DEF order
  <2>. QED
    BY <2>1
<1>. HIDE DEF order, N
<1>8. Loop(run)
  <2>1. \E f : Loop(f)
    BY <1>7, LoopExists
  <2>. HIDE DEF Loop
  <2>. QED
    BY <2>1
<1>. HIDE DEF run
<1>9. Visits(N, order, run, view, d)
  BY <1>1, <1>7, <1>8 DEF Visits, before
<1>. QED
  BY <1>2, <1>5, <1>6, <1>7, <1>9 DEF pending, bad, before

\* A query does not change the column of the view.
LEMMA RefreshKeepsColumn ==
  ASSUME NEW d, HasRows(d), NEW view, IsView(view)
  PROVE  Refresh(view, d).column = view.column
<1>1. PICK n, order, run : Visits(n, order, run, view, d)
  BY RefreshLoop
<1>. DEFINE dirty == IF Unreadable(view, d) = {} THEN {} ELSE Pending(view, d)
            yes   == TRUE
            new   == Refresh(view, d)
<1>2. new = [run[n] EXCEPT !.initialized = yes, !.dirty = dirty]
  BY <1>1 DEF Visits, Flagged
<1>3. IsView(run[n]) /\ run[n].column = view.column
  BY <1>1, LoopKeeps DEF Visits
<1>. HIDE DEF dirty, yes, new
<1>4. new.column = view.column
  BY <1>2, <1>3 DEF IsView
<1>. QED
  BY <1>4 DEF new

\* A query makes the view exact, whether it throws half-way or not.
LEMMA RefreshExact ==
  ASSUME NEW d, HasRows(d), d.schema \in Seq(Columns), NEW view, IsView(view), ViewExact(view, d)
  PROVE  /\ IsView(Refresh(view, d)) /\ ViewExact(Refresh(view, d), d)
         /\ Refresh(view, d).initialized
<1>. DEFINE pending == Pending(view, d)
            bad     == Unreadable(view, d)
            before  == Visited(view, d)
            dirty   == IF bad = {} THEN {} ELSE pending
            yes     == TRUE
<1>1. PICK N, order, run : Visits(N, order, run, view, d)
  BY RefreshLoop
<1>. DEFINE last == run[N]
            new  == [last EXCEPT !.initialized = yes, !.dirty = dirty]
<1>2. /\ N \in Nat /\ IsLoop(run, view, order, d, N)
      /\ \A i \in 1..N : order[i] \in before
      /\ \A p \in before : \E i \in 1..N : order[i] = p
  BY <1>1 DEF Visits
<1>3. Refresh(view, d) = new
  BY <1>1 DEF Visits, Flagged
<1>4. IsFiniteSet(pending) /\ pending \subseteq Nat
  BY RefreshLoop
<1>5. \A p \in before \cap DOMAIN d.pages : IsFloatColumn(d, view.column)
  BY RefreshLoop
<1>6. before \subseteq pending /\ (bad = {} => before = pending)
  BY RefreshLoop
<1>. HIDE DEF pending, bad, before
<1>7. ASSUME NEW p \in before, p \in DOMAIN d.pages PROVE FloatArray(d, p, view.column) # << >>
  <2>1. IsFloatColumn(d, view.column)
    BY <1>5, <1>7
  <2>2. view.column \in Nat
    BY <2>1 DEF IsFloatColumn
  <2>. QED
    BY <1>7, <2>1, <2>2 DEF HasRows
<1>8. /\ SameView(last, view)
      /\ \A i \in 1..N : Settled(last, order[i], d)
      /\ \A q : (\A i \in 1..N : order[i] # q) => SamePartial(last, view, q)
  <2>1. \A i \in 1..N : order[i] \in DOMAIN d.pages => FloatArray(d, order[i], view.column) # << >>
    BY <1>2, <1>7
  <2>. QED
    BY <1>2, <2>1, LoopSettles
<1>9. /\ \A p \in before : Settled(last, p, d)
      /\ \A q : q \notin before => SamePartial(last, view, q)
  BY <1>2, <1>8
<1>. HIDE DEF last
<1>10. /\ new.partials = last.partials /\ new.column = view.column
       /\ new.initialized = TRUE /\ new.dirty = dirty /\ IsView(new)
  <2>1. dirty \subseteq Nat /\ IsFiniteSet(dirty)
    BY <1>4, FS_EmptySet
  <2>. HIDE DEF dirty, yes
  <2>2. new = [last EXCEPT !.initialized = yes, !.dirty = dirty]
    OBVIOUS
  <2>3. IsView(last) /\ last.column = view.column
    BY <1>8 DEF SameView
  <2>. HIDE DEF new
  <2>4. /\ new.column = last.column /\ new.partials = last.partials
        /\ new.dirty = dirty /\ new.initialized = yes
    BY <2>2, <2>3 DEF IsView
  <2>5. new = [column |-> new.column, partials |-> new.partials, dirty |-> new.dirty,
               initialized |-> new.initialized, cached |-> new.cached,
               recomputed_pages |-> new.recomputed_pages]
    BY <2>2, <2>3 DEF IsView
  <2>6. IsView(new)
    BY <2>1, <2>4, <2>5 DEF IsView, yes
  <2>. QED
    BY <2>3, <2>4, <2>6 DEF yes
<1>11. ASSUME NEW p \in DOMAIN last.partials \cup DOMAIN d.pages, p \in before, bad = {}
       PROVE  KnowsPage(new, p, d)
  <2>1. Settled(last, p, d) /\ last.column = view.column
    BY <1>8, <1>9, <1>11 DEF SameView
  <2>2. p \in DOMAIN last.partials /\ p \in DOMAIN d.pages
    BY <1>11, <2>1 DEF Settled
  <2>3. IsFloatColumn(d, view.column)
    BY <1>5, <1>11, <2>2
  <2>. HIDE DEF new
  <2>. QED
    BY <1>10, <2>1, <2>2, <2>3 DEF KnowsPage, Settled
<1>12. ASSUME NEW p \in DOMAIN last.partials \cup DOMAIN d.pages, p \notin pending
       PROVE  KnowsPage(new, p, d)
  <2>1. SamePartial(last, view, p)
    BY <1>6, <1>9, <1>12
  <2>2. p \in DOMAIN view.partials \cup DOMAIN d.pages
    BY <1>12, <2>1 DEF SamePartial
  <2>3. p \notin view.dirty /\ view.initialized
    BY <1>12, <2>2 DEF ViewExact, Pending, pending, IsView
  <2>4. KnowsPage(view, p, d)
    BY <2>2, <2>3 DEF ViewExact
  <2>. HIDE DEF new
  <2>. QED
    BY <1>10, <2>1, <2>4 DEF KnowsPage, SamePartial
<1>13. \A p \in (DOMAIN new.partials \cup DOMAIN d.pages) \ new.dirty : KnowsPage(new, p, d)
  <2>. HIDE DEF new
  <2>1. CASE bad = {}
    BY <1>6, <1>10, <1>11, <1>12, <2>1
  <2>2. CASE bad # {}
    BY <1>10, <1>12, <2>2
  <2>. QED
    BY <2>1, <2>2
<1>. HIDE DEF new
<1>. QED
  BY <1>3, <1>10, <1>13 DEF ViewExact

-----------------------------------------------------------------------------
(* The table under the views.                                              *)

\* Pages that fit their schema have a row in the array of every float column.
LEMMA CoherentHasRows ==
  ASSUME TypeOK, LayoutCoherent, PagesFinite
  PROVE  HasRows(db)
<1>1. db.pages = pages /\ db.schema = schema /\ schema \in Seq(Columns)
  BY DEF db, TypeOK
<1>2. ASSUME NEW p \in DOMAIN pages, NEW c \in Nat, IsFloatColumn(db, c)
      PROVE  FloatArray(db, p, c) # << >>
  <2>. DEFINE page == pages[p]
              l    == LocalIndex(schema, c)
  <2>1. c \in DOMAIN schema /\ schema[c].type = "Float64"
    BY <1>1, <1>2 DEF IsFloatColumn
  <2>2. /\ IsPage(page, Keys, Values) /\ page.row_keys # << >>
        /\ Aligned(page) /\ FitsSchema(page, schema)
    BY DEF TypeOK, IsPageMap, LayoutCoherent, PagesCoherent, PageCoherent
  <2>3. "Float64" \in ColumnTypes /\ l \in DOMAIN page.cols["Float64"]
    BY <1>1, <2>1, <2>2, LocalIndexFits
  <2>4. Len(page.cols["Float64"][l]) = Len(page.row_keys)
    BY <2>2, <2>3 DEF Aligned
  <2>5. Len(page.row_keys) # 0
    BY <2>2 DEF IsPage
  <2>6. FloatArray(db, p, c) = page.cols["Float64"][l]
    BY <1>1 DEF FloatArray
  <2>. QED
    BY <2>4, <2>5, <2>6
<1>. QED
  BY <1>1, <1>2 DEF HasRows, TypeOK, IsPageMap, PagesFinite

\* Page q is the same in two maps of pages.
SamePage(new, old, q) == /\ q \in DOMAIN new <=> q \in DOMAIN old
                         /\ q \in DOMAIN new => new[q] = old[q]

\* A change to a key leaves every page but its own alone.
TouchesOnly(k) == /\ k \in Keys /\ schema' = schema /\ saved' = saved
                  /\ \A q : q # PageOf(k) => SamePage(pages', pages, q)

\* Each change of a row is such a change.
LEMMA ChangesTouch ==
  ASSUME NEW k \in Keys,
         Insert(k) \/ Erase(k) \/ \E c \in DOMAIN schema, v \in Values : Set(k, c, v)
  PROVE  TouchesOnly(k)
<1>1. ASSUME Insert(k) PROVE TouchesOnly(k)
  BY <1>1 DEF Insert, Store, InsertInto, db, Put, SamePage, TouchesOnly
<1>2. ASSUME Erase(k) PROVE TouchesOnly(k)
  BY <1>2 DEF Erase, Store, EraseFrom, db, Put, Without, SamePage, TouchesOnly
<1>3. ASSUME NEW c \in DOMAIN schema, NEW v \in Values, Set(k, c, v) PROVE TouchesOnly(k)
  BY <1>3 DEF Set, Store, SetIn, db, Put, SamePage, TouchesOnly
<1>. QED
  BY <1>1, <1>2, <1>3

-----------------------------------------------------------------------------
(* The inductive invariant.                                                *)

\* As long as no view was queried in the open transaction, a page that differs
\* from the one in the snapshot is marked in every view that was ever queried.
UnmarkedUnchanged(view) ==
  InTransaction /\ ~queried /\ view.initialized =>
    \A p : p \notin view.dirty => SamePage(pages, saved.pages, p)

ViewInv == /\ \E S : views \in Seq(S)
           /\ \A i \in DOMAIN views : /\ IsView(views[i]) /\ ViewExact(views[i], db)
                                      /\ UnmarkedUnchanged(views[i])

\* A view that knows a page still does when the page and the schema are the same.
LEMMA KeepsKnowing ==
  ASSUME NEW view, NEW p, KnowsPage(view, p, db), schema' = schema, SamePage(pages', pages, p)
  PROVE  KnowsPage(view, p, db')
BY DEF KnowsPage, SamePage, IsFloatColumn, FloatArray, db

\* The pages that a view has to know after a change are those it knew before.
LEMMA StaysExact ==
  ASSUME NEW view, IsView(view), ViewExact(view, db), schema' = schema,
         \A p : p \notin view.dirty => SamePage(pages', pages, p)
  PROVE  ViewExact(view, db')
<1>. SUFFICES ASSUME view.initialized,
                     NEW p \in (DOMAIN view.partials \cup DOMAIN pages') \ view.dirty
              PROVE  KnowsPage(view, p, db')
  BY DEF ViewExact, db, IsView
<1>1. p \in (DOMAIN view.partials \cup DOMAIN pages) \ view.dirty
  BY DEF SamePage
<1>2. KnowsPage(view, p, db)
  BY <1>1 DEF ViewExact, db
<1>. QED
  BY <1>2, KeepsKnowing

\* notify_views marks the page in every view.
LEMMA NotifyMarks ==
  ASSUME NEW k \in Keys, NEW view, IsView(view)
  PROVE  LET new == PageWritten(view, PageOf(k))
         IN  /\ IsView(new) /\ new.column = view.column /\ new.partials = view.partials
             /\ new.initialized = view.initialized /\ new.cached = view.cached
             /\ new.dirty = view.dirty \cup {PageOf(k)}
<1>. DEFINE dirty == view.dirty \cup {PageOf(k)}
            new   == PageWritten(view, PageOf(k))
<1>1. dirty \subseteq Nat /\ IsFiniteSet(dirty)
  BY PageOfNat, FS_AddElement DEF IsView
<1>2. new = [view EXCEPT !.dirty = dirty]
  BY DEF PageWritten
<1>. HIDE DEF dirty, new
<1>3. /\ new.column = view.column /\ new.partials = view.partials
      /\ new.initialized = view.initialized /\ new.cached = view.cached /\ new.dirty = dirty
  BY <1>2 DEF IsView
<1>4. new = [column |-> new.column, partials |-> new.partials, dirty |-> new.dirty,
             initialized |-> new.initialized, cached |-> new.cached,
             recomputed_pages |-> new.recomputed_pages]
  BY <1>2 DEF IsView
<1>5. IsView(new)
  BY <1>1, <1>3, <1>4 DEF IsView
<1>. QED
  BY <1>3, <1>5 DEF dirty, new

\* A change to a key marks its page, the only one that it changes.
LEMMA ChangeKeepsInv ==
  ASSUME ViewInv, NEW k \in Keys, TouchesOnly(k), Notify(k)
  PROVE  ViewInv'
<1>. DEFINE mark(view) == PageWritten(view, PageOf(k))
<1>1. /\ views' = [i \in DOMAIN views |-> mark(views[i])] /\ queried' = queried
      /\ schema' = schema /\ saved' = saved /\ DOMAIN views' = DOMAIN views
  BY DEF Notify, TouchesOnly
<1>2. \E S : views' \in Seq(S)
  <2>. DEFINE S == {mark(views[i]) : i \in DOMAIN views}
  <2>1. Len(views) \in Nat /\ DOMAIN views = 1..Len(views)
    BY DEF ViewInv
  <2>2. \A i \in DOMAIN views : mark(views[i]) \in S
    OBVIOUS
  <2>. HIDE DEF S, mark
  <2>3. views' \in Seq(S)
    BY <1>1, <2>1, <2>2
  <2>. QED
    BY <2>3
<1>3. ASSUME NEW i \in DOMAIN views
      PROVE  IsView(views'[i]) /\ ViewExact(views'[i], db') /\ UnmarkedUnchanged(views[i])'
  <2>. DEFINE old == views[i]
              new == views'[i]
  <2>1. IsView(old) /\ ViewExact(old, db) /\ UnmarkedUnchanged(old)
    BY DEF ViewInv
  <2>2. new = mark(old)
    BY <1>1
  <2>3. /\ IsView(new) /\ new.column = old.column /\ new.partials = old.partials
        /\ new.initialized = old.initialized /\ new.dirty = old.dirty \cup {PageOf(k)}
    BY <2>1, <2>2, NotifyMarks
  <2>4. \A p : p \notin new.dirty => SamePage(pages', pages, p)
    BY <2>3 DEF TouchesOnly
  <2>5. ViewExact(new, db)
    <3>. HIDE DEF old, new
    <3>. QED
      BY <2>1, <2>3 DEF ViewExact, KnowsPage
  <2>6. ViewExact(new, db')
    BY <1>1, <2>3, <2>4, <2>5, StaysExact
  <2>7. UnmarkedUnchanged(old)'
    BY <1>1, <2>1, <2>3, <2>4 DEF UnmarkedUnchanged, InTransaction, SamePage
  <2>. QED
    BY <2>3, <2>6, <2>7
<1>. QED
  BY <1>1, <1>2, <1>3 DEF ViewInv

\* add_column: there are no pages, and no snapshot, and so nothing to know.
LEMMA AddColumnKeepsInv ==
  ASSUME "late_column" \notin Misuse, "column_in_tx" \notin Misuse,
         ViewInv, NEW col \in Columns, ViewAddColumn(col)
  PROVE  ViewInv'
<1>1. /\ DOMAIN pages = {} /\ DOMAIN pages' = {} /\ views' = views
      /\ ~InTransaction /\ saved' = saved
  BY DEF ViewAddColumn, AddColumn, Store, AddColumnTo, db
<1>2. ASSUME NEW i \in DOMAIN views
      PROVE  ViewExact(views[i], db') /\ UnmarkedUnchanged(views[i])'
  <2>1. IsView(views[i]) /\ ViewExact(views[i], db)
    BY DEF ViewInv
  <2>2. db.pages = pages /\ db'.pages = pages'
    BY DEF db
  <2>3. ViewExact(views[i], db')
    BY <1>1, <2>1, <2>2 DEF ViewExact, KnowsPage
  <2>. QED
    BY <1>1, <2>3 DEF UnmarkedUnchanged, InTransaction
<1>. QED
  BY <1>1, <1>2 DEF ViewInv

\* A view that was never queried knows nothing.
LEMMA AttachKeepsInv ==
  ASSUME ViewInv, NEW c, Attach(c)
  PROVE  ViewInv'
<1>. DEFINE new == NewView(c)
<1>1. /\ views' = Append(views, new) /\ queried' = queried
      /\ schema' = schema /\ pages' = pages /\ saved' = saved
  BY DEF Attach
<1>2. /\ new.initialized = FALSE /\ DOMAIN new.partials = {} /\ IsView(new)
  BY FS_EmptySet DEF NewView, IsView
<1>3. PICK S : views \in Seq(S)
  BY DEF ViewInv
<1>. HIDE DEF new
<1>4. /\ views' \in Seq(S \cup {new}) /\ DOMAIN views' = 1..(Len(views) + 1)
      /\ DOMAIN views = 1..Len(views) /\ Len(views) \in Nat
      /\ \A i \in DOMAIN views' : (i \in DOMAIN views /\ views'[i] = views[i]) \/ views'[i] = new
  <2>1. views \in Seq(S \cup {new}) /\ new \in S \cup {new}
    BY <1>3
  <2>. QED
    BY <1>1, <2>1
<1>5. ASSUME NEW i \in DOMAIN views'
      PROVE  IsView(views'[i]) /\ ViewExact(views'[i], db') /\ UnmarkedUnchanged(views[i])'
  <2>1. db' = db
    BY <1>1 DEF db
  <2>2. CASE i \in DOMAIN views /\ views'[i] = views[i]
    BY <1>1, <2>1, <2>2 DEF ViewInv, UnmarkedUnchanged, InTransaction
  <2>3. CASE views'[i] = new
    BY <1>2, <2>3 DEF ViewExact, UnmarkedUnchanged
  <2>. QED
    BY <1>4, <2>2, <2>3
<1>. QED
  BY <1>4, <1>5 DEF ViewInv

\* A query makes its view exact; from then on, the open transaction may not be
\* rolled back any more.
LEMMA QueryKeepsInv ==
  ASSUME TypeOK, LayoutCoherent, PagesFinite, ViewInv, NEW i \in DOMAIN views, Query(i)
  PROVE  ViewInv'
<1>. DEFINE new == Refresh(views[i], db)
<1>1. /\ views' = [views EXCEPT ![i] = new] /\ queried' = (queried \/ InTransaction)
      /\ schema' = schema /\ pages' = pages /\ saved' = saved
  BY DEF Query
<1>2. IsView(new) /\ ViewExact(new, db)
  <2>1. db.schema \in Seq(Columns) /\ HasRows(db)
    BY CoherentHasRows DEF db, TypeOK
  <2>2. IsView(views[i]) /\ ViewExact(views[i], db)
    BY DEF ViewInv
  <2>. QED
    BY <2>1, <2>2, RefreshExact
<1>3. PICK S : views \in Seq(S)
  BY DEF ViewInv
<1>. HIDE DEF new
<1>4. views' \in Seq(S \cup {new}) /\ DOMAIN views' = DOMAIN views
  <2>1. views \in Seq(S \cup {new}) /\ new \in S \cup {new}
    BY <1>3
  <2>. QED
    BY <1>1, <2>1
<1>5. ASSUME NEW j \in DOMAIN views
      PROVE  IsView(views'[j]) /\ ViewExact(views'[j], db') /\ UnmarkedUnchanged(views[j])'
  <2>1. db' = db
    BY <1>1 DEF db
  <2>2. views'[j] = IF j = i THEN new ELSE views[j]
    BY <1>1, <1>3
  <2>3. IsView(views[j]) /\ ViewExact(views[j], db)
    BY DEF ViewInv
  <2>4. UnmarkedUnchanged(views[j])'
    BY <1>1 DEF UnmarkedUnchanged, InTransaction
  <2>. QED
    BY <1>2, <2>1, <2>2, <2>3, <2>4
<1>. QED
  BY <1>4, <1>5 DEF ViewInv

\* rollback: the unmarked pages of the table are those of the snapshot.
LEMMA RollbackKeepsInv ==
  ASSUME ~RollbackAfterQuery, ViewInv, ViewRollback
  PROVE  ViewInv'
<1>1. /\ InTransaction /\ ~queried /\ views' = views /\ schema' = schema
      /\ pages' = saved.pages /\ ~InTransaction'
  BY DEF ViewRollback, Rollback, InTransaction
<1>2. ASSUME NEW i \in DOMAIN views PROVE ViewExact(views[i], db')
  <2>1. IsView(views[i]) /\ ViewExact(views[i], db) /\ UnmarkedUnchanged(views[i])
    BY DEF ViewInv
  <2>2. CASE views[i].initialized
    <3>1. \A p : p \notin views[i].dirty => SamePage(pages', pages, p)
      BY <1>1, <2>1, <2>2 DEF UnmarkedUnchanged, SamePage
    <3>. QED
      BY <1>1, <2>1, <3>1, StaysExact
  <2>3. CASE ~views[i].initialized
    BY <2>1, <2>3 DEF ViewExact
  <2>. QED
    BY <2>2, <2>3
<1>. QED
  BY <1>1, <1>2 DEF ViewInv, UnmarkedUnchanged

\* Every step keeps the invariant.
LEMMA ViewInvNext ==
  ASSUME "late_column" \notin Misuse, "column_in_tx" \notin Misuse, ~RollbackAfterQuery,
         TypeOK, LayoutCoherent, PagesFinite, ViewInv, [ViewNext]_viewVars
  PROVE  ViewInv'
<1>1. ASSUME NEW col \in Columns, ViewAddColumn(col) PROVE ViewInv'
  BY <1>1, AddColumnKeepsInv
<1>2. ASSUME NEW k \in Keys, ViewInsert(k) PROVE ViewInv'
  BY <1>2, ChangesTouch, ChangeKeepsInv DEF ViewInsert
<1>3. ASSUME NEW k \in Keys, ViewErase(k) PROVE ViewInv'
  BY <1>3, ChangesTouch, ChangeKeepsInv DEF ViewErase
<1>4. ASSUME NEW k \in Keys, NEW c \in DOMAIN schema, NEW v \in Values, ViewSet(k, c, v)
      PROVE  ViewInv'
  BY <1>4, ChangesTouch, ChangeKeepsInv DEF ViewSet
<1>5. ASSUME NEW c, Attach(c) PROVE ViewInv'
  BY <1>5, AttachKeepsInv
<1>6. ASSUME NEW i \in DOMAIN views, Query(i) PROVE ViewInv'
  BY <1>6, QueryKeepsInv
<1>7. ASSUME UNCHANGED viewVars PROVE ViewInv'
  BY <1>7 DEF viewVars, ViewInv, UnmarkedUnchanged, InTransaction, db
<1>8. ASSUME NEW k \in Keys, ViewRefused(k) PROVE ViewInv'
  <2>1. UNCHANGED viewVars
    BY <1>8 DEF ViewRefused, InsertExisting, EraseAbsent, vars, viewVars
  <2>. QED
    BY <1>7, <2>1
<1>9. ASSUME ViewBegin PROVE ViewInv'
  <2>1. /\ views' = views /\ schema' = schema /\ pages' = pages /\ saved'.pages = pages /\ db' = db
    BY <1>9 DEF ViewBegin, Begin, db
  <2>. QED
    BY <2>1 DEF ViewInv, UnmarkedUnchanged, SamePage
<1>10. ASSUME ViewCommit PROVE ViewInv'
  <2>1. views' = views /\ db' = db /\ ~InTransaction'
    BY <1>10 DEF ViewCommit, Commit, InTransaction, db
  <2>. QED
    BY <2>1 DEF ViewInv, UnmarkedUnchanged
<1>11. ASSUME ViewRollback PROVE ViewInv'
  BY <1>11, RollbackKeepsInv
<1>. QED
  BY <1>1, <1>2, <1>3, <1>4, <1>5, <1>6, <1>7, <1>8, <1>9, <1>10, <1>11 DEF ViewNext

\* There is no view at first.
LEMMA ViewInvInit == ViewInit => ViewInv
<1>1. << >> \in Seq({}) /\ DOMAIN << >> = {}
  OBVIOUS
<1>. QED
  BY <1>1 DEF ViewInit, ViewInv

\* At any moment a view that was ever queried has, for each page that no event
\* has marked since, its exact sum, and no share of any other page: for all
\* keys, values, columns, page sizes and numbers of views, if columns come
\* before rows and no transaction in which a view was queried is rolled back
\* (view.hpp:31, view.cpp:25-54).
THEOREM PartialsCorrect ==
  ASSUME "late_column" \notin Misuse, "column_in_tx" \notin Misuse, ~RollbackAfterQuery
  PROVE  ViewSpec => []CleanPagesExact
<1>1. ViewInit => ViewInv
  BY ViewInvInit
<1>2. TypeOK /\ LayoutCoherent /\ PagesFinite /\ ViewInv /\ [ViewNext]_viewVars => ViewInv'
  BY ViewInvNext
<1>3. ViewInv => CleanPagesExact
  BY DEF ViewInv, ViewExact, KnowsPage, CleanPagesExact, db
<1>. QED
  BY <1>1, <1>2, <1>3, ViewedIsTable, TypeCorrect, LayoutCorrect, FiniteCorrect, PTL DEF ViewSpec

-----------------------------------------------------------------------------
(* Sums of integers.                                                       *)

\* The totals of the first 0, 1, ..., n terms of g.
IsTotals(t, g, n) == /\ t \in [0..n -> Int] /\ t[0] = 0
                     /\ \A i \in 1..n : t[i] = t[i - 1] + g[i]

Total(g, n) == (CHOOSE t : IsTotals(t, g, n))[n]

\* Totals exist, and there is one answer; both by induction over the terms.
LEMMA TotalsExist ==
  ASSUME NEW n \in Nat, NEW g, \A i \in 1..n : g[i] \in Int
  PROVE  \E t : IsTotals(t, g, n)
<1>. DEFINE T == {m \in Nat : m <= n => \E t : IsTotals(t, g, m)}
<1>1. 0 \in T
  <2>1. IsTotals([i \in 0..0 |-> 0], g, 0)
    BY DEF IsTotals
  <2>. QED
    BY <2>1
<1>2. ASSUME NEW m \in Nat, m \in T PROVE m + 1 \in T
  <2>. SUFFICES ASSUME m + 1 <= n PROVE \E t : IsTotals(t, g, m + 1)
    OBVIOUS
  <2>1. PICK t : IsTotals(t, g, m)
    BY <1>2
  <2>. DEFINE u == [i \in 0..(m + 1) |-> IF i <= m THEN t[i] ELSE t[m] + g[m + 1]]
  <2>2. \A i \in 0..(m + 1) : u[i] = IF i <= m THEN t[i] ELSE t[m] + g[m + 1]
    OBVIOUS
  <2>3. (\A i \in 0..m : t[i] \in Int) /\ g[m + 1] \in Int
    BY <2>1 DEF IsTotals
  <2>4. u \in [0..(m + 1) -> Int]
    BY <2>3
  <2>. HIDE DEF u
  <2>5. ASSUME NEW i \in 1..(m + 1) PROVE u[i] = u[i - 1] + g[i]
    <3>1. CASE i <= m
      <4>1. i \in 1..m /\ i - 1 \in 0..(m + 1) /\ i - 1 <= m /\ i \in 0..(m + 1)
        BY <3>1
      <4>. QED
        BY <2>1, <2>2, <3>1, <4>1 DEF IsTotals
    <3>2. CASE ~(i <= m)
      <4>1. i = m + 1 /\ i - 1 = m /\ m \in 0..(m + 1) /\ i \in 0..(m + 1)
        BY <3>2
      <4>. QED
        BY <2>2, <3>2, <4>1
    <3>. QED
      BY <3>1, <3>2
  <2>6. u[0] = 0
    BY <2>1, <2>2 DEF IsTotals
  <2>. QED
    BY <2>4, <2>5, <2>6 DEF IsTotals
<1>. HIDE DEF T
<1>3. n \in T
  BY <1>1, <1>2, SetInduction
<1>. QED
  BY <1>3 DEF T

\* The same terms have the same totals.
LEMMA TotalsUnique ==
  ASSUME NEW n \in Nat, NEW g, NEW h, NEW t, IsTotals(t, g, n), NEW m \in Nat, m <= n,
         NEW u, IsTotals(u, h, m), \A i \in 1..m : g[i] = h[i]
  PROVE  t[m] = u[m]
<1>. DEFINE T == {i \in Nat : i <= m => t[i] = u[i]}
<1>1. 0 \in T
  BY DEF IsTotals
<1>2. ASSUME NEW i \in Nat, i \in T PROVE i + 1 \in T
  <2>. SUFFICES ASSUME i + 1 <= m PROVE t[i + 1] = u[i + 1]
    OBVIOUS
  <2>1. i + 1 \in 1..m /\ i + 1 \in 1..n /\ (i + 1) - 1 = i /\ i <= m
    OBVIOUS
  <2>. QED
    BY <1>2, <2>1 DEF IsTotals
<1>. HIDE DEF T
<1>3. m \in T
  BY <1>1, <1>2, SetInduction
<1>. QED
  BY <1>3 DEF T

\* What a total is: step by step, and the same for the same terms.
LEMMA TotalSteps ==
  ASSUME NEW n \in Nat, NEW g, \A i \in 1..n : g[i] \in Int
  PROVE  /\ Total(g, 0) = 0
         /\ \A i \in 0..n : Total(g, i) \in Int
         /\ \A i \in 1..n : Total(g, i) = Total(g, i - 1) + g[i]
         /\ \E t : IsTotals(t, g, n) /\ \A i \in 0..n : t[i] = Total(g, i)
<1>1. PICK t : IsTotals(t, g, n)
  BY TotalsExist
<1>2. ASSUME NEW i \in 0..n PROVE Total(g, i) = t[i]
  <2>. DEFINE u == CHOOSE u : IsTotals(u, g, i)
  <2>1. i \in Nat /\ i <= n /\ \A j \in 1..i : g[j] \in Int
    OBVIOUS
  <2>2. IsTotals(u, g, i)
    BY <2>1, TotalsExist
  <2>3. t[i] = u[i]
    BY <1>1, <2>1, <2>2, TotalsUnique
  <2>. QED
    BY <2>3 DEF Total
<1>3. \A i \in 1..n : i \in 0..n /\ i - 1 \in 0..n
  OBVIOUS
<1>4. 0 \in 0..n
  OBVIOUS
<1>. QED
  BY <1>1, <1>2, <1>3, <1>4 DEF IsTotals

\* The total depends on the terms alone.
LEMMA TotalSame ==
  ASSUME NEW n \in Nat, NEW g, NEW h, \A i \in 1..n : g[i] \in Int /\ g[i] = h[i]
  PROVE  Total(g, n) = Total(h, n)
<1>1. PICK t : IsTotals(t, g, n) /\ \A i \in 0..n : t[i] = Total(g, i)
  BY TotalSteps
<1>2. PICK u : IsTotals(u, h, n) /\ \A i \in 0..n : u[i] = Total(h, i)
  <2>1. \A i \in 1..n : h[i] \in Int
    OBVIOUS
  <2>. QED
    BY <2>1, TotalSteps
<1>3. t[n] = u[n] /\ n \in 0..n /\ n <= n
  BY <1>1, <1>2, TotalsUnique
<1>. QED
  BY <1>1, <1>2, <1>3

\* Adding term by term adds the totals.
LEMMA TotalAdds ==
  ASSUME NEW n \in Nat, NEW f, NEW g, NEW h,
         \A i \in 1..n : f[i] \in Int /\ g[i] \in Int /\ h[i] = f[i] + g[i]
  PROVE  Total(h, n) = Total(f, n) + Total(g, n)
<1>. DEFINE T == {m \in Nat : m <= n => Total(h, m) = Total(f, m) + Total(g, m)}
<1>1. /\ \A i \in 1..n : f[i] \in Int
      /\ \A i \in 1..n : g[i] \in Int
      /\ \A i \in 1..n : h[i] \in Int
  OBVIOUS
<1>2. /\ Total(h, 0) = 0 /\ Total(f, 0) = 0 /\ Total(g, 0) = 0
      /\ \A i \in 0..n : Total(f, i) \in Int /\ Total(g, i) \in Int
      /\ \A i \in 1..n : /\ Total(f, i) = Total(f, i - 1) + f[i]
                         /\ Total(g, i) = Total(g, i - 1) + g[i]
                         /\ Total(h, i) = Total(h, i - 1) + h[i]
  BY <1>1, TotalSteps
<1>3. 0 \in T
  BY <1>2
<1>4. ASSUME NEW m \in Nat, m \in T PROVE m + 1 \in T
  <2>. SUFFICES ASSUME m + 1 <= n PROVE Total(h, m + 1) = Total(f, m + 1) + Total(g, m + 1)
    OBVIOUS
  <2>1. m + 1 \in 1..n /\ (m + 1) - 1 = m /\ m \in 0..n /\ m <= n
    OBVIOUS
  <2>2. Total(h, m) = Total(f, m) + Total(g, m)
    BY <1>4, <2>1
  <2>3. /\ Total(f, m + 1) = Total(f, m) + f[m + 1]
        /\ Total(g, m + 1) = Total(g, m) + g[m + 1]
        /\ Total(h, m + 1) = Total(h, m) + h[m + 1]
        /\ h[m + 1] = f[m + 1] + g[m + 1] /\ f[m + 1] \in Int /\ g[m + 1] \in Int
        /\ Total(f, m) \in Int /\ Total(g, m) \in Int
    BY <1>2, <2>1
  <2>. QED
    BY <2>2, <2>3
<1>. HIDE DEF T
<1>5. n \in T
  BY <1>3, <1>4, SetInduction
<1>. QED
  BY <1>5 DEF T

\* n terms that are at most M large.
LEMMA TotalBounded ==
  ASSUME NEW n \in Nat, NEW M \in Nat, NEW g, \A i \in 1..n : g[i] \in (-M)..M
  PROVE  Total(g, n) \in (-(n * M))..(n * M)
<1>. DEFINE T == {m \in Nat : m <= n => Total(g, m) \in (-(m * M))..(m * M)}
<1>1. \A i \in 1..n : g[i] \in Int
  OBVIOUS
<1>2. /\ Total(g, 0) = 0
      /\ \A i \in 0..n : Total(g, i) \in Int
      /\ \A i \in 1..n : Total(g, i) = Total(g, i - 1) + g[i]
  BY <1>1, TotalSteps
<1>3. 0 \in T
  BY <1>2
<1>4. ASSUME NEW m \in Nat, m \in T PROVE m + 1 \in T
  <2>. SUFFICES ASSUME m + 1 <= n
                PROVE  Total(g, m + 1) \in (-((m + 1) * M))..((m + 1) * M)
    OBVIOUS
  <2>1. m + 1 \in 1..n /\ (m + 1) - 1 = m /\ m <= n
    OBVIOUS
  <2>2. Total(g, m) \in (-(m * M))..(m * M) /\ Total(g, m + 1) = Total(g, m) + g[m + 1]
    BY <1>2, <1>4, <2>1
  <2>3. g[m + 1] \in (-M)..M
    BY <2>1
  <2>4. (m + 1) * M = m * M + M /\ m * M \in Nat
    OBVIOUS
  <2>. QED
    BY <2>2, <2>3, <2>4
<1>. HIDE DEF T
<1>5. n \in T
  BY <1>3, <1>4, SetInduction
<1>. QED
  BY <1>5 DEF T

\* A single term.
LEMMA TotalPoint ==
  ASSUME NEW n \in Nat, NEW j \in 1..n, NEW x \in Int, NEW g,
         \A i \in 1..n : g[i] = IF i = j THEN x ELSE 0
  PROVE  Total(g, n) = x
<1>. DEFINE T == {m \in Nat : m <= n => Total(g, m) = IF j <= m THEN x ELSE 0}
<1>1. \A i \in 1..n : g[i] \in Int
  OBVIOUS
<1>2. /\ Total(g, 0) = 0
      /\ \A i \in 1..n : Total(g, i) = Total(g, i - 1) + g[i]
  BY <1>1, TotalSteps
<1>3. 0 \in T
  BY <1>2
<1>4. ASSUME NEW m \in Nat, m \in T PROVE m + 1 \in T
  <2>. SUFFICES ASSUME m + 1 <= n
                PROVE  Total(g, m + 1) = IF j <= m + 1 THEN x ELSE 0
    OBVIOUS
  <2>1. m + 1 \in 1..n /\ (m + 1) - 1 = m /\ m <= n
    OBVIOUS
  <2>2. /\ Total(g, m) = IF j <= m THEN x ELSE 0
        /\ Total(g, m + 1) = Total(g, m) + g[m + 1]
        /\ g[m + 1] = IF m + 1 = j THEN x ELSE 0
    BY <1>2, <1>4, <2>1
  <2>. QED
    BY <2>2
<1>. HIDE DEF T
<1>5. n \in T
  BY <1>3, <1>4, SetInduction
<1>. QED
  BY <1>5 DEF T

\* The sum over all keys of what w gives them.
KeySum(w) == Total([i \in 1..Cardinality(Keys) |-> w[InOrder(Keys)[i]]], Cardinality(Keys))

\* InOrder numbers the keys, each once.
LEMMA KeyOrder ==
  ASSUME IsFiniteSet(Keys)
  PROVE  /\ Cardinality(Keys) \in Nat
         /\ \A i \in 1..Cardinality(Keys) : InOrder(Keys)[i] \in Keys
         /\ \A k \in Keys : \E i \in 1..Cardinality(Keys) :
              /\ InOrder(Keys)[i] = k
              /\ \A j \in 1..Cardinality(Keys) : InOrder(Keys)[j] = k => j = i
<1>1. Keys \in SUBSET Int
  BY ClientAssumption
<1>. DEFINE N == Cardinality(Keys)
            K == InOrder(Keys)
<1>2. /\ N \in Nat /\ K \in [1..N -> Keys]
      /\ \A k \in Keys : \E i \in 1..N : K[i] = k
      /\ \A m, n \in 1..N : m < n => K[m] < K[n]
  BY <1>1, InOrderSorts
<1>. HIDE DEF N, K
<1>3. \A i \in 1..N : K[i] \in Keys /\ K[i] \in Int
  BY <1>1, <1>2
<1>4. ASSUME NEW i \in 1..N, NEW j \in 1..N, K[i] = K[j] PROVE j = i
  <2>1. ~(K[i] < K[j]) /\ ~(K[j] < K[i])
    BY <1>3, <1>4
  <2>2. i < j \/ j < i \/ i = j
    BY <1>2
  <2>. QED
    BY <1>2, <2>1, <2>2
<1>5. ASSUME NEW k \in Keys
      PROVE  \E i \in 1..N : K[i] = k /\ \A j \in 1..N : K[j] = k => j = i
  <2>1. PICK i \in 1..N : K[i] = k
    BY <1>2
  <2>. QED
    BY <1>4, <2>1
<1>. QED
  BY <1>2, <1>3, <1>5 DEF N, K

\* Adding key by key adds the sums.
LEMMA KeySumAdds ==
  ASSUME IsFiniteSet(Keys), NEW u, NEW v, NEW w,
         \A k \in Keys : u[k] \in Int /\ v[k] \in Int /\ w[k] = u[k] + v[k]
  PROVE  KeySum(w) = KeySum(u) + KeySum(v) /\ KeySum(u) \in Int /\ KeySum(v) \in Int
<1>. DEFINE N == Cardinality(Keys)
            K == InOrder(Keys)
            f == [i \in 1..N |-> u[K[i]]]
            g == [i \in 1..N |-> v[K[i]]]
            h == [i \in 1..N |-> w[K[i]]]
<1>1. N \in Nat /\ \A i \in 1..N : K[i] \in Keys
  BY KeyOrder
<1>2. KeySum(u) = Total(f, N) /\ KeySum(v) = Total(g, N) /\ KeySum(w) = Total(h, N)
  BY DEF KeySum
<1>. HIDE DEF N, K
<1>3. \A i \in 1..N : f[i] \in Int /\ g[i] \in Int /\ h[i] = f[i] + g[i]
  BY <1>1
<1>4. N \in 0..N /\ (\A i \in 1..N : f[i] \in Int) /\ (\A i \in 1..N : g[i] \in Int)
  BY <1>1, <1>3
<1>. HIDE DEF f, g, h
<1>5. Total(h, N) = Total(f, N) + Total(g, N)
  BY <1>1, <1>3, TotalAdds
<1>6. Total(f, N) \in Int /\ Total(g, N) \in Int
  BY <1>1, <1>4, TotalSteps
<1>. QED
  BY <1>2, <1>5, <1>6

\* The sum of cells that are at most M large.
LEMMA KeySumBounded ==
  ASSUME IsFiniteSet(Keys), NEW M \in Nat, NEW w, \A k \in Keys : w[k] \in (-M)..M
  PROVE  KeySum(w) \in (-(Cardinality(Keys) * M))..(Cardinality(Keys) * M)
<1>. DEFINE N == Cardinality(Keys)
            K == InOrder(Keys)
            f == [i \in 1..N |-> w[K[i]]]
<1>1. N \in Nat /\ \A i \in 1..N : K[i] \in Keys
  BY KeyOrder
<1>2. KeySum(w) = Total(f, N)
  BY DEF KeySum
<1>. HIDE DEF N, K
<1>3. \A i \in 1..N : f[i] \in (-M)..M
  BY <1>1
<1>. HIDE DEF f
<1>4. Total(f, N) \in (-(N * M))..(N * M)
  BY <1>1, <1>3, TotalBounded
<1>. QED
  BY <1>2, <1>4 DEF N

\* The sum depends on the values alone.
LEMMA KeySumSame ==
  ASSUME IsFiniteSet(Keys), NEW u, NEW w, \A k \in Keys : u[k] \in Int /\ u[k] = w[k]
  PROVE  KeySum(u) = KeySum(w)
<1>. DEFINE N == Cardinality(Keys)
            K == InOrder(Keys)
            f == [i \in 1..N |-> u[K[i]]]
            g == [i \in 1..N |-> w[K[i]]]
<1>1. N \in Nat /\ \A i \in 1..N : K[i] \in Keys
  BY KeyOrder
<1>2. KeySum(u) = Total(f, N) /\ KeySum(w) = Total(g, N)
  BY DEF KeySum
<1>. HIDE DEF N, K
<1>3. \A i \in 1..N : f[i] \in Int /\ f[i] = g[i]
  BY <1>1
<1>. HIDE DEF f, g
<1>4. Total(f, N) = Total(g, N)
  BY <1>1, <1>3, TotalSame
<1>. QED
  BY <1>2, <1>4

\* The sum of w that is 0 everywhere but at one key.
LEMMA KeySumPoint ==
  ASSUME IsFiniteSet(Keys), NEW k \in Keys, NEW x \in Int, NEW w,
         \A j \in Keys : w[j] = IF j = k THEN x ELSE 0
  PROVE  KeySum(w) = x
<1>. DEFINE N == Cardinality(Keys)
            K == InOrder(Keys)
            f == [i \in 1..N |-> w[K[i]]]
<1>1. N \in Nat /\ \A i \in 1..N : K[i] \in Keys
  BY KeyOrder
<1>2. PICK l \in 1..N : K[l] = k /\ \A j \in 1..N : K[j] = k => j = l
  BY KeyOrder
<1>3. KeySum(w) = Total(f, N)
  BY DEF KeySum
<1>. HIDE DEF N, K
<1>4. \A i \in 1..N : f[i] = IF i = l THEN x ELSE 0
  BY <1>1, <1>2
<1>. HIDE DEF f
<1>5. Total(f, N) = x
  <2>1. N \in Nat
    BY <1>1
  <2>. QED
    BY <1>4, <2>1, TotalPoint
<1>. QED
  BY <1>3, <1>5

\* The sum of w that is 0 everywhere.
LEMMA KeySumZero ==
  ASSUME IsFiniteSet(Keys), NEW w, \A k \in Keys : w[k] = 0
  PROVE  KeySum(w) = 0
<1>1. 0 \in Nat /\ \A k \in Keys : w[k] \in (-0)..0
  OBVIOUS
<1>2. KeySum(w) \in (-(Cardinality(Keys) * 0))..(Cardinality(Keys) * 0)
  BY <1>1, KeySumBounded
<1>3. Cardinality(Keys) \in Nat
  BY KeyOrder
<1>. QED
  BY <1>2, <1>3

\* w at the first m keys of the list s, and 0 elsewhere.
UpTo(s, w, m) == [k \in Keys |-> IF \E i \in 1..m : s[i] = k THEN w[k] ELSE 0]

\* x[1], ..., x[n] are the values of w at n keys, each of them another one.
Terms(n, s, x, w) ==
  /\ \A i \in 1..n : s[i] \in Keys /\ x[i] \in Int /\ w[s[i]] = x[i]
  /\ \A i, j \in 1..n : s[i] = s[j] => i = j

\* Adding up a list of keys, each at most once, in whatever order.
LEMMA ListTotal ==
  ASSUME IsFiniteSet(Keys), NEW n \in Nat, NEW s, NEW x, NEW w, Terms(n, s, x, w),
         NEW m \in 0..n
  PROVE  Total(x, m) = KeySum(UpTo(s, w, m))
<1>. USE DEF Terms
<1>. DEFINE T == {l \in Nat : l <= n => Total(x, l) = KeySum(UpTo(s, w, l))}
<1>1. /\ Total(x, 0) = 0
      /\ \A i \in 1..n : Total(x, i) = Total(x, i - 1) + x[i]
  BY TotalSteps
<1>2. 0 \in T
  <2>1. KeySum(UpTo(s, w, 0)) = 0
    <3>1. \A k \in Keys : UpTo(s, w, 0)[k] = 0
      BY DEF UpTo
    <3>. QED
      BY <3>1, KeySumZero
  <2>. QED
    BY <1>1, <2>1
<1>3. ASSUME NEW l \in Nat, l \in T PROVE l + 1 \in T
  <2>. SUFFICES ASSUME l + 1 <= n PROVE Total(x, l + 1) = KeySum(UpTo(s, w, l + 1))
    OBVIOUS
  <2>. DEFINE one == [k \in Keys |-> IF k = s[l + 1] THEN x[l + 1] ELSE 0]
              old == UpTo(s, w, l)
              new == UpTo(s, w, l + 1)
  <2>1. Total(x, l) = KeySum(UpTo(s, w, l))
    BY <1>3
  <2>2. l + 1 \in 1..n /\ (l + 1) - 1 = l
    OBVIOUS
  <2>3. Total(x, l + 1) = KeySum(old) + x[l + 1]
    BY <1>1, <2>1, <2>2
  <2>4. KeySum(one) = x[l + 1]
    <3>1. \A k \in Keys : one[k] = IF k = s[l + 1] THEN x[l + 1] ELSE 0
      OBVIOUS
    <3>. HIDE DEF one
    <3>. QED
      BY <2>2, <3>1, KeySumPoint
  <2>5. ASSUME NEW k \in Keys PROVE old[k] \in Int /\ one[k] \in Int /\ new[k] = old[k] + one[k]
    <3>1. CASE k = s[l + 1]
      <4>1. \A i \in 1..l : s[i] # k
        BY <2>2, <3>1
      <4>2. w[k] = x[l + 1] /\ x[l + 1] \in Int
        BY <2>2, <3>1
      <4>3. \E i \in 1..(l + 1) : s[i] = k
        BY <3>1
      <4>. QED
        BY <3>1, <4>1, <4>2, <4>3 DEF UpTo
    <3>2. CASE k # s[l + 1]
      <4>1. (\E i \in 1..(l + 1) : s[i] = k) <=> \E i \in 1..l : s[i] = k
        BY <3>2
      <4>2. \A i \in 1..l : s[i] = k => w[k] \in Int
        BY <2>2
      <4>. QED
        BY <3>2, <4>1, <4>2 DEF UpTo
    <3>. QED
      BY <3>1, <3>2
  <2>. HIDE DEF one, old, new
  <2>6. KeySum(new) = KeySum(old) + KeySum(one)
    BY <2>5, KeySumAdds
  <2>. QED
    BY <2>3, <2>4, <2>6 DEF new
<1>. HIDE DEF T
<1>4. m \in T /\ m <= n
  BY <1>2, <1>3, SetInduction
<1>. QED
  BY <1>4 DEF T

-----------------------------------------------------------------------------
(* Sums of doubles that are exact.                                         *)

\* Nothing is rounded within the precision.
LEMMA ExactRound == ASSUME NEW x \in (-Precision)..Precision PROVE Round(x) = x
<1>1. Precision \in Nat
  BY DoubleAssumption
<1>2. Magnitude(x) \in Nat /\ Magnitude(x) <= Precision
  BY <1>1 DEF Magnitude
<1>3. Ulp(x) = 1
  <2>. DEFINE fits == {u \in {1, 2, 4, 8, 16} : Magnitude(x) <= Precision * u}
  <2>1. 1 \in fits /\ \A u \in fits : 1 <= u /\ u \in Nat
    BY <1>1, <1>2
  <2>2. Ulp(x) = CHOOSE u \in fits : \A w \in fits : u <= w
    BY DEF Ulp
  <2>. HIDE DEF fits
  <2>3. \A u \in fits : (\A w \in fits : u <= w) <=> u = 1
    BY <2>1
  <2>. QED
    BY <2>1, <2>2, <2>3
<1>4. Magnitude(x) \div 1 = Magnitude(x) /\ Magnitude(x) % 1 = 0
  BY <1>2
<1>5. Round(x) = IF x < 0 THEN -(Magnitude(x)) ELSE Magnitude(x)
  <2>. DEFINE q == Magnitude(x) \div Ulp(x)
              r == 2 * (Magnitude(x) % Ulp(x))
  <2>1. q = Magnitude(x) /\ r = 0
    BY <1>3, <1>4
  <2>2. Round(x) = LET n == IF r > Ulp(x) \/ (r = Ulp(x) /\ q % 2 = 1) THEN q + 1 ELSE q
                   IN  IF x < 0 THEN -(n * Ulp(x)) ELSE n * Ulp(x)
    BY DEF Round
  <2>. HIDE DEF q, r
  <2>. QED
    BY <1>2, <1>3, <2>1, <2>2
<1>. QED
  BY <1>5 DEF Magnitude

\* Addition is exact where its result is within the precision.
LEMMA ExactPlus ==
  ASSUME NaN \notin Int, NEW x \in Int, NEW y \in Int, x + y \in (-Precision)..Precision
  PROVE  Plus(x, y) = x + y
BY ExactRound DEF Plus

\* And so is subtraction.
LEMMA ExactMinus ==
  ASSUME NaN \notin Int, NEW x \in Int, NEW y \in Int, x - y \in (-Precision)..Precision
  PROVE  Minus(x, y) = x - y
BY ExactRound DEF Minus

\* A sum that never leaves the exact range is the total.
LEMMA ExactSum ==
  ASSUME NaN \notin Int, NEW n \in Nat, NEW x, Len(x) = n, \A i \in 1..n : x[i] \in Int,
         \A i \in 0..n : Total(x, i) \in (-Precision)..Precision
  PROVE  SumOf(x) = Total(x, n)
<1>. DEFINE Sums(f) == f = [i \in 0..n |-> IF i = 0 THEN 0 ELSE Plus(f[i - 1], x[i])]
            sum == CHOOSE f : Sums(f)
<1>1. SumOf(x) = sum[n]
  BY DEF SumOf
<1>2. PICK t : IsTotals(t, x, n) /\ \A i \in 0..n : t[i] = Total(x, i)
  BY TotalSteps
<1>3. ASSUME NEW i \in 1..n PROVE Plus(t[i - 1], x[i]) = t[i]
  <2>1. i \in 0..n /\ i - 1 \in 0..n
    OBVIOUS
  <2>2. t[i] = t[i - 1] + x[i] /\ t[i - 1] \in Int /\ x[i] \in Int
    BY <1>2, <2>1 DEF IsTotals
  <2>3. t[i] \in (-Precision)..Precision
    BY <1>2, <2>1
  <2>. QED
    BY <2>2, <2>3, ExactPlus
<1>4. Sums(t)
  <2>1. t = [i \in 0..n |-> t[i]] /\ t[0] = 0
    BY <1>2 DEF IsTotals
  <2>2. \A i \in 0..n : t[i] = IF i = 0 THEN 0 ELSE Plus(t[i - 1], x[i])
    <3>. TAKE i \in 0..n
    <3>1. i = 0 \/ i \in 1..n
      OBVIOUS
    <3>. QED
      BY <1>3, <2>1, <3>1
  <2>. QED
    BY <2>1, <2>2
<1>5. Sums(sum)
  <2>. HIDE DEF Sums
  <2>. QED
    BY <1>4
<1>6. \A i \in 0..n : sum[i] = IF i = 0 THEN 0 ELSE Plus(sum[i - 1], x[i])
  <2>. HIDE DEF sum
  <2>. QED
    BY <1>5
<1>. HIDE DEF sum, Sums
<1>. DEFINE T == {i \in Nat : i <= n => sum[i] = t[i]}
<1>7. 0 \in T
  BY <1>2, <1>6 DEF IsTotals
<1>8. ASSUME NEW i \in Nat, i \in T PROVE i + 1 \in T
  <2>. SUFFICES ASSUME i + 1 <= n PROVE sum[i + 1] = t[i + 1]
    OBVIOUS
  <2>1. i + 1 \in 1..n /\ i + 1 \in 0..n /\ (i + 1) - 1 = i /\ i <= n /\ i + 1 # 0
    OBVIOUS
  <2>2. sum[i] = t[i]
    BY <1>8, <2>1
  <2>. QED
    BY <1>3, <1>6, <2>1, <2>2
<1>. HIDE DEF T
<1>9. n \in T
  BY <1>7, <1>8, SetInduction
<1>10. n \in 0..n
  OBVIOUS
<1>. QED
  BY <1>1, <1>2, <1>9, <1>10 DEF T

\* A page asleep has the sum 0.
LEMMA EmptySum == ASSUME NaN \notin Int PROVE SumOf(<< >>) = 0
<1>. DEFINE x == << >>
<1>1. Len(x) = 0 /\ 0 \in Nat
  OBVIOUS
<1>2. \A i \in 1..0 : x[i] \in Int
  OBVIOUS
<1>. HIDE DEF x
<1>3. Total(x, 0) = 0
  BY <1>1, <1>2, TotalSteps
<1>4. \A i \in 0..0 : Total(x, i) \in (-Precision)..Precision
  BY <1>3, DoubleAssumption
<1>5. SumOf(x) = Total(x, 0)
  BY <1>1, <1>2, <1>4, ExactSum
<1>. QED
  BY <1>3, <1>5 DEF x

\* Adding up the cells of a list of keys, each at most once, gives the sum over
\* all keys of w, if w is 0 at the keys that are not listed.
LEMMA ListSum ==
  ASSUME IsFiniteSet(Keys), NaN \notin Int, NEW M \in Nat, Cardinality(Keys) * M <= Precision,
         NEW n \in Nat, NEW s, NEW x, Len(x) = n, NEW w, Terms(n, s, x, w),
         \A k \in Keys : /\ w[k] \in (-M)..M
                         /\ (\A i \in 1..n : s[i] # k) => w[k] = 0
  PROVE  SumOf(x) = KeySum(w)
<1>. DEFINE N == Cardinality(Keys)
<1>1. N \in Nat
  BY KeyOrder
<1>2. \A k \in Keys : w[k] \in Int
  OBVIOUS
<1>3. \A i \in 1..n : x[i] \in Int
  BY DEF Terms
<1>4. ASSUME NEW m \in 0..n PROVE Total(x, m) = KeySum(UpTo(s, w, m))
  BY <1>3, ListTotal
<1>5. ASSUME NEW m \in 0..n PROVE Total(x, m) \in (-Precision)..Precision
  <2>1. \A k \in Keys : UpTo(s, w, m)[k] \in (-M)..M
    BY DEF UpTo
  <2>2. KeySum(UpTo(s, w, m)) \in (-(N * M))..(N * M)
    BY <2>1, KeySumBounded
  <2>3. N * M \in Nat /\ N * M <= Precision /\ Precision \in Nat
    BY <1>1, DoubleAssumption
  <2>. QED
    BY <1>4, <2>2, <2>3
<1>6. SumOf(x) = Total(x, n)
  <2>. HIDE DEF N
  <2>. QED
    BY <1>3, <1>5, ExactSum
<1>7. KeySum(UpTo(s, w, n)) = KeySum(w)
  <2>1. \A k \in Keys : UpTo(s, w, n)[k] \in Int /\ UpTo(s, w, n)[k] = w[k]
    BY <1>2 DEF UpTo
  <2>. QED
    BY <2>1, KeySumSame
<1>8. n \in 0..n
  OBVIOUS
<1>. QED
  BY <1>4, <1>6, <1>7, <1>8

-----------------------------------------------------------------------------
(* The sum of a column.                                                    *)

\* The float that key k has in column c; a key that is not stored adds nothing.
FloatCell(d, c, k) ==
  IF IsFloatColumn(d, c) /\ Contains(d, k)
  THEN FloatArray(d, PageOf(k), c)[d.pages[PageOf(k)].row_map[k]]
  ELSE 0

Floats(d, c) == [k \in Keys |-> FloatCell(d, c, k)]

\* The share of page p in w.
OnPage(w, p) == [k \in Keys |-> IF PageOf(k) = p THEN w[k] ELSE 0]

\* What refresh reads of a page.
PageFloats(d, p, c) == IF p \in DOMAIN d.pages THEN FloatArray(d, p, c) ELSE << >>

\* Values are small enough for all of them to be added up without rounding,
\* and for the difference of two such sums.
SmallValues(M) == /\ M \in Nat /\ Values \subseteq (-M)..M
                  /\ IsFiniteSet(Keys) /\ NaN \notin Int
                  /\ Cardinality(Keys) * (2 * M) <= Precision

\* A small value for each key.
Cells(M) == [Keys -> (-M)..M]

\* What small values mean for sums.
LEMMA SmallSums ==
  ASSUME NEW M, SmallValues(M)
  PROVE  /\ M \in Nat /\ 2 * M \in Nat /\ IsFiniteSet(Keys) /\ NaN \notin Int
         /\ Cardinality(Keys) \in Nat /\ Precision \in Nat
         /\ Cardinality(Keys) * M \in Nat /\ Cardinality(Keys) * M <= Precision
<1>1. M \in Nat /\ IsFiniteSet(Keys) /\ NaN \notin Int /\ Precision \in Nat
  BY DoubleAssumption DEF SmallValues
<1>2. Cardinality(Keys) \in Nat
  BY <1>1, KeyOrder
<1>3. Cardinality(Keys) * (2 * M) <= Precision
  BY DEF SmallValues
<1>4. Cardinality(Keys) * M \in Nat
  BY <1>1, <1>2
<1>5. Cardinality(Keys) * (2 * M) = 2 * (Cardinality(Keys) * M)
  BY <1>1, <1>2
<1>. QED
  BY <1>1, <1>2, <1>3, <1>4, <1>5

\* A float column of a materialized page, row by row.
LEMMA FloatRows ==
  ASSUME TypeOK, LayoutCoherent, NEW c, IsFloatColumn(db, c), NEW p \in DOMAIN pages
  PROVE  LET rows == pages[p].row_keys
             x    == FloatArray(db, p, c)
         IN  /\ Len(x) \in Nat /\ DOMAIN rows = 1..Len(x)
             /\ \A i \in 1..Len(x) : x[i] \in Values /\ rows[i] \in Keys
             /\ \A i \in 1..Len(x) : /\ PageOf(rows[i]) = p /\ Contains(db, rows[i])
                                     /\ pages[p].row_map[rows[i]] = i
             /\ \A k \in Keys : PageOf(k) = p /\ Contains(db, k) =>
                  pages[p].row_map[k] \in 1..Len(x) /\ rows[pages[p].row_map[k]] = k
<1>. DEFINE page == pages[p]
            l    == LocalIndex(schema, c)
            x    == page.cols["Float64"][l]
            rows == page.row_keys
<1>1. db.pages = pages /\ db.schema = schema /\ schema \in Seq(Columns)
  BY DEF db, TypeOK
<1>2. c \in DOMAIN schema /\ schema[c].type = "Float64"
  BY <1>1 DEF IsFloatColumn
<1>3. /\ IsPage(page, Keys, Values) /\ IndexExact(page)
      /\ Aligned(page) /\ FitsSchema(page, schema)
      /\ \A k \in DOMAIN page.row_map : PageOf(k) = p
  BY DEF TypeOK, IsPageMap, LayoutCoherent, PagesCoherent, PageCoherent
<1>4. "Float64" \in ColumnTypes /\ l \in DOMAIN page.cols["Float64"]
  BY <1>1, <1>2, <1>3, LocalIndexFits
<1>5. FloatArray(db, p, c) = x
  BY <1>1 DEF FloatArray
<1>6. Len(x) = Len(rows) /\ x \in Seq(Values) /\ rows \in Seq(Keys)
  BY <1>3, <1>4 DEF Aligned, IsPage
<1>7. DOMAIN rows = 1..Len(x) /\ Len(x) \in Nat
  BY <1>6
<1>8. \A i \in 1..Len(x) : x[i] \in Values /\ rows[i] \in Keys
  BY <1>6, <1>7
<1>9. \A i \in 1..Len(x) : rows[i] \in DOMAIN page.row_map /\ page.row_map[rows[i]] = i
  BY <1>3, <1>7 DEF IndexExact
<1>10. \A i \in 1..Len(x) : PageOf(rows[i]) = p /\ Contains(db, rows[i])
  BY <1>1, <1>3, <1>9 DEF Contains
<1>11. \A k \in Keys : PageOf(k) = p /\ Contains(db, k) =>
         page.row_map[k] \in 1..Len(x) /\ rows[page.row_map[k]] = k
  BY <1>1, <1>3, <1>7 DEF Contains, IndexExact
<1>. HIDE DEF page, l, x, rows
<1>. QED
  BY <1>5, <1>7, <1>8, <1>9, <1>10, <1>11 DEF page, rows

\* Every key has a small float, and 0 if it is not stored.
LEMMA FloatsSmall ==
  ASSUME TypeOK, LayoutCoherent, NEW c, NEW M, SmallValues(M)
  PROVE  Floats(db, c) \in Cells(M)
<1>. SUFFICES ASSUME NEW k \in Keys PROVE FloatCell(db, c, k) \in (-M)..M
  BY DEF Floats, Cells
<1>1. M \in Nat /\ Values \subseteq (-M)..M
  BY DEF SmallValues
<1>2. CASE IsFloatColumn(db, c) /\ Contains(db, k)
  <2>1. PageOf(k) \in DOMAIN pages /\ db.pages = pages
    BY <1>2 DEF Contains, db
  <2>2. FloatCell(db, c, k) \in Values
    BY <1>2, <2>1, FloatRows DEF FloatCell
  <2>. QED
    BY <1>1, <2>2
<1>3. CASE ~(IsFloatColumn(db, c) /\ Contains(db, k))
  BY <1>1, <1>3 DEF FloatCell
<1>. QED
  BY <1>2, <1>3

\* What refresh adds up for a page is the share of that page.
LEMMA PageSum ==
  ASSUME TypeOK, LayoutCoherent, NEW c, NEW M, SmallValues(M), NEW p,
         p \in DOMAIN pages => IsFloatColumn(db, c)
  PROVE  SumOf(PageFloats(db, p, c)) = KeySum(OnPage(Floats(db, c), p))
<1>. DEFINE x == PageFloats(db, p, c)
            n == Len(x)
            s == pages[p].row_keys
            w == OnPage(Floats(db, c), p)
<1>1. /\ IsFiniteSet(Keys) /\ NaN \notin Int /\ M \in Nat /\ Cardinality(Keys) * M <= Precision
  BY SmallSums
<1>2. db.pages = pages
  BY DEF db
<1>3. \A k \in Keys : w[k] \in (-M)..M
  BY <1>1, FloatsSmall DEF OnPage, Cells
<1>4. \A k \in Keys : w[k] = IF PageOf(k) = p THEN FloatCell(db, c, k) ELSE 0
  BY DEF OnPage, Floats
<1>. HIDE DEF w
<1>5. CASE p \in DOMAIN pages
  <2>1. x = FloatArray(db, p, c) /\ IsFloatColumn(db, c)
    BY <1>2, <1>5 DEF PageFloats
  <2>. HIDE DEF x
  <2>2. /\ n \in Nat /\ DOMAIN s = 1..n
        /\ \A i \in 1..n : s[i] \in Keys /\ PageOf(s[i]) = p /\ Contains(db, s[i])
        /\ \A i \in 1..n : pages[p].row_map[s[i]] = i
        /\ \A k \in Keys : PageOf(k) = p /\ Contains(db, k) =>
             pages[p].row_map[k] \in 1..n /\ s[pages[p].row_map[k]] = k
    BY <1>5, <2>1, FloatRows
  <2>. HIDE DEF s, n
  <2>3. \A i \in 1..n : s[i] \in Keys /\ w[s[i]] = x[i] /\ w[s[i]] \in Int
    BY <1>1, <1>2, <1>3, <1>4, <2>1, <2>2 DEF FloatCell
  <2>4. Terms(n, s, x, w)
    BY <2>2, <2>3 DEF Terms
  <2>5. ASSUME NEW k \in Keys, \A i \in 1..n : s[i] # k PROVE w[k] = 0
    BY <1>4, <2>2, <2>5 DEF FloatCell
  <2>6. Len(x) = n
    BY DEF n
  <2>7. SumOf(x) = KeySum(w)
    BY <1>1, <1>3, <2>2, <2>4, <2>5, <2>6, ListSum
  <2>. QED
    BY <2>7 DEF x, w
<1>6. CASE p \notin DOMAIN pages
  <2>1. x = << >> /\ n = 0
    BY <1>2, <1>6 DEF PageFloats
  <2>2. \A k \in Keys : w[k] = 0
    BY <1>2, <1>4, <1>6 DEF FloatCell, Contains
  <2>. HIDE DEF x
  <2>3. SumOf(x) = 0
    BY <1>1, <2>1, EmptySum
  <2>. QED
    BY <1>1, <2>2, <2>3, KeySumZero DEF x, w
<1>. QED
  BY <1>5, <1>6

\* What a full scan adds up is the sum over all keys.
LEMMA ScanTotal ==
  ASSUME TypeOK, LayoutCoherent, PagesFinite, NEW c, IsFloatColumn(db, c), NEW M, SmallValues(M)
  PROVE  ScanSum(c) = KeySum(Floats(db, c))
<1>. DEFINE T    == StoredKeys(pages) \cap Int
            rows == Scan(db, c, Int)
            x    == [i \in DOMAIN rows |-> rows[i][2]]
            w    == Floats(db, c)
<1>1. /\ IsFiniteSet(Keys) /\ NaN \notin Int /\ M \in Nat /\ Cardinality(Keys) * M <= Precision
  BY SmallSums
<1>2. db.pages = pages /\ db.schema = schema
  BY DEF db
<1>3. Yields(rows, T, c)
  BY ScanYields DEF TypeOK, LayoutCoherent, PagesFinite
<1>4. PICK s : Lists(s, T) /\ rows = RowsFor(s, c)
  BY <1>3 DEF Yields
<1>5. T \in SUBSET Keys /\ \A k \in T : Contains(db, k)
  BY <1>2 DEF StoredKeys, Contains
<1>6. \A k \in Keys : Contains(db, k) => k \in T
  BY <1>2, ClientAssumption DEF StoredKeys, Contains
<1>. DEFINE n == Len(s)
<1>7. /\ n \in Nat /\ DOMAIN s = 1..n /\ s \in [1..n -> T]
      /\ \A i, j \in 1..n : s[i] = s[j] => i = j
  BY <1>4, <1>5, ListsApart
<1>8. \A k \in T : \E i \in 1..n : s[i] = k
  BY <1>4, <1>7 DEF Lists
<1>. HIDE DEF n, T
<1>9. DOMAIN rows = 1..n /\ \A i \in 1..n : rows[i] = <<s[i], Cell(pages, s[i], c)>>
  BY <1>4, <1>7 DEF RowsFor, RowFor
<1>. HIDE DEF rows
<1>10. x = [i \in 1..n |-> x[i]] /\ \A i \in 1..n : x[i] = Cell(pages, s[i], c)
  BY <1>9
<1>. HIDE DEF x
<1>11. Len(x) = n
  BY <1>7, <1>10
<1>12. ASSUME NEW i \in 1..n PROVE s[i] \in Keys /\ w[s[i]] = x[i]
  <2>1. s[i] \in Keys /\ Contains(db, s[i])
    BY <1>5, <1>7
  <2>2. schema[c].type = "Float64"
    BY <1>2 DEF IsFloatColumn
  <2>3. FloatCell(db, c, s[i]) = Cell(pages, s[i], c)
    BY <1>2, <2>1, <2>2 DEF FloatCell, FloatArray, Cell
  <2>. QED
    BY <1>10, <2>1, <2>3 DEF Floats
<1>13. ASSUME NEW k \in Keys
       PROVE  /\ w[k] \in (-M)..M
              /\ (\A i \in 1..n : s[i] # k) => w[k] = 0
  <2>1. w[k] \in (-M)..M
    BY FloatsSmall DEF Cells
  <2>2. (\A i \in 1..n : s[i] # k) => ~Contains(db, k)
    BY <1>6, <1>8
  <2>. QED
    BY <2>1, <2>2 DEF Floats, FloatCell
<1>. HIDE DEF w
<1>14. Terms(n, s, x, w)
  <2>1. \A i \in 1..n : x[i] \in Int
    BY <1>1, <1>12, <1>13
  <2>. QED
    BY <1>7, <1>12, <2>1 DEF Terms
<1>15. SumOf(x) = KeySum(w)
  BY <1>1, <1>7, <1>11, <1>13, <1>14, ListSum
<1>. QED
  BY <1>15 DEF ScanSum, x, rows, w

-----------------------------------------------------------------------------
(* What a view remembers: the cells that were there when it last looked.   *)

\* The cache is the sum of the cells h, and the partials are their shares.
Remembers(view, h, M) ==
  /\ h \in Cells(M)
  /\ view.cached = KeySum(h)
  /\ \A p : Partial(view, p) = KeySum(OnPage(h, p))

\* h, but on the pages P as in g.
Latest(h, g, P) == [k \in Keys |-> IF PageOf(k) \in P THEN g[k] ELSE h[k]]

\* new is h with the share of page p replaced by the one in g, and its sum is
\* what refresh computes from the old sum and the two shares.
Replaces(new, h, g, p, M) ==
  /\ new \in Cells(M)
  /\ KeySum(new) = Plus(KeySum(h), Minus(KeySum(OnPage(g, p)), KeySum(OnPage(h, p))))
  /\ KeySum(OnPage(new, p)) = KeySum(OnPage(g, p))
  /\ \A q : q # p => KeySum(OnPage(new, q)) = KeySum(OnPage(h, q))

\* Replacing the share of one page: the difference that refresh adds to the
\* cache is the change of the sum, and no step of it rounds.
LEMMA ShareReplaced ==
  ASSUME NEW M, SmallValues(M), NEW h \in Cells(M), NEW g \in Cells(M), NEW p
  PROVE  Replaces(Latest(h, g, {p}), h, g, p, M)
<1>. DEFINE new   == Latest(h, g, {p})
            delta == [k \in Keys |-> IF PageOf(k) = p THEN g[k] - h[k] ELSE 0]
            was   == OnPage(h, p)
            is    == OnPage(g, p)
            N     == Cardinality(Keys)
<1>1. /\ M \in Nat /\ 2 * M \in Nat /\ IsFiniteSet(Keys) /\ NaN \notin Int /\ N \in Nat
      /\ Precision \in Nat /\ N * M \in Nat /\ N * M <= Precision /\ N * (2 * M) <= Precision
  BY SmallSums DEF SmallValues
<1>2. \A k \in Keys : h[k] \in (-M)..M /\ g[k] \in (-M)..M
  BY DEF Cells
<1>3. new \in Cells(M)
  BY <1>2 DEF Latest, Cells
<1>4. \A k \in Keys : delta[k] \in (-(2 * M))..(2 * M)
  BY <1>1, <1>2
<1>5. \A k \in Keys : was[k] \in Int /\ delta[k] \in Int /\ is[k] = was[k] + delta[k]
  BY <1>1, <1>2 DEF OnPage
<1>6. \A k \in Keys : h[k] \in Int /\ delta[k] \in Int /\ new[k] = h[k] + delta[k]
  BY <1>1, <1>2 DEF Latest
<1>7. \A k \in Keys : OnPage(new, p)[k] \in Int /\ OnPage(new, p)[k] = is[k]
  BY <1>1, <1>2 DEF OnPage, Latest
<1>8. ASSUME NEW q, q # p
      PROVE  \A k \in Keys : OnPage(new, q)[k] \in Int /\ OnPage(new, q)[k] = OnPage(h, q)[k]
  BY <1>1, <1>2, <1>8 DEF OnPage, Latest
<1>9. \A k \in Keys : new[k] \in (-M)..M
  BY <1>3 DEF Cells
<1>. HIDE DEF new, delta, was, is, N
<1>10. KeySum(is) = KeySum(was) + KeySum(delta) /\ KeySum(was) \in Int /\ KeySum(delta) \in Int
  BY <1>1, <1>5, KeySumAdds
<1>11. KeySum(new) = KeySum(h) + KeySum(delta) /\ KeySum(h) \in Int
  BY <1>1, <1>6, KeySumAdds
<1>12. KeySum(delta) \in (-Precision)..Precision
  <2>1. KeySum(delta) \in (-(N * (2 * M)))..(N * (2 * M))
    BY <1>1, <1>4, KeySumBounded DEF N
  <2>2. N * (2 * M) \in Nat
    BY <1>1
  <2>. QED
    BY <1>1, <2>1, <2>2
<1>13. KeySum(new) \in (-Precision)..Precision
  <2>1. KeySum(new) \in (-(N * M))..(N * M)
    BY <1>1, <1>9, KeySumBounded DEF N
  <2>. QED
    BY <1>1, <2>1
<1>14. Minus(KeySum(is), KeySum(was)) = KeySum(delta)
  <2>1. KeySum(is) \in Int /\ KeySum(is) - KeySum(was) = KeySum(delta)
    BY <1>10
  <2>. QED
    BY <1>1, <1>10, <1>12, <2>1, ExactMinus
<1>15. Plus(KeySum(h), KeySum(delta)) = KeySum(new)
  BY <1>1, <1>10, <1>11, <1>13, ExactPlus
<1>16. KeySum(OnPage(new, p)) = KeySum(is)
  BY <1>1, <1>7, KeySumSame
<1>17. ASSUME NEW q, q # p PROVE KeySum(OnPage(new, q)) = KeySum(OnPage(h, q))
  BY <1>1, <1>8, <1>17, KeySumSame
<1>. QED
  BY <1>3, <1>14, <1>15, <1>16, <1>17 DEF Replaces, new, was, is

\* One turn of the loop brings the memory of its page up to date.
LEMMA RecomputeRemembers ==
  ASSUME NEW M, SmallValues(M), NEW view, IsView(view), NEW h, Remembers(view, h, M),
         NEW g \in Cells(M), NEW d, NEW p,
         SumOf(PageFloats(d, p, view.column)) = KeySum(OnPage(g, p))
  PROVE  Remembers(Recompute(view, p, d), Latest(h, g, {p}), M)
<1>. DEFINE array == PageFloats(d, p, view.column)
            sum   == SumOf(array)
            known == IF array = << >> THEN Without(view.partials, p) ELSE Put(view.partials, p, sum)
            sums  == Plus(view.cached, Minus(sum, Partial(view, p)))
            new   == Recompute(view, p, d)
            h2    == Latest(h, g, {p})
<1>1. /\ h \in Cells(M) /\ view.cached = KeySum(h)
      /\ \A q : Partial(view, q) = KeySum(OnPage(h, q))
  BY DEF Remembers
<1>2. Replaces(h2, h, g, p, M)
  BY <1>1, ShareReplaced
<1>3. new.cached = sums /\ new.partials = known
  <2>1. new = [view EXCEPT !.cached = sums, !.partials = known, !.recomputed_pages = @ + 1]
    BY DEF Recompute, PageFloats
  <2>. HIDE DEF new, sums, known
  <2>. QED
    BY <2>1 DEF IsView
<1>4. sums = KeySum(h2)
  BY <1>1, <1>2 DEF Replaces
<1>5. array = << >> => sum = 0
  BY EmptySum, SmallSums
<1>. HIDE DEF array, sum, h2, new, sums
<1>6. Partial(new, p) = sum
  BY <1>3, <1>5 DEF Partial, Put, Without
<1>7. \A q : q # p => Partial(new, q) = Partial(view, q)
  BY <1>3 DEF Partial, Put, Without
<1>8. sum = KeySum(OnPage(h2, p))
  BY <1>2 DEF Replaces, sum, array
<1>9. \A q : Partial(new, q) = KeySum(OnPage(h2, q))
  BY <1>1, <1>2, <1>6, <1>7, <1>8 DEF Replaces
<1>10. Remembers(new, h2, M)
  BY <1>2, <1>3, <1>4, <1>9 DEF Remembers, Replaces
<1>. QED
  BY <1>10 DEF new, h2

\* The loop brings it up to date on all the pages that it visits.
LEMMA LoopRemembers ==
  ASSUME NEW M, SmallValues(M), NEW view, IsView(view), NEW h, Remembers(view, h, M),
         NEW g \in Cells(M), NEW d, NEW n \in Nat, NEW order, NEW run,
         IsLoop(run, view, order, d, n),
         \A i \in 1..n : SumOf(PageFloats(d, order[i], view.column)) = KeySum(OnPage(g, order[i]))
  PROVE  Remembers(run[n], Latest(h, g, {order[i] : i \in 1..n}), M)
<1>. DEFINE P(m) == {order[i] : i \in 1..m}
            Done(m) == /\ IsView(run[m]) /\ run[m].column = view.column
                       /\ Remembers(run[m], Latest(h, g, P(m)), M)
            T == {m \in Nat : m <= n => Done(m)}
<1>1. \A i \in 0..n : run[i] = IF i = 0 THEN view ELSE Recompute(run[i - 1], order[i], d)
  BY DEF IsLoop
<1>2. 0 \in T
  <2>1. run[0] = view
    BY <1>1
  <2>2. h \in Cells(M) /\ P(0) = {}
    BY DEF Remembers
  <2>3. Latest(h, g, P(0)) = h
    BY <2>2 DEF Latest, Cells
  <2>. QED
    BY <2>1, <2>3
<1>3. ASSUME NEW m \in Nat, m \in T PROVE m + 1 \in T
  <2>. SUFFICES ASSUME m + 1 <= n PROVE Done(m + 1)
    OBVIOUS
  <2>. DEFINE p   == order[m + 1]
              old == run[m]
              h1  == Latest(h, g, P(m))
  <2>1. IsView(old) /\ old.column = view.column /\ Remembers(old, h1, M)
    BY <1>3
  <2>2. run[m + 1] = Recompute(old, p, d) /\ m + 1 \in 1..n
    BY <1>1
  <2>3. SumOf(PageFloats(d, p, old.column)) = KeySum(OnPage(g, p))
    BY <2>1, <2>2
  <2>4. Latest(h1, g, {p}) = Latest(h, g, P(m + 1))
    <3>1. 1..(m + 1) = 1..m \cup {m + 1}
      OBVIOUS
    <3>2. P(m + 1) = P(m) \cup {p}
      BY <3>1
    <3>. HIDE DEF P
    <3>. QED
      BY <3>2 DEF Latest
  <2>. HIDE DEF p, old, h1, P
  <2>5. Remembers(Recompute(old, p, d), Latest(h1, g, {p}), M)
    BY <2>1, <2>3, RecomputeRemembers
  <2>6. IsView(Recompute(old, p, d)) /\ Recompute(old, p, d).column = old.column
    BY <2>1, RecomputeKeeps
  <2>. QED
    BY <2>1, <2>2, <2>4, <2>5, <2>6
<1>. HIDE DEF T
<1>4. n \in T
  BY <1>2, <1>3, SetInduction
<1>. QED
  BY <1>4 DEF T

\* What a view remembers of the pages that no event has marked since is what
\* is there (g); one that was never queried remembers nothing.
Seen(view, h, g) ==
  \A k \in Keys : IF view.initialized THEN PageOf(k) \notin view.dirty => h[k] = g[k]
                  ELSE h[k] = 0

\* A query brings the memory up to date, as far as it gets.
LEMMA RefreshRemembers ==
  ASSUME TypeOK, LayoutCoherent, PagesFinite, NEW M, SmallValues(M),
         NEW view, IsView(view), NEW h, Remembers(view, h, M), Seen(view, h, Floats(db, view.column))
  PROVE  \E h2 : /\ Remembers(Refresh(view, db), h2, M)
                 /\ Seen(Refresh(view, db), h2, Floats(db, view.column))
<1>. DEFINE c       == view.column
            g       == Floats(db, c)
            before  == Visited(view, db)
            pending == Pending(view, db)
            bad     == Unreadable(view, db)
            h2      == Latest(h, g, before)
            new     == Refresh(view, db)
<1>1. HasRows(db) /\ db.pages = pages
  BY CoherentHasRows DEF db
<1>2. PICK n, order, run : Visits(n, order, run, view, db)
  BY <1>1, RefreshLoop
<1>3. /\ n \in Nat /\ IsLoop(run, view, order, db, n)
      /\ \A i \in 1..n : order[i] \in before
      /\ \A p \in before : \E i \in 1..n : order[i] = p
      /\ new = Flagged(run[n], view, db)
  BY <1>2 DEF Visits
<1>4. /\ before \subseteq pending /\ (bad = {} => before = pending)
      /\ \A p \in before \cap DOMAIN pages : IsFloatColumn(db, c)
  BY <1>1, RefreshLoop
<1>5. g \in Cells(M)
  BY FloatsSmall
<1>6. pending = view.dirty \cup IF view.initialized THEN {} ELSE DOMAIN pages
  BY <1>1 DEF Pending
<1>7. h \in Cells(M)
  BY DEF Remembers
<1>. HIDE DEF before, pending, bad, new
<1>8. ASSUME NEW i \in 1..n PROVE SumOf(PageFloats(db, order[i], c)) = KeySum(OnPage(g, order[i]))
  <2>1. order[i] \in DOMAIN pages => IsFloatColumn(db, c)
    BY <1>3, <1>4
  <2>. QED
    BY <2>1, PageSum
<1>9. {order[i] : i \in 1..n} = before
  BY <1>3
<1>. HIDE DEF g
<1>10. Remembers(run[n], h2, M) /\ IsView(run[n])
  <2>1. Remembers(run[n], Latest(h, g, {order[i] : i \in 1..n}), M)
    BY <1>3, <1>5, <1>8, LoopRemembers
  <2>2. IsView(run[n])
    BY <1>3, LoopKeeps
  <2>. QED
    BY <1>9, <2>1, <2>2
<1>11. /\ new.cached = run[n].cached /\ new.partials = run[n].partials
       /\ new.initialized = TRUE /\ new.dirty = IF bad = {} THEN {} ELSE pending
  <2>. DEFINE dirty == IF bad = {} THEN {} ELSE pending
              yes   == TRUE
  <2>1. new = [run[n] EXCEPT !.initialized = yes, !.dirty = dirty]
    BY <1>3 DEF Flagged, bad, pending
  <2>. HIDE DEF dirty, yes
  <2>2. new.cached = run[n].cached /\ new.partials = run[n].partials
        /\ new.initialized = yes /\ new.dirty = dirty
    BY <1>10, <2>1 DEF IsView
  <2>. QED
    BY <2>2 DEF dirty, yes
<1>12. Remembers(new, h2, M)
  BY <1>10, <1>11 DEF Remembers, Partial
<1>13. ASSUME NEW k \in Keys, PageOf(k) \notin new.dirty PROVE h2[k] = g[k]
  <2>1. CASE PageOf(k) \in before
    BY <2>1 DEF Latest
  <2>2. CASE PageOf(k) \notin before
    <3>1. PageOf(k) \notin pending /\ h2[k] = h[k]
      BY <1>4, <1>11, <1>13, <2>2 DEF Latest
    <3>2. CASE view.initialized
      BY <1>6, <3>1, <3>2 DEF Seen, g
    <3>3. CASE ~view.initialized
      <4>1. PageOf(k) \notin DOMAIN pages /\ h[k] = 0
        BY <1>6, <3>1, <3>3 DEF Seen
      <4>2. g[k] = 0
        BY <1>1, <4>1 DEF g, Floats, FloatCell, Contains
      <4>. QED
        BY <3>1, <4>1, <4>2
    <3>. QED
      BY <3>2, <3>3
  <2>. QED
    BY <2>1, <2>2
<1>14. Seen(new, h2, g)
  BY <1>11, <1>13 DEF Seen
<1>. QED
  BY <1>12, <1>14 DEF new, g

-----------------------------------------------------------------------------
(* The answers.                                                            *)

\* Each view has a memory, which is that of the table but for what is marked.
AnswerInv(M) ==
  \A i \in DOMAIN views :
    \E h : /\ Remembers(views[i], h, M)
           /\ Seen(views[i], h, Floats(db, views[i].column))

\* A key keeps its float when its page and the schema stay as they are.
LEMMA FloatKept ==
  ASSUME schema' = schema, NEW k, SamePage(pages', pages, PageOf(k)), NEW c
  PROVE  FloatCell(db', c, k) = FloatCell(db, c, k)
BY DEF FloatCell, IsFloatColumn, Contains, FloatArray, SamePage, db

\* No query: the views may be marked, and nothing unmarked has changed.
SameMemory(new, old) ==
  /\ new.column = old.column /\ new.cached = old.cached /\ new.partials = old.partials
  /\ new.initialized = old.initialized /\ old.dirty \subseteq new.dirty

\* Such a step keeps every memory.
LEMMA MemoryKept ==
  ASSUME NEW M, AnswerInv(M), DOMAIN views' = DOMAIN views,
         \A i \in DOMAIN views : SameMemory(views'[i], views[i]),
         \A i \in DOMAIN views, k \in Keys :
           views[i].initialized /\ PageOf(k) \notin views'[i].dirty =>
             FloatCell(db', views[i].column, k) = FloatCell(db, views[i].column, k)
  PROVE  AnswerInv(M)'
<1>. SUFFICES ASSUME NEW i \in DOMAIN views
              PROVE  \E h : /\ Remembers(views'[i], h, M)
                            /\ Seen(views'[i], h, Floats(db', views'[i].column))
  BY DEF AnswerInv
<1>. DEFINE old == views[i]
            new == views'[i]
<1>1. PICK h : Remembers(old, h, M) /\ Seen(old, h, Floats(db, old.column))
  BY DEF AnswerInv
<1>2. SameMemory(new, old)
  OBVIOUS
<1>3. \A k \in Keys : old.initialized /\ PageOf(k) \notin new.dirty =>
                        FloatCell(db', old.column, k) = FloatCell(db, old.column, k)
  OBVIOUS
<1>. HIDE DEF old, new
<1>4. Remembers(new, h, M)
  BY <1>1, <1>2 DEF Remembers, SameMemory, Partial
<1>5. Seen(new, h, Floats(db', new.column))
  BY <1>1, <1>2, <1>3 DEF Seen, SameMemory, Floats
<1>. QED
  BY <1>4, <1>5 DEF new

\* A change to a key: its page is the only one that changes, and it is marked.
LEMMA ChangeKeepsAnswers ==
  ASSUME ViewInv, NEW M, AnswerInv(M), NEW k \in Keys, TouchesOnly(k), Notify(k)
  PROVE  AnswerInv(M)'
<1>1. DOMAIN views' = DOMAIN views
  BY DEF Notify
<1>2. ASSUME NEW i \in DOMAIN views
      PROVE  /\ SameMemory(views'[i], views[i])
             /\ \A j \in Keys : PageOf(j) \notin views'[i].dirty =>
                  FloatCell(db', views[i].column, j) = FloatCell(db, views[i].column, j)
  <2>1. IsView(views[i]) /\ views'[i] = PageWritten(views[i], PageOf(k))
    BY DEF ViewInv, Notify
  <2>2. /\ views'[i].column = views[i].column /\ views'[i].partials = views[i].partials
        /\ views'[i].cached = views[i].cached /\ views'[i].initialized = views[i].initialized
        /\ views'[i].dirty = views[i].dirty \cup {PageOf(k)}
    BY <2>1, NotifyMarks
  <2>3. ASSUME NEW j \in Keys, PageOf(j) \notin views'[i].dirty
        PROVE  FloatCell(db', views[i].column, j) = FloatCell(db, views[i].column, j)
    <3>1. schema' = schema /\ SamePage(pages', pages, PageOf(j))
      BY <2>2, <2>3 DEF TouchesOnly
    <3>. QED
      BY <3>1, FloatKept
  <2>. QED
    BY <2>2, <2>3 DEF SameMemory
<1>. QED
  BY <1>1, <1>2, MemoryKept

\* add_column: there is no page, so that every key has 0 before and after.
LEMMA AddColumnKeepsAnswers ==
  ASSUME "late_column" \notin Misuse, NEW M, AnswerInv(M), NEW col \in Columns, ViewAddColumn(col)
  PROVE  AnswerInv(M)'
<1>1. DOMAIN pages = {} /\ DOMAIN pages' = {} /\ views' = views
  BY DEF ViewAddColumn, AddColumn, Store, AddColumnTo, db
<1>2. \A k, c : FloatCell(db', c, k) = FloatCell(db, c, k)
  BY <1>1 DEF FloatCell, Contains, db
<1>3. \A i \in DOMAIN views : SameMemory(views'[i], views[i])
  BY <1>1 DEF SameMemory
<1>. QED
  BY <1>1, <1>2, <1>3, MemoryKept

\* A new view remembers nothing, and its sum of nothing is 0.
LEMMA AttachKeepsAnswers ==
  ASSUME ViewInv, NEW M, SmallValues(M), AnswerInv(M), NEW c, Attach(c)
  PROVE  AnswerInv(M)'
<1>. DEFINE new  == NewView(c)
            none == [k \in Keys |-> 0]
<1>1. views' = Append(views, new) /\ db' = db
  BY DEF Attach, db
<1>2. IsFiniteSet(Keys) /\ M \in Nat
  BY SmallSums
<1>3. /\ new.cached = 0 /\ new.initialized = FALSE
      /\ \A p : Partial(new, p) = 0
  BY DEF NewView, Partial
<1>4. none \in Cells(M) /\ KeySum(none) = 0 /\ \A p : KeySum(OnPage(none, p)) = 0
  <2>1. \A k \in Keys : none[k] = 0
    OBVIOUS
  <2>2. none \in Cells(M)
    BY <1>2 DEF Cells
  <2>3. ASSUME NEW p PROVE \A k \in Keys : OnPage(none, p)[k] = 0
    BY DEF OnPage
  <2>. HIDE DEF none
  <2>4. ASSUME NEW p PROVE KeySum(OnPage(none, p)) = 0
    BY <1>2, <2>3, KeySumZero
  <2>. QED
    BY <1>2, <2>1, <2>2, <2>4, KeySumZero
<1>5. \A k \in Keys : none[k] = 0
  OBVIOUS
<1>. HIDE DEF new, none
<1>6. Remembers(new, none, M) /\ Seen(new, none, Floats(db, new.column))
  BY <1>3, <1>4, <1>5 DEF Remembers, Seen
<1>7. PICK S : views \in Seq(S)
  BY DEF ViewInv
<1>8. \A i \in DOMAIN views' : (i \in DOMAIN views /\ views'[i] = views[i]) \/ views'[i] = new
  <2>1. views \in Seq(S \cup {new}) /\ new \in S \cup {new}
    BY <1>7
  <2>. QED
    BY <1>1, <2>1
<1>9. ASSUME NEW i \in DOMAIN views'
      PROVE  \E h : /\ Remembers(views'[i], h, M)
                    /\ Seen(views'[i], h, Floats(db', views'[i].column))
  <2>1. CASE i \in DOMAIN views /\ views'[i] = views[i]
    BY <1>1, <2>1 DEF AnswerInv
  <2>2. CASE views'[i] = new
    BY <1>1, <1>6, <2>2
  <2>. QED
    BY <1>8, <2>1, <2>2
<1>. QED
  BY <1>9 DEF AnswerInv

\* A query brings the memory of its view up to date and touches no other view.
LEMMA QueryKeepsAnswers ==
  ASSUME TypeOK, LayoutCoherent, PagesFinite, ViewInv, NEW M, SmallValues(M), AnswerInv(M),
         NEW i \in DOMAIN views, Query(i)
  PROVE  AnswerInv(M)'
<1>. DEFINE new == Refresh(views[i], db)
<1>1. views' = [views EXCEPT ![i] = new] /\ db' = db
  BY DEF Query, db
<1>2. IsView(views[i]) /\ ViewExact(views[i], db)
  BY DEF ViewInv
<1>3. new.column = views[i].column
  BY <1>2, CoherentHasRows, RefreshKeepsColumn
<1>4. \E h : Remembers(new, h, M) /\ Seen(new, h, Floats(db, new.column))
  <2>1. PICK h : Remembers(views[i], h, M) /\ Seen(views[i], h, Floats(db, views[i].column))
    BY DEF AnswerInv
  <2>2. \E h2 : Remembers(new, h2, M) /\ Seen(new, h2, Floats(db, views[i].column))
    BY <1>2, <2>1, RefreshRemembers
  <2>. HIDE DEF new
  <2>. QED
    BY <1>3, <2>2
<1>. HIDE DEF new
<1>5. DOMAIN views' = DOMAIN views
  BY <1>1
<1>6. ASSUME NEW j \in DOMAIN views
      PROVE  \E h : /\ Remembers(views'[j], h, M)
                    /\ Seen(views'[j], h, Floats(db', views'[j].column))
  <2>1. CASE j = i
    <3>1. views'[j] = new
      BY <1>1, <2>1
    <3>. QED
      BY <1>1, <1>4, <3>1
  <2>2. CASE j # i
    <3>1. views'[j] = views[j]
      BY <1>1, <2>2
    <3>. QED
      BY <1>1, <3>1 DEF AnswerInv
  <2>. QED
    BY <2>1, <2>2
<1>. QED
  BY <1>5, <1>6 DEF AnswerInv

\* rollback: the unmarked pages of the table are those of the snapshot.
LEMMA RollbackKeepsAnswers ==
  ASSUME ~RollbackAfterQuery, ViewInv, NEW M, AnswerInv(M), ViewRollback
  PROVE  AnswerInv(M)'
<1>1. /\ InTransaction /\ ~queried /\ views' = views /\ schema' = schema /\ pages' = saved.pages
  BY DEF ViewRollback, Rollback
<1>2. ASSUME NEW i \in DOMAIN views, NEW k \in Keys,
             views[i].initialized, PageOf(k) \notin views'[i].dirty
      PROVE  FloatCell(db', views[i].column, k) = FloatCell(db, views[i].column, k)
  <2>1. SamePage(pages', pages, PageOf(k))
    BY <1>1, <1>2 DEF ViewInv, UnmarkedUnchanged, SamePage
  <2>. QED
    BY <1>1, <2>1, FloatKept
<1>3. \A i \in DOMAIN views : SameMemory(views'[i], views[i])
  BY <1>1 DEF SameMemory
<1>. QED
  BY <1>1, <1>2, <1>3, MemoryKept

\* Every step keeps the memories.
LEMMA AnswerNext ==
  ASSUME "late_column" \notin Misuse, ~RollbackAfterQuery, NEW M, SmallValues(M),
         TypeOK, LayoutCoherent, PagesFinite, ViewInv, AnswerInv(M), [ViewNext]_viewVars
  PROVE  AnswerInv(M)'
<1>1. ASSUME NEW col \in Columns, ViewAddColumn(col) PROVE AnswerInv(M)'
  BY <1>1, AddColumnKeepsAnswers
<1>2. ASSUME NEW k \in Keys, ViewInsert(k) PROVE AnswerInv(M)'
  BY <1>2, ChangesTouch, ChangeKeepsAnswers DEF ViewInsert
<1>3. ASSUME NEW k \in Keys, ViewErase(k) PROVE AnswerInv(M)'
  BY <1>3, ChangesTouch, ChangeKeepsAnswers DEF ViewErase
<1>4. ASSUME NEW k \in Keys, NEW c \in DOMAIN schema, NEW v \in Values, ViewSet(k, c, v)
      PROVE  AnswerInv(M)'
  BY <1>4, ChangesTouch, ChangeKeepsAnswers DEF ViewSet
<1>5. ASSUME NEW c, Attach(c) PROVE AnswerInv(M)'
  BY <1>5, AttachKeepsAnswers
<1>6. ASSUME NEW i \in DOMAIN views, Query(i) PROVE AnswerInv(M)'
  BY <1>6, QueryKeepsAnswers
<1>7. ASSUME views' = views, db' = db PROVE AnswerInv(M)'
  BY <1>7 DEF AnswerInv
<1>8. ASSUME NEW k \in Keys, ViewRefused(k) PROVE AnswerInv(M)'
  BY <1>7, <1>8 DEF ViewRefused, InsertExisting, EraseAbsent, vars, db
<1>9. ASSUME ViewBegin \/ ViewCommit PROVE AnswerInv(M)'
  BY <1>7, <1>9 DEF ViewBegin, Begin, ViewCommit, Commit, db
<1>10. ASSUME ViewRollback PROVE AnswerInv(M)'
  BY <1>10, RollbackKeepsAnswers
<1>11. ASSUME UNCHANGED viewVars PROVE AnswerInv(M)'
  BY <1>7, <1>11 DEF viewVars, db
<1>. QED
  BY <1>1, <1>2, <1>3, <1>4, <1>5, <1>6, <1>8, <1>9, <1>10, <1>11 DEF ViewNext

\* A clean view remembers the column as it is.
LEMMA AnswerInvSuffices ==
  ASSUME NEW M, SmallValues(M), TypeOK, LayoutCoherent, PagesFinite, AnswerInv(M)
  PROVE  AnswerExact
<1>. SUFFICES ASSUME NEW i \in DOMAIN views, Clean(views[i]), IsFloatColumn(db, views[i].column)
              PROVE  views[i].cached = ScanSum(views[i].column)
  BY DEF AnswerExact
<1>. DEFINE view == views[i]
            g    == Floats(db, view.column)
<1>1. PICK h : Remembers(view, h, M) /\ Seen(view, h, g)
  BY DEF AnswerInv
<1>2. \A k \in Keys : g[k] \in Int
  BY FloatsSmall DEF Cells, SmallValues
<1>3. ScanSum(view.column) = KeySum(g)
  BY ScanTotal
<1>. HIDE DEF g
<1>4. \A k \in Keys : h[k] = g[k]
  BY <1>1 DEF Seen, Clean
<1>5. KeySum(g) = KeySum(h)
  BY <1>2, <1>4, SmallSums, KeySumSame
<1>. QED
  BY <1>1, <1>3, <1>5 DEF Remembers

\* The answer of a clean view is the sum that a full scan finds now, whatever
\* was added to it and taken from it since it was made ("Result always equals a
\* brute-force full scan", test_view.cpp:7): for any finite set of keys, all
\* columns, page sizes and numbers of views, if the values are integers so small
\* that no sum of them rounds, columns come before rows and no transaction in
\* which a view was queried is rolled back.
THEOREM AnswerCorrect ==
  ASSUME "late_column" \notin Misuse, "column_in_tx" \notin Misuse, ~RollbackAfterQuery,
         IsFiniteSet(Keys), NaN \notin Int,
         NEW M \in Nat, Values \subseteq (-M)..M, Cardinality(Keys) * (2 * M) <= Precision
  PROVE  ViewSpec => []AnswerExact
<1>1. SmallValues(M)
  BY DEF SmallValues
<1>2. ViewInit => ViewInv
  BY ViewInvInit
<1>3. ViewInit => AnswerInv(M)
  <2>1. DOMAIN << >> = {}
    OBVIOUS
  <2>. QED
    BY <2>1 DEF ViewInit, AnswerInv
<1>4. TypeOK /\ LayoutCoherent /\ PagesFinite /\ ViewInv /\ [ViewNext]_viewVars => ViewInv'
  BY ViewInvNext
<1>5. TypeOK /\ LayoutCoherent /\ PagesFinite /\ ViewInv /\ AnswerInv(M) /\ [ViewNext]_viewVars
        => AnswerInv(M)'
  BY <1>1, AnswerNext
<1>6. TypeOK /\ LayoutCoherent /\ PagesFinite /\ AnswerInv(M) => AnswerExact
  BY <1>1, AnswerInvSuffices
<1>. QED
  BY <1>2, <1>3, <1>4, <1>5, <1>6, ViewedIsTable, TypeCorrect, LayoutCorrect, FiniteCorrect, PTL
     DEF ViewSpec
=============================================================================
