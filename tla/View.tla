-------------------------------- MODULE View --------------------------------
(***************************************************************************)
(* The SUM view of include/eafardb/view.hpp and src/view.cpp, as values    *)
(* and operators: its state, the event on_page_written, and refresh, the   *)
(* step that a query takes before it answers with `cached'.                *)
(***************************************************************************)
EXTENDS TableState, Doubles

NewView(column) ==
  [column |-> column, partials |-> [p \in {} |-> 0], dirty |-> {},
   initialized |-> FALSE, cached |-> 0, recomputed_pages |-> 0]

\* on_page_written, called by Table::notify_views.
PageWritten(view, p) == [view EXCEPT !.dirty = @ \cup {p}]

\* page_column_f: the array of column c in a materialized page.
FloatArray(db, p, c) == db.pages[p].cols["Float64"][LocalIndex(db.schema, c)]

\* float_index does not throw.
IsFloatColumn(db, c) == c \in DOMAIN db.schema /\ db.schema[c].type = "Float64"

Partial(view, p) == IF p \in DOMAIN view.partials THEN view.partials[p] ELSE 0

\* Mutant of Recompute: the old share is not taken out.
RecomputeAdds(view, p, db) ==
  LET array == IF p \in DOMAIN db.pages THEN FloatArray(db, p, view.column) ELSE << >>
  IN  [view EXCEPT !.cached = Plus(@, SumOf(array)),
                   !.partials = IF array = << >> THEN Without(@, p) ELSE Put(@, p, SumOf(array)),
                   !.recomputed_pages = @ + 1]

\* One turn of the loop of refresh: a page asleep counts as an empty array.
Recompute(view, p, db) ==
  LET array == IF p \in DOMAIN db.pages THEN FloatArray(db, p, view.column) ELSE << >>
      sum   == SumOf(array)
  IN  [view EXCEPT !.cached = Plus(@, Minus(sum, Partial(view, p))),
                   !.partials = IF array = << >> THEN Without(@, p) ELSE Put(@, p, sum),
                   !.recomputed_pages = @ + 1]

\* The pages that a query has to visit: all of them if it is the first.
Pending(view, db) == view.dirty \cup IF view.initialized THEN {} ELSE DOMAIN db.pages

\* A query throws at the first materialized page if its column is no float
\* column.
Unreadable(view, db) == {p \in Pending(view, db) \cap DOMAIN db.pages :
                           ~IsFloatColumn(db, view.column)}

\* refresh visits the pending pages in ascending order.  If it throws, the
\* dirty set keeps them all and the pages it has visited are visited again.
Refresh(view, db) ==
  LET before  == {p \in Pending(view, db) : \A q \in Unreadable(view, db) : p < q}
      order   == InOrder(before)
      run[i \in 0..Len(order)] ==
        IF i = 0 THEN view ELSE Recompute(run[i - 1], order[i], db)
  IN  [run[Len(order)] EXCEPT
         !.initialized = TRUE,
         !.dirty = IF Unreadable(view, db) = {} THEN {} ELSE Pending(view, db)]
=============================================================================
