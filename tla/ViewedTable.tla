----------------------------- MODULE ViewedTable -----------------------------
(***************************************************************************)
(* A table with views attached to it.  Every mutation of a page ends with  *)
(* Table::notify_views, after the change and its journal entry; begin,     *)
(* commit and rollback notify nobody.                                      *)
(***************************************************************************)
EXTENDS AtomicTable, View, Scan

CONSTANTS MaxViews,    \* bound on the number of views
          MaxWork,     \* bound on the page recomputations of one view
          RollbackAfterQuery  \* may a transaction in which a view was queried roll back?

ASSUME ViewAssumption == /\ MaxViews \in Nat /\ MaxWork \in Nat
                         /\ RollbackAfterQuery \in BOOLEAN

VARIABLES views,       \* views_, in the order in which they were attached
          queried      \* history: a view was queried in the open transaction

viewVars == <<schema, pages, saved, journal, views, queried>>

ViewInit == Init /\ views = << >> /\ queried = FALSE

-----------------------------------------------------------------------------
\* notify_views
Notify(k) == /\ views' = [i \in DOMAIN views |-> PageWritten(views[i], PageOf(k))]
             /\ UNCHANGED queried

\* The constructor of View: Table::attach.
Attach(c) == /\ Len(views) < MaxViews
             /\ views' = Append(views, NewView(c))
             /\ UNCHANGED <<schema, pages, saved, journal, queried>>

\* View::value.
Query(i) == /\ views' = [views EXCEPT ![i] = Refresh(@, db)]
            /\ views'[i].recomputed_pages <= MaxWork
            /\ queried' = (queried \/ InTransaction)
            /\ UNCHANGED <<schema, pages, saved, journal>>

ViewInsert(k)         == Insert(k) /\ Notify(k)
ViewRefused(k)        == (InsertExisting(k) \/ EraseAbsent(k)) /\ UNCHANGED <<views, queried>>
ViewSet(k, c, v)      == Set(k, c, v) /\ Notify(k)
ViewAddColumn(col)    == AddColumn(col) /\ UNCHANGED <<views, queried>>
ViewBegin             == Begin /\ UNCHANGED <<views, queried>>
ViewCommit            == Commit /\ queried' = FALSE /\ UNCHANGED views

\* Mutant of ViewErase: the page that goes to sleep is not announced.
SilentErase(k) ==
  /\ Erase(k)
  /\ IF PageOf(k) \in DOMAIN pages' THEN Notify(k) ELSE UNCHANGED <<views, queried>>

ViewErase(k) == Erase(k) /\ Notify(k)

ViewRollback == /\ RollbackAfterQuery \/ ~queried
                /\ Rollback
                /\ queried' = FALSE
                /\ UNCHANGED views

ViewNext ==
  \/ \E col \in Columns : ViewAddColumn(col)
  \/ \E k \in Keys : \/ ViewInsert(k) \/ ViewErase(k) \/ ViewRefused(k)
                     \/ \E c \in DOMAIN schema, v \in Values : ViewSet(k, c, v)
  \/ \E c \in DOMAIN schema : Attach(c)
  \/ \E i \in DOMAIN views : Query(i)
  \/ ViewBegin \/ ViewCommit \/ ViewRollback

ViewSpec == ViewInit /\ [][ViewNext]_viewVars

-----------------------------------------------------------------------------
Clean(view) == view.initialized /\ view.dirty = {}

\* What a full scan of column c adds up (test_view.cpp:17).
ScanSum(c) ==
  LET rows == Scan(db, c, Int) IN SumOf([n \in DOMAIN rows |-> rows[n][2]])

\* After its first query a view knows the exact sum of every page that no
\* event has marked since, and of no other page: no erase, rollback, page that
\* sleeps or wakes up, and no query that threw half-way leaves a page stale and
\* unmarked (view.hpp:31, view.cpp:25-54).
CleanPagesExact ==
  \A i \in DOMAIN views : views[i].initialized =>
    \A p \in (DOMAIN views[i].partials \cup DOMAIN pages) \ views[i].dirty :
      /\ p \in DOMAIN views[i].partials \cap DOMAIN pages
      /\ IsFloatColumn(db, views[i].column)
      /\ views[i].partials[p] = SumOf(FloatArray(db, p, views[i].column))

\* "Result always equals a brute-force full scan (correctness anchor)"
\* (test_view.cpp:7): what a clean view has cached, by adding differences up
\* over its whole life, is the sum of the column as it is now.
AnswerExact ==
  \A i \in DOMAIN views :
    Clean(views[i]) /\ IsFloatColumn(db, views[i].column) =>
      views[i].cached = ScanSum(views[i].column)
=============================================================================
