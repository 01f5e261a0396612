---------------------------- MODULE MCViewedTable ----------------------------
(* Model values for ViewedTable.                                           *)
EXTENDS ViewedTable

\* Two keys of page 0 and a negative key, which wraps to a page of its own.
TwoPageKeys == {0, 1, -1}

FloatColumn == [name |-> "f", type |-> "Float64"]
OneColumn   == {FloatColumn}
TwoColumns  == {FloatColumn, [name |-> "i", type |-> "Int64"]}

Disciplined == {}
=============================================================================
