------------------------------ MODULE MCHistory ------------------------------
(* Model values for TimeTravel and its scans.                              *)
EXTENDS ScannedTable

TwoPageKeys == {0, 1, -1}
IntColumn   == [name |-> "i", type |-> "Int64"]
FloatColumn == [name |-> "f", type |-> "Float64"]
TwoColumns  == {IntColumn, FloatColumn}
\* A range that cuts page 0 in two, and one over both pages.
TwoRanges   == {1..3, -2..0}

Disciplined == {}
=============================================================================
