----------------------------- MODULE MCCowTable -----------------------------
(* Model values for CowTable.                                              *)
EXTENDS CowTable

\* Two keys of page 0 and a negative key, which wraps to a page of its own.
TwoPageKeys == {0, 1, -1}

FloatColumn == [name |-> "f", type |-> "Float64"]
OneColumn   == {FloatColumn}

FailedSets  == {"failed_set"}
=============================================================================
