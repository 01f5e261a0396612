---------------------------- MODULE MCAtomicTable ----------------------------
(* Model values for AtomicTable.                                           *)
EXTENDS TableRows

\* Two keys of page 0 and a negative key, which wraps to a page of its own.
TwoPageKeys == {0, 1, -1}

FloatColumn == [name |-> "f", type |-> "Float64"]
OneColumn   == {FloatColumn}

LateColumns == {"late_column"}
ColumnsInTx == {"column_in_tx"}
=============================================================================
