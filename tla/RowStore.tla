------------------------------ MODULE RowStore ------------------------------
(***************************************************************************)
(* What a client of eafardb::Table sees of its data: a map from keys to    *)
(* rows, a row being one cell per column, and transactions that put the    *)
(* map back.  No pages, no positions, no moved rows, no journal.           *)
(* TableRows.tla shows that AtomicTable implements it.                     *)
(***************************************************************************)
EXTENDS Integers, Sequences

CONSTANTS Keys, Values, Columns, Zero

VARIABLES columns,   \* the schema, a sequence of members of Columns
          rows,      \* key -> sequence of cells
          saved      \* the rows at the beginning of the open transaction

vars == <<columns, rows, saved>>

Closed == [open |-> FALSE]
Open(r) == [open |-> TRUE, rows |-> r]

Init == columns = << >> /\ rows = [k \in {} |-> << >>] /\ saved = Closed

AddColumn(col) ==
  /\ \A c \in DOMAIN columns : columns[c].name # col.name
  /\ columns' = Append(columns, col)
  /\ rows' = [k \in DOMAIN rows |-> Append(rows[k], Zero)]
  /\ UNCHANGED saved

Insert(k) ==
  /\ k \notin DOMAIN rows
  /\ rows' = [j \in DOMAIN rows \cup {k} |->
                IF j = k THEN [c \in DOMAIN columns |-> Zero] ELSE rows[j]]
  /\ UNCHANGED <<columns, saved>>

Erase(k) ==
  /\ k \in DOMAIN rows
  /\ rows' = [j \in DOMAIN rows \ {k} |-> rows[j]]
  /\ UNCHANGED <<columns, saved>>

Set(k, c, v) ==
  /\ k \in DOMAIN rows
  /\ rows' = [rows EXCEPT ![k][c] = v]
  /\ UNCHANGED <<columns, saved>>

Begin == saved = Closed /\ saved' = Open(rows) /\ UNCHANGED <<columns, rows>>

Commit == saved # Closed /\ saved' = Closed /\ UNCHANGED <<columns, rows>>

Rollback == saved # Closed /\ rows' = saved.rows /\ saved' = Closed /\ UNCHANGED columns

Next ==
  \/ \E col \in Columns : AddColumn(col)
  \/ \E k \in Keys : \/ Insert(k) \/ Erase(k)
                     \/ \E c \in DOMAIN columns, v \in Values : Set(k, c, v)
  \/ Begin \/ Commit \/ Rollback

Spec == Init /\ [][Next]_vars
=============================================================================
