------------------------------ MODULE TableRows ------------------------------
(***************************************************************************)
(* AtomicTable implements RowStore: the refinement mapping reads each row  *)
(* the way Table::get_i and get_f do, through the page of the key, its row *)
(* in row_map and the local index of the column.                           *)
(***************************************************************************)
EXTENDS AtomicTable

\* get_i / get_f of a key in the page map map.
Cell(map, k, c) ==
  LET page == map[PageOf(k)]
  IN  page.cols[schema[c].type][LocalIndex(schema, c)][page.row_map[k]]

StoredKeys(map) == {k \in Keys : Contains([pages |-> map], k)}

RowsOf(map) == [k \in StoredKeys(map) |-> [c \in DOMAIN schema |-> Cell(map, k, c)]]

Rows == INSTANCE RowStore WITH
          columns <- schema,
          rows    <- RowsOf(pages),
          saved   <- IF InTransaction THEN [open |-> TRUE, rows |-> RowsOf(saved.pages)]
                                      ELSE [open |-> FALSE]

\* To its client the table is a map of rows: erasing a row, which moves another
\* one to its place in every array, changes no other row; neither does a page
\* that sleeps and wakes up; a new row holds defaults, never the cells of one
\* that was erased; and a rollback puts back the rows of the beginning.
ImplementsRowStore == Rows!Spec
=============================================================================
