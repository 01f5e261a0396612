----------------------------- MODULE PageLayout -----------------------------
(***************************************************************************)
(* The physical page of include/eafardb/table.hpp (struct PageData) and    *)
(* what the Table methods of src/table.cpp do to one page.                 *)
(*                                                                         *)
(* A page is stored column by column: row_keys lists the keys in row       *)
(* order, row_map is the index from a key to its row, and cols[t] is the   *)
(* sequence of the column arrays of type t (int_cols and float_cols).  A   *)
(* row is nothing but a position across these arrays, so the page is only  *)
(* meaningful while all of them stay in step.  Rows and columns are        *)
(* numbered from 1 here and from 0 in the code.                            *)
(***************************************************************************)
EXTENDS Integers, Sequences, FiniteSets

CONSTANT Zero          \* the default cell: int 0, and the bits of +0.0

ColumnTypes == {"Int64", "Float64"}

\* f with x mapped to v, whether or not x was in its domain.
Put(f, x, v) == [y \in DOMAIN f \cup {x} |-> IF y = x THEN v ELSE f[y]]

\* The function f without x.
Without(f, x) == [y \in DOMAIN f \ {x} |-> f[y]]

-----------------------------------------------------------------------------
(* Schema: a sequence of [name, type] records, indexed by column id.       *)

\* type_index_: the position of column c among the columns of its own type.
LocalIndex(schema, c) ==
  Cardinality({i \in 1..c : schema[i].type = schema[c].type})

ColumnsOfType(schema, t) == Cardinality({i \in DOMAIN schema : schema[i].type = t})

-----------------------------------------------------------------------------
(* Page operations.                                                        *)

\* A page that wakes up: no rows, one empty array per column of the schema.
NewPage(schema) ==
  [row_map  |-> [k \in {} |-> 0],
   row_keys |-> << >>,
   cols     |-> [t \in ColumnTypes |-> [c \in 1..ColumnsOfType(schema, t) |-> << >>]]]

\* add_column gives every materialized page one more, empty, array.
AddArray(page, type) == [page EXCEPT !.cols[type] = Append(@, << >>)]

\* insert: the key takes the next row, with the default in every column.
InsertRow(page, k) ==
  [row_map  |-> Put(page.row_map, k, Len(page.row_keys) + 1),
   row_keys |-> Append(page.row_keys, k),
   cols     |-> [t \in ColumnTypes |->
                   [c \in DOMAIN page.cols[t] |-> Append(page.cols[t][c], Zero)]]]

\* Overwrite an entry with the last one and drop the last.
SwapRemove(seq, row) ==
  [i \in 1..(Len(seq) - 1) |-> IF i = row THEN seq[Len(seq)] ELSE seq[i]]

\* Mutant of EraseRow: the row that moves keeps its old place in the index.
EraseRowIndexStale(page, k) ==
  LET row == page.row_map[k]
  IN  [row_map  |-> Without(page.row_map, k),
       row_keys |-> SwapRemove(page.row_keys, row),
       cols     |-> [t \in ColumnTypes |->
                       [c \in DOMAIN page.cols[t] |-> SwapRemove(page.cols[t][c], row)]]]

\* Mutant of EraseRow: the float arrays are cut, but their last cell not moved.
EraseRowOneType(page, k) ==
  LET row   == page.row_map[k]
      last  == Len(page.row_keys)
      moved == page.row_keys[last]
      index == Without(page.row_map, k)
  IN  [row_map  |-> IF row = last THEN index ELSE Put(index, moved, row),
       row_keys |-> SwapRemove(page.row_keys, row),
       cols     |-> [t \in ColumnTypes |->
                       [c \in DOMAIN page.cols[t] |->
                          SwapRemove(page.cols[t][c], IF t = "Int64" THEN row ELSE last)]]]

\* erase: swap-with-last in the key array and in every column array.
EraseRow(page, k) ==
  LET row   == page.row_map[k]
      last  == Len(page.row_keys)
      moved == page.row_keys[last]
      index == Without(page.row_map, k)
  IN  [row_map  |-> IF row = last THEN index ELSE Put(index, moved, row),
       row_keys |-> SwapRemove(page.row_keys, row),
       cols     |-> [t \in ColumnTypes |->
                       [c \in DOMAIN page.cols[t] |-> SwapRemove(page.cols[t][c], row)]]]

\* set_i / set_f, once the column id is resolved to (type, local index).
SetCell(page, type, local, k, v) ==
  [page EXCEPT !.cols[type][local][page.row_map[k]] = v]

-----------------------------------------------------------------------------
(* What makes a page coherent.                                             *)

\* A page with keys in K and cells in V.
IsPage(page, K, V) ==
  /\ page = [row_map |-> page.row_map, row_keys |-> page.row_keys, cols |-> page.cols]
  /\ DOMAIN page.row_map \subseteq K
  /\ page.row_map \in [DOMAIN page.row_map -> Nat]
  /\ page.row_keys \in Seq(K)
  /\ page.cols \in [ColumnTypes -> Seq(Seq(V))]

\* Every column array has exactly one cell per row.
Aligned(page) ==
  \A t \in ColumnTypes : \A c \in DOMAIN page.cols[t] :
    Len(page.cols[t][c]) = Len(page.row_keys)

\* row_map and row_keys are inverse to each other.
IndexExact(page) ==
  /\ \A k \in DOMAIN page.row_map : /\ page.row_map[k] \in DOMAIN page.row_keys
                                    /\ page.row_keys[page.row_map[k]] = k
  /\ \A r \in DOMAIN page.row_keys : /\ page.row_keys[r] \in DOMAIN page.row_map
                                     /\ page.row_map[page.row_keys[r]] = r

\* One array per column of the schema.
FitsSchema(page, schema) ==
  \A t \in ColumnTypes : Len(page.cols[t]) = ColumnsOfType(schema, t)
=============================================================================
