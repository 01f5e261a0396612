----------------------------- MODULE TableState -----------------------------
(***************************************************************************)
(* What each Table operation of src/table.cpp computes, as operators on a  *)
(* database value [schema, pages] (pages: page id -> PageData), and the    *)
(* replay of a journal built from them.  Sharing of page buffers between   *)
(* the table and a snapshot is not visible at this level.                  *)
(***************************************************************************)
EXTENDS PageLayout, Journal

CONSTANTS KeyModulus,  \* 2^64 in the code: a key is cast to uint64_t ...
          PageSize     \* ... before it is divided by the page size

ASSUME LayoutAssumption == /\ KeyModulus \in Nat \ {0}
                           /\ PageSize \in Nat \ {0}

\* Table::page_id.
PageOf(k) == (k % KeyModulus) \div PageSize

EmptyDb == [schema |-> << >>, pages |-> [p \in {} |-> 0]]

HasColumn(schema, name) == \E i \in DOMAIN schema : schema[i].name = name

\* The order in which a std::map walks the keys S: the n-th has n - 1 below it.
InOrder(S) ==
  [n \in 1..Cardinality(S) |-> CHOOSE x \in S : Cardinality({y \in S : y < x}) = n - 1]

\* Table::contains.
Contains(db, k) == /\ PageOf(k) \in DOMAIN db.pages
                   /\ k \in DOMAIN db.pages[PageOf(k)].row_map

AddColumnTo(db, col) ==
  [schema |-> Append(db.schema, col),
   pages  |-> [p \in DOMAIN db.pages |-> AddArray(db.pages[p], col.type)]]

InsertInto(db, k) ==
  LET p    == PageOf(k)
      page == IF p \in DOMAIN db.pages THEN db.pages[p] ELSE NewPage(db.schema)
  IN  IF Contains(db, k) THEN db
      ELSE [db EXCEPT !.pages = Put(db.pages, p, InsertRow(page, k))]

\* The page that loses its last row goes back to sleep.
EraseFrom(db, k) ==
  LET p    == PageOf(k)
      rest == EraseRow(db.pages[p], k)
  IN  [db EXCEPT !.pages = IF rest.row_keys = << >> THEN Without(db.pages, p)
                           ELSE Put(db.pages, p, rest)]

SetIn(db, k, c, v) ==
  LET p == PageOf(k)
  IN  [db EXCEPT !.pages =
         Put(db.pages, p,
             SetCell(db.pages[p], db.schema[c].type, LocalIndex(db.schema, c), k, v))]

-----------------------------------------------------------------------------
(* Table::replay: apply the entries in order to an empty table.            *)

Thrown == [thrown |-> TRUE]   \* replay ended without a table

SetsCell(e, t) == e.op = IF t = "Int64" THEN "SetI" ELSE "SetF"

\* The call that replay makes for entry e throws.
Throws(db, e) ==
  CASE e.op = "AddColumn"       -> HasColumn(db.schema, e.name)
    [] e.op = "Erase"           -> ~Contains(db, e.key)
    [] e.op \in {"SetI", "SetF"} -> \/ ~Contains(db, e.key)
                                    \/ e.column \notin DOMAIN db.schema
                                    \/ ~SetsCell(e, db.schema[e.column].type)
    [] OTHER                    -> FALSE

Apply(db, e) ==
  CASE e.op = "AddColumn"        -> AddColumnTo(db, [name |-> e.name, type |-> e.type])
    [] e.op = "Insert"           -> InsertInto(db, e.key)
    [] e.op = "Erase"            -> EraseFrom(db, e.key)
    [] e.op \in {"SetI", "SetF"} -> SetIn(db, e.key, e.column, e.value)
    [] OTHER                     -> db         \* BeginTx, CommitTx: audit only

\* It leaves the bounds of an array (undefined): the page of the key has arrays
\* that are shorter than its rows.  Whatever comes out of that is no replay.
LeavesBounds(db, e) == /\ e.op \in {"Erase", "SetI", "SetF"}
                       /\ ~Aligned(db.pages[PageOf(e.key)])

ReplayStep(db, e) ==
  IF db = Thrown \/ Throws(db, e) \/ LeavesBounds(db, e) THEN Thrown ELSE Apply(db, e)

Replay(j) ==
  LET run[i \in 0..Len(j)] == IF i = 0 THEN EmptyDb ELSE ReplayStep(run[i - 1], j[i])
  IN  run[Len(j)]

-----------------------------------------------------------------------------
\* snapshot_ when no transaction is open (a null pointer).
NoSnapshot == [snapshot |-> "null"]

(* Coherence of a page map with the schema it is stored under.             *)

PageCoherent(page, p, schema) ==
  /\ page.row_keys # << >>
  /\ \A k \in DOMAIN page.row_map : PageOf(k) = p
  /\ IndexExact(page)
  /\ Aligned(page)
  /\ FitsSchema(page, schema)

PagesCoherent(pages, schema) == \A p \in DOMAIN pages : PageCoherent(pages[p], p, schema)
=============================================================================
