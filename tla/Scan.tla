-------------------------------- MODULE Scan --------------------------------
(***************************************************************************)
(* The scans of src/table.cpp and the fuzzy query of query.hpp, as         *)
(* operators on a database value.  A scan is the sequence of the           *)
(* <<key, value>> pairs that it hands to its callback.                     *)
(***************************************************************************)
EXTENDS TableState

Seqs == INSTANCE SequencesExt

\* Mutant of RowsInOrder: the rows are walked as they are stored.
RowsAsStored(page, range) == SelectSeq(page.row_keys, LAMBDA k : k \in range)

\* The rows of a page in the order of the row_map iterator.
RowsInOrder(page, range) == InOrder(DOMAIN page.row_map \cap range)

ScanPage(page, array, range) ==
  LET keys == RowsInOrder(page, range)
  IN  [n \in DOMAIN keys |-> <<keys[n], array[page.row_map[keys[n]]]>>]

\* scan_i, scan_f, scan_range_i, scan_range_f: pages_ is a map from uint64_t,
\* and every materialized page is looked at, whatever the range is.
Scan(db, c, range) ==
  LET ids      == InOrder(DOMAIN db.pages)
      array(p) == db.pages[p].cols[db.schema[c].type][LocalIndex(db.schema, c)]
  IN  Seqs!FlattenSeq([n \in DOMAIN ids |-> ScanPage(db.pages[ids[n]], array(ids[n]), range)])

\* The order that a scan keeps, of two keys: the pages are in the order of
\* the keys as uint64_t, the rows of a page in the order of int64_t.
Precedes(j, k) == \/ PageOf(j) < PageOf(k)
                  \/ PageOf(j) = PageOf(k) /\ j < k

\* What a scan adds to touched_pages_: only pages that yield a row count.
TouchedPages(db, range) ==
  Cardinality({p \in DOMAIN db.pages : RowsInOrder(db.pages[p], range) # << >>})

\* FuzzyQuery::filter over a float column, with the set of the values whose
\* membership in the concept reaches the threshold.
Filter(db, c, accepted) ==
  LET rows == Scan(db, c, Int)
      hits == InOrder({n \in DOMAIN rows : rows[n][2] \in accepted})
  IN  [m \in DOMAIN hits |-> rows[hits[m]][1]]
=============================================================================
