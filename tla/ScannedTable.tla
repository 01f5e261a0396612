---------------------------- MODULE ScannedTable ----------------------------
(***************************************************************************)
(* What the scans promise of every state that the table can reach.         *)
(***************************************************************************)
EXTENDS TimeTravel, Scan, FiniteSets

CONSTANT Ranges     \* the sets {from, ..., to} of the ranged scans

ExactIn(range, c) ==
  LET rows == Scan(db, c, range)
      hits == StoredKeys(pages) \cap range
  IN  /\ {rows[n] : n \in DOMAIN rows} = {<<k, Cell(pages, k, c)>> : k \in hits}
      /\ Len(rows) = Cardinality(hits)
      /\ \A m, n \in DOMAIN rows : m < n => Precedes(rows[m][1], rows[n][1])
      /\ TouchedPages(db, range) = Cardinality({PageOf(k) : k \in hits})

\* The fuzzy query finds each row whose cell is in the concept, and no other.
FilterExact(c) ==
  \A accepted \in SUBSET Values :
    LET keys == Filter(db, c, accepted)
        hits == {k \in StoredKeys(pages) : Cell(pages, k, c) \in accepted}
    IN  /\ {keys[n] : n \in DOMAIN keys} = hits
        /\ \A m, n \in DOMAIN keys : m < n => Precedes(keys[m], keys[n])

\* A scan yields each stored key of its range once, with the cell that get_i or
\* get_f would read, although erases have moved rows to other places, and counts
\* each page that has a hit once (table.hpp:154-155, spec S2.2).  The order is that
\* of the walk, pages by their unsigned number and keys within a page; for what is
\* said of it, see ScanAscends.
ScanExact ==
  \A c \in DOMAIN schema :
    /\ ExactIn(Int, c)
    /\ \A range \in Ranges : ExactIn(range, c)
    /\ schema[c].type = "Float64" => FilterExact(c)

\* "Full scans, in ascending key order" (table.hpp:154, spec S2.3): a scan hands
\* out the keys in their order as numbers.
ScanAscends ==
  \A c \in DOMAIN schema :
    LET rows == Scan(db, c, Int)
    IN  \A m, n \in DOMAIN rows : m < n => rows[m][1] < rows[n][1]
=============================================================================
