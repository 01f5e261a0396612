--------------------------- MODULE History_proofs ---------------------------
(***************************************************************************)
(* What the readers of a table see, for every set of keys, values and      *)
(* columns, every page size and every clock: its rows (the table           *)
(* implements RowStore), its past (replay_at), and its scans.              *)
(***************************************************************************)
EXTENDS ScannedTable, AtomicTable_proofs

-----------------------------------------------------------------------------
(* Rows: for a client that declares its columns before its rows and        *)
(* outside of transactions, AtomicTable implements RowStore.               *)

\* The cell of key k in array l of the columns of type t.
At(page, t, l, k) == page.cols[t][l][page.row_map[k]]

-----------------------------------------------------------------------------
(* What the page operations do to the cells.                               *)

\* erase moves the last row with all its cells: no other key sees a change.
LEMMA EraseRowCells ==
  ASSUME NEW K, NEW V, NEW page, IsPage(page, K, V), IndexExact(page), Aligned(page),
         NEW k \in DOMAIN page.row_map, NEW x \in DOMAIN page.row_map \ {k},
         NEW t \in ColumnTypes, NEW l \in DOMAIN page.cols[t]
  PROVE  At(EraseRow(page, k), t, l, x) = At(page, t, l, x)
<1>. DEFINE row   == page.row_map[k]
            last  == Len(page.row_keys)
            moved == page.row_keys[last]
            array == page.cols[t][l]
            new   == EraseRow(page, k)
            at    == page.row_map[x]
<1>1. array \in Seq(V) /\ Len(array) = last /\ DOMAIN page.row_keys = 1..last
  BY DEF IsPage, Aligned
<1>2. /\ row \in 1..last /\ page.row_keys[row] = k
      /\ at \in 1..last /\ page.row_keys[at] = x
  BY <1>1 DEF IndexExact
<1>3. /\ last \in Nat \ {0} /\ at # row
      /\ at = last <=> x = moved
  <2>1. last \in Nat /\ last \in 1..last
    BY <1>1, <1>2
  <2>2. x = moved => at = last
    BY <1>1, <2>1 DEF IndexExact
  <2>. QED
    BY <1>2, <2>1, <2>2
<1>4. new.cols[t][l] = SwapRemove(array, row)
  BY DEF EraseRow
<1>5. new.row_map[x] = IF x = moved THEN row ELSE at
  <2>1. CASE row = last
    BY <1>2, <1>3, <2>1 DEF EraseRow, Without
  <2>2. CASE row # last
    BY <2>2 DEF EraseRow, Without, Put
  <2>. QED
    BY <2>1, <2>2
<1>6. array # << >>
  BY <1>1, <1>3
<1>. HIDE DEF new, array, row, last, moved, at
<1>7. CASE x = moved
  <2>1. row \in 1..(Len(array) - 1)
    BY <1>1, <1>2, <1>3, <1>7
  <2>2. SwapRemove(array, row)[row] = array[Len(array)]
    BY <1>1, <2>1, SwapRemoveSeq
  <2>. QED
    BY <1>1, <1>3, <1>4, <1>5, <1>7, <2>2 DEF At, new, array, at
<1>8. CASE x # moved
  <2>1. at \in 1..(Len(array) - 1)
    BY <1>1, <1>2, <1>3, <1>8
  <2>2. SwapRemove(array, row)[at] = array[at]
    BY <1>1, <1>3, <2>1, SwapRemoveSeq
  <2>. QED
    BY <1>4, <1>5, <1>8, <2>2 DEF At, new, array, at
<1>. QED
  BY <1>7, <1>8

\* insert gives the new key defaults and leaves the other keys their cells.
LEMMA InsertRowCells ==
  ASSUME NEW K, NEW V, NEW page, IsPage(page, K, V), IndexExact(page), Aligned(page),
         NEW k \in K, k \notin DOMAIN page.row_map,
         NEW x \in DOMAIN page.row_map \cup {k},
         NEW t \in ColumnTypes, NEW l \in DOMAIN page.cols[t]
  PROVE  At(InsertRow(page, k), t, l, x) = IF x = k THEN Zero ELSE At(page, t, l, x)
<1>. DEFINE last  == Len(page.row_keys)
            array == page.cols[t][l]
            new   == InsertRow(page, k)
<1>1. array \in Seq(V) /\ Len(array) = last /\ last \in Nat /\ DOMAIN page.row_keys = 1..last
  BY DEF IsPage, Aligned
<1>2. new.cols[t][l] = Append(array, Zero)
  BY DEF InsertRow
<1>3. new.row_map[x] = IF x = k THEN last + 1 ELSE page.row_map[x]
  BY DEF InsertRow, Put
<1>4. x # k => page.row_map[x] \in 1..last
  BY <1>1 DEF IndexExact
<1>5. /\ At(InsertRow(page, k), t, l, x) = new.cols[t][l][new.row_map[x]]
      /\ At(page, t, l, x) = array[page.row_map[x]]
  BY DEF At
<1>. HIDE DEF new, array, last
<1>6. Append(array, Zero)[last + 1] = Zero
  BY <1>1
<1>7. \A i \in 1..last : Append(array, Zero)[i] = array[i]
  BY <1>1
<1>. QED
  BY <1>2, <1>3, <1>4, <1>5, <1>6, <1>7

\* A write to one cell is a write to no other.
LEMMA SetCellCells ==
  ASSUME NEW K, NEW V, NEW page, IsPage(page, K, V), IndexExact(page), Aligned(page),
         NEW k \in DOMAIN page.row_map, NEW v \in V,
         NEW s \in ColumnTypes, NEW m \in DOMAIN page.cols[s],
         NEW x \in DOMAIN page.row_map,
         NEW t \in ColumnTypes, NEW l \in DOMAIN page.cols[t]
  PROVE  At(SetCell(page, s, m, k, v), t, l, x) =
           IF x = k /\ t = s /\ l = m THEN v ELSE At(page, t, l, x)
<1>. DEFINE new == SetCell(page, s, m, k, v)
            r   == page.row_map[k]
<1>1. /\ page.cols \in [ColumnTypes -> Seq(Seq(V))]
      /\ page.cols[s][m] \in Seq(V) /\ Len(page.cols[s][m]) = Len(page.row_keys)
      /\ DOMAIN page.row_keys = 1..Len(page.row_keys)
  BY DEF IsPage, Aligned
<1>2. /\ r \in 1..Len(page.row_keys)
      /\ page.row_map[x] = r <=> x = k
  BY <1>1 DEF IndexExact
<1>3. new.row_map = page.row_map
  BY SetCellCoherent
<1>4. new.cols = [page.cols EXCEPT ![s] = [page.cols[s] EXCEPT ![m] =
                    [page.cols[s][m] EXCEPT ![r] = v]]]
  <2>1. page \in [row_map : {page.row_map}, row_keys : {page.row_keys}, cols : {page.cols}]
    BY DEF IsPage
  <2>2. new = [page EXCEPT !.cols = [page.cols EXCEPT ![s] = [page.cols[s] EXCEPT ![m] =
                    [page.cols[s][m] EXCEPT ![r] = v]]]]
    BY DEF SetCell
  <2>. HIDE DEF new, r
  <2>. QED
    BY <2>1, <2>2
<1>5. r \in DOMAIN page.cols[s][m]
  BY <1>1, <1>2
<1>. HIDE DEF new, r
<1>6. CASE t = s /\ l = m
  <2>1. new.cols[t][l] = [page.cols[s][m] EXCEPT ![r] = v]
    BY <1>1, <1>4, <1>6
  <2>2. CASE x = k
    BY <1>2, <1>3, <1>5, <1>6, <2>1, <2>2 DEF At, new
  <2>3. CASE x # k
    BY <1>1, <1>2, <1>3, <1>6, <2>1, <2>3 DEF At, new
  <2>. QED
    BY <2>2, <2>3
<1>7. CASE ~(t = s /\ l = m)
  <2>1. new.cols[t][l] = page.cols[t][l]
    BY <1>1, <1>4, <1>7
  <2>. QED
    BY <1>3, <1>7, <2>1 DEF At, new
<1>. QED
  BY <1>6, <1>7

-----------------------------------------------------------------------------
(* What the table operations do to the rows.                               *)

\* A page map that belongs to the schema.
Stored(map) == IndexedMap(map) /\ PagesCoherent(map, schema)

\* The row a client reads at key x of the page map.
RowAt(map, x) == [c \in DOMAIN schema |-> Cell(map, x, c)]

\* A page replaced by one that holds the keys it has to hold changes the keys
\* that are stored on this page only.
LEMMA KeysAfterPut ==
  ASSUME NEW map, NEW p, NEW page
  PROVE  \A x \in Keys : x \in StoredKeys(Put(map, p, page)) <=>
           IF PageOf(x) = p THEN x \in DOMAIN page.row_map ELSE x \in StoredKeys(map)
BY DEF StoredKeys, Contains, Put

\* The keys of the table when one page is gone.
LEMMA KeysAfterDrop ==
  ASSUME NEW map, NEW p
  PROVE  \A x \in Keys : x \in StoredKeys(Without(map, p)) <=>
           PageOf(x) # p /\ x \in StoredKeys(map)
BY DEF StoredKeys, Contains, Without

\* The rows of the keys of a replaced page ...
LEMMA RowOnPage ==
  ASSUME NEW map, NEW page, NEW x \in Keys
  PROVE  RowAt(Put(map, PageOf(x), page), x) =
           [c \in DOMAIN schema |-> At(page, schema[c].type, LocalIndex(schema, c), x)]
<1>1. Put(map, PageOf(x), page)[PageOf(x)] = page
  BY DEF Put
<1>. QED
  BY <1>1 DEF RowAt, Cell, At

\* ... and of those on another.
LEMMA RowElsewhere ==
  ASSUME NEW map, NEW new, NEW x \in Keys, new[PageOf(x)] = map[PageOf(x)]
  PROVE  RowAt(new, x) = RowAt(map, x)
BY DEF RowAt, Cell

\* An insert adds a row of defaults and changes no other row.
LEMMA InsertRows ==
  ASSUME NEW map, Stored(map), schema \in Seq(Columns), NEW k \in Keys,
         ~Contains([schema |-> schema, pages |-> map], k)
  PROVE  RowsOf(InsertInto([schema |-> schema, pages |-> map], k).pages) =
           [j \in StoredKeys(map) \cup {k} |->
              IF j = k THEN [c \in DOMAIN schema |-> Zero] ELSE RowsOf(map)[j]]
<1>. DEFINE p    == PageOf(k)
            page == IF p \in DOMAIN map THEN map[p] ELSE NewPage(schema)
            new  == Put(map, p, InsertRow(page, k))
<1>1. InsertInto([schema |-> schema, pages |-> map], k).pages = new
  BY DEF InsertInto
<1>2. /\ IsPage(page, Keys, Values) /\ k \notin DOMAIN page.row_map
      /\ IndexExact(page) /\ Aligned(page) /\ FitsSchema(page, schema)
      /\ \A x \in Keys : PageOf(x) = p =>
           (x \in DOMAIN page.row_map <=> x \in StoredKeys(map))
  <2>1. CASE p \in DOMAIN map
    BY <2>1 DEF Stored, IndexedMap, IsPageMap, Contains, StoredKeys, PagesCoherent, PageCoherent
  <2>2. CASE p \notin DOMAIN map
    <3>1. DOMAIN page.row_map = {}
      BY <2>2 DEF NewPage
    <3>. QED
      BY <2>2, <3>1, NewPageCoherent DEF StoredKeys, Contains
  <2>. QED
    BY <2>1, <2>2
<1>3. \A x \in StoredKeys(map) : PageOf(x) = p => page = map[p]
  BY DEF StoredKeys, Contains
<1>4. DOMAIN InsertRow(page, k).row_map = DOMAIN page.row_map \cup {k}
  BY DEF InsertRow, Put
<1>. HIDE DEF page
<1>5. StoredKeys(new) = StoredKeys(map) \cup {k}
  <2>. DEFINE inserted == InsertRow(page, k)
  <2>1. \A x \in Keys : x \in StoredKeys(new) <=>
           IF PageOf(x) = p THEN x \in DOMAIN inserted.row_map ELSE x \in StoredKeys(map)
    BY KeysAfterPut
  <2>2. StoredKeys(new) \subseteq Keys /\ StoredKeys(map) \subseteq Keys
    BY DEF StoredKeys
  <2>. HIDE DEF new, inserted
  <2>. QED
    BY <1>2, <1>4, <2>1, <2>2 DEF inserted
<1>6. ASSUME NEW x \in StoredKeys(map) \cup {k}
      PROVE  RowAt(new, x) = IF x = k THEN [c \in DOMAIN schema |-> Zero] ELSE RowAt(map, x)
  <2>0. x \in Keys
    BY DEF StoredKeys
  <2>1. CASE PageOf(x) = p
    <3>1. RowAt(new, x) = [c \in DOMAIN schema |->
              At(InsertRow(page, k), schema[c].type, LocalIndex(schema, c), x)]
      BY <2>0, <2>1, RowOnPage
    <3>2. x \in DOMAIN page.row_map \cup {k}
      BY <1>2, <2>0, <2>1
    <3>3. ASSUME NEW c \in DOMAIN schema
          PROVE  At(InsertRow(page, k), schema[c].type, LocalIndex(schema, c), x) =
                   IF x = k THEN Zero ELSE At(page, schema[c].type, LocalIndex(schema, c), x)
      BY <1>2, <3>2, LocalIndexFits, InsertRowCells
    <3>4. x # k => RowAt(map, x) =
            [c \in DOMAIN schema |-> At(page, schema[c].type, LocalIndex(schema, c), x)]
      BY <1>3, <2>1 DEF RowAt, Cell, At
    <3>. QED
      BY <3>1, <3>3, <3>4
  <2>2. CASE PageOf(x) # p
    <3>1. new[PageOf(x)] = map[PageOf(x)] /\ x # k
      BY <2>2 DEF Put, StoredKeys, Contains
    <3>. QED
      BY <2>0, <3>1, RowElsewhere
  <2>. QED
    BY <2>1, <2>2
<1>. HIDE DEF new
<1>7. /\ RowsOf(new) = [x \in StoredKeys(new) |-> RowAt(new, x)]
      /\ RowsOf(map) = [x \in StoredKeys(map) |-> RowAt(map, x)]
  BY DEF RowsOf, RowAt
<1>8. \A x \in StoredKeys(map) : RowsOf(map)[x] = RowAt(map, x)
  BY <1>7
<1>9. k \notin StoredKeys(map)
  BY DEF StoredKeys, Contains
<1>10. RowsOf(new) = [x \in StoredKeys(map) \cup {k} |->
          IF x = k THEN [c \in DOMAIN schema |-> Zero] ELSE RowsOf(map)[x]]
  BY <1>5, <1>6, <1>7, <1>8
<1>. QED
  BY <1>1, <1>10

\* erase removes the row of its key, also if the page goes to sleep.
LEMMA EraseRows ==
  ASSUME NEW map, Stored(map), schema \in Seq(Columns), NEW k \in Keys,
         Contains([schema |-> schema, pages |-> map], k)
  PROVE  RowsOf(EraseFrom([schema |-> schema, pages |-> map], k).pages) =
           [j \in StoredKeys(map) \ {k} |-> RowsOf(map)[j]]
<1>. DEFINE p    == PageOf(k)
            page == map[p]
            rest == EraseRow(page, k)
            new  == IF rest.row_keys = << >> THEN Without(map, p) ELSE Put(map, p, rest)
<1>1. EraseFrom([schema |-> schema, pages |-> map], k).pages = new
  BY DEF EraseFrom
<1>2. /\ p \in DOMAIN map /\ IsPage(page, Keys, Values) /\ k \in DOMAIN page.row_map
      /\ IndexExact(page) /\ Aligned(page) /\ FitsSchema(page, schema)
      /\ \A x \in Keys : PageOf(x) = p =>
           (x \in DOMAIN page.row_map <=> x \in StoredKeys(map))
  BY DEF Stored, IndexedMap, IsPageMap, Contains, StoredKeys, PagesCoherent, PageCoherent
<1>3. /\ DOMAIN rest.row_map = DOMAIN page.row_map \ {k}
      /\ rest.row_keys = << >> => DOMAIN rest.row_map = {}
  BY <1>2, EraseRowCoherent DEF IndexExact
<1>. HIDE DEF page, rest
<1>4. StoredKeys(new) = StoredKeys(map) \ {k}
  <2>0. StoredKeys(new) \subseteq Keys /\ StoredKeys(map) \subseteq Keys
    BY DEF StoredKeys
  <2>1. \A x \in Keys : x \in StoredKeys(new) <=>
           IF PageOf(x) = p THEN x \in DOMAIN rest.row_map ELSE x \in StoredKeys(map)
    <3>1. CASE rest.row_keys = << >>
      BY <1>3, <3>1, KeysAfterDrop
    <3>2. CASE rest.row_keys # << >>
      BY <3>2, KeysAfterPut
    <3>. QED
      BY <3>1, <3>2
  <2>. HIDE DEF new
  <2>. QED
    BY <1>2, <1>3, <2>0, <2>1
<1>5. ASSUME NEW x \in StoredKeys(map) \ {k} PROVE RowAt(new, x) = RowAt(map, x)
  <2>0. x \in Keys
    BY DEF StoredKeys
  <2>1. CASE PageOf(x) = p
    <3>1. x \in DOMAIN page.row_map \ {k} /\ new = Put(map, PageOf(x), rest)
      BY <1>2, <1>3, <2>0, <2>1
    <3>2. RowAt(new, x) = [c \in DOMAIN schema |->
              At(rest, schema[c].type, LocalIndex(schema, c), x)]
      BY <2>0, <3>1, RowOnPage
    <3>3. ASSUME NEW c \in DOMAIN schema
          PROVE  At(rest, schema[c].type, LocalIndex(schema, c), x) =
                   At(page, schema[c].type, LocalIndex(schema, c), x)
      BY <1>2, <3>1, LocalIndexFits, EraseRowCells DEF rest
    <3>4. RowAt(map, x) =
            [c \in DOMAIN schema |-> At(page, schema[c].type, LocalIndex(schema, c), x)]
      BY <2>1 DEF RowAt, Cell, At, page
    <3>. QED
      BY <3>2, <3>3, <3>4
  <2>2. CASE PageOf(x) # p
    <3>1. new[PageOf(x)] = map[PageOf(x)]
      BY <2>2 DEF Put, Without, StoredKeys, Contains
    <3>. QED
      BY <2>0, <3>1, RowElsewhere
  <2>. QED
    BY <2>1, <2>2
<1>. HIDE DEF new
<1>6. RowsOf(new) = [x \in StoredKeys(new) |-> RowAt(new, x)]
  BY DEF RowsOf, RowAt
<1>7. \A x \in StoredKeys(map) : RowsOf(map)[x] = RowAt(map, x)
  BY DEF RowsOf, RowAt
<1>. QED
  BY <1>1, <1>4, <1>5, <1>6, <1>7, Zenon

\* The rows with one cell of one of them written.
Written(rows, k, c, v) == [rows EXCEPT ![k][c] = v]

\* A set writes one cell of one row.
LEMMA SetRows ==
  ASSUME NEW map, Stored(map), schema \in Seq(Columns), NEW k \in Keys,
         Contains([schema |-> schema, pages |-> map], k),
         NEW c \in DOMAIN schema, NEW v \in Values
  PROVE  RowsOf(SetIn([schema |-> schema, pages |-> map], k, c, v).pages) =
           Written(RowsOf(map), k, c, v)
<1>. DEFINE p    == PageOf(k)
            page == map[p]
            t    == schema[c].type
            l    == LocalIndex(schema, c)
            set  == SetCell(page, t, l, k, v)
            new  == Put(map, p, set)
<1>1. SetIn([schema |-> schema, pages |-> map], k, c, v).pages = new
  BY DEF SetIn
<1>2. /\ p \in DOMAIN map /\ IsPage(page, Keys, Values) /\ k \in DOMAIN page.row_map
      /\ IndexExact(page) /\ Aligned(page) /\ FitsSchema(page, schema)
      /\ \A x \in Keys : PageOf(x) = p =>
           (x \in DOMAIN page.row_map <=> x \in StoredKeys(map))
  BY DEF Stored, IndexedMap, IsPageMap, Contains, StoredKeys, PagesCoherent, PageCoherent
<1>. HIDE DEF page
<1>3. t \in ColumnTypes /\ l \in DOMAIN page.cols[t]
  BY <1>2, LocalIndexFits
<1>4. set.row_map = page.row_map
  BY <1>2, <1>3, SetCellCoherent
<1>5. StoredKeys(new) = StoredKeys(map)
  <2>0. StoredKeys(new) \subseteq Keys /\ StoredKeys(map) \subseteq Keys
    BY DEF StoredKeys
  <2>1. \A x \in Keys : x \in StoredKeys(new) <=>
           IF PageOf(x) = p THEN x \in DOMAIN set.row_map ELSE x \in StoredKeys(map)
    BY KeysAfterPut
  <2>. HIDE DEF new, set
  <2>. QED
    BY <1>2, <1>4, <2>0, <2>1
<1>6. ASSUME NEW x \in StoredKeys(map)
      PROVE  RowAt(new, x) = [d \in DOMAIN schema |-> IF x = k /\ d = c THEN v
                                                      ELSE RowAt(map, x)[d]]
  <2>0. x \in Keys
    BY DEF StoredKeys
  <2>1. CASE PageOf(x) = p
    <3>1. x \in DOMAIN page.row_map
      BY <1>2, <2>0, <2>1
    <3>2. RowAt(new, x) = [d \in DOMAIN schema |->
              At(set, schema[d].type, LocalIndex(schema, d), x)]
      BY <2>0, <2>1, RowOnPage
    <3>3. ASSUME NEW d \in DOMAIN schema
          PROVE  At(set, schema[d].type, LocalIndex(schema, d), x) =
                   IF x = k /\ d = c THEN v
                   ELSE At(page, schema[d].type, LocalIndex(schema, d), x)
      <4>1. /\ schema[d].type \in ColumnTypes
            /\ LocalIndex(schema, d) \in DOMAIN page.cols[schema[d].type]
        BY <1>2, LocalIndexFits
      <4>2. schema[d].type = t /\ LocalIndex(schema, d) = l <=> d = c
        BY LocalIndexInjective
      <4>. HIDE DEF t, l
      <4>3. At(set, schema[d].type, LocalIndex(schema, d), x) =
              IF x = k /\ schema[d].type = t /\ LocalIndex(schema, d) = l THEN v
              ELSE At(page, schema[d].type, LocalIndex(schema, d), x)
        BY <1>2, <1>3, <3>1, <4>1, SetCellCells
      <4>. QED
        BY <4>2, <4>3
    <3>4. RowAt(map, x) =
            [d \in DOMAIN schema |-> At(page, schema[d].type, LocalIndex(schema, d), x)]
      BY <2>1 DEF RowAt, Cell, At, page
    <3>. QED
      BY <3>2, <3>3, <3>4
  <2>2. CASE PageOf(x) # p
    <3>1. new[PageOf(x)] = map[PageOf(x)] /\ x # k
      BY <2>2 DEF Put, StoredKeys, Contains
    <3>2. RowAt(new, x) = RowAt(map, x)
      BY <2>0, <3>1, RowElsewhere
    <3>. QED
      BY <3>1, <3>2 DEF RowAt
  <2>. QED
    BY <2>1, <2>2
<1>. HIDE DEF new
<1>7. /\ RowsOf(new) = [x \in StoredKeys(new) |-> RowAt(new, x)]
      /\ RowsOf(map) = [x \in StoredKeys(map) |-> RowAt(map, x)]
  BY DEF RowsOf, RowAt
<1>8. /\ k \in StoredKeys(map)
      /\ \A x \in StoredKeys(map) : DOMAIN RowAt(map, x) = DOMAIN schema
  BY <1>2 DEF RowAt
<1>9. \A x \in StoredKeys(map) :
        RowAt(new, x) = IF x = k THEN [RowAt(map, x) EXCEPT ![c] = v] ELSE RowAt(map, x)
  BY <1>6, <1>8 DEF RowAt
<1>. DEFINE row == [RowAt(map, k) EXCEPT ![c] = v]
<1>10. [RowsOf(map) EXCEPT ![k][c] = v] =
         [x \in StoredKeys(map) |-> IF x = k THEN row ELSE RowAt(map, x)]
  BY <1>7, <1>8
<1>11. RowsOf(new) = [x \in StoredKeys(map) |-> IF x = k THEN row ELSE RowAt(map, x)]
  BY <1>5, <1>7, <1>9
<1>. QED
  BY <1>1, <1>10, <1>11 DEF Written

-----------------------------------------------------------------------------
(* Simulation.                                                             *)

\* The saved rows of the refinement mapping.
SavedRows == IF InTransaction THEN [open |-> TRUE, rows |-> RowsOf(saved.pages)]
                              ELSE [open |-> FALSE]

\* The empty table has no rows.
LEMMA InitSimulates == Init => Rows!Init
<1>. SUFFICES ASSUME Init PROVE Rows!Init
  OBVIOUS
<1>1. StoredKeys(pages) = {}
  BY DEF Init, EmptyDb, StoredKeys, Contains
<1>2. RowsOf(pages) = [k \in {} |-> << >>]
  BY <1>1 DEF RowsOf
<1>. QED
  BY <1>2 DEF Init, Rows!Init, Rows!Closed, InTransaction

\* Each action of the table is the action of the same name of the row store,
\* or changes no row.
LEMMA NextSimulates ==
  ASSUME "late_column" \notin Misuse, "column_in_tx" \notin Misuse,
         TypeInv, LayoutCoherent, [Next]_vars
  PROVE  [Rows!Next]_Rows!vars
<1>1. /\ Stored(pages) /\ schema \in Seq(Columns)
      /\ db = [schema |-> schema, pages |-> pages]
  BY DEF TypeInv, TypeOK, LayoutCoherent, Stored, db
<1>2. DOMAIN RowsOf(pages) = StoredKeys(pages) /\ StoredKeys(pages) \subseteq Keys
  BY DEF RowsOf, StoredKeys
<1>3. ASSUME NEW new, Store(new), new.schema = schema
      PROVE  /\ RowsOf(pages)' = RowsOf(new.pages)
             /\ SavedRows' = SavedRows /\ schema' = schema
  BY <1>3 DEF Store, SavedRows, InTransaction, RowsOf, StoredKeys, Contains, Cell
<1>4. ASSUME NEW col \in Columns, AddColumn(col) PROVE Rows!AddColumn(col)
  <2>1. /\ DOMAIN pages = {} /\ DOMAIN pages' = {} /\ schema' = Append(schema, col)
        /\ ~InTransaction /\ ~InTransaction'
    BY <1>4 DEF AddColumn, AddColumnTo, Store, InTransaction, db
  <2>2. StoredKeys(pages) = {} /\ StoredKeys(pages)' = {}
    BY <2>1 DEF StoredKeys, Contains
  <2>3. RowsOf(pages)' = [k \in {} |-> Append(RowsOf(pages)[k], Zero)]
    BY <2>2 DEF RowsOf
  <2>4. \A c \in DOMAIN schema : schema[c].name # col.name
    BY <1>4 DEF AddColumn, HasColumn
  <2>. QED
    BY <1>2, <2>1, <2>2, <2>3, <2>4 DEF Rows!AddColumn
<1>5. ASSUME NEW k \in Keys, Insert(k) PROVE Rows!Insert(k)
  <2>. DEFINE new == InsertInto(db, k)
  <2>1. Store(new) /\ new.schema = schema /\ ~Contains(db, k)
    BY <1>1, <1>5 DEF Insert, InsertInto
  <2>2. k \notin StoredKeys(pages)
    BY <1>1, <2>1 DEF StoredKeys, Contains
  <2>3. RowsOf(new.pages) = [j \in StoredKeys(pages) \cup {k} |->
              IF j = k THEN [c \in DOMAIN schema |-> Zero] ELSE RowsOf(pages)[j]]
    <3>1. RowsOf(InsertInto([schema |-> schema, pages |-> pages], k).pages) =
            [j \in StoredKeys(pages) \cup {k} |->
              IF j = k THEN [c \in DOMAIN schema |-> Zero] ELSE RowsOf(pages)[j]]
      <4>1. ~Contains([schema |-> schema, pages |-> pages], k)
        BY <1>1, <2>1
      <4>. HIDE DEF new
      <4>. QED
        BY <1>1, <4>1, InsertRows
    <3>. QED
      BY <1>1, <3>1
  <2>. HIDE DEF new
  <2>. QED
    BY <1>2, <1>3, <2>1, <2>2, <2>3 DEF Rows!Insert, SavedRows
<1>6. ASSUME NEW k \in Keys, Erase(k) PROVE Rows!Erase(k)
  <2>. DEFINE new == EraseFrom(db, k)
  <2>1. Store(new) /\ new.schema = schema /\ Contains(db, k)
    BY <1>1, <1>6 DEF Erase, RowDefined, EraseFrom
  <2>2. k \in StoredKeys(pages)
    BY <1>1, <2>1 DEF StoredKeys, Contains
  <2>3. RowsOf(new.pages) = [j \in StoredKeys(pages) \ {k} |-> RowsOf(pages)[j]]
    <3>1. RowsOf(EraseFrom([schema |-> schema, pages |-> pages], k).pages) =
            [j \in StoredKeys(pages) \ {k} |-> RowsOf(pages)[j]]
      <4>1. Contains([schema |-> schema, pages |-> pages], k)
        BY <1>1, <2>1
      <4>. HIDE DEF new
      <4>. QED
        BY <1>1, <4>1, EraseRows
    <3>. QED
      BY <1>1, <3>1
  <2>. HIDE DEF new
  <2>. QED
    BY <1>2, <1>3, <2>1, <2>2, <2>3 DEF Rows!Erase, SavedRows
<1>7. ASSUME NEW k \in Keys, NEW c \in DOMAIN schema, NEW v \in Values, Set(k, c, v)
      PROVE  Rows!Set(k, c, v)
  <2>. DEFINE new == SetIn(db, k, c, v)
  <2>1. Store(new) /\ new.schema = schema /\ Contains(db, k)
    BY <1>1, <1>7 DEF Set, RowDefined, SetIn
  <2>2. k \in StoredKeys(pages)
    BY <1>1, <2>1 DEF StoredKeys, Contains
  <2>3. RowsOf(new.pages) = [RowsOf(pages) EXCEPT ![k][c] = v]
    <3>1. RowsOf(SetIn([schema |-> schema, pages |-> pages], k, c, v).pages) =
            Written(RowsOf(pages), k, c, v)
      <4>1. Contains([schema |-> schema, pages |-> pages], k)
        BY <1>1, <2>1
      <4>. HIDE DEF new
      <4>. QED
        BY <1>1, <4>1, SetRows
    <3>2. new = SetIn([schema |-> schema, pages |-> pages], k, c, v)
      BY <1>1
    <3>. QED
      BY <3>1, <3>2 DEF Written
  <2>. HIDE DEF new
  <2>. QED
    BY <1>2, <1>3, <2>1, <2>2, <2>3 DEF Rows!Set, SavedRows
<1>8. ASSUME UNCHANGED <<schema, pages>> PROVE UNCHANGED <<schema, RowsOf(pages)>>
  BY <1>8 DEF RowsOf, StoredKeys, Contains, Cell
<1>9. ASSUME Begin PROVE Rows!Begin
  <2>1. ~InTransaction /\ InTransaction' /\ saved'.pages = pages
    BY <1>9 DEF Begin, InTransaction, NoSnapshot
  <2>2. RowsOf(saved.pages)' = RowsOf(pages)
    BY <1>9, <2>1 DEF Begin, RowsOf, StoredKeys, Contains, Cell
  <2>. QED
    BY <1>8, <1>9, <2>1, <2>2 DEF Begin, Rows!Begin, Rows!Closed, Rows!Open
<1>10. ASSUME Commit PROVE Rows!Commit
  <2>1. InTransaction /\ ~InTransaction'
    BY <1>10 DEF Commit, InTransaction
  <2>. QED
    BY <1>8, <1>10, <2>1 DEF Commit, Rows!Commit, Rows!Closed
<1>11. ASSUME Rollback PROVE Rows!Rollback
  <2>1. InTransaction /\ ~InTransaction' /\ schema' = schema
    BY <1>11 DEF Rollback, InTransaction
  <2>2. RowsOf(pages)' = RowsOf(saved.pages)
    BY <1>11, <2>1 DEF Rollback, RowsOf, StoredKeys, Contains, Cell
  <2>. QED
    BY <2>1, <2>2 DEF Rows!Rollback, Rows!Closed
<1>12. ASSUME UNCHANGED vars PROVE UNCHANGED Rows!vars
  BY <1>8, <1>12 DEF vars, Rows!vars, InTransaction, RowsOf, StoredKeys, Contains, Cell
<1>. QED
  BY <1>4, <1>5, <1>6, <1>7, <1>9, <1>10, <1>11, <1>12
     DEF Next, Rows!Next, InsertExisting, EraseAbsent

\* For a client that declares its columns first, a table with its pages,
\* indexes and moved rows is a map from keys to rows with transactions.
THEOREM RowsCorrect ==
  ASSUME "late_column" \notin Misuse, "column_in_tx" \notin Misuse
  PROVE  Spec => ImplementsRowStore
<1>1. Init => LayoutCoherent
  BY DEF Init, EmptyDb, LayoutCoherent, PagesCoherent, InTransaction
<1>2. TypeInv /\ LayoutCoherent /\ [Next]_vars => (TypeInv /\ LayoutCoherent)'
  BY TypeNext, LayoutNext
<1>3. TypeInv /\ LayoutCoherent /\ [Next]_vars => [Rows!Next]_Rows!vars
  BY NextSimulates
<1>. QED
  BY <1>1, <1>2, <1>3, TypeInit, InitSimulates, PTL DEF Spec, ImplementsRowStore, Rows!Spec

-----------------------------------------------------------------------------
(* replay_at as a replay.  An entry that is skipped leaves the table as it *)
(* is, and so does the replay of a BeginTx.                                *)

\* The journal j with every entry that was stamped after t put out of action.
Masked(j, ts, t) == [i \in 1..Len(j) |-> IF ts[i] > t THEN BeginTx ELSE j[i]]

IsRunAt(run, j, ts, t) ==
  run = [i \in 0..Len(j) |->
           IF i = 0 THEN EmptyDb
           ELSE IF ts[i] > t THEN run[i - 1] ELSE ReplayStep(run[i - 1], j[i])]

\* A BeginTx changes nothing, not even a replay that has failed.
LEMMA BeginIdle == \A d : ReplayStep(d, BeginTx) = d
<1>1. BeginTx.op = "BeginTx"
  BY DEF BeginTx
<1>2. \A d : ~Throws(d, BeginTx) /\ ~LeavesBounds(d, BeginTx) /\ Apply(d, BeginTx) = d
  BY <1>1 DEF Throws, LeavesBounds, Apply
<1>. QED
  BY <1>2 DEF ReplayStep

\* The masked journal is a journal.
LEMMA MaskedSeq ==
  ASSUME NEW j \in Seq(Entries), NEW ts, NEW t
  PROVE  /\ Masked(j, ts, t) \in Seq(Entries) /\ Len(Masked(j, ts, t)) = Len(j)
         /\ \A i \in 1..Len(j) : Masked(j, ts, t)[i] = IF ts[i] > t THEN BeginTx ELSE j[i]
<1>1. BeginTx \in Entries
  BY DEF BeginTx, Entries
<1>2. \A i \in 1..Len(j) : j[i] \in Entries
  OBVIOUS
<1>3. Len(j) \in Nat
  OBVIOUS
<1>. QED
  BY <1>1, <1>2, <1>3 DEF Masked

\* replay_at of j is the replay of the masked j.
LEMMA MaskedReplay ==
  ASSUME NEW j \in Seq(Entries), NEW ts, NEW t
  PROVE  ReplayAt(j, ts, t) = Replay(Masked(j, ts, t))
<1>. DEFINE m   == Masked(j, ts, t)
            run == CHOOSE run : IsRunAt(run, j, ts, t)
<1>1. m \in Seq(Entries) /\ Len(m) = Len(j)
      /\ \A i \in 1..Len(j) : m[i] = IF ts[i] > t THEN BeginTx ELSE j[i]
  BY MaskedSeq
<1>2. Len(j) \in Nat
  OBVIOUS
<1>. HIDE DEF m
<1>3. ASSUME NEW r PROVE IsRun(r, m) <=> IsRunAt(r, j, ts, t)
  <2>. DEFINE step(i) == IF i = 0 THEN EmptyDb ELSE ReplayStep(r[i - 1], m[i])
              at(i)   == IF i = 0 THEN EmptyDb
                         ELSE IF ts[i] > t THEN r[i - 1] ELSE ReplayStep(r[i - 1], j[i])
  <2>1. ASSUME NEW i \in 0..Len(j) PROVE step(i) = at(i)
    <3>1. CASE i = 0
      BY <3>1
    <3>2. CASE i # 0
      <4>1. i \in 1..Len(j)
        BY <1>2, <3>2
      <4>. QED
        BY <1>1, <3>2, <4>1, BeginIdle
    <3>. QED
      BY <3>1, <3>2
  <2>2. [i \in 0..Len(j) |-> step(i)] = [i \in 0..Len(j) |-> at(i)]
    <3>. HIDE DEF step, at
    <3>. QED
      BY <2>1
  <2>. QED
    BY <1>1, <2>2 DEF IsRun, IsRunAt
<1>4. ReplayAt(j, ts, t) = run[Len(j)]
  BY DEF ReplayAt, IsRunAt
<1>5. RunsTo(m, Replay(m))
  BY <1>1, ReplayRuns
<1>6. IsRun(run, m)
  <2>1. PICK r : IsRun(r, m)
    BY <1>5 DEF RunsTo
  <2>2. IsRunAt(run, j, ts, t)
    BY <1>3, <2>1
  <2>. HIDE DEF run
  <2>. QED
    BY <1>3, <2>2
<1>. HIDE DEF run
<1>7. run[Len(j)] = Replay(m)
  BY <1>1, <1>5, <1>6 DEF RunsTo
<1>. QED
  BY <1>4, <1>7 DEF m

\* A journal that ends in nothing but BeginTx replays like what is before.
LEMMA IdleTail ==
  ASSUME NEW j \in Seq(Entries), NEW n \in 0..Len(j), \A i \in (n + 1)..Len(j) : j[i] = BeginTx
  PROVE  Replay(j) = Replay(SubSeq(j, 1, n))
<1>. DEFINE T == {k \in Nat : n + k <= Len(j) =>
                    Replay(SubSeq(j, 1, n + k)) = Replay(SubSeq(j, 1, n))}
<1>1. n \in Nat /\ Len(j) \in Nat /\ n <= Len(j) /\ Len(j) - n \in Nat
  OBVIOUS
<1>2. 0 \in T
  BY <1>1
<1>3. ASSUME NEW k \in Nat, k \in T PROVE k + 1 \in T
  <2>. SUFFICES ASSUME n + (k + 1) <= Len(j)
                PROVE  Replay(SubSeq(j, 1, n + (k + 1))) = Replay(SubSeq(j, 1, n))
    OBVIOUS
  <2>1. n + k \in Nat /\ n + k <= Len(j) /\ n + (k + 1) = (n + k) + 1
        /\ (n + k) + 1 \in (n + 1)..Len(j)
    BY <1>1
  <2>2. Replay(SubSeq(j, 1, n + k)) = Replay(SubSeq(j, 1, n))
    BY <1>3, <2>1
  <2>. DEFINE l == n + k
  <2>3. /\ SubSeq(j, 1, l) \in Seq(Entries) /\ j[l + 1] \in Entries
        /\ SubSeq(j, 1, l + 1) = Append(SubSeq(j, 1, l), j[l + 1])
    <3>. HIDE DEF l
    <3>1. l \in Nat /\ l + 1 <= Len(j)
      BY <2>1 DEF l
    <3>. QED
      BY <3>1
  <2>4. j[l + 1] = BeginTx
    BY <2>1
  <2>. HIDE DEF l
  <2>5. Replay(SubSeq(j, 1, l + 1)) = Replay(SubSeq(j, 1, l))
    BY <2>3, <2>4, ReplayAppend, BeginIdle
  <2>. QED
    BY <2>1, <2>2, <2>5 DEF l
<1>. HIDE DEF T
<1>4. Len(j) - n \in T
  BY <1>1, <1>2, <1>3, SetInduction
<1>5. n + (Len(j) - n) = Len(j) /\ SubSeq(j, 1, Len(j)) = j /\ Len(j) <= Len(j)
  BY <1>1
<1>. DEFINE d == Len(j) - n
<1>. HIDE DEF d
<1>6. n + d <= Len(j) => Replay(SubSeq(j, 1, n + d)) = Replay(SubSeq(j, 1, n))
  BY <1>4 DEF T, d
<1>. QED
  BY <1>5, <1>6 DEF d

\* Masking a prefix gives a prefix of the masked journal.
LEMMA MaskedPrefix ==
  ASSUME NEW j \in Seq(Entries), NEW ts, NEW t, NEW n \in 0..Len(j), ts \in Seq(Nat),
         Len(ts) = Len(j)
  PROVE  Masked(SubSeq(j, 1, n), SubSeq(ts, 1, n), t) = SubSeq(Masked(j, ts, t), 1, n)
<1>. DEFINE m == Masked(j, ts, t)
            q == SubSeq(j, 1, n)
            s == SubSeq(ts, 1, n)
<1>1. /\ n \in Nat /\ n <= Len(j) /\ q \in Seq(Entries) /\ Len(q) = n
      /\ \A i \in 1..n : q[i] = j[i] /\ s[i] = ts[i] /\ i \in 1..Len(j)
  OBVIOUS
<1>2. m \in Seq(Entries) /\ Len(m) = Len(j)
      /\ \A i \in 1..Len(j) : m[i] = IF ts[i] > t THEN BeginTx ELSE j[i]
  BY MaskedSeq
<1>. HIDE DEF m, q, s
<1>3. Masked(q, s, t) \in Seq(Entries) /\ Len(Masked(q, s, t)) = n
      /\ \A i \in 1..n : Masked(q, s, t)[i] = IF s[i] > t THEN BeginTx ELSE q[i]
  <2>1. q \in Seq(Entries) /\ Len(q) = n
    BY <1>1
  <2>2. /\ Masked(q, s, t) \in Seq(Entries) /\ Len(Masked(q, s, t)) = Len(q)
        /\ \A i \in 1..Len(q) :
             Masked(q, s, t)[i] = IF s[i] > t THEN BeginTx ELSE q[i]
    BY <2>1, MaskedSeq
  <2>. QED
    BY <2>1, <2>2
<1>4. \A i \in 1..n : Masked(q, s, t)[i] = m[i]
  BY <1>1, <1>2, <1>3
<1>5. SubSeq(m, 1, n) \in Seq(Entries) /\ Len(SubSeq(m, 1, n)) = n
      /\ \A i \in 1..n : SubSeq(m, 1, n)[i] = m[i]
  BY <1>1, <1>2
<1>6. Masked(q, s, t) = SubSeq(m, 1, n)
  BY <1>3, <1>4, <1>5
<1>. QED
  BY <1>6 DEF m, q, s

\* An entry that is appended after t is masked.
LEMMA MaskedAppend ==
  ASSUME NEW j \in Seq(Entries), NEW ts \in Seq(Nat), Len(ts) = Len(j), NEW e \in Entries,
         NEW s_ \in Nat, NEW t, s_ > t
  PROVE  Masked(Append(j, e), Append(ts, s_), t) = Append(Masked(j, ts, t), BeginTx)
<1>. DEFINE m  == Masked(j, ts, t)
            j2 == Append(j, e)
            s2 == Append(ts, s_)
            n  == Len(j)
<1>1. /\ n \in Nat /\ Len(j2) = n + 1 /\ j2 \in Seq(Entries) /\ s2[n + 1] = s_
      /\ \A i \in 1..n : j2[i] = j[i] /\ s2[i] = ts[i]
  OBVIOUS
<1>2. m \in Seq(Entries) /\ Len(m) = n
      /\ \A i \in 1..n : m[i] = IF ts[i] > t THEN BeginTx ELSE j[i]
  BY MaskedSeq
<1>3. BeginTx \in Entries
  BY DEF BeginTx, Entries
<1>. HIDE DEF m, j2, s2, n
<1>4. Masked(j2, s2, t) \in Seq(Entries) /\ Len(Masked(j2, s2, t)) = n + 1
      /\ \A i \in 1..(n + 1) : Masked(j2, s2, t)[i] = IF s2[i] > t THEN BeginTx ELSE j2[i]
  <2>1. j2 \in Seq(Entries) /\ Len(j2) = n + 1
    BY <1>1
  <2>2. /\ Masked(j2, s2, t) \in Seq(Entries) /\ Len(Masked(j2, s2, t)) = Len(j2)
        /\ \A i \in 1..Len(j2) :
             Masked(j2, s2, t)[i] = IF s2[i] > t THEN BeginTx ELSE j2[i]
    BY <2>1, MaskedSeq
  <2>. QED
    BY <2>1, <2>2
<1>5. Append(m, BeginTx) \in Seq(Entries) /\ Len(Append(m, BeginTx)) = n + 1
      /\ Append(m, BeginTx)[n + 1] = BeginTx
      /\ \A i \in 1..n : Append(m, BeginTx)[i] = m[i]
  BY <1>2, <1>3
<1>6. \A i \in 1..(n + 1) : Masked(j2, s2, t)[i] = Append(m, BeginTx)[i]
  <2>. TAKE i \in 1..(n + 1)
  <2>1. CASE i = n + 1
    BY <1>1, <1>4, <1>5, <2>1
  <2>2. CASE i # n + 1
    <3>1. i \in 1..n
      BY <1>1, <2>2
    <3>. QED
      BY ZenonT(30), <1>1, <1>2, <1>4, <1>5, <3>1
  <2>. QED
    BY <2>1, <2>2
<1>7. Masked(j2, s2, t) = Append(m, BeginTx)
  BY <1>4, <1>5, <1>6
<1>. QED
  BY <1>7 DEF m, j2, s2

-----------------------------------------------------------------------------
(* The stamps.                                                             *)

\* Every entry has a stamp.
StampsInv ==
  /\ now \in Nat
  /\ stamps \in Seq(Nat)
  /\ Len(stamps) = Len(journal)

\* The inductive invariant of the timed table.
TimeInv == TypeInv /\ ReplayInv /\ StampsInv

\* An entry is appended and stamped by the clock.
Appends(e) == Record(e) /\ Stamp /\ e \in Entries

\* The journal and its stamps go back to their first n entries.
CutsTo(n) == /\ n \in 0..Len(journal)
             /\ journal' = SubSeq(journal, 1, n)
             /\ stamps' = SubSeq(stamps, 1, n)
             /\ now' = now

Restores == /\ InTransaction
            /\ CutsTo(saved.journal_size)

\* Time passes, or another clock is installed.
ClockMoves == Tick \/ SetClock

\* What a timed step is to the table without its clock, and to its journal: the
\* clock moves, an entry is appended, nothing happens, or a rollback.
LEMMA TimedSteps ==
  ASSUME TypeInv, StampsInv, TimeNext
  PROVE  /\ [Next]_vars
         /\ \/ ClockMoves
            \/ (\E e \in Entries : Appends(e)) /\ ~Rollback
            \/ UNCHANGED timeVars
            \/ Rollback /\ Restores
<1>1. /\ journal \in Seq(Entries) /\ Len(journal) \in Nat /\ schema \in Seq(Columns)
      /\ \A e \in Entries : Len(Append(journal, e)) = Len(journal) + 1
  BY DEF TypeInv, TypeOK
<1>2. ASSUME NEW e \in Entries, Record(e), saved' = saved \/ ~InTransaction \/ saved' = NoSnapshot
      PROVE  ~Rollback
  <2>. SUFFICES ASSUME Rollback PROVE FALSE
    OBVIOUS
  <2>1. saved.journal_size \in Nat /\ saved.journal_size <= Len(journal)
    BY DEF Rollback, TypeInv, TypeOK
  <2>2. Len(journal') = saved.journal_size
    BY <1>1, <2>1, TruncateSeq DEF Rollback
  <2>3. Len(journal') = Len(journal) + 1
    BY <1>1, <1>2 DEF Record
  <2>. QED
    BY <1>1, <2>1, <2>2, <2>3
<1>. DEFINE Shape == \/ ClockMoves
                     \/ (\E e \in Entries : Appends(e)) /\ ~Rollback
                     \/ UNCHANGED timeVars
                     \/ Rollback /\ Restores
<1>3. ASSUME ClockMoves PROVE UNCHANGED vars /\ Shape
  BY <1>3 DEF ClockMoves, Tick, SetClock, vars
<1>4. ASSUME NEW col \in Columns, TimedAddColumn(col) PROVE Next /\ Shape
  <2>1. AddColumnEntry(col) \in Entries
    BY ClientAssumption DEF AddColumnEntry, Entries
  <2>2. Record(AddColumnEntry(col)) /\ Stamp /\ saved' = saved
    BY <1>4 DEF TimedAddColumn, AddColumn, Store
  <2>3. Next
    BY <1>4 DEF Next, TimedAddColumn
  <2>. QED
    BY <1>2, <2>1, <2>2, <2>3 DEF Appends
<1>5. ASSUME NEW k \in Keys, TimedInsert(k) PROVE Next /\ Shape
  <2>1. InsertEntry(k) \in Entries
    BY DEF InsertEntry, Entries
  <2>2. Record(InsertEntry(k)) /\ Stamp /\ saved' = saved
    BY <1>5 DEF TimedInsert, Insert, Store
  <2>3. Next
    BY <1>5 DEF Next, TimedInsert
  <2>. QED
    BY <1>2, <2>1, <2>2, <2>3 DEF Appends
<1>6. ASSUME NEW k \in Keys, TimedErase(k) PROVE Next /\ Shape
  <2>1. EraseEntry(k) \in Entries
    BY DEF EraseEntry, Entries
  <2>2. Record(EraseEntry(k)) /\ Stamp /\ saved' = saved
    BY <1>6 DEF TimedErase, Erase, Store
  <2>3. Next
    BY <1>6 DEF Next, TimedErase
  <2>. QED
    BY <1>2, <2>1, <2>2, <2>3 DEF Appends
<1>7. ASSUME NEW k \in Keys, NEW c \in DOMAIN schema, NEW v \in Values, TimedSet(k, c, v)
      PROVE  Next /\ Shape
  <2>. DEFINE e == SetEntry(schema[c].type, k, c, v)
  <2>1. e \in Entries
    <3>1. c \in Nat
      BY <1>1
    <3>. QED
      BY <3>1 DEF SetEntry, Entries
  <2>2. Record(e) /\ Stamp /\ saved' = saved
    BY <1>7 DEF TimedSet, Set, Store
  <2>3. Next
    BY <1>7 DEF Next, TimedSet
  <2>. HIDE DEF e
  <2>. QED
    BY <1>2, <2>1, <2>2, <2>3 DEF Appends
<1>8. ASSUME NEW k \in Keys, TimedRefused(k) PROVE UNCHANGED vars /\ Shape
  BY <1>8 DEF TimedRefused, InsertExisting, EraseAbsent, vars, timeVars
<1>9. ASSUME TimedBegin PROVE Next /\ Shape
  <2>1. BeginTx \in Entries
    BY DEF BeginTx, Entries
  <2>2. Record(BeginTx) /\ Stamp /\ ~InTransaction
    BY <1>9 DEF TimedBegin, Begin
  <2>3. Next
    BY <1>9 DEF Next, TimedBegin
  <2>. QED
    BY <1>2, <2>1, <2>2, <2>3 DEF Appends
<1>10. ASSUME TimedCommit PROVE Next /\ Shape
  <2>1. CommitTx \in Entries
    BY DEF CommitTx, Entries
  <2>2. Record(CommitTx) /\ Stamp /\ saved' = NoSnapshot
    BY <1>10 DEF TimedCommit, Commit
  <2>3. Next
    BY <1>10 DEF Next, TimedCommit
  <2>. QED
    BY <1>2, <2>1, <2>2, <2>3 DEF Appends
<1>11. ASSUME TimedRollback PROVE Next /\ Shape
  <2>1. /\ Rollback /\ InTransaction /\ now' = now
        /\ stamps' = Truncate(stamps, saved.journal_size)
        /\ journal' = Truncate(journal, saved.journal_size)
    BY <1>11 DEF TimedRollback, Rollback
  <2>2. /\ saved.journal_size \in Nat /\ saved.journal_size <= Len(journal)
        /\ saved.journal_size \in 0..Len(journal)
    BY <1>1, <2>1 DEF TypeInv, TypeOK
  <2>3. CutsTo(saved.journal_size)
    BY <1>1, <2>1, <2>2, TruncateSeq DEF CutsTo, StampsInv
  <2>4. Next
    BY <2>1 DEF Next
  <2>. QED
    BY <2>1, <2>3, <2>4 DEF Restores
<1>. HIDE DEF Shape
<1>12. [Next]_vars /\ Shape
  BY <1>3, <1>4, <1>5, <1>6, <1>7, <1>8, <1>9, <1>10, <1>11 DEF TimeNext, ClockMoves
<1>. QED
  BY <1>12 DEF Shape

\* Every entry keeps its stamp.
LEMMA StampsNext ==
  ASSUME TypeInv, StampsInv, [TimeNext]_timeVars
  PROVE  StampsInv'
<1>1. journal \in Seq(Entries) /\ stamps \in Seq(Nat) /\ Len(stamps) = Len(journal) /\ now \in Nat
  BY DEF TypeInv, TypeOK, StampsInv
<1>2. ASSUME ClockMoves PROVE StampsInv'
  <2>1. now' \in Nat /\ stamps' = stamps /\ journal' = journal
    BY <1>1, <1>2, TimeAssumption DEF ClockMoves, Tick, SetClock
  <2>. QED
    BY <1>1, <2>1 DEF StampsInv
<1>3. ASSUME NEW e \in Entries, Appends(e) PROVE StampsInv'
  <2>1. journal' = Append(journal, e) /\ stamps' = Append(stamps, now) /\ now' = now
    BY <1>3 DEF Appends, Record, Stamp
  <2>2. stamps' \in Seq(Nat) /\ Len(stamps') = Len(journal')
    BY <1>1, <2>1
  <2>. QED
    BY <1>1, <2>1, <2>2 DEF StampsInv
<1>4. ASSUME UNCHANGED timeVars PROVE StampsInv'
  BY <1>4 DEF timeVars, StampsInv
<1>5. ASSUME Restores PROVE StampsInv'
  <2>. DEFINE n == saved.journal_size
  <2>1. /\ n \in Nat /\ n <= Len(journal) /\ stamps' = SubSeq(stamps, 1, n) /\ now' = now
        /\ journal' = SubSeq(journal, 1, n)
    BY <1>1, <1>5 DEF Restores, CutsTo
  <2>. HIDE DEF n
  <2>2. stamps' \in Seq(Nat) /\ Len(stamps') = n /\ Len(journal') = n
    BY <1>1, <2>1
  <2>. QED
    BY <1>1, <2>1, <2>2 DEF StampsInv
<1>. QED
  BY <1>2, <1>3, <1>4, <1>5, TimedSteps

\* The invariant holds of the empty table.
LEMMA TimeInitial == TimeInit => TimeInv
<1>. SUFFICES ASSUME TimeInit PROVE TimeInv
  OBVIOUS
<1>1. TypeInv
  BY TypeInit DEF TimeInit
<1>2. ReplayInv
  BY ReplayEmpty DEF TimeInit, Init, EmptyDb, ReplayInv, db, InTransaction
<1>3. StampsInv
  BY DEF TimeInit, Init, StampsInv
<1>. QED
  BY <1>1, <1>2, <1>3 DEF TimeInv

\* Every call and every tick keeps it.
LEMMA TimeStep ==
  ASSUME "column_in_tx" \notin Misuse, TimeInv, [TimeNext]_timeVars
  PROVE  TimeInv'
<1>1. [Next]_vars
  BY TimedSteps DEF TimeInv, timeVars, vars
<1>. QED
  BY <1>1, TypeNext, ReplayNext, StampsNext DEF TimeInv

\* A time that no entry is ahead of: replay_at skips none.
LEMMA NoneSkipped ==
  ASSUME TimeInv, NEW t, \A i \in 1..Len(stamps) : stamps[i] <= t, t \in Nat
  PROVE  ReplayAt(journal, stamps, t) = db
<1>1. /\ journal \in Seq(Entries) /\ Len(stamps) = Len(journal)
      /\ \A i \in 1..Len(stamps) : stamps[i] \in Nat
  BY DEF TimeInv, TypeInv, TypeOK, StampsInv
<1>2. \A i \in 1..Len(journal) : ~(stamps[i] > t)
  BY <1>1
<1>3. Masked(journal, stamps, t) = journal
  <2>1. Masked(journal, stamps, t) = [i \in 1..Len(journal) |-> journal[i]]
    BY <1>2 DEF Masked
  <2>2. journal = [i \in 1..Len(journal) |-> journal[i]]
    BY <1>1
  <2>. QED
    BY <2>1, <2>2
<1>4. ReplayAt(journal, stamps, t) = Replay(journal)
  BY <1>1, <1>3, MaskedReplay
<1>. QED
  BY <1>4 DEF TimeInv, ReplayInv

LEMMA PresentFromInv == TimeInv => PresentExact
<1>. SUFFICES ASSUME TimeInv, NEW t \in 0..MaxTime, \A i \in DOMAIN stamps : stamps[i] <= t
              PROVE  ReplayAt(journal, stamps, t) = db
  BY DEF PresentExact
<1>1. t \in Nat /\ DOMAIN stamps = 1..Len(stamps)
  BY TimeAssumption DEF TimeInv, StampsInv
<1>. QED
  BY <1>1, NoneSkipped

\* A time before the one on the clock, and what a step does to the answer for it:
\* KeptBy(t, n) if the step is a rollback to the first n entries.
KeptBy(t, n) ==
  /\ (\A i \in 1..n : stamps[i] <= t) =>
       ReplayAt(journal', stamps', t) = [db EXCEPT !.pages = saved.pages]
  /\ (\A i \in DOMAIN stamps \ (1..n) : stamps[i] > t) =>
       ReplayAt(journal', stamps', t) = ReplayAt(journal, stamps, t)

PastKept(t) ==
  IF Rollback THEN KeptBy(t, saved.journal_size)
  ELSE ReplayAt(journal', stamps', t) = ReplayAt(journal, stamps, t)

\* An entry that is appended now is skipped by a replay_at of an earlier time.
LEMMA AppendKeepsPast ==
  ASSUME TimeInv, NEW e \in Entries, Appends(e), NEW t \in 0..(now' - 1)
  PROVE  ReplayAt(journal', stamps', t) = ReplayAt(journal, stamps, t)
<1>1. /\ journal \in Seq(Entries) /\ stamps \in Seq(Nat) /\ Len(stamps) = Len(journal)
      /\ now \in Nat
      /\ journal' = Append(journal, e) /\ stamps' = Append(stamps, now) /\ now' = now
  BY DEF TimeInv, TypeInv, TypeOK, StampsInv, Appends, Record, Stamp
<1>2. now > t
  BY <1>1
<1>3. journal' \in Seq(Entries)
  BY <1>1
<1>. DEFINE m == Masked(journal, stamps, t)
<1>4. m \in Seq(Entries) /\ BeginTx \in Entries
  BY <1>1, MaskedSeq DEF BeginTx, Entries
<1>5. Masked(journal', stamps', t) = Append(m, BeginTx)
  BY <1>1, <1>2, MaskedAppend
<1>6. Replay(Append(m, BeginTx)) = Replay(m)
  <2>. HIDE DEF m
  <2>. QED
    BY <1>4, ReplayAppend, BeginIdle
<1>7. ReplayAt(journal', stamps', t) = Replay(Masked(journal', stamps', t))
  BY <1>3, MaskedReplay
<1>8. ReplayAt(journal, stamps, t) = Replay(m)
  BY <1>1, MaskedReplay
<1>. QED
  BY <1>5, <1>6, <1>7, <1>8

\* A time that saw all that a rollback keeps sees the pages of the begin; one that
\* saw nothing of what it takes away sees what it saw.
LEMMA RollbackKeepsPast ==
  ASSUME TimeInv, Rollback, Restores, NEW t \in Int
  PROVE  KeptBy(t, saved.journal_size)
<1>. DEFINE n == saved.journal_size
            m == Masked(journal, stamps, t)
<1>1. /\ journal \in Seq(Entries) /\ stamps \in Seq(Nat) /\ Len(stamps) = Len(journal)
      /\ n \in 0..Len(journal)
      /\ journal' = SubSeq(journal, 1, n) /\ stamps' = SubSeq(stamps, 1, n)
  BY DEF TimeInv, TypeInv, TypeOK, StampsInv, Restores, CutsTo
<1>2. /\ \A i \in 1..Len(journal) : stamps[i] \in Nat
      /\ DOMAIN stamps = 1..Len(journal)
  BY <1>1
<1>. HIDE DEF n
<1>3. n \in Nat /\ Len(journal) \in Nat /\ \A i \in 1..n : i \in 1..Len(journal)
  BY <1>1
<1>4. Masked(journal', stamps', t) = SubSeq(m, 1, n) /\ journal' \in Seq(Entries)
  BY <1>1, MaskedPrefix
<1>5. m \in Seq(Entries) /\ Len(m) = Len(journal)
      /\ \A i \in 1..Len(journal) : m[i] = IF stamps[i] > t THEN BeginTx ELSE journal[i]
  BY <1>1, MaskedSeq
<1>6. ReplayAt(journal', stamps', t) = Replay(SubSeq(m, 1, n))
  BY <1>4, MaskedReplay
<1>7. ReplayAt(journal, stamps, t) = Replay(m)
  BY <1>1, MaskedReplay
<1>. HIDE DEF m
<1>8. ASSUME \A i \in 1..n : stamps[i] <= t
      PROVE  ReplayAt(journal', stamps', t) = [db EXCEPT !.pages = saved.pages]
  <2>1. \A i \in 1..n : ~(stamps[i] > t)
    BY <1>2, <1>3, <1>8
  <2>2. SubSeq(m, 1, n) = SubSeq(journal, 1, n)
    BY <1>1, <1>3, <1>5, <2>1
  <2>3. Replay(SubSeq(journal, 1, n)) = [schema |-> schema, pages |-> saved.pages]
    BY DEF TimeInv, ReplayInv, Restores, n
  <2>4. [db EXCEPT !.pages = saved.pages] = [schema |-> schema, pages |-> saved.pages]
    BY DEF db
  <2>. QED
    BY <1>6, <2>2, <2>3, <2>4
<1>9. ASSUME \A i \in DOMAIN stamps \ (1..n) : stamps[i] > t
      PROVE  ReplayAt(journal', stamps', t) = ReplayAt(journal, stamps, t)
  <2>1. ASSUME NEW i \in (n + 1)..Len(m) PROVE m[i] = BeginTx
    <3>1. i \in 1..Len(journal) /\ i \notin 1..n
      BY <1>1, <1>3, <1>5
    <3>2. stamps[i] > t
      BY <1>2, <1>9, <3>1
    <3>. QED
      BY <1>5, <3>1, <3>2
  <2>2. Replay(m) = Replay(SubSeq(m, 1, n))
    BY <1>1, <1>5, <2>1, IdleTail
  <2>. QED
    BY <1>6, <1>7, <2>2
<1>. QED
  BY <1>8, <1>9 DEF KeptBy, n

\* No step changes the past, a rollback excepted.
LEMMA PastStep ==
  ASSUME TimeInv, [TimeNext]_timeVars, NEW t \in 0..(now' - 1)
  PROVE  PastKept(t) \/ UNCHANGED timeVars
<1>. SUFFICES ASSUME TimeNext PROVE PastKept(t) \/ UNCHANGED timeVars
  OBVIOUS
<1>1. ASSUME ClockMoves PROVE PastKept(t)
  <2>1. journal' = journal /\ stamps' = stamps /\ ~Rollback
    BY <1>1 DEF ClockMoves, Tick, SetClock, Rollback, InTransaction
  <2>. QED
    BY <2>1 DEF PastKept
<1>2. ASSUME NEW e \in Entries, Appends(e), ~Rollback PROVE PastKept(t)
  BY <1>2, AppendKeepsPast DEF PastKept
<1>3. ASSUME Rollback, Restores PROVE PastKept(t)
  BY <1>3, RollbackKeepsPast DEF PastKept
<1>. QED
  BY <1>1, <1>2, <1>3, TimedSteps DEF TimeInv

\* The clock adds nothing to the table and takes nothing from it: what is proved
\* of every table holds of the table with a clock.
THEOREM TimedIsTable == TimeSpec => Spec
<1>1. TimeInit => Init /\ TypeInv /\ StampsInv
  BY TypeInit, TimeInitial DEF TimeInit, TimeInv
<1>2. ASSUME TypeInv, StampsInv, [TimeNext]_timeVars
      PROVE  TypeInv' /\ StampsInv' /\ [Next]_vars
  <2>1. [Next]_vars
    BY <1>2, TimedSteps DEF timeVars, vars
  <2>. QED
    BY <1>2, <2>1, TypeNext, StampsNext
<1>. QED
  BY <1>1, <1>2, PTL DEF TimeSpec, Spec

\* replay_at of a time that no entry is ahead of is the table, uncommitted writes
\* included, for every journal, every schedule of transactions, and whatever
\* clocks are installed.
THEOREM PresentCorrect ==
  ASSUME "column_in_tx" \notin Misuse
  PROVE  TimeSpec => []PresentExact
<1>1. TimeInv /\ [TimeNext]_timeVars => TimeInv'
  BY TimeStep
<1>. QED
  BY <1>1, TimeInitial, PresentFromInv, PTL DEF TimeSpec

\* History is immutable, whatever clocks are installed: the answer for a time
\* before the one on the clock is changed by no step but a rollback.  After that,
\* a time that saw all before the transaction sees the table in which it began,
\* and one that saw nothing of it sees what it saw.
THEOREM PastCorrect ==
  ASSUME "column_in_tx" \notin Misuse
  PROVE  TimeSpec => PastFixed
<1>1. TimeInv /\ [TimeNext]_timeVars => TimeInv'
  BY TimeStep
<1>2. TimeInv /\ [TimeNext]_timeVars => [\A t \in 0..(now' - 1) : PastKept(t)]_timeVars
  BY PastStep
<1>. QED
  BY <1>1, <1>2, TimeInitial, PTL DEF TimeSpec, PastFixed, PastKept, KeptBy

-----------------------------------------------------------------------------
(* Scans: each stored key once, with its cell, in the order of the pages   *)
(* and of the keys of a page.                                              *)

\* A scan is exact in a range.
LEMMA ScanExactIn ==
  ASSUME IsPageMap(pages), PagesCoherent(pages, schema), IsFiniteSet(DOMAIN pages),
         NEW c, NEW range
  PROVE  ExactIn(range, c)
<1>. DEFINE rows == Scan(db, c, range)
            hits == StoredKeys(pages) \cap range
<1>1. PICK keys : Lists(keys, hits) /\ rows = RowsFor(keys, c)
  BY ScanYields DEF Yields
<1>2. hits \in SUBSET Keys
  BY DEF StoredKeys
<1>3. /\ Len(keys) = Cardinality(hits) /\ Len(keys) \in Nat
      /\ DOMAIN keys = 1..Len(keys) /\ \A n \in DOMAIN keys : keys[n] \in hits
  <2>. HIDE DEF hits
  <2>1. Len(keys) = Cardinality(hits) /\ Len(keys) \in Nat
    BY <1>1, <1>2, ListsOnce
  <2>2. keys \in Seq(hits)
    BY <1>1 DEF Lists
  <2>. QED
    BY <2>1, <2>2
<1>4. rows = [n \in 1..Len(keys) |-> <<keys[n], Cell(pages, keys[n], c)>>]
  BY <1>1, <1>3 DEF RowsFor, RowFor
<1>5. DOMAIN rows = DOMAIN keys /\ Len(rows) = Len(keys)
  <2>. HIDE DEF rows
  <2>. QED
    BY <1>3, <1>4
<1>6. \A n \in DOMAIN keys : rows[n] = <<keys[n], Cell(pages, keys[n], c)>> /\ rows[n][1] = keys[n]
  <2>. HIDE DEF rows
  <2>. QED
    BY <1>3, <1>4
<1>7. {rows[n] : n \in DOMAIN rows} = {<<k, Cell(pages, k, c)>> : k \in hits}
  <2>. DEFINE row(k) == <<k, Cell(pages, k, c)>>
  <2>1. \A k \in hits : \E n \in DOMAIN keys : keys[n] = k
    BY <1>1 DEF Lists
  <2>2. \A n \in DOMAIN keys : rows[n] = row(keys[n])
    BY <1>6
  <2>. HIDE DEF rows, hits, row
  <2>3. {rows[n] : n \in DOMAIN rows} = {row(k) : k \in hits}
    <3>1. ASSUME NEW n \in DOMAIN rows PROVE rows[n] \in {row(k) : k \in hits}
      BY <1>3, <1>5, <2>2
    <3>2. ASSUME NEW k \in hits PROVE row(k) \in {rows[n] : n \in DOMAIN rows}
      <4>1. PICK n \in DOMAIN keys : keys[n] = k
        BY <2>1
      <4>. QED
        BY <1>5, <2>2, <4>1
    <3>. QED
      BY <3>1, <3>2
  <2>. QED
    BY <2>3 DEF row
<1>8. \A m, n \in DOMAIN rows : m < n => Precedes(rows[m][1], rows[n][1])
  <2>. HIDE DEF rows, hits
  <2>. QED
    BY <1>1, <1>5, <1>6 DEF Lists
<1>9. TouchedPages(db, range) = Cardinality({PageOf(k) : k \in hits})
  <2>. DEFINE touched == {p \in DOMAIN pages : RowsInOrder(pages[p], range) # << >>}
  <2>1. ASSUME NEW p \in DOMAIN pages
        PROVE  RowsInOrder(pages[p], range) # << >> <=> \E k \in hits : PageOf(k) = p
    <3>1. /\ IsPage(pages[p], Keys, Values) /\ IndexExact(pages[p])
          /\ \A k \in DOMAIN pages[p].row_map : PageOf(k) = p
      BY DEF IsPageMap, PagesCoherent, PageCoherent
    <3>2. Lists(RowsInOrder(pages[p], range), KeysOn(p, range))
      BY <3>1, PageLists DEF KeysOn
    <3>3. RowsInOrder(pages[p], range) # << >> <=> KeysOn(p, range) # {}
      BY <3>2 DEF Lists
    <3>4. \A k : k \in KeysOn(p, range) <=> k \in hits /\ PageOf(k) = p
      <4>1. \A k \in KeysOn(p, range) : k \in Keys
        BY <3>1 DEF KeysOn, IsPage
      <4>. QED
        BY <3>1, <4>1 DEF KeysOn, StoredKeys, Contains
    <3>. QED
      BY <3>3, <3>4
  <2>2. \A k \in hits : PageOf(k) \in DOMAIN pages
    BY DEF StoredKeys, Contains
  <2>3. touched = {PageOf(k) : k \in hits}
    <3>. HIDE DEF hits
    <3>. QED
      BY <2>1, <2>2
  <2>. QED
    BY <2>3 DEF TouchedPages, db
<1>. QED
  BY <1>3, <1>5, <1>7, <1>8, <1>9 DEF ExactIn

\* The filter finds what it should: its hits keep the order of the scan.
LEMMA FilterFinds ==
  ASSUME IsPageMap(pages), PagesCoherent(pages, schema), IsFiniteSet(DOMAIN pages), NEW c
  PROVE  FilterExact(c)
<1>. SUFFICES ASSUME NEW accepted \in SUBSET Values
              PROVE  LET keys == Filter(db, c, accepted)
                         hits == {k \in StoredKeys(pages) : Cell(pages, k, c) \in accepted}
                     IN  /\ {keys[n] : n \in DOMAIN keys} = hits
                         /\ \A m, n \in DOMAIN keys : m < n => Precedes(keys[m], keys[n])
  BY DEF FilterExact
<1>. DEFINE rows == Scan(db, c, Int)
            hits == {k \in StoredKeys(pages) : Cell(pages, k, c) \in accepted}
            at   == {n \in DOMAIN rows : rows[n][2] \in accepted}
            N    == Cardinality(at)
            order == InOrder(at)
            found == Filter(db, c, accepted)
<1>1. StoredKeys(pages) \cap Int = StoredKeys(pages)
  BY ClientAssumption DEF StoredKeys
<1>2. PICK keys : Lists(keys, StoredKeys(pages)) /\ rows = RowsFor(keys, c)
  BY <1>1, ScanYields DEF Yields
<1>. HIDE DEF rows
<1>3. /\ Len(keys) \in Nat /\ DOMAIN keys = 1..Len(keys) /\ DOMAIN rows = DOMAIN keys
      /\ \A n \in DOMAIN keys : /\ keys[n] \in StoredKeys(pages)
                                /\ rows[n][1] = keys[n] /\ rows[n][2] = Cell(pages, keys[n], c)
  BY <1>2 DEF Lists, RowsFor, RowFor
<1>4. IsFiniteSet(at) /\ at \in SUBSET Int
  <2>1. IsFiniteSet(DOMAIN rows) /\ at \in SUBSET (DOMAIN rows) /\ DOMAIN rows \subseteq Int
    BY <1>3, FS_Interval
  <2>. HIDE DEF at
  <2>. QED
    BY <2>1, FS_Subset
<1>. HIDE DEF at
<1>5. /\ N \in Nat /\ order \in [1..N -> at]
      /\ \A x \in at : \E n \in 1..N : order[n] = x
      /\ \A m, n \in 1..N : m < n => order[m] < order[n]
  BY <1>4, InOrderSorts
<1>6. found = [m \in 1..N |-> rows[order[m]][1]]
  BY <1>5 DEF Filter, rows, at
<1>. HIDE DEF N, order, found
<1>7. \A n \in at : n \in DOMAIN keys /\ Cell(pages, keys[n], c) \in accepted
  BY <1>3 DEF at
<1>8. \A m \in 1..N : order[m] \in at /\ found[m] = keys[order[m]]
  BY <1>3, <1>5, <1>6, <1>7
<1>9. DOMAIN found = 1..N
  BY <1>6
<1>10. ASSUME NEW m \in 1..N PROVE found[m] \in hits
  BY <1>3, <1>7, <1>8
<1>11. ASSUME NEW k \in hits PROVE \E m \in 1..N : found[m] = k
  <2>1. PICK n \in DOMAIN keys : keys[n] = k
    BY <1>2 DEF Lists
  <2>2. n \in at
    BY <1>3, <2>1 DEF at
  <2>. QED
    BY <1>5, <1>8, <2>1, <2>2
<1>12. ASSUME NEW m \in 1..N, NEW n \in 1..N, m < n PROVE Precedes(found[m], found[n])
  <2>1. order[m] < order[n] /\ order[m] \in DOMAIN keys /\ order[n] \in DOMAIN keys
    BY <1>5, <1>7, <1>8, <1>12
  <2>. QED
    BY <1>2, <1>8, <2>1 DEF Lists
<1>13. {found[n] : n \in DOMAIN found} = hits
  <2>. HIDE DEF hits
  <2>. QED
    BY <1>9, <1>10, <1>11
<1>14. \A m, n \in DOMAIN found : m < n => Precedes(found[m], found[n])
  BY <1>9, <1>12
<1>. QED
  BY <1>13, <1>14 DEF found, hits

\* Scans, ranged scans and the fuzzy filter yield each stored key once, with the
\* cell that a read would give, in the order of pages and keys, for every set of
\* keys and of ranges, and touch no page without a hit.
THEOREM ScansCorrect ==
  ASSUME "late_column" \notin Misuse, "column_in_tx" \notin Misuse
  PROVE  TimeSpec => []ScanExact
<1>1. TypeOK /\ LayoutCoherent /\ PagesFinite => ScanExact
  <2>. SUFFICES ASSUME TypeOK, LayoutCoherent, PagesFinite, NEW c \in DOMAIN schema
                PROVE  /\ ExactIn(Int, c)
                       /\ \A range \in Ranges : ExactIn(range, c)
                       /\ FilterExact(c)
    BY DEF ScanExact
  <2>1. IsPageMap(pages) /\ PagesCoherent(pages, schema) /\ IsFiniteSet(DOMAIN pages)
    BY DEF TypeOK, LayoutCoherent, PagesFinite
  <2>. QED
    BY <2>1, ScanExactIn, FilterFinds
<1>. QED
  BY <1>1, TimedIsTable, TypeCorrect, LayoutCorrect, FiniteCorrect, PTL
=============================================================================
