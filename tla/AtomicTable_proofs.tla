------------------------- MODULE AtomicTable_proofs -------------------------
(***************************************************************************)
(* Theorems about AtomicTable, for every set of keys, values and columns,  *)
(* every page size and every journal length, and what the modules about    *)
(* its readers share: its cells, its pages in order, and its scans.        *)
(***************************************************************************)
EXTENDS TableRows, Scan, PageLayout_proofs, WellFoundedInduction

\* A key, negative or not, belongs to a page with a natural number.
LEMMA PageOfNat == ASSUME NEW k \in Keys PROVE PageOf(k) \in Nat
<1>1. k \in Int /\ KeyModulus \in Nat \ {0} /\ PageSize \in Nat \ {0}
  BY ClientAssumption, LayoutAssumption
<1>2. k % KeyModulus \in Nat
  BY <1>1
<1>. QED
  BY <1>1, <1>2 DEF PageOf

-----------------------------------------------------------------------------
(* The order in which a std::map walks its keys.                           *)

\* Of two elements the smaller one has fewer below it, and each has fewer below
\* it than there are.
LEMMA RankGrows ==
  ASSUME NEW S \in SUBSET Int, IsFiniteSet(S), NEW x \in S
  PROVE  LET rank(z) == Cardinality({y \in S : y < z})
         IN  /\ rank(x) \in 0..(Cardinality(S) - 1)
             /\ \A z \in S : x < z => rank(x) < rank(z)
<1>. DEFINE under(z) == {y \in S : y < z}
<1>1. \A z : IsFiniteSet(under(z)) /\ Cardinality(under(z)) \in Nat
  BY FS_Subset, FS_CardinalityType
<1>2. Cardinality(S) \in Nat
  BY FS_CardinalityType
<1>3. Cardinality(under(x)) < Cardinality(S)
  <2>1. under(x) \in SUBSET S /\ x \notin under(x)
    OBVIOUS
  <2>. HIDE DEF under
  <2>2. Cardinality(under(x)) <= Cardinality(S) /\ Cardinality(S) # Cardinality(under(x))
    BY <2>1, FS_Subset
  <2>. QED
    BY <1>1, <1>2, <2>2
<1>4. ASSUME NEW z \in S, x < z PROVE Cardinality(under(x)) < Cardinality(under(z))
  <2>0. x \in Int /\ z \in Int /\ \A y \in S : y \in Int
    OBVIOUS
  <2>1. /\ \A y : y \in under(x) <=> y \in S /\ y < x
        /\ \A y : y \in under(z) <=> y \in S /\ y < z
    OBVIOUS
  <2>. HIDE DEF under
  <2>3. ASSUME NEW y \in under(x) PROVE y \in under(z)
    <3>1. y \in S /\ y \in Int /\ y < x
      BY <2>0, <2>1
    <3>2. y < z
      BY <1>4, <2>0, <3>1
    <3>. QED
      BY <2>1, <3>1, <3>2
  <2>4. under(x) \in SUBSET under(z) /\ x \in under(z) /\ x \notin under(x)
    BY <1>4, <2>0, <2>1, <2>3
  <2>2. /\ Cardinality(under(x)) <= Cardinality(under(z))
        /\ Cardinality(under(z)) # Cardinality(under(x))
    BY <1>1, <2>4, FS_Subset
  <2>. QED
    BY <1>1, <2>2
<1>. QED
  BY <1>1, <1>2, <1>3, <1>4

\* The walk meets each element once, in ascending order.
LEMMA InOrderSorts ==
  ASSUME NEW S \in SUBSET Int, IsFiniteSet(S)
  PROVE  /\ Cardinality(S) \in Nat
         /\ InOrder(S) \in [1..Cardinality(S) -> S]
         /\ \A x \in S : \E n \in 1..Cardinality(S) : InOrder(S)[n] = x
         /\ \A m, n \in 1..Cardinality(S) : m < n => InOrder(S)[m] < InOrder(S)[n]
<1>. DEFINE N == Cardinality(S)
            rank == [z \in S |-> Cardinality({y \in S : y < z}) + 1]
            at(n) == CHOOSE x \in S : Cardinality({y \in S : y < x}) = n - 1
<1>1. N \in Nat /\ IsFiniteSet(1..N) /\ Cardinality(1..N) = N
  <2>1. N \in Nat
    BY FS_CardinalityType
  <2>. HIDE DEF N
  <2>2. IsFiniteSet(1..N) /\ Cardinality(1..N) = IF 1 > N THEN 0 ELSE N - 1 + 1
    BY <2>1, FS_Interval
  <2>. QED
    BY <2>1, <2>2
<1>2. /\ rank \in [S -> 1..N]
      /\ \A x, z \in S : x < z => rank[x] < rank[z]
  <2>1. \A x \in S : /\ Cardinality({y \in S : y < x}) \in 0..(N - 1)
                     /\ \A z \in S : x < z => Cardinality({y \in S : y < x})
                                              < Cardinality({y \in S : y < z})
    BY RankGrows
  <2>2. \A x \in S : rank[x] \in 1..N
    BY <1>1, <2>1
  <2>3. \A x \in S : rank[x] = Cardinality({y \in S : y < x}) + 1
    OBVIOUS
  <2>4. \A x, z \in S : x < z => rank[x] < rank[z]
    <3>. DEFINE c(x) == Cardinality({y \in S : y < x})
    <3>1. /\ \A x \in S : c(x) \in 0..(N - 1) /\ rank[x] = c(x) + 1
          /\ \A x, z \in S : x < z => c(x) < c(z)
      BY <2>1, <2>3
    <3>. HIDE DEF N, rank, c
    <3>2. \A x \in S : c(x) \in Nat /\ rank[x] = c(x) + 1
      BY <1>1, <3>1
    <3>. QED
      BY <3>1, <3>2
  <2>. QED
    BY <2>2, <2>4
<1>3. \A x \in S : Cardinality({y \in S : y < x}) = rank[x] - 1
  <2>1. \A x \in S : Cardinality({y \in S : y < x}) \in 0..(N - 1)
    BY RankGrows
  <2>2. \A x \in S : rank[x] = Cardinality({y \in S : y < x}) + 1
    OBVIOUS
  <2>. HIDE DEF N, rank
  <2>. QED
    BY <1>1, <2>1, <2>2
<1>. HIDE DEF N, rank
<1>4. \A x, z \in S : rank[x] = rank[z] => x = z
  BY <1>1, <1>2
<1>5. \A n \in 1..N : \E x \in S : rank[x] = n
  <2>1. rank \in Injection(S, 1..N)
    BY <1>2, <1>4 DEF Injection, IsInjective
  <2>2. rank \in Surjection(S, 1..N)
    BY <1>1, <2>1, FS_Injection DEF N
  <2>. QED
    BY <2>2 DEF Surjection
<1>6. \A n \in 1..N : at(n) \in S /\ rank[at(n)] = n
  <2>. TAKE n \in 1..N
  <2>1. \E x \in S : Cardinality({y \in S : y < x}) = n - 1
    BY <1>3, <1>5
  <2>2. at(n) \in S /\ Cardinality({y \in S : y < at(n)}) = n - 1
    BY <2>1
  <2>. DEFINE x == at(n)
  <2>. HIDE DEF at, x
  <2>3. x \in S /\ Cardinality({y \in S : y < x}) = n - 1
    BY <2>2 DEF x
  <2>4. rank[x] - 1 = n - 1 /\ rank[x] \in 1..N
    BY <1>2, <1>3, <2>3
  <2>. QED
    BY <1>1, <2>3, <2>4 DEF x
<1>7. InOrder(S) = [n \in 1..N |-> at(n)]
  BY DEF InOrder, N
<1>. HIDE DEF at
<1>8. InOrder(S) \in [1..N -> S] /\ \A n \in 1..N : rank[InOrder(S)[n]] = n
  BY <1>6, <1>7
<1>9. ASSUME NEW x \in S PROVE \E n \in 1..N : InOrder(S)[n] = x
  <2>1. rank[x] \in 1..N /\ InOrder(S)[rank[x]] \in S /\ rank[InOrder(S)[rank[x]]] = rank[x]
    BY <1>2, <1>8
  <2>. QED
    BY <1>4, <2>1
<1>10. ASSUME NEW m \in 1..N, NEW n \in 1..N, m < n PROVE InOrder(S)[m] < InOrder(S)[n]
  <2>. DEFINE a == InOrder(S)[m]
              b == InOrder(S)[n]
  <2>1. a \in S /\ b \in S /\ rank[a] = m /\ rank[b] = n
    BY <1>8
  <2>. HIDE DEF a, b
  <2>2. a \in Int /\ b \in Int /\ m \in Int /\ n \in Int /\ ~(n < m) /\ m # n
    BY <1>10, <2>1
  <2>3. a < b
    BY <1>2, <2>1, <2>2
  <2>. QED
    BY <2>3 DEF a, b
<1>. QED
  BY <1>1, <1>8, <1>9, <1>10 DEF N

-----------------------------------------------------------------------------
(* The table operations keep a page map well typed and its index exact.    *)

IndexedMap(map) == IsPageMap(map) /\ \A p \in DOMAIN map : IndexExact(map[p])

\* One page replaced or added.
LEMMA PutPage ==
  ASSUME NEW map, IndexedMap(map), NEW p \in Nat, NEW page,
         IsPage(page, Keys, Values), IndexExact(page)
  PROVE  IndexedMap(Put(map, p, page))
BY DEF IndexedMap, IsPageMap, Put

\* One page dropped.
LEMMA DropPage ==
  ASSUME NEW map, IndexedMap(map), NEW p
  PROVE  IndexedMap(Without(map, p))
BY DEF IndexedMap, IsPageMap, Without

\* A column added: every page gets an empty array, and no index changes.
LEMMA AddColumnIndexed ==
  ASSUME NEW d, IndexedMap(d.pages), NEW col \in Columns
  PROVE  IndexedMap(AddColumnTo(d, col).pages)
<1>1. col.type \in ColumnTypes
  BY ClientAssumption
<1>2. \A p \in DOMAIN d.pages : /\ IsPage(AddArray(d.pages[p], col.type), Keys, Values)
                                /\ IndexExact(AddArray(d.pages[p], col.type))
  BY <1>1, AddArrayTyped DEF IndexedMap, IsPageMap
<1>. QED
  BY <1>2 DEF AddColumnTo, IndexedMap, IsPageMap

\* A key inserted, on a page that is there or on one that wakes up.
LEMMA InsertIndexed ==
  ASSUME NEW d, IndexedMap(d.pages), d = [schema |-> d.schema, pages |-> d.pages],
         d.schema \in Seq(Columns), NEW k \in Keys, ~Contains(d, k)
  PROVE  IndexedMap(InsertInto(d, k).pages)
<1>. DEFINE p    == PageOf(k)
            page == IF p \in DOMAIN d.pages THEN d.pages[p] ELSE NewPage(d.schema)
<1>1. p \in Nat /\ Zero \in Values
  BY PageOfNat, ClientAssumption
<1>2. IsPage(page, Keys, Values) /\ IndexExact(page) /\ k \notin DOMAIN page.row_map
  <2>1. CASE p \in DOMAIN d.pages
    BY <2>1 DEF IndexedMap, IsPageMap, Contains
  <2>2. CASE p \notin DOMAIN d.pages
    BY <2>2, NewPageCoherent
  <2>. QED
    BY <2>1, <2>2
<1>. HIDE DEF page
<1>3. IsPage(InsertRow(page, k), Keys, Values) /\ IndexExact(InsertRow(page, k))
  BY <1>1, <1>2, InsertRowCoherent
<1>4. InsertInto(d, k).pages = Put(d.pages, p, InsertRow(page, k))
  BY DEF InsertInto, page
<1>. HIDE DEF p
<1>. QED
  BY <1>1, <1>3, <1>4, PutPage

\* A key erased, with the page if it was the last.
LEMMA EraseIndexed ==
  ASSUME NEW d, IndexedMap(d.pages), d = [schema |-> d.schema, pages |-> d.pages],
         NEW k \in Keys, Contains(d, k)
  PROVE  IndexedMap(EraseFrom(d, k).pages)
<1>. DEFINE p    == PageOf(k)
            rest == EraseRow(d.pages[p], k)
<1>1. p \in Nat
  BY PageOfNat
<1>2. IsPage(rest, Keys, Values) /\ IndexExact(rest)
  BY EraseRowCoherent DEF IndexedMap, IsPageMap, Contains
<1>3. EraseFrom(d, k).pages = IF rest.row_keys = << >> THEN Without(d.pages, p)
                              ELSE Put(d.pages, p, rest)
  BY DEF EraseFrom
<1>. HIDE DEF p, rest
<1>. QED
  BY <1>1, <1>2, <1>3, PutPage, DropPage

\* A cell written.
LEMMA SetIndexed ==
  ASSUME NEW d, IndexedMap(d.pages), d = [schema |-> d.schema, pages |-> d.pages],
         d.schema \in Seq(Columns), NEW c \in DOMAIN d.schema, NEW v \in Values,
         NEW k \in Keys, Contains(d, k)
  PROVE  IndexedMap(SetIn(d, k, c, v).pages)
<1>. DEFINE p    == PageOf(k)
            page == SetCell(d.pages[p], d.schema[c].type, LocalIndex(d.schema, c), k, v)
<1>1. p \in Nat /\ d.schema[c].type \in ColumnTypes
  BY PageOfNat, ClientAssumption
<1>2. IsPage(page, Keys, Values) /\ IndexExact(page)
  BY <1>1, SetCellCoherent DEF IndexedMap, IsPageMap, Contains
<1>3. SetIn(d, k, c, v).pages = Put(d.pages, p, page)
  BY DEF SetIn
<1>. HIDE DEF p, page
<1>. QED
  BY <1>1, <1>2, <1>3, PutPage

-----------------------------------------------------------------------------
(* Type correctness.                                                       *)

\* Truncation keeps a prefix.
LEMMA TruncateSeq ==
  ASSUME NEW S, NEW j \in Seq(S), NEW n \in Nat
  PROVE  /\ Truncate(j, n) \in Seq(S)
         /\ n <= Len(j) => /\ Len(Truncate(j, n)) = n
                           /\ Truncate(j, n) = SubSeq(j, 1, n)
BY DEF Truncate

\* TypeOK alone is not inductive: an erase from a page whose index is wrong
\* would put a value that is no key into row_map.
TypeInv == /\ TypeOK
           /\ IndexedMap(pages)
           /\ InTransaction => IndexedMap(saved.pages)

\* The invariant holds of the empty table.
LEMMA TypeInit == Init => TypeInv
<1>. SUFFICES ASSUME Init PROVE TypeInv
  OBVIOUS
<1>1. ~InTransaction
  BY DEF Init, InTransaction
<1>2. IndexedMap(pages)
  BY DEF Init, EmptyDb, IndexedMap, IsPageMap
<1>. QED
  BY <1>1, <1>2 DEF Init, TypeInv, TypeOK, IndexedMap

\* A mutation: the pages change to an indexed map, the journal by one entry.
LEMMA StoreTyped ==
  ASSUME TypeInv, NEW new, Store(new), new.schema \in Seq(Columns),
         IndexedMap(new.pages), NEW e \in Entries, Record(e)
  PROVE  TypeInv'
<1>1. schema' \in Seq(Columns) /\ IndexedMap(pages)' /\ saved' = saved
  BY DEF Store, IndexedMap, IsPageMap
<1>2. journal' \in Seq(Entries) /\ Len(journal') = Len(journal) + 1 /\ Len(journal) \in Nat
  BY DEF Record, TypeInv, TypeOK
<1>3. InTransaction' = InTransaction
  BY <1>1 DEF InTransaction
<1>4. InTransaction => saved.journal_size \in 0..(Len(journal') - 1)
  BY <1>2 DEF TypeInv, TypeOK
<1>. QED
  BY <1>1, <1>2, <1>3, <1>4 DEF TypeInv, TypeOK, IndexedMap, IsPageMap

\* Every call keeps it; a rollback because the snapshot has it too.
LEMMA TypeNext == TypeInv /\ [Next]_vars => TypeInv'
<1>. SUFFICES ASSUME TypeInv, [Next]_vars PROVE TypeInv'
  OBVIOUS
<1>1. /\ db = [schema |-> db.schema, pages |-> db.pages]
      /\ db.schema = schema /\ db.pages = pages
      /\ schema \in Seq(Columns) /\ IndexedMap(pages) /\ IndexedMap(db.pages)
  BY DEF TypeInv, TypeOK, db
<1>2. ASSUME NEW col \in Columns, AddColumn(col) PROVE TypeInv'
  <2>1. IndexedMap(AddColumnTo(db, col).pages) /\ AddColumnTo(db, col).schema \in Seq(Columns)
    BY <1>1, AddColumnIndexed DEF AddColumnTo
  <2>2. AddColumnEntry(col) \in Entries
    BY ClientAssumption DEF AddColumnEntry, Entries
  <2>. QED
    BY <1>2, <2>1, <2>2, StoreTyped DEF AddColumn
<1>3. ASSUME NEW k \in Keys, Insert(k) PROVE TypeInv'
  <2>1. /\ IndexedMap(InsertInto(db, k).pages)
        /\ InsertInto(db, k).schema \in Seq(Columns)
    BY <1>1, <1>3, InsertIndexed DEF Insert, InsertInto
  <2>2. InsertEntry(k) \in Entries
    BY DEF InsertEntry, Entries
  <2>. QED
    BY <1>3, <2>1, <2>2, StoreTyped DEF Insert
<1>4. ASSUME NEW k \in Keys, Erase(k) PROVE TypeInv'
  <2>1. IndexedMap(EraseFrom(db, k).pages) /\ EraseFrom(db, k).schema \in Seq(Columns)
    BY <1>1, <1>4, EraseIndexed DEF Erase, RowDefined, EraseFrom
  <2>2. EraseEntry(k) \in Entries
    BY DEF EraseEntry, Entries
  <2>. QED
    BY <1>4, <2>1, <2>2, StoreTyped DEF Erase
<1>5. ASSUME NEW k \in Keys, NEW c \in DOMAIN schema, NEW v \in Values, Set(k, c, v)
      PROVE  TypeInv'
  <2>1. IndexedMap(SetIn(db, k, c, v).pages) /\ SetIn(db, k, c, v).schema \in Seq(Columns)
    BY <1>1, <1>5, SetIndexed DEF Set, RowDefined, SetIn
  <2>2. SetEntry(schema[c].type, k, c, v) \in Entries
    <3>1. c \in Nat
      BY <1>1
    <3>. QED
      BY <3>1 DEF SetEntry, Entries
  <2>. QED
    BY <1>5, <2>1, <2>2, StoreTyped DEF Set
<1>6. ASSUME Begin PROVE TypeInv'
  <2>1. BeginTx \in Entries
    BY DEF BeginTx, Entries
  <2>2. /\ journal' \in Seq(Entries) /\ Len(journal') = Len(journal) + 1
        /\ Len(journal) \in Nat
    BY <1>6, <2>1 DEF Begin, Record, TypeInv, TypeOK
  <2>3. /\ schema' = schema /\ pages' = pages
        /\ saved' = [pages |-> pages, journal_size |-> Len(journal)]
    BY <1>6 DEF Begin
  <2>. QED
    BY <1>1, <2>2, <2>3 DEF TypeInv, TypeOK, IndexedMap, IsPageMap
<1>7. ASSUME Commit PROVE TypeInv'
  <2>1. CommitTx \in Entries
    BY DEF CommitTx, Entries
  <2>2. journal' \in Seq(Entries)
    BY <1>7, <2>1 DEF Commit, Record, TypeInv, TypeOK
  <2>3. ~InTransaction' /\ schema' = schema /\ pages' = pages
    BY <1>7 DEF Commit, InTransaction
  <2>. QED
    BY <1>1, <2>2, <2>3 DEF TypeInv, TypeOK, IndexedMap, IsPageMap
<1>8. ASSUME Rollback PROVE TypeInv'
  <2>1. journal' \in Seq(Entries)
    BY <1>8, TruncateSeq DEF Rollback, TypeInv, TypeOK
  <2>2. ~InTransaction' /\ schema' = schema /\ pages' = saved.pages
    BY <1>8 DEF Rollback, InTransaction
  <2>3. IndexedMap(saved.pages)
    BY <1>8 DEF Rollback, TypeInv
  <2>. QED
    BY <1>1, <2>1, <2>2, <2>3 DEF TypeInv, TypeOK, IndexedMap, IsPageMap
<1>9. ASSUME UNCHANGED vars PROVE TypeInv'
  BY <1>9 DEF vars, TypeInv, TypeOK, InTransaction, IndexedMap, IsPageMap
<1>. QED
  BY <1>2, <1>3, <1>4, <1>5, <1>6, <1>7, <1>8, <1>9 DEF Next, InsertExisting, EraseAbsent

\* Every reachable state is well typed, whatever calls the client makes.
THEOREM TypeCorrect == Spec => []TypeOK
<1>1. TypeInv => TypeOK
  BY DEF TypeInv
<1>. QED
  BY TypeInit, TypeNext, <1>1, PTL DEF Spec

-----------------------------------------------------------------------------
(* Coherent layout, for a client that declares its columns first.          *)

\* A coherent page put in its place keeps the page map coherent.
LEMMA PutCoherent ==
  ASSUME NEW map, NEW sch, PagesCoherent(map, sch), NEW p, NEW page,
         PageCoherent(page, p, sch)
  PROVE  PagesCoherent(Put(map, p, page), sch)
BY DEF PagesCoherent, Put

\* An insert keeps every page coherent.
LEMMA InsertKeepsLayout ==
  ASSUME NEW d, IndexedMap(d.pages), d = [schema |-> d.schema, pages |-> d.pages],
         d.schema \in Seq(Columns), PagesCoherent(d.pages, d.schema),
         NEW k \in Keys, ~Contains(d, k)
  PROVE  PagesCoherent(InsertInto(d, k).pages, d.schema)
<1>. DEFINE p    == PageOf(k)
            page == IF p \in DOMAIN d.pages THEN d.pages[p] ELSE NewPage(d.schema)
            new  == InsertRow(page, k)
<1>1. /\ IsPage(page, Keys, Values) /\ k \notin DOMAIN page.row_map
      /\ \A x \in DOMAIN page.row_map : PageOf(x) = p
      /\ IndexExact(page) /\ Aligned(page) /\ FitsSchema(page, d.schema)
  <2>1. CASE p \in DOMAIN d.pages
    BY <2>1 DEF IndexedMap, IsPageMap, Contains, PagesCoherent, PageCoherent
  <2>2. CASE p \notin DOMAIN d.pages
    BY <2>2, NewPageCoherent
  <2>. QED
    BY <2>1, <2>2
<1>2. InsertInto(d, k).pages = Put(d.pages, p, new)
  BY DEF InsertInto
<1>. HIDE DEF page
<1>3. PageCoherent(new, p, d.schema)
  <2>. HIDE DEF p
  <2>0. Zero \in Values
    BY ClientAssumption
  <2>1. IndexExact(new) /\ Aligned(new) /\ new.row_keys # << >>
    BY <1>1, <2>0, InsertRowCoherent
  <2>2. FitsSchema(new, d.schema)
    BY <1>1, <2>0, InsertRowCoherent
  <2>3. DOMAIN new.row_map = DOMAIN page.row_map \cup {k}
    BY DEF InsertRow, Put
  <2>. HIDE DEF new
  <2>4. \A x \in DOMAIN new.row_map : PageOf(x) = p
    BY <1>1, <2>3 DEF p
  <2>. QED
    BY <2>1, <2>2, <2>4 DEF PageCoherent
<1>. QED
  BY <1>2, <1>3, PutCoherent

\* So does an erase, which drops the page that it empties.
LEMMA EraseKeepsLayout ==
  ASSUME NEW d, IndexedMap(d.pages), d = [schema |-> d.schema, pages |-> d.pages],
         PagesCoherent(d.pages, d.schema), NEW k \in Keys, Contains(d, k)
  PROVE  PagesCoherent(EraseFrom(d, k).pages, d.schema)
<1>. DEFINE p    == PageOf(k)
            rest == EraseRow(d.pages[p], k)
<1>1. rest.row_keys # << >> => PageCoherent(rest, p, d.schema)
  BY EraseRowCoherent DEF IndexedMap, IsPageMap, Contains, PagesCoherent, PageCoherent
<1>2. EraseFrom(d, k).pages = IF rest.row_keys = << >> THEN Without(d.pages, p)
                              ELSE Put(d.pages, p, rest)
  BY DEF EraseFrom
<1>3. PagesCoherent(Without(d.pages, p), d.schema)
  BY DEF PagesCoherent, Without
<1>. HIDE DEF p, rest
<1>. QED
  BY <1>1, <1>2, <1>3, PutCoherent

\* So does a write to a cell.
LEMMA SetKeepsLayout ==
  ASSUME NEW d, IndexedMap(d.pages), d = [schema |-> d.schema, pages |-> d.pages],
         d.schema \in Seq(Columns), PagesCoherent(d.pages, d.schema),
         NEW c \in DOMAIN d.schema, NEW v \in Values, NEW k \in Keys, Contains(d, k)
  PROVE  PagesCoherent(SetIn(d, k, c, v).pages, d.schema)
<1>. DEFINE p    == PageOf(k)
            page == SetCell(d.pages[p], d.schema[c].type, LocalIndex(d.schema, c), k, v)
<1>1. d.schema[c].type \in ColumnTypes
  BY ClientAssumption
<1>2. PageCoherent(page, p, d.schema)
  BY <1>1, SetCellCoherent
     DEF IndexedMap, IsPageMap, Contains, PagesCoherent, PageCoherent
<1>3. SetIn(d, k, c, v).pages = Put(d.pages, p, page)
  BY DEF SetIn
<1>. HIDE DEF p, page
<1>. QED
  BY <1>2, <1>3, PutCoherent

\* So does every call of a client without late columns.
LEMMA LayoutNext ==
  ASSUME "late_column" \notin Misuse, "column_in_tx" \notin Misuse,
         TypeInv, LayoutCoherent, [Next]_vars
  PROVE  LayoutCoherent'
<1>1. /\ db = [schema |-> db.schema, pages |-> db.pages]
      /\ db.schema = schema /\ db.pages = pages
      /\ schema \in Seq(Columns) /\ IndexedMap(db.pages)
      /\ PagesCoherent(db.pages, db.schema)
  BY DEF TypeInv, TypeOK, db, LayoutCoherent
<1>2. ASSUME NEW new, Store(new), new.schema = schema, PagesCoherent(new.pages, schema)
      PROVE  LayoutCoherent'
  BY <1>2 DEF Store, LayoutCoherent, InTransaction
<1>3. ASSUME NEW col \in Columns, AddColumn(col) PROVE LayoutCoherent'
  <2>1. ~InTransaction' /\ DOMAIN pages' = {}
    BY <1>3 DEF AddColumn, AddColumnTo, Store, InTransaction, db
  <2>. QED
    BY <2>1 DEF LayoutCoherent, PagesCoherent
<1>4. ASSUME NEW k \in Keys, Insert(k) PROVE LayoutCoherent'
  <2>1. InsertInto(db, k).schema = schema /\ PagesCoherent(InsertInto(db, k).pages, schema)
    BY <1>1, <1>4, InsertKeepsLayout DEF Insert, InsertInto
  <2>. QED
    BY <1>2, <1>4, <2>1 DEF Insert
<1>5. ASSUME NEW k \in Keys, Erase(k) PROVE LayoutCoherent'
  <2>1. EraseFrom(db, k).schema = schema /\ PagesCoherent(EraseFrom(db, k).pages, schema)
    BY <1>1, <1>5, EraseKeepsLayout DEF Erase, RowDefined, EraseFrom
  <2>. QED
    BY <1>2, <1>5, <2>1 DEF Erase
<1>6. ASSUME NEW k \in Keys, NEW c \in DOMAIN schema, NEW v \in Values, Set(k, c, v)
      PROVE  LayoutCoherent'
  <2>1. SetIn(db, k, c, v).schema = schema /\ PagesCoherent(SetIn(db, k, c, v).pages, schema)
    BY <1>1, <1>6, SetKeepsLayout DEF Set, RowDefined, SetIn
  <2>. QED
    BY <1>2, <1>6, <2>1 DEF Set
<1>7. ASSUME Begin PROVE LayoutCoherent'
  BY <1>7 DEF Begin, LayoutCoherent
<1>8. ASSUME Commit PROVE LayoutCoherent'
  BY <1>8 DEF Commit, LayoutCoherent, InTransaction
<1>9. ASSUME Rollback PROVE LayoutCoherent'
  BY <1>9 DEF Rollback, LayoutCoherent, InTransaction
<1>10. ASSUME UNCHANGED vars PROVE LayoutCoherent'
  BY <1>10 DEF vars, LayoutCoherent, InTransaction
<1>. QED
  BY <1>3, <1>4, <1>5, <1>6, <1>7, <1>8, <1>9, <1>10 DEF Next, InsertExisting, EraseAbsent

\* If no column is added late or inside a transaction, every page, live or in
\* the snapshot, stays coherent: arrays in step with the rows, exact index.
THEOREM LayoutCorrect ==
  ASSUME "late_column" \notin Misuse, "column_in_tx" \notin Misuse
  PROVE  Spec => []LayoutCoherent
<1>1. Init => LayoutCoherent
  BY DEF Init, EmptyDb, LayoutCoherent, PagesCoherent, InTransaction
<1>2. TypeInv /\ LayoutCoherent /\ [Next]_vars => (TypeInv /\ LayoutCoherent)'
  BY TypeNext, LayoutNext
<1>. QED
  BY <1>1, <1>2, TypeInit, PTL DEF Spec

-----------------------------------------------------------------------------
(* Columns of one type have different places among the arrays of the type. *)

\* Of two columns of one type the later one has the higher local index.
LEMMA LocalIndexGrows ==
  ASSUME NEW sch \in Seq(Columns), NEW c \in DOMAIN sch, NEW d \in DOMAIN sch,
         sch[c].type = sch[d].type, c < d
  PROVE  LocalIndex(sch, c) < LocalIndex(sch, d)
<1>. DEFINE UpTo(n) == {i \in 1..n : sch[i].type = sch[d].type}
<1>1. c \in Nat /\ d \in Nat /\ d \in 1..d
  OBVIOUS
<1>2. IsFiniteSet(1..d) /\ UpTo(c) \subseteq UpTo(d) /\ UpTo(d) \subseteq 1..d
  <2>1. 1..c \subseteq 1..d
    BY <1>1
  <2>2. IsFiniteSet(1..d)
    BY <1>1, FS_Interval
  <2>. QED
    BY <2>1, <2>2
<1>3. IsFiniteSet(UpTo(d)) /\ UpTo(c) # UpTo(d)
  <2>1. d \in UpTo(d) /\ d \notin UpTo(c)
    BY <1>1
  <2>. HIDE DEF UpTo
  <2>. QED
    BY <1>2, <2>1, FS_Subset
<1>4. LocalIndex(sch, c) = Cardinality(UpTo(c)) /\ LocalIndex(sch, d) = Cardinality(UpTo(d))
  BY DEF LocalIndex
<1>. HIDE DEF UpTo
<1>. QED
  BY <1>2, <1>3, <1>4, FS_Subset, FS_CardinalityType

\* So no two columns share an array.
LEMMA LocalIndexInjective ==
  ASSUME NEW sch \in Seq(Columns), NEW c \in DOMAIN sch, NEW d \in DOMAIN sch,
         sch[c].type = sch[d].type, LocalIndex(sch, c) = LocalIndex(sch, d)
  PROVE  c = d
<1>1. c \in Int /\ d \in Int
  OBVIOUS
<1>2. LocalIndex(sch, c) \in Nat
  <2>. DEFINE C == {i \in 1..c : sch[i].type = sch[c].type}
  <2>1. IsFiniteSet(1..c) /\ C \subseteq 1..c
    BY <1>1, FS_Interval
  <2>2. Cardinality(C) \in Nat
    BY <2>1, FS_Subset, FS_CardinalityType
  <2>. QED
    BY <2>2 DEF LocalIndex
<1>. QED
  BY <1>1, <1>2, LocalIndexGrows

\* Every column of the schema has its array on every page that fits.
LEMMA LocalIndexFits ==
  ASSUME NEW sch \in Seq(Columns), NEW c \in DOMAIN sch,
         NEW page, IsPage(page, Keys, Values), FitsSchema(page, sch)
  PROVE  /\ sch[c].type \in ColumnTypes
         /\ LocalIndex(sch, c) \in DOMAIN page.cols[sch[c].type]
<1>. DEFINE t      == sch[c].type
            All    == {i \in DOMAIN sch : sch[i].type = t}
            UpToC  == {i \in 1..c : sch[i].type = t}
<1>1. t \in ColumnTypes /\ page.cols[t] \in Seq(Seq(Values))
  BY ClientAssumption DEF IsPage
<1>2. Len(page.cols[t]) = Cardinality(All) /\ LocalIndex(sch, c) = Cardinality(UpToC)
  BY <1>1 DEF FitsSchema, ColumnsOfType, LocalIndex
<1>3. /\ DOMAIN sch = 1..Len(sch) /\ Len(sch) \in Nat
      /\ c \in UpToC /\ UpToC \subseteq All /\ All \subseteq 1..Len(sch)
  OBVIOUS
<1>4. IsFiniteSet(All) /\ IsFiniteSet(UpToC)
  <2>1. IsFiniteSet(1..Len(sch))
    BY <1>3, FS_Interval
  <2>. HIDE DEF All, UpToC
  <2>2. IsFiniteSet(All)
    BY <1>3, <2>1, FS_Subset
  <2>. QED
    BY <1>3, <2>2, FS_Subset
<1>. HIDE DEF All, UpToC, t
<1>5. /\ Cardinality(UpToC) \in Nat /\ Cardinality(UpToC) <= Cardinality(All)
      /\ Cardinality(UpToC) # 0
  <2>1. Cardinality(UpToC) \in Nat
    BY <1>4, FS_CardinalityType
  <2>2. Cardinality(UpToC) <= Cardinality(All)
    BY <1>3, <1>4, FS_Subset
  <2>3. Cardinality(UpToC) # 0
    BY <1>3, <1>4, FS_EmptySet
  <2>. QED
    BY <2>1, <2>2, <2>3
<1>. QED
  BY <1>1, <1>2, <1>5 DEF t

-----------------------------------------------------------------------------
(* Replay.  What the recursive function in Replay computes: a sequence of  *)
(* states is a run of j when each state is the step of the one before, and *)
(* j runs to d when a run exists and every run ends in d.  Appending an    *)
(* entry extends both facts by one step.                                   *)

IsRun(run, j) ==
  run = [i \in 0..Len(j) |-> IF i = 0 THEN EmptyDb ELSE ReplayStep(run[i - 1], j[i])]

RunsTo(j, d) == /\ \E run : IsRun(run, j)
                /\ \A run : IsRun(run, j) => run[Len(j)] = d

\* The last state of a run is what replay computes.
LEMMA RunsToReplay ==
  ASSUME NEW j, NEW d, RunsTo(j, d)
  PROVE  Replay(j) = d
<1>. DEFINE run == CHOOSE run : IsRun(run, j)
<1>1. Replay(j) = run[Len(j)]
  BY DEF Replay, IsRun
<1>2. IsRun(run, j)
  BY DEF RunsTo
<1>. HIDE DEF run
<1>. QED
  BY <1>1, <1>2 DEF RunsTo

\* Replaying nothing gives the empty table.
LEMMA EmptyRun == RunsTo(<< >>, EmptyDb)
<1>1. IsRun([i \in 0..0 |-> EmptyDb], << >>)
  BY DEF IsRun
<1>2. \A run : IsRun(run, << >>) => run[0] = EmptyDb
  BY DEF IsRun
<1>. QED
  BY <1>1, <1>2 DEF RunsTo

\* One more entry makes the run one state longer.
LEMMA RunAppend ==
  ASSUME NEW S, NEW j \in Seq(S), NEW e \in S, NEW d, RunsTo(j, d)
  PROVE  RunsTo(Append(j, e), ReplayStep(d, e))
<1>. DEFINE n  == Len(j)
            j2 == Append(j, e)
<1>1. /\ n \in Nat /\ Len(j2) = n + 1 /\ j2[n + 1] = e
      /\ \A i \in 1..n : j2[i] = j[i]
  OBVIOUS
<1>. HIDE DEF n, j2
<1>2. \E run : IsRun(run, j2)
  <2>1. PICK run : IsRun(run, j)
    BY DEF RunsTo
  <2>. DEFINE step(i) == IF i = 0 THEN EmptyDb ELSE ReplayStep(run[i - 1], j2[i])
              run2    == [i \in 0..(n + 1) |-> step(i)]
  <2>2. \A i \in 0..n : run[i] = step(i)
    BY <1>1, <2>1 DEF IsRun, n
  <2>3. \A i \in 0..(n + 1) : i # 0 => i - 1 \in 0..n /\ i - 1 \in 0..(n + 1)
    BY <1>1
  <2>4. \A i \in 0..n : run2[i] = run[i]
    <3>. HIDE DEF step
    <3>. QED
      BY <1>1, <2>2
  <2>5. \A i \in 0..(n + 1) :
          run2[i] = IF i = 0 THEN EmptyDb ELSE ReplayStep(run2[i - 1], j2[i])
    BY <2>3, <2>4
  <2>6. IsRun(run2, j2)
    <3>. HIDE DEF step
    <3>1. run2 = [i \in 0..(n + 1) |-> run2[i]]
      OBVIOUS
    <3>. HIDE DEF run2
    <3>. QED
      BY <1>1, <2>5, <3>1 DEF IsRun
  <2>. QED
    BY <2>6
<1>3. ASSUME NEW run2, IsRun(run2, j2) PROVE run2[n + 1] = ReplayStep(d, e)
  <2>. DEFINE run == [i \in 0..n |-> run2[i]]
  <2>1. \A i \in 0..(n + 1) :
          run2[i] = IF i = 0 THEN EmptyDb ELSE ReplayStep(run2[i - 1], j2[i])
    BY <1>1, <1>3 DEF IsRun
  <2>2. \A i \in 0..n : i # 0 => i - 1 \in 0..n /\ i \in 1..n
    BY <1>1
  <2>3. \A i \in 0..n : i \in 0..(n + 1)
    BY <1>1
  <2>4. \A i \in 0..n : run[i] = IF i = 0 THEN EmptyDb ELSE ReplayStep(run[i - 1], j[i])
    BY <1>1, <2>1, <2>2, <2>3
  <2>5. IsRun(run, j)
    <3>1. run = [i \in 0..n |-> run[i]]
      OBVIOUS
    <3>. HIDE DEF run
    <3>. QED
      BY <2>4, <3>1 DEF IsRun, n
  <2>6. run[n] = d /\ run[n] = run2[n]
    BY <1>1, <2>5 DEF RunsTo, n
  <2>7. n + 1 \in 0..(n + 1) /\ n + 1 # 0 /\ (n + 1) - 1 = n
    BY <1>1
  <2>. QED
    BY <1>1, <2>1, <2>6, <2>7
<1>. QED
  BY <1>1, <1>2, <1>3 DEF RunsTo, j2

-----------------------------------------------------------------------------
(* Induction, for a set of numbers: a least number outside of it would have *)
(* a predecessor inside.  It makes a run of every journal.                 *)

\* Induction: a set that holds 0 and each successor holds every number.
LEMMA SetInduction ==
  ASSUME NEW T, 0 \in T, \A n \in Nat : n \in T => n + 1 \in T
  PROVE  Nat \subseteq T
<1>. SUFFICES ASSUME Nat \ T # {} PROVE FALSE
  OBVIOUS
<1>. DEFINE less == OpToRel(<, Nat)
<1>1. IsWellFoundedOn(less, Nat)
  BY NatLessThanWellFounded
<1>2. \A m, n \in Nat : m < n => <<m, n>> \in less
  BY DEF OpToRel
<1>. HIDE DEF less
<1>3. PICK n \in Nat \ T : \A m \in Nat \ T : ~(<<m, n>> \in less)
  BY <1>1, WFMin
<1>4. n # 0 /\ n - 1 \in Nat /\ n - 1 < n /\ n = (n - 1) + 1
  OBVIOUS
<1>5. n - 1 \in T
  BY <1>2, <1>3, <1>4
<1>. QED
  BY <1>3, <1>4, <1>5

\* Replay is defined on every journal, and takes one step per entry.
LEMMA ReplayRuns ==
  ASSUME NEW S, NEW j \in Seq(S)
  PROVE  RunsTo(j, Replay(j))
<1>. DEFINE T == {n \in Nat : n <= Len(j) => \E d : RunsTo(SubSeq(j, 1, n), d)}
<1>1. 0 \in T
  <2>1. SubSeq(j, 1, 0) = << >>
    OBVIOUS
  <2>. QED
    BY <2>1, EmptyRun
<1>2. ASSUME NEW n \in Nat, n \in T PROVE n + 1 \in T
  <2>. SUFFICES ASSUME n + 1 <= Len(j) PROVE \E d : RunsTo(SubSeq(j, 1, n + 1), d)
    OBVIOUS
  <2>1. /\ SubSeq(j, 1, n) \in Seq(S) /\ j[n + 1] \in S
        /\ SubSeq(j, 1, n + 1) = Append(SubSeq(j, 1, n), j[n + 1])
    OBVIOUS
  <2>2. PICK d : RunsTo(SubSeq(j, 1, n), d)
    BY <1>2
  <2>. QED
    BY <2>1, <2>2, RunAppend
<1>. HIDE DEF T
<1>3. Len(j) \in T
  BY <1>1, <1>2, SetInduction
<1>4. PICK d : RunsTo(j, d)
  <2>1. SubSeq(j, 1, Len(j)) = j /\ Len(j) \in Nat
    OBVIOUS
  <2>2. \E d : RunsTo(SubSeq(j, 1, Len(j)), d)
    BY <1>3, <2>1 DEF T
  <2>. QED
    BY <2>1, <2>2
<1>. QED
  BY <1>4, RunsToReplay

\* What replay makes of one more entry.
LEMMA ReplayAppend ==
  ASSUME NEW S, NEW j \in Seq(S), NEW e \in S
  PROVE  Replay(Append(j, e)) = ReplayStep(Replay(j), e)
BY ReplayRuns, RunAppend, RunsToReplay

\* And of an empty journal.
LEMMA ReplayEmpty == Replay(<< >>) = EmptyDb
BY EmptyRun, RunsToReplay

-----------------------------------------------------------------------------
(* The journal and the table.                                              *)

\* The inductive invariant: the journal replays to the table, and the part of it
\* that a rollback keeps to the table of that rollback.
ReplayInv ==
  /\ Replay(journal) = db
  /\ InTransaction => Replay(SubSeq(journal, 1, saved.journal_size)) =
                        [schema |-> schema, pages |-> saved.pages]

\* The invariant is the property, and the part of a rollback with it.
LEMMA ReplayInvSuffices == TypeInv /\ ReplayInv => ReplayFaithful /\ SnapshotReplays
<1>. SUFFICES ASSUME TypeInv, ReplayInv PROVE ReplayFaithful /\ SnapshotReplays
  OBVIOUS
<1>1. ReplayFaithful
  BY DEF ReplayInv, ReplayFaithful
<1>2. ASSUME InTransaction
      PROVE  Replay(Truncate(journal, saved.journal_size)) = [db EXCEPT !.pages = saved.pages]
  <2>1. Truncate(journal, saved.journal_size) = SubSeq(journal, 1, saved.journal_size)
    <3>1. journal \in Seq(Entries) /\ saved.journal_size \in 0..Len(journal) - 1
      BY <1>2 DEF TypeInv, TypeOK
    <3>2. saved.journal_size \in Nat /\ saved.journal_size <= Len(journal)
      BY <3>1
    <3>. QED
      BY <3>1, <3>2, TruncateSeq
  <2>2. [db EXCEPT !.pages = saved.pages] = [schema |-> schema, pages |-> saved.pages]
    BY DEF db
  <2>. QED
    BY <1>2, <2>1, <2>2 DEF ReplayInv
<1>. QED
  BY <1>1, <1>2 DEF SnapshotReplays

\* The prefix of a journal is not affected by what is appended to it.
LEMMA PrefixOfAppend ==
  ASSUME NEW S, NEW j \in Seq(S), NEW e \in S, NEW n \in 0..Len(j)
  PROVE  SubSeq(Append(j, e), 1, n) = SubSeq(j, 1, n)
OBVIOUS

\* Cutting off the entry that was just appended gives the journal back.
LEMMA WholeJournal ==
  ASSUME NEW S, NEW j \in Seq(S), NEW e \in S
  PROVE  SubSeq(Append(j, e), 1, Len(j)) = j
OBVIOUS

\* A database value is not the mark of a failed replay.
LEMMA NotThrown == ASSUME NEW s, NEW p PROVE [schema |-> s, pages |-> p] # Thrown
<1>1. "thrown" \in DOMAIN Thrown /\ "thrown" \notin DOMAIN [schema |-> s, pages |-> p]
  BY DEF Thrown
<1>. QED
  BY <1>1

\* Each mutation does to the table what replay does for its entry.
LEMMA StoreReplays ==
  ASSUME TypeInv, ReplayInv, NEW new, Store(new), NEW e \in Entries, Record(e),
         new = [schema |-> new.schema, pages |-> new.pages],
         new = ReplayStep(db, e), InTransaction => new.schema = schema
  PROVE  ReplayInv'
<1>1. journal \in Seq(Entries) /\ journal' = Append(journal, e) /\ saved' = saved
  BY DEF TypeInv, TypeOK, Record, Store
<1>2. db' = new
  BY DEF db, Store
<1>3. Replay(journal') = db'
  BY <1>1, <1>2, ReplayAppend DEF ReplayInv
<1>4. ASSUME InTransaction'
      PROVE  Replay(SubSeq(journal', 1, saved'.journal_size)) =
               [schema |-> schema', pages |-> saved'.pages]
  <2>1. InTransaction /\ schema' = schema
    BY <1>1, <1>4 DEF InTransaction, Store
  <2>2. saved.journal_size \in 0..Len(journal)
    BY <1>1, <2>1 DEF TypeInv, TypeOK
  <2>3. SubSeq(journal', 1, saved.journal_size) = SubSeq(journal, 1, saved.journal_size)
    BY <1>1, <2>2, PrefixOfAppend
  <2>. QED
    BY <1>1, <2>1, <2>3 DEF ReplayInv
<1>. QED
  BY <1>3, <1>4 DEF ReplayInv

\* Every call keeps the invariant.
LEMMA ReplayNext ==
  ASSUME "column_in_tx" \notin Misuse, TypeInv, ReplayInv, [Next]_vars
  PROVE  ReplayInv'
<1>1. /\ db = [schema |-> schema, pages |-> pages] /\ db # Thrown
      /\ schema \in Seq(Columns) /\ journal \in Seq(Entries)
  BY NotThrown DEF TypeInv, TypeOK, db
<1>2. ASSUME NEW col \in Columns, AddColumn(col) PROVE ReplayInv'
  <2>1. AddColumnEntry(col) \in Entries /\ col = [name |-> col.name, type |-> col.type]
    BY ClientAssumption DEF AddColumnEntry, Entries
  <2>2. AddColumnTo(db, col) = ReplayStep(db, AddColumnEntry(col))
    <3>1. ~Throws(db, AddColumnEntry(col)) /\ ~LeavesBounds(db, AddColumnEntry(col))
      BY <1>1, <1>2 DEF Throws, LeavesBounds, AddColumnEntry, AddColumn
    <3>2. Apply(db, AddColumnEntry(col)) = AddColumnTo(db, col)
      BY <2>1 DEF Apply, AddColumnEntry
    <3>. QED
      BY <1>1, <3>1, <3>2 DEF ReplayStep
  <2>3. AddColumnTo(db, col) = [schema |-> AddColumnTo(db, col).schema,
                                pages  |-> AddColumnTo(db, col).pages]
    BY DEF AddColumnTo
  <2>. QED
    BY <1>2, <2>1, <2>2, <2>3, StoreReplays DEF AddColumn
<1>3. ASSUME NEW k \in Keys, Insert(k) PROVE ReplayInv'
  <2>1. InsertEntry(k) \in Entries
    BY DEF InsertEntry, Entries
  <2>2. InsertInto(db, k) = ReplayStep(db, InsertEntry(k))
    BY <1>1 DEF ReplayStep, Throws, LeavesBounds, Apply, InsertEntry
  <2>3. InsertInto(db, k) = [schema |-> schema, pages |-> InsertInto(db, k).pages]
    BY <1>1, <1>3 DEF InsertInto, Insert
  <2>. QED
    BY <1>3, <2>1, <2>2, <2>3, StoreReplays DEF Insert
<1>4. ASSUME NEW k \in Keys, Erase(k) PROVE ReplayInv'
  <2>1. EraseEntry(k) \in Entries
    BY DEF EraseEntry, Entries
  <2>2. EraseFrom(db, k) = ReplayStep(db, EraseEntry(k))
    BY <1>1, <1>4 DEF ReplayStep, Throws, LeavesBounds, Apply, EraseEntry, Erase, RowDefined
  <2>3. EraseFrom(db, k) = [schema |-> schema, pages |-> EraseFrom(db, k).pages]
    BY <1>1 DEF EraseFrom
  <2>. QED
    BY <1>4, <2>1, <2>2, <2>3, StoreReplays DEF Erase
<1>5. ASSUME NEW k \in Keys, NEW c \in DOMAIN schema, NEW v \in Values, Set(k, c, v)
      PROVE  ReplayInv'
  <2>. DEFINE e == SetEntry(schema[c].type, k, c, v)
  <2>1. e \in Entries /\ e.key = k /\ e.column = c /\ e.value = v
        /\ e.op \in {"SetI", "SetF"} /\ SetsCell(e, schema[c].type)
    <3>1. c \in Nat
      BY <1>1
    <3>. QED
      BY <3>1 DEF SetEntry, Entries, SetsCell
  <2>. HIDE DEF e
  <2>2. ~Throws(db, e) /\ ~LeavesBounds(db, e)
    BY <1>1, <1>5, <2>1 DEF Throws, LeavesBounds, Set, RowDefined
  <2>3. Apply(db, e) = SetIn(db, k, c, v)
    BY <2>1 DEF Apply
  <2>4. SetIn(db, k, c, v) = ReplayStep(db, e)
    BY <1>1, <2>2, <2>3 DEF ReplayStep
  <2>5. SetIn(db, k, c, v) = [schema |-> schema, pages |-> SetIn(db, k, c, v).pages]
    BY <1>1 DEF SetIn
  <2>. QED
    BY <1>5, <2>1, <2>4, <2>5, StoreReplays DEF Set, e
<1>6. ASSUME Begin PROVE ReplayInv'
  <2>1. /\ journal' = Append(journal, BeginTx) /\ db' = db /\ BeginTx \in Entries
        /\ schema' = schema
        /\ saved' = [pages |-> pages, journal_size |-> Len(journal)]
    BY <1>6 DEF Begin, Record, db, BeginTx, Entries
  <2>2. ReplayStep(db, BeginTx) = db
    BY <1>1 DEF ReplayStep, Throws, LeavesBounds, Apply, BeginTx
  <2>3. Replay(journal') = db'
    BY <1>1, <2>1, <2>2, ReplayAppend DEF ReplayInv
  <2>4. SubSeq(journal', 1, saved'.journal_size) = journal
    BY <1>1, <2>1, WholeJournal
  <2>5. [schema |-> schema', pages |-> saved'.pages] = db
    BY <1>1, <2>1
  <2>. QED
    BY <2>3, <2>4, <2>5 DEF ReplayInv
<1>7. ASSUME Commit PROVE ReplayInv'
  <2>1. /\ journal' = Append(journal, CommitTx) /\ db' = db /\ CommitTx \in Entries
        /\ ~InTransaction'
    BY <1>7 DEF Commit, Record, db, CommitTx, Entries, InTransaction
  <2>2. ReplayStep(db, CommitTx) = db
    BY <1>1 DEF ReplayStep, Throws, LeavesBounds, Apply, CommitTx
  <2>. QED
    BY <1>1, <2>1, <2>2, ReplayAppend DEF ReplayInv
<1>8. ASSUME Rollback PROVE ReplayInv'
  <2>1. /\ journal' = SubSeq(journal, 1, saved.journal_size)
        /\ db' = [schema |-> schema, pages |-> saved.pages]
        /\ ~InTransaction'
    <3>1. saved.journal_size \in Nat /\ saved.journal_size <= Len(journal)
      BY <1>1, <1>8 DEF Rollback, TypeInv, TypeOK
    <3>. QED
      BY <1>1, <1>8, <3>1, TruncateSeq DEF Rollback, db, InTransaction
  <2>. QED
    BY <1>8, <2>1 DEF ReplayInv, Rollback
<1>9. ASSUME UNCHANGED vars PROVE ReplayInv'
  BY <1>9 DEF vars, ReplayInv, db, InTransaction
<1>. QED
  BY <1>2, <1>3, <1>4, <1>5, <1>6, <1>7, <1>8, <1>9 DEF Next, InsertExisting, EraseAbsent

\* The journal is the truth: at every moment, inside transactions and after
\* any number of rollbacks, replaying it from empty gives the table.
THEOREM ReplayCorrect ==
  ASSUME "column_in_tx" \notin Misuse
  PROVE  Spec => []ReplayFaithful
<1>1. Init => ReplayInv
  BY ReplayEmpty DEF Init, EmptyDb, ReplayInv, db, InTransaction
<1>2. TypeInv /\ ReplayInv /\ [Next]_vars => (TypeInv /\ ReplayInv)'
  BY TypeNext, ReplayNext
<1>. QED
  BY <1>1, <1>2, TypeInit, ReplayInvSuffices, PTL DEF Spec

\* And the part of it that a rollback would keep gives the table that this
\* rollback would restore.
THEOREM SnapshotCorrect ==
  ASSUME "column_in_tx" \notin Misuse
  PROVE  Spec => []SnapshotReplays
<1>1. Init => ReplayInv
  BY ReplayEmpty DEF Init, EmptyDb, ReplayInv, db, InTransaction
<1>2. TypeInv /\ ReplayInv /\ [Next]_vars => (TypeInv /\ ReplayInv)'
  BY TypeNext, ReplayNext
<1>. QED
  BY <1>1, <1>2, TypeInit, ReplayInvSuffices, PTL DEF Spec

-----------------------------------------------------------------------------
(* The audit query.  Its scan, like Replay, takes one step per entry.      *)

AuditStep(s, e, i) ==
  CASE e.op = "BeginTx"  -> [s EXCEPT !.start = i]
    [] e.op = "CommitTx" ->
         [start |-> 0, out |-> IF s.start = 0 THEN s.out ELSE Append(s.out, <<s.start, i>>)]
    [] OTHER -> s

NoAudit == [start |-> 0, out |-> << >>]

IsAudit(scan, j) ==
  scan = [i \in 0..Len(j) |-> IF i = 0 THEN NoAudit ELSE AuditStep(scan[i - 1], j[i], i)]

\* The state of the scan at the end of the journal.
Audit(j) == LET scan == CHOOSE scan : IsAudit(scan, j) IN scan[Len(j)]

AuditsTo(j, s) == /\ \E scan : IsAudit(scan, j)
                  /\ \A scan : IsAudit(scan, j) => scan[Len(j)] = s

\* The last state of a run of the scan is what the scan computes.
LEMMA AuditsToAudit == ASSUME NEW j, NEW s, AuditsTo(j, s) PROVE Audit(j) = s
BY DEF AuditsTo, Audit

\* transaction_ranges() is the output of that scan.
LEMMA RangesAreAudit == \A j : TransactionRanges(j) = Audit(j).out
BY DEF TransactionRanges, Audit, IsAudit, AuditStep, NoAudit

\* The scan of an empty journal.
LEMMA EmptyAudit == AuditsTo(<< >>, NoAudit)
<1>1. IsAudit([i \in 0..0 |-> NoAudit], << >>)
  BY DEF IsAudit
<1>2. \A scan : IsAudit(scan, << >>) => scan[0] = NoAudit
  BY DEF IsAudit
<1>. QED
  BY <1>1, <1>2 DEF AuditsTo

\* One more entry makes the run of the scan one state longer.
LEMMA AuditsAppend ==
  ASSUME NEW S, NEW j \in Seq(S), NEW e \in S, NEW s, AuditsTo(j, s)
  PROVE  AuditsTo(Append(j, e), AuditStep(s, e, Len(j) + 1))
<1>. DEFINE n  == Len(j)
            j2 == Append(j, e)
<1>1. /\ n \in Nat /\ Len(j2) = n + 1 /\ j2[n + 1] = e
      /\ \A i \in 1..n : j2[i] = j[i]
  OBVIOUS
<1>. HIDE DEF n, j2
<1>2. \A i \in 0..n : i # 0 => i - 1 \in 0..n /\ i \in 1..n /\ i \in 0..(n + 1)
  BY <1>1
<1>3. \A i \in 0..(n + 1) : i # 0 => i - 1 \in 0..n /\ i - 1 \in 0..(n + 1)
  BY <1>1
<1>4. \E scan : IsAudit(scan, j2)
  <2>1. PICK scan : IsAudit(scan, j)
    BY DEF AuditsTo
  <2>. DEFINE step(i) == IF i = 0 THEN NoAudit ELSE AuditStep(scan[i - 1], j2[i], i)
              scan2   == [i \in 0..(n + 1) |-> step(i)]
  <2>2. \A i \in 0..n : scan[i] = step(i)
    BY <1>1, <1>2, <2>1 DEF IsAudit, n
  <2>3. \A i \in 0..n : scan2[i] = scan[i]
    <3>. HIDE DEF step
    <3>. QED
      BY <1>1, <2>2
  <2>4. \A i \in 0..(n + 1) :
          scan2[i] = IF i = 0 THEN NoAudit ELSE AuditStep(scan2[i - 1], j2[i], i)
    BY <1>3, <2>3
  <2>5. IsAudit(scan2, j2)
    <3>. HIDE DEF step
    <3>1. scan2 = [i \in 0..(n + 1) |-> scan2[i]]
      OBVIOUS
    <3>. HIDE DEF scan2
    <3>. QED
      BY <1>1, <2>4, <3>1 DEF IsAudit
  <2>. QED
    BY <2>5
<1>5. ASSUME NEW scan2, IsAudit(scan2, j2) PROVE scan2[n + 1] = AuditStep(s, e, n + 1)
  <2>. DEFINE scan == [i \in 0..n |-> scan2[i]]
  <2>1. \A i \in 0..(n + 1) :
          scan2[i] = IF i = 0 THEN NoAudit ELSE AuditStep(scan2[i - 1], j2[i], i)
    BY <1>1, <1>5 DEF IsAudit
  <2>2. \A i \in 0..n : scan[i] = IF i = 0 THEN NoAudit ELSE AuditStep(scan[i - 1], j[i], i)
    <3>1. \A i \in 0..n : i \in 0..(n + 1)
      BY <1>1
    <3>. QED
      BY <1>1, <1>2, <2>1, <3>1
  <2>3. IsAudit(scan, j)
    <3>1. scan = [i \in 0..n |-> scan[i]]
      OBVIOUS
    <3>. HIDE DEF scan
    <3>. QED
      BY <2>2, <3>1 DEF IsAudit, n
  <2>4. scan[n] = s /\ scan[n] = scan2[n]
    BY <1>1, <2>3 DEF AuditsTo, n
  <2>5. n + 1 \in 0..(n + 1) /\ n + 1 # 0 /\ (n + 1) - 1 = n
    BY <1>1
  <2>. QED
    BY <1>1, <2>1, <2>4, <2>5
<1>. QED
  BY <1>1, <1>4, <1>5 DEF AuditsTo, j2, n

\* Every journal has its run of the scan.
LEMMA AuditRuns ==
  ASSUME NEW S, NEW j \in Seq(S)
  PROVE  AuditsTo(j, Audit(j))
<1>. DEFINE T == {n \in Nat : n <= Len(j) => \E s : AuditsTo(SubSeq(j, 1, n), s)}
<1>1. 0 \in T
  <2>1. SubSeq(j, 1, 0) = << >>
    OBVIOUS
  <2>. QED
    BY <2>1, EmptyAudit
<1>2. ASSUME NEW n \in Nat, n \in T PROVE n + 1 \in T
  <2>. SUFFICES ASSUME n + 1 <= Len(j) PROVE \E s : AuditsTo(SubSeq(j, 1, n + 1), s)
    OBVIOUS
  <2>1. /\ SubSeq(j, 1, n) \in Seq(S) /\ j[n + 1] \in S
        /\ SubSeq(j, 1, n + 1) = Append(SubSeq(j, 1, n), j[n + 1])
    OBVIOUS
  <2>2. PICK s : AuditsTo(SubSeq(j, 1, n), s)
    BY <1>2
  <2>. QED
    BY <2>1, <2>2, AuditsAppend
<1>. HIDE DEF T
<1>3. Len(j) \in T
  BY <1>1, <1>2, SetInduction
<1>4. PICK s : AuditsTo(j, s)
  <2>1. SubSeq(j, 1, Len(j)) = j /\ Len(j) \in Nat
    OBVIOUS
  <2>2. \E s : AuditsTo(SubSeq(j, 1, Len(j)), s)
    BY <1>3, <2>1 DEF T
  <2>. QED
    BY <2>1, <2>2
<1>. QED
  BY <1>4, AuditsToAudit

\* What the scan makes of one more entry.
LEMMA AuditAppend ==
  ASSUME NEW S, NEW j \in Seq(S), NEW e \in S
  PROVE  Audit(Append(j, e)) = AuditStep(Audit(j), e, Len(j) + 1)
BY AuditRuns, AuditsAppend, AuditsToAudit

\* And of an empty journal.
LEMMA AuditEmpty == Audit(<< >>) = NoAudit
BY EmptyAudit, AuditsToAudit

-----------------------------------------------------------------------------
(* The ranges and the markers of a journal.                                *)

Marker(j, i) == j[i].op \in {"BeginTx", "CommitTx"}

\* The ranges of `out' are transactions of j, in order and apart, and every
\* marker at a place outside of `open' belongs to one of them.
Exact(out, j, open) ==
  /\ out \in Seq(Nat \X Nat)
  /\ \A r \in DOMAIN out :
       /\ 1 <= out[r][1] /\ out[r][1] < out[r][2] /\ out[r][2] <= Len(j)
       /\ j[out[r][1]] = BeginTx /\ j[out[r][2]] = CommitTx
       /\ \A i \in (out[r][1] + 1)..(out[r][2] - 1) : ~Marker(j, i)
       /\ r > 1 => out[r - 1][2] < out[r][1]
  /\ \A i \in 1..Len(j) :
       Marker(j, i) /\ i \notin open => \E r \in DOMAIN out : i \in out[r][1]..out[r][2]

\* A journal that grows keeps its transactions.
LEMMA ExactGrows ==
  ASSUME NEW S, NEW j \in Seq(S), NEW e \in S, NEW out, NEW open, NEW open2, Exact(out, j, open),
         open \subseteq open2, e.op \in {"BeginTx", "CommitTx"} => Len(j) + 1 \in open2
  PROVE  Exact(out, Append(j, e), open2)
<1>. DEFINE j2 == Append(j, e)
<1>1. /\ Len(j) \in Nat /\ Len(j2) = Len(j) + 1 /\ j2[Len(j) + 1] = e
      /\ \A i \in 1..Len(j) : j2[i] = j[i]
  OBVIOUS
<1>. HIDE DEF j2
<1>2. \A r \in DOMAIN out : out[r][1] \in Nat /\ out[r][2] \in Nat
  BY DEF Exact
<1>3. ASSUME NEW r \in DOMAIN out
      PROVE  /\ 1 <= out[r][1] /\ out[r][1] < out[r][2] /\ out[r][2] <= Len(j2)
             /\ j2[out[r][1]] = BeginTx /\ j2[out[r][2]] = CommitTx
             /\ \A i \in (out[r][1] + 1)..(out[r][2] - 1) : ~Marker(j2, i)
             /\ r > 1 => out[r - 1][2] < out[r][1]
  <2>1. /\ 1 <= out[r][1] /\ out[r][1] < out[r][2] /\ out[r][2] <= Len(j)
        /\ j[out[r][1]] = BeginTx /\ j[out[r][2]] = CommitTx
        /\ \A i \in (out[r][1] + 1)..(out[r][2] - 1) : ~Marker(j, i)
        /\ r > 1 => out[r - 1][2] < out[r][1]
    BY DEF Exact
  <2>2. \A i \in out[r][1]..out[r][2] : i \in 1..Len(j)
    BY <1>1, <1>2, <2>1
  <2>3. out[r][1] \in out[r][1]..out[r][2] /\ out[r][2] \in out[r][1]..out[r][2]
    BY <1>2, <2>1
  <2>4. j2[out[r][1]] = BeginTx /\ j2[out[r][2]] = CommitTx
    BY <1>1, <2>1, <2>2, <2>3
  <2>5. ASSUME NEW i \in (out[r][1] + 1)..(out[r][2] - 1)
        PROVE  ~Marker(j2, i)
    <3>1. i \in out[r][1]..out[r][2]
      BY <1>2
    <3>. QED
      BY <1>1, <2>1, <2>2, <3>1 DEF Marker
  <2>6. out[r][2] <= Len(j2)
    BY <1>1, <1>2, <2>1
  <2>. QED
    BY <2>1, <2>4, <2>5, <2>6
<1>4. ASSUME NEW i \in 1..Len(j2), Marker(j2, i), i \notin open2
      PROVE  \E r \in DOMAIN out : i \in out[r][1]..out[r][2]
  <2>1. i \in 1..Len(j)
    BY <1>1, <1>4 DEF Marker
  <2>2. Marker(j, i) /\ i \notin open
    BY <1>1, <1>4, <2>1 DEF Marker
  <2>. QED
    BY <2>1, <2>2 DEF Exact
<1>. QED
  BY <1>3, <1>4 DEF Exact, j2

\* A journal that is cut behind all its transactions keeps them.
LEMMA ExactCut ==
  ASSUME NEW S, NEW j \in Seq(S), NEW n \in 0..Len(j), NEW out, NEW open, Exact(out, j, open),
         \A r \in DOMAIN out : out[r][2] <= n, \A i \in open : i > n
  PROVE  Exact(out, SubSeq(j, 1, n), {})
<1>. DEFINE j2 == SubSeq(j, 1, n)
<1>1. n \in Nat /\ n <= Len(j) /\ Len(j2) = n /\ \A i \in 1..n : j2[i] = j[i] /\ i \in 1..Len(j)
  OBVIOUS
<1>. HIDE DEF j2
<1>2. ASSUME NEW r \in DOMAIN out
      PROVE  /\ 1 <= out[r][1] /\ out[r][1] < out[r][2] /\ out[r][2] <= Len(j2)
             /\ j2[out[r][1]] = BeginTx /\ j2[out[r][2]] = CommitTx
             /\ \A i \in (out[r][1] + 1)..(out[r][2] - 1) : ~Marker(j2, i)
             /\ r > 1 => out[r - 1][2] < out[r][1]
  <2>1. /\ 1 <= out[r][1] /\ out[r][1] < out[r][2] /\ out[r][2] <= n
        /\ out[r][1] \in Nat /\ out[r][2] \in Nat
        /\ j[out[r][1]] = BeginTx /\ j[out[r][2]] = CommitTx
        /\ \A i \in (out[r][1] + 1)..(out[r][2] - 1) : ~Marker(j, i)
        /\ r > 1 => out[r - 1][2] < out[r][1]
    BY DEF Exact
  <2>. DEFINE a == out[r][1]
              b == out[r][2]
  <2>. HIDE DEF a, b
  <2>2. /\ a \in Nat /\ b \in Nat /\ 1 <= a /\ a < b /\ b <= n
        /\ j[a] = BeginTx /\ j[b] = CommitTx
        /\ \A i \in (a + 1)..(b - 1) : ~Marker(j, i)
    BY <2>1 DEF a, b
  <2>3. a \in 1..n /\ b \in 1..n /\ \A i \in (a + 1)..(b - 1) : i \in 1..n
    BY <1>1, <2>2
  <2>4. j2[a] = BeginTx /\ j2[b] = CommitTx
    BY <1>1, <2>2, <2>3
  <2>5. \A i \in (a + 1)..(b - 1) : ~Marker(j2, i)
    BY <1>1, <2>2, <2>3 DEF Marker
  <2>. QED
    BY <1>1, <2>1, <2>2, <2>4, <2>5 DEF a, b
<1>3. ASSUME NEW i \in 1..Len(j2), Marker(j2, i)
      PROVE  \E r \in DOMAIN out : i \in out[r][1]..out[r][2]
  <2>1. i \in 1..Len(j) /\ Marker(j, i) /\ i \notin open
    BY <1>1, <1>3 DEF Marker
  <2>. QED
    BY <2>1 DEF Exact
<1>. QED
  BY <1>2, <1>3 DEF Exact, j2

\* A commit closes the transaction that begins at b.
LEMMA ExactCloses ==
  ASSUME NEW S, NEW j \in Seq(S), CommitTx \in S, NEW b \in 1..Len(j), NEW out,
         Exact(out, j, {b}), j[b] = BeginTx, \A r \in DOMAIN out : out[r][2] < b,
         \A i \in (b + 1)..Len(j) : ~Marker(j, i)
  PROVE  Exact(Append(out, <<b, Len(j) + 1>>), Append(j, CommitTx), {})
<1>. DEFINE n    == Len(j)
            j2   == Append(j, CommitTx)
            last == <<b, n + 1>>
            out2 == Append(out, last)
            m    == Len(out)
<1>1. /\ n \in Nat /\ Len(j2) = n + 1 /\ j2[n + 1] = CommitTx
      /\ \A i \in 1..n : j2[i] = j[i]
  OBVIOUS
<1>2. b \in Nat /\ 1 <= b /\ b <= n /\ last \in Nat \X Nat /\ last[1] = b /\ last[2] = n + 1
  BY <1>1
<1>3. out \in Seq(Nat \X Nat) /\ m \in Nat
  BY DEF Exact
<1>4. /\ out2 \in Seq(Nat \X Nat) /\ DOMAIN out2 = 1..(m + 1) /\ out2[m + 1] = last
      /\ DOMAIN out = 1..m /\ \A r \in 1..m : out2[r] = out[r]
  BY <1>2, <1>3
<1>5. Exact(out, j2, {b, n + 1})
  BY <1>1, ExactGrows
<1>. HIDE DEF n, j2, last, out2, m
<1>6. ASSUME NEW r \in 1..m
      PROVE  /\ 1 <= out2[r][1] /\ out2[r][1] < out2[r][2] /\ out2[r][2] <= Len(j2)
             /\ j2[out2[r][1]] = BeginTx /\ j2[out2[r][2]] = CommitTx
             /\ \A i \in (out2[r][1] + 1)..(out2[r][2] - 1) : ~Marker(j2, i)
             /\ r > 1 => out2[r - 1][2] < out2[r][1]
  <2>1. r > 1 => r - 1 \in 1..m
    BY <1>3
  <2>. QED
    BY ZenonT(30), <1>4, <1>5, <2>1 DEF Exact
<1>7. /\ 1 <= last[1] /\ last[1] < last[2] /\ last[2] <= Len(j2)
      /\ j2[last[1]] = BeginTx /\ j2[last[2]] = CommitTx
      /\ \A i \in (last[1] + 1)..(last[2] - 1) : ~Marker(j2, i)
  BY <1>1, <1>2 DEF Marker, n
<1>8. m + 1 > 1 => out2[(m + 1) - 1][2] < last[1]
  <2>. HAVE m + 1 > 1
  <2>1. m \in 1..m /\ (m + 1) - 1 = m
    BY <1>3
  <2>. QED
    BY <1>2, <1>4, <2>1
<1>9. \A r \in DOMAIN out2 : r \in 1..m \/ r = m + 1
  BY <1>3, <1>4
<1>10. ASSUME NEW i \in 1..Len(j2), Marker(j2, i)
       PROVE  \E r \in DOMAIN out2 : i \in out2[r][1]..out2[r][2]
  <2>1. CASE i \in {b, n + 1}
    <3>1. i \in last[1]..last[2] /\ m + 1 \in DOMAIN out2
      BY <1>1, <1>2, <1>3, <1>4, <2>1
    <3>. QED
      BY <1>4, <3>1
  <2>2. CASE i \notin {b, n + 1}
    <3>1. PICK r \in DOMAIN out : i \in out[r][1]..out[r][2]
      BY <1>5, <1>10, <2>2 DEF Exact
    <3>2. r \in DOMAIN out2 /\ out2[r] = out[r]
      BY <1>3, <1>4
    <3>. QED
      BY <3>1, <3>2
  <2>. QED
    BY <2>1, <2>2
<1>11. Exact(out2, j2, {})
  BY <1>4, <1>6, <1>7, <1>8, <1>9, <1>10 DEF Exact
<1>. QED
  BY <1>11 DEF out2, j2, last, n

-----------------------------------------------------------------------------
(* The journal and its transactions.                                       *)

\* No transaction is open in j: its audit has no start to remember.
Closed(j) == /\ Audit(j) = [start |-> 0, out |-> Audit(j).out]
             /\ Exact(Audit(j).out, j, {})

\* The transaction that begins at b is open in j: no marker and no range is
\* behind b, and the part of the journal before b has the same ranges.
Opened(j, b) ==
  /\ b \in 1..Len(j) /\ j[b] = BeginTx
  /\ \A i \in (b + 1)..Len(j) : ~Marker(j, i)
  /\ Audit(j) = [start |-> b, out |-> Audit(j).out]
  /\ Exact(Audit(j).out, j, {b})
  /\ \A r \in DOMAIN Audit(j).out : Audit(j).out[r][2] < b
  /\ Audit(SubSeq(j, 1, b - 1)) = [start |-> 0, out |-> Audit(j).out]

\* The inductive invariant: RangesExact alone does not say that the audit of the
\* part of the journal that a rollback keeps is the audit of the whole.
AuditInv == IF InTransaction THEN Opened(journal, saved.journal_size + 1)
                             ELSE Closed(journal)

\* A mutation outside of a transaction leaves no mark in the audit.
LEMMA ClosedGrows ==
  ASSUME NEW S, NEW j \in Seq(S), NEW e \in S, Closed(j), e.op \notin {"BeginTx", "CommitTx"}
  PROVE  Closed(Append(j, e)) /\ Audit(Append(j, e)) = Audit(j)
<1>1. Audit(Append(j, e)) = Audit(j)
  BY AuditAppend DEF AuditStep
<1>2. Exact(Audit(j).out, Append(j, e), {})
  BY ExactGrows DEF Closed
<1>. QED
  BY <1>1, <1>2 DEF Closed

\* Nor does one inside of it.
LEMMA OpenedGrows ==
  ASSUME NEW S, NEW j \in Seq(S), NEW e \in S, NEW b, Opened(j, b),
         e.op \notin {"BeginTx", "CommitTx"}
  PROVE  Opened(Append(j, e), b) /\ Audit(Append(j, e)) = Audit(j)
<1>. DEFINE j2 == Append(j, e)
<1>1. Audit(j2) = Audit(j)
  BY AuditAppend DEF AuditStep
<1>2. Exact(Audit(j).out, j2, {b})
  BY ExactGrows DEF Opened
<1>3. /\ Len(j) \in Nat /\ Len(j2) = Len(j) + 1 /\ j2[Len(j) + 1] = e
      /\ \A i \in 1..Len(j) : j2[i] = j[i]
  OBVIOUS
<1>4. b \in 1..Len(j) /\ b - 1 \in 0..Len(j) /\ b \in 1..Len(j2)
  BY <1>3 DEF Opened
<1>5. SubSeq(j2, 1, b - 1) = SubSeq(j, 1, b - 1)
  BY <1>4, PrefixOfAppend
<1>. HIDE DEF j2
<1>6. ASSUME NEW i \in (b + 1)..Len(j2) PROVE ~Marker(j2, i)
  <2>1. i = Len(j) + 1 \/ (i \in (b + 1)..Len(j) /\ i \in 1..Len(j))
    BY <1>3, <1>4
  <2>. QED
    BY <1>3, <2>1 DEF Marker, Opened
<1>7. j2[b] = BeginTx
  BY <1>3, <1>4 DEF Opened
<1>8. Opened(j2, b)
  BY <1>1, <1>2, <1>4, <1>5, <1>6, <1>7 DEF Opened
<1>. QED
  BY <1>1, <1>8 DEF j2

\* A begin opens a transaction at the place of its marker.
LEMMA Opens ==
  ASSUME NEW S, NEW j \in Seq(S), BeginTx \in S, Closed(j)
  PROVE  /\ Opened(Append(j, BeginTx), Len(j) + 1)
         /\ Audit(Append(j, BeginTx)).out = Audit(j).out
<1>. DEFINE j2  == Append(j, BeginTx)
            b   == Len(j) + 1
            out == Audit(j).out
<1>1. Audit(j) = [start |-> 0, out |-> out] /\ Exact(out, j, {})
  BY DEF Closed
<1>2. Audit(j2) = [start |-> b, out |-> out]
  <2>1. Audit(j2) = [Audit(j) EXCEPT !.start = b]
    BY AuditAppend DEF AuditStep, BeginTx
  <2>. QED
    BY <1>1, <2>1
<1>3. Exact(out, j2, {b})
  BY <1>1, ExactGrows
<1>4. Len(j) \in Nat /\ Len(j2) = b /\ j2[b] = BeginTx
  OBVIOUS
<1>5. SubSeq(j2, 1, b - 1) = j
  <2>1. b - 1 = Len(j)
    BY <1>4
  <2>. QED
    BY <2>1, WholeJournal
<1>6. \A r \in DOMAIN out : out[r][2] < b
  BY <1>1, <1>4 DEF Exact
<1>. HIDE DEF j2, b, out
<1>7. b \in 1..Len(j2) /\ \A i \in (b + 1)..Len(j2) : FALSE
  BY <1>4 DEF b
<1>8. Audit(j2).out = out
  BY <1>2
<1>9. Opened(j2, b)
  BY <1>1, <1>2, <1>3, <1>4, <1>5, <1>6, <1>7, <1>8 DEF Opened
<1>. QED
  BY <1>8, <1>9 DEF j2, b, out

\* A commit closes it and adds its range.
LEMMA Closes ==
  ASSUME NEW S, NEW j \in Seq(S), CommitTx \in S, NEW b, Opened(j, b)
  PROVE  /\ Closed(Append(j, CommitTx))
         /\ Audit(Append(j, CommitTx)).out = Append(Audit(j).out, <<b, Len(j) + 1>>)
<1>. DEFINE j2   == Append(j, CommitTx)
            out  == Audit(j).out
            out2 == Append(out, <<b, Len(j) + 1>>)
<1>1. Audit(j) = [start |-> b, out |-> out] /\ b # 0
  BY DEF Opened
<1>2. Audit(j2) = [start |-> 0, out |-> out2]
  <2>1. Audit(j2) = AuditStep(Audit(j), CommitTx, Len(j) + 1)
    BY AuditAppend
  <2>2. CommitTx.op = "CommitTx"
    BY DEF CommitTx
  <2>3. AuditStep([start |-> b, out |-> out], CommitTx, Len(j) + 1) = [start |-> 0, out |-> out2]
    BY <1>1, <2>2 DEF AuditStep
  <2>. QED
    BY <1>1, <2>1, <2>3
<1>3. Exact(out2, j2, {})
  BY ExactCloses DEF Opened
<1>. HIDE DEF j2, out, out2
<1>4. Audit(j2).out = out2
  BY <1>2
<1>5. Closed(j2)
  BY <1>2, <1>3, <1>4 DEF Closed
<1>. QED
  BY <1>4, <1>5 DEF j2, out, out2

\* A rollback cuts it away and leaves the ranges alone.
LEMMA CutsBack ==
  ASSUME NEW S, NEW j \in Seq(S), NEW n \in Nat, Opened(j, n + 1)
  PROVE  /\ Closed(SubSeq(j, 1, n))
         /\ Audit(SubSeq(j, 1, n)).out = Audit(j).out
<1>. DEFINE j2  == SubSeq(j, 1, n)
            out == Audit(j).out
<1>1. (n + 1) - 1 = n /\ n \in 0..Len(j)
  BY DEF Opened
<1>2. Audit(j2) = [start |-> 0, out |-> out]
  BY <1>1 DEF Opened
<1>3. Exact(out, j, {n + 1}) /\ \A r \in DOMAIN out : out[r][2] <= n
  BY DEF Opened, Exact
<1>4. Exact(out, j2, {})
  BY <1>1, <1>3, ExactCut
<1>. HIDE DEF j2, out
<1>5. Audit(j2).out = out
  BY <1>2
<1>6. Closed(j2)
  BY <1>2, <1>4, <1>5 DEF Closed
<1>. QED
  BY <1>5, <1>6 DEF j2, out

\* What a step may do to transaction_ranges(): only a commit adds to it.
AuditGrows ==
  TransactionRanges(journal') # TransactionRanges(journal) =>
    /\ InTransaction /\ saved' = NoSnapshot
    /\ TransactionRanges(journal') =
         Append(TransactionRanges(journal), <<saved.journal_size + 1, Len(journal')>>)

\* An entry that is no marker.
LEMMA QuietEntry ==
  ASSUME TypeInv, AuditInv, NEW e \in Entries, Record(e), saved' = saved,
         e.op \notin {"BeginTx", "CommitTx"}
  PROVE  AuditInv' /\ AuditGrows
<1>1. journal \in Seq(Entries) /\ journal' = Append(journal, e) /\ InTransaction' = InTransaction
  BY DEF TypeInv, TypeOK, Record, InTransaction
<1>2. AuditInv' /\ Audit(journal') = Audit(journal)
  BY <1>1, OpenedGrows, ClosedGrows DEF AuditInv
<1>3. TransactionRanges(journal') = TransactionRanges(journal)
  BY <1>2, RangesAreAudit
<1>. QED
  BY <1>2, <1>3 DEF AuditGrows

\* Every call keeps the audit exact, and only a commit adds to it.
LEMMA AuditNext ==
  ASSUME TypeInv, AuditInv, [Next]_vars
  PROVE  AuditInv' /\ AuditGrows
<1>1. journal \in Seq(Entries) /\ schema \in Seq(Columns)
  BY DEF TypeInv, TypeOK
<1>2. ASSUME NEW col \in Columns, AddColumn(col) PROVE AuditInv' /\ AuditGrows
  <2>1. AddColumnEntry(col) \in Entries /\ AddColumnEntry(col).op = "AddColumn"
    BY ClientAssumption DEF AddColumnEntry, Entries
  <2>. QED
    BY <1>2, <2>1, QuietEntry DEF AddColumn, Store
<1>3. ASSUME NEW k \in Keys, Insert(k) PROVE AuditInv' /\ AuditGrows
  <2>1. InsertEntry(k) \in Entries /\ InsertEntry(k).op = "Insert"
    BY DEF InsertEntry, Entries
  <2>. QED
    BY <1>3, <2>1, QuietEntry DEF Insert, Store
<1>4. ASSUME NEW k \in Keys, Erase(k) PROVE AuditInv' /\ AuditGrows
  <2>1. EraseEntry(k) \in Entries /\ EraseEntry(k).op = "Erase"
    BY DEF EraseEntry, Entries
  <2>. QED
    BY <1>4, <2>1, QuietEntry DEF Erase, Store
<1>5. ASSUME NEW k \in Keys, NEW c \in DOMAIN schema, NEW v \in Values, Set(k, c, v)
      PROVE  AuditInv' /\ AuditGrows
  <2>. DEFINE e == SetEntry(schema[c].type, k, c, v)
  <2>1. e \in Entries /\ e.op \in {"SetI", "SetF"}
    <3>1. c \in Nat
      BY <1>1
    <3>. QED
      BY <3>1 DEF SetEntry, Entries
  <2>2. Record(e) /\ saved' = saved
    BY <1>5 DEF Set, Store
  <2>. HIDE DEF e
  <2>. QED
    BY <2>1, <2>2, QuietEntry
<1>6. ASSUME Begin PROVE AuditInv' /\ AuditGrows
  <2>1. /\ journal' = Append(journal, BeginTx) /\ BeginTx \in Entries /\ ~InTransaction
        /\ saved' = [pages |-> pages, journal_size |-> Len(journal)]
    BY <1>6 DEF Begin, Record, BeginTx, Entries
  <2>2. InTransaction' /\ saved'.journal_size = Len(journal)
    <3>1. "snapshot" \in DOMAIN NoSnapshot /\ "snapshot" \notin DOMAIN saved'
      BY <2>1 DEF NoSnapshot
    <3>. QED
      BY <2>1, <3>1 DEF InTransaction
  <2>3. Opened(journal', Len(journal) + 1) /\ Audit(journal').out = Audit(journal).out
    BY <1>1, <2>1, Opens DEF AuditInv
  <2>. QED
    BY <2>2, <2>3, RangesAreAudit DEF AuditInv, AuditGrows
<1>7. ASSUME Commit PROVE AuditInv' /\ AuditGrows
  <2>1. /\ journal' = Append(journal, CommitTx) /\ CommitTx \in Entries /\ InTransaction
        /\ saved' = NoSnapshot /\ ~InTransaction'
    BY <1>7 DEF Commit, Record, CommitTx, Entries, InTransaction
  <2>2. Len(journal') = Len(journal) + 1
    BY <1>1, <2>1
  <2>3. /\ Closed(journal')
        /\ Audit(journal').out =
             Append(Audit(journal).out, <<saved.journal_size + 1, Len(journal) + 1>>)
    BY <1>1, <2>1, Closes DEF AuditInv
  <2>. QED
    BY <2>1, <2>2, <2>3, RangesAreAudit DEF AuditInv, AuditGrows
<1>8. ASSUME Rollback PROVE AuditInv' /\ AuditGrows
  <2>1. saved.journal_size \in Nat /\ saved.journal_size <= Len(journal) /\ InTransaction
    BY <1>1, <1>8 DEF Rollback, TypeInv, TypeOK
  <2>2. journal' = SubSeq(journal, 1, saved.journal_size) /\ ~InTransaction'
    BY <1>1, <1>8, <2>1, TruncateSeq DEF Rollback, InTransaction
  <2>3. Closed(journal') /\ Audit(journal').out = Audit(journal).out
    BY <1>1, <2>1, <2>2, CutsBack DEF AuditInv
  <2>. QED
    BY <2>2, <2>3, RangesAreAudit DEF AuditInv, AuditGrows
<1>9. ASSUME UNCHANGED vars PROVE AuditInv' /\ AuditGrows
  BY <1>9 DEF vars, AuditInv, AuditGrows, InTransaction
<1>. QED
  BY <1>2, <1>3, <1>4, <1>5, <1>6, <1>7, <1>8, <1>9
  DEF Next, InsertExisting, EraseAbsent

\* An empty journal has no ranges.
LEMMA AuditInit == Init => AuditInv
<1>1. Audit(<< >>) = NoAudit /\ << >> \in Seq(Nat \X Nat) /\ Len(<< >>) = 0
  BY AuditEmpty
<1>2. Audit(<< >>).out = << >>
  BY <1>1 DEF NoAudit
<1>3. Exact(<< >>, << >>, {})
  BY <1>1 DEF Exact
<1>4. Closed(<< >>)
  BY <1>1, <1>2, <1>3 DEF Closed, NoAudit
<1>. QED
  BY <1>4 DEF Init, AuditInv, InTransaction

\* The ranges of an exact audit are what RangesExact says of them.
LEMMA ExactRanges ==
  ASSUME TypeInv, AuditInv
  PROVE  RangesExact
<1>. DEFINE out  == Audit(journal).out
            open == IF InTransaction THEN {saved.journal_size + 1} ELSE {}
            Covered == UNION {out[r][1]..out[r][2] : r \in DOMAIN out}
<1>1. TransactionRanges(journal) = out
  BY RangesAreAudit
<1>2. Exact(out, journal, open)
  BY DEF AuditInv, Opened, Closed
<1>3. journal \in Seq(Entries) /\ DOMAIN journal = 1..Len(journal) /\ Len(journal) \in Nat
  BY DEF TypeInv, TypeOK
<1>4. \A i : i \in open => i \in DOMAIN journal /\ Marker(journal, i) /\ i \notin Covered
  <2>. SUFFICES ASSUME InTransaction
                PROVE  LET b == saved.journal_size + 1
                       IN  b \in DOMAIN journal /\ Marker(journal, b) /\ b \notin Covered
    OBVIOUS
  <2>. DEFINE b == saved.journal_size + 1
  <2>1. Opened(journal, b)
    BY DEF AuditInv
  <2>2. b \in 1..Len(journal) /\ Marker(journal, b)
    BY <2>1 DEF Opened, Marker, BeginTx
  <2>3. ASSUME NEW r \in DOMAIN out PROVE b \notin out[r][1]..out[r][2]
    <3>1. out[r][2] < b /\ out[r][2] \in Nat /\ out[r][1] \in Nat /\ b \in Nat
      BY <1>2, <2>1, <2>2 DEF Opened, Exact
    <3>. QED
      BY <3>1
  <2>. HIDE DEF b, out
  <2>. QED
    BY <1>3, <2>2, <2>3 DEF b
<1>5. ASSUME NEW i \in DOMAIN journal, Marker(journal, i), i \notin Covered PROVE i \in open
  <2>. HIDE DEF out, open
  <2>. QED
    BY <1>2, <1>3, <1>5 DEF Exact
<1>6. {i \in DOMAIN journal : Marker(journal, i)} \ Covered = open
  <2>. HIDE DEF Covered, open
  <2>. QED
    BY <1>4, <1>5
<1>. HIDE DEF out, open
<1>. QED
  BY SMTT(30), <1>1, <1>2, <1>6 DEF RangesExact, Marker, Exact, open

\* The audit query is exact in every reachable state: transaction_ranges() lists
\* the committed transactions, in order and apart, and no marker is left over but
\* the begin of the open transaction (journal.hpp:79-101).
THEOREM RangesCorrect == Spec => []RangesExact
<1>1. TypeInv /\ AuditInv /\ [Next]_vars => (TypeInv /\ AuditInv)'
  BY TypeNext, AuditNext
<1>2. TypeInv /\ AuditInv => RangesExact
  BY ExactRanges
<1>. QED
  BY <1>1, <1>2, TypeInit, AuditInit, PTL DEF Spec

\* Audit history is append-only: of all steps only a commit changes the ranges,
\* and it adds the one of the transaction it closes; no rollback takes one away.
THEOREM AuditCorrect == Spec => AuditGrowsByCommit
<1>1. TypeInv /\ AuditInv /\ [Next]_vars => (TypeInv /\ AuditInv)'
  BY TypeNext, AuditNext
<1>2. TypeInv /\ AuditInv /\ [Next]_vars => [AuditGrows]_vars
  BY AuditNext
<1>. QED
  BY <1>1, <1>2, TypeInit, AuditInit, PTL DEF Spec, AuditGrowsByCommit, AuditGrows

-----------------------------------------------------------------------------
(* The table is finite, whatever the sets of its keys and values are.      *)

PagesFinite == /\ IsFiniteSet(DOMAIN pages)
               /\ InTransaction => IsFiniteSet(DOMAIN saved.pages)

\* A call adds at most one page.
LEMMA FiniteNext == PagesFinite /\ [Next]_vars => PagesFinite'
<1>. SUFFICES ASSUME PagesFinite, [Next]_vars PROVE PagesFinite'
  OBVIOUS
<1>1. ASSUME saved' = saved, NEW p, DOMAIN pages' \subseteq DOMAIN pages \cup {p} PROVE PagesFinite'
  <2>1. IsFiniteSet(DOMAIN pages \cup {p})
    BY FS_AddElement DEF PagesFinite
  <2>2. DOMAIN pages' \in SUBSET (DOMAIN pages \cup {p})
    BY <1>1
  <2>3. IsFiniteSet(DOMAIN pages')
    BY <2>1, <2>2, FS_Subset
  <2>. QED
    BY <1>1, <2>3 DEF PagesFinite, InTransaction
<1>2. ASSUME NEW col \in Columns, AddColumn(col) PROVE PagesFinite'
  <2>1. saved' = saved /\ DOMAIN pages' = DOMAIN pages
    BY <1>2 DEF AddColumn, Store, AddColumnTo, db
  <2>. QED
    BY <1>1, <2>1
<1>3. ASSUME NEW k \in Keys, Insert(k) PROVE PagesFinite'
  <2>1. saved' = saved /\ DOMAIN pages' = DOMAIN pages \cup {PageOf(k)}
    BY <1>3 DEF Insert, Store, InsertInto, Put, db
  <2>. QED
    BY <1>1, <2>1
<1>4. ASSUME NEW k \in Keys, Erase(k) PROVE PagesFinite'
  <2>1. saved' = saved /\ DOMAIN pages' \subseteq DOMAIN pages \cup {PageOf(k)}
    BY <1>4 DEF Erase, Store, EraseFrom, Put, Without, db
  <2>. QED
    BY <1>1, <2>1
<1>5. ASSUME NEW k \in Keys, NEW c \in DOMAIN schema, NEW v \in Values, Set(k, c, v)
      PROVE  PagesFinite'
  <2>1. saved' = saved /\ DOMAIN pages' = DOMAIN pages \cup {PageOf(k)}
    BY <1>5 DEF Set, Store, SetIn, Put, db
  <2>. QED
    BY <1>1, <2>1
<1>6. ASSUME Begin \/ Commit \/ Rollback PROVE PagesFinite'
  BY <1>6 DEF Begin, Commit, Rollback, PagesFinite, InTransaction, NoSnapshot
<1>7. ASSUME UNCHANGED vars PROVE PagesFinite'
  BY <1>7 DEF vars, PagesFinite, InTransaction
<1>. QED
  BY <1>2, <1>3, <1>4, <1>5, <1>6, <1>7 DEF Next, InsertExisting, EraseAbsent

\* The empty table has no page.
LEMMA FiniteInit == Init => PagesFinite
BY FS_EmptySet DEF Init, EmptyDb, PagesFinite, InTransaction

\* The table has finitely many pages at every moment, and so has the snapshot.
THEOREM FiniteCorrect == Spec => []PagesFinite
BY FiniteInit, FiniteNext, PTL DEF Spec

\* A page has as many keys in its index as rows.
LEMMA FiniteRows ==
  ASSUME NEW page, IsPage(page, Keys, Values), IndexExact(page)
  PROVE  IsFiniteSet(DOMAIN page.row_map)
<1>. DEFINE K == DOMAIN page.row_map
            R == 1..Len(page.row_keys)
<1>1. Len(page.row_keys) \in Nat /\ DOMAIN page.row_keys = R
  BY DEF IsPage
<1>2. IsFiniteSet(R)
  BY <1>1, FS_Interval
<1>3. page.row_map \in [K -> R] /\ \A j, k \in K : page.row_map[j] = page.row_map[k] => j = k
  BY <1>1 DEF IsPage, IndexExact
<1>. HIDE DEF R
<1>4. page.row_map \in Injection(K, R)
  BY <1>3 DEF Injection, IsInjective
<1>. QED
  BY <1>2, <1>4, FS_Injection

-----------------------------------------------------------------------------
(* Scans: a scan is the rows of the keys of one list, page after page; the *)
(* induction is over the number of pages that FlattenSeq has joined.       *)

\* What a scan of column c hands to its callback for key k.
RowFor(k, c) == <<k, Cell(pages, k, c)>>
RowsFor(keys, c) == [n \in DOMAIN keys |-> RowFor(keys[n], c)]

\* keys lists the set T, in the order of the scan.
Lists(keys, T) ==
  /\ keys \in Seq(T)
  /\ \A k \in T : \E n \in DOMAIN keys : keys[n] = k
  /\ \A m, n \in DOMAIN keys : m < n => Precedes(keys[m], keys[n])

\* rows is what a scan of column c over the keys T has to be.
Yields(rows, T, c) == \E keys : Lists(keys, T) /\ rows = RowsFor(keys, c)

\* A sequence is the function of its entries.
LEMMA SeqEntries == ASSUME NEW S, NEW s \in Seq(S) PROVE s = [i \in 1..Len(s) |-> s[i]]
OBVIOUS

\* The entries of two sequences that are joined.
LEMMA JoinSeq ==
  ASSUME NEW S, NEW a \in Seq(S), NEW b \in Seq(S)
  PROVE  /\ Len(a) \in Nat /\ Len(b) \in Nat /\ DOMAIN a = 1..Len(a) /\ DOMAIN b = 1..Len(b)
         /\ a \o b \in Seq(S) /\ DOMAIN (a \o b) = 1..(Len(a) + Len(b))
         /\ a \o b = [i \in 1..(Len(a) + Len(b)) |-> (a \o b)[i]]
         /\ \A i \in 1..(Len(a) + Len(b)) :
              (a \o b)[i] = IF i <= Len(a) THEN a[i] ELSE b[i - Len(a)]
<1>1. Len(a \o b) = Len(a) + Len(b) /\ a \o b \in Seq(S) /\ Len(a) \in Nat /\ Len(b) \in Nat
  OBVIOUS
<1>2. \A i \in 1..(Len(a) + Len(b)) : (a \o b)[i] = IF i <= Len(a) THEN a[i] ELSE b[i - Len(a)]
  OBVIOUS
<1>3. a \o b = [i \in 1..Len(a \o b) |-> (a \o b)[i]]
  BY <1>1, SeqEntries
<1>. QED
  BY <1>1, <1>2, <1>3

\* A sequence of a larger set.
LEMMA WidenSeq == ASSUME NEW A, NEW a \in Seq(A), NEW B PROVE a \in Seq(A \cup B) /\ a \in Seq(B \cup A)
<1>1. Len(a) \in Nat /\ a \in [1..Len(a) -> A]
  OBVIOUS
<1>2. a \in [1..Len(a) -> A \cup B] /\ a \in [1..Len(a) -> B \cup A]
  BY <1>1
<1>. QED
  BY <1>1, <1>2, FunctionIsSeq

\* A list of keys that all come before those of another list, joined with it.
LEMMA ListsJoin ==
  ASSUME NEW A, NEW B, NEW a, NEW b, Lists(a, A), Lists(b, B),
         \A x \in A, y \in B : Precedes(x, y)
  PROVE  Lists(a \o b, A \cup B)
<1>. DEFINE s == a \o b
            m == Len(a)
            l == Len(b)
<1>1. /\ m \in Nat /\ l \in Nat /\ DOMAIN a = 1..m /\ DOMAIN b = 1..l
      /\ a \in Seq(A \cup B) /\ b \in Seq(A \cup B)
  <2>1. a \in Seq(A) /\ b \in Seq(B)
    BY DEF Lists
  <2>. QED
    BY <2>1, WidenSeq
<1>2. /\ s \in Seq(A \cup B) /\ DOMAIN s = 1..(m + l)
      /\ \A i \in 1..m : s[i] = a[i]
      /\ \A i \in 1..l : s[m + i] = b[i]
  <2>1. s \in Seq(A \cup B) /\ DOMAIN s = 1..(m + l)
        /\ \A i \in 1..(m + l) : s[i] = IF i <= m THEN a[i] ELSE b[i - m]
    BY <1>1, JoinSeq
  <2>. HIDE DEF s, m, l
  <2>2. \A i \in 1..m : i \in 1..(m + l) /\ i <= m
    BY <1>1
  <2>3. \A i \in 1..l : m + i \in 1..(m + l) /\ ~(m + i <= m) /\ (m + i) - m = i
    BY <1>1
  <2>. QED
    BY <2>1, <2>2, <2>3
<1>. HIDE DEF s, m, l
<1>0. (\A i \in 1..m : a[i] \in A) /\ \A i \in 1..l : b[i] \in B
  BY <1>1 DEF Lists
<1>3. \A i \in 1..m : i \in 1..(m + l) /\ s[i] = a[i] /\ s[i] \in A
  BY <1>0, <1>1, <1>2
<1>4. \A i \in 1..l : m + i \in 1..(m + l) /\ s[m + i] = b[i] /\ s[m + i] \in B
  BY <1>0, <1>1, <1>2
<1>5. ASSUME NEW k \in A \cup B PROVE \E n \in DOMAIN s : s[n] = k
  <2>1. CASE k \in A
    <3>1. PICK i \in 1..m : a[i] = k
      BY <1>1, <2>1 DEF Lists
    <3>. QED
      BY <1>2, <1>3, <3>1
  <2>2. CASE k \in B
    <3>1. PICK i \in 1..l : b[i] = k
      BY <1>1, <2>2 DEF Lists
    <3>. QED
      BY <1>2, <1>4, <3>1
  <2>. QED
    BY <2>1, <2>2
<1>6. ASSUME NEW i \in DOMAIN s, NEW j \in DOMAIN s, i < j PROVE Precedes(s[i], s[j])
  <2>1. i \in Nat /\ j \in Nat /\ i >= 1 /\ j <= m + l
    BY <1>1, <1>2
  <2>2. CASE j <= m
    <3>1. i \in 1..m /\ j \in 1..m
      BY <1>1, <1>6, <2>1, <2>2
    <3>. QED
      BY <1>1, <1>3, <1>6, <3>1 DEF Lists
  <2>3. CASE i > m
    <3>. DEFINE i2 == i - m
                j2 == j - m
    <3>0. m \in Nat /\ l \in Nat /\ j > m
      BY <1>1, <1>6, <2>1, <2>3
    <3>1. /\ i2 \in 1..l /\ i = m + i2
          /\ j2 \in 1..l /\ j = m + j2
          /\ i2 < j2
      <4>1. i2 \in 1..l /\ i = m + i2
        BY <1>6, <2>1, <2>3, <3>0
      <4>2. j2 \in 1..l /\ j = m + j2
        BY <2>1, <3>0
      <4>3. i2 < j2
        BY <1>6, <2>1, <3>0
      <4>. QED
        BY <4>1, <4>2, <4>3
    <3>. HIDE DEF i2, j2
    <3>2. Precedes(b[i2], b[j2])
      BY <1>1, <3>1 DEF Lists
    <3>. QED
      BY <1>4, <3>1, <3>2
  <2>4. CASE i <= m /\ j > m
    <3>. DEFINE j2 == j - m
    <3>1. i \in 1..m /\ j2 \in 1..l /\ j = m + j2
      BY <1>1, <2>1, <2>4
    <3>. HIDE DEF j2
    <3>. QED
      BY <1>3, <1>4, <3>1
  <2>. QED
    BY <1>1, <2>1, <2>2, <2>3, <2>4
<1>. QED
  BY <1>2, <1>5, <1>6 DEF Lists, s

\* The rows of joined lists are the rows joined.
LEMMA RowsJoin ==
  ASSUME NEW A, NEW a \in Seq(A), NEW b \in Seq(A), NEW c
  PROVE  RowsFor(a \o b, c) = RowsFor(a, c) \o RowsFor(b, c)
<1>. DEFINE All == {RowFor(k, c) : k \in A}
            r == RowsFor(a, c)
            s == RowsFor(b, c)
            t == RowsFor(a \o b, c)
            m == Len(a)
            l == Len(b)
<1>1. /\ m \in Nat /\ l \in Nat /\ DOMAIN a = 1..m /\ DOMAIN b = 1..l
      /\ DOMAIN (a \o b) = 1..(m + l)
      /\ \A i \in 1..(m + l) : (a \o b)[i] = IF i <= m THEN a[i] ELSE b[i - m]
      /\ \A i \in 1..m : a[i] \in A
      /\ \A i \in 1..l : b[i] \in A
  BY JoinSeq
<1>2. /\ r = [i \in 1..m |-> RowFor(a[i], c)] /\ s = [i \in 1..l |-> RowFor(b[i], c)]
      /\ t = [i \in 1..(m + l) |-> RowFor((a \o b)[i], c)]
  BY <1>1 DEF RowsFor
<1>. HIDE DEF m, l, r, s, t
<1>3. r \in [1..m -> All] /\ s \in [1..l -> All]
  BY <1>1, <1>2
<1>4. /\ r \in Seq(All) /\ Len(r) = m
      /\ s \in Seq(All) /\ Len(s) = l
  <2>. HIDE DEF All
  <2>. QED
    BY <1>1, <1>3, FunctionIsSeq
<1>5. /\ r \o s = [i \in 1..(m + l) |-> (r \o s)[i]]
      /\ \A i \in 1..(m + l) : (r \o s)[i] = IF i <= m THEN r[i] ELSE s[i - m]
  <2>. HIDE DEF All
  <2>. QED
    BY <1>4, JoinSeq
<1>6. ASSUME NEW i \in 1..(m + l)
      PROVE  t[i] = IF i <= m THEN r[i] ELSE s[i - m]
  <2>1. CASE i <= m
    <3>1. i \in 1..m
      BY <1>1, <2>1
    <3>. QED
      BY <1>1, <1>2, <2>1, <3>1
  <2>2. CASE ~(i <= m)
    <3>1. i - m \in 1..l
      BY <1>1, <2>2
    <3>. QED
      BY <1>1, <1>2, <2>2, <3>1
  <2>. QED
    BY <2>1, <2>2
<1>7. t = [i \in 1..(m + l) |-> t[i]]
  BY <1>2
<1>. QED
  BY <1>5, <1>6, <1>7 DEF r, s, t

\* So a scan goes on from one page to the next.
LEMMA YieldsJoin ==
  ASSUME NEW c, NEW A, NEW B, NEW r, NEW s, Yields(r, A, c), Yields(s, B, c),
         \A x \in A, y \in B : Precedes(x, y)
  PROVE  Yields(r \o s, A \cup B, c)
<1>1. PICK a : Lists(a, A) /\ r = RowsFor(a, c)
  BY DEF Yields
<1>2. PICK b : Lists(b, B) /\ s = RowsFor(b, c)
  BY DEF Yields
<1>3. Lists(a \o b, A \cup B)
  BY <1>1, <1>2, ListsJoin
<1>4. a \in Seq(A \cup B) /\ b \in Seq(A \cup B)
  <2>1. a \in Seq(A) /\ b \in Seq(B)
    BY <1>1, <1>2 DEF Lists
  <2>. QED
    BY <2>1, WidenSeq
<1>5. RowsFor(a \o b, c) = r \o s
  <2>. DEFINE C == A \cup B
  <2>1. a \in Seq(C) /\ b \in Seq(C)
    BY <1>4
  <2>. HIDE DEF C
  <2>2. RowsFor(a \o b, c) = RowsFor(a, c) \o RowsFor(b, c)
    BY <2>1, RowsJoin
  <2>. QED
    BY <1>1, <1>2, <2>2
<1>. QED
  BY <1>3, <1>5 DEF Yields

\* The rows of one page, in the order of its row_map.
LEMMA PageLists ==
  ASSUME NEW page, IsPage(page, Keys, Values), IndexExact(page), NEW p, NEW range,
         \A k \in DOMAIN page.row_map : PageOf(k) = p
  PROVE  Lists(RowsInOrder(page, range), DOMAIN page.row_map \cap range)
<1>. DEFINE T == DOMAIN page.row_map \cap range
            N == Cardinality(T)
            s == InOrder(T)
<1>1. IsFiniteSet(T)
  BY FiniteRows, FS_Subset
<1>2. T \in SUBSET Int /\ \A k \in T : PageOf(k) = p
  BY ClientAssumption DEF IsPage
<1>3. RowsInOrder(page, range) = s
  BY DEF RowsInOrder
<1>. HIDE DEF T
<1>4. /\ N \in Nat /\ s \in [1..N -> T]
      /\ \A k \in T : \E n \in 1..N : s[n] = k
      /\ \A m, n \in 1..N : m < n => s[m] < s[n]
  BY <1>1, <1>2, InOrderSorts
<1>. HIDE DEF N, s
<1>5. s \in Seq(T) /\ DOMAIN s = 1..N
  BY <1>4, FunctionIsSeq
<1>6. \A m, n \in 1..N : m < n => Precedes(s[m], s[n])
  <2>1. \A n \in 1..N : s[n] \in T
    BY <1>4
  <2>. QED
    BY <1>2, <1>4, <2>1 DEF Precedes
<1>7. Lists(s, T)
  BY <1>4, <1>5, <1>6 DEF Lists
<1>. QED
  BY <1>3, <1>7 DEF T

\* The stored keys of one page that a ranged scan asks for.
KeysOn(p, range) == DOMAIN pages[p].row_map \cap range

\* The array of column c on page p.
ArrayOf(p, c) == pages[p].cols[schema[c].type][LocalIndex(schema, c)]

\* What a scan finds on one page.
LEMMA PageYields ==
  ASSUME IsPageMap(pages), PagesCoherent(pages, schema), NEW p \in DOMAIN pages, NEW c, NEW range
  PROVE  /\ Yields(ScanPage(pages[p], ArrayOf(p, c), range), KeysOn(p, range), c)
         /\ \A k \in KeysOn(p, range) : PageOf(k) = p
<1>. DEFINE page == pages[p]
            keys == RowsInOrder(page, range)
<1>1. /\ IsPage(page, Keys, Values) /\ IndexExact(page)
      /\ \A k \in DOMAIN page.row_map : PageOf(k) = p
  BY DEF IsPageMap, PagesCoherent, PageCoherent
<1>2. Lists(keys, KeysOn(p, range))
  <2>. HIDE DEF page
  <2>1. Lists(keys, DOMAIN page.row_map \cap range)
    BY <1>1, PageLists
  <2>. QED
    BY <2>1 DEF KeysOn, page
<1>3. \A k \in KeysOn(p, range) : PageOf(k) = p
  BY <1>1 DEF KeysOn
<1>4. \A n \in DOMAIN keys : keys[n] \in KeysOn(p, range)
  BY <1>2 DEF Lists
<1>5. ScanPage(page, ArrayOf(p, c), range) =
        [n \in DOMAIN keys |-> <<keys[n], ArrayOf(p, c)[page.row_map[keys[n]]]>>]
  BY DEF ScanPage
<1>. HIDE DEF keys
<1>6. ASSUME NEW n \in DOMAIN keys
      PROVE  RowFor(keys[n], c) = <<keys[n], ArrayOf(p, c)[page.row_map[keys[n]]]>>
  <2>1. PageOf(keys[n]) = p
    BY <1>3, <1>4
  <2>. QED
    BY <2>1 DEF RowFor, Cell, ArrayOf
<1>7. ScanPage(page, ArrayOf(p, c), range) = RowsFor(keys, c)
  BY <1>5, <1>6 DEF RowsFor
<1>. QED
  BY <1>2, <1>3, <1>7 DEF Yields

\* The loop over the pages, as SequencesExt defines it.
IsFlat(flat, blocks, n) ==
  flat = [i \in 1..n |-> IF i = 1 THEN blocks[i] ELSE flat[i - 1] \o blocks[i]]

\* The loop has a result after each number of pages.
LEMMA FlatExists == ASSUME NEW blocks, NEW n \in Nat PROVE \E flat : IsFlat(flat, blocks, n)
<1>. DEFINE T == {m \in Nat : \E flat : IsFlat(flat, blocks, m)}
<1>1. 0 \in T
  <2>1. IsFlat([i \in 1..0 |-> 0], blocks, 0)
    BY DEF IsFlat
  <2>. QED
    BY <2>1
<1>2. ASSUME NEW m \in Nat, m \in T PROVE m + 1 \in T
  <2>1. PICK flat : IsFlat(flat, blocks, m)
    BY <1>2
  <2>. DEFINE last == IF m = 0 THEN blocks[1] ELSE flat[m] \o blocks[m + 1]
              more == [i \in 1..(m + 1) |-> IF i <= m THEN flat[i] ELSE last]
  <2>2. \A i \in 1..m : flat[i] = IF i = 1 THEN blocks[i] ELSE flat[i - 1] \o blocks[i]
    BY <2>1 DEF IsFlat
  <2>3. \A i \in 1..(m + 1) : more[i] = IF i <= m THEN flat[i] ELSE last
    OBVIOUS
  <2>. HIDE DEF more
  <2>4. ASSUME NEW i \in 1..(m + 1)
        PROVE  more[i] = IF i = 1 THEN blocks[i] ELSE more[i - 1] \o blocks[i]
    <3>1. CASE i <= m
      <4>1. i \in 1..m /\ (i # 1 => i - 1 \in 1..(m + 1) /\ i - 1 <= m)
        BY <3>1
      <4>2. more[i] = flat[i] /\ (i # 1 => more[i - 1] = flat[i - 1])
        BY <2>3, <3>1, <4>1
      <4>. QED
        BY <2>2, <4>1, <4>2
    <3>2. CASE ~(i <= m)
      <4>1. i = m + 1 /\ (i # 1 => m \in 1..(m + 1) /\ m # 0 /\ i - 1 = m)
        BY <3>2
      <4>2. more[i] = last /\ (i # 1 => more[i - 1] = flat[m])
        BY <2>3, <3>2, <4>1
      <4>. QED
        BY <4>1, <4>2
    <3>. QED
      BY <3>1, <3>2
  <2>5. more = [i \in 1..(m + 1) |-> more[i]]
    BY DEF more
  <2>6. IsFlat(more, blocks, m + 1)
    BY <2>4, <2>5 DEF IsFlat
  <2>. QED
    BY <2>6
<1>. HIDE DEF T
<1>3. n \in T
  BY <1>1, <1>2, SetInduction
<1>. QED
  BY <1>3 DEF T

\* The keys of the first n pages of the walk.
KeysUpTo(ids, n, range) == UNION {KeysOn(ids[i], range) : i \in 1..n}

\* A scan yields every stored key of its range.
LEMMA ScanYields ==
  ASSUME IsPageMap(pages), PagesCoherent(pages, schema), IsFiniteSet(DOMAIN pages),
         NEW c, NEW range
  PROVE  Yields(Scan(db, c, range), StoredKeys(pages) \cap range, c)
<1>. DEFINE P == DOMAIN pages
            N == Cardinality(P)
            ids == InOrder(P)
            blocks == [n \in 1..N |-> ScanPage(pages[ids[n]], ArrayOf(ids[n], c), range)]
            Flat(f) == IsFlat(f, blocks, N)
            flat == CHOOSE f : Flat(f)
<1>1. /\ N \in Nat /\ ids \in [1..N -> P]
      /\ \A p \in P : \E n \in 1..N : ids[n] = p
      /\ \A m, n \in 1..N : m < n => ids[m] < ids[n]
      /\ P \subseteq Nat
  <2>1. P \in SUBSET Int /\ P \subseteq Nat
    BY DEF IsPageMap
  <2>. HIDE DEF P
  <2>. QED
    BY <2>1, InOrderSorts DEF P
<1>2. Scan(db, c, range) = Seqs!FlattenSeq(blocks)
  <2>1. DOMAIN ids = 1..N
    BY <1>1
  <2>. HIDE DEF N
  <2>. QED
    BY <2>1 DEF Scan, db, ArrayOf
<1>3. \A n \in 1..N : /\ Yields(blocks[n], KeysOn(ids[n], range), c)
                      /\ \A k \in KeysOn(ids[n], range) : PageOf(k) = ids[n]
  <2>. HIDE DEF N, ids
  <2>1. \A n \in 1..N : ids[n] \in DOMAIN pages
    BY <1>1
  <2>. QED
    BY <2>1, PageYields
<1>4. Len(blocks) = N
  BY <1>1
<1>5. StoredKeys(pages) \cap range = KeysUpTo(ids, N, range)
  <2>. HIDE DEF N, ids
  <2>1. ASSUME NEW k, k \in StoredKeys(pages) \cap range PROVE k \in KeysUpTo(ids, N, range)
    <3>1. PageOf(k) \in P /\ k \in KeysOn(PageOf(k), range)
      BY <2>1 DEF StoredKeys, Contains, KeysOn
    <3>2. PICK n \in 1..N : ids[n] = PageOf(k)
      BY <1>1, <3>1
    <3>. QED
      BY <3>1, <3>2 DEF KeysUpTo
  <2>2. ASSUME NEW k, k \in KeysUpTo(ids, N, range) PROVE k \in StoredKeys(pages) \cap range
    <3>1. PICK n \in 1..N : k \in KeysOn(ids[n], range)
      BY <2>2 DEF KeysUpTo
    <3>2. ids[n] \in P /\ PageOf(k) = ids[n] /\ k \in DOMAIN pages[ids[n]].row_map /\ k \in range
      BY <1>1, <1>3, <3>1 DEF KeysOn
    <3>3. k \in Keys
      BY <3>2 DEF IsPageMap, IsPage
    <3>. QED
      BY <3>2, <3>3 DEF StoredKeys, Contains
  <2>. QED
    BY <2>1, <2>2
<1>6. CASE N = 0
  <2>1. blocks = << >>
    BY <1>6
  <2>2. Scan(db, c, range) = << >>
    <3>. HIDE DEF blocks
    <3>. QED
      BY <1>2, <2>1 DEF Seqs!FlattenSeq
  <2>3. KeysUpTo(ids, N, range) = {}
    <3>. HIDE DEF N
    <3>. QED
      BY <1>6 DEF KeysUpTo
  <2>4. Lists(<< >>, {}) /\ RowsFor(<< >>, c) = << >>
    BY DEF Lists, RowsFor
  <2>. HIDE DEF N, ids
  <2>. QED
    BY <1>5, <2>2, <2>3, <2>4 DEF Yields
<1>7. CASE N # 0
  <2>1. Scan(db, c, range) = flat[N]
    <3>. HIDE DEF blocks, N
    <3>. QED
      BY <1>2, <1>4, <1>7 DEF Seqs!FlattenSeq, IsFlat
  <2>2. Flat(flat)
    <3>. HIDE DEF blocks, N
    <3>1. \E f : Flat(f)
      BY <1>1, FlatExists
    <3>. HIDE DEF Flat
    <3>. QED
      BY <3>1
  <2>3. \A n \in 1..N : flat[n] = IF n = 1 THEN blocks[n] ELSE flat[n - 1] \o blocks[n]
    <3>. HIDE DEF blocks, N, flat
    <3>. QED
      BY <2>2 DEF IsFlat
  <2>. HIDE DEF N, ids, blocks, flat
  <2>. DEFINE T == {n \in Nat : n + 1 \in 1..N =>
                      Yields(flat[n + 1], KeysUpTo(ids, n + 1, range), c)}
  <2>4. 0 \in T
    <3>1. 1 \in 1..N /\ flat[1] = blocks[1]
      BY <1>1, <1>7, <2>3
    <3>2. KeysUpTo(ids, 1, range) = KeysOn(ids[1], range)
      BY DEF KeysUpTo
    <3>. QED
      BY <1>3, <3>1, <3>2
  <2>5. ASSUME NEW n \in Nat, n \in T PROVE n + 1 \in T
    <3>. SUFFICES ASSUME n + 2 \in 1..N
                  PROVE  Yields(flat[n + 2], KeysUpTo(ids, n + 2, range), c)
      OBVIOUS
    <3>. DEFINE A == KeysUpTo(ids, n + 1, range)
                B == KeysOn(ids[n + 2], range)
                r == flat[n + 1]
                s == blocks[n + 2]
    <3>1. n + 1 \in 1..N /\ n + 2 # 1 /\ (n + 2) - 1 = n + 1
      BY <1>1
    <3>2. flat[n + 2] = r \o s
      BY <2>3, <3>1
    <3>3. Yields(r, A, c) /\ Yields(s, B, c)
      BY <1>3, <2>5, <3>1
    <3>4. ASSUME NEW x \in A, NEW y \in B PROVE Precedes(x, y)
      <4>1. PICK i \in 1..(n + 1) : x \in KeysOn(ids[i], range)
        BY DEF KeysUpTo
      <4>2. i \in 1..N /\ i < n + 2
        BY <1>1, <3>1
      <4>3. PageOf(x) = ids[i] /\ PageOf(y) = ids[n + 2] /\ ids[i] < ids[n + 2]
        BY <1>1, <1>3, <4>1, <4>2
      <4>. QED
        BY <4>3 DEF Precedes
    <3>5. A \cup B = KeysUpTo(ids, n + 2, range)
      <4>1. 1..(n + 2) = 1..(n + 1) \cup {n + 2}
        OBVIOUS
      <4>. QED
        BY <4>1 DEF KeysUpTo
    <3>. HIDE DEF A, B, r, s
    <3>6. Yields(r \o s, A \cup B, c)
      BY <3>3, <3>4, YieldsJoin
    <3>. QED
      BY <3>2, <3>5, <3>6
  <2>6. N - 1 \in Nat /\ (N - 1) + 1 = N /\ N \in 1..N
    BY <1>1, <1>7
  <2>7. N - 1 \in T
    <3>. HIDE DEF T
    <3>. QED
      BY <2>4, <2>5, <2>6, SetInduction
  <2>8. Yields(flat[N], KeysUpTo(ids, N, range), c)
    BY <2>6, <2>7
  <2>. QED
    BY <1>5, <2>1, <2>8
<1>. QED
  BY <1>6, <1>7

\* No key is listed twice.
LEMMA ListsApart ==
  ASSUME NEW T \in SUBSET Keys, NEW keys, Lists(keys, T)
  PROVE  /\ Len(keys) \in Nat /\ DOMAIN keys = 1..Len(keys) /\ keys \in [1..Len(keys) -> T]
         /\ \A m, n \in 1..Len(keys) : keys[m] = keys[n] => m = n
<1>. DEFINE N == Len(keys)
<1>1. N \in Nat /\ DOMAIN keys = 1..N /\ keys \in [1..N -> T]
  <2>1. keys \in Seq(T)
    BY DEF Lists
  <2>. QED
    BY <2>1
<1>2. ASSUME NEW m \in 1..N, NEW n \in 1..N, m < n PROVE keys[m] # keys[n]
  <2>1. Precedes(keys[m], keys[n]) /\ keys[m] \in Keys /\ PageOf(keys[m]) \in Nat
    BY <1>1, <1>2, PageOfNat DEF Lists
  <2>2. keys[m] \in Int
    BY <2>1, ClientAssumption
  <2>3. ~Precedes(keys[m], keys[m])
    BY <2>1, <2>2 DEF Precedes
  <2>. QED
    BY <2>1, <2>3
<1>. HIDE DEF N
<1>3. \A m, n \in 1..N : keys[m] = keys[n] => m = n
  <2>. TAKE m, n \in 1..N
  <2>1. m \in Int /\ n \in Int
    BY <1>1
  <2>2. m < n \/ n < m \/ m = n
    BY <2>1
  <2>. QED
    BY <1>2, <2>2
<1>. QED
  BY <1>1, <1>3 DEF N

\* A list has as many places as the set has keys.
LEMMA ListsOnce ==
  ASSUME NEW T \in SUBSET Keys, NEW keys, Lists(keys, T)
  PROVE  Len(keys) = Cardinality(T) /\ Len(keys) \in Nat
<1>. DEFINE N == Len(keys)
<1>1. N \in Nat /\ DOMAIN keys = 1..N /\ keys \in [1..N -> T]
  BY ListsApart
<1>2. \A m, n \in 1..N : keys[m] = keys[n] => m = n
  BY ListsApart
<1>. HIDE DEF N
<1>3. keys \in Bijection(1..N, T)
  <2>1. keys \in Injection(1..N, T)
    BY <1>1, <1>2 DEF Injection, IsInjective
  <2>2. keys \in Surjection(1..N, T)
    BY <1>1 DEF Surjection, Lists
  <2>. QED
    BY <2>1, <2>2 DEF Bijection
<1>4. IsFiniteSet(1..N) /\ Cardinality(1..N) = N
  <2>1. IsFiniteSet(1..N) /\ Cardinality(1..N) = IF 1 > N THEN 0 ELSE N - 1 + 1
    BY <1>1, FS_Interval
  <2>. QED
    BY <1>1, <2>1
<1>5. Cardinality(T) = Cardinality(1..N)
  <2>1. ExistsBijection(1..N, T)
    BY <1>3 DEF ExistsBijection
  <2>. QED
    BY <1>4, <2>1, FS_Bijection
<1>. QED
  BY <1>1, <1>4, <1>5 DEF N
=============================================================================
