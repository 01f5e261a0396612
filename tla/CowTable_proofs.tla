--------------------------- MODULE CowTable_proofs ---------------------------
(***************************************************************************)
(* The table with shared buffers implements the table whose snapshot is a  *)
(* copy, for every client, the misuses included; what is proved of that    *)
(* table then holds of the buffers.                                        *)
(***************************************************************************)
EXTENDS CowTable, TLAPS

\* The table with copies, with what is proved of it; the clock and the ranges of
\* scans play no part here.
Table == INSTANCE History_proofs WITH
           pages <- Contents(pages), saved <- SavedContents,
           MaxTime <- 0, now <- 0, stamps <- << >>, Ranges <- {}

-----------------------------------------------------------------------------
(* The operators that all these tables are built from are the same.        *)

\* Where a key is stored.
LEMMA SameContains ==
  /\ \A d, k : Atomic!PageOf(k) = PageOf(k) /\ Atomic!Contains(d, k) = Contains(d, k)
  /\ \A d, k : Table!PageOf(k) = PageOf(k) /\ Table!Contains(d, k) = Contains(d, k)
BY DEF Atomic!PageOf, Table!PageOf, PageOf, Atomic!Contains, Table!Contains, Contains

\* The alignment of a page.
LEMMA SameAligned ==
  \A page : Atomic!Aligned(page) = Aligned(page) /\ Table!Aligned(page) = Aligned(page)
BY DEF Atomic!Aligned, Table!Aligned, Aligned,
       Atomic!ColumnTypes, Table!ColumnTypes, ColumnTypes

\* A column added.
LEMMA SameAddColumn ==
  /\ \A s, name : Atomic!HasColumn(s, name) = HasColumn(s, name)
  /\ \A s, name : Table!HasColumn(s, name) = HasColumn(s, name)
  /\ \A d, col : Atomic!AddColumnTo(d, col) = AddColumnTo(d, col)
  /\ \A d, col : Table!AddColumnTo(d, col) = AddColumnTo(d, col)
BY DEF Atomic!HasColumn, Table!HasColumn, HasColumn, Atomic!AddArray, Table!AddArray, AddArray,
       Atomic!AddColumnTo, Table!AddColumnTo, AddColumnTo

\* A key inserted.
LEMMA SameInsert ==
  /\ \A d, k : Atomic!InsertInto(d, k) = InsertInto(d, k)
  /\ \A d, k : Table!InsertInto(d, k) = InsertInto(d, k)
<1>1. \A d, k : Atomic!InsertInto(d, k) = InsertInto(d, k)
  BY DEF Atomic!Cardinality, Cardinality, Atomic!InsertInto, InsertInto, Atomic!PageOf, PageOf,
         Atomic!Contains, Contains, Atomic!NewPage, NewPage, Atomic!InsertRow, InsertRow,
         Atomic!Put, Put, Atomic!ColumnTypes, ColumnTypes, Atomic!ColumnsOfType, ColumnsOfType
<1>2. \A d, k : Table!InsertInto(d, k) = InsertInto(d, k)
  BY DEF Table!Cardinality, Cardinality, Table!InsertInto, InsertInto, Table!PageOf, PageOf,
         Table!Contains, Contains, Table!NewPage, NewPage, Table!InsertRow, InsertRow,
         Table!Put, Put, Table!ColumnTypes, ColumnTypes, Table!ColumnsOfType, ColumnsOfType
<1>. QED
  BY <1>1, <1>2

\* A key erased.
LEMMA SameErase ==
  /\ \A d, k : Atomic!EraseFrom(d, k) = EraseFrom(d, k)
  /\ \A d, k : Table!EraseFrom(d, k) = EraseFrom(d, k)
<1>1. \A d, k : Atomic!EraseFrom(d, k) = EraseFrom(d, k)
  BY DEF Atomic!EraseFrom, EraseFrom, Atomic!PageOf, PageOf, Atomic!EraseRow, EraseRow,
         Atomic!Put, Put, Atomic!Without, Without, Atomic!SwapRemove, SwapRemove,
         Atomic!ColumnTypes, ColumnTypes
<1>2. \A d, k : Table!EraseFrom(d, k) = EraseFrom(d, k)
  BY DEF Table!EraseFrom, EraseFrom, Table!PageOf, PageOf, Table!EraseRow, EraseRow,
         Table!Put, Put, Table!Without, Without, Table!SwapRemove, SwapRemove,
         Table!ColumnTypes, ColumnTypes
<1>. QED
  BY <1>1, <1>2

\* A cell written.
LEMMA SameSet ==
  /\ \A d, k, c, v : Atomic!SetIn(d, k, c, v) = SetIn(d, k, c, v)
  /\ \A d, k, c, v : Table!SetIn(d, k, c, v) = SetIn(d, k, c, v)
<1>1. \A d, k, c, v : Atomic!SetIn(d, k, c, v) = SetIn(d, k, c, v)
  BY DEF Atomic!Cardinality, Cardinality, Atomic!SetIn, SetIn, Atomic!PageOf, PageOf,
         Atomic!SetCell, SetCell, Atomic!Put, Put, Atomic!LocalIndex, LocalIndex
<1>2. \A d, k, c, v : Table!SetIn(d, k, c, v) = SetIn(d, k, c, v)
  BY DEF Table!Cardinality, Cardinality, Table!SetIn, SetIn, Table!PageOf, PageOf,
         Table!SetCell, SetCell, Table!Put, Put, Table!LocalIndex, LocalIndex
<1>. QED
  BY <1>1, <1>2

\* The journal and its entries.
LEMMA SameEntries ==
  /\ \A col : /\ Atomic!AddColumnEntry(col) = AddColumnEntry(col)
              /\ Table!AddColumnEntry(col) = AddColumnEntry(col)
  /\ \A k : Atomic!InsertEntry(k) = InsertEntry(k) /\ Atomic!EraseEntry(k) = EraseEntry(k)
  /\ \A k : Table!InsertEntry(k) = InsertEntry(k) /\ Table!EraseEntry(k) = EraseEntry(k)
  /\ \A t, k, c, v : /\ Atomic!SetEntry(t, k, c, v) = SetEntry(t, k, c, v)
                     /\ Table!SetEntry(t, k, c, v) = SetEntry(t, k, c, v)
  /\ Atomic!BeginTx = BeginTx /\ Atomic!CommitTx = CommitTx
  /\ Table!BeginTx = BeginTx /\ Table!CommitTx = CommitTx
  /\ \A j, n : Atomic!Truncate(j, n) = Truncate(j, n) /\ Table!Truncate(j, n) = Truncate(j, n)
BY DEF Atomic!AddColumnEntry, Table!AddColumnEntry, AddColumnEntry,
       Atomic!InsertEntry, Table!InsertEntry, InsertEntry,
       Atomic!EraseEntry, Table!EraseEntry, EraseEntry,
       Atomic!SetEntry, Table!SetEntry, SetEntry, Atomic!BeginTx, Table!BeginTx, BeginTx,
       Atomic!CommitTx, Table!CommitTx, CommitTx, Atomic!Truncate, Table!Truncate, Truncate

-----------------------------------------------------------------------------
(* The buffers.                                                            *)

\* The type invariant, with a journal that is a sequence.
BufferInv == TypeOK /\ \E S : journal \in Seq(S)

\* A page that is new or shares its buffer has a free name for the next one:
\* of the two names at most one is taken, by the snapshot.
LEMMA FreshBufferFree ==
  ASSUME TypeOK, NEW p, p \in DOMAIN pages => Shared(p)
  PROVE  FreshBuffer(p) \in {p} \X Generations /\ FreshBuffer(p) \notin DOMAIN heap
<1>1. \A b \in DOMAIN heap : b \in BuffersOf(pages) \/ b \in SnapshotBuffers
  BY DEF TypeOK
<1>2. \A q \in DOMAIN pages : pages[q] \in {q} \X Generations
  BY DEF TypeOK, IsBufferMap
<1>3. InTransaction => \A q \in DOMAIN snapshot.pages : snapshot.pages[q] \in {q} \X Generations
  BY DEF TypeOK, IsBufferMap
<1>4. \A b \in DOMAIN heap, g \in Generations :
        b = <<p, g>> => InTransaction /\ p \in DOMAIN snapshot.pages /\ b = snapshot.pages[p]
  <2>. SUFFICES ASSUME NEW g \in Generations, <<p, g>> \in DOMAIN heap
                PROVE  InTransaction /\ p \in DOMAIN snapshot.pages /\ <<p, g>> = snapshot.pages[p]
    OBVIOUS
  <2>1. CASE <<p, g>> \in SnapshotBuffers
    BY <1>3, <2>1 DEF SnapshotBuffers, BuffersOf
  <2>2. CASE <<p, g>> \in BuffersOf(pages)
    <3>1. p \in DOMAIN pages /\ pages[p] = <<p, g>>
      BY <1>2, <2>2 DEF BuffersOf
    <3>2. \A q \in DOMAIN pages \ {p} : pages[q] # pages[p]
      BY <1>2, <3>1
    <3>. QED
      BY <2>1, <3>1, <3>2 DEF Shared
  <2>. QED
    BY <1>1, <2>1, <2>2
<1>5. \E g \in Generations : <<p, g>> \notin DOMAIN heap
  <2>1. <<p, 0>> # <<p, 1>> /\ 0 \in Generations /\ 1 \in Generations
    BY DEF Generations
  <2>. QED
    BY <1>4, <2>1
<1>. QED
  BY <1>5 DEF FreshBuffer

\* What an operation computes is a page map that differs from the table's on
\* the pages of P only.
ChangesOnly(new, P) ==
  /\ new.pages = [p \in DOMAIN new.pages |-> new.pages[p]]
  /\ \A p \in DOMAIN new.pages \ P : /\ p \in DOMAIN pages
                                    /\ new.pages[p] = heap[pages[p]]

\* Writing through fresh or unshared buffers changes the pages to what was
\* computed and nothing that the snapshot sees.
LEMMA StoreContents ==
  ASSUME TypeOK, NEW new, NEW P, Store(new, P), ChangesOnly(new, P)
  PROVE  /\ IsBufferMap(pages') /\ DOMAIN pages' = DOMAIN new.pages
         /\ heap' = [b \in BuffersOf(pages') \cup SnapshotBuffers |-> heap'[b]]
         /\ snapshot' = snapshot
         /\ Contents(pages)' = new.pages
         /\ \A b \in SnapshotBuffers : heap'[b] = heap[b]
<1>. DEFINE Written == P \cap DOMAIN new.pages
            data == [p \in Written |-> new.pages[p]]
            At(b) == CHOOSE p \in DOMAIN data : pages'[p] = b
<1>1. /\ pages' = [p \in DOMAIN new.pages |->
                      IF p \in DOMAIN pages THEN Detached(P)[p] ELSE FreshBuffer(p)]
      /\ heap' = [b \in BuffersOf(pages') \cup SnapshotBuffers |->
                    IF \E p \in DOMAIN data : pages'[p] = b THEN data[At(b)] ELSE heap[b]]
      /\ snapshot' = snapshot
  BY DEF Store, WriteThrough
<1>2. \A p \in DOMAIN pages : Detached(P)[p] = IF p \in P /\ Shared(p) THEN FreshBuffer(p)
                                              ELSE pages[p]
  BY DEF Detached
<1>3. \A p \in DOMAIN pages : pages[p] \in {p} \X Generations
  BY DEF TypeOK, IsBufferMap
<1>4. DOMAIN pages' = DOMAIN new.pages
  BY <1>1
<1>5. \A p \in DOMAIN pages' : pages'[p] \in {p} \X Generations
  BY <1>1, <1>2, <1>3, <1>4, FreshBufferFree
<1>6. IsBufferMap(pages')
  BY <1>1, <1>4, <1>5 DEF IsBufferMap
<1>7. \A p, q \in DOMAIN pages' : pages'[p] = pages'[q] => p = q
  BY <1>5
<1>8. ASSUME NEW p \in Written PROVE pages'[p] \notin SnapshotBuffers
  <2>1. CASE p \in DOMAIN pages /\ ~Shared(p)
    BY <1>1, <1>2, <1>4, <2>1 DEF Shared
  <2>2. CASE ~(p \in DOMAIN pages /\ ~Shared(p))
    <3>1. pages'[p] = FreshBuffer(p)
      BY <1>1, <1>2, <1>4, <2>2
    <3>2. SnapshotBuffers \subseteq DOMAIN heap
      BY DEF TypeOK
    <3>. QED
      BY <2>2, <3>1, <3>2, FreshBufferFree
  <2>. QED
    BY <2>1, <2>2
<1>9. \A b \in SnapshotBuffers : heap'[b] = heap[b]
  BY <1>1, <1>8
<1>10. ASSUME NEW p \in DOMAIN pages' PROVE heap'[pages'[p]] = new.pages[p]
  <2>1. pages'[p] \in BuffersOf(pages')
    BY DEF BuffersOf
  <2>2. CASE p \in Written
    <3>1. At(pages'[p]) = p
      BY <1>4, <1>7, <2>2
    <3>. QED
      BY <1>1, <2>1, <2>2, <3>1
  <2>3. CASE p \notin Written
    <3>1. p \in DOMAIN pages /\ new.pages[p] = heap[pages[p]] /\ pages'[p] = pages[p]
      BY <1>1, <1>2, <1>4, <2>3 DEF ChangesOnly
    <3>2. ~\E q \in DOMAIN data : pages'[q] = pages'[p]
      BY <1>4, <1>7, <2>3
    <3>. QED
      BY <1>1, <2>1, <3>1, <3>2
  <2>. QED
    BY <2>2, <2>3
<1>11. Contents(pages)' = new.pages
  BY <1>4, <1>10 DEF Contents, ChangesOnly
<1>. QED
  BY <1>1, <1>4, <1>6, <1>9, <1>11

-----------------------------------------------------------------------------
(* What the calls write.                                                   *)

\* Every call that stores writes the pages that it detaches and no others.
LEMMA CallsChangeOnly ==
  /\ \A col : ChangesOnly(AddColumnTo(db, col), DOMAIN pages)
  /\ \A k : ChangesOnly(InsertInto(db, k), {PageOf(k)})
  /\ \A k : ChangesOnly(EraseFrom(db, k), {PageOf(k)})
  /\ \A k, c, v : ChangesOnly(SetIn(db, k, c, v), {PageOf(k)})
  /\ \A k : ChangesOnly(db, {PageOf(k)})
<1>1. /\ db = [schema |-> schema, pages |-> Contents(pages)]
      /\ DOMAIN db.pages = DOMAIN pages
      /\ \A p \in DOMAIN pages : db.pages[p] = heap[pages[p]]
      /\ db.pages = [p \in DOMAIN pages |-> db.pages[p]]
  BY DEF db, Contents
<1>2. ASSUME NEW p, NEW page
      PROVE  LET map == Put(db.pages, p, page)
             IN  /\ map = [q \in DOMAIN map |-> map[q]]
                 /\ \A q \in DOMAIN map \ {p} : q \in DOMAIN pages /\ map[q] = heap[pages[q]]
  BY <1>1 DEF Put
<1>3. ASSUME NEW p
      PROVE  LET map == Without(db.pages, p)
             IN  /\ map = [q \in DOMAIN map |-> map[q]]
                 /\ \A q \in DOMAIN map \ {p} : q \in DOMAIN pages /\ map[q] = heap[pages[q]]
  BY <1>1 DEF Without
<1>4. ASSUME NEW col PROVE ChangesOnly(AddColumnTo(db, col), DOMAIN pages)
  BY <1>1 DEF ChangesOnly, AddColumnTo
<1>5. ASSUME NEW k PROVE ChangesOnly(db, {PageOf(k)})
  BY <1>1 DEF ChangesOnly
<1>6. ASSUME NEW k PROVE ChangesOnly(InsertInto(db, k), {PageOf(k)})
  <2>1. CASE Contains(db, k)
    BY <1>5, <2>1 DEF InsertInto
  <2>2. CASE ~Contains(db, k)
    <3>1. \E page : InsertInto(db, k).pages = Put(db.pages, PageOf(k), page)
      BY <1>1, <2>2 DEF InsertInto
    <3>. QED
      BY <1>2, <3>1 DEF ChangesOnly
  <2>. QED
    BY <2>1, <2>2
<1>7. ASSUME NEW k PROVE ChangesOnly(EraseFrom(db, k), {PageOf(k)})
  <2>1. \/ EraseFrom(db, k).pages = Without(db.pages, PageOf(k))
        \/ \E page : EraseFrom(db, k).pages = Put(db.pages, PageOf(k), page)
    BY <1>1 DEF EraseFrom
  <2>. QED
    BY <1>2, <1>3, <2>1 DEF ChangesOnly
<1>8. ASSUME NEW k, NEW c, NEW v PROVE ChangesOnly(SetIn(db, k, c, v), {PageOf(k)})
  <2>1. \E page : SetIn(db, k, c, v).pages = Put(db.pages, PageOf(k), page)
    BY <1>1 DEF SetIn
  <2>. QED
    BY <1>2, <2>1 DEF ChangesOnly
<1>. QED
  BY <1>4, <1>5, <1>6, <1>7, <1>8

-----------------------------------------------------------------------------
(* The type invariant.                                                     *)

\* One more entry, or a prefix, is a sequence again.
LEMMA AppendSeq ==
  ASSUME NEW j, \E S : j \in Seq(S), NEW e
  PROVE  (\E S : Append(j, e) \in Seq(S)) /\ Len(Append(j, e)) = Len(j) + 1 /\ Len(j) \in Nat
<1>1. PICK S : j \in Seq(S)
  OBVIOUS
<1>2. j \in Seq(S \cup {e})
  BY <1>1
<1>3. Append(j, e) \in Seq(S \cup {e}) /\ Len(Append(j, e)) = Len(j) + 1 /\ Len(j) \in Nat
  BY <1>2
<1>. QED
  BY <1>3

\* A journal with one more entry.
LEMMA RecordSeq ==
  ASSUME \E S : journal \in Seq(S), NEW e, Record(e)
  PROVE  /\ \E S : journal' \in Seq(S)
         /\ Len(journal) \in Nat /\ Len(journal') = Len(journal) + 1
<1>1. journal' = Append(journal, e)
  BY DEF Record
<1>. QED
  BY <1>1, AppendSeq

\* A journal that is cut.
LEMMA TruncateSeq ==
  ASSUME NEW j, \E S : j \in Seq(S), NEW n \in Nat
  PROVE  \E S : Truncate(j, n) \in Seq(S)
BY DEF Truncate

\* A call that stores, whether or not it is journaled.
LEMMA StoreKeepsInv ==
  ASSUME BufferInv, NEW new, NEW P, Store(new, P), ChangesOnly(new, P),
         journal' = journal \/ \E e : Record(e)
  PROVE  BufferInv'
<1>1. /\ IsBufferMap(pages')
      /\ heap' = [b \in BuffersOf(pages') \cup SnapshotBuffers |-> heap'[b]]
      /\ snapshot' = snapshot
  BY StoreContents DEF BufferInv
<1>2. /\ \E S : journal' \in Seq(S)
      /\ Len(journal) \in Nat /\ Len(journal') \in Nat /\ Len(journal) <= Len(journal')
  <2>1. CASE journal' = journal
    <3>1. PICK S : journal \in Seq(S)
      BY DEF BufferInv
    <3>. QED
      BY <2>1, <3>1
  <2>2. CASE \E e : Record(e)
    BY <2>2, RecordSeq DEF BufferInv
  <2>. QED
    BY <2>1, <2>2
<1>3. InTransaction' = InTransaction /\ SnapshotBuffers' = SnapshotBuffers
  BY <1>1 DEF InTransaction, SnapshotBuffers, BuffersOf
<1>4. InTransaction => snapshot.journal_size \in 0..(Len(journal') - 1)
  BY <1>2 DEF BufferInv, TypeOK
<1>5. BuffersOf(pages)' = BuffersOf(pages')
  BY DEF BuffersOf
<1>. QED
  BY <1>1, <1>2, <1>3, <1>4, <1>5 DEF BufferInv, TypeOK, IsBufferMap

\* An empty heap is in order.
LEMMA BufferInit == Init => BufferInv
<1>. SUFFICES ASSUME Init PROVE BufferInv
  OBVIOUS
<1>1. ~InTransaction /\ journal = << >>
  BY DEF Init, InTransaction
<1>2. IsBufferMap(pages) /\ BuffersOf(pages) = {} /\ SnapshotBuffers = {}
  BY <1>1 DEF Init, EmptyDb, IsBufferMap, BuffersOf, SnapshotBuffers
<1>3. journal \in Seq({})
  BY <1>1
<1>. QED
  BY <1>1, <1>2, <1>3 DEF Init, BufferInv, TypeOK

\* Every call keeps the buffers in order.
LEMMA BufferNext == BufferInv /\ [Next]_vars => BufferInv'
<1>. SUFFICES ASSUME BufferInv, [Next]_vars PROVE BufferInv'
  OBVIOUS
<1>1. ASSUME NEW col, AddColumn(col) PROVE BufferInv'
  BY <1>1, CallsChangeOnly, StoreKeepsInv DEF AddColumn
<1>2. ASSUME NEW k, Insert(k) PROVE BufferInv'
  BY <1>2, CallsChangeOnly, StoreKeepsInv DEF Insert
<1>3. ASSUME NEW k, Erase(k) PROVE BufferInv'
  BY <1>3, CallsChangeOnly, StoreKeepsInv DEF Erase
<1>4. ASSUME NEW k, NEW c, NEW v, Set(k, c, v) PROVE BufferInv'
  BY <1>4, CallsChangeOnly, StoreKeepsInv DEF Set
<1>5. ASSUME NEW k, FailedSet(k) PROVE BufferInv'
  BY <1>5, CallsChangeOnly, StoreKeepsInv DEF FailedSet
<1>6. ASSUME Begin PROVE BufferInv'
  <2>1. /\ pages' = pages /\ heap' = heap /\ snapshot'.pages = pages /\ InTransaction'
        /\ snapshot' = [pages |-> pages, journal_size |-> Len(journal)]
        /\ ~InTransaction
    BY <1>6 DEF Begin, InTransaction, NoSnapshot
  <2>2. (\E S : journal' \in Seq(S)) /\ Len(journal) \in 0..(Len(journal') - 1)
    BY <1>6, RecordSeq DEF Begin, BufferInv
  <2>3. BuffersOf(pages)' = BuffersOf(pages) /\ SnapshotBuffers' = BuffersOf(pages)
        /\ SnapshotBuffers = {}
    BY <2>1 DEF BuffersOf, SnapshotBuffers
  <2>. QED
    BY <2>1, <2>2, <2>3 DEF BufferInv, TypeOK, IsBufferMap
<1>7. ASSUME Commit PROVE BufferInv'
  <2>1. ~InTransaction' /\ pages' = pages /\ \E S : journal' \in Seq(S)
    BY <1>7, RecordSeq DEF Commit, InTransaction, BufferInv
  <2>2. BuffersOf(pages)' = BuffersOf(pages) /\ SnapshotBuffers' = {}
    BY <2>1 DEF BuffersOf, SnapshotBuffers
  <2>3. heap' = [b \in BuffersOf(pages) |-> heap'[b]]
    BY <1>7 DEF Commit
  <2>. QED
    BY <2>1, <2>2, <2>3 DEF BufferInv, TypeOK, IsBufferMap
<1>8. ASSUME Rollback PROVE BufferInv'
  <2>1. /\ InTransaction /\ ~InTransaction' /\ pages' = snapshot.pages
        /\ \E S : journal' \in Seq(S)
    BY <1>8, TruncateSeq DEF Rollback, InTransaction, BufferInv, TypeOK
  <2>2. BuffersOf(pages)' = BuffersOf(snapshot.pages) /\ SnapshotBuffers' = {}
    BY <2>1 DEF BuffersOf, SnapshotBuffers
  <2>3. heap' = [b \in BuffersOf(snapshot.pages) |-> heap'[b]]
    BY <1>8 DEF Rollback
  <2>. QED
    BY <2>1, <2>2, <2>3 DEF BufferInv, TypeOK, IsBufferMap
<1>9. ASSUME UNCHANGED vars PROVE BufferInv'
  BY <1>9 DEF vars, BufferInv, TypeOK, IsBufferMap, InTransaction, BuffersOf, SnapshotBuffers
<1>. QED
  BY <1>1, <1>2, <1>3, <1>4, <1>5, <1>6, <1>7, <1>8, <1>9
     DEF Next, InsertExisting, EraseAbsent

\* Whatever the client calls, misuses included, the heap holds exactly the
\* buffers that the table or its snapshot refers to, each on its own page: a
\* detached buffer is freed with its last reference, and no reference dangles.
THEOREM BuffersCorrect == Spec => []TypeOK
<1>1. BufferInv => TypeOK
  BY DEF BufferInv
<1>. QED
  BY BufferInit, BufferNext, <1>1, PTL DEF Spec

-----------------------------------------------------------------------------
(* Refinement.                                                             *)

\* The contents of the table and of its snapshot after a call that stores.
LEMMA StoreMaps ==
  ASSUME BufferInv, NEW new, NEW P, Store(new, P), ChangesOnly(new, P)
  PROVE  /\ Contents(pages)' = new.pages
         /\ SavedContents' = SavedContents
         /\ schema' = new.schema
<1>1. /\ snapshot' = snapshot /\ Contents(pages)' = new.pages
      /\ \A b \in SnapshotBuffers : heap'[b] = heap[b]
  BY StoreContents DEF BufferInv
<1>2. InTransaction => Contents(snapshot.pages)' = Contents(snapshot.pages)
  BY <1>1 DEF Contents, SnapshotBuffers, BuffersOf
<1>. QED
  BY <1>1, <1>2 DEF SavedContents, InTransaction, Store

\* An open transaction is one in both tables.
LEMMA SameTransaction ==
  /\ Atomic!InTransaction <=> InTransaction
  /\ Atomic!db = db
  /\ Atomic!NoSnapshot = NoSnapshot
BY DEF Atomic!InTransaction, InTransaction, SavedContents, Atomic!NoSnapshot, NoSnapshot,
       Atomic!db, db

\* The empty table is an empty table.
LEMMA InitImplements == Init => Atomic!Init
<1>. SUFFICES ASSUME Init PROVE Atomic!Init
  OBVIOUS
<1>1. Contents(pages) = pages /\ SavedContents = NoSnapshot
  BY DEF Init, EmptyDb, Contents, SavedContents, InTransaction
<1>. QED
  BY <1>1 DEF Init, EmptyDb, Atomic!Init, Atomic!EmptyDb, Atomic!NoSnapshot, NoSnapshot

\* Every call on the buffers is the same call on copies.
LEMMA NextImplements ==
  ASSUME BufferInv, [Next]_vars
  PROVE  [Atomic!Next]_Atomic!vars
<1>1. ASSUME NEW new, NEW P, Store(new, P), ChangesOnly(new, P) PROVE Atomic!Store(new)
  BY <1>1, StoreMaps DEF Atomic!Store
<1>2. ASSUME NEW e, Record(e) PROVE Atomic!Record(e)
  BY <1>2 DEF Record, Atomic!Record
<1>3. ASSUME NEW k, RowDefined(k) PROVE Atomic!RowDefined(k)
  <2>1. PageOf(k) \in DOMAIN pages /\ Contents(pages)[PageOf(k)] = heap[pages[PageOf(k)]]
    BY <1>3 DEF RowDefined, Contains, db, Contents
  <2>. QED
    BY <1>3, <2>1, SameContains, SameAligned, SameTransaction
       DEF RowDefined, Atomic!RowDefined
<1>4. ASSUME NEW col \in Columns, AddColumn(col) PROVE Atomic!AddColumn(col)
  <2>1. DOMAIN pages = {} => DOMAIN Contents(pages) = {}
    BY DEF Contents
  <2>. QED
    BY <1>1, <1>2, <1>4, <2>1, CallsChangeOnly, SameAddColumn, SameEntries, SameTransaction
       DEF AddColumn, Atomic!AddColumn
<1>5. ASSUME NEW k \in Keys, Insert(k) PROVE Atomic!Insert(k)
  BY <1>1, <1>2, <1>5, CallsChangeOnly, SameInsert, SameContains, SameEntries, SameTransaction
     DEF Insert, Atomic!Insert
<1>6. ASSUME NEW k \in Keys, Erase(k) PROVE Atomic!Erase(k)
  BY <1>1, <1>2, <1>3, <1>6, CallsChangeOnly, SameErase, SameEntries, SameTransaction
     DEF Erase, Atomic!Erase
<1>7. ASSUME NEW k \in Keys, NEW c, NEW v, Set(k, c, v) PROVE Atomic!Set(k, c, v)
  BY <1>1, <1>2, <1>3, <1>7, CallsChangeOnly, SameSet, SameEntries, SameTransaction
     DEF Set, Atomic!Set
<1>8. ASSUME NEW k, FailedSet(k) PROVE UNCHANGED Atomic!vars
  <2>1. Contents(pages)' = db.pages /\ SavedContents' = SavedContents /\ schema' = db.schema
    BY <1>8, CallsChangeOnly, StoreMaps DEF FailedSet
  <2>. QED
    BY <1>8, <2>1 DEF FailedSet, db, Atomic!vars
<1>9. ASSUME Begin PROVE Atomic!Begin
  <2>1. /\ ~InTransaction /\ InTransaction' /\ pages' = pages /\ heap' = heap
        /\ snapshot' = [pages |-> pages, journal_size |-> Len(journal)]
    BY <1>9 DEF Begin, InTransaction, NoSnapshot
  <2>2. /\ Contents(pages)' = Contents(pages)
        /\ SavedContents' = [pages |-> Contents(pages), journal_size |-> Len(journal)]
    BY <2>1 DEF Contents, SavedContents
  <2>. QED
    BY <1>2, <1>9, <2>1, <2>2, SameEntries, SameTransaction DEF Begin, Atomic!Begin
<1>10. ASSUME Commit PROVE Atomic!Commit
  <2>1. InTransaction /\ ~InTransaction' /\ pages' = pages
    BY <1>10 DEF Commit, InTransaction
  <2>2. Contents(pages)' = Contents(pages) /\ SavedContents' = NoSnapshot
    BY <1>10, <2>1 DEF Commit, Contents, SavedContents, BuffersOf
  <2>. QED
    BY <1>2, <1>10, <2>1, <2>2, SameEntries, SameTransaction DEF Commit, Atomic!Commit
<1>11. ASSUME Rollback PROVE Atomic!Rollback
  <2>1. InTransaction /\ ~InTransaction' /\ pages' = snapshot.pages
    BY <1>11 DEF Rollback, InTransaction
  <2>2. Contents(pages)' = Contents(snapshot.pages) /\ SavedContents' = NoSnapshot
    BY <1>11, <2>1 DEF Rollback, Contents, SavedContents, BuffersOf
  <2>3. /\ SavedContents.pages = Contents(snapshot.pages)
        /\ SavedContents.journal_size = snapshot.journal_size
    BY <2>1 DEF SavedContents
  <2>. QED
    BY <1>11, <2>1, <2>2, <2>3, SameEntries, SameTransaction DEF Rollback, Atomic!Rollback
<1>12. ASSUME UNCHANGED vars PROVE UNCHANGED Atomic!vars
  BY <1>12 DEF vars, Atomic!vars, Contents, SavedContents, InTransaction
<1>. QED
  BY <1>4, <1>5, <1>6, <1>7, <1>8, <1>9, <1>10, <1>11, <1>12
     DEF Next, Atomic!Next, InsertExisting, EraseAbsent

\* Sharing is invisible: a table that copies pointers at begin and pages at the
\* first write is, to all who read it or roll it back, a table that copies all
\* its pages at begin.
THEOREM CowCorrect == Spec => ImplementsAtomic
<1>1. BufferInv /\ [Next]_vars => [Atomic!Next]_Atomic!vars
  BY NextImplements
<1>. QED
  BY <1>1, BufferInit, BufferNext, InitImplements, PTL DEF Spec, ImplementsAtomic, Atomic!Spec

-----------------------------------------------------------------------------
(* Copies.                                                                 *)

\* A call takes new buffers only for pages of P that the snapshot holds too.
LEMMA StoreCopies ==
  ASSUME TypeOK, NEW new, NEW P, Store(new, P), ChangesOnly(new, P),
         NEW p \in DOMAIN pages \cap DOMAIN pages', pages'[p] # pages[p]
  PROVE  p \in P /\ InTransaction /\ p \in DOMAIN snapshot.pages /\ pages[p] = snapshot.pages[p]
<1>1. pages'[p] = Detached(P)[p]
  BY DEF Store, WriteThrough
<1>2. p \in P /\ Shared(p)
  BY <1>1 DEF Detached
<1>3. \A q \in DOMAIN pages : pages[q] \in {q} \X Generations
  BY DEF TypeOK, IsBufferMap
<1>4. pages[p] \in SnapshotBuffers
  BY <1>2, <1>3 DEF Shared
<1>5. InTransaction => \A q \in DOMAIN snapshot.pages : snapshot.pages[q] \in {q} \X Generations
  BY DEF TypeOK, IsBufferMap
<1>. QED
  BY <1>2, <1>3, <1>4, <1>5 DEF SnapshotBuffers, BuffersOf

\* What CopyOnFirstTouch says of a step.
FirstTouch ==
  \A p \in DOMAIN pages \cap DOMAIN pages' : pages'[p] # pages[p] /\ ~Rollback =>
    /\ InTransaction
    /\ p \in DOMAIN snapshot.pages /\ pages[p] = snapshot.pages[p]
    /\ \A q \in DOMAIN pages \cap DOMAIN pages' : q # p => pages'[q] = pages[q]

\* Every call replaces at most one shared buffer.
LEMMA CopiesNext ==
  ASSUME "late_column" \notin Misuse \/ "column_in_tx" \notin Misuse, BufferInv, [Next]_vars
  PROVE  FirstTouch
<1>1. ASSUME NEW new, NEW k, Store(new, {PageOf(k)}), ChangesOnly(new, {PageOf(k)})
      PROVE  FirstTouch
  BY <1>1, StoreCopies DEF BufferInv, FirstTouch
<1>2. ASSUME NEW col, AddColumn(col) PROVE FirstTouch
  <2>1. DOMAIN pages = {} \/ ~InTransaction
    BY <1>2 DEF AddColumn
  <2>. QED
    BY <1>2, <2>1, CallsChangeOnly, StoreCopies DEF AddColumn, BufferInv, FirstTouch
<1>3. ASSUME NEW k, Insert(k) \/ Erase(k) \/ FailedSet(k) PROVE FirstTouch
  BY <1>1, <1>3, CallsChangeOnly DEF Insert, Erase, FailedSet
<1>4. ASSUME NEW k, NEW c, NEW v, Set(k, c, v) PROVE FirstTouch
  BY <1>1, <1>4, CallsChangeOnly DEF Set
<1>5. ASSUME pages' = pages \/ Rollback PROVE FirstTouch
  BY <1>5 DEF FirstTouch
<1>. QED
  BY <1>2, <1>3, <1>4, <1>5
     DEF Next, InsertExisting, EraseAbsent, Begin, Commit, vars

\* A call copies at most one page, in a transaction, when the snapshot still
\* shares it; the exception is a client that adds a column late and inside a
\* transaction, for which the table detaches all its pages.
THEOREM CopiesOnFirstTouch ==
  ASSUME "late_column" \notin Misuse \/ "column_in_tx" \notin Misuse
  PROVE  Spec => CopyOnFirstTouch
<1>1. BufferInv /\ [Next]_vars => [FirstTouch]_vars
  BY CopiesNext
<1>. QED
  BY <1>1, BufferInit, BufferNext, PTL DEF Spec, CopyOnFirstTouch, FirstTouch

-----------------------------------------------------------------------------
(* What is proved of the table with copies holds of the buffers.          *)

\* Its steps are those of the table with copies.
LEMMA TableSteps == [Atomic!Next]_Atomic!vars => [Table!Next]_Table!vars
<1>. SUFFICES ASSUME [Atomic!Next]_Atomic!vars PROVE [Table!Next]_Table!vars
  OBVIOUS
<1>1. /\ Table!vars = Atomic!vars /\ Table!db = Atomic!db
      /\ (Table!InTransaction <=> Atomic!InTransaction) /\ Table!NoSnapshot = Atomic!NoSnapshot
      /\ (UNCHANGED Table!vars <=> UNCHANGED Atomic!vars)
  BY DEF Table!vars, Atomic!vars, Table!db, Atomic!db, Table!InTransaction, Atomic!InTransaction,
         Table!NoSnapshot, Atomic!NoSnapshot
<1>2. ASSUME NEW e, Atomic!Record(e) PROVE Table!Record(e)
  BY <1>2 DEF Table!Record, Atomic!Record
<1>3. ASSUME NEW new, Atomic!Store(new) PROVE Table!Store(new)
  BY <1>3 DEF Table!Store, Atomic!Store
<1>4. ASSUME NEW k, Atomic!RowDefined(k) PROVE Table!RowDefined(k)
  BY <1>1, <1>4, SameContains, SameAligned
     DEF Table!RowDefined, Atomic!RowDefined
<1>5. ASSUME NEW col \in Columns, Atomic!AddColumn(col) PROVE Table!AddColumn(col)
  BY <1>1, <1>2, <1>3, <1>5, SameAddColumn, SameEntries
     DEF Table!AddColumn, Atomic!AddColumn
<1>6. ASSUME NEW k \in Keys, Atomic!Insert(k) PROVE Table!Insert(k)
  BY <1>1, <1>2, <1>3, <1>6, SameContains, SameInsert, SameEntries
     DEF Table!Insert, Atomic!Insert
<1>7. ASSUME NEW k \in Keys, Atomic!Erase(k) PROVE Table!Erase(k)
  BY <1>1, <1>2, <1>3, <1>4, <1>7, SameErase, SameEntries
     DEF Table!Erase, Atomic!Erase
<1>8. ASSUME NEW k \in Keys, NEW c, NEW v, Atomic!Set(k, c, v) PROVE Table!Set(k, c, v)
  BY <1>1, <1>2, <1>3, <1>4, <1>8, SameSet, SameEntries
     DEF Table!Set, Atomic!Set
<1>9. ASSUME NEW k \in Keys, Atomic!InsertExisting(k) \/ Atomic!EraseAbsent(k)
      PROVE  Table!InsertExisting(k) \/ Table!EraseAbsent(k)
  BY <1>1, <1>9, SameContains
     DEF Table!InsertExisting, Atomic!InsertExisting, Table!EraseAbsent, Atomic!EraseAbsent
<1>10. ASSUME Atomic!Begin PROVE Table!Begin
  BY <1>1, <1>2, <1>10, SameEntries DEF Table!Begin, Atomic!Begin
<1>11. ASSUME Atomic!Commit PROVE Table!Commit
  BY <1>1, <1>2, <1>11, SameEntries DEF Table!Commit, Atomic!Commit
<1>12. ASSUME Atomic!Rollback PROVE Table!Rollback
  BY <1>1, <1>12, SameEntries DEF Table!Rollback, Atomic!Rollback
<1>. QED
  BY <1>1, <1>5, <1>6, <1>7, <1>8, <1>9, <1>10, <1>11, <1>12
     DEF Table!Next, Atomic!Next

\* So a table with shared buffers is one with copies.
LEMMA CowIsTable == Spec => Table!Spec
<1>1. Atomic!Init => Table!Init
  BY DEF Atomic!Init, Table!Init, Atomic!EmptyDb, Table!EmptyDb, Atomic!NoSnapshot, Table!NoSnapshot
<1>. QED
  BY <1>1, TableSteps, CowCorrect, PTL DEF ImplementsAtomic, Atomic!Spec, Table!Spec

\* To its client the table with shared buffers, indexes and moved rows is a map
\* from keys to rows with transactions, if columns come first (table.hpp:21-25).
\* ClientAssumption says what the constants are: keys are integers, and so on.
THEOREM CowIsStore ==
  ASSUME Table!ClientAssumption, "late_column" \notin Misuse, "column_in_tx" \notin Misuse
  PROVE  Spec => Table!ImplementsRowStore
<1>1. Table!LayoutAssumption /\ Table!TimeAssumption
  BY LayoutAssumption DEF Table!LayoutAssumption, Table!TimeAssumption
<1>2. Table!Spec => Table!ImplementsRowStore
  BY <1>1, Table!RowsCorrect
<1>. QED
  BY <1>2, CowIsTable, PTL

\* The journal replays to what is in the buffers, and the part that a rollback
\* keeps to what is in those of the snapshot, however they are shared.
THEOREM CowReplays ==
  ASSUME Table!ClientAssumption, "column_in_tx" \notin Misuse
  PROVE  Spec => [](Table!ReplayFaithful /\ Table!SnapshotReplays)
<1>1. Table!LayoutAssumption /\ Table!TimeAssumption
  BY LayoutAssumption DEF Table!LayoutAssumption, Table!TimeAssumption
<1>2. Table!Spec => []Table!ReplayFaithful
  BY <1>1, Table!ReplayCorrect
<1>3. Table!Spec => []Table!SnapshotReplays
  BY <1>1, Table!SnapshotCorrect
<1>. QED
  BY <1>2, <1>3, CowIsTable, PTL
=============================================================================
