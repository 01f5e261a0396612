------------------------------ MODULE CowTable ------------------------------
(***************************************************************************)
(* eafardb::Table as src/table.cpp keeps it: the page map holds shared     *)
(* pointers to page buffers, begin_transaction() copies the pointers only, *)
(* and every write first detaches a buffer that somebody else holds too.   *)
(* A buffer is freed with its last reference.  The module implements       *)
(* AtomicTable, where a snapshot is a copy of the contents.                *)
(***************************************************************************)
EXTENDS TableState

CONSTANTS Keys, Values, Columns, MaxJournal, Misuse

VARIABLES schema,
          pages,     \* page id -> buffer
          heap,      \* buffer  -> PageData, the buffers that are alive
          snapshot,  \* NoSnapshot or [pages, journal_size], pages: buffers
          journal

vars == <<schema, pages, heap, snapshot, journal>>

InTransaction == snapshot # NoSnapshot

BuffersOf(map) == {map[p] : p \in DOMAIN map}
SnapshotBuffers == IF InTransaction THEN BuffersOf(snapshot.pages) ELSE {}

\* What a reader of the page map sees, and what rollback would restore.
Contents(map) == [p \in DOMAIN map |-> heap[map[p]]]
db == [schema |-> schema, pages |-> Contents(pages)]
SavedContents ==
  IF InTransaction THEN [pages |-> Contents(snapshot.pages),
                         journal_size |-> snapshot.journal_size]
                   ELSE NoSnapshot

\* use_count() > 1 for the buffer of page p.
Shared(p) == \/ pages[p] \in SnapshotBuffers
             \/ \E q \in DOMAIN pages \ {p} : pages[q] = pages[p]

\* make_shared: a buffer not in use.  Buffers are named after the page they
\* are allocated for, so that the number of names stays finite.
Generations == {0, 1}
FreshBuffer(p) == <<p, CHOOSE g \in Generations : <<p, g>> \notin DOMAIN heap>>

Init == /\ schema = << >>
        /\ pages = EmptyDb.pages
        /\ heap = [b \in {} |-> 0]
        /\ snapshot = NoSnapshot
        /\ journal = << >>

-----------------------------------------------------------------------------
Record(e) == Len(journal) < MaxJournal /\ journal' = Append(journal, e)

\* Mutants of Detached: the shared buffer is written in place; the test
\* of use_count() is missing, so that every write copies its pages.
WriteInPlace(P) == pages
CopyAlways(P) ==
  [p \in DOMAIN pages |-> IF p \in P THEN FreshBuffer(p) ELSE pages[p]]

\* Page::detach, for each page of P.
Detached(P) ==
  [p \in DOMAIN pages |-> IF p \in P /\ Shared(p) THEN FreshBuffer(p) ELSE pages[p]]

\* The page map becomes map and the data is written through it; whoever else
\* holds one of its buffers sees the data too.
WriteThrough(map, data) ==
  /\ pages' = map
  /\ heap' = [b \in BuffersOf(map) \cup SnapshotBuffers |->
                IF \E p \in DOMAIN data : map[p] = b
                THEN data[CHOOSE p \in DOMAIN data : map[p] = b]
                ELSE heap[b]]
  /\ UNCHANGED snapshot

\* Detach the pages of P, then write the new contents of P.
Store(new, P) ==
  /\ schema' = new.schema
  /\ WriteThrough(
       [p \in DOMAIN new.pages |->
          IF p \in DOMAIN pages THEN Detached(P)[p] ELSE FreshBuffer(p)],
       [p \in P \cap DOMAIN new.pages |-> new.pages[p]])

AddColumn(col) ==
  /\ ~HasColumn(schema, col.name)
  /\ "late_column" \in Misuse \/ DOMAIN pages = {}
  /\ "column_in_tx" \in Misuse \/ ~InTransaction
  /\ Store(AddColumnTo(db, col), DOMAIN pages)
  /\ Record(AddColumnEntry(col))

Insert(k) ==
  /\ ~Contains(db, k)
  /\ Store(InsertInto(db, k), {PageOf(k)})
  /\ Record(InsertEntry(k))

\* insert of a key that exists returns before it detaches the page.
InsertExisting(k) == Contains(db, k) /\ UNCHANGED vars

\* Outside Aligned pages the code leaves the array bounds (undefined).
RowDefined(k) == Contains(db, k) /\ Aligned(heap[pages[PageOf(k)]])

Erase(k) ==
  /\ RowDefined(k)
  /\ Store(EraseFrom(db, k), {PageOf(k)})
  /\ Record(EraseEntry(k))

\* erase of an absent key throws before it detaches the page.
EraseAbsent(k) == ~Contains(db, k) /\ UNCHANGED vars

Set(k, c, v) ==
  /\ RowDefined(k)
  /\ Store(SetIn(db, k, c, v), {PageOf(k)})
  /\ Record(SetEntry(schema[c].type, k, c, v))

\* A set of an absent key, of a column that does not exist or of a column of
\* the other type: mutable_page() has detached the page before int_index,
\* float_index or row_of_page throws; nothing is written or journaled.
FailedSet(k) ==
  /\ "failed_set" \in Misuse
  /\ PageOf(k) \in DOMAIN pages
  /\ Store(db, {PageOf(k)})
  /\ UNCHANGED journal

Begin ==
  /\ ~InTransaction
  /\ snapshot' = [pages |-> pages, journal_size |-> Len(journal)]
  /\ Record(BeginTx)
  /\ UNCHANGED <<schema, pages, heap>>

\* Mutant of Commit: the snapshot keeps its buffers.
CommitLeaks ==
  /\ InTransaction
  /\ Record(CommitTx)
  /\ snapshot' = NoSnapshot
  /\ UNCHANGED <<schema, pages, heap>>

\* The snapshot lets go of its buffers; those nobody else holds are freed.
Commit ==
  /\ InTransaction
  /\ Record(CommitTx)
  /\ snapshot' = NoSnapshot
  /\ heap' = [b \in BuffersOf(pages) |-> heap[b]]
  /\ UNCHANGED <<schema, pages>>

Rollback ==
  /\ InTransaction
  /\ pages' = snapshot.pages
  /\ heap' = [b \in BuffersOf(snapshot.pages) |-> heap[b]]
  /\ journal' = Truncate(journal, snapshot.journal_size)
  /\ snapshot' = NoSnapshot
  /\ UNCHANGED schema

Next ==
  \/ \E col \in Columns : AddColumn(col)
  \/ \E k \in Keys : \/ Insert(k) \/ InsertExisting(k)
                     \/ Erase(k)  \/ EraseAbsent(k)
                     \/ \E c \in DOMAIN schema, v \in Values : Set(k, c, v)
                     \/ FailedSet(k)
  \/ Begin \/ Commit \/ Rollback

Spec == Init /\ [][Next]_vars

-----------------------------------------------------------------------------
(* Invariants.                                                             *)

\* A page map refers to live buffers, each allocated for its page.
IsBufferMap(map) ==
  /\ map = [p \in DOMAIN map |-> map[p]]
  /\ \A p \in DOMAIN map : map[p] \in {p} \X Generations

\* The heap holds exactly the buffers that are referenced, at most two for a
\* page, and no two pages of one map share a buffer.
TypeOK ==
  /\ IsBufferMap(pages)
  /\ InTransaction =>
       /\ snapshot = [pages |-> snapshot.pages, journal_size |-> snapshot.journal_size]
       /\ IsBufferMap(snapshot.pages)
       /\ snapshot.journal_size \in 0..(Len(journal) - 1)
  /\ heap = [b \in BuffersOf(pages) \cup SnapshotBuffers |-> heap[b]]

\* A write copies a shared page "on first touch" (table.hpp:22-23): one call
\* changes the buffer of at most one living page, only while a transaction is
\* open, and only if the page still shared its buffer with the snapshot; so no
\* page is copied twice in a transaction (Page::detach).
CopyOnFirstTouch ==
  [][\A p \in DOMAIN pages \cap DOMAIN pages' : pages'[p] # pages[p] /\ ~Rollback =>
         /\ InTransaction
         /\ p \in DOMAIN snapshot.pages /\ pages[p] = snapshot.pages[p]
         /\ \A q \in DOMAIN pages \cap DOMAIN pages' : q # p => pages'[q] = pages[q]]_vars

-----------------------------------------------------------------------------
(* Refinement.                                                             *)

Atomic == INSTANCE AtomicTable WITH pages <- Contents(pages), saved <- SavedContents

\* The shared buffers are invisible: no write of a transaction, and no copy
\* made for it, ever reaches the snapshot, and rollback restores the contents
\* of begin bit for bit (table.hpp:21-25).
ImplementsAtomic == Atomic!Spec
=============================================================================
