----------------------------- MODULE AtomicTable -----------------------------
(***************************************************************************)
(* What eafardb::Table promises its client: a schema, a map of pages, a    *)
(* journal, and transactions that restore the pages and the journal of     *)
(* their beginning.  Pages are values here, so a snapshot is a plain copy; *)
(* CowTable.tla keeps the shared buffers of the code and implements this.  *)
(*                                                                         *)
(* Misuse lists the legal calls that no test or demo of the repository     *)
(* makes and that the table does not survive:                              *)
(*   "late_column"   add_column while pages are materialized               *)
(*   "column_in_tx"  add_column inside a transaction                       *)
(*   "failed_set"    a set call that throws (see CowTable)                 *)
(***************************************************************************)
EXTENDS TableState

CONSTANTS Keys,        \* int64 keys the client uses
          Values,      \* cell values, as bit patterns
          Columns,     \* [name, type] records the client may add
          MaxJournal,  \* bound on the length of the journal
          Misuse

ASSUME ClientAssumption ==
  /\ Keys \subseteq Int
  /\ Zero \in Values
  /\ Columns \subseteq [name : STRING, type : ColumnTypes]
  /\ MaxJournal \in Nat
  /\ Misuse \subseteq {"late_column", "column_in_tx", "failed_set"}

VARIABLES schema,   \* column_names_, column_types_ and type_index_
          pages,    \* pages_
          saved,    \* snapshot_: NoSnapshot or [pages, journal_size]
          journal   \* journal_

vars == <<schema, pages, saved, journal>>

db == [schema |-> schema, pages |-> pages]
InTransaction == saved # NoSnapshot

Init == /\ schema = << >>
        /\ pages = EmptyDb.pages
        /\ saved = NoSnapshot
        /\ journal = << >>

-----------------------------------------------------------------------------
\* Every mutation appends its entry after the table has changed.
Record(e) == Len(journal) < MaxJournal /\ journal' = Append(journal, e)

Store(new) == schema' = new.schema /\ pages' = new.pages /\ UNCHANGED saved

AddColumn(col) ==
  /\ ~HasColumn(schema, col.name)
  /\ "late_column" \in Misuse \/ DOMAIN pages = {}
  /\ "column_in_tx" \in Misuse \/ ~InTransaction
  /\ Store(AddColumnTo(db, col))
  /\ Record(AddColumnEntry(col))

Insert(k) ==
  /\ ~Contains(db, k)
  /\ Store(InsertInto(db, k))
  /\ Record(InsertEntry(k))

\* insert of a key that exists returns without a journal entry.
InsertExisting(k) == Contains(db, k) /\ UNCHANGED vars

\* Erase and Set index the column arrays of a row: on a page whose arrays are
\* shorter than its rows the code leaves the array bounds (undefined).
RowDefined(k) == Contains(db, k) /\ Aligned(pages[PageOf(k)])

\* Mutant of Erase: the entry is forgotten.
EraseUnjournaled(k) == RowDefined(k) /\ Store(EraseFrom(db, k)) /\ UNCHANGED journal

Erase(k) ==
  /\ RowDefined(k)
  /\ Store(EraseFrom(db, k))
  /\ Record(EraseEntry(k))

\* erase of an absent key throws before anything is changed.
EraseAbsent(k) == ~Contains(db, k) /\ UNCHANGED vars

\* set_i / set_f: the column must be of the type of the call.
Set(k, c, v) ==
  /\ RowDefined(k)
  /\ Store(SetIn(db, k, c, v))
  /\ Record(SetEntry(schema[c].type, k, c, v))

\* Mutant of Begin: the length is read after the marker was appended.
BeginThenMeasure ==
  /\ ~InTransaction
  /\ Record(BeginTx)
  /\ saved' = [pages |-> pages, journal_size |-> Len(journal')]
  /\ UNCHANGED <<schema, pages>>

Begin ==
  /\ ~InTransaction
  /\ saved' = [pages |-> pages, journal_size |-> Len(journal)]
  /\ Record(BeginTx)
  /\ UNCHANGED <<schema, pages>>

Commit ==
  /\ InTransaction
  /\ Record(CommitTx)
  /\ saved' = NoSnapshot
  /\ UNCHANGED <<schema, pages>>

\* Mutant of Rollback: the journal keeps the aborted entries.
RollbackKeepsJournal ==
  /\ InTransaction
  /\ pages' = saved.pages
  /\ saved' = NoSnapshot
  /\ UNCHANGED <<schema, journal>>

\* The pages and the journal go back; the schema does not.
Rollback ==
  /\ InTransaction
  /\ pages' = saved.pages
  /\ journal' = Truncate(journal, saved.journal_size)
  /\ saved' = NoSnapshot
  /\ UNCHANGED schema

Next ==
  \/ \E col \in Columns : AddColumn(col)
  \/ \E k \in Keys : \/ Insert(k) \/ InsertExisting(k)
                     \/ Erase(k)  \/ EraseAbsent(k)
                     \/ \E c \in DOMAIN schema, v \in Values : Set(k, c, v)
  \/ Begin \/ Commit \/ Rollback

Spec == Init /\ [][Next]_vars

-----------------------------------------------------------------------------
(* Types.                                                                  *)

IsPageMap(map) == /\ DOMAIN map \subseteq Nat
                  /\ map = [p \in DOMAIN map |-> map[p]]
                  /\ \A p \in DOMAIN map : IsPage(map[p], Keys, Values)

Entries ==
  [op : {"AddColumn"}, name : STRING, type : ColumnTypes]
    \cup [op : {"Insert", "Erase"}, key : Keys]
    \cup [op : {"SetI", "SetF"}, key : Keys, column : Nat, value : Values]
    \cup [op : {"BeginTx", "CommitTx"}]

\* Type correctness of the four variables.
TypeOK ==
  /\ schema \in Seq(Columns)
  /\ IsPageMap(pages)
  /\ InTransaction =>
       /\ saved = [pages |-> saved.pages, journal_size |-> saved.journal_size]
       /\ IsPageMap(saved.pages)
       /\ saved.journal_size \in 0..(Len(journal) - 1)
  /\ journal \in Seq(Entries)

-----------------------------------------------------------------------------
(* Invariants.                                                             *)

\* Whatever the order of inserts, erases (which move another row), sets and
\* rollbacks, every materialized page, in the table and in the open snapshot,
\* keeps its arrays in step, its index exact and its keys its own
\* (table.cpp:126-207, "keeps every column array contiguous and dense").
LayoutCoherent ==
  /\ PagesCoherent(pages, schema)
  /\ InTransaction => PagesCoherent(saved.pages, schema)

\* "A row is an index across the page's arrays" (spec S1): every column array
\* of a page has a cell for each of its rows.
RowsSpanColumns == \A p \in DOMAIN pages : Aligned(pages[p])

\* The journal is the primary source of truth: replaying it from empty gives
\* the very same pages, row order included, at every moment, also in the
\* middle of a transaction (table.hpp:17-19, Table::replay).
ReplayFaithful == Replay(journal) = db

\* And the part of the journal that a rollback would keep replays to exactly
\* the state that this rollback would restore (table.cpp:278-287).
SnapshotReplays ==
  InTransaction =>
    Replay(Truncate(journal, saved.journal_size)) = [db EXCEPT !.pages = saved.pages]

\* transaction_ranges() lists the committed transactions and nothing else:
\* each range runs from a BeginTx to the next marker, a CommitTx; the ranges
\* are in order and apart; the only marker outside them is the BeginTx of the
\* transaction that is open (journal.hpp:79-101).
RangesExact ==
  LET ranges   == TransactionRanges(journal)
      Covered  == UNION {ranges[r][1]..ranges[r][2] : r \in DOMAIN ranges}
      Marker(i) == journal[i].op \in {"BeginTx", "CommitTx"}
  IN  /\ \A r \in DOMAIN ranges :
           /\ journal[ranges[r][1]] = BeginTx
           /\ journal[ranges[r][2]] = CommitTx
           /\ \A i \in (ranges[r][1] + 1)..(ranges[r][2] - 1) : ~Marker(i)
           /\ r > 1 => ranges[r - 1][2] < ranges[r][1]
      /\ {i \in DOMAIN journal : Marker(i)} \ Covered =
           IF InTransaction THEN {saved.journal_size + 1} ELSE {}

-----------------------------------------------------------------------------
(* Action properties.                                                      *)

\* Audit history is append-only: only a commit changes transaction_ranges(),
\* by adding the range of the transaction that it closes; a rollback, which
\* cuts the journal, never removes or shortens a committed range.
AuditGrowsByCommit ==
  [][TransactionRanges(journal') # TransactionRanges(journal) =>
       /\ InTransaction /\ saved' = NoSnapshot
       /\ TransactionRanges(journal') =
            Append(TransactionRanges(journal), <<saved.journal_size + 1, Len(journal')>>)
    ]_vars
=============================================================================
