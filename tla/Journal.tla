------------------------------- MODULE Journal -------------------------------
(***************************************************************************)
(* The write journal of include/eafardb/journal.hpp and src/journal.cpp:   *)
(* its entries, the truncation that rollback uses, and the audit query     *)
(* transaction_ranges().  Timestamps are left to a module of their own.    *)
(***************************************************************************)
EXTENDS Integers, Sequences

AddColumnEntry(col)  == [op |-> "AddColumn", name |-> col.name, type |-> col.type]
InsertEntry(k)       == [op |-> "Insert", key |-> k]
EraseEntry(k)        == [op |-> "Erase", key |-> k]
\* SetI and SetF; a float travels as its bit pattern (value_bits).
SetEntry(t, k, c, v) == [op |-> IF t = "Int64" THEN "SetI" ELSE "SetF",
                         key |-> k, column |-> c, value |-> v]
BeginTx              == [op |-> "BeginTx"]
CommitTx             == [op |-> "CommitTx"]

\* Mutant of Truncate: off by one.
TruncateOneMore(j, keep) == SubSeq(j, 1, keep - 1)

\* Journal::truncate: keep the first `keep' entries, or all if there are fewer.
Truncate(j, keep) == SubSeq(j, 1, IF keep > Len(j) THEN Len(j) ELSE keep)

\* Journal::transaction_ranges(): one pass over the entries with the start of
\* the last unmatched BeginTx (0 for none).  Positions are inclusive, from 1.
TransactionRanges(j) ==
  LET scan[i \in 0..Len(j)] ==
        IF i = 0 THEN [start |-> 0, out |-> << >>]
        ELSE LET s == scan[i - 1]
             IN  CASE j[i].op = "BeginTx"  -> [s EXCEPT !.start = i]
                   [] j[i].op = "CommitTx" ->
                        [start |-> 0,
                         out |-> IF s.start = 0 THEN s.out
                                 ELSE Append(s.out, <<s.start, i>>)]
                   [] OTHER -> s
  IN  scan[Len(j)].out
=============================================================================
