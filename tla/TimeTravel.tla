------------------------------ MODULE TimeTravel ------------------------------
(***************************************************************************)
(* The table with the clock of its journal (spec S9): every entry carries  *)
(* the time at which it was appended, and replay_at(t) rebuilds the table  *)
(* from the entries stamped at or before t.                                *)
(***************************************************************************)
EXTENDS TableRows

CONSTANT MaxTime     \* bound on the clock

ASSUME TimeAssumption == MaxTime \in Nat

VARIABLES now,      \* what the clock callback answers
          stamps    \* JournalEntry::ts, entry by entry

timeVars == <<schema, pages, saved, journal, now, stamps>>

TimeInit == Init /\ now = 0 /\ stamps = << >>

-----------------------------------------------------------------------------
\* Time passes.
Tick == /\ now < MaxTime
        /\ now' \in (now + 1)..MaxTime
        /\ UNCHANGED <<schema, pages, saved, journal, stamps>>

\* Journal::set_clock installs any clock, and compares it with no entry: the
\* time may go back, and stay behind what entries are stamped with.
SetClock == /\ now' \in 0..MaxTime
            /\ UNCHANGED <<schema, pages, saved, journal, stamps>>

\* Mutant of Stamp: the history is stamped again when it is read.
Restamp == stamps' = [i \in DOMAIN journal' |-> now] /\ UNCHANGED now

\* Journal::stamp, on the entry that the operation appends.
Stamp == stamps' = Append(stamps, now) /\ UNCHANGED now

TimedAddColumn(col) == AddColumn(col) /\ Stamp
TimedInsert(k)      == Insert(k) /\ Stamp
TimedErase(k)       == Erase(k) /\ Stamp
TimedSet(k, c, v)   == Set(k, c, v) /\ Stamp
TimedBegin          == Begin /\ Stamp
TimedCommit         == Commit /\ Stamp
TimedRefused(k)     == (InsertExisting(k) \/ EraseAbsent(k)) /\ UNCHANGED <<now, stamps>>

\* Journal::truncate takes the entries away with their stamps.
TimedRollback == /\ Rollback
                 /\ stamps' = Truncate(stamps, saved.journal_size)
                 /\ UNCHANGED now

TimeNext ==
  \/ Tick \/ SetClock
  \/ \E col \in Columns : TimedAddColumn(col)
  \/ \E k \in Keys : \/ TimedInsert(k) \/ TimedErase(k) \/ TimedRefused(k)
                     \/ \E c \in DOMAIN schema, v \in Values : TimedSet(k, c, v)
  \/ TimedBegin \/ TimedCommit \/ TimedRollback

TimeSpec == TimeInit /\ [][TimeNext]_timeVars

-----------------------------------------------------------------------------
\* Mutant of ReplayAt: an entry of time t itself is left out.
ReplayBefore(j, ts, t) ==
  LET run[i \in 0..Len(j)] ==
        IF i = 0 THEN EmptyDb
        ELSE IF ts[i] >= t THEN run[i - 1] ELSE ReplayStep(run[i - 1], j[i])
  IN  run[Len(j)]

\* Table::replay_at: later entries are skipped one by one, wherever they are.
ReplayAt(j, ts, t) ==
  LET run[i \in 0..Len(j)] ==
        IF i = 0 THEN EmptyDb
        ELSE IF ts[i] > t THEN run[i - 1] ELSE ReplayStep(run[i - 1], j[i])
  IN  run[Len(j)]

-----------------------------------------------------------------------------
\* "State at t=9999: everything (equals full replay)" (test_time.cpp:73): whatever
\* clocks there were, replay_at of a time that no entry is ahead of gives the table
\* as it is, its uncommitted writes included.  The time on the clock is such a time
\* until a clock is installed that is behind an entry.
PresentExact ==
  \A t \in 0..MaxTime :
    (\A i \in DOMAIN stamps : stamps[i] <= t) => ReplayAt(journal, stamps, t) = db

\* "History is immutable" (spec G9): whatever the table and its clocks do, what
\* replay_at answers for a time before the one on the clock does not change, with
\* one exception: a rollback takes its transaction out of the past.  A time that
\* saw all before the transaction sees the state in which it began, one that saw
\* none of the transaction sees what it saw before.  (If no clock went back, each
\* time is of one kind or the other.)
PastFixed ==
  [][\A t \in 0..(now' - 1) :
       LET before == ReplayAt(journal, stamps, t)
           after  == ReplayAt(journal', stamps', t)
           kept   == 1..saved.journal_size
       IN  IF Rollback
           THEN /\ (\A i \in kept : stamps[i] <= t) => after = [db EXCEPT !.pages = saved.pages]
                /\ (\A i \in DOMAIN stamps \ kept : stamps[i] > t) => after = before
           ELSE after = before]_timeVars
=============================================================================
