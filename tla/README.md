# EAFAR-DB in TLA+

EAFAR-DB is an embedded, single-threaded C++20 table store: sparse column
pages, copy-on-write transactions, a write journal with replay, materialized
SUM views and chains of views on them, with two demo programs. This directory specifies it, checks the
specifications with TLC and proves every safety property of the passing runs with TLAPS. Paths below are
relative to the repository; a row of `PROJECT.json` "map" gives the lines that
each definition stands for.

## 1. Inventory

| Component | State | Operations | Talks to |
|---|---|---|---|
| Page storage (`table.hpp` `PageData`, `Page`) | `row_map`, `row_keys`, one array per column and type | append a row, swap-with-last erase, write a cell, detach | held by `Table` through `shared_ptr` |
| Table (`src/table.cpp`) | `column_names_`, `column_types_`, `type_index_`, `pages_`, `snapshot_`, `journal_`, `views_` | `add_column`, `insert`, `erase`, `set_i/f`, `get_i/f`, `begin/commit/rollback`, scans | appends to the journal, then calls `notify_views` |
| Journal (`journal.hpp`, `src/journal.cpp`) | entries with timestamps, clock | append, `truncate`, `transaction_ranges` | written by `Table`, read by `replay` |
| Replay (`Table::replay`, `replay_at`) | - | rebuild a table from entries | calls the `Table` operations |
| View (`view.hpp`, `src/view.cpp`) | `partials_`, `dirty_`, `initialized_`, `cached_`, counters | `on_page_written`, `value` | called back by the table, reads its pages |
| Dependency graph (`dependency_graph.hpp`) | `nodes_`, `edges_` | `declare_node`, `add_edge` | written by the constructor of `DerivedView` |
| Derived view (`derived_view.hpp`, `src/derived_view.cpp`) | inputs, `last_versions_`, `cached_`, `recomputes_` | constructor, `value` | queries its inputs |
| Scan, fuzzy query (`scan_*_impl`, `query.hpp`) | `touched_pages_` | full and ranged scans, filter | reads the pages |
| Galaxy Architect (`demos/galaxy_architect/`) | `cache_` (systems), `fleets_`, `factions_`, the player's position and list of colonies | the commands, `tick_automata` | a program of its own: it does not use the table yet |
| SCADA historian (`demos/scada_time_travel/`) | none | one script | a client of the table |

Nothing runs concurrently: there are no threads and no I/O. What is hard here is
*sequences of legal calls*: a write that reaches a shared buffer, a rollback of which some part of the state is not told, a moved row, a cached value that is
compared with a version of the wrong moment, a clock that is set back, and calls that throw half-way.
What makes each component correct:

* **Pages**: arrays in step, index exact, each cell stays with its key.
* **Table and transactions**: a map from keys to rows; rollback restores all of it; only written pages are copied.
* **Journal and replay**: the journal determines the table at every moment; audit ranges are exactly the committed transactions.
* **Views**: a clean view's value is the sum of the column.
* **Time travel**: `replay_at` of a time that no entry is ahead of is the table, and the past is never rewritten, but by the rollback of the transaction it was part of.
* **Scans**: each stored key once, with the cell that a read gives, in the order of pages and keys.
* **Graph and chains**: no cycle; a query returns the value computed afresh, whatever threw before, and does no unneeded work.
* **Galaxy**: map and lists of it agree, fleets are bounded and land, a retreat ends, and a stronger attacker wins.

Hazards, each at its line, are in `PROJECT.json`.

## 2. Modules

| Module | Stands for |
|---|---|
| `PageLayout` | one page and what the table does to it, as operators |
| `Journal` | entries, `truncate`, `transaction_ranges` |
| `TableState` | the table operations as operators on `[schema, pages]`; `replay` built from them, with its throws |
| `RowStore` | **abstract**: a map from keys to rows with transactions |
| `AtomicTable` | the table as a state machine; page contents are values, so a snapshot is a copy |
| `TableRows` | `AtomicTable` implements `RowStore`; the mapping reads rows as `get_i`/`get_f` do |
| `CowTable` | the table as the code keeps it: a heap of shared buffers, detach on write, buffers freed with their last reference. Implements `AtomicTable` |
| `Doubles` | double arithmetic on a few bits: rounding and NaN |
| `View` | the SUM view: events, `refresh` in page order, its throw |
| `ViewedTable` | `AtomicTable` with views attached and notified |
| `DependencyGraph` | nodes, edges, `add_edge`, the declaring constructor of `DerivedView` with its failures half-way |
| `DependencySearch` | the depth-first search as written, its loop as a recursive function, against reachability |
| `TimeTravel` | `TableRows` with the clock of the journal, a timestamp per entry, and `replay_at` |
| `Scan` | the scans and the fuzzy filter, as operators on `[schema, pages]`, and the order of pages and keys (`Precedes`) |
| `ScannedTable` | what the scans promise of each state of `TimeTravel` |
| `Galaxy` | a turn of the galaxy demo: command, fleets, combat, faction automata, clean-up |
| `ViewChain` | derived views over views: versions, caching, queries |
| `PageLayout_proofs` | what each page operation keeps (lemmas only) |
| `AtomicTable_proofs` | the table, its journal and its audit; also the lemmas on cells, orders and scans that the next two use |
| `History_proofs` | rows (`RowStore`), the past, scans |
| `ViewedTable_proofs` | the views |
| `CowTable_proofs`, `ViewChain_proofs`, `DependencyGraph_proofs`, `Galaxy_proofs` | the module they are named after (`DependencyGraph_proofs` also `DependencySearch`) |
| `MC*` | values for the constants |

So the table is a tower, `CowTable` => `AtomicTable` => `RowStore`; the upper
parts use the middle level (`ViewedTable` extends `AtomicTable`, and measures its
views with `Scan`; `TimeTravel` extends it with the clock, and by `ViewedIsTable` and `TimedIsTable` both are still that table; `ViewChain`
keeps of a view what the interface `ValueSource` shows). `Galaxy` stands alone,
as the demo does.

**State and actions.** One action per `Table` method: `AddColumn`, `Insert`,
`Erase`, `Set` (both `set_i` and `set_f`: the column's type decides), `Begin`,
`Commit`, `Rollback`; `InsertExisting` is the early return, `EraseAbsent` the
throw before any change, `FailedSet` (`CowTable`) the throw after the detach.
Every action includes its journal entry, and in `ViewedTable` the notification
that ends it. `schema` is the three schema vectors, `saved`/`snapshot` the
`Snapshot`, with the journal length of the moment *before* the `BeginTx` marker.
Rows, columns and journal positions count from 1. Pages are numbered by
`(key mod KeyModulus) div PageSize`, which is the cast to `uint64_t`, so -1 lands on
the highest page. Cells are bit patterns in the table and doubles in the views.
The deep copies that `copied_cells_` counts are visible as the buffers that change
name.

**Time.** `Tick` moves the clock on, by any amount up to `MaxTime`; it stands still as
long as it likes, so that many entries share a time. `SetClock` is `set_journal_clock`, which
installs any clock at all, as the code does: one that is behind the last, and behind the stamps of entries, too. Each `Timed*` action is one of `AtomicTable` with the stamp of the entry it appends; a rollback
truncates both. What `replay_at` makes of entries that miss those they depend on is worked out
call by call (`ReplayStep`): it throws where the call throws, and where the call would leave the bounds of
an array it counts as no table.

**Chains.** A query is the list of its steps (`Steps`): the loop of `DerivedView::value` calls `value()` of
each input whatever the others said, so a shared input is visited once for every path, and after each input
compares and remembers its version (`CompareInput`); at the end the value is computed if one has grown
(`CombineInputs`). `Query` takes all the steps. `RefreshThrows` and `CombineThrows` are queries that end at
one of them with an exception and leave what the steps before it did; `MayThrow` says which may.
`AddDerived` may be called over any inputs at any time. One whose inputs have nothing pending (`Growing` is false:
they are up to date, or views of an empty table that were never queried) counts their versions as seen and has
computed nothing from them; so has one whose function threw. The history variable `owing` names the derived views in
that state, until they compute next: it is what `AnswersTruth` excuses, and no action reads it.

**Galaxy.** `phase` and `acting` are the program counter of `main`'s loop: `Move`,
`Colonize`, `Wait` and `Quit` are what `process_cmd` does, `EndOfInput` the end of the input, and `Unknown` a line
that is no command and takes no turn; then `Advance` counts the fleets down, `Land` resolves the arrivals one by one in
vector order, `Explore`, `Expand`, `War` and `Regroup` are `tick_faction` by the state
that its automaton goes to, and `Clean` removes spent fleets. Systems outside `Worlds` are
black holes; `Skies` is the set of galaxies that the generator may produce, for the
random numbers are not modelled. Populations and garrisons saturate at `MaxCount`,
and `retreat_timer` at 3, from where on all values act alike. Both war thresholds
lie between the two values of `pressure`, so that `Border` decides.

**Legal calls the table does not survive.** `Misuse` names them: `"late_column"`
(a column added while pages are materialized), `"column_in_tx"`, `"failed_set"`.
The passing runs leave the first two out (no test or demo makes them) and
violation runs turn them on. In the same way
`RollbackAfterQuery` separates what holds from what does not for the views, and `MayThrow` says what may
throw in a chain.

## 3. Runs

The table, its views and its journal get no fairness and no liveness: every operation
is a call that a client may or may not make, and none of them waits. The galaxy
demo is a program with a loop of its own, and its `Spec` has two fairness conditions. `TurnsEnd` is the code's: once `main` has a
command it runs the turn by itself. `CommandsKeepComing` is an assumption on the input: the player gives the
next command or ends the input, and does not type unknown lines for ever, each of which `main` answers without a
turn; nobody need ever quit, or do anything but wait. A finished game stops, so the runs of the galaxy do not check
for deadlock.

| Run | Shows |
|---|---|
| `history` | two pages, three keys, an integer and a float column, transactions and a clock. The pages stay coherent and `AtomicTable` implements `RowStore`; the journal replays to the table, its part from before an open transaction replays to what a rollback restores, the audit ranges are the committed transactions and only commits add to them; with clocks set forward and back at will, `replay_at` of a time that no entry is ahead of is the table, and what it answers for the past changes by rollbacks only; scans and filters yield each row once, with its cell |
| `cow` | `CowTable` implements `AtomicTable`, failed sets included; a call takes a new buffer for a page only while the open transaction shares the old one, and for one page only |
| `views` | a clean view equals a full scan and no page of it is stale and unmarked, also for a view on an integer column, whose queries throw |
| `dependency_graph` | no cycle, no undeclared end, depth-first search = reachability |
| `chain` | with queries that throw anywhere, in a refresh or in a combine function: chains and diamonds answer the truth, unless a view on the path owes a computation; a second query is idle; nothing off the path is touched, nothing recomputed twice |
| `galaxy` | two galaxies. The player's list of colonies is the map's, though it is never corrected; no dark spot within the sensors of a faction; at most 8 fleets and one per target; no colony changes hands; under the fairness above every target ceases to be under way and every retreat ends |
| `late_column`, `column_in_tx`, `scan_order`, `view_rollback`, `chain_late`, `galaxy_combat` | violations, section 5 |

`views` is about exact sums and about clients that roll back no transaction in which they
queried the view; section 5 says why both are needed.

**Bounds.** `MaxJournal` (5 to 8) bounds the mutations of a history. In `history` it is 5: a column, two rows, a
write and the erase that moves the written row; or a column, two rows, a `BeginTx` and the erase of the first, to be
rolled back; or two columns, two rows and an erase that moves cells of both types. `cow` has one mutation more to put inside a transaction
(7), `views` one (6). Two keys of one page are the least with which an erase moves a row, a third on another page the least
with which a page is left alone; that a type may have several arrays and a page
many rows is covered by the proofs, which bound neither. `MaxTime = 1` splits a history
in a past and a present, at every point, and with clocks that are set back scatters its entries over both. `Ranges` has one range that cuts a page and one over both. `KeyModulus = 8` and
`PageSize = 3` put -1 on a page of its own. One view at a time (`MaxViews = 1`) is
enough because views do not see each other; `MaxWork` bounds its counter, which
a query that throws can raise without a write. Four names give all 666 labelled
acyclic graphs on up to four names, found exactly once each. In the chains three
sources give a derived view over two views, a chain of two, and a derived view over a view and over another one of the same
view, which is visited twice; every step of a query is a place to throw at. `MaxVersion = 3` lets a view
be refreshed, counted in a refresh that throws, and refreshed again. `Precision` is 100, where the sums of these runs are exact.
The worlds of `galaxy` are the homes, a regroup point, two worlds that the player can
reach before the faction does, one at the edge of a colony's sensors and one behind it; in one
galaxy the nearest world is settled by fleets, in the other only by the player, which is
what it takes for the strikes of a war to be launched. `MaxCount = 8` lets garrisons grow past the
player's 3; `galaxy_combat` uses 40, which its counterexample does not reach.

## 4. Proofs

Every invariant and every action property of a passing run is a theorem, and so are both
refinements. The theorems hold for arbitrary constants, under the named `ASSUME`s of the modules (keys are
integers, page size and modulus positive, `Zero` a value, column types known) and what is
said below of the client or of the sizes. The violation runs show what happens to a client that adds a column late or
in a transaction, rolls back what a view has seen, or makes a derived view late.

**The table** (`AtomicTable_proofs`, `PageLayout_proofs`)

* `TypeCorrect`: `TypeOK`. Not inductive alone: an erase reads
  `row_keys[last]`, so the invariant needs `IndexExact` of every page
  (`row_map` and `row_keys` inverse to each other), in the table and in the snapshot.
* `LayoutCorrect`: `LayoutCoherent`, for clients without late columns or columns in a transaction. The work is in
  `PageLayout_proofs`: each page operation keeps `Aligned`, `IndexExact` and `FitsSchema`.
* `ReplayCorrect`, `SnapshotCorrect`: `ReplayFaithful` and `SnapshotReplays`, for clients without columns in a
  transaction, from one invariant: the whole journal replays to the table, and the part that a rollback
  keeps to the table that it restores.
* `RangesCorrect`, `AuditCorrect`: `RangesExact` and `AuditGrowsByCommit`, for all clients. `RangesExact` does not
  say what a rollback does to the ranges, so `AuditInv` adds that, while a transaction is open, the
  journal before its begin has the same ranges as the whole, and no marker is behind the begin.
* `FiniteCorrect`: finitely many pages, also over infinitely many keys.

**What readers see** (`History_proofs`)

* `RowsCorrect`: `AtomicTable` implements `RowStore`, for clients without late
  columns or columns in a transaction. First what each
  page operation does to the cell of each key (an erase may move a row, and no
  other key's cell may change with it), then that `LocalIndex` gives different columns of
  one type different arrays, then what each table operation does to the
  rows, and last one simulation step per action. The invariant is the one of `LayoutCorrect`.
* `PresentCorrect`, `PastCorrect`: `PresentExact` and `PastFixed`, for clocks of any kind and clients without columns in a
  transaction. The invariant adds to the one of `ReplayCorrect` only that there is a stamp per entry (`StampsInv`). A time that no
  entry is ahead of skips nothing (`NoneSkipped`), and an entry stamped now is skipped by every time before now.
  When clocks go back, a time may have seen some entries of a transaction and not all before it; of such a
  time `PastFixed` says nothing when that transaction is rolled back.
* `TimedIsTable`: a table with a clock is a table, so that the theorems above hold of it.
* `ScansCorrect`: `ScanExact`, under the conditions of `LayoutCorrect`, for every set of ranges: a page lists its keys once, and
  lists of pages in ascending order join to a list of all their keys.

**Copy-on-write** (`CowTable_proofs`)

* `BuffersCorrect`: `TypeOK`, which says that the heap holds the buffers referred to and no others. Its
  core is that a page to be detached has a free name for the copy.
* `CowCorrect`: `CowTable` implements `AtomicTable`, for all clients, failed sets included: a step simulation, in which
  the contents of all buffers but the one of the touched page stay as they are, those of the snapshot among them.
* `CowIsStore`, `CowReplays`: the tower joined. With `CowCorrect`, the theorems about `AtomicTable` hold of the
  contents of the buffers: under their conditions `CowTable` implements `RowStore`, and its journal replays to
  what it holds and to what its rollback restores.
* `CopiesOnFirstTouch`: `CopyOnFirstTouch`, for clients that do not combine both kinds of column misuse. (A
  late column in a transaction detaches all pages at once.)

**Views** (`ViewedTable_proofs`). `ViewedIsTable` for all clients, the others for columns before rows and no rollback of a transaction in which a view was queried.

* `ViewedIsTable`: views do not disturb the table.
* `PartialsCorrect`: `CleanPagesExact`. The invariant `ViewInv` adds what makes a rollback harmless: as long as no view was queried in the open
  transaction, a page that differs from the one in the snapshot is marked in each view ever queried.
  This needs no arithmetic, and holds for any values, rounding and NaN included.
* `AnswerCorrect`: `AnswerExact`, for finitely many keys and values in -M..M with `2 * M * |Keys| <= Precision`, so
  that no sum rounds and none is NaN (section 5 says what a NaN does). The invariant gives each view a *memory* `h`: the cells as the view last saw them. The cache
  is the sum of `h`, the partials are its shares by page, and `h` agrees with the table on every page that is not marked; a
  view that is clean remembers what is there. One turn of `refresh` replaces the share of one page.
  Sums are taken by key, so that neither the order of the rows in a page nor the one of the scan
  matters.

**Graph** (`DependencyGraph_proofs`)

* `NoCycles`, `DeclaredOnly`: `Acyclic` and `TypeOK`. Reachability is
  stated with closed sets, so that a new edge needs no induction over paths:
  where the source is not reachable from the dependent, there is a closed set
  with one and not the other, and it separates every edge's ends anew.
* `SearchCorrect`: `DfsDecidesReachability`, for finitely many names that are numbers (for their order). By induction on how much is
  left to visit: a call that does not find the target leaves no edge from a name that it
  visited to one that nobody has visited, and only adds to the shared visited set.

**Chains** (`ViewChain_proofs`), for every number of sources, shape of the graph and `Combine`.

* `AnswersCorrect`: `AnswersTruth`, for all clients, throws of both kinds and late views included. Between queries, each source has the value that its inputs say now, or owes a computation, or something it
  depends on is still pending, to be noticed when it is visited (a version that has moved on, a dirty view).
* `SecondQueryCorrect`, `PathCorrect`: `SecondQueryIdle` and `QueryTouchesPathOnly`, for all clients too, with nothing to excuse.

The three share one argument on a query under way, for the recursion visits a shared input many times: the *first*
visit of a source does all the work. Once `value()` of a source has returned, the source and everything below it is
*settled* (no dirty view, no input whose version is not remembered), a settled source is left alone by every later visit, and until its first
visit nothing but itself touches a source. So each is recomputed once at most, one that is not visited never, and a second
query finds all settled.

**Galaxy** (`Galaxy_proofs`); `Worlds` is any finite set.

* `ColoniesKept`, `EmpireCorrect`: `NoConquest` and `EmpireExact`. Both rest on `NeverStronger`: the
  defense that an attacker meets is a sum over a set of fleets that holds the attacker.
  The invariant says of which type systems and fleets are, and that the fleets in
  `arrivals` have landed and are not touched before the last of them is resolved.
* `FleetsCorrect`, `SensorsCorrect`, `GalaxyTypes`: `FleetsBounded`, `Sensed` and `TypeOK`. The cap of 8 fleets rests on the
  first, for the worlds of the run are too few to reach it. `GalaxyInv` adds that fleets are numbered without a gap (a launch takes the next
  number, a clean-up closes the gaps), that counts keep to their bound, and where the loop is: the factions
  whose turn is over have seen what is around their colonies.

**Induction.** The library's theorems for induction over data take an operator as a parameter, which the provers
cannot instantiate. Where a proof needs one it takes a *set* of numbers that is closed under successor
(`SetInduction`), and of a recursive function it shows that some function satisfies the equation; the
`CHOOSE` by which TLA+ defines it then satisfies it too (`ReplayRuns`, `AuditRuns`,
`TruthExists`, `LoopExists` and others).

**Only model-checked**: `FleetsLand` and `RetreatEnds`, the liveness of the galaxy (fairness is about ENABLED, which the provers do
not handle), and of course the violations.

## 5. What the violations show

* `late_column`: a materialized page gets an empty array for a new column; its rows have no cell there and later accesses leave the array.
* `column_in_tx`: rollback restores pages and journal, not the schema; replay then gives another table.
* `scan_order`: pages are walked in the order of `uint64_t`, so negative keys come after the others, against "ascending key order". `ScanExact` (run `history`, theorem `ScansCorrect`) says what does hold of a scan: every row once, in the order of that walk.
* `view_rollback`: rollback tells no view; one that was queried inside the transaction keeps the undone sum and looks clean.
* `chain_late`: a derived view made over an already queried view answers 0.0. `AnswersTruth` says what holds all the same.
* `galaxy_combat`: an attacker counts as its target's defense, so 10 ships lose against 3 and 10 people. By `ColoniesKept` no attack is ever won: the branch is dead.

Disagreements with the texts of the repository that have no run of their own:

* `set_clock` (`journal.hpp:56`) compares the new clock with no entry, so entries may carry stamps ahead of the clock,
  and `replay_at` of the present time then skips them: it gives another table, or throws where a column or row is missing.
  `tests/test_time.cpp:110-112` itself stamps a column in steady milliseconds and then installs a counter that starts at 0. The clocks of
  `history` do the same, and `PresentExact` asks for the table only at times that no entry is ahead of.
* A derived view remembers the versions of its inputs (`derived_view.cpp:28`) before it combines their values (`:33`). If its
  function throws, the growth is forgotten, and the next query answers the old value without an error. `chain` and
  `AnswersCorrect` include this: such a view owes a computation, and they hold of everything else.
* The cached sum is corrected by differences (`view.cpp:47`). A NaN or an infinity that went into it stays after the cell was
  overwritten, against "result always equals a brute-force full scan" (`tests/test_view.cpp:7`), and so does the rounding of a
  difference: 1e16 overwritten by 1 leaves 0. The partials stay right (`PartialsCorrect` holds of any values).
* The timer of a retreat is counted up (`galaxy.hpp:198`) before it is compared with 0 (`:275`), so the "single recall wave to
  homeworld" of `demos/galaxy_architect/README.md:33` never happens. (It would also overwrite the target before it measures the way.)
  `Regroup` has the branch as it is written, and no state takes it.

Seen while modelling: `replay_at` of the present, inside a
transaction, shows its uncommitted part. A retreat that ends by time leaves the timer at
3, so that a faction pressed back at once does not regroup at all. A set call that throws on a column has already
copied its page. A replayed table's own journal has no transaction
markers (`tests/test_journal.cpp:123` calls it identical and compares the sizes, of a history without transactions).

## 6. Not modelled

* A clock that throws. The default clock does not, and no test installs one that does.
* A combine function that calls back into views or tables, or answers differently for the same values.
* The copy that an erase makes of a page which it then empties (`table.cpp:172`): it is counted in `copied_cells_` and freed at once, and no buffer of the model shows it.
* The galaxy's fog of war (`vision_` is rebuilt for each drawing and read by it alone), its rendering, and the random generator.
* Failed allocations, object lifetime (a view outliving its table, a moved table), writes from inside a scan callback: undefined or outside what the repository does.
* `recomputed_rows_`, names and texts of errors.
* The SCADA demo (a straight script), tests, build files, the external `FuzzyRegistry`.

## 7. Plan

Done: all modules of section 2, and a theorem for every safety property of the passing runs. What is left
is one link between two models: `ViewChain` keeps of a materialized view its `world`, `value`,
`version` and a dirty flag. That the `View` of `ViewedTable` is such a source, step by step, is
read off the code and not yet a theorem.
