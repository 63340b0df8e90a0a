# SMF2Parquet in TLA+

SMF2Parquet converts one file of SMF records (the log of an IBM mainframe) into Parquet files, one
table per record type or subtype, one file per table, system and day. This directory holds the
specifications of its core, the TLC configurations that check them on small instances, and proofs,
checked by the TLA+ proof system, of what matters most for every instance.

Paths below are relative to the repository.

## 1. Inventory

The program (`src/main.cpp`) is single-threaded. `main` maps the input into memory, builds all
sinks (`SinkSet`), runs `mf::process_smf_file`, closes the sinks, prints a report and returns 0; it
returns 1 on wrong arguments and 2 when an exception derived from `std::exception` reaches it.

| component | state | operations | what makes it correct |
|---|---|---|---|
| record loop, `vendor/mf_records/smf_file_reader.h` | file cursor | read an RDW, stop, skip a short record, hand a record over | moves on; every record is handed over once, in order |
| header decoding, `dataset_reader.h`, `smf_reader.h` | record cursor | read the standard or the extended header, peek the subtype | never reads behind the record; header, subtype and triplets are different bytes |
| dispatcher, `main.cpp:234-336` | count per type | count, choose the sinks by type and subtype, parse, write | every record reaches the tables of its type |
| parsers, `vendor/mf_records/smf/*_reader.h` | cursors, the vectors they fill | triplets, section loops, fields of an entry | each announced entry inside the record is parsed, each field that is there is read, none behind the record |
| per-type sinks, `src/sinks/smf*_parquet_sink.h` | column builders | `write`: find the partition, append, report the number of rows; `finish` | all columns grow by the reported number, and the arrays are in the order of the schema |
| routers, `subtype_router_sink.h`, `header_only_sink.h` | a map from subtypes to sinks | create on demand, write, close | one table per subtype, with a name of its own |
| raw sink, `raw_parquet_sink.h` | as the other sinks | write header and body | nothing is dropped |
| partitioned tables, `partitioned_table.h` | map of partitions, one-entry cache, pending counters, total | `get_partition`, `added`, `flush`, `close` | rows reach the file of their system and day, batches stay consistent and bounded |
| file writer, `parquet_table_writer.h` | open file, `closed_` flag, tmp and final name | construct, `write_batch`, `close`, destroy | readers see complete files only |
| dates, `mf_types.h`, `time_convert.h` | none | packed dates, civil days, plausibility | the partition day is the day of the header, or none |
| code pages, packed and floating-point decoding | none | pure conversions | – |
| reporting (`reporting/`), tools, tests | none of the program's | SQL, charts, dumps, generated input | – |

They interact by calls only: loop → `Dispatcher::on_record` → parser → sink → partitioned table →
file writer → file system. Everything is shared by reference inside one thread. What makes the
behaviour hard is failure: every call into Arrow or the file system may throw; an exception unwinds
through the loop and destroys the sinks (which closes open writers); asserts abort the process
without unwinding; the process may be killed at any point; and readers look at the output directory
meanwhile. The other hard part is state that must agree with other state over a long run: the cache
with the map, the pending counter with the builders, a path with the key it stands for, the report
with the files.

`PROJECT.json` lists, under `hazards`, each of these at its line with the properties that cover it.

## 2. Modules

| module | models | depends on |
|---|---|---|
| `OutputPaths` | partition keys, `sanitize`, `make_path` | – |
| `ParquetTableWriter` | the writer class and the files it uses | – |
| `PartitionedTable` | the tables of a run with every failure and kill | `OutputPaths`, `ParquetTableWriter` (INSTANCE) |
| `Dataset` | what a reader of the output may rely on (abstract) | – |
| `Routing` | the dispatcher's switch, table names, close order, report lines | – |
| `BatchRun` | a whole run: the loop, the dispatcher, the sinks, the exit | `PartitionedTable`, `Routing` |
| `SinkLayouts` | the four lists of columns of every sink | `Routing` |
| `ColumnBuilders` | the builders of one partition, one Arrow call at a time | – |
| `RowBuffer` | what the builders promise: a buffer of whole rows (abstract) | – |
| `Sections` | triplets, section loops and section parsers | – |
| `Records` | length test, header, subtype and triplets of a record | `Routing`, `Sections` |
| `Dates` | from the header date and time to day, timestamp and directory | – |
| `PartitionedTableProofs` | theorems about the tables: the invariant, the files, the row counts | `PartitionedTable` |
| `DatasetProofs` | the closing order; the tables implement `Dataset` | `PartitionedTableProofs` |
| `RoutingProofs` | when the files of a run are kept apart; the names of the tables | `OutputPaths`, `Routing` |
| `BatchRunProofs` | theorems about a whole run, end to end, and about its end | `BatchRun`, `DatasetProofs` |
| `RecordsProofs` | theorems about routing and the front of a record | `Records`, `RoutingProofs` |
| `ColumnBuildersProofs` | aligned batches, entries kept, values in their columns; the builders implement `RowBuffer` | `ColumnBuilders` |
| `SectionsProofs` | theorems about the section loops and the fields of an entry | `Sections` |
| `DatesProofs` | theorems about days, directories and timestamps | `Dates` |
| `MCPartitionedTable`, `MCBatchRun`, `MCColumnBuilders` | instances for TLC | |
| `MCDecoding`, `MCRouting` | instances of `Dates`, `Records`, `Sections` and `Routing`, side by side | |

### 2.1 State and actions against the code

**Partitions.** `Partition` is the map key of a `PartitionedTable` (`system_id`, `day`) together with
the table that owns the map. `day` is `NoDate` when the header's date is implausible (`kNoDate`).
`MakePath` keeps what tells the files of one run apart: the table name, the sanitized system id and
the day; customer, output root and run id are the same for all. `PathsInjective` says that no two
partitions share a path. It is an assumption of most theorems and not of the model: where it fails,
the model shows what happens (section 4).

**Files.** An inode is named after the writer that created it, since a writer opens `<path>.tmp`
exactly once. Opening an existing temporary name truncates its inode and leaves two writers with one
inode; the content of such a file is undefined, so `Readable` demands one opener, which also wrote
the footer. `Rename` replaces what has the final name, and has nothing to rename when another writer
took the temporary file away.

**The tables.** `parts`, `builder`, `pending`, `last`, `total` are `parts_`, the Arrow builders, the
`pending` counters, the three cache members and `total_`. `Write` is a sink's `write()`:
`get_partition`, `append`, `added` up to the threshold test. `pc` names the next call of the thread
that can fail: after a full batch `FlushOpen` (lazy construction of the writer) and `FlushWrite`; in
`close()`, for each partition in any order inside a table (an `unordered_map`) and table by table in
`SinkSet::close()` order, `CloseVisit`, the flush, `CloseFinish` (footer) and `CloseRename`. Each has
a failing variant that leads to `unwind`, where `Unwind` runs the destructors and `main` returns 2.
`Crash` is a kill, possible in every state before the exit. `received` is a history variable: the
rows `write()` accepted.

**The run.** `BatchRun` adds the input and the loop. An item of the input is a record of at least 20
bytes with its type, subtype, system, day, the rows it yields for each sink of its route and whether
parsing it returns or trips an assert; or a record too short for a header; or an RDW without data; or
one that overruns the file. `LoopEnds`, `SkipShort` and `OnRecord` are the branches of
`process_smf_file`; `WriteNext` makes the sink writes of the record at hand one after the other (a
74-2 record has two). `fault` is a history variable that tells failures of the environment from those
of the program. Every step of a run is a step of `PartitionedTable` or leaves its variables alone.

**Columns.** A sink keeps four lists that nothing in C++ ties together: the members of its `Builders`
struct, `schema()`, the calls in `append()` and the arrays in `finish()`. `SinkLayouts` has each list
translated from its own part of the source, for the 29 sinks of `SinkSet` and the header-only tables
of the routers. A builder is named for its column; a value is the field it comes from and the
conversion on the way (`Hundredth`, `Hex`, "narrowed"). `ColumnBuilders` runs one such table: `Write`
and the two append actions are `append()`, one `Append` of Arrow a step; `Added`, `Close`,
`FinishColumn` and `MakeBatch` are `added`, `close`, one `fin` of `finish()` and the end of `flush`;
`CallFails` is an `arrow_ok` that throws, possible at each of these calls. What `PartitionedTable`
does in one step (`Write`, `FlushWrite`) is here taken apart; `RowBuffer` is the step seen from
outside.

**Records.** `Records` follows the front of a record: `CheckLength` is the test for 20 bytes in
`process_smf_file`, `ReadHeader` is `read_smf_header`, called by the loop and again by the parser,
`Dispatch` the `peek_subtype` and the switch, `ReadSubtype` and `ReadTriplet` what the parser reads
before any section. `Triplets` holds the offsets of each parser, which are constants of its own; a
triplet of the short form (types 71, 98, 113) is asked for with `can_read` and otherwise left
uninitialized, the others are asserted. `read` is a history variable: which bytes were taken for what.

**Sections.** A section parser is a list of steps (`Read`: ask for n bytes and take them; `Take`,
`Skip`: do not ask; `ReadAt`: ask, then seek). `Walk` is the parser's run over an entry of a given
length, the cursor and the fields read after each step, as a recursive function; `Fields` is what it
has read at the end.
`ReadSection` and `BoundCount`/`ReadEntry` are the two ways from a triplet to entries:
`make_section_reader`, and the loop under `safe_count`. Triplets hold arbitrary words, so the inputs
include what an uninitialized triplet may hold.

**Dates.** A header date is kept as its eight nibbles, of which the last is the sign; nothing in the
code checks that the others are digits. `StoredUnder` is what one header gives: partition key,
timestamp and the directory, the last computed back from the key. `NextDay` is a record of the next
day.

## 3. Runs that pass

| run | instance | question |
|---|---|---|
| `one_table` | one table, a plain and an empty system id, a day and no day; batches of 2, up to 2 rows a record, 3 rows | are rows routed, counted, conserved and published exactly once, whatever fails? |
| `two_tables` | two tables, one system, a day and no day; 2 rows each | is the inductive invariant invariant, is what a failed run leaves a prefix of the closing order, does the detail implement `Dataset`? |
| `batch_run` | every input of up to 3 items out of 10 kinds | does the output, and the report, match the input; does every run end, and every step bring the end nearer? |
| `columns` | every sink and two router tables; 3 records of up to 2 entries, batches of 2, any call failing | are batches aligned, typed and in the right columns, do the builders implement `RowBuffer`? |
| `decoding` | dates of 13 years and of none; 35 section parsers around each of their bounds; 16 types × 16 subtypes; records of 15 to 88 bytes of every parser, with both headers | is a row stored under its day, is every entry and field that is there read and no other, is each routed table closed and reported, what can abort? |

The properties:

* `RowsRouted`: the cache never answers with another partition, and rows wait in, and are written to,
  the file of their own system and day.
* `BatchesConsistent`: the counter handed to `RecordBatch::Make` is the length of the builders, and a
  full batch is flushed at once.
* `RowsConserved`: an accepted row is either in the builders or in the file, never both, and `total_`
  counts it.
* `VisibleComplete`: a file with a final name is a finished Parquet file with every row of its
  partition, in every state, also after failures and kills.
* `CompleteAtExit`, `EndToEnd`: a run that returns 0 published every row, exactly as many as the input
  has for each table, system and day, and left no temporary file.
* `VisibleNeverChanges`: a visible file is never rewritten.
* `VisiblePrefix`: what a failed run leaves is a prefix of the closing order.
* `ImplementsDataset`: the refinement of `Dataset`. The mapping shows a reader's view: `visible[f]` is
  what the file of that name holds, `status` is reading, publishing, success or failure by `pc`.
* `ReportTruthful`: the printed record and row counts are those of the input and of the files.
* `FailuresExplained`: only the environment, or a record whose parsing aborts, keeps a run from
  returning 0; no rename of `close()` ever misses its temporary file.
* `EventuallyEnds`: every run ends. `StepsLeftShrink`: every step, also one that fails, leaves fewer steps
  to take, so a run has a number of steps bounded by the number of RDWs in its input.
* `RefinesTables`: a run is a behaviour of `PartitionedTable`.
* `ColumnContract`: the four lists of each table agree; this is the contract DESIGN.md has the author
  of a sink keep.
* `BatchesAligned`: a batch has an array per column, of its type, as long as the row count, and the
  values of a row come from one entry of one record, whatever call failed before.
* `NoEntryLost`: every entry the reader of a subtype puts into its vector becomes a row, pending or in a
  batch.
* `FieldsReachTheirColumns`: the value of a field is never in the column of another one.
* `ImplementsRowBuffer`: one value at a time, the builders buffer and hand over whole rows, in order
  and once.
* `FiledUnderItsDay`: the day number is that of the calendar, and the directory computed back from it is the
  date of the header. `OffCalendarIsMarked`: a date on no calendar has no day or the last of its own year.
  `TimeInItsDay`: timestamp column and directory agree.
* `ReadsInsideRecord`, `EntriesThatFit`: whatever a triplet holds, no read leaves the record, and
  exactly the announced entries that lie in it are parsed. `FieldsInPlace`, `LongEntriesComplete`: a
  field is read where it is or not at all, and from a certain length on nothing is left out.
* `RoutedIsClosed`, `RoutedIsReported`: each routed table is closed once and printed by `report()`.
  `NamesDistinguish`: only type 113 has two tables of one name.
* `ParserAgrees`: what the switch routes to a parser, the parser accepts; only type 98, which is
  routed whole, is given up on. `OneMeaning`: no byte is read as two things.
* `AbortsExplained`: a complete list of the records that abort a run: an extended header of 20 to 31
  bytes, a record that ends before the triplets of its parser, a specific section of type 1154 with 4
  to 15 bytes. `OutsideOnlyByWrap`: the parser's test of that section keeps its reader in the record, unless
  offset plus length does not fit in 32 bits.

**Bounds.** With batches of 2 rows and records of up to 2 rows, the threshold is missed, met and
overshot; 3 rows in one table reach a second batch of one partition, a partition closed with a
pending rest after a flush, one that never filled a batch, and one without rows. Two systems and two
days make every cache hit and miss; two tables make the closing order matter. Three items reach
every pair of records before each way the loop can end. The bounds `MaxRows`, `RecordRows` and
`MaxItems` only limit how much input there is; the code has no limit.

In `columns`, three records of at most two entries reach a batch that is met, overshot, and a rest at
`close()`, each list failing at each place before and after a batch. In `decoding`, the years are
those around the epoch, the leap rule of 4, 100 and 400 years and the upper bound, each day by day;
the lengths of an entry lie around the minimum its parser asks for and around the length from which
on it reads everything; a section ends in, at and behind the record and has none, one, two, three
entries or more than there is room for; a record has every length up to the end of the longest list of
triplets. `MaxU32` stands for 2^32 - 1: TLC has no larger integers, and only the sum of two words,
the test against the record and the wrap depend on it. The four parts of `decoding` share no state,
so a behaviour is about one of them.

**Fairness.** `BatchRun` assumes weak fairness of `Thread`, the steps the program takes by itself:
there is one thread, no lock and no wait, so a step that can be taken is taken. Failures and kills
are not fair: they may happen or not. `PartitionedTable` has no fairness, since its caller may write
for ever.

## 4. Runs that show a disagreement

Each checks one property that a document or a comment states and the code does not keep; the
counterexample is the shortest way there. `PROJECT.json` quotes the lines.

| run | what happens |
|---|---|
| `failed_run_leaves_files` | a kill, or a failure, after the first rename of `close()` leaves visible files, where `parquet_table_writer.h` promises no visible output of a crashed run |
| `systems_share_a_file` | two system ids that `sanitize` maps to one name: the rename of the second partition replaces the file of the first |
| `rows_of_113_lost` | a 113-1 and a 113-0 record of one system and day: the parsing sink and the router both name their table `smf113`, and the rows of the first are lost with exit status 0 |
| `record_without_rows` | a 72-3 record without service class periods leaves no row anywhere |
| `loop_stops_early` | an RDW without data, or one that overruns the file, ends the loop, and the run returns 0 |
| `bad_record_aborts` | a record with a valid header and too few bytes for its parser aborts the process |
| `fields_lost` | `can_read` counts from the cursor, but several section parsers ask it for the end of a field at a fixed offset: entries of the test generator lose a field that is in them |

Reading the code for the models showed more that no run checks:

* `smf30_reader.h:226` gives the order of a triplet as offset, count, length; `read_triplet` reads
  offset, length, count.
* The test generator puts the fields of a 74-2 path at other offsets than the parser reads, the FTP
  flag at 111 where the parser reads 115, and the triplets of types 70-1, 72-3 and 73 at 22 where
  the parsers read 26; the golden files of the regression script are the program's own output (`update`), so they do not show it.
* `report()` prints the rows of the router of type 76 twice, once under `smf76`.
* `read_smf1154` is called for every subtype, so a record of type 1154 without a sink of its own can
  still abort.

## 5. Proofs

Every theorem below holds for all values of the constants: any tables, systems, days, items, header
dates, record sizes and thresholds. What is assumed is named with the theorem; `PathsInjective` (no
two partitions of the run share a file) is the one that matters.

### The tables

`PartitionedTableProofs` proves `TypeCorrect` (no assumption but those on the constants) and, under
`PathsInjective`, `Invariance`, `RoutingCorrect`, `VisibleFilesComplete`, `ExitZeroIsComplete` and
`VisibleFilesStable`.

None of these properties is inductive. The invariant behind them, `IInv`, has these parts.
`ControlInv` ties `pc` to the partition at hand. `CacheInv` says that a cached partition is the one
its key names. `LifeInv(p)` says, for each stage in the life of the writer of `p`, what its file is:
for example that an ended writer still has the temporary name, that its inode is its own and that it
wrote the footer, which is what makes the rename publish a readable file. `RowsInv(p)` says where the
rows received for `p` are: in the builders or in the file, disjointly, while the run is alive, and all
in the file once the writer has ended. `NumberInv` makes a new row differ from every earlier one.
After a failure nothing is claimed about builders and open files any more, only about ended and
renamed ones; lemma `DeadStep` handles every step into a failed state. TLC checks `IInv` in the run
`two_tables`; there is a lemma per action, and `NextInv` combines them.

The same module proves `BatchesAreConsistent` and `RowsAreConserved` from `CountInv`, which relates
`pending` and `total` to the cardinality of the builders and of the rows received. A write adds a set
of exactly `n` rows (`NewRowsCount`) that is disjoint from all earlier ones (`NumberInv`), so both sides
grow by `n`; a flush restarts both; no other step of a running program touches either.

`DatasetProofs` proves `TablesPublishedInOrder` from `OrderInv`: when the loops of `close()` have
reached a partition, every partition of an earlier table is dealt with, that is visited, no longer at
hand, and renamed if rows were received for it. This survives a failure, since a failed run renames
nothing.

It also proves `TablesImplementDataset`, the refinement. `RefineInit` maps the initial states;
`RefineStep` maps `Write` to `Receive`, `EndOfInput` to `StopReading`, `CloseRename` to `Publish` (the
file was not there before, by `LifeInv`, and has all its rows, by `RowsInv`), `CloseDone` to `Succeed`
(every row is published, by `ExitFacts`), every failure and kill to `Fail`, and everything else to a
stutter, because a step that renames nothing leaves what a reader sees unchanged (`NothingVisible`).

### When the assumption holds

`RoutingProofs` says when `PathsInjective` holds: when all system ids consist of letters and digits
and no two tables have one name (`PlainIdsKeepFilesApart`); and that it fails whenever two system ids
become one in `sanitize`. `ProgramKeepsFilesApart` puts in the tables of the program: only the sink of
type 113 and the router for its subtype 0 have one name, so a run without records of both kinds
keeps its files apart, and the theorems about runs hold of it; `CountersShareFiles` says that with
both it never does.

### A whole run

`BatchRunProofs` proves `RunRefinesTables`: `RunSpec` implies `PartitionedTable!Spec`, for every set of
items. So the theorems about the tables carry over, and `RunVisibleComplete`, `RunCompleteAtExit`,
`RunPublishesInOrder` and `RunImplementsDataset` are corollaries. `BatchTypeCorrect` needs the writes
left of a record to be writes a sink can make.

The others relate output and input, and rest on `RunInv`. `LoopInv` says that the items before `pos`
did not stop the loop, and what is left to write of the record at hand. `RowsMadeInv` compares, for
each partition, the rows received with those the items read so far ask for. The latter are counted
as a *set*, `RowsMade(p)`, of triples of position, write and number: a step adds the rows of one write
to both sides, and no theorem about folding a sequence is needed. `TypeCountInv` does the same for the
records the loop counts by type. From these, `IInv` and `CountInv`: `FailuresAreExplained` (a run
fails by itself on an assert only), `RunEndToEnd` (a run that returns 0 leaves exactly the rows its
input asks for, in the partition it asks for) and `RunReportTruthful` (and reports them), the three
under `PathsInjective`.

`RunsAreFinite` proves `StepsLeftShrink`, and that a run has at most `23 + 20 * MaxItems` steps, without
`PathsInjective`. `StepsLeft` is the number of steps a run can still take. An RDW costs at most 20: the
step of the loop and two sink writes of at most 8 each (the write, opening and writing a batch, and five
steps to flush and close the partition it may have made), the rest being slack. A partition that
`close()` has not visited costs five, and an exception one more step before the end. The invariant
behind it, `FiniteInv`, is
small: the partitions not yet visited are finite in number (a write makes at most one), and none is
visited while records are read. What `EventuallyEnds` asks beyond this is only that the thread is not
left standing while it has a step to take.

### Records and routing

`RecordsProofs` proves, for all types and subtypes that are natural numbers, `EveryTableIsClosed`
(closed, and closed once), `EveryTableIsReported` and `TableNamesDiffer`. TLC can only try a list of
types; the proofs split on the cases of the switch.

About the front of a record it proves `ParsersAgree`, `AbortsAreExplained`, `OutsideMeansWrapped` and
`BytesMeanOneThing`, for records of every size. `RecordsInv` says for each stage how much of the record
is known to be there and which fields were read. For `BytesMeanOneThing`, the fields lie one behind
the other: a parser's triplets start at a floor behind the header and subtype and each is 8 bytes,
so two that overlap are one. Reading past the end of a record is possible within its first 86 bytes
only, which makes the list of aborting records complete. For `OutsideMeansWrapped`, a section reaches
behind the record by its offset and length, and the test passed on their 32-bit sum: the two differ, so
the sum wrapped. TLC checked `RecordsInv` as an invariant of
`MCDecoding` before it was proved.

### Columns

`ColumnBuildersProofs` proves `BuildersTypeCorrect` and `BatchesAreAligned` under `TablesKeepContract`
(every table of the instance satisfies `Contract`, which is what `ColumnContract` checks for the real
ones). The invariant says, for each place in `append()` and `finish()`, how long each column is and
which rows it holds: while row *r* is appended, the columns already passed have one cell more than
the others; while column *i* is finished, the arrays before it hold the rows and their builders are
empty. After a failure nothing is claimed about the builders, only about the batches, and no step
adds one.

`BuildersImplementRowBuffer` is the refinement of `RowBuffer`, under the same assumption. `Write` is
`Take`, `Added` is `Enter`, `MakeBatch` is `Hand`, `Close` of empty builders is `CloseEmpty`, `CallFails` is
`Break`; single appends and finished columns stutter. Alignment is not enough for it: `Enter` wants
the rows of a record that has none in the buffer or in a batch yet, and `Hand` a buffer with rows.
`RowsOrdered` adds that: the rows buffered and handed over belong to records written so far, and to
earlier ones than the record at hand as long as `append()` runs; a flush has rows pending. TLC
checked `RowsOrdered` on the states of the run `columns` first.

`EveryEntryKept` proves `NoEntryLost` for tables that also take what their reader fills
(`TablesTakeEntries`: the sink does not turn down its own subtype, and the vector it loops over is one
the reader of that subtype fills). The invariant, `RowsCounted`, says that the entries owed are the rows
pending, those `append()` is at, and those of the batches. The rows of the batches are counted as a set
of pairs of batch and row (`RowsHanded`), so a flush adds `pending` pairs (`BatchCounted`) while the
counter is reset.

`ValuesReachTheirColumns` proves `FieldsReachTheirColumns` for tables whose `append()` puts no field into
two columns, nor into another column than the one of its name (`TablesKeepFieldsApart`). The invariant,
`FieldsCarried`, follows the values: a builder, the array finished from it and the array of that place
in a batch hold only values of fields that `append()` puts into that column. That the place in a batch is
the place in `schema()` is `Contract` again.

The hypotheses of these theorems are about the lists of a table alone. That the real tables satisfy them
is what the run `columns` shows: `Contract` is its invariant `ColumnContract`, and a table that broke one
of the other two would break `NoEntryLost` or `FieldsReachTheirColumns` with its first records, which
the run has for every table.

### Sections

`SectionsProofs` proves `AnnouncedEntriesParsed` for every triplet and every record size. The argument is
one of division: `safe_count` is the number of whole entries between the offset and the end (`SafeCount`
is the cardinality of `Whole`), so the loop runs to its bound and the `break` in it is never taken. The
invariant relates the entries left to the entries found.

`ReadsStayInRecord`, `ShortEntriesMoveNothing` and `LongEntriesYieldAll` prove `ReadsInsideRecord`,
`FieldsInPlace` and `LongEntriesComplete` for the 35 section parsers and entries of every length, where
TLC tries the lengths around each bound.

* What a parser reads is computed step by step (`Walk`). The library's induction theorems take an
  operator, so the induction over the steps goes through the least element of a set of numbers, a fact
  whose parameters are constants (`WFMin`, `LeastNumber`, `UpTo`); `WalkUnfolds` is the recursion equation
  of `Walk`.
* `Orderly` is a criterion on the list of steps alone. It gives each step its place in the entry. The first
  steps lie in the least length the parser accepts, so they are always taken. Behind them there are either
  only steps to fixed offsets, each of which asks for enough, or only steps from the cursor, of which none
  that reads a field asks for less than one before it: once a step is left out, the fields behind it are,
  too. That a parser which passes reads inside the entry, moves no field when the entry is short, and
  reads everything from its length in `Complete` on, is proved once (`FieldsFit`).
* There is a lemma per parser (`Id30Orderly`, ...) that gives its places. `can_read` counts from the
  cursor, and some parsers ask it for the end of a field at a fixed offset; for these `Complete` is larger
  than the end of the last field.

### Dates

`DatesProofs` proves `DaysAreFiled`, `BadDatesAreMarked` and `TimesAreInTheirDays` for every header date,
that is any eight nibbles, and every raw time. The run visits the days of 13 years; the proof covers
the eight thousand years that are plausible. Most of it is about the calendar, not about the stream
(whose invariant `DatesInv` only says that the row at hand is that of its header):

* `MonthFound` and `MarchYear` place a day of a year in its month, and in the year that starts in
  March, where `(5 * doy + 2) / 153` is the month again.
* `YearParts` takes a year of an era apart into centuries, groups of four and single years, and
  `DayOfEra` shows that the estimate `(doe - doe/1460 + doe/36524 - doe/146096) / 365` gives the year
  back: the three corrections cancel the leap days exactly, also on the last day of an era.
* `ThereAndBack` and `MarchDayCounts` combine them: `civil_from_days` inverts `days_from_civil`, and
  the number counts the leap days before it.
* `DayZero`, `LastDay` and `BehindTheYear` are the dates off the calendar.

The assumption is that a date is eight nibbles, a time is not negative and `kNoDate` is no day from
1970 on.

### Assumptions on constants

The batch size is positive, the bounds and the ranks of the tables are natural numbers, the two
sentinels are not partitions, header dates are nibbles; an item's rows match its route, and tables
have the names and ranks of `Routing`.

### Model-checked only

* `EventuallyEnds`: liveness under fairness is beyond the prover. Its safety part, that a run cannot go on
  for ever, is `RunsAreFinite`.
* `ColumnContract`: it evaluates the lists of the 29 sinks and the router tables in `SinkLayouts`. These
  lists have no parameter, so TLC's enumeration is complete; a proof would repeat it.
  The theorems about columns are for any tables that satisfy it.
* The runs that expect a violation, which are about one behaviour each.

## 6. Not modelled

* The values in the rows: a value is the field it came from. Conversions of a value (the product
  `* 1024` of type 77, which wraps in 32 bits; the narrowing of `record_type`; EBCDIC letters outside
  ASCII in a utf8 column) are named or left out, not computed.
* Of the parsers: the section loops of type 113 (its counters are read every 8 bytes, whatever the length
  of an entry), what a parser keeps of the entries (type 73 drops paths that are not valid, 70-1 adds
  up processors), and the inner triplet of type 1154.
* The number of rows a record gives and whether parsing it aborts are inputs of `BatchRun`; `Sections`
  and `Records` say which records give which, but the three are not composed: every combination of
  outcomes is in the input of `BatchRun` already.
* A record of a type up to 255 with an extended header: the parsers seek to the offsets of the
  standard header, so they read its subsystem id as part of a triplet. `OneMeaning` leaves it out.
* A host crash (lost writes before the rename) and two processes with one run id.
* The build without Arrow, which only counts.
* Code pages, zoned and floating-point decoding, the TOD clock, `smf99_reader.h` (no caller),
  reporting, tools and tests: pure conversions, unused, or outside the program.

## 7. Plan

1. (done) `OutputPaths`, `ParquetTableWriter`, `PartitionedTable` with `Dataset`; `Routing`; `BatchRun`.
   Proofs of the inductive invariant, of every safety property of the tables, of the refinement of
   `Dataset` by the tables and of the tables by the run.
2. (done) `Sections` and `Records`; `SinkLayouts`, `ColumnBuilders` and `RowBuffer`; `Dates`. Proofs of
   the alignment of batches and of the bounds of the section loops.
3. (done) Proofs about the input and the output of a run, about routing and the front of a record, of
   the refinement of `RowBuffer` by the builders, and of the calendar.
4. (done) `Walk` as a recursive function, and with it the proofs about the fields of an entry; proofs that
   no entry is lost and that values reach their columns, for any tables; the bound on the steps of a run.
5. (open) The section loops of type 113 and the inner triplet of type 1154 in `Sections`.
