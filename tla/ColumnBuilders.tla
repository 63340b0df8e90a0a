--------------------------- MODULE ColumnBuilders ---------------------------
(***************************************************************************)
(* The builders of one partition of a table (the Builders structs of       *)
(* src/sinks): append() puts the values of a record into them, one call of *)
(* Arrow at a time, flush() of PartitionedTable finishes them one by one   *)
(* and makes a record batch of the arrays.  Any of the calls can fail      *)
(* (arrow_ok throws), between any two columns.                             *)
(*                                                                         *)
(* The table is any of Layouts (see SinkLayouts).  PartitionedTable takes  *)
(* the rows of a record for one step; this module is about that step.      *)
(***************************************************************************)
EXTENDS Integers, Sequences, FiniteSets

CONSTANTS
  Layouts,     \* the tables, each with its lists of columns
  BatchRows,   \* batch_rows of PartitionedTable
  MaxRecords,  \* bound: the records written
  MaxEntries   \* bound: the entries of a vector of a parsed record

ASSUME BuilderBounds ==
  BatchRows \in Nat \ {0} /\ MaxRecords \in Nat /\ MaxEntries \in Nat

VARIABLES
  layout,    \* the table
  column,    \* [column name -> Seq(cell)]: what each builder holds
  pending,   \* Part::pending
  at,        \* where the running call is
  rec,       \* the number of records written; the last one is at hand
  n,         \* the rows append() adds for it
  row, pos,  \* the loop over the rows, the place in its list of columns
  arrays,    \* the arrays finish() has so far
  batches,   \* the batches handed to the writer
  closing,   \* close() has been called
  owed       \* history: the rows the records written were to give

bvars == <<layout, column, pending, at, rec, n, row, pos, arrays, batches,
           closing, owed>>

Places ==
  {"idle", "common", "own", "added", "finish", "make", "closed", "failed"}

(* A builder is of the type its member has.                                *)
Columns(l) == DOMAIN l.types

(* A value in a builder: the record and the entry it was read from, the    *)
(* field and the conversion.                                               *)
Cell(put) == [id |-> <<rec, row>>, field |-> put.field, as |-> put.as]

(* The rows append() adds for a record of the sink's subtype with k        *)
(* entries in every vector its reader fills.                               *)
RowsOf(l, k) ==
  CASE l.only # {} /\ l.table.sub \notin l.only -> 0
    [] l.only = {} \/ l.table.sub \in l.only    ->
         IF l.entries = "one" THEN 1
         ELSE IF l.entries \in l.filled THEN k ELSE 0

(* The rows such a record has.                                             *)
RowsDue(l, k) == IF l.entries = "one" THEN 1 ELSE k

BInit ==
  /\ layout \in Layouts
  /\ column = [c \in Columns(layout) |-> << >>]
  /\ pending = 0
  /\ at = "idle"
  /\ rec = 0 /\ n = 0 /\ row = 1 /\ pos = 1
  /\ arrays = << >>
  /\ batches = << >>
  /\ closing = FALSE
  /\ owed = 0

-----------------------------------------------------------------------------
(* write(): append() of a record, which returns at once when there is no   *)
(* row to add, and added(p, 0) then does nothing.                          *)
Write ==
  /\ at = "idle" /\ rec < MaxRecords
  /\ rec' = rec + 1
  /\ \E k \in 0..MaxEntries :
       /\ n' = RowsOf(layout, k)
       /\ owed' = owed + RowsDue(layout, k)
  /\ at' = IF n' = 0 THEN "idle" ELSE "common"
  /\ row' = 1 /\ pos' = 1
  /\ UNCHANGED <<layout, column, pending, arrays, batches, closing>>

(* One Append of the list puts; when the list is done the next row begins, *)
(* and after the last row the part that follows.                           *)
AppendOne(puts, next) ==
  /\ column' = [column EXCEPT ![puts[pos].to] = Append(@, Cell(puts[pos]))]
  /\ IF pos < Len(puts) THEN pos' = pos + 1 /\ UNCHANGED <<row, at>>
     ELSE IF row < n    THEN pos' = 1 /\ row' = row + 1 /\ UNCHANGED at
                        ELSE pos' = 1 /\ row' = 1 /\ at' = next
  /\ UNCHANGED <<layout, pending, rec, n, arrays, batches, closing, owed>>

(* append_n: the common columns of all rows.                               *)
AppendCommon ==
  /\ at = "common"
  /\ AppendOne(layout.common, IF layout.own = << >> THEN "added" ELSE "own")

(* The loop over the entries.                                              *)
AppendOwn ==
  /\ at = "own"
  /\ AppendOne(layout.own, "added")

(* added(): the rows count; flush at the threshold.                        *)
Added ==
  /\ at = "added"
  /\ pending' = pending + n
  /\ at' = IF pending' >= BatchRows THEN "finish" ELSE "idle"
  /\ pos' = 1
  /\ UNCHANGED <<layout, column, rec, n, row, arrays, batches, closing, owed>>

(* close(): flush() returns when nothing is pending.                       *)
Close ==
  /\ at = "idle"
  /\ closing' = TRUE
  /\ at' = IF pending = 0 THEN "closed" ELSE "finish"
  /\ pos' = 1
  /\ UNCHANGED <<layout, column, pending, rec, n, row, arrays, batches, owed>>

(* Mutant of FinishColumn: Finish without the reset of the builder.        *)
FinishColumnKeeps ==
  /\ at = "finish"
  /\ LET c == layout.finish[pos] IN
       arrays' = Append(arrays, [type |-> layout.types[c], cells |-> column[c]])
  /\ IF pos < Len(layout.finish) THEN pos' = pos + 1 /\ UNCHANGED at
                                 ELSE pos' = 1 /\ at' = "make"
  /\ UNCHANGED <<layout, column, pending, rec, n, row, batches, closing, owed>>

(* Mutant of FinishColumn: the list of columns ends one column too late.   *)
FinishColumnPast ==
  /\ at = "finish"
  /\ LET c == layout.finish[pos] IN
       /\ arrays' = Append(arrays, [type |-> layout.types[c], cells |-> column[c]])
       /\ column' = [column EXCEPT ![c] = << >>]
  /\ IF pos <= Len(layout.finish) THEN pos' = pos + 1 /\ UNCHANGED at
                                  ELSE pos' = 1 /\ at' = "make"
  /\ UNCHANGED <<layout, pending, rec, n, row, batches, closing, owed>>

(* finish(): one builder becomes an array and is empty again.              *)
FinishColumn ==
  /\ at = "finish"
  /\ LET c == layout.finish[pos] IN
       /\ arrays' = Append(arrays, [type |-> layout.types[c], cells |-> column[c]])
       /\ column' = [column EXCEPT ![c] = << >>]
  /\ IF pos < Len(layout.finish) THEN pos' = pos + 1 /\ UNCHANGED at
                                 ELSE pos' = 1 /\ at' = "make"
  /\ UNCHANGED <<layout, pending, rec, n, row, batches, closing, owed>>

(* flush(): RecordBatch::Make, write_batch, pending = 0.                   *)
MakeBatch ==
  /\ at = "make"
  /\ batches' = Append(batches, [rows |-> pending, arrays |-> arrays])
  /\ arrays' = << >>
  /\ pending' = 0
  /\ at' = IF closing THEN "closed" ELSE "idle"
  /\ UNCHANGED <<layout, column, rec, n, row, pos, closing, owed>>

(* Mutant of CallFails: the record is given up and the batch goes on.      *)
CallFailsRecord ==
  /\ at \in {"common", "own", "finish", "make"}
  /\ at' = IF at \in {"common", "own"} THEN "idle" ELSE "failed"
  /\ UNCHANGED <<layout, column, pending, rec, n, row, pos, arrays, batches,
                 closing, owed>>

(* A call of Arrow fails: the exception leaves the sink, and main's        *)
(* handler ends the run without another call to it.                        *)
CallFails ==
  /\ at \in {"common", "own", "finish", "make"}
  /\ at' = "failed"
  /\ UNCHANGED <<layout, column, pending, rec, n, row, pos, arrays, batches,
                 closing, owed>>

BNext ==
  \/ Write \/ AppendCommon \/ AppendOwn \/ Added
  \/ Close \/ FinishColumn \/ MakeBatch \/ CallFails

BSpec == BInit /\ [][BNext]_bvars

-----------------------------------------------------------------------------
CellType == [id : (Nat \X Nat), field : STRING, as : STRING]

(* The list of columns the running call goes through.                      *)
ListAt(l, place) ==
  CASE place = "common" -> l.common
    [] place = "own"    -> l.own
    [] place = "finish" -> l.finish
    [] OTHER            -> <<"none">>

(* The type invariant of the builders: append() and finish() stay within   *)
(* their lists, and append() within the rows of its record.                *)
ColumnTypeOK ==
  /\ layout \in Layouts
  /\ column \in [Columns(layout) -> Seq(CellType)]
  /\ pending \in Nat /\ owed \in Nat
  /\ at \in Places
  /\ rec \in 0..MaxRecords /\ n \in Nat
  /\ row \in Nat \ {0} /\ (at \in {"common", "own"} => row <= n)
  /\ pos \in Nat \ {0} /\ (at # "failed" => pos <= Len(ListAt(layout, at)))
  /\ arrays \in Seq([type : STRING, cells : Seq(CellType)])
  /\ batches \in
       Seq([rows : Nat, arrays : Seq([type : STRING, cells : Seq(CellType)])])
  /\ closing \in BOOLEAN

PutType == [to : STRING, field : STRING, as : STRING]
ListsTyped(l) ==
  /\ l.common \in Seq(PutType) /\ l.own \in Seq(PutType)
  /\ l.schema \in Seq([name : STRING, type : STRING])
  /\ l.finish \in Seq(STRING)
  /\ l.types \in [Columns(l) -> STRING]

(* The parts of the column contract between the lists of a table: finish() *)
(* follows schema(), ...                                                   *)
FinishFollowsSchema(l) ==
  /\ Len(l.finish) = Len(l.schema)
  /\ \A i \in 1..Len(l.schema) : l.finish[i] = l.schema[i].name
  /\ \A i, j \in 1..Len(l.finish) : l.finish[i] = l.finish[j] => i = j

(* ... a builder has the type of its column, ...                           *)
TypesFollowSchema(l) ==
  /\ Columns(l) = {l.finish[i] : i \in 1..Len(l.finish)}
  /\ \A i \in 1..Len(l.schema) : l.types[l.schema[i].name] = l.schema[i].type

(* ... and append() appends to every builder, once for each row.           *)
AppendedTo(puts) == {puts[i].to : i \in 1..Len(puts)}
EachOnce(puts) ==
  \A i, j \in 1..Len(puts) : puts[i].to = puts[j].to => i = j
AppendsToAll(l) ==
  /\ l.common # << >>
  /\ EachOnce(l.common) /\ EachOnce(l.own)
  /\ AppendedTo(l.common) \cap AppendedTo(l.own) = {}
  /\ AppendedTo(l.common) \cup AppendedTo(l.own) = Columns(l)

Contract(l) ==
  /\ ListsTyped(l)
  /\ FinishFollowsSchema(l) /\ TypesFollowSchema(l) /\ AppendsToAll(l)

(* The contract DESIGN.md has the author of a sink keep: the four lists of *)
(* every table agree.  The arrays of a batch are matched with the fields   *)
(* of the schema by position, so nothing else would notice two that        *)
(* changed places.                                                         *)
ColumnContract == Contract(layout)

Whole(schema, b) ==
  /\ Len(b.arrays) = Len(schema)
  /\ \A i \in 1..Len(b.arrays) :
       /\ b.arrays[i].type = schema[i].type
       /\ Len(b.arrays[i].cells) = b.rows
  /\ \A i, j \in 1..Len(b.arrays) : \A k \in 1..b.rows :
       b.arrays[i].cells[k].id = b.arrays[j].cells[k].id

(* Every batch handed to the writer has an array per field, each of the    *)
(* type of its field and as long as the row count flush() passes to        *)
(* RecordBatch::Make, which checks neither; and the values of a row all    *)
(* come from one entry of one record, whatever call of append() or         *)
(* finish() failed before.                                                 *)
BatchesAligned == \A b \in 1..Len(batches) : Whole(layout.schema, batches[b])

(* The rows of the batches handed to the writer.                           *)
RowsHanded == UNION {{b} \X (1..batches[b].rows) : b \in DOMAIN batches}

(* What append() of a table takes from its records: it does not turn down  *)
(* the subtype it is the sink of, and the vector it loops over is one the  *)
(* reader of that subtype fills.                                           *)
TakesEveryEntry(l) ==
  /\ l.only = {} \/ l.table.sub \in l.only
  /\ l.entries = "one" \/ l.entries \in l.filled

(* Every entry a reader puts into the vectors of a parsed record becomes a *)
(* row, in a batch or still pending.  Nothing in write(), append() or      *)
(* flush() would notice one that did not.                                  *)
NoEntryLost ==
  at \in {"idle", "closed"} => owed = pending + Cardinality(RowsHanded)

(* The fields append() puts into a table, and that no two columns share:   *)
(* a field goes to one column, and to the one of its name if there is one. *)
PutsOf(l) ==
  {l.common[i] : i \in 1..Len(l.common)} \cup {l.own[i] : i \in 1..Len(l.own)}
FieldsApart(l) ==
  \A p, q \in PutsOf(l) : p.to # q.to => p.field # q.field /\ p.field # q.to

(* In a batch, the value of a field is in one column, and when a column    *)
(* has the field's name it is that one.                                    *)
FieldsKept(b) ==
  \A i, j \in DOMAIN b.arrays : \A k \in 1..b.rows :
    i # j => /\ b.arrays[i].cells[k].field # b.arrays[j].cells[k].field
             /\ b.arrays[i].cells[k].field # layout.schema[j].name

(* No value reaches the column of another field: Append takes any number   *)
(* and Make takes the arrays by position, so two counters of one type that *)
(* cross in append(), or two arrays in finish(), are noticed by nothing.   *)
FieldsReachTheirColumns == \A i \in DOMAIN batches : FieldsKept(batches[i])

(* The cells of a column whose builder may be finished already.            *)
Held(c) ==
  IF \E i \in DOMAIN arrays : layout.finish[i] = c
  THEN arrays[CHOOSE i \in DOMAIN arrays : layout.finish[i] = c].cells
  ELSE column[c]

(* The record and entry all cells of a row were read from, if there is one.*)
Torn == <<0, 0>>
RowId(columns, i) ==
  IF \A x, y \in columns :
       i <= Len(x) /\ i <= Len(y) /\ x[i].id = y[i].id
  THEN (CHOOSE x \in columns : TRUE)[i].id
  ELSE Torn

BufferedRows ==
  [i \in 1..pending |-> RowId({Held(c) : c \in Columns(layout)}, i)]
HandedRows ==
  [b \in DOMAIN batches |->
     [i \in 1..batches[b].rows |->
        RowId({batches[b].arrays[a].cells : a \in DOMAIN batches[b].arrays}, i)]]

Rows == INSTANCE RowBuffer
  WITH taken <- rec, buffered <- BufferedRows, handed <- HandedRows,
       state <- IF at \in {"closed", "failed"} THEN at ELSE "open"

(* Column by column and value by value, the builders buffer and hand over  *)
(* whole rows in the order of the records, each once.                      *)
ImplementsRowBuffer == Rows!RSpec

=============================================================================
