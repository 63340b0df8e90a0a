-------------------------- MODULE PartitionedTable --------------------------
(***************************************************************************)
(* The PartitionedTable objects of one run (src/sinks/partitioned_table.h) *)
(* over their ParquetTableWriters and the file system.                     *)
(*                                                                         *)
(* The program has one thread.  What interleaves with it is failure: any   *)
(* call that reaches Arrow or the file system can throw, and the process   *)
(* can be killed between any two of them, while readers may look at the    *)
(* output directory at any time.  So every such call is a step of its own, *)
(* and pc says which is next.                                              *)
(*                                                                         *)
(* Here the caller is the most general one: it writes records of any table *)
(* with any number of rows until the input ends, then closes the tables in *)
(* the order Rank gives them.                                              *)
(***************************************************************************)
EXTENDS OutputPaths, FiniteSets

CONSTANTS
  Rank,          \* [Table -> Nat]: the order in which the tables are closed
  BatchRows,     \* batch_rows_: the flush threshold
  RecordRows,    \* bound: the rows one record appends, at most
  MaxRows,       \* bound: the rows a table takes in all
  NoPart,        \* no partition: a null last_part_, or nothing being flushed
  NoFile         \* no directory entry

ASSUME BatchRowsAssumption == BatchRows \in Nat \ {0}

ASSUME BoundsAssumption == RecordRows \in Nat /\ MaxRows \in Nat

ASSUME RankAssumption == Rank \in [Table -> Nat]

ASSUME SentinelAssumption == NoPart \notin Partition /\ NoFile \notin Partition

VARIABLES
  parts,     \* parts_: the partitions created so far, in all tables
  builder,   \* [Partition -> the rows in its Arrow builders]
  pending,   \* [Partition -> its pending counter]
  last,      \* [Table -> the one-entry cache last_part_, last_sys_, last_day_]
  total,     \* [Table -> total_]
  received,  \* history: the rows the tables accepted
  pc,        \* the next step of the thread
  cur,       \* the partition being flushed or closed
  visited,   \* the partitions the loops of close() have reached
  wstate, fd, tmp, final, rows, openers, footers   \* ParquetTableWriter

tvars == <<parts, builder, pending, last, total, received, visited>>
wvars == <<wstate, fd, tmp, final, rows, openers, footers>>
vars  == <<tvars, pc, cur, wvars>>

(* A row, with the table, system and day of the record it came from.       *)
Row == [part : Partition, num : 1..MaxRows]

W == INSTANCE ParquetTableWriter
       WITH Writer <- Partition, PathOf <- MakePath

Ended == {"exit0", "exit2", "crashed"}

PC == {"ready", "flush", "closing", "finish", "rename", "unwind"} \cup Ended

CacheLine ==
  [part : Partition, sys : System, day : Day \cup {NoDate}]

TypeOK ==
  /\ parts    \subseteq Partition
  /\ builder  \in [Partition -> SUBSET Row]
  /\ pending  \in [Partition -> Nat]
  /\ last     \in [Table -> CacheLine \cup {NoPart}]
  /\ total    \in [Table -> Nat]
  /\ received \subseteq Row
  /\ pc       \in PC
  /\ cur      \in Partition \cup {NoPart}
  /\ pc \in {"flush", "finish", "rename"} => cur # NoPart
  /\ visited  \subseteq Partition
  /\ W!WTypeOK

Init ==
  /\ parts    = {}
  /\ builder  = [p \in Partition |-> {}]
  /\ pending  = [p \in Partition |-> 0]
  /\ last     = [t \in Table |-> NoPart]
  /\ total    = [t \in Table |-> 0]
  /\ received = {}
  /\ pc       = "ready"
  /\ cur      = NoPart
  /\ visited  = {}
  /\ W!WInit

-----------------------------------------------------------------------------
(* Mutant of CacheHit: the cache is keyed by the day alone.                *)
CacheHitByDay(t, s, d) == last[t] # NoPart /\ last[t].day = d

(* get_partition(): the cached Part when the system and the day are those  *)
(* of the last call, else the map's entry for the key.                     *)
CacheHit(t, s, d) == last[t] # NoPart /\ last[t].day = d /\ last[t].sys = s

PartFor(t, s, d) ==
  IF CacheHit(t, s, d)
    THEN last[t].part
    ELSE [table |-> t, sys |-> s, day |-> d]

GetPartition(t, s, d) ==
  LET p == PartFor(t, s, d)
  IN /\ parts' = parts \cup {p}
     /\ last'  = [last EXCEPT ![t] = [part |-> p, sys |-> s, day |-> d]]

(* Mutant of NewRows: the loop over the sections runs once too often.      *)
NewRowsOneMore(t, s, d, n) ==
  {[part |-> [table |-> t, sys |-> s, day |-> d], num |-> total[t] + i]
     : i \in 0..n}

(* The rows a sink appends for a record of table t, system s and day d.    *)
NewRows(t, s, d, n) ==
  {[part |-> [table |-> t, sys |-> s, day |-> d], num |-> total[t] + i]
     : i \in 1..n}

(* Mutant of MustFlush: a full batch is not flushed yet.                   *)
MustFlushLate(p, n) == n > 0 /\ pending[p] + n > BatchRows

(* The threshold test of added().                                          *)
MustFlush(p, n) == n > 0 /\ pending[p] + n >= BatchRows

(* A sink's write(): get_partition, append to its builders, added.         *)
Write(t, s, d, n) ==
  LET p == PartFor(t, s, d)
  IN /\ pc = "ready"
     /\ total[t] + n <= MaxRows
     /\ GetPartition(t, s, d)
     /\ builder'  = [builder EXCEPT ![p] = @ \cup NewRows(t, s, d, n)]
     /\ received' = received \cup NewRows(t, s, d, n)
     /\ pending'  = [pending EXCEPT ![p] = @ + n]
     /\ total'    = [total EXCEPT ![t] = @ + n]
     /\ IF MustFlush(p, n)
          THEN pc' = "flush" /\ cur' = p
          ELSE UNCHANGED <<pc, cur>>
     /\ UNCHANGED <<visited, wvars>>

(* An Append of a column builder reports an error and arrow_ok throws: the *)
(* rows before it stay in the builders, and added() is not reached.        *)
AppendFails(t, s, d, n) ==
  LET p == PartFor(t, s, d)
  IN /\ pc = "ready"
     /\ total[t] + n <= MaxRows
     /\ GetPartition(t, s, d)
     /\ builder' = [builder EXCEPT ![p] = @ \cup NewRows(t, s, d, n)]
     /\ pc' = "unwind"
     /\ UNCHANGED <<pending, total, received, cur, visited, wvars>>

(* process_smf_file() returns and SinkSet::close() begins.                 *)
EndOfInput ==
  /\ pc = "ready"
  /\ pc' = "closing"
  /\ UNCHANGED <<tvars, cur, wvars>>

-----------------------------------------------------------------------------
(* flush(), first call: the writer is created lazily.                      *)
FlushOpen ==
  /\ pc = "flush"
  /\ W!Construct(cur)
  /\ UNCHANGED <<tvars, pc, cur>>

(* create_directories in make_path, or the constructor, throws.            *)
FlushOpenFails ==
  /\ pc = "flush"
  /\ W!ConstructFails(cur)
  /\ pc' = "unwind"
  /\ UNCHANGED <<tvars, cur>>

(* Mutant of FlushWrite: the builders keep the rows of the batch.          *)
FlushWriteKeeps ==
  /\ pc = "flush"
  /\ W!WriteBatch(cur, builder[cur])
  /\ pending' = [pending EXCEPT ![cur] = 0]
  /\ IF cur \in visited
       THEN pc' = "finish" /\ UNCHANGED cur
       ELSE pc' = "ready" /\ cur' = NoPart
  /\ UNCHANGED <<parts, builder, last, total, received, visited>>

(* finish() empties the builders into a batch, write_batch() writes it.    *)
FlushWrite ==
  /\ pc = "flush"
  /\ W!WriteBatch(cur, builder[cur])
  /\ builder' = [builder EXCEPT ![cur] = {}]
  /\ pending' = [pending EXCEPT ![cur] = 0]
  /\ IF cur \in visited
       THEN pc' = "finish" /\ UNCHANGED cur
       ELSE pc' = "ready" /\ cur' = NoPart
  /\ UNCHANGED <<parts, last, total, received, visited>>

(* finish() or write_batch() throws: pending still counts the rows, which  *)
(* the builders may no longer hold.                                        *)
FlushWriteFails ==
  /\ pc = "flush"
  /\ wstate[cur] = "open"
  /\ builder' = [builder EXCEPT ![cur] = {}] \/ UNCHANGED builder
  /\ pc' = "unwind"
  /\ UNCHANGED <<parts, pending, last, total, received, visited, cur, wvars>>

-----------------------------------------------------------------------------
(* The tables are closed one after the other.                              *)
Unvisited == parts \ visited

(* Mutants of CloseVisit: an open writer is closed without the rows still  *)
(* pending; rows that never filled a batch are forgotten; the tables are   *)
(* closed in any order.                                                    *)
CloseVisitNoFlush(p) ==
  /\ pc = "closing" /\ p \in Unvisited
  /\ \A q \in Unvisited : Rank[p.table] <= Rank[q.table]
  /\ visited' = visited \cup {p}
  /\ \/ wstate[p] = "open" /\ pc' = "finish" /\ cur' = p
     \/ wstate[p] = "none" /\ pending[p] > 0 /\ pc' = "flush" /\ cur' = p
     \/ wstate[p] = "none" /\ pending[p] = 0 /\ UNCHANGED <<pc, cur>>
  /\ UNCHANGED <<parts, builder, pending, last, total, received, wvars>>

CloseVisitWritten(p) ==
  /\ pc = "closing" /\ p \in Unvisited
  /\ \A q \in Unvisited : Rank[p.table] <= Rank[q.table]
  /\ visited' = visited \cup {p}
  /\ \/ wstate[p] = "open" /\ pending[p] > 0 /\ pc' = "flush" /\ cur' = p
     \/ wstate[p] = "open" /\ pending[p] = 0 /\ pc' = "finish" /\ cur' = p
     \/ wstate[p] = "none" /\ UNCHANGED <<pc, cur>>
  /\ UNCHANGED <<parts, builder, pending, last, total, received, wvars>>

CloseVisitAnyOrder(p) ==
  /\ pc = "closing" /\ p \in Unvisited
  /\ visited' = visited \cup {p}
  /\ \/ pending[p] > 0 /\ pc' = "flush" /\ cur' = p
     \/ pending[p] = 0 /\ wstate[p] = "open" /\ pc' = "finish" /\ cur' = p
     \/ pending[p] = 0 /\ wstate[p] = "none" /\ UNCHANGED <<pc, cur>>
  /\ UNCHANGED <<parts, builder, pending, last, total, received, wvars>>

(* Mutant of CloseVisit: the loop stays at a partition it has flushed.     *)
CloseVisitStays(p) ==
  /\ pc = "closing" /\ p \in Unvisited
  /\ \A q \in Unvisited : Rank[p.table] <= Rank[q.table]
  /\ \/ pending[p] > 0 /\ pc' = "flush" /\ cur' = p /\ UNCHANGED visited
     \/ pending[p] = 0 /\ visited' = visited \cup {p} /\
          (IF wstate[p] = "open" THEN pc' = "finish" /\ cur' = p
                                 ELSE UNCHANGED <<pc, cur>>)
  /\ UNCHANGED <<parts, builder, pending, last, total, received, wvars>>

(* The loop of close() reaches the next partition of the current table, in *)
(* the order of an unordered_map.  One with nothing pending and no writer  *)
(* has nothing to close.                                                   *)
CloseVisit(p) ==
  /\ pc = "closing"
  /\ p \in Unvisited
  /\ \A q \in Unvisited : Rank[p.table] <= Rank[q.table]
  /\ visited' = visited \cup {p}
  /\ \/ pending[p] > 0 /\ pc' = "flush" /\ cur' = p
     \/ pending[p] = 0 /\ wstate[p] = "open" /\ pc' = "finish" /\ cur' = p
     \/ pending[p] = 0 /\ wstate[p] = "none" /\ UNCHANGED <<pc, cur>>
  /\ UNCHANGED <<parts, builder, pending, last, total, received, wvars>>

CloseFinish ==
  /\ pc = "finish"
  /\ W!Finish(cur)
  /\ pc' = "rename"
  /\ UNCHANGED <<tvars, cur>>

CloseFinishFails ==
  /\ pc = "finish"
  /\ W!FinishFails(cur)
  /\ pc' = "unwind"
  /\ UNCHANGED <<tvars, cur>>

CloseRename ==
  /\ pc = "rename"
  /\ W!Rename(cur)
  /\ pc' = "closing"
  /\ cur' = NoPart
  /\ UNCHANGED tvars

CloseRenameFails ==
  /\ pc = "rename"
  /\ W!RenameFails(cur)
  /\ pc' = "unwind"
  /\ UNCHANGED <<tvars, cur>>

(* Every table is closed: main returns 0.                                  *)
CloseDone ==
  /\ pc = "closing"
  /\ Unvisited = {}
  /\ pc' = "exit0"
  /\ UNCHANGED <<tvars, cur, wvars>>

-----------------------------------------------------------------------------
(* Mutant of Unwind: the exception is reported and main returns 0.         *)
UnwindReturnsZero ==
  /\ pc = "unwind"
  /\ W!DestroyAll
  /\ pc' = "exit0"
  /\ UNCHANGED <<tvars, cur>>

(* An exception reached main: the SinkSet is destroyed, main returns 2.    *)
Unwind ==
  /\ pc = "unwind"
  /\ W!DestroyAll
  /\ pc' = "exit2"
  /\ UNCHANGED <<tvars, cur>>

(* The process is killed.                                                  *)
Crash ==
  /\ pc \notin Ended
  /\ pc' = "crashed"
  /\ UNCHANGED <<tvars, cur, wvars>>

Terminated == pc \in Ended /\ UNCHANGED vars

Next ==
  \/ \E t \in Table, s \in System, d \in Day \cup {NoDate}, n \in 0..RecordRows :
       Write(t, s, d, n) \/ AppendFails(t, s, d, n)
  \/ EndOfInput
  \/ FlushOpen \/ FlushOpenFails \/ FlushWrite \/ FlushWriteFails
  \/ \E p \in Partition : CloseVisit(p)
  \/ CloseFinish \/ CloseFinishFails
  \/ CloseRename \/ CloseRenameFails
  \/ CloseDone
  \/ Unwind
  \/ Crash
  \/ Terminated

Spec == Init /\ [][Next]_vars

-----------------------------------------------------------------------------
(* What a reader of the output directory finds under the name f: no file,  *)
(* the rows of a complete Parquet file, or a file without rows to read.    *)
Contents(f) ==
  IF final[f] = NoFile THEN {}
  ELSE IF W!Readable(final[f]) THEN {rows[final[f]]} ELSE {{}}

RowsOf(f) == {r \in received : MakePath(r.part) = f}

(* How far the run is, for somebody who sees only the files and the exit   *)
(* status.                                                                 *)
Status ==
  CASE pc = "exit0" -> "success"
    [] pc \in {"unwind", "exit2", "crashed"} -> "failure"
    [] pc = "ready" \/ (pc = "flush" /\ cur \notin visited) -> "reading"
    [] OTHER -> "publishing"

Alive == pc \in PC \ {"unwind", "exit2", "crashed"}

(* The one-entry cache of get_partition never answers with the partition   *)
(* of another table, system or day, and every row waiting in the builders  *)
(* of a partition, or written to its file, came from a record of that      *)
(* system and day.                                                         *)
RowsRouted ==
  /\ \A t \in Table : last[t] # NoPart =>
       /\ last[t].part \in parts
       /\ last[t].part = [table |-> t, sys |-> last[t].sys, day |-> last[t].day]
  /\ \A p \in Partition : \A r \in builder[p] : r.part = p
  /\ \A f \in Path : final[f] # NoFile =>
       \A r \in rows[final[f]] : MakePath(r.part) = f

(* The row count handed to RecordBatch::Make is the length of the builders *)
(* whenever a flush can use it, and no partition other than the one being  *)
(* flushed holds a full batch: memory stays bounded by the threshold.      *)
BatchesConsistent ==
  Alive => \A p \in Partition :
    /\ pending[p] = Cardinality(builder[p])
    /\ pending[p] >= BatchRows => pc = "flush" /\ cur = p

(* While the run is alive every accepted row is in exactly one place: in   *)
(* the builders of its partition or in the file its writer writes, and     *)
(* total_ counts them.                                                     *)
RowsConserved ==
  Alive =>
    /\ \A r \in received :
         LET written == fd[r.part] # NoFile /\ r \in rows[fd[r.part]]
         IN (r \in builder[r.part]) # written
    /\ \A t \in Table :
         total[t] = Cardinality({r \in received : r.part.table = t})

(* Readers never observe a partial file: whatever has a final name, also   *)
(* after a failure or a kill, is a finished Parquet file with every row of *)
(* its partition, and never an empty one.                                  *)
VisibleComplete ==
  \A f \in Path : final[f] # NoFile =>
    /\ W!Readable(final[f])
    /\ rows[final[f]] = RowsOf(f)
    /\ RowsOf(f) # {}

(* A run that returns 0 has published every row it accepted, and leaves no *)
(* temporary file behind.                                                  *)
CompleteAtExit ==
  pc = "exit0" =>
    /\ \A r \in received : \E f \in Path :
         final[f] # NoFile /\ W!Readable(final[f]) /\ r \in rows[final[f]]
    /\ \A f \in Path : tmp[f] = NoFile

(* No file is rewritten in place: a final name keeps its inode, and no     *)
(* byte of that inode changes again.                                       *)
VisibleNeverChanges ==
  [][\A f \in Path : final[f] # NoFile =>
       /\ final'[f] = final[f]
       /\ rows'[final[f]] = rows[final[f]]
       /\ openers'[final[f]] = openers[final[f]]
       /\ footers'[final[f]] = footers[final[f]]]_vars

(* SinkSet::close() stops at the first table that fails, so what a run      *)
(* leaves behind is a prefix of the closing order: a table has a visible   *)
(* file only when every table closed before it has published all its rows. *)
VisiblePrefix ==
  \A p, q \in Partition :
    /\ Rank[q.table] < Rank[p.table]
    /\ final[MakePath(p)] # NoFile
    /\ RowsOf(MakePath(q)) # {}
    => final[MakePath(q)] # NoFile

(* The tables, writers and files implement the dataset a reader is         *)
(* promised.                                                               *)
FileOfRow(r) == MakePath(r.part)

Promise == INSTANCE Dataset
  WITH File <- Path, FileOf <- FileOfRow,
       visible <- [f \in Path |-> Contents(f)], status <- Status

ImplementsDataset == Promise!Spec

(* A run that was killed or that failed leaves no output file, as          *)
(* parquet_table_writer.h and DESIGN 7.3 have it.                          *)
NothingVisibleAfterFailure ==
  pc \in {"crashed", "exit2"} => \A f \in Path : final[f] = NoFile

-----------------------------------------------------------------------------
(* The inductive invariant behind the properties above, for runs whose     *)
(* partitions do not share files (PathsInjective).  ControlInv ties the    *)
(* program counter to the partition at hand, LifeInv(p) says what each     *)
(* stage in the life of the writer of p implies for its file, and          *)
(* RowsInv(p) where the rows received for p are.                           *)
ControlInv ==
  /\ pc \in {"ready", "closing", "exit0"} => cur = NoPart
  /\ pc \in {"flush", "finish", "rename"} => cur \in parts
  /\ pc = "ready" => visited = {}
  /\ pc = "flush" => cur \in visited \/ visited = {}
  /\ pc = "flush" => pending[cur] > 0 /\ wstate[cur] \in {"none", "open"}
  /\ pc = "finish" => cur \in visited /\ wstate[cur] = "open"
  /\ pc = "rename" => cur \in visited /\ wstate[cur] = "ended"
  /\ pc = "exit0" => parts \subseteq visited
  /\ visited \subseteq parts

CacheInv ==
  \A t \in Table : last[t] # NoPart =>
    /\ last[t].part \in parts
    /\ last[t].part = [table |-> t, sys |-> last[t].sys, day |-> last[t].day]

LifeInv(p) ==
  LET f == MakePath(p)
  IN /\ wstate[p] # "none" => p \in parts
     /\ fd[p] \in {NoFile, p}
     /\ tmp[f] \in {NoFile, p}
     /\ final[f] = IF wstate[p] = "renamed" THEN p ELSE NoFile
     /\ wstate[p] = "none" /\ Alive =>
          fd[p] = NoFile /\ tmp[f] = NoFile /\ rows[p] = {} /\ openers[p] = {}
     /\ wstate[p] \in {"open", "ended"} => fd[p] = p /\ tmp[f] = p
     /\ wstate[p] \in {"open", "ended", "renamed"} => openers[p] = {p}
     /\ wstate[p] \in {"ended", "renamed"} => footers[p] = {p}
     /\ wstate[p] \in {"none", "open"} /\ Alive => footers[p] = {}
     /\ wstate[p] = "renamed" => fd[p] = p /\ tmp[f] = NoFile
     /\ wstate[p] = "dead" => ~Alive

RowsInv(p) ==
  LET mine == {r \in received : r.part = p}
  IN /\ Alive => (pending[p] = 0 <=> builder[p] = {})
     /\ Alive => mine = builder[p] \cup rows[p]
     /\ Alive => builder[p] \cap rows[p] = {}
     /\ Alive /\ mine # {} => p \in parts
     /\ wstate[p] = "open" /\ Alive => rows[p] # {} \/ (pc = "flush" /\ cur = p)
     /\ wstate[p] \in {"ended", "renamed"} => rows[p] = mine /\ mine # {}
     /\ \A r \in builder[p] \cup rows[p] : r.part = p
     /\ Alive /\ p \in visited /\ p # cur =>
          pending[p] = 0 /\ wstate[p] \in {"none", "renamed"}
     /\ Alive /\ p \in visited /\ pc \in {"finish", "rename"} => pending[p] = 0
     /\ Alive /\ wstate[p] \in {"ended", "renamed"} => p \in visited

(* Row numbers grow, so a row appended later is a new one.                 *)
NumberInv == \A r \in received : r.num <= total[r.part.table]

IInv ==
  /\ TypeOK
  /\ ControlInv
  /\ CacheInv
  /\ NumberInv
  /\ \A p \in Partition : LifeInv(p) /\ RowsInv(p)
=============================================================================
