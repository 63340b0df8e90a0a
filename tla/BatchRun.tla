------------------------------ MODULE BatchRun ------------------------------
(***************************************************************************)
(* One run of the program (src/main.cpp): process_smf_file reads the       *)
(* records of the input (vendor/mf_records/smf_file_reader.h), on_record   *)
(* counts each one, parses it and writes it to the sinks its type and      *)
(* subtype route it to, and when the input ends the tables are closed and  *)
(* the report is printed.                                                  *)
(*                                                                         *)
(* The tables, their writers and the files are those of PartitionedTable:  *)
(* every step here is a step of that module or leaves its variables alone. *)
(***************************************************************************)
EXTENDS PartitionedTable, Routing

CONSTANTS
  Item,       \* what the input can hold from one RDW to the next
  MaxItems,   \* bound: the length of the input
  Type        \* the record types that occur

ASSUME BoundsOfRun == MaxItems \in Nat

(* What stands at an RDW:                                                  *)
(* record  20 bytes or more: [type, sub, sys, day] from its header, what   *)
(*         parsing does, and the rows it has for each table of its route   *)
(* short   1 to 19 bytes                                                   *)
(* empty   a length field of at most 4                                     *)
(* overrun a length that reaches behind the end of the file                *)
Parsing == {"returns", "asserts"}

RecordItem ==
  [kind : {"record"}, type : Type, sub : Nat, sys : System,
   day : Day \cup {NoDate}, parsing : Parsing, rows : Seq(0..RecordRows)]

OtherItem == [kind : {"short", "empty", "overrun"}]

ASSUME ItemAssumption ==
  \A it \in Item :
    \/ it \in OtherItem
    \/ /\ it \in RecordItem
       /\ Len(it.rows) = Len(Route(it.type, it.sub))
       /\ \A i \in DOMAIN it.rows : Route(it.type, it.sub)[i] \in Table

ASSUME SinkSetAssumption ==
  \A t \in Table : TableName[t] = NameOf(t) /\ Rank[t] = RankOf(t)

VARIABLES
  input,   \* the items of the file
  pos,     \* the item the file cursor is at
  todo,    \* the sink writes left of the record at hand
  byType,  \* [Type -> Nat]: by_type; their sum is total
  fault    \* history: the environment failed (an error or a kill)

bvars == <<input, pos, todo, byType, fault>>
allvars == <<vars, bvars>>

(* One sink write of a record.                                             *)
SinkWrite ==
  [table : Table, sys : System, day : Day \cup {NoDate}, n : 0..RecordRows]

BatchTypeOK ==
  /\ input \in Seq(Item) /\ Len(input) <= MaxItems
  /\ pos \in 1..(Len(input) + 1)
  /\ todo \in Seq(SinkWrite)
  /\ byType \in [Type -> Nat]
  /\ fault \in BOOLEAN

RunInit ==
  /\ Init
  /\ input \in UNION {[1..n -> Item] : n \in 0..MaxItems}
  /\ pos = 1
  /\ todo = << >>
  /\ byType = [ty \in Type |-> 0]
  /\ fault = FALSE

-----------------------------------------------------------------------------
(* The loop of process_smf_file is at its head.                            *)
AtLoopHead == pc = "ready" /\ todo = << >>

(* Mutant of LoopEnds: the run ends without closing the sinks.             *)
LoopEndsUnclosed ==
  /\ AtLoopHead
  /\ pos <= Len(input) => input[pos].kind \in {"empty", "overrun"}
  /\ pc' = "exit0"
  /\ UNCHANGED <<tvars, cur, wvars, bvars>>

(* The loop ends: no RDW is left, or the one at hand has no data, or more  *)
(* data than the file.                                                     *)
LoopEnds ==
  /\ AtLoopHead
  /\ pos <= Len(input) => input[pos].kind \in {"empty", "overrun"}
  /\ EndOfInput
  /\ UNCHANGED bvars

(* Mutant of SkipShort: the record is tested before it is stepped over.    *)
SkipShortStays ==
  /\ AtLoopHead
  /\ pos <= Len(input)
  /\ input[pos].kind = "short"
  /\ UNCHANGED allvars

(* A record too short for a header is stepped over, and not counted.       *)
SkipShort ==
  /\ AtLoopHead
  /\ pos <= Len(input)
  /\ input[pos].kind = "short"
  /\ pos' = pos + 1
  /\ UNCHANGED <<vars, input, todo, byType, fault>>

(* Mutant of Writes: the second sink of a record is forgotten.             *)
WritesFirst(it) ==
  <<[table |-> Route(it.type, it.sub)[1], sys |-> it.sys, day |-> it.day,
     n |-> it.rows[1]]>>

(* The writes a record asks for.                                           *)
Writes(it) ==
  [i \in DOMAIN it.rows |->
     [table |-> Route(it.type, it.sub)[i], sys |-> it.sys, day |-> it.day,
      n |-> it.rows[i]]]

(* Mutants of TakeRecord: a record is stepped over twice; a type is        *)
(* counted once.                                                           *)
TakeRecordTwice ==
  /\ AtLoopHead
  /\ pos <= Len(input)
  /\ input[pos].kind = "record"
  /\ pos' = pos + 2
  /\ byType' = [byType EXCEPT ![input[pos].type] = @ + 1]

TakeRecordOnce ==
  /\ AtLoopHead
  /\ pos <= Len(input)
  /\ input[pos].kind = "record"
  /\ pos' = pos + 1
  /\ byType' = [byType EXCEPT ![input[pos].type] = 1]

(* The loop has a record of 20 bytes or more, steps over it and counts it. *)
TakeRecord ==
  /\ AtLoopHead
  /\ pos <= Len(input)
  /\ input[pos].kind = "record"
  /\ pos' = pos + 1
  /\ byType' = [byType EXCEPT ![input[pos].type] = @ + 1]

(* on_record: the record is counted and parsed; its sinks are next.        *)
OnRecord ==
  /\ TakeRecord
  /\ input[pos].parsing = "returns"
  /\ todo' = Writes(input[pos])
  /\ UNCHANGED <<vars, input, fault>>

(* A read behind the end of the record trips an assert: the process        *)
(* aborts, and no destructor runs.                                         *)
ParseAborts ==
  /\ TakeRecord
  /\ input[pos].parsing = "asserts"
  /\ Crash
  /\ UNCHANGED <<input, todo, fault>>

(* The next sink of the record writes its rows.                            *)
WriteNext ==
  /\ todo # << >>
  /\ LET w == Head(todo) IN Write(w.table, w.sys, w.day, w.n)
  /\ todo' = Tail(todo)
  /\ UNCHANGED <<input, pos, byType, fault>>

(* The environment fails a step.  A rename that finds no temporary file    *)
(* fails without its help.                                                 *)
WriteNextFails ==
  /\ todo # << >>
  /\ LET w == Head(todo)
     IN \E n \in 0..w.n : AppendFails(w.table, w.sys, w.day, n)
  /\ fault' = TRUE
  /\ UNCHANGED <<input, pos, todo, byType>>

StepFails ==
  /\ FlushOpenFails \/ FlushWriteFails \/ CloseFinishFails \/ CloseRenameFails
  /\ fault' = (fault \/ pc # "rename" \/ tmp[MakePath(cur)] # NoFile)
  /\ UNCHANGED <<input, pos, todo, byType>>

Kill ==
  /\ Crash
  /\ fault' = TRUE
  /\ UNCHANGED <<input, pos, todo, byType>>

(* The steps of the tables themselves.                                     *)
TableStep ==
  /\ \/ FlushOpen \/ FlushWrite
     \/ \E p \in Partition : CloseVisit(p)
     \/ CloseFinish \/ CloseRename \/ CloseDone
     \/ Unwind
  /\ UNCHANGED bvars

(* What the thread does when the environment does not fail it.             *)
Thread ==
  \/ LoopEnds \/ SkipShort \/ OnRecord \/ ParseAborts \/ WriteNext
  \/ TableStep
  \/ StepFails /\ fault' = fault

RunNext ==
  \/ LoopEnds \/ SkipShort \/ OnRecord \/ ParseAborts
  \/ WriteNext \/ WriteNextFails
  \/ TableStep \/ StepFails
  \/ Kill
  \/ Terminated /\ UNCHANGED bvars

(* One thread that nothing blocks: it keeps taking its next step.          *)
RunSpec == RunInit /\ [][RunNext]_allvars /\ WF_allvars(Thread)

-----------------------------------------------------------------------------
(* The items the loop handed to on_record, had it run to its end.          *)
StopsLoop(i) == input[i].kind \in {"empty", "overrun"}

Handed ==
  {i \in DOMAIN input :
     input[i].kind = "record" /\ \A j \in 1..i : ~StopsLoop(j)}

(* The rows the input has for a partition: <<item, sink, entry>>.          *)
SinksFor(i, p) ==
  {j \in DOMAIN input[i].rows :
     /\ Route(input[i].type, input[i].sub)[j] = p.table
     /\ input[i].sys = p.sys /\ input[i].day = p.day}

SinkRows(i, j) == {<<i, j, k>> : k \in 1..input[i].rows[j]}

RowsDue(p) == UNION {UNION {SinkRows(i, j) : j \in SinksFor(i, p)} : i \in Handed}

(* The rows a reader finds in the output directory.                        *)
VisibleRows ==
  UNION {rows[final[f]] :
           f \in {g \in Path : final[g] # NoFile /\ W!Readable(final[g])}}

(* A run that returns 0 has, for every table, system and day, exactly as   *)
(* many rows in the output as the records that were read have for it: no   *)
(* batch is written twice, dropped at the flush threshold, lost with a     *)
(* cached partition or left in a builder that close() does not reach.      *)
EndToEnd ==
  pc = "exit0" =>
    \A p \in Partition :
      Cardinality({r \in VisibleRows : r.part = p}) = Cardinality(RowsDue(p))

(* The report a run prints before it returns 0 is true: its record counts  *)
(* are those of the records read, its row counts those of the output.      *)
ReportTruthful ==
  pc = "exit0" =>
    /\ \A ty \in Type :
         byType[ty] = Cardinality({i \in Handed : input[i].type = ty})
    /\ \A t \in Table :
         total[t] = Cardinality({r \in VisibleRows : r.part.table = t})

(* A run fails only when the environment fails it or the parsing of a      *)
(* record aborts: in particular every rename of close() finds the          *)
(* temporary file its writer created.                                      *)
FailuresExplained ==
  pc \in {"unwind", "exit2", "crashed"} =>
    \/ fault
    \/ \E i \in Handed : i < pos /\ input[i].parsing = "asserts"

(* Nothing but a failure of the environment keeps a run from returning 0   *)
(* (DESIGN 10: a non-zero exit only on an I/O or write failure, and no bad *)
(* record loses the batch).                                                *)
OnlyFaultsFail == pc \in {"unwind", "exit2", "crashed"} => fault

(* Every run comes to an end: the loop of process_smf_file moves on, and   *)
(* close() gets through the tables.                                        *)
EventuallyEnds == <>(pc \in Ended)

(* The steps a run can still take.  Each RDW costs at most 20: two sink    *)
(* writes of 8, which are the write, a flush of two steps and, should it   *)
(* make a partition, the five steps of its flush and close.                *)
Reading == pc = "ready" \/ (pc = "flush" /\ cur \notin visited)
FlushSteps ==
  CASE pc # "flush" -> 0
    [] pc = "flush" /\ wstate[cur] = "none" -> 2
    [] pc = "flush" /\ wstate[cur] # "none" -> 1
CloseSteps ==
  CASE pc \in {"flush", "finish"} -> 2
    [] pc = "rename"  -> 1
    [] pc = "closing" -> 0
StepsToRead == 1 + 20 * (Len(input) + 1 - pos) + 8 * Len(todo)
StepsLeft ==
  CASE pc \in Ended    -> 0
    [] pc = "unwind"   -> 1
    [] pc \notin Ended \cup {"unwind"} ->
         2 + 5 * Cardinality(Unvisited) + FlushSteps
           + (IF Reading THEN StepsToRead ELSE CloseSteps)

(* Every step, also one that fails, brings the end of the run nearer: no   *)
(* record is read again, no partition flushed or closed for ever.  Thus    *)
(* the steps of a run are bounded by the number of RDWs in its input.      *)
StepsLeftShrink == [][StepsLeft' < StepsLeft]_allvars

(* Every record of the input leaves a row, in a table of its type or in    *)
(* the raw table (DESIGN 1, TODO: no record is silently lost).             *)
Lossless ==
  pc = "exit0" =>
    \A ty \in Type :
      Cardinality({i \in DOMAIN input :
                     input[i].kind = "record" /\ input[i].type = ty})
        <= Cardinality({r \in VisibleRows : r.part.table.type \in {ty, 0}})

(* A malformed record is stepped over and the rest of the file is read     *)
(* (DESIGN 10: never abort the whole file).                                *)
ReadsWholeFile == pc = "exit0" => pos = Len(input) + 1

(* The tables of a run behave as PartitionedTable says for any caller.     *)
RefinesTables == Spec
=============================================================================
