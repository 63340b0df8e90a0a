------------------------ MODULE ColumnBuildersProofs ------------------------
(***************************************************************************)
(* Batches are aligned, and values in the column of their field, whatever  *)
(* columns a table has, however many rows a record adds and whichever call *)
(* fails, once the lists of the table keep the column contract; and no     *)
(* entry of a vector is lost.                                              *)
(*                                                                         *)
(* The columns are counted through finish(): column i is the builder that  *)
(* becomes the array i of a batch.                                         *)
(***************************************************************************)
EXTENDS ColumnBuilders, FiniteSetTheorems, TLAPS

Width == Len(layout.finish)
ColumnAt(i) == column[layout.finish[i]]

(* The loop has appended to column c in the running row.                   *)
Reached(puts, c) == \E k \in 1..(pos - 1) : puts[k].to = c
SoFar(puts, c) == pending + (row - 1) + (IF Reached(puts, c) THEN 1 ELSE 0)

(* How many values builder c holds.                                        *)
Filling(c) ==
  CASE at \in {"idle", "closed"} -> pending
    [] at = "added"              -> pending + n
    [] at = "common" /\ c \in AppendedTo(layout.common) -> SoFar(layout.common, c)
    [] at = "common" /\ c \notin AppendedTo(layout.common) -> pending
    [] at = "own" /\ c \in AppendedTo(layout.own) -> SoFar(layout.own, c)
    [] at = "own" /\ c \notin AppendedTo(layout.own) -> pending + n

Appending == {"idle", "closed", "common", "own", "added"}

(* Between two flushes the builders differ in length as far as append()    *)
(* has come, agree on the rows pending, and beyond them hold the rows of   *)
(* the record at hand.                                                     *)
BuildersInStep ==
  at \in Appending =>
    /\ \A c \in Columns(layout) :
         /\ Len(column[c]) = Filling(c)
         /\ \A k \in (pending + 1)..Len(column[c]) :
              column[c][k].id = <<rec, k - pending>>
    /\ \A c, d \in Columns(layout) : \A k \in 1..pending :
         column[c][k].id = column[d][k].id
    /\ arrays = << >>

(* During a flush the first columns are arrays, and their builders empty.  *)
CellsAt(i) == IF i <= Len(arrays) THEN arrays[i].cells ELSE ColumnAt(i)
FlushInStep ==
  at \in {"finish", "make"} =>
    /\ Len(arrays) = IF at = "make" THEN Width ELSE pos - 1
    /\ \A i \in 1..Len(arrays) :
         /\ arrays[i].type = layout.types[layout.finish[i]]
         /\ ColumnAt(i) = << >>
    /\ \A i \in 1..Width : Len(CellsAt(i)) = pending
    /\ \A i, j \in 1..Width : \A k \in 1..pending :
         CellsAt(i)[k].id = CellsAt(j)[k].id

BInv ==
  /\ ColumnTypeOK
  /\ BuildersInStep
  /\ FlushInStep
  /\ BatchesAligned

-----------------------------------------------------------------------------
(* The tables keep the contract: what TLC checks of the tables of SinkSet, *)
(* and all the proofs need to know of them.                                *)
TablesKeepContract == \A l \in Layouts : Contract(l)

LEMMA InitBuilders ==
  ASSUME TablesKeepContract, BInit
  PROVE  BInv
<1>1. column \in [Columns(layout) -> Seq(CellType)]
  BY DEF BInit
<1>2. ColumnTypeOK
  <2>1. pos <= Len(ListAt(layout, at)) /\ rec \in 0..MaxRecords
    BY BuilderBounds DEF BInit, ListAt
  <2>2. arrays \in Seq([type : STRING, cells : Seq(CellType)])
    BY DEF BInit
  <2>3. batches \in
          Seq([rows : Nat, arrays : Seq([type : STRING, cells : Seq(CellType)])])
    BY DEF BInit
  <2>4. /\ layout \in Layouts
        /\ pending \in Nat /\ owed \in Nat /\ n \in Nat
        /\ row \in Nat \ {0} /\ pos \in Nat \ {0}
        /\ at = "idle" /\ at \in Places
    BY DEF BInit, Places
  <2>5. closing \in BOOLEAN
    BY DEF BInit
  <2> QED
    BY <1>1, <2>1, <2>2, <2>3, <2>4, <2>5 DEF ColumnTypeOK
<1>3. BuildersInStep
  BY DEF BInit, BuildersInStep, Filling
<1> QED
  BY <1>2, <1>3 DEF BInit, BInv, FlushInStep, BatchesAligned

(* What a step leaves alone.                                               *)
LEMMA SameBatches ==
  ASSUME BatchesAligned, UNCHANGED <<layout, batches>>
  PROVE  BatchesAligned'
BY DEF BatchesAligned

LEMMA WriteStep ==
  ASSUME TablesKeepContract, BInv, Write
  PROVE  BInv'
<1>0. /\ Contract(layout) /\ BatchesAligned' /\ ColumnTypeOK
      /\ BuildersInStep /\ at = "idle"
  BY SameBatches DEF BInv, Write, ColumnTypeOK, TablesKeepContract
<1>1. \A k \in 0..MaxEntries : RowsOf(layout, k) \in Nat /\ RowsDue(layout, k) \in Nat
  BY BuilderBounds DEF RowsOf, RowsDue
<1>2. n' \in Nat /\ owed' \in Nat
  BY <1>0, <1>1, BuilderBounds DEF Write, ColumnTypeOK
<1>3. at' \in {"idle", "common"} /\ (at' = "common" => n' # 0)
  BY DEF Write
<1>4. layout.common \in Seq(PutType) /\ layout.common # << >>
  BY <1>0 DEF Contract, ListsTyped, AppendsToAll
<1>5. ColumnTypeOK'
  BY <1>0, <1>2, <1>3, <1>4, BuilderBounds
  DEF Write, ColumnTypeOK, Places, ListAt, Columns
<1>6. BuildersInStep'
  BY <1>0, <1>3 DEF Write, BuildersInStep, Filling, SoFar, Reached, Appending,
     ColumnTypeOK, Columns, AppendedTo
<1>7. FlushInStep'
  BY <1>3 DEF FlushInStep
<1> QED
  BY <1>0, <1>5, <1>6, <1>7 DEF BInv

-----------------------------------------------------------------------------
(* The loops of append().  The list of the loop, and its column.           *)
Looping(puts) ==
  \/ at = "common" /\ puts = layout.common
  \/ at = "own" /\ puts = layout.own

LEMMA LoopFacts ==
  ASSUME TablesKeepContract, BInv, NEW puts, Looping(puts)
  PROVE  /\ puts \in Seq(PutType)
         /\ pos \in 1..Len(puts)
         /\ row \in 1..n /\ n \in Nat /\ rec \in Nat /\ pending \in Nat
         /\ AppendedTo(puts) \subseteq Columns(layout)
         /\ puts[pos].to \in AppendedTo(puts)
         /\ EachOnce(puts)
         /\ \A d \in AppendedTo(puts) : Len(column[d]) = SoFar(puts, d)
<1>1. /\ Contract(layout) /\ ColumnTypeOK /\ BuildersInStep
  BY DEF BInv, ColumnTypeOK, TablesKeepContract
<1>2. puts \in Seq(PutType) /\ EachOnce(puts) /\ AppendedTo(puts) \subseteq Columns(layout)
  BY <1>1 DEF Contract, ListsTyped, AppendsToAll, Looping
<1>3. /\ pos \in 1..Len(puts)
      /\ row \in 1..n /\ n \in Nat /\ rec \in Nat /\ pending \in Nat
  BY <1>1, <1>2, BuilderBounds DEF Looping, ColumnTypeOK, ListAt
<1>4. \A d \in AppendedTo(puts) : Filling(d) = SoFar(puts, d)
  BY DEF Looping, Filling
<1>5. \A d \in AppendedTo(puts) : Len(column[d]) = SoFar(puts, d)
  BY <1>1, <1>2, <1>4 DEF BuildersInStep, Looping, Appending
<1>6. puts[pos].to \in AppendedTo(puts)
  BY <1>3 DEF AppendedTo
<1> QED
  BY <1>2, <1>3, <1>5, <1>6

(* One value is appended, and it is of the row the loop is at.             *)
GetsOne(c) ==
  /\ column' \in [Columns(layout) -> Seq(CellType)]
  /\ Len(column[c]) = pending + row - 1
  /\ Len(column'[c]) = pending + row
  /\ \A k \in 1..Len(column[c]) : column'[c][k] = column[c][k]
  /\ column'[c][pending + row].id = <<rec, row>>
  /\ \A d \in Columns(layout) \ {c} : column'[d] = column[d]

LEMMA OneAppended ==
  ASSUME TablesKeepContract, BInv, NEW puts, NEW next, Looping(puts),
         AppendOne(puts, next)
  PROVE  GetsOne(puts[pos].to)
<1> DEFINE c == puts[pos].to
<1>1. /\ column \in [Columns(layout) -> Seq(CellType)]
      /\ puts \in Seq(PutType) /\ pos \in 1..Len(puts)
      /\ row \in 1..n /\ n \in Nat /\ rec \in Nat /\ pending \in Nat
      /\ c \in AppendedTo(puts) /\ c \in Columns(layout)
  BY LoopFacts DEF BInv, ColumnTypeOK
<1>2. puts[pos] \in PutType
  BY <1>1
<1>3. Cell(puts[pos]) \in CellType /\ Cell(puts[pos]).id = <<rec, row>>
  BY <1>1, <1>2 DEF Cell, CellType, PutType
<1>4. ~Reached(puts, c)
  BY <1>1, LoopFacts DEF Reached, EachOnce
<1>5. Len(column[c]) = pending + row - 1
  BY <1>1, <1>4, LoopFacts DEF SoFar
<1>6. column' = [column EXCEPT ![c] = Append(column[c], Cell(puts[pos]))]
  BY DEF AppendOne
<1>7. /\ column[c] \in Seq(CellType)
      /\ column'[c] = Append(column[c], Cell(puts[pos]))
      /\ \A d \in Columns(layout) \ {c} : column'[d] = column[d]
  BY <1>1, <1>6
<1>8. column' \in [Columns(layout) -> Seq(CellType)]
  BY <1>1, <1>3, <1>6
<1> QED
  BY <1>1, <1>3, <1>5, <1>7, <1>8 DEF GetsOne

(* The counts after it: the next column, the next row or the next part.    *)
LEMMA LoopCounts ==
  ASSUME TablesKeepContract, BInv, NEW puts, NEW next, Looping(puts),
         AppendOne(puts, next), NEW d \in AppendedTo(puts)
  PROVE  Len(column'[d]) =
           IF pos < Len(puts) \/ row < n
           THEN pending + (row' - 1)
                  + (IF \E k \in 1..(pos' - 1) : puts[k].to = d THEN 1 ELSE 0)
           ELSE pending + n
<1> DEFINE c == puts[pos].to
<1>0. /\ puts \in Seq(PutType) /\ pos \in 1..Len(puts)
      /\ row \in 1..n /\ n \in Nat /\ pending \in Nat
      /\ d \in Columns(layout)
      /\ Len(column[d]) = SoFar(puts, d)
  BY LoopFacts
<1>1. Len(column'[d]) = pending + row - 1 + (IF d = c \/ Reached(puts, d) THEN 1 ELSE 0)
  BY <1>0, OneAppended DEF GetsOne, SoFar
<1>2. CASE pos < Len(puts)
  <2>1. pos' = pos + 1 /\ row' = row
    BY <1>2 DEF AppendOne
  <2>2. (\E k \in 1..(pos' - 1) : puts[k].to = d) <=> (d = c \/ Reached(puts, d))
    BY <1>0, <2>1 DEF Reached
  <2> QED
    BY <1>0, <1>1, <1>2, <2>1, <2>2
<1>3. CASE ~(pos < Len(puts))
  <2>1. pos = Len(puts) /\ pos' = 1
    BY <1>0, <1>3 DEF AppendOne
  <2>2. d = c \/ Reached(puts, d)
    BY <1>0, <2>1 DEF AppendedTo, Reached
  <2>3. row < n => row' = row + 1
    BY <1>3 DEF AppendOne
  <2> QED
    BY <1>0, <1>1, <1>3, <2>1, <2>2, <2>3
<1> QED
  BY <1>2, <1>3

(* The rows stay whole, the ones pending and the ones being appended.      *)
LEMMA LoopIds ==
  ASSUME TablesKeepContract, BInv, NEW puts, NEW next, Looping(puts),
         AppendOne(puts, next),
         NEW c, c = puts[pos].to
  PROVE  /\ \A d \in Columns(layout) : \A k \in (pending + 1)..Len(column'[d]) :
              column'[d][k].id = <<rec, k - pending>>
         /\ \A d, e \in Columns(layout) : \A k \in 1..pending :
              column'[d][k].id = column'[e][k].id
<1>0. /\ row \in 1..n /\ n \in Nat /\ pending \in Nat /\ c \in Columns(layout)
      /\ column \in [Columns(layout) -> Seq(CellType)]
  BY LoopFacts DEF BInv, ColumnTypeOK
<1>1. /\ \A d \in Columns(layout) : \A k \in (pending + 1)..Len(column[d]) :
            column[d][k].id = <<rec, k - pending>>
      /\ \A d, e \in Columns(layout) : \A k \in 1..pending :
            column[d][k].id = column[e][k].id
  BY DEF BInv, BuildersInStep, Looping, Appending
<1>2. /\ Len(column[c]) = pending + row - 1
      /\ Len(column'[c]) = pending + row
      /\ \A k \in 1..Len(column[c]) : column'[c][k] = column[c][k]
      /\ column'[c][pending + row].id = <<rec, row>>
      /\ \A d \in Columns(layout) \ {c} : column'[d] = column[d]
  BY OneAppended DEF GetsOne
<1>3. \A d \in Columns(layout) : \A k \in 1..pending : column'[d][k] = column[d][k]
  <2>1. \A k \in 1..pending : k \in 1..Len(column[c])
    BY <1>0, <1>2
  <2> QED
    BY <1>2, <2>1
<1>4. ASSUME NEW d \in Columns(layout), NEW k \in (pending + 1)..Len(column'[d])
      PROVE  column'[d][k].id = <<rec, k - pending>>
  <2>1. CASE d # c
    BY <1>1, <1>2, <2>1
  <2>2. CASE d = c /\ k = pending + row
    BY <1>0, <1>2, <2>2, SMTT(30)
  <2>3. CASE d = c /\ k # pending + row
    <3>1. k \in (pending + 1)..Len(column[c]) /\ k \in 1..Len(column[c])
      BY <1>0, <1>2, <2>3, SMTT(30)
    <3> QED
      BY <1>1, <1>2, <2>3, <3>1, SMTT(30)
  <2> QED
    BY <2>1, <2>2, <2>3
<1> QED
  BY <1>1, <1>3, <1>4, SMTT(30)

(* The running state of the loop stays within its bounds.                  *)
LEMMA LoopTypes ==
  ASSUME TablesKeepContract, BInv, NEW puts, NEW next, Looping(puts),
         AppendOne(puts, next), next \in {"own", "added"},
         next = "own" => layout.own # << >>
  PROVE  ColumnTypeOK'
<1>0. /\ puts \in Seq(PutType) /\ pos \in 1..Len(puts)
      /\ row \in 1..n /\ n \in Nat
      /\ ColumnTypeOK /\ layout.own \in Seq(PutType)
  BY LoopFacts DEF BInv, ColumnTypeOK, TablesKeepContract, Contract, ListsTyped
<1>1. column' \in [Columns(layout) -> Seq(CellType)]
  BY OneAppended DEF GetsOne
<1>2. /\ pos' \in 1..Len(ListAt(layout, at'))
      /\ row' \in Nat \ {0} /\ (at' \in {"common", "own"} => row' <= n)
      /\ at' \in Places
  <2>1. CASE pos < Len(puts)
    BY <1>0, <2>1 DEF AppendOne, Looping, ListAt, Places
  <2>2. CASE ~(pos < Len(puts)) /\ row < n
    BY <1>0, <2>2 DEF AppendOne, Looping, ListAt, Places
  <2>3. CASE ~(pos < Len(puts)) /\ ~(row < n)
    BY <1>0, <2>3 DEF AppendOne, ListAt, Places
  <2> QED
    BY <2>1, <2>2, <2>3
<1> QED
  BY <1>0, <1>1, <1>2 DEF AppendOne, ColumnTypeOK, Columns

LEMMA AppendCommonStep ==
  ASSUME TablesKeepContract, BInv, AppendCommon
  PROVE  BInv'
<1> DEFINE puts == layout.common
           next == IF layout.own = << >> THEN "added" ELSE "own"
<1>0. /\ at = "common" /\ AppendOne(puts, next) /\ Looping(puts)
      /\ UNCHANGED <<layout, pending, rec, n, arrays, batches>>
  BY DEF AppendCommon, AppendOne, Looping
<1>1. ColumnTypeOK'
  BY <1>0, LoopTypes
<1>2. /\ AppendedTo(puts) \cap AppendedTo(layout.own) = {}
      /\ AppendedTo(puts) \cup AppendedTo(layout.own) = Columns(layout)
      /\ layout.own = << >> => AppendedTo(layout.own) = {}
  <2>1. Contract(layout)
    BY DEF BInv, ColumnTypeOK, TablesKeepContract
  <2>2. layout.own = << >> => AppendedTo(layout.own) = {}
    BY DEF AppendedTo
  <2> QED
    BY <2>1, <2>2 DEF Contract, AppendsToAll
<1>3. at' \in {"common", "own", "added"}
  BY <1>0 DEF AppendOne
<1>4. ASSUME NEW d \in Columns(layout)
      PROVE  Len(column'[d]) = Filling(d)'
  <2>0. /\ pos \in 1..Len(puts) /\ n \in Nat /\ row \in 1..n /\ pending \in Nat
    BY <1>0, LoopFacts
  <2>1. CASE d \in AppendedTo(puts)
    <3>1. CASE pos < Len(puts) \/ row < n
      <4>1. at' = "common"
        BY <1>0, <3>1 DEF AppendOne
      <4>2. Filling(d)' = pending + (row' - 1)
                   + (IF \E k \in 1..(pos' - 1) : puts[k].to = d THEN 1 ELSE 0)
        BY <1>0, <2>1, <4>1 DEF Filling, SoFar, Reached, AppendedTo
      <4> QED
        BY <1>0, <2>1, <3>1, <4>2, LoopCounts
    <3>2. CASE ~(pos < Len(puts) \/ row < n)
      <4>1. at' = next
        BY <1>0, <3>2 DEF AppendOne
      <4>2. Filling(d)' = pending + n
        BY <1>0, <1>2, <2>1, <4>1 DEF Filling, AppendedTo
      <4> QED
        BY <1>0, <2>1, <3>2, <4>2, LoopCounts
    <3> QED
      BY <3>1, <3>2
  <2>2. CASE d \notin AppendedTo(puts)
    <3>1. Len(column'[d]) = pending
      <4>1. d # puts[pos].to
        BY <1>0, <2>2, LoopFacts
      <4>2. column'[d] = column[d]
        BY <1>0, <4>1, OneAppended DEF GetsOne
      <4> QED
        BY <1>0, <2>2, <4>2 DEF BInv, BuildersInStep, Appending, Filling
    <3>2. at' \in {"common", "own"}
      BY <1>0, <1>2, <2>2 DEF AppendOne
    <3>3. CASE at' = "common"
      BY <1>0, <2>2, <3>1, <3>3 DEF Filling, AppendedTo
    <3>4. CASE at' = "own"
      <4>1. pos' = 1 /\ row' = 1
        BY <1>0, <3>4 DEF AppendOne
      <4>2. d \in AppendedTo(layout.own)
        BY <1>2, <2>2
      <4>3. Filling(d)' = pending
        BY <1>0, <2>0, <3>4, <4>1, <4>2 DEF Filling, SoFar, Reached, AppendedTo
      <4> QED
        BY <3>1, <4>3
    <3> QED
      BY <3>2, <3>3, <3>4
  <2> QED
    BY <2>1, <2>2
<1>5. BuildersInStep'
  <2>1. arrays = << >>
    BY <1>0 DEF BInv, BuildersInStep, Appending
  <2> QED
    BY <1>0, <1>4, <2>1, LoopIds DEF BuildersInStep, Columns
<1> QED
  BY <1>0, <1>1, <1>3, <1>5, SameBatches DEF BInv, FlushInStep

LEMMA AppendOwnStep ==
  ASSUME TablesKeepContract, BInv, AppendOwn
  PROVE  BInv'
<1> DEFINE puts == layout.own
<1>0. /\ at = "own" /\ AppendOne(puts, "added") /\ Looping(puts)
      /\ UNCHANGED <<layout, pending, rec, n, arrays, batches>>
  BY DEF AppendOwn, AppendOne, Looping
<1>1. ColumnTypeOK'
  BY <1>0, LoopTypes
<1>2. at' \in {"own", "added"}
  BY <1>0 DEF AppendOne
<1>3. ASSUME NEW d \in Columns(layout)
      PROVE  Len(column'[d]) = Filling(d)'
  <2>0. /\ pos \in 1..Len(puts) /\ n \in Nat /\ row \in 1..n /\ pending \in Nat
    BY <1>0, LoopFacts
  <2>1. CASE d \in AppendedTo(puts)
    <3>1. CASE pos < Len(puts) \/ row < n
      <4>1. at' = "own"
        BY <1>0, <3>1 DEF AppendOne
      <4>2. Filling(d)' = pending + (row' - 1)
                   + (IF \E k \in 1..(pos' - 1) : puts[k].to = d THEN 1 ELSE 0)
        BY <1>0, <2>1, <4>1 DEF Filling, SoFar, Reached, AppendedTo
      <4> QED
        BY <1>0, <2>1, <3>1, <4>2, LoopCounts
    <3>2. CASE ~(pos < Len(puts) \/ row < n)
      <4>1. at' = "added"
        BY <1>0, <3>2 DEF AppendOne
      <4>2. Filling(d)' = pending + n
        BY <1>0, <2>1, <4>1 DEF Filling
      <4> QED
        BY <1>0, <2>1, <3>2, <4>2, LoopCounts
    <3> QED
      BY <3>1, <3>2
  <2>2. CASE d \notin AppendedTo(puts)
    <3>1. d # puts[pos].to
      BY <1>0, <2>2, LoopFacts
    <3>2. column'[d] = column[d]
      BY <1>0, <3>1, OneAppended DEF GetsOne
    <3>3. Len(column[d]) = pending + n
      BY <1>0, <2>2 DEF BInv, BuildersInStep, Appending, Filling
    <3>4. Filling(d)' = pending + n
      BY <1>0, <1>2, <2>2 DEF Filling, AppendedTo
    <3> QED
      BY <3>2, <3>3, <3>4
  <2> QED
    BY <2>1, <2>2
<1>4. BuildersInStep'
  <2>1. arrays = << >>
    BY <1>0 DEF BInv, BuildersInStep, Appending
  <2> QED
    BY <1>0, <1>3, <2>1, LoopIds DEF BuildersInStep, Columns
<1> QED
  BY <1>0, <1>1, <1>2, <1>4, SameBatches DEF BInv, FlushInStep

-----------------------------------------------------------------------------
(* The flush.  Its columns are all of them, each once.                     *)
LEMMA FlushFacts ==
  ASSUME TablesKeepContract, ColumnTypeOK
  PROVE  /\ Width \in Nat /\ Width = Len(layout.schema)
         /\ layout.finish \in Seq(STRING)
         /\ Columns(layout) = {layout.finish[i] : i \in 1..Width}
         /\ \A i, j \in 1..Width : layout.finish[i] = layout.finish[j] => i = j
         /\ \A i \in 1..Width : /\ layout.types[layout.finish[i]] = layout.schema[i].type
                                 /\ layout.types[layout.finish[i]] \in STRING
         /\ Width > 0
<1>1. Contract(layout)
  BY DEF ColumnTypeOK, TablesKeepContract
<1>2. /\ layout.finish \in Seq(STRING) /\ layout.schema \in Seq([name : STRING, type : STRING])
      /\ layout.types \in [Columns(layout) -> STRING]
      /\ layout.common \in Seq(PutType)
  BY <1>1 DEF Contract, ListsTyped
<1>3. /\ Width = Len(layout.schema)
      /\ \A i \in 1..Width : layout.finish[i] = layout.schema[i].name
      /\ \A i, j \in 1..Width : layout.finish[i] = layout.finish[j] => i = j
  BY <1>1 DEF Contract, FinishFollowsSchema, Width
<1>4. /\ Columns(layout) = {layout.finish[i] : i \in 1..Width}
      /\ \A i \in 1..Width : layout.types[layout.schema[i].name] = layout.schema[i].type
  BY <1>1, <1>3 DEF Contract, TypesFollowSchema, Width
<1>5. Width > 0
  <2>1. layout.common # << >> /\ AppendedTo(layout.common) \subseteq Columns(layout)
    BY <1>1 DEF Contract, AppendsToAll
  <2>2. layout.common[1].to \in AppendedTo(layout.common)
    BY <1>2, <2>1 DEF AppendedTo
  <2> QED
    BY <1>2, <1>4, <2>1, <2>2 DEF Width
<1> QED
  BY <1>2, <1>3, <1>4, <1>5, SMTT(30) DEF Width

(* A flush begins with columns as long as the rows pending.                *)
LEMMA FlushBegins ==
  ASSUME TablesKeepContract, ColumnTypeOK, ColumnTypeOK',
         UNCHANGED <<layout, column, arrays>>, arrays = << >>,
         at' = "finish", pos' = 1,
         \A c \in Columns(layout) : Len(column[c]) = pending',
         \A c, d \in Columns(layout) : \A k \in 1..pending' :
            column[c][k].id = column[d][k].id
  PROVE  FlushInStep'
<1>1. \A i \in 1..Width : layout.finish[i] \in Columns(layout)
  BY FlushFacts
<1>2. \A i \in 1..Width : CellsAt(i)' = column[layout.finish[i]]
  BY FlushFacts DEF CellsAt, ColumnAt
<1> QED
  BY <1>1, <1>2 DEF FlushInStep, Width

LEMMA AddedStep ==
  ASSUME TablesKeepContract, BInv, Added
  PROVE  BInv'
<1>0. /\ at = "added" /\ pending' = pending + n /\ pos' = 1
      /\ at' \in {"finish", "idle"}
      /\ UNCHANGED <<layout, column, rec, n, row, arrays, batches, closing, owed>>
      /\ n \in Nat /\ pending \in Nat /\ ColumnTypeOK
  BY DEF Added, BInv, ColumnTypeOK
<1>1. ColumnTypeOK'
  <2>1. pos' <= Len(ListAt(layout, at'))
    BY <1>0, FlushFacts DEF ListAt, Width
  <2> QED
    BY <1>0, <2>1 DEF ColumnTypeOK, Columns, Places
<1>2. /\ \A c \in Columns(layout) :
            /\ Len(column[c]) = pending + n
            /\ \A k \in (pending + 1)..Len(column[c]) :
                 column[c][k].id = <<rec, k - pending>>
      /\ \A c, d \in Columns(layout) : \A k \in 1..pending :
            column[c][k].id = column[d][k].id
      /\ arrays = << >>
  BY <1>0 DEF BInv, BuildersInStep, Appending, Filling
<1>3. \A c, d \in Columns(layout) : \A k \in 1..pending' :
        column[c][k].id = column[d][k].id
  <2> SUFFICES ASSUME NEW c \in Columns(layout), NEW d \in Columns(layout),
                      NEW k \in 1..pending'
               PROVE  column[c][k].id = column[d][k].id
    OBVIOUS
  <2>1. CASE k <= pending
    BY <1>0, <1>2, <2>1
  <2>2. CASE ~(k <= pending)
    <3>1. k \in (pending + 1)..Len(column[c]) /\ k \in (pending + 1)..Len(column[d])
      BY <1>0, <1>2, <2>2
    <3> QED
      BY <1>2, <3>1
  <2> QED
    BY <2>1, <2>2
<1>4. FlushInStep'
  <2>1. CASE at' = "finish"
    BY <1>0, <1>1, <1>2, <1>3, <2>1, FlushBegins
  <2>2. CASE at' = "idle"
    BY <2>2 DEF FlushInStep
  <2> QED
    BY <1>0, <2>1, <2>2
<1>5. BuildersInStep'
  <2>1. CASE at' = "finish"
    BY <2>1 DEF BuildersInStep, Appending
  <2>2. CASE at' = "idle"
    BY <1>0, <1>2, <1>3, <2>2 DEF BuildersInStep, Filling, Columns
  <2> QED
    BY <1>0, <2>1, <2>2
<1> QED
  BY <1>0, <1>1, <1>4, <1>5, SameBatches DEF BInv

LEMMA CloseStep ==
  ASSUME TablesKeepContract, BInv, Close
  PROVE  BInv'
<1>0. /\ at = "idle" /\ pos' = 1 /\ closing' = TRUE
      /\ at' \in {"closed", "finish"}
      /\ UNCHANGED <<layout, column, pending, rec, n, row, arrays, batches, owed>>
      /\ pending \in Nat /\ ColumnTypeOK
  BY DEF Close, BInv, ColumnTypeOK
<1>1. ColumnTypeOK'
  <2>1. pos' <= Len(ListAt(layout, at'))
    BY <1>0, FlushFacts DEF ListAt, Width
  <2>2. closing' \in BOOLEAN
    BY <1>0
  <2> QED
    BY <1>0, <2>1, <2>2 DEF ColumnTypeOK, Columns, Places
<1>2. /\ \A c \in Columns(layout) : Len(column[c]) = pending
      /\ \A c, d \in Columns(layout) : \A k \in 1..pending :
            column[c][k].id = column[d][k].id
      /\ arrays = << >>
  BY <1>0 DEF BInv, BuildersInStep, Appending, Filling
<1>3. FlushInStep'
  <2>1. CASE at' = "finish"
    BY <1>0, <1>1, <1>2, <2>1, FlushBegins
  <2>2. CASE at' = "closed"
    BY <2>2 DEF FlushInStep
  <2> QED
    BY <1>0, <2>1, <2>2
<1>4. BuildersInStep'
  BY <1>0, <1>2 DEF BInv, BuildersInStep, Appending, Filling, Columns
<1> QED
  BY <1>0, <1>1, <1>3, <1>4, SameBatches DEF BInv

(* finish() moves the cells of a column, and changes none.                 *)
LEMMA CellsKept ==
  ASSUME TablesKeepContract, BInv, FinishColumn
  PROVE  /\ \A i \in 1..Width : CellsAt(i)' = CellsAt(i)
         /\ Len(arrays) = pos - 1 /\ Len(arrays') = pos /\ pos \in 1..Width
         /\ layout' = layout
<1> DEFINE c == layout.finish[pos]
           new == [type |-> layout.types[c], cells |-> column[c]]
<1>0. /\ at = "finish" /\ at' \in {"finish", "make"}
      /\ arrays' = Append(arrays, new)
      /\ column' = [column EXCEPT ![c] = << >>]
      /\ UNCHANGED <<layout, pending, rec, n, row, batches, closing, owed>>
      /\ ColumnTypeOK /\ FlushInStep
  BY DEF FinishColumn, BInv
<1>1. /\ pos \in 1..Width /\ c \in Columns(layout)
      /\ column \in [Columns(layout) -> Seq(CellType)]
      /\ pending \in Nat
  <2>1. pos \in 1..Width
    BY <1>0, FlushFacts DEF ColumnTypeOK, ListAt, Width
  <2> QED
    BY <1>0, <2>1, FlushFacts DEF ColumnTypeOK
<1>3. /\ arrays \in Seq([type : STRING, cells : Seq(CellType)])
      /\ Len(arrays) = pos - 1
      /\ new \in [type : STRING, cells : Seq(CellType)]
  BY <1>0, <1>1, FlushFacts DEF ColumnTypeOK, FlushInStep
<1>4. /\ Len(arrays') = pos /\ arrays'[pos] = new
      /\ \A i \in 1..(pos - 1) : arrays'[i] = arrays[i]
  BY <1>0, <1>1, <1>3
<1>6. /\ column'[c] = << >>
      /\ \A i \in 1..Width : i # pos => column'[layout.finish[i]] = column[layout.finish[i]]
  BY <1>0, <1>1, FlushFacts
<1>7. \A i \in 1..Width : CellsAt(i)' = CellsAt(i)
  <2> SUFFICES ASSUME NEW i \in 1..Width
               PROVE  CellsAt(i)' = CellsAt(i)
    OBVIOUS
  <2>1. CASE i < pos
    BY <1>1, <1>3, <1>4, <2>1 DEF CellsAt
  <2>2. CASE i = pos
    BY <1>1, <1>3, <1>4, <2>2 DEF CellsAt, ColumnAt
  <2>3. CASE i > pos
    BY <1>0, <1>1, <1>3, <1>4, <1>6, <2>3 DEF CellsAt, ColumnAt
  <2> QED
    BY <1>1, <2>1, <2>2, <2>3
<1> QED
  BY <1>0, <1>1, <1>3, <1>4, <1>7

LEMMA FinishColumnStep ==
  ASSUME TablesKeepContract, BInv, FinishColumn
  PROVE  BInv'
<1> DEFINE c == layout.finish[pos]
           new == [type |-> layout.types[c], cells |-> column[c]]
<1>0. /\ at = "finish" /\ at' \in {"finish", "make"}
      /\ arrays' = Append(arrays, new)
      /\ column' = [column EXCEPT ![c] = << >>]
      /\ UNCHANGED <<layout, pending, rec, n, row, batches, closing, owed>>
      /\ ColumnTypeOK /\ FlushInStep
  BY DEF FinishColumn, BInv
<1>1. /\ pos \in 1..Width /\ c \in Columns(layout)
      /\ column \in [Columns(layout) -> Seq(CellType)]
      /\ pending \in Nat
  <2>1. pos \in 1..Width
    BY <1>0, FlushFacts DEF ColumnTypeOK, ListAt, Width
  <2> QED
    BY <1>0, <2>1, FlushFacts DEF ColumnTypeOK
<1>2. /\ pos < Width => at' = "finish" /\ pos' = pos + 1
      /\ ~(pos < Width) => at' = "make" /\ pos' = 1
  BY DEF FinishColumn, Width
<1>3. /\ arrays \in Seq([type : STRING, cells : Seq(CellType)])
      /\ Len(arrays) = pos - 1
      /\ new \in [type : STRING, cells : Seq(CellType)]
  BY <1>0, <1>1, FlushFacts DEF ColumnTypeOK, FlushInStep
<1>4. /\ Len(arrays') = pos /\ arrays'[pos] = new
      /\ \A i \in 1..(pos - 1) : arrays'[i] = arrays[i]
  BY <1>0, <1>1, <1>3
<1>5. ColumnTypeOK'
  <2>1. column' \in [Columns(layout) -> Seq(CellType)]
    BY <1>0, <1>1
  <2>2. arrays' \in Seq([type : STRING, cells : Seq(CellType)])
    BY <1>0, <1>3
  <2>3. pos' \in Nat \ {0} /\ pos' <= Len(ListAt(layout, at'))
    BY <1>1, <1>2, FlushFacts DEF ListAt, Width
  <2> QED
    BY <1>0, <2>1, <2>2, <2>3 DEF ColumnTypeOK, Columns, Places
<1>6. /\ column'[c] = << >>
      /\ \A i \in 1..Width : i # pos => column'[layout.finish[i]] = column[layout.finish[i]]
  BY <1>0, <1>1, FlushFacts
<1>7. \A i \in 1..Width : CellsAt(i)' = CellsAt(i)
  BY CellsKept
<1>8. /\ \A i \in 1..Width : Len(CellsAt(i)) = pending
      /\ \A i, j \in 1..Width : \A k \in 1..pending :
           CellsAt(i)[k].id = CellsAt(j)[k].id
  BY <1>0 DEF FlushInStep
<1>9. \A i \in 1..Len(arrays') : /\ arrays'[i].type = layout.types[layout.finish[i]]
                                 /\ column'[layout.finish[i]] = << >>
  <2> SUFFICES ASSUME NEW i \in 1..pos
               PROVE  /\ arrays'[i].type = layout.types[layout.finish[i]]
                      /\ column'[layout.finish[i]] = << >>
    BY <1>4
  <2>1. CASE i = pos
    BY <1>4, <1>6, <2>1
  <2>2. CASE i # pos
    BY <1>0, <1>1, <1>3, <1>4, <1>6, <2>2 DEF FlushInStep, ColumnAt
  <2> QED
    BY <2>1, <2>2
<1>10. Width' = Width
  BY <1>0 DEF Width
<1>11. Len(arrays') = IF at' = "make" THEN Width ELSE pos' - 1
  <2>1. Width \in Nat
    BY <1>0, FlushFacts
  <2> QED
    BY <1>1, <1>2, <1>4, <2>1
<1>12. FlushInStep'
  <2>1. \A i \in 1..Len(arrays') : ColumnAt(i)' = << >>
    BY <1>0, <1>9 DEF ColumnAt
  <2>2. \A i \in 1..Width : Len(CellsAt(i)') = pending
    BY <1>7, <1>8
  <2>3. \A i, j \in 1..Width : \A k \in 1..pending :
           CellsAt(i)'[k].id = CellsAt(j)'[k].id
    BY <1>7, <1>8
  <2> QED
    BY <1>0, <1>9, <1>10, <1>11, <2>1, <2>2, <2>3 DEF FlushInStep
<1> QED
  BY <1>0, <1>5, <1>12, SameBatches DEF BInv, BuildersInStep, Appending

LEMMA MakeBatchStep ==
  ASSUME TablesKeepContract, BInv, MakeBatch
  PROVE  BInv'
<1> DEFINE new == [rows |-> pending, arrays |-> arrays]
<1>0. /\ at = "make" /\ at' \in {"idle", "closed"}
      /\ batches' = Append(batches, new)
      /\ arrays' = << >> /\ pending' = 0
      /\ UNCHANGED <<layout, column, rec, n, row, pos, closing, owed>>
      /\ ColumnTypeOK /\ FlushInStep /\ BatchesAligned
  BY DEF MakeBatch, BInv
<1>1. /\ Len(arrays) = Width /\ pending \in Nat
      /\ arrays \in Seq([type : STRING, cells : Seq(CellType)])
      /\ batches \in
           Seq([rows : Nat, arrays : Seq([type : STRING, cells : Seq(CellType)])])
  BY <1>0 DEF FlushInStep, ColumnTypeOK
<1>2. new \in [rows : Nat, arrays : Seq([type : STRING, cells : Seq(CellType)])]
  BY <1>1
<1>3. ColumnTypeOK'
  <2>1. batches' \in
          Seq([rows : Nat, arrays : Seq([type : STRING, cells : Seq(CellType)])])
    BY <1>0, <1>1, <1>2
  <2>2. arrays' \in Seq([type : STRING, cells : Seq(CellType)])
    BY <1>0
  <2>3. pos' <= Len(ListAt(layout, at'))
    BY <1>0 DEF ColumnTypeOK, ListAt
  <2> QED
    BY <1>0, <2>1, <2>2, <2>3 DEF ColumnTypeOK, Columns, Places
<1>4. Whole(layout.schema, new)
  <2>1. \A i \in 1..Width : CellsAt(i) = arrays[i].cells
    BY <1>1, FlushFacts, <1>0 DEF CellsAt
  <2>2. \A i \in 1..Width : /\ arrays[i].type = layout.schema[i].type
                            /\ Len(arrays[i].cells) = pending
    BY <1>0, <1>1, <2>1, FlushFacts DEF FlushInStep
  <2>3. \A i, j \in 1..Width : \A k \in 1..pending :
          arrays[i].cells[k].id = arrays[j].cells[k].id
    BY <1>0, <2>1 DEF FlushInStep
  <2> QED
    BY <1>0, <1>1, <2>2, <2>3, FlushFacts DEF Whole
<1>5. BatchesAligned'
  <2>1. \A b \in 1..Len(batches') :
          IF b = Len(batches) + 1 THEN batches'[b] = new
          ELSE b \in 1..Len(batches) /\ batches'[b] = batches[b]
    BY <1>0, <1>1
  <2> QED
    BY <1>0, <1>4, <2>1 DEF BatchesAligned
<1>6. \A c \in Columns(layout) : column[c] = << >>
  <2>1. \A i \in 1..Width : column[layout.finish[i]] = << >>
    BY <1>0, <1>1 DEF FlushInStep, ColumnAt
  <2> QED
    BY <1>0, <2>1, FlushFacts
<1>7. BuildersInStep'
  <2>1. \A c \in Columns(layout) : Filling(c)' = 0
    BY <1>0 DEF Filling
  <2>2. \A c \in Columns(layout) : Len(column'[c]) = 0
    BY <1>0, <1>6
  <2> QED
    BY <1>0, <2>1, <2>2 DEF BuildersInStep, Columns
<1> QED
  BY <1>0, <1>3, <1>5, <1>7 DEF BInv, FlushInStep

LEMMA CallFailsStep ==
  ASSUME BInv, CallFails
  PROVE  BInv'
<1>1. ColumnTypeOK'
  BY DEF BInv, CallFails, ColumnTypeOK, Columns, Places
<1> QED
  BY <1>1, SameBatches DEF BInv, CallFails, BuildersInStep, FlushInStep, Appending

LEMMA StutterBuilders ==
  ASSUME BInv, UNCHANGED bvars
  PROVE  BInv'
<1>1. ColumnTypeOK'
  BY DEF BInv, bvars, ColumnTypeOK, Columns
<1>2. BuildersInStep'
  <2>1. \A c \in Columns(layout) : Filling(c)' = Filling(c)
    BY DEF bvars, Filling, SoFar, Reached, AppendedTo
  <2> QED
    BY <2>1 DEF BInv, bvars, BuildersInStep, Columns
<1>3. FlushInStep'
  <2>1. /\ Width' = Width
        /\ \A i \in 1..Width : CellsAt(i)' = CellsAt(i)
    BY DEF bvars, CellsAt, ColumnAt, Width
  <2> QED
    BY <2>1 DEF BInv, bvars, FlushInStep, ColumnAt
<1> QED
  BY <1>1, <1>2, <1>3, SameBatches DEF BInv, bvars

-----------------------------------------------------------------------------
(* The invariant of the builders holds of every run of a partition whose   *)
(* table keeps the contract.                                               *)
LEMMA BuildersInvariant ==
  ASSUME TablesKeepContract
  PROVE  BSpec => []BInv
<1>1. BInit => BInv
  BY InitBuilders
<1>2. BInv /\ [BNext]_bvars => BInv'
  BY WriteStep, AppendCommonStep, AppendOwnStep, AddedStep, CloseStep,
     FinishColumnStep, MakeBatchStep, CallFailsStep, StutterBuilders DEF BNext
<1> QED
  BY <1>1, <1>2, PTL DEF BSpec

(* The builders and the loops over them stay within their types and lists  *)
(* (append() and finish() of the sinks).                                   *)
THEOREM BuildersTypeCorrect ==
  ASSUME TablesKeepContract
  PROVE  BSpec => []ColumnTypeOK
<1>1. BInv => ColumnTypeOK
  BY DEF BInv
<1> QED
  BY <1>1, BuildersInvariant, PTL

(* Every batch is whole: an array per field, of the field's type, as long  *)
(* as its row count, and every row of one record and entry.                *)
THEOREM BatchesAreAligned ==
  ASSUME TablesKeepContract
  PROVE  BSpec => []BatchesAligned
<1>1. BInv => BatchesAligned
  BY DEF BInv
<1> QED
  BY <1>1, BuildersInvariant, PTL

-----------------------------------------------------------------------------
(* The refinement: the rows of the builders.                               *)

(* The records all of whose rows are in the buffer or handed over.         *)
Putting == {"common", "own", "added"}
Written == IF at \in Putting THEN rec - 1 ELSE rec

(* append() runs for a record with rows, flush() with rows pending, and    *)
(* the rows of the record at hand are in no buffer and no batch before     *)
(* append() is through with it.                                            *)
RowsOrdered ==
  /\ at \in Putting => n \in Nat \ {0} /\ rec \in Nat \ {0}
  /\ at \in {"finish", "make"} => pending # 0
  /\ \A i \in 1..pending : BufferedRows[i][1] \in 1..Written
  /\ \A b \in DOMAIN batches : \A i \in 1..batches[b].rows :
       HandedRows[b][i][1] \in 1..Written

(* The rows that columns which agree make.                                 *)
LEMMA RowsOfColumns ==
  ASSUME NEW S, NEW m \in Nat, NEW x \in S,
         \A y \in S : Len(y) \in Nat /\ m <= Len(y),
         \A y, z \in S : \A i \in 1..m : y[i].id = z[i].id,
         NEW i \in 1..m
  PROVE  RowId(S, i) = x[i].id
<1>1. \A y, z \in S : i <= Len(y) /\ i <= Len(z) /\ y[i].id = z[i].id
  OBVIOUS
<1>2. (CHOOSE y \in S : TRUE) \in S
  OBVIOUS
<1>3. RowId(S, i) = (CHOOSE y \in S : TRUE)[i].id
  BY <1>1 DEF RowId
<1>4. (CHOOSE y \in S : TRUE)[i].id = x[i].id
  BY <1>1, <1>2
<1> QED
  BY <1>3, <1>4

(* As long as no column is an array, the buffer is what the builders hold. *)
LEMMA HeldInBuilders ==
  /\ arrays = << >> => \A c : Held(c) = column[c]
  /\ arrays' = << >> => \A c : Held(c)' = column'[c]
BY DEF Held

LEMMA BufferInBuilders ==
  ASSUME TablesKeepContract, BInv, at \in Appending
  PROVE  /\ \A c \in Columns(layout) : \A i \in 1..pending :
              BufferedRows[i] = column[c][i].id
         /\ BufferedRows = [i \in 1..pending |->
              RowId({column[c] : c \in Columns(layout)}, i)]
         /\ Columns(layout) # {} /\ pending \in Nat
         /\ \A c \in Columns(layout) : Len(column[c]) \in Nat /\ pending <= Len(column[c])
<1> DEFINE S == {column[c] : c \in Columns(layout)}
<1>1. arrays = << >> /\ pending \in Nat /\ ColumnTypeOK
  BY DEF BInv, BuildersInStep, ColumnTypeOK
<1>2. BufferedRows = [i \in 1..pending |-> RowId(S, i)]
  BY <1>1, HeldInBuilders DEF BufferedRows
<1>3. Columns(layout) # {}
  <2>1. Width \in Nat /\ Width > 0 /\ Columns(layout) = {layout.finish[i] : i \in 1..Width}
    BY <1>1, FlushFacts
  <2>2. 1 \in 1..Width
    BY <2>1
  <2> QED
    BY <2>1, <2>2
<1>4. \A c \in Columns(layout) : Len(column[c]) \in Nat /\ pending <= Len(column[c])
  <2> SUFFICES ASSUME NEW c \in Columns(layout)
               PROVE  Len(column[c]) \in Nat /\ pending <= Len(column[c])
    OBVIOUS
  <2>1. column[c] \in Seq(CellType) /\ n \in Nat /\ row \in Nat \ {0}
    BY <1>1 DEF ColumnTypeOK
  <2>2. Len(column[c]) = Filling(c)
    BY DEF BInv, BuildersInStep
  <2>3. Filling(c) >= pending
    BY <1>1, <2>1 DEF Filling, SoFar, Appending
  <2> QED
    BY <2>1, <2>2, <2>3
<1>5. \A c, d \in Columns(layout) : \A i \in 1..pending : column[c][i].id = column[d][i].id
  BY DEF BInv, BuildersInStep
<1>6. ASSUME NEW c \in Columns(layout), NEW i \in 1..pending
      PROVE  BufferedRows[i] = column[c][i].id
  <2>1. column[c] \in S
    OBVIOUS
  <2>2. \A y \in S : Len(y) \in Nat /\ pending <= Len(y)
    BY <1>4
  <2>3. \A y, z \in S : \A k \in 1..pending : y[k].id = z[k].id
    BY <1>5
  <2> HIDE DEF S
  <2>4. RowId(S, i) = column[c][i].id
    BY <1>1, <2>1, <2>2, <2>3, RowsOfColumns
  <2> QED
    BY <1>2, <2>4
<1> QED
  BY <1>1, <1>2, <1>3, <1>4, <1>6

(* The same when the builders may have gained values in this step.         *)
LEMMA BufferAfter ==
  ASSUME TablesKeepContract, BInv, at \in Appending,
         UNCHANGED layout, arrays' = << >>, pending' \in Nat,
         NEW c \in Columns(layout),
         \A d \in Columns(layout) : Len(column'[d]) \in Nat /\ pending' <= Len(column'[d]),
         \A d, e \in Columns(layout) : \A k \in 1..pending' :
           column'[d][k].id = column'[e][k].id
  PROVE  BufferedRows' = [i \in 1..pending' |-> column'[c][i].id]
<1> DEFINE S == {column'[d] : d \in Columns(layout)}
<1>1. BufferedRows' = [i \in 1..pending' |-> RowId(S, i)]
  <2>1. {Held(d) : d \in Columns(layout)}' = S
    BY HeldInBuilders DEF Columns
  <2> HIDE DEF S
  <2> QED
    BY <2>1 DEF BufferedRows
<1>2. column'[c] \in S
  OBVIOUS
<1>3. \A y \in S : Len(y) \in Nat /\ pending' <= Len(y)
  OBVIOUS
<1>4. \A y, z \in S : \A k \in 1..pending' : y[k].id = z[k].id
  OBVIOUS
<1> HIDE DEF S
<1>5. \A i \in 1..pending' : RowId(S, i) = column'[c][i].id
  BY <1>2, <1>3, <1>4, RowsOfColumns
<1> QED
  BY <1>1, <1>5

-----------------------------------------------------------------------------
(* What each step does to the rows.                                        *)
SameRows == BufferedRows' = BufferedRows /\ HandedRows' = HandedRows

LEMMA SameHanded == UNCHANGED batches => HandedRows' = HandedRows
BY DEF HandedRows

LEMMA RowsUntouched ==
  UNCHANGED <<layout, column, pending, arrays, batches>> => SameRows
BY DEF SameRows, BufferedRows, HandedRows, Held, Columns

LEMMA LoopKeepsRows ==
  ASSUME TablesKeepContract, BInv, NEW puts, NEW next, Looping(puts),
         AppendOne(puts, next)
  PROVE  SameRows
<1>1. /\ UNCHANGED <<layout, pending, arrays, batches>>
      /\ at \in Appending /\ arrays = << >>
  BY DEF AppendOne, Looping, Appending, BInv, BuildersInStep
<1> DEFINE c == puts[pos].to
<1>2. c \in Columns(layout)
  BY LoopFacts
<1>3. /\ column' \in [Columns(layout) -> Seq(CellType)]
      /\ row \in 1..n /\ pending \in Nat /\ n \in Nat
      /\ Len(column[c]) = pending + row - 1
      /\ Len(column'[c]) = pending + row
      /\ \A k \in 1..Len(column[c]) : column'[c][k] = column[c][k]
      /\ \A d \in Columns(layout) \ {c} : column'[d] = column[d]
  BY LoopFacts, OneAppended DEF GetsOne
<1>4. \A d \in Columns(layout) : Len(column[d]) \in Nat /\ pending <= Len(column[d])
  BY <1>1, BufferInBuilders
<1>5. \A d \in Columns(layout) : Len(column'[d]) \in Nat /\ pending <= Len(column'[d])
  BY <1>3, <1>4
<1>6. \A d, e \in Columns(layout) : \A k \in 1..pending : column'[d][k].id = column'[e][k].id
  BY LoopIds
<1>7. BufferedRows' = [i \in 1..pending |-> column'[c][i].id]
  BY <1>1, <1>2, <1>3, <1>5, <1>6, BufferAfter
<1>8. \A i \in 1..pending : column'[c][i] = column[c][i] /\ BufferedRows[i] = column[c][i].id
  <2>1. \A i \in 1..pending : i \in 1..Len(column[c])
    BY <1>3
  <2> QED
    BY <1>1, <1>2, <1>3, <2>1, BufferInBuilders
<1>9. BufferedRows = [i \in 1..pending |-> BufferedRows[i]]
  BY DEF BufferedRows
<1> QED
  BY <1>1, <1>7, <1>8, <1>9, SameHanded DEF SameRows

LEMMA Joined ==
  ASSUME NEW X, NEW s \in Seq(X), NEW t \in Seq(X)
  PROVE  /\ s \o t = [i \in 1..(Len(s) + Len(t)) |-> (s \o t)[i]]
         /\ \A i \in 1..Len(s) : (s \o t)[i] = s[i]
         /\ \A i \in (Len(s) + 1)..(Len(s) + Len(t)) :
              (s \o t)[i] = t[i - Len(s)] /\ i - Len(s) \in 1..Len(t)
<1>1. s \o t \in Seq(X) /\ Len(s \o t) = Len(s) + Len(t) /\ Len(s) \in Nat /\ Len(t) \in Nat
  OBVIOUS
<1>2. \A i \in (Len(s) + 1)..(Len(s) + Len(t)) :
        (s \o t)[i] = t[i - Len(s)] /\ i - Len(s) \in 1..Len(t)
  OBVIOUS
<1>3. s \o t = [i \in 1..(Len(s) + Len(t)) |-> (s \o t)[i]]
  <2> DEFINE u == s \o t
  <2>1. u \in Seq(X) /\ Len(u) = Len(s) + Len(t)
    BY <1>1
  <2> HIDE DEF u
  <2>2. u = [i \in 1..Len(u) |-> u[i]]
    BY <2>1
  <2> QED
    BY <2>1, <2>2 DEF u
<1> QED
  BY <1>2, <1>3

(* added() lets the rows of the record at hand into the buffer.            *)
LEMMA AddedEnters ==
  ASSUME TablesKeepContract, BInv, Added
  PROVE  /\ BufferedRows' = BufferedRows \o Rows!RowsOfRecord(rec, n)
         /\ HandedRows' = HandedRows
         /\ Len(BufferedRows) = pending /\ Len(BufferedRows') = pending + n
<1>1. /\ at = "added" /\ at \in Appending /\ arrays = << >> /\ pending' = pending + n
      /\ UNCHANGED <<layout, column, arrays, batches>>
      /\ n \in Nat /\ pending \in Nat
      /\ column \in [Columns(layout) -> Seq(CellType)]
  BY DEF Added, Appending, BInv, BuildersInStep, ColumnTypeOK
<1>2. PICK c : c \in Columns(layout)
  BY <1>1, BufferInBuilders
<1>3. /\ \A d \in Columns(layout) :
            /\ Len(column[d]) = pending + n
            /\ \A k \in (pending + 1)..Len(column[d]) : column[d][k].id = <<rec, k - pending>>
      /\ \A d, e \in Columns(layout) : \A k \in 1..pending :
           column[d][k].id = column[e][k].id
  BY <1>1 DEF BInv, BuildersInStep, Filling
<1>4. \A d \in Columns(layout) : \A k \in 1..(pending + n) :
        k \in 1..pending \/ k \in (pending + 1)..Len(column[d])
  BY <1>1, <1>3
<1>5. \A d, e \in Columns(layout) : \A k \in 1..pending' : column'[d][k].id = column'[e][k].id
  <2> SUFFICES ASSUME NEW d \in Columns(layout), NEW e \in Columns(layout),
                      NEW k \in 1..(pending + n)
               PROVE  column[d][k].id = column[e][k].id
    BY <1>1
  <2>1. CASE k \in 1..pending
    BY <1>3, <2>1
  <2>2. CASE k \notin 1..pending
    <3>1. k \in (pending + 1)..Len(column[d]) /\ k \in (pending + 1)..Len(column[e])
      BY <1>4, <2>2
    <3> QED
      BY <1>3, <3>1
  <2> QED
    BY <2>1, <2>2
<1>6. BufferedRows' = [i \in 1..(pending + n) |-> column[c][i].id]
  <2>1. \A d \in Columns(layout) : Len(column'[d]) \in Nat /\ pending' <= Len(column'[d])
    BY <1>1, <1>3
  <2> QED
    BY <1>1, <1>2, <1>5, <2>1, BufferAfter
<1>7. \A i \in 1..pending : BufferedRows[i] = column[c][i].id
  BY <1>1, <1>2, BufferInBuilders
<1>8. \A i \in (pending + 1)..(pending + n) : column[c][i].id = <<rec, i - pending>>
  BY <1>2, <1>3
<1> DEFINE B == BufferedRows
           New == Rows!RowsOfRecord(rec, n)
<1>9. B \in Seq(Nat \X Nat) /\ Len(B) = pending
  <2>1. column[c] \in Seq(CellType) /\ Len(column[c]) = pending + n
    BY <1>1, <1>2, <1>3
  <2>2. \A i \in 1..pending : column[c][i] \in CellType
    BY <1>1, <2>1
  <2>3. \A i \in 1..pending : B[i] \in Nat \X Nat
    BY <1>7, <2>2 DEF CellType
  <2>4. B = [i \in 1..pending |-> B[i]]
    BY DEF BufferedRows
  <2> HIDE DEF B
  <2>5. B \in [1..pending -> Nat \X Nat]
    BY <2>3, <2>4
  <2> QED
    BY <1>1, <2>5
<1>10. New = [k \in 1..n |-> <<rec, k>>]
  BY DEF Rows!RowsOfRecord
<1>11. New \in Seq(Nat \X Nat) /\ Len(New) = n
  <2>1. rec \in Nat
    BY BuilderBounds DEF BInv, ColumnTypeOK
  <2> QED
    BY <1>1, <1>10, <2>1
<1>12. BufferedRows' = B \o New
  <2>1. /\ B \o New = [i \in 1..(pending + n) |-> (B \o New)[i]]
        /\ \A i \in 1..pending : (B \o New)[i] = B[i]
        /\ \A i \in (pending + 1)..(pending + n) :
             (B \o New)[i] = New[i - pending] /\ i - pending \in 1..n
    <3> DEFINE X == Nat \X Nat
    <3>1. B \in Seq(X) /\ New \in Seq(X)
      BY <1>9, <1>11
    <3> HIDE DEF B, New, X
    <3>2. /\ B \o New = [i \in 1..(Len(B) + Len(New)) |-> (B \o New)[i]]
          /\ \A i \in 1..Len(B) : (B \o New)[i] = B[i]
          /\ \A i \in (Len(B) + 1)..(Len(B) + Len(New)) :
               (B \o New)[i] = New[i - Len(B)] /\ i - Len(B) \in 1..Len(New)
      BY <3>1, Joined
    <3> QED
      BY <1>9, <1>11, <3>2
  <2>2. ASSUME NEW i \in 1..(pending + n)
        PROVE  (B \o New)[i] = column[c][i].id
    <3>1. CASE i \in 1..pending
      BY <1>7, <2>1, <3>1
    <3>2. CASE i \notin 1..pending
      <4>1. i \in (pending + 1)..(pending + n)
        BY <1>1, <3>2
      <4> QED
        BY <1>8, <1>10, <2>1, <4>1
    <3> QED
      BY <3>1, <3>2
  <2> HIDE DEF B, New
  <2> QED
    BY <1>6, <2>1, <2>2
<1>13. Len(BufferedRows') = pending + n
  BY <1>1, <1>6
<1> QED
  BY <1>1, <1>9, <1>12, <1>13, SameHanded

(* A column that is finished is found among the arrays.                    *)
LEMMA HeldAmong ==
  ASSUME NEW W \in Nat, NEW L \in 0..W, NEW i \in 1..W, NEW F, NEW A, NEW other,
         DOMAIN A = 1..L,
         \A j, k \in 1..W : F[j] = F[k] => j = k
  PROVE  (IF \E j \in DOMAIN A : F[j] = F[i]
          THEN A[CHOOSE j \in DOMAIN A : F[j] = F[i]].cells ELSE other)
         = IF i <= L THEN A[i].cells ELSE other
<1>1. CASE i <= L
  <2>1. i \in DOMAIN A /\ \A j \in DOMAIN A : F[j] = F[i] => j = i
    BY <1>1
  <2>2. (CHOOSE j \in DOMAIN A : F[j] = F[i]) = i
    BY <2>1
  <2> QED
    BY <1>1, <2>1, <2>2
<1>2. CASE ~(i <= L)
  <2>1. ~\E j \in DOMAIN A : F[j] = F[i]
    BY <1>2
  <2> QED
    BY <1>2, <2>1
<1> QED
  BY <1>1, <1>2

(* finish() moves the values, and the rows stay.                           *)
LEMMA FinishKeepsRows ==
  ASSUME TablesKeepContract, BInv, FinishColumn
  PROVE  SameRows
<1>1. /\ UNCHANGED <<layout, pending, batches>> /\ ColumnTypeOK
      /\ arrays \in Seq([type : STRING, cells : Seq(CellType)])
      /\ arrays' = Append(arrays, [type |-> layout.types[layout.finish[pos]],
                                   cells |-> column[layout.finish[pos]]])
  BY DEF FinishColumn, BInv, ColumnTypeOK
<1>2. /\ Width \in Nat /\ pos \in 1..Width
      /\ Len(arrays) = pos - 1 /\ Len(arrays') = pos
      /\ \A i \in 1..Width : CellsAt(i)' = CellsAt(i)
      /\ \A i, j \in 1..Width : layout.finish[i] = layout.finish[j] => i = j
  BY <1>1, CellsKept, FlushFacts
<1>3. DOMAIN arrays = 1..Len(arrays) /\ DOMAIN arrays' = 1..Len(arrays')
  BY <1>1
<1>4. ASSUME NEW i \in 1..Width
      PROVE  /\ Held(layout.finish[i]) = CellsAt(i)
             /\ Held(layout.finish[i])' = CellsAt(i)'
  <2>1. Held(layout.finish[i]) = CellsAt(i)
    <3>1. Len(arrays) \in 0..Width
      BY <1>2
    <3> QED
      BY <1>2, <1>3, <3>1, HeldAmong DEF Held, CellsAt, ColumnAt
  <2>2. Held(layout.finish[i])' = CellsAt(i)'
    <3>1. Len(arrays') \in 0..Width
      BY <1>2
    <3> QED
      BY <1>1, <1>2, <1>3, <3>1, HeldAmong DEF Held, CellsAt, ColumnAt
  <2> QED
    BY <2>1, <2>2
<1>5. \A c \in Columns(layout) : Held(c)' = Held(c)
  <2>1. \A i \in 1..Width : Held(layout.finish[i])' = Held(layout.finish[i])
    BY <1>2, <1>4
  <2>2. \A c \in Columns(layout) : \E i \in 1..Width : c = layout.finish[i]
    BY <1>1, FlushFacts
  <2> QED
    BY <1>1, <2>1, <2>2
<1>6. {Held(c) : c \in Columns(layout)}' = {Held(c) : c \in Columns(layout)}
  BY <1>1, <1>5 DEF Columns
<1>7. BufferedRows' = BufferedRows
  BY <1>1, <1>6 DEF BufferedRows
<1> QED
  BY <1>1, <1>7, SameHanded DEF SameRows

(* flush() hands the buffer over.                                          *)
LEMMA MakeHandsOver ==
  ASSUME TablesKeepContract, BInv, MakeBatch
  PROVE  /\ HandedRows' = Append(HandedRows, BufferedRows)
         /\ BufferedRows' = << >>
<1> DEFINE new == [rows |-> pending, arrays |-> arrays]
<1>1. /\ at = "make" /\ batches' = Append(batches, new) /\ pending' = 0
      /\ UNCHANGED layout
      /\ ColumnTypeOK /\ FlushInStep
      /\ arrays \in Seq([type : STRING, cells : Seq(CellType)])
      /\ batches \in
           Seq([rows : Nat, arrays : Seq([type : STRING, cells : Seq(CellType)])])
      /\ pending \in Nat
  BY DEF MakeBatch, BInv, ColumnTypeOK
<1>2. /\ Width \in Nat /\ Len(arrays) = Width /\ DOMAIN arrays = 1..Width
      /\ \A i, j \in 1..Width : layout.finish[i] = layout.finish[j] => i = j
      /\ Columns(layout) = {layout.finish[i] : i \in 1..Width}
  BY <1>1, FlushFacts DEF FlushInStep
<1>3. \A i \in 1..Width : Held(layout.finish[i]) = arrays[i].cells
  <2> SUFFICES ASSUME NEW i \in 1..Width
               PROVE  Held(layout.finish[i]) = arrays[i].cells
    OBVIOUS
  <2>1. Width \in 0..Width /\ i <= Width
    BY <1>2
  <2> QED
    BY <1>2, <2>1, HeldAmong DEF Held
<1>4. {Held(c) : c \in Columns(layout)} = {arrays[a].cells : a \in DOMAIN arrays}
  BY <1>2, <1>3
<1>5. BufferedRows = [i \in 1..pending |->
                        RowId({arrays[a].cells : a \in DOMAIN arrays}, i)]
  BY <1>4 DEF BufferedRows
<1>6. BufferedRows' = << >>
  BY <1>1 DEF BufferedRows
<1> DEFINE RowsIn(b) == [i \in 1..b.rows |->
                           RowId({b.arrays[a].cells : a \in DOMAIN b.arrays}, i)]
<1>7. RowsIn(new) = BufferedRows
  BY <1>5
<1>8. /\ HandedRows = [b \in DOMAIN batches |-> RowsIn(batches[b])]
      /\ HandedRows' = [b \in DOMAIN batches' |-> RowsIn(batches'[b])]
  BY DEF HandedRows
<1> HIDE DEF RowsIn, new
<1>9. /\ DOMAIN batches = 1..Len(batches) /\ DOMAIN batches' = 1..(Len(batches) + 1)
      /\ Len(batches) \in Nat
      /\ \A b \in 1..Len(batches) : batches'[b] = batches[b]
      /\ batches'[Len(batches) + 1] = new
  BY <1>1
<1> DEFINE Made == [b \in 1..Len(batches) |-> RowsIn(batches[b])]
<1>10. HandedRows = Made /\ Made \in Seq({RowsIn(batches[b]) : b \in 1..Len(batches)})
       /\ Len(Made) = Len(batches)
  BY <1>8, <1>9
<1>11. HandedRows' = Append(Made, RowsIn(new))
  <2>1. Append(Made, RowsIn(new)) =
          [b \in 1..(Len(Made) + 1) |-> IF b = Len(Made) + 1 THEN RowsIn(new) ELSE Made[b]]
    BY <1>10
  <2>2. HandedRows' = [b \in 1..(Len(batches) + 1) |-> RowsIn(batches'[b])]
    BY <1>8, <1>9
  <2>3. \A b \in 1..(Len(batches) + 1) :
          RowsIn(batches'[b]) = IF b = Len(batches) + 1 THEN RowsIn(new) ELSE Made[b]
    <3> SUFFICES ASSUME NEW b \in 1..(Len(batches) + 1)
                 PROVE  RowsIn(batches'[b]) =
                          IF b = Len(batches) + 1 THEN RowsIn(new) ELSE Made[b]
      OBVIOUS
    <3>1. CASE b = Len(batches) + 1
      BY <1>9, <3>1
    <3>2. CASE b # Len(batches) + 1
      <4>1. b \in 1..Len(batches)
        BY <1>9, <3>2
      <4> QED
        BY <1>9, <3>2, <4>1
    <3> QED
      BY <3>1, <3>2
  <2> HIDE DEF Made
  <2> QED
    BY <1>10, <2>1, <2>2, <2>3
<1> QED
  BY <1>6, <1>7, <1>10, <1>11

-----------------------------------------------------------------------------
(* Every step keeps the order of the rows, and is a step of RowBuffer.     *)
BufferInv == BInv /\ RowsOrdered
Implemented == [Rows!RNext]_(Rows!rvars)
Open == at \notin {"closed", "failed"}

LEMMA OrderKept ==
  ASSUME RowsOrdered, SameRows, UNCHANGED <<pending, batches>>,
         Written \in Int, Written' \in Int, Written <= Written',
         at' \in Putting => n' \in Nat \ {0} /\ rec' \in Nat \ {0},
         at' \in {"finish", "make"} => pending' # 0
  PROVE  RowsOrdered'
<1>1. \A r : r \in 1..Written => r \in 1..Written'
  OBVIOUS
<1> QED
  BY <1>1 DEF RowsOrdered, SameRows

LEMMA Stutters ==
  ASSUME SameRows, UNCHANGED rec, Open, Open'
  PROVE  Implemented
BY DEF SameRows, Open, Implemented, Rows!rvars

LEMMA WriteRows ==
  ASSUME TablesKeepContract, BufferInv, Write
  PROVE  RowsOrdered' /\ Implemented
<1>1. /\ at = "idle" /\ rec' = rec + 1 /\ at' = IF n' = 0 THEN "idle" ELSE "common"
      /\ rec \in Nat /\ n' \in Nat
      /\ UNCHANGED <<layout, column, pending, arrays, batches>>
  <2>1. n' \in Nat
    BY WriteStep DEF BufferInv, BInv, ColumnTypeOK
  <2>2. rec \in Nat
    BY BuilderBounds DEF BufferInv, BInv, ColumnTypeOK
  <2> QED
    BY <2>1, <2>2 DEF Write
<1>2. SameRows
  BY <1>1, RowsUntouched
<1>3. RowsOrdered'
  <2>1. Written = rec /\ Written' \in {rec, rec + 1}
    BY <1>1 DEF Written, Putting
  <2> QED
    BY <1>1, <1>2, <2>1, OrderKept DEF BufferInv, Putting
<1>4. Rows!Take
  BY <1>1, <1>2 DEF SameRows, Rows!Take
<1> QED
  BY <1>3, <1>4 DEF Implemented, Rows!RNext

LEMMA AppendRows ==
  ASSUME TablesKeepContract, BufferInv, AppendCommon \/ AppendOwn
  PROVE  RowsOrdered' /\ Implemented
<1>1. PICK puts, next : /\ Looping(puts) /\ AppendOne(puts, next)
                        /\ next \in {"own", "added"} /\ at \in Putting
  BY DEF AppendCommon, AppendOwn, Looping, Putting
<1>2. SameRows
  BY <1>1, LoopKeepsRows DEF BufferInv
<1>3. /\ at' \in Putting /\ UNCHANGED <<pending, rec, n, batches>>
      /\ rec \in Nat \ {0} /\ n \in Nat \ {0}
  <2>1. at' \in Putting /\ UNCHANGED <<pending, rec, n, batches>>
    BY <1>1 DEF AppendOne, Putting
  <2> QED
    BY <1>1, <2>1 DEF BufferInv, RowsOrdered
<1>4. RowsOrdered'
  <2>1. Written = rec - 1 /\ Written' = rec - 1
    BY <1>1, <1>3 DEF Written
  <2>2. at' \notin {"finish", "make"}
    BY <1>3 DEF Putting
  <2> QED
    BY <1>2, <1>3, <2>1, <2>2, OrderKept DEF BufferInv
<1> QED
  BY <1>1, <1>2, <1>3, <1>4, Stutters DEF Open, Putting

LEMMA AddedRows ==
  ASSUME TablesKeepContract, BufferInv, Added
  PROVE  RowsOrdered' /\ Implemented
<1>1. /\ at = "added" /\ at' \in {"finish", "idle"}
      /\ pending' = pending + n /\ pending \in Nat /\ n \in Nat \ {0} /\ rec \in Nat \ {0}
      /\ UNCHANGED <<rec, batches>>
  BY DEF Added, BufferInv, BInv, ColumnTypeOK, RowsOrdered, Putting
<1>2. /\ Written = rec - 1 /\ Written' = rec
  BY <1>1 DEF Written, Putting
<1> DEFINE New == Rows!RowsOfRecord(rec, n)
<1>3. /\ BufferedRows' = BufferedRows \o New
      /\ HandedRows' = HandedRows
      /\ Len(BufferedRows) = pending /\ Len(BufferedRows') = pending + n
  BY AddedEnters DEF BufferInv
<1>4. /\ \A i \in 1..pending : BufferedRows'[i] = BufferedRows[i]
      /\ \A i \in (pending + 1)..(pending + n) : BufferedRows'[i][1] = rec
  <2>1. New = [k \in 1..n |-> <<rec, k>>]
    BY DEF Rows!RowsOfRecord
  <2>2. BufferedRows = [i \in 1..pending |-> BufferedRows[i]]
    BY DEF BufferedRows
  <2> DEFINE X == {BufferedRows[i] : i \in 1..pending} \cup {<<rec, k>> : k \in 1..n}
  <2>3. BufferedRows \in Seq(X)
    <3>1. BufferedRows \in [1..pending -> X]
      BY <2>2
    <3> QED
      BY <1>1, <3>1
  <2>4. New \in Seq(X) /\ Len(New) = n
    <3>1. New \in [1..n -> X]
      BY <2>1
    <3> QED
      BY <1>1, <2>1, <3>1
  <2> HIDE DEF New, X
  <2>5. /\ \A i \in 1..Len(BufferedRows) : (BufferedRows \o New)[i] = BufferedRows[i]
        /\ \A i \in (Len(BufferedRows) + 1)..(Len(BufferedRows) + Len(New)) :
             /\ (BufferedRows \o New)[i] = New[i - Len(BufferedRows)]
             /\ i - Len(BufferedRows) \in 1..Len(New)
    BY <2>3, <2>4, Joined
  <2>6. \A k \in 1..n : New[k][1] = rec
    BY <2>1
  <2> QED
    BY <1>3, <2>4, <2>5, <2>6
<1>5. /\ \A i \in 1..pending : BufferedRows[i][1] \in 1..(rec - 1)
      /\ \A b \in DOMAIN batches : \A i \in 1..batches[b].rows :
           HandedRows[b][i][1] \in 1..(rec - 1)
  BY <1>2 DEF BufferInv, RowsOrdered
<1>6. RowsOrdered'
  <2>1. \A i \in 1..pending' : BufferedRows'[i][1] \in 1..rec
    <3> SUFFICES ASSUME NEW i \in 1..(pending + n)
                 PROVE  BufferedRows'[i][1] \in 1..rec
      BY <1>1
    <3>1. CASE i \in 1..pending
      BY <1>1, <1>4, <1>5, <3>1
    <3>2. CASE i \notin 1..pending
      BY <1>1, <1>4, <3>2
    <3> QED
      BY <3>1, <3>2
  <2>2. \A r : r \in 1..(rec - 1) => r \in 1..rec
    BY <1>1
  <2>3. \A b \in DOMAIN batches' : \A i \in 1..batches'[b].rows :
           HandedRows'[b][i][1] \in 1..rec
    BY <1>1, <1>3, <1>5, <2>2
  <2>4. at' \notin Putting /\ pending' # 0
    BY <1>1 DEF Putting
  <2> QED
    BY <1>2, <2>1, <2>3, <2>4 DEF RowsOrdered
<1>7. ~Rows!Entered(rec)
  <2>1. rec \notin 1..(rec - 1)
    BY <1>1
  <2>2. /\ DOMAIN BufferedRows = 1..pending
        /\ DOMAIN HandedRows = DOMAIN batches
        /\ \A b \in DOMAIN batches : DOMAIN HandedRows[b] = 1..batches[b].rows
    BY DEF BufferedRows, HandedRows
  <2>3. ~\E i \in DOMAIN BufferedRows : BufferedRows[i][1] = rec
    BY <1>5, <2>1, <2>2
  <2>4. ~\E b \in DOMAIN HandedRows : \E i \in DOMAIN HandedRows[b] :
          HandedRows[b][i][1] = rec
    <3> SUFFICES ASSUME NEW b \in DOMAIN batches, NEW i \in 1..batches[b].rows
                 PROVE  HandedRows[b][i][1] # rec
      BY <2>2
    <3>1. HandedRows[b][i][1] \in 1..(rec - 1)
      BY <1>5
    <3> QED
      BY <2>1, <3>1
  <2> QED
    BY <2>3, <2>4 DEF Rows!Entered
<1>8. Rows!Enter
  <2>1. Len(BufferedRows') - Len(BufferedRows) = n /\ Len(BufferedRows') > Len(BufferedRows)
    BY <1>1, <1>3
  <2> QED
    BY <1>1, <1>3, <1>7, <2>1 DEF Rows!Enter
<1> QED
  BY <1>6, <1>8 DEF Implemented, Rows!RNext

LEMMA CloseRows ==
  ASSUME TablesKeepContract, BufferInv, Close
  PROVE  RowsOrdered' /\ Implemented
<1>1. /\ at = "idle" /\ at' = IF pending = 0 THEN "closed" ELSE "finish"
      /\ UNCHANGED <<layout, column, pending, rec, arrays, batches>>
      /\ rec \in Nat
  BY BuilderBounds DEF Close, BufferInv, BInv, ColumnTypeOK
<1>2. SameRows
  BY <1>1, RowsUntouched
<1>3. RowsOrdered'
  <2>1. Written = rec /\ Written' = rec /\ at' \notin Putting
    BY <1>1 DEF Written, Putting
  <2> QED
    BY <1>1, <1>2, <2>1, OrderKept DEF BufferInv
<1>4. CASE pending = 0
  <2>1. BufferedRows = << >>
    BY <1>4 DEF BufferedRows
  <2>2. Rows!CloseEmpty
    BY <1>1, <1>2, <1>4, <2>1 DEF SameRows, Rows!CloseEmpty
  <2> QED
    BY <1>3, <2>2 DEF Implemented, Rows!RNext
<1>5. CASE pending # 0
  BY <1>1, <1>2, <1>3, <1>5, Stutters DEF Open
<1> QED
  BY <1>4, <1>5

LEMMA FinishRows ==
  ASSUME TablesKeepContract, BufferInv, FinishColumn
  PROVE  RowsOrdered' /\ Implemented
<1>1. /\ at = "finish" /\ at' \in {"finish", "make"}
      /\ UNCHANGED <<pending, rec, batches>> /\ rec \in Nat /\ pending # 0
  BY BuilderBounds DEF FinishColumn, BufferInv, BInv, ColumnTypeOK, RowsOrdered
<1>2. SameRows
  BY FinishKeepsRows DEF BufferInv
<1>3. RowsOrdered'
  <2>1. Written = rec /\ Written' = rec /\ at' \notin Putting
    BY <1>1 DEF Written, Putting
  <2> QED
    BY <1>1, <1>2, <2>1, OrderKept DEF BufferInv
<1> QED
  BY <1>1, <1>2, <1>3, Stutters DEF Open

LEMMA MakeRows ==
  ASSUME TablesKeepContract, BufferInv, MakeBatch
  PROVE  RowsOrdered' /\ Implemented
<1>1. /\ at = "make" /\ at' \in {"idle", "closed"} /\ pending' = 0
      /\ batches' = Append(batches, [rows |-> pending, arrays |-> arrays])
      /\ UNCHANGED rec /\ rec \in Nat /\ pending \in Nat /\ pending # 0
      /\ batches \in
           Seq([rows : Nat, arrays : Seq([type : STRING, cells : Seq(CellType)])])
  BY BuilderBounds DEF MakeBatch, BufferInv, BInv, ColumnTypeOK, RowsOrdered
<1>2. HandedRows' = Append(HandedRows, BufferedRows) /\ BufferedRows' = << >>
  BY MakeHandsOver DEF BufferInv
<1>3. Written = rec /\ Written' = rec /\ at' \notin Putting
  BY <1>1 DEF Written, Putting
<1>4. RowsOrdered'
  <2>1. /\ Len(batches) \in Nat /\ DOMAIN batches = 1..Len(batches)
        /\ DOMAIN batches' = 1..(Len(batches) + 1)
        /\ \A b \in 1..Len(batches) : batches'[b] = batches[b]
        /\ batches'[Len(batches) + 1].rows = pending
    BY <1>1
  <2>2. HandedRows = [b \in 1..Len(batches) |-> HandedRows[b]]
    BY <2>1 DEF HandedRows
  <2>3. /\ \A b \in 1..Len(batches) : HandedRows'[b] = HandedRows[b]
        /\ HandedRows'[Len(batches) + 1] = BufferedRows
    <3> DEFINE X == {HandedRows[b] : b \in 1..Len(batches)}
    <3>1. HandedRows \in [1..Len(batches) -> X]
      BY <2>2
    <3>2. HandedRows \in Seq(X) /\ Len(HandedRows) = Len(batches)
      BY <2>1, <2>2, <3>1
    <3> HIDE DEF X
    <3> QED
      BY <1>2, <2>1, <3>2
  <2>4. \A b \in DOMAIN batches' : \A i \in 1..batches'[b].rows :
          HandedRows'[b][i][1] \in 1..rec
    <3> SUFFICES ASSUME NEW b \in 1..(Len(batches) + 1), NEW i \in 1..batches'[b].rows
                 PROVE  HandedRows'[b][i][1] \in 1..rec
      BY <2>1
    <3>1. CASE b \in 1..Len(batches)
      BY <1>3, <2>1, <2>3, <3>1 DEF BufferInv, RowsOrdered
    <3>2. CASE b \notin 1..Len(batches)
      <4>1. b = Len(batches) + 1
        BY <2>1, <3>2
      <4> QED
        BY <1>3, <2>1, <2>3, <4>1 DEF BufferInv, RowsOrdered
    <3> QED
      BY <3>1, <3>2
  <2> QED
    BY <1>1, <1>3, <2>4 DEF RowsOrdered
<1>5. Rows!Hand
  <2>1. BufferedRows # << >>
    <3>1. DOMAIN BufferedRows = 1..pending /\ 1 \in 1..pending
      BY <1>1 DEF BufferedRows
    <3>2. DOMAIN << >> = {}
      OBVIOUS
    <3> QED
      BY <3>1, <3>2, Zenon
  <2> QED
    BY <1>1, <1>2, <2>1 DEF Rows!Hand
<1> QED
  BY <1>4, <1>5 DEF Implemented, Rows!RNext

LEMMA CallFailsRows ==
  ASSUME TablesKeepContract, BufferInv, CallFails
  PROVE  RowsOrdered' /\ Implemented
<1>1. /\ at \in {"common", "own", "finish", "make"} /\ at' = "failed"
      /\ UNCHANGED <<layout, column, pending, rec, arrays, batches>>
      /\ rec \in Nat
  BY BuilderBounds DEF CallFails, BufferInv, BInv, ColumnTypeOK
<1>2. SameRows
  BY <1>1, RowsUntouched
<1>3. RowsOrdered'
  <2>1. Written \in {rec - 1, rec} /\ Written' = rec /\ at' \notin Putting
    BY <1>1 DEF Written, Putting
  <2> QED
    BY <1>1, <1>2, <2>1, OrderKept DEF BufferInv
<1>4. Rows!Break
  BY <1>1, <1>2 DEF SameRows, Rows!Break
<1> QED
  BY <1>3, <1>4 DEF Implemented, Rows!RNext

LEMMA IdleRows ==
  ASSUME BufferInv, UNCHANGED bvars
  PROVE  RowsOrdered' /\ Implemented
<1>1. SameRows
  BY RowsUntouched DEF bvars
<1>2. RowsOrdered'
  BY <1>1 DEF bvars, BufferInv, RowsOrdered, SameRows, Written
<1> QED
  BY <1>1, <1>2 DEF bvars, SameRows, Implemented, Rows!rvars

LEMMA InitRows ==
  ASSUME BInit
  PROVE  RowsOrdered /\ Rows!RInit
<1>1. BufferedRows = << >> /\ HandedRows = << >>
  BY DEF BInit, BufferedRows, HandedRows
<1>2. RowsOrdered
  BY DEF BInit, RowsOrdered, Putting
<1> QED
  BY <1>1, <1>2 DEF BInit, Rows!RInit

LEMMA BufferSteps ==
  ASSUME TablesKeepContract, BufferInv, [BNext]_bvars
  PROVE  RowsOrdered' /\ Implemented
BY WriteRows, AppendRows, AddedRows, CloseRows, FinishRows, MakeRows, CallFailsRows,
   IdleRows DEF BNext

(* Column by column and value by value, the builders of every table that   *)
(* keeps the contract implement RowBuffer: append() and flush() buffer and *)
(* hand over whole rows, in the order of the records, each once, whichever *)
(* call fails.                                                             *)
THEOREM BuildersImplementRowBuffer ==
  ASSUME TablesKeepContract
  PROVE  BSpec => ImplementsRowBuffer
<1>1. BInit => RowsOrdered /\ Rows!RInit
  BY InitRows
<1>2. BInv /\ RowsOrdered /\ [BNext]_bvars => RowsOrdered' /\ [Rows!RNext]_(Rows!rvars)
  BY BufferSteps DEF BufferInv, Implemented
<1> QED
  BY <1>1, <1>2, BuildersInvariant, PTL DEF BSpec, ImplementsRowBuffer, Rows!RSpec

-----------------------------------------------------------------------------
(* The rows are counted: those owed are in the batches, pending or, while  *)
(* append() runs, still to be added.                                       *)
RowsToAdd == IF at \in Putting THEN n ELSE 0
RowsCounted ==
  /\ IsFiniteSet(RowsHanded) /\ Cardinality(RowsHanded) \in Nat
  /\ at # "failed" => owed = pending + RowsToAdd + Cardinality(RowsHanded)

CountInv == ColumnTypeOK /\ RowsCounted

(* The tables take every entry of their records.                           *)
TablesTakeEntries == \A l \in Layouts : TakesEveryEntry(l)

LEMMA EveryRowAdded ==
  ASSUME NEW l, TakesEveryEntry(l), NEW k \in Nat
  PROVE  RowsOf(l, k) = RowsDue(l, k) /\ RowsOf(l, k) \in Nat
BY DEF TakesEveryEntry, RowsOf, RowsDue

LEMMA NoRowsHanded ==
  ASSUME batches = << >>
  PROVE  IsFiniteSet(RowsHanded) /\ Cardinality(RowsHanded) = 0
<1>1. RowsHanded = {}
  BY DEF RowsHanded
<1> QED
  BY <1>1, FS_EmptySet

(* A batch adds its rows to those handed over.                             *)
RowsAmong(bs) == UNION {{b} \X (1..bs[b].rows) : b \in DOMAIN bs}
OneBatchMore(bs, more, r) ==
  /\ Len(bs) \in Nat
  /\ DOMAIN bs = 1..Len(bs) /\ DOMAIN more = 1..(Len(bs) + 1)
  /\ \A b \in 1..Len(bs) : more[b].rows = bs[b].rows
  /\ more[Len(bs) + 1].rows = r

LEMMA BatchCounted ==
  ASSUME NEW bs, NEW r \in Nat, NEW more, OneBatchMore(bs, more, r),
         IsFiniteSet(RowsAmong(bs))
  PROVE  /\ IsFiniteSet(RowsAmong(more))
         /\ Cardinality(RowsAmong(more)) = Cardinality(RowsAmong(bs)) + r
<1> DEFINE m == Len(bs)
           old == RowsAmong(bs)
           new == RowsAmong(more)
           last == {m + 1} \X (1..r)
<1>0. /\ m \in Nat
      /\ DOMAIN bs = 1..m /\ DOMAIN more = 1..(m + 1)
      /\ \A b \in 1..m : more[b].rows = bs[b].rows
      /\ more[m + 1].rows = r
  BY DEF OneBatchMore
<1> HIDE DEF m
<1>1. new = old \cup last
  <2>1. DOMAIN more = DOMAIN bs \cup {m + 1} /\ m + 1 \notin DOMAIN bs
    BY <1>0
  <2>2. ASSUME NEW x \in new
        PROVE  x \in old \cup last
    <3>1. PICK b \in DOMAIN more : x \in {b} \X (1..more[b].rows)
      BY DEF RowsAmong
    <3>2. CASE b \in DOMAIN bs
      BY <1>0, <3>1, <3>2 DEF RowsAmong
    <3>3. CASE b = m + 1
      BY <1>0, <3>1, <3>3
    <3> QED
      BY <2>1, <3>2, <3>3
  <2>3. ASSUME NEW x \in old
        PROVE  x \in new
    <3>1. PICK b \in DOMAIN bs : x \in {b} \X (1..bs[b].rows)
      BY DEF RowsAmong
    <3>2. b \in DOMAIN more /\ x \in {b} \X (1..more[b].rows)
      BY <1>0, <2>1, <3>1
    <3> QED
      BY <3>2 DEF RowsAmong
  <2>4. last \subseteq new
    BY <1>0, <2>1 DEF RowsAmong
  <2> QED
    BY <2>2, <2>3, <2>4
<1>2. old \cap last = {}
  <2> SUFFICES ASSUME NEW x \in old, x \in last
               PROVE  FALSE
    OBVIOUS
  <2>1. PICK b \in 1..m : x \in {b} \X (1..bs[b].rows)
    BY <1>0 DEF RowsAmong
  <2>2. x[1] = b /\ x[1] = m + 1
    BY <2>1
  <2> QED
    BY <1>0, <2>2
<1>3. IsFiniteSet(last) /\ Cardinality(last) = r
  <2>1. IsFiniteSet({m + 1}) /\ Cardinality({m + 1}) = 1
    BY FS_Singleton
  <2>2. IsFiniteSet(1..r) /\ Cardinality(1..r) = r
    BY FS_Interval
  <2>3. IsFiniteSet(last) /\ Cardinality(last) = Cardinality({m + 1}) * Cardinality(1..r)
    BY <2>1, <2>2, FS_Product
  <2> QED
    BY <2>1, <2>2, <2>3
<1> HIDE DEF last, old, new
<1>4. IsFiniteSet(old) /\ Cardinality(old) \in Nat /\ Cardinality({}) = 0
  BY FS_CardinalityType, FS_EmptySet DEF old
<1>5. /\ IsFiniteSet(old \cup last)
      /\ Cardinality(old \cup last) =
           Cardinality(old) + Cardinality(last) - Cardinality(old \cap last)
  BY <1>3, <1>4, FS_Union
<1>6. Cardinality(old \cap last) = 0
  BY <1>2, <1>4
<1>7. Cardinality(old \cup last) = Cardinality(old) + r
  BY <1>3, <1>4, <1>5, <1>6
<1> QED
  BY <1>1, <1>5, <1>7 DEF old, new

LEMMA CountStep ==
  ASSUME TablesTakeEntries, CountInv, ColumnTypeOK', [BNext]_bvars
  PROVE  RowsCounted'
<1>1. /\ pending \in Nat /\ n \in Nat /\ owed \in Nat /\ layout \in Layouts
      /\ batches \in
           Seq([rows : Nat, arrays : Seq([type : STRING, cells : Seq(CellType)])])
      /\ IsFiniteSet(RowsHanded) /\ Cardinality(RowsHanded) \in Nat
      /\ at # "failed" => owed = pending + RowsToAdd + Cardinality(RowsHanded)
  BY DEF CountInv, ColumnTypeOK, RowsCounted
<1>2. UNCHANGED batches => UNCHANGED RowsHanded
  BY DEF RowsHanded
<1>3. CASE Write
  <2>1. /\ at = "idle" /\ UNCHANGED <<pending, batches>>
        /\ at' = IF n' = 0 THEN "idle" ELSE "common"
    BY <1>3 DEF Write
  <2>2. PICK k \in 0..MaxEntries : /\ n' = RowsOf(layout, k)
                                   /\ owed' = owed + RowsDue(layout, k)
    BY <1>3 DEF Write
  <2>3. k \in Nat /\ TakesEveryEntry(layout)
    BY <1>1, BuilderBounds DEF TablesTakeEntries
  <2>4. owed' = owed + n' /\ n' \in Nat
    BY <2>2, <2>3, EveryRowAdded
  <2> QED
    BY <1>1, <1>2, <2>1, <2>4 DEF RowsCounted, RowsToAdd, Putting
<1>4. CASE AppendCommon \/ AppendOwn
  <2>1. at \in {"common", "own"} /\ at' \in {"common", "own", "added"}
        /\ UNCHANGED <<pending, n, batches, owed>>
    BY <1>4 DEF AppendCommon, AppendOwn, AppendOne
  <2> QED
    BY <1>1, <1>2, <2>1 DEF RowsCounted, RowsToAdd, Putting
<1>5. CASE Added
  BY <1>1, <1>2, <1>5 DEF Added, RowsCounted, RowsToAdd, Putting
<1>6. CASE Close
  BY <1>1, <1>2, <1>6 DEF Close, RowsCounted, RowsToAdd, Putting
<1>7. CASE FinishColumn
  BY <1>1, <1>2, <1>7 DEF FinishColumn, RowsCounted, RowsToAdd, Putting
<1>8. CASE MakeBatch
  <2>1. /\ at = "make" /\ at' \in {"idle", "closed"}
        /\ batches' = Append(batches, [rows |-> pending, arrays |-> arrays])
        /\ pending' = 0 /\ UNCHANGED owed
    BY <1>8 DEF MakeBatch
  <2>2. OneBatchMore(batches, batches', pending)
    BY <1>1, <2>1 DEF OneBatchMore
  <2>3. /\ IsFiniteSet(RowsHanded')
        /\ Cardinality(RowsHanded') = Cardinality(RowsHanded) + pending
    <3>1. RowsHanded = RowsAmong(batches) /\ RowsHanded' = RowsAmong(batches')
      BY DEF RowsHanded, RowsAmong
    <3>2. IsFiniteSet(RowsHanded)
      BY <1>1
    <3> QED
      BY <1>1, <2>2, <3>1, <3>2, BatchCounted
  <2> QED
    BY <1>1, <2>1, <2>3 DEF RowsCounted, RowsToAdd, Putting
<1>9. CASE CallFails
  BY <1>1, <1>2, <1>9 DEF CallFails, RowsCounted
<1>10. CASE UNCHANGED bvars
  BY <1>1, <1>2, <1>10 DEF bvars, RowsCounted, RowsToAdd
<1> QED
  BY <1>3, <1>4, <1>5, <1>6, <1>7, <1>8, <1>9, <1>10 DEF BNext

(* Every entry a reader puts into the vector of a record becomes a row of  *)
(* a batch or is pending (write(), append() and flush() of the sinks), for *)
(* every table that loops over a vector its reader fills.                  *)
THEOREM EveryEntryKept ==
  ASSUME TablesKeepContract, TablesTakeEntries
  PROVE  BSpec => []NoEntryLost
<1>1. BInit => RowsCounted
  <2> SUFFICES ASSUME BInit
               PROVE  RowsCounted
    OBVIOUS
  <2>1. IsFiniteSet(RowsHanded) /\ Cardinality(RowsHanded) = 0
    BY NoRowsHanded DEF BInit
  <2> QED
    BY <2>1 DEF BInit, RowsCounted, RowsToAdd, Putting
<1>2. ColumnTypeOK /\ ColumnTypeOK' /\ RowsCounted /\ [BNext]_bvars => RowsCounted'
  BY CountStep DEF CountInv
<1>3. RowsCounted /\ ColumnTypeOK => NoEntryLost
  BY DEF RowsCounted, RowsToAdd, Putting, NoEntryLost, ColumnTypeOK
<1> QED
  BY <1>1, <1>2, <1>3, BuildersTypeCorrect, PTL DEF BSpec

-----------------------------------------------------------------------------
(* The fields: a builder, and the array finished from it, holds values of  *)
(* the fields append() puts into its column.                               *)
FieldsOf(l, c) == {p.field : p \in {q \in PutsOf(l) : q.to = c}}
CarriesOnly(l, cells, c) == \A k \in 1..Len(cells) : cells[k].field \in FieldsOf(l, c)
InOrder(l, arrs) == \A i \in 1..Len(arrs) : CarriesOnly(l, arrs[i].cells, l.finish[i])

FieldsCarried ==
  /\ \A c \in Columns(layout) : CarriesOnly(layout, column[c], c)
  /\ InOrder(layout, arrays)
  /\ \A b \in 1..Len(batches) : InOrder(layout, batches[b].arrays)

FieldsInv == BInv /\ FieldsCarried

(* No two columns of a table share a field.                                *)
TablesKeepFieldsApart == \A l \in Layouts : FieldsApart(l)

LEMMA NothingCarried ==
  ASSUME BInit
  PROVE  FieldsCarried
BY DEF BInit, FieldsCarried, CarriesOnly, InOrder

LEMMA SameFields ==
  ASSUME FieldsCarried, UNCHANGED <<layout, column, arrays, batches>>
  PROVE  FieldsCarried'
BY DEF FieldsCarried, Columns

LEMMA AppendCarries ==
  ASSUME TablesKeepContract, FieldsInv, AppendCommon \/ AppendOwn
  PROVE  FieldsCarried'
<1>1. PICK puts, next : /\ Looping(puts) /\ AppendOne(puts, next)
                        /\ puts \in {layout.common, layout.own}
  BY DEF AppendCommon, AppendOwn, Looping
<1> DEFINE c == puts[pos].to
<1>2. /\ pos \in 1..Len(puts) /\ puts \in Seq(PutType)
      /\ row \in 1..n /\ n \in Nat /\ pending \in Nat
      /\ GetsOne(c)
      /\ column \in [Columns(layout) -> Seq(CellType)] /\ c \in Columns(layout)
  BY <1>1, LoopFacts, OneAppended DEF FieldsInv, BInv, ColumnTypeOK
<1>3. puts[pos] \in PutsOf(layout)
  BY <1>1, <1>2 DEF PutsOf
<1>4. puts[pos].field \in FieldsOf(layout, c)
  BY <1>3 DEF FieldsOf
<1>5. column' = [column EXCEPT ![c] = Append(column[c], Cell(puts[pos]))]
      /\ UNCHANGED <<layout, arrays, batches>>
  BY <1>1 DEF AppendOne
<1>6. /\ Len(column[c]) = pending + row - 1
      /\ Len(column'[c]) = pending + row
      /\ \A k \in 1..Len(column[c]) : column'[c][k] = column[c][k]
      /\ \A d \in Columns(layout) \ {c} : column'[d] = column[d]
  BY <1>2 DEF GetsOne
<1>7. column'[c][pending + row].field = puts[pos].field
  <2>1. column[c] \in Seq(CellType) /\ column'[c] = Append(column[c], Cell(puts[pos]))
    BY <1>2, <1>5
  <2>2. pending + row = Len(column[c]) + 1
    BY <1>2, <1>6
  <2>3. Append(column[c], Cell(puts[pos]))[Len(column[c]) + 1] = Cell(puts[pos])
    BY <2>1
  <2> QED
    BY <2>1, <2>2, <2>3 DEF Cell
<1>8. CarriesOnly(layout, column'[c], c)
  <2> SUFFICES ASSUME NEW k \in 1..Len(column'[c])
               PROVE  column'[c][k].field \in FieldsOf(layout, c)
    BY DEF CarriesOnly
  <2>1. CASE k = pending + row
    BY <1>4, <1>7, <2>1
  <2>2. CASE k # pending + row
    <3>1. k \in 1..Len(column[c])
      BY <1>2, <1>6, <2>2
    <3> QED
      BY <1>2, <1>6, <3>1 DEF FieldsInv, FieldsCarried, CarriesOnly
  <2> QED
    BY <2>1, <2>2
<1>9. \A d \in Columns(layout) : CarriesOnly(layout, column'[d], d)
  BY <1>6, <1>8 DEF FieldsInv, FieldsCarried
<1> QED
  BY <1>5, <1>9 DEF FieldsInv, FieldsCarried, Columns

LEMMA FinishCarries ==
  ASSUME TablesKeepContract, FieldsInv, FinishColumn
  PROVE  FieldsCarried'
<1> DEFINE c == layout.finish[pos]
           new == [type |-> layout.types[c], cells |-> column[c]]
<1>1. /\ at = "finish" /\ arrays' = Append(arrays, new)
      /\ column' = [column EXCEPT ![c] = << >>]
      /\ UNCHANGED <<layout, batches>>
  BY DEF FinishColumn
<1>2. /\ arrays \in Seq([type : STRING, cells : Seq(CellType)])
      /\ column \in [Columns(layout) -> Seq(CellType)]
      /\ Len(arrays) = pos - 1 /\ pos \in 1..Width
      /\ Columns(layout) = {layout.finish[i] : i \in 1..Width}
  BY CellsKept, FlushFacts DEF FieldsInv, BInv, ColumnTypeOK
<1>3. c \in Columns(layout) /\ CarriesOnly(layout, new.cells, c)
  BY <1>2 DEF FieldsInv, FieldsCarried
<1>4. \A d \in Columns(layout) : CarriesOnly(layout, column'[d], d)
  <2> SUFFICES ASSUME NEW d \in Columns(layout)
               PROVE  CarriesOnly(layout, column'[d], d)
    OBVIOUS
  <2>1. CASE d = c
    BY <1>1, <1>2, <2>1 DEF CarriesOnly
  <2>2. CASE d # c
    BY <1>1, <1>2, <2>2 DEF FieldsInv, FieldsCarried
  <2> QED
    BY <2>1, <2>2
<1> HIDE DEF new
<1>5. InOrder(layout, arrays')
  <2> SUFFICES ASSUME NEW i \in 1..Len(arrays')
               PROVE  CarriesOnly(layout, arrays'[i].cells, layout.finish[i])
    BY DEF InOrder
  <2>1. /\ Len(arrays') = Len(arrays) + 1
        /\ \A j \in 1..Len(arrays) : arrays'[j] = arrays[j]
        /\ arrays'[Len(arrays) + 1] = new
    BY <1>1, <1>2
  <2>2. CASE i = pos
    BY <1>2, <1>3, <2>1, <2>2
  <2>3. CASE i # pos
    <3>1. i \in 1..Len(arrays)
      BY <1>2, <2>1, <2>3
    <3> QED
      BY <2>1, <3>1 DEF FieldsInv, FieldsCarried, InOrder
  <2> QED
    BY <2>2, <2>3
<1> QED
  BY <1>1, <1>4, <1>5 DEF FieldsInv, FieldsCarried, Columns

LEMMA MakeCarries ==
  ASSUME FieldsInv, MakeBatch
  PROVE  FieldsCarried'
<1> DEFINE new == [rows |-> pending, arrays |-> arrays]
<1>1. /\ batches' = Append(batches, new) /\ arrays' = << >>
      /\ UNCHANGED <<layout, column>>
      /\ batches \in
           Seq([rows : Nat, arrays : Seq([type : STRING, cells : Seq(CellType)])])
  BY DEF MakeBatch, FieldsInv, BInv, ColumnTypeOK
<1>2. new.arrays = arrays
  OBVIOUS
<1> HIDE DEF new
<1>3. /\ Len(batches) \in Nat /\ Len(batches') = Len(batches) + 1
      /\ \A b \in 1..Len(batches) : batches'[b] = batches[b]
      /\ batches'[Len(batches) + 1].arrays = arrays
  BY <1>1, <1>2
<1>4. \A b \in 1..Len(batches') : InOrder(layout, batches'[b].arrays)
  <2> SUFFICES ASSUME NEW b \in 1..Len(batches')
               PROVE  InOrder(layout, batches'[b].arrays)
    OBVIOUS
  <2>1. b \in 1..Len(batches) \/ b = Len(batches) + 1
    BY <1>3
  <2> QED
    BY <1>3, <2>1 DEF FieldsInv, FieldsCarried
<1>5. InOrder(layout, arrays')
  BY <1>1 DEF InOrder
<1> QED
  BY <1>1, <1>4, <1>5 DEF FieldsInv, FieldsCarried, Columns

LEMMA FieldsStep ==
  ASSUME TablesKeepContract, FieldsInv, [BNext]_bvars
  PROVE  FieldsCarried'
<1>1. CASE Write \/ Added \/ Close \/ CallFails \/ UNCHANGED bvars
  <2>1. UNCHANGED <<layout, column, arrays, batches>>
    BY <1>1 DEF Write, Added, Close, CallFails, bvars
  <2> QED
    BY <2>1, SameFields DEF FieldsInv
<1> QED
  BY <1>1, AppendCarries, FinishCarries, MakeCarries DEF BNext

(* What the invariant says of a batch.                                     *)
LEMMA BatchKeepsFields ==
  ASSUME TablesKeepContract, TablesKeepFieldsApart, FieldsInv, NEW b \in DOMAIN batches
  PROVE  FieldsKept(batches[b])
<1> DEFINE arrs == batches[b].arrays
<1>1. /\ Contract(layout) /\ FieldsApart(layout)
      /\ Whole(layout.schema, batches[b])
      /\ InOrder(layout, arrs)
      /\ DOMAIN arrs = 1..Len(arrs)
  <2>1. layout \in Layouts /\ b \in 1..Len(batches)
        /\ batches \in
             Seq([rows : Nat, arrays : Seq([type : STRING, cells : Seq(CellType)])])
    BY DEF FieldsInv, BInv, ColumnTypeOK
  <2> QED
    BY <2>1 DEF TablesKeepContract, TablesKeepFieldsApart, FieldsInv, BInv, FieldsCarried,
       BatchesAligned
<1> SUFFICES ASSUME NEW i \in 1..Len(arrs), NEW j \in 1..Len(arrs),
                    NEW k \in 1..batches[b].rows, i # j
             PROVE  /\ arrs[i].cells[k].field # arrs[j].cells[k].field
                    /\ arrs[i].cells[k].field # layout.schema[j].name
  BY <1>1 DEF FieldsKept
<1>2. /\ arrs[i].cells[k].field \in FieldsOf(layout, layout.finish[i])
      /\ arrs[j].cells[k].field \in FieldsOf(layout, layout.finish[j])
  BY <1>1 DEF Whole, InOrder, CarriesOnly
<1>3. /\ layout.finish[i] # layout.finish[j]
      /\ layout.schema[j].name = layout.finish[j]
  BY <1>1 DEF Whole, Contract, FinishFollowsSchema
<1>4. /\ \E p \in PutsOf(layout) :
           p.to = layout.finish[i] /\ p.field = arrs[i].cells[k].field
      /\ \E q \in PutsOf(layout) :
           q.to = layout.finish[j] /\ q.field = arrs[j].cells[k].field
  BY <1>2 DEF FieldsOf
<1> HIDE DEF arrs
<1> QED
  BY <1>1, <1>3, <1>4 DEF FieldsApart

(* No value reaches the column of another field (append() and finish() of  *)
(* the sinks), for every table whose lists agree and put no field into two *)
(* columns, whatever is appended and whichever call fails.                 *)
THEOREM ValuesReachTheirColumns ==
  ASSUME TablesKeepContract, TablesKeepFieldsApart
  PROVE  BSpec => []FieldsReachTheirColumns
<1>1. BInit => FieldsCarried
  BY NothingCarried
<1>2. BInv /\ FieldsCarried /\ [BNext]_bvars => FieldsCarried'
  BY FieldsStep DEF FieldsInv
<1>3. BInv /\ FieldsCarried => FieldsReachTheirColumns
  BY BatchKeepsFields DEF FieldsInv, FieldsReachTheirColumns
<1> QED
  BY <1>1, <1>2, <1>3, BuildersInvariant, PTL DEF BSpec

=============================================================================
