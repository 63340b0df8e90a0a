--------------------------- MODULE BatchRunProofs ---------------------------
(***************************************************************************)
(* A run of the program is a behaviour of its tables, so what is proved    *)
(* about the tables for any caller holds of every run.                     *)
(***************************************************************************)
EXTENDS BatchRun, DatasetProofs

(* What a sequence of a set is.                                            *)
LEMMA SeqFacts ==
  ASSUME NEW S, NEW q \in Seq(S)
  PROVE  /\ Len(q) \in Nat /\ DOMAIN q = 1..Len(q)
         /\ \A i \in 1..Len(q) : q[i] \in S
OBVIOUS

(* The writes of an item are writes a sink can make.                       *)
LEMMA WritesType ==
  ASSUME NEW it \in Item, it.kind = "record"
  PROVE  Writes(it) \in Seq(SinkWrite)
<1> DEFINE rt == Route(it.type, it.sub)
           w(i) == [table |-> rt[i], sys |-> it.sys, day |-> it.day,
                    n |-> it.rows[i]]
<1>1. /\ it \in RecordItem
      /\ \A i \in DOMAIN it.rows : rt[i] \in Table
  BY ItemAssumption DEF OtherItem
<1>2. /\ it.rows \in Seq(0..RecordRows) /\ it.sys \in System
      /\ it.day \in Day \cup {NoDate}
  BY <1>1 DEF RecordItem
<1> HIDE DEF rt
<1>4. /\ Len(it.rows) \in Nat /\ DOMAIN it.rows = 1..Len(it.rows)
      /\ \A i \in 1..Len(it.rows) : it.rows[i] \in 0..RecordRows
  BY <1>2, SeqFacts
<1>3. \A i \in 1..Len(it.rows) : w(i) \in SinkWrite
  BY <1>1, <1>2, <1>4 DEF SinkWrite
<1>5. Writes(it) = [i \in 1..Len(it.rows) |-> w(i)]
  BY <1>4 DEF Writes, rt
<1> HIDE DEF w
<1> QED  BY <1>3, <1>4, <1>5

(* The batch variables keep their types; above all, what is left in todo   *)
(* are writes a sink can make.                                             *)
LEMMA BatchInit == RunInit => Init /\ BatchTypeOK
<1> SUFFICES ASSUME RunInit PROVE BatchTypeOK
  BY DEF RunInit
<1>1. \E n \in 0..MaxItems : input \in [1..n -> Item]
  BY Zenon DEF RunInit
<1>2. PICK n \in 0..MaxItems : input \in [1..n -> Item]
  BY <1>1
<1>3. n \in Nat /\ n <= MaxItems
  BY BoundsOfRun
<1>4. input \in Seq(Item) /\ Len(input) = n
  BY <1>2, <1>3
<1>5. fault \in BOOLEAN /\ byType \in [Type -> Nat] /\ pos = 1 /\ todo = << >>
  BY DEF RunInit
<1>6. << >> \in Seq(SinkWrite)
  OBVIOUS
<1> QED  BY <1>3, <1>4, <1>5, <1>6 DEF BatchTypeOK

LEMMA BatchNext == BatchTypeOK /\ [RunNext]_allvars => BatchTypeOK'
<1> SUFFICES ASSUME BatchTypeOK, [RunNext]_allvars PROVE BatchTypeOK'
  OBVIOUS
<1> USE DEF BatchTypeOK
<1>1. ASSUME TakeRecord
      PROVE  /\ input[pos] \in Item /\ input[pos].kind = "record"
             /\ byType' \in [Type -> Nat]
             /\ pos' \in 1..(Len(input) + 1)
  <2>1. input[pos] \in Item /\ input[pos].kind = "record"
    BY <1>1 DEF TakeRecord
  <2>2. input[pos].type \in Type
    BY <2>1, ItemAssumption DEF RecordItem, OtherItem
  <2> QED  BY <1>1, <2>1, <2>2 DEF TakeRecord
<1>2. CASE LoopEnds
  BY <1>2 DEF LoopEnds, bvars
<1>3. CASE SkipShort
  BY <1>3 DEF SkipShort
<1>4. CASE OnRecord
  <2>1. todo' \in Seq(SinkWrite)
    BY <1>1, <1>4, WritesType DEF OnRecord
  <2> QED  BY <1>1, <1>4, <2>1 DEF OnRecord
<1>5. CASE ParseAborts
  BY <1>1, <1>5 DEF ParseAborts
<1>6. CASE WriteNext
  <2>1. todo' \in Seq(SinkWrite)
    BY <1>6 DEF WriteNext
  <2> QED  BY <1>6, <2>1 DEF WriteNext
<1>7. CASE WriteNextFails
  BY <1>7 DEF WriteNextFails
<1>8. CASE TableStep
  BY <1>8 DEF TableStep, bvars
<1>9. CASE StepFails
  BY <1>9 DEF StepFails
<1>10. CASE Kill
  BY <1>10 DEF Kill
<1>11. CASE (Terminated /\ UNCHANGED bvars) \/ UNCHANGED allvars
  BY <1>11 DEF bvars, allvars
<1> QED
  BY <1>2, <1>3, <1>4, <1>5, <1>6, <1>7, <1>8, <1>9, <1>10, <1>11 DEF RunNext

-----------------------------------------------------------------------------
(* Every step of a run is a step of its tables, or leaves them alone.      *)
LEMMA StepRefines == BatchTypeOK /\ [RunNext]_allvars => [Next]_vars
<1> SUFFICES ASSUME BatchTypeOK, RunNext PROVE [Next]_vars
  BY DEF allvars, vars, tvars, wvars
<1>1. CASE LoopEnds
  BY <1>1 DEF LoopEnds, Next
<1>2. CASE SkipShort \/ OnRecord
  BY <1>2 DEF SkipShort, OnRecord
<1>3. CASE ParseAborts \/ Kill
  BY <1>3 DEF ParseAborts, Kill, Next
<1>4. CASE WriteNext \/ WriteNextFails
  <2> DEFINE w == Head(todo)
  <2>1. w \in SinkWrite
    BY <1>4 DEF BatchTypeOK, WriteNext, WriteNextFails
  <2>2. /\ w.table \in Table /\ w.sys \in System /\ w.day \in Day \cup {NoDate}
        /\ w.n \in 0..RecordRows
    BY <2>1 DEF SinkWrite
  <2>3. CASE WriteNext
    <3>1. Write(w.table, w.sys, w.day, w.n)
      BY <2>3 DEF WriteNext
    <3> QED  BY <2>2, <3>1 DEF Next
  <2>4. CASE WriteNextFails
    <3>1. PICK n \in 0..w.n : AppendFails(w.table, w.sys, w.day, n)
      BY <2>4 DEF WriteNextFails
    <3>2. n \in 0..RecordRows
      BY <2>2, BoundsAssumption
    <3> QED  BY <2>2, <3>1, <3>2 DEF Next
  <2> QED  BY <1>4, <2>3, <2>4
<1>5. CASE TableStep
  BY <1>5 DEF TableStep, Next
<1>6. CASE StepFails
  BY <1>6 DEF StepFails, Next
<1>7. CASE Terminated /\ UNCHANGED bvars
  BY <1>7 DEF Next
<1> QED
  BY <1>1, <1>2, <1>3, <1>4, <1>5, <1>6, <1>7 DEF RunNext

(* The program is one caller of its tables, so whatever holds for the most *)
(* general caller holds for the program.                                   *)
THEOREM RunRefinesTables == RunSpec => RefinesTables
<1>1. RunInit => Init /\ BatchTypeOK
  BY BatchInit
<1>2. BatchTypeOK /\ [RunNext]_allvars => BatchTypeOK'
  BY BatchNext
<1>3. BatchTypeOK /\ [RunNext]_allvars => [Next]_vars
  BY StepRefines
<1> QED
  BY <1>1, <1>2, <1>3, PTL DEF RunSpec, RefinesTables, Spec

(* Readers of a run's output never observe a partial file, whatever the    *)
(* input is and wherever the run fails.                                    *)
THEOREM RunVisibleComplete ==
  ASSUME PathsInjective
  PROVE  RunSpec => []VisibleComplete
BY RunRefinesTables, VisibleFilesComplete, PTL DEF RefinesTables

(* A run that returns 0 has published every row its sinks accepted.        *)
THEOREM RunCompleteAtExit ==
  ASSUME PathsInjective
  PROVE  RunSpec => []CompleteAtExit
BY RunRefinesTables, ExitZeroIsComplete, PTL DEF RefinesTables

-----------------------------------------------------------------------------
(* The loop between two calls of on_record.  Before pos there is nothing   *)
(* that ends it; what is left in todo are the last writes of the record    *)
(* before pos; and once the sinks are being closed the loop has ended.     *)
AtHand == input[pos - 1]

TodoInv ==
  todo # << >> =>
    /\ pos > 1 /\ AtHand.kind = "record"
    /\ Len(todo) <= Len(AtHand.rows)
    /\ \A m \in 1..Len(todo) :
         todo[m] = Writes(AtHand)[Len(AtHand.rows) - Len(todo) + m]

LoopInv ==
  /\ \A i \in 1..(pos - 1) : ~StopsLoop(i)
  /\ TodoInv
  /\ Alive /\ ~Reading =>
       todo = << >> /\ (pos <= Len(input) => StopsLoop(pos))

(* The sink writes made, and the rows they were to give a partition.       *)
Made(i, j) ==
  /\ i \in 1..(pos - 1)
  /\ input[i].kind = "record" /\ j \in DOMAIN input[i].rows
  /\ i = pos - 1 => j <= Len(input[i].rows) - Len(todo)

RowsMade(p) ==
  UNION {UNION {SinkRows(i, j) : j \in {k \in SinksFor(i, p) : Made(i, k)}} :
           i \in {k \in 1..(pos - 1) : input[k].kind = "record"}}

(* The rows received for a partition are as many as the sink writes made   *)
(* so far were to give it.                                                 *)
InPart(p) == {r \in received : r.part = p}

RowsMadeInv ==
  Alive => \A p \in Partition :
    /\ IsFiniteSet(InPart(p)) /\ IsFiniteSet(RowsMade(p))
    /\ Cardinality(InPart(p)) = Cardinality(RowsMade(p))

(* by_type counts the records before pos.                                  *)
Counted(ty) == {i \in 1..(pos - 1) : input[i].kind = "record" /\ input[i].type = ty}

TypeCountInv == Alive => \A ty \in Type : byType[ty] = Cardinality(Counted(ty))

RunInv ==
  /\ BatchTypeOK
  /\ LoopInv
  /\ RowsMadeInv
  /\ TypeCountInv
  /\ FailuresExplained

-----------------------------------------------------------------------------
(* What is known of a record of the input and of the writes it asks for.   *)
LEMMA RecordFacts ==
  ASSUME NEW it \in Item, it.kind = "record"
  PROVE  /\ Len(it.rows) \in Nat /\ DOMAIN it.rows = 1..Len(it.rows)
         /\ \A j \in 1..Len(it.rows) :
              /\ it.rows[j] \in 0..RecordRows /\ it.rows[j] \in Nat
              /\ Writes(it)[j] = [table |-> Route(it.type, it.sub)[j], sys |-> it.sys,
                                  day |-> it.day, n |-> it.rows[j]]
         /\ Writes(it) \in Seq(SinkWrite) /\ Len(Writes(it)) = Len(it.rows)
         /\ it.type \in Type
<1>1. it \in RecordItem
  BY ItemAssumption DEF OtherItem
<1>2. it.rows \in Seq(0..RecordRows) /\ it.type \in Type
  BY <1>1 DEF RecordItem
<1>3. /\ Len(it.rows) \in Nat /\ DOMAIN it.rows = 1..Len(it.rows)
      /\ \A j \in 1..Len(it.rows) : it.rows[j] \in 0..RecordRows
  BY <1>2, SeqFacts
<1>4. \A j \in 0..RecordRows : j \in Nat
  BY BoundsAssumption
<1>5. Writes(it) \in Seq(SinkWrite) /\ DOMAIN Writes(it) = DOMAIN it.rows
  BY WritesType DEF Writes
<1>6. Len(Writes(it)) = Len(it.rows)
  BY <1>3, <1>5, SeqFacts
<1> QED  BY <1>2, <1>3, <1>4, <1>5, <1>6 DEF Writes

(* The kinds of steps, by what they do to the input and to the rows        *)
(* received.  A failure of the tables and a kill take no record.           *)
Fails == ~Alive' /\ UNCHANGED <<input, pos, todo, byType, received>>

Quiet ==
  /\ UNCHANGED <<input, pos, todo, byType, fault, received>>
  /\ Alive' => Alive
  /\ pc' \in {"unwind", "exit2", "crashed"} => pc \in {"unwind", "exit2", "crashed"}
  /\ Alive' /\ ~Reading' /\ Reading => LoopEnds

LEMMA StepKinds ==
  ASSUME BatchTypeOK, IInv, [RunNext]_allvars
  PROVE  \/ WriteNext \/ OnRecord \/ SkipShort \/ ParseAborts
         \/ Fails /\ fault' = TRUE
         \/ Quiet
<1> USE DEF Alive, PC, Ended
<1>1. CASE LoopEnds
  BY <1>1 DEF LoopEnds, EndOfInput, Quiet, bvars, tvars, AtLoopHead
<1>2. CASE WriteNextFails
  BY <1>2 DEF WriteNextFails, AppendFails, Fails
<1>3. CASE Kill
  BY <1>3 DEF Kill, Crash, Fails, tvars
<1>4. CASE StepFails
  <2>1. Fails
    BY <1>4 DEF StepFails, FlushOpenFails, FlushWriteFails, CloseFinishFails,
                CloseRenameFails, Fails, tvars
  <2>2. pc = "rename" => tmp[MakePath(cur)] # NoFile
    <3>1. pc = "rename" => cur \in Partition /\ wstate[cur] = "ended" /\ cur # NoFile
      BY SentinelAssumption DEF IInv, ControlInv, TypeOK
    <3> QED  BY <3>1 DEF IInv, LifeInv
  <2> QED  BY <1>4, <2>1, <2>2 DEF StepFails
<1>5. CASE TableStep
  <2>1. UNCHANGED <<input, pos, todo, byType, fault>>
    BY <1>5 DEF TableStep, bvars
  <2>2. CASE FlushOpen \/ CloseFinish \/ CloseRename \/ CloseDone
    BY <2>1, <2>2 DEF FlushOpen, CloseFinish, CloseRename, CloseDone, Quiet, tvars, Reading
  <2>3. CASE FlushWrite
    BY <2>1, <2>3 DEF FlushWrite, Quiet, Reading
  <2>4. CASE \E p \in Partition : CloseVisit(p)
    BY <2>1, <2>4 DEF CloseVisit, Quiet, Reading
  <2>5. CASE Unwind
    BY <2>1, <2>5 DEF Unwind, Quiet, tvars
  <2> QED  BY <1>5, <2>2, <2>3, <2>4, <2>5 DEF TableStep
<1>6. CASE (Terminated /\ UNCHANGED bvars) \/ UNCHANGED allvars
  BY <1>6 DEF Terminated, vars, tvars, bvars, allvars, Quiet, Reading
<1> QED
  BY <1>1, <1>2, <1>3, <1>4, <1>5, <1>6 DEF RunNext

(* The tables are reading after each step of the loop but the last.        *)
LEMMA WriteReads ==
  ASSUME IInv, WriteNext
  PROVE  Reading' /\ pc = "ready" /\ Alive /\ Alive' /\ Reading
<1>1. PICK w : Write(w.table, w.sys, w.day, w.n)
  BY DEF WriteNext
<1>2. pc = "ready" /\ visited' = {} /\ (pc' = "flush" \/ pc' = "ready")
  BY <1>1 DEF Write, IInv, ControlInv
<1> QED  BY <1>2 DEF Reading, Alive, PC, Ended

(* The loop moves past nothing that ends it, and writes what it has to.    *)
LEMMA LoopInvStep ==
  ASSUME BatchTypeOK, BatchTypeOK', IInv, LoopInv, [RunNext]_allvars
  PROVE  LoopInv'
<1> USE DEF BatchTypeOK
<1>0. input' = input
  BY StepKinds DEF WriteNext, OnRecord, SkipShort, ParseAborts, Fails, Quiet
<1>1. ASSUME pos' = pos + 1, input[pos].kind \in {"short", "record"}
      PROVE  \A i \in 1..(pos' - 1) : ~StopsLoop(i)'
  BY <1>0, <1>1 DEF LoopInv, StopsLoop
<1>2. CASE WriteNext
  <2>1. UNCHANGED <<input, pos>> /\ todo # << >> /\ todo' = Tail(todo)
    BY <1>2 DEF WriteNext
  <2>2. AtHand' = AtHand /\ AtHand \in Item /\ AtHand.kind = "record" /\ pos > 1
    BY <2>1 DEF LoopInv, TodoInv, AtHand
  <2>3. Len(AtHand.rows) \in Nat
    BY <2>2, RecordFacts
  <2>4. /\ Len(todo) \in Nat /\ Len(todo') = Len(todo) - 1
        /\ \A m \in 1..Len(todo') : todo'[m] = todo[m + 1]
    BY <2>1
  <2>5. /\ Len(todo) <= Len(AtHand.rows)
        /\ \A m \in 1..Len(todo) :
             todo[m] = Writes(AtHand)[Len(AtHand.rows) - Len(todo) + m]
    BY <2>1 DEF LoopInv, TodoInv
  <2>6. ASSUME NEW m \in 1..Len(todo')
        PROVE  todo'[m] = Writes(AtHand)[Len(AtHand.rows) - Len(todo') + m]
    <3>1. m + 1 \in 1..Len(todo)
      BY <2>1, <2>4
    <3>2. m \in Int /\ Len(todo) \in Int /\ Len(AtHand.rows) \in Int
      BY <2>3, <2>4
    <3>3. \A a, b, c \in Int : a - b + (c + 1) = a - (b - 1) + c
      OBVIOUS
    <3>4. Len(AtHand.rows) - Len(todo) + (m + 1) = Len(AtHand.rows) - (Len(todo) - 1) + m
      BY <3>2, <3>3
    <3> QED  BY <2>4, <2>5, <3>1, <3>4
  <2>7. TodoInv'
    BY <2>1, <2>2, <2>3, <2>4, <2>5, <2>6 DEF TodoInv, Writes
  <2> QED  BY <1>2, <2>1, <2>7, WriteReads DEF LoopInv, StopsLoop
<1>3. CASE OnRecord
  <2>1. /\ pos <= Len(input) /\ input[pos].kind = "record" /\ pos' = pos + 1
        /\ todo' = Writes(input[pos]) /\ pc' = "ready"
    BY <1>3 DEF OnRecord, TakeRecord, AtLoopHead, vars
  <2>2. input[pos] \in Item /\ AtHand' = input[pos]
    BY <1>0, <2>1 DEF AtHand
  <2>3. /\ Len(todo') = Len(input[pos].rows) /\ Len(todo') \in Nat
        /\ AtHand'.rows = input[pos].rows
    BY <2>1, <2>2, RecordFacts
  <2>4. Writes(AtHand)' = todo' /\ pos' > 1 /\ AtHand'.kind = "record"
    BY <2>1, <2>2 DEF Writes
  <2>5. TodoInv'
    BY <2>3, <2>4 DEF TodoInv
  <2> QED  BY <1>1, <2>1, <2>5 DEF LoopInv, Reading
<1>4. CASE SkipShort
  <2>1. /\ input[pos].kind = "short" /\ pos' = pos + 1
        /\ todo' = << >> /\ pc' = "ready"
    BY <1>4 DEF SkipShort, AtLoopHead, vars, tvars
  <2> QED  BY <1>1, <2>1 DEF LoopInv, TodoInv, Reading
<1>5. CASE ParseAborts
  <2>1. /\ input[pos].kind = "record" /\ pos' = pos + 1
        /\ todo' = << >> /\ ~Alive'
    BY <1>5 DEF ParseAborts, TakeRecord, AtLoopHead, Crash, Alive, PC, Ended
  <2> QED  BY <1>1, <2>1 DEF LoopInv, TodoInv
<1>6. CASE Fails
  <2>1. ~Alive' /\ UNCHANGED <<input, pos, todo>>
    BY <1>6 DEF Fails
  <2> QED  BY <2>1 DEF LoopInv, TodoInv, StopsLoop, AtHand, Writes
<1>7. CASE Quiet
  <2>1. UNCHANGED <<input, pos, todo>> /\ (Alive' => Alive)
    BY <1>7 DEF Quiet
  <2>2. LoopEnds => todo = << >> /\ (pos <= Len(input) => StopsLoop(pos))
    BY DEF LoopEnds, AtLoopHead, StopsLoop
  <2>3. Alive' /\ ~Reading' => todo = << >> /\ (pos <= Len(input) => StopsLoop(pos))
    BY <1>7, <2>1, <2>2 DEF Quiet, LoopInv
  <2> QED  BY <2>1, <2>3 DEF LoopInv, TodoInv, StopsLoop, AtHand, Writes
<1> QED  BY <1>2, <1>3, <1>4, <1>5, <1>6, <1>7, StepKinds

-----------------------------------------------------------------------------
(* Rows asked for and rows received.                                       *)
LEMMA SinkRowsCount ==
  ASSUME NEW i \in DOMAIN input, NEW j, input[i].rows[j] \in Nat
  PROVE  /\ IsFiniteSet(SinkRows(i, j))
         /\ Cardinality(SinkRows(i, j)) = input[i].rows[j]
<1> DEFINE n == input[i].rows[j]
           f == [k \in 1..n |-> <<i, j, k>>]
<1>1. f \in Bijection(1..n, SinkRows(i, j))
  BY DEF SinkRows, Bijection, Injection, Surjection, IsInjective
<1>2. ExistsBijection(1..n, SinkRows(i, j))
  BY <1>1 DEF ExistsBijection
<1>0. n \in Nat
  OBVIOUS
<1> HIDE DEF n
<1>3. IsFiniteSet(1..n) /\ Cardinality(1..n) = n
  BY <1>0, FS_Interval
<1> QED  BY <1>2, <1>3, FS_Bijection DEF n

(* The write at hand and the sink it is for.                               *)
Next1 == Len(AtHand.rows) - Len(todo) + 1

LEMMA HeadFacts ==
  ASSUME BatchTypeOK, LoopInv, todo # << >>
  PROVE  /\ pos - 1 \in DOMAIN input /\ pos \in Nat
         /\ AtHand \in Item /\ AtHand.kind = "record"
         /\ Next1 \in DOMAIN AtHand.rows /\ AtHand.rows[Next1] \in 0..RecordRows
         /\ Head(todo) = [table |-> Route(AtHand.type, AtHand.sub)[Next1],
                          sys |-> AtHand.sys, day |-> AtHand.day,
                          n |-> AtHand.rows[Next1]]
         /\ Head(todo) \in SinkWrite
         /\ Len(Tail(todo)) = Len(todo) - 1 /\ Len(todo) \in Nat \ {0}
<1>1. pos - 1 \in DOMAIN input /\ pos \in Nat /\ AtHand \in Item /\ AtHand.kind = "record"
  BY DEF BatchTypeOK, LoopInv, TodoInv, AtHand
<1>2. /\ Len(todo) <= Len(AtHand.rows)
      /\ \A m \in 1..Len(todo) :
           todo[m] = Writes(AtHand)[Len(AtHand.rows) - Len(todo) + m]
  BY DEF LoopInv, TodoInv
<1>3. /\ Head(todo) = todo[1] /\ Head(todo) \in SinkWrite
      /\ Len(todo) \in Nat \ {0} /\ Len(Tail(todo)) = Len(todo) - 1
  BY DEF BatchTypeOK
<1>4. Len(AtHand.rows) \in Nat /\ DOMAIN AtHand.rows = 1..Len(AtHand.rows)
  BY <1>1, RecordFacts
<1>5. Next1 \in 1..Len(AtHand.rows)
  BY <1>2, <1>3, <1>4 DEF Next1
<1>6. Head(todo) = Writes(AtHand)[Next1]
  BY <1>2, <1>3 DEF Next1
<1>7. /\ AtHand.rows[Next1] \in 0..RecordRows
      /\ Writes(AtHand)[Next1] = [table |-> Route(AtHand.type, AtHand.sub)[Next1],
                                  sys |-> AtHand.sys, day |-> AtHand.day,
                                  n |-> AtHand.rows[Next1]]
  BY <1>1, <1>5, RecordFacts
<1> QED  BY <1>1, <1>3, <1>4, <1>5, <1>6, <1>7

(* A sink write that is made is one more made.                             *)
LEMMA MadeStep ==
  ASSUME BatchTypeOK, LoopInv, WriteNext, NEW i, NEW j
  PROVE  Made(i, j)' <=> Made(i, j) \/ (i = pos - 1 /\ j = Next1)
<1>1. UNCHANGED <<input, pos>> /\ todo # << >> /\ todo' = Tail(todo)
  BY DEF WriteNext
<1>2. DOMAIN AtHand.rows = 1..Len(AtHand.rows) /\ Len(AtHand.rows) \in Nat
  BY <1>1, HeadFacts, RecordFacts
<1>3. CASE i = pos - 1
  <2>1. input[i] = AtHand
    BY <1>3 DEF AtHand
  <2>2. i \in 1..(pos - 1) /\ AtHand.kind = "record"
    BY <1>1, <1>3, HeadFacts DEF BatchTypeOK
  <2>3. /\ Made(i, j) <=> j \in 1..Len(AtHand.rows) /\ j <= Len(AtHand.rows) - Len(todo)
        /\ Made(i, j)' <=> j \in 1..Len(AtHand.rows) /\ j <= Len(AtHand.rows) - Len(todo')
    BY <1>1, <1>2, <1>3, <2>1, <2>2 DEF Made
  <2> QED  BY <1>1, <1>2, <1>3, <2>3, HeadFacts DEF Next1
<1>4. CASE i # pos - 1
  BY <1>1, <1>4 DEF Made
<1> QED  BY <1>3, <1>4

(* The step of the loop to the next record makes no write.                 *)
LEMMA MadeKept ==
  ASSUME BatchTypeOK, LoopInv, OnRecord \/ SkipShort, NEW i, NEW j
  PROVE  Made(i, j)' <=> Made(i, j)
<1>1. /\ UNCHANGED input /\ todo = << >> /\ pos' = pos + 1 /\ pos \in Nat \ {0}
      /\ pos \in DOMAIN input /\ input[pos] \in Item
      /\ \/ input[pos].kind = "record" /\ todo' = Writes(input[pos])
         \/ input[pos].kind = "short" /\ todo' = todo
  BY DEF BatchTypeOK, OnRecord, SkipShort, TakeRecord, AtLoopHead
<1>2. CASE i = pos
  <2>1. ~Made(i, j)
    BY <1>1, <1>2 DEF Made
  <2>2. CASE input[pos].kind = "short"
    BY <1>1, <1>2, <2>1, <2>2 DEF Made
  <2>3. CASE input[pos].kind = "record"
    <3>1. /\ Len(todo') = Len(input[pos].rows) /\ Len(input[pos].rows) \in Nat
          /\ DOMAIN input[pos].rows = 1..Len(input[pos].rows)
      BY <1>1, <2>3, RecordFacts
    <3> QED  BY <1>1, <1>2, <2>1, <3>1 DEF Made
  <2> QED  BY <1>1, <2>2, <2>3
<1>3. CASE i = pos - 1
  <2>1. Made(i, j)' <=> i \in 1..(pos - 1) /\ input[i].kind = "record" /\ j \in DOMAIN input[i].rows
    BY <1>1, <1>3 DEF Made
  <2>2. ASSUME i \in 1..(pos - 1), input[i].kind = "record", j \in DOMAIN input[i].rows
        PROVE  j <= Len(input[i].rows) - Len(todo)
    <3>1. input[i] \in Item
      BY <1>1, <2>2 DEF BatchTypeOK
    <3>2. j \in 1..Len(input[i].rows) /\ Len(input[i].rows) \in Nat
      BY <2>2, <3>1, RecordFacts
    <3> QED  BY <1>1, <3>2
  <2> QED  BY <2>1, <2>2 DEF Made
<1>4. CASE i # pos /\ i # pos - 1
  BY <1>1, <1>4 DEF Made
<1> QED  BY <1>2, <1>3, <1>4

(* The rows the write at hand is to give partition p.                      *)
Given(p) == IF Next1 \in SinksFor(pos - 1, p) THEN SinkRows(pos - 1, Next1) ELSE {}

LEMMA RowsMadeStep ==
  ASSUME BatchTypeOK, LoopInv, WriteNext, NEW p \in Partition
  PROVE  /\ RowsMade(p)' = RowsMade(p) \cup Given(p)
         /\ RowsMade(p) \cap Given(p) = {}
<1>1. UNCHANGED <<input, pos>>
  BY DEF WriteNext
<1>2. \A i, j : Made(i, j)' <=> Made(i, j) \/ (i = pos - 1 /\ j = Next1)
  BY MadeStep
<1>3. ~Made(pos - 1, Next1)
  <2>1. todo # << >> /\ AtHand = input[pos - 1]
    BY DEF WriteNext, AtHand
  <2>2. /\ Len(todo) \in Nat \ {0}
        /\ Len(AtHand.rows) \in Nat
    BY <2>1, HeadFacts, RecordFacts
  <2> QED  BY <2>1, <2>2 DEF Made, Next1
<1>4. pos - 1 \in 1..(pos - 1) /\ input[pos - 1].kind = "record"
  <2>1. todo # << >> /\ AtHand = input[pos - 1]
    BY DEF WriteNext, AtHand
  <2> QED  BY <2>1, HeadFacts DEF BatchTypeOK
<1>5. \A i, j : SinksFor(i, p)' = SinksFor(i, p) /\ SinkRows(i, j)' = SinkRows(i, j)
  BY <1>1 DEF SinksFor, SinkRows
<1>6. \A x : x \in RowsMade(p) <=>
        \E i \in 1..(pos - 1) : \E j \in SinksFor(i, p) :
          input[i].kind = "record" /\ Made(i, j) /\ x \in SinkRows(i, j)
  BY DEF RowsMade
<1>7. \A x : x \in RowsMade(p)' <=>
        \E i \in 1..(pos - 1) : \E j \in SinksFor(i, p) :
          input[i].kind = "record" /\ Made(i, j)' /\ x \in SinkRows(i, j)
  BY <1>1, <1>5 DEF RowsMade
<1>8. \A i, j, k, l : SinkRows(i, j) \cap SinkRows(k, l) # {} => i = k /\ j = l
  BY DEF SinkRows
<1> HIDE DEF RowsMade
<1>9. ASSUME NEW x PROVE x \in RowsMade(p)' <=> x \in RowsMade(p) \/ x \in Given(p)
  BY <1>2, <1>4, <1>6, <1>7 DEF Given
<1>10. ASSUME NEW x \in RowsMade(p), x \in Given(p) PROVE FALSE
  BY <1>3, <1>6, <1>8, <1>10 DEF Given
<1> QED  BY <1>9, <1>10

(* Rows are asked for by sink writes only.                                 *)
LEMMA RowsMadeSame ==
  ASSUME NEW p \in Partition, UNCHANGED input, \A i, j : Made(i, j)' <=> Made(i, j)
  PROVE  RowsMade(p)' = RowsMade(p)
<1>3. \A i, j : SinksFor(i, p)' = SinksFor(i, p) /\ SinkRows(i, j)' = SinkRows(i, j)
  BY DEF SinksFor, SinkRows
<1>4. \A i, j : Made(i, j) => i \in 1..(pos - 1) /\ input[i].kind = "record"
  BY DEF Made
<1>5. \A i, j : Made(i, j)' => i \in 1..(pos' - 1) /\ input[i].kind = "record"
  BY DEF Made
<1>6. \A x : x \in RowsMade(p) <=>
        \E i, j : j \in SinksFor(i, p) /\ Made(i, j) /\ x \in SinkRows(i, j)
  BY <1>4 DEF RowsMade
<1>7. \A x : x \in RowsMade(p)' <=>
        \E i, j : j \in SinksFor(i, p) /\ Made(i, j)' /\ x \in SinkRows(i, j)
  BY <1>3, <1>5 DEF RowsMade
<1> QED  BY <1>6, <1>7

(* A partition receives from a write what the write is to give it.         *)
LEMMA GivenIsReceived ==
  ASSUME BatchTypeOK, LoopInv, IInv, WriteNext, NEW p \in Partition,
         IsFiniteSet(InPart(p))
  PROVE  /\ IsFiniteSet(Given(p)) /\ IsFiniteSet(InPart(p)')
         /\ Cardinality(InPart(p)') = Cardinality(InPart(p)) + Cardinality(Given(p))
<1> DEFINE w == Head(todo)
           q == [table |-> w.table, sys |-> w.sys, day |-> w.day]
           all == NewRows(w.table, w.sys, w.day, w.n)
<1>1. /\ pos - 1 \in DOMAIN input /\ AtHand = input[pos - 1]
      /\ Next1 \in DOMAIN AtHand.rows
      /\ w = [table |-> Route(AtHand.type, AtHand.sub)[Next1], sys |-> AtHand.sys,
              day |-> AtHand.day, n |-> AtHand.rows[Next1]]
      /\ w \in SinkWrite
  BY HeadFacts DEF WriteNext, AtHand
<1>2. /\ w.table \in Table /\ w.sys \in System /\ w.day \in Day \cup {NoDate}
      /\ w.n \in 0..RecordRows /\ w.n \in Nat
  BY <1>1, BoundsAssumption DEF SinkWrite
<1>3. Write(w.table, w.sys, w.day, w.n)
  BY DEF WriteNext
<1>4. received' = received \cup all /\ total[w.table] + w.n <= MaxRows
  BY <1>3 DEF Write
<1>5. /\ \A r \in all : r.part = q /\ r.num > total[w.table]
      /\ all \subseteq Row
  BY <1>2, <1>4, NewRowsFacts DEF IInv
<1>6. IsFiniteSet(all) /\ Cardinality(all) = w.n
  BY <1>2, NewRowsCount DEF IInv
<1>7. received \cap all = {}
  <2>1. \A r \in all : r.num \in Nat /\ r.part.table = w.table
    BY <1>5, BoundsAssumption DEF Row
  <2>2. \A r \in received : r.part.table = w.table => r.num <= total[w.table]
    BY DEF IInv, NumberInv
  <2>3. received \subseteq Row /\ total[w.table] \in Nat
    BY <1>2 DEF IInv, TypeOK
  <2> QED  BY <1>5, <2>1, <2>2, <2>3
<1>8. Next1 \in SinksFor(pos - 1, p) <=> q = p
  <2>1. /\ w.table = Route(AtHand.type, AtHand.sub)[Next1]
        /\ w.sys = AtHand.sys /\ w.day = AtHand.day
    BY <1>1
  <2>2. p = [table |-> p.table, sys |-> p.sys, day |-> p.day]
    BY DEF Partition
  <2> HIDE DEF w
  <2> QED  BY <1>1, <2>1, <2>2 DEF SinksFor
<1>9. w.n = input[pos - 1].rows[Next1]
  BY <1>1
<1> HIDE DEF w, q, all
<1>10. CASE q = p
  <2>1. InPart(p)' = InPart(p) \cup all /\ InPart(p) \cap all = {}
    BY <1>4, <1>5, <1>7, <1>10 DEF InPart
  <2>2. Given(p) = SinkRows(pos - 1, Next1)
    BY <1>8, <1>10 DEF Given
  <2>3. IsFiniteSet(Given(p)) /\ Cardinality(Given(p)) = w.n
    BY <1>1, <1>2, <1>9, <2>2, SinkRowsCount
  <2> QED  BY <1>6, <2>1, <2>3, DisjointCount
<1>11. CASE q # p
  <2>1. InPart(p)' = InPart(p)
    BY <1>4, <1>5, <1>11 DEF InPart
  <2>2. Given(p) = {}
    BY <1>8, <1>11 DEF Given
  <2> QED  BY <2>1, <2>2, FS_EmptySet, FS_CardinalityType
<1> QED  BY <1>10, <1>11

LEMMA RowsMadeInvStep ==
  ASSUME BatchTypeOK, LoopInv, IInv, RowsMadeInv, [RunNext]_allvars
  PROVE  RowsMadeInv'
<1>1. ASSUME NEW p \in Partition, WriteNext
      PROVE  /\ IsFiniteSet(InPart(p)') /\ IsFiniteSet(RowsMade(p)')
             /\ Cardinality(InPart(p)') = Cardinality(RowsMade(p)')
  <2>1. /\ IsFiniteSet(InPart(p)) /\ IsFiniteSet(RowsMade(p))
        /\ Cardinality(InPart(p)) = Cardinality(RowsMade(p))
    BY <1>1, WriteReads DEF RowsMadeInv
  <2>2. /\ IsFiniteSet(Given(p)) /\ IsFiniteSet(InPart(p)')
        /\ Cardinality(InPart(p)') = Cardinality(InPart(p)) + Cardinality(Given(p))
    BY <1>1, <2>1, GivenIsReceived
  <2>3. RowsMade(p)' = RowsMade(p) \cup Given(p) /\ RowsMade(p) \cap Given(p) = {}
    BY <1>1, RowsMadeStep
  <2>4. /\ IsFiniteSet(RowsMade(p)')
        /\ Cardinality(RowsMade(p)') = Cardinality(RowsMade(p)) + Cardinality(Given(p))
    BY <2>1, <2>2, <2>3, DisjointCount
  <2> QED  BY <2>1, <2>2, <2>4
<1>2. CASE WriteNext
  BY <1>1, <1>2 DEF RowsMadeInv
<1>3. CASE OnRecord \/ SkipShort
  <2>1. Alive /\ UNCHANGED received
    BY <1>3 DEF OnRecord, SkipShort, TakeRecord, AtLoopHead, Alive, PC, Ended, vars, tvars
  <2>2. UNCHANGED input /\ \A i, j : Made(i, j)' <=> Made(i, j)
    BY <1>3, MadeKept DEF OnRecord, SkipShort
  <2>3. \A p \in Partition : RowsMade(p)' = RowsMade(p) /\ InPart(p)' = InPart(p)
    BY <2>1, <2>2, RowsMadeSame DEF InPart
  <2> QED  BY <2>1, <2>3 DEF RowsMadeInv
<1>4. CASE ParseAborts \/ Fails
  BY <1>4 DEF ParseAborts, Crash, Fails, RowsMadeInv, Alive, PC, Ended
<1>5. CASE Quiet
  <2>1. UNCHANGED <<input, pos, todo, received>> /\ (Alive' => Alive)
    BY <1>5 DEF Quiet
  <2>2. \A i, j : Made(i, j)' <=> Made(i, j)
    BY <2>1 DEF Made
  <2>4. \A p \in Partition : RowsMade(p)' = RowsMade(p)
    BY <2>1, <2>2, RowsMadeSame
  <2>5. \A p \in Partition : InPart(p)' = InPart(p)
    BY <2>1 DEF InPart
  <2> QED  BY <2>1, <2>4, <2>5 DEF RowsMadeInv
<1> QED  BY <1>2, <1>3, <1>4, <1>5, StepKinds

-----------------------------------------------------------------------------
(* The records before pos are finitely many.                               *)
LEMMA CountedFinite ==
  ASSUME BatchTypeOK, NEW ty
  PROVE  IsFiniteSet(Counted(ty))
<1>1. pos - 1 \in Nat
  BY DEF BatchTypeOK
<1>2. IsFiniteSet(1..(pos - 1))
  BY <1>1, FS_Interval
<1>3. Counted(ty) \subseteq 1..(pos - 1)
  BY DEF Counted
<1> QED  BY <1>2, <1>3, FS_Subset

(* A record that is stepped over is one more of its type.                  *)
LEMMA CountedStep ==
  ASSUME BatchTypeOK, TakeRecord, UNCHANGED input, NEW ty \in Type
  PROVE  /\ input[pos].type = ty => Counted(ty)' = Counted(ty) \cup {pos}
         /\ input[pos].type # ty => Counted(ty)' = Counted(ty)
         /\ pos \notin Counted(ty)
<1>1. /\ pos \in Nat \ {0} /\ pos' = pos + 1
      /\ input[pos].kind = "record"
  BY DEF BatchTypeOK, TakeRecord
<1>2. \A i : i \in 1..(pos' - 1) <=> i \in 1..(pos - 1) \/ i = pos
  BY <1>1
<1>3. pos \notin 1..(pos - 1)
  BY <1>1
<1> QED  BY <1>1, <1>2, <1>3 DEF Counted

LEMMA TypeCountInvStep ==
  ASSUME BatchTypeOK, TypeCountInv, IInv, [RunNext]_allvars
  PROVE  TypeCountInv'
<1>1. CASE OnRecord
  <2>1. TakeRecord /\ UNCHANGED input /\ Alive
    BY <1>1 DEF OnRecord, TakeRecord, AtLoopHead, Alive, PC, Ended
  <2>2. \A ty \in Type : byType[ty] = Cardinality(Counted(ty))
    BY <2>1 DEF TypeCountInv
  <2>3. byType' = [byType EXCEPT ![input[pos].type] = @ + 1] /\ byType \in [Type -> Nat]
    BY <2>1 DEF TakeRecord, BatchTypeOK
  <2>4. ASSUME NEW ty \in Type PROVE byType'[ty] = Cardinality(Counted(ty)')
    <3>1. CASE input[pos].type = ty
      <4>1. Counted(ty)' = Counted(ty) \cup {pos} /\ pos \notin Counted(ty)
        BY <2>1, <3>1, CountedStep
      <4>2. Cardinality(Counted(ty)') = Cardinality(Counted(ty)) + 1
        BY <4>1, CountedFinite, FS_AddElement
      <4> QED  BY <2>2, <2>3, <3>1, <4>2
    <3>2. CASE input[pos].type # ty
      <4>1. Counted(ty)' = Counted(ty)
        BY <2>1, <3>2, CountedStep
      <4> QED  BY <2>2, <2>3, <3>2, <4>1
    <3> QED  BY <3>1, <3>2
  <2> QED  BY <2>4 DEF TypeCountInv
<1>2. CASE SkipShort
  <2>1. /\ UNCHANGED <<input, byType>> /\ pos' = pos + 1 /\ pos \in Nat \ {0}
        /\ input[pos].kind = "short" /\ Alive
    BY <1>2 DEF SkipShort, AtLoopHead, Alive, PC, Ended, BatchTypeOK
  <2>2. \A i : i \in 1..(pos' - 1) <=> i \in 1..(pos - 1) \/ i = pos
    BY <2>1
  <2>3. \A ty \in Type : Counted(ty)' = Counted(ty)
    BY <2>1, <2>2 DEF Counted
  <2> QED  BY <2>1, <2>3 DEF TypeCountInv
<1>3. CASE WriteNext
  <2>1. UNCHANGED <<input, pos, byType>> /\ Alive
    BY <1>3, WriteReads DEF WriteNext
  <2> QED  BY <2>1 DEF TypeCountInv, Counted
<1>4. CASE ParseAborts \/ Fails
  BY <1>4 DEF ParseAborts, Crash, Fails, TypeCountInv, Alive, PC, Ended
<1>5. CASE Quiet
  BY <1>5 DEF Quiet, TypeCountInv, Counted
<1> QED  BY <1>1, <1>2, <1>3, <1>4, <1>5, StepKinds

-----------------------------------------------------------------------------
(* A run fails by the environment, or on a record it was handed.           *)
LEMMA FailuresStep ==
  ASSUME BatchTypeOK, LoopInv, IInv, FailuresExplained, [RunNext]_allvars
  PROVE  FailuresExplained'
<1>1. CASE ParseAborts
  <2>1. /\ pos \in DOMAIN input /\ pos \in 1..Len(input)
        /\ input[pos].kind = "record" /\ input[pos].parsing = "asserts"
        /\ pos' = pos + 1 /\ input' = input
    BY <1>1 DEF ParseAborts, TakeRecord, BatchTypeOK
  <2>2. \A j \in 1..pos : ~StopsLoop(j)
    BY <2>1 DEF LoopInv, StopsLoop
  <2>3. pos \in Handed' /\ pos < pos'
    BY <2>1, <2>2 DEF Handed, StopsLoop
  <2> QED  BY <2>1, <2>3 DEF FailuresExplained
<1>2. CASE WriteNext \/ OnRecord \/ SkipShort
  <2>1. Alive'
    BY <1>2, WriteReads DEF OnRecord, SkipShort, TakeRecord, AtLoopHead, Alive, PC,
       Ended, vars, tvars
  <2> QED  BY <2>1 DEF FailuresExplained, Alive, PC, Ended
<1>3. CASE Fails /\ fault' = TRUE
  BY <1>3 DEF FailuresExplained
<1>4. CASE Quiet
  BY <1>4 DEF Quiet, FailuresExplained, Handed, StopsLoop
<1> QED  BY <1>1, <1>2, <1>3, <1>4, StepKinds

-----------------------------------------------------------------------------
(* No record has been read, and no row received.                           *)
LEMMA RunInvInit == RunInit => RunInv
<1> SUFFICES ASSUME RunInit PROVE RunInv
  OBVIOUS
<1>1. /\ BatchTypeOK /\ pos = 1 /\ todo = << >> /\ pc = "ready" /\ received = {}
      /\ byType = [ty \in Type |-> 0]
  BY BatchInit DEF RunInit, Init
<1>2. LoopInv
  BY <1>1 DEF LoopInv, TodoInv, Reading
<1>3. \A p \in Partition : InPart(p) = {} /\ RowsMade(p) = {}
  BY <1>1 DEF InPart, RowsMade
<1>4. \A ty \in Type : Counted(ty) = {}
  BY <1>1 DEF Counted
<1>5. RowsMadeInv /\ TypeCountInv
  BY <1>1, <1>3, <1>4, FS_EmptySet DEF RowsMadeInv, TypeCountInv
<1> QED  BY <1>1, <1>2, <1>5 DEF RunInv, FailuresExplained

LEMMA RunInvStep == IInv /\ RunInv /\ [RunNext]_allvars => RunInv'
BY BatchNext, LoopInvStep, RowsMadeInvStep, TypeCountInvStep, FailuresStep DEF RunInv

(* What holds of every state of every run.                                 *)
LEMMA RunInvariance ==
  ASSUME PathsInjective
  PROVE  RunSpec => [](IInv /\ CountInv /\ RunInv)
<1>1. RunInit => RunInv
  BY RunInvInit
<1>2. IInv /\ RunInv /\ [RunNext]_allvars => RunInv'
  BY RunInvStep
<1>3. RunSpec => Spec
  BY RunRefinesTables DEF RefinesTables
<1>4. Spec => [](IInv /\ CountInv)
  BY CountInvariance
<1> QED  BY <1>1, <1>2, <1>3, <1>4, PTL DEF RunSpec

(* The program counter, the input and the loop keep their types.           *)
THEOREM BatchTypeCorrect == RunSpec => []BatchTypeOK
BY BatchInit, BatchNext, PTL DEF RunSpec

(* A run fails only when the environment fails it, or on a record that     *)
(* trips an assert of its parser: no sequence of records, flushes and      *)
(* closes makes it fail by itself.                                         *)
THEOREM FailuresAreExplained ==
  ASSUME PathsInjective
  PROVE  RunSpec => []FailuresExplained
<1>1. RunInv => FailuresExplained
  BY DEF RunInv
<1> QED  BY <1>1, RunInvariance, PTL

-----------------------------------------------------------------------------
(* The end of a run that returns 0: the loop has read what it was to read, *)
(* every write was made, and what a reader finds is what was received.     *)
LEMMA ReadToTheEnd ==
  ASSUME BatchTypeOK, LoopInv, pc = "exit0"
  PROVE  /\ todo = << >>
         /\ Handed = {i \in 1..(pos - 1) : input[i].kind = "record"}
<1>1. Alive /\ ~Reading
  BY DEF Alive, PC, Ended, Reading
<1>2. todo = << >> /\ (pos <= Len(input) => StopsLoop(pos))
  BY <1>1 DEF LoopInv
<1>3. \A i \in 1..(pos - 1) : ~StopsLoop(i)
  BY DEF LoopInv
<1>4. /\ pos \in 1..(Len(input) + 1) /\ Len(input) \in Nat
      /\ DOMAIN input = 1..Len(input)
  BY DEF BatchTypeOK
<1>5. ASSUME NEW i \in Handed PROVE i \in 1..(pos - 1) /\ input[i].kind = "record"
  <2>1. i \in 1..Len(input) /\ input[i].kind = "record" /\ \A j \in 1..i : ~StopsLoop(j)
    BY <1>4 DEF Handed
  <2>2. i < pos
    <3> SUFFICES ASSUME pos <= i PROVE FALSE
      BY <1>4, <2>1
    <3>1. pos \in 1..i /\ pos <= Len(input)
      BY <1>4, <2>1
    <3> QED  BY <1>2, <2>1, <3>1
  <2> QED  BY <1>4, <2>1, <2>2
<1>6. ASSUME NEW i \in 1..(pos - 1), input[i].kind = "record" PROVE i \in Handed
  <2>1. i \in 1..Len(input) /\ \A j \in 1..i : j \in 1..(pos - 1)
    BY <1>4
  <2> QED  BY <1>3, <1>4, <1>6, <2>1 DEF Handed
<1> QED  BY <1>2, <1>5, <1>6

LEMMA DueIsMade ==
  ASSUME BatchTypeOK, LoopInv, pc = "exit0", NEW p \in Partition
  PROVE  RowsDue(p) = RowsMade(p)
<1>1. todo = << >> /\ Handed = {i \in 1..(pos - 1) : input[i].kind = "record"}
  BY ReadToTheEnd
<1>2. ASSUME NEW i \in Handed, NEW j \in SinksFor(i, p) PROVE Made(i, j)
  <2>1. i \in 1..(pos - 1) /\ input[i].kind = "record" /\ j \in DOMAIN input[i].rows
    BY <1>1 DEF SinksFor
  <2>2. input[i] \in Item
    BY <2>1 DEF BatchTypeOK
  <2>3. j \in 1..Len(input[i].rows) /\ Len(input[i].rows) \in Nat
    BY <2>1, <2>2, RecordFacts
  <2> QED  BY <1>1, <2>1, <2>3 DEF Made
<1>3. \A x : x \in RowsMade(p) <=>
        \E i \in Handed : \E j \in SinksFor(i, p) : Made(i, j) /\ x \in SinkRows(i, j)
  BY <1>1 DEF RowsMade
<1>4. \A x : x \in RowsDue(p) <=>
        \E i \in Handed : \E j \in SinksFor(i, p) : x \in SinkRows(i, j)
  BY DEF RowsDue
<1> QED  BY <1>2, <1>3, <1>4

LEMMA VisibleIsReceived ==
  ASSUME PathsInjective, IInv, pc = "exit0"
  PROVE  VisibleRows = received
<1>1. ASSUME NEW r \in VisibleRows PROVE r \in received
  <2>1. PICK f \in Path : final[f] # NoFile /\ r \in rows[final[f]]
    BY DEF VisibleRows
  <2>2. PICK p \in Partition :
          final[f] = p /\ rows[p] = {x \in received : x.part = p}
    BY <2>1, VisibleFacts
  <2> QED  BY <2>1, <2>2
<1>2. ASSUME NEW r \in received PROVE r \in VisibleRows
  BY ExitComplete DEF CompleteAtExit, VisibleRows
<1> QED  BY <1>1, <1>2

(* What a run that returns 0 leaves in the output directory has, for every *)
(* table, system and day, exactly as many rows as the records it read ask  *)
(* for, for an input of any length and any flush threshold.                *)
THEOREM RunEndToEnd ==
  ASSUME PathsInjective
  PROVE  RunSpec => []EndToEnd
<1>1. IInv /\ RunInv => EndToEnd
  <2> SUFFICES ASSUME IInv, RunInv, pc = "exit0", NEW p \in Partition
               PROVE  Cardinality({r \in VisibleRows : r.part = p})
                        = Cardinality(RowsDue(p))
    BY DEF EndToEnd
  <2>1. BatchTypeOK /\ LoopInv /\ RowsMadeInv /\ Alive
    BY DEF RunInv, Alive, PC, Ended
  <2>2. {r \in VisibleRows : r.part = p} = InPart(p)
    BY VisibleIsReceived DEF InPart
  <2>3. RowsDue(p) = RowsMade(p)
    BY <2>1, DueIsMade
  <2>4. Cardinality(InPart(p)) = Cardinality(RowsMade(p))
    BY <2>1 DEF RowsMadeInv
  <2> QED  BY <2>2, <2>3, <2>4
<1> QED  BY <1>1, RunInvariance, PTL

(* The record and row counts a successful run reports are those of the     *)
(* records it read and of the files it leaves.                             *)
THEOREM RunReportTruthful ==
  ASSUME PathsInjective
  PROVE  RunSpec => []ReportTruthful
<1>1. IInv /\ CountInv /\ RunInv => ReportTruthful
  <2> SUFFICES ASSUME IInv, CountInv, RunInv, pc = "exit0" PROVE ReportTruthful
    BY DEF ReportTruthful
  <2>1. BatchTypeOK /\ LoopInv /\ TypeCountInv /\ Alive
    BY DEF RunInv, Alive, PC, Ended
  <2>2. ASSUME NEW ty \in Type
        PROVE  byType[ty] = Cardinality({i \in Handed : input[i].type = ty})
    <3>1. {i \in Handed : input[i].type = ty} = Counted(ty)
      BY <2>1, ReadToTheEnd DEF Counted
    <3> QED  BY <2>1, <3>1 DEF TypeCountInv
  <2>3. ASSUME NEW t \in Table
        PROVE  total[t] = Cardinality({r \in VisibleRows : r.part.table = t})
    <3>1. {r \in VisibleRows : r.part.table = t} = InTable(t)
      BY VisibleIsReceived DEF InTable
    <3> QED  BY <3>1 DEF CountInv
  <2> QED  BY <2>2, <2>3 DEF ReportTruthful
<1> QED  BY <1>1, RunInvariance, PTL

-----------------------------------------------------------------------------
(* What the tables promise, a run of the program keeps.                    *)

(* A run shows a reader complete files only, each appearing at once and    *)
(* staying, and returns 0 only when all of them are there.                 *)
THEOREM RunImplementsDataset ==
  ASSUME PathsInjective
  PROVE  RunSpec => ImplementsDataset
BY RunRefinesTables, TablesImplementDataset, PTL DEF RefinesTables

(* A run that fails or is killed, on whatever record or in whatever table, *)
(* leaves a prefix of the closing order of SinkSet.                        *)
THEOREM RunPublishesInOrder ==
  ASSUME PathsInjective
  PROVE  RunSpec => []VisiblePrefix
BY RunRefinesTables, TablesPublishedInOrder, PTL DEF RefinesTables

-----------------------------------------------------------------------------
(* The end of a run.  No assumption about paths is needed here.            *)

FiniteInv ==
  /\ TypeOK /\ BatchTypeOK
  /\ IsFiniteSet(Unvisited)
  /\ pc = "ready" => visited = {}
  /\ pc = "flush" => cur \in visited \/ visited = {}

MostSteps == 23 + 20 * MaxItems

LEMMA RouteShort ==
  ASSUME NEW ty, NEW sub
  PROVE  Len(Route(ty, sub)) \in 1..2
BY DEF Route

LEMMA FewWrites ==
  ASSUME NEW it \in Item, it.kind = "record"
  PROVE  Len(Writes(it)) \in 0..2
<1>1. it \in RecordItem /\ Len(it.rows) = Len(Route(it.type, it.sub))
  BY ItemAssumption DEF OtherItem
<1>2. Len(Writes(it)) = Len(it.rows)
  BY RecordFacts
<1> QED
  BY <1>1, <1>2, RouteShort

(* Visiting a partition leaves one less to visit, and a sink write makes   *)
(* at most one more.                                                       *)
LEMMA OneLess ==
  ASSUME NEW S, IsFiniteSet(S), NEW p \in S
  PROVE  /\ IsFiniteSet(S \ {p})
         /\ Cardinality(S \ {p}) = Cardinality(S) - 1
         /\ Cardinality(S) \in Nat
BY FS_RemoveElement, FS_CardinalityType

LEMMA OneMoreAtMost ==
  ASSUME NEW S, IsFiniteSet(S), NEW T, NEW p, T \subseteq S \cup {p}
  PROVE  /\ IsFiniteSet(T)
         /\ Cardinality(T) \in Nat /\ Cardinality(S) \in Nat
         /\ Cardinality(T) <= Cardinality(S) + 1
<1>1. /\ IsFiniteSet(S \cup {p}) /\ Cardinality(S) \in Nat
      /\ Cardinality(S \cup {p}) \in {Cardinality(S), Cardinality(S) + 1}
  BY FS_AddElement, FS_CardinalityType
<1>2. /\ IsFiniteSet(T) /\ Cardinality(T) <= Cardinality(S \cup {p})
  BY <1>1, FS_Subset
<1>3. Cardinality(T) \in Nat /\ Cardinality(S \cup {p}) \in Nat
  BY <1>1, <1>2, FS_CardinalityType
<1> QED
  BY <1>1, <1>2, <1>3

(* The parts of the sum.                                                   *)
LEMMA StepsTyped ==
  ASSUME FiniteInv
  PROVE  /\ Cardinality(Unvisited) \in Nat
         /\ pos \in Nat /\ Len(input) \in Nat /\ Len(todo) \in Nat
         /\ pos <= Len(input) + 1 /\ Len(input) <= MaxItems /\ MaxItems \in Nat
         /\ StepsToRead \in Nat /\ StepsToRead > 0
         /\ FlushSteps \in 0..2
         /\ pc # "ready" /\ pc # "unwind" /\ pc \notin Ended => CloseSteps \in 0..2
         /\ StepsLeft \in Nat
         /\ pc \notin Ended => StepsLeft > 0
         /\ pc \notin Ended \cup {"unwind"} => StepsLeft > 1
<1>1. /\ Cardinality(Unvisited) \in Nat
      /\ pos \in Nat /\ Len(input) \in Nat /\ Len(todo) \in Nat
      /\ pos <= Len(input) + 1 /\ Len(input) <= MaxItems /\ MaxItems \in Nat
  BY FS_CardinalityType, BoundsOfRun DEF FiniteInv, BatchTypeOK
<1>2. StepsToRead \in Nat /\ StepsToRead > 0
  BY <1>1 DEF StepsToRead
<1>3. FlushSteps \in 0..2
  BY DEF FlushSteps
<1>4. pc # "ready" /\ pc # "unwind" /\ pc \notin Ended => CloseSteps \in 0..2
  BY DEF CloseSteps, FiniteInv, TypeOK, PC
<1>5. Reading => pc \in {"ready", "flush"}
  BY DEF Reading
<1>6. /\ StepsLeft \in Nat
      /\ pc \notin Ended => StepsLeft > 0
      /\ pc \notin Ended \cup {"unwind"} => StepsLeft > 1
  <2>1. CASE pc \in Ended
    BY <2>1 DEF StepsLeft, Ended
  <2>2. CASE pc = "unwind"
    BY <2>2 DEF StepsLeft, Ended
  <2>3. CASE pc \notin Ended \cup {"unwind"}
    <3>1. StepsLeft = 2 + 5 * Cardinality(Unvisited) + FlushSteps
                        + (IF Reading THEN StepsToRead ELSE CloseSteps)
      BY <2>3 DEF StepsLeft
    <3>2. CASE Reading
      <4>1. StepsLeft = 2 + 5 * Cardinality(Unvisited) + FlushSteps + StepsToRead
        BY <3>1, <3>2
      <4>2. \A c, r \in Nat : \A f \in 0..2 :
              2 + 5 * c + f + r \in Nat /\ 2 + 5 * c + f + r > 1
        OBVIOUS
      <4> QED
        BY <1>1, <1>2, <1>3, <4>1, <4>2
    <3>3. CASE ~Reading
      <4>1. CloseSteps \in 0..2
        BY <1>4, <2>3, <3>3 DEF Reading
      <4>2. StepsLeft = 2 + 5 * Cardinality(Unvisited) + FlushSteps + CloseSteps
        BY <3>1, <3>3
      <4>3. \A c \in Nat : \A f, g \in 0..2 :
              2 + 5 * c + f + g \in Nat /\ 2 + 5 * c + f + g > 1
        OBVIOUS
      <4> QED
        BY <1>1, <1>3, <4>1, <4>2, <4>3
    <3> QED
      BY <3>2, <3>3
  <2> QED
    BY <2>1, <2>2, <2>3
<1> QED
  BY <1>1, <1>2, <1>3, <1>4, <1>6

(* The sum while the program runs.                                         *)
StepsTable ==
  /\ pc = "ready" => StepsLeft = 2 + 5 * Cardinality(Unvisited) + StepsToRead
  /\ pc = "flush" /\ cur \notin visited =>
       StepsLeft = 2 + 5 * Cardinality(Unvisited) + FlushSteps + StepsToRead
  /\ pc = "flush" /\ cur \in visited =>
       StepsLeft = 4 + 5 * Cardinality(Unvisited) + FlushSteps
  /\ pc = "finish"  => StepsLeft = 4 + 5 * Cardinality(Unvisited)
  /\ pc = "rename"  => StepsLeft = 3 + 5 * Cardinality(Unvisited)
  /\ pc = "closing" => StepsLeft = 2 + 5 * Cardinality(Unvisited)
  /\ pc = "unwind"  => StepsLeft = 1
  /\ pc \in Ended   => StepsLeft = 0
  /\ pc = "flush" /\ wstate[cur] = "none" => FlushSteps = 2
  /\ pc = "flush" /\ wstate[cur] # "none" => FlushSteps = 1

LEMMA StepsBefore ==
  ASSUME FiniteInv
  PROVE  StepsTable
<1>1. Cardinality(Unvisited) \in Nat
  BY StepsTyped
<1>2. StepsToRead \in Nat
  BY StepsTyped
<1>3. CASE pc = "ready"
  <2>1. StepsLeft = 2 + 5 * Cardinality(Unvisited) + 0 + StepsToRead
    BY <1>3 DEF StepsLeft, Reading, FlushSteps, Ended
  <2> QED
    BY <1>1, <1>2, <1>3, <2>1 DEF StepsTable, Ended
<1>4. CASE pc = "flush"
  <2>1. StepsLeft = 2 + 5 * Cardinality(Unvisited) + FlushSteps
                      + (IF cur \notin visited THEN StepsToRead ELSE 2)
    BY <1>4 DEF StepsLeft, Reading, CloseSteps, Ended
  <2>2. FlushSteps = IF wstate[cur] = "none" THEN 2 ELSE 1
    BY <1>4 DEF FlushSteps
  <2> QED
    BY <1>1, <1>2, <1>4, <2>1, <2>2 DEF StepsTable, Ended
<1>5. CASE pc \in {"finish", "rename", "closing"}
  <2>1. StepsLeft = 2 + 5 * Cardinality(Unvisited) + 0 + CloseSteps
    BY <1>5 DEF StepsLeft, Reading, FlushSteps, Ended
  <2>2. CloseSteps = IF pc = "finish" THEN 2 ELSE IF pc = "rename" THEN 1 ELSE 0
    BY <1>5 DEF CloseSteps
  <2> QED
    BY <1>1, <1>5, <2>1, <2>2 DEF StepsTable, Ended
<1>6. CASE pc \in Ended \cup {"unwind"}
  BY <1>6 DEF StepsTable, StepsLeft, Ended
<1> QED
  BY <1>3, <1>4, <1>5, <1>6 DEF FiniteInv, TypeOK, PC

(* The states the invariant is kept in, and the sum after a step.          *)
LEMMA FiniteInit == RunInit => FiniteInv /\ StepsLeft <= MostSteps
<1> SUFFICES ASSUME RunInit
             PROVE  FiniteInv /\ StepsLeft <= MostSteps
  OBVIOUS
<1>1. Init /\ BatchTypeOK /\ TypeOK
  BY BatchInit, InitType
<1>2. Unvisited = {} /\ pc = "ready"
  BY <1>1 DEF Init, Unvisited
<1>3. IsFiniteSet(Unvisited) /\ Cardinality(Unvisited) = 0
  BY <1>2, FS_EmptySet
<1>4. FiniteInv
  BY <1>1, <1>2, <1>3 DEF FiniteInv, Init
<1>5. pos = 1 /\ Len(todo) = 0
  BY DEF RunInit
<1> QED
  BY <1>2, <1>3, <1>4, <1>5, StepsTyped, StepsBefore
  DEF StepsTable, StepsToRead, MostSteps

LEMMA FiniteStep ==
  ASSUME FiniteInv, [RunNext]_allvars
  PROVE  FiniteInv'
<1>1. TypeOK' /\ BatchTypeOK' /\ [Next]_vars
  BY BatchNext, StepRefines, NextType DEF FiniteInv
<1>2. ASSUME NEW p, Unvisited' \subseteq Unvisited \cup {p}
      PROVE  IsFiniteSet(Unvisited')
  BY <1>2, OneMoreAtMost DEF FiniteInv
<1>3. \E p : Unvisited' \subseteq Unvisited \cup {p}
  <2>1. CASE UNCHANGED <<parts, visited>>
    BY <2>1 DEF Unvisited
  <2>2. CASE \E t \in Table, s \in System, d \in Day \cup {NoDate}, n \in 0..RecordRows :
               Write(t, s, d, n) \/ AppendFails(t, s, d, n)
    <3>1. PICK t \in Table, s \in System, d \in Day \cup {NoDate}, n \in 0..RecordRows :
                Write(t, s, d, n) \/ AppendFails(t, s, d, n)
      BY <2>2
    <3>2. parts' = parts \cup {PartFor(t, s, d)} /\ visited' = visited
      BY <3>1 DEF Write, AppendFails, GetPartition
    <3> QED
      BY <3>2 DEF Unvisited
  <2>3. CASE \E p \in Partition : CloseVisit(p)
    BY <2>3 DEF CloseVisit, Unvisited
  <2> QED
    BY <1>1, <2>1, <2>2, <2>3 DEF Next, EndOfInput, FlushOpen, FlushOpenFails, FlushWrite,
       FlushWriteFails, CloseFinish, CloseFinishFails, CloseRename, CloseRenameFails,
       CloseDone, Unwind, Crash, Terminated, vars, tvars
<1>4. /\ pc' = "ready" => visited' = {}
      /\ pc' = "flush" => cur' \in visited' \/ visited' = {}
  <2>1. CASE \E t \in Table, s \in System, d \in Day \cup {NoDate}, n \in 0..RecordRows :
               Write(t, s, d, n) \/ AppendFails(t, s, d, n)
    <3>1. /\ pc = "ready" /\ visited' = visited
      BY <2>1 DEF Write, AppendFails
    <3> QED
      BY <3>1 DEF FiniteInv
  <2>2. CASE FlushOpen \/ FlushWrite
    BY <2>2 DEF FlushOpen, FlushWrite, FiniteInv, tvars
  <2>3. CASE \E p \in Partition : CloseVisit(p)
    BY <2>3 DEF CloseVisit
  <2>4. CASE UNCHANGED vars
    BY <2>4 DEF vars, tvars, FiniteInv
  <2>5. CASE pc' \notin {"ready", "flush"}
    BY <2>5
  <2>6. EndOfInput \/ FlushOpenFails \/ FlushWriteFails \/ CloseFinish \/ CloseFinishFails
          \/ CloseRename \/ CloseRenameFails \/ CloseDone \/ Unwind \/ Crash
          => pc' \notin {"ready", "flush"}
    BY DEF EndOfInput, FlushOpenFails, FlushWriteFails, CloseFinish, CloseFinishFails,
       CloseRename, CloseRenameFails, CloseDone, Unwind, Crash
  <2> QED
    BY <1>1, <2>1, <2>2, <2>3, <2>4, <2>5, <2>6 DEF Next, Terminated
<1> QED
  BY <1>1, <1>2, <1>3, <1>4 DEF FiniteInv

(* Both lemmas, of the state after a step.                                 *)
StepsKnown ==
  /\ StepsTable
  /\ Cardinality(Unvisited) \in Nat /\ Len(todo) \in Nat
  /\ StepsToRead \in Nat /\ StepsLeft \in Nat

LEMMA StepsAfter == FiniteInv' => StepsKnown'
<1>1. FiniteInv => StepsKnown
  BY StepsBefore, StepsTyped DEF StepsKnown
<1> QED
  BY <1>1, PTL

(* A step of the loop.                                                     *)
LEMMA LoopStepsFall ==
  ASSUME FiniteInv, FiniteInv',
         LoopEnds \/ SkipShort \/ OnRecord \/ WriteNext
  PROVE  StepsLeft' < StepsLeft
<1>0. /\ StepsKnown' /\ StepsTable
      /\ Cardinality(Unvisited) \in Nat /\ StepsToRead \in Nat /\ StepsToRead > 0
      /\ pos \in Nat /\ Len(input) \in Nat /\ Len(todo) \in Nat
      /\ visited = {} /\ pc = "ready"
  <2>1. pc = "ready"
    BY DEF LoopEnds, SkipShort, OnRecord, TakeRecord, AtLoopHead, WriteNext, Write
  <2> QED
    BY <2>1, StepsAfter, StepsBefore, StepsTyped DEF FiniteInv
<1>1. StepsLeft = 2 + 5 * Cardinality(Unvisited) + StepsToRead
  BY <1>0 DEF StepsTable
<1>2. CASE LoopEnds
  <2>1. pc' = "closing" /\ Unvisited' = Unvisited
    BY <1>2 DEF LoopEnds, EndOfInput, tvars, Unvisited
  <2>2. StepsLeft' = 2 + 5 * Cardinality(Unvisited)
    BY <1>0, <2>1 DEF StepsKnown, StepsTable
  <2> QED
    BY <1>0, <1>1, <2>2
<1>3. CASE SkipShort \/ OnRecord
  <2>1. /\ pc' = "ready" /\ Unvisited' = Unvisited /\ todo = << >>
        /\ pos' = pos + 1 /\ input' = input
    BY <1>0, <1>3 DEF SkipShort, OnRecord, TakeRecord, AtLoopHead, vars, tvars, Unvisited
  <2>2. Len(todo') \in 0..2
    <3>1. CASE SkipShort
      BY <2>1, <3>1 DEF SkipShort
    <3>2. CASE OnRecord
      <4>1. input[pos] \in Item /\ input[pos].kind = "record"
        BY <3>2 DEF OnRecord, TakeRecord, FiniteInv, BatchTypeOK
      <4> QED
        BY <3>2, <4>1, FewWrites DEF OnRecord
    <3> QED
      BY <1>3, <3>1, <3>2
  <2>3. Len(todo) = 0
    BY <2>1
  <2>4. /\ StepsToRead = 1 + 20 * (Len(input) + 1 - pos) + 8 * 0
        /\ StepsToRead' = 1 + 20 * (Len(input) + 1 - (pos + 1)) + 8 * Len(todo')
    BY <2>1, <2>3 DEF StepsToRead
  <2>5. StepsToRead' < StepsToRead
    <3>1. \A m, i \in Nat : \A t \in 0..2 :
            1 + 20 * (m + 1 - (i + 1)) + 8 * t < 1 + 20 * (m + 1 - i) + 8 * 0
      OBVIOUS
    <3> QED
      BY <1>0, <2>2, <2>4, <3>1
  <2>6. StepsLeft' = 2 + 5 * Cardinality(Unvisited) + StepsToRead'
    BY <1>0, <2>1 DEF StepsKnown, StepsTable
  <2> QED
    BY <1>0, <1>1, <2>5, <2>6 DEF StepsKnown
<1>4. CASE WriteNext
  <2> DEFINE w == Head(todo)
             p == PartFor(w.table, w.sys, w.day)
  <2>1. /\ todo # << >> /\ todo' = Tail(todo) /\ UNCHANGED <<input, pos>>
        /\ Write(w.table, w.sys, w.day, w.n)
    BY <1>4 DEF WriteNext
  <2>2. /\ Unvisited' \subseteq Unvisited \cup {p} /\ visited' = {}
        /\ pc' = "ready" \/ pc' = "flush"
    BY <1>0, <2>1 DEF Write, GetPartition, Unvisited
  <2>3. Len(todo') = Len(todo) - 1
    BY <2>1 DEF FiniteInv, BatchTypeOK
  <2>4. Cardinality(Unvisited') <= Cardinality(Unvisited) + 1 /\ Cardinality(Unvisited') \in Nat
    BY <2>2, OneMoreAtMost DEF FiniteInv
  <2>5. StepsToRead' = StepsToRead - 8
    <3>1. /\ StepsToRead = 1 + 20 * (Len(input) + 1 - pos) + 8 * Len(todo)
          /\ StepsToRead' = 1 + 20 * (Len(input) + 1 - pos) + 8 * (Len(todo) - 1)
      BY <2>1, <2>3 DEF StepsToRead
    <3> QED
      BY <1>0, <3>1
  <2>6. \/ StepsLeft' = 2 + 5 * Cardinality(Unvisited') + StepsToRead'
        \/ /\ StepsLeft' = 2 + 5 * Cardinality(Unvisited') + FlushSteps' + StepsToRead'
           /\ FlushSteps' \in {1, 2}
    BY <1>0, <2>2 DEF StepsKnown, StepsTable
  <2>7. \A c, d, r, g \in Nat : d <= c + 1 /\ g <= 2 /\ r >= 8 =>
          2 + 5 * d + g + (r - 8) < 2 + 5 * c + r
    OBVIOUS
  <2>8. StepsToRead >= 8
    BY <1>0, <2>5 DEF StepsKnown
  <2> QED
    BY <1>0, <1>1, <2>4, <2>5, <2>6, <2>7, <2>8, SMTT(30)
<1> QED
  BY <1>2, <1>3, <1>4

(* A step of the tables.                                                   *)
LEMMA TableStepsFall ==
  ASSUME FiniteInv, FiniteInv', TableStep
  PROVE  StepsLeft' < StepsLeft
<1>0. /\ StepsKnown' /\ StepsTable
      /\ Cardinality(Unvisited) \in Nat /\ StepsToRead \in Nat /\ StepsToRead > 0
      /\ UNCHANGED bvars
      /\ TypeOK
  BY StepsAfter, StepsBefore, StepsTyped DEF TableStep, FiniteInv
<1>1. StepsToRead' = StepsToRead
  BY <1>0 DEF StepsToRead, bvars
<1>2. CASE FlushOpen
  <2>1. /\ pc = "flush" /\ pc' = "flush" /\ UNCHANGED <<cur, visited>>
        /\ Unvisited' = Unvisited
        /\ wstate[cur] = "none" /\ wstate'[cur] = "open"
    BY <1>0, <1>2 DEF FlushOpen, W!Construct, tvars, Unvisited, TypeOK, W!WTypeOK
  <2>2. FlushSteps = 2 /\ FlushSteps' = 1
    BY <1>0, <2>1 DEF StepsKnown, StepsTable
  <2>3. CASE cur \in visited
    <3>1. /\ StepsLeft = 4 + 5 * Cardinality(Unvisited) + 2
          /\ StepsLeft' = 4 + 5 * Cardinality(Unvisited) + 1
      BY <1>0, <2>1, <2>2, <2>3 DEF StepsKnown, StepsTable
    <3> QED
      BY <1>0, <3>1
  <2>4. CASE cur \notin visited
    <3>1. /\ StepsLeft = 2 + 5 * Cardinality(Unvisited) + 2 + StepsToRead
          /\ StepsLeft' = 2 + 5 * Cardinality(Unvisited) + 1 + StepsToRead
      BY <1>0, <1>1, <2>1, <2>2, <2>4 DEF StepsKnown, StepsTable
    <3> QED
      BY <1>0, <3>1
  <2> QED
    BY <2>3, <2>4
<1>3. CASE FlushWrite
  <2>1. pc = "flush" /\ Unvisited' = Unvisited /\ FlushSteps = 1
    <3>1. pc = "flush" /\ wstate[cur] = "open" /\ Unvisited' = Unvisited
      BY <1>3 DEF FlushWrite, W!WriteBatch, Unvisited
    <3> QED
      BY <1>0, <3>1 DEF StepsTable
  <2>2. CASE cur \in visited
    <3>1. pc' = "finish"
      BY <1>3, <2>2 DEF FlushWrite
    <3>2. /\ StepsLeft = 4 + 5 * Cardinality(Unvisited) + 1
          /\ StepsLeft' = 4 + 5 * Cardinality(Unvisited)
      BY <1>0, <2>1, <2>2, <3>1 DEF StepsKnown, StepsTable
    <3> QED
      BY <1>0, <3>2
  <2>3. CASE cur \notin visited
    <3>1. pc' = "ready"
      BY <1>3, <2>3 DEF FlushWrite
    <3>2. /\ StepsLeft = 2 + 5 * Cardinality(Unvisited) + 1 + StepsToRead
          /\ StepsLeft' = 2 + 5 * Cardinality(Unvisited) + StepsToRead
      BY <1>0, <1>1, <2>1, <2>3, <3>1 DEF StepsKnown, StepsTable
    <3> QED
      BY <1>0, <3>2
  <2> QED
    BY <2>2, <2>3
<1>4. ASSUME NEW p \in Partition, CloseVisit(p)
      PROVE  StepsLeft' < StepsLeft
  <2>1. /\ pc = "closing" /\ p \in Unvisited /\ visited' = visited \cup {p}
        /\ Unvisited' = Unvisited \ {p}
        /\ \/ pc' = "flush" /\ cur' = p
           \/ pc' = "finish"
           \/ pc' = "closing"
    BY <1>4 DEF CloseVisit, Unvisited
  <2>2. Cardinality(Unvisited') = Cardinality(Unvisited) - 1
    BY <2>1, OneLess DEF FiniteInv
  <2>3. StepsLeft = 2 + 5 * Cardinality(Unvisited)
    BY <1>0, <2>1 DEF StepsTable
  <2>4. /\ pc' = "flush" => /\ StepsLeft' = 4 + 5 * Cardinality(Unvisited') + FlushSteps'
                            /\ FlushSteps' \in {1, 2}
        /\ pc' = "finish" => StepsLeft' = 4 + 5 * Cardinality(Unvisited')
        /\ pc' = "closing" => StepsLeft' = 2 + 5 * Cardinality(Unvisited')
    BY <1>0, <2>1 DEF StepsKnown, StepsTable
  <2> QED
    BY <1>0, <2>1, <2>2, <2>3, <2>4
<1>5. CASE CloseFinish \/ CloseRename
  <2>1. /\ Unvisited' = Unvisited
        /\ \/ pc = "finish" /\ pc' = "rename"
           \/ pc = "rename" /\ pc' = "closing"
    BY <1>5 DEF CloseFinish, CloseRename, tvars, Unvisited
  <2>2. /\ pc = "finish" => StepsLeft = 4 + 5 * Cardinality(Unvisited)
        /\ pc = "rename" => StepsLeft = 3 + 5 * Cardinality(Unvisited)
        /\ pc' = "rename" => StepsLeft' = 3 + 5 * Cardinality(Unvisited)
        /\ pc' = "closing" => StepsLeft' = 2 + 5 * Cardinality(Unvisited)
    BY <1>0, <2>1 DEF StepsKnown, StepsTable
  <2> QED
    BY <1>0, <2>1, <2>2
<1>6. CASE CloseDone \/ Unwind
  <2>1. (pc = "closing" \/ pc = "unwind") /\ pc' \in Ended
    BY <1>6 DEF CloseDone, Unwind, Ended
  <2>2. /\ pc = "closing" => StepsLeft = 2 + 5 * Cardinality(Unvisited)
        /\ pc = "unwind" => StepsLeft = 1
        /\ StepsLeft' = 0
    BY <1>0, <2>1 DEF StepsKnown, StepsTable
  <2> QED
    BY <1>0, <2>1, <2>2
<1> QED
  BY <1>2, <1>3, <1>4, <1>5, <1>6 DEF TableStep

(* A step that fails.                                                      *)
LEMMA FailedStepsFall ==
  ASSUME FiniteInv, FiniteInv', WriteNextFails \/ StepFails \/ Kill \/ ParseAborts
  PROVE  StepsLeft' < StepsLeft
<1>0. /\ StepsKnown' /\ StepsLeft \in Nat
      /\ pc \notin Ended => StepsLeft > 0
      /\ pc \notin Ended \cup {"unwind"} => StepsLeft > 1
  BY StepsAfter, StepsTyped
<1>1. CASE WriteNextFails \/ StepFails
  <2>1. pc' = "unwind" /\ pc \notin Ended \cup {"unwind"}
    BY <1>1 DEF WriteNextFails, StepFails, AppendFails, FlushOpenFails, FlushWriteFails,
       CloseFinishFails, CloseRenameFails, Ended
  <2>2. StepsLeft' = 1
    BY <1>0, <2>1 DEF StepsKnown, StepsTable
  <2> QED
    BY <1>0, <2>1, <2>2
<1>2. CASE Kill \/ ParseAborts
  <2>1. pc' \in Ended /\ pc \notin Ended
    BY <1>2 DEF Kill, ParseAborts, Crash, Ended
  <2>2. StepsLeft' = 0
    BY <1>0, <2>1 DEF StepsKnown, StepsTable
  <2> QED
    BY <1>0, <2>1, <2>2
<1> QED
  BY <1>1, <1>2

(* A run comes to its end: every step, also one that fails, leaves fewer   *)
(* steps to take, and there are at most 23 of them and 20 for each RDW of  *)
(* the input (process_smf_file, the sinks' write() and close()).  What     *)
(* remains for EventuallyEnds is that the thread is not left standing.     *)
THEOREM RunsAreFinite ==
  RunSpec => StepsLeftShrink /\ [](StepsLeft \in 0..MostSteps)
<1> DEFINE Few == StepsLeft <= MostSteps
<1>1. RunInit => FiniteInv /\ Few
  BY FiniteInit
<1>2. FiniteInv /\ [RunNext]_allvars => FiniteInv'
  BY FiniteStep
<1>3. FiniteInv /\ FiniteInv' /\ [RunNext]_allvars => [StepsLeft' < StepsLeft]_allvars
  <2> SUFFICES ASSUME FiniteInv, FiniteInv', [RunNext]_allvars
               PROVE  [StepsLeft' < StepsLeft]_allvars
    OBVIOUS
  <2>1. Terminated /\ UNCHANGED bvars => UNCHANGED allvars
    BY DEF Terminated, allvars
  <2> QED
    BY <2>1, LoopStepsFall, TableStepsFall, FailedStepsFall DEF RunNext
<1>4. FiniteInv /\ FiniteInv' /\ Few /\ [StepsLeft' < StepsLeft]_allvars => Few'
  <2> SUFFICES ASSUME FiniteInv, FiniteInv', Few, [StepsLeft' < StepsLeft]_allvars
               PROVE  StepsLeft' <= MostSteps
    OBVIOUS
  <2>1. StepsLeft \in Nat /\ StepsLeft' \in Nat /\ MostSteps \in Nat
    BY StepsTyped, StepsAfter, BoundsOfRun DEF StepsKnown, MostSteps
  <2>2. CASE StepsLeft' < StepsLeft
    BY <2>1, <2>2
  <2>3. CASE UNCHANGED allvars
    <3>1. StepsLeft' = StepsLeft
      BY <2>3 DEF StepsLeft, allvars, vars, tvars, wvars, bvars, Unvisited, FlushSteps,
         CloseSteps, StepsToRead, Reading
    <3> QED
      BY <3>1
  <2> QED
    BY <2>2, <2>3
<1>5. FiniteInv /\ Few => StepsLeft \in 0..MostSteps
  BY StepsTyped DEF FiniteInv
<1> HIDE DEF Few
<1> QED
  BY <1>1, <1>2, <1>3, <1>4, <1>5, PTL DEF RunSpec, StepsLeftShrink

=============================================================================
