--------------------------- MODULE DatasetProofs ----------------------------
(***************************************************************************)
(* The tables, writers and files implement Dataset: a step of the program, *)
(* seen by a reader of the output directory, receives rows, publishes one  *)
(* complete file, ends the run, or changes nothing.  And the files it      *)
(* publishes appear in the order in which SinkSet::close() closes.         *)
(***************************************************************************)
EXTENDS PartitionedTableProofs

Visible == [f \in Path |-> Contents(f)]

(* What the status of a run is at each of its control points.              *)
LEMMA StatusFacts ==
  ASSUME pc \in PC
  PROVE  /\ pc = "exit0" => Status = "success"
         /\ ~Alive => Status = "failure"
         /\ pc = "ready" => Status = "reading"
         /\ pc = "flush" /\ cur \notin visited => Status = "reading"
         /\ pc = "flush" /\ cur \in visited => Status = "publishing"
         /\ pc \in {"closing", "finish", "rename"} => Status = "publishing"
BY DEF Status, Alive, PC, Ended

LEMMA StatusFactsNext ==
  ASSUME pc' \in PC
  PROVE  /\ pc' = "exit0" => Status' = "success"
         /\ ~Alive' => Status' = "failure"
         /\ pc' = "ready" => Status' = "reading"
         /\ pc' = "flush" /\ cur' \notin visited' => Status' = "reading"
         /\ pc' = "flush" /\ cur' \in visited' => Status' = "publishing"
         /\ pc' \in {"closing", "finish", "rename"} => Status' = "publishing"
BY DEF Status, Alive, PC, Ended

(* A step that gives no file its final name shows a reader nothing.        *)
LEMMA NothingVisible ==
  ASSUME PathsInjective, IInv, IInv', [Next]_vars, final' = final
  PROVE  Visible' = Visible
<1>1. ASSUME NEW f \in Path PROVE Contents(f)' = Contents(f)
  <2>1. CASE final[f] = NoFile
    BY <2>1 DEF Contents
  <2>2. CASE final[f] # NoFile
    BY <2>2, VisibleStep DEF Contents, W!Readable
  <2> QED  BY <2>1, <2>2
<1> QED  BY <1>1 DEF Visible

LEMMA RefineInit == Init => Promise!Init
BY DEF Init, Promise!Init, W!WInit, Contents, Status

-----------------------------------------------------------------------------
(* The steps of the program, one by one.                                   *)

LEMMA RefineWrite ==
  ASSUME PathsInjective, IInv, IInv', [Next]_vars,
         NEW t \in Table, NEW s \in System, NEW d \in Day \cup {NoDate},
         NEW n \in 0..RecordRows, Write(t, s, d, n)
  PROVE  Promise!Receive
<1>1. pc = "ready" /\ visited = {} /\ visited' = visited /\ final' = final
  BY DEF Write, wvars, IInv, ControlInv
<1>2. pc' = "ready" \/ (pc' = "flush" /\ cur' \notin visited')
  BY <1>1 DEF Write
<1>3. Status = "reading" /\ Status' = "reading"
  BY <1>1, <1>2, StatusFacts, StatusFactsNext DEF IInv, TypeOK
<1>4. Visible' = Visible
  BY <1>1, NothingVisible
<1>5. received \subseteq received' /\ received' \subseteq Row
  BY DEF Write, IInv, TypeOK
<1> QED  BY <1>3, <1>4, <1>5 DEF Promise!Receive, Visible

(* A file gets its final name: it was not there, and it has all its rows.  *)
LEMMA RefineRename ==
  ASSUME PathsInjective, IInv, IInv', CloseRename,
         NEW p \in Partition, p = cur, NEW f \in Path, f = MakePath(p)
  PROVE  Promise!Publish(f)
<1>1. /\ pc = "rename" /\ pc' = "closing" /\ wstate[p] = "ended"
      /\ received' = received /\ rows' = rows
      /\ openers' = openers /\ footers' = footers
      /\ final' = [final EXCEPT ![f] = tmp[f]]
  BY DEF CloseRename, W!Rename, tvars
<1>2. LifeInv(p) /\ RowsInv(p)
  BY DEF IInv
<1>3. /\ final[f] = NoFile /\ tmp[f] = p
      /\ openers[p] = {p} /\ footers[p] = {p}
      /\ rows[p] = {r \in received : r.part = p} /\ rows[p] # {}
  BY <1>1, <1>2 DEF LifeInv, RowsInv
<1>4. p # NoFile /\ final \in [Path -> Partition \cup {NoFile}]
  BY SentinelAssumption DEF IInv, TypeOK, W!WTypeOK
<1>5. Promise!RowsOf(f) = rows[p]
  BY <1>3, RowsOfPartition DEF IInv, Promise!RowsOf, RowsOf, FileOfRow
<1>6. final'[f] = p
  BY <1>1, <1>3, <1>4
<1>7. Contents(f) = {} /\ Contents(f)' = {rows[p]}
  <2>1. W!Readable(p)'
    BY <1>1, <1>3 DEF W!Readable
  <2>2. W!Readable(final[f])'
    BY <1>6, <2>1 DEF W!Readable
  <2> QED  BY <1>1, <1>3, <1>4, <1>6, <2>2 DEF Contents
<1>8. ASSUME NEW g \in Path, g # f PROVE Contents(g)' = Contents(g)
  <2>1. final'[g] = final[g]
    BY <1>1, <1>4, <1>8
  <2> QED  BY <1>1, <2>1 DEF Contents, W!Readable
<1>9. Visible' = [Visible EXCEPT ![f] = {rows[p]}]
  BY <1>7, <1>8 DEF Visible
<1>10. Status = "publishing" /\ Status' = "publishing"
  BY <1>1, StatusFacts, StatusFactsNext DEF IInv, TypeOK
<1>11. Visible[f] = {}
  BY <1>7 DEF Visible
<1> QED
  BY <1>1, <1>3, <1>5, <1>9, <1>10, <1>11 DEF Promise!Publish, Visible

(* Every partition has been visited, so every row has been published.      *)
LEMMA RefineDone ==
  ASSUME PathsInjective, IInv, IInv', [Next]_vars, CloseDone
  PROVE  Promise!Succeed
<1>1. /\ pc = "closing" /\ parts \subseteq visited
      /\ pc' = "exit0" /\ UNCHANGED <<received, final>>
  BY DEF CloseDone, Unvisited, tvars, wvars
<1>2. Status = "publishing" /\ Status' = "success"
  BY <1>1, StatusFacts, StatusFactsNext DEF IInv, TypeOK
<1>3. Visible' = Visible
  BY <1>1, NothingVisible
<1>4. ASSUME NEW f \in Path, Promise!RowsOf(f) # {}
      PROVE  Visible[f] # {}
  <2>1. PICK r \in received : MakePath(r.part) = f
    BY <1>4 DEF Promise!RowsOf, FileOfRow
  <2>2. r.part \in Partition
    BY DEF IInv, TypeOK, Row
  <2>3. final[f] # NoFile
    BY <1>1, <2>1, <2>2, ExitFacts
  <2> QED  BY <2>3 DEF Visible, Contents
<1> QED  BY <1>1, <1>2, <1>3, <1>4 DEF Promise!Succeed, Visible

(* The input ends.                                                         *)
LEMMA RefineEndOfInput ==
  ASSUME PathsInjective, IInv, IInv', [Next]_vars, EndOfInput
  PROVE  Promise!StopReading
<1>1. pc = "ready" /\ pc' = "closing" /\ UNCHANGED <<received, final>>
  BY DEF EndOfInput, tvars, wvars
<1>2. Status = "reading" /\ Status' = "publishing"
  BY <1>1, StatusFacts, StatusFactsNext DEF IInv, TypeOK
<1>3. Visible' = Visible
  BY <1>1, NothingVisible
<1> QED  BY <1>1, <1>2, <1>3 DEF Promise!StopReading, Visible

(* Any step of a running program into a failed one is the same to a reader. *)
LEMMA RefineFailure ==
  ASSUME PathsInjective, IInv, IInv', [Next]_vars,
         pc \notin Ended \cup {"unwind"}, pc' \in {"unwind", "crashed"},
         received' = received, final' = final
  PROVE  Promise!Fail
<1>1. Status \in {"reading", "publishing"}
  BY DEF Status, IInv, TypeOK, PC, Ended
<1>2. Status' = "failure"
  BY DEF Status
<1>3. Visible' = Visible
  BY NothingVisible
<1> QED  BY <1>1, <1>2, <1>3 DEF Promise!Fail, Visible

(* A step that neither names a file nor receives rows nor moves the status. *)
LEMMA RefineQuiet ==
  ASSUME PathsInjective, IInv, IInv', [Next]_vars,
         received' = received, final' = final, Status' = Status
  PROVE  UNCHANGED Promise!dvars
BY NothingVisible DEF Promise!dvars, Visible

(* The steps that only write to temporary files, or to none.               *)
LEMMA QuietSteps ==
  ASSUME IInv, IInv',
         \/ FlushOpen \/ FlushWrite \/ (\E p \in Partition : CloseVisit(p))
         \/ CloseFinish \/ Unwind \/ UNCHANGED vars
  PROVE  received' = received /\ final' = final /\ Status' = Status
<1>0. pc \in PC /\ pc' \in PC /\ ControlInv
  BY DEF IInv, TypeOK
<1>1. CASE FlushOpen \/ UNCHANGED vars
  BY <1>1 DEF FlushOpen, W!Construct, vars, tvars, wvars, Status
<1>2. CASE FlushWrite
  <2>1. pc = "flush" /\ UNCHANGED <<received, final, visited>>
    BY <1>2 DEF FlushWrite, W!WriteBatch
  <2>2. CASE cur \in visited
    BY <1>0, <1>2, <2>1, <2>2, StatusFacts, StatusFactsNext DEF FlushWrite
  <2>3. CASE cur \notin visited
    BY <1>0, <1>2, <2>1, <2>3, StatusFacts, StatusFactsNext DEF FlushWrite
  <2> QED  BY <2>2, <2>3
<1>3. ASSUME NEW p \in Partition, CloseVisit(p)
      PROVE  received' = received /\ final' = final /\ Status' = Status
  <2>1. /\ pc = "closing" /\ UNCHANGED <<received, final>>
        /\ pc' \in {"closing", "finish"} \/ (pc' = "flush" /\ cur' \in visited')
    BY <1>3 DEF CloseVisit, wvars
  <2> QED  BY <1>0, <2>1, StatusFacts, StatusFactsNext
<1>4. CASE CloseFinish
  <2>1. pc = "finish" /\ pc' = "rename" /\ UNCHANGED <<received, final>>
    BY <1>4 DEF CloseFinish, W!Finish, tvars
  <2> QED  BY <1>0, <2>1, StatusFacts, StatusFactsNext
<1>5. CASE Unwind
  <2>1. pc = "unwind" /\ pc' = "exit2" /\ UNCHANGED <<received, final>>
    BY <1>5 DEF Unwind, W!DestroyAll, tvars
  <2> QED  BY <2>1 DEF Status
<1> QED  BY <1>1, <1>2, <1>3, <1>4, <1>5

(* The steps that leave a running program failed.                          *)
LEMMA FailureSteps ==
  ASSUME \/ \E t \in Table, s \in System, d \in Day \cup {NoDate},
               n \in 0..RecordRows : AppendFails(t, s, d, n)
         \/ FlushOpenFails \/ FlushWriteFails \/ CloseFinishFails
         \/ CloseRenameFails \/ (Crash /\ pc # "unwind")
  PROVE  /\ pc \notin Ended \cup {"unwind"} /\ pc' \in {"unwind", "crashed"}
         /\ received' = received /\ final' = final
BY DEF AppendFails, FlushOpenFails, FlushWriteFails, CloseFinishFails,
       CloseRenameFails, Crash, W!ConstructFails, W!FinishFails, W!RenameFails,
       tvars, wvars, Ended

(* A kill while the exception is on its way changes nothing for a reader.  *)
LEMMA CrashUnwinding ==
  ASSUME Crash, pc = "unwind"
  PROVE  received' = received /\ final' = final /\ Status' = Status
BY DEF Crash, tvars, wvars, Status

LEMMA RefineStep ==
  ASSUME PathsInjective, IInv, IInv', [Next]_vars
  PROVE  [Promise!Next]_(Promise!dvars)
<1>1. CASE \E t \in Table, s \in System, d \in Day \cup {NoDate},
             n \in 0..RecordRows : Write(t, s, d, n)
  BY <1>1, RefineWrite DEF Promise!Next
<1>2. CASE EndOfInput
  BY <1>2, RefineEndOfInput DEF Promise!Next
<1>3. CASE CloseRename
  <2>1. cur \in Partition /\ MakePath(cur) \in Path
    BY <1>3 DEF CloseRename, IInv, TypeOK, Path
  <2>2. PICK p \in Partition, f \in Path : p = cur /\ f = MakePath(p)
    BY <2>1
  <2> QED  BY <1>3, <2>2, RefineRename DEF Promise!Next
<1>4. CASE CloseDone
  BY <1>4, RefineDone DEF Promise!Next
<1>5. CASE \/ \E t \in Table, s \in System, d \in Day \cup {NoDate},
                n \in 0..RecordRows : AppendFails(t, s, d, n)
           \/ FlushOpenFails \/ FlushWriteFails \/ CloseFinishFails
           \/ CloseRenameFails \/ (Crash /\ pc # "unwind")
  BY <1>5, FailureSteps, RefineFailure DEF Promise!Next
<1>6. CASE \/ FlushOpen \/ FlushWrite \/ (\E p \in Partition : CloseVisit(p))
           \/ CloseFinish \/ Unwind \/ UNCHANGED vars
  BY <1>6, QuietSteps, RefineQuiet
<1>7. CASE Crash /\ pc = "unwind"
  BY <1>7, CrashUnwinding, RefineQuiet
<1> QED
  BY <1>1, <1>2, <1>3, <1>4, <1>5, <1>6, <1>7 DEF Next, Terminated

(* The tables, their writers and the file system implement what Dataset    *)
(* promises a reader: complete files, each appearing at once and staying,  *)
(* and success only when all rows are there.                               *)
THEOREM TablesImplementDataset ==
  ASSUME PathsInjective
  PROVE  Spec => ImplementsDataset
<1>1. Init => Promise!Init
  BY RefineInit
<1>2. IInv /\ IInv' /\ [Next]_vars => [Promise!Next]_(Promise!dvars)
  BY RefineStep
<1> QED
  BY <1>1, <1>2, Invariance, PTL DEF Spec, ImplementsDataset, Promise!Spec

-----------------------------------------------------------------------------
(* The order in which SinkSet::close() publishes the tables.               *)

(* A partition of an earlier table is dealt with before one of a later     *)
(* table is reached, and stays so when the run fails.                      *)
Dealt(q) ==
  /\ q \in visited
  /\ q # cur
  /\ {r \in received : r.part = q} # {} => wstate[q] = "renamed"

OrderInv ==
  /\ \A r \in received : r.part \in parts
  /\ \A p \in Partition : wstate[p] = "renamed" => p \in visited
  /\ \A p, q \in Partition :
       p \in visited /\ q \in parts /\ Rank[q.table] < Rank[p.table] => Dealt(q)

LEMMA InitOrder == Init => OrderInv
BY DEF Init, W!WInit, OrderInv

(* No step takes the final name of a file back, or gives one to a file     *)
(* whose writer the loops of close() have not reached.                     *)
LEMMA RenamedStep ==
  ASSUME IInv, [Next]_vars, NEW p \in Partition
  PROVE  /\ wstate[p] = "renamed" => wstate'[p] = "renamed"
         /\ wstate'[p] = "renamed" => wstate[p] = "renamed" \/ p \in visited
<1>0. wstate \in [Partition -> W!WState]
  BY DEF IInv, TypeOK, W!WTypeOK
<1>1. CASE UNCHANGED wstate
  BY <1>1
<1>2. CASE \/ FlushOpen \/ CloseFinish \/ CloseFinishFails
           \/ CloseRename \/ CloseRenameFails
  <2>1. /\ wstate[cur] # "renamed"
        /\ wstate'[cur] = "renamed" => cur \in visited
        /\ p # cur => wstate'[p] = wstate[p]
    BY <1>0, <1>2
    DEF FlushOpen, CloseFinish, CloseFinishFails, CloseRename, CloseRenameFails,
        W!Construct, W!Finish, W!FinishFails, W!Rename, W!RenameFails,
        IInv, ControlInv, TypeOK
  <2> QED  BY <2>1
<1>3. CASE Unwind
  BY <1>0, <1>3 DEF Unwind, W!DestroyAll
<1> QED
  BY <1>1, <1>2, <1>3
  DEF Next, Terminated, Write, AppendFails, EndOfInput, FlushOpenFails, FlushWrite,
      FlushWriteFails, CloseDone, Crash, CloseVisit, vars, wvars,
      W!ConstructFails, W!WriteBatch

(* The steps before close() visits a partition, and those after it.        *)
LEMMA StepShape ==
  ASSUME IInv, [Next]_vars
  PROVE  \/ visited = {} /\ visited' = {} /\ parts \subseteq parts'
         \/ /\ UNCHANGED <<parts, received, visited>>
            /\ cur' = cur \/ cur' = NoPart
         \/ \E p \in Partition : CloseVisit(p)
<1>1. ASSUME NEW t \in Table, NEW s \in System, NEW d \in Day \cup {NoDate},
             NEW n \in 0..RecordRows,
             Write(t, s, d, n) \/ AppendFails(t, s, d, n)
      PROVE  visited = {} /\ visited' = {} /\ parts \subseteq parts'
  BY <1>1 DEF Write, AppendFails, GetPartition, IInv, ControlInv
<1>2. CASE \/ EndOfInput \/ FlushOpen \/ FlushOpenFails \/ FlushWrite
           \/ FlushWriteFails \/ CloseFinish \/ CloseFinishFails \/ CloseRename
           \/ CloseRenameFails \/ CloseDone \/ Unwind \/ Crash \/ UNCHANGED vars
  BY <1>2
  DEF EndOfInput, FlushOpen, FlushOpenFails, FlushWrite, FlushWriteFails,
      CloseFinish, CloseFinishFails, CloseRename, CloseRenameFails, CloseDone,
      Unwind, Crash, vars, tvars
<1> QED  BY <1>1, <1>2 DEF Next, Terminated

(* The rows received have partitions: so it was, or the run is alive.      *)
LEMMA ReceivedStep ==
  ASSUME IInv, IInv', [Next]_vars, OrderInv
  PROVE  \A r \in received' : r.part \in parts'
<1>1. CASE Alive'
  <2>1. \A r \in received' : r.part \in Partition
    BY DEF IInv, TypeOK, Row
  <2> QED  BY <1>1, <2>1 DEF IInv, RowsInv
<1>2. CASE ~Alive'
  <2>1. received' = received /\ parts \subseteq parts'
    BY <1>2
    DEF Next, Terminated, Alive, PC, Ended, Write, AppendFails, GetPartition,
        EndOfInput, FlushOpen, FlushOpenFails, FlushWrite, FlushWriteFails,
        CloseVisit, CloseFinish, CloseFinishFails, CloseRename, CloseRenameFails,
        CloseDone, Unwind, Crash, vars, tvars
  <2> QED  BY <2>1 DEF OrderInv
<1> QED  BY <1>1, <1>2

(* A partition visited earlier has nothing left to publish.                *)
LEMMA VisitedIsDone ==
  ASSUME IInv, NEW q \in Partition, q \in visited, q # cur, Alive
  PROVE  {r \in received : r.part = q} # {} => wstate[q] = "renamed"
<1>1. LifeInv(q) /\ RowsInv(q)
  BY DEF IInv
<1>2. pending[q] = 0 /\ wstate[q] \in {"none", "renamed"} /\ builder[q] = {}
  BY <1>1 DEF RowsInv
<1>3. CASE wstate[q] = "none"
  BY <1>1, <1>2, <1>3 DEF LifeInv, RowsInv
<1> QED  BY <1>2, <1>3

LEMMA NextOrder ==
  ASSUME IInv, IInv', [Next]_vars, OrderInv
  PROVE  OrderInv'
<1>1. \A r \in received' : r.part \in parts'
  BY ReceivedStep
<1>2. visited \subseteq visited'
  BY StepShape DEF CloseVisit
<1>3. \A p \in Partition : wstate'[p] = "renamed" => p \in visited'
  BY <1>2, RenamedStep DEF OrderInv
<1>4. ASSUME NEW p \in Partition, NEW q \in Partition, p \in visited',
             q \in parts', Rank[q.table] < Rank[p.table]
      PROVE  Dealt(q)'
  <2>0. q # NoPart /\ (wstate[q] = "renamed" => wstate'[q] = "renamed")
    BY SentinelAssumption, RenamedStep
  <2>1. CASE visited' = {}
    BY <1>4, <2>1
  <2>2. CASE UNCHANGED <<parts, received, visited>> /\ (cur' = cur \/ cur' = NoPart)
    BY <1>4, <2>0, <2>2 DEF OrderInv, Dealt
  <2>3. ASSUME NEW v \in Partition, CloseVisit(v)
        PROVE  Dealt(q)'
    <3>1. /\ pc = "closing" /\ cur = NoPart /\ Alive
          /\ UNCHANGED <<parts, received>> /\ visited' = visited \cup {v}
          /\ v \notin visited /\ cur' \in {v, NoPart}
          /\ \A u \in parts \ visited : Rank[v.table] <= Rank[u.table]
      BY <2>3 DEF CloseVisit, Unvisited, IInv, ControlInv, Alive, PC, Ended
    <3>2. \A u \in Partition : Rank[u.table] \in Nat
      BY RankAssumption DEF Partition
    <3>3. CASE p = v
      <4>1. q \in visited
        BY <1>4, <3>1, <3>2, <3>3
      <4>2. {r \in received : r.part = q} # {} => wstate[q] = "renamed"
        BY <2>0, <3>1, <4>1, VisitedIsDone
      <4> QED  BY <2>0, <3>1, <4>1, <4>2 DEF Dealt
    <3>4. CASE p # v
      <4>1. Dealt(q)
        BY <1>4, <3>1, <3>4 DEF OrderInv
      <4> QED  BY <2>0, <3>1, <4>1 DEF Dealt
    <3> QED  BY <3>3, <3>4
  <2> QED  BY <2>1, <2>2, <2>3, StepShape
<1>5. \A p, q \in Partition :
        p \in visited' /\ q \in parts' /\ Rank[q.table] < Rank[p.table] => Dealt(q)'
  BY <1>4
<1> QED  BY <1>1, <1>3, <1>5 DEF OrderInv

(* What a run leaves behind, complete, failed or killed, is a prefix of    *)
(* the closing order: no table has a visible file before every table       *)
(* closed earlier has published all its rows.                              *)
THEOREM TablesPublishedInOrder ==
  ASSUME PathsInjective
  PROVE  Spec => []VisiblePrefix
<1>1. IInv /\ OrderInv => VisiblePrefix
  <2> SUFFICES ASSUME IInv, OrderInv, NEW p \in Partition, NEW q \in Partition,
                      Rank[q.table] < Rank[p.table],
                      final[MakePath(p)] # NoFile, RowsOf(MakePath(q)) # {}
               PROVE  final[MakePath(q)] # NoFile
    BY DEF VisiblePrefix
  <2>1. LifeInv(p) /\ LifeInv(q) /\ q # NoFile
    BY SentinelAssumption DEF IInv
  <2>2. {r \in received : r.part = q} # {} /\ q \in parts
    BY RowsOfPartition DEF IInv, OrderInv
  <2>3. p \in visited
    BY <2>1 DEF LifeInv, OrderInv
  <2>4. wstate[q] = "renamed"
    BY <2>2, <2>3 DEF OrderInv, Dealt
  <2> QED  BY <2>1, <2>4 DEF LifeInv
<1>2. OrderInv /\ IInv /\ IInv' /\ [Next]_vars => OrderInv'
  BY NextOrder
<1>3. Init => OrderInv
  BY InitOrder
<1> QED  BY <1>1, <1>2, <1>3, Invariance, PTL DEF Spec
=============================================================================
