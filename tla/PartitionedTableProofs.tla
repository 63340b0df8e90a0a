----------------------- MODULE PartitionedTableProofs -----------------------
(***************************************************************************)
(* Machine-checked proofs about PartitionedTable, for every set of tables, *)
(* systems and days, every flush threshold and every number of rows.       *)
(***************************************************************************)
EXTENDS PartitionedTable, FiniteSetTheorems, TLAPS

(* The partition of a record is a partition.                               *)
LEMMA KeyIsPartition ==
  ASSUME NEW t \in Table, NEW s \in System, NEW d \in Day \cup {NoDate}
  PROVE  [table |-> t, sys |-> s, day |-> d] \in Partition
BY DEF Partition

(* get_partition() returns a partition, whatever the cache holds.          *)
LEMMA PartForType ==
  ASSUME TypeOK,
         NEW t \in Table, NEW s \in System, NEW d \in Day \cup {NoDate}
  PROVE  PartFor(t, s, d) \in Partition
<1>1. CASE CacheHit(t, s, d)
  BY <1>1 DEF PartFor, CacheHit, TypeOK, CacheLine
<1>2. CASE ~CacheHit(t, s, d)
  BY <1>2, KeyIsPartition DEF PartFor
<1> QED  BY <1>1, <1>2

(* The rows a record appends are rows of its own partition, numbered after *)
(* those of the table so far; there are none exactly when n is 0.          *)
LEMMA NewRowsFacts ==
  ASSUME TypeOK,
         NEW t \in Table, NEW s \in System, NEW d \in Day \cup {NoDate},
         NEW n \in Nat, total[t] + n <= MaxRows
  PROVE  /\ NewRows(t, s, d, n) \subseteq Row
         /\ \A r \in NewRows(t, s, d, n) :
              /\ r.part = [table |-> t, sys |-> s, day |-> d]
              /\ r.num > total[t]
              /\ r.num <= total[t] + n
         /\ n = 0 <=> NewRows(t, s, d, n) = {}
<1> DEFINE k == [table |-> t, sys |-> s, day |-> d]
<1>1. k \in Partition
  BY KeyIsPartition
<1>2. total[t] \in Nat
  BY DEF TypeOK
<1>3. \A i \in 1..n : total[t] + i \in 1..MaxRows /\ total[t] + i > total[t]
                      /\ total[t] + i <= total[t] + n
  BY <1>2, BoundsAssumption
<1>4. \A r \in NewRows(t, s, d, n) :
        \E i \in 1..n : r = [part |-> k, num |-> total[t] + i]
  BY DEF NewRows
<1>5. n = 0 => NewRows(t, s, d, n) = {}
  BY <1>4
<1>6. n # 0 => [part |-> k, num |-> total[t] + 1] \in NewRows(t, s, d, n)
  BY DEF NewRows
<1> HIDE DEF k
<1>7. NewRows(t, s, d, n) \subseteq Row
  BY <1>1, <1>3, <1>4 DEF Row
<1>8. \A r \in NewRows(t, s, d, n) :
        r.part = k /\ r.num > total[t] /\ r.num <= total[t] + n
  BY <1>3, <1>4
<1> QED
  BY <1>5, <1>6, <1>7, <1>8 DEF k

-----------------------------------------------------------------------------
(* Type correctness.                                                       *)

LEMMA InitType == Init => TypeOK
BY DEF Init, TypeOK, PC, Ended, W!WInit, W!WTypeOK, W!WState

LEMMA CreateTmpType ==
  ASSUME NEW w \in Partition, W!WTypeOK, W!CreateTmp(w)
  PROVE  /\ fd' \in [Partition -> Partition \cup {NoFile}]
         /\ tmp' \in [Path -> Partition \cup {NoFile}]
         /\ rows' \in [Partition -> SUBSET Row]
         /\ openers' \in [Partition -> SUBSET Partition]
<1> DEFINE f == MakePath(w)
           i == IF tmp[f] = NoFile THEN w ELSE tmp[f]
<1>1. f \in Path
  BY DEF Path
<1>2. i \in Partition
  BY <1>1 DEF W!WTypeOK
<1>3. /\ tmp' = [tmp EXCEPT ![f] = i]
      /\ fd' = [fd EXCEPT ![w] = i]
      /\ rows' = [rows EXCEPT ![i] = {}]
      /\ openers' = [openers EXCEPT ![i] = @ \cup {w}]
  BY DEF W!CreateTmp
<1> HIDE DEF f, i
<1> QED
  BY <1>1, <1>2, <1>3 DEF W!WTypeOK

LEMMA NextType == TypeOK /\ [Next]_vars => TypeOK'
<1> SUFFICES ASSUME TypeOK, [Next]_vars PROVE TypeOK'
  OBVIOUS
<1>w. W!WTypeOK
  BY DEF TypeOK
<1>1. ASSUME NEW t \in Table, NEW s \in System, NEW d \in Day \cup {NoDate},
             NEW n \in 0..RecordRows,
             Write(t, s, d, n) \/ AppendFails(t, s, d, n)
      PROVE  TypeOK'
  <2> DEFINE p == PartFor(t, s, d)
  <2>1. p \in Partition
    BY PartForType
  <2>2. n \in Nat /\ total[t] + n <= MaxRows
    BY <1>1, BoundsAssumption DEF Write, AppendFails
  <2>3. NewRows(t, s, d, n) \subseteq Row
    BY <2>2, NewRowsFacts
  <2>4. W!WTypeOK'
    BY <1>1, <1>w DEF Write, AppendFails, wvars, W!WTypeOK
  <2>5. parts' \subseteq Partition /\ last' \in [Table -> CacheLine \cup {NoPart}]
    <3> HIDE DEF p
    <3>1. parts' = parts \cup {p}
          /\ last' = [last EXCEPT ![t] = [part |-> p, sys |-> s, day |-> d]]
      BY <1>1 DEF Write, AppendFails, GetPartition, p
    <3>2. [part |-> p, sys |-> s, day |-> d] \in CacheLine
      BY <2>1 DEF CacheLine
    <3> QED  BY <2>1, <3>1, <3>2 DEF TypeOK
  <2>6. builder' \in [Partition -> SUBSET Row]
    BY <1>1, <2>1, <2>3 DEF Write, AppendFails, TypeOK
  <2>7. CASE Write(t, s, d, n)
    <3>1. pending' \in [Partition -> Nat] /\ total' \in [Table -> Nat]
      BY <2>1, <2>2, <2>7 DEF Write, TypeOK
    <3>2. /\ pc' \in PC /\ cur' \in Partition \cup {NoPart}
          /\ pc' \in {"flush", "finish", "rename"} => cur' # NoPart
      BY <2>1, <2>7, SentinelAssumption DEF Write, TypeOK, PC
    <3>3. received' \subseteq Row /\ visited' \subseteq Partition
      BY <2>3, <2>7 DEF Write, TypeOK
    <3> QED
      BY <2>4, <2>5, <2>6, <3>1, <3>2, <3>3 DEF TypeOK
  <2>8. CASE AppendFails(t, s, d, n)
    BY <2>4, <2>5, <2>6, <2>8 DEF AppendFails, TypeOK, PC
  <2> QED  BY <1>1, <2>7, <2>8
<1>2. CASE EndOfInput
  BY <1>2 DEF EndOfInput, TypeOK, tvars, wvars, PC, W!WTypeOK
<1>3. CASE FlushOpen \/ FlushOpenFails
  <2>0. cur \in Partition
    BY <1>3 DEF TypeOK, FlushOpen, FlushOpenFails
  <2>1. CASE FlushOpen
    <3>1. W!CreateTmp(cur)
      BY <2>1 DEF FlushOpen, W!Construct
    <3>2. W!WTypeOK'
      BY <1>w, <2>0, <2>1, <3>1, CreateTmpType
      DEF FlushOpen, W!Construct, W!WTypeOK, W!WState
    <3> QED
      BY <2>1, <3>2 DEF FlushOpen, TypeOK, tvars
  <2>2. CASE FlushOpenFails
    <3>1. W!WTypeOK'
      BY <1>w, <2>0, <2>2, CreateTmpType
      DEF FlushOpenFails, W!ConstructFails, W!WTypeOK
    <3> QED
      BY <2>2, <3>1 DEF FlushOpenFails, TypeOK, tvars, PC
  <2> QED  BY <1>3, <2>1, <2>2
<1>4. CASE FlushWrite
  BY <1>4 DEF FlushWrite, TypeOK, PC, W!WriteBatch, W!WTypeOK
<1>5. CASE FlushWriteFails
  BY <1>5 DEF FlushWriteFails, TypeOK, PC, wvars, W!WTypeOK
<1>6. ASSUME NEW p \in Partition, CloseVisit(p)
      PROVE  TypeOK'
  BY <1>6, SentinelAssumption DEF CloseVisit, TypeOK, PC, wvars, W!WTypeOK
<1>7. CASE CloseFinish \/ CloseFinishFails
  BY <1>7 DEF CloseFinish, CloseFinishFails, TypeOK, PC, tvars,
              W!Finish, W!FinishFails, W!WTypeOK, W!WState
<1>8. CASE CloseRename \/ CloseRenameFails
  BY <1>8 DEF CloseRename, CloseRenameFails, TypeOK, PC, tvars,
              W!Rename, W!RenameFails, W!WTypeOK, W!WState
<1>9. CASE CloseDone
  BY <1>9 DEF CloseDone, TypeOK, PC, Ended, tvars, wvars, W!WTypeOK
<1>10. CASE Unwind
  BY <1>10 DEF Unwind, TypeOK, PC, Ended, tvars, W!DestroyAll, W!WTypeOK, W!WState
<1>11. CASE Crash
  BY <1>11 DEF Crash, TypeOK, PC, Ended, tvars, wvars, W!WTypeOK
<1>12. CASE UNCHANGED vars
  BY <1>12 DEF vars, tvars, wvars, TypeOK, W!WTypeOK
<1> QED
  BY <1>1, <1>2, <1>3, <1>4, <1>5, <1>6, <1>7, <1>8, <1>9, <1>10, <1>11, <1>12
  DEF Next, Terminated

(* Every state of every run is well typed: in particular the row numbers   *)
(* stay within the bound and the writers within their life cycle.          *)
THEOREM TypeCorrect == Spec => []TypeOK
BY InitType, NextType, PTL DEF Spec

-----------------------------------------------------------------------------
(* The inductive invariant, when no two partitions share a file.           *)

(* A coherent cache answers with the partition of the record.              *)
LEMMA PartForOwn ==
  ASSUME TypeOK, CacheInv,
         NEW t \in Table, NEW s \in System, NEW d \in Day \cup {NoDate}
  PROVE  PartFor(t, s, d) = [table |-> t, sys |-> s, day |-> d]
<1>1. CASE CacheHit(t, s, d)
  BY <1>1 DEF PartFor, CacheHit, CacheInv
<1>2. CASE ~CacheHit(t, s, d)
  BY <1>2 DEF PartFor
<1> QED  BY <1>1, <1>2

(* Partitions have paths, and different ones different paths.              *)
LEMMA PathFacts ==
  ASSUME PathsInjective, NEW p \in Partition
  PROVE  /\ MakePath(p) \in Path
         /\ \A q \in Partition : q # p => MakePath(q) # MakePath(p)
BY DEF Path, PathsInjective

(* What a step leaves alone of a partition's writer and files keeps the    *)
(* invariant of its life cycle, unless the step revives a dead run.        *)
LEMMA LifeFrame ==
  ASSUME NEW q \in Partition, LifeInv(q), parts \subseteq parts', Alive' => Alive,
         wstate'[q] = wstate[q], fd'[q] = fd[q], rows'[q] = rows[q],
         openers'[q] = openers[q], footers'[q] = footers[q],
         tmp'[MakePath(q)] = tmp[MakePath(q)],
         final'[MakePath(q)] = final[MakePath(q)]
  PROVE  LifeInv(q)'
BY DEF LifeInv

LEMMA InitInv == Init => IInv
<1> SUFFICES ASSUME Init PROVE IInv
  OBVIOUS
<1>1. TypeOK
  BY InitType
<1>2. ControlInv /\ CacheInv /\ NumberInv
  BY DEF Init, ControlInv, CacheInv, NumberInv
<1>3. ASSUME NEW p \in Partition PROVE LifeInv(p) /\ RowsInv(p)
  <2>1. MakePath(p) \in Path
    BY DEF Path
  <2> QED
    BY <2>1, SentinelAssumption DEF Init, W!WInit, LifeInv, RowsInv, Alive, PC
<1> QED  BY <1>1, <1>2, <1>3 DEF IInv

LEMMA WriteInv ==
  ASSUME PathsInjective, IInv, TypeOK',
         NEW t \in Table, NEW s \in System, NEW d \in Day \cup {NoDate},
         NEW n \in 0..RecordRows, Write(t, s, d, n)
  PROVE  IInv'
<1> DEFINE p == [table |-> t, sys |-> s, day |-> d]
           new == NewRows(t, s, d, n)
<1>1. PartFor(t, s, d) = p /\ p \in Partition
  BY PartForOwn, KeyIsPartition DEF IInv
<1>2. n \in Nat /\ total[t] + n <= MaxRows /\ total[t] \in Nat
  BY BoundsAssumption DEF Write, IInv, TypeOK
<1>3. /\ \A r \in new : r.part = p /\ r.num > total[t] /\ r.num <= total[t] + n
      /\ n = 0 <=> new = {}
      /\ new \subseteq Row
  BY <1>1, <1>2, NewRowsFacts DEF IInv
<1>4. p.table = t
  OBVIOUS
<1>5. /\ pc = "ready" /\ visited = {}
      /\ parts' = parts \cup {p}
      /\ last' = [last EXCEPT ![t] = [part |-> p, sys |-> s, day |-> d]]
      /\ builder' = [builder EXCEPT ![p] = @ \cup new]
      /\ received' = received \cup new
      /\ pending' = [pending EXCEPT ![p] = @ + n]
      /\ total' = [total EXCEPT ![t] = @ + n]
      /\ \/ pc' = "flush" /\ cur' = p /\ n > 0
         \/ pc' = pc /\ cur' = cur
      /\ UNCHANGED <<visited, wvars>>
  BY <1>1 DEF Write, GetPartition, IInv, ControlInv, MustFlush
<1>6. received \subseteq Row /\ total \in [Table -> Nat]
      /\ pending \in [Partition -> Nat]
      /\ builder \in [Partition -> SUBSET Row] /\ parts \subseteq Partition
      /\ last \in [Table -> CacheLine \cup {NoPart}]
      /\ wstate \in [Partition -> W!WState]
  BY DEF IInv, TypeOK, W!WTypeOK
<1>7. \A r \in received : r.num <= total[r.part.table]
  BY DEF IInv, NumberInv
<1>8. LifeInv(p) /\ RowsInv(p) /\ Alive /\ Alive'
  BY <1>1, <1>5 DEF IInv, Alive, PC
<1>9. wstate[p] \in {"none", "open"}
  BY <1>1, <1>5, <1>6, <1>8 DEF LifeInv, RowsInv, W!WState
<1>p. p = [table |-> t, sys |-> s, day |-> d]
  OBVIOUS
<1> HIDE DEF p, new
<1>10. ControlInv'
  BY <1>1, <1>2, <1>5, <1>6, <1>9 DEF IInv, ControlInv, wvars
<1>11. CacheInv'
  <2> SUFFICES ASSUME NEW u \in Table, last'[u] # NoPart
               PROVE  /\ last'[u].part \in parts'
                      /\ last'[u].part = [table |-> u, sys |-> last'[u].sys,
                                          day |-> last'[u].day]
    BY DEF CacheInv
  <2>1. CASE u = t
    BY <1>p, <1>1, <1>5, <1>6, <2>1
  <2>2. CASE u # t
    BY <1>5, <1>6, <2>2 DEF IInv, CacheInv
  <2> QED  BY <2>1, <2>2
<1>12. NumberInv'
  <2> SUFFICES ASSUME NEW r \in received' PROVE r.num <= total'[r.part.table]
    BY DEF NumberInv
  <2>1. CASE r \in received
    <3>1. r.part.table \in Table /\ r.num \in Nat
      BY <1>6, <2>1, BoundsAssumption DEF Row, Partition
    <3> QED  BY <1>2, <1>5, <1>6, <1>7, <2>1, <3>1
  <2>2. CASE r \in new
    BY <1>2, <1>3, <1>4, <1>5, <1>6, <2>2
  <2> QED  BY <1>5, <2>1, <2>2
<1>13. ASSUME NEW q \in Partition PROVE LifeInv(q)'
  BY <1>5, <1>8, LifeFrame DEF IInv, wvars
<1>14. RowsInv(p)'
  <2>1. new \cap (received \cup rows[p]) = {}
    <3>1. rows[p] \subseteq received
      BY <1>8 DEF RowsInv
    <3>2. ASSUME NEW r \in new, r \in received PROVE FALSE
      <4>1. r.num \in Nat
        BY <1>3, BoundsAssumption DEF Row
      <4> QED  BY <1>2, <1>3, <1>4, <1>7, <3>2, <4>1
    <3> QED  BY <3>1, <3>2
  <2>2. {r \in received' : r.part = p} = {r \in received : r.part = p} \cup new
    BY <1>3, <1>5
  <2>3. builder'[p] = builder[p] \cup new /\ pending'[p] = pending[p] + n
    BY <1>1, <1>5, <1>6
  <2>4. pending'[p] = 0 <=> builder'[p] = {}
    BY <1>1, <1>2, <1>3, <1>6, <1>8, <2>3 DEF RowsInv
  <2>5. p \in parts' /\ p \notin visited' /\ rows' = rows /\ wstate' = wstate
    BY <1>5 DEF wvars
  <2>6. \A r \in builder'[p] \cup rows'[p] : r.part = p
    BY <1>3, <1>8, <2>3, <2>5 DEF RowsInv
  <2>7. wstate'[p] = "open" => rows'[p] # {}
    BY <1>5, <1>8, <2>5 DEF RowsInv
  <2>8. {r \in received' : r.part = p} = builder'[p] \cup rows'[p]
    BY <1>8, <2>2, <2>3, <2>5 DEF RowsInv
  <2>9. builder'[p] \cap rows'[p] = {}
    BY <1>8, <2>1, <2>3, <2>5 DEF RowsInv
  <2> QED
    BY <1>9, <2>4, <2>5, <2>6, <2>7, <2>8, <2>9 DEF RowsInv
<1>15. ASSUME NEW q \in Partition, q # p PROVE RowsInv(q)'
  <2>1. {r \in received' : r.part = q} = {r \in received : r.part = q}
    BY <1>3, <1>5, <1>15
  <2>2. builder'[q] = builder[q] /\ pending'[q] = pending[q]
    BY <1>5, <1>6, <1>15
  <2>3. RowsInv(q)
    BY DEF IInv
  <2> QED
    BY <1>5, <1>8, <2>1, <2>2, <2>3 DEF RowsInv, wvars
<1>16. \A q \in Partition : LifeInv(q)' /\ RowsInv(q)'
  BY <1>13, <1>14, <1>15
<1> QED
  BY <1>10, <1>11, <1>12, <1>16 DEF IInv

(* A step into a failed run: nothing is promised about builders any more,  *)
(* and a step that leaves a finished file and received alone keeps the     *)
(* rest.                                                                   *)
LEMMA DeadStep ==
  ASSUME IInv, TypeOK', pc' \in {"unwind", "exit2", "crashed"},
         parts \subseteq parts', visited' = visited, CacheInv',
         received' = received, total' = total, rows' = rows,
         \A p \in Partition : \A r \in builder'[p] : r.part = p,
         \A p \in Partition : wstate'[p] \in {"ended", "renamed"} =>
           wstate[p] \in {"ended", "renamed"},
         \A p \in Partition : LifeInv(p)'
  PROVE  IInv'
<1>1. ~Alive'
  BY DEF Alive
<1>2. ControlInv'
  BY DEF IInv, ControlInv
<1>3. NumberInv'
  BY DEF IInv, NumberInv
<1>4. ASSUME NEW p \in Partition PROVE RowsInv(p)'
  BY <1>1 DEF IInv, RowsInv
<1> QED  BY <1>2, <1>3, <1>4 DEF IInv

(* The same for a step that touches no writer and no file at all.          *)
LEMMA DeadQuietStep ==
  ASSUME IInv, TypeOK', pc' \in {"unwind", "exit2", "crashed"},
         UNCHANGED <<parts, last, total, received, visited, wvars>>,
         \A p \in Partition : \A r \in builder'[p] : r.part = p
  PROVE  IInv'
<1>1. CacheInv'
  BY DEF IInv, CacheInv
<1>2. ASSUME NEW p \in Partition PROVE LifeInv(p)'
  BY LifeFrame DEF IInv, Alive, wvars
<1> QED
  BY <1>1, <1>2, DeadStep DEF wvars

LEMMA AppendFailsInv ==
  ASSUME IInv, TypeOK',
         NEW t \in Table, NEW s \in System, NEW d \in Day \cup {NoDate},
         NEW n \in 0..RecordRows, AppendFails(t, s, d, n)
  PROVE  IInv'
<1> DEFINE p == [table |-> t, sys |-> s, day |-> d]
<1>1. PartFor(t, s, d) = p /\ p \in Partition
  BY PartForOwn, KeyIsPartition DEF IInv
<1>2. n \in Nat /\ total[t] + n <= MaxRows
  BY BoundsAssumption DEF AppendFails
<1>3. \A r \in NewRows(t, s, d, n) : r.part = p
  BY <1>2, NewRowsFacts DEF IInv
<1>4. /\ parts' = parts \cup {p}
      /\ last' = [last EXCEPT ![t] = [part |-> p, sys |-> s, day |-> d]]
      /\ builder' = [builder EXCEPT ![p] = @ \cup NewRows(t, s, d, n)]
      /\ pc = "ready" /\ pc' = "unwind"
      /\ UNCHANGED <<total, received, visited, wvars>>
  BY <1>1 DEF AppendFails, GetPartition
<1>p. p = [table |-> t, sys |-> s, day |-> d]
  OBVIOUS
<1> HIDE DEF p
<1>5. CacheInv'
  <2> SUFFICES ASSUME NEW u \in Table, last'[u] # NoPart
               PROVE  /\ last'[u].part \in parts'
                      /\ last'[u].part = [table |-> u, sys |-> last'[u].sys,
                                          day |-> last'[u].day]
    BY DEF CacheInv
  <2>0. last \in [Table -> CacheLine \cup {NoPart}]
    BY DEF IInv, TypeOK
  <2>1. CASE u = t
    BY <1>p, <1>4, <2>0, <2>1
  <2>2. CASE u # t
    BY <1>4, <2>0, <2>2 DEF IInv, CacheInv
  <2> QED  BY <2>1, <2>2
<1>6. ASSUME NEW q \in Partition PROVE \A r \in builder'[q] : r.part = q
  <2>1. RowsInv(q) /\ builder \in [Partition -> SUBSET Row]
    BY DEF IInv, TypeOK
  <2> QED  BY <1>1, <1>3, <1>4, <2>1 DEF RowsInv
<1>7. ASSUME NEW q \in Partition PROVE LifeInv(q)'
  BY <1>4, LifeFrame DEF IInv, Alive, wvars
<1> QED
  BY <1>4, <1>5, <1>6, <1>7, DeadStep DEF wvars

LEMMA EndOfInputInv ==
  ASSUME IInv, TypeOK', EndOfInput
  PROVE  IInv'
<1>1. Alive /\ Alive' /\ pc = "ready" /\ pc' = "closing" /\ visited = {}
      /\ cur = NoPart
  BY DEF EndOfInput, Alive, PC, IInv, ControlInv
<1>2. ControlInv' /\ CacheInv' /\ NumberInv'
  BY <1>1 DEF EndOfInput, IInv, ControlInv, CacheInv, NumberInv, tvars
<1>3. ASSUME NEW q \in Partition PROVE LifeInv(q)'
  BY <1>1, LifeFrame DEF IInv, EndOfInput, tvars, wvars
<1>4. ASSUME NEW q \in Partition PROVE RowsInv(q)'
  <2>1. UNCHANGED <<pending, builder, rows, received, parts, wstate, visited, cur>>
    BY DEF EndOfInput, tvars, wvars
  <2>2. RowsInv(q)
    BY DEF IInv
  <2> QED  BY <1>1, <2>1, <2>2 DEF RowsInv
<1> QED  BY <1>2, <1>3, <1>4 DEF IInv

(* Constructing the writer of p creates its temporary file, which no other *)
(* partition can have created.                                             *)
LEMMA CreateTmpOwn ==
  ASSUME PathsInjective, IInv, NEW p \in Partition,
         Alive, wstate[p] = "none", W!CreateTmp(p)
  PROVE  /\ tmp'     = [tmp EXCEPT ![MakePath(p)] = p]
         /\ fd'      = [fd EXCEPT ![p] = p]
         /\ rows'    = [rows EXCEPT ![p] = {}]
         /\ openers' = [openers EXCEPT ![p] = @ \cup {p}]
<1>1. tmp[MakePath(p)] = NoFile
  BY DEF IInv, LifeInv
<1> QED
  BY <1>1 DEF W!CreateTmp

LEMMA FlushOpenInv ==
  ASSUME PathsInjective, IInv, TypeOK', FlushOpen
  PROVE  IInv'
<1> DEFINE f == MakePath(cur)
<1>1. /\ cur \in Partition /\ Alive /\ Alive' /\ wstate[cur] = "none"
      /\ UNCHANGED <<parts, builder, pending, last, total, received, visited,
                     pc, cur, final, footers>>
      /\ pc = "flush" /\ wstate' = [wstate EXCEPT ![cur] = "open"]
      /\ W!CreateTmp(cur)
  BY DEF FlushOpen, W!Construct, IInv, TypeOK, tvars, Alive, PC
<1>2. /\ tmp'     = [tmp EXCEPT ![f] = cur]
      /\ fd'      = [fd EXCEPT ![cur] = cur]
      /\ rows'    = [rows EXCEPT ![cur] = {}]
      /\ openers' = [openers EXCEPT ![cur] = @ \cup {cur}]
  BY <1>1, CreateTmpOwn
<1>3. LifeInv(cur) /\ RowsInv(cur) /\ cur \in parts
  BY <1>1 DEF IInv, ControlInv
<1>4. f \in Path
  BY <1>1, PathFacts
<1>5. /\ wstate \in [Partition -> W!WState] /\ fd \in [Partition -> Partition \cup {NoFile}]
      /\ tmp \in [Path -> Partition \cup {NoFile}]
      /\ rows \in [Partition -> SUBSET Row]
      /\ openers \in [Partition -> SUBSET Partition]
  BY DEF IInv, TypeOK, W!WTypeOK
<1>6. rows' = rows
  BY <1>1, <1>2, <1>3, <1>5 DEF LifeInv
<1>7. ControlInv' /\ CacheInv' /\ NumberInv'
  BY <1>1, <1>3, <1>5 DEF IInv, ControlInv, CacheInv, NumberInv
<1>8. ASSUME NEW q \in Partition, q = cur PROVE LifeInv(q)'
  BY <1>1, <1>2, <1>3, <1>4, <1>5, <1>6, <1>8 DEF LifeInv
<1>9. ASSUME NEW q \in Partition, q # cur PROVE LifeInv(q)'
  <2>1. MakePath(q) # f /\ MakePath(q) \in Path
    BY <1>1, <1>9, PathFacts
  <2> QED
    BY <1>1, <1>2, <1>4, <1>5, <1>9, <2>1, LifeFrame DEF IInv
<1>10. ASSUME NEW q \in Partition PROVE RowsInv(q)'
  <2>1. RowsInv(q)
    BY DEF IInv
  <2> QED
    BY <1>1, <1>3, <1>5, <1>6, <2>1 DEF RowsInv
<1>11. \A q \in Partition : LifeInv(q)' /\ RowsInv(q)'
  BY <1>8, <1>9, <1>10
<1> QED  BY <1>7, <1>11 DEF IInv

LEMMA FlushOpenFailsInv ==
  ASSUME PathsInjective, IInv, TypeOK', FlushOpenFails
  PROVE  IInv'
<1> DEFINE f == MakePath(cur)
<1>1. /\ cur \in Partition /\ Alive /\ ~Alive' /\ wstate[cur] = "none"
      /\ UNCHANGED <<parts, builder, last, total, received, visited, cur,
                     wstate, final, footers>>
      /\ pc' = "unwind"
      /\ UNCHANGED <<fd, tmp, rows, openers>> \/ W!CreateTmp(cur)
  BY DEF FlushOpenFails, W!ConstructFails, IInv, TypeOK, tvars, Alive, PC
<1>2. CASE UNCHANGED <<fd, tmp, rows, openers>>
  BY <1>1, <1>2, DeadQuietStep DEF IInv, RowsInv, wvars
<1>3. CASE W!CreateTmp(cur)
  <2>1. /\ tmp'     = [tmp EXCEPT ![f] = cur]
        /\ fd'      = [fd EXCEPT ![cur] = cur]
        /\ rows'    = [rows EXCEPT ![cur] = {}]
        /\ openers' = [openers EXCEPT ![cur] = @ \cup {cur}]
    BY <1>1, <1>3, CreateTmpOwn
  <2>2. LifeInv(cur) /\ f \in Path
    BY <1>1, PathFacts DEF IInv
  <2>3. /\ fd \in [Partition -> Partition \cup {NoFile}]
        /\ tmp \in [Path -> Partition \cup {NoFile}]
        /\ rows \in [Partition -> SUBSET Row]
        /\ openers \in [Partition -> SUBSET Partition]
    BY DEF IInv, TypeOK, W!WTypeOK
  <2>4. rows' = rows
    BY <1>1, <2>1, <2>2, <2>3 DEF LifeInv
  <2>5. ASSUME NEW q \in Partition, q = cur PROVE LifeInv(q)'
    BY <1>1, <2>1, <2>2, <2>3, <2>5 DEF LifeInv
  <2>6. ASSUME NEW q \in Partition, q # cur PROVE LifeInv(q)'
    <3>1. MakePath(q) # f /\ MakePath(q) \in Path
      BY <1>1, <2>6, PathFacts
    <3> QED
      BY <1>1, <2>1, <2>2, <2>3, <2>6, <3>1, LifeFrame DEF IInv
  <2>7. CacheInv'
    BY <1>1 DEF IInv, CacheInv
  <2>8. \A q \in Partition : LifeInv(q)' /\ \A r \in builder'[q] : r.part = q
    BY <1>1, <2>5, <2>6 DEF IInv, RowsInv
  <2> QED
    BY <1>1, <2>4, <2>7, <2>8, DeadStep
<1> QED  BY <1>1, <1>2, <1>3

LEMMA FlushWriteInv ==
  ASSUME PathsInjective, IInv, TypeOK', FlushWrite
  PROVE  IInv'
<1>1. /\ cur \in Partition /\ Alive /\ Alive' /\ wstate[cur] = "open"
      /\ UNCHANGED <<parts, last, total, received, visited,
                     wstate, fd, tmp, final, openers, footers>>
      /\ pc = "flush" /\ pending[cur] > 0
      /\ builder' = [builder EXCEPT ![cur] = {}]
      /\ pending' = [pending EXCEPT ![cur] = 0]
      /\ rows' = [rows EXCEPT ![fd[cur]] = @ \cup builder[cur]]
      /\ \/ cur \in visited /\ pc' = "finish" /\ cur' = cur
         \/ cur \notin visited /\ visited = {} /\ pc' = "ready" /\ cur' = NoPart
  BY DEF FlushWrite, W!WriteBatch, IInv, TypeOK, ControlInv, Alive, PC
<1>2. LifeInv(cur) /\ RowsInv(cur) /\ cur \in parts
  BY <1>1 DEF IInv, ControlInv
<1>3. fd[cur] = cur
  BY <1>1, <1>2 DEF LifeInv
<1>4. /\ builder \in [Partition -> SUBSET Row]
      /\ pending \in [Partition -> Nat]
      /\ rows \in [Partition -> SUBSET Row]
  BY DEF IInv, TypeOK, W!WTypeOK
<1>5. builder[cur] # {}
  BY <1>1, <1>2, <1>4 DEF RowsInv
<1>6. ControlInv' /\ CacheInv' /\ NumberInv'
  BY <1>1, <1>2 DEF IInv, ControlInv, CacheInv, NumberInv
<1>7. ASSUME NEW q \in Partition PROVE LifeInv(q)'
  <2>1. CASE q = cur
    BY <1>1, <1>2, <2>1 DEF LifeInv
  <2>2. CASE q # cur
    BY <1>1, <1>3, <1>4, <2>2, LifeFrame DEF IInv
  <2> QED  BY <2>1, <2>2
<1>8. ASSUME NEW q \in Partition, q = cur PROVE RowsInv(q)'
  <2>1. builder'[q] = {} /\ pending'[q] = 0 /\ rows'[q] = rows[q] \cup builder[q]
    BY <1>1, <1>3, <1>4, <1>8
  <2>2. wstate'[q] = "open"
    BY <1>1, <1>8
  <2> QED
    BY <1>1, <1>2, <1>5, <1>8, <2>1, <2>2 DEF RowsInv
<1>9. ASSUME NEW q \in Partition, q # cur PROVE RowsInv(q)'
  <2>1. builder'[q] = builder[q] /\ pending'[q] = pending[q] /\ rows'[q] = rows[q]
    BY <1>1, <1>3, <1>4, <1>9
  <2>2. RowsInv(q) /\ q # NoPart
    BY SentinelAssumption DEF IInv
  <2> QED
    BY <1>1, <1>9, <2>1, <2>2 DEF RowsInv
<1>10. \A q \in Partition : LifeInv(q)' /\ RowsInv(q)'
  BY <1>7, <1>8, <1>9
<1> QED  BY <1>6, <1>10 DEF IInv

LEMMA FlushWriteFailsInv ==
  ASSUME IInv, TypeOK', FlushWriteFails
  PROVE  IInv'
<1>1. \A p \in Partition : \A r \in builder'[p] : r.part = p
  BY DEF FlushWriteFails, IInv, TypeOK, RowsInv
<1> QED
  BY <1>1, DeadQuietStep DEF FlushWriteFails

LEMMA CloseVisitInv ==
  ASSUME IInv, TypeOK', NEW p \in Partition, CloseVisit(p)
  PROVE  IInv'
<1>1. /\ pc = "closing" /\ cur = NoPart /\ Alive /\ Alive'
      /\ p \in parts /\ p \notin visited /\ visited' = visited \cup {p}
      /\ UNCHANGED <<parts, builder, pending, last, total, received, wvars>>
      /\ \/ pending[p] > 0 /\ pc' = "flush" /\ cur' = p
         \/ pending[p] = 0 /\ wstate[p] = "open" /\ pc' = "finish" /\ cur' = p
         \/ pending[p] = 0 /\ wstate[p] = "none" /\ pc' = pc /\ cur' = cur
  BY DEF CloseVisit, Unvisited, IInv, ControlInv, Alive, PC
<1>2. LifeInv(p) /\ RowsInv(p) /\ wstate[p] \in W!WState /\ pending[p] \in Nat
  BY DEF IInv, TypeOK, W!WTypeOK
<1>3. wstate[p] \in {"none", "open"}
  BY <1>1, <1>2 DEF LifeInv, RowsInv, W!WState
<1>4. ControlInv' /\ CacheInv' /\ NumberInv'
  BY <1>1, <1>2, <1>3 DEF IInv, ControlInv, CacheInv, NumberInv, wvars
<1>5. ASSUME NEW q \in Partition PROVE LifeInv(q)'
  BY <1>1, LifeFrame DEF IInv, wvars
<1>6. ASSUME NEW q \in Partition PROVE RowsInv(q)'
  <2>1. RowsInv(q) /\ q # NoPart
    BY SentinelAssumption DEF IInv
  <2>2. UNCHANGED <<wstate, rows>>
    BY <1>1 DEF wvars
  <2>3. CASE q = p
    BY <1>1, <1>3, <2>1, <2>2, <2>3 DEF RowsInv
  <2>4. CASE q # p
    BY <1>1, <2>1, <2>2, <2>4 DEF RowsInv
  <2> QED  BY <2>3, <2>4
<1>7. \A q \in Partition : LifeInv(q)' /\ RowsInv(q)'
  BY <1>5, <1>6
<1> QED  BY <1>4, <1>7 DEF IInv

LEMMA CloseFinishInv ==
  ASSUME IInv, TypeOK', CloseFinish
  PROVE  IInv'
<1>1. /\ cur \in Partition /\ cur \in visited /\ cur \in parts
      /\ Alive /\ Alive' /\ wstate[cur] = "open"
      /\ UNCHANGED <<parts, builder, pending, last, total, received, visited,
                     cur, fd, tmp, final, rows, openers>>
      /\ pc = "finish" /\ pc' = "rename"
      /\ wstate' = [wstate EXCEPT ![cur] = "ended"]
      /\ footers' = [footers EXCEPT ![fd[cur]] = @ \cup {cur}]
  BY DEF CloseFinish, W!Finish, IInv, TypeOK, ControlInv, tvars, Alive, PC
<1>2. LifeInv(cur) /\ RowsInv(cur)
  BY <1>1 DEF IInv
<1>3. fd[cur] = cur /\ footers[cur] = {}
  BY <1>1, <1>2 DEF LifeInv
<1>4. /\ wstate \in [Partition -> W!WState]
      /\ footers \in [Partition -> SUBSET Partition]
  BY DEF IInv, TypeOK, W!WTypeOK
<1>5. ControlInv' /\ CacheInv' /\ NumberInv'
  BY <1>1, <1>4 DEF IInv, ControlInv, CacheInv, NumberInv
<1>6. ASSUME NEW q \in Partition PROVE LifeInv(q)'
  <2>1. CASE q = cur
    BY <1>1, <1>2, <1>3, <1>4, <2>1 DEF LifeInv
  <2>2. CASE q # cur
    BY <1>1, <1>3, <1>4, <2>2, LifeFrame DEF IInv
  <2> QED  BY <2>1, <2>2
<1>7. ASSUME NEW q \in Partition PROVE RowsInv(q)'
  <2>1. RowsInv(q)
    BY DEF IInv
  <2>2. CASE q = cur
    BY <1>1, <1>4, <2>1, <2>2 DEF RowsInv
  <2>3. CASE q # cur
    BY <1>1, <1>4, <2>1, <2>3 DEF RowsInv
  <2> QED  BY <2>2, <2>3
<1>8. \A q \in Partition : LifeInv(q)' /\ RowsInv(q)'
  BY <1>6, <1>7
<1> QED  BY <1>5, <1>8 DEF IInv

LEMMA CloseRenameInv ==
  ASSUME PathsInjective, IInv, TypeOK', CloseRename
  PROVE  IInv'
<1> DEFINE f == MakePath(cur)
<1>1. /\ cur \in Partition /\ cur \in visited /\ cur \in parts
      /\ Alive /\ Alive' /\ wstate[cur] = "ended"
      /\ UNCHANGED <<parts, builder, pending, last, total, received, visited,
                     fd, rows, openers, footers>>
      /\ pc = "rename" /\ pc' = "closing" /\ cur' = NoPart
      /\ wstate' = [wstate EXCEPT ![cur] = "renamed"]
      /\ final'  = [final EXCEPT ![f] = tmp[f]]
      /\ tmp'    = [tmp EXCEPT ![f] = NoFile]
  BY DEF CloseRename, W!Rename, IInv, TypeOK, ControlInv, tvars, Alive, PC
<1>2. LifeInv(cur) /\ RowsInv(cur)
  BY <1>1 DEF IInv
<1>3. tmp[f] = cur
  BY <1>1, <1>2 DEF LifeInv
<1>4. /\ wstate \in [Partition -> W!WState] /\ f \in Path
      /\ tmp \in [Path -> Partition \cup {NoFile}]
      /\ final \in [Path -> Partition \cup {NoFile}]
  BY <1>1 DEF IInv, TypeOK, W!WTypeOK, Path
<1>5. ControlInv' /\ CacheInv' /\ NumberInv'
  BY <1>1, <1>4 DEF IInv, ControlInv, CacheInv, NumberInv
<1>6. ASSUME NEW q \in Partition PROVE LifeInv(q)'
  <2>1. CASE q = cur
    BY <1>1, <1>2, <1>3, <1>4, <2>1 DEF LifeInv
  <2>2. CASE q # cur
    <3>1. MakePath(q) # f /\ MakePath(q) \in Path
      BY <1>1, <2>2, PathFacts
    <3> QED
      BY <1>1, <1>4, <2>2, <3>1, LifeFrame DEF IInv
  <2> QED  BY <2>1, <2>2
<1>7. ASSUME NEW q \in Partition PROVE RowsInv(q)'
  <2>1. RowsInv(q)
    BY DEF IInv
  <2>2. CASE q = cur
    BY <1>1, <1>4, <2>1, <2>2 DEF RowsInv
  <2>3. CASE q # cur
    BY <1>1, <1>4, <2>1, <2>3 DEF RowsInv
  <2> QED  BY <2>2, <2>3
<1>8. \A q \in Partition : LifeInv(q)' /\ RowsInv(q)'
  BY <1>6, <1>7
<1> QED  BY <1>5, <1>8 DEF IInv

(* Close() or rename() throws: the writer of cur is given up where it is.  *)
LEMMA CloseFailsInv ==
  ASSUME IInv, TypeOK', CloseFinishFails \/ CloseRenameFails
  PROVE  IInv'
<1>1. /\ cur \in Partition
      /\ ~Alive' /\ pc' = "unwind" /\ wstate[cur] \in {"open", "ended"}
      /\ UNCHANGED <<parts, builder, pending, last, total, received, visited,
                     cur, fd, tmp, final, rows, openers, footers>>
      /\ wstate' = [wstate EXCEPT ![cur] = "dead"]
  BY DEF CloseFinishFails, CloseRenameFails, W!FinishFails, W!RenameFails,
         IInv, TypeOK, tvars, Alive
<1>2. wstate \in [Partition -> W!WState]
  BY DEF IInv, TypeOK, W!WTypeOK
<1>3. CacheInv'
  BY <1>1 DEF IInv, CacheInv
<1>4. ASSUME NEW q \in Partition PROVE LifeInv(q)'
  <2>1. LifeInv(q)
    BY DEF IInv
  <2>2. CASE q = cur
    BY <1>1, <1>2, <2>1, <2>2 DEF LifeInv
  <2>3. CASE q # cur
    BY <1>1, <1>2, <2>1, <2>3, LifeFrame
  <2> QED  BY <2>2, <2>3
<1>5. \A q \in Partition : \A r \in builder'[q] : r.part = q
  BY <1>1 DEF IInv, RowsInv
<1>6. \A q \in Partition : wstate'[q] \in {"ended", "renamed"} =>
        wstate[q] \in {"ended", "renamed"}
  BY <1>1, <1>2
<1> QED
  BY <1>1, <1>3, <1>4, <1>5, <1>6, DeadStep

LEMMA CloseDoneInv ==
  ASSUME IInv, TypeOK', CloseDone
  PROVE  IInv'
<1>1. /\ Alive /\ Alive' /\ pc = "closing" /\ pc' = "exit0" /\ parts \subseteq visited
      /\ UNCHANGED <<parts, builder, pending, last, total, received, visited,
                     cur, wvars>>
  BY DEF CloseDone, Unvisited, tvars, Alive, PC, Ended
<1>2. ControlInv' /\ CacheInv' /\ NumberInv'
  BY <1>1 DEF IInv, ControlInv, CacheInv, NumberInv
<1>3. ASSUME NEW q \in Partition PROVE LifeInv(q)'
  BY <1>1, LifeFrame DEF IInv, wvars
<1>4. ASSUME NEW q \in Partition PROVE RowsInv(q)'
  <2>1. RowsInv(q) /\ UNCHANGED <<wstate, rows>>
    BY <1>1 DEF IInv, wvars
  <2> QED  BY <1>1, <2>1 DEF RowsInv
<1>5. \A q \in Partition : LifeInv(q)' /\ RowsInv(q)'
  BY <1>3, <1>4
<1> QED  BY <1>2, <1>5 DEF IInv

(* The destructors finish open temporary files and give nothing a name.    *)
LEMMA UnwindInv ==
  ASSUME IInv, TypeOK', Unwind
  PROVE  IInv'
<1> DEFINE open == {w \in Partition : wstate[w] = "open"}
<1>1. /\ ~Alive /\ ~Alive' /\ pc' = "exit2"
      /\ UNCHANGED <<parts, builder, pending, last, total, received, visited,
                     cur, fd, tmp, final, rows, openers>>
      /\ wstate' = [w \in Partition |-> IF w \in open THEN "dead" ELSE wstate[w]]
  BY DEF Unwind, W!DestroyAll, tvars, Alive, PC
<1>2. PICK done \in SUBSET open :
        footers' = [i \in Partition |-> footers[i] \cup {w \in done : fd[w] = i}]
  BY DEF Unwind, W!DestroyAll
<1>3. CacheInv'
  BY <1>1 DEF IInv, CacheInv
<1>4. ASSUME NEW q \in Partition PROVE LifeInv(q)'
  <2>1. LifeInv(q) /\ \A w \in Partition : LifeInv(w)
    BY DEF IInv
  <2>2. CASE wstate[q] = "open"
    BY <1>1, <2>1, <2>2 DEF LifeInv
  <2>3. CASE wstate[q] # "open"
    <3>1. \A w \in open : fd[w] = w
      BY <2>1 DEF LifeInv
    <3>2. footers'[q] = footers[q]
      BY <1>2, <2>3, <3>1
    <3>3. wstate'[q] = wstate[q]
      BY <1>1, <2>3
    <3> QED
      BY <1>1, <2>1, <3>2, <3>3, LifeFrame
  <2> QED  BY <2>2, <2>3
<1>5. \A q \in Partition : \A r \in builder'[q] : r.part = q
  BY <1>1 DEF IInv, RowsInv
<1>6. \A q \in Partition : wstate'[q] \in {"ended", "renamed"} =>
        wstate[q] \in {"ended", "renamed"}
  BY <1>1
<1> QED
  BY <1>1, <1>3, <1>4, <1>5, <1>6, DeadStep

LEMMA CrashInv ==
  ASSUME IInv, TypeOK', Crash
  PROVE  IInv'
<1>1. \A p \in Partition : \A r \in builder'[p] : r.part = p
  BY DEF Crash, tvars, IInv, RowsInv
<1> QED
  BY <1>1, DeadQuietStep DEF Crash, tvars

LEMMA StutterInv ==
  ASSUME IInv, UNCHANGED vars
  PROVE  IInv'
<1> USE DEF vars, tvars, wvars
<1>1. TypeOK' /\ ControlInv' /\ CacheInv' /\ NumberInv'
  BY DEF IInv, TypeOK, W!WTypeOK, ControlInv, CacheInv, NumberInv
<1>2. ASSUME NEW q \in Partition PROVE LifeInv(q)' /\ RowsInv(q)'
  BY DEF IInv, LifeInv, RowsInv, Alive
<1> QED  BY <1>1, <1>2 DEF IInv

LEMMA NextInv ==
  ASSUME PathsInjective
  PROVE  IInv /\ [Next]_vars => IInv'
<1> SUFFICES ASSUME IInv, [Next]_vars PROVE IInv'
  OBVIOUS
<1>1. TypeOK'
  BY NextType DEF IInv
<1>2. CASE UNCHANGED vars
  BY <1>2, StutterInv
<1>3. CASE Next
  BY <1>1, <1>2, <1>3, WriteInv, AppendFailsInv, EndOfInputInv, FlushOpenInv,
     FlushOpenFailsInv, FlushWriteInv, FlushWriteFailsInv, CloseVisitInv,
     CloseFinishInv, CloseRenameInv, CloseFailsInv, CloseDoneInv, UnwindInv,
     CrashInv
  DEF Next, Terminated
<1> QED  BY <1>2, <1>3

(* As long as no two partitions share a file, the program counter, the     *)
(* life of each writer and the place of each row fit together: a writer    *)
(* keeps the one file it created, and a row is in the builders of its      *)
(* partition until it is in that file.                                     *)
THEOREM Invariance ==
  ASSUME PathsInjective
  PROVE  Spec => []IInv
<1>1. Init => IInv
  BY InitInv
<1>2. IInv /\ [Next]_vars => IInv'
  BY NextInv
<1> QED  BY <1>1, <1>2, PTL DEF Spec

-----------------------------------------------------------------------------
(* The properties the runs check, for every instance.                      *)

(* A stale answer of the one-entry cache would put rows into the file of   *)
(* another system or day: it never happens.                                *)
THEOREM RoutingCorrect ==
  ASSUME PathsInjective
  PROVE  Spec => []RowsRouted
<1>1. IInv => RowsRouted
  <2> SUFFICES ASSUME IInv PROVE RowsRouted
    OBVIOUS
  <2>1. ASSUME NEW f \in Path, final[f] # NoFile, NEW r \in rows[final[f]]
        PROVE  MakePath(r.part) = f
    <3>1. PICK p \in Partition : f = MakePath(p)
      BY DEF Path
    <3>2. final[f] = p
      BY <2>1, <3>1 DEF IInv, LifeInv
    <3> QED  BY <2>1, <3>1, <3>2 DEF IInv, RowsInv
  <2>2. \A p \in Partition : \A r \in builder[p] : r.part = p
    BY DEF IInv, RowsInv
  <2> QED  BY <2>1, <2>2 DEF IInv, CacheInv, RowsRouted
<1> QED  BY <1>1, Invariance, PTL

(* What a visible file implies about the partition it belongs to.          *)
LEMMA VisibleFacts ==
  ASSUME PathsInjective, IInv, NEW f \in Path, final[f] # NoFile
  PROVE  \E p \in Partition :
           /\ f = MakePath(p) /\ final[f] = p
           /\ wstate[p] = "renamed" /\ fd[p] = p /\ tmp[f] = NoFile
           /\ openers[p] = {p} /\ footers[p] = {p}
           /\ rows[p] = {r \in received : r.part = p} /\ rows[p] # {}
<1>1. PICK p \in Partition : f = MakePath(p)
  BY DEF Path
<1>2. LifeInv(p) /\ RowsInv(p)
  BY DEF IInv
<1> QED  BY <1>1, <1>2 DEF LifeInv, RowsInv

(* The rows of a file are those of its only partition.                     *)
LEMMA RowsOfPartition ==
  ASSUME PathsInjective, TypeOK, NEW p \in Partition
  PROVE  RowsOf(MakePath(p)) = {r \in received : r.part = p}
<1>1. \A r \in received : r.part \in Partition
  BY DEF TypeOK, Row
<1> QED  BY <1>1, PathFacts DEF RowsOf

(* Readers never observe a partial or empty file, also when the run failed *)
(* or was killed.                                                          *)
THEOREM VisibleFilesComplete ==
  ASSUME PathsInjective
  PROVE  Spec => []VisibleComplete
<1>1. IInv => VisibleComplete
  <2> SUFFICES ASSUME IInv, NEW f \in Path, final[f] # NoFile
               PROVE  /\ W!Readable(final[f])
                      /\ rows[final[f]] = RowsOf(f)
                      /\ RowsOf(f) # {}
    BY DEF VisibleComplete
  <2>1. PICK p \in Partition :
          /\ f = MakePath(p) /\ final[f] = p
          /\ openers[p] = {p} /\ footers[p] = {p}
          /\ rows[p] = {r \in received : r.part = p} /\ rows[p] # {}
    BY VisibleFacts
  <2>2. RowsOf(f) = {r \in received : r.part = p}
    BY <2>1, RowsOfPartition DEF IInv
  <2> QED  BY <2>1, <2>2 DEF W!Readable
<1> QED  BY <1>1, Invariance, PTL

(* Once the loops of close() have been through all partitions, each of them *)
(* has a visible file if rows were received for it, and no temporary file.  *)
LEMMA ExitFacts ==
  ASSUME PathsInjective, IInv, pc \in {"closing", "exit0"},
         parts \subseteq visited, NEW p \in Partition
  PROVE  /\ {r \in received : r.part = p} # {} => final[MakePath(p)] # NoFile
         /\ tmp[MakePath(p)] = NoFile
<1>1. Alive /\ cur = NoPart /\ p # NoPart
  BY SentinelAssumption DEF Alive, PC, Ended, IInv, ControlInv
<1>2. LifeInv(p) /\ RowsInv(p)
  BY DEF IInv
<1>3. CASE p \in parts
  <2>1. pending[p] = 0 /\ wstate[p] \in {"none", "renamed"} /\ builder[p] = {}
    BY <1>1, <1>2, <1>3 DEF RowsInv
  <2>2. CASE wstate[p] = "none"
    BY <1>1, <1>2, <2>1, <2>2 DEF LifeInv, RowsInv
  <2>3. CASE wstate[p] = "renamed"
    BY <1>2, <2>3, SentinelAssumption DEF LifeInv
  <2> QED  BY <2>1, <2>2, <2>3
<1>4. CASE p \notin parts
  BY <1>1, <1>2, <1>4 DEF LifeInv, RowsInv
<1> QED  BY <1>3, <1>4

(* When a run returns 0, every row it accepted is in a complete file.      *)
LEMMA ExitComplete ==
  ASSUME PathsInjective, IInv, pc = "exit0"
  PROVE  CompleteAtExit
<1>0. parts \subseteq visited
  BY DEF IInv, ControlInv
<1>1. ASSUME NEW r \in received
      PROVE  \E f \in Path :
               final[f] # NoFile /\ W!Readable(final[f]) /\ r \in rows[final[f]]
  <2> DEFINE f == MakePath(r.part)
  <2>1. r.part \in Partition
    BY DEF IInv, TypeOK, Row
  <2>2. f \in Path /\ final[f] # NoFile
    BY <1>0, <2>1, ExitFacts, PathFacts
  <2>3. PICK p \in Partition :
          /\ f = MakePath(p) /\ final[f] = p
          /\ openers[p] = {p} /\ footers[p] = {p}
          /\ rows[p] = {x \in received : x.part = p}
    BY <2>2, VisibleFacts
  <2>4. p = r.part
    BY <2>1, <2>3 DEF PathsInjective
  <2> QED  BY <2>2, <2>3, <2>4 DEF W!Readable
<1>2. \A f \in Path : tmp[f] = NoFile
  BY <1>0, ExitFacts DEF Path
<1> QED  BY <1>1, <1>2 DEF CompleteAtExit

(* A run that returns 0 published every row it accepted.                   *)
THEOREM ExitZeroIsComplete ==
  ASSUME PathsInjective
  PROVE  Spec => []CompleteAtExit
<1>1. IInv => CompleteAtExit
  BY ExitComplete DEF CompleteAtExit
<1> QED  BY <1>1, Invariance, PTL

(* A file with a final name keeps its inode and its bytes.                 *)
LEMMA VisibleStep ==
  ASSUME PathsInjective, IInv, IInv', [Next]_vars, NEW f \in Path, final[f] # NoFile
  PROVE  /\ final'[f] = final[f]
         /\ rows'[final[f]] = rows[final[f]]
         /\ openers'[final[f]] = openers[final[f]]
         /\ footers'[final[f]] = footers[final[f]]
<1>1. PICK p \in Partition :
        /\ f = MakePath(p) /\ final[f] = p /\ wstate[p] = "renamed"
        /\ openers[p] = {p} /\ footers[p] = {p}
        /\ rows[p] = {r \in received : r.part = p} /\ rows[p] # {}
  BY VisibleFacts
<1>2. wstate'[p] = "renamed" /\ {r \in received' : r.part = p} = rows[p]
  <2>0. /\ wstate \in [Partition -> W!WState]
        /\ RowsInv(p)
    BY DEF IInv, TypeOK, W!WTypeOK
  <2>1. ASSUME NEW t \in Table, NEW s \in System, NEW d \in Day \cup {NoDate},
               NEW n \in 0..RecordRows,
               Write(t, s, d, n) \/ AppendFails(t, s, d, n)
        PROVE  wstate' = wstate /\ received' = received
    <3>1. pc = "ready" /\ visited = {} /\ Alive
      BY <2>1 DEF Write, AppendFails, IInv, ControlInv, Alive, PC
    <3>2. FALSE
      BY <1>1, <2>0, <3>1 DEF RowsInv
    <3> QED  BY <3>2
  <2>2. CASE UNCHANGED <<wstate, received>>
    BY <1>1, <2>2
  <2>3. CASE \/ FlushOpen \/ CloseFinish \/ CloseFinishFails
             \/ CloseRename \/ CloseRenameFails
    <3>1. wstate[cur] # "renamed" /\ received' = received
          /\ \A q \in Partition : q # cur => wstate'[q] = wstate[q]
      BY <2>0, <2>3
      DEF FlushOpen, CloseFinish, CloseFinishFails, CloseRename, CloseRenameFails,
          W!Construct, W!Finish, W!FinishFails, W!Rename, W!RenameFails, tvars
    <3> QED  BY <1>1, <3>1
  <2>4. CASE Unwind
    BY <1>1, <2>4 DEF Unwind, W!DestroyAll, tvars
  <2>5. CASE \/ EndOfInput \/ FlushOpenFails \/ FlushWrite \/ FlushWriteFails
             \/ CloseDone \/ Crash \/ (\E q \in Partition : CloseVisit(q))
             \/ UNCHANGED vars
    BY <2>2, <2>5
    DEF EndOfInput, FlushOpenFails, FlushWrite, FlushWriteFails, CloseDone, Crash,
        CloseVisit, vars, tvars, wvars, W!ConstructFails, W!WriteBatch
  <2> QED
    BY <2>1, <2>2, <2>3, <2>4, <2>5 DEF Next, Terminated
<1>3. /\ final'[f] = p /\ openers'[p] = {p} /\ footers'[p] = {p}
      /\ rows'[p] = {r \in received' : r.part = p}
  BY <1>1, <1>2 DEF IInv, LifeInv, RowsInv
<1> QED  BY <1>1, <1>2, <1>3

(* No file is rewritten in place.                                          *)
THEOREM VisibleFilesStable ==
  ASSUME PathsInjective
  PROVE  Spec => VisibleNeverChanges
<1>1. IInv /\ IInv' /\ [Next]_vars =>
        [\A f \in Path : final[f] # NoFile =>
           /\ final'[f] = final[f]
           /\ rows'[final[f]] = rows[final[f]]
           /\ openers'[final[f]] = openers[final[f]]
           /\ footers'[final[f]] = footers[final[f]]]_vars
  BY VisibleStep
<1> QED  BY <1>1, Invariance, PTL DEF Spec, VisibleNeverChanges

-----------------------------------------------------------------------------
(* The counters of the tables against the rows they count: pending against *)
(* the builders, total_ against the rows accepted, and every accepted row  *)
(* in exactly one place.                                                   *)
InTable(t) == {r \in received : r.part.table = t}

CountInv ==
  /\ Alive => \A p \in Partition :
       /\ IsFiniteSet(builder[p]) /\ pending[p] = Cardinality(builder[p])
       /\ pending[p] >= BatchRows => pc = "flush" /\ cur = p
  /\ \A t \in Table :
       IsFiniteSet(InTable(t)) /\ total[t] = Cardinality(InTable(t))

(* A record of n rows adds n rows.                                         *)
LEMMA NewRowsCount ==
  ASSUME TypeOK, NEW t \in Table, NEW s, NEW d, NEW n \in Nat
  PROVE  IsFiniteSet(NewRows(t, s, d, n)) /\ Cardinality(NewRows(t, s, d, n)) = n
<1> DEFINE row(i) == [part |-> [table |-> t, sys |-> s, day |-> d],
                      num |-> total[t] + i]
           f == [i \in 1..n |-> row(i)]
<1>1. total[t] \in Nat
  BY DEF TypeOK
<1>2. \A i, j \in 1..n : row(i) = row(j) => i = j
  <2>1. \A i, j \in 1..n : total[t] + i = total[t] + j => i = j
    BY <1>1
  <2>2. \A i \in 1..n : row(i).num = total[t] + i
    OBVIOUS
  <2> QED  BY <2>1, <2>2
<1>3. NewRows(t, s, d, n) = {row(i) : i \in 1..n}
  BY DEF NewRows
<1> HIDE DEF row
<1>4. f \in Bijection(1..n, NewRows(t, s, d, n))
  BY <1>2, <1>3 DEF Bijection, Injection, Surjection, IsInjective
<1>5. ExistsBijection(1..n, NewRows(t, s, d, n))
  BY <1>4 DEF ExistsBijection
<1>6. IsFiniteSet(1..n) /\ Cardinality(1..n) = n
  BY FS_Interval
<1> QED  BY <1>5, <1>6, FS_Bijection

(* Rows added to others that do not include them.                          *)
LEMMA DisjointCount ==
  ASSUME NEW S, NEW T, IsFiniteSet(S), IsFiniteSet(T), S \cap T = {}
  PROVE  /\ IsFiniteSet(S \cup T)
         /\ Cardinality(S \cup T) = Cardinality(S) + Cardinality(T)
<1>1. /\ IsFiniteSet(S \cup T)
      /\ Cardinality(S \cup T)
           = Cardinality(S) + Cardinality(T) - Cardinality(S \cap T)
  BY FS_Union
<1>2. Cardinality(S) \in Nat /\ Cardinality(T) \in Nat
  BY FS_CardinalityType
<1>3. Cardinality(S \cap T) = 0
  BY FS_EmptySet
<1> QED  BY <1>1, <1>2, <1>3

LEMMA InitCount == Init => CountInv
<1> SUFFICES ASSUME Init PROVE CountInv
  OBVIOUS
<1>1. \A t \in Table : InTable(t) = {}
  BY DEF Init, InTable
<1>2. ASSUME NEW p \in Partition PROVE builder[p] = {} /\ pending[p] = 0
  BY DEF Init
<1>3. ~(0 >= BatchRows)
  BY BatchRowsAssumption
<1> QED  BY <1>1, <1>2, <1>3, FS_EmptySet DEF CountInv, Init

-----------------------------------------------------------------------------
(* What the record at hand adds to its partition and to its table.         *)
LEMMA WriteCount ==
  ASSUME IInv, IInv', CountInv,
         NEW t \in Table, NEW s \in System, NEW d \in Day \cup {NoDate},
         NEW n \in 0..RecordRows, Write(t, s, d, n)
  PROVE  CountInv'
<1> DEFINE p == [table |-> t, sys |-> s, day |-> d]
           new == NewRows(t, s, d, n)
<1>1. PartFor(t, s, d) = p /\ p \in Partition
  BY PartForOwn, KeyIsPartition DEF IInv
<1>2. n \in Nat /\ total[t] + n <= MaxRows
  BY BoundsAssumption DEF Write
<1>3. /\ \A r \in new : r.part = p /\ r.num > total[t]
      /\ new \subseteq Row
  BY <1>2, NewRowsFacts DEF IInv
<1>4. IsFiniteSet(new) /\ Cardinality(new) = n
  BY <1>2, NewRowsCount DEF IInv
<1>5. /\ builder' = [builder EXCEPT ![p] = @ \cup new]
      /\ received' = received \cup new
      /\ pending' = [pending EXCEPT ![p] = @ + n]
      /\ total' = [total EXCEPT ![t] = @ + n]
      /\ pc = "ready" /\ Alive /\ cur = NoPart
      /\ IF n > 0 /\ pending[p] + n >= BatchRows
           THEN pc' = "flush" /\ cur' = p
           ELSE pc' = pc /\ cur' = cur
  BY <1>1 DEF Write, MustFlush, Alive, PC, IInv, ControlInv
<1>6. /\ builder \in [Partition -> SUBSET Row] /\ pending \in [Partition -> Nat]
      /\ total \in [Table -> Nat] /\ received \subseteq Row
  BY DEF IInv, TypeOK
<1>7. p.table = t
  OBVIOUS
<1> HIDE DEF p, new
<1>8. received \cap new = {}
  <2>1. \A r \in new : r.num \in Nat /\ r.part.table = t
    BY <1>3, <1>7, BoundsAssumption DEF Row
  <2>2. \A r \in received : r.part.table = t => r.num <= total[t]
    BY DEF IInv, NumberInv
  <2> QED  BY <1>3, <1>6, <2>1, <2>2
<1>9. builder[p] \cap new = {}
  BY <1>1, <1>5, <1>8 DEF IInv, RowsInv
<1>10. ASSUME NEW u \in Table
       PROVE  IsFiniteSet(InTable(u))' /\ total'[u] = Cardinality(InTable(u))'
  <2>1. IsFiniteSet(InTable(u)) /\ total[u] = Cardinality(InTable(u))
    BY DEF CountInv
  <2>2. CASE u = t
    <3>1. InTable(u)' = InTable(u) \cup new /\ InTable(u) \cap new = {}
      BY <1>3, <1>5, <1>7, <1>8, <2>2 DEF InTable
    <3>2. total'[u] = total[u] + n
      BY <1>5, <1>6, <2>2
    <3> QED  BY <1>4, <2>1, <3>1, <3>2, DisjointCount
  <2>3. CASE u # t
    <3>1. InTable(u)' = InTable(u)
      BY <1>3, <1>5, <1>7, <2>3 DEF InTable
    <3>2. total'[u] = total[u]
      BY <1>5, <1>6, <2>3
    <3> QED  BY <2>1, <3>1, <3>2
  <2> QED  BY <2>2, <2>3
<1>11. ASSUME NEW q \in Partition
       PROVE  /\ IsFiniteSet(builder'[q]) /\ pending'[q] = Cardinality(builder'[q])
              /\ pending'[q] >= BatchRows => pc' = "flush" /\ cur' = q
  <2>1. /\ IsFiniteSet(builder[q]) /\ pending[q] = Cardinality(builder[q])
        /\ ~(pending[q] >= BatchRows)
    BY <1>5 DEF CountInv
  <2>2. CASE q = p
    <3>1. builder'[q] = builder[q] \cup new /\ pending'[q] = pending[q] + n
      BY <1>1, <1>5, <1>6, <2>2
    <3>2. IsFiniteSet(builder'[q]) /\ pending'[q] = Cardinality(builder'[q])
      <4>1. builder[q] \cap new = {}
        BY <1>9, <2>2
      <4>2. /\ IsFiniteSet(builder[q] \cup new)
            /\ Cardinality(builder[q] \cup new)
                 = Cardinality(builder[q]) + Cardinality(new)
        BY <1>4, <2>1, <4>1, DisjointCount
      <4> QED  BY <1>4, <2>1, <3>1, <4>2
    <3>3. pending'[q] >= BatchRows => pc' = "flush" /\ cur' = q
      BY <1>2, <1>5, <1>6, <2>1, <2>2, <3>1, BatchRowsAssumption
    <3> QED  BY <3>2, <3>3
  <2>3. CASE q # p
    <3>1. builder'[q] = builder[q] /\ pending'[q] = pending[q]
      BY <1>5, <1>6, <2>3
    <3> QED  BY <2>1, <3>1
  <2> QED  BY <2>2, <2>3
<1> QED  BY <1>10, <1>11 DEF CountInv

(* A flush that succeeds empties the builders and restarts the counter.    *)
LEMMA FlushCount ==
  ASSUME IInv, CountInv, FlushWrite
  PROVE  CountInv'
<1>1. /\ cur \in Partition /\ Alive /\ UNCHANGED <<total, received>>
      /\ pc = "flush" /\ pc' # "flush"
      /\ builder' = [builder EXCEPT ![cur] = {}]
      /\ pending' = [pending EXCEPT ![cur] = 0]
  BY DEF FlushWrite, IInv, TypeOK, Alive, PC, Ended
<1>2. builder \in [Partition -> SUBSET Row] /\ pending \in [Partition -> Nat]
  BY DEF IInv, TypeOK
<1>3. \A t \in Table : IsFiniteSet(InTable(t))' /\ total'[t] = Cardinality(InTable(t))'
  BY <1>1 DEF CountInv, InTable
<1>4. ASSUME NEW q \in Partition
      PROVE  /\ IsFiniteSet(builder'[q]) /\ pending'[q] = Cardinality(builder'[q])
             /\ ~(pending'[q] >= BatchRows)
  <2>1. CASE q = cur
    <3>1. builder'[q] = {} /\ pending'[q] = 0
      BY <1>1, <1>2, <2>1
    <3> QED  BY <3>1, FS_EmptySet, BatchRowsAssumption
  <2>2. CASE q # cur
    <3>1. builder'[q] = builder[q] /\ pending'[q] = pending[q]
      BY <1>1, <1>2, <2>2
    <3> QED  BY <1>1, <2>2, <3>1 DEF CountInv
  <2> QED  BY <2>1, <2>2
<1> QED  BY <1>3, <1>4 DEF CountInv

(* The other steps count nothing; those that leave a run alive keep its    *)
(* builders, and move the program counter off a full batch only by writing *)
(* it.                                                                     *)
LEMMA QuietCount ==
  ASSUME CountInv, UNCHANGED <<total, received>>,
         \/ ~Alive'
         \/ /\ Alive /\ UNCHANGED <<builder, pending>>
            /\ (pc' = pc /\ cur' = cur) \/ pc # "flush"
  PROVE  CountInv'
<1>1. \A t \in Table : IsFiniteSet(InTable(t))' /\ total'[t] = Cardinality(InTable(t))'
  BY DEF CountInv, InTable
<1>2. CASE ~Alive'
  BY <1>1, <1>2 DEF CountInv
<1>3. CASE /\ Alive /\ UNCHANGED <<builder, pending>>
           /\ (pc' = pc /\ cur' = cur) \/ pc # "flush"
  BY <1>1, <1>3 DEF CountInv
<1> QED  BY <1>2, <1>3

LEMMA NextCount ==
  ASSUME IInv, IInv', CountInv, [Next]_vars
  PROVE  CountInv'
<1>1. CASE \E t \in Table, s \in System, d \in Day \cup {NoDate},
             n \in 0..RecordRows : Write(t, s, d, n)
  BY <1>1, WriteCount
<1>2. CASE FlushWrite
  BY <1>2, FlushCount
<1>3. CASE \/ \E t \in Table, s \in System, d \in Day \cup {NoDate},
                n \in 0..RecordRows : AppendFails(t, s, d, n)
           \/ FlushOpenFails \/ FlushWriteFails \/ CloseFinishFails
           \/ CloseRenameFails \/ Unwind \/ Crash
  <2>1. ~Alive' /\ UNCHANGED <<total, received>>
    BY <1>3 DEF AppendFails, FlushOpenFails, FlushWriteFails, CloseFinishFails,
                CloseRenameFails, Unwind, Crash, tvars, Alive
  <2> QED  BY <2>1, QuietCount
<1>4. CASE \/ EndOfInput \/ FlushOpen \/ (\E p \in Partition : CloseVisit(p))
           \/ CloseFinish \/ CloseRename \/ CloseDone
  <2>1. /\ Alive /\ UNCHANGED <<builder, pending, total, received>>
        /\ (pc' = pc /\ cur' = cur) \/ pc # "flush"
    BY <1>4 DEF EndOfInput, FlushOpen, CloseVisit, CloseFinish, CloseRename,
                CloseDone, tvars, Alive, PC, Ended
  <2> QED  BY <2>1, QuietCount
<1>5. CASE UNCHANGED vars
  <2>1. UNCHANGED <<builder, pending, total, received, pc, cur>>
    BY <1>5 DEF vars, tvars
  <2>2. (Alive \/ ~Alive') /\ pc' = pc /\ cur' = cur
    BY <2>1 DEF Alive
  <2> QED  BY <2>1, <2>2, QuietCount
<1> QED
  BY <1>1, <1>2, <1>3, <1>4, <1>5 DEF Next, Terminated

LEMMA CountInvariance ==
  ASSUME PathsInjective
  PROVE  Spec => [](IInv /\ CountInv)
<1>1. IInv /\ IInv' /\ CountInv /\ [Next]_vars => CountInv'
  BY NextCount
<1> QED  BY <1>1, InitCount, Invariance, PTL DEF Spec

(* RecordBatch::Make gets the length of the builders as its row count, and *)
(* no partition but the one being flushed holds a full batch.              *)
THEOREM BatchesAreConsistent ==
  ASSUME PathsInjective
  PROVE  Spec => []BatchesConsistent
<1>1. CountInv => BatchesConsistent
  BY DEF CountInv, BatchesConsistent
<1> QED  BY <1>1, CountInvariance, PTL

(* No accepted row is lost or doubled while the run is alive, and total_   *)
(* counts the accepted rows.                                               *)
THEOREM RowsAreConserved ==
  ASSUME PathsInjective
  PROVE  Spec => []RowsConserved
<1>1. IInv /\ CountInv => RowsConserved
  <2> SUFFICES ASSUME IInv, CountInv, Alive PROVE RowsConserved
    BY DEF RowsConserved
  <2>1. ASSUME NEW r \in received
        PROVE  (r \in builder[r.part])
                 # (fd[r.part] # NoFile /\ r \in rows[fd[r.part]])
    <3> DEFINE p == r.part
    <3>1. p \in Partition /\ p # NoFile
      BY SentinelAssumption DEF IInv, TypeOK, Row
    <3>2. LifeInv(p) /\ RowsInv(p) /\ wstate[p] \in W!WState
      BY <3>1 DEF IInv, TypeOK, W!WTypeOK
    <3>3. r \in builder[p] \cup rows[p] /\ builder[p] \cap rows[p] = {}
      BY <3>2 DEF RowsInv
    <3>4. CASE wstate[p] = "none"
      BY <3>2, <3>3, <3>4 DEF LifeInv
    <3>5. CASE wstate[p] # "none"
      <4>1. fd[p] = p
        BY <3>2, <3>5 DEF LifeInv, W!WState
      <4> QED  BY <3>1, <3>3, <4>1
    <3> QED  BY <3>4, <3>5
  <2>2. \A t \in Table : total[t] = Cardinality({r \in received : r.part.table = t})
    BY DEF CountInv, InTable
  <2> QED  BY <2>1, <2>2 DEF RowsConserved
<1> QED  BY <1>1, CountInvariance, PTL
=============================================================================
