--------------------------- MODULE RoutingProofs ----------------------------
(***************************************************************************)
(* Which tables there are, that SinkSet closes each one, and which of them *)
(* share a name; and from that, when two partitions share a file.          *)
(***************************************************************************)
EXTENDS OutputPaths, Routing, TLAPS

(* The sanitizer leaves an id of letters and digits as it is.              *)
LEMMA PlainIdUnchanged ==
  ASSUME NEW s \in Seq(Alnum), s # << >>
  PROVE  Sanitize(s) = s
<1>1. \A i \in DOMAIN s : s[i] \in Alnum
  OBVIOUS
<1>2. s = [i \in DOMAIN s |-> s[i]]
  OBVIOUS
<1> QED  BY <1>1, <1>2 DEF Sanitize

(* When every system id consists of letters and digits and no two tables   *)
(* have one name, no two partitions share a file.                          *)
THEOREM PlainIdsKeepFilesApart ==
  ASSUME \A s \in System : s \in Seq(Alnum) /\ s # << >>,
         \A t, u \in Table : TableName[t] = TableName[u] => t = u
  PROVE  PathsInjective
<1> SUFFICES ASSUME NEW p \in Partition, NEW q \in Partition,
                    MakePath(p) = MakePath(q)
             PROVE  p = q
  BY DEF PathsInjective
<1>1. /\ TableName[p.table] = TableName[q.table]
      /\ Sanitize(p.sys) = Sanitize(q.sys) /\ p.day = q.day
  BY DEF MakePath
<1>2. p.table \in Table /\ q.table \in Table /\ p.sys \in System /\ q.sys \in System
  BY DEF Partition
<1>3. p.sys = q.sys
  BY <1>1, <1>2, PlainIdUnchanged
<1> QED  BY <1>1, <1>2, <1>3 DEF Partition

(* Otherwise they do: two ids that differ in the characters the sanitizer  *)
(* replaces have one file for each table and day.                          *)
THEOREM SanitizedAlikeShareFiles ==
  ASSUME NEW r \in System, NEW s \in System, r # s, Sanitize(r) = Sanitize(s),
         Table # {}
  PROVE  ~PathsInjective
<1>1. PICK t \in Table : TRUE
  OBVIOUS
<1> DEFINE p == [table |-> t, sys |-> r, day |-> NoDate]
           q == [table |-> t, sys |-> s, day |-> NoDate]
<1>2. p \in Partition /\ q \in Partition /\ p # q
  BY DEF Partition
<1>3. MakePath(p) = MakePath(q)
  BY DEF MakePath
<1> QED  BY <1>2, <1>3 DEF PathsInjective

-----------------------------------------------------------------------------
(* The switch of on_record, case by case.                                  *)
LEMMA RouteCases ==
  ASSUME NEW ty \in Nat, NEW s \in Nat
  PROVE  \/ Route(ty, s) = <<Raw>>
         \/ ty \in WholeTypes /\ Route(ty, s) = <<Sink(ty, 0)>>
         \/ ty \in RouterTypes /\ s \notin ParsedSubtypes(ty) /\ Route(ty, s) = <<Router(ty, s)>>
         \/ ty = 74 /\ s = 2 /\ Route(ty, s) = <<Paths, Members>>
         \/ ty = 113 /\ Route(ty, s) = <<Sink(113, 0)>>
         \/ /\ ty \in RouterTypes \ {113} /\ s \in ParsedSubtypes(ty) /\ ~(ty = 74 /\ s = 2)
            /\ Route(ty, s) = <<Sink(ty, s)>>
BY DEF Route

(* The parsed subtypes, type by type.                                      *)
LEMMA ParsedPairs ==
  ASSUME NEW ty \in RouterTypes \ {113}, NEW s \in ParsedSubtypes(ty), ~(ty = 74 /\ s = 2)
  PROVE  Sink(ty, s) \in ReportLines
<1>1. \/ ty \in {71, 73, 75, 76, 77} /\ s = 1
      \/ ty = 70 /\ s \in {1, 2}
      \/ ty \in {72, 78} /\ s = 3
      \/ ty = 74 /\ s \in {1} \cup 3..9
      \/ ty = 79 /\ s \in {1, 2, 13}
      \/ ty = 1154 /\ s \in {1, 2, 83}
  BY DEF RouterTypes, ParsedSubtypes
<1> QED  BY <1>1 DEF ReportLines

(* Every table a record can be written to belongs to a member of SinkSet   *)
(* that report() has a line for.                                           *)
LEMMA TableReported ==
  ASSUME NEW ty \in Nat, NEW s \in Nat, NEW t \in Tables(ty, s)
  PROVE  MemberOf(t) \in ReportLines
<1> DEFINE r == Route(ty, s)
<1>1. PICK i \in DOMAIN r : t = r[i]
  BY DEF Tables
<1>2. CASE r = <<Raw>>
  <2>1. MemberOf(t) = Raw
    BY <1>1, <1>2 DEF MemberOf, Raw
  <2> QED  BY <2>1 DEF ReportLines
<1>3. CASE ty \in WholeTypes /\ r = <<Sink(ty, 0)>>
  BY <1>1, <1>3 DEF MemberOf, ReportLines, Sink, WholeTypes
<1>4. CASE ty \in RouterTypes /\ s \notin ParsedSubtypes(ty) /\ r = <<Router(ty, s)>>
  <2>1. MemberOf(t) = Router(ty, 0)
    BY <1>1, <1>4 DEF MemberOf, Router
  <2>2. ty \in {70, 71, 72, 73, 74, 75, 76, 77, 78, 79, 99, 113, 1154}
    BY <1>4 DEF RouterTypes
  <2> QED  BY <2>1, <2>2 DEF ReportLines
<1>5. CASE ty = 74 /\ s = 2 /\ r = <<Paths, Members>>
  <2>1. t = Paths \/ t = Members
    BY <1>1, <1>5
  <2>2. MemberOf(t) = t
    BY <2>1 DEF MemberOf, Paths, Members, Sink
  <2> QED  BY <2>1, <2>2 DEF ReportLines
<1>6. CASE ty = 113 /\ r = <<Sink(113, 0)>>
  <2>1. MemberOf(t) = Sink(113, 0)
    BY <1>1, <1>6 DEF MemberOf, Sink
  <2> QED  BY <2>1 DEF ReportLines
<1>7. CASE /\ ty \in RouterTypes \ {113} /\ s \in ParsedSubtypes(ty) /\ ~(ty = 74 /\ s = 2)
           /\ r = <<Sink(ty, s)>>
  <2>1. MemberOf(t) = Sink(ty, s)
    BY <1>1, <1>7 DEF MemberOf, Sink
  <2> QED  BY <1>7, <2>1, ParsedPairs
<1> QED  BY <1>2, <1>3, <1>4, <1>5, <1>6, <1>7, RouteCases

(* SinkSet::close() closes each member it reports, once.  Code tells the   *)
(* members apart by a number.                                              *)
Code(m) ==
  (IF m.via = "router" THEN 1000000 ELSE 0) + 100 * m.type + m.sub
    + (IF m.of = "all" THEN 0 ELSE IF m.of = "paths" THEN 2000000 ELSE 3000000)

LEMMA CloseCodes ==
  [i \in DOMAIN CloseOrder |-> Code(CloseOrder[i])]
    = << 3000, 7001, 7002, 1007000, 7101, 1007100, 7203, 1007200, 7301, 1007300,
         7401, 2007402, 3007402, 7403, 7404, 7405, 7406, 7407, 7408, 7409, 1007400,
         7501, 1007500, 7601, 1007600, 7701, 1007700, 7803, 1007800, 7901, 7902,
         7913, 1007900, 9800, 115401, 115402, 115483, 1115400, 1009900, 11300,
         1011300, 0 >>
BY DEF CloseOrder, Code, Sink, Router, Raw, Paths, Members

LEMMA ClosedOnce ==
  \A i, j \in DOMAIN CloseOrder : CloseOrder[i] = CloseOrder[j] => i = j
<1>1. \A i, j \in DOMAIN CloseOrder :
        Code(CloseOrder[i]) = Code(CloseOrder[j]) => i = j
  BY CloseCodes
<1> QED  BY <1>1

LEMMA ReportedIsClosed ==
  ASSUME NEW m \in ReportLines
  PROVE  \E i \in DOMAIN CloseOrder : CloseOrder[i] = m
BY DEF ReportLines, CloseOrder

(* Every table a record can be written to belongs to exactly one member    *)
(* that SinkSet::close() closes.                                           *)
LEMMA TableClosedOnce ==
  ASSUME NEW ty \in Nat, NEW s \in Nat, NEW t \in Tables(ty, s)
  PROVE  \E i \in DOMAIN CloseOrder :
           {j \in DOMAIN CloseOrder : CloseOrder[j] = MemberOf(t)} = {i}
<1>1. PICK i \in DOMAIN CloseOrder : CloseOrder[i] = MemberOf(t)
  BY TableReported, ReportedIsClosed
<1>2. {j \in DOMAIN CloseOrder : CloseOrder[j] = MemberOf(t)} = {i}
  BY <1>1, ClosedOnce
<1> QED  BY <1>1, <1>2

(* What a table on_record writes to can be.                                *)
LEMMA TableKinds ==
  ASSUME NEW ty \in Nat, NEW s \in Nat, NEW t \in Tables(ty, s)
  PROVE  \/ t = Raw \/ t = Paths \/ t = Members
         \/ t = Sink(ty, 0) /\ ty \in {30, 98, 113}
         \/ t = Router(ty, s) /\ ty \in RouterTypes /\ s \notin ParsedSubtypes(ty)
         \/ /\ t = Sink(ty, s) /\ ty \in RouterTypes \ {113}
            /\ s \in ParsedSubtypes(ty) /\ ~(ty = 74 /\ s = 2)
<1>1. PICK i \in DOMAIN Route(ty, s) : t = Route(ty, s)[i]
  BY DEF Tables
<1> QED  BY <1>1, RouteCases DEF WholeTypes

(* A parsed subtype is not 0.                                              *)
LEMMA ParsedAreNumbered ==
  ASSUME NEW ty \in Nat, NEW s \in ParsedSubtypes(ty)
  PROVE  s # 0
BY DEF ParsedSubtypes

(* The names of the tables, kind by kind.                                  *)
LEMMA NamesOfKinds ==
  ASSUME NEW ty \in Nat, NEW s \in Nat
  PROVE  /\ NameOf(Raw) = <<"RAW">>
         /\ NameOf(Paths) = <<"SMF", 74, 2, "P">>
         /\ NameOf(Members) = <<"SMF", 74, 2, "M">>
         /\ NameOf(Sink(ty, 0)) = <<"SMF", ty>>
         /\ NameOf(Router(ty, 0)) = <<"SMF", ty>>
         /\ s # 0 => NameOf(Router(ty, s)) = <<"SMF", ty, s>>
         /\ s # 0 => NameOf(Sink(ty, s)) = <<"SMF", ty, s>>
BY DEF NameOf, Raw, Paths, Members, Sink, Router

(* Two tables on_record writes to have one name only when both belong to   *)
(* type 113: its sink, and its router for subtype 0.                       *)
LEMMA OneNameMeans113 ==
  ASSUME NEW ty \in Nat, NEW s \in Nat, NEW t \in Tables(ty, s),
         NEW tz \in Nat, NEW z \in Nat, NEW u \in Tables(tz, z),
         NameOf(t) = NameOf(u), t # u
  PROVE  {t, u} = {Sink(113, 0), Router(113, 0)}
<1> DEFINE Plain(v, a) == v = Sink(a, 0) /\ a \in {30, 98, 113}
           Routed(v, a, b) == v = Router(a, b) /\ a \in RouterTypes /\ b \notin ParsedSubtypes(a)
           Parsed(v, a, b) == v = Sink(a, b) /\ a \in RouterTypes \ {113}
                                /\ b \in ParsedSubtypes(a) /\ b # 0
<1>1. t \in {Raw, Paths, Members} \/ Plain(t, ty) \/ Routed(t, ty, s) \/ Parsed(t, ty, s)
  BY TableKinds, ParsedAreNumbered
<1>2. u \in {Raw, Paths, Members} \/ Plain(u, tz) \/ Routed(u, tz, z) \/ Parsed(u, tz, z)
  BY TableKinds, ParsedAreNumbered
<1>3. ASSUME NEW v, NEW a \in Nat, NEW b \in Nat
      PROVE  /\ Plain(v, a) => NameOf(v) = <<"SMF", a>>
             /\ Routed(v, a, b) => NameOf(v) = IF b = 0 THEN <<"SMF", a>> ELSE <<"SMF", a, b>>
             /\ Parsed(v, a, b) => NameOf(v) = <<"SMF", a, b>>
  BY NamesOfKinds
<1>4. /\ NameOf(Raw) = <<"RAW">> /\ NameOf(Paths) = <<"SMF", 74, 2, "P">>
      /\ NameOf(Members) = <<"SMF", 74, 2, "M">>
  BY NamesOfKinds
<1>5. /\ \A a, b : <<"SMF", a>> = <<"SMF", b>> => a = b
      /\ \A a, b, c : <<"SMF", a>> # <<"SMF", b, c>> /\ <<"SMF", b, c>> # <<"SMF", a>>
      /\ \A a, b, c, d : <<"SMF", a, b>> = <<"SMF", c, d>> => a = c /\ b = d
      /\ \A a, b : /\ <<"SMF", a>> # <<"RAW">> /\ <<"SMF", a, b>> # <<"RAW">>
                   /\ \A c : /\ <<"SMF", a>> # <<"SMF", 74, 2, c>>
                             /\ <<"SMF", a, b>> # <<"SMF", 74, 2, c>>
                             /\ <<"RAW">> # <<"SMF", 74, 2, c>>
      /\ <<"SMF", 74, 2, "P">> # <<"SMF", 74, 2, "M">>
  OBVIOUS
<1>6. CASE Plain(t, ty) /\ Routed(u, tz, z)
  <2>1. ty = tz /\ z = 0
    BY <1>3, <1>5, <1>6
  <2>2. ty = 113
    BY <1>6, <2>1 DEF RouterTypes
  <2> QED  BY <1>6, <2>1, <2>2
<1>7. CASE Routed(t, ty, s) /\ Plain(u, tz)
  <2>1. ty = tz /\ s = 0
    BY <1>3, <1>5, <1>7
  <2>2. ty = 113
    BY <1>7, <2>1 DEF RouterTypes
  <2> QED  BY <1>7, <2>1, <2>2
<1>8. CASE t \in {Raw, Paths, Members}
  BY <1>2, <1>3, <1>4, <1>5, <1>8
<1>9. CASE u \in {Raw, Paths, Members}
  BY <1>1, <1>3, <1>4, <1>5, <1>9
<1>10. CASE Plain(t, ty) /\ Plain(u, tz)
  BY <1>3, <1>5, <1>10
<1>11. CASE (Plain(t, ty) /\ Parsed(u, tz, z)) \/ (Parsed(t, ty, s) /\ Plain(u, tz))
  BY <1>3, <1>5, <1>11
<1>12. CASE Routed(t, ty, s) /\ Routed(u, tz, z)
  BY <1>3, <1>5, <1>12
<1>13. CASE \/ Routed(t, ty, s) /\ Parsed(u, tz, z)
            \/ Parsed(t, ty, s) /\ Routed(u, tz, z)
  BY <1>3, <1>5, <1>13
<1>14. CASE Parsed(t, ty, s) /\ Parsed(u, tz, z)
  BY <1>3, <1>5, <1>14
<1> HIDE DEF Plain, Routed, Parsed
<1> QED
  BY <1>1, <1>2, <1>6, <1>7, <1>8, <1>9, <1>10, <1>11, <1>12, <1>13, <1>14

(* The output files of a run of the program are kept apart when the system *)
(* ids consist of letters and digits and the input has no records of type  *)
(* 113 with subtypes both with and without a parser.  This is the          *)
(* condition under which the theorems about a run hold.                    *)
THEOREM ProgramKeepsFilesApart ==
  ASSUME \A s \in System : s \in Seq(Alnum) /\ s # << >>,
         \A t \in Table : /\ TableName[t] = NameOf(t)
                          /\ \E ty, s \in Nat : t \in Tables(ty, s),
         ~({Sink(113, 0), Router(113, 0)} \subseteq Table)
  PROVE  PathsInjective
<1>1. \A t, u \in Table : TableName[t] = TableName[u] => t = u
  <2> SUFFICES ASSUME NEW t \in Table, NEW u \in Table, NameOf(t) = NameOf(u), t # u
               PROVE  FALSE
    OBVIOUS
  <2>1. PICK ty \in Nat, s \in Nat : t \in Tables(ty, s)
    OBVIOUS
  <2>2. PICK tz \in Nat, z \in Nat : u \in Tables(tz, z)
    OBVIOUS
  <2>3. {t, u} = {Sink(113, 0), Router(113, 0)}
    BY <2>1, <2>2, OneNameMeans113, Zenon
  <2> QED  BY <2>3
<1> QED  BY <1>1, PlainIdsKeepFilesApart

(* With records of both kinds they are not: the rows of the sink of type   *)
(* 113 and those of its router for subtype 0 have one file for each system *)
(* and day.                                                                *)
THEOREM CountersShareFiles ==
  ASSUME \A t \in Table : TableName[t] = NameOf(t),
         {Sink(113, 0), Router(113, 0)} \subseteq Table,
         System # {}
  PROVE  ~PathsInjective
<1>1. PICK s \in System : TRUE
  OBVIOUS
<1> DEFINE p == [table |-> Sink(113, 0), sys |-> s, day |-> NoDate]
           q == [table |-> Router(113, 0), sys |-> s, day |-> NoDate]
<1>2. Sink(113, 0) # Router(113, 0)
  BY DEF Sink, Router
<1>3. NameOf(Sink(113, 0)) = NameOf(Router(113, 0))
  BY NamesOfKinds
<1>4. p \in Partition /\ q \in Partition /\ p # q
  BY <1>2 DEF Partition
<1>5. MakePath(p) = MakePath(q)
  BY <1>3 DEF MakePath
<1> QED  BY <1>4, <1>5 DEF PathsInjective
=============================================================================
