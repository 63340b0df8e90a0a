--------------------------- MODULE RecordsProofs ----------------------------
(***************************************************************************)
(* The front of a record of any type, subtype and size: what is read, from *)
(* where, and when reading aborts.  And the routing of any type and        *)
(* subtype.                                                                *)
(***************************************************************************)
EXTENDS Records, MCRouting, RoutingProofs, FiniteSetTheorems

-----------------------------------------------------------------------------
(* Routing.                                                                *)

(* SinkSet::close() closes the table of every record, and closes it once,  *)
(* for every type and every subtype.                                       *)
THEOREM EveryTableIsClosed ==
  ASSUME RecordType \subseteq Nat, Subtype \subseteq Nat
  PROVE  RoutingInit => RoutedIsClosed
<1> SUFFICES ASSUME RoutingInit, NEW t \in Tables(type, sub)
             PROVE  Cardinality({i \in DOMAIN CloseOrder : CloseOrder[i] = MemberOf(t)}) = 1
  BY DEF RoutedIsClosed
<1>1. type \in Nat /\ sub \in Nat
  BY DEF RoutingInit
<1>2. PICK i \in DOMAIN CloseOrder :
        {j \in DOMAIN CloseOrder : CloseOrder[j] = MemberOf(t)} = {i}
  BY <1>1, TableClosedOnce
<1> QED  BY <1>2, FS_Singleton

(* report() prints the rows of the table of every record.                  *)
THEOREM EveryTableIsReported ==
  ASSUME RecordType \subseteq Nat, Subtype \subseteq Nat
  PROVE  RoutingInit => RoutedIsReported
BY TableReported DEF RoutingInit, RoutedIsReported

(* No two tables have one name but the two of type 113, whatever types and *)
(* subtypes the input has.                                                 *)
THEOREM TableNamesDiffer ==
  ASSUME RecordType \subseteq Nat, Subtype \subseteq Nat
  PROVE  RoutingInit => NamesDistinguish
<1> SUFFICES ASSUME RoutingInit, NEW ty \in RecordType, NEW s \in Subtype,
                    NEW t \in Tables(type, sub), NEW u \in Tables(ty, s),
                    NameOf(t) = NameOf(u), t # u
             PROVE  t.type = 113 /\ u.type = 113
  BY DEF NamesDistinguish
<1>1. {t, u} = {Sink(113, 0), Router(113, 0)}
  BY OneNameMeans113 DEF RoutingInit
<1> QED  BY <1>1 DEF Sink, Router

-----------------------------------------------------------------------------
(* The triplets of the parsers.                                            *)

(* A list of triplets that lie between two offsets, one behind the other.  *)
Triplet == [at : Nat, size : {2, 8, 12}, asked : BOOLEAN]

Laid(T, from, to) ==
  /\ T \in Seq(Triplet)
  /\ \A i \in DOMAIN T : from <= T[i].at /\ T[i].at + T[i].size <= to
  /\ \A i, j \in DOMAIN T : i < j => T[i].at + T[i].size <= T[j].at

AllAsked(T) == \A i \in DOMAIN T : T[i].asked

LEMMA LongLaid ==
  ASSUME NEW from \in Nat, NEW n \in Nat
  PROVE  Laid(Long(from, n), from, from + 12 * n)
<1>1. ASSUME NEW i \in 1..n
      PROVE  /\ Long(from, n)[i] = [at |-> from + 12 * (i - 1), size |-> 12, asked |-> FALSE]
             /\ Long(from, n)[i] \in Triplet
  BY DEF Long, Triplet
<1>2. Long(from, n) \in Seq(Triplet) /\ DOMAIN Long(from, n) = 1..n
  <2>1. Long(from, n) \in [1..n -> Triplet]
    BY <1>1 DEF Long
  <2> QED  BY <2>1
<1> QED  BY <1>1, <1>2 DEF Laid

LEMMA ShortLaid ==
  ASSUME NEW from \in Nat, NEW n \in Nat
  PROVE  Laid(Short(from, n), from, from + 8 * n) /\ AllAsked(Short(from, n))
<1>1. ASSUME NEW i \in 1..n
      PROVE  /\ Short(from, n)[i] = [at |-> from + 8 * (i - 1), size |-> 8, asked |-> TRUE]
             /\ Short(from, n)[i] \in Triplet
  BY DEF Short, Triplet
<1>2. Short(from, n) \in Seq(Triplet) /\ DOMAIN Short(from, n) = 1..n
  <2>1. Short(from, n) \in [1..n -> Triplet]
    BY <1>1 DEF Short
  <2> QED  BY <2>1
<1> QED  BY <1>1, <1>2 DEF Laid, AllAsked

LEMMA LaidTogether ==
  ASSUME NEW a \in Nat, NEW b \in Nat, NEW c \in Nat, NEW d \in Nat,
         a <= b, b <= c, c <= d,
         NEW S, NEW T, Laid(S, a, b), Laid(T, c, d)
  PROVE  /\ Laid(S \o T, a, d)
         /\ AllAsked(S) /\ AllAsked(T) => AllAsked(S \o T)
<1> DEFINE U == S \o T
<1>1. S \in Seq(Triplet) /\ T \in Seq(Triplet)
  BY DEF Laid
<1>2. U \in Seq(Triplet) /\ DOMAIN U = 1..(Len(S) + Len(T))
  BY <1>1
<1>3. \A i \in DOMAIN U : \/ i \in DOMAIN S /\ U[i] = S[i]
                          \/ i > Len(S) /\ i - Len(S) \in DOMAIN T /\ U[i] = T[i - Len(S)]
  BY <1>1, <1>2
<1>4. \A i \in DOMAIN U : U[i] \in Triplet
  BY <1>1, <1>3
<1>5. \A i \in DOMAIN S : a <= S[i].at /\ S[i].at + S[i].size <= b /\ S[i] \in Triplet
  BY <1>1 DEF Laid
<1>6. \A i \in DOMAIN T : c <= T[i].at /\ T[i].at + T[i].size <= d /\ T[i] \in Triplet
  BY <1>1 DEF Laid
<1>7. \A i \in DOMAIN U : a <= U[i].at /\ U[i].at + U[i].size <= d
  <2>1. \A x \in Triplet : x.at \in Nat /\ x.size \in Nat
    BY DEF Triplet
  <2>2. \A i \in DOMAIN S : a <= S[i].at /\ S[i].at + S[i].size <= d
    BY <1>5, <2>1
  <2>3. \A i \in DOMAIN T : a <= T[i].at /\ T[i].at + T[i].size <= d
    BY <1>6, <2>1
  <2> QED  BY <1>3, <2>2, <2>3
<1>8. ASSUME NEW i \in DOMAIN U, NEW j \in DOMAIN U, i < j
      PROVE  U[i].at + U[i].size <= U[j].at
  <2> HIDE DEF U
  <2>1. CASE i \in DOMAIN S /\ U[i] = S[i] /\ j \in DOMAIN S /\ U[j] = S[j]
    BY <1>8, <2>1 DEF Laid
  <2>2. CASE /\ i - Len(S) \in DOMAIN T /\ U[i] = T[i - Len(S)]
             /\ j - Len(S) \in DOMAIN T /\ U[j] = T[j - Len(S)]
    <3>1. i - Len(S) < j - Len(S)
      BY <1>1, <1>2, <1>8
    <3> QED  BY <2>2, <3>1 DEF Laid
  <2>3. CASE i \in DOMAIN S /\ U[i] = S[i] /\ j - Len(S) \in DOMAIN T /\ U[j] = T[j - Len(S)]
    <3>1. U[i] \in Triplet /\ U[i].at + U[i].size <= b
      BY <1>5, <2>3
    <3>2. U[j] \in Triplet /\ c <= U[j].at
      BY <1>6, <2>3
    <3>3. \A x \in Triplet : x.at \in Nat /\ x.size \in Nat
      BY DEF Triplet
    <3>4. /\ U[i].at \in Nat /\ U[i].size \in Nat /\ U[j].at \in Nat
      BY <3>1, <3>2, <3>3
    <3> QED  BY <3>1, <3>2, <3>4
  <2>4. CASE j \in DOMAIN S /\ i > Len(S)
    BY <1>1, <1>2, <1>8, <2>4
  <2> QED  BY <1>3, <2>1, <2>2, <2>3, <2>4
<1>9. Laid(U, a, d)
  BY <1>2, <1>7, <1>8 DEF Laid
<1>10. ASSUME AllAsked(S), AllAsked(T)  PROVE AllAsked(U)
  <2> HIDE DEF U
  <2> QED  BY <1>3, <1>10, Zenon DEF AllAsked
<1> QED  BY <1>9, <1>10

LEMMA Uint16Nat == \A s \in Uint16 : s \in Nat
BY SMTT(30) DEF Uint16

(* The parser of a record: by its type or, for 70 and 74, its subtype.     *)
Parsing(ty, s) == Route(ty, s)[1].via = "sink" \/ ty = 1154

LEMMA ParserKinds ==
  ASSUME NEW ty \in Nat, NEW s \in Nat, Parsing(ty, s)
  PROVE  /\ Route(ty, s)[1].type = ty /\ Route(ty, s)[1].sub \in Nat
         /\ \/ ty \in {30, 98, 113, 1154}
            \/ ty \in {71, 73, 75, 76, 77} /\ s = 1
            \/ ty = 70 /\ s \in {1, 2} /\ Route(ty, s)[1].sub = s
            \/ ty \in {72, 78} /\ s = 3
            \/ ty = 74 /\ s \in 1..9 /\ Route(ty, s)[1].sub = s
            \/ ty = 79 /\ s \in {1, 2, 13}
<1>1. CASE Route(ty, s) = <<Raw>>
  <2>1. ty # 1154
    BY <1>1, RouteCases DEF Route, Raw, Router, Sink, RouterTypes, WholeTypes
  <2> QED  BY <1>1, <2>1 DEF Parsing, Raw
<1>2. CASE ty \in WholeTypes /\ Route(ty, s) = <<Sink(ty, 0)>>
  BY <1>2 DEF WholeTypes, Sink
<1>3. CASE ty \in RouterTypes /\ s \notin ParsedSubtypes(ty) /\ Route(ty, s) = <<Router(ty, s)>>
  BY <1>3 DEF Parsing, Router
<1>4. CASE ty = 74 /\ s = 2 /\ Route(ty, s) = <<Paths, Members>>
  BY <1>4 DEF Paths, Sink
<1>5. CASE ty = 113 /\ Route(ty, s) = <<Sink(113, 0)>>
  BY <1>5 DEF Sink
<1>6. CASE /\ ty \in RouterTypes \ {113} /\ s \in ParsedSubtypes(ty) /\ ~(ty = 74 /\ s = 2)
           /\ Route(ty, s) = <<Sink(ty, s)>>
  <2>1. Route(ty, s)[1].type = ty /\ Route(ty, s)[1].sub = s
    BY <1>6 DEF Sink
  <2>2. \/ ty \in {71, 73, 75, 76, 77} /\ s = 1
        \/ ty = 70 /\ s \in {1, 2}
        \/ ty \in {72, 78} /\ s = 3
        \/ ty = 74 /\ s \in 1..9
        \/ ty = 79 /\ s \in {1, 2, 13}
        \/ ty = 1154
    BY <1>6 DEF RouterTypes, ParsedSubtypes
  <2> QED  BY <2>1, <2>2
<1> QED  BY <1>1, <1>2, <1>3, <1>4, <1>5, <1>6, RouteCases

(* A subtype that leads to a parser is one the parser accepts.             *)
LEMMA ParserAccepts ==
  ASSUME NEW ty \in Nat \ WholeTypes, NEW s \in Uint16, Parsing(ty, s)
  PROVE  s \in Accepted(Route(ty, s)[1])
<1>1. ty \notin {30, 98} /\ s \in Nat
  BY Uint16Nat DEF WholeTypes
<1>2. PICK t : t = Route(ty, s)[1]
  OBVIOUS
<1>3. /\ t.type = ty
      /\ \/ ty \in {113, 1154}
         \/ ty \in {71, 73, 75, 76, 77} /\ s = 1
         \/ ty = 70 /\ s \in {1, 2} /\ t.sub = s
         \/ ty \in {72, 78} /\ s = 3
         \/ ty = 74 /\ s \in 1..9 /\ t.sub = s
         \/ ty = 79 /\ s \in {1, 2, 13}
  BY <1>1, <1>2, ParserKinds
<1>4. t.type \in {71, 73, 75, 76, 77, 98} => s = 1
  BY <1>1, <1>3
<1>5. t.type \in {72, 78} => s = 3
  BY <1>3
<1>6. t.type \in {70, 74} => s = t.sub
  BY <1>3
<1> QED  BY <1>2, <1>4, <1>5, <1>6 DEF Accepted

(* The triplets of the parsers that serve one list whatever the subtype.   *)
LEMMA TripletsOf ==
  ASSUME NEW t, NEW ty \in Nat, NEW s \in Nat, t.type = ty, t.sub = s, NEW at
  PROVE  /\ ty = 30 => Triplets(t, at) = Long(at, 5)
         /\ ty = 71 => Triplets(t, at) = Short(24, 2)
         /\ ty = 113 => Triplets(t, at) = Short(26, 3)
         /\ ty = 98 => Triplets(t, at) = <<[at |-> 28, size |-> 2, asked |-> TRUE]>> \o Short(32, 12)
         /\ ty = 1154 => Triplets(t, at) = Long(32, 2)
<1>1. ty = 30 => Triplets(t, at) = Long(at, 5)
  BY DEF Triplets
<1>2. ty = 71 => Triplets(t, at) = Short(24, 2)
  BY DEF Triplets
<1>3. ty = 113 => Triplets(t, at) = Short(26, 3)
  BY DEF Triplets
<1>4. ty = 98 => Triplets(t, at) = <<[at |-> 28, size |-> 2, asked |-> TRUE]>> \o Short(32, 12)
  BY DEF Triplets
<1>5. ty = 1154 => Triplets(t, at) = Long(32, 2)
  BY DEF Triplets
<1> QED  BY <1>1, <1>2, <1>3, <1>4, <1>5

LEMMA TripletsOfRmf ==
  ASSUME NEW t, NEW ty \in Nat, NEW s \in Nat, t.type = ty, t.sub = s, NEW at
  PROVE  /\ ty = 72 => Triplets(t, at) = Long(26, 2) \o Long(74, 1)
         /\ ty = 78 => Triplets(t, at) = Long(28, 3)
         /\ ty = 75 => Triplets(t, at) = Long(26, 2)
         /\ ty \in {73, 76, 77, 79} => Triplets(t, at) = Long(26, 3)
         /\ ty = 70 /\ s = 2 => Triplets(t, at) = Long(26, 2)
         /\ ty = 70 /\ s = 1 => Triplets(t, at) = Long(26, 3)
<1>1. ty = 72 => Triplets(t, at) = Long(26, 2) \o Long(74, 1)
  BY DEF Triplets
<1>2. ty = 78 => Triplets(t, at) = Long(28, 3)
  BY DEF Triplets
<1>3. ty = 75 => Triplets(t, at) = Long(26, 2)
  BY DEF Triplets
<1>4. ty \in {73, 76, 77, 79} => Triplets(t, at) = Long(26, 3)
  BY DEF Triplets
<1>5. ty = 70 /\ s = 2 => Triplets(t, at) = Long(26, 2)
  BY DEF Triplets
<1>6. ty = 70 /\ s = 1 => Triplets(t, at) = Long(26, 3)
  BY DEF Triplets
<1> QED  BY <1>1, <1>2, <1>3, <1>4, <1>5, <1>6

LEMMA TripletsOf74 ==
  ASSUME NEW t, NEW ty \in Nat, NEW s \in Nat, t.type = ty, t.sub = s, NEW at
  PROVE  /\ ty = 74 /\ s \in {1, 5} => Triplets(t, at) = Long(26, 3)
         /\ ty = 74 /\ s = 2 => Triplets(t, at) = Long(26, 5)
         /\ ty = 74 /\ s \in {3, 6, 9} => Triplets(t, at) = Long(26, 2)
         /\ ty = 74 /\ s = 4 => Triplets(t, at) = Long(26, 2) \o Long(74, 1)
         /\ ty = 74 /\ s = 7 => Triplets(t, at) = Long(28, 1) \o Long(64, 1)
         /\ ty = 74 /\ s = 8 => Triplets(t, at) = Long(26, 1) \o Long(62, 1)
<1>1. ty = 74 /\ s \in {1, 5} => Triplets(t, at) = Long(26, 3)
  BY DEF Triplets
<1>2. ty = 74 /\ s = 2 => Triplets(t, at) = Long(26, 5)
  BY DEF Triplets
<1>3. ty = 74 /\ s \in {3, 6, 9} => Triplets(t, at) = Long(26, 2)
  BY DEF Triplets
<1>4. ty = 74 /\ s = 4 => Triplets(t, at) = Long(26, 2) \o Long(74, 1)
  BY DEF Triplets
<1>5. ty = 74 /\ s = 7 => Triplets(t, at) = Long(28, 1) \o Long(64, 1)
  BY DEF Triplets
<1>6. ty = 74 /\ s = 8 => Triplets(t, at) = Long(26, 1) \o Long(62, 1)
  BY DEF Triplets
<1> QED  BY <1>1, <1>2, <1>3, <1>4, <1>5, <1>6

(* Where the triplets of a parser start: behind what is read before.       *)
Floor(ty, at) == IF ty = 30 THEN at ELSE IF ty = 1154 THEN 32 ELSE 24

(* The triplets of a parser lie behind the subtype, one behind the other.  *)
(* Those that are not asked for end within 86 bytes.                       *)
LayOut(T, from) == \E to \in Nat : Laid(T, from, to) /\ (to <= 86 \/ AllAsked(T))

LEMMA LaidOut ==
  ASSUME NEW T, NEW from \in Nat, NEW a \in Nat, NEW to \in Nat,
         from <= a, Laid(T, a, to), to <= 86 \/ AllAsked(T)
  PROVE  LayOut(T, from)
<1>1. \A i \in DOMAIN T : T[i] \in Triplet
  BY DEF Laid
<1>2. \A i \in DOMAIN T : T[i].at \in Nat
  BY <1>1 DEF Triplet
<1>3. Laid(T, from, to)
  BY <1>2 DEF Laid
<1> QED  BY <1>3 DEF LayOut

LEMMA LongLaidOut ==
  /\ \A from \in Nat, n \in Nat : from + 12 * n <= 86 => LayOut(Long(from, n), from)
  /\ \A from \in Nat, n \in Nat : LayOut(Short(from, n), from)
  /\ \A from \in Nat, a \in Nat, n \in Nat, m \in Nat :
       from + 12 * n <= a /\ a + 12 * m <= 86 => LayOut(Long(from, n) \o Long(a, m), from)
<1>1. ASSUME NEW from \in Nat, NEW n \in Nat
      PROVE  /\ from + 12 * n <= 86 => LayOut(Long(from, n), from)
             /\ LayOut(Short(from, n), from)
  BY LongLaid, ShortLaid, LaidOut
<1>2. ASSUME NEW from \in Nat, NEW a \in Nat, NEW n \in Nat, NEW m \in Nat,
             from + 12 * n <= a, a + 12 * m <= 86
      PROVE  LayOut(Long(from, n) \o Long(a, m), from)
  <2>1. Laid(Long(from, n), from, from + 12 * n) /\ Laid(Long(a, m), a, a + 12 * m)
    BY LongLaid
  <2>2. Laid(Long(from, n) \o Long(a, m), from, a + 12 * m)
    BY <1>2, <2>1, LaidTogether
  <2> QED  BY <1>2, <2>2, LaidOut
<1> QED  BY <1>1, <1>2

(* The triplets of a parser lie behind the subtype, one behind the other.  *)
LEMMA TripletsLaid ==
  ASSUME NEW ty \in Nat, NEW s \in Nat, Parsing(ty, s), NEW at \in {20, 22, 24}
  PROVE  LayOut(Triplets(Route(ty, s)[1], at), Floor(ty, at))
<1>1. ASSUME NEW t, t.type = ty, NEW b \in Nat, t.sub = b,
             \/ ty \in {30, 98, 113, 1154}
             \/ ty \in {71, 73, 75, 76, 77}
             \/ ty = 70 /\ b \in {1, 2}
             \/ ty \in {72, 78}
             \/ ty = 74 /\ b \in 1..9
             \/ ty = 79
      PROVE  LayOut(Triplets(t, at), Floor(ty, at))
  <2> DEFINE T == Triplets(t, at)
  <2>00. t.type = ty /\ t.sub = b /\ ty \in Nat /\ b \in Nat
    BY <1>1
  <2>0. /\ ty = 30 => Floor(ty, at) = at
        /\ ty = 1154 => Floor(ty, at) = 32
        /\ ty \notin {30, 1154} => Floor(ty, at) = 24
        /\ Floor(ty, at) \in Nat
    BY DEF Floor
  <2>1. ASSUME NEW from \in Nat, Floor(ty, at) <= from, LayOut(T, from)
        PROVE  LayOut(T, Floor(ty, at))
    BY <2>0, <2>1, LaidOut DEF LayOut
  <2> HIDE DEF T
  <2>2. CASE ty = 30
    <3>1. T = Long(at, 5)
      BY <2>00, <2>2, TripletsOf DEF T
    <3> QED  BY <2>0, <2>2, <3>1, LongLaidOut DEF T
  <2>3. CASE ty = 1154
    <3>1. T = Long(32, 2)
      BY <2>00, <2>3, TripletsOf DEF T
    <3> QED  BY <2>0, <2>3, <3>1, LongLaidOut DEF T
  <2>4. CASE ty = 98
    <3> DEFINE First == <<[at |-> 28, size |-> 2, asked |-> TRUE]>>
    <3>1. T = First \o Short(32, 12)
      BY <2>00, <2>4, TripletsOf DEF T
    <3>2. Laid(First, 28, 30) /\ AllAsked(First)
      BY DEF Laid, AllAsked, Triplet
    <3> HIDE DEF First
    <3>3. Laid(Short(32, 12), 32, 128) /\ AllAsked(Short(32, 12))
      <4>1. Laid(Short(32, 12), 32, 32 + 8 * 12) /\ AllAsked(Short(32, 12))
        BY ONLY ShortLaid
      <4>2. 32 + 8 * 12 = 128
        OBVIOUS
      <4> QED  BY <4>1, <4>2
    <3>4. Laid(T, 28, 128) /\ AllAsked(T)
      BY <3>1, <3>2, <3>3, LaidTogether
    <3> QED  BY <2>0, <2>4, <3>4, LaidOut DEF T
  <2>5. CASE ty \in {71, 113}
    <3>1. T = Short(24, 2) \/ T = Short(26, 3)
      BY <2>00, <2>5, TripletsOf DEF T
    <3>2. LayOut(T, 24) \/ LayOut(T, 26)
      BY <3>1, LongLaidOut
    <3> QED  BY <2>0, <2>1, <2>5, <3>2 DEF T
  <2>6. CASE ty \in {70, 72, 73, 74, 75, 76, 77, 78, 79}
    <3>1. /\ ty \in {70, 75} => T = Long(26, 2) \/ T = Long(26, 3)
          /\ ty = 72 => T = Long(26, 2) \o Long(74, 1)
          /\ ty \in {73, 76, 77, 79} => T = Long(26, 3)
          /\ ty = 78 => T = Long(28, 3)
      <4>0. ty = 70 => b = 1 \/ b = 2
        BY <1>1
      <4>1. ty \in {70, 75} => T = Long(26, 2) \/ T = Long(26, 3)
        BY <2>00, <4>0, TripletsOfRmf DEF T
      <4>2. ty = 72 => T = Long(26, 2) \o Long(74, 1)
        BY <2>00, TripletsOfRmf DEF T
      <4>3. ty \in {73, 76, 77, 79} => T = Long(26, 3)
        BY <2>00, TripletsOfRmf DEF T
      <4>4. ty = 78 => T = Long(28, 3)
        BY <2>00, TripletsOfRmf DEF T
      <4> QED  BY <4>1, <4>2, <4>3, <4>4
    <3>2. ASSUME ty = 74
          PROVE  \/ T = Long(26, 2) \o Long(74, 1)
                 \/ T = Long(26, 5)
                 \/ T = Long(28, 1) \o Long(64, 1)
                 \/ T = Long(26, 1) \o Long(62, 1)
                 \/ T = Long(26, 2)
                 \/ T = Long(26, 3)
      <4>1. b \in {1, 5} \/ b \in {3, 6, 9} \/ b = 2 \/ b = 4 \/ b = 7 \/ b = 8
        BY <1>1, <3>2
      <4>2. b \in {1, 5} => T = Long(26, 3)
        BY <2>00, <3>2, TripletsOf74 DEF T
      <4>3. b \in {3, 6, 9} => T = Long(26, 2)
        BY <2>00, <3>2, TripletsOf74 DEF T
      <4>4. b = 2 => T = Long(26, 5)
        BY <2>00, <3>2, TripletsOf74 DEF T
      <4>5. b = 4 => T = Long(26, 2) \o Long(74, 1)
        BY <2>00, <3>2, TripletsOf74 DEF T
      <4>6. b = 7 => T = Long(28, 1) \o Long(64, 1)
        BY <2>00, <3>2, TripletsOf74 DEF T
      <4>7. b = 8 => T = Long(26, 1) \o Long(62, 1)
        BY <2>00, <3>2, TripletsOf74 DEF T
      <4> QED  BY <4>1, <4>2, <4>3, <4>4, <4>5, <4>6, <4>7
    <3>3. /\ LayOut(Long(26, 2), 26) /\ LayOut(Long(26, 3), 26) /\ LayOut(Long(26, 5), 26)
          /\ LayOut(Long(28, 3), 28)
      BY LongLaidOut
    <3>4. /\ LayOut(Long(26, 2) \o Long(74, 1), 26)
          /\ LayOut(Long(28, 1) \o Long(64, 1), 28)
          /\ LayOut(Long(26, 1) \o Long(62, 1), 26)
      BY LongLaidOut
    <3>5. LayOut(T, 26) \/ LayOut(T, 28)
      <4>1. CASE ty = 74
        BY <3>2, <3>3, <3>4, <4>1
      <4>2. CASE ty = 72
        BY <3>1, <3>4, <4>2
      <4>3. CASE ty = 78
        BY <3>1, <3>3, <4>3
      <4>4. CASE ty \in {70, 75}
        BY <3>1, <3>3, <4>4
      <4>5. CASE ty \in {73, 76, 77, 79}
        BY <3>1, <3>3, <4>5
      <4> QED  BY <2>6, <4>1, <4>2, <4>3, <4>4, <4>5
    <3> QED  BY <2>0, <2>1, <2>6, <3>5 DEF T
  <2> QED  BY <1>1, <2>2, <2>3, <2>4, <2>5, <2>6
<1> QED  BY <1>1, ParserKinds

-----------------------------------------------------------------------------
(* The front of a record.                                                  *)

(* What the dispatcher and the parser have seen of the record.             *)
SeenSubtype == IF Fits(SubtypeAt, 2) THEN record.sub ELSE 0
SeenTriplets == Triplets(Target, cursor)
ParserCursor == IF Fits(SubtypeAt, 2) THEN SubtypeAt + 2 ELSE SubtypeAt

SubtypeField == Field("subtype", SubtypeAt, 2)
TripletField(i) == Field(<<"triplet", i>>, SeenTriplets[i].at, SeenTriplets[i].size)

RecordsTypeOK ==
  /\ record \in Framed
  /\ stage \in {"framed", "skipped", "header", "dispatch", "again", "subtype", "triplets",
                "refused", "specific", "outside", "aborted", "done"}
  /\ cursor \in {0, SubtypeAt, ParserCursor}
  /\ routed \in Uint16
  /\ next \in Nat \ {0}

(* How far the record has been read in each stage.                         *)
StageInv ==
  /\ stage \in {"framed", "skipped", "header"} => read = {} /\ next = 1
  /\ stage = "header" => Fits(0, 20)
  /\ stage \in {"dispatch", "again", "subtype"} => cursor = SubtypeAt /\ next = 1
  /\ stage \in {"dispatch", "again", "subtype", "triplets"} =>
       Header \subseteq read /\ Fits(0, HeaderSize)
  /\ stage \in {"again", "subtype", "triplets"} =>
       routed = SeenSubtype /\ HasParser(routed)
  /\ stage = "triplets" => cursor = ParserCursor
  /\ stage = "specific" => record.type = 1154

(* The bytes read lie in the record.  They are those of the header, of the *)
(* subtype and of the triplets so far.                                     *)
ReadInv ==
  /\ \A f \in read : f.at + f.size <= record.size
  /\ read \subseteq Header \cup {SubtypeField} \cup {TripletField(i) : i \in 1..(next - 1)}
  /\ next > 1 => /\ HasParser(routed) /\ cursor = ParserCursor
                 /\ next <= Len(SeenTriplets) + 1

RecordsInv ==
  /\ RecordsTypeOK /\ StageInv /\ ReadInv
  /\ ParserAgrees /\ AbortsExplained /\ OutsideOnlyByWrap

LEMMA FrontTyped ==
  ASSUME RecordsTypeOK
  PROVE  /\ record.size \in Nat /\ record.type \in Nat /\ record.sub \in Uint16
         /\ record.extended \in BOOLEAN
         /\ ~record.extended => record.type <= 255
         /\ record.spec.offset \in 0..MaxU32 /\ record.spec.len \in 0..MaxU32
         /\ record.spec.count \in 0..MaxU32
<1>1. record \in FramedRecord
  BY FramedAssumption DEF RecordsTypeOK
<1>2. ~record.extended => record.type <= 255
  BY FramedAssumption DEF RecordsTypeOK
<1>3. record.spec \in [offset : 0..MaxU32, len : 0..MaxU32, count : 0..MaxU32]
  BY <1>1 DEF FramedRecord
<1>4. /\ record.spec.offset \in 0..MaxU32 /\ record.spec.len \in 0..MaxU32
      /\ record.spec.count \in 0..MaxU32
  BY <1>3
<1> QED  BY <1>1, <1>2, <1>4 DEF FramedRecord

(* Where the fields in front of the triplets lie.                          *)
LEMMA FrontFields ==
  ASSUME RecordsTypeOK
  PROVE  /\ SubtypeAt \in {20, 22} /\ ParserCursor \in {20, 22, 24}
         /\ HeaderSize \in {20, 32} /\ 0 < HeaderSize
         /\ \A f \in Header : f.at \in Nat /\ f.size \in Nat /\ f.at + f.size <= HeaderSize
         /\ Header # {}
<1>1. record.extended \in BOOLEAN
  BY FrontTyped
<1>2. SubtypeAt \in {20, 22} /\ HeaderSize \in {20, 32}
  BY DEF SubtypeAt, HeaderSize
<1>3. ParserCursor \in {20, 22, 24}
  BY <1>2 DEF ParserCursor
<1>4. /\ \A f \in StandardHeader : f.at \in Nat /\ f.size \in Nat /\ f.at + f.size <= 20
      /\ StandardHeader # {}
  BY DEF StandardHeader, Field
<1>5. /\ \A f \in ExtendedHeader : f.at \in Nat /\ f.size \in Nat /\ f.at + f.size <= 32
      /\ ExtendedHeader # {}
  BY DEF ExtendedHeader, Field
<1> QED  BY <1>1, <1>2, <1>3, <1>4, <1>5 DEF HeaderSize, Header

LEMMA RecordsInvInit == RecordsInit => RecordsInv
<1> SUFFICES ASSUME RecordsInit  PROVE RecordsInv
  OBVIOUS
<1> USE DEF RecordsInit
<1>1. RecordsTypeOK
  BY DEF RecordsTypeOK, Uint16
<1>2. StageInv
  BY DEF StageInv
<1>3. ReadInv
  BY DEF ReadInv
<1> QED
  BY <1>1, <1>2, <1>3 DEF RecordsInv, ParserAgrees, AbortsExplained, OutsideOnlyByWrap

(* Before the triplets only the header and the subtype are read.           *)
LEMMA ReadBefore ==
  ASSUME RecordsTypeOK, next = 1
  PROVE  ReadInv <=> /\ \A f \in read : f.at + f.size <= record.size
                     /\ read \subseteq Header \cup {SubtypeField}
<1>1. {TripletField(i) : i \in 1..(next - 1)} = {}
  OBVIOUS
<1> QED  BY <1>1 DEF ReadInv

LEMMA CheckLengthStep ==
  ASSUME RecordsInv, CheckLength
  PROVE  RecordsInv'
<1> USE DEF RecordsInv, CheckLength
<1>1. RecordsTypeOK'
  BY DEF RecordsTypeOK, SubtypeAt, ParserCursor, Fits
<1>2. StageInv'
  BY DEF StageInv, Fits
<1>3. ReadInv'
  BY DEF ReadInv, StageInv
<1> QED
  BY <1>1, <1>2, <1>3 DEF ParserAgrees, AbortsExplained, OutsideOnlyByWrap

LEMMA ReadHeaderStep ==
  ASSUME RecordsInv, ReadHeader
  PROVE  RecordsInv'
<1> USE DEF RecordsInv, ReadHeader
<1>0. /\ SubtypeAt' = SubtypeAt /\ ParserCursor' = ParserCursor /\ Header' = Header
      /\ HeaderSize' = HeaderSize /\ SeenSubtype' = SeenSubtype /\ SubtypeField' = SubtypeField
      /\ HasParser(routed)' = HasParser(routed)
      /\ \A n : Fits(0, n)' = Fits(0, n)
  BY DEF SubtypeAt, ParserCursor, Header, HeaderSize, SeenSubtype, SubtypeField, HasParser, Fits
<1>1. RecordsTypeOK'
  BY <1>0 DEF RecordsTypeOK
<1>2. StageInv'
  BY <1>0 DEF StageInv
<1>3. ReadInv'
  <2>1. next = 1 /\ next' = 1
    BY DEF StageInv
  <2>2. \A f \in read' : f.at + f.size <= record.size
    BY FrontFields, FrontTyped DEF ReadInv, Fits, CanRead
  <2>3. read' \subseteq Header' \cup {SubtypeField'}
    BY <1>0, <2>1, ReadBefore
  <2>4. ReadInv' <=> /\ \A f \in read' : f.at + f.size <= record'.size
                     /\ read' \subseteq Header' \cup {SubtypeField'}
    BY <2>1 DEF ReadInv
  <2> QED  BY <2>2, <2>3, <2>4
<1>4. AbortsExplained'
  <2>1. ASSUME stage' = "aborted"
        PROVE  record'.extended /\ read' = {} /\ record'.size \in 20..31
    <3>1. stage = "header" /\ ~Fits(0, HeaderSize) /\ read = {} /\ Fits(0, 20)
      BY <2>1 DEF StageInv
    <3> QED  BY <2>1, <3>1, FrontTyped DEF Fits, CanRead, HeaderSize
  <2> QED  BY <2>1 DEF AbortsExplained
<1> QED
  BY <1>1, <1>2, <1>3, <1>4 DEF ParserAgrees, OutsideOnlyByWrap

LEMMA DispatchStep ==
  ASSUME RecordsInv, Dispatch
  PROVE  RecordsInv'
<1> USE DEF RecordsInv, Dispatch
<1>0. /\ SubtypeAt' = SubtypeAt /\ ParserCursor' = ParserCursor /\ Header' = Header
      /\ HeaderSize' = HeaderSize /\ SeenSubtype' = SeenSubtype /\ SubtypeField' = SubtypeField
      /\ HasParser(routed)' = HasParser(routed')
      /\ \A n : Fits(0, n)' = Fits(0, n)
  BY DEF SubtypeAt, ParserCursor, Header, HeaderSize, SeenSubtype, SubtypeField, HasParser, Fits
<1>1. cursor = SubtypeAt /\ next = 1 /\ next' = 1
  BY DEF StageInv
<1>2. routed' = SeenSubtype /\ routed' \in Uint16
  <2>1. routed' = SeenSubtype
    BY <1>1 DEF SeenSubtype
  <2>2. 0 \in Uint16
    BY DEF Uint16
  <2> QED  BY <2>1, <2>2, FrontTyped DEF SeenSubtype
<1>3. RecordsTypeOK'
  BY <1>0, <1>2 DEF RecordsTypeOK
<1>4. StageInv'
  BY <1>0, <1>2 DEF StageInv
<1>5. ReadInv'
  <2>1. \A f \in read' : f.at + f.size <= record.size
    BY <1>1, FrontTyped, FrontFields DEF ReadInv, Fits, CanRead, Field
  <2>2. read' \subseteq Header' \cup {SubtypeField'}
    BY <1>0, <1>1, ReadBefore DEF SubtypeField
  <2> QED  BY <1>1, <2>1, <2>2 DEF ReadInv
<1>6. stage' \in {"again", "done"}
  BY <1>0
<1>7. ParserAgrees' /\ AbortsExplained' /\ OutsideOnlyByWrap'
  BY <1>6 DEF ParserAgrees, AbortsExplained, OutsideOnlyByWrap
<1> QED  BY <1>3, <1>4, <1>5, <1>7

LEMMA ReadSubtypeStep ==
  ASSUME RecordsInv, ReadSubtype
  PROVE  RecordsInv'
<1> USE DEF RecordsInv
<1>0. /\ SubtypeAt' = SubtypeAt /\ ParserCursor' = ParserCursor /\ Header' = Header
      /\ HeaderSize' = HeaderSize /\ SeenSubtype' = SeenSubtype /\ SubtypeField' = SubtypeField
      /\ HasParser(routed)' = HasParser(routed) /\ routed' = routed
      /\ record' = record /\ next' = next
      /\ \A n : Fits(0, n)' = Fits(0, n)
  BY DEF ReadSubtype, SubtypeAt, ParserCursor, Header, HeaderSize, SeenSubtype, SubtypeField,
         HasParser, Fits
<1>1. stage = "subtype"
  BY DEF ReadSubtype
<1>2. /\ cursor = SubtypeAt /\ next = 1 /\ routed = SeenSubtype /\ HasParser(routed)
      /\ Header \subseteq read /\ Fits(0, HeaderSize)
  BY <1>1 DEF StageInv
<1>3. stage' = IF SeenSubtype \in Accepted(Target) THEN "triplets" ELSE "refused"
  BY <1>2 DEF ReadSubtype, SeenSubtype
<1>4. cursor' = ParserCursor
  BY <1>2 DEF ReadSubtype, ParserCursor
<1>5. read' = IF Fits(SubtypeAt, 2) THEN read \cup {SubtypeField} ELSE read
  BY <1>2 DEF ReadSubtype, SubtypeField
<1>6. RecordsTypeOK'
  BY <1>0, <1>3, <1>4 DEF RecordsTypeOK
<1>7. StageInv'
  <2>1. stage' \in {"triplets", "refused"}
    BY <1>3
  <2>2. /\ Header' \subseteq read' /\ Fits(0, HeaderSize)' /\ cursor' = ParserCursor'
        /\ routed' = SeenSubtype' /\ HasParser(routed)'
    BY <1>0, <1>2, <1>4, <1>5
  <2>3. CASE stage' = "triplets"
    BY <2>2, <2>3 DEF StageInv
  <2>4. CASE stage' = "refused"
    BY <2>4 DEF StageInv
  <2> QED  BY <2>1, <2>3, <2>4
<1>8. ReadInv'
  <2>1. Fits(SubtypeAt, 2) => SubtypeField.at + SubtypeField.size <= record.size
    BY DEF SubtypeField, Field, Fits, CanRead
  <2>2. \A f \in read' : f.at + f.size <= record.size
    BY <1>5, <2>1 DEF ReadInv
  <2>3. read' \subseteq Header' \cup {SubtypeField'}
    BY <1>0, <1>2, <1>5, ReadBefore
  <2> QED  BY <1>0, <1>2, <2>2, <2>3 DEF ReadInv
<1>9. ParserAgrees'
  <2>1. SUFFICES ASSUME record.type \notin WholeTypes  PROVE stage' # "refused"
    BY <1>0 DEF ParserAgrees
  <2>2. Parsing(record.type, routed)
    BY <1>2 DEF HasParser, Parsing
  <2>3. routed \in Uint16 /\ record.type \in Nat \ WholeTypes
    BY <2>1, FrontTyped DEF RecordsTypeOK
  <2>4. SeenSubtype \in Accepted(Target)
    BY <1>2, <2>2, <2>3, ParserAccepts DEF Target
  <2> QED  BY <1>3, <2>4
<1> QED
  BY <1>3, <1>6, <1>7, <1>8, <1>9 DEF AbortsExplained, OutsideOnlyByWrap

(* Where the triplets of the record at hand lie.                           *)
LEMMA SeenLaid ==
  ASSUME RecordsTypeOK, HasParser(routed), cursor = ParserCursor
  PROVE  /\ LayOut(SeenTriplets, Floor(record.type, ParserCursor))
         /\ SeenTriplets \in Seq(Triplet)
<1>1. Parsing(record.type, routed) /\ routed \in Nat /\ record.type \in Nat
  <2>1. Parsing(record.type, routed)
    BY DEF HasParser, Parsing
  <2>2. routed \in Uint16
    BY DEF RecordsTypeOK
  <2>3. routed \in Nat
    BY <2>2, Uint16Nat
  <2> QED  BY <2>1, <2>3, FrontTyped
<1>2. LayOut(SeenTriplets, Floor(record.type, ParserCursor))
  BY <1>1, FrontFields, TripletsLaid DEF SeenTriplets, Target
<1> QED  BY <1>2 DEF LayOut, Laid

LEMMA ReadTripletStep ==
  ASSUME RecordsInv, ReadTriplet
  PROVE  RecordsInv'
<1> USE DEF RecordsInv
<1>0. /\ SubtypeAt' = SubtypeAt /\ ParserCursor' = ParserCursor /\ Header' = Header
      /\ HeaderSize' = HeaderSize /\ SeenSubtype' = SeenSubtype /\ SubtypeField' = SubtypeField
      /\ SeenTriplets' = SeenTriplets /\ cursor' = cursor /\ record' = record
      /\ HasParser(routed)' = HasParser(routed) /\ routed' = routed
      /\ \A n : Fits(0, n)' = Fits(0, n)
  BY DEF ReadTriplet, SubtypeAt, ParserCursor, Header, HeaderSize, SeenSubtype, SubtypeField,
         HasParser, Fits, SeenTriplets, Target
<1>1. /\ stage = "triplets" /\ HasParser(routed) /\ cursor = ParserCursor
      /\ routed = SeenSubtype /\ Header \subseteq read /\ Fits(0, HeaderSize)
  BY DEF StageInv, ReadTriplet
<1> DEFINE t == SeenTriplets[next]
<1>2. next \in DOMAIN SeenTriplets /\ next' = next + 1
  <2>1. next <= Len(SeenTriplets) /\ next' = next + 1
    BY DEF ReadTriplet, SeenTriplets
  <2> QED  BY <1>1, <2>1, SeenLaid DEF RecordsTypeOK
<1>3. t \in Triplet /\ t.at \in Nat /\ t.size \in Nat /\ t.asked \in BOOLEAN
  <2>1. t \in Triplet
    BY <1>1, <1>2, SeenLaid
  <2> QED  BY <2>1 DEF Triplet
<1>4. \/ stage' = stage /\ read' = read \cup {TripletField(next)} /\ t.at + t.size <= record.size
      \/ /\ ~(t.at + t.size <= record.size) /\ read' = read
         /\ stage' = IF t.asked THEN stage ELSE "aborted"
  BY DEF ReadTriplet, SeenTriplets, TripletField, Fits, CanRead
<1>5. RecordsTypeOK' /\ next \in Nat \ {0}
  <2>0. next \in Nat \ {0}
    BY DEF RecordsTypeOK
  <2>1. next' \in Nat \ {0}
    BY <1>2, <2>0
  <2>2. stage' \in {"triplets", "aborted"}
    BY <1>1, <1>4
  <2> QED  BY <1>0, <1>1, <2>0, <2>1, <2>2 DEF RecordsTypeOK
<1>6. StageInv'
  BY <1>0, <1>1, <1>4 DEF StageInv
<1>7. ReadInv'
  <2>1. \A f \in read' : f.at + f.size <= record.size
    BY <1>4 DEF ReadInv, TripletField, Field
  <2>2. \A i : TripletField(i)' = TripletField(i)
    BY <1>0 DEF TripletField
  <2>3. \A i \in 1..(next - 1) : i \in 1..(next' - 1)
    BY <1>2, <1>5
  <2>4. next \in 1..(next' - 1)
    BY <1>2, <1>5
  <2>5. read' \subseteq Header' \cup {SubtypeField'} \cup {TripletField(i)' : i \in 1..(next' - 1)}
    BY <1>0, <1>4, <2>2, <2>3, <2>4 DEF ReadInv
  <2>6. next' <= Len(SeenTriplets) + 1
    BY <1>1, <1>2, SeenLaid
  <2> QED  BY <1>0, <1>1, <2>1, <2>5, <2>6 DEF ReadInv
<1>8. AbortsExplained'
  <2>1. SUFFICES ASSUME stage' = "aborted"  PROVE read' # {} /\ record'.size < 86
    BY DEF AbortsExplained
  <2>2. ~(t.at + t.size <= record.size) /\ ~t.asked /\ read' = read
    BY <1>1, <1>4, <2>1
  <2>3. t.at + t.size <= 86
    BY <1>1, <1>2, <1>3, <2>2, SeenLaid DEF LayOut, Laid, AllAsked
  <2> QED  BY <1>0, <1>1, <1>3, <2>2, <2>3, FrontTyped, FrontFields
<1> QED
  BY <1>1, <1>4, <1>5, <1>6, <1>7, <1>8 DEF ParserAgrees, OutsideOnlyByWrap

(* The actions that change nothing but the stage.                          *)
LEMMA StageStep ==
  ASSUME RecordsInv, UNCHANGED <<record, cursor, routed, next, read>>,
         stage' \in {"done", "outside", "specific"} \/ (stage' = "aborted" /\ AbortsExplained'),
         stage' = "outside" => OutsideOnlyByWrap',
         stage' = "specific" => record.type = 1154
  PROVE  RecordsInv'
<1>0. /\ SubtypeAt' = SubtypeAt /\ ParserCursor' = ParserCursor /\ Header' = Header
      /\ SubtypeField' = SubtypeField /\ SeenTriplets' = SeenTriplets
      /\ HasParser(routed)' = HasParser(routed)
  BY DEF SubtypeAt, ParserCursor, Header, SubtypeField, HasParser, Fits, SeenTriplets, Target
<1>1. RecordsTypeOK'
  <2>1. stage' \in {"framed", "skipped", "header", "dispatch", "again", "subtype", "triplets",
                   "refused", "specific", "outside", "aborted", "done"}
    OBVIOUS
  <2>2. /\ record \in Framed /\ routed \in Uint16 /\ next \in Nat \ {0}
        /\ cursor \in {0, SubtypeAt, ParserCursor}
    BY DEF RecordsInv, RecordsTypeOK
  <2>3. /\ record' \in Framed /\ routed' \in Uint16 /\ next' \in Nat \ {0}
        /\ cursor' \in {0, SubtypeAt', ParserCursor'}
    BY <1>0, <2>2
  <2> QED  BY <2>1, <2>3 DEF RecordsTypeOK
<1>2. StageInv'
  BY DEF StageInv
<1>3. ReadInv'
  <2>1. \A i : TripletField(i)' = TripletField(i)
    BY <1>0 DEF TripletField
  <2> QED  BY <1>0, <2>1 DEF RecordsInv, ReadInv
<1> QED
  BY <1>1, <1>2, <1>3 DEF RecordsInv, ParserAgrees, AbortsExplained, OutsideOnlyByWrap

LEMMA SumFits ==
  ASSUME NEW m \in Nat, NEW x \in 0..m
  PROVE  x % (m + 1) = x
BY SMTT(30)

LEMMA ReadSpecificStep ==
  ASSUME RecordsInv, ReadSpecific
  PROVE  RecordsInv'
<1> DEFINE s == record.spec
           end == (s.offset + s.len) % (MaxU32 + 1)
<1>1. record.type = 1154 /\ stage = "specific"
  BY DEF ReadSpecific, RecordsInv, StageInv
<1>2. UNCHANGED <<record, cursor, routed, next, read>>
  BY DEF ReadSpecific
<1>3. /\ s.offset \in Nat /\ s.len \in Nat /\ MaxU32 \in Nat /\ record.size \in Nat
      /\ s.offset + s.len \in Nat
  BY InputsAssumption, FrontTyped DEF RecordsInv
<1>4. \/ stage' = "done"
      \/ end <= record.size /\ s.offset + s.len > record.size /\ stage' = "outside"
      \/ s.len \in 4..15 /\ stage' = "aborted"
  <2>1. \/ stage' = "done"
        \/ end <= record.size /\ stage' \in SpecificOutcomes(s)
    BY DEF ReadSpecific
  <2> HIDE DEF s, end
  <2> QED  BY <2>1 DEF SpecificOutcomes
(* The test passed on a sum that is not the end of the section.            *)
<1>5. CASE end <= record.size /\ s.offset + s.len > record.size /\ stage' = "outside"
  <2>1. s.offset + s.len # end
    <3> HIDE DEF s, end
    <3> QED  BY <1>3, <1>5
  <2>2. ~(s.offset + s.len <= MaxU32)
    BY <1>3, <2>1, SumFits, SMTT(20)
  <2>3. OutsideOnlyByWrap'
    BY <1>2, <1>3, <2>2 DEF OutsideOnlyByWrap
  <2> QED  BY <1>2, <1>5, <2>3, StageStep
<1>6. CASE s.len \in 4..15 /\ stage' = "aborted"
  <2>1. AbortsExplained'
    BY <1>1, <1>2, <1>6 DEF AbortsExplained
  <2> QED  BY <1>2, <1>6, <2>1, StageStep
<1>7. CASE stage' = "done"
  BY <1>2, <1>7, StageStep
<1> QED  BY <1>4, <1>5, <1>6, <1>7

LEMMA RecordsInvStep == RecordsInv /\ [RecordsNext]_rvars => RecordsInv'
<1> SUFFICES ASSUME RecordsInv, [RecordsNext]_rvars  PROVE RecordsInv'
  OBVIOUS
<1>1. CASE CheckLength   BY <1>1, CheckLengthStep
<1>2. CASE ReadHeader    BY <1>2, ReadHeaderStep
<1>3. CASE Dispatch      BY <1>3, DispatchStep
<1>4. CASE ReadSubtype   BY <1>4, ReadSubtypeStep
<1>5. CASE ReadTriplet   BY <1>5, ReadTripletStep
<1>6. CASE FewTriplets
  BY <1>6, StageStep DEF FewTriplets
<1>7. CASE TripletsRead
  BY <1>7, StageStep DEF TripletsRead
<1>8. CASE ReadSpecific  BY <1>8, ReadSpecificStep
<1>9. CASE UNCHANGED rvars
  <2>1. UNCHANGED <<record, stage, cursor, routed, next, read>>
    BY <1>9 DEF rvars
  <2>2. /\ SubtypeAt' = SubtypeAt /\ ParserCursor' = ParserCursor /\ Header' = Header
        /\ HeaderSize' = HeaderSize /\ SeenSubtype' = SeenSubtype
        /\ SubtypeField' = SubtypeField /\ SeenTriplets' = SeenTriplets
        /\ HasParser(routed)' = HasParser(routed)
        /\ \A n : Fits(0, n)' = Fits(0, n)
    BY <2>1 DEF SubtypeAt, ParserCursor, Header, HeaderSize, SeenSubtype, SubtypeField,
               HasParser, Fits, SeenTriplets, Target
  <2>3. \A i : TripletField(i)' = TripletField(i)
    BY <2>2 DEF TripletField
  <2>4. RecordsTypeOK'
    BY <2>1, <2>2 DEF RecordsInv, RecordsTypeOK
  <2>5. StageInv'
    BY <2>1, <2>2 DEF RecordsInv, StageInv
  <2>6. ReadInv'
    BY <2>1, <2>2, <2>3 DEF RecordsInv, ReadInv
  <2> QED  BY <2>1, <2>4, <2>5, <2>6
              DEF RecordsInv, ParserAgrees, AbortsExplained, OutsideOnlyByWrap
<1> QED
  BY <1>1, <1>2, <1>3, <1>4, <1>5, <1>6, <1>7, <1>8, <1>9 DEF RecordsNext

THEOREM RecordsInvariant == RecordsSpec => []RecordsInv
<1> QED  BY RecordsInvInit, RecordsInvStep, PTL DEF RecordsSpec

(* A record that the switch of on_record hands to a parser is never given  *)
(* up by that parser for its subtype.                                      *)
THEOREM ParsersAgree == RecordsSpec => []ParserAgrees
<1>1. RecordsInv => ParserAgrees
  BY DEF RecordsInv
<1> QED  BY <1>1, RecordsInvariant, PTL

(* Reading the front of a record aborts for the three stated reasons only. *)
THEOREM AbortsAreExplained == RecordsSpec => []AbortsExplained
<1>1. RecordsInv => AbortsExplained
  BY DEF RecordsInv
<1> QED  BY <1>1, RecordsInvariant, PTL

(* A specific section that passes the test of read_smf1154 and reaches     *)
(* behind the record has an offset and a length whose sum wraps: for every *)
(* other triplet the test is enough.                                       *)
THEOREM OutsideMeansWrapped == RecordsSpec => []OutsideOnlyByWrap
<1>1. RecordsInv => OutsideOnlyByWrap
  BY DEF RecordsInv
<1> QED  BY <1>1, RecordsInvariant, PTL

(* The fields of a header, and its subtype, have no byte in common.        *)
Overlap(f, g) == f.at < g.at + g.size /\ g.at < f.at + f.size

LEMMA HeadersDisjoint ==
  /\ \A f, g \in StandardHeader : Overlap(f, g) => f = g
  /\ \A f, g \in ExtendedHeader : Overlap(f, g) => f = g
  /\ \A f \in StandardHeader : f.at + f.size <= 20
  /\ \A f \in ExtendedHeader : f.at + f.size <= 22 \/ f.at >= 28
<1>1. \A f, g \in StandardHeader : Overlap(f, g) => f = g
  BY DEF StandardHeader, Field, Overlap
<1>2. \A f, g \in ExtendedHeader : Overlap(f, g) => f = g
  BY DEF ExtendedHeader, Field, Overlap
<1>3. \A f \in StandardHeader : f.at + f.size <= 20
  BY DEF StandardHeader, Field
<1>4. \A f \in ExtendedHeader : f.at + f.size <= 22 \/ f.at >= 28
  BY DEF ExtendedHeader, Field
<1> QED  BY <1>1, <1>2, <1>3, <1>4

(* The triplets that were read lie behind the header and the subtype.      *)
LEMMA TripletsBehind ==
  ASSUME RecordsInv, NEW i \in 1..(next - 1), TripletField(i) \in read,
         ~record.extended \/ record.type > 255
  PROVE  /\ i \in DOMAIN SeenTriplets
         /\ TripletField(i).at \in Nat /\ TripletField(i).size \in Nat
         /\ TripletField(i).at >= HeaderSize /\ TripletField(i).at >= SubtypeAt + 2
<1>0. next \in Nat \ {0}
  BY DEF RecordsInv, RecordsTypeOK
<1>1. next \in Nat /\ next > 1
  BY <1>0
<1>2. HasParser(routed) /\ cursor = ParserCursor /\ next <= Len(SeenTriplets) + 1
  BY <1>1 DEF RecordsInv, ReadInv
<1>3. /\ LayOut(SeenTriplets, Floor(record.type, ParserCursor))
      /\ SeenTriplets \in Seq(Triplet)
  BY <1>2, SeenLaid DEF RecordsInv
<1>4. i \in DOMAIN SeenTriplets
  BY <1>1, <1>2, <1>3
<1>5. SeenTriplets[i] \in Triplet /\ Floor(record.type, ParserCursor) <= SeenTriplets[i].at
  BY <1>3, <1>4 DEF LayOut, Laid
<1> DEFINE f == TripletField(i)
<1>6. /\ f.at = SeenTriplets[i].at /\ f.size = SeenTriplets[i].size
      /\ f.at \in Nat /\ f.size \in Nat /\ f.size >= 2
  BY <1>5 DEF TripletField, Field, Triplet
<1>7. Floor(record.type, ParserCursor) <= f.at /\ f.at + f.size <= record.size
  BY <1>5, <1>6 DEF RecordsInv, ReadInv
<1>8. record.type \in Nat /\ record.size \in Nat
  BY FrontTyped DEF RecordsInv
<1> HIDE DEF f
<1>9. CASE ~record.extended
  <2>1. HeaderSize = 20 /\ SubtypeAt = 20
    BY <1>9 DEF HeaderSize, SubtypeAt
  <2>2. CASE record.type = 30
    <3>1. ParserCursor <= f.at
      BY <1>7, <2>2 DEF Floor
    <3>2. CASE Fits(20, 2)
      BY <1>4, <1>6, <2>1, <3>1, <3>2 DEF ParserCursor, f
    <3>3. CASE ~Fits(20, 2)
      <4>1. ParserCursor = 20
        BY <2>1, <3>3 DEF ParserCursor
      <4>2. record.size < 22
        BY <1>8, <3>3 DEF Fits, CanRead
      <4> QED  BY <1>6, <1>7, <1>8, <3>1, <4>1, <4>2
    <3> QED  BY <3>2, <3>3
  <2>3. CASE record.type # 30
    <3>1. 24 <= f.at
      BY <1>6, <1>7, <2>3 DEF Floor
    <3> QED  BY <1>4, <1>6, <2>1, <3>1 DEF f
  <2> QED  BY <2>2, <2>3
<1>10. CASE record.extended
  <2>1. Parsing(record.type, routed)
    BY <1>2 DEF HasParser, Parsing
  <2>2. routed \in Uint16
    BY DEF RecordsInv, RecordsTypeOK
  <2>3. routed \in Nat
    BY <2>2, Uint16Nat
  <2>4. record.type = 1154
    BY <1>8, <1>10, <2>1, <2>3, ParserKinds
  <2>5. Floor(record.type, ParserCursor) = 32
    BY <2>4 DEF Floor
  <2>6. HeaderSize = 32 /\ SubtypeAt = 22
    BY <1>10 DEF HeaderSize, SubtypeAt
  <2> QED  BY <1>4, <1>6, <1>7, <2>5, <2>6 DEF f
<1> QED  BY <1>9, <1>10, FrontTyped DEF RecordsInv

LEMMA InvOneMeaning == RecordsInv => OneMeaning
<1> SUFFICES ASSUME RecordsInv, NEW f \in read, NEW g \in read,
                    ~record.extended \/ record.type > 255, Overlap(f, g)
             PROVE  f = g
  BY DEF OneMeaning, Overlap
<1>1. \A x \in read : x \in Header \/ x = SubtypeField
                      \/ \E i \in 1..(next - 1) : x = TripletField(i)
  BY DEF RecordsInv, ReadInv
<1>2. /\ \A x, y \in Header : Overlap(x, y) => x = y
      /\ \A x \in Header : ~Overlap(x, SubtypeField) /\ ~Overlap(SubtypeField, x)
  <2>1. CASE ~record.extended
    BY <2>1, HeadersDisjoint, FrontFields
       DEF RecordsInv, Header, SubtypeField, SubtypeAt, Field, Overlap
  <2>2. CASE record.extended
    BY <2>2, HeadersDisjoint, FrontFields
       DEF RecordsInv, Header, SubtypeField, SubtypeAt, Field, Overlap
  <2> QED  BY <2>1, <2>2, FrontTyped DEF RecordsInv
<1>3. ASSUME NEW i \in 1..(next - 1), TripletField(i) \in read
      PROVE  /\ \A x \in Header \cup {SubtypeField} :
                  ~Overlap(x, TripletField(i)) /\ ~Overlap(TripletField(i), x)
             /\ i \in DOMAIN SeenTriplets
  <2> DEFINE h == TripletField(i)
  <2>1. /\ i \in DOMAIN SeenTriplets /\ h.at \in Nat /\ h.size \in Nat
        /\ h.at >= HeaderSize /\ h.at >= SubtypeAt + 2
    BY <1>3, TripletsBehind
  <2> HIDE DEF h
  <2>2. ASSUME NEW x \in Header  PROVE ~Overlap(x, h) /\ ~Overlap(h, x)
    BY <2>1, FrontFields DEF RecordsInv, Overlap
  <2>3. ~Overlap(SubtypeField, h) /\ ~Overlap(h, SubtypeField)
    BY <2>1, FrontFields DEF RecordsInv, Overlap, SubtypeField, Field
  <2> QED  BY <2>1, <2>2, <2>3 DEF h
<1>4. ASSUME NEW i \in 1..(next - 1), NEW j \in 1..(next - 1),
             TripletField(i) \in read, TripletField(j) \in read, i < j
      PROVE  ~Overlap(TripletField(i), TripletField(j))
  <2>0. next \in Nat \ {0}
    BY DEF RecordsInv, RecordsTypeOK
  <2>1. next \in Nat /\ next > 1
    BY <2>0
  <2>2. HasParser(routed) /\ cursor = ParserCursor
    BY <2>1 DEF RecordsInv, ReadInv
  <2>3. LayOut(SeenTriplets, Floor(record.type, ParserCursor))
    BY <2>2, SeenLaid DEF RecordsInv
  <2>4. SeenTriplets[i].at + SeenTriplets[i].size <= SeenTriplets[j].at
    BY <1>3, <1>4, <2>3 DEF LayOut, Laid
  <2>5. /\ TripletField(i).at \in Nat /\ TripletField(i).size \in Nat
        /\ TripletField(j).at \in Nat
    BY <1>4, TripletsBehind
  <2>6. TripletField(i).at + TripletField(i).size <= TripletField(j).at
    BY <2>4 DEF TripletField, Field
  <2> QED  BY <2>5, <2>6 DEF Overlap
<1>5. CASE f \in Header \cup {SubtypeField} /\ g \in Header \cup {SubtypeField}
  BY <1>2, <1>5
<1>6. CASE \E i \in 1..(next - 1) : f = TripletField(i)
  <2>1. PICK i \in 1..(next - 1) : f = TripletField(i)
    BY <1>6
  <2>2. PICK j \in 1..(next - 1) : g = TripletField(j)
    BY <1>1, <1>3, <2>1
  <2>3. i = j
    <3>1. ~(i < j)
      BY <1>4, <2>1, <2>2
    <3>2. ~(j < i)
      BY <1>4, <2>1, <2>2 DEF Overlap
    <3>3. next \in Nat
      BY DEF RecordsInv, RecordsTypeOK
    <3> QED  BY <3>1, <3>2, <3>3
  <2> QED  BY <2>1, <2>2, <2>3
<1>7. CASE \E i \in 1..(next - 1) : g = TripletField(i)
  <2>1. f \notin Header \cup {SubtypeField}
    BY <1>3, <1>7
  <2> QED  BY <1>1, <1>6, <2>1
<1> QED  BY <1>1, <1>5, <1>6, <1>7

(* The parsers take no byte of the front of a record for two things.       *)
THEOREM BytesMeanOneThing == RecordsSpec => []OneMeaning
<1> QED  BY InvOneMeaning, RecordsInvariant, PTL
=============================================================================
