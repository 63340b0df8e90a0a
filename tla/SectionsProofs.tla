--------------------------- MODULE SectionsProofs ---------------------------
(***************************************************************************)
(* The loop over the entries of a section, for every triplet and every     *)
(* size of a record: safe_count() announces exactly the entries that lie   *)
(* in the record, all of them are visited, and none beyond the record.     *)
(***************************************************************************)
EXTENDS Sections, FiniteSetTheorems, WellFoundedInduction, TLAPS

-----------------------------------------------------------------------------
(* Arithmetic.                                                             *)

LEMMA DivisionBounds ==
  ASSUME NEW a \in Nat, NEW b \in Nat, b > 0
  PROVE  a \div b \in Nat /\ b * (a \div b) <= a /\ a < b * (a \div b) + b
  BY SMTT(30)

LEMMA OneMore ==
  ASSUME NEW x \in Nat, NEW b \in Nat
  PROVE  x * b \in Nat /\ (x + 1) * b = x * b + b
<1>1. x * b \in Nat  BY SMTT(30)
<1>2. (x + 1) * b = x * b + b  BY SMTT(30)
<1>3. QED  BY <1>1, <1>2

LEMMA TimesMonotone ==
  ASSUME NEW b \in Nat, b > 0, NEW x \in Int, NEW y \in Int, x <= y
  PROVE  b * x <= b * y
  BY SMTT(30)

(* The quotient counts the pieces of b bytes in a bytes.                   *)
LEMMA PiecesThatFit ==
  ASSUME NEW a \in Nat, NEW b \in Nat, b > 0, NEW i \in Nat
  PROVE  (i + 1) * b <= a <=> i < a \div b
<1>1. a \div b \in Nat /\ b * (a \div b) <= a /\ a < b * (a \div b) + b
  BY DivisionBounds
<1>2. i < a \div b => b * (i + 1) <= b * (a \div b)  BY <1>1, TimesMonotone
<1>3. i >= a \div b => b * (a \div b) <= b * i       BY <1>1, TimesMonotone
<1>4. (i + 1) * b = b * (i + 1) /\ b * (i + 1) = b * i + b  BY SMT
<1>5. b * i \in Int /\ b * (i + 1) \in Int /\ b * (a \div b) \in Int  BY <1>1
<1>6. QED  BY <1>1, <1>2, <1>3, <1>4, <1>5

-----------------------------------------------------------------------------
(* Every parser has a least length, and it is not zero.                    *)

IsParser(p) == p.one \in BOOLEAN /\ p.min \in Nat \ {0}

LEMMA OneIsParser ==
  ASSUME NEW n \in Nat \ {0}, NEW walk
  PROVE  IsParser(One(n, walk)) /\ IsParser(Each(n, walk))
  BY DEF IsParser, One, Each

LEMMA ParsersBounded == \A p \in DOMAIN Parsers : IsParser(Parsers[p])
<1>1. /\ IsParser(Product) /\ IsParser(Id30) /\ IsParser(Io30)
     /\ IsParser(Perf30) /\ IsParser(Proc30) /\ IsParser(Control70)
     /\ IsParser(Paging71) /\ IsParser(Control72) /\ IsParser(Omvs74_3)
     /\ IsParser(Cf74_4) /\ IsParser(Global74_6) /\ IsParser(Paging76)
     /\ IsParser(Common1154)
  BY OneIsParser DEF
     Product, Id30, Io30, Perf30, Proc30, Control70, Paging71, Control72,
     Omvs74_3, Cf74_4, Global74_6, Paging76, Common1154
<1>2. /\ IsParser(Consume98) /\ IsParser(Cpu70) /\ IsParser(Card70_2)
     /\ IsParser(Period72) /\ IsParser(Chpid73) /\ IsParser(Device74)
     /\ IsParser(Path74_2) /\ IsParser(Member74_2) /\ IsParser(Struct74_4)
     /\ IsParser(Dev74_5) /\ IsParser(Port74_7)
  BY OneIsParser DEF
     Consume98, Cpu70, Card70_2, Period72, Chpid73, Device74, Path74_2,
     Member74_2, Struct74_4, Dev74_5, Port74_7
<1>3. /\ IsParser(Pool74_8) /\ IsParser(Func74_9) /\ IsParser(Pageds75)
     /\ IsParser(Enqueue77) /\ IsParser(Lcu78_3) /\ IsParser(As79_1)
     /\ IsParser(As79_2) /\ IsParser(Event79_13) /\ IsParser(Tcp1154_1)
     /\ IsParser(Ftp1154_2) /\ IsParser(Racf1154_83)
  BY OneIsParser DEF
     Pool74_8, Func74_9, Pageds75, Enqueue77, Lcu78_3, As79_1, As79_2,
     Event79_13, Tcp1154_1, Ftp1154_2, Racf1154_83
<1>4. QED  BY <1>1, <1>2, <1>3 DEF Parsers

-----------------------------------------------------------------------------
(* The entries of a section, and what is known of them between two steps.  *)

(* The entries the code sets out to parse.                                 *)
Due ==
  IF section.len < Parser.min THEN 0
  ELSE IF ~Parser.one THEN SafeCount(section)
  ELSE IF SectionThere(section, Parser.min) THEN 1 ELSE 0

Placed == \A i \in 1..Len(found) : found[i].at = section.offset + (i - 1) * section.len

SectionsInv ==
  /\ section \in Inputs
  /\ left \in Nat \cup {Unknown}
  /\ found \in Seq([at : Nat, fields : {Fields(section.parser, section.len)}])
  /\ Placed
  /\ left = Unknown => found = << >>
  /\ left # Unknown => left + Len(found) = Due
  /\ left > 0 => ~Parser.one

(* An input, with the words of its triplet.                                *)
LEMMA InputTyped ==
  ASSUME NEW t \in Inputs
  PROVE  /\ t.parser \in DOMAIN Parsers
         /\ t.offset \in Nat /\ t.len \in Nat /\ t.count \in Nat /\ t.size \in Nat
         /\ Parsers[t.parser].one \in BOOLEAN
         /\ Parsers[t.parser].min \in Nat \ {0}
  BY InputsAssumption, ParsersBounded DEF IsParser

(* safe_count() is the number of announced entries the record has room for.*)
LEMMA SafeCountExact ==
  ASSUME NEW t \in Inputs, t.len > 0
  PROVE  /\ SafeCount(t) \in Nat
         /\ \A i \in Nat : i < SafeCount(t) <=>
                             i < t.count /\ t.offset + (i + 1) * t.len <= t.size
<1> DEFINE room == (t.size - t.offset) \div t.len
<1>1. t.offset \in Nat /\ t.len \in Nat /\ t.count \in Nat /\ t.size \in Nat
  BY InputTyped
<1>2. CASE t.offset >= t.size
  <2>1. SafeCount(t) = 0  BY <1>1, <1>2 DEF SafeCount
  <2>2. ASSUME NEW i \in Nat  PROVE (i + 1) * t.len >= t.len
    <3>1. t.len * 1 <= t.len * (i + 1)  BY <1>1, TimesMonotone
    <3>2. t.len * (i + 1) = (i + 1) * t.len /\ t.len * 1 = t.len  BY <1>1
    <3>3. QED  BY <3>1, <3>2
  <2>3. ASSUME NEW i \in Nat  PROVE t.offset + (i + 1) * t.len > t.size
    <3>1. (i + 1) * t.len \in Int  BY <1>1
    <3>2. QED  BY <1>1, <1>2, <2>2, <3>1
  <2>4. ASSUME NEW i \in Nat  PROVE ~(t.offset + (i + 1) * t.len <= t.size)
    <3>1. (i + 1) * t.len \in Int  BY <1>1
    <3>2. QED  BY <1>1, <2>3, <3>1
  <2>5. QED  BY <2>1, <2>4
<1>3. CASE t.offset < t.size
  <2>1. t.size - t.offset \in Nat  BY <1>1, <1>3
  <2>2. room \in Nat  BY <1>1, <2>1, DivisionBounds
  <2>3. ASSUME NEW i \in Nat
        PROVE  t.offset + (i + 1) * t.len <= t.size <=> i < room
    <3>1. (i + 1) * t.len <= t.size - t.offset <=> i < room
      BY <1>1, <2>1, PiecesThatFit
    <3>2. (i + 1) * t.len \in Int  BY <1>1
    <3> HIDE DEF room
    <3>3. QED  BY <1>1, <3>1, <3>2
  <2>4. SafeCount(t) = IF t.count = 0 THEN 0 ELSE IF t.count < room THEN t.count ELSE room
    BY <1>1, <1>3 DEF SafeCount
  <2> HIDE DEF room
  <2>5. SafeCount(t) \in Nat  BY <1>1, <2>2, <2>4
  <2>6. ASSUME NEW i \in Nat  PROVE i < SafeCount(t) <=> i < t.count /\ i < room
    BY <1>1, <2>2, <2>4
  <2>7. QED  BY <2>3, <2>5, <2>6
<1>4. QED  BY <1>1, <1>2, <1>3

-----------------------------------------------------------------------------
(* The invariant.                                                          *)

LEMMA DueTyped ==
  ASSUME section \in Inputs
  PROVE  Due \in Nat
<1>1. section.len > 0 => SafeCount(section) \in Nat  BY SafeCountExact
<1>2. section.len \in Nat /\ Parser.min \in Nat \ {0}  BY InputTyped DEF Parser
<1>3. ~(section.len < Parser.min) => section.len > 0  BY <1>2
<1>4. QED  BY <1>1, <1>3 DEF Due

(* The next entry is placed behind the last, and lies in the record: the   *)
(* break of the loop is never taken.                                       *)
LEMMA NextEntryFits ==
  ASSUME SectionsInv, left > 0
  PROVE  /\ section.offset + Len(found) * section.len \in Nat
         /\ section.offset + Len(found) * section.len + section.len <= section.size
<1>1. section \in Inputs  BY DEF SectionsInv
<1>2. /\ section.offset \in Nat /\ section.len \in Nat /\ section.size \in Nat
      /\ Parser.min \in Nat \ {0}
  BY <1>1, InputTyped DEF Parser
<1>3. Len(found) \in Nat  BY DEF SectionsInv
<1>4. left \in Nat /\ left + Len(found) = Due /\ ~Parser.one
  BY DEF SectionsInv, Unknown
<1>5. section.len >= Parser.min /\ Due = SafeCount(section)
  BY <1>2, <1>3, <1>4 DEF Due
<1>6. section.len > 0  BY <1>2, <1>5
<1>7. Len(found) < SafeCount(section)  BY <1>3, <1>4, <1>5
<1>8. section.offset + (Len(found) + 1) * section.len <= section.size
  BY <1>1, <1>3, <1>6, <1>7, SafeCountExact
<1>9. /\ Len(found) * section.len \in Nat
      /\ (Len(found) + 1) * section.len = Len(found) * section.len + section.len
  BY <1>2, <1>3, OneMore
<1> DEFINE product == Len(found) * section.len
<1> HIDE DEF product
<1>10. section.offset + (product + section.len) <= section.size /\ product \in Nat
  BY <1>8, <1>9 DEF product
<1>11. section.offset + product \in Nat /\ section.offset + product + section.len <= section.size
  BY <1>2, <1>10
<1>12. QED  BY <1>11 DEF product

LEMMA SectionsInvInit == SectionsInit => SectionsInv
<1> SUFFICES ASSUME SectionsInit PROVE SectionsInv  OBVIOUS
<1>1. section \in Inputs /\ left = Unknown /\ found = << >>  BY DEF SectionsInit
<1>2. found \in Seq([at : Nat, fields : {Fields(section.parser, section.len)}])
  BY <1>1
<1>3. Placed  BY <1>1 DEF Placed
<1>4. QED  BY <1>1, <1>2, <1>3 DEF SectionsInv, Unknown

LEMMA SectionsInvStep == SectionsInv /\ [SectionsNext]_svars => SectionsInv'
<1> SUFFICES ASSUME SectionsInv, [SectionsNext]_svars PROVE SectionsInv'  OBVIOUS
<1> DEFINE Entries == Seq([at : Nat, fields : {Fields(section.parser, section.len)}])
<1>1. section \in Inputs /\ found \in Entries  BY DEF SectionsInv
<1>2. /\ section.offset \in Nat /\ section.len \in Nat /\ section.count \in Nat
      /\ section.size \in Nat /\ Parser.min \in Nat \ {0} /\ Parser.one \in BOOLEAN
  BY <1>1, InputTyped DEF Parser
<1>3. CASE ReadSection
  <2>1. left = Unknown /\ Parser.one /\ left' = 0 /\ section' = section  BY <1>3 DEF ReadSection
  <2>2. found = << >>  BY <2>1 DEF SectionsInv
  <2>3. CASE SectionThere(section, Parser.min)
    <3>1. found' = <<Entry(section.offset)>>  BY <1>3, <2>3 DEF ReadSection
    <3>2. Due = 1  BY <1>2, <2>1, <2>3 DEF Due, SectionThere
    <3>3. found' \in Entries /\ Len(found') = 1 /\ found'[1].at = section.offset
      BY <1>2, <3>1 DEF Entry
    <3>4. Placed'
      <4>1. ASSUME NEW i \in 1..1 PROVE section.offset = section.offset + (i - 1) * section.len
        BY <1>2
      <4>2. QED  BY <2>1, <3>3, <4>1 DEF Placed
    <3>5. QED  BY <1>1, <2>1, <3>2, <3>3, <3>4 DEF SectionsInv, Due, Parser, Unknown
  <2>4. CASE ~SectionThere(section, Parser.min)
    <3>1. found' = << >>  BY <1>3, <2>2, <2>4 DEF ReadSection
    <3>2. Due = 0  BY <2>1, <2>4 DEF Due
    <3>3. found' \in Entries /\ Len(found') = 0 /\ Placed'  BY <3>1 DEF Placed
    <3>4. QED  BY <1>1, <2>1, <3>1, <3>2, <3>3 DEF SectionsInv, Due, Parser, Unknown
  <2>5. QED  BY <2>3, <2>4
<1>4. CASE BoundCount
  <2>1. /\ left = Unknown /\ ~Parser.one /\ section' = section /\ found' = found
        /\ left' = IF section.len >= Parser.min THEN SafeCount(section) ELSE 0
    BY <1>4 DEF BoundCount
  <2>2. found = << >>  BY <2>1 DEF SectionsInv
  <2>3. left' = Due  BY <1>2, <2>1 DEF Due
  <2>4. Due \in Nat  BY <1>1, DueTyped
  <2>5. Placed'  BY <2>1, <2>2 DEF Placed
  <2>6. QED  BY <1>1, <2>1, <2>2, <2>3, <2>4, <2>5 DEF SectionsInv, Due, Parser, Unknown
<1>5. CASE ReadEntry
  <2> DEFINE off == section.offset + Len(found) * section.len
  <2>1. left > 0 /\ section' = section  BY <1>5 DEF ReadEntry
  <2>2. off \in Nat /\ off + section.len <= section.size  BY <2>1, NextEntryFits
  <2>3. left' = left - 1 /\ found' = Append(found, Entry(off))
    BY <1>2, <1>5, <2>2 DEF ReadEntry
  <2>4. left \in Nat /\ left + Len(found) = Due /\ ~Parser.one
    BY <2>1 DEF SectionsInv, Unknown
  <2>5. Entry(off) \in [at : Nat, fields : {Fields(section.parser, section.len)}] /\ Entry(off).at = off
    BY <2>2 DEF Entry
  <2> HIDE DEF off
  <2>6. found' \in Entries /\ Len(found') = Len(found) + 1
    BY <1>1, <2>3, <2>5
  <2>7. Placed'
    <3>1. ASSUME NEW i \in 1..Len(found')
          PROVE  found'[i].at = section.offset + (i - 1) * section.len
      <4>1. CASE i <= Len(found)
        <5>1. found'[i] = found[i]  BY <1>1, <2>3, <2>5, <4>1
        <5>2. QED  BY <4>1, <5>1 DEF SectionsInv, Placed
      <4>2. CASE i = Len(found) + 1
        <5>1. found'[i] = Entry(off) /\ i - 1 = Len(found)  BY <1>1, <2>3, <2>5, <4>2
        <5>2. QED  BY <2>5, <5>1 DEF off
      <4>3. QED  BY <1>1, <2>6, <4>1, <4>2
    <3>2. QED  BY <2>1, <3>1 DEF Placed
  <2>8. left' \in Nat /\ left' + Len(found') = Due  BY <1>1, <2>1, <2>3, <2>4, <2>6
  <2>9. QED  BY <1>1, <2>1, <2>4, <2>6, <2>7, <2>8 DEF SectionsInv, Due, Parser, Unknown
<1>6. CASE UNCHANGED svars
  BY <1>6 DEF svars, SectionsInv, Placed, Due, Parser, Unknown
<1>7. QED  BY <1>3, <1>4, <1>5, <1>6 DEF SectionsNext

-----------------------------------------------------------------------------
(* What the invariant says.                                                *)

(* The entries that lie in the record, counted.                            *)
LEMMA WholeIsCounted ==
  ASSUME NEW t \in Inputs, t.len > 0
  PROVE  /\ Cardinality(Whole(t)) = SafeCount(t)
         /\ 0 \in Whole(t) <=> SectionThere(t, t.len)
<1>1. t.offset \in Nat /\ t.len \in Nat /\ t.count \in Nat /\ t.size \in Nat
  BY InputTyped
<1>2. /\ SafeCount(t) \in Nat
      /\ \A i \in Nat : i < SafeCount(t) <=> i < t.count /\ t.offset + (i + 1) * t.len <= t.size
  BY SafeCountExact
<1>3. ASSUME NEW i \in Nat, t.offset + (i + 1) * t.len <= t.size  PROVE i <= t.size
  <2>1. t.len * (i + 1) = (i + 1) * t.len /\ i + 1 \in Nat /\ 1 <= t.len  BY <1>1
  <2>2. (i + 1) * 1 <= (i + 1) * t.len  BY <1>1, <2>1, TimesMonotone
  <2>3. (i + 1) * t.len \in Int /\ (i + 1) * 1 = i + 1  BY <1>1
  <2> DEFINE product == (i + 1) * t.len
  <2>4. product \in Int /\ i + 1 <= product /\ t.offset + product <= t.size
    BY <1>3, <2>2, <2>3
  <2> HIDE DEF product
  <2>5. QED  BY <1>1, <2>4
<1>4. Whole(t) = 0..(SafeCount(t) - 1)
  <2>1. ASSUME NEW i \in Nat  PROVE i \in Whole(t) <=> i < SafeCount(t)
    BY <1>1, <1>2, <1>3 DEF Whole
  <2>2. Whole(t) \subseteq Nat  BY <1>1 DEF Whole
  <2>3. 0..(SafeCount(t) - 1) \subseteq Nat  OBVIOUS
  <2>4. ASSUME NEW i \in Nat  PROVE i \in 0..(SafeCount(t) - 1) <=> i < SafeCount(t)  BY <1>2
  <2>5. \A i : i \in Whole(t) <=> i \in 0..(SafeCount(t) - 1)
    <3>1. TAKE i
    <3>2. CASE i \in Nat  BY <3>2, <2>1, <2>4
    <3>3. CASE i \notin Nat  BY <3>3, <2>2, <2>3
    <3>4. QED  BY <3>2, <3>3
  <2>6. QED  BY <2>5, Zenon
<1>5. Cardinality(Whole(t)) = SafeCount(t)
  <2>1. Cardinality(0..(SafeCount(t) - 1)) =
          IF 0 > SafeCount(t) - 1 THEN 0 ELSE SafeCount(t) - 1 - 0 + 1
    BY <1>2, FS_Interval
  <2>2. QED  BY <1>2, <1>4, <2>1
<1>6. 0 \in Whole(t) <=> SectionThere(t, t.len)
  BY <1>1 DEF Whole, SectionThere
<1>7. QED  BY <1>5, <1>6

LEMMA InvCounts == SectionsInv => EntriesThatFit
<1> SUFFICES ASSUME SectionsInv, left = 0, section.len >= Parser.min
             PROVE  LET n == Cardinality(Whole(section)) IN
                    /\ Len(found) = IF Parser.one /\ n > 1 THEN 1 ELSE n
                    /\ \A i \in DOMAIN found :
                         found[i].at = section.offset + (i - 1) * section.len
  BY DEF EntriesThatFit
<1>1. section \in Inputs /\ Len(found) \in Nat /\ Len(found) = Due /\ DOMAIN found = 1..Len(found)
  BY DEF SectionsInv, Unknown
<1>2. section.len \in Nat /\ Parser.min \in Nat \ {0} /\ Parser.one \in BOOLEAN
      /\ section.offset \in Nat /\ section.size \in Nat /\ section.count \in Nat
  BY <1>1, InputTyped DEF Parser
<1>3. section.len > 0 /\ ~(section.len < Parser.min)  BY <1>2
<1>4. /\ Cardinality(Whole(section)) = SafeCount(section) /\ SafeCount(section) \in Nat
      /\ 0 < SafeCount(section) <=> SectionThere(section, section.len)
  <2>1. 0 < SafeCount(section) <=>
          0 < section.count /\ section.offset + (0 + 1) * section.len <= section.size
    BY <1>1, <1>3, SafeCountExact
  <2>2. (0 + 1) * section.len = section.len  BY <1>2
  <2>3. QED  BY <1>1, <1>2, <1>3, <2>1, <2>2, WholeIsCounted, SafeCountExact DEF SectionThere
<1>5. SectionThere(section, section.len) <=> SectionThere(section, Parser.min)
  BY <1>2, <1>3 DEF SectionThere
<1>6. Due = IF ~Parser.one THEN SafeCount(section)
            ELSE IF 0 < SafeCount(section) THEN 1 ELSE 0
  BY <1>3, <1>4, <1>5 DEF Due
<1>7. QED  BY <1>1, <1>2, <1>4, <1>6 DEF SectionsInv, Placed

(* Every parsed entry lies in the record as a whole.                       *)
EntriesInRecord ==
  \A i \in DOMAIN found :
    found[i].at \in Nat /\ found[i].at + section.len <= section.size

LEMMA InvInRecord == SectionsInv => EntriesInRecord
<1> SUFFICES ASSUME SectionsInv, NEW i \in DOMAIN found
             PROVE  found[i].at \in Nat /\ found[i].at + section.len <= section.size
  BY DEF EntriesInRecord
<1>1. /\ section \in Inputs /\ Len(found) \in Nat /\ i \in 1..Len(found)
      /\ found[i].at = section.offset + (i - 1) * section.len
      /\ left \in Nat /\ left + Len(found) = Due
  <2>1. left = Unknown => i \notin DOMAIN found  BY DEF SectionsInv
  <2>2. QED  BY <2>1 DEF SectionsInv, Placed
<1>2. section.len \in Nat /\ Parser.min \in Nat \ {0}
      /\ section.offset \in Nat /\ section.size \in Nat /\ section.count \in Nat
  BY <1>1, InputTyped DEF Parser
<1>3. ~(section.len < Parser.min) /\ section.len > 0
  <2>1. left \in Nat /\ Len(found) \in Nat /\ Len(found) >= 1 /\ left + Len(found) = Due
    BY <1>1
  <2>2. Due # 0  BY <2>1
  <2>3. QED  BY <1>2, <2>2 DEF Due
<1>4. CASE Parser.one
  <2>1. i = 1 /\ SectionThere(section, Parser.min)  BY <1>1, <1>3, <1>4 DEF Due
  <2>2. (i - 1) * section.len = 0  BY <1>2, <2>1
  <2>3. QED  BY <1>1, <1>2, <2>1, <2>2 DEF SectionThere
<1>5. CASE ~Parser.one
  <2>1. i - 1 \in Nat /\ i - 1 < SafeCount(section)
    <3>1. SafeCount(section) \in Nat  BY <1>1, <1>3, SafeCountExact
    <3>2. QED  BY <1>1, <1>3, <1>5, <3>1 DEF Due
  <2>2. section.offset + ((i - 1) + 1) * section.len <= section.size
    BY <1>1, <1>3, <2>1, SafeCountExact
  <2>3. /\ (i - 1) * section.len \in Nat
        /\ ((i - 1) + 1) * section.len = (i - 1) * section.len + section.len
    BY <1>2, <2>1, OneMore
  <2> DEFINE product == (i - 1) * section.len
  <2> HIDE DEF product
  <2>4. product \in Nat /\ section.offset + (product + section.len) <= section.size
    BY <2>2, <2>3 DEF product
  <2>5. found[i].at = section.offset + product  BY <1>1 DEF product
  <2>6. QED  BY <1>2, <2>4, <2>5
<1>6. QED  BY <1>4, <1>5

-----------------------------------------------------------------------------
(* Induction.  The library's theorem takes a predicate as a parameter; its *)
(* least-element theorem takes a set, and from it follows induction over   *)
(* an interval, for the set of the numbers that have the property.         *)

LEMMA LessThanIsWellFounded ==
  \E R : IsWellFoundedOn(R, Nat) /\ \A x, y \in Nat : <<x, y>> \in R <=> x < y
<1>1. IsWellFoundedOn(OpToRel(<, Nat), Nat)  BY NatLessThanWellFounded
<1>2. \A x, y \in Nat : <<x, y>> \in OpToRel(<, Nat) <=> x < y  BY DEF OpToRel
<1>3. QED  BY <1>1, <1>2, Zenon

LEMMA LeastNumber ==
  ASSUME NEW T, T \subseteq Nat, T # {}
  PROVE  \E n \in T : \A m \in T : n <= m
<1>1. PICK R : IsWellFoundedOn(R, Nat) /\ \A x, y \in Nat : <<x, y>> \in R <=> x < y
  BY LessThanIsWellFounded
<1>2. IsWellFoundedOn(R, Nat)  BY <1>1
<1>3. \E n \in T : \A m \in T : <<m, n>> \notin R  BY <1>2, WFMin
<1>4. PICK n \in T : \A m \in T : <<m, n>> \notin R  BY <1>3
<1>5. n \in Nat /\ T \subseteq Nat  OBVIOUS
<1>6. ASSUME NEW m \in T PROVE n <= m
  <2>1. m \in Nat    BY <1>5
  <2>2. ~(m < n)     BY <1>1, <1>4, <1>5, <2>1
  <2>3. QED          BY <1>5, <2>1, <2>2
<1>7. QED  BY <1>6

LEMMA UpTo ==
  ASSUME NEW a \in Nat, NEW n \in Nat, NEW S, a \in S,
         \A i \in a..(n - 1) : i \in S => i + 1 \in S
  PROVE  \A i \in a..n : i \in S
<1> DEFINE T == {i \in a..n : i \notin S}
<1>1. SUFFICES ASSUME T # {} PROVE FALSE  OBVIOUS
<1>2. T \subseteq Nat  OBVIOUS
<1> HIDE DEF T
<1>3. PICK k \in T : \A m \in T : k <= m  BY <1>1, <1>2, LeastNumber
<1>4. k \in a..n /\ k \notin S /\ k # a  BY <1>3 DEF T
<1>5. k - 1 \in a..(n - 1) /\ k - 1 \in a..n /\ (k - 1) + 1 = k  BY <1>4
<1>6. k - 1 \notin T  BY <1>2, <1>3, <1>5
<1>7. k - 1 \in S  BY <1>5, <1>6 DEF T
<1>8. QED  BY <1>4, <1>5, <1>7

-----------------------------------------------------------------------------
(* A walk, step by step.                                                   *)

Begun == [cursor |-> 0, got |-> {}]

IsWalk(w, steps, len, n) ==
  w = [i \in 0..n |-> IF i = 0 THEN Begun ELSE Step(steps[i], w[i - 1], len)]

LEMMA WalkGoesOn ==
  ASSUME NEW steps, NEW len, NEW n \in Nat, NEW w, IsWalk(w, steps, len, n)
  PROVE  \E v : IsWalk(v, steps, len, n + 1)
<1> DEFINE v == [i \in 0..(n + 1) |-> IF i = n + 1 THEN Step(steps[n + 1], w[n], len) ELSE w[i]]
<1>1. ASSUME NEW i \in 0..(n + 1)
      PROVE  v[i] = IF i = 0 THEN Begun ELSE Step(steps[i], v[i - 1], len)
  <2>1. CASE i = 0      BY <2>1 DEF IsWalk
  <2>2. CASE i = n + 1  BY <2>2 DEF IsWalk
  <2>3. CASE i \in 1..n BY <2>3 DEF IsWalk
  <2>4. QED  BY <2>1, <2>2, <2>3
<1>2. IsWalk(v, steps, len, n + 1)  BY <1>1 DEF IsWalk
<1>3. QED  BY <1>2

LEMMA WalkUnfolds ==
  ASSUME NEW steps, Len(steps) \in Nat, NEW len
  PROVE  /\ Walk(steps, len)[0] = Begun
         /\ \A i \in 1..Len(steps) :
              Walk(steps, len)[i] = Step(steps[i], Walk(steps, len)[i - 1], len)
<1> DEFINE S == {n \in Nat : \E w : IsWalk(w, steps, len, n)}
<1>1. IsWalk([i \in 0..0 |-> Begun], steps, len, 0)  BY DEF IsWalk
<1>2. 0 \in S  BY <1>1
<1>3. ASSUME NEW n \in 0..(Len(steps) - 1), n \in S  PROVE n + 1 \in S
  BY <1>3, WalkGoesOn
<1> HIDE DEF S
<1>4. \A n \in 0..Len(steps) : n \in S  BY <1>2, <1>3, UpTo
<1>5. Len(steps) \in S  BY <1>4
<1>6. PICK v : IsWalk(v, steps, len, Len(steps))  BY <1>5 DEF S
<1>7. Walk(steps, len) = CHOOSE w : IsWalk(w, steps, len, Len(steps))
  BY DEF Walk, IsWalk, Begun
<1>8. IsWalk(Walk(steps, len), steps, len, Len(steps))  BY <1>6, <1>7
<1> DEFINE w == Walk(steps, len)
<1>9. w = [i \in 0..Len(steps) |-> IF i = 0 THEN Begun ELSE Step(steps[i], w[i - 1], len)]
  BY <1>8 DEF IsWalk
<1> HIDE DEF w
<1>10. w[0] = Begun /\ \A i \in 1..Len(steps) : w[i] = Step(steps[i], w[i - 1], len)
  BY <1>9
<1>11. QED  BY <1>10 DEF w

(* The cursor and the fields before step i.                                *)
At(steps, len, i)  == Walk(steps, len)[i - 1].cursor
Got(steps, len, i) == Walk(steps, len)[i - 1].got

(* Where a step reads, whether it is taken, and the field it adds.         *)
Begin(s, cursor)      == IF s.to = Here THEN cursor ELSE s.to
Taken(s, cursor, len) == s.ask = 0 \/ cursor + s.ask <= len
Field(s, cursor)      == [field |-> s.field, at |-> Begin(s, cursor), size |-> s.take]

LEMMA WalkMoves ==
  ASSUME NEW steps, Len(steps) \in Nat, NEW len \in Nat, NEW i \in 1..Len(steps),
         steps[i].ask \in Nat, steps[i].take \in Nat, At(steps, len, i) \in Nat
  PROVE  LET s == steps[i]
             c == At(steps, len, i) IN
         /\ At(steps, len, i + 1) = IF Taken(s, c, len) THEN Begin(s, c) + s.take ELSE c
         /\ Got(steps, len, i + 1) =
              IF Taken(s, c, len) /\ s.field # None
              THEN Got(steps, len, i) \cup {Field(s, c)} ELSE Got(steps, len, i)
<1> DEFINE s == steps[i]
           w == Walk(steps, len)[i - 1]
<1>1. Walk(steps, len)[(i + 1) - 1] = Step(s, w, len)
  <2>1. Walk(steps, len)[i] = Step(steps[i], Walk(steps, len)[i - 1], len)  BY WalkUnfolds
  <2>2. (i + 1) - 1 = i  OBVIOUS
  <2>3. QED  BY <2>1, <2>2
<1>2. w.cursor \in Nat /\ s.ask \in Nat /\ s.take \in Nat  BY DEF At
<1>3. Taken(s, w.cursor, len) <=> ~(s.ask > 0 /\ ~CanRead(w.cursor, s.ask, len))
  BY <1>2 DEF Taken, CanRead
<1> HIDE DEF s, w
<1>4. CASE Taken(s, w.cursor, len)
  <2>1. Step(s, w, len) =
          [cursor |-> Begin(s, w.cursor) + s.take,
           got    |-> IF s.field = None THEN w.got ELSE w.got \cup {Field(s, w.cursor)}]
    BY <1>3, <1>4 DEF Step, Begin, Field
  <2>2. QED  BY <1>1, <1>4, <2>1 DEF At, Got, s, w
<1>5. CASE ~Taken(s, w.cursor, len)
  <2>1. Step(s, w, len) = w  BY <1>3, <1>5 DEF Step
  <2>2. QED  BY <1>1, <1>5, <2>1 DEF At, Got, s, w
<1>6. QED  BY <1>4, <1>5

-----------------------------------------------------------------------------
(* What the walks of the parsers have in common.  place has the cursor     *)
(* before each step of a walk that leaves nothing out.  The first steps,   *)
(* as many as "sure" says, stay in the least length a parser accepts, so   *)
(* that they are always taken.  Behind them are either only steps to fixed *)
(* offsets, each of which asks for enough because the cursor is behind the *)
(* sure steps, or only steps from the cursor, of which none that reads a   *)
(* field asks for less than one before it: once a step is left out, they   *)
(* all are, and no field is read from a place that is not its own.         *)

Sure(s, at, min) ==
  s.to = Here /\ at + s.ask <= min /\ (s.field # None => at + s.take <= min)

Seek(s, low, min) ==
  /\ s.to \in Nat /\ s.ask > 0 /\ low <= s.to + s.take
  /\ s.to + s.take <= min \/ s.to + s.take <= low + s.ask

Follow(s, most) ==
  /\ s.to = Here /\ s.ask > 0 /\ s.ask <= most
  /\ s.field # None => s.ask = most /\ s.take = most

Laid(steps, complete, place) ==
  \A i \in 1..Len(steps) :
    /\ steps[i].ask \in Nat /\ steps[i].take \in Nat /\ place[i] \in Nat
    /\ place[i] + steps[i].ask <= complete
    /\ i < Len(steps) => /\ place[i + 1] = Begin(steps[i], place[i]) + steps[i].take
                         /\ place[i] <= place[i + 1]

Ordered(steps, min, complete, place, sure, most) ==
  /\ Laid(steps, complete, place)
  /\ \A i \in 1..sure : Sure(steps[i], place[i], min)
  /\ \/ \A i \in (sure + 1)..Len(steps) : Seek(steps[i], place[sure + 1], min)
     \/ \A i \in (sure + 1)..Len(steps) : Follow(steps[i], most)

(* The bound is the length of the entries FieldsInPlace compares with.     *)
Orderly(parser, complete, place, sure, most) ==
  /\ Ordered(parser.walk, parser.min, complete, place, sure, most)
  /\ place[1] = 0 /\ Len(parser.walk) \in Nat \ {0}
  /\ sure \in Nat /\ sure <= Len(parser.walk) /\ most \in Nat
  /\ parser.min \in Nat /\ parser.min <= 1000
  /\ complete \in Nat /\ complete <= 1000

IsOrderly(parser, complete) ==
  \E place, sure, most : Orderly(parser, complete, place, sure, most)

(* Where the cursor c is before step i of an entry of len bytes, and, in a *)
(* walk without offsets, what it is worth to be behind its place.          *)
Kept(c, i, len, complete, place, sure) ==
  /\ c \in Nat /\ c <= place[i]
  /\ i <= sure + 1 => c = place[i]
  /\ i > sure => c >= place[sure + 1]
  /\ len >= complete => c = place[i]

Behind(c, i, len, place, sure, most) == i > sure /\ c # place[i] => c + most > len

(* By induction over the steps.                                            *)
LEMMA CursorKept ==
  ASSUME NEW steps, Len(steps) \in Nat \ {0}, NEW min \in Nat, NEW complete \in Nat, NEW place,
         NEW sure \in Nat, NEW most \in Nat, place[1] = 0,
         Ordered(steps, min, complete, place, sure, most), sure <= Len(steps),
         NEW len \in Nat, len >= min
  PROVE  \A i \in 1..Len(steps) :
           /\ Kept(At(steps, len, i), i, len, complete, place, sure)
           /\ \/ \A j \in (sure + 1)..Len(steps) : Seek(steps[j], place[sure + 1], min)
              \/ Behind(At(steps, len, i), i, len, place, sure, most)
<1> DEFINE Seeks == \A j \in (sure + 1)..Len(steps) : Seek(steps[j], place[sure + 1], min)
           Good(i) == /\ Kept(At(steps, len, i), i, len, complete, place, sure)
                      /\ Seeks \/ Behind(At(steps, len, i), i, len, place, sure, most)
           S == {i \in 1..Len(steps) : Good(i)}
<1>1. Laid(steps, complete, place) /\ \A i \in 1..sure : Sure(steps[i], place[i], min)
  BY DEF Ordered
<1>2. Seeks \/ \A i \in (sure + 1)..Len(steps) : Follow(steps[i], most)  BY DEF Ordered
<1> HIDE DEF Seeks
<1>3. 1 \in S
  <2>1. At(steps, len, 1) = 0  BY WalkUnfolds DEF At, Begun
  <2>2. sure > 0 \/ sure = 0  OBVIOUS
  <2>3. Good(1)  BY <2>1, <2>2 DEF Kept, Behind
  <2>4. QED  BY <2>3
<1>4. ASSUME NEW i \in 1..(Len(steps) - 1), i \in S PROVE i + 1 \in S
  <2> SUFFICES Good(i + 1)  OBVIOUS
  <2> DEFINE s  == steps[i]
             c  == At(steps, len, i)
             cc == At(steps, len, i + 1)
  <2>1. Kept(c, i, len, complete, place, sure) /\ (Seeks \/ Behind(c, i, len, place, sure, most))
    BY <1>4
  <2> HIDE DEF Good, S
  <2>2. /\ s.ask \in Nat /\ s.take \in Nat /\ place[i] \in Nat /\ place[i] + s.ask <= complete
        /\ place[i + 1] = Begin(s, place[i]) + s.take /\ place[i] <= place[i + 1]
        /\ place[i + 1] \in Nat
    <3>1. i \in 1..Len(steps) /\ i + 1 \in 1..Len(steps) /\ i < Len(steps)  OBVIOUS
    <3>2. QED  BY <1>1, <3>1 DEF Laid
  <2>3. cc = IF Taken(s, c, len) THEN Begin(s, c) + s.take ELSE c
    <3>1. c \in Nat /\ i \in 1..Len(steps)  BY <2>1 DEF Kept
    <3>2. QED  BY <2>2, <3>1, WalkMoves
  <2>4. CASE i <= sure
    <3>1. Sure(s, place[i], min) /\ c = place[i]  BY <1>1, <2>1, <2>4 DEF Kept
    <3>2. Taken(s, c, len) /\ cc = place[i + 1]  BY <2>2, <2>3, <3>1 DEF Sure, Taken
    <3>3. i + 1 > sure => i + 1 = sure + 1  BY <2>4
    <3> HIDE DEF s, c, cc
    <3>4. Kept(cc, i + 1, len, complete, place, sure) /\ Behind(cc, i + 1, len, place, sure, most)
      BY <2>2, <3>2, <3>3 DEF Kept, Behind
    <3>5. QED  BY <3>4 DEF cc, Good
  <2>5. CASE i > sure
    <3>1. i \in (sure + 1)..Len(steps) /\ i + 1 > sure /\ ~(i + 1 <= sure + 1)  BY <2>5
    <3>2. place[sure + 1] \in Nat
      <4>1. sure + 1 \in 1..Len(steps)  BY <2>5
      <4>2. QED  BY <1>1, <4>1 DEF Laid
    <3>3. /\ c \in Nat /\ c <= place[i] /\ c >= place[sure + 1]
          /\ len >= complete => c = place[i]
      BY <2>1, <2>5 DEF Kept
    <3>4. len >= complete => Taken(s, c, len)  BY <2>2, <3>3, SMTT(30) DEF Taken
    <3>5. CASE Seeks
      <4>1. Seek(s, place[sure + 1], min)  BY <3>1, <3>5 DEF Seeks
      <4>2. Begin(s, c) = s.to /\ Begin(s, place[i]) = s.to  BY <4>1 DEF Begin, Seek, Here
      <4>3. s.to \in Nat /\ place[sure + 1] <= s.to + s.take  BY <4>1 DEF Seek
      <4> HIDE DEF s, c, cc
      <4>4. CASE Taken(s, c, len)
        <5>1. cc = place[i + 1] /\ cc \in Nat /\ place[sure + 1] <= cc
          BY <2>2, <2>3, <4>2, <4>3, <4>4
        <5>2. Kept(cc, i + 1, len, complete, place, sure)  BY <3>1, <5>1 DEF Kept
        <5>3. QED  BY <3>5, <5>2 DEF cc, Good
      <4>5. CASE ~Taken(s, c, len)
        <5>1. cc = c /\ ~(len >= complete) /\ cc <= place[i + 1]
          BY <2>2, <2>3, <3>3, <3>4, <4>5
        <5>2. Kept(cc, i + 1, len, complete, place, sure)  BY <3>1, <3>3, <5>1 DEF Kept
        <5>3. QED  BY <3>5, <5>2 DEF cc, Good
      <4>6. QED  BY <4>4, <4>5
    <3>6. CASE ~Seeks
      <4>1. Follow(s, most) /\ Behind(c, i, len, place, sure, most)  BY <1>2, <2>1, <3>1, <3>6
      <4>2. /\ Begin(s, c) = c /\ Begin(s, place[i]) = place[i]
            /\ s.ask > 0 /\ s.ask <= most
        BY <4>1 DEF Begin, Follow
      <4>3. c # place[i] => c + most > len  BY <2>5, <4>1 DEF Behind
      <4> HIDE DEF s, c, cc
      <4>4. CASE Taken(s, c, len)
        <5>1. /\ cc = c + s.take /\ cc \in Nat /\ cc <= place[i + 1] /\ cc >= place[sure + 1]
              /\ len >= complete => cc = place[i + 1]
              /\ cc # place[i + 1] => cc + most > len
          <6>1. cc = c + s.take /\ place[i + 1] = place[i] + s.take  BY <2>2, <2>3, <4>2, <4>4
          <6>2. cc \in Nat /\ cc <= place[i + 1] /\ cc >= place[sure + 1]
            <7>1. c \in Nat /\ c <= place[i] /\ c >= place[sure + 1]  BY <3>3
            <7>2. s.take \in Nat /\ place[i] \in Nat  BY <2>2
            <7>3. cc \in Nat  BY <6>1, <7>1, <7>2, SMTT(30)
            <7>4. cc <= place[i + 1]  BY <6>1, <7>1, <7>2, SMTT(30)
            <7>5. cc >= place[sure + 1]  BY <3>2, <6>1, <7>1, <7>2, SMTT(30)
            <7>6. QED  BY <7>3, <7>4, <7>5
          <6>3. len >= complete => cc = place[i + 1]  BY <3>3, <6>1
          <6>4. cc # place[i + 1] => cc + most > len
            <7>1. cc # place[i + 1] => c + most > len  BY <4>3, <6>1
            <7>2. QED  BY <2>2, <3>3, <6>1, <7>1, SMTT(30)
          <6>5. QED  BY <6>1, <6>2, <6>3, <6>4
        <5>2. /\ Kept(cc, i + 1, len, complete, place, sure)
              /\ Behind(cc, i + 1, len, place, sure, most)
          BY <3>1, <5>1 DEF Kept, Behind
        <5>3. QED  BY <5>2 DEF cc, Good
      <4>5. CASE ~Taken(s, c, len)
        <5>1. cc = c /\ ~(len >= complete) /\ cc <= place[i + 1] /\ cc + most > len
          <6>1. cc = c /\ ~(len >= complete)  BY <2>3, <3>4, <4>5
          <6>2. cc <= place[i + 1]  BY <2>2, <3>3, <6>1
          <6>3. c + s.ask > len  BY <2>2, <3>3, <4>5, SMTT(30) DEF Taken
          <6>4. c + most > len  BY <2>2, <3>3, <4>2, <6>3
          <6>5. QED  BY <6>1, <6>2, <6>4
        <5>2. /\ Kept(cc, i + 1, len, complete, place, sure)
              /\ Behind(cc, i + 1, len, place, sure, most)
          BY <3>1, <3>3, <5>1 DEF Kept, Behind
        <5>3. QED  BY <5>2 DEF cc, Good
      <4>6. QED  BY <4>4, <4>5
    <3>7. QED  BY <3>5, <3>6
  <2>6. QED  BY <2>4, <2>5
<1> HIDE DEF S
<1>5. \A i \in 1..Len(steps) : i \in S  BY <1>3, <1>4, UpTo
<1>6. QED  BY <1>5 DEF S, Good, Seeks

(* So a field that is read is read in its place and within the entry.      *)
StepFit(s, c, at, len, complete) ==
  /\ s.ask \in Nat /\ s.take \in Nat /\ c \in Nat /\ at \in Nat
  /\ len >= complete => Taken(s, c, len) /\ c = at
  /\ s.field # None /\ Taken(s, c, len) =>
       Begin(s, c) = Begin(s, at) /\ Begin(s, c) + s.take <= len

LEMMA StepsFit ==
  ASSUME NEW parser, NEW complete, NEW place, NEW sure, NEW most,
         Orderly(parser, complete, place, sure, most),
         NEW len \in Nat, len >= parser.min
  PROVE  \A i \in 1..Len(parser.walk) :
           StepFit(parser.walk[i], At(parser.walk, len, i), place[i], len, complete)
<1> DEFINE steps == parser.walk
           min == parser.min
<1> SUFFICES ASSUME NEW i \in 1..Len(steps)
             PROVE  StepFit(steps[i], At(steps, len, i), place[i], len, complete)
  OBVIOUS
<1> DEFINE s == steps[i]
           c == At(steps, len, i)
           Seeks == \A j \in (sure + 1)..Len(steps) : Seek(steps[j], place[sure + 1], min)
<1>1. /\ Len(steps) \in Nat \ {0} /\ min \in Nat /\ complete \in Nat /\ sure \in Nat
      /\ most \in Nat /\ place[1] = 0 /\ sure <= Len(steps)
      /\ Ordered(steps, min, complete, place, sure, most)
  BY DEF Orderly
<1> HIDE DEF steps, min
<1>2. len >= min  BY DEF min
<1>3. /\ Kept(c, i, len, complete, place, sure)
      /\ Seeks \/ Behind(c, i, len, place, sure, most)
  BY <1>1, <1>2, CursorKept
<1> HIDE DEF Seeks
<1>4. /\ Laid(steps, complete, place) /\ \A j \in 1..sure : Sure(steps[j], place[j], min)
      /\ Seeks \/ \A j \in (sure + 1)..Len(steps) : Follow(steps[j], most)
  BY <1>1 DEF Ordered, Seeks
<1>5. /\ s.ask \in Nat /\ s.take \in Nat /\ place[i] \in Nat /\ place[i] + s.ask <= complete
  BY <1>4 DEF Laid
<1>6. c \in Nat /\ (len >= complete => c = place[i])  BY <1>3 DEF Kept
<1>7. len >= complete => Taken(s, c, len)  BY <1>1, <1>5, <1>6 DEF Taken
<1>8. ASSUME s.field # None, Taken(s, c, len)
      PROVE  Begin(s, c) = Begin(s, place[i]) /\ Begin(s, c) + s.take <= len
  <2>1. CASE i <= sure
    <3>1. Sure(s, place[i], min) /\ c = place[i]  BY <1>1, <1>3, <1>4, <2>1 DEF Kept
    <3>2. Begin(s, c) = place[i] /\ place[i] + s.take <= min  BY <1>8, <3>1 DEF Sure, Begin
    <3>3. QED  BY <1>1, <1>2, <1>5, <3>1, <3>2
  <2>2. CASE i > sure
    <3>1. i \in (sure + 1)..Len(steps)  BY <1>1, <2>2
    <3>2. place[sure + 1] \in Nat
      <4>1. sure + 1 \in 1..Len(steps)  BY <1>1, <2>2
      <4>2. QED  BY <1>4, <4>1 DEF Laid
    <3>3. CASE Seeks
      <4>1. Seek(s, place[sure + 1], min) /\ c >= place[sure + 1]
        BY <1>3, <2>2, <3>1, <3>3 DEF Seeks, Kept
      <4>2. Begin(s, c) = s.to /\ Begin(s, place[i]) = s.to  BY <4>1 DEF Begin, Seek, Here
      <4>3. s.to \in Nat /\ s.ask > 0  BY <4>1 DEF Seek
      <4>4. c + s.ask <= len  BY <1>5, <1>8, <4>3 DEF Taken
      <4>5. s.to + s.take <= min \/ s.to + s.take <= place[sure + 1] + s.ask  BY <4>1 DEF Seek
      <4> HIDE DEF s, c
      <4>6. s.to + s.take <= min => s.to + s.take <= len  BY <1>1, <1>2, <1>5, <4>3, SMTT(30)
      <4>7. s.to + s.take <= place[sure + 1] + s.ask => s.to + s.take <= len
        <5>1. c >= place[sure + 1]  BY <4>1
        <5>2. place[sure + 1] + s.ask <= len  BY <1>5, <1>6, <3>2, <4>4, <5>1
        <5>3. QED  BY <1>5, <3>2, <4>3, <5>2
      <4>8. QED  BY <4>2, <4>5, <4>6, <4>7
    <3>4. CASE ~Seeks
      <4>1. Follow(s, most) /\ Behind(c, i, len, place, sure, most)  BY <1>3, <1>4, <3>1, <3>4
      <4>2. /\ Begin(s, c) = c /\ Begin(s, place[i]) = place[i]
            /\ s.ask > 0 /\ s.ask = most /\ s.take = most
        BY <1>8, <4>1 DEF Begin, Follow
      <4>3. c + most <= len  BY <1>5, <1>8, <4>2 DEF Taken
      <4>4. c = place[i]
        <5>1. c # place[i] => c + most > len  BY <2>2, <4>1 DEF Behind
        <5>2. QED  BY <1>1, <1>6, <4>3, <5>1
      <4>5. QED  BY <4>2, <4>3, <4>4
    <3>5. QED  BY <3>3, <3>4
  <2>3. QED  BY <1>1, <2>1, <2>2
<1>9. QED  BY <1>5, <1>6, <1>7, <1>8 DEF StepFit, steps

(* The fields of an entry of len bytes, against those of one of cap bytes. *)
Fit(got, all, len, complete) ==
  /\ got \subseteq all
  /\ \A f \in got : f.at + f.size <= len
  /\ len >= complete => got = all

LEMMA FieldsFit ==
  ASSUME NEW parser, NEW complete, NEW place, NEW sure, NEW most,
         Orderly(parser, complete, place, sure, most),
         NEW len \in Nat, len >= parser.min
  PROVE  LET steps == parser.walk IN
         Fit(Walk(steps, len)[Len(steps)].got, Walk(steps, 1000)[Len(steps)].got, len, complete)
<1> DEFINE steps == parser.walk
           cap == 1000
<1>1. /\ Len(steps) \in Nat \ {0} /\ parser.min <= cap /\ complete <= cap /\ cap \in Nat
      /\ complete \in Nat /\ parser.min \in Nat
  BY DEF Orderly
<1>2. \A i \in 1..Len(steps) :
        StepFit(steps[i], At(steps, len, i), place[i], len, complete)
  BY StepsFit
<1>3. \A i \in 1..Len(steps) :
        StepFit(steps[i], At(steps, cap, i), place[i], cap, complete)
  BY <1>1, StepsFit
<1> HIDE DEF cap, steps
<1> DEFINE Good(i) == Fit(Got(steps, len, i), Got(steps, cap, i), len, complete)
           S == {i \in 1..(Len(steps) + 1) : Good(i)}
<1>4. 1 \in S
  <2>1. Got(steps, len, 1) = {} /\ Got(steps, cap, 1) = {}  BY <1>1, WalkUnfolds DEF Got, Begun
  <2>2. Good(1)  BY <2>1 DEF Fit
  <2>3. QED  BY <2>2
<1>5. ASSUME NEW i \in 1..((Len(steps) + 1) - 1), i \in S  PROVE i + 1 \in S
  <2> DEFINE s == steps[i]
             c == At(steps, len, i)
             d == At(steps, cap, i)
  <2>1. i \in 1..Len(steps) /\ i + 1 \in 1..(Len(steps) + 1)  OBVIOUS
  <2>2. Good(i)  BY <1>5
  <2> HIDE DEF S
  <2>3. /\ s.ask \in Nat /\ s.take \in Nat /\ c \in Nat /\ place[i] \in Nat
        /\ len >= complete => Taken(s, c, len) /\ c = place[i]
        /\ s.field # None /\ Taken(s, c, len) =>
             Begin(s, c) = Begin(s, place[i]) /\ Begin(s, c) + s.take <= len
    BY <1>2, <2>1 DEF StepFit
  <2>4. d \in Nat /\ Taken(s, d, cap) /\ d = place[i]
    BY <1>1, <1>3, <2>1 DEF StepFit
  <2>5. Got(steps, len, i + 1) =
          IF Taken(s, c, len) /\ s.field # None
          THEN Got(steps, len, i) \cup {Field(s, c)} ELSE Got(steps, len, i)
    BY <1>1, <2>1, <2>3, WalkMoves
  <2>6. Got(steps, cap, i + 1) =
          IF s.field # None THEN Got(steps, cap, i) \cup {Field(s, d)} ELSE Got(steps, cap, i)
    BY <1>1, <2>1, <2>3, <2>4, WalkMoves
  <2>7. s.field # None /\ Taken(s, c, len) =>
          Field(s, c) = Field(s, d) /\ Field(s, c).at + Field(s, c).size <= len
    BY <2>3, <2>4 DEF Field
  <2> HIDE DEF s, c, d
  <2>8. CASE s.field # None /\ Taken(s, c, len)
    BY <2>2, <2>5, <2>6, <2>7, <2>8, <2>1 DEF Fit, S
  <2>9. CASE ~(s.field # None /\ Taken(s, c, len))
    <3>1. Got(steps, len, i + 1) = Got(steps, len, i)  BY <2>5, <2>9
    <3>2. Got(steps, cap, i) \subseteq Got(steps, cap, i + 1)  BY <2>6
    <3>3. len >= complete => Got(steps, cap, i + 1) = Got(steps, cap, i)  BY <2>3, <2>6, <2>9
    <3>4. Good(i + 1)  BY <2>2, <3>1, <3>2, <3>3 DEF Fit
    <3>5. QED  BY <2>1, <3>4 DEF S
  <2>10. QED  BY <2>8, <2>9
<1> HIDE DEF S
<1>6. Len(steps) + 1 \in Nat  OBVIOUS
<1>7. \A i \in 1..(Len(steps) + 1) : i \in S  BY <1>4, <1>5, <1>6, UpTo
<1>8. Good(Len(steps) + 1)  BY <1>6, <1>7 DEF S
<1>9. (Len(steps) + 1) - 1 = Len(steps)  OBVIOUS
<1>10. QED  BY <1>8, <1>9 DEF Got, cap, steps

-----------------------------------------------------------------------------
(* The parsers, each with its places.                                      *)

LEMMA ProductOrderly ==
  Orderly(Product, 48, <<0, 9, 21, 23, 24, 28, 36, 40>>, 4, 8)
  BY DEF Product, One, Take, Read, Skip, SkipIf, Orderly, Ordered, Laid, Begin,
         Sure, Follow, Here, None

LEMMA Id30Orderly ==
  Orderly(Id30, 32, <<0, 8, 16, 24>>, 4, 0)
  BY DEF Id30, One, Takes, Take, Orderly, Ordered, Laid, Begin, Sure, Here,
         None

LEMMA Io30Orderly ==
  Orderly(Io30, 4, <<0>>, 1, 0)
  BY DEF Io30, One, Takes, Take, Orderly, Ordered, Laid, Begin, Sure, Here,
         None

LEMMA Perf30Orderly ==
  Orderly(Perf30, 8, <<0, 4>>, 2, 0)
  BY DEF Perf30, One, Takes, Take, Orderly, Ordered, Laid, Begin, Sure, Here,
         None

LEMMA Proc30Orderly ==
  Orderly(Proc30, 12, <<0, 4, 8>>, 3, 0)
<1>1. /\ Len(Proc30.walk) = 3 /\ Proc30.walk[1] = Take("tcb", 4)
      /\ Proc30.walk[2] = Take("srb", 4) /\ Proc30.walk[3] = Take("ziip", 4) /\ Proc30.min = 12
  BY DEF Proc30, One, Takes
<1>2. QED
  BY <1>1, SMTT(30) DEF Take, Orderly, Ordered, Laid, Begin, Sure, Here, None

LEMMA Consume98Orderly ==
  Orderly(Consume98, 12, <<0, 2>>, 1, 0)
  BY DEF Consume98, Each, Read, ReadAt, Orderly, Ordered, Laid, Begin, Sure,
         Seek, Here, None

LEMMA Control70Orderly ==
  Orderly(Control70, 28, <<0, 4>>, 1, 0)
  BY DEF Control70, One, Read, ReadAt, Orderly, Ordered, Laid, Begin, Sure,
         Seek, Here, None

LEMMA Cpu70Orderly ==
  Orderly(Cpu70, 16, <<0, 1>>, 1, 0)
  BY DEF Cpu70, Each, Read, ReadAt, Orderly, Ordered, Laid, Begin, Sure, Seek,
         Here, None

LEMMA Card70_2Orderly ==
  Orderly(Card70_2, 32, <<0, 2, 4, 16>>, 4, 0)
  BY DEF Card70_2, Each, Reads, Read, Skip, Orderly, Ordered, Laid, Begin,
         Sure, Here, None

LEMMA Paging71Orderly ==
  Orderly(Paging71, 36, <<0, 4, 8, 16, 20, 24, 28, 32>>, 7, 4)
  BY DEF Paging71, One, Reads, Read, Skip, Orderly, Ordered, Laid, Begin, Sure,
         Follow, Here, None

LEMMA Control72Orderly ==
  Orderly(Control72, 24, <<0, 8, 16>>, 3, 0)
  BY DEF Control72, One, Reads, Read, Orderly, Ordered, Laid, Begin, Sure,
         Here, None

LEMMA Period72Orderly ==
  Orderly(Period72, 68, <<0, 4, 8, 16, 24, 32, 40, 48, 56, 60>>, 10, 0)
  BY DEF Period72, Each, Reads, Read, Skip, Orderly, Ordered, Laid, Begin,
         Sure, Here, None

LEMMA Chpid73Orderly ==
  Orderly(Chpid73, 20, <<0, 1, 2, 3, 4, 8, 16>>, 7, 0)
  BY DEF Chpid73, Each, Reads, Read, Skip, Orderly, Ordered, Laid, Begin, Sure,
         Here, None

LEMMA Device74Orderly ==
  Orderly(Device74, 116, <<0, 2, 4, 5, 11, 20, 40, 44>>, 4, 0)
  BY DEF Device74, Each, Read, SkipIf, ReadAt, Orderly, Ordered, Laid, Begin,
         Sure, Seek, Here, None

LEMMA Path74_2Orderly ==
  Orderly(Path74_2, 42, <<0, 8, 10, 13, 14, 15, 23, 38>>, 8, 0)
  BY DEF Path74_2, Each, Read, Skip, SkipIf, Orderly, Ordered, Laid, Begin,
         Sure, Here, None

LEMMA Member74_2Orderly ==
  Orderly(Member74_2, 43, <<0, 8, 16, 32, 35, 39>>, 6, 0)
  BY DEF Member74_2, Each, Read, SkipIf, Orderly, Ordered, Laid, Begin, Sure,
         Here, None

LEMMA Omvs74_3Orderly ==
  Orderly(Omvs74_3, 100, <<0, 12, 16, 24, 28, 68, 72, 76, 80, 84, 92>>, 11, 0)
  BY DEF Omvs74_3, One, Read, Skip, SkipIf, Orderly, Ordered, Laid, Begin,
         Sure, Here, None

LEMMA Cf74_4Orderly ==
  Orderly(Cf74_4, 158, <<0, 8, 56>>, 1, 0)
  BY DEF Cf74_4, One, Read, ReadAt, Orderly, Ordered, Laid, Begin, Sure, Seek,
         Here, None

LEMMA Struct74_4Orderly ==
  Orderly(Struct74_4, 36, <<0, 16>>, 1, 0)
  BY DEF Struct74_4, Each, Read, ReadAt, Orderly, Ordered, Laid, Begin, Sure,
         Seek, Here, None

LEMMA Dev74_5Orderly ==
  Orderly(Dev74_5, 34, <<0, 6, 10, 12, 18, 22, 26, 30>>, 7, 4)
  BY DEF Dev74_5, Each, Reads, Read, Skip, Orderly, Ordered, Laid, Begin, Sure,
         Follow, Here, None

LEMMA Global74_6Orderly ==
  Orderly(Global74_6, 32, <<0, 4, 8, 12, 16, 24>>, 4, 8)
  BY DEF Global74_6, One, Reads, Read, Orderly, Ordered, Laid, Begin, Sure,
         Follow, Here, None

LEMMA Port74_7Orderly ==
  Orderly(Port74_7, 68, <<0, 2, 4, 28, 36, 44, 52>>, 7, 0)
  BY DEF Port74_7, Each, Reads, Skip, Read, Orderly, Ordered, Laid, Begin,
         Sure, Here, None

LEMMA Pool74_8Orderly ==
  Orderly(Pool74_8, 24, <<0, 4, 8, 12>>, 4, 0)
  BY DEF Pool74_8, Each, Reads, Read, Skip, Orderly, Ordered, Laid, Begin,
         Sure, Here, None

LEMMA Func74_9Orderly ==
  Orderly(Func74_9, 187, <<0, 4, 36, 38, 64, 72>>, 1, 0)
  BY DEF Func74_9, Each, Read, ReadAt, Orderly, Ordered, Laid, Begin, Sure,
         Seek, Here, None

LEMMA Pageds75Orderly ==
  Orderly(Pageds75, 80, <<0, 44, 50, 52, 56, 60, 64, 68, 72>>, 9, 0)
  BY DEF Pageds75, Each, Reads, Read, Orderly, Ordered, Laid, Begin, Sure,
         Here, None

LEMMA Paging76Orderly ==
  Orderly(Paging76, 24, <<0>>, 1, 0)
  BY DEF Paging76, One, Read, Orderly, Ordered, Laid, Begin, Sure, Here, None

LEMMA Enqueue77Orderly ==
  Orderly(Enqueue77, 64, <<0, 8, 52, 56, 60>>, 4, 4)
  BY DEF Enqueue77, Each, Reads, Read, Skip, Orderly, Ordered, Laid, Begin,
         Sure, Follow, Here, None

LEMMA Lcu78_3Orderly ==
  Orderly(Lcu78_3, 44, <<0, 2, 3, 20>>, 2, 0)
  BY DEF Lcu78_3, Each, Read, ReadAt, Orderly, Ordered, Laid, Begin, Sure,
         Seek, Here, None

LEMMA As79_1Orderly ==
  Orderly(As79_1, 293, <<0, 2, 10, 36, 54, 106>>, 2, 0)
  BY DEF As79_1, Each, Read, ReadAt, Orderly, Ordered, Laid, Begin, Sure, Seek,
         Here, None

LEMMA As79_2Orderly ==
  Orderly(As79_2, 214, <<0, 2, 10, 36, 90>>, 2, 0)
  BY DEF As79_2, Each, Read, ReadAt, Orderly, Ordered, Laid, Begin, Sure, Seek,
         Here, None

LEMMA Event79_13Orderly ==
  Orderly(Event79_13, 10, <<0, 2>>, 2, 0)
  BY DEF Event79_13, Each, Read, Orderly, Ordered, Laid, Begin, Sure, Here,
         None

LEMMA Common1154Orderly ==
  Orderly(Common1154, 64, <<0, 8, 16, 24, 32>>, 5, 0)
  BY DEF Common1154, One, Reads, Read, Skip, Orderly, Ordered, Laid, Begin,
         Sure, Here, None

LEMMA Tcp1154_1Orderly ==
  Orderly(Tcp1154_1, 16, <<0, 8, 9, 12>>, 4, 0)
  BY DEF Tcp1154_1, Each, Read, Skip, Orderly, Ordered, Laid, Begin, Sure,
         Here, None

LEMMA Ftp1154_2Orderly ==
  Orderly(Ftp1154_2, 116, <<0, 4, 5, 21, 23, 27, 29, 31, 115>>, 8, 1)
  BY DEF Ftp1154_2, Each, Reads, Read, Skip, Orderly, Ordered, Laid, Begin,
         Sure, Follow, Here, None

LEMMA Racf1154_83Orderly ==
  Orderly(Racf1154_83, 20, <<0, 1, 11, 13, 15>>, 5, 0)
  BY DEF Racf1154_83, Each, Reads, Read, Skip, Orderly, Ordered, Laid, Begin,
         Sure, Here, None

LEMMA ParsersOrderly == \A p \in DOMAIN Parsers : IsOrderly(Parsers[p], Complete[p])
<1>1. /\ IsOrderly(Product, 48)
      /\ IsOrderly(Id30, 32)
      /\ IsOrderly(Io30, 4)
      /\ IsOrderly(Perf30, 8)
      /\ IsOrderly(Proc30, 12)
      /\ IsOrderly(Consume98, 12)
      /\ IsOrderly(Control70, 28)
      /\ IsOrderly(Cpu70, 16)
      /\ IsOrderly(Card70_2, 32)
      /\ IsOrderly(Paging71, 36)
      /\ IsOrderly(Control72, 24)
      /\ IsOrderly(Period72, 68)
  BY ProductOrderly, Id30Orderly, Io30Orderly, Perf30Orderly, Proc30Orderly,
     Consume98Orderly, Control70Orderly, Cpu70Orderly, Card70_2Orderly,
     Paging71Orderly, Control72Orderly, Period72Orderly
  DEF IsOrderly
<1>2. /\ IsOrderly(Chpid73, 20)
      /\ IsOrderly(Device74, 116)
      /\ IsOrderly(Path74_2, 42)
      /\ IsOrderly(Member74_2, 43)
      /\ IsOrderly(Omvs74_3, 100)
      /\ IsOrderly(Cf74_4, 158)
      /\ IsOrderly(Struct74_4, 36)
      /\ IsOrderly(Dev74_5, 34)
      /\ IsOrderly(Global74_6, 32)
      /\ IsOrderly(Port74_7, 68)
      /\ IsOrderly(Pool74_8, 24)
      /\ IsOrderly(Func74_9, 187)
  BY Chpid73Orderly, Device74Orderly, Path74_2Orderly, Member74_2Orderly,
     Omvs74_3Orderly, Cf74_4Orderly, Struct74_4Orderly, Dev74_5Orderly,
     Global74_6Orderly, Port74_7Orderly, Pool74_8Orderly, Func74_9Orderly
  DEF IsOrderly
<1>3. /\ IsOrderly(Pageds75, 80)
      /\ IsOrderly(Paging76, 24)
      /\ IsOrderly(Enqueue77, 64)
      /\ IsOrderly(Lcu78_3, 44)
      /\ IsOrderly(As79_1, 293)
      /\ IsOrderly(As79_2, 214)
      /\ IsOrderly(Event79_13, 10)
      /\ IsOrderly(Common1154, 64)
      /\ IsOrderly(Tcp1154_1, 16)
      /\ IsOrderly(Ftp1154_2, 116)
      /\ IsOrderly(Racf1154_83, 20)
  BY Pageds75Orderly, Paging76Orderly, Enqueue77Orderly, Lcu78_3Orderly,
     As79_1Orderly, As79_2Orderly, Event79_13Orderly, Common1154Orderly,
     Tcp1154_1Orderly, Ftp1154_2Orderly, Racf1154_83Orderly
  DEF IsOrderly
<1>4. QED  BY <1>1, <1>2, <1>3 DEF Parsers, Complete

(* An entry that is parsed has the least length of its parser, and its     *)
(* fields fit it.                                                          *)
LEMMA InvFieldsFit ==
  ASSUME SectionsInv, NEW i \in DOMAIN found
  PROVE  Fit(found[i].fields, Fields(section.parser, 1000), section.len, Complete[section.parser])
<1>1. /\ section \in Inputs /\ section.parser \in DOMAIN Parsers /\ section.len \in Nat
      /\ Parser.min \in Nat
  BY InputTyped DEF SectionsInv, Parser
<1>2. found[i].fields = Fields(section.parser, section.len)
  <2> DEFINE Entries == [at : Nat, fields : {Fields(section.parser, section.len)}]
  <2>1. found \in Seq(Entries)  BY DEF SectionsInv
  <2> HIDE DEF Entries
  <2>2. found[i] \in Entries  BY <2>1
  <2>3. QED  BY <2>2 DEF Entries
<1>3. section.len >= Parser.min
  <2>1. left # Unknown /\ Len(found) \in Nat /\ Len(found) >= 1  BY DEF SectionsInv
  <2>2. left \in Nat /\ left + Len(found) = Due  BY <2>1 DEF SectionsInv
  <2>3. Due # 0  BY <2>1, <2>2
  <2>4. QED  BY <1>1, <2>3 DEF Due
<1>4. PICK place, sure, most :
        Orderly(Parser, Complete[section.parser], place, sure, most)
  BY <1>1, ParsersOrderly DEF IsOrderly, Parser
<1>5. LET steps == Parser.walk IN
      Fit(Walk(steps, section.len)[Len(steps)].got, Walk(steps, 1000)[Len(steps)].got,
          section.len, Complete[section.parser])
  BY <1>1, <1>3, <1>4, FieldsFit
<1>6. QED  BY <1>2, <1>5 DEF Fields, Parser

LEMMA InvFields == SectionsInv => ReadsInsideRecord /\ FieldsInPlace /\ LongEntriesComplete
<1> SUFFICES ASSUME SectionsInv
             PROVE  ReadsInsideRecord /\ FieldsInPlace /\ LongEntriesComplete
  OBVIOUS
<1>1. ReadsInsideRecord
  <2>1. EntriesInRecord  BY InvInRecord
  <2>2. ASSUME NEW i \in DOMAIN found
        PROVE  \A f \in found[i].fields : f.at + f.size <= section.len
    BY InvFieldsFit DEF Fit
  <2>3. \A i \in DOMAIN found : found[i].at >= 0  BY <2>1 DEF EntriesInRecord
  <2>4. QED  BY <2>1, <2>2, <2>3 DEF ReadsInsideRecord, EntriesInRecord
<1>2. FieldsInPlace  BY InvFieldsFit DEF Fit, FieldsInPlace
<1>3. LongEntriesComplete
  <2>1. ASSUME NEW i \in DOMAIN found, section.len >= Complete[section.parser]
        PROVE  found[i].fields = Fields(section.parser, 1000)
    BY <2>1, InvFieldsFit DEF Fit
  <2>2. QED  BY <2>1 DEF LongEntriesComplete
<1>4. QED  BY <1>1, <1>2, <1>3

-----------------------------------------------------------------------------
(* The theorems.                                                           *)

THEOREM SectionsInvariant == SectionsSpec => []SectionsInv
<1>1. QED  BY SectionsInvInit, SectionsInvStep, PTL DEF SectionsSpec

(* Whatever the triplet holds, the loop parses exactly the announced       *)
(* entries that lie in the record, each at its place: safe_count() of      *)
(* smf_section.h drops none and the break of the loop is never taken.      *)
THEOREM AnnouncedEntriesParsed == SectionsSpec => []EntriesThatFit
<1>1. QED  BY SectionsInvariant, InvCounts, PTL

(* Whatever the triplet holds and however long its entries are, no parser  *)
(* reads a byte behind its entry, nor an entry behind the record: the      *)
(* can_read() of the walks in vendor/mf_records/smf ask for enough.        *)
THEOREM ReadsStayInRecord == SectionsSpec => []ReadsInsideRecord
<1>1. QED  BY SectionsInvariant, InvFields, PTL

(* A short entry costs fields, it moves none: what a parser takes for a    *)
(* field is where an entry with room for everything has it.                *)
THEOREM ShortEntriesMoveNothing == SectionsSpec => []FieldsInPlace
<1>1. QED  BY SectionsInvariant, InvFields, PTL

(* From the length in Complete on, an entry yields every field.            *)
THEOREM LongEntriesYieldAll == SectionsSpec => []LongEntriesComplete
<1>1. QED  BY SectionsInvariant, InvFields, PTL
=============================================================================
