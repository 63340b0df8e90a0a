------------------------------ MODULE Records -------------------------------
(***************************************************************************)
(* The front of a record: the length test of process_smf_file, the header  *)
(* (vendor/mf_records/smf_reader.h), the subtype the dispatcher looks at   *)
(* (src/main.cpp), and what the parser of the chosen table reads before    *)
(* any section: the header again, its own subtype, and the triplets, each  *)
(* parser from an offset of its own.                                       *)
(*                                                                         *)
(* A read that is not asked for with can_read is asserted, and aborts the  *)
(* process when the record is too short.  A section is read as in Sections.*)
(***************************************************************************)
EXTENDS Routing, Sections

CONSTANT Framed   \* the records that occur, a set of FramedRecord

Uint16 == 0..65535

(* spec is the triplet of the specific section of type 1154; the lengths   *)
(* in it are 32-bit words.                                                 *)
FramedRecord ==
  [extended : BOOLEAN, type : Nat, sub : Uint16, size : Nat,
   spec : [offset : 0..MaxU32, len : 0..MaxU32, count : 0..MaxU32]]

ASSUME FramedAssumption ==
  /\ Framed \subseteq FramedRecord
  /\ \A r \in Framed : ~r.extended => r.type <= 255

VARIABLES
  record,    \* the record at hand
  stage,     \* what is done with it next, or how it ended
  cursor,    \* of the reader
  routed,    \* the subtype the dispatcher saw
  next,      \* the triplet to read
  read       \* history: the bytes read, each with what they were taken for

rvars == <<record, stage, cursor, routed, next, read>>

Field(f, at, n) == [field |-> f, at |-> at, size |-> n]
Fits(at, n) == CanRead(at, n, record.size)

(* The fields of the two headers.                                          *)
StandardHeader ==
  { Field("length", 0, 2), Field("flags", 2, 1), Field("type", 3, 1), Field("time", 4, 4),
    Field("date", 8, 4), Field("system_id", 12, 4), Field("subsystem_id", 16, 4) }
ExtendedHeader ==
  { Field("marker", 0, 2), Field("type", 2, 2), Field("length", 4, 4), Field("flags", 8, 1),
    Field("time", 10, 4), Field("date", 14, 4), Field("system_id", 18, 4),
    Field("subsystem_id", 28, 4) }

Header == IF record.extended THEN ExtendedHeader ELSE StandardHeader
HeaderSize == IF record.extended THEN 32 ELSE 20

(* Mutant of SubtypeAt: the cursor stays behind the subsystem id.          *)
SubtypeAtEnd == HeaderSize

(* Where read_smf_header leaves the cursor.                                *)
SubtypeAt == IF record.extended THEN 22 ELSE 20

(* A list of triplets of three words, and one of the short form, whose     *)
(* reads are asked for.                                                    *)
Long(from, n)  == [i \in 1..n |-> [at |-> from + 12 * (i - 1), size |-> 12, asked |-> FALSE]]
Short(from, n) == [i \in 1..n |-> [at |-> from + 8 * (i - 1), size |-> 8, asked |-> TRUE]]

(* The triplets of each parser.  Type 30 goes on where the cursor is; the  *)
(* first word of type 98 is the number of its triplets.                    *)
Triplets(t, at) ==
  CASE t.type = 30                            -> Long(at, 5)
    [] t.type = 71                            -> Short(24, 2)
    [] t.type = 113                           -> Short(26, 3)
    [] t.type = 98                            ->
         <<[at |-> 28, size |-> 2, asked |-> TRUE]>> \o Short(32, 12)
    [] t.type = 1154                          -> Long(32, 2)
    [] \/ t.type = 72
       \/ t.type = 74 /\ t.sub = 4            -> Long(26, 2) \o Long(74, 1)
    [] t.type = 74 /\ t.sub = 2               -> Long(26, 5)
    [] t.type = 74 /\ t.sub = 7               -> Long(28, 1) \o Long(64, 1)
    [] t.type = 74 /\ t.sub = 8               -> Long(26, 1) \o Long(62, 1)
    [] t.type = 78                            -> Long(28, 3)
    [] \/ t.type = 75 \/ (t.type = 70 /\ t.sub = 2)
       \/ t.type = 74 /\ t.sub \in {3, 6, 9}  -> Long(26, 2)
    [] \/ t.type \in {73, 76, 77, 79} \/ (t.type = 70 /\ t.sub = 1)
       \/ t.type = 74 /\ t.sub \in {1, 5}     -> Long(26, 3)

(* Mutant of Accepted: the parser of type 78 is that of subtype 1.         *)
AcceptedOne(t) ==
  { s \in Uint16 :
      /\ t.type \in {71, 73, 75, 76, 77, 78, 98} => s = 1
      /\ t.type = 72                             => s = 3
      /\ t.type \in {70, 74}                     => s = t.sub }

(* The subtypes a parser goes on with; from any other it returns a record  *)
(* without sections.                                                       *)
Accepted(t) ==
  { s \in Uint16 :
      /\ t.type \in {71, 73, 75, 76, 77, 98} => s = 1
      /\ t.type \in {72, 78}                 => s = 3
      /\ t.type \in {70, 74}                 => s = t.sub }

(* The first table of the record, which decides the parser.                *)
Target == Route(record.type, routed)[1]

(* Type 1154 is parsed whatever its subtype.                               *)
HasParser(s) == Route(record.type, s)[1].via = "sink" \/ record.type = 1154

RecordsInit ==
  /\ record \in Framed
  /\ stage = "framed"
  /\ cursor = 0 /\ routed = 0 /\ next = 1
  /\ read = {}

(* Mutant of CheckLength: 16 bytes are enough.                             *)
CheckLengthLess ==
  /\ stage = "framed"
  /\ stage' = IF Fits(0, 16) THEN "header" ELSE "skipped"
  /\ UNCHANGED <<record, cursor, routed, next, read>>

(* process_smf_file passes over a record of less than 20 bytes.            *)
CheckLength ==
  /\ stage = "framed"
  /\ stage' = IF Fits(0, 20) THEN "header" ELSE "skipped"
  /\ UNCHANGED <<record, cursor, routed, next, read>>

(* read_smf_header, for the dispatcher and again for the parser.           *)
ReadHeader ==
  /\ stage \in {"header", "again"}
  /\ IF Fits(0, HeaderSize)
       THEN /\ stage' = IF stage = "header" THEN "dispatch" ELSE "subtype"
            /\ cursor' = SubtypeAt
            /\ read' = read \cup Header
       ELSE stage' = "aborted" /\ UNCHANGED <<cursor, read>>
  /\ UNCHANGED <<record, routed, next>>

(* peek_subtype and the switch of on_record.                               *)
Dispatch ==
  /\ stage = "dispatch"
  /\ routed' = IF Fits(cursor, 2) THEN record.sub ELSE 0
  /\ read' = IF Fits(cursor, 2) THEN read \cup {Field("subtype", cursor, 2)} ELSE read
  /\ stage' = IF HasParser(routed') THEN "again" ELSE "done"
  /\ UNCHANGED <<record, cursor, next>>

(* The parser's own subtype.                                               *)
ReadSubtype ==
  /\ stage = "subtype"
  /\ LET own == IF Fits(cursor, 2) THEN record.sub ELSE 0 IN
       stage' = IF own \in Accepted(Target) THEN "triplets" ELSE "refused"
  /\ cursor' = IF Fits(cursor, 2) THEN cursor + 2 ELSE cursor
  /\ read' = IF Fits(cursor, 2) THEN read \cup {Field("subtype", cursor, 2)} ELSE read
  /\ UNCHANGED <<record, routed, next>>

(* A triplet of the short form that is not there stays uninitialized; the  *)
(* number of triplets of type 98 that is not there is 0.                   *)
ReadTriplet ==
  /\ stage = "triplets" /\ next <= Len(Triplets(Target, cursor))
  /\ record.type = 98 /\ next = 2 => Fits(28, 2)
  /\ LET t == Triplets(Target, cursor)[next] IN
       /\ next' = next + 1
       /\ IF Fits(t.at, t.size) THEN read' = read \cup {Field(<<"triplet", next>>, t.at, t.size)}
                                     /\ UNCHANGED stage
          ELSE /\ stage' = IF t.asked THEN stage ELSE "aborted"
               /\ UNCHANGED read
  /\ UNCHANGED <<record, cursor, routed>>

(* Type 98 returns if it has less than 12 triplets.                        *)
FewTriplets ==
  /\ stage = "triplets" /\ record.type = 98 /\ next = 2
  /\ stage' = "done"
  /\ UNCHANGED <<record, cursor, routed, next, read>>

TripletsRead ==
  /\ stage = "triplets" /\ next > Len(Triplets(Target, cursor))
  /\ stage' = IF record.type = 1154 THEN "specific" ELSE "done"
  /\ UNCHANGED <<record, cursor, routed, next, read>>

(* What comes of a reader over the specific section.  It takes bytes that  *)
(* are not the record's when the section reaches behind it; the word that  *)
(* says whether a triplet follows needs 4 bytes, the triplet 12 more,      *)
(* asserted.                                                               *)
SpecificOutcomes(s) ==
  IF s.offset + s.len > record.size THEN {"outside"}
  ELSE IF s.len \in 4..15           THEN {"done", "aborted"}
  ELSE {"done"}

(* Mutant of ReadSpecific: the length is left out of the test.             *)
ReadSpecificOffset ==
  /\ stage = "specific"
  /\ LET s == record.spec IN
       stage' \in IF s.count > 0 /\ s.offset <= record.size
                    THEN SpecificOutcomes(s) ELSE {"done"}
  /\ UNCHANGED <<record, cursor, routed, next, read>>

(* The specific section of type 1154, if there is one and it ends in the   *)
(* record.  The end is the sum of two 32-bit words, and is one, too: it    *)
(* wraps before it is compared.                                            *)
ReadSpecific ==
  /\ stage = "specific"
  /\ LET s   == record.spec
         end == (s.offset + s.len) % (MaxU32 + 1) IN
       stage' \in IF s.count > 0 /\ end <= record.size
                    THEN SpecificOutcomes(s) ELSE {"done"}
  /\ UNCHANGED <<record, cursor, routed, next, read>>

RecordsNext ==
  \/ CheckLength \/ ReadHeader \/ Dispatch \/ ReadSubtype
  \/ ReadTriplet \/ FewTriplets \/ TripletsRead \/ ReadSpecific

RecordsSpec == RecordsInit /\ [][RecordsNext]_rvars

(***************************************************************************)
(* Properties.                                                             *)
(***************************************************************************)

(* The switch of main.cpp and the test at the start of each parser are     *)
(* written apart: a record that its subtype routes to a parser is one the  *)
(* parser accepts.  If not, its sink would write a row of zeros or none.   *)
ParserAgrees == stage = "refused" => record.type \in WholeTypes

(* No byte is read as two things: the triplets lie behind the header and   *)
(* the subtype, and the dispatcher and the parser take the same bytes for  *)
(* the subtype.  The offsets of the parsers are those of a standard        *)
(* header, so a record with an extended one counts only for the type that  *)
(* cannot have another.                                                    *)
OneMeaning ==
  \A f, g \in read :
    /\ ~record.extended \/ record.type > 255
    /\ f.at < g.at + g.size /\ g.at < f.at + f.size
    => f = g

(* What aborts a run: an extended header of less than 32 bytes, which the  *)
(* length test lets pass, a record that ends before the triplets of its    *)
(* parser, always within 86 bytes, or a specific section too short for its *)
(* triplet.  No other record does, whatever its bytes are.                 *)
AbortsExplained ==
  stage = "aborted" =>
    \/ record.extended /\ read = {} /\ record.size \in 20..31
    \/ read # {} /\ record.size < 86
    \/ record.type = 1154 /\ record.spec.len \in 4..15

(* The test of the parser of type 1154 keeps its reader in the record,     *)
(* whatever the triplet holds, with one exception: the sum of the two      *)
(* words does not fit in 32 bits.                                          *)
OutsideOnlyByWrap ==
  stage = "outside" => record.spec.offset + record.spec.len > MaxU32
=============================================================================
