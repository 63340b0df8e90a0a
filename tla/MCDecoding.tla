----------------------------- MODULE MCDecoding -----------------------------
(***************************************************************************)
(* What becomes of the parts of a record: its front is read and chooses a  *)
(* parser, its type and subtype the tables, its date the partition, and    *)
(* its triplets the rows.  The four share no state, so a behaviour is      *)
(* about one of them: the front of a record, one routing, a stream of      *)
(* dates, or one section.                                                  *)
(***************************************************************************)
EXTENDS Dates, Records, MCRouting

CONSTANT Years   \* the years of the header dates; the stream ends with the last of a run

VARIABLE about   \* "dates", "section", "route" or "record"

(* The first day of each year, from which the days of the year follow, and *)
(* the dates that are on no calendar: day 0 and the days behind the year,  *)
(* negative fields, and fields whose nibbles are no digits.                *)
MCDates ==
  {Packed(1000 * y + d) : y \in Years, d \in {0, 1, 999} \cup (365..400)}
    \cup {[Packed(1000 * y + d) EXCEPT ![8] = 13] : y \in Years, d \in {0, 1, 366}}
    \cup {[i \in 1..8 |-> 15], <<2, 0, 2, 5, 0, 10, 1, 12>>}

(* Lengths around each bound of the parser.                                *)
Lengths(p) ==
  LET min == Parsers[p].min IN
  {0, 1} \cup ((min - 1)..(min + 9)) \cup {Complete[p] - 1, Complete[p], Complete[p] + 3}

(* A section that ends in, at and behind the record, and records with room *)
(* for up to two entries and a part of the next.                           *)
MCInputs ==
  UNION {
    {[parser |-> p, offset |-> 62, len |-> n, count |-> c, size |-> 62 + r] :
       c \in {0, 1, 2, 3, MaxU32},
       r \in {0, n, n + 1, 2 * n, 2 * n + 1} \cup ({n - 1, 2 * n - 1} \cap Nat)} :
    <<p, n>> \in {<<q, m>> \in (DOMAIN Parsers) \X (0..400) : m \in Lengths(q)}}
  \cup {[parser |-> p, offset |-> o, len |-> n, count |-> c, size |-> 200] :
       p \in DOMAIN Parsers, o \in {0, 199, 200, 201, MaxU32},
       n \in {1, 24, MaxU32}, c \in {1, MaxU32}}

(* Entries of tests/gen_test_smf.cpp: their lengths, for sections where it *)
(* puts a value at the offset of each field the parser has.                *)
TestLengths ==
  [product |-> 48, id30 |-> 32, io30 |-> 4, perf30 |-> 8, proc30 |-> 12,
   control70 |-> 32, control72 |-> 32, period72 |-> 68, cf74_4 |-> 160,
   common1154 |-> 64, tcp1154_1 |-> 16, racf1154_83 |-> 20, lcu78_3 |-> 32,
   struct74_4 |-> 32, as79_1 |-> 220, as79_2 |-> 160, func74_9 |-> 184]

TestInputs ==
  {[parser |-> p, offset |-> 62, len |-> TestLengths[p], count |-> 1,
    size |-> 62 + TestLengths[p]] : p \in DOMAIN TestLengths}

(* A record of each parser, and one without; every length up to the end of *)
(* the longest list of triplets.  The specific section ends in, at and     *)
(* behind the record, and behind what 32 bits hold.                        *)
NoSpec == [offset |-> 0, len |-> 0, count |-> 0]
MCSpecs ==
  {[offset |-> o, len |-> n, count |-> c] :
     o \in {56, 80, MaxU32, MaxU32 - 3}, n \in {0, 3, 4, 15, 16, MaxU32}, c \in {0, 1}}
MCFramed ==
  {[extended |-> e, type |-> ty, sub |-> s, size |-> n, spec |-> NoSpec] :
     e \in BOOLEAN, n \in 15..88,
     <<ty, s>> \in {<<t, u>> \in (RecordType \ {1154}) \X Subtype :
                    u \in ParsedSubtypes(t) \cup {0}}}
  \cup {[extended |-> TRUE, type |-> 1154, sub |-> s, size |-> n, spec |-> p] :
         s \in {0, 1, 83}, n \in {20, 31, 32, 33, 55, 56, 72, 96}, p \in MCSpecs}
NoFramed == {}

NoRecord  == record = None /\ stage = None /\ cursor = 0 /\ routed = 0 /\ next = 0 /\ read = {}
NoStream  == date = [i \in 1..8 |-> 0] /\ time = 0 /\ row = StoredUnder(date, time)
NoSection == section = None /\ left = Unknown /\ found = << >>
NoRoute   == type = 0 /\ sub = 0

Init ==
  \/ about = "dates"   /\ DatesInit    /\ NoSection /\ NoRoute /\ NoRecord
  \/ about = "section" /\ SectionsInit /\ NoStream  /\ NoRoute /\ NoRecord
  \/ about = "route"   /\ RoutingInit  /\ NoStream  /\ NoSection /\ NoRecord
  \/ about = "record"  /\ RecordsInit  /\ NoStream  /\ NoSection /\ NoRoute

Next ==
  \/ /\ about = "dates" /\ YearOf(Following(date)) \in Years
     /\ NextDay
     /\ UNCHANGED <<about, type, sub, svars, rvars>>
  \/ /\ about = "section"
     /\ SectionsNext
     /\ UNCHANGED <<about, type, sub, dvars, rvars>>
  \/ /\ about = "record"
     /\ RecordsNext
     /\ UNCHANGED <<about, type, sub, dvars, svars>>

Spec == Init /\ [][Next]_<<about, type, sub, dvars, svars, rvars>>

(* Each field the test generator puts into an entry is read from it.       *)
TestFieldsRead ==
  about = "section" =>
    \A i \in DOMAIN found : found[i].fields = Fields(section.parser, 1000)
=============================================================================
