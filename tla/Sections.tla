------------------------------ MODULE Sections ------------------------------
(***************************************************************************)
(* How the readers of vendor/mf_records/smf find the sections of a record  *)
(* and the fields of their entries: safe_count() and make_section_reader() *)
(* of smf_section.h, the entry loop every reader has, and the walks of the *)
(* section parsers.                                                        *)
(*                                                                         *)
(* An mf::Reader is a span and a cursor.  can_read(n) asks whether n bytes *)
(* are left behind the CURSOR; the parsers that seek to a fixed offset ask *)
(* it with the offset added, before they move the cursor.                  *)
(*                                                                         *)
(* A step of a walk is a record: if "ask" bytes are left, go to "to" (or   *)
(* stay, if it is Here) and take "take" bytes as the field "field".  Take  *)
(* reads without asking; the code only asserts that the bytes are there.   *)
(***************************************************************************)
EXTENDS Integers, Sequences, FiniteSets

CONSTANTS
  MaxU32,     \* the largest value of a field of a triplet
  Inputs      \* the sections that occur, a set of [parser, offset, len, count, size]

Here == -1
None == "none"

Take(f, n)            == [ask |-> 0, to |-> Here, take |-> n, field |-> f]
Read(f, n)            == [ask |-> n, to |-> Here, take |-> n, field |-> f]
Skip(n)               == [ask |-> 0, to |-> Here, take |-> n, field |-> None]
SkipIf(n)             == [ask |-> n, to |-> Here, take |-> n, field |-> None]
ReadAt(f, at, n, ask) == [ask |-> ask, to |-> at, take |-> n, field |-> f]

(* Fields of one size.                                                     *)
Takes(fs, n) == [i \in DOMAIN fs |-> Take(fs[i], n)]
Reads(fs, n) == [i \in DOMAIN fs |-> Read(fs[i], n)]

(***************************************************************************)
(* The section parsers.  min is the length below which a section is not    *)
(* parsed; "one" marks the sections of which only the first instance is    *)
(* read.                                                                   *)
(***************************************************************************)

One(min, walk)  == [one |-> TRUE,  min |-> min, walk |-> walk]
Each(min, walk) == [one |-> FALSE, min |-> min, walk |-> walk]

Product ==
  One(24, <<Skip(9), Take("interval", 12), Take("samples", 2), Skip(1),
            SkipIf(4), SkipIf(8), SkipIf(4), Read("sysplex_name", 8)>>)

Id30   == One(32, Takes(<<"job_name", "step_name", "job_id", "program_name">>, 8))
Io30   == One(4, Takes(<<"excp_count">>, 4))
Perf30 == One(8, Takes(<<"elapsed", "cpu">>, 4))
Proc30 == One(12, Takes(<<"tcb", "srb", "ziip">>, 4))

Control70 == One(16, <<Read("cpc_model", 4), ReadAt("zaap_ziip", 22, 4, 24)>>)
Cpu70     == Each(16, <<Read("cpu_type", 1), ReadAt("wait_parked", 4, 8, 8)>>)
Card70_2  == Each(32, Reads(<<"card_index", "card_type">>, 2) \o
                      <<Skip(12), Read("exec_ops", 16)>>)
Paging71  == One(32, Reads(<<"ins", "outs">>, 4) \o <<Skip(8)>> \o
                     Reads(<<"avg", "max", "min">>, 4) \o <<Skip(4), Read("fixed", 4)>>)
Control72 == One(24, Reads(<<"policy", "workload", "class">>, 8))
Period72  == Each(68, Reads(<<"period_num", "importance">>, 4) \o
                      Reads(<<"service", "cpu", "ioc", "mso", "srb">>, 8) \o
                      <<Skip(8), Read("ended", 4), Read("elapsed", 8)>>)
Chpid73   == Each(20, Reads(<<"chpid", "chpid_type", "flags">>, 1) \o
                      <<Skip(1), Read("busy_count", 4), Skip(8), Read("acronym", 4)>>)

Device74 ==
  Each(29, <<Read("device_num", 2), SkipIf(2), Read("device_flags", 1),
             Read("volume_serial", 6), ReadAt("ssch_count", 16, 4, 16 + 4),
             ReadAt("times", 24, 16, 24 + 16), ReadAt("queue_depth", 40, 4, 40 + 4),
             ReadAt("storage_group", 64, 8, 64 + 8)>>)

(* The cursor is at 23 before the first skip to 38, at 32 before the one   *)
(* to 35, if the entry has the length min.                                 *)
Path74_2   == Each(42, <<Read("system", 8), Read("device_num", 2), Skip(3),
                         Read("direction", 1), Skip(1), Read("other_system", 8),
                         SkipIf(38 - 23), Read("sent", 4)>>)
Member74_2 == Each(43, <<Read("system", 8), Read("group", 8), Read("member", 16),
                         SkipIf(35 - 32), Read("sent", 4), Read("rcvd", 4)>>)
Omvs74_3   == One(100, <<SkipIf(12), Read("syscalls", 4), Skip(8), Read("syscall_cpu", 4),
                         Skip(40), Read("max_processes", 4), Read("max_users", 4),
                         Skip(4), Read("processes", 4), Skip(8), Read("users", 4)>>)
Cf74_4     == One(8, <<Read("cf_name", 8), ReadAt("total_req", 52, 4, 52 + 4),
                       ReadAt("cf_level", 101, 1, 101 + 1)>>)
Struct74_4 == Each(20, <<Read("structure_name", 16), ReadAt("size_4k", 16, 4, 16 + 4)>>)
Dev74_5    == Each(32, <<Read("volser", 6), Skip(4), Read("device_num", 2), Skip(6)>> \o
                       Reads(<<"read_req", "read_hit", "write_req", "write_hit">>, 4))
Global74_6 == One(16, Reads(<<"max_virt", "inuse_virt", "min_fixed", "inuse_fixed">>, 4) \o
                      Reads(<<"hits", "misses">>, 8))
Port74_7   == Each(68, Reads(<<"port_num", "port_addr">>, 2) \o <<Skip(24)>> \o
                       Reads(<<"wrcvd", "wsent", "frcvd", "fsent">>, 8))
Pool74_8   == Each(24, Reads(<<"pool_id", "pool_type">>, 4) \o
                       <<Skip(4), Read("real", 12)>>)
Func74_9   == Each(120, <<Read("pfid", 4), ReadAt("job_name", 28, 8, 28 + 8),
                          ReadAt("asid", 36, 2, 36 + 2), ReadAt("load_ops", 56, 8, 56 + 8),
                          ReadAt("store_ops", 64, 8, 64 + 8),
                          ReadAt("func_type", 114, 1, 114 + 1)>>)
Pageds75   == Each(80, <<Read("dsn", 44), Read("volume_serial", 6), Read("pst_flags", 2)>> \o
                       Reads(<<"total", "max", "min", "avg", "sio", "xfer">>, 4))
Paging76   == One(24, <<Read("counts", 24)>>)
Enqueue77  == Each(60, <<Read("major", 8), Read("minor", 44), Skip(4)>> \o
                       Reads(<<"max_wait", "total_wait">>, 4))

(* Mutant of Lcu78_3: the second check is for the word behind the counter. *)
Lcu78_3Past == Each(32, <<Read("lcu_id", 2), Read("css_id", 1),
                          ReadAt("queue_sum", 16, 4, 13 + 4), ReadAt("queue_count", 20, 4, 24 + 4)>>)
Lcu78_3     == Each(32, <<Read("lcu_id", 2), Read("css_id", 1),
                          ReadAt("queue_sum", 16, 4, 13 + 4), ReadAt("queue_count", 20, 4, 20 + 4)>>)
As79_1      == Each(200, <<Read("asid", 2), Read("job_name", 8), ReadAt("cpu", 32, 4, 32 + 4),
                           ReadAt("real", 50, 4, 50 + 4), ReadAt("class", 98, 8, 98 + 8),
                           ReadAt("ziip", 183, 4, 183 + 4)>>)
As79_2      == Each(150, <<Read("asid", 2), Read("job_name", 8), ReadAt("cpu", 32, 4, 32 + 4),
                           ReadAt("fixed", 86, 4, 86 + 4), ReadAt("class", 116, 8, 116 + 8)>>)
Event79_13  == Each(10, <<Read("event_type", 2), Read("event_data", 8)>>)
Consume98   == Each(10, <<Read("asid", 2), ReadAt("job_name", 2, 8, 2 + 8)>>)
Common1154  == One(64, Reads(<<"system", "sysplex", "job">>, 8) \o <<Skip(8), Read("request", 24)>>)
Tcp1154_1   == Each(16, <<Read("stack", 8), Read("version", 1), Skip(3), Read("up_time", 4)>>)

(* Mutant of Ftp1154_2: the bytes between the ports and the last flag are  *)
(* skipped if they are all there.                                          *)
Ftp1154_2SkipsIf ==
  Each(112, <<Skip(4), Read("anonymous", 1), Skip(16), Read("timeout", 2), Skip(4)>> \o
            Reads(<<"port_min", "port_max">>, 2) \o <<SkipIf(109 - 25), Read("reuse", 1)>>)
Ftp1154_2 ==
  Each(112, <<Skip(4), Read("anonymous", 1), Skip(16), Read("timeout", 2), Skip(4)>> \o
            Reads(<<"port_min", "port_max">>, 2) \o <<Skip(109 - 25), Read("reuse", 1)>>)
Racf1154_83 == Each(20, <<Read("active", 1), Skip(10)>> \o
                        Reads(<<"min_len", "history", "interval">>, 2))

Parsers ==
  [product |-> Product, id30 |-> Id30, io30 |-> Io30, perf30 |-> Perf30, proc30 |-> Proc30,
   consume98 |-> Consume98, control70 |-> Control70, cpu70 |-> Cpu70, card70_2 |-> Card70_2,
   paging71 |-> Paging71, control72 |-> Control72, period72 |-> Period72,
   chpid73 |-> Chpid73, device74 |-> Device74, path74_2 |-> Path74_2,
   member74_2 |-> Member74_2, omvs74_3 |-> Omvs74_3, cf74_4 |-> Cf74_4,
   struct74_4 |-> Struct74_4, dev74_5 |-> Dev74_5, global74_6 |-> Global74_6,
   port74_7 |-> Port74_7, pool74_8 |-> Pool74_8, func74_9 |-> Func74_9,
   pageds75 |-> Pageds75, paging76 |-> Paging76, enqueue77 |-> Enqueue77,
   lcu78_3 |-> Lcu78_3, as79_1 |-> As79_1, as79_2 |-> As79_2, event79_13 |-> Event79_13,
   common1154 |-> Common1154, tcp1154_1 |-> Tcp1154_1, ftp1154_2 |-> Ftp1154_2,
   racf1154_83 |-> Racf1154_83]

(***************************************************************************)
(* One entry.                                                              *)
(***************************************************************************)

(* Mutant of CanRead: as if the cursor were at the start.                  *)
CanReadAbsolute(cursor, n, len) == n <= len

CanRead(cursor, n, len) == cursor + n <= len

(* One step of a walk over an entry of len bytes; w.got has the fields     *)
(* that were read, with the place of their bytes in the entry.             *)
Step(s, w, len) ==
  LET start == IF s.to = Here THEN w.cursor ELSE s.to IN
  IF s.ask > 0 /\ ~CanRead(w.cursor, s.ask, len) THEN w ELSE
  [cursor |-> start + s.take,
   got    |-> IF s.field = None THEN w.got
              ELSE w.got \cup {[field |-> s.field, at |-> start, size |-> s.take]}]

(* The walk over an entry of len bytes: the cursor and the fields before   *)
(* the first step, and after each.                                         *)
Walk(steps, len) ==
  LET w[i \in 0..Len(steps)] ==
        IF i = 0 THEN [cursor |-> 0, got |-> {}] ELSE Step(steps[i], w[i - 1], len)
  IN  w

(* The fields a parser reads in an entry of len bytes.                     *)
Fields(parser, len) ==
  LET steps == Parsers[parser].walk IN Walk(steps, len)[Len(steps)].got

(***************************************************************************)
(* A section.                                                              *)
(***************************************************************************)

(* Mutant of SafeCount: an entry must end before the last byte.            *)
SafeCountStrict(t) ==
  IF t.count = 0 \/ t.len = 0 \/ t.offset >= t.size THEN 0 ELSE
  LET room == (t.size - t.offset - 1) \div t.len IN IF t.count < room THEN t.count ELSE room

(* safe_count(): what reserve() is called with.                            *)
SafeCount(t) ==
  IF t.count = 0 \/ t.len = 0 \/ t.offset >= t.size THEN 0 ELSE
  LET room == (t.size - t.offset) \div t.len IN IF t.count < room THEN t.count ELSE room

(* make_section_reader(); the sum of offset and length is a size_t.        *)
SectionThere(t, min) ==
  t.count > 0 /\ t.len >= min /\ t.offset + t.len <= t.size

VARIABLES
  section,   \* the triplet, with the parser it is for and the record's size
  left,      \* the entries still to visit, or Unknown
  found      \* the entries parsed: their offsets and fields

svars == <<section, left, found>>

Unknown == -1

Parser == Parsers[section.parser]

Entry(off) == [at |-> off, fields |-> Fields(section.parser, section.len)]

SectionsInit ==
  /\ section \in Inputs
  /\ left = Unknown
  /\ found = << >>

(* A section with one instance.                                            *)
ReadSection ==
  /\ left = Unknown /\ Parser.one
  /\ left' = 0
  /\ found' = IF SectionThere(section, Parser.min) THEN <<Entry(section.offset)>> ELSE found
  /\ UNCHANGED section

(* A section with entries: their number is bounded before the loop.        *)
BoundCount ==
  /\ left = Unknown /\ ~Parser.one
  /\ left' = IF section.len >= Parser.min THEN SafeCount(section) ELSE 0
  /\ UNCHANGED <<section, found>>

(* One round of the loop; an entry that would leave the record ends it.    *)
ReadEntry ==
  LET off == section.offset + Len(found) * section.len IN
  /\ left > 0
  /\ IF off + section.len > section.size
       THEN left' = 0 /\ UNCHANGED found
       ELSE left' = left - 1 /\ found' = Append(found, Entry(off))
  /\ UNCHANGED section

SectionsNext == ReadSection \/ BoundCount \/ ReadEntry

SectionsSpec == SectionsInit /\ [][SectionsNext]_svars

(* A triplet is three 32-bit words; what they hold is up to the record.    *)
ASSUME InputsAssumption ==
  /\ MaxU32 \in Nat
  /\ Inputs \subseteq [parser : DOMAIN Parsers, offset : 0..MaxU32, len : 0..MaxU32,
                       count : 0..MaxU32, size : Nat]

(***************************************************************************)
(* Properties.                                                             *)
(***************************************************************************)

(* Whatever a triplet holds - one that a short record of type 71 leaves    *)
(* uninitialized included - each field is read within its entry and each   *)
(* entry within the record.                                                *)
ReadsInsideRecord ==
  \A i \in DOMAIN found :
    /\ found[i].at >= 0
    /\ found[i].at + section.len <= section.size
    /\ \A f \in found[i].fields : f.at + f.size <= section.len

(* The entries the triplet announces that lie in the record as a whole.    *)
Whole(t) == {i \in 0..t.size : i < t.count /\ t.offset + (i + 1) * t.len <= t.size}

(* The parsed entries are the announced ones that lie in the record: the   *)
(* bound of the loop drops none, and the break in it is never taken.       *)
EntriesThatFit ==
  left = 0 /\ section.len >= Parser.min =>
    LET n == Cardinality(Whole(section)) IN
    /\ Len(found) = IF Parser.one /\ n > 1 THEN 1 ELSE n
    /\ \A i \in DOMAIN found : found[i].at = section.offset + (i - 1) * section.len

(* The length of the entry moves no field: what a parser takes for a field *)
(* is where an entry with room for everything has it.                      *)
FieldsInPlace ==
  \A i \in DOMAIN found : found[i].fields \subseteq Fields(section.parser, 1000)

(* The length from which on nothing is left out.  Where the cursor is      *)
(* added to an offset it is larger than the end of the last field.         *)
Complete ==
  [product |-> 48, id30 |-> 32, io30 |-> 4, perf30 |-> 8, proc30 |-> 12,
   consume98 |-> 12, control70 |-> 28, cpu70 |-> 16, card70_2 |-> 32, paging71 |-> 36,
   control72 |-> 24, period72 |-> 68, chpid73 |-> 20, device74 |-> 116, path74_2 |-> 42,
   member74_2 |-> 43, omvs74_3 |-> 100, cf74_4 |-> 158, struct74_4 |-> 36, dev74_5 |-> 34,
   global74_6 |-> 32, port74_7 |-> 68, pool74_8 |-> 24, func74_9 |-> 187, pageds75 |-> 80,
   paging76 |-> 24, enqueue77 |-> 64, lcu78_3 |-> 44, as79_1 |-> 293, as79_2 |-> 214,
   event79_13 |-> 10, common1154 |-> 64, tcp1154_1 |-> 16, ftp1154_2 |-> 116,
   racf1154_83 |-> 20]

(* An entry of that length, or a longer one, yields every field.           *)
LongEntriesComplete ==
  \A i \in DOMAIN found :
    section.len >= Complete[section.parser] =>
      found[i].fields = Fields(section.parser, 1000)
=============================================================================
