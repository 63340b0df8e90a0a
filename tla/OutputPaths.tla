---------------------------- MODULE OutputPaths ----------------------------
(***************************************************************************)
(* The identity of a partition inside a run and the name of the file its   *)
(* rows are written to (src/sinks/partitioned_table.h).                    *)
(*                                                                         *)
(* A partition is keyed by the RAW system id and the epoch day of the      *)
(* record header; the file is named after the SANITIZED system id.  The    *)
(* two agree only when the sanitizer keeps the system ids of the run       *)
(* apart, which is what PathsInjective states.                             *)
(***************************************************************************)
EXTENDS Integers, Sequences

CONSTANTS
  Table,      \* the PartitionedTable objects of the run
  TableName,  \* [Table -> name]: the table name each was constructed with
  System,     \* the (trimmed) system ids that occur: sequences of characters
  Day,        \* the plausible epoch days that occur
  NoDate,     \* kNoDate: the header date was implausible
  Alnum       \* the characters std::isalnum accepts

(* The unordered_map key, together with the table that owns the map.       *)
Partition == [table : Table, sys : System, day : Day \cup {NoDate}]

(* sanitize(): "UNKNOWN" for an empty id, '_' for every other character.   *)
Sanitize(s) ==
  IF s = << >>
    THEN <<"U", "N", "K", "N", "O", "W", "N">>
    ELSE [i \in DOMAIN s |-> IF s[i] \in Alnum THEN s[i] ELSE "_"]

(* Mutant of MakePath: the date is left out of the name.                   *)
MakePathUndated(p) ==
  [name |-> TableName[p.table], sys |-> Sanitize(p.sys), day |-> NoDate]

(* make_path(): customer, out_root and run_id are the same for every       *)
(* partition of a run, and the year= and month= directories repeat the day *)
(* (which is rendered as "null" when there is none), so what tells two     *)
(* files of a run apart is the table name, the sanitized id and the day.   *)
MakePath(p) ==
  [name |-> TableName[p.table], sys |-> Sanitize(p.sys), day |-> p.day]

Path == {MakePath(p) : p \in Partition}

(* No two partitions of the run share a file.                              *)
PathsInjective ==
  \A p, q \in Partition : MakePath(p) = MakePath(q) => p = q

=============================================================================
