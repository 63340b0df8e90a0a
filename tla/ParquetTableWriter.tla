------------------------- MODULE ParquetTableWriter -------------------------
(***************************************************************************)
(* ParquetTableWriter (src/sinks/parquet_table_writer.h) and the part of   *)
(* the file system it uses.  The module offers one action per operation of *)
(* the class, each with the ways it can fail, to the component that owns   *)
(* the writers; it has no next-state relation of its own.                  *)
(*                                                                         *)
(* A writer opens "<path>.tmp" at most once, when it is constructed, so an *)
(* inode is named after the writer that created it.  Opening an existing   *)
(* tmp name truncates the inode behind it instead of creating a new one,   *)
(* which leaves two writers with a descriptor of the same inode.           *)
(***************************************************************************)
EXTENDS FiniteSets

CONSTANTS
  Writer,     \* writer objects: one per partition
  Path,       \* final file names
  PathOf(_),  \* the final path a writer is constructed with
  Row,        \* the rows that can be written
  NoFile      \* no directory entry, or no descriptor

VARIABLES
  wstate,     \* [Writer -> life cycle of the object: see WState]
  fd,         \* [Writer -> the inode behind its FileOutputStream]
  tmp,        \* [Path -> the inode named <path>.tmp]
  final,      \* [Path -> the inode named <path>]
  rows,       \* [inode -> the rows in it]
  openers,    \* [inode -> the writers that opened it for writing]
  footers     \* [inode -> the writers that wrote a Parquet footer to it]

wvars == <<wstate, fd, tmp, final, rows, openers, footers>>

(* none    no object (not constructed, or the constructor threw)           *)
(* open    constructed: writer_ set, closed_ false                         *)
(* ended   closed_ set and Close() done; the rename is next                *)
(* renamed close() returned                                                *)
(* dead    close() threw, or the object was destroyed                      *)
WState == {"none", "open", "ended", "renamed", "dead"}

WTypeOK ==
  /\ wstate  \in [Writer -> WState]
  /\ fd      \in [Writer -> Writer \cup {NoFile}]
  /\ tmp     \in [Path -> Writer \cup {NoFile}]
  /\ final   \in [Path -> Writer \cup {NoFile}]
  /\ rows    \in [Writer -> SUBSET Row]
  /\ openers \in [Writer -> SUBSET Writer]
  /\ footers \in [Writer -> SUBSET Writer]

WInit ==
  /\ wstate  = [w \in Writer |-> "none"]
  /\ fd      = [w \in Writer |-> NoFile]
  /\ tmp     = [f \in Path |-> NoFile]
  /\ final   = [f \in Path |-> NoFile]
  /\ rows    = [w \in Writer |-> {}]
  /\ openers = [w \in Writer |-> {}]
  /\ footers = [w \in Writer |-> {}]

(* A Parquet file a reader can open: one writer wrote all of it, and that  *)
(* writer finished it.  What a file with two writers holds is undefined.   *)
Readable(i) == \E w \in Writer : openers[i] = {w} /\ footers[i] = {w}

(* FileOutputStream::Open(<path>.tmp): create the file, or truncate the    *)
(* one that has the name.                                                  *)
CreateTmp(w) ==
  LET f == PathOf(w)
      i == IF tmp[f] = NoFile THEN w ELSE tmp[f]
  IN /\ tmp'     = [tmp EXCEPT ![f] = i]
     /\ fd'      = [fd EXCEPT ![w] = i]
     /\ rows'    = [rows EXCEPT ![i] = {}]
     /\ openers' = [openers EXCEPT ![i] = @ \cup {w}]

(* Mutant of Construct: the final name is given away at once.              *)
ConstructInPlace(w) ==
  /\ wstate[w] = "none"
  /\ CreateTmp(w)
  /\ final' = [final EXCEPT ![PathOf(w)] = tmp'[PathOf(w)]]
  /\ wstate' = [wstate EXCEPT ![w] = "open"]
  /\ UNCHANGED footers

(* The constructor.                                                        *)
Construct(w) ==
  /\ wstate[w] = "none"
  /\ CreateTmp(w)
  /\ wstate' = [wstate EXCEPT ![w] = "open"]
  /\ UNCHANGED <<final, footers>>

(* The constructor throws: on opening the file, or, with the empty file    *)
(* already created, on opening the Parquet writer over it.                 *)
ConstructFails(w) ==
  /\ wstate[w] = "none"
  /\ \/ UNCHANGED <<fd, tmp, rows, openers>>
     \/ CreateTmp(w)
  /\ UNCHANGED <<wstate, final, footers>>

(* write_batch(): the batch becomes a row group of the inode.              *)
WriteBatch(w, batch) ==
  /\ wstate[w] = "open"
  /\ rows' = [rows EXCEPT ![fd[w]] = @ \cup batch]
  /\ UNCHANGED <<wstate, fd, tmp, final, openers, footers>>

(* close(), first half: closed_ is set, and Close() writes the footer or   *)
(* throws.                                                                 *)
Finish(w) ==
  /\ wstate[w] = "open"
  /\ wstate'  = [wstate EXCEPT ![w] = "ended"]
  /\ footers' = [footers EXCEPT ![fd[w]] = @ \cup {w}]
  /\ UNCHANGED <<fd, tmp, final, rows, openers>>

FinishFails(w) ==
  /\ wstate[w] = "open"
  /\ wstate' = [wstate EXCEPT ![w] = "dead"]
  /\ UNCHANGED <<fd, tmp, final, rows, openers, footers>>

(* Mutant of Rename: the temporary file is copied and left behind.         *)
RenameCopies(w) ==
  /\ wstate[w] = "ended"
  /\ tmp[PathOf(w)] # NoFile
  /\ wstate' = [wstate EXCEPT ![w] = "renamed"]
  /\ final'  = [final EXCEPT ![PathOf(w)] = tmp[PathOf(w)]]
  /\ UNCHANGED <<tmp, fd, rows, openers, footers>>

(* close(), second half: rename replaces whatever has the final name.      *)
Rename(w) ==
  LET f == PathOf(w)
  IN /\ wstate[w] = "ended"
     /\ tmp[f] # NoFile
     /\ wstate' = [wstate EXCEPT ![w] = "renamed"]
     /\ final'  = [final EXCEPT ![f] = tmp[f]]
     /\ tmp'    = [tmp EXCEPT ![f] = NoFile]
     /\ UNCHANGED <<fd, rows, openers, footers>>

(* rename reports an error: always when the tmp name is gone.              *)
RenameFails(w) ==
  /\ wstate[w] = "ended"
  /\ wstate' = [wstate EXCEPT ![w] = "dead"]
  /\ UNCHANGED <<fd, tmp, final, rows, openers, footers>>

(* The destructors that unwinding runs: a writer still open is closed      *)
(* without being renamed, and a failure of that Close() is swallowed.      *)
DestroyAll ==
  LET open == {w \in Writer : wstate[w] = "open"}
  IN /\ wstate' = [w \in Writer |-> IF w \in open THEN "dead" ELSE wstate[w]]
     /\ \E done \in SUBSET open :
          footers' = [i \in Writer |->
                        footers[i] \cup {w \in done : fd[w] = i}]
     /\ UNCHANGED <<fd, tmp, final, rows, openers>>

=============================================================================
