----------------------------- MODULE RowBuffer ------------------------------
(***************************************************************************)
(* What a partition of a table promises about its rows: the rows of a      *)
(* record enter the buffer together and in order, a batch is the whole     *)
(* buffer, and after a failure nothing is handed over any more.            *)
(*                                                                         *)
(* ColumnBuilders is shown to implement this module, one column and one    *)
(* value at a time.                                                        *)
(***************************************************************************)
EXTENDS Integers, Sequences

VARIABLES
  taken,      \* the number of records taken
  buffered,   \* the rows in the buffer: <<record, entry>>
  handed,     \* the batches handed to the writer
  state

rvars == <<taken, buffered, handed, state>>

RowIds == (Nat \ {0}) \X (Nat \ {0})

(* The rows of record r, when it has n of them.                            *)
RowsOfRecord(r, n) == [k \in 1..n |-> <<r, k>>]

Entered(r) ==
  \/ \E i \in DOMAIN buffered : buffered[i][1] = r
  \/ \E b \in DOMAIN handed : \E i \in DOMAIN handed[b] : handed[b][i][1] = r

RInit ==
  /\ taken = 0
  /\ buffered = << >>
  /\ handed = << >>
  /\ state = "open"

(* A record is taken; it may have no row.                                  *)
Take ==
  /\ state = "open"
  /\ taken' = taken + 1
  /\ UNCHANGED <<buffered, handed, state>>

(* All rows of the record taken last enter the buffer.                     *)
Enter ==
  /\ state = "open"
  /\ taken > 0 /\ ~Entered(taken)
  /\ Len(buffered') > Len(buffered)
  /\ buffered' = buffered \o RowsOfRecord(taken, Len(buffered') - Len(buffered))
  /\ UNCHANGED <<taken, handed, state>>

(* The buffer is handed over, at the threshold or when the table closes.   *)
Hand ==
  /\ state = "open"
  /\ buffered # << >>
  /\ handed' = Append(handed, buffered)
  /\ buffered' = << >>
  /\ state' \in {"open", "closed"}
  /\ UNCHANGED taken

CloseEmpty ==
  /\ state = "open"
  /\ buffered = << >>
  /\ state' = "closed"
  /\ UNCHANGED <<taken, buffered, handed>>

Break ==
  /\ state = "open"
  /\ state' = "failed"
  /\ UNCHANGED <<taken, buffered, handed>>

RNext == Take \/ Enter \/ Hand \/ CloseEmpty \/ Break

RSpec == RInit /\ [][RNext]_rvars

=============================================================================
