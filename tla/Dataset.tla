------------------------------ MODULE Dataset ------------------------------
(***************************************************************************)
(* What a run promises to the readers of its output directory, without     *)
(* buffers, writers or temporary files: rows are received; once no more    *)
(* arrive, files appear, each at once and complete, and none is ever       *)
(* changed or removed; and a run that reports success has published every  *)
(* row it received.                                                        *)
(***************************************************************************)
CONSTANTS
  Row,        \* the rows that can be received
  File,       \* the file names
  FileOf(_)   \* the file a row belongs to

VARIABLES
  received,   \* the rows received so far
  visible,    \* [File -> {} when there is none, else {the rows in it}]
  status      \* reading | publishing | success | failure

dvars == <<received, visible, status>>

RowsOf(f) == {r \in received : FileOf(r) = f}

Init ==
  /\ received = {}
  /\ visible = [f \in File |-> {}]
  /\ status = "reading"

Receive ==
  /\ status = "reading"
  /\ received \subseteq received'
  /\ received' \subseteq Row
  /\ UNCHANGED <<visible, status>>

StopReading ==
  /\ status = "reading"
  /\ status' = "publishing"
  /\ UNCHANGED <<received, visible>>

(* A file appears, once, with every row that belongs to it.                *)
Publish(f) ==
  /\ status = "publishing"
  /\ visible[f] = {}
  /\ RowsOf(f) # {}
  /\ visible' = [visible EXCEPT ![f] = {RowsOf(f)}]
  /\ UNCHANGED <<received, status>>

Succeed ==
  /\ status = "publishing"
  /\ \A f \in File : RowsOf(f) # {} => visible[f] # {}
  /\ status' = "success"
  /\ UNCHANGED <<received, visible>>

Fail ==
  /\ status \in {"reading", "publishing"}
  /\ status' = "failure"
  /\ UNCHANGED <<received, visible>>

Next ==
  \/ Receive
  \/ StopReading
  \/ \E f \in File : Publish(f)
  \/ Succeed
  \/ Fail

Spec == Init /\ [][Next]_dvars
=============================================================================
