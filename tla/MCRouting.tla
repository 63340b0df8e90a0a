----------------------------- MODULE MCRouting ------------------------------
(***************************************************************************)
(* The routing of every pair of a record type and a subtype the switch of  *)
(* on_record tells apart, and some it does not.                            *)
(***************************************************************************)
EXTENDS Routing, FiniteSets

CONSTANTS
  RecordType,   \* every type with a case of its own, and one without
  Subtype       \* every subtype with a parser for some type, and some without

VARIABLES type, sub

RoutingInit == type \in RecordType /\ sub \in Subtype

(* Every table a record can be written to belongs to a member that         *)
(* SinkSet::close() closes, once: the rows of a member it forgets would    *)
(* stay in the builders and be lost with exit status 0.                    *)
RoutedIsClosed ==
  \A t \in Tables(type, sub) :
    Cardinality({i \in DOMAIN CloseOrder : CloseOrder[i] = MemberOf(t)}) = 1

(* Every table a record can be written to belongs to a member whose rows   *)
(* report() prints: the operator's only count of what was written.         *)
RoutedIsReported == \A t \in Tables(type, sub) : MemberOf(t) \in ReportLines

(* Two tables have one name only when both are tables of type 113: no      *)
(* other two sinks of a run can write to one file.                         *)
NamesDistinguish ==
  type \in RecordType =>
    \A ty \in RecordType, s \in Subtype :
      \A t \in Tables(type, sub), u \in Tables(ty, s) :
        NameOf(t) = NameOf(u) /\ t # u => t.type = 113 /\ u.type = 113
=============================================================================
