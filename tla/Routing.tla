------------------------------ MODULE Routing ------------------------------
(***************************************************************************)
(* Where a record goes: the switch of Dispatcher::on_record, the tables of *)
(* SinkSet with their names, and the order in which they are closed        *)
(* (src/main.cpp).                                                         *)
(*                                                                         *)
(* A table is identified by the sink that owns its PartitionedTable: a     *)
(* parsing sink, the header-only sink a router keeps for one subtype, or   *)
(* the raw sink.                                                           *)
(***************************************************************************)
EXTENDS Integers, Sequences

(* of tells the two sinks of 74-2 apart.                                   *)
Sink(type, sub)   == [via |-> "sink",   type |-> type, sub |-> sub, of |-> "all"]
Router(type, sub) == [via |-> "router", type |-> type, sub |-> sub, of |-> "all"]
Raw               == [via |-> "raw",    type |-> 0,    sub |-> 0,   of |-> "all"]
Paths   == [Sink(74, 2) EXCEPT !.of = "paths"]
Members == [Sink(74, 2) EXCEPT !.of = "members"]

(* The types whose subtype the switch does not look at.                    *)
WholeTypes == {30, 98}

(* The types with a router for the subtypes that have no parser.           *)
RouterTypes == (70..79) \cup {99, 113, 1154}

(* The subtypes with a parser of their own.                                *)
ParsedSubtypes(type) ==
  CASE type \in {71, 73, 75, 76, 77} -> {1}
    [] type = 70                     -> {1, 2}
    [] type \in {72, 78}             -> {3}
    [] type = 74                     -> 1..9
    [] type = 79                     -> {1, 2, 13}
    [] type = 113                    -> {1, 2}
    [] type = 1154                   -> {1, 2, 83}
    [] OTHER                         -> {}

(* The tables on_record writes a record to, in order.                      *)
Route(type, sub) ==
  CASE type \in WholeTypes                               -> <<Sink(type, 0)>>
    [] type \notin WholeTypes \cup RouterTypes           -> <<Raw>>
    [] type \in RouterTypes /\ sub \notin ParsedSubtypes(type)
                                                         -> <<Router(type, sub)>>
    [] type = 74 /\ sub = 2                              -> <<Paths, Members>>
    [] type = 113 /\ sub \in ParsedSubtypes(113)         -> <<Sink(113, 0)>>
    [] OTHER                                             -> <<Sink(type, sub)>>

Tables(type, sub) == {Route(type, sub)[i] : i \in DOMAIN Route(type, sub)}

(* Mutant of NameOf: a router names its tables after the type alone.       *)
NameOfType(t) ==
  CASE t.via = "raw"      -> <<"RAW">>
    [] t.of = "paths"     -> <<"SMF", 74, 2, "P">>
    [] t.of = "members"   -> <<"SMF", 74, 2, "M">>
    [] t.via = "router"   -> <<"SMF", t.type>>
    [] t.via = "sink" /\ t.of = "all" -> <<"SMF", t.type, t.sub>>

(* The table name: "smfNN-S", without "-S" for the sinks of types 30, 98   *)
(* and 113 and for subtype 0 of a router.                                  *)
NameOf(t) ==
  CASE t.via = "raw"      -> <<"RAW">>
    [] t.of = "paths"     -> <<"SMF", 74, 2, "P">>
    [] t.of = "members"   -> <<"SMF", 74, 2, "M">>
    [] t.via # "raw" /\ t.of = "all" /\ t.sub = 0 -> <<"SMF", t.type>>
    [] OTHER              -> <<"SMF", t.type, t.sub>>

(* Mutant of CloseOrder: close() as it was before the routers were added.  *)
CloseOrderOld == << Sink(30, 0), Sink(70, 1), Sink(71, 1), Sink(72, 3), Raw >>

(* SinkSet::close(); a router closes its sinks in the order of the         *)
(* subtypes.                                                               *)
CloseOrder ==
  << Sink(30, 0), Sink(70, 1), Sink(70, 2), Router(70, 0), Sink(71, 1),
     Router(71, 0), Sink(72, 3), Router(72, 0), Sink(73, 1), Router(73, 0),
     Sink(74, 1), Paths, Members, Sink(74, 3), Sink(74, 4), Sink(74, 5),
     Sink(74, 6), Sink(74, 7), Sink(74, 8), Sink(74, 9), Router(74, 0),
     Sink(75, 1), Router(75, 0), Sink(76, 1), Router(76, 0), Sink(77, 1),
     Router(77, 0), Sink(78, 3), Router(78, 0), Sink(79, 1), Sink(79, 2),
     Sink(79, 13), Router(79, 0), Sink(98, 0), Sink(1154, 1), Sink(1154, 2),
     Sink(1154, 83), Router(1154, 0), Router(99, 0), Sink(113, 0),
     Router(113, 0), Raw >>

(* Mutant of ReportLines: the line of router 77 prints router 76 instead.  *)
ReportLinesSlip ==
  LET seen == [i \in DOMAIN CloseOrder |->
                 IF CloseOrder[i] = Router(77, 0) THEN Router(76, 0) ELSE CloseOrder[i]]
  IN {seen[i] : i \in DOMAIN CloseOrder}

(* The members report() prints the rows of.  It has a line for each one    *)
(* that is closed, and a second one for router 76.                         *)
ReportLines ==
  { Sink(30, 0), Sink(70, 1), Sink(70, 2), Router(70, 0), Sink(71, 1), Router(71, 0),
    Sink(72, 3), Router(72, 0), Sink(73, 1), Router(73, 0), Sink(74, 1), Paths, Members }
  \cup {Sink(74, n) : n \in 3..9}
  \cup { Router(74, 0), Sink(75, 1), Router(75, 0), Sink(76, 1), Router(76, 0),
         Sink(77, 1), Router(77, 0), Sink(78, 3), Router(78, 0), Sink(79, 1), Sink(79, 2),
         Sink(79, 13), Router(79, 0), Sink(98, 0), Sink(1154, 1), Sink(1154, 2),
         Sink(1154, 83), Router(1154, 0), Router(99, 0), Sink(113, 0), Router(113, 0), Raw }

(* The member of SinkSet that owns a table.                                *)
MemberOf(t) == IF t.via = "router" THEN [t EXCEPT !.sub = 0] ELSE t

(* A subtype is a uint16_t.                                                *)
RankOf(t) ==
  65536 * (CHOOSE i \in DOMAIN CloseOrder : CloseOrder[i] = MemberOf(t))
    + (IF t.via = "router" THEN t.sub ELSE 0)

=============================================================================
