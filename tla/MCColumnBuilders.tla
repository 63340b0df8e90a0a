-------------------------- MODULE MCColumnBuilders --------------------------
(***************************************************************************)
(* The builders of every sink of SinkSet and of a table of each kind of    *)
(* router, over a few records.                                             *)
(***************************************************************************)
EXTENDS ColumnBuilders, SinkLayouts

MCLayouts == SinkLayouts \cup {RouterLayout(Router(74, 0)), RouterLayout(Router(99, 5))}

=============================================================================
