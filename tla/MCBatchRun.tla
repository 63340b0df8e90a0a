----------------------------- MODULE MCBatchRun -----------------------------
(* Instances of BatchRun for TLC.                                          *)
EXTENDS BatchRun

Rec(ty, sub, day, rs) ==
  [kind |-> "record", type |-> ty, sub |-> sub, sys |-> <<"A">>, day |-> day,
   parsing |-> "returns", rows |-> rs]

Job     == Rec(30, 5, 1, <<1>>)       \* one row in one table
Undated == Rec(30, 5, NoDate, <<1>>)  \* the same, with an implausible date
Xcf     == Rec(74, 2, 1, <<2, 1>>)    \* rows in two tables
NoRows  == Rec(72, 3, 1, <<0>>)       \* no service class period
Other   == Rec(99, 6, 1, <<1>>)       \* a router
Unknown == Rec(26, 0, 1, <<1>>)       \* the raw table
Counters(sub) == Rec(113, sub, 1, <<1>>)
Stub(k) == [kind |-> k]

MCSystem == {<<"A">>}
MCTable ==
  UNION {{Route(it.type, it.sub)[i] : i \in DOMAIN Route(it.type, it.sub)} :
           it \in {x \in Item : x.kind = "record"}}
MCType == {x.type : x \in {y \in Item : y.kind = "record"}}
MCTableName == [t \in Table |-> NameOf(t)]
MCRank == [t \in Table |-> RankOf(t)]

Asserting == [Job EXCEPT !.parsing = "asserts"]

MCItem ==
  {Job, Undated, Xcf, NoRows, Other, Unknown, Asserting,
   Stub("short"), Stub("empty"), Stub("overrun")}
MCNoRows == {Job, NoRows}
MCStops == {Job, Stub("overrun"), Stub("empty")}
MCAsserts == {Job, Asserting}
MCCounters == {Counters(0), Counters(1)}
=============================================================================
