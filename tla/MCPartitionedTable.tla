------------------------ MODULE MCPartitionedTable -------------------------
(* Instances of PartitionedTable for TLC.                                  *)
EXTENDS PartitionedTable

CONSTANTS t1, t2

MCTableName == [t \in Table |-> IF t = t1 THEN "SMF30" ELSE "RAW"]
(* Two ids that the sanitizer keeps apart: one plain, one trimmed to nothing. *)
MCSystem == {<<"A">>, << >>}
MCOneSystem == {<<"A">>}
(* Two ids that it does not keep apart.                                    *)
MCCollidingSystems == {<<"#">>, <<"@">>}
MCRank == [t \in Table |-> IF t = t1 THEN 1 ELSE 2]
=============================================================================
