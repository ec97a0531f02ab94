----------------------------- MODULE MCRecords ------------------------------
(***************************************************************************)
(* Instances of Records for TLC: three connections, two of them to the     *)
(* same address.                                                           *)
(***************************************************************************)
EXTENDS Records

CONSTANTS x, y, z, l, m   \* connections and loggers

MCConns == {x, y, z}
MCAddrs == {"a", "b"}
MCAddrOf == [i \in MCConns |-> IF i = z THEN "b" ELSE "a"]
MCLoggers == {l, m}
MCRows == 1 .. 6
=============================================================================
