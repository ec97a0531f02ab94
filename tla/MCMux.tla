-------------------------------- MODULE MCMux --------------------------------
(* Small instances of Mux for TLC.                                         *)
EXTENDS Mux

CONSTANTS a, b

Two == {a, b}
OnlyB == {b}
\* Enough for a reader to wait for a block on the other websocket.
Blocks == [s \in Two |-> IF s = a THEN 5 ELSE 2]
=============================================================================
