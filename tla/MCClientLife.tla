---------------------------- MODULE MCClientLife ----------------------------
(***************************************************************************)
(* Instances of ClientLife for TLC.                                        *)
(***************************************************************************)
EXTENDS ClientLife

CONSTANTS a, b   \* connections

MCConns == {a, b}
AllFaults == LifeFaults
=============================================================================
