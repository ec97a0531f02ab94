----------------------------- MODULE MCResponse -----------------------------
(***************************************************************************)
(* Instances of Response for TLC.                                          *)
(***************************************************************************)
EXTENDS Response

NoFaults == {}
Breaks == {"break", "connWrite", "linkWrite"}
=============================================================================
