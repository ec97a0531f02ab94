---------------------------- MODULE MCServerConn ----------------------------
(***************************************************************************)
(* Instances of ServerConn for TLC: which faults a run allows.             *)
(***************************************************************************)
EXTENDS ServerConn

NoFaults == {}
AllFaults == ServerFaults
=============================================================================
