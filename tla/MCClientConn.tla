---------------------------- MODULE MCClientConn ----------------------------
(***************************************************************************)
(* Instances of ClientConn for TLC.                                        *)
(***************************************************************************)
EXTENDS ClientConn

AllFaults == ClientFaults
=============================================================================
