----------------------------- MODULE MCStartup -----------------------------
(***************************************************************************)
(* Instances of Startup for TLC.                                           *)
(***************************************************************************)
EXTENDS Startup

\* --nums 0 counts as 1.
FewNums == {0, 2}

\* Older, equal and newer servers, with and without support for the client (4).
SomeServers ==
  {[comp |-> 2, code |-> 3], [comp |-> 3, code |-> 4], [comp |-> 4, code |-> 5],
   [comp |-> 5, code |-> 6]}
=============================================================================
