----------------------------- MODULE MCTransfer -----------------------------
(* Small instances of Transfer for TLC.                                    *)
EXTENDS Transfer

\* Everything but a link.Write that gives up.
NoLinkWriteTimeout == FaultKinds \ {"linkWrite"}

\* The session closes both ends; no timer expires.
Closing == {"remove", "removeAll"}
=============================================================================
