------------------------------- MODULE Stream -------------------------------
(***************************************************************************)
(* What one direction of a proxied connection promises to its two ends,    *)
(* whatever the number of websockets it is striped over: the blocks read   *)
(* from one TCP connection are written to the other one in order, none     *)
(* skipped and none twice, and the write side is half-closed only after    *)
(* the last block.  Nothing is promised about progress: either side may    *)
(* stop for good at any time.                                              *)
(*                                                                         *)
(* A block is what one conn.Read of pipe.CopyBuffer returned; it is named  *)
(* by its position in the stream.                                          *)
(***************************************************************************)
EXTENDS Naturals, Sequences

VARIABLES
  sent,    \* number of blocks read from the source connection
  ended,   \* the source connection will not be read any more
  recv,    \* the blocks written to the destination connection
  fin      \* the destination connection was half-closed (CloseWrite)

streamVars == <<sent, ended, recv, fin>>

Init ==
  /\ sent = 0
  /\ ended = FALSE
  /\ recv = << >>
  /\ fin = FALSE

Read ==
  /\ ~ended
  /\ sent' = sent + 1
  /\ UNCHANGED <<ended, recv, fin>>

End ==
  /\ ended' = TRUE
  /\ UNCHANGED <<sent, recv, fin>>

Deliver ==
  /\ ~fin
  /\ Len(recv) < sent
  /\ recv' = Append(recv, Len(recv) + 1)
  /\ UNCHANGED <<sent, ended, fin>>

Finish ==
  /\ ended
  /\ Len(recv) = sent
  /\ fin' = TRUE
  /\ UNCHANGED <<sent, ended, recv>>

Next == Read \/ End \/ Deliver \/ Finish

Spec == Init /\ [][Next]_streamVars
=============================================================================
