------------------------------ MODULE Response ------------------------------
(***************************************************************************)
(* The response of a proxied connection, from the target to the client,    *)
(* and how the server ends it.  Transfer is the data; this module adds     *)
(* what happens when queue.Send of the server returns: establish gets past *)
(* writer.Wait, cleans up, and establishProxy sends a close message on the *)
(* master websocket.  The reader of that websocket at the client calls     *)
(* onClosed, which removes all links of the connection.                    *)
(*                                                                         *)
(* There is one close message; it is behind everything queue.Send wrote to *)
(* websocket 1, so it is delivered when that websocket is empty, and       *)
(* handled when its reader has stored what it had in hand.                 *)
(*                                                                         *)
(* It also adds the deadline under which CopyBuffer reads the target.      *)
(* Every turn of its loop loads d.Line, sets the deadline of the           *)
(* connection from it, and reads.  A second goroutine of establish waits   *)
(* until the request has been written to the target, then stores the short *)
(* time in d.Line and sets the deadline itself, for the read that is       *)
(* already blocked.  Nothing orders the two goroutines.                    *)
(***************************************************************************)
EXTENDS Transfer

VARIABLES
  tell,      \* the close message: "none", "sent" or "handled"
  line,      \* d.Line: "long" (five minutes) or "short" (five seconds)
  readPc,    \* a turn of CopyBuffer: "load", "set", "read"
  loaded,    \* the d.Line that the turn loaded
  deadline,  \* the read deadline of the connection
  waiter,    \* the second goroutine: "wait", "set", "done"
  longReads  \* history: reads that began under the long deadline after it

deadVars == <<line, readPc, loaded, deadline, waiter, longReads>>
respVars == <<vars, tell, deadVars>>

RespInit ==
  /\ Init
  /\ tell = "none"
  /\ line = "long" /\ readPc = "load" /\ loaded = "long"
  /\ deadline = "long" /\ waiter = "wait" /\ longReads = 0

-----------------------------------------------------------------------------
(* The deadline of the read.                                               *)

\* Mutant of LoadLine: CopyBuffer takes the time from NewDead on every turn.
LoadDefault ==
  /\ copyPc = "read" /\ readPc = "load"
  /\ readPc' = "set"
  /\ loaded' = "long"
  /\ UNCHANGED <<vars, tell, line, deadline, waiter, longReads>>

\* time.Now().Add(d.Line) is evaluated ...
LoadLine ==
  /\ copyPc = "read" /\ readPc = "load"
  /\ readPc' = "set"
  /\ loaded' = line
  /\ UNCHANGED <<vars, tell, line, deadline, waiter, longReads>>

\* ... and conn.SetReadDeadline called with it; then conn.Read blocks.
SetReadDeadline ==
  /\ copyPc = "read" /\ readPc = "set"
  /\ readPc' = "read"
  /\ deadline' = loaded
  /\ longReads' = IF waiter = "done" /\ loaded = "long" THEN longReads + 1
                                                       ELSE longReads
  /\ UNCHANGED <<vars, tell, line, loaded, waiter>>

\* link.Wait returns, or there was no link any more: d.Line is shortened.
ShortenLine ==
  /\ waiter = "wait"
  /\ waiter' = "set"
  /\ line' = "short"
  /\ UNCHANGED <<vars, tell, readPc, loaded, deadline, longReads>>

\* The read that is blocked now gets the short deadline too.
ShortenRead ==
  /\ waiter = "set"
  /\ waiter' = "done"
  /\ deadline' = "short"
  /\ UNCHANGED <<vars, tell, line, readPc, loaded, longReads>>

\* conn.Read returns only in the last part of a turn, and ends the turn.
TurnOfCopy ==
  IF copyPc = "read" /\ copyPc' # "read"
    THEN /\ readPc = "read" /\ readPc' = "load"
         /\ UNCHANGED <<line, loaded, deadline, waiter, longReads>>
    ELSE UNCHANGED deadVars

-----------------------------------------------------------------------------
(* The end of the response.                                                *)

\* writer.Wait returns, the deferred cleanup runs, hub.tellClosed writes.
\* The queue leaves its hub, if it is still there, which closes its buffer.
TellClosed ==
  /\ tell = "none"
  /\ qPc = "end"
  /\ tell' = IF 1 \in wsUp THEN "sent" ELSE "handled"
  /\ qOpen' = FALSE
  /\ qStatus' = IF qOpen THEN "close" ELSE qStatus
  /\ UNCHANGED <<copyVars, qBuf, qPc, qIdx, qHeld, qSlot, qData, netVars, hand,
                 lBuf, lOpen, linkVars, connVars, deadVars>>

\* Mutant of OnClosed: onClosed half-closes the connection to the application.
OnClosedHalfCloses ==
  /\ tell = "sent"
  /\ 1 \in wsUp
  /\ ws[1] = << >>
  /\ hand[1] = << >>
  /\ tell' = "handled"
  /\ lOpen' = FALSE
  /\ lStatus' = "close"
  /\ fin' = TRUE
  /\ UNCHANGED <<copyVars, qBuf, qOpen, queueVars, netVars, hand, lBuf, lPc,
                 lIdx, lHeld, lSlot, recv, deadVars>>

\* Mutant of OnClosed: onClosed does not remove the links.
OnClosedKeepsLinks ==
  /\ tell = "sent"
  /\ 1 \in wsUp
  /\ ws[1] = << >>
  /\ hand[1] = << >>
  /\ tell' = "handled"
  /\ UNCHANGED <<vars, deadVars>>

\* The client's reader of websocket 1 takes the close message: onClosed calls
\* remove, and that clientLinkHub.RemoveAll, for links that are still there.
OnClosed ==
  /\ tell = "sent"
  /\ 1 \in wsUp
  /\ ws[1] = << >>
  /\ hand[1] = << >>
  /\ tell' = "handled"
  /\ lOpen' = FALSE
  /\ lStatus' = IF lOpen THEN "close" ELSE lStatus
  /\ UNCHANGED <<copyVars, qBuf, qOpen, queueVars, netVars, hand, lBuf, lPc,
                 lIdx, lHeld, lSlot, connVars, deadVars>>

RespNext ==
  \/ TellClosed
  \/ OnClosed
  \/ LoadLine \/ SetReadDeadline
  \/ ShortenLine \/ ShortenRead
  \/ Next /\ TurnOfCopy /\ UNCHANGED tell

RespSpec == RespInit /\ [][RespNext]_respVars

RespFairSpec ==
  /\ RespSpec
  /\ Fairness
  /\ WF_respVars(TellClosed)
  /\ WF_respVars(OnClosed)

(***************************************************************************)
(* "The server made an error and has us close": the close message is for   *)
(* errors.  Without faults link.Send at the client returns only when it    *)
(* has written every block CopyBuffer read from the target.                *)
(***************************************************************************)
ResponseComplete == lPc = "end" => Len(recv) = blocks

(***************************************************************************)
(* The response ends at the client without the help of its five-minute     *)
(* timer: once CopyBuffer at the server is through, link.Send returns, be  *)
(* it that websockets broke or that the write to the client's connection   *)
(* failed, as long as the master websocket is up to bring the message.     *)
(***************************************************************************)
ResponseEnds == (copyPc = "done") ~> (lPc = "end" \/ 1 \notin wsUp)

(***************************************************************************)
(* "Execute it once right away, so that the read that is stuck now uses    *)
(* the short timeout too": CopyBuffer may have loaded the long time before *)
(* it was shortened and set it after the other goroutine was done, but no  *)
(* later read has it, and the read under way has the short deadline unless *)
(* it is that one.                                                         *)
(***************************************************************************)
OneLongRead ==
  /\ longReads <= 1
  /\ waiter = "done" /\ deadline = "long" => longReads = 1

(***************************************************************************)
(* The close message is one of the disturbances that Transfer allows: what *)
(* is shown of Transfer (order, no truncating half-close) holds here.      *)
(***************************************************************************)
Pipe == INSTANCE Transfer WITH Faults <- Faults \union {"remove", "removeAll"}

(***************************************************************************)
(* With the close message the response is still an ordered stream.         *)
(***************************************************************************)
PipeSpec == Pipe!Spec
=============================================================================
