------------------------------ MODULE Transfer ------------------------------
(***************************************************************************)
(* One direction of one proxied connection, from the TCP connection that   *)
(* pipe.CopyBuffer reads to the TCP connection that pipe.link.Send writes: *)
(*                                                                         *)
(*   CopyBuffer --> queue.buffer --> queue.Send --> websocket 1 .. N       *)
(*     --> one reader goroutine per websocket --> link.buffer 1 .. N       *)
(*     --> link.Send --> conn                                              *)
(*                                                                         *)
(* queue.Send deals the blocks round robin to the websockets, link.Send    *)
(* collects them round robin; nothing in a message says where it belongs.  *)
(* The module serves both directions: client queue and server links, or    *)
(* server queue and client links.  It starts when both Send goroutines     *)
(* have been spawned, once each; how that comes about on the server is     *)
(* module ServerConn.                                                      *)
(*                                                                         *)
(* A block of data is named by its position in the stream, 0 is the empty  *)
(* block.  The websockets are named 1 .. N in the order of "sorted", so    *)
(* the master websocket is 1.                                              *)
(***************************************************************************)
EXTENDS Integers, Sequences

CONSTANTS
  N,          \* websockets of the client (--nums)
  Cap,        \* capacity of the buffers made by makeBuffer (10, or 1 for debug)
  MaxBlocks,  \* bound: blocks the source connection yields
  MaxSlots,   \* bound: blocks queue.Send takes, empty ones included
  Faults      \* which of FaultKinds may happen

(***************************************************************************)
(* queueRead, queueWrite, linkRead, linkWrite: a five-minute timer of      *)
(* readWithTimeout or writeBuf expires.  remove, removeAll: the session    *)
(* takes the queue or the links out of their hub.  cancel: the client      *)
(* cancels its websocket writers.  break: a websocket breaks.  connWrite:  *)
(* writing to the destination connection fails.                            *)
(***************************************************************************)
FaultKinds ==
  {"queueRead", "queueWrite", "linkRead", "linkWrite",
   "remove", "removeAll", "cancel", "break", "connWrite"}

ASSUME TransferAssumption ==
  /\ N \in Nat \ {0}
  /\ Cap \in Nat \ {0}
  /\ MaxBlocks \in Nat
  /\ MaxSlots \in Nat
  /\ Faults \subseteq FaultKinds

Chans == 1 .. N

VARIABLES
  blocks,     \* number of blocks CopyBuffer has read
  copyPc,     \* where CopyBuffer is
  qBuf,       \* queue.buffer
  qOpen,      \* the queue is in its hub and its buffer is not closed
  qStatus,    \* queue.status
  qPc,        \* where queue.Send is
  qIdx,       \* its position in sorted
  qHeld,      \* the block it took last
  cancelled,  \* the websocket writers whose context is cancelled
  wsUp,       \* the websockets that are up
  ws,         \* messages under way on each websocket
  hand,       \* the message the reader of a websocket is storing (0 or 1)
  lBuf,       \* link.buffer of each link
  lOpen,      \* the links are in their hub and their buffers not closed
  lStatus,    \* status of the master link
  lPc,        \* where link.Send is
  lIdx,       \* its position in sorted
  lHeld,      \* the block it took last
  recv,       \* the blocks written to the destination
  fin,        \* the destination has been half-closed
  qSlot,      \* history: blocks queue.Send has taken
  qData,      \* history: those of them that were data
  lSlot       \* history: blocks link.Send has taken

copyVars  == <<blocks, copyPc>>
queueVars == <<qStatus, qPc, qIdx, qHeld, qSlot, qData>>
netVars   == <<cancelled, wsUp, ws>>
linkVars  == <<lStatus, lPc, lIdx, lHeld, lSlot>>
connVars  == <<recv, fin>>
vars == <<copyVars, qBuf, qOpen, queueVars, netVars, hand, lBuf, lOpen,
          linkVars, connVars>>

(***************************************************************************)
(* pipe.buffer; its eof flag is the kind.  In a message, slot is history:  *)
(* the position of the block in the order in which queue.Send took them.   *)
(***************************************************************************)
Buffer == [kind : {"data", "eof"}, data : Nat]
Message == [kind : {"data", "eof"}, data : Nat, slot : Nat]

DataBlock(n) == [kind |-> "data", data |-> n]
EOFBlock == [kind |-> "eof", data |-> 0]

Status == {"wait", "send", "done", "close"}

Init ==
  /\ blocks = 0
  /\ copyPc = "read"
  /\ qBuf = << >>
  /\ qOpen = TRUE
  /\ qStatus = "wait"
  /\ qPc = "start"
  /\ qIdx = 1
  /\ qHeld = [kind |-> "data", data |-> 0, slot |-> 0]
  /\ cancelled = {}
  /\ wsUp = Chans
  /\ ws = [c \in Chans |-> << >>]
  /\ hand = [c \in Chans |-> << >>]
  /\ lBuf = [c \in Chans |-> << >>]
  /\ lOpen = TRUE
  /\ lStatus = "wait"
  /\ lPc = "start"
  /\ lIdx = 1
  /\ lHeld = [kind |-> "data", data |-> 0, slot |-> 0]
  /\ recv = << >>
  /\ fin = FALSE
  /\ qSlot = 0
  /\ qData = 0
  /\ lSlot = 0

-----------------------------------------------------------------------------
(* CopyBuffer, with the queue.Write and queue.WriteEOF it calls.           *)

\* A send on the channel does not block.
Room(buf) == Len(buf) < Cap

\* Mutant of AfterFailedWrite: CopyBuffer writes an end marker although the
\* block before it was not accepted.
EOFAfterFailedWrite(pc) == IF pc = "put" THEN "writeEOF" ELSE "done"

\* CopyBuffer leaves its loop on errors #1 and #2 and does not call WriteEOF.
AfterFailedWrite(pc) == "done"

\* conn.Read returned data.
CopyRead ==
  /\ copyPc = "read"
  /\ blocks < MaxBlocks
  /\ blocks' = blocks + 1
  /\ copyPc' = "write"
  /\ UNCHANGED <<qBuf, qOpen, queueVars, netVars, hand, lBuf, lOpen,
                 linkVars, connVars>>

\* conn.Read returned io.EOF, or an error: WriteEOF is called for both.
CopyEnd ==
  /\ copyPc = "read"
  /\ copyPc' = "writeEOF"
  /\ UNCHANGED <<blocks, qBuf, qOpen, queueVars, netVars, hand, lBuf, lOpen,
                 linkVars, connVars>>

\* writeBuf gives up when Send is over, otherwise it goes on to its select.
QueueCheck ==
  /\ copyPc \in {"write", "writeEOF"}
  /\ copyPc' = IF qStatus = "done" THEN "done"
               ELSE IF copyPc = "write" THEN "put" ELSE "putEOF"
  /\ UNCHANGED <<blocks, qBuf, qOpen, queueVars, netVars, hand, lBuf, lOpen,
                 linkVars, connVars>>

\* The block, or the end marker, enters the buffer.
QueuePut ==
  /\ copyPc \in {"put", "putEOF"}
  /\ qOpen
  /\ Room(qBuf)
  /\ qBuf' = Append(qBuf, IF copyPc = "put" THEN DataBlock(blocks) ELSE EOFBlock)
  /\ copyPc' = IF copyPc = "put" THEN "read" ELSE "done"
  /\ UNCHANGED <<blocks, qOpen, queueVars, netVars, hand, lBuf, lOpen,
                 linkVars, connVars>>

\* The send on the closed buffer panics, is recovered and returns 0, nil,
\* which CopyBuffer takes for a short write; or five minutes go by with the
\* buffer full, as Send is stuck in a websocket write or over.  Either way
\* CopyBuffer returns and no end marker is written.
QueuePutFails ==
  /\ copyPc \in {"put", "putEOF"}
  /\ \/ ~qOpen
     \/ ~Room(qBuf) /\ qPc \in {"write", "end"} /\ "queueWrite" \in Faults
  /\ copyPc' = AfterFailedWrite(copyPc)
  /\ UNCHANGED <<blocks, qBuf, qOpen, queueVars, netVars, hand, lBuf, lOpen,
                 linkVars, connVars>>

-----------------------------------------------------------------------------
(* queue.Send.                                                             *)

\* Return from Send: the deferred function sets the status.
QueueReturn ==
  /\ qPc' = "end"
  /\ qStatus' = "done"

\* Send starts: its guard lets "wait" and "close" through.
QueueStart ==
  /\ qPc = "start"
  /\ qStatus \notin {"send", "done"}
  /\ qStatus' = "send"
  /\ qPc' = "top"
  /\ UNCHANGED <<copyVars, qBuf, qOpen, qIdx, qHeld, qSlot, qData, netVars,
                 hand, lBuf, lOpen, linkVars, connVars>>

\* Mutant of QueueTop: "close" is never noticed.
QueueTopUnchecked ==
  /\ qPc = "top"
  /\ qPc' = "read"
  /\ UNCHANGED <<copyVars, qBuf, qOpen, qStatus, qIdx, qHeld, qSlot, qData,
                 netVars, hand, lBuf, lOpen, linkVars, connVars>>

\* The head of the outer loop, the only place where "close" is noticed.
QueueTop ==
  /\ qPc = "top"
  /\ IF qStatus = "close"
       THEN QueueReturn
       ELSE qPc' = "read" /\ UNCHANGED qStatus
  /\ UNCHANGED <<copyVars, qBuf, qOpen, qIdx, qHeld, qSlot, qData, netVars,
                 hand, lBuf, lOpen, linkVars, connVars>>

\* readWithTimeout takes a block from the buffer, closed or not.
QueueRead ==
  /\ qPc = "read"
  /\ qBuf # << >>
  /\ qHeld' = [kind |-> Head(qBuf).kind, data |-> Head(qBuf).data,
               slot |-> qSlot + 1]
  /\ qBuf' = Tail(qBuf)
  /\ qSlot' = qSlot + 1
  /\ qData' = IF Head(qBuf).kind = "eof" THEN qData ELSE qData + 1
  /\ qPc' = "write"
  /\ UNCHANGED <<copyVars, qOpen, qStatus, qIdx, netVars, hand, lBuf, lOpen,
                 linkVars, connVars>>

\* readWithTimeout on the closed, drained buffer: the zero value, no error.
QueueReadClosed ==
  /\ qPc = "read"
  /\ qBuf = << >>
  /\ ~qOpen
  /\ qSlot < MaxSlots
  /\ qHeld' = [kind |-> "data", data |-> 0, slot |-> qSlot + 1]
  /\ qSlot' = qSlot + 1
  /\ qPc' = "write"
  /\ UNCHANGED <<copyVars, qBuf, qOpen, qStatus, qIdx, qData, netVars, hand,
                 lBuf, lOpen, linkVars, connVars>>

QueueReadTimeout ==
  /\ "queueRead" \in Faults
  /\ qPc = "read"
  /\ qBuf = << >>
  /\ qOpen
  /\ QueueReturn
  /\ UNCHANGED <<copyVars, qBuf, qOpen, qIdx, qHeld, qSlot, qData, netVars,
                 hand, lBuf, lOpen, linkVars, connVars>>

\* Mutant of NextWriter: no new round starts after the last writer.
NextWriterStays(i) == IF i < N THEN i + 1 ELSE N

\* The writer after position i in "range q.sorted"; N starts a new round.
NextWriter(i) == IF i < N THEN i + 1 ELSE 1

\* The block goes out on websocket qIdx: webSocketWriter.Write or WriteEOF.
QueueWrite ==
  /\ qPc = "write"
  /\ qIdx \in wsUp \ cancelled
  /\ ws' = [ws EXCEPT ![qIdx] = Append(@, qHeld)]
  /\ IF qHeld.kind = "eof"
       THEN QueueReturn /\ UNCHANGED qIdx
       ELSE /\ qIdx' = NextWriter(qIdx)
            /\ qPc' = IF qIdx < N THEN "read" ELSE "top"
            /\ UNCHANGED qStatus
  /\ UNCHANGED <<copyVars, qBuf, qOpen, qHeld, qSlot, qData, cancelled, wsUp,
                 hand, lBuf, lOpen, linkVars, connVars>>

\* The write fails: Send returns the error, and after WriteEOF it returns
\* in any case.
QueueWriteFails ==
  /\ qPc = "write"
  /\ qIdx \notin wsUp \ cancelled
  /\ QueueReturn
  /\ UNCHANGED <<copyVars, qBuf, qOpen, qIdx, qHeld, qSlot, qData, netVars,
                 hand, lBuf, lOpen, linkVars, connVars>>

-----------------------------------------------------------------------------
(* The websockets, and the goroutine at the receiving end of each.         *)

\* The deferred CloseWsWriter of one writer, when transData returns.  It
\* takes the mutex of the writer, so it never falls into a Write.
CloseWsWriter(c) ==
  /\ "cancel" \in Faults
  /\ c \notin cancelled
  /\ cancelled' = cancelled \union {c}
  /\ UNCHANGED <<copyVars, qBuf, qOpen, queueVars, wsUp, ws, hand, lBuf,
                 lOpen, linkVars, connVars>>

\* A websocket breaks, what was under way on it is lost.
Break(c) ==
  /\ "break" \in Faults
  /\ c \in wsUp
  /\ wsUp' = wsUp \ {c}
  /\ ws' = [ws EXCEPT ![c] = << >>]
  /\ UNCHANGED <<copyVars, qBuf, qOpen, queueVars, cancelled, hand, lBuf,
                 lOpen, linkVars, connVars>>

\* A data message arrives.  It is dropped when the link is not in the hub,
\* and when it is the master link and Send is over; the status of the other
\* links is never "done".
Receive(c) ==
  /\ hand[c] = << >>
  /\ ws[c] # << >>
  /\ ws' = [ws EXCEPT ![c] = Tail(@)]
  /\ IF lOpen /\ ~(c = 1 /\ lStatus = "done")
       THEN hand' = [hand EXCEPT ![c] = <<Head(ws[c])>>]
       ELSE UNCHANGED hand
  /\ UNCHANGED <<copyVars, qBuf, qOpen, queueVars, cancelled, wsUp, lBuf,
                 lOpen, linkVars, connVars>>

\* The select of link.writeBuf: the message enters the buffer of its link.
LinkPut(c) ==
  /\ hand[c] # << >>
  /\ lOpen
  /\ Room(lBuf[c])
  /\ lBuf' = [lBuf EXCEPT ![c] = Append(@, Head(hand[c]))]
  /\ hand' = [hand EXCEPT ![c] = << >>]
  /\ UNCHANGED <<copyVars, qBuf, qOpen, queueVars, netVars, lOpen, linkVars,
                 connVars>>

\* The send on the closed buffer panics and is recovered; or five minutes go
\* by with the buffer full, as Send waits for another websocket, is stuck in
\* conn.Write or over.  No caller looks at the result of link.Write: the
\* message is dropped and the reader goes on to the next one.
LinkPutFails(c) ==
  /\ hand[c] # << >>
  /\ \/ ~lOpen
     \/ ~Room(lBuf[c]) /\ lPc \in {"read", "write", "end"} /\ "linkWrite" \in Faults
  /\ hand' = [hand EXCEPT ![c] = << >>]
  /\ UNCHANGED <<copyVars, qBuf, qOpen, queueVars, netVars, lBuf, lOpen,
                 linkVars, connVars>>

-----------------------------------------------------------------------------
(* link.Send.                                                              *)

LinkReturn ==
  /\ lPc' = "end"
  /\ lStatus' = "done"

LinkStart ==
  /\ lPc = "start"
  /\ lStatus \notin {"send", "done"}
  /\ lStatus' = "send"
  /\ lPc' = "top"
  /\ UNCHANGED <<copyVars, qBuf, qOpen, queueVars, netVars, hand, lBuf, lOpen,
                 lIdx, lHeld, lSlot, connVars>>

LinkTop ==
  /\ lPc = "top"
  /\ IF lStatus = "close"
       THEN LinkReturn
       ELSE lPc' = "get" /\ UNCHANGED lStatus
  /\ UNCHANGED <<copyVars, qBuf, qOpen, queueVars, netVars, hand, lBuf, lOpen,
                 lIdx, lHeld, lSlot, connVars>>

\* Mutant of LinkGet: Send takes it that the link is in the hub.
LinkGetUnchecked ==
  /\ lPc = "get"
  /\ lPc' = "read"
  /\ UNCHANGED <<copyVars, qBuf, qOpen, queueVars, netVars, hand, lBuf, lOpen,
                 lStatus, lIdx, lHeld, lSlot, connVars>>

\* hub.Get(id) of the next link.
LinkGet ==
  /\ lPc = "get"
  /\ IF lOpen
       THEN lPc' = "read" /\ UNCHANGED lStatus
       ELSE LinkReturn
  /\ UNCHANGED <<copyVars, qBuf, qOpen, queueVars, netVars, hand, lBuf, lOpen,
                 lIdx, lHeld, lSlot, connVars>>

LinkRead ==
  /\ lPc = "read"
  /\ lBuf[lIdx] # << >>
  /\ lHeld' = Head(lBuf[lIdx])
  /\ lBuf' = [lBuf EXCEPT ![lIdx] = Tail(@)]
  /\ lSlot' = lSlot + 1
  /\ lPc' = "write"
  /\ UNCHANGED <<copyVars, qBuf, qOpen, queueVars, netVars, hand, lOpen,
                 lStatus, lIdx, connVars>>

\* The zero value from the closed, drained buffer.
LinkReadClosed ==
  /\ lPc = "read"
  /\ lBuf[lIdx] = << >>
  /\ ~lOpen
  /\ lHeld' = [kind |-> "data", data |-> 0, slot |-> 0]
  /\ lPc' = "write"
  /\ UNCHANGED <<copyVars, qBuf, qOpen, queueVars, netVars, hand, lBuf, lOpen,
                 lStatus, lIdx, lSlot, connVars>>

LinkReadTimeout ==
  /\ "linkRead" \in Faults
  /\ lPc = "read"
  /\ lBuf[lIdx] = << >>
  /\ lOpen
  /\ LinkReturn
  /\ UNCHANGED <<copyVars, qBuf, qOpen, queueVars, netVars, hand, lBuf, lOpen,
                 lIdx, lHeld, lSlot, connVars>>

\* Mutant of NextLink: the loop does not move on to the next link.
NextLinkStays(i) == i

\* Mutant of NextLink: a new round starts with the second link.
NextLinkSkipsMaster(i) == IF i < N THEN i + 1 ELSE IF N > 1 THEN 2 ELSE 1

\* The link after position i in "range q.sorted".
NextLink(i) == IF i < N THEN i + 1 ELSE 1

\* safeWrite: the block is written, or the connection half-closed.
LinkWrite ==
  /\ lPc = "write"
  /\ recv' = IF lHeld.data = 0 THEN recv ELSE Append(recv, lHeld.data)
  /\ IF lHeld.kind = "eof"
       THEN fin' = TRUE /\ LinkReturn /\ UNCHANGED lIdx
       ELSE /\ lIdx' = NextLink(lIdx)
            /\ lPc' = IF lIdx < N THEN "get" ELSE "top"
            /\ UNCHANGED <<lStatus, fin>>
  /\ UNCHANGED <<copyVars, qBuf, qOpen, queueVars, netVars, hand, lBuf, lOpen,
                 lHeld, lSlot>>

LinkWriteFails ==
  /\ "connWrite" \in Faults
  /\ lPc = "write"
  /\ LinkReturn
  /\ UNCHANGED <<copyVars, qBuf, qOpen, queueVars, netVars, hand, lBuf, lOpen,
                 lIdx, lHeld, lSlot, connVars>>

-----------------------------------------------------------------------------
(* The session ends the transfer, at either side and at any time.          *)

\* QueueHub.Remove: the queue is closed and leaves its hub.
Remove ==
  /\ "remove" \in Faults
  /\ qOpen
  /\ qOpen' = FALSE
  /\ qStatus' = "close"
  /\ UNCHANGED <<copyVars, qBuf, qPc, qIdx, qHeld, qSlot, qData, netVars, hand,
                 lBuf, lOpen, linkVars, connVars>>

\* LinkHub.RemoveAll: all links are closed and leave their hub, under its lock.
RemoveAll ==
  /\ "removeAll" \in Faults
  /\ lOpen
  /\ lOpen' = FALSE
  /\ lStatus' = "close"
  /\ UNCHANGED <<copyVars, qBuf, qOpen, queueVars, netVars, hand, lBuf, lPc,
                 lIdx, lHeld, lSlot, connVars>>

-----------------------------------------------------------------------------
CopyStep == QueueCheck \/ QueuePut \/ QueuePutFails

QueueStep ==
  \/ QueueStart \/ QueueTop \/ QueueRead \/ QueueReadClosed
  \/ QueueReadTimeout \/ QueueWrite \/ QueueWriteFails

ReaderStep(c) == Receive(c) \/ LinkPut(c) \/ LinkPutFails(c)

LinkStep ==
  \/ LinkStart \/ LinkTop \/ LinkGet \/ LinkRead \/ LinkReadClosed
  \/ LinkReadTimeout \/ LinkWrite \/ LinkWriteFails

Next ==
  \/ CopyRead \/ CopyEnd \/ CopyStep
  \/ QueueStep
  \/ \E c \in Chans : CloseWsWriter(c) \/ Break(c) \/ ReaderStep(c)
  \/ LinkStep
  \/ Remove \/ RemoveAll

Spec == Init /\ [][Next]_vars

(***************************************************************************)
(* The Go scheduler runs every goroutine that is ready, websockets deliver *)
(* and the destination connection accepts what is written to it.  The      *)
(* source connection owes nothing: no fairness for CopyRead and CopyEnd.   *)
(***************************************************************************)
Fairness ==
  /\ WF_vars(CopyStep)
  /\ WF_vars(QueueStep)
  /\ \A c \in Chans : WF_vars(ReaderStep(c))
  /\ WF_vars(LinkStep)

FairSpec == Spec /\ Fairness

-----------------------------------------------------------------------------
(* Types, and the capacity of the channels (makeBuffer).                   *)
TypeOK ==
  /\ blocks \in 0 .. MaxBlocks
  /\ copyPc \in {"read", "write", "writeEOF", "put", "putEOF", "done"}
  /\ qBuf \in Seq(Buffer) /\ Len(qBuf) <= Cap
  /\ qOpen \in BOOLEAN
  /\ qStatus \in Status
  /\ qPc \in {"start", "top", "read", "write", "end"}
  /\ qIdx \in Chans
  /\ qHeld \in Message
  /\ cancelled \subseteq Chans
  /\ wsUp \subseteq Chans
  /\ ws \in [Chans -> Seq(Message)]
  /\ hand \in [Chans -> Seq(Message)]
  /\ \A c \in Chans : Len(hand[c]) <= 1
  /\ lBuf \in [Chans -> Seq(Message)]
  /\ \A c \in Chans : Len(lBuf[c]) <= Cap
  /\ lOpen \in BOOLEAN
  /\ lStatus \in Status
  /\ lPc \in {"start", "top", "get", "read", "write", "end"}
  /\ lIdx \in Chans
  /\ lHeld \in Message
  /\ recv \in Seq(Nat)
  /\ fin \in BOOLEAN
  /\ qSlot \in Nat
  /\ qData \in Nat
  /\ lSlot \in Nat

(***************************************************************************)
(* The two round robins agree: what link.Send has written is a prefix of   *)
(* what CopyBuffer has read, whatever the websockets, the two Send loops   *)
(* and the session do, as long as no link.Write gives up (linkWrite).      *)
(***************************************************************************)
InOrder ==
  /\ Len(recv) <= blocks
  /\ \A i \in 1 .. Len(recv) : recv[i] = i

(***************************************************************************)
(* A half-close is never a truncation: when link.Send calls CloseWrite,    *)
(* CopyBuffer has returned and all it read has been written.               *)
(***************************************************************************)
FinComplete == fin => copyPc = "done" /\ Len(recv) = blocks

(***************************************************************************)
(* "If the status is closed, return": a queue that is closed under a       *)
(* running Send lets it finish the round it is in and no more, so that the *)
(* empty blocks that it takes from the closed buffer are at most N.  (A    *)
(* Send that starts on a closed queue overwrites the status: then there is *)
(* no bound but the websockets.)                                           *)
(***************************************************************************)
EmptyBounded == qOpen \/ qStatus = "close" => qSlot <= blocks + N

\* The session has taken the queue or the links away.
Closed == ~qOpen \/ ~lOpen

(***************************************************************************)
(* Every block that CopyBuffer reads is written in the end, unless the     *)
(* session is closed, however the goroutines are scheduled and however     *)
(* small the buffers.                                                      *)
(***************************************************************************)
Delivered == \A i \in 1 .. MaxBlocks : (blocks >= i) ~> (Len(recv) >= i \/ Closed)

(***************************************************************************)
(* The end of the source reaches the destination, unless the session is    *)
(* closed.                                                                 *)
(***************************************************************************)
EndDelivered == (copyPc = "writeEOF") ~> (fin \/ Closed)

(***************************************************************************)
(* RemoveAll makes link.Send return, without the help of its five-minute   *)
(* timer, wherever Send is, and even if it had not started yet.            *)
(***************************************************************************)
LinkStops == ~lOpen ~> (lPc = "end")

(***************************************************************************)
(* The transfer implements the stream it stands for.                       *)
(***************************************************************************)
Promise == INSTANCE Stream WITH sent <- blocks, ended <- copyPc = "done"

(***************************************************************************)
(* Every step of the two Send loops, the readers and CopyBuffer is a step  *)
(* of the abstract stream or invisible to it.                              *)
(***************************************************************************)
StreamSpec == Promise!Spec

-----------------------------------------------------------------------------
(***************************************************************************)
(* Why the order is kept.  Number the blocks in the order in which         *)
(* queue.Send takes them (slot).  Then a websocket carries slots that are  *)
(* N apart, and at every stage the next one is known from the positions of *)
(* the two loops.                                                          *)
(***************************************************************************)

\* The slots of s are x, x + N, x + 2N ...
Run(s, x) ==
  /\ Len(s) > 0 => s[1].slot = x
  /\ \A j \in 1 .. Len(s) - 1 : s[j + 1].slot = s[j].slot + N

\* The slot that continues such a run.
SlotAfter(s, x) == IF Len(s) = 0 THEN x ELSE s[Len(s)].slot + N

\* The slot that link.Send will take from link c, the next time it reads it.
LinkWants(c) ==
  IF lPc = "write"
    THEN lSlot + c - lIdx + (IF c > lIdx THEN 0 ELSE N)
    ELSE lSlot + 1 + c - lIdx + (IF c >= lIdx THEN 0 ELSE N)

\* The slots that the reader of websocket c, and the websocket, continue with.
ReaderWants(c) == SlotAfter(lBuf[c], LinkWants(c))
SocketWants(c) == SlotAfter(hand[c], ReaderWants(c))

\* The slot that queue.Send will write to websocket c next.
QueueOwes(c) ==
  (IF qPc = "write" THEN qSlot ELSE qSlot + 1)
    + c - qIdx + (IF c >= qIdx THEN 0 ELSE N)

\* Link.Send may still take what the readers store.
LinkLive == lOpen /\ lPc # "end"

Striped ==
  /\ LinkLive \/ lPc = "read" =>
       \A c \in Chans : Run(lBuf[c], LinkWants(c))
  /\ LinkLive =>
       \A c \in Chans : /\ Run(hand[c], ReaderWants(c))
                        /\ Run(ws[c], SocketWants(c))
  /\ LinkLive /\ qPc # "end" =>
       \A c \in wsUp : QueueOwes(c) = SlotAfter(ws[c], SocketWants(c))

\* What a message holds: the slots up to qData are data, the end marker is
\* the slot after the last data, all others are empty.
Faithful(m) ==
  /\ m.slot <= qSlot
  /\ m.data = IF m.slot <= qData THEN m.slot ELSE 0
  /\ m.kind = "eof" => m.slot = qData + 1 /\ qData = blocks /\ copyPc = "done"

MessagesFaithful ==
  /\ Faithful(qHeld) /\ Faithful(lHeld)
  /\ \A c \in Chans :
       /\ \A j \in 1 .. Len(ws[c]) : Faithful(ws[c][j])
       /\ \A j \in 1 .. Len(hand[c]) : Faithful(hand[c][j])
       /\ \A j \in 1 .. Len(lBuf[c]) : Faithful(lBuf[c][j])

\* Number of blocks that have reached queue.buffer while CopyBuffer runs.
Stored == IF copyPc \in {"write", "put"} THEN blocks - 1 ELSE blocks

QueueInOrder ==
  /\ qData <= blocks /\ qData <= qSlot
  /\ copyPc \in {"write", "put"} => blocks > 0
  /\ Len(qBuf) > 0 => qSlot = qData
  /\ qOpen /\ copyPc # "done" => qSlot = qData /\ qData + Len(qBuf) = Stored
  /\ \A j \in 1 .. Len(qBuf) :
       IF qBuf[j].kind = "eof"
         THEN /\ j = Len(qBuf) /\ qBuf[j].data = 0
              /\ copyPc = "done" /\ qData + j = blocks + 1
         ELSE /\ qBuf[j].data = qData + j /\ qData + j <= blocks
  /\ qPc = "write" => qHeld.slot = qSlot

LinkInOrder ==
  /\ Len(recv) <= qData
  /\ \A i \in 1 .. Len(recv) : recv[i] = i
  /\ lSlot <= qSlot
  /\ LinkLive \/ lPc = "read" \/ (lPc = "write" /\ lHeld.slot # 0) =>
       LET n == IF lPc = "write" THEN lSlot - 1 ELSE lSlot
       IN  Len(recv) = IF n <= qData THEN n ELSE qData
  /\ lPc = "write" => lHeld.slot \in {0, lSlot}
  /\ lPc = "write" /\ lHeld.slot = 0 => ~lOpen
  /\ lStatus = "done" => lPc = "end"
  /\ fin => lPc = "end" /\ copyPc = "done" /\ Len(recv) = blocks

(***************************************************************************)
(* The inductive invariant behind InOrder and FinComplete: at every stage  *)
(* of the pipeline the slots continue the ones before them, and a slot     *)
(* holds the block of that number.                                         *)
(***************************************************************************)
PipelineInv == Striped /\ MessagesFaithful /\ QueueInOrder /\ LinkInOrder
=============================================================================
