--------------------------- MODULE TransferProofs ---------------------------
(***************************************************************************)
(* Proofs about Transfer and Response, for every number of websockets,     *)
(* every capacity of the buffers and any number of blocks: the slots on a  *)
(* websocket stay N apart, what link.Send writes is the stream, and Stream *)
(* is implemented; the empty blocks of a closed queue are bounded; a       *)
(* response, with the deadline on its reads and the close message that     *)
(* runs ahead of the data, implements a transfer.                          *)
(***************************************************************************)
EXTENDS Response, TransferSteps

USE DEF copyVars, queueVars, netVars, linkVars, connVars

-----------------------------------------------------------------------------
(* The slots on a websocket stay N apart.                                  *)

\* Every step keeps the slots N apart, unless link.Write can give up.
LEMMA StripedStep ==
  ASSUME "linkWrite" \notin Faults, TypeOK, Striped, QueueInOrder, LinkInOrder,
         [Next]_vars
  PROVE  Striped'
<1>. USE TransferAssumption
<1>1. CASE UNCHANGED <<queueVars, netVars, hand, lBuf, lOpen, linkVars>>
  <2>1. \A c \in Chans : /\ LinkWants(c)' = LinkWants(c)
                         /\ QueueOwes(c)' = QueueOwes(c)
    BY <1>1 DEF LinkWants, QueueOwes
  <2>. QED BY <1>1, <2>1, StripedFrame DEF LinkLive
<1>2. CASE CopyRead \/ CopyEnd \/ CopyStep
  BY <1>1, <1>2 DEF CopyRead, CopyEnd, CopyStep, QueueCheck, QueuePut, QueuePutFails
<1>3. CASE QueueStart \/ QueueTop \/ QueueReadTimeout \/ QueueWriteFails
             \/ QueueRead \/ QueueReadClosed \/ Remove
  <2>1. /\ UNCHANGED <<ws, hand, lBuf, wsUp, lOpen, linkVars>>
        /\ qPc' # "end" => qPc # "end"
    BY <1>3 DEF QueueStart, QueueTop, QueueReadTimeout, QueueWriteFails, QueueRead,
                QueueReadClosed, Remove, QueueReturn
  <2>2. ASSUME qPc' # "end", NEW c \in Chans PROVE QueueOwes(c)' = QueueOwes(c)
    <3>1. CASE QueueStart \/ QueueTop \/ Remove
      BY <2>2, <3>1 DEF QueueStart, QueueTop, Remove, QueueReturn, QueueOwes
    <3>2. CASE QueueRead \/ QueueReadClosed
      <4>1. qPc = "read" /\ qPc' = "write" /\ qSlot' = qSlot + 1 /\ qIdx' = qIdx
        BY <3>2 DEF QueueRead, QueueReadClosed
      <4>. QED BY <4>1 DEF QueueOwes
    <3>3. CASE QueueReadTimeout \/ QueueWriteFails
      BY <2>2, <3>3 DEF QueueReadTimeout, QueueWriteFails, QueueReturn
    <3>. QED BY <1>3, <3>1, <3>2, <3>3
  <2>3. \A c \in Chans : LinkWants(c)' = LinkWants(c)
    BY <2>1 DEF LinkWants
  <2>. QED BY <2>1, <2>2, <2>3, StripedFrame DEF LinkLive
<1>4. CASE QueueWrite
  BY <1>4, StripedQueueWrite, TypeStep
<1>5. ASSUME NEW c \in Chans, CloseWsWriter(c) PROVE Striped'
  <2>1. \A d \in Chans : /\ LinkWants(d)' = LinkWants(d)
                         /\ QueueOwes(d)' = QueueOwes(d)
    BY <1>5 DEF CloseWsWriter, LinkWants, QueueOwes
  <2>. QED BY <1>5, <2>1, StripedFrame DEF LinkLive, CloseWsWriter
<1>6. ASSUME NEW c \in Chans, Break(c) PROVE Striped'
  <2>1. /\ UNCHANGED <<hand, lBuf, lOpen, linkVars, queueVars>>
        /\ wsUp' = wsUp \ {c} /\ wsUp \subseteq Chans /\ ws'[c] = << >>
        /\ \A d \in Chans : d # c => ws'[d] = ws[d]
    BY <1>6 DEF Break, TypeOK
  <2>2. ASSUME NEW d \in Chans
        PROVE  /\ LinkWants(d)' = LinkWants(d) /\ QueueOwes(d)' = QueueOwes(d)
               /\ ReaderWants(d)' = ReaderWants(d) /\ SocketWants(d)' = SocketWants(d)
    BY <2>1 DEF LinkWants, QueueOwes, ReaderWants, SocketWants, SlotAfter
  <2>3. ASSUME LinkLive' \/ lPc' = "read", NEW d \in Chans
        PROVE  Run(lBuf[d], LinkWants(d))'
    BY <2>1, <2>2, <2>3 DEF Striped, Run, LinkLive
  <2>4. ASSUME LinkLive', NEW d \in Chans
        PROVE  Run(hand[d], ReaderWants(d))' /\ Run(ws[d], SocketWants(d))'
    <3>1. Run(hand'[d], ReaderWants(d))
      BY <2>1, <2>4 DEF Striped, LinkLive
    <3>2. Run(ws'[d], SocketWants(d))
      <4>1. CASE d = c
        BY <2>1, <4>1 DEF Run
      <4>2. CASE d # c
        BY <2>1, <2>4, <4>2 DEF Striped, LinkLive
      <4>. QED BY <4>1, <4>2
    <3>. QED BY <2>2, <3>1, <3>2, SMTT(30) DEF Run
  <2>5. ASSUME LinkLive', qPc' # "end", NEW d \in wsUp'
        PROVE  QueueOwes(d)' = SlotAfter(ws[d], SocketWants(d))'
    BY <2>1, <2>2, <2>5 DEF Striped, SlotAfter, LinkLive
  <2>. QED BY <2>3, <2>4, <2>5 DEF Striped
<1>7. ASSUME NEW c \in Chans, Receive(c) PROVE Striped'
  BY <1>7, StripedReceive
<1>8. ASSUME NEW c \in Chans, LinkPut(c) PROVE Striped'
  BY <1>8, StripedLinkPut, SMTT(30)
<1>9. ASSUME NEW c \in Chans, LinkPutFails(c) PROVE Striped'
  <2>1. ~lOpen /\ ~LinkLive' /\ UNCHANGED <<lBuf, lOpen, linkVars>>
    BY <1>9, ZenonT(30) DEF LinkPutFails, LinkLive
  <2>2. ASSUME lPc' = "read", NEW d \in Chans PROVE Run(lBuf[d], LinkWants(d))'
    <3>1. lBuf' = lBuf /\ LinkWants(d)' = LinkWants(d)
      BY <2>1 DEF LinkWants
    <3>2. Run(lBuf[d], LinkWants(d))
      BY <2>1, <2>2 DEF Striped
    <3>. QED BY <3>1, <3>2 DEF Run
  <2>. QED BY <2>1, <2>2, Zenon DEF Striped
<1>10. CASE LinkStart \/ LinkTop \/ LinkGet \/ RemoveAll
  <2>1. /\ UNCHANGED <<ws, hand, lBuf, wsUp, lIdx, lSlot, queueVars>>
        /\ LinkLive' => LinkLive
        /\ lPc' = "read" => LinkLive \/ lPc = "read"
        /\ lPc' = "write" <=> lPc = "write"
    BY <1>10 DEF LinkStart, LinkTop, LinkGet, RemoveAll, LinkReturn, LinkLive
  <2>2. \A c \in Chans : /\ LinkWants(c)' = LinkWants(c)
                         /\ QueueOwes(c)' = QueueOwes(c)
    BY <2>1 DEF LinkWants, QueueOwes
  <2>. QED BY <2>1, <2>2, StripedFrame
<1>11. CASE LinkRead
  BY <1>11, StripedLinkRead
<1>12. CASE LinkReadClosed \/ LinkReadTimeout \/ LinkWriteFails
  <2>1. ~LinkLive' /\ lPc' # "read"
    BY <1>12 DEF LinkReadClosed, LinkReadTimeout, LinkWriteFails, LinkReturn, LinkLive
  <2>. QED BY <2>1, ZenonT(30) DEF Striped
<1>13. CASE LinkWrite
  <2>1. CASE lHeld.kind = "eof"
    <3>1. ~LinkLive' /\ lPc' # "read"
      BY <1>13, <2>1 DEF LinkWrite, LinkReturn, LinkLive
    <3>. QED BY <3>1, Zenon DEF Striped
  <2>2. CASE lHeld.kind # "eof"
    <3>1. /\ UNCHANGED <<ws, hand, lBuf, wsUp, lOpen, lSlot, queueVars>>
          /\ lPc = "write" /\ lPc' \in {"get", "top"} /\ lIdx' = NextLink(lIdx)
      BY <1>13, <2>2 DEF LinkWrite
    <3>2. ASSUME NEW c \in Chans PROVE LinkWants(c)' = LinkWants(c)
      <4>1. N \in Nat \ {0} /\ lIdx \in 1 .. N /\ c \in 1 .. N /\ lSlot \in Nat
        BY DEF TypeOK, Chans
      <4>2. /\ LinkWants(c) = lSlot + c - lIdx + (IF c > lIdx THEN 0 ELSE N)
            /\ LinkWants(c)' = lSlot + 1 + c - lIdx' + (IF c >= lIdx' THEN 0 ELSE N)
        BY <3>1 DEF LinkWants
      <4>3. lIdx' = IF lIdx < N THEN lIdx + 1 ELSE 1
        BY <3>1 DEF NextLink
      <4>4. CASE lIdx < N
        BY <4>1, <4>2, <4>3, <4>4
      <4>5. CASE lIdx = N
        BY <4>1, <4>2, <4>3, <4>5
      <4>. QED BY <4>1, <4>4, <4>5
    <3>3. \A c \in Chans : QueueOwes(c)' = QueueOwes(c)
      BY <3>1 DEF QueueOwes
    <3>. QED BY <3>1, <3>2, <3>3, StripedFrame DEF LinkLive
  <2>. QED BY <2>1, <2>2
<1>14. CASE UNCHANGED vars
  BY <1>1, <1>14 DEF vars
<1>. QED
  BY <1>2, <1>3, <1>4, <1>5, <1>6, <1>7, <1>8, <1>9, <1>10, <1>11, <1>12, <1>13,
     <1>14 DEF Next, QueueStep, LinkStep, ReaderStep

-----------------------------------------------------------------------------
(* What has been written is the stream.                                    *)

\* link.Send writes block n when it has written the n - 1 blocks before it,
\* and half-closes only when it has written them all.
LEMMA LinkInOrderStep ==
  ASSUME TypeOK, Striped, MessagesFaithful, QueueInOrder, LinkInOrder, [Next]_vars
  PROVE  LinkInOrder'
<1>. USE TransferAssumption
<1>0. /\ blocks \in Nat /\ qSlot \in Nat /\ qData \in Nat /\ lSlot \in Nat
      /\ Len(recv) \in Nat /\ recv \in Seq(Nat) /\ lHeld \in Message
      /\ lHeld.slot \in Nat /\ lHeld.data \in Nat
      /\ qData <= qSlot /\ qData <= blocks
  BY ElementFacts DEF TypeOK, Message, QueueInOrder
<1>1. ASSUME UNCHANGED <<lOpen, linkVars, recv, qData, qSlot>>,
             fin' = fin, fin => copyPc' = copyPc /\ blocks' = blocks
      PROVE  LinkInOrder'
  BY <1>1 DEF LinkInOrder, LinkLive
<1>2. CASE CopyRead \/ CopyEnd \/ CopyStep
  <2>1. copyPc # "done" /\ UNCHANGED <<lOpen, linkVars, connVars, qData, qSlot>>
    BY <1>2 DEF CopyRead, CopyEnd, CopyStep, QueueCheck, QueuePut, QueuePutFails
  <2>2. ~fin
    BY <2>1 DEF LinkInOrder
  <2>. QED BY <1>1, <2>1, <2>2
<1>3. CASE QueueStart \/ QueueTop \/ QueueReadTimeout \/ QueueWriteFails
             \/ QueueWrite \/ Remove
  <2>1. UNCHANGED <<lOpen, linkVars, connVars, qData, qSlot, copyVars>>
    BY <1>3 DEF QueueStart, QueueTop, QueueReadTimeout, QueueWriteFails, QueueWrite,
                Remove
  <2>. QED BY <1>1, <2>1
<1>4. CASE QueueRead \/ QueueReadClosed
  <2>1. /\ UNCHANGED <<lOpen, linkVars, connVars, copyVars>>
        /\ qSlot' = qSlot + 1 /\ qData' \in {qData, qData + 1}
        /\ qData' = qData \/ qSlot = qData
    <3>1. CASE QueueReadClosed
      BY <3>1 DEF QueueReadClosed
    <3>2. CASE QueueRead
      <4>1. Len(qBuf) > 0
        BY <3>2, TailFacts DEF QueueRead, TypeOK
      <4>. QED BY <3>2, <4>1 DEF QueueRead, QueueInOrder
    <3>. QED BY <1>4, <3>1, <3>2
  <2>2. fin => Len(recv) = blocks
    BY DEF LinkInOrder
  <2>. QED BY <1>0, <2>1, <2>2 DEF LinkInOrder, LinkLive
<1>5. ASSUME NEW c \in Chans, CloseWsWriter(c) \/ Break(c) \/ ReaderStep(c)
      PROVE  LinkInOrder'
  <2>1. UNCHANGED <<lOpen, linkVars, connVars, qData, qSlot, copyVars>>
    BY <1>5 DEF CloseWsWriter, Break, ReaderStep, Receive,
                                  LinkPut, LinkPutFails
  <2>. QED BY <1>1, <2>1
<1>6. CASE LinkStart \/ LinkTop \/ LinkGet
  <2>1. /\ UNCHANGED <<lOpen, lHeld, lSlot, connVars, qData, qSlot, copyVars>>
        /\ lPc \in {"start", "top", "get"} /\ lPc' \in {"top", "get", "read", "end"}
        /\ lPc' = "read" => lOpen
        /\ lStatus' = "done" => lPc' = "end" \/ lStatus = "done"
    BY <1>6 DEF LinkStart, LinkTop, LinkGet, LinkReturn
  <2>2. ~fin /\ lStatus # "done"
    BY <2>1 DEF LinkInOrder
  <2>. QED BY <1>0, <2>1, <2>2 DEF LinkInOrder, LinkLive
<1>7. CASE LinkReadTimeout \/ LinkWriteFails
  <2>1. /\ UNCHANGED <<lOpen, lHeld, lSlot, connVars, qData, qSlot, copyVars>>
        /\ lPc' = "end"
    BY <1>7 DEF LinkReadTimeout, LinkWriteFails, LinkReturn
  <2>. QED BY <1>0, <2>1 DEF LinkInOrder, LinkLive
<1>8. CASE RemoveAll
  <2>1. /\ UNCHANGED <<lPc, lHeld, lSlot, connVars, qData, qSlot, copyVars>>
        /\ lOpen' = FALSE /\ lStatus' = "close"
    BY <1>8 DEF RemoveAll
  <2>. QED BY <1>0, <2>1 DEF LinkInOrder, LinkLive
<1>9. CASE LinkRead
  <2>1. /\ UNCHANGED <<lOpen, lStatus, connVars, qData, qSlot, copyVars>>
        /\ lPc = "read" /\ lPc' = "write" /\ lSlot' = lSlot + 1
        /\ lHeld' = Head(lBuf[lIdx])
    BY <1>9 DEF LinkRead
  <2>2. lHeld'.slot = lSlot + 1 /\ lHeld'.slot <= qSlot
    <3>1. lHeld'.slot = lSlot + 1
      BY <1>9, <2>1, StripedLinkRead
    <3>2. Head(lBuf[lIdx]) = lBuf[lIdx][1] /\ Len(lBuf[lIdx]) \in Nat \ {0} /\ lIdx \in Chans
      BY <1>9, TailFacts DEF LinkRead, TypeOK
    <3>3. Faithful(lBuf[lIdx][1])
      BY <3>2 DEF MessagesFaithful
    <3>. QED BY <2>1, <3>1, <3>2, <3>3 DEF Faithful
  <2>3. ~fin /\ lStatus # "done"
    BY <2>1 DEF LinkInOrder
  <2>. QED BY <1>0, <2>1, <2>2, <2>3 DEF LinkInOrder, LinkLive
<1>10. CASE LinkReadClosed
  <2>1. /\ UNCHANGED <<lOpen, lSlot, lStatus, connVars, qData, qSlot, copyVars>>
        /\ lPc = "read" /\ lPc' = "write" /\ lHeld'.slot = 0 /\ lOpen = FALSE
    BY <1>10 DEF LinkReadClosed, TypeOK
  <2>2. ~fin /\ lStatus # "done"
    BY <2>1 DEF LinkInOrder
  <2>. QED BY <1>0, <2>1, <2>2 DEF LinkInOrder, LinkLive
<1>11. CASE LinkWrite
  <2>1. /\ UNCHANGED <<lOpen, lSlot, lHeld, qData, qSlot, copyVars>> /\ lPc = "write"
        /\ recv' = IF lHeld.data = 0 THEN recv ELSE Append(recv, lHeld.data)
        /\ lPc' \in {"get", "top", "end"}
        /\ lStatus' = "done" => lPc' = "end" \/ lStatus = "done"
        /\ fin' => fin \/ (lHeld.kind = "eof" /\ lPc' = "end")
    BY <1>11 DEF LinkWrite, LinkReturn
  <2>2. ~fin /\ lStatus # "done" /\ lHeld.slot \in {0, lSlot}
    BY <2>1 DEF LinkInOrder
  <2>3. Faithful(lHeld)
    BY DEF MessagesFaithful
  <2>4. CASE lHeld.slot = 0
    <3>1. lHeld.data = 0 /\ lHeld.kind # "eof" /\ ~lOpen
      BY <1>0, <2>1, <2>3, <2>4 DEF Faithful, LinkInOrder
    <3>. QED BY <1>0, <2>1, <2>2, <3>1 DEF LinkInOrder, LinkLive
  <2>5. CASE lHeld.slot # 0
    <3>1. /\ lHeld.slot = lSlot /\ lSlot > 0
          /\ Len(recv) = IF lSlot - 1 <= qData THEN lSlot - 1 ELSE qData
      BY <1>0, <2>1, <2>2, <2>5 DEF LinkInOrder
    <3>2. CASE lSlot <= qData
      <4>1. lHeld.data = lSlot /\ Len(recv) = lSlot - 1 /\ lHeld.kind # "eof"
        BY <1>0, <2>3, <3>1, <3>2 DEF Faithful
      <4>2. /\ Len(recv') = lSlot /\ recv'[lSlot] = lSlot
            /\ \A i \in 1 .. lSlot - 1 : recv'[i] = recv[i]
        BY <1>0, <2>1, <3>1, <4>1, AppendFacts
      <4>3. \A i \in 1 .. lSlot : recv'[i] = i
        BY <1>0, <4>1, <4>2 DEF LinkInOrder
      <4>. QED BY <1>0, <2>1, <2>2, <3>2, <4>1, <4>2, <4>3 DEF LinkInOrder, LinkLive
    <3>3. CASE lSlot > qData
      <4>1. /\ lHeld.data = 0 /\ Len(recv) = qData /\ recv' = recv
            /\ lHeld.kind = "eof" => qData = blocks /\ copyPc = "done"
        BY <1>0, <2>1, <2>3, <3>1, <3>3 DEF Faithful
      <4>. QED BY <1>0, <2>1, <2>2, <3>3, <4>1 DEF LinkInOrder, LinkLive
    <3>. QED BY <1>0, <3>2, <3>3
  <2>. QED BY <2>4, <2>5
<1>12. CASE UNCHANGED vars
  BY <1>1, <1>12 DEF vars
<1>. QED
  BY <1>2, <1>3, <1>4, <1>5, <1>6, <1>7, <1>8, <1>9, <1>10, <1>11, <1>12
     DEF Next, QueueStep, LinkStep

-----------------------------------------------------------------------------
(* The theorems.                                                           *)

\* The pipeline starts empty.
LEMMA PipelineInit == Init => PipelineInv
<1>. SUFFICES ASSUME Init PROVE PipelineInv
  OBVIOUS
<1>. USE TransferAssumption
<1>1. /\ \A c \in Chans : Len(ws[c]) = 0 /\ Len(hand[c]) = 0 /\ Len(lBuf[c]) = 0
      /\ Len(qBuf) = 0 /\ Len(recv) = 0
  BY DEF Init
<1>2. MessagesFaithful
  BY <1>1 DEF Init, MessagesFaithful, Faithful
<1>3. QueueInOrder
  BY <1>1 DEF Init, QueueInOrder, Stored
<1>4. LinkInOrder
  BY <1>1 DEF Init, LinkInOrder
<1>5. Striped
  <2>1. ASSUME NEW c \in Chans
        PROVE  /\ LinkWants(c) = c /\ ReaderWants(c) = c /\ SocketWants(c) = c
               /\ QueueOwes(c) = c /\ SlotAfter(ws[c], c) = c
               /\ Run(lBuf[c], c) /\ Run(hand[c], c) /\ Run(ws[c], c)
    <3>1. LinkWants(c) = c /\ QueueOwes(c) = c
      BY DEF Init, LinkWants, QueueOwes, Chans
    <3>2. ReaderWants(c) = c /\ SocketWants(c) = c /\ SlotAfter(ws[c], c) = c
      BY <1>1, <3>1 DEF ReaderWants, SocketWants, SlotAfter
    <3>3. Run(lBuf[c], c) /\ Run(hand[c], c) /\ Run(ws[c], c)
      BY <1>1 DEF Run
    <3>. QED BY <3>1, <3>2, <3>3
  <2>2. wsUp = Chans
    BY DEF Init
  <2>. QED BY <2>1, <2>2 DEF Striped
<1>. QED BY <1>2, <1>3, <1>4, <1>5 DEF PipelineInv

\* A step of the transfer continues the slots at every stage.
LEMMA PipelineStep ==
  ASSUME "linkWrite" \notin Faults, TypeOK, PipelineInv, [Next]_vars
  PROVE  PipelineInv'
<1>1. Striped /\ MessagesFaithful /\ QueueInOrder /\ LinkInOrder
  BY DEF PipelineInv
<1>2. QueueInOrder'
  BY <1>1, QueueInOrderStep
<1>3. MessagesFaithful'
  BY <1>1, MessagesFaithfulStep
<1>4. Striped'
  BY <1>1, StripedStep
<1>5. LinkInOrder'
  BY <1>1, LinkInOrderStep
<1>. QED BY <1>2, <1>3, <1>4, <1>5 DEF PipelineInv

\* The blocks are in order, and a half-close is complete, in a pipeline whose
\* slots are.
LEMMA PipelineOrder ==
  ASSUME TypeOK, PipelineInv
  PROVE  InOrder /\ FinComplete
<1>1. Len(recv) \in Nat /\ qData \in Nat /\ blocks \in Nat
  BY ElementFacts DEF TypeOK
<1>2. InOrder
  BY <1>1 DEF PipelineInv, LinkInOrder, QueueInOrder, InOrder
<1>3. FinComplete
  BY DEF PipelineInv, LinkInOrder, FinComplete
<1>. QED BY <1>2, <1>3

\* The invariant of the pipeline holds for every number of websockets, every
\* capacity of the buffers and every fault but linkWrite: timers that end the
\* Send loops, broken or cancelled websockets, failing connections, and the
\* hubs closing the queue and the links at any moment.
THEOREM PipelineInvariant ==
  ASSUME "linkWrite" \notin Faults
  PROVE  Spec => []PipelineInv
BY PipelineInit, PipelineStep, TypeCorrect, PTL DEF Spec

\* What link.Send has written is a prefix of what CopyBuffer has read.
THEOREM OrderKept ==
  ASSUME "linkWrite" \notin Faults
  PROVE  Spec => []InOrder
BY PipelineOrder, TypeCorrect, PipelineInvariant, PTL

\* When link.Send half-closes the destination, CopyBuffer has returned and
\* all the blocks it read have been written.
THEOREM NoTruncatingFin ==
  ASSUME "linkWrite" \notin Faults
  PROVE  Spec => []FinComplete
BY PipelineOrder, TypeCorrect, PipelineInvariant, PTL

\* A step of link.Send that writes is a step of the abstract stream.
LEMMA LinkWriteRefines ==
  ASSUME TypeOK, PipelineInv, LinkWrite
  PROVE  [Promise!Next]_(Promise!streamVars)
<1>0. /\ blocks \in Nat /\ qSlot \in Nat /\ qData \in Nat /\ lSlot \in Nat
      /\ Len(recv) \in Nat /\ lHeld.slot \in Nat /\ lHeld.data \in Nat
      /\ qData <= blocks
  BY ElementFacts DEF TypeOK, Message, PipelineInv, QueueInOrder
<1>1. /\ UNCHANGED copyVars /\ lPc = "write"
      /\ recv' = IF lHeld.data = 0 THEN recv ELSE Append(recv, lHeld.data)
      /\ fin' = IF lHeld.kind = "eof" THEN TRUE ELSE fin
  BY ZenonT(30) DEF LinkWrite
<1>2. ~fin /\ lHeld.slot \in {0, lSlot} /\ Faithful(lHeld)
  BY <1>1 DEF PipelineInv, LinkInOrder, MessagesFaithful
<1>3. lHeld.slot # 0 => Len(recv) = IF lSlot - 1 <= qData THEN lSlot - 1 ELSE qData
  BY <1>1 DEF PipelineInv, LinkInOrder
<1>4. CASE lHeld.kind = "eof"
  <2>1. lHeld.data = 0 /\ lHeld.slot = qData + 1 /\ qData = blocks /\ copyPc = "done"
    BY <1>0, <1>2, <1>4 DEF Faithful
  <2>2. Len(recv) = blocks
    BY <1>0, <1>2, <1>3, <2>1
  <2>3. recv' = recv /\ fin' = TRUE /\ blocks' = blocks /\ copyPc' = copyPc
    BY <1>1, <1>4, <2>1
  <2>. QED BY <2>1, <2>2, <2>3 DEF Promise!Next, Promise!Finish
<1>5. CASE lHeld.kind # "eof" /\ lHeld.data # 0
  <2>1. lHeld.data = lHeld.slot /\ lHeld.slot <= qData
    BY <1>0, <1>2, <1>5 DEF Faithful
  <2>2. lHeld.data = Len(recv) + 1 /\ Len(recv) < blocks
    BY <1>0, <1>2, <1>3, <1>5, <2>1
  <2>3. /\ recv' = Append(recv, Len(recv) + 1) /\ fin' = fin
        /\ blocks' = blocks /\ copyPc' = copyPc
    BY <1>1, <1>5, <2>2
  <2>. QED BY <1>2, <2>2, <2>3 DEF Promise!Next, Promise!Deliver
<1>6. CASE lHeld.kind # "eof" /\ lHeld.data = 0
  BY <1>1, <1>6 DEF Promise!streamVars
<1>. QED BY <1>4, <1>5, <1>6

\* The striped transfer implements the stream: every behaviour of the pipeline,
\* seen at its two connections, is a behaviour of Stream.
THEOREM ImplementsStream ==
  ASSUME "linkWrite" \notin Faults
  PROVE  Spec => StreamSpec
<1>1. Init => Promise!Init
  BY DEF Init, Promise!Init
<1>2. ASSUME TypeOK, PipelineInv, [Next]_vars
      PROVE  [Promise!Next]_(Promise!streamVars)
  <2>1. CASE CopyRead
    BY <2>1 DEF CopyRead, Promise!Next, Promise!Read
  <2>2. CASE CopyEnd
    BY <2>2 DEF CopyEnd, Promise!streamVars
  <2>3. CASE CopyStep
    <3>1. copyPc # "done" /\ UNCHANGED <<blocks, recv, fin>>
      BY <2>3 DEF CopyStep, QueueCheck, QueuePut, QueuePutFails
    <3>2. CASE copyPc' = "done"
      BY <3>1, <3>2 DEF Promise!Next, Promise!End
    <3>3. CASE copyPc' # "done"
      BY <3>1, <3>3 DEF Promise!streamVars
    <3>. QED BY <3>2, <3>3
  <2>4. CASE UNCHANGED <<copyVars, connVars>>
    BY <2>4 DEF Promise!streamVars
  <2>5. CASE QueueStep \/ Remove \/ RemoveAll
    <3>1. CASE QueueStart \/ QueueTop \/ QueueRead \/ QueueReadClosed \/ QueueReadTimeout
      BY <2>4, <3>1, SMTT(30) DEF QueueStart, QueueTop, QueueRead, QueueReadClosed,
           QueueReadTimeout
    <3>2. CASE QueueWrite \/ QueueWriteFails \/ Remove \/ RemoveAll
      BY <2>4, <3>2, SMTT(30) DEF QueueWrite, QueueWriteFails, Remove, RemoveAll
    <3>. QED BY <2>5, <3>1, <3>2 DEF QueueStep
  <2>6. ASSUME NEW c \in Chans, CloseWsWriter(c) \/ Break(c) \/ ReaderStep(c)
        PROVE  [Promise!Next]_(Promise!streamVars)
    BY <2>4, <2>6, ZenonT(30) DEF CloseWsWriter, Break, ReaderStep, Receive,
                                  LinkPut, LinkPutFails
  <2>7. CASE LinkStart \/ LinkTop \/ LinkGet \/ LinkRead \/ LinkReadClosed
               \/ LinkReadTimeout \/ LinkWriteFails
    BY <2>4, <2>7 DEF LinkStart, LinkTop, LinkGet, LinkRead, LinkReadClosed,
         LinkReadTimeout, LinkWriteFails
  <2>8. CASE LinkWrite
    BY <1>2, <2>8, LinkWriteRefines
  <2>9. CASE UNCHANGED vars
    BY <2>4, <2>9 DEF vars
  <2>. QED BY <1>2, <2>1, <2>2, <2>3, <2>5, <2>6, <2>7, <2>8, <2>9 DEF Next, LinkStep
<1>. QED BY <1>1, <1>2, TypeCorrect, PipelineInvariant, PTL DEF Spec, StreamSpec,
     Promise!Spec

-----------------------------------------------------------------------------
(***************************************************************************)
(* Why the empty blocks are bounded: while the queue is open every slot is *)
(* a block or the end marker, and Send leaves its loop behind the latter.  *)
(* Once the queue is closed under a running Send, the slots that it still  *)
(* takes are the positions of the round it is in.                          *)
(***************************************************************************)
EmptySlots ==
  /\ qOpen => \/ qSlot = qData
              \/ qPc = "write" /\ qHeld.kind = "eof" /\ qSlot = qData + 1
              \/ qPc = "end" /\ qSlot = qData + 1
  /\ qOpen => qStatus # "close"
  /\ qStatus = "close" =>
       /\ qPc = "read" => qSlot - qData < qIdx
       /\ qPc = "write" => qSlot - qData <= qIdx
       /\ qSlot - qData <= N

\* CopyBuffer, the websockets and link.Send do not touch the slots, and queue.Send
\* takes an empty block only from a closed queue, one for each position.
LEMMA EmptySlotsStep ==
  ASSUME TypeOK, QueueInOrder, EmptySlots, [Next]_vars
  PROVE  EmptySlots'
<1>. USE TransferAssumption
<1>. DEFINE S == <<qOpen, qSlot, qData, qPc, qHeld, qStatus, qIdx>>
<1>0. /\ qSlot \in Nat /\ qData \in Nat /\ qIdx \in Nat /\ qIdx >= 1 /\ qIdx <= N
      /\ qBuf \in Seq(Buffer)
  BY DEF TypeOK, Chans
<1>1. CASE UNCHANGED S
  BY <1>1 DEF EmptySlots
<1>2. CASE CopyRead \/ CopyEnd \/ CopyStep
  BY <1>1, <1>2 DEF CopyRead, CopyEnd, CopyStep, QueueCheck, QueuePut, QueuePutFails
<1>3. CASE QueueStart
  BY <1>0, <1>3 DEF QueueStart, EmptySlots
<1>4. CASE QueueTop
  BY <1>0, <1>4 DEF QueueTop, QueueReturn, EmptySlots
<1>5. CASE QueueRead
  <2>1. Head(qBuf) = qBuf[1] /\ Len(qBuf) > 0 /\ qSlot = qData
    BY <1>0, <1>5, TailFacts, ElementFacts DEF QueueRead, QueueInOrder
  <2>2. /\ qData' = IF qHeld'.kind = "eof" THEN qData ELSE qData + 1
        /\ qSlot' = qSlot + 1 /\ qPc' = "write"
        /\ UNCHANGED <<qOpen, qStatus, qIdx>>
    BY <1>5 DEF QueueRead
  <2>. QED BY <1>0, <2>1, <2>2 DEF EmptySlots
<1>6. CASE QueueReadClosed
  BY <1>0, <1>6 DEF QueueReadClosed, EmptySlots
<1>7. CASE QueueReadTimeout \/ QueueWriteFails
  BY <1>0, <1>7 DEF QueueReadTimeout, QueueWriteFails, QueueReturn, EmptySlots
<1>8. CASE QueueWrite
  BY <1>0, <1>8 DEF QueueWrite, QueueReturn, NextWriter, EmptySlots
<1>9. ASSUME NEW c \in Chans, CloseWsWriter(c) \/ Break(c) \/ ReaderStep(c)
      PROVE  EmptySlots'
  BY <1>1, <1>9, ZenonT(30) DEF CloseWsWriter, Break, ReaderStep, Receive, LinkPut,
                                LinkPutFails
<1>10. CASE LinkStep \/ RemoveAll
  BY <1>1, <1>10 DEF LinkStep, LinkStart, LinkTop, LinkGet, LinkRead, LinkReadClosed,
       LinkReadTimeout, LinkWrite, LinkWriteFails, RemoveAll
<1>11. CASE Remove
  BY <1>0, <1>11 DEF Remove, EmptySlots
<1>12. CASE UNCHANGED vars
  BY <1>1, <1>12 DEF vars
<1>. QED BY <1>2, <1>3, <1>4, <1>5, <1>6, <1>7, <1>8, <1>9, <1>10, <1>11, <1>12
         DEF Next, QueueStep

(***************************************************************************)
(* A Send that runs when its queue is closed takes at most N empty blocks: *)
(* the round it is in.  This holds under every fault.                      *)
(***************************************************************************)
THEOREM EmptyBlocksBounded == Spec => []EmptyBounded
<1>1. Init => QueueInOrder /\ EmptySlots
  BY PipelineInit, TransferAssumption DEF Init, PipelineInv, EmptySlots
<1>2. TypeOK /\ QueueInOrder /\ EmptySlots /\ [Next]_vars => QueueInOrder' /\ EmptySlots'
  BY QueueInOrderStep, EmptySlotsStep
<1>3. TypeOK /\ QueueInOrder /\ EmptySlots => EmptyBounded
  BY TransferAssumption DEF TypeOK, QueueInOrder, EmptySlots, EmptyBounded
<1>. QED BY <1>1, <1>2, <1>3, TypeCorrect, PTL DEF Spec

-----------------------------------------------------------------------------
(***************************************************************************)
(* Why one read at most is long after the second goroutine is done: every  *)
(* turn that loads d.Line afterwards finds the short time, and there is    *)
(* one turn that may have loaded it before.                                *)
(***************************************************************************)
DeadInv ==
  /\ waiter \in {"wait", "set", "done"}
  /\ line \in {"long", "short"} /\ loaded \in {"long", "short"}
  /\ longReads \in {0, 1}
  /\ waiter # "wait" => line = "short"
  /\ waiter # "done" => longReads = 0
  /\ longReads = 1 => ~(readPc = "set" /\ loaded = "long")
  /\ waiter = "done" /\ deadline = "long" => longReads = 1

\* A step of the transfer, a load of d.Line or a deadline keeps the invariant.
LEMMA DeadStep ==
  ASSUME DeadInv, [RespNext]_respVars
  PROVE  DeadInv'
<1> USE DEF DeadInv
<1>1. CASE LoadLine
  BY <1>1 DEF LoadLine
<1>2. CASE SetReadDeadline
  BY <1>2 DEF SetReadDeadline
<1>3. CASE ShortenLine
  BY <1>3 DEF ShortenLine
<1>4. CASE ShortenRead
  BY <1>4 DEF ShortenRead
<1>5. CASE TellClosed \/ OnClosed \/ UNCHANGED respVars
  BY <1>5 DEF TellClosed, OnClosed, respVars, deadVars
<1>6. CASE TurnOfCopy
  BY <1>6 DEF TurnOfCopy, deadVars
<1>. QED BY <1>1, <1>2, <1>3, <1>4, <1>5, <1>6 DEF RespNext

(***************************************************************************)
(* One read of the target at most begins under the long deadline after the *)
(* second goroutine of establish has shortened it.                         *)
(***************************************************************************)
THEOREM LongReadOnce == RespSpec => []OneLongRead
<1>1. RespInit => DeadInv
  BY DEF RespInit, DeadInv
<1>2. DeadInv => OneLongRead
  BY DEF DeadInv, OneLongRead
<1>. QED BY <1>1, <1>2, DeadStep, PTL DEF RespSpec

-----------------------------------------------------------------------------
(* What is proved of Transfer holds of a response with its close message.  *)

\* A step of Response is one of Transfer, a change of the deadline, or one of
\* the two ends of the close message.
LEMMA RespSteps ==
  ASSUME [RespNext]_respVars
  PROVE  TellClosed \/ OnClosed \/ [Next]_vars
<1>1. CASE LoadLine \/ SetReadDeadline \/ ShortenLine \/ ShortenRead
  BY <1>1 DEF LoadLine, SetReadDeadline, ShortenLine, ShortenRead
<1>2. CASE UNCHANGED respVars
  BY <1>2 DEF respVars
<1>. QED BY <1>1, <1>2 DEF RespNext

\* The close message keeps the types.
LEMMA RespTypeCorrect == RespSpec => []TypeOK
<1>1. RespInit => TypeOK
  BY InitTyped DEF RespInit
<1>2. ASSUME TypeOK, [RespNext]_respVars PROVE TypeOK'
  <2>1. CASE TellClosed
    <3>1. /\ UNCHANGED <<copyVars, qBuf, qPc, qIdx, qHeld, qSlot, qData, netVars, hand,
                         lBuf, lOpen, linkVars, connVars>>
          /\ qOpen' = FALSE /\ qStatus' \in {"close", qStatus}
      BY <2>1, Zenon DEF TellClosed
    <3>2. qStatus' \in Status
      BY <1>2, <3>1, Zenon DEF TypeOK, Status
    <3>. QED BY <1>2, <3>1, <3>2, Zenon DEF TypeOK
  <2>2. CASE OnClosed
    <3>1. /\ UNCHANGED <<copyVars, qBuf, qOpen, queueVars, netVars, hand, lBuf, lPc,
                         lIdx, lHeld, lSlot, connVars>>
          /\ lOpen' = FALSE /\ lStatus' \in {"close", lStatus}
      BY <2>2, Zenon DEF OnClosed
    <3>2. lStatus' \in Status
      BY <1>2, <3>1, Zenon DEF TypeOK, Status
    <3>. QED BY <1>2, <3>1, <3>2, Zenon DEF TypeOK
  <2>3. CASE [Next]_vars
    BY <1>2, <2>3, TypeStep
  <2>. QED BY <1>2, <2>1, <2>2, <2>3, RespSteps
<1>. QED BY <1>1, <1>2, PTL DEF RespSpec

(***************************************************************************)
(* The response is written in order, and a half-close of the connection to *)
(* the application is never a truncation: whatever the close message       *)
(* overtakes, link.Send writes a prefix of what was read from the target,  *)
(* and all of it if it half-closes.                                        *)
(***************************************************************************)
THEOREM ResponseInOrder ==
  ASSUME "linkWrite" \notin Faults
  PROVE  RespSpec => [](InOrder /\ FinComplete)
<1>1. RespInit => PipelineInv
  BY PipelineInit DEF RespInit
<1>2. ASSUME TypeOK, PipelineInv, [RespNext]_respVars PROVE PipelineInv'
  <2>1. CASE TellClosed
    <3>1. /\ UNCHANGED <<copyVars, qBuf, qPc, qIdx, qHeld, qSlot, qData, netVars, hand,
                         lBuf, lOpen, linkVars, connVars>>
          /\ qOpen' = FALSE
      BY <2>1 DEF TellClosed
    <3>2. QueueInOrder'
      BY <1>2, <3>1, Zenon DEF PipelineInv, QueueInOrder, Stored
    <3>3. MessagesFaithful' /\ LinkInOrder'
      <4>1. MessagesFaithful
        BY <1>2, Zenon DEF PipelineInv
      <4>2. UNCHANGED <<blocks, copyPc, qSlot, qData, qHeld, lHeld, ws, hand, lBuf>>
        BY <3>1, Zenon
      <4>3. MessagesFaithful'
        BY <4>1, <4>2 DEF MessagesFaithful, Faithful
      <4>4. LinkInOrder'
        BY <1>2, <3>1, Zenon DEF PipelineInv, LinkInOrder, LinkLive
      <4>. QED BY <4>3, <4>4
    <3>4. Striped'
      BY <1>2, <3>1, Zenon DEF PipelineInv, Striped, LinkLive, LinkWants, ReaderWants,
                        SocketWants, QueueOwes
    <3>. QED BY <3>2, <3>3, <3>4 DEF PipelineInv
  <2>2. CASE OnClosed
    <3>1. /\ UNCHANGED <<copyVars, qBuf, qOpen, queueVars, netVars, hand, lBuf, lPc,
                         lIdx, lHeld, lSlot, connVars>>
          /\ lOpen' = FALSE
          /\ lStatus' = "done" => lStatus = "done"
      BY <2>2, Zenon DEF OnClosed
    <3>2. QueueInOrder'
      BY <1>2, <3>1, Zenon DEF PipelineInv, QueueInOrder, Stored
    <3>3. MessagesFaithful'
      <4>1. MessagesFaithful
        BY <1>2, Zenon DEF PipelineInv
      <4>2. UNCHANGED <<blocks, copyPc, qSlot, qData, qHeld, lHeld, ws, hand, lBuf>>
        BY <3>1, Zenon
      <4>. QED BY <4>1, <4>2 DEF MessagesFaithful, Faithful
    <3>4. LinkInOrder'
      BY <1>2, <3>1, Zenon DEF PipelineInv, LinkInOrder, LinkLive
    <3>5. Striped'
      BY <1>2, <3>1, Zenon DEF PipelineInv, Striped, LinkLive, LinkWants, Run
    <3>. QED BY <3>2, <3>3, <3>4, <3>5 DEF PipelineInv
  <2>3. CASE [Next]_vars
    BY <1>2, <2>3, PipelineStep
  <2>. QED BY <1>2, <2>1, <2>2, <2>3, RespSteps
<1>. QED BY <1>1, <1>2, PipelineOrder, RespTypeCorrect, PTL DEF RespSpec

-----------------------------------------------------------------------------
(* The close message is a disturbance that Transfer allows.                *)

\* A fault that may happen in Response may happen in Pipe: every step of the
\* transfer is one of Pipe.
LEMMA PipeStep == Next => Pipe!Next
<1> USE DEF Pipe!copyVars, Pipe!queueVars, Pipe!netVars, Pipe!linkVars,
     Pipe!connVars, Pipe!Chans, Chans
<1>1. CopyRead => Pipe!CopyRead
  BY DEF CopyRead, Pipe!CopyRead
<1>2. CopyEnd => Pipe!CopyEnd
  BY DEF CopyEnd, Pipe!CopyEnd
<1>3. QueueCheck => Pipe!QueueCheck
  BY DEF QueueCheck, Pipe!QueueCheck
<1>4. QueuePut => Pipe!QueuePut
  BY DEF QueuePut, Room, DataBlock, EOFBlock, Pipe!QueuePut, Pipe!Room,
       Pipe!DataBlock, Pipe!EOFBlock
<1>5. QueuePutFails => Pipe!QueuePutFails
  BY DEF QueuePutFails, Room, AfterFailedWrite, Pipe!QueuePutFails, Pipe!Room,
       Pipe!AfterFailedWrite
<1>6. QueueStart => Pipe!QueueStart
  BY DEF QueueStart, Pipe!QueueStart
<1>7. QueueTop => Pipe!QueueTop
  BY DEF QueueTop, QueueReturn, Pipe!QueueTop, Pipe!QueueReturn
<1>8. QueueRead => Pipe!QueueRead
  BY DEF QueueRead, Pipe!QueueRead
<1>9. QueueReadClosed => Pipe!QueueReadClosed
  BY DEF QueueReadClosed, Pipe!QueueReadClosed
<1>10. QueueReadTimeout => Pipe!QueueReadTimeout
  BY DEF QueueReadTimeout, QueueReturn, Pipe!QueueReadTimeout, Pipe!QueueReturn
<1>11. QueueWrite => Pipe!QueueWrite
  BY DEF QueueWrite, QueueReturn, NextWriter, Pipe!QueueWrite, Pipe!QueueReturn,
       Pipe!NextWriter
<1>12. QueueWriteFails => Pipe!QueueWriteFails
  BY DEF QueueWriteFails, QueueReturn, Pipe!QueueWriteFails, Pipe!QueueReturn
<1>13. LinkStart => Pipe!LinkStart
  BY DEF LinkStart, Pipe!LinkStart
<1>14. LinkTop => Pipe!LinkTop
  BY DEF LinkTop, LinkReturn, Pipe!LinkTop, Pipe!LinkReturn
<1>15. LinkGet => Pipe!LinkGet
  BY DEF LinkGet, LinkReturn, Pipe!LinkGet, Pipe!LinkReturn
<1>16. LinkRead => Pipe!LinkRead
  BY DEF LinkRead, Pipe!LinkRead
<1>17. LinkReadClosed => Pipe!LinkReadClosed
  BY Zenon DEF LinkReadClosed, Pipe!LinkReadClosed
<1>18. LinkReadTimeout => Pipe!LinkReadTimeout
  BY DEF LinkReadTimeout, LinkReturn, Pipe!LinkReadTimeout, Pipe!LinkReturn
<1>19. LinkWrite => Pipe!LinkWrite
  BY DEF LinkWrite, LinkReturn, NextLink, Pipe!LinkWrite, Pipe!LinkReturn, Pipe!NextLink
<1>20. LinkWriteFails => Pipe!LinkWriteFails
  BY DEF LinkWriteFails, LinkReturn, Pipe!LinkWriteFails, Pipe!LinkReturn
<1>21. Remove => Pipe!Remove
  BY DEF Remove, Pipe!Remove
<1>22. RemoveAll => Pipe!RemoveAll
  BY DEF RemoveAll, Pipe!RemoveAll
<1>23. ASSUME NEW c \in Chans PROVE CloseWsWriter(c) => Pipe!CloseWsWriter(c)
  BY DEF CloseWsWriter, Pipe!CloseWsWriter
<1>24. ASSUME NEW c \in Chans PROVE Break(c) => Pipe!Break(c)
  BY DEF Break, Pipe!Break
<1>25. ASSUME NEW c \in Chans PROVE Receive(c) => Pipe!Receive(c)
  BY DEF Receive, Pipe!Receive
<1>26. ASSUME NEW c \in Chans PROVE LinkPut(c) => Pipe!LinkPut(c)
  BY DEF LinkPut, Room, Pipe!LinkPut, Pipe!Room
<1>27. ASSUME NEW c \in Chans PROVE LinkPutFails(c) => Pipe!LinkPutFails(c)
  BY DEF LinkPutFails, Room, Pipe!LinkPutFails, Pipe!Room
<1>. QED BY <1>1, <1>2, <1>3, <1>4, <1>5, <1>6, <1>7, <1>8, <1>9, <1>10, <1>11,
     <1>12, <1>13, <1>14, <1>15, <1>16, <1>17, <1>18, <1>19, <1>20, <1>21, <1>22,
     <1>23, <1>24, <1>25, <1>26, <1>27, Zenon
  DEF Next, CopyStep, QueueStep, ReaderStep, LinkStep, Pipe!Next, Pipe!CopyStep,
       Pipe!QueueStep,
      Pipe!ReaderStep, Pipe!LinkStep

(***************************************************************************)
(* The response with its close message implements a transfer whose session *)
(* may be closed at any time: TellClosed is a Remove, OnClosed a RemoveAll.*)
(***************************************************************************)
THEOREM ImplementsPipe == RespSpec => PipeSpec
<1>1. RespInit => Pipe!Init
  BY DEF RespInit, Init, Pipe!Init, Chans, Pipe!Chans
<1>2. ASSUME TypeOK, [RespNext]_respVars
      PROVE  [Pipe!Next]_(Pipe!vars)
  <2> USE DEF Pipe!copyVars, Pipe!queueVars, Pipe!netVars, Pipe!linkVars, Pipe!connVars
  <2>1. CASE UNCHANGED vars
    BY <2>1 DEF vars, Pipe!vars
  <2>2. CASE TellClosed
    <3>1. CASE qOpen
      BY <2>2, <3>1 DEF TellClosed, Pipe!Next, Pipe!Remove
    <3>2. CASE ~qOpen
      BY <1>2, <2>1, <2>2, <3>2, ZenonT(30) DEF TellClosed, TypeOK, vars
    <3>. QED BY <3>1, <3>2
  <2>3. CASE OnClosed
    <3>1. CASE lOpen
      BY <2>3, <3>1, Zenon DEF OnClosed, Pipe!Next, Pipe!RemoveAll
    <3>2. CASE ~lOpen
      BY <1>2, <2>1, <2>3, <3>2, Zenon DEF OnClosed, TypeOK, vars
    <3>. QED BY <3>1, <3>2
  <2>. QED BY <1>2, <2>1, <2>2, <2>3, RespSteps, PipeStep, Zenon
<1>. QED BY <1>1, <1>2, RespTypeCorrect, PTL DEF RespSpec, PipeSpec, Pipe!Spec
=============================================================================
