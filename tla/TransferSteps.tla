--------------------------- MODULE TransferSteps ----------------------------
(***************************************************************************)
(* Lemmas about the steps of Transfer, for every number of websockets,     *)
(* every capacity of the buffers and any number of blocks: the types and   *)
(* the capacities of the channels; queue.Send takes the blocks in order,   *)
(* and a message holds what its slot says; what the steps that move a      *)
(* message do to the slots on the websockets.                              *)
(***************************************************************************)
EXTENDS Transfer, SequenceTheorems, TLAPS

-----------------------------------------------------------------------------
(* Sequences under the operations of a channel.                            *)

\* What Append does to the elements of a buffer.
LEMMA AppendFacts ==
  ASSUME NEW S, NEW s \in Seq(S), NEW m \in S
  PROVE  /\ Append(s, m) \in Seq(S)
         /\ Len(s) \in Nat
         /\ Len(Append(s, m)) = Len(s) + 1
         /\ \A j \in 1 .. Len(s) : Append(s, m)[j] = s[j]
         /\ Append(s, m)[Len(s) + 1] = m
BY AppendProperties, LenProperties

\* What taking the first element does to the elements of a buffer.
LEMMA TailFacts ==
  ASSUME NEW S, NEW s \in Seq(S), s # << >>
  PROVE  /\ Head(s) \in S
         /\ Head(s) = s[1]
         /\ Tail(s) \in Seq(S)
         /\ Len(s) \in Nat \ {0}
         /\ Len(Tail(s)) = Len(s) - 1
         /\ \A j \in 1 .. Len(s) - 1 : Tail(s)[j] = s[j + 1]
<1>1. /\ Head(s) \in S /\ Tail(s) \in Seq(S) /\ Len(Tail(s)) = Len(s) - 1
      /\ \A j \in 1 .. Len(Tail(s)) : Tail(s)[j] = s[j + 1]
  BY HeadTailProperties
<1>2. Len(s) \in Nat \ {0}
  BY EmptySeq
<1>3. Head(s) = s[1]
  BY <1>2
<1>. QED BY <1>1, <1>2, <1>3

\* A message in a buffer is a message.
LEMMA ElementFacts ==
  ASSUME NEW S, NEW s \in Seq(S)
  PROVE  /\ Len(s) \in Nat
         /\ \A j \in 1 .. Len(s) : s[j] \in S
         /\ s = << >> <=> Len(s) = 0
BY ElementOfSeq, LenProperties, EmptySeq

\* Appending the slot that continues a run gives a longer run.
LEMMA RunAppend ==
  ASSUME NEW s \in Seq(Message), NEW x \in Int, NEW m \in Message,
         Run(s, x), m.slot = SlotAfter(s, x)
  PROVE  /\ Run(Append(s, m), x)
         /\ SlotAfter(Append(s, m), x) = m.slot + N
<1>. DEFINE t == Append(s, m)
<1>1. /\ t \in Seq(Message) /\ Len(s) \in Nat /\ Len(t) = Len(s) + 1
      /\ \A j \in 1 .. Len(s) : t[j] = s[j]
      /\ t[Len(s) + 1] = m
  BY AppendFacts
<1>. HIDE DEF t
<1>2. t[1].slot = x
  BY <1>1 DEF Run, SlotAfter
<1>3. ASSUME NEW j \in 1 .. Len(t) - 1
      PROVE  t[j + 1].slot = t[j].slot + N
  BY <1>1 DEF Run, SlotAfter
<1>4. SlotAfter(t, x) = m.slot + N
  BY <1>1 DEF SlotAfter
<1>. QED BY <1>1, <1>2, <1>3, <1>4 DEF Run, t

\* The head of a run is its first slot, the rest is the run N further on.
LEMMA RunTail ==
  ASSUME NEW s \in Seq(Message), NEW x \in Int, s # << >>, Run(s, x)
  PROVE  /\ Head(s).slot = x
         /\ Run(Tail(s), x + N)
         /\ SlotAfter(Tail(s), x + N) = SlotAfter(s, x)
<1>. DEFINE t == Tail(s)
<1>1. /\ Head(s) = s[1] /\ t \in Seq(Message)
      /\ Len(s) \in Nat \ {0} /\ Len(t) = Len(s) - 1
      /\ \A j \in 1 .. Len(s) - 1 : t[j] = s[j + 1]
  BY TailFacts
<1>. HIDE DEF t
<1>2. Head(s).slot = x
  BY <1>1 DEF Run
<1>3. Len(t) > 0 => t[1].slot = x + N
  BY <1>1, <1>2 DEF Run
<1>4. ASSUME NEW j \in 1 .. Len(t) - 1
      PROVE  t[j + 1].slot = t[j].slot + N
  BY <1>1, SMTT(30) DEF Run
<1>5. SlotAfter(t, x + N) = SlotAfter(s, x)
  BY <1>1, <1>2 DEF SlotAfter
<1>. QED BY <1>2, <1>3, <1>4, <1>5 DEF Run, t

\* The slot after a run is a number.
LEMMA SlotAfterType ==
  ASSUME NEW s \in Seq(Message), NEW x \in Int
  PROVE  SlotAfter(s, x) \in Int
<1>1. Len(s) \in Nat /\ \A j \in 1 .. Len(s) : s[j] \in Message
  BY ElementFacts
<1>2. Len(s) # 0 => s[Len(s)].slot \in Nat
  BY <1>1 DEF Message
<1>. QED BY <1>1, <1>2, TransferAssumption DEF SlotAfter

-----------------------------------------------------------------------------
(* Type correctness.                                                       *)

USE DEF copyVars, queueVars, netVars, linkVars, connVars

\* Every step keeps the types and the capacity of the buffers.
LEMMA TypeStep == TypeOK /\ [Next]_vars => TypeOK'
<1>. SUFFICES ASSUME TypeOK, [Next]_vars PROVE TypeOK'
  OBVIOUS
<1>. USE TransferAssumption DEF TypeOK, Chans, Status
<1>1. CASE CopyRead
  BY <1>1 DEF CopyRead
<1>2. CASE CopyEnd
  BY <1>2 DEF CopyEnd
<1>3. CASE QueueCheck
  BY <1>3 DEF QueueCheck
<1>4. CASE QueuePut
  <2>1. DataBlock(blocks) \in Buffer /\ EOFBlock \in Buffer
    BY DEF Buffer, DataBlock, EOFBlock
  <2>2. qBuf' \in Seq(Buffer) /\ Len(qBuf') <= Cap
    BY <1>4, <2>1, AppendFacts DEF QueuePut, Room
  <2>. QED BY <1>4, <2>2 DEF QueuePut
<1>5. CASE QueuePutFails
  BY <1>5 DEF QueuePutFails, AfterFailedWrite
<1>6. CASE QueueStart
  BY <1>6 DEF QueueStart
<1>7. CASE QueueTop
  BY <1>7, SMTT(30) DEF QueueTop, QueueReturn
<1>8. CASE QueueRead
  <2>1. Head(qBuf) \in Buffer /\ qBuf' \in Seq(Buffer) /\ Len(qBuf') <= Cap
    BY <1>8, TailFacts DEF QueueRead
  <2>2. qHeld' \in Message
    <3>1. Head(qBuf).kind \in {"data", "eof"} /\ Head(qBuf).data \in Nat
      BY <2>1 DEF Buffer
    <3>. QED BY <1>8, <3>1, SMTT(30) DEF QueueRead, Message
  <2>3. UNCHANGED <<blocks, copyPc, qOpen, qStatus, qIdx, cancelled, wsUp, ws, hand,
                    lBuf, lOpen, lStatus, lPc, lIdx, lHeld, lSlot, recv, fin>>
    BY <1>8 DEF QueueRead
  <2>4. /\ qPc' \in {"start", "top", "read", "write", "end"}
        /\ qSlot' \in Nat /\ qData' \in Nat
    BY <1>8 DEF QueueRead
  <2>. QED BY <2>1, <2>2, <2>3, <2>4, SMTT(30)
<1>9. CASE QueueReadClosed
  <2>1. qHeld' \in Message
    BY <1>9 DEF QueueReadClosed, Message
  <2>. QED BY <1>9, <2>1 DEF QueueReadClosed
<1>10. CASE QueueReadTimeout
  BY <1>10 DEF QueueReadTimeout, QueueReturn
<1>11. CASE QueueWrite
  <2>1. Append(ws[qIdx], qHeld) \in Seq(Message)
    BY AppendFacts
  <2>2. ws' \in [Chans -> Seq(Message)]
    BY <1>11, <2>1 DEF QueueWrite
  <2>3. /\ qStatus' \in Status /\ qIdx' \in Chans
        /\ qPc' \in {"start", "top", "read", "write", "end"}
    <3>1. CASE qHeld.kind = "eof"
      BY <1>11, <3>1, Zenon DEF QueueWrite, QueueReturn
    <3>2. CASE qHeld.kind # "eof"
      <4>1. qIdx' = NextWriter(qIdx) /\ qPc' \in {"read", "top"} /\ qStatus' = qStatus
        BY <1>11, <3>2, Zenon DEF QueueWrite
      <4>. QED BY <4>1 DEF NextWriter
    <3>. QED BY <3>1, <3>2
  <2>4. UNCHANGED <<blocks, copyPc, qBuf, qOpen, qHeld, cancelled, wsUp, hand,
                    lBuf, lOpen, lStatus, lPc, lIdx, lHeld, recv, fin, qSlot,
                    qData, lSlot>>
    BY <1>11 DEF QueueWrite
  <2>. QED BY <2>2, <2>3, <2>4, ZenonT(30)
<1>12. CASE QueueWriteFails
  BY <1>12, SMTT(30) DEF QueueWriteFails, QueueReturn
<1>13. ASSUME NEW c \in Chans, CloseWsWriter(c) PROVE TypeOK'
  BY <1>13 DEF CloseWsWriter
<1>14. ASSUME NEW c \in Chans, Break(c) PROVE TypeOK'
  BY <1>14, SMTT(30) DEF Break
<1>15. ASSUME NEW c \in Chans, Receive(c) PROVE TypeOK'
  <2>1. Head(ws[c]) \in Message /\ Tail(ws[c]) \in Seq(Message)
    BY <1>15, TailFacts DEF Receive
  <2>2. ws' \in [Chans -> Seq(Message)]
    BY <1>15, <2>1 DEF Receive
  <2>3. <<Head(ws[c])>> \in Seq(Message) /\ Len(<<Head(ws[c])>>) = 1
    BY <2>1
  <2>4. /\ hand' \in [Chans -> Seq(Message)]
        /\ \A d \in Chans : Len(hand'[d]) <= 1
    <3>1. CASE lOpen /\ ~(c = 1 /\ lStatus = "done")
      <4>1. hand' = [hand EXCEPT ![c] = <<Head(ws[c])>>]
        BY <1>15, <3>1 DEF Receive
      <4>. QED BY <2>3, <4>1
    <3>2. CASE ~(lOpen /\ ~(c = 1 /\ lStatus = "done"))
      BY <1>15, <3>2, ZenonT(30) DEF Receive
    <3>. QED BY <3>1, <3>2
  <2>5. UNCHANGED <<blocks, copyPc, qBuf, qOpen, qStatus, qPc, qIdx, qHeld,
                    qSlot, qData, cancelled, wsUp, lBuf, lOpen, lStatus, lPc,
                    lIdx, lHeld, lSlot, recv, fin>>
    BY <1>15 DEF Receive
  <2>. QED BY <2>2, <2>4, <2>5, SMTT(30)
<1>16. ASSUME NEW c \in Chans, LinkPut(c) PROVE TypeOK'
  BY <1>16, SMTT(30) DEF LinkPut, Room
<1>17. ASSUME NEW c \in Chans, LinkPutFails(c) PROVE TypeOK'
  BY <1>17 DEF LinkPutFails
<1>18. CASE LinkStart
  BY <1>18 DEF LinkStart
<1>19. CASE LinkTop
  BY <1>19 DEF LinkTop, LinkReturn
<1>20. CASE LinkGet
  BY <1>20 DEF LinkGet, LinkReturn
<1>21. CASE LinkRead
  <2>1. /\ Head(lBuf[lIdx]) \in Message /\ Tail(lBuf[lIdx]) \in Seq(Message)
        /\ Len(Tail(lBuf[lIdx])) <= Cap
    BY <1>21, TailFacts DEF LinkRead
  <2>2. /\ lBuf' \in [Chans -> Seq(Message)]
        /\ \A d \in Chans : Len(lBuf'[d]) <= Cap
    BY <1>21, <2>1, Zenon DEF LinkRead
  <2>3. UNCHANGED <<blocks, copyPc, qBuf, qOpen, qStatus, qPc, qIdx, qHeld, qSlot,
                    qData, cancelled, wsUp, ws, hand, lOpen, lStatus, lIdx, recv, fin>>
    BY <1>21 DEF LinkRead
  <2>4. /\ lPc' \in {"start", "top", "get", "read", "write", "end"}
        /\ lHeld' \in Message /\ lSlot' \in Nat
    BY <1>21, <2>1 DEF LinkRead
  <2>. QED BY <2>2, <2>3, <2>4, SMTT(30)
<1>22. CASE LinkReadClosed
  <2>1. lHeld' \in Message
    BY <1>22 DEF LinkReadClosed, Message
  <2>2. UNCHANGED <<blocks, copyPc, qBuf, qOpen, qStatus, qPc, qIdx, qHeld,
                    qSlot, qData, cancelled, wsUp, ws, hand, lBuf, lOpen,
                    lStatus, lIdx, lSlot, recv, fin>>
    BY <1>22 DEF LinkReadClosed
  <2>3. lPc' \in {"start", "top", "get", "read", "write", "end"}
    BY <1>22 DEF LinkReadClosed
  <2>. QED BY <2>1, <2>2, <2>3, SMTT(30)
<1>23. CASE LinkReadTimeout
  BY <1>23, ZenonT(30) DEF LinkReadTimeout, LinkReturn
<1>24. CASE LinkWrite
  <2>1. lHeld.data \in Nat
    BY DEF Message
  <2>2. recv' \in Seq(Nat)
    BY <1>24, <2>1, AppendFacts DEF LinkWrite
  <2>3. /\ lStatus' \in Status /\ lIdx' \in Chans
        /\ lPc' \in {"start", "top", "get", "read", "write", "end"}
    BY <1>24, SMTT(30) DEF LinkWrite, LinkReturn, NextLink
  <2>4. UNCHANGED <<blocks, copyPc, qBuf, qOpen, qStatus, qPc, qIdx, qHeld,
                    qSlot, qData, cancelled, wsUp, ws, hand, lBuf, lOpen,
                    lHeld, lSlot>>
    BY <1>24 DEF LinkWrite
  <2>5. fin' \in BOOLEAN
    BY <1>24, ZenonT(30) DEF LinkWrite
  <2>. QED BY <2>2, <2>3, <2>4, <2>5, ZenonT(30)
<1>25. CASE LinkWriteFails
  BY <1>25 DEF LinkWriteFails, LinkReturn
<1>26. CASE Remove
  <2>1. UNCHANGED <<blocks, copyPc, qBuf, qPc, qIdx, qHeld, qSlot, qData, cancelled,
                    wsUp, ws, hand, lBuf, lOpen, lStatus, lPc, lIdx, lHeld, lSlot,
                    recv, fin>>
    BY <1>26 DEF Remove
  <2>2. qOpen' \in BOOLEAN /\ qStatus' \in Status
    BY <1>26, Zenon DEF Remove
  <2>. QED BY <2>1, <2>2, SMTT(30)
<1>27. CASE RemoveAll
  <2>1. UNCHANGED <<blocks, copyPc, qBuf, qOpen, qStatus, qPc, qIdx, qHeld, qSlot,
                    qData, cancelled, wsUp, ws, hand, lBuf, lPc, lIdx, lHeld, lSlot,
                    recv, fin>>
    BY <1>27 DEF RemoveAll
  <2>2. lOpen' \in BOOLEAN /\ lStatus' \in Status
    BY <1>27, Zenon DEF RemoveAll
  <2>. QED BY <2>1, <2>2, SMTT(30)
<1>28. CASE UNCHANGED vars
  BY <1>28 DEF vars
<1>. QED
  BY <1>1, <1>2, <1>3, <1>4, <1>5, <1>6, <1>7, <1>8, <1>9, <1>10, <1>11, <1>12,
     <1>13, <1>14, <1>15, <1>16, <1>17, <1>18, <1>19, <1>20, <1>21, <1>22, <1>23,
     <1>24, <1>25, <1>26, <1>27, <1>28, ZenonT(30)
     DEF Next, CopyStep, QueueStep, ReaderStep, LinkStep

\* The variables start with their types.
LEMMA InitTyped == Init => TypeOK
<1>. SUFFICES ASSUME Init PROVE TypeOK
  OBVIOUS
<1>1. [kind |-> "data", data |-> 0, slot |-> 0] \in Message
  BY DEF Message
<1>2. /\ qBuf \in Seq(Buffer) /\ Len(qBuf) <= Cap /\ recv \in Seq(Nat)
  BY TransferAssumption DEF Init
<1>3. /\ ws \in [Chans -> Seq(Message)]
      /\ hand \in [Chans -> Seq(Message)]
      /\ lBuf \in [Chans -> Seq(Message)]
      /\ \A c \in Chans : Len(hand[c]) <= 1 /\ Len(lBuf[c]) <= Cap
  BY TransferAssumption DEF Init
<1>4. 1 \in Chans
  BY TransferAssumption DEF Chans
<1>5. qOpen \in BOOLEAN /\ lOpen \in BOOLEAN /\ fin \in BOOLEAN
  BY ZenonT(30) DEF Init
<1>6. /\ blocks \in 0 .. MaxBlocks /\ qSlot \in Nat /\ qData \in Nat /\ lSlot \in Nat
      /\ qIdx \in Chans /\ lIdx \in Chans
      /\ cancelled \subseteq Chans /\ wsUp \subseteq Chans
  BY <1>4, TransferAssumption DEF Init
<1>7. /\ copyPc \in {"read", "write", "writeEOF", "put", "putEOF", "done"}
      /\ qStatus \in Status /\ lStatus \in Status
      /\ qPc \in {"start", "top", "read", "write", "end"}
      /\ lPc \in {"start", "top", "get", "read", "write", "end"}
      /\ qHeld \in Message /\ lHeld \in Message
  BY <1>1 DEF Init, Status
<1>. QED BY <1>2, <1>3, <1>5, <1>6, <1>7 DEF TypeOK

\* Every variable keeps its type, and no buffer ever holds more than Cap
\* blocks (makeBuffer), whatever faults happen.
THEOREM TypeCorrect == Spec => []TypeOK
BY InitTyped, TypeStep, PTL DEF Spec

-----------------------------------------------------------------------------
(* queue.buffer holds consecutive blocks, and what CopyBuffer has read is  *)
(* taken, stored or in its hands.                                          *)

\* CopyBuffer stores block after block, the end marker last, and Send takes
\* them in that order.
LEMMA QueueInOrderStep ==
  TypeOK /\ QueueInOrder /\ [Next]_vars => QueueInOrder'
<1>. SUFFICES ASSUME TypeOK, QueueInOrder, [Next]_vars PROVE QueueInOrder'
  OBVIOUS
<1>. USE TransferAssumption
<1>. DEFINE Q == <<blocks, copyPc, qBuf, qOpen, qSlot, qData, qPc, qHeld>>
<1>0. /\ blocks \in Nat /\ qSlot \in Nat /\ qData \in Nat
      /\ qBuf \in Seq(Buffer) /\ Len(qBuf) \in Nat
      /\ \A j \in 1 .. Len(qBuf) : qBuf[j] \in Buffer
      /\ copyPc \in {"read", "write", "writeEOF", "put", "putEOF", "done"}
  BY ElementFacts DEF TypeOK
<1>1. CASE CopyRead
  BY <1>0, <1>1 DEF CopyRead, QueueInOrder, Stored
<1>2. CASE CopyEnd
  BY <1>0, <1>2 DEF CopyEnd, QueueInOrder, Stored
<1>3. CASE QueueCheck
  BY <1>0, <1>3 DEF QueueCheck, QueueInOrder, Stored
<1>4. CASE QueuePut
  <2>. DEFINE b == IF copyPc = "put" THEN DataBlock(blocks) ELSE EOFBlock
  <2>1. /\ b \in Buffer
        /\ copyPc = "put" => b.kind = "data" /\ b.data = blocks
        /\ copyPc # "put" => b.kind = "eof" /\ b.data = 0
    BY <1>0 DEF Buffer, DataBlock, EOFBlock
  <2>. HIDE DEF b
  <2>2. /\ Len(qBuf') = Len(qBuf) + 1
        /\ \A j \in 1 .. Len(qBuf) : qBuf'[j] = qBuf[j]
        /\ qBuf'[Len(qBuf) + 1] = b
    <3>1. qBuf' = Append(qBuf, b)
      BY <1>4 DEF QueuePut, b
    <3>. QED BY <1>0, <2>1, <3>1, AppendFacts
  <2>3. /\ qSlot = qData /\ qData + Len(qBuf) = Stored
        /\ \A j \in 1 .. Len(qBuf) :
             /\ qBuf[j].kind # "eof"
             /\ qBuf[j].data = qData + j /\ qData + j <= blocks
    BY <1>4 DEF QueuePut, QueueInOrder
  <2>4. /\ copyPc \in {"put", "putEOF"} /\ UNCHANGED <<blocks, qOpen, qSlot, qData, qPc, qHeld>>
        /\ copyPc' = IF copyPc = "put" THEN "read" ELSE "done"
    BY <1>4 DEF QueuePut
  <2>5. ASSUME NEW j \in 1 .. Len(qBuf')
        PROVE  IF qBuf'[j].kind = "eof"
                 THEN /\ j = Len(qBuf') /\ qBuf'[j].data = 0
                      /\ copyPc' = "done" /\ qData' + j = blocks' + 1
                 ELSE /\ qBuf'[j].data = qData' + j /\ qData' + j <= blocks'
    <3>1. CASE j \in 1 .. Len(qBuf)
      BY <1>0, <2>2, <2>3, <2>4, <3>1
    <3>2. CASE j = Len(qBuf) + 1 /\ copyPc = "put"
      <4>1. qBuf'[j].kind = "data" /\ qBuf'[j].data = blocks
        BY <2>1, <2>2, <3>2
      <4>2. qData + j = blocks
        BY <1>0, <2>3, <3>2 DEF Stored
      <4>. QED BY <1>0, <2>4, <4>1, <4>2
    <3>3. CASE j = Len(qBuf) + 1 /\ copyPc = "putEOF"
      <4>1. qBuf'[j].kind = "eof" /\ qBuf'[j].data = 0
        BY <2>1, <2>2, <3>3
      <4>2. qData + j = blocks + 1
        BY <1>0, <2>3, <3>3 DEF Stored
      <4>. QED BY <1>0, <2>2, <2>4, <3>3, <4>1, <4>2
    <3>. QED BY <1>0, <2>2, <2>4, <3>1, <3>2, <3>3
  <2>6. ASSUME copyPc' # "done"
        PROVE  qSlot' = qData' /\ qData' + Len(qBuf') = Stored'
    <3>1. copyPc = "put" /\ copyPc' = "read"
      BY <2>4, <2>6
    <3>2. Stored = blocks - 1 /\ Stored' = blocks
      BY <2>4, <3>1 DEF Stored
    <3>3. /\ qSlot = qData /\ qSlot' = qSlot /\ qData' = qData
          /\ qData + Len(qBuf) = Stored /\ Len(qBuf') = Len(qBuf) + 1
      BY <2>2, <2>3, <2>4
    <3>. QED BY <1>0, <3>2, <3>3
  <2>. QED BY <1>0, <2>2, <2>3, <2>4, <2>5, <2>6 DEF QueueInOrder
<1>5. CASE QueuePutFails
  BY <1>0, <1>5 DEF QueuePutFails, AfterFailedWrite, QueueInOrder
<1>6. CASE QueueStart \/ QueueTop \/ QueueReadTimeout \/ QueueWriteFails
  <2>1. /\ UNCHANGED <<blocks, copyPc, qBuf, qOpen, qSlot, qData, qHeld>>
        /\ qPc' # "write"
    BY <1>6 DEF QueueStart, QueueTop, QueueReadTimeout, QueueWriteFails, QueueReturn
  <2>. QED BY <2>1 DEF QueueInOrder, Stored
<1>7. CASE QueueRead
  <2>1. /\ Head(qBuf) = qBuf[1] /\ Len(qBuf) > 0 /\ Len(qBuf') = Len(qBuf) - 1
        /\ \A j \in 1 .. Len(qBuf) - 1 : qBuf'[j] = qBuf[j + 1]
    BY <1>0, <1>7, TailFacts DEF QueueRead
  <2>2. /\ qData' = IF qBuf[1].kind = "eof" THEN qData ELSE qData + 1
        /\ qSlot' = qSlot + 1 /\ qHeld'.slot = qSlot + 1
        /\ UNCHANGED <<blocks, copyPc, qOpen>>
    BY <1>7, <2>1 DEF QueueRead
  <2>3. qSlot = qData
    BY <2>1 DEF QueueInOrder
  <2>4. CASE qBuf[1].kind = "eof"
    <3>1. /\ Len(qBuf) = 1 /\ copyPc = "done" /\ qData + 1 = blocks + 1
      BY <1>0, <2>1, <2>4 DEF QueueInOrder
    <3>. QED BY <1>0, <2>1, <2>2, <2>3, <2>4, <3>1 DEF QueueInOrder, Stored
  <2>5. CASE qBuf[1].kind # "eof"
    <3>1. qData' = qData + 1 /\ qData + 1 <= blocks
      BY <1>0, <2>1, <2>2, <2>5 DEF QueueInOrder
    <3>2. ASSUME NEW j \in 1 .. Len(qBuf')
          PROVE  IF qBuf'[j].kind = "eof"
                   THEN /\ j = Len(qBuf') /\ qBuf'[j].data = 0
                        /\ copyPc' = "done" /\ qData' + j = blocks' + 1
                   ELSE /\ qBuf'[j].data = qData' + j /\ qData' + j <= blocks'
      <4>1. /\ j + 1 \in 1 .. Len(qBuf) /\ qBuf'[j] = qBuf[j + 1]
        BY <1>0, <2>1
      <4>2. IF qBuf[j + 1].kind = "eof"
              THEN /\ j + 1 = Len(qBuf) /\ qBuf[j + 1].data = 0
                   /\ copyPc = "done" /\ qData + (j + 1) = blocks + 1
              ELSE /\ qBuf[j + 1].data = qData + (j + 1)
                   /\ qData + (j + 1) <= blocks
        BY <4>1 DEF QueueInOrder
      <4>. QED BY <1>0, <2>1, <2>2, <3>1, <4>1, <4>2
    <3>3. qOpen' /\ copyPc' # "done" => qData' + Len(qBuf') = Stored'
      <4>1. Stored' = Stored
        BY <2>2 DEF Stored
      <4>2. qOpen /\ copyPc # "done" => qData + Len(qBuf) = Stored
        BY DEF QueueInOrder
      <4>3. qData \in Int /\ Len(qBuf) \in Int
        BY <1>0
      <4>4. qData' = qData + 1 /\ Len(qBuf') = Len(qBuf) - 1
        BY <2>1, <3>1
      <4>5. qData' + Len(qBuf') = qData + Len(qBuf)
        BY <4>3, <4>4
      <4>6. UNCHANGED <<copyPc, qOpen>>
        BY <2>2
      <4>. QED BY <4>1, <4>2, <4>5, <4>6
    <3>4. copyPc' \in {"write", "put"} => blocks' > 0
      BY <2>2 DEF QueueInOrder
    <3>5. /\ qData' <= blocks' /\ qData' <= qSlot' /\ qSlot' = qData'
          /\ qHeld'.slot = qSlot'
      BY <1>0, <2>2, <2>3, <3>1
    <3>. QED BY <3>2, <3>3, <3>4, <3>5 DEF QueueInOrder
  <2>. QED BY <2>4, <2>5
<1>8. CASE QueueReadClosed
  BY <1>0, <1>8, ElementFacts DEF QueueReadClosed, QueueInOrder, Stored
<1>9. CASE QueueWrite
  BY <1>0, <1>9 DEF QueueWrite, QueueReturn, QueueInOrder, Stored
<1>10. CASE Remove
  BY <1>0, <1>10 DEF Remove, QueueInOrder, Stored
<1>11. CASE UNCHANGED Q
  BY <1>11 DEF QueueInOrder, Stored
<1>12. CASE LinkStep \/ RemoveAll
  <2>1. UNCHANGED Q
    BY <1>12 DEF LinkStep, LinkStart, LinkTop, LinkGet, LinkRead, LinkReadClosed,
                 LinkReadTimeout, LinkWrite, LinkWriteFails, RemoveAll
  <2>. QED BY <1>11, <2>1
<1>13. ASSUME NEW c \in Chans, CloseWsWriter(c) \/ Break(c) \/ ReaderStep(c)
       PROVE  QueueInOrder'
  <2>1. UNCHANGED Q
    BY <1>13, Zenon DEF CloseWsWriter, Break, ReaderStep, Receive, LinkPut, LinkPutFails
  <2>. QED BY <1>11, <2>1
<1>14. CASE UNCHANGED vars
  BY <1>11, <1>14 DEF vars
<1>. QED
  BY <1>1, <1>2, <1>3, <1>4, <1>5, <1>6, <1>7, <1>8, <1>9, <1>10, <1>12, <1>13,
     <1>14 DEF Next, CopyStep, QueueStep

-----------------------------------------------------------------------------
(* The messages hold what their slot says, and go on doing so.             *)

\* No step makes a message that is in the pipeline false: data is taken only
\* while all slots so far were data, and after an end marker nothing is read.
LEMMA FaithfulStable ==
  ASSUME TypeOK, QueueInOrder, [Next]_vars, NEW m \in Message, Faithful(m)
  PROVE  Faithful(m)'
<1>0. /\ blocks \in Nat /\ qSlot \in Nat /\ qData \in Nat /\ m.slot \in Nat
  BY DEF TypeOK, Message
<1>1. CASE UNCHANGED <<blocks, copyPc, qData, qSlot>>
  BY <1>1 DEF Faithful
<1>2. CASE CopyRead \/ CopyEnd \/ CopyStep
  <2>1. copyPc # "done" /\ UNCHANGED <<qData, qSlot>>
    BY <1>2 DEF CopyRead, CopyEnd, CopyStep, QueueCheck, QueuePut, QueuePutFails
  <2>2. m.kind # "eof"
    BY <2>1 DEF Faithful
  <2>. QED BY <2>1, <2>2 DEF Faithful
<1>3. CASE QueueRead
  <2>1. Head(qBuf) = qBuf[1] /\ Len(qBuf) > 0
    BY <1>3, TailFacts DEF QueueRead, TypeOK
  <2>2. qSlot = qData
    BY <2>1 DEF QueueInOrder
  <2>3. m.slot <= qData /\ m.data = m.slot /\ m.kind # "eof"
    BY <1>0, <2>2 DEF Faithful
  <2>4. /\ qSlot' = qSlot + 1 /\ qData' \in {qData, qData + 1}
        /\ UNCHANGED <<blocks, copyPc>>
    BY <1>3 DEF QueueRead
  <2>. QED BY <1>0, <2>2, <2>3, <2>4 DEF Faithful
<1>4. CASE QueueReadClosed
  BY <1>0, <1>4 DEF QueueReadClosed, Faithful
<1>5. CASE QueueStart \/ QueueTop \/ QueueReadTimeout \/ QueueWrite
             \/ QueueWriteFails \/ Remove \/ RemoveAll
  <2>1. UNCHANGED <<blocks, copyPc, qData, qSlot>>
    BY <1>5 DEF QueueStart, QueueTop, QueueReadTimeout, QueueWrite,
                QueueWriteFails, Remove, RemoveAll
  <2>. QED BY <1>1, <2>1
<1>6. CASE LinkStep
  <2>1. UNCHANGED <<blocks, copyPc, qData, qSlot>>
    BY <1>6 DEF LinkStep, LinkStart, LinkTop, LinkGet, LinkRead, LinkReadClosed,
                LinkReadTimeout, LinkWrite, LinkWriteFails
  <2>. QED BY <1>1, <2>1
<1>7. ASSUME NEW c \in Chans, CloseWsWriter(c) \/ Break(c) \/ ReaderStep(c)
      PROVE  Faithful(m)'
  <2>1. UNCHANGED <<blocks, copyPc, qData, qSlot>>
    BY <1>7, Zenon DEF CloseWsWriter, Break, ReaderStep, Receive, LinkPut, LinkPutFails
  <2>. QED BY <1>1, <2>1, SMTT(30)
<1>8. CASE UNCHANGED vars
  BY <1>1, <1>8 DEF vars
<1>. QED
  BY <1>2, <1>3, <1>4, <1>5, <1>6, <1>7, <1>8 DEF Next, QueueStep

\* Wherever a message is on its way, it holds the block of its slot.
LEMMA MessagesFaithfulStep ==
  TypeOK /\ QueueInOrder /\ MessagesFaithful /\ [Next]_vars => MessagesFaithful'
<1>. SUFFICES ASSUME TypeOK, QueueInOrder, MessagesFaithful, [Next]_vars
              PROVE  MessagesFaithful'
  OBVIOUS
<1>. USE TransferAssumption
<1>. DEFINE Stays(m) ==
              /\ m.slot <= qSlot'
              /\ m.data = IF m.slot <= qData' THEN m.slot ELSE 0
              /\ m.kind = "eof" =>
                   m.slot = qData' + 1 /\ qData' = blocks' /\ copyPc' = "done"
            AllStay(f) == \A c \in Chans : \A j \in 1 .. Len(f[c]) : Stays(f[c][j])
<1>1. \A m \in Message : Faithful(m) => Stays(m)
  BY FaithfulStable DEF Faithful
<1>2. ASSUME Stays(qHeld'), Stays(lHeld'), AllStay(ws'), AllStay(hand'), AllStay(lBuf')
      PROVE  MessagesFaithful'
  BY <1>2 DEF MessagesFaithful, Faithful
<1>. HIDE DEF Stays
<1>3. /\ Stays(qHeld) /\ Stays(lHeld)
      /\ AllStay(ws) /\ AllStay(hand) /\ AllStay(lBuf)
  <2>1. ASSUME NEW f \in [Chans -> Seq(Message)], NEW c \in Chans,
               NEW j \in 1 .. Len(f[c])
        PROVE  f[c][j] \in Message
    BY ElementFacts
  <2>. QED BY <1>1, <2>1 DEF MessagesFaithful, TypeOK
<1>4. CASE UNCHANGED <<qHeld, lHeld, ws, hand, lBuf>>
  BY <1>2, <1>3, <1>4
<1>5. CASE QueueRead
  <2>1. /\ Head(qBuf) \in Buffer /\ Head(qBuf) = qBuf[1] /\ Len(qBuf) \in Nat \ {0}
    BY <1>5, TailFacts DEF QueueRead, TypeOK
  <2>2. /\ qSlot = qData
        /\ IF qBuf[1].kind = "eof"
             THEN qBuf[1].data = 0 /\ copyPc = "done" /\ qData + 1 = blocks + 1
             ELSE qBuf[1].data = qData + 1
    BY <2>1 DEF QueueInOrder
  <2>3. /\ qHeld'.kind = qBuf[1].kind /\ qHeld'.data = qBuf[1].data
        /\ qHeld'.slot = qSlot + 1 /\ qSlot' = qSlot + 1
        /\ qData' = IF qBuf[1].kind = "eof" THEN qData ELSE qData + 1
        /\ UNCHANGED <<blocks, copyPc, lHeld, ws, hand, lBuf>>
    BY <1>5, <2>1 DEF QueueRead
  <2>4. blocks \in Nat /\ qSlot \in Nat /\ qData \in Nat
    BY DEF TypeOK
  <2>5. Stays(qHeld')
    BY <2>2, <2>3, <2>4 DEF Stays
  <2>. QED BY <1>2, <1>3, <2>3, <2>5
<1>6. CASE QueueReadClosed
  <2>1. Stays(qHeld')
    <3>1. /\ qHeld'.kind = "data" /\ qHeld'.data = 0 /\ qHeld'.slot = qSlot + 1
          /\ qSlot' = qSlot + 1 /\ qData' = qData
      BY <1>6 DEF QueueReadClosed
    <3>2. qData <= qSlot /\ qSlot \in Nat /\ qData \in Nat
      BY DEF QueueInOrder, TypeOK
    <3>. QED BY <3>1, <3>2 DEF Stays
  <2>. QED BY <1>2, <1>3, <1>6, <2>1 DEF QueueReadClosed
<1>7. CASE QueueWrite
  <2>1. ASSUME NEW c \in Chans, NEW j \in 1 .. Len(ws'[c])
        PROVE  Stays(ws'[c][j])
    <3>1. CASE c = qIdx
      <4>1. ws'[c] = Append(ws[c], qHeld)
        BY <1>7, <3>1 DEF QueueWrite, TypeOK
      <4>2. /\ Len(ws'[c]) = Len(ws[c]) + 1 /\ Len(ws[c]) \in Nat
            /\ \A i \in 1 .. Len(ws[c]) : ws'[c][i] = ws[c][i]
            /\ ws'[c][Len(ws[c]) + 1] = qHeld
        BY <4>1, AppendFacts DEF TypeOK
      <4>. QED BY <1>3, <4>2
    <3>2. CASE c # qIdx
      BY <1>3, <1>7, <3>2 DEF QueueWrite, TypeOK
    <3>. QED BY <3>1, <3>2
  <2>. QED BY <1>2, <1>3, <1>7, <2>1 DEF QueueWrite
<1>8. ASSUME NEW c \in Chans, Break(c) PROVE MessagesFaithful'
  <2>1. AllStay(ws')
    BY <1>3, <1>8 DEF Break, TypeOK
  <2>. QED BY <1>2, <1>3, <1>8, <2>1 DEF Break
<1>9. ASSUME NEW c \in Chans, Receive(c) PROVE MessagesFaithful'
  <2>1. /\ Head(ws[c]) = ws[c][1] /\ Len(ws[c]) \in Nat \ {0}
        /\ Len(Tail(ws[c])) = Len(ws[c]) - 1
        /\ \A j \in 1 .. Len(ws[c]) - 1 : Tail(ws[c])[j] = ws[c][j + 1]
    BY <1>9, TailFacts DEF Receive, TypeOK
  <2>2. /\ ws'[c] = Tail(ws[c])
        /\ \A d \in Chans : d # c => ws'[d] = ws[d]
        /\ \A d \in Chans : hand'[d] = hand[d] \/ hand'[d] = <<Head(ws[c])>>
    BY <1>9, Zenon DEF Receive, TypeOK
  <2>3. ASSUME NEW d \in Chans, NEW j \in 1 .. Len(ws'[d]) PROVE Stays(ws'[d][j])
    <3>1. CASE d = c
      <4>1. j \in 1 .. Len(ws[c]) - 1 /\ ws'[d][j] = ws[c][j + 1]
        BY <2>1, <2>2, <3>1, ZenonT(30)
      <4>2. j + 1 \in 1 .. Len(ws[c])
        BY <2>1, <4>1
      <4>. QED BY <1>3, <2>2, <4>1, <4>2
    <3>2. CASE d # c
      BY <1>3, <2>2, <3>2
    <3>. QED BY <3>1, <3>2
  <2>4. ASSUME NEW d \in Chans, NEW j \in 1 .. Len(hand'[d]) PROVE Stays(hand'[d][j])
    <3>1. CASE hand'[d] = hand[d]
      BY <1>3, <3>1
    <3>2. CASE hand'[d] = <<Head(ws[c])>>
      BY <1>3, <2>1, <3>2
    <3>. QED BY <2>2, <3>1, <3>2
  <2>. QED BY <1>2, <1>3, <1>9, <2>3, <2>4 DEF Receive
<1>10. ASSUME NEW c \in Chans, LinkPut(c) PROVE MessagesFaithful'
  <2>1. Head(hand[c]) = hand[c][1] /\ Len(hand[c]) \in Nat \ {0}
    BY <1>10, TailFacts DEF LinkPut, TypeOK
  <2>2. /\ lBuf'[c] = Append(lBuf[c], Head(hand[c]))
        /\ \A d \in Chans : d # c => lBuf'[d] = lBuf[d] /\ hand'[d] = hand[d]
        /\ hand'[c] = << >>
    BY <1>10 DEF LinkPut, TypeOK
  <2>3. /\ Len(lBuf'[c]) = Len(lBuf[c]) + 1 /\ Len(lBuf[c]) \in Nat
        /\ \A i \in 1 .. Len(lBuf[c]) : lBuf'[c][i] = lBuf[c][i]
        /\ lBuf'[c][Len(lBuf[c]) + 1] = Head(hand[c])
    <3>1. Head(hand[c]) \in Message /\ lBuf[c] \in Seq(Message)
      BY <1>10, TailFacts DEF LinkPut, TypeOK
    <3>. QED BY <2>2, <3>1, AppendFacts
  <2>4. ASSUME NEW d \in Chans, NEW j \in 1 .. Len(lBuf'[d]) PROVE Stays(lBuf'[d][j])
    <3>1. CASE d = c
      BY <1>3, <2>1, <2>3, <3>1, SMTT(30)
    <3>2. CASE d # c
      BY <1>3, <2>2, <3>2
    <3>. QED BY <3>1, <3>2
  <2>5. AllStay(hand')
    BY <1>3, <2>2
  <2>. QED BY <1>2, <1>3, <1>10, <2>4, <2>5 DEF LinkPut
<1>11. ASSUME NEW c \in Chans, LinkPutFails(c) PROVE MessagesFaithful'
  <2>1. AllStay(hand')
    BY <1>3, <1>11 DEF LinkPutFails, TypeOK
  <2>. QED BY <1>2, <1>3, <1>11, <2>1 DEF LinkPutFails
<1>12. CASE LinkRead
  <2>1. /\ Head(lBuf[lIdx]) = lBuf[lIdx][1] /\ Len(lBuf[lIdx]) \in Nat \ {0}
        /\ Len(Tail(lBuf[lIdx])) = Len(lBuf[lIdx]) - 1
        /\ \A j \in 1 .. Len(lBuf[lIdx]) - 1 : Tail(lBuf[lIdx])[j] = lBuf[lIdx][j + 1]
    BY <1>12, TailFacts DEF LinkRead, TypeOK
  <2>2. /\ lBuf'[lIdx] = Tail(lBuf[lIdx]) /\ lHeld' = Head(lBuf[lIdx]) /\ lIdx \in Chans
        /\ \A d \in Chans : d # lIdx => lBuf'[d] = lBuf[d]
    BY <1>12 DEF LinkRead, TypeOK
  <2>3. ASSUME NEW d \in Chans, NEW j \in 1 .. Len(lBuf'[d]) PROVE Stays(lBuf'[d][j])
    <3>1. CASE d = lIdx
      <4>1. j \in 1 .. Len(lBuf[lIdx]) - 1 /\ lBuf'[d][j] = lBuf[lIdx][j + 1]
        BY <2>1, <2>2, <3>1, ZenonT(30)
      <4>2. j + 1 \in 1 .. Len(lBuf[lIdx])
        BY <2>1, <4>1
      <4>. QED BY <1>3, <2>2, <4>1, <4>2
    <3>2. CASE d # lIdx
      BY <1>3, <2>2, <3>2
    <3>. QED BY <3>1, <3>2
  <2>4. Stays(lHeld')
    BY <1>3, <2>1, <2>2
  <2>. QED BY <1>2, <1>3, <1>12, <2>3, <2>4 DEF LinkRead
<1>13. CASE LinkReadClosed
  <2>1. Stays(lHeld')
    <3>1. /\ lHeld'.kind = "data" /\ lHeld'.data = 0 /\ lHeld'.slot = 0
          /\ qSlot' = qSlot /\ qData' = qData
      BY <1>13 DEF LinkReadClosed
    <3>2. qSlot \in Nat /\ qData \in Nat
      BY DEF TypeOK
    <3>. QED BY <3>1, <3>2 DEF Stays
  <2>. QED BY <1>2, <1>3, <1>13, <2>1 DEF LinkReadClosed
<1>14. CASE CopyRead \/ CopyEnd \/ CopyStep \/ QueueStart \/ QueueTop
              \/ QueueReadTimeout \/ QueueWriteFails \/ Remove \/ RemoveAll
  <2>1. UNCHANGED <<qHeld, lHeld, ws, hand, lBuf>>
    BY <1>14 DEF CopyRead, CopyEnd, CopyStep, QueueCheck, QueuePut, QueuePutFails,
         QueueStart, QueueTop, QueueReadTimeout, QueueWriteFails, Remove, RemoveAll
  <2>. QED BY <1>4, <2>1
<1>15. CASE LinkStart \/ LinkTop \/ LinkGet \/ LinkReadTimeout \/ LinkWrite
              \/ LinkWriteFails
  <2>1. UNCHANGED <<qHeld, lHeld, ws, hand, lBuf>>
    BY <1>15, ZenonT(30) DEF LinkStart, LinkTop, LinkGet, LinkReadTimeout, LinkWrite,
                             LinkWriteFails
  <2>. QED BY <1>4, <2>1
<1>16. ASSUME NEW c \in Chans, CloseWsWriter(c) PROVE MessagesFaithful'
  BY <1>4, <1>16 DEF CloseWsWriter
<1>17. CASE UNCHANGED vars
  BY <1>4, <1>17 DEF vars
<1>. QED
  BY <1>5, <1>6, <1>7, <1>8, <1>9, <1>10, <1>11, <1>12, <1>13, <1>14, <1>15, <1>16,
     <1>17 DEF Next, QueueStep, LinkStep, ReaderStep

-----------------------------------------------------------------------------
(* The slots on a websocket stay N apart.                                  *)

\* The slots that the two loops expect are numbers.
LEMMA WantsTypes ==
  ASSUME TypeOK, NEW c \in Chans
  PROVE  /\ LinkWants(c) \in Int /\ QueueOwes(c) \in Int
         /\ ReaderWants(c) \in Int /\ SocketWants(c) \in Int
<1>1. LinkWants(c) \in Int /\ QueueOwes(c) \in Int
  BY TransferAssumption DEF TypeOK, Chans, LinkWants, QueueOwes
<1>2. lBuf[c] \in Seq(Message) /\ hand[c] \in Seq(Message)
  BY DEF TypeOK
<1>3. ReaderWants(c) \in Int
  BY <1>1, <1>2, SlotAfterType, Zenon DEF ReaderWants
<1>4. SocketWants(c) \in Int
  BY <1>2, <1>3, SlotAfterType DEF SocketWants
<1>. QED BY <1>1, <1>3, <1>4

\* A step that moves no message keeps the runs when the slots that the two
\* loops expect stay what they are.
LEMMA StripedFrame ==
  ASSUME TypeOK, Striped, UNCHANGED <<ws, hand, lBuf, wsUp>>,
         \A c \in Chans : LinkWants(c)' = LinkWants(c),
         LinkLive' => LinkLive,
         lPc' = "read" => LinkLive \/ lPc = "read",
         LinkLive' /\ qPc' # "end" =>
           qPc # "end" /\ \A c \in Chans : QueueOwes(c)' = QueueOwes(c)
  PROVE  Striped'
<1>1. \A c \in Chans : /\ ReaderWants(c)' = ReaderWants(c)
                       /\ SocketWants(c)' = SocketWants(c)
  BY DEF ReaderWants, SocketWants, SlotAfter
<1>2. wsUp \subseteq Chans
  BY DEF TypeOK
<1>3. ASSUME LinkLive' \/ lPc' = "read", NEW c \in Chans
      PROVE  Run(lBuf[c], LinkWants(c))'
  BY <1>3 DEF Striped, Run
<1>4. ASSUME LinkLive', NEW c \in Chans
      PROVE  Run(hand[c], ReaderWants(c))' /\ Run(ws[c], SocketWants(c))'
  BY <1>1, <1>4, ZenonT(30) DEF Striped, Run
<1>5. ASSUME LinkLive', qPc' # "end", NEW c \in wsUp
      PROVE  QueueOwes(c)' = SlotAfter(ws[c], SocketWants(c))'
  BY <1>1, <1>2, <1>5 DEF Striped, SlotAfter
<1>. QED BY <1>3, <1>4, <1>5 DEF Striped

\* Sending: queue.Send writes the slot that its websocket expects.
LEMMA StripedQueueWrite ==
  ASSUME TypeOK, TypeOK', Striped, QueueInOrder, QueueWrite
  PROVE  Striped'
<1>. USE TransferAssumption
<1>1. /\ lPc' = lPc /\ lOpen' = lOpen /\ lBuf' = lBuf /\ hand' = hand
      /\ wsUp' = wsUp /\ wsUp \subseteq Chans /\ qIdx \in wsUp
      /\ LinkLive' = LinkLive /\ qPc = "write" /\ qSlot' = qSlot
      /\ qHeld.slot = qSlot /\ qHeld \in Message
  BY DEF QueueWrite, QueueReturn, TypeOK, LinkLive, QueueInOrder
<1>2. ASSUME NEW c \in Chans
      PROVE  /\ LinkWants(c)' = LinkWants(c) /\ ReaderWants(c)' = ReaderWants(c)
             /\ SocketWants(c)' = SocketWants(c)
  BY DEF QueueWrite, LinkWants, ReaderWants, SocketWants, SlotAfter
<1>3. QueueOwes(qIdx) = qSlot
  BY <1>1 DEF QueueOwes, TypeOK, Chans
<1>4. ASSUME qPc' # "end", NEW c \in Chans
      PROVE  QueueOwes(c)' = IF c = qIdx THEN qSlot + N ELSE QueueOwes(c)
  <2>1. qIdx' = NextWriter(qIdx) /\ qPc' # "write"
    BY <1>4 DEF QueueWrite, QueueReturn
  <2>2. N \in Nat \ {0} /\ qIdx \in 1 .. N /\ c \in 1 .. N /\ qSlot \in Nat
    BY DEF TypeOK, Chans
  <2>3. /\ QueueOwes(c) = qSlot + c - qIdx + (IF c >= qIdx THEN 0 ELSE N)
        /\ QueueOwes(c)' = qSlot + 1 + c - qIdx' + (IF c >= qIdx' THEN 0 ELSE N)
    BY <1>1, <2>1 DEF QueueOwes
  <2>4. qIdx' = IF qIdx < N THEN qIdx + 1 ELSE 1
    BY <2>1 DEF NextWriter
  <2>5. CASE qIdx < N
    BY <2>2, <2>3, <2>4, <2>5
  <2>6. CASE qIdx = N
    BY <2>2, <2>3, <2>4, <2>6
  <2>. QED BY <2>2, <2>5, <2>6
<1>5. ASSUME LinkLive
      PROVE  /\ Run(ws'[qIdx], SocketWants(qIdx))
             /\ SlotAfter(ws'[qIdx], SocketWants(qIdx)) = qSlot + N
  <2>1. /\ Run(ws[qIdx], SocketWants(qIdx))
        /\ qHeld.slot = SlotAfter(ws[qIdx], SocketWants(qIdx))
    BY <1>1, <1>3, <1>5 DEF Striped
  <2>2. ws'[qIdx] = Append(ws[qIdx], qHeld) /\ ws[qIdx] \in Seq(Message)
    BY DEF QueueWrite, TypeOK
  <2>. QED BY <1>1, <2>1, <2>2, RunAppend, WantsTypes
<1>6. \A c \in Chans : c # qIdx => ws'[c] = ws[c]
  BY Zenon DEF QueueWrite, TypeOK
<1>7. ASSUME LinkLive' \/ lPc' = "read", NEW c \in Chans
      PROVE  Run(lBuf[c], LinkWants(c))'
  BY <1>1, <1>2, <1>7 DEF Striped, Run
<1>8. ASSUME LinkLive', NEW c \in Chans
      PROVE  Run(hand[c], ReaderWants(c))' /\ Run(ws[c], SocketWants(c))'
  <2>1. Run(hand[c], ReaderWants(c))'
    BY <1>1, <1>2, <1>8, Zenon DEF Striped, Run
  <2>2. Run(ws'[c], SocketWants(c))
    BY <1>1, <1>5, <1>6, <1>8, Zenon DEF Striped
  <2>. QED BY <1>2, <2>1, <2>2, ZenonT(30) DEF Run
<1>9. ASSUME LinkLive', qPc' # "end", NEW c \in wsUp
      PROVE  QueueOwes(c)' = SlotAfter(ws[c], SocketWants(c))'
  <2>1. QueueOwes(c)' = SlotAfter(ws'[c], SocketWants(c))
    BY <1>1, <1>4, <1>5, <1>6, <1>9, Zenon DEF Striped
  <2>. QED BY <1>1, <1>2, <2>1 DEF SlotAfter
<1>. QED BY <1>1, <1>7, <1>8, <1>9, Zenon DEF Striped

\* Receiving: the reader of a websocket takes the slot that it expects.
LEMMA StripedReceive ==
  ASSUME TypeOK, Striped, LinkInOrder, NEW c \in Chans, Receive(c)
  PROVE  Striped'
<1>. USE TransferAssumption
<1>1. /\ lPc' = lPc /\ lOpen' = lOpen /\ lBuf' = lBuf /\ wsUp' = wsUp
      /\ wsUp \subseteq Chans /\ LinkLive' = LinkLive /\ qPc' = qPc
      /\ \A d \in Chans : d # c => ws'[d] = ws[d] /\ hand'[d] = hand[d]
  BY Zenon DEF Receive, TypeOK, LinkLive
<1>2. ASSUME NEW d \in Chans
      PROVE  /\ LinkWants(d)' = LinkWants(d) /\ ReaderWants(d)' = ReaderWants(d)
             /\ QueueOwes(d)' = QueueOwes(d)
  BY Zenon DEF Receive, LinkWants, ReaderWants, SlotAfter, QueueOwes
<1>3. \A d \in Chans : d # c => SocketWants(d)' = SocketWants(d)
  BY <1>1, <1>2, Zenon DEF SocketWants, SlotAfter
<1>4. ASSUME LinkLive
      PROVE  /\ Run(hand'[c], ReaderWants(c))
             /\ SlotAfter(hand'[c], ReaderWants(c)) = SocketWants(c) + N
             /\ Run(ws'[c], SocketWants(c) + N)
             /\ SlotAfter(ws'[c], SocketWants(c) + N) = SlotAfter(ws[c], SocketWants(c))
  <2>1. hand'[c] = <<Head(ws[c])>> /\ ws'[c] = Tail(ws[c]) /\ hand[c] = << >>
        /\ ws[c] \in Seq(Message) /\ ws[c] # << >>
    BY <1>4, Zenon DEF Receive, LinkInOrder, LinkLive, TypeOK
  <2>2. Run(ws[c], SocketWants(c)) /\ SocketWants(c) \in Int
    BY <1>4, WantsTypes, Zenon DEF Striped
  <2>3. SocketWants(c) = ReaderWants(c)
    BY <2>1 DEF SocketWants, SlotAfter
  <2>4. /\ Head(ws[c]).slot = SocketWants(c)
        /\ Run(Tail(ws[c]), SocketWants(c) + N)
        /\ SlotAfter(Tail(ws[c]), SocketWants(c) + N) = SlotAfter(ws[c], SocketWants(c))
    BY <2>1, <2>2, RunTail
  <2>5. /\ Len(hand'[c]) = 1 /\ hand'[c][1].slot = ReaderWants(c)
    BY <2>1, <2>3, <2>4
  <2>6. /\ Run(hand'[c], ReaderWants(c))
        /\ SlotAfter(hand'[c], ReaderWants(c)) = ReaderWants(c) + N
    BY <2>5 DEF Run, SlotAfter
  <2>. QED BY <2>1, <2>3, <2>4, <2>6
<1>5. ASSUME LinkLive
      PROVE  SocketWants(c)' = SocketWants(c) + N
  <2>1. SocketWants(c)' = SlotAfter(hand'[c], ReaderWants(c)')
    BY Zenon DEF SocketWants, SlotAfter
  <2>. QED BY <1>2, <1>4, <1>5, <2>1
<1>6. ASSUME LinkLive' \/ lPc' = "read", NEW d \in Chans
      PROVE  Run(lBuf[d], LinkWants(d))'
  BY <1>1, <1>2, <1>6, Zenon DEF Striped, Run
<1>7. ASSUME LinkLive', NEW d \in Chans
      PROVE  Run(hand[d], ReaderWants(d))' /\ Run(ws[d], SocketWants(d))'
  <2>1. Run(hand'[d], ReaderWants(d)) /\ Run(ws'[d], SocketWants(d)')
    BY <1>1, <1>3, <1>4, <1>5, <1>7, Zenon DEF Striped
  <2>. QED BY <1>2, <2>1 DEF Run
<1>8. ASSUME LinkLive', qPc' # "end", NEW d \in wsUp
      PROVE  QueueOwes(d)' = SlotAfter(ws[d], SocketWants(d))'
  <2>1. QueueOwes(d) = SlotAfter(ws'[d], SocketWants(d)')
    BY <1>1, <1>3, <1>4, <1>5, <1>8, ZenonT(30) DEF Striped
  <2>. QED BY <1>1, <1>2, <2>1 DEF SlotAfter
<1>. QED BY <1>1, <1>6, <1>7, <1>8 DEF Striped

\* Storing: link.Write appends the slot that the buffer of its link expects.
LEMMA StripedLinkPut ==
  ASSUME TypeOK, Striped, NEW c \in Chans, LinkPut(c)
  PROVE  Striped'
<1>. USE TransferAssumption
<1>1. /\ lPc' = lPc /\ lOpen' = lOpen /\ lOpen /\ ws' = ws /\ wsUp' = wsUp
      /\ wsUp \subseteq Chans /\ LinkLive' = LinkLive /\ qPc' = qPc
      /\ lPc = "read" => LinkLive
      /\ \A d \in Chans : d # c => lBuf'[d] = lBuf[d] /\ hand'[d] = hand[d]
  BY Zenon DEF LinkPut, TypeOK, LinkLive
<1>2. ASSUME NEW d \in Chans
      PROVE  LinkWants(d)' = LinkWants(d) /\ QueueOwes(d)' = QueueOwes(d)
  BY Zenon DEF LinkPut, LinkWants, QueueOwes
<1>3. \A d \in Chans : d # c => /\ ReaderWants(d)' = ReaderWants(d)
                                /\ SocketWants(d)' = SocketWants(d)
  BY <1>1, <1>2, Zenon DEF ReaderWants, SocketWants, SlotAfter
<1>4. ASSUME LinkLive
      PROVE  /\ Run(lBuf'[c], LinkWants(c))
             /\ SlotAfter(lBuf'[c], LinkWants(c)) = SocketWants(c)
             /\ hand'[c] = << >>
  <2>1. /\ lBuf'[c] = Append(lBuf[c], Head(hand[c])) /\ hand'[c] = << >>
        /\ lBuf[c] \in Seq(Message) /\ hand[c] \in Seq(Message) /\ hand[c] # << >>
        /\ Len(hand[c]) <= 1
    BY DEF LinkPut, TypeOK
  <2>2. /\ Run(lBuf[c], LinkWants(c)) /\ Run(hand[c], ReaderWants(c))
        /\ LinkWants(c) \in Int /\ ReaderWants(c) \in Int
    BY <1>4, WantsTypes DEF Striped
  <2>3. /\ Head(hand[c]) \in Message /\ Head(hand[c]) = hand[c][1] /\ Len(hand[c]) = 1
    <3>1. /\ Head(hand[c]) \in Message /\ Head(hand[c]) = hand[c][1]
          /\ Len(hand[c]) \in Nat \ {0}
      BY <2>1, TailFacts
    <3>2. Len(hand[c]) = 1
      <4>1. \A n \in Nat \ {0} : n <= 1 => n = 1
        OBVIOUS
      <4>. QED BY <2>1, <3>1, <4>1, ZenonT(30)
    <3>. QED BY <3>1, <3>2
  <2>4. Head(hand[c]).slot = ReaderWants(c)
    BY <2>2, <2>3 DEF Run
  <2>5. /\ Run(lBuf'[c], LinkWants(c))
        /\ SlotAfter(lBuf'[c], LinkWants(c)) = ReaderWants(c) + N
    BY <2>1, <2>2, <2>3, <2>4, RunAppend DEF ReaderWants
  <2>6. SocketWants(c) = ReaderWants(c) + N
    <3>1. hand[c][Len(hand[c])].slot = ReaderWants(c) /\ Len(hand[c]) # 0
      BY <2>3, <2>4
    <3>. QED BY <3>1 DEF SocketWants, SlotAfter
  <2>. QED BY <2>1, <2>5, <2>6
<1>5. ASSUME LinkLive
      PROVE  ReaderWants(c)' = SocketWants(c) /\ SocketWants(c)' = SocketWants(c)
  <2>1. ReaderWants(c)' = SlotAfter(lBuf'[c], LinkWants(c)')
    BY DEF ReaderWants, SlotAfter
  <2>2. SocketWants(c)' = ReaderWants(c)'
    BY <1>4, <1>5 DEF SocketWants, SlotAfter
  <2>. QED BY <1>2, <1>4, <1>5, <2>1, <2>2
<1>6. ASSUME LinkLive' \/ lPc' = "read", NEW d \in Chans
      PROVE  Run(lBuf[d], LinkWants(d))'
  <2>1. Run(lBuf'[d], LinkWants(d))
    BY <1>1, <1>4, <1>6, Zenon DEF Striped
  <2>. QED BY <1>2, <2>1 DEF Run
<1>7. ASSUME LinkLive', NEW d \in Chans
      PROVE  Run(hand[d], ReaderWants(d))' /\ Run(ws[d], SocketWants(d))'
  <2>1. Run(ws'[d], SocketWants(d)')
    BY <1>1, <1>3, <1>5, <1>7 DEF Striped
  <2>2. CASE d = c
    <3>1. Len(hand'[d]) = 0
      BY <1>1, <1>4, <1>7, <2>2, Zenon
    <3>. QED BY <2>1, <3>1 DEF Run
  <2>3. CASE d # c
    <3>1. Run(hand'[d], ReaderWants(d)')
      BY <1>1, <1>3, <1>7, <2>3, Zenon DEF Striped
    <3>. QED BY <2>1, <3>1, Zenon DEF Run
  <2>. QED BY <2>2, <2>3, Zenon
<1>8. ASSUME LinkLive', qPc' # "end", NEW d \in wsUp
      PROVE  QueueOwes(d)' = SlotAfter(ws[d], SocketWants(d))'
  <2>1. QueueOwes(d) = SlotAfter(ws'[d], SocketWants(d)')
    BY <1>1, <1>3, <1>5, <1>8, Zenon DEF Striped
  <2>. QED BY <1>1, <1>2, <2>1, Zenon DEF SlotAfter
<1>. QED BY <1>1, <1>6, <1>7, <1>8, Zenon DEF Striped

\* Collecting: link.Send takes the slot after the one it took last.
LEMMA StripedLinkRead ==
  ASSUME TypeOK, Striped, LinkRead
  PROVE  Striped' /\ Head(lBuf[lIdx]).slot = lSlot + 1
<1>. USE TransferAssumption
<1>1. /\ lPc = "read" /\ lPc' = "write" /\ lOpen' = lOpen /\ ws' = ws /\ hand' = hand
      /\ wsUp' = wsUp /\ wsUp \subseteq Chans /\ LinkLive' = LinkLive /\ qPc' = qPc
      /\ lIdx \in Chans /\ lIdx' = lIdx /\ lSlot' = lSlot + 1 /\ lSlot \in Nat
      /\ lBuf'[lIdx] = Tail(lBuf[lIdx]) /\ lBuf[lIdx] # << >>
      /\ lBuf[lIdx] \in Seq(Message)
      /\ \A d \in Chans : d # lIdx => lBuf'[d] = lBuf[d]
  BY DEF LinkRead, TypeOK, LinkLive
<1>2. ASSUME NEW d \in Chans
      PROVE  QueueOwes(d)' = QueueOwes(d)
  BY DEF LinkRead, QueueOwes
<1>3. LinkWants(lIdx) = lSlot + 1
  BY <1>1 DEF LinkWants, Chans
<1>4. ASSUME NEW d \in Chans
      PROVE  LinkWants(d)' = IF d = lIdx THEN lSlot + 1 + N ELSE LinkWants(d)
  BY <1>1 DEF LinkWants, Chans
<1>5. /\ Head(lBuf[lIdx]).slot = lSlot + 1
      /\ Run(lBuf'[lIdx], lSlot + 1 + N)
      /\ SlotAfter(lBuf'[lIdx], lSlot + 1 + N) = ReaderWants(lIdx)
  <2>1. Run(lBuf[lIdx], lSlot + 1)
    BY <1>1, <1>3 DEF Striped
  <2>. QED BY <1>1, <1>3, <2>1, RunTail DEF ReaderWants
<1>6. ASSUME NEW d \in Chans
      PROVE  ReaderWants(d)' = ReaderWants(d) /\ SocketWants(d)' = SocketWants(d)
  <2>1. ReaderWants(d)' = SlotAfter(lBuf'[d], LinkWants(d)')
    BY Zenon DEF ReaderWants, SlotAfter
  <2>2. ReaderWants(d)' = ReaderWants(d)
    BY <1>1, <1>4, <1>5, <2>1 DEF ReaderWants
  <2>. QED BY <1>1, <2>2 DEF SocketWants, SlotAfter
<1>7. ASSUME NEW d \in Chans
      PROVE  Run(lBuf[d], LinkWants(d))'
  <2>1. Run(lBuf'[d], LinkWants(d)')
    BY <1>1, <1>4, <1>5 DEF Striped
  <2>. QED BY <2>1 DEF Run
<1>8. ASSUME LinkLive', NEW d \in Chans
      PROVE  Run(hand[d], ReaderWants(d))' /\ Run(ws[d], SocketWants(d))'
  BY <1>1, <1>6, <1>8, ZenonT(30) DEF Striped, Run
<1>9. ASSUME LinkLive', qPc' # "end", NEW d \in wsUp
      PROVE  QueueOwes(d)' = SlotAfter(ws[d], SocketWants(d))'
  BY <1>1, <1>2, <1>6, <1>9 DEF Striped, SlotAfter
<1>. QED BY <1>1, <1>5, <1>7, <1>8, <1>9 DEF Striped
=============================================================================
