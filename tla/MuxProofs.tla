----------------------------- MODULE MuxProofs ------------------------------
(***************************************************************************)
(* The safety properties of Mux for any number of sessions and websockets, *)
(* any capacity and any number of blocks.                                  *)
(*                                                                         *)
(* That readers do not wait in a circle follows from the order in time in  *)
(* which blocks were written to the websockets.  No variable records that  *)
(* order; the invariant Ranked says that there is one.                     *)
(***************************************************************************)
EXTENDS Mux, FiniteSetTheorems, SequenceTheorems, TLAPS

\* Every non-empty set of natural numbers has a least element: the segments
\* 0 .. x of its elements are finite sets, well-founded by inclusion.
LEMMA LeastNat ==
  ASSUME NEW T, T \subseteq Nat, T # {}
  PROVE  \E x \in T : \A y \in T : x <= y
<1>. DEFINE Seg == {0 .. x : x \in T}
<1>1. Seg \subseteq FiniteSubsetsOf(Nat)
  <2>. SUFFICES ASSUME NEW x \in T PROVE 0 .. x \in FiniteSubsetsOf(Nat)
    OBVIOUS
  <2>1. x \in Int /\ 0 \in Int
    OBVIOUS
  <2>2. IsFiniteSet(0 .. x)
    BY <2>1, FS_Interval, Zenon
  <2>3. 0 .. x \in SUBSET Nat
    OBVIOUS
  <2>. QED BY <2>2, <2>3 DEF FiniteSubsetsOf
<1>2. Seg # {}
  BY Zenon
<1>. HIDE DEF Seg
<1>3. PICK s \in Seg :
        \A t \in Seg : ~(<<t, s>> \in StrictSubsetOrdering(Nat))
  BY <1>1, <1>2, FS_StrictSubsetOrderingWellFounded, WFMin
<1>4. PICK x \in T : s = 0 .. x
  BY DEF Seg
<1>5. ASSUME NEW y \in T, ~(x <= y) PROVE FALSE
  <2>1. 0 .. y \in Seg
    BY DEF Seg
  <2>2. 0 .. y \subseteq 0 .. x /\ x \in 0 .. x /\ x \notin 0 .. y
    BY <1>5
  <2>3. 0 .. x \in SUBSET Nat /\ 0 .. y \in SUBSET Nat
    OBVIOUS
  <2>4. <<0 .. y, 0 .. x>> \in StrictSubsetOrdering(Nat)
    BY <2>2, <2>3 DEF StrictSubsetOrdering
  <2>. QED BY <2>1, <2>4, <1>3, <1>4
<1>. QED BY <1>5

\* What a write and a read do to a buffer.
LEMMA AppendFacts ==
  ASSUME NEW S, NEW q \in Seq(S), NEW e \in S
  PROVE  /\ Append(q, e) \in Seq(S)
         /\ Len(q) \in Nat
         /\ Len(Append(q, e)) = Len(q) + 1
         /\ \A j \in 1 .. Len(q) : Append(q, e)[j] = q[j] /\ q[j] \in S
         /\ Append(q, e)[Len(q) + 1] = e
BY AppendProperties, LenProperties, ElementOfSeq

\* What is left of a queue, a wire or a buffer once its first block is taken.
LEMMA TailFacts ==
  ASSUME NEW S, NEW q \in Seq(S), q # << >>
  PROVE  /\ Head(q) = q[1] /\ Head(q) \in S
         /\ Tail(q) \in Seq(S)
         /\ Len(q) \in Nat \ {0}
         /\ Len(Tail(q)) = Len(q) - 1
         /\ \A j \in 1 .. Len(q) - 1 : Tail(q)[j] = q[j + 1]
<1>1. /\ Head(q) \in S /\ Tail(q) \in Seq(S) /\ Len(Tail(q)) = Len(q) - 1
      /\ \A j \in 1 .. Len(Tail(q)) : Tail(q)[j] = q[j + 1]
  BY HeadTailProperties
<1>2. Len(q) \in Nat \ {0}
  BY EmptySeq
<1>3. Head(q) = q[1]
  BY <1>2
<1>. QED BY <1>1, <1>2, <1>3

\* A block stands at some place of its sequence.
LEMMA ElementFacts ==
  ASSUME NEW S, NEW q \in Seq(S)
  PROVE  /\ Len(q) \in Nat
         /\ \A j \in 1 .. Len(q) : q[j] \in S
         /\ q = << >> <=> Len(q) = 0
BY ElementOfSeq, LenProperties, EmptySeq

\* Round robin names a websocket, whatever the count.
LEMMA TurnType == \A k \in Int : Turn(k) \in Chans
BY MuxAssumption DEF Turn, Chans

-----------------------------------------------------------------------------
(* The inductive invariant.                                                *)

Healthy == {s \in Sessions \ lost : out[s] # "done"}

\* The link.Send of a session that is removed is over.
GoneDone == \A s \in gone : out[s] = "done"

OnWire(s, k) == \E j \in 1 .. Len(wire[Turn(k)]) : wire[Turn(k)][j] = <<s, k>>
InLink(s, k) == \E i \in 1 .. Len(link[s][Turn(k)]) : link[s][Turn(k)][i] = k

\* A block on a websocket was written, and it is on the websocket of its turn.
WireOK ==
  \A c \in Chans : \A j \in 1 .. Len(wire[c]) :
    /\ wire[c][j][2] \in 1 .. sent[wire[c][j][1]]
    /\ Turn(wire[c][j][2]) = c

\* A block of a healthy session that is on a websocket is not collected.
WireNew ==
  \A c \in Chans : \A j \in 1 .. Len(wire[c]) :
    wire[c][j][1] \in Healthy => Len(recv[wire[c][j][1]]) < wire[c][j][2]

\* The links of a healthy session hold blocks that are still to be collected,
\* in order, and before those of the session that are on the websocket.
LinkOK ==
  \A s \in Healthy : \A c \in Chans : \A i \in 1 .. Len(link[s][c]) :
    /\ link[s][c][i] \in Len(recv[s]) + 1 .. sent[s]
    /\ Turn(link[s][c][i]) = c
    /\ \A l \in 1 .. Len(link[s][c]) : i < l => link[s][c][i] < link[s][c][l]
    /\ \A j \in 1 .. Len(wire[c]) :
         wire[c][j][1] = s => link[s][c][i] < wire[c][j][2]

\* A block of a healthy session is collected, in its link or on its websocket.
NoneMissing ==
  \A s \in Healthy :
    /\ Len(recv[s]) <= sent[s]
    /\ \A k \in Len(recv[s]) + 1 .. sent[s] : InLink(s, k) \/ OnWire(s, k)

\* rank is the order in time of the writes, top is later than all of them.
RankOK(rank, top) ==
  /\ \A s \in Sessions : \A k \in 1 .. sent[s] : rank[<<s, k>>] < top
  /\ \A s \in Sessions : \A k, l \in 1 .. sent[s] :
       k < l => rank[<<s, k>>] < rank[<<s, l>>]
  /\ \A c \in Chans : \A i, j \in 1 .. Len(wire[c]) :
       i < j => rank[wire[c][i]] < rank[wire[c][j]]

\* Blocks can be ranked in the order in which they were written.
Ranked == \E rank \in [Sessions \X Nat -> Nat], top \in Nat : RankOK(rank, top)

FlowInv == WireOK /\ WireNew /\ LinkOK /\ NoneMissing /\ Ranked /\ GoneDone

-----------------------------------------------------------------------------
\* Every step keeps the types.
LEMMA TypeStep == TypeOK /\ [Next]_vars => TypeOK'
<1>. SUFFICES ASSUME TypeOK, [Next]_vars PROVE TypeOK'
  OBVIOUS
<1>. USE MuxAssumption DEF TypeOK
<1>1. ASSUME NEW s \in Sessions, NEW c \in Chans, SayID(s, c) PROVE TypeOK'
  BY <1>1, Zenon DEF SayID, WriteExpires, server
<1>2. ASSUME NEW s \in Sessions, Establish(s) PROVE TypeOK'
  <2>1. 1 \in Chans
    BY DEF Chans
  <2>. QED BY <1>2, <2>1, Zenon DEF Establish, WriteExpires, server
<1>3. ASSUME NEW s \in Sessions, TellClose(s) PROVE TypeOK'
  <2>1. 1 \in Chans
    BY DEF Chans
  <2>. QED BY <1>3, <2>1 DEF TellClose, WriteExpires, server
<1>4. ASSUME NEW c \in Chans, HeartBeat(c) PROVE TypeOK'
  <2>1. c + 1 .. N \subseteq Chans
    BY DEF Chans
  <2>. QED BY <1>4, <2>1, Zenon DEF HeartBeat, server
<1>5. ASSUME CloseAll PROVE TypeOK'
  BY <1>5 DEF CloseAll, server
<1>6. ASSUME NEW s \in Sessions, StartWrite(s) PROVE TypeOK'
  BY <1>6 DEF StartWrite, server
<1>7. ASSUME NEW s \in Sessions, EndWrite(s) PROVE TypeOK'
  <2>1. Target(s) \in Chans
    BY TurnType DEF Target
  <2>2. <<s, sent[s] + 1>> \in Sessions \X Nat
    OBVIOUS
  <2>3. Append(wire[Target(s)], <<s, sent[s] + 1>>) \in Seq(Sessions \X Nat)
    BY <2>1, <2>2, AppendFacts
  <2>4. wire' \in [Chans -> Seq(Sessions \X Nat)]
    BY <1>7, <2>1, <2>3 DEF EndWrite
  <2>. QED BY <1>7, <2>4 DEF EndWrite
<1>8. ASSUME NEW s \in Sessions, FailWrite(s) PROVE TypeOK'
  BY <1>8 DEF FailWrite, server
<1>9. ASSUME NEW s \in Sessions, CloseWsWriter(s) PROVE TypeOK'
  <2>1. cut[s] - 1 \in 1 .. N + 1
    BY <1>9 DEF CloseWsWriter
  <2>. QED BY <1>9, <2>1 DEF CloseWsWriter, server
<1>10. ASSUME NEW s \in Sessions, Collect(s) PROVE TypeOK'
  <2>. DEFINE c == NextTurn(s)
  <2>1. Len(recv[s]) \in Nat
    BY ElementFacts
  <2>2. c \in Chans
    BY <2>1, TurnType DEF NextTurn
  <2>. HIDE DEF c
  <2>3. link[s][c] \in Seq(Nat) /\ link[s][c] # << >>
    BY <1>10, <2>2 DEF Collect, Flowing, NextLink, c
  <2>4. Head(link[s][c]) \in Nat /\ Tail(link[s][c]) \in Seq(Nat)
    BY <2>3, TailFacts
  <2>5. Append(recv[s], Head(link[s][c])) \in Seq(Nat)
    BY <2>4, AppendFacts
  <2>6. recv' \in [Sessions -> Seq(Nat)]
    BY <1>10, <2>5 DEF Collect, NextLink, c
  <2>7. link' = [link EXCEPT ![s][c] = Tail(@)]
    BY <1>10 DEF Collect, c
  <2>8. link' \in [Sessions -> [Chans -> Seq(Nat)]]
    BY <2>2, <2>4, <2>7
  <2>9. out' \in [Sessions -> {"run", "stuck", "done"}]
    BY <1>10 DEF Collect
  <2>. QED BY <1>10, <2>6, <2>8, <2>9, Zenon DEF Collect, client
<1>11. ASSUME NEW s \in Sessions, Unstick(s) PROVE TypeOK'
  BY <1>11 DEF Unstick, client
<1>12. ASSUME NEW s \in Sessions, SendTimeout(s) PROVE TypeOK'
  BY <1>12 DEF SendTimeout, client
<1>13. ASSUME NEW s \in Sessions, RemoveAll(s) PROVE TypeOK'
  <2>1. [c \in Chans |-> << >>] \in [Chans -> Seq(Nat)]
    BY EmptySeq
  <2>2. link' \in [Sessions -> [Chans -> Seq(Nat)]]
    BY <1>13, <2>1 DEF RemoveAll
  <2>. QED BY <1>13, <2>2 DEF RemoveAll, client
<1>14. ASSUME NEW c \in Chans, wire[c] # << >>
       PROVE  /\ Tail(wire[c]) \in Seq(Sessions \X Nat)
              /\ Owner(c) \in Sessions /\ Head(wire[c])[2] \in Nat
  <2>1. Head(wire[c]) \in Sessions \X Nat /\ Tail(wire[c]) \in Seq(Sessions \X Nat)
    BY <1>14, TailFacts
  <2>. QED BY <2>1, Zenon DEF Owner
<1>15. ASSUME NEW c \in Chans, Store(c) PROVE TypeOK'
  <2>1. wire[c] # << >>
    BY <1>15 DEF Store
  <2>2. wire' \in [Chans -> Seq(Sessions \X Nat)]
    BY <1>14, <1>15, <2>1 DEF Store
  <2>3. Append(link[Owner(c)][c], Head(wire[c])[2]) \in Seq(Nat)
    BY <1>14, <2>1, AppendFacts
  <2>4. link' \in [Sessions -> [Chans -> Seq(Nat)]]
    BY <1>14, <1>15, <2>1, <2>3, Zenon DEF Store
  <2>. QED BY <1>15, <2>2, <2>4, Zenon DEF Store, client
<1>16. ASSUME NEW c \in Chans, Drop(c) PROVE TypeOK'
  BY <1>14, <1>16, Zenon DEF Drop, client
<1>17. ASSUME NEW c \in Chans, Expire(c) PROVE TypeOK'
  BY <1>14, <1>17, Zenon DEF Expire, Blocked, client
<1>18. ASSUME NEW c \in Chans, ReadError(c) PROVE TypeOK'
  <2>1. wire' \in [Chans -> Seq(Sessions \X Nat)]
    BY <1>18, EmptySeq DEF ReadError
  <2>2. {wire[c][j][1] : j \in DOMAIN wire[c]} \subseteq Sessions
    BY ElementFacts
  <2>3. lost' \in SUBSET Sessions
    BY <1>18, <2>2 DEF ReadError
  <2>. QED BY <1>18, <2>1, <2>3, Zenon DEF ReadError, client
<1>19. CASE UNCHANGED vars
  BY <1>19 DEF vars
<1>. QED
  BY <1>1, <1>2, <1>3, <1>4, <1>5, <1>6, <1>7, <1>8, <1>9, <1>10, <1>11, <1>12,
     <1>13, <1>15, <1>16, <1>17, <1>18, <1>19, Zenon
     DEF Next, SessionStep, ReaderStep

-----------------------------------------------------------------------------
(* Blocks on the websockets.                                               *)

\* A reader that is done with the head of its websocket keeps the ranks.
LEMMA TakeKeepsRanks ==
  ASSUME TypeOK, WireOK, WireNew, Ranked, NEW c \in Chans, wire[c] # << >>,
         wire' = [wire EXCEPT ![c] = Tail(@)], sent' = sent, recv' = recv,
         Healthy' \subseteq Healthy
  PROVE  WireOK' /\ WireNew' /\ Ranked'
<1>1. /\ Len(wire[c]) \in Nat \ {0}
      /\ Len(wire'[c]) = Len(wire[c]) - 1
      /\ \A j \in 1 .. Len(wire'[c]) : wire'[c][j] = wire[c][j + 1]
  BY TailFacts DEF TypeOK
<1>2. \A d \in Chans \ {c} : wire'[d] = wire[d]
  BY DEF TypeOK
<1>3. WireOK'
  <2>. SUFFICES ASSUME NEW d \in Chans, NEW j \in 1 .. Len(wire'[d])
                PROVE  /\ wire'[d][j][2] \in 1 .. sent[wire'[d][j][1]]
                       /\ Turn(wire'[d][j][2]) = d
    BY DEF WireOK
  <2>1. CASE d = c
    <3>1. j + 1 \in 1 .. Len(wire[c])
      BY <1>1, <2>1
    <3>. QED BY <1>1, <2>1, <3>1 DEF WireOK
  <2>2. CASE d # c
    BY <1>2, <2>2 DEF WireOK
  <2>. QED BY <2>1, <2>2
<1>4. PICK rank \in [Sessions \X Nat -> Nat], top \in Nat : RankOK(rank, top)
  BY DEF Ranked
<1>5. RankOK(rank, top)'
  <2>1. ASSUME NEW d \in Chans, NEW i \in 1 .. Len(wire'[d]),
               NEW j \in 1 .. Len(wire'[d]), i < j
        PROVE  rank[wire'[d][i]] < rank[wire'[d][j]]
    <3>1. CASE d = c
      <4>1. i + 1 \in 1 .. Len(wire[c]) /\ j + 1 \in 1 .. Len(wire[c])
        BY <1>1, <3>1
      <4>2. rank[wire[c][i + 1]] < rank[wire[c][j + 1]]
        BY <1>4, <2>1, <4>1 DEF RankOK
      <4>. QED BY <1>1, <3>1, <4>2
    <3>2. CASE d # c
      BY <1>2, <1>4, <2>1, <3>2 DEF RankOK
    <3>. QED BY <3>1, <3>2
  <2>. QED BY <1>4, <2>1 DEF RankOK
<1>6. WireNew'
  <2>. SUFFICES ASSUME NEW d \in Chans, NEW j \in 1 .. Len(wire'[d]),
                       wire'[d][j][1] \in Healthy
                PROVE  Len(recv[wire'[d][j][1]]) < wire'[d][j][2]
    BY Zenon DEF WireNew
  <2>1. CASE d = c
    <3>1. j + 1 \in 1 .. Len(wire[c])
      BY <1>1, <2>1
    <3>. QED BY <1>1, <2>1, <3>1, Zenon DEF WireNew
  <2>2. CASE d # c
    BY <1>2, <2>2, Zenon DEF WireNew
  <2>. QED BY <2>1, <2>2
<1>. QED BY <1>3, <1>4, <1>5, <1>6 DEF Ranked

\* The head of a websocket is before the other blocks of its session on it.
LEMMA HeadIsFirst ==
  ASSUME TypeOK, WireOK, Ranked, NEW c \in Chans,
         NEW j \in 2 .. Len(wire[c]), wire[c][j][1] = wire[c][1][1]
  PROVE  wire[c][1][2] < wire[c][j][2]
<1>1. PICK rank \in [Sessions \X Nat -> Nat], top \in Nat : RankOK(rank, top)
  BY DEF Ranked
<1>2. wire[c] \in Seq(Sessions \X Nat) /\ Len(wire[c]) \in Nat
  BY ElementFacts DEF TypeOK
<1>3. 1 \in 1 .. Len(wire[c]) /\ j \in 1 .. Len(wire[c]) /\ 1 < j
  BY <1>2
<1>4. wire[c][1] \in Sessions \X Nat /\ wire[c][j] \in Sessions \X Nat
  BY <1>2, <1>3, ElementFacts, Zenon
<1>5. rank[wire[c][1]] < rank[wire[c][j]]
  BY <1>1, <1>3 DEF RankOK
<1>. DEFINE s == wire[c][1][1]
            k == wire[c][1][2]
            l == wire[c][j][2]
<1>6. /\ wire[c][1] = <<s, k>> /\ wire[c][j] = <<s, l>>
      /\ s \in Sessions /\ k \in Nat /\ l \in Nat
  BY <1>4
<1>7. k \in 1 .. sent[s] /\ l \in 1 .. sent[s]
  BY <1>3 DEF WireOK
<1>. HIDE DEF s, k, l
<1>8. rank[<<s, k>>] < rank[<<s, l>>]
  BY <1>5, <1>6
<1>9. l < k => rank[<<s, l>>] < rank[<<s, k>>]
  BY <1>1, <1>6, <1>7 DEF RankOK
<1>10. rank[<<s, k>>] \in Nat /\ rank[<<s, l>>] \in Nat
  BY <1>6
<1>11. k = l => rank[<<s, k>>] = rank[<<s, l>>]
  OBVIOUS
<1>12. k < l
  BY <1>6, <1>8, <1>9, <1>10, <1>11
<1>. QED BY <1>12 DEF k, l

-----------------------------------------------------------------------------
(* The steps that move blocks.                                             *)

\* A write puts the newest block at the end of its websocket.
LEMMA EndWriteFlow ==
  ASSUME TypeOK, FlowInv, NEW s \in Sessions, EndWrite(s)
  PROVE  FlowInv'
<1>1. PICK k \in Nat : k = sent[s] + 1
  BY DEF TypeOK
<1>2. PICK c \in Chans : c = Turn(k)
  BY <1>1, TurnType
<1>. USE <1>1, <1>2
<1>0. /\ wire' = [wire EXCEPT ![c] = Append(@, <<s, k>>)]
      /\ sent' = [sent EXCEPT ![s] = k]
      /\ UNCHANGED <<link, out, recv, lost, gone>>
  BY DEF EndWrite, Target, TypeOK
<1>3. /\ Len(wire[c]) \in Nat
      /\ Len(wire'[c]) = Len(wire[c]) + 1
      /\ \A j \in 1 .. Len(wire[c]) : wire'[c][j] = wire[c][j]
      /\ wire'[c][Len(wire[c]) + 1] = <<s, k>>
  <2>1. wire[c] \in Seq(Sessions \X Nat) /\ <<s, k>> \in Sessions \X Nat
    BY DEF TypeOK
  <2>2. wire'[c] = Append(wire[c], <<s, k>>)
    BY <1>0 DEF TypeOK
  <2>. QED BY <2>1, <2>2, AppendFacts
<1>4. \A d \in Chans \ {c} : wire'[d] = wire[d]
  BY <1>0 DEF TypeOK
<1>5. /\ sent'[s] = k /\ k = sent[s] + 1
      /\ \A t \in Sessions \ {s} : sent'[t] = sent[t]
      /\ \A t \in Sessions : sent[t] \in Nat /\ sent'[t] \in Nat /\ sent[t] <= sent'[t]
  BY <1>0 DEF TypeOK
<1>6. \A d \in Chans : \A j \in 1 .. Len(wire[d]) : wire[d][j] \in Sessions \X Nat
  BY ElementFacts DEF TypeOK
<1>7. \A d \in Chans : Len(wire[d]) \in Nat
  BY ElementFacts DEF TypeOK
<1>8. ASSUME NEW d \in Chans, NEW j \in 1 .. Len(wire'[d])
      PROVE  \/ d = c /\ j = Len(wire[c]) + 1 /\ wire'[d][j] = <<s, k>>
             \/ j \in 1 .. Len(wire[d]) /\ wire'[d][j] = wire[d][j]
  BY <1>3, <1>4, <1>7
<1>9. WireOK'
  <2>. SUFFICES ASSUME NEW d \in Chans, NEW j \in 1 .. Len(wire'[d])
                PROVE  /\ wire'[d][j][2] \in 1 .. sent'[wire'[d][j][1]]
                       /\ Turn(wire'[d][j][2]) = d
    BY DEF WireOK
  <2>1. CASE d = c /\ wire'[d][j] = <<s, k>>
    BY <1>1, <1>5, <2>1
  <2>2. CASE j \in 1 .. Len(wire[d]) /\ wire'[d][j] = wire[d][j]
    <3>1. wire[d][j][1] \in Sessions
      BY <1>6, <2>2
    <3>. QED BY <1>5, <2>2, <3>1 DEF FlowInv, WireOK
  <2>. QED BY <1>8, <2>1, <2>2
<1>10. LinkOK'
  <2>. SUFFICES ASSUME NEW t \in Healthy, NEW d \in Chans,
                       NEW i \in 1 .. Len(link[t][d])
                PROVE  /\ link[t][d][i] \in Len(recv[t]) + 1 .. sent'[t]
                       /\ Turn(link[t][d][i]) = d
                       /\ \A l \in 1 .. Len(link[t][d]) :
                            i < l => link[t][d][i] < link[t][d][l]
                       /\ \A j \in 1 .. Len(wire'[d]) :
                            wire'[d][j][1] = t => link[t][d][i] < wire'[d][j][2]
    BY <1>0 DEF LinkOK, Healthy
  <2>1. t \in Sessions /\ Len(recv[t]) \in Nat
    BY ElementFacts DEF Healthy, TypeOK
  <2>2. /\ link[t][d][i] \in Len(recv[t]) + 1 .. sent[t]
        /\ Turn(link[t][d][i]) = d
        /\ \A l \in 1 .. Len(link[t][d]) : i < l => link[t][d][i] < link[t][d][l]
        /\ \A j \in 1 .. Len(wire[d]) :
             wire[d][j][1] = t => link[t][d][i] < wire[d][j][2]
    BY DEF FlowInv, LinkOK
  <2>3. ASSUME NEW j \in 1 .. Len(wire'[d]), wire'[d][j][1] = t
        PROVE  link[t][d][i] < wire'[d][j][2]
    <3>1. CASE wire'[d][j] = <<s, k>>
      BY <1>5, <2>1, <2>2, <2>3, <3>1
    <3>2. CASE j \in 1 .. Len(wire[d]) /\ wire'[d][j] = wire[d][j]
      BY <2>2, <2>3, <3>2
    <3>. QED BY <1>8, <3>1, <3>2
  <2>. QED BY <1>5, <2>1, <2>2, <2>3
<1>11. NoneMissing'
  <2>. SUFFICES ASSUME NEW t \in Healthy
                PROVE  /\ Len(recv[t]) <= sent'[t]
                       /\ \A l \in Len(recv[t]) + 1 .. sent'[t] :
                            InLink(t, l) \/ OnWire(t, l)'
    BY <1>0 DEF NoneMissing, Healthy, InLink
  <2>1. t \in Sessions /\ Len(recv[t]) \in Nat
    BY ElementFacts DEF Healthy, TypeOK
  <2>2. /\ Len(recv[t]) <= sent[t]
        /\ \A l \in Len(recv[t]) + 1 .. sent[t] : InLink(t, l) \/ OnWire(t, l)
    BY DEF FlowInv, NoneMissing
  <2>3. ASSUME NEW l \in Int, OnWire(t, l) PROVE OnWire(t, l)'
    <3>1. PICK j \in 1 .. Len(wire[Turn(l)]) : wire[Turn(l)][j] = <<t, l>>
      BY <2>3 DEF OnWire
    <3>2. Turn(l) \in Chans
      BY TurnType
    <3>3. j \in 1 .. Len(wire'[Turn(l)]) /\ wire'[Turn(l)][j] = <<t, l>>
      BY <1>3, <1>4, <3>1, <3>2, SMTT(30)
    <3>. QED BY <3>3 DEF OnWire
  <2>4. OnWire(s, k)'
    <3>1. Len(wire[c]) + 1 \in 1 .. Len(wire'[c])
      BY <1>3
    <3>. QED BY <1>1, <1>3, <3>1 DEF OnWire
  <2>5. ASSUME NEW l \in Len(recv[t]) + 1 .. sent'[t]
        PROVE  InLink(t, l) \/ OnWire(t, l)'
    <3>1. CASE t = s /\ l = k
      BY <2>4, <3>1
    <3>2. CASE ~(t = s /\ l = k)
      <4>1. l \in Len(recv[t]) + 1 .. sent[t] /\ l \in Int
        BY <1>5, <2>1, <3>2
      <4>. QED BY <2>2, <2>3, <4>1
    <3>. QED BY <3>1, <3>2
  <2>. QED BY <1>5, <2>1, <2>2, <2>5
<1>12. Ranked'
  <2>1. PICK rank \in [Sessions \X Nat -> Nat], top \in Nat : RankOK(rank, top)
    BY DEF FlowInv, Ranked
  <2>2. PICK r : /\ r \in [Sessions \X Nat -> Nat] /\ top + 1 \in Nat
                 /\ r[<<s, k>>] = top
                 /\ \A m \in Sessions \X Nat : m # <<s, k>> => r[m] = rank[m]
    <3>1. WITNESS [rank EXCEPT ![<<s, k>>] = top]
    <3>. QED OBVIOUS
  <2>3. \A t \in Sessions : \A l \in 1 .. sent[t] :
          r[<<t, l>>] = rank[<<t, l>>] /\ r[<<t, l>>] < top
    <3>. SUFFICES ASSUME NEW t \in Sessions, NEW l \in 1 .. sent[t]
                  PROVE  r[<<t, l>>] = rank[<<t, l>>] /\ r[<<t, l>>] < top
      BY Zenon
    <3>1. <<t, l>> \in Sessions \X Nat /\ <<t, l>> # <<s, k>>
      BY <1>5
    <3>. QED BY <2>1, <2>2, <3>1 DEF RankOK
  <2>4. \A t \in Sessions : \A l \in 1 .. sent'[t] :
          l \in 1 .. sent[t] \/ (t = s /\ l = k)
    BY <1>5
  <2>5. \A t \in Sessions : \A l \in 1 .. sent'[t] : r[<<t, l>>] < top + 1
    <3>. SUFFICES ASSUME NEW t \in Sessions, NEW l \in 1 .. sent'[t]
                  PROVE  r[<<t, l>>] < top + 1
      BY Zenon
    <3>1. r[<<t, l>>] \in Nat
      BY <1>5, <2>2
    <3>2. r[<<t, l>>] <= top
      BY <2>2, <2>3, <2>4, <3>1
    <3>. QED BY <3>1, <3>2
  <2>6. ASSUME NEW t \in Sessions, NEW l \in 1 .. sent'[t],
               NEW m \in 1 .. sent'[t], l < m
        PROVE  r[<<t, l>>] < r[<<t, m>>]
    <3>1. CASE m \in 1 .. sent[t]
      <4>1. l \in 1 .. sent[t]
        BY <1>5, <2>6, <3>1
      <4>. QED BY <2>1, <2>3, <2>6, <3>1, <4>1 DEF RankOK
    <3>2. CASE t = s /\ m = k
      <4>1. l \in 1 .. sent[t]
        BY <1>5, <2>6, <3>2
      <4>. QED BY <2>2, <2>3, <3>2, <4>1
    <3>. QED BY <2>4, <3>1, <3>2
  <2>7. ASSUME NEW d \in Chans, NEW j \in 1 .. Len(wire[d])
        PROVE  r[wire[d][j]] = rank[wire[d][j]] /\ r[wire[d][j]] < top
    <3>1. PICK t \in Sessions, l \in Nat : wire[d][j] = <<t, l>>
      BY <1>6
    <3>2. wire[d][j][2] \in 1 .. sent[wire[d][j][1]]
      BY DEF FlowInv, WireOK
    <3>3. l \in 1 .. sent[t]
      BY <3>1, <3>2
    <3>. QED BY <2>3, <3>1, <3>3
  <2>8. ASSUME NEW d \in Chans, NEW i \in 1 .. Len(wire'[d]),
               NEW j \in 1 .. Len(wire'[d]), i < j
        PROVE  r[wire'[d][i]] < r[wire'[d][j]]
    <3>1. i \in 1 .. Len(wire[d]) /\ wire'[d][i] = wire[d][i]
      BY <1>3, <1>4, <1>7, <2>8, SMTT(30)
    <3>2. CASE d = c /\ wire'[d][j] = <<s, k>>
      BY <2>2, <2>7, <3>1, <3>2
    <3>3. CASE j \in 1 .. Len(wire[d]) /\ wire'[d][j] = wire[d][j]
      BY <2>1, <2>7, <2>8, <3>1, <3>3 DEF RankOK
    <3>. QED BY <1>8, <3>2, <3>3
  <2>9. RankOK(r, top + 1)'
    BY <2>5, <2>6, <2>8 DEF RankOK
  <2>. QED BY <2>2, <2>9 DEF Ranked
<1>13. WireNew'
  <2>. SUFFICES ASSUME NEW d \in Chans, NEW j \in 1 .. Len(wire'[d]),
                       wire'[d][j][1] \in Healthy
                PROVE  Len(recv[wire'[d][j][1]]) < wire'[d][j][2]
    BY <1>0 DEF WireNew, Healthy
  <2>1. CASE wire'[d][j] = <<s, k>>
    <3>1. Len(recv[s]) <= sent[s] /\ Len(recv[s]) \in Nat
      BY <2>1, ElementFacts DEF FlowInv, NoneMissing, TypeOK
    <3>. QED BY <1>5, <2>1, <3>1
  <2>2. CASE j \in 1 .. Len(wire[d]) /\ wire'[d][j] = wire[d][j]
    BY <2>2, Zenon DEF FlowInv, WireNew
  <2>. QED BY <1>8, <2>1, <2>2
<1>. QED BY <1>0, <1>9, <1>10, <1>11, <1>12, <1>13 DEF FlowInv, GoneDone

\* A block that is stored goes from the head of its websocket to the end of
\* the link, behind older blocks and before the rest of the websocket.
LEMMA StoreFlow ==
  ASSUME TypeOK, FlowInv, NEW c \in Chans, Store(c)
  PROVE  FlowInv'
<1>1. PICK s \in Sessions, k \in Nat : Head(wire[c]) = <<s, k>>
  <2>1. Head(wire[c]) \in Sessions \X Nat
    BY TailFacts DEF TypeOK, Store
  <2>. QED BY <2>1
<1>2. /\ wire' = [wire EXCEPT ![c] = Tail(@)]
      /\ link' = [link EXCEPT ![s][c] = Append(@, k)]
      /\ UNCHANGED <<sent, out, recv, lost, gone>>
  <2>1. Owner(c) = s /\ Head(wire[c])[2] = k
    BY <1>1 DEF Owner
  <2>. QED BY <2>1, Zenon DEF Store, client
<1>3. /\ wire[c] # << >> /\ wire[c][1] = <<s, k>>
      /\ Len(wire[c]) \in Nat \ {0}
      /\ Len(wire'[c]) = Len(wire[c]) - 1
      /\ \A j \in 1 .. Len(wire'[c]) : wire'[c][j] = wire[c][j + 1]
  <2>1. wire[c] \in Seq(Sessions \X Nat) /\ wire[c] # << >>
    BY <1>1 DEF TypeOK, Store
  <2>2. wire'[c] = Tail(wire[c])
    BY <1>2 DEF TypeOK
  <2>. QED BY <1>1, <2>1, <2>2, TailFacts
<1>4. \A d \in Chans \ {c} : wire'[d] = wire[d]
  BY <1>2 DEF TypeOK
<1>5. /\ Len(link[s][c]) \in Nat
      /\ Len(link'[s][c]) = Len(link[s][c]) + 1
      /\ \A i \in 1 .. Len(link[s][c]) :
           link'[s][c][i] = link[s][c][i] /\ link[s][c][i] \in Nat
      /\ link'[s][c][Len(link[s][c]) + 1] = k
  <2>1. link'[s][c] = Append(link[s][c], k) /\ link[s][c] \in Seq(Nat)
    BY <1>2 DEF TypeOK
  <2>2. /\ Len(link[s][c]) \in Nat
        /\ Len(Append(link[s][c], k)) = Len(link[s][c]) + 1
        /\ \A i \in 1 .. Len(link[s][c]) :
             Append(link[s][c], k)[i] = link[s][c][i] /\ link[s][c][i] \in Nat
        /\ Append(link[s][c], k)[Len(link[s][c]) + 1] = k
    BY <2>1, AppendFacts
  <2>. QED BY <2>1, <2>2, Zenon
<1>6. \A t \in Sessions, d \in Chans : t # s \/ d # c => link'[t][d] = link[t][d]
  BY <1>2 DEF TypeOK
<1>7. k \in 1 .. sent[s] /\ Turn(k) = c /\ 1 \in 1 .. Len(wire[c])
  BY <1>3 DEF FlowInv, WireOK
<1>8. ASSUME NEW j \in 1 .. Len(wire'[c]), wire'[c][j][1] = s
      PROVE  k < wire'[c][j][2]
  <2>1. j + 1 \in 2 .. Len(wire[c]) /\ wire'[c][j] = wire[c][j + 1]
    BY <1>3
  <2>2. wire[c][1][1] = s /\ wire[c][1][2] = k
    BY <1>3
  <2>3. wire[c][j + 1][1] = wire[c][1][1]
    BY <1>8, <2>1, <2>2, Zenon
  <2>4. wire[c][1][2] < wire[c][j + 1][2]
    BY <2>1, <2>3, HeadIsFirst, Zenon DEF FlowInv
  <2>. QED BY <2>1, <2>2, <2>4, Zenon
<1>9. LinkOK'
  <2>. SUFFICES ASSUME NEW t \in Healthy, NEW d \in Chans,
                       NEW i \in 1 .. Len(link'[t][d])
                PROVE  /\ link'[t][d][i] \in Len(recv[t]) + 1 .. sent[t]
                       /\ Turn(link'[t][d][i]) = d
                       /\ \A l \in 1 .. Len(link'[t][d]) :
                            i < l => link'[t][d][i] < link'[t][d][l]
                       /\ \A j \in 1 .. Len(wire'[d]) :
                            wire'[d][j][1] = t => link'[t][d][i] < wire'[d][j][2]
    BY <1>2, SMTT(30) DEF LinkOK, Healthy
  <2>1. t \in Sessions
    BY DEF Healthy
  <2>2. ASSUME NEW h \in 1 .. Len(link[t][d])
        PROVE  /\ link[t][d][h] \in Len(recv[t]) + 1 .. sent[t]
               /\ Turn(link[t][d][h]) = d
               /\ \A l \in 1 .. Len(link[t][d]) :
                    h < l => link[t][d][h] < link[t][d][l]
               /\ \A j \in 1 .. Len(wire[d]) :
                    wire[d][j][1] = t => link[t][d][h] < wire[d][j][2]
    BY DEF FlowInv, LinkOK
  <2>3. CASE t = s /\ d = c
    <3>1. \A h \in 1 .. Len(link[s][c]) : link[s][c][h] < k
      <4>1. wire[c][1][1] = s /\ wire[c][1][2] = k
        BY <1>3
      <4>. QED BY <1>7, <2>2, <2>3, <4>1, Zenon
    <3>2. ASSUME NEW j \in 1 .. Len(wire'[c]), wire'[c][j][1] = s,
                 NEW h \in 1 .. Len(link[s][c])
          PROVE  link[s][c][h] < wire'[c][j][2]
      <4>1. j + 1 \in 1 .. Len(wire[c]) /\ wire'[c][j] = wire[c][j + 1]
        BY <1>3, SMTT(30)
      <4>. QED BY <2>2, <2>3, <3>2, <4>1
    <3>3. CASE i \in 1 .. Len(link[s][c])
      <4>1. link'[s][c][i] = link[s][c][i]
        BY <1>5, <3>3
      <4>2. ASSUME NEW l \in 1 .. Len(link'[s][c]), i < l
            PROVE  link'[s][c][i] < link'[s][c][l]
        <5>1. CASE l \in 1 .. Len(link[s][c])
          BY <1>5, <2>2, <2>3, <3>3, <4>1, <4>2, <5>1
        <5>2. CASE l = Len(link[s][c]) + 1
          BY <1>5, <3>1, <3>3, <4>1, <5>2
        <5>3. Len(link'[s][c]) = Len(link[s][c]) + 1 /\ Len(link[s][c]) \in Nat
          BY <1>5
        <5>. QED BY <5>1, <5>2, <5>3
      <4>. QED BY <2>2, <2>3, <3>2, <3>3, <4>1, <4>2
    <3>4. CASE i = Len(link[s][c]) + 1
      <4>1. link'[s][c][i] = k
        BY <1>5, <3>4
      <4>2. Len(recv[s]) + 1 <= k
        <5>1. Len(recv[s]) \in Nat
          BY ElementFacts DEF TypeOK
        <5>2. wire[c][1][1] = s /\ wire[c][1][2] = k
          BY <1>3
        <5>3. Len(recv[s]) < k
          BY <1>7, <2>3, <5>2, Zenon DEF FlowInv, WireNew
        <5>. QED BY <5>1, <5>3
      <4>3. link'[t][d][i] \in Len(recv[t]) + 1 .. sent[t] /\ Turn(link'[t][d][i]) = d
        BY <1>7, <2>3, <4>1, <4>2
      <4>4. \A l \in 1 .. Len(link'[t][d]) : ~(i < l)
        BY <1>5, <2>3, <3>4
      <4>. QED BY <1>8, <2>3, <4>1, <4>3, <4>4
    <3>. QED BY <1>5, <2>3, <3>3, <3>4, SMTT(30)
  <2>4. CASE t # s /\ d = c
    <3>1. ASSUME NEW j \in 1 .. Len(wire'[c]), wire'[c][j][1] = t
          PROVE  link[t][c][i] < wire'[c][j][2]
      <4>1. j + 1 \in 1 .. Len(wire[c]) /\ wire'[c][j] = wire[c][j + 1]
        BY <1>3
      <4>. QED BY <1>6, <2>1, <2>2, <2>4, <3>1, <4>1
    <3>. QED BY <1>6, <2>1, <2>2, <2>4, <3>1
  <2>5. CASE d # c
    BY <1>4, <1>6, <2>1, <2>2, <2>5, ZenonT(30)
  <2>. QED BY <2>3, <2>4, <2>5
<1>10. NoneMissing'
  <2>. SUFFICES ASSUME NEW t \in Healthy, NEW l \in Len(recv[t]) + 1 .. sent[t]
                PROVE  InLink(t, l)' \/ OnWire(t, l)'
    BY <1>2 DEF FlowInv, NoneMissing, Healthy
  <2>1. t \in Sessions /\ l \in Int
    <3>1. Len(recv[t]) \in Nat
      BY ElementFacts DEF Healthy, TypeOK
    <3>. QED BY <3>1 DEF Healthy, TypeOK
  <2>2. Turn(l) \in Chans
    BY <2>1, TurnType
  <2>3. CASE InLink(t, l)
    <3>1. PICK i \in 1 .. Len(link[t][Turn(l)]) : link[t][Turn(l)][i] = l
      BY <2>3 DEF InLink
    <3>2. i \in 1 .. Len(link'[t][Turn(l)]) /\ link'[t][Turn(l)][i] = l
      BY <1>5, <1>6, <2>1, <2>2, <3>1
    <3>. QED BY <3>2 DEF InLink
  <2>4. CASE OnWire(t, l)
    <3>1. PICK j \in 1 .. Len(wire[Turn(l)]) : wire[Turn(l)][j] = <<t, l>>
      BY <2>4 DEF OnWire
    <3>2. CASE Turn(l) = c /\ j = 1
      <4>1. t = s /\ l = k
        BY <1>3, <3>1, <3>2
      <4>2. Len(link[s][c]) + 1 \in 1 .. Len(link'[s][c])
        BY <1>5
      <4>3. InLink(s, k)'
        BY <1>5, <1>7, <4>2 DEF InLink
      <4>. QED BY <4>1, <4>3
    <3>3. CASE Turn(l) = c /\ j # 1
      <4>1. j - 1 \in 1 .. Len(wire'[c]) /\ wire'[c][j - 1] = wire[c][(j - 1) + 1]
        BY <1>3, <3>1, <3>3, SMTT(30)
      <4>2. wire'[c][j - 1] = <<t, l>>
        BY <3>1, <3>3, <4>1
      <4>. QED BY <3>3, <4>1, <4>2 DEF OnWire
    <3>4. CASE Turn(l) # c
      BY <1>4, <2>2, <3>1, <3>4 DEF OnWire
    <3>. QED BY <3>2, <3>3, <3>4
  <2>. QED BY <2>3, <2>4 DEF FlowInv, NoneMissing
<1>11. WireOK' /\ WireNew' /\ Ranked'
  BY <1>2, <1>3, TakeKeepsRanks, Zenon DEF FlowInv, Healthy
<1>. QED BY <1>2, <1>9, <1>10, <1>11 DEF FlowInv, GoneDone

\* The block that link.Send takes is the one the target is waiting for.
LEMMA HeadIsNext ==
  ASSUME TypeOK, FlowInv, NEW s \in Healthy, Flowing(s)
  PROVE  Head(NextLink(s)) = Len(recv[s]) + 1
<1>1. s \in Sessions /\ Len(recv[s]) \in Nat
  BY ElementFacts DEF Healthy, TypeOK
<1>2. PICK n \in Nat : n = Len(recv[s]) + 1
  BY <1>1
<1>3. PICK c \in Chans : c = Turn(n)
  BY <1>2, TurnType
<1>4. /\ link[s][c] \in Seq(Nat) /\ link[s][c] # << >>
      /\ NextLink(s) = link[s][c]
  BY <1>1, <1>2, <1>3 DEF Flowing, NextLink, NextTurn, TypeOK
<1>5. /\ Head(link[s][c]) = link[s][c][1]
      /\ 1 \in 1 .. Len(link[s][c])
      /\ Len(link[s][c]) \in Nat
  BY <1>4, TailFacts
<1>6. link[s][c][1] \in n .. sent[s]
  BY <1>2, <1>5 DEF FlowInv, LinkOK
<1>7. InLink(s, n) \/ OnWire(s, n)
  <2>1. sent[s] \in Nat
    BY <1>1 DEF TypeOK
  <2>2. n \in Len(recv[s]) + 1 .. sent[s]
    BY <1>2, <1>6, <2>1
  <2>. QED BY <2>2 DEF FlowInv, NoneMissing
<1>8. CASE InLink(s, n)
  <2>1. PICK i \in 1 .. Len(link[s][c]) : link[s][c][i] = n
    BY <1>3, <1>8 DEF InLink
  <2>2. 1 < i => link[s][c][1] < n
    BY <1>5, <2>1 DEF FlowInv, LinkOK
  <2>3. link[s][c][1] = n
    BY <1>5, <1>6, <2>1, <2>2
  <2>. QED BY <1>2, <1>4, <1>5, <2>3
<1>9. CASE OnWire(s, n)
  <2>1. PICK j \in 1 .. Len(wire[c]) : wire[c][j] = <<s, n>>
    BY <1>3, <1>9 DEF OnWire
  <2>2. wire[c][j][1] = s /\ wire[c][j][2] = n
    BY <2>1
  <2>3. link[s][c][1] < n
    BY <1>5, <2>2 DEF FlowInv, LinkOK
  <2>. QED BY <1>6, <2>3
<1>. QED BY <1>7, <1>8, <1>9

\* link.Send takes blocks in order.
LEMMA CollectFlow ==
  ASSUME TypeOK, FlowInv, NEW s \in Sessions, Collect(s)
  PROVE  FlowInv'
<1>1. Len(recv[s]) \in Nat
  BY ElementFacts DEF TypeOK
<1>2. PICK n \in Nat : n = Len(recv[s]) + 1
  BY <1>1
<1>3. PICK c \in Chans : c = Turn(n)
  BY <1>2, TurnType
<1>4. /\ link[s][c] \in Seq(Nat) /\ link[s][c] # << >>
      /\ NextLink(s) = link[s][c]
  BY <1>2, <1>3 DEF Collect, Flowing, NextLink, NextTurn, TypeOK
<1>5. /\ recv' = [recv EXCEPT ![s] = Append(@, Head(link[s][c]))]
      /\ link' = [link EXCEPT ![s][c] = Tail(@)]
      /\ UNCHANGED <<sent, wire, lost, gone>>
  BY <1>2, <1>3, <1>4 DEF Collect, NextTurn, client
<1>6. /\ Head(link[s][c]) = link[s][c][1] /\ Head(link[s][c]) \in Nat
      /\ Len(link[s][c]) \in Nat \ {0}
      /\ Len(link'[s][c]) = Len(link[s][c]) - 1
      /\ \A i \in 1 .. Len(link'[s][c]) : link'[s][c][i] = link[s][c][i + 1]
  BY <1>4, <1>5, TailFacts DEF TypeOK
<1>7. \A t \in Sessions, d \in Chans : t # s \/ d # c => link'[t][d] = link[t][d]
  BY <1>5 DEF TypeOK
<1>8. Len(recv'[s]) = n
  <2>1. recv'[s] = Append(recv[s], Head(link[s][c])) /\ recv[s] \in Seq(Nat)
    BY <1>5 DEF TypeOK
  <2>. QED BY <1>2, <1>6, <2>1, AppendFacts
<1>9. \A t \in Sessions : t # s => recv'[t] = recv[t]
  BY <1>5 DEF TypeOK
<1>10. ASSUME s \in Healthy PROVE link[s][c][1] = n
  BY <1>2, <1>4, <1>6, <1>10, HeadIsNext DEF Collect
<1>11. Healthy' \subseteq Healthy /\ Healthy \subseteq Sessions
  <2>1. out[s] = "run" /\ \A t \in Sessions \ {s} : out'[t] = out[t]
    BY DEF Collect, Flowing, TypeOK
  <2>. QED BY <1>5, <2>1 DEF Healthy
<1>17. GoneDone'
  <2>1. s \notin gone
    BY DEF Collect, Flowing, FlowInv, GoneDone
  <2>2. \A t \in gone : t \in Sessions \ {s} /\ out'[t] = out[t]
    BY <2>1 DEF Collect, TypeOK
  <2>. QED BY <1>5, <2>2 DEF FlowInv, GoneDone
<1>12. ASSUME s \in Healthy, NEW d \in Chans, NEW j \in 1 .. Len(wire[d]),
              wire[d][j][1] = s
       PROVE  n < wire[d][j][2]
  <2>1. Len(recv[s]) < wire[d][j][2] /\ wire[d][j][2] \in Nat
    <3>1. wire[d][j] \in Sessions \X Nat
      BY ElementFacts DEF TypeOK
    <3>2. Len(recv[s]) < wire[d][j][2]
      BY <1>12, Zenon DEF FlowInv, WireNew
    <3>. QED BY <3>1, <3>2
  <2>2. CASE d = c
    <3>1. 1 \in 1 .. Len(link[s][c])
      BY <1>6
    <3>2. link[s][c][1] < wire[d][j][2]
      BY <1>12, <2>2, <3>1 DEF FlowInv, LinkOK
    <3>. QED BY <1>10, <1>12, <3>2
  <2>3. CASE d # c
    <3>1. Turn(wire[d][j][2]) = d
      BY DEF FlowInv, WireOK
    <3>2. wire[d][j][2] # n
      BY <1>3, <2>3, <3>1
    <3>. QED BY <1>2, <2>1, <3>2
  <2>. QED BY <2>2, <2>3
<1>13. WireNew'
  <2>. SUFFICES ASSUME NEW d \in Chans, NEW j \in 1 .. Len(wire[d]),
                       wire[d][j][1] \in Healthy
                PROVE  Len(recv'[wire[d][j][1]]) < wire[d][j][2]
    BY <1>5, <1>11 DEF WireNew
  <2>1. CASE wire[d][j][1] = s
    BY <1>8, <1>12, <2>1
  <2>2. CASE wire[d][j][1] # s
    BY <1>9, <1>11, <2>2, SMTT(30) DEF FlowInv, WireNew
  <2>. QED BY <2>1, <2>2
<1>14. LinkOK'
  <2>. SUFFICES ASSUME NEW t \in Healthy, NEW d \in Chans,
                       NEW i \in 1 .. Len(link'[t][d])
                PROVE  /\ link'[t][d][i] \in Len(recv'[t]) + 1 .. sent[t]
                       /\ Turn(link'[t][d][i]) = d
                       /\ \A l \in 1 .. Len(link'[t][d]) :
                            i < l => link'[t][d][i] < link'[t][d][l]
                       /\ \A j \in 1 .. Len(wire[d]) :
                            wire[d][j][1] = t => link'[t][d][i] < wire[d][j][2]
    BY <1>5, <1>11, SMTT(30) DEF LinkOK
  <2>1. ASSUME NEW h \in 1 .. Len(link[t][d])
        PROVE  /\ link[t][d][h] \in Len(recv[t]) + 1 .. sent[t]
               /\ Turn(link[t][d][h]) = d
               /\ \A l \in 1 .. Len(link[t][d]) :
                    h < l => link[t][d][h] < link[t][d][l]
               /\ \A j \in 1 .. Len(wire[d]) :
                    wire[d][j][1] = t => link[t][d][h] < wire[d][j][2]
    BY Zenon DEF FlowInv, LinkOK
  <2>2. CASE t # s
    BY <1>7, <1>9, <1>11, <2>1, <2>2, ZenonT(30)
  <2>3. CASE t = s /\ d # c
    <3>1. link'[s][d] = link[s][d]
      BY <1>7, <2>3, Zenon
    <3>2. link[s][d][i] # n
      BY <1>3, <2>1, <2>3, <3>1
    <3>3. link[s][d][i] \in n + 1 .. sent[s]
      BY <1>2, <2>1, <2>3, <3>1, <3>2, SMTT(30)
    <3>. QED BY <1>8, <2>1, <2>3, <3>1, <3>3
  <2>4. CASE t = s /\ d = c
    <3>1. i + 1 \in 1 .. Len(link[s][c]) /\ 1 \in 1 .. Len(link[s][c])
      BY <1>6, <2>4
    <3>2. link'[s][c][i] = link[s][c][i + 1]
      BY <1>6, <2>4
    <3>3. n < link[s][c][i + 1]
      <4>1. 1 < i + 1
        BY <3>1
      <4>2. link[s][c][1] < link[s][c][i + 1]
        BY <2>1, <2>4, <3>1, <4>1
      <4>. QED BY <1>10, <2>4, <4>2
    <3>4. link[s][c][i + 1] \in n + 1 .. sent[s]
      BY <1>2, <2>1, <2>4, <3>1, <3>3
    <3>5. ASSUME NEW l \in 1 .. Len(link'[s][c]), i < l
          PROVE  link'[s][c][i] < link'[s][c][l]
      <4>1. l + 1 \in 1 .. Len(link[s][c]) /\ i + 1 < l + 1
        BY <1>6, <2>4, <3>5
      <4>2. link[s][c][i + 1] < link[s][c][l + 1]
        BY <2>1, <2>4, <3>1, <4>1
      <4>. QED BY <1>6, <3>2, <4>2
    <3>. QED BY <1>8, <2>1, <2>4, <3>1, <3>2, <3>4, <3>5
  <2>. QED BY <2>2, <2>3, <2>4
<1>15. NoneMissing'
  <2>. SUFFICES ASSUME NEW t \in Healthy
                PROVE  /\ Len(recv'[t]) <= sent[t]
                       /\ \A l \in Len(recv'[t]) + 1 .. sent[t] :
                            InLink(t, l)' \/ OnWire(t, l)
    BY <1>5, <1>11, Zenon DEF NoneMissing, OnWire
  <2>1. /\ Len(recv[t]) <= sent[t]
        /\ \A l \in Len(recv[t]) + 1 .. sent[t] : InLink(t, l) \/ OnWire(t, l)
    BY DEF FlowInv, NoneMissing
  <2>2. Len(recv[t]) \in Nat /\ sent[t] \in Nat
    BY <1>11, ElementFacts DEF TypeOK
  <2>3. CASE t # s
    <3>1. recv'[t] = recv[t] /\ \A d \in Chans : link'[t][d] = link[t][d]
      BY <1>7, <1>9, <1>11, <2>3
    <3>2. ASSUME NEW l \in Int PROVE InLink(t, l)' <=> InLink(t, l)
      BY <3>1, TurnType DEF InLink
    <3>. QED BY <2>1, <2>2, <3>1, <3>2
  <2>4. CASE t = s
    <3>1. n <= sent[s]
      <4>1. 1 \in 1 .. Len(link[s][c])
        BY <1>6
      <4>2. link[s][c][1] \in Len(recv[s]) + 1 .. sent[s]
        BY <2>4, <4>1 DEF FlowInv, LinkOK
      <4>. QED BY <1>10, <2>2, <2>4, <4>2
    <3>2. ASSUME NEW l \in n + 1 .. sent[s], InLink(s, l)
          PROVE  InLink(s, l)'
      <4>1. PICK i \in 1 .. Len(link[s][Turn(l)]) : link[s][Turn(l)][i] = l
        BY <3>2 DEF InLink
      <4>2. Turn(l) \in Chans
        BY TurnType
      <4>3. CASE Turn(l) # c
        BY <1>7, <4>1, <4>2, <4>3 DEF InLink
      <4>4. CASE Turn(l) = c
        <5>1. i # 1
          BY <1>10, <2>4, <4>1, <4>4
        <5>2. i - 1 \in 1 .. Len(link'[s][c])
          BY <1>6, <4>1, <4>4, <5>1
        <5>3. link'[s][c][i - 1] = link[s][c][(i - 1) + 1]
          BY <1>6, <5>2
        <5>4. link'[s][c][i - 1] = l
          BY <4>1, <4>4, <5>3
        <5>. QED BY <4>4, <5>2, <5>4 DEF InLink
      <4>. QED BY <4>3, <4>4
    <3>3. ASSUME NEW l \in n + 1 .. sent[s]
          PROVE  InLink(s, l)' \/ OnWire(s, l)
      <4>1. l \in Len(recv[s]) + 1 .. sent[s]
        BY <1>2, <2>2, <2>4
      <4>. QED BY <2>1, <2>4, <3>2, <4>1
    <3>. QED BY <1>8, <2>4, <3>1, <3>3
  <2>. QED BY <2>3, <2>4
<1>16. WireOK' /\ Ranked'
  BY <1>5, ZenonT(30) DEF FlowInv, WireOK, Ranked, RankOK
<1>. QED BY <1>13, <1>14, <1>15, <1>16, <1>17 DEF FlowInv

\* A block that is dropped is one of a session that is not healthy any more.
LEMMA DropFlow ==
  ASSUME TypeOK, FlowInv, NEW c \in Chans, wire[c] # << >>,
         wire' = [wire EXCEPT ![c] = Tail(@)],
         UNCHANGED <<sent, recv, link, out, gone>>,
         Healthy' \subseteq Healthy, Owner(c) \notin Healthy'
  PROVE  FlowInv'
<1>1. WireOK' /\ WireNew' /\ Ranked'
  BY TakeKeepsRanks, Zenon DEF FlowInv
<1>2. /\ Head(wire[c]) = wire[c][1]
      /\ Len(wire[c]) \in Nat \ {0}
      /\ Len(wire'[c]) = Len(wire[c]) - 1
      /\ \A j \in 1 .. Len(wire'[c]) : wire'[c][j] = wire[c][j + 1]
  BY TailFacts DEF TypeOK
<1>3. \A d \in Chans \ {c} : wire'[d] = wire[d]
  BY DEF TypeOK
<1>4. LinkOK'
  <2>. SUFFICES ASSUME NEW t \in Healthy', NEW d \in Chans,
                       NEW i \in 1 .. Len(link[t][d]),
                       NEW j \in 1 .. Len(wire'[d]), wire'[d][j][1] = t
                PROVE  link[t][d][i] < wire'[d][j][2]
    BY DEF FlowInv, LinkOK
  <2>1. \E h \in 1 .. Len(wire[d]) : wire[d][h] = wire'[d][j]
    <3>1. CASE d = c
      <4>1. j + 1 \in 1 .. Len(wire[c]) /\ wire'[c][j] = wire[c][j + 1]
        BY <1>2, <3>1
      <4>. QED BY <3>1, <4>1
    <3>2. CASE d # c
      BY <1>3, <3>2
    <3>. QED BY <3>1, <3>2
  <2>. QED BY <2>1 DEF FlowInv, LinkOK
<1>5. NoneMissing'
  <2>. SUFFICES ASSUME NEW t \in Healthy', NEW l \in Len(recv[t]) + 1 .. sent[t]
                PROVE  InLink(t, l) \/ OnWire(t, l)'
    BY DEF FlowInv, NoneMissing, InLink
  <2>1. t \in Healthy /\ t \in Sessions /\ Len(recv[t]) \in Nat /\ sent[t] \in Nat
    BY ElementFacts DEF Healthy, TypeOK
  <2>2. Turn(l) \in Chans
    BY <2>1, TurnType
  <2>3. InLink(t, l) \/ OnWire(t, l)
    BY <2>1 DEF FlowInv, NoneMissing
  <2>4. ASSUME OnWire(t, l) PROVE OnWire(t, l)'
    <3>1. PICK j \in 1 .. Len(wire[Turn(l)]) : wire[Turn(l)][j] = <<t, l>>
      BY <2>4 DEF OnWire
    <3>2. CASE Turn(l) # c
      BY <1>3, <2>2, <3>1, <3>2 DEF OnWire
    <3>3. CASE Turn(l) = c
      <4>1. j # 1
        BY <1>2, <3>1, <3>3 DEF Owner
      <4>2. j - 1 \in 1 .. Len(wire'[c])
        BY <1>2, <3>1, <3>3, <4>1
      <4>3. wire'[c][j - 1] = wire[c][(j - 1) + 1]
        BY <1>2, <4>2
      <4>4. (j - 1) + 1 = j
        BY <3>1, <3>3, <1>2
      <4>5. wire'[c][j - 1] = <<t, l>>
        BY <3>1, <3>3, <4>3, <4>4, Zenon
      <4>. QED BY <3>3, <4>2, <4>5, Zenon DEF OnWire
    <3>. QED BY <3>2, <3>3
  <2>. QED BY <2>3, <2>4
<1>. QED BY <1>1, <1>4, <1>5 DEF FlowInv, GoneDone

\* What a closed websocket still held is missed by sessions that are not
\* healthy any more.
LEMMA CutFlow ==
  ASSUME TypeOK, FlowInv, NEW c \in Chans, ReadError(c)
  PROVE  FlowInv'
<1>1. /\ wire'[c] = << >> /\ Len(wire'[c]) = 0
      /\ \A d \in Chans \ {c} : wire'[d] = wire[d]
      /\ UNCHANGED <<sent, recv, link, out, gone>>
  BY EmptySeq DEF ReadError, client, TypeOK
<1>2. /\ Healthy' \subseteq Healthy
      /\ \A j \in 1 .. Len(wire[c]) : wire[c][j][1] \notin Healthy'
  <2>1. DOMAIN wire[c] = 1 .. Len(wire[c])
    BY LenProperties DEF TypeOK
  <2>. QED BY <1>1, <2>1 DEF ReadError, Healthy
<1>3. \A d \in Chans : \A j \in 1 .. Len(wire'[d]) :
        d # c /\ wire'[d] = wire[d]
  BY <1>1
<1>4. WireOK' /\ WireNew'
  <2>1. WireOK'
    BY <1>1, <1>3 DEF FlowInv, WireOK
  <2>2. WireNew'
    BY <1>1, <1>2, <1>3 DEF FlowInv, WireNew
  <2>. QED BY <2>1, <2>2
<1>5. Ranked'
  <2>1. PICK rank \in [Sessions \X Nat -> Nat], top \in Nat : RankOK(rank, top)
    BY DEF FlowInv, Ranked
  <2>2. RankOK(rank, top)'
    BY <1>1, <1>3, <2>1, ZenonT(30) DEF RankOK
  <2>. QED BY <2>2 DEF Ranked
<1>6. LinkOK'
  BY <1>1, <1>2, <1>3 DEF FlowInv, LinkOK
<1>7. NoneMissing'
  <2>. SUFFICES ASSUME NEW t \in Healthy', NEW l \in Len(recv[t]) + 1 .. sent[t]
                PROVE  InLink(t, l) \/ OnWire(t, l)'
    BY <1>1, <1>2 DEF FlowInv, NoneMissing, InLink
  <2>1. t \in Healthy /\ t \in Sessions /\ Len(recv[t]) \in Nat /\ sent[t] \in Nat
    BY <1>2, ElementFacts DEF Healthy, TypeOK
  <2>2. Turn(l) \in Chans
    BY <2>1, TurnType
  <2>3. InLink(t, l) \/ OnWire(t, l)
    BY <2>1 DEF FlowInv, NoneMissing
  <2>4. ASSUME OnWire(t, l) PROVE OnWire(t, l)'
    <3>1. PICK j \in 1 .. Len(wire[Turn(l)]) : wire[Turn(l)][j] = <<t, l>>
      BY <2>4 DEF OnWire
    <3>2. Turn(l) # c
      BY <1>2, <3>1
    <3>. QED BY <1>1, <2>2, <3>1, <3>2 DEF OnWire
  <2>. QED BY <2>3, <2>4
<1>. QED BY <1>1, <1>4, <1>5, <1>6, <1>7 DEF FlowInv, GoneDone

\* A session that is not healthy any more is no matter of the invariant.
LEMMA FewerHealthy ==
  ASSUME TypeOK, FlowInv, UNCHANGED <<sent, wire, recv>>,
         Healthy' \subseteq Healthy, \A t \in Healthy' : link'[t] = link[t],
         GoneDone'
  PROVE  FlowInv'
<1>1. \A t \in Healthy' : \A k :
        (InLink(t, k)' <=> InLink(t, k)) /\ (OnWire(t, k)' <=> OnWire(t, k))
  BY DEF InLink, OnWire
<1>2. WireOK' /\ WireNew'
  BY Zenon DEF FlowInv, WireOK, WireNew
<1>3. LinkOK'
  BY DEF FlowInv, LinkOK
<1>4. NoneMissing'
  BY <1>1 DEF FlowInv, NoneMissing
<1>5. Ranked'
  BY ZenonT(30) DEF FlowInv, Ranked, RankOK
<1>. QED BY <1>2, <1>3, <1>4, <1>5 DEF FlowInv

\* Every step keeps the order of the blocks.
LEMMA FlowStep == TypeOK /\ FlowInv /\ [Next]_vars => FlowInv'
<1>. SUFFICES ASSUME TypeOK, FlowInv, [Next]_vars PROVE FlowInv'
  OBVIOUS
<1>1. ASSUME UNCHANGED <<sent, server>> PROVE FlowInv'
  <2>1. UNCHANGED <<sent, wire, recv, link, lost, out, gone>>
    BY <1>1 DEF server
  <2>2. Healthy' = Healthy /\ GoneDone'
    BY <2>1 DEF Healthy, FlowInv, GoneDone
  <2>. QED BY <2>1, <2>2, FewerHealthy
<1>2. ASSUME NEW s \in Sessions, NEW c \in Chans, SayID(s, c) PROVE FlowInv'
  BY <1>1, <1>2 DEF SayID
<1>3. ASSUME NEW s \in Sessions,
             Establish(s) \/ TellClose(s) \/ StartWrite(s) \/ FailWrite(s)
      PROVE  FlowInv'
  BY <1>1, <1>3 DEF Establish, TellClose, StartWrite, FailWrite
<1>4. ASSUME NEW s \in Sessions, CloseWsWriter(s) PROVE FlowInv'
  BY <1>1, <1>4 DEF CloseWsWriter
<1>5. ASSUME NEW c \in Chans, HeartBeat(c) PROVE FlowInv'
  BY <1>1, <1>5 DEF HeartBeat
<1>6. ASSUME CloseAll PROVE FlowInv'
  BY <1>1, <1>6 DEF CloseAll
<1>7. ASSUME NEW s \in Sessions, Unstick(s) \/ SendTimeout(s) PROVE FlowInv'
  <2>1. /\ UNCHANGED <<sent, wire, recv, link, lost, gone>>
        /\ out[s] # "done" /\ \A t \in Sessions \ {s} : out'[t] = out[t]
    BY <1>7 DEF Unstick, SendTimeout, client, TypeOK
  <2>2. Healthy' \subseteq Healthy
    BY <2>1 DEF Healthy
  <2>3. s \notin gone /\ gone \subseteq Sessions
    BY <2>1 DEF FlowInv, GoneDone, TypeOK
  <2>4. GoneDone'
    BY <2>1, <2>3 DEF FlowInv, GoneDone
  <2>. QED BY <2>1, <2>2, <2>4, FewerHealthy
<1>8. ASSUME NEW s \in Sessions, RemoveAll(s) PROVE FlowInv'
  <2>1. /\ UNCHANGED <<sent, wire, recv, lost>> /\ gone' = gone \union {s}
        /\ out' = [out EXCEPT ![s] = "done"]
    BY <1>8 DEF RemoveAll, client
  <2>2. Healthy' = Healthy \ {s} /\ Healthy \subseteq Sessions
    BY <2>1 DEF Healthy, TypeOK
  <2>3. \A t \in Healthy' : link'[t] = link[t]
    BY <1>8, <2>2 DEF RemoveAll, TypeOK
  <2>4. GoneDone'
    BY <2>1 DEF FlowInv, GoneDone, TypeOK
  <2>. QED BY <2>1, <2>2, <2>3, <2>4, FewerHealthy
<1>9. ASSUME NEW c \in Chans, Drop(c) PROVE FlowInv'
  <2>1. /\ wire[c] # << >> /\ wire' = [wire EXCEPT ![c] = Tail(@)]
        /\ UNCHANGED <<sent, recv, link, out, gone, lost>>
    BY <1>9 DEF Drop, client
  <2>2. Healthy' = Healthy
    BY <2>1 DEF Healthy
  <2>3. Owner(c) \notin Healthy
    BY <1>9 DEF Drop, Healthy, FlowInv, GoneDone
  <2>. QED BY <2>1, <2>2, <2>3, DropFlow, Zenon
<1>10. ASSUME NEW c \in Chans, Expire(c) PROVE FlowInv'
  <2>1. /\ wire[c] # << >> /\ wire' = [wire EXCEPT ![c] = Tail(@)]
        /\ UNCHANGED <<sent, recv, link, out, gone>>
        /\ lost' = lost \union {Owner(c)}
    BY <1>10 DEF Expire, Blocked, client
  <2>2. Healthy' \subseteq Healthy /\ Owner(c) \notin Healthy'
    BY <2>1 DEF Healthy
  <2>. QED BY <2>1, <2>2, DropFlow, Zenon
<1>11. CASE UNCHANGED vars
  BY <1>1, <1>11 DEF vars, server
<1>. QED
  BY <1>2, <1>3, <1>4, <1>5, <1>6, <1>7, <1>8, <1>9, <1>10, <1>11,
     EndWriteFlow, StoreFlow, CollectFlow, CutFlow
     DEF Next, SessionStep, ReaderStep

-----------------------------------------------------------------------------
(* The theorems.                                                           *)

\* No circular wait: of the blocks that the readers of C have in hand take the
\* one that was written first.  Its session waits for an older block, which is
\* on a websocket; on one of C it would be behind a block in hand.
LEMMA CircleFree == TypeOK /\ FlowInv => NoCircularWait
<1>. SUFFICES ASSUME TypeOK, FlowInv,
                     NEW C \in (SUBSET Chans) \ {{}}, \A c \in C : Waiting(c)
              PROVE  \E c \in C : /\ NextTurn(Owner(c)) \notin C
                                  /\ wire[NextTurn(Owner(c))] # << >>
  BY DEF NoCircularWait
<1>1. PICK rank \in [Sessions \X Nat -> Nat], top \in Nat : RankOK(rank, top)
  BY DEF FlowInv, Ranked
<1>2. \A c \in Chans : /\ wire[c] \in Seq(Sessions \X Nat) /\ Len(wire[c]) \in Nat
                       /\ \A j \in 1 .. Len(wire[c]) : wire[c][j] \in Sessions \X Nat
                       /\ wire[c] # << >> => Head(wire[c]) = wire[c][1] /\ Len(wire[c]) > 0
  <2>. TAKE c \in Chans
  <2>1. wire[c] \in Seq(Sessions \X Nat)
    BY DEF TypeOK
  <2>. QED BY <2>1, ElementFacts, TailFacts
<1>. DEFINE Ranks == {rank[Head(wire[c])] : c \in C}
<1>3. \A c \in C : wire[c] # << >> /\ c \in Chans /\ Head(wire[c]) \in Sessions \X Nat
  BY <1>2 DEF Waiting, Blocked
<1>4. Ranks \subseteq Nat /\ Ranks # {}
  BY <1>1, <1>3
<1>5. PICK c \in C : \A d \in C : rank[Head(wire[c])] <= rank[Head(wire[d])]
  <2>. HIDE DEF Ranks
  <2>1. \E x \in Ranks : \A y \in Ranks : x <= y
    BY <1>4, LeastNat, Zenon
  <2>. QED BY <2>1 DEF Ranks
<1>6. PICK s \in Sessions, k \in Nat : Head(wire[c]) = <<s, k>>
  BY <1>3
<1>7. Owner(c) = s /\ wire[c][1] = <<s, k>> /\ 1 \in 1 .. Len(wire[c]) /\ c \in Chans
  BY <1>2, <1>3, <1>6 DEF Owner
<1>8. Len(link[s][c]) >= Cap /\ s \notin Ill /\ NextLink(s) = << >>
  BY <1>7 DEF Waiting, Blocked, Full
<1>9. s \in Healthy
  BY <1>8 DEF Ill, Healthy
<1>10. PICK n \in Nat : n = Len(recv[s]) + 1
  BY ElementFacts DEF TypeOK
<1>11. PICK d \in Chans : d = Turn(n)
  BY <1>10, TurnType
<1>12. k \in 1 .. sent[s] /\ sent[s] \in Nat
  <2>1. wire[c][1][1] = s /\ wire[c][1][2] = k
    BY <1>7
  <2>. QED BY <1>7, <2>1, Zenon DEF FlowInv, WireOK, TypeOK
<1>13. n < k
  <2>1. 1 \in 1 .. Len(link[s][c])
    BY <1>7, <1>8, MuxAssumption, ElementFacts DEF TypeOK
  <2>2. wire[c][1][1] = s /\ wire[c][1][2] = k
    BY <1>7
  <2>3. link[s][c][1] < k /\ link[s][c][1] \in Len(recv[s]) + 1 .. sent[s]
    BY <1>7, <1>9, <2>1, <2>2, ZenonT(30) DEF FlowInv, LinkOK
  <2>. QED BY <1>10, <1>12, <2>3
<1>14. InLink(s, n) \/ OnWire(s, n)
  BY <1>9, <1>10, <1>12, <1>13 DEF FlowInv, NoneMissing
<1>15. NextTurn(s) = d /\ link[s][d] = << >>
  BY <1>8, <1>10, <1>11 DEF NextTurn, NextLink
<1>16. PICK j \in 1 .. Len(wire[d]) : wire[d][j] = <<s, n>>
  <2>1. ~InLink(s, n)
    BY <1>11, <1>15, EmptySeq DEF InLink
  <2>. QED BY <1>11, <1>14, <2>1 DEF OnWire
<1>17. wire[d] # << >> /\ 1 \in 1 .. Len(wire[d]) /\ Head(wire[d]) = wire[d][1]
  BY <1>2, <1>16, ElementFacts
<1>18. ASSUME d \in C PROVE FALSE
  <2>1. n \in 1 .. sent[s]
    <3>1. Len(recv[s]) \in Nat
      BY ElementFacts DEF TypeOK
    <3>. QED BY <1>10, <1>12, <1>13, <3>1
  <2>2. rank[<<s, n>>] < rank[<<s, k>>]
    BY <1>1, <1>12, <1>13, <2>1 DEF RankOK
  <2>3. 1 < j => rank[wire[d][1]] < rank[<<s, n>>]
    BY <1>1, <1>16, <1>17, ZenonT(30) DEF RankOK
  <2>4. rank[Head(wire[d])] \in Nat /\ rank[<<s, n>>] \in Nat /\ rank[<<s, k>>] \in Nat
    BY <1>3, <1>18
  <2>5. rank[Head(wire[d])] <= rank[<<s, n>>]
    <3>1. CASE j = 1
      <4>1. Head(wire[d]) = <<s, n>>
        BY <1>16, <1>17, <3>1
      <4>. QED BY <2>4, <4>1
    <3>2. CASE 1 < j
      BY <1>17, <2>3, <2>4, <3>2
    <3>. QED BY <1>16, <3>1, <3>2
  <2>6. rank[<<s, k>>] <= rank[Head(wire[d])]
    BY <1>5, <1>6, <1>18, Zenon
  <2>. QED BY <2>2, <2>4, <2>5, <2>6
<1>. QED BY <1>7, <1>15, <1>17, <1>18

MuxInv == TypeOK /\ FlowInv /\ OwnStream

\* At the start nothing is on its way.
LEMMA MuxInit == Init => MuxInv
<1>. SUFFICES ASSUME Init PROVE MuxInv
  OBVIOUS
<1>1. TypeOK
  BY EmptySeq, MuxAssumption DEF Init, TypeOK
<1>2. /\ \A c \in Chans : Len(wire[c]) = 0
      /\ \A s \in Sessions : sent[s] = 0 /\ Len(recv[s]) = 0
      /\ \A s \in Sessions, c \in Chans : Len(link[s][c]) = 0
  BY EmptySeq DEF Init
<1>3. WireOK /\ WireNew /\ LinkOK /\ NoneMissing
  <2>1. WireOK /\ WireNew
    BY <1>2 DEF WireOK, WireNew
  <2>2. LinkOK
    BY <1>2 DEF LinkOK, Healthy
  <2>3. \A s \in Healthy : sent[s] = 0 /\ Len(recv[s]) = 0
    BY <1>2, Zenon DEF Healthy
  <2>4. 0 + 1 .. 0 = {} /\ 0 <= 0
    OBVIOUS
  <2>5. NoneMissing
    BY <2>3, <2>4, Zenon DEF NoneMissing
  <2>. QED BY <2>1, <2>2, <2>5, Zenon
<1>4. Ranked
  <2>1. RankOK([m \in Sessions \X Nat |-> 0], 0)
    BY <1>2 DEF RankOK
  <2>2. [m \in Sessions \X Nat |-> 0] \in [Sessions \X Nat -> Nat]
    OBVIOUS
  <2>. QED BY <2>1, <2>2 DEF Ranked
<1>5. GoneDone /\ OwnStream
  BY DEF Init, GoneDone, OwnStream
<1>. QED BY <1>1, <1>3, <1>4, <1>5 DEF FlowInv, MuxInv

\* Every step of the sessions, the websockets and the faults keeps the invariant.
LEMMA MuxStep == MuxInv /\ [Next]_vars => MuxInv'
<1>. SUFFICES ASSUME MuxInv, [Next]_vars PROVE MuxInv'
  OBVIOUS
<1>1. TypeOK' /\ FlowInv'
  BY TypeStep, FlowStep DEF MuxInv
<1>2. OwnStream'
  <2>1. CASE recv' = recv /\ lost \subseteq lost'
    BY <2>1 DEF MuxInv, OwnStream
  <2>2. ASSUME NEW s \in Sessions, Collect(s) PROVE OwnStream'
    <3>. SUFFICES ASSUME s \notin lost
                  PROVE  \A i \in DOMAIN recv'[s] : recv'[s][i] = i
      BY <2>2 DEF Collect, MuxInv, OwnStream, TypeOK
    <3>1. s \in Healthy /\ Flowing(s)
      BY <2>2 DEF Collect, Flowing, Healthy
    <3>2. Head(NextLink(s)) = Len(recv[s]) + 1
      BY <3>1, HeadIsNext DEF MuxInv
    <3>3. recv[s] \in Seq(Nat) /\ Len(recv[s]) \in Nat
      BY ElementFacts DEF MuxInv, TypeOK
    <3>4. recv'[s] = Append(recv[s], Len(recv[s]) + 1)
      BY <2>2, <3>2 DEF Collect, MuxInv, TypeOK
    <3>5. \A i \in 1 .. Len(recv[s]) : recv[s][i] = i
      <4>1. DOMAIN recv[s] = 1 .. Len(recv[s])
        BY <3>3, LenProperties
      <4>. QED BY <4>1, Zenon DEF MuxInv, OwnStream
    <3>. QED BY <3>3, <3>4, <3>5, AppendFacts
  <2>3. \/ recv' = recv /\ lost \subseteq lost'
        \/ \E s \in Sessions : Collect(s)
    BY DEF Next, SessionStep, ReaderStep, SayID, Establish, TellClose, HeartBeat,
           CloseAll, StartWrite, EndWrite, FailWrite, CloseWsWriter, Unstick,
           SendTimeout, RemoveAll, Store, Drop, Expire, ReadError, server, vars
  <2>. QED BY <2>1, <2>2, <2>3
<1>. QED BY <1>1, <1>2 DEF MuxInv

\* Types and the order of the blocks, on the websockets and in the links.
THEOREM MuxInvariant == Spec => []MuxInv
<1>. QED BY MuxInit, MuxStep, PTL DEF Spec

\* Readers never wait for one another in a circle, nor for a block that is not
\* on its way, for any number of sessions and websockets and any capacity.
THEOREM NeverCircular == Spec => []NoCircularWait
<1>1. MuxInv => NoCircularWait
  BY CircleFree DEF MuxInv
<1>. QED BY <1>1, MuxInvariant, PTL

\* A session that lost no block has received its own blocks in order.
THEOREM StreamsStayApart == Spec => []OwnStream
<1>1. MuxInv => OwnStream
  BY DEF MuxInv
<1>. QED BY <1>1, MuxInvariant, PTL
=============================================================================
