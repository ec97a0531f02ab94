-------------------------- MODULE ServerConnProofs --------------------------
(***************************************************************************)
(* The second part of the proof about ServerConn, and its theorems, for    *)
(* every number of websockets: the two Sends start, the link is sent once, *)
(* no buffer is closed twice, everything that was made is released, and    *)
(* the dial finds its queue unless the session was closed.                 *)
(***************************************************************************)
EXTENDS ServerConnSteps

USE ServerAssumption DEF readVars, hubVars, sendVars, estVars, poolVars, Running

-----------------------------------------------------------------------------
(* Starting, removing and counting, one step at a time.                    *)

\* A Send goroutine that runs stays spawned.
LEMMA SendKeeps ==
  ASSUME TypeOK, NEW k \in Kinds, NEW g \in Objs, NEW x \in Spawners,
         NEW p \in SendPc \ {"none"}, send[k][g][x] # "none",
         send' = [send EXCEPT ![k][g][x] = p]
  PROVE  \A j \in Kinds, h \in Objs, y \in Spawners :
           (send'[j][h][y] = "none") <=> (send[j][h][y] = "none")
BY SendSet

\* Steps that start no link.
LEMMA LinkStartsFrame ==
  ASSUME LinkStarts, lConn' = lConn, counter' = counter,
         ePc \notin {"none", "dial", "tryLink"} => ePc' \notin {"none", "dial", "tryLink"},
         \A g \in Objs, x \in Spawners :
           (send'["link"][g][x] = "none") <=> (send["link"][g][x] = "none")
  PROVE  LinkStarts'
<1>1. 1 \in Objs /\ "try" \in Spawners /\ "add" \in Spawners
  BY ServerAssumption DEF Objs, Spawners
<1>. QED BY <1>1 DEF LinkStarts, Spawned

\* Steps that neither complete a queue nor look for one.
LEMMA QueueStartsFrame ==
  ASSUME QueueStarts, writers' = writers, writer' = writer,
         ePc' = "get" /\ cur'["queue"] = 1 => ePc = "get" /\ cur["queue"] = 1,
         ePc # "none" => ePc' # "none",
         \A x \in Spawners : send["queue"][1][x] # "none" => send'["queue"][1][x] # "none"
  PROVE  QueueStarts'
BY DEF QueueStarts, Spawned

\* The last of the Hi messages and the dial starts link.Send, once.
LEMMA LinkStartsStep ==
  ASSUME TypeOK, Ordered, Opening, Held, Sorting, Owners, LinkStarts,
         [Next]_vars
  PROVE  LinkStarts'
<1>1. ASSUME NEW c \in Chans, QueueAdd(c) PROVE LinkStarts'
  <2>1. Entry("queue") \in Objs /\ "queue" \in Kinds
    BY <1>1, TakeFacts, EntryOfHi DEF QueueAdd, Pending, HiLeft, Kinds
  <2>2. \A g \in Objs, x \in Spawners : send'["link"][g][x] = send["link"][g][x]
    BY <1>1, <2>1, SendSet, Zenon DEF QueueAdd, Spawn, Kinds, Spawners, SendPc
  <2>. QED BY <1>1, <2>2, LinkStartsFrame DEF QueueAdd
<1>2. ASSUME NEW c \in Chans, LinkAdd(c) PROVE LinkStarts'
  <2> DEFINE g == Entry("link")
  <2>1. g \in Objs /\ 1 \in Objs /\ "link" \in Kinds
    BY <1>2, EntryOfHi DEF LinkAdd, Pending, Kinds, Objs
  <2>2. /\ lConn' = lConn /\ ePc' = ePc
        /\ counter' = [counter EXCEPT ![g] = @ + 1]
        /\ counter \in [Objs -> 0 .. N]
        /\ send' = IF LinkReady(g, lConn, counter[g] + 1)
                     THEN [send EXCEPT !["link"][g]["add"] = "check"] ELSE send
    BY <1>2 DEF LinkAdd, Spawn, TypeOK
  <2> HIDE DEF g
  <2>3. \A h \in Objs : /\ counter[h] \in Nat
                       /\ counter'[h] = IF h = g THEN counter[h] + 1 ELSE counter[h]
    BY <2>1, <2>2
  <2>4. lConn # {} => sorted["link"] = {1}
    BY DEF LinkStarts, Sorting
  <2>5. CASE LinkReady(g, lConn, counter[g] + 1)
    <3>1. g = 1 /\ lConn = {1} /\ counter[1] + 1 = N
      BY <2>1, <2>3, <2>4, <2>5 DEF LinkReady, SortedLen, LinkStarts
    <3>2. /\ send'["link"][1]["add"] = "check"
          /\ \A h \in Objs, x \in Spawners :
               h # 1 \/ x # "add" => send'["link"][h][x] = send["link"][h][x]
      <4>1. send' = [send EXCEPT !["link"][1]["add"] = "check"] /\ "add" \in Spawners
        BY <2>2, <2>5, <3>1 DEF Spawners
      <4>. QED BY <2>1, <4>1 DEF TypeOK
    <3>3. send["link"][1]["try"] = "none"
      BY <2>1, <2>3, <3>1 DEF LinkStarts
    <3>. QED BY <2>1, <2>2, <3>1, <3>2, <3>3 DEF LinkStarts, Spawned, Spawners
  <2>6. CASE ~LinkReady(g, lConn, counter[g] + 1)
    <3>1. send' = send
      BY <2>2, <2>6
    <3>2. 1 \in lConn /\ counter'[1] = N => counter[1] = N
      BY <2>1, <2>3, <2>4, <2>6 DEF LinkReady, SortedLen, LinkStarts
    <3>3. counter[1] >= N => counter'[1] >= N
      BY <2>1, <2>3
    <3>. QED BY <2>2, <3>1, <3>2, <3>3 DEF LinkStarts, Spawned
  <2>. QED BY <2>5, <2>6
<1>3. CASE EstLink
  <2>1. ePc = "none"
    BY <1>3 DEF EstLink, Ordered
  <2>. QED BY <1>3, <2>1, LinkStartsFrame DEF EstLink
<1>4. CASE TrySendLink
  <2>1. cur["link"] = 1 /\ sorted["link"] = {1} /\ lConn = {}
    BY <1>4 DEF TrySendLink, TypeOK, Opening, Unpooled, Held, Sorting, LinkStarts, Kinds
  <2>2. 1 \in Objs /\ "link" \in Kinds /\ "try" \in Spawners /\ "add" \in Spawners
    BY DEF Objs, Kinds, Spawners
  <2>3. /\ lConn' = {1} /\ ePc' = "pool" /\ counter' = counter /\ counter[1] \in Nat
        /\ send' = IF counter[1] = N THEN [send EXCEPT !["link"][1]["try"] = "check"] ELSE send
    BY <1>4, <2>1, <2>2 DEF TrySendLink, Spawn, LinkReady, SortedLen, TypeOK
  <2>4. \A g \in Objs, x \in Spawners : send["link"][g][x] = "none"
    BY <2>1 DEF LinkStarts, Spawned
  <2>5. CASE counter[1] = N
    <3>1. /\ send'["link"][1]["try"] = "check"
          /\ \A g \in Objs, x \in Spawners :
               g # 1 \/ x # "try" => send'["link"][g][x] = "none"
      <4>1. send' = [send EXCEPT !["link"][1]["try"] = "check"]
        BY <2>3, <2>5
      <4>. QED BY <2>2, <2>4, <4>1 DEF TypeOK
    <3>. QED BY <2>2, <2>3, <2>5, <3>1 DEF LinkStarts, Spawned
  <2>6. CASE counter[1] # N
    BY <2>2, <2>3, <2>4, <2>6 DEF LinkStarts, Spawned
  <2>. QED BY <2>5, <2>6
<1>5. CASE TrySendQueue
  <2>1. cur["queue"] # 0 => cur["queue"] \in Objs
    BY DEF TypeOK, Kinds, Objs
  <2>2. \A g \in Objs, x \in Spawners : send'["link"][g][x] = send["link"][g][x]
    BY <1>5, <2>1, SendSet DEF TrySendQueue, Spawn, Kinds, Spawners, SendPc
  <2>. QED BY <1>5, <2>2, LinkStartsFrame DEF TrySendQueue
<1>6. ASSUME NEW k \in Kinds, NEW g \in Objs, NEW x \in Spawners, SendCheck(k, g, x)
      PROVE  LinkStarts'
  <2>1. \A h \in Objs, y \in Spawners :
          (send'["link"][h][y] = "none") <=> (send["link"][h][y] = "none")
    BY <1>6, SendKeeps DEF SendCheck, SendPc, Kinds
  <2>. QED BY <1>6, <2>1, LinkStartsFrame DEF SendCheck
<1>7. ASSUME NEW k \in Kinds, NEW g \in Objs, NEW x \in Spawners, SendStart(k, g, x)
      PROVE  LinkStarts'
  <2>1. \A h \in Objs, y \in Spawners :
          (send'["link"][h][y] = "none") <=> (send["link"][h][y] = "none")
    BY <1>7, SendKeeps DEF SendStart, SendPc, Kinds
  <2>. QED BY <1>7, <2>1, LinkStartsFrame DEF SendStart
<1>8. ASSUME NEW k \in Kinds, NEW g \in Objs, NEW x \in Spawners, SendReturn(k, g, x)
      PROVE  LinkStarts'
  <2>1. \A h \in Objs, y \in Spawners :
          (send'["link"][h][y] = "none") <=> (send["link"][h][y] = "none")
    BY <1>8, SendKeeps DEF SendReturn, SendPc, Kinds
  <2>. QED BY <1>8, <2>1, LinkStartsFrame DEF SendReturn
<1>9. ASSUME NEW k \in Kinds, NEW g \in Objs, NEW x \in Spawners, SendDone(k, g, x)
      PROVE  LinkStarts'
  <2>1. \A h \in Objs, y \in Spawners :
          (send'["link"][h][y] = "none") <=> (send["link"][h][y] = "none")
    BY <1>9, SendKeeps DEF SendDone, SendPc, Kinds
  <2>. QED BY <1>9, <2>1, LinkStartsFrame DEF SendDone
<1>10.
  ASSUME \/ UNCHANGED vars \/ EstQueue \/ CloseProxyConn \/ HubClose
         \/ ReaderCheck \/ ReaderMark \/ ReaderRemoveAll \/ ReaderRemove
         \/ DialFails \/ Dial \/ AddNewProxy \/ GetWriter \/ RemoveProxy
         \/ EstClose \/ EstMark \/ EstRemoveAll \/ EstRemove \/ TellClosed
         \/ WaiterGet
         \/ (\E k \in Kinds, g \in Objs, x \in Spawners : SendPanics(k, g, x))
  PROVE  LinkStarts'
  <2>1. UNCHANGED <<lConn, counter, send>>
    BY <1>10, Zenon DEF EstQueue, Take, SetSort, Hold, CloseProxyConn, HubClose,
      ReaderCheck, ReaderCloseEnds, ReaderMark, ReaderRemoveAll, RemoveAll,
      CloseEntry, ReaderRemove, Remove, DialFails, Dial, AddNewProxy,
      GetWriter, RemoveProxy, EstClose, EstMark, EstRemoveAll, EstRemove,
      TellClosed, WaiterGet, SendPanics, vars
  <2>2. ePc \notin {"none", "dial", "tryLink"} => ePc' \notin {"none", "dial", "tryLink"}
    BY <1>10, ZenonT(30) DEF EstQueue, Take, SetSort, Hold, CloseProxyConn,
      HubClose, ReaderCheck, ReaderCloseEnds, ReaderMark, ReaderRemoveAll,
      RemoveAll, CloseEntry, ReaderRemove, Remove, DialFails, Dial,
      AddNewProxy, GetWriter, RemoveProxy, EstClose, EstMark, EstRemoveAll,
      EstRemove, TellClosed, WaiterGet, SendPanics, vars
  <2>. QED BY <2>1, <2>2, LinkStartsFrame
<1>. QED BY <1>1, <1>2, <1>3, <1>4, <1>5, <1>6, <1>7, <1>8, <1>9, <1>10
   DEF Next, ReaderStep, MasterStep, EstablishStep, SendStep

\* The last of the Hi messages, or TrySend, starts queue.Send.
LEMMA QueueStartsStep ==
  ASSUME TypeOK, Ordered, Opening, Held, Sorting, Owners, QueueStarts,
         [Next]_vars
  PROVE  QueueStarts'
<1>1. ASSUME NEW c \in Chans, QueueAdd(c) PROVE QueueStarts'
  <2> DEFINE g == Entry("queue")
             w == writers[g] \union {c}
  <2>1. /\ g \in Objs /\ 1 \in Objs /\ "queue" \in Kinds /\ "add" \in Spawners
        /\ c = 1 => HiLeft(1)
    BY <1>1, TakeFacts, EntryOfHi DEF QueueAdd, Pending, HiLeft, Kinds, Objs, Spawners
  <2>2. /\ ePc' = ePc /\ writer' = writer /\ cur'["queue"] = g
        /\ writers' = [writers EXCEPT ![g] = w] /\ writers \in [Objs -> SUBSET Chans]
        /\ send' = IF QueueReady(g, w) THEN [send EXCEPT !["queue"][g]["add"] = "check"] ELSE send
    BY <1>1, <2>1, HoldFacts, Zenon DEF QueueAdd, Spawn, TypeOK
  <2>3. c = 1 => g = 1
    BY <2>1, EntryOfEst DEF Ordered
  <2>4. ePc # "none" /\ w = Chans /\ g = 1 => QueueReady(g, w)
    BY ChansFinite DEF QueueReady, SortedLen, Sorting
  <2> HIDE DEF g, w
  <2>5. QueueReady(g, w) => send'["queue"][g]["add"] = "check"
    BY <2>1, <2>2 DEF TypeOK
  <2>6. \A x \in Spawners : send["queue"][1][x] # "none" => send'["queue"][1][x] # "none"
    BY <2>1, <2>2 DEF TypeOK
  <2>7. /\ writers'[g] = w
        /\ \A h \in Objs : h # g => writers'[h] = writers[h]
    BY <2>1, <2>2
  <2>8. 1 \in w <=> (1 \in writers[g] \/ c = 1)
    BY DEF w
  <2>9. g = 1 /\ ePc # "none" /\ w = Chans => \E x \in Spawners : send'["queue"][1][x] # "none"
    BY <2>1, <2>4, <2>5
  <2>10. \A h \in Objs : 1 \in writers'[h] => h = 1
    BY <2>3, <2>7, <2>8 DEF QueueStarts
  <2>. QED BY <2>1, <2>2, <2>6, <2>7, <2>9, <2>10 DEF QueueStarts, Spawned
<1>2. ASSUME NEW c \in Chans, LinkAdd(c) PROVE QueueStarts'
  <2>1. Entry("link") \in Objs /\ 1 \in Objs /\ "link" \in Kinds
    BY <1>2, EntryOfHi DEF LinkAdd, Pending, Kinds, Objs
  <2>2. \A x \in Spawners : send'["queue"][1][x] = send["queue"][1][x]
    BY <1>2, <2>1, SendSet, Zenon DEF LinkAdd, Spawn, Kinds, Spawners, SendPc
  <2>3. cur'["queue"] = cur["queue"]
    BY <1>2 DEF LinkAdd, Hold, TypeOK, Kinds
  <2>. QED BY <1>2, <2>2, <2>3, QueueStartsFrame DEF LinkAdd
<1>3. CASE EstQueue
  <2>1. ePc = "none" /\ ePc' \in {"none", "dial"}
    BY <1>3, TakeFacts DEF EstQueue, Ordered, EstLeft, Chans
  <2>. QED BY <1>3, <2>1, QueueStartsFrame DEF EstQueue
<1>4. CASE EstLink
  <2>1. ePc = "none" /\ ePc' \in {"none", "dial"}
    BY <1>4 DEF EstLink, Ordered, EstLeft, Chans
  <2>. QED BY <1>4, <2>1, QueueStartsFrame DEF EstLink
<1>5. CASE ReaderRemoveAll
  <2>1. cur'["queue"] = cur["queue"]
    BY <1>5, CloseFacts DEF ReaderRemoveAll, RemoveAll, Kinds
  <2>. QED BY <1>5, <2>1, QueueStartsFrame DEF ReaderRemoveAll, RemoveAll
<1>6. CASE ReaderRemove
  <2>1. cur'["queue"] = 0
    BY <1>6, CloseFacts DEF ReaderRemove, Remove, Kinds
  <2>. QED BY <1>6, <2>1, QueueStartsFrame DEF ReaderRemove, Remove
<1>7. CASE TrySendLink
  <2>1. (cur["link"] # 0 => cur["link"] \in Objs) /\ 1 \in Objs
    BY DEF TypeOK, Kinds, Objs
  <2>2. \A x \in Spawners : send'["queue"][1][x] = send["queue"][1][x]
    BY <1>7, <2>1, SendSet DEF TrySendLink, Spawn, Kinds, Spawners, SendPc
  <2>. QED BY <1>7, <2>2, QueueStartsFrame DEF TrySendLink
<1>8. CASE TrySendQueue
  <2> DEFINE g == cur["queue"]
  <2>1. (g # 0 => g \in Objs) /\ 1 \in Objs /\ "queue" \in Kinds /\ "try" \in Spawners
    BY DEF TypeOK, Kinds, Objs, Spawners
  <2>2. /\ ePc = "tryQueue" /\ ePc' = "get" /\ UNCHANGED <<writers, writer, cur>>
        /\ send' = IF g # 0 /\ QueueReady(g, writers[g])
                     THEN [send EXCEPT !["queue"][g]["try"] = "check"] ELSE send
    BY <1>8 DEF TrySendQueue, Spawn
  <2>3. \A x \in Spawners : send["queue"][1][x] # "none" => send'["queue"][1][x] # "none"
    BY <2>1, <2>2 DEF TypeOK
  <2>4. g = 1 /\ writers[1] = Chans => QueueReady(g, writers[g])
    BY <2>2, ChansFinite DEF QueueReady, SortedLen, Sorting
  <2>5. g = 1 /\ writers[1] = Chans => send'["queue"][1]["try"] # "none"
    BY <2>1, <2>2, <2>4 DEF TypeOK
  <2>. QED BY <2>1, <2>2, <2>3, <2>5 DEF QueueStarts, Spawned
<1>9. CASE GetWriter
  BY <1>9 DEF GetWriter, QueueStarts, Spawned
<1>10. CASE EstRemoveAll
  <2>1. cur'["queue"] = cur["queue"]
    BY <1>10, CloseFacts DEF EstRemoveAll, RemoveAll, Kinds
  <2>. QED BY <1>10, <2>1, QueueStartsFrame DEF EstRemoveAll, RemoveAll
<1>11. CASE EstRemove
  <2>1. cur'["queue"] = 0
    BY <1>11, CloseFacts DEF EstRemove, Remove, Kinds
  <2>. QED BY <1>11, <2>1, QueueStartsFrame DEF EstRemove, Remove
<1>12. ASSUME NEW k \in Kinds, NEW g \in Objs, NEW x \in Spawners, SendCheck(k, g, x)
      PROVE  QueueStarts'
  <2>1. \A y \in Spawners : (send'["queue"][1][y] = "none") <=> (send["queue"][1][y] = "none")
    BY <1>12, SendKeeps DEF SendCheck, SendPc, Kinds, Objs
  <2>. QED BY <1>12, <2>1, QueueStartsFrame DEF SendCheck
<1>13. ASSUME NEW k \in Kinds, NEW g \in Objs, NEW x \in Spawners, SendStart(k, g, x)
      PROVE  QueueStarts'
  <2>1. \A y \in Spawners : (send'["queue"][1][y] = "none") <=> (send["queue"][1][y] = "none")
    BY <1>13, SendKeeps DEF SendStart, SendPc, Kinds, Objs
  <2>. QED BY <1>13, <2>1, QueueStartsFrame DEF SendStart
<1>14. ASSUME NEW k \in Kinds, NEW g \in Objs, NEW x \in Spawners, SendReturn(k, g, x)
      PROVE  QueueStarts'
  <2>1. \A y \in Spawners : (send'["queue"][1][y] = "none") <=> (send["queue"][1][y] = "none")
    BY <1>14, SendKeeps DEF SendReturn, SendPc, Kinds, Objs
  <2>. QED BY <1>14, <2>1, QueueStartsFrame DEF SendReturn
<1>15. ASSUME NEW k \in Kinds, NEW g \in Objs, NEW x \in Spawners, SendDone(k, g, x)
      PROVE  QueueStarts'
  <2>1. \A y \in Spawners : (send'["queue"][1][y] = "none") <=> (send["queue"][1][y] = "none")
    BY <1>15, SendKeeps DEF SendDone, SendPc, Kinds, Objs
  <2>. QED BY <1>15, <2>1, QueueStartsFrame DEF SendDone
<1>16.
  ASSUME \/ UNCHANGED vars \/ CloseProxyConn \/ HubClose \/ ReaderCheck
         \/ ReaderMark \/ DialFails \/ Dial \/ AddNewProxy \/ RemoveProxy
         \/ EstClose \/ EstMark \/ TellClosed \/ WaiterGet
         \/ (\E k \in Kinds, g \in Objs, x \in Spawners : SendPanics(k, g, x))
  PROVE  QueueStarts'
  <2>1. UNCHANGED <<writers, writer, cur, send>>
    BY <1>16 DEF CloseProxyConn, Take, HubClose, ReaderCheck, ReaderCloseEnds,
      ReaderMark, DialFails, Dial, AddNewProxy, RemoveProxy, EstClose, EstMark,
      TellClosed, WaiterGet, SendPanics, vars
  <2>2. ePc' = "get" => ePc = "get"
    BY <1>16, ZenonT(30) DEF CloseProxyConn, Take, HubClose, ReaderCheck,
      ReaderCloseEnds, ReaderMark, DialFails, Dial, AddNewProxy, RemoveProxy,
      EstClose, EstMark, TellClosed, WaiterGet, SendPanics, vars
  <2>3. ePc # "none" => ePc' # "none"
    BY <1>16, ZenonT(30) DEF CloseProxyConn, Take, HubClose, ReaderCheck,
      ReaderCloseEnds, ReaderMark, DialFails, Dial, AddNewProxy, RemoveProxy,
      EstClose, EstMark, TellClosed, WaiterGet, SendPanics, vars
  <2>. QED BY <2>1, <2>2, <2>3, QueueStartsFrame, Zenon
<1>. QED BY <1>1, <1>2, <1>3, <1>4, <1>5, <1>6, <1>7, <1>8, <1>9, <1>10, <1>11,
      <1>12, <1>13, <1>14, <1>15, <1>16, Zenon
   DEF Next, ReaderStep, MasterStep, EstablishStep, SendStep

\* Who marks the connection as closed removes what is in the hubs.
LEMMA RemovingStep ==
  ASSUME TypeOK, Ordered, Opening, Held, Sorting, Removing, [Next]_vars
  PROVE  Removing'
<1>1. ASSUME NEW c \in Chans, QueueAdd(c) PROVE Removing'
  <2>1. Hold("queue") /\ "queue" \in Kinds /\ "link" \in Kinds
    BY <1>1 DEF QueueAdd, Kinds
  <2>2. UNCHANGED <<conn, ePc, estClosed, children>>
    BY <1>1 DEF QueueAdd
  <2>3. estClosed => ePc # "none" /\ made["queue"] > 0
    BY DEF Opening, Unpooled, Sorting, Kinds
  <2>4. ePc # "none" => rpc'[1] = rpc[1]
    BY <1>1, TakeFacts DEF QueueAdd, TypeOK, Ordered, HiLeft, Chans
  <2>5. cur'["link"] = cur["link"] /\ made'["link"] = made["link"]
    BY <2>1, HoldFacts
  <2>6. estClosed /\ cur'["queue"] = 1 => cur["queue"] = 1
    BY <2>1, <2>3, HoldFacts DEF TypeOK
  <2>. QED BY <2>2, <2>3, <2>4, <2>5, <2>6 DEF Removing
<1>2. ASSUME NEW c \in Chans, LinkAdd(c) PROVE Removing'
  <2>1. Hold("link") /\ "queue" \in Kinds /\ "link" \in Kinds
    BY <1>2 DEF LinkAdd, Kinds
  <2>2. UNCHANGED <<conn, ePc, estClosed>>
    BY <1>2 DEF LinkAdd
  <2>3. estClosed => ePc # "none" /\ made["link"] > 0
    BY DEF Opening, Unpooled, Sorting, Kinds
  <2>4. ePc # "none" => rpc'[1] = rpc[1]
    BY <1>2 DEF LinkAdd, TypeOK, Ordered, Chans
  <2>5. cur'["queue"] = cur["queue"] /\ cur'["link"] # 0
    BY <2>1, HoldFacts
  <2>6. estClosed /\ cur'["link"] = 1 => cur["link"] = 1
    BY <2>1, <2>3, HoldFacts DEF TypeOK
  <2>. QED BY <2>2, <2>3, <2>4, <2>5, <2>6 DEF Removing
<1>3. CASE EstQueue
  <2>1. ePc = "none" /\ ~estClosed /\ UNCHANGED <<conn, estClosed, children>>
    BY <1>3, TakeFacts DEF EstQueue, Ordered, EstLeft, Opening, Unpooled, Chans
  <2>2. Hold("queue") /\ "queue" \in Kinds /\ "link" \in Kinds
    BY <1>3 DEF EstQueue, SetSort, Kinds
  <2>3. cur'["link"] = 0 /\ made'["link"] <= 1 => cur["link"] = 0 /\ made["link"] <= 1
    BY <2>2, HoldFacts
  <2>. QED BY <2>1, <2>3 DEF Removing
<1>4. CASE EstLink
  <2>1. ePc = "none" /\ ~estClosed /\ UNCHANGED <<conn, estClosed, children>>
    BY <1>4 DEF EstLink, Ordered, EstLeft, Opening, Unpooled, Chans
  <2>2. Hold("link") /\ "queue" \in Kinds /\ "link" \in Kinds
    BY <1>4 DEF EstLink, SetSort, Kinds
  <2>3. cur'["link"] = 0 /\ made'["link"] <= 1 => cur["link"] = 0 /\ made["link"] <= 1
    BY <2>2, HoldFacts
  <2>. QED BY <2>1, <2>3 DEF Removing
<1>5. CASE CloseProxyConn
  BY <1>5 DEF CloseProxyConn, Take, TypeOK, Removing, Closers, Chans
<1>6. CASE HubClose
  BY <1>6 DEF HubClose, Take, TypeOK, Removing, Closers, Chans
<1>7. CASE ReaderCheck
  BY <1>7 DEF ReaderCheck, ReaderCloseEnds, TypeOK, Removing, Closers, Chans
<1>8. CASE ReaderMark
  BY <1>8 DEF ReaderMark, TypeOK, Removing, Closers, Chans, Opening, Held,
    Kinds
<1>9. CASE ReaderRemoveAll
  <2>1. RemoveAll /\ estClosed /\ ePc # "none"
    BY <1>9 DEF ReaderRemoveAll, Opening, Closers, Unpooled
  <2>2. CloseEntry("link") /\ made' = made /\ "queue" \in Kinds /\ "link" \in Kinds
    BY <2>1 DEF RemoveAll, Kinds
  <2>3. cur'["link"] = 0 /\ cur'["queue"] = cur["queue"]
    BY <2>2, CloseFacts
  <2>4. made["link"] <= 1 => children' = {}
    BY <2>1, <2>2, SMTT(30) DEF RemoveAll, Removing, Sorting, Held, TypeOK
  <2>5. /\ UNCHANGED <<conn, ePc, estClosed>>
        /\ rpc[1] = "removeAll" /\ rpc'[1] = "remove"
    BY <1>9 DEF ReaderRemoveAll, TypeOK, Chans
  <2>. QED BY <2>1, <2>2, <2>3, <2>4, <2>5 DEF Removing, Closers
<1>10. CASE ReaderRemove
  <2>1. Remove /\ estClosed /\ ePc # "none"
    BY <1>10 DEF ReaderRemove, Opening, Closers, Unpooled
  <2>2. CloseEntry("queue") /\ made' = made /\ "queue" \in Kinds /\ "link" \in Kinds
    BY <2>1 DEF Remove, Kinds
  <2>3. cur'["queue"] = 0 /\ cur'["link"] = cur["link"]
    BY <2>2, CloseFacts
  <2>4. children' = children
    BY <2>1 DEF Remove
  <2>5. /\ UNCHANGED <<conn, ePc, estClosed>>
        /\ rpc[1] = "remove" /\ rpc'[1] = "idle"
    BY <1>10 DEF ReaderRemove, ReaderCloseEnds, TypeOK, Chans
  <2>. QED BY <2>1, <2>2, <2>3, <2>4, <2>5 DEF Removing, Closers
<1>11. CASE Dial
  BY <1>11 DEF Dial, TypeOK, Removing, Closers, Chans
<1>12. CASE EstClose
  BY <1>12 DEF EstClose, TypeOK, Removing, Closers, Chans
<1>13. CASE EstMark
  BY <1>13 DEF EstMark, TypeOK, Removing, Closers, Chans, Opening, Held, Kinds
<1>14. CASE EstRemoveAll
  <2>1. RemoveAll /\ estClosed /\ ePc # "none"
    BY <1>14 DEF EstRemoveAll, Opening, Closers, Unpooled
  <2>2. CloseEntry("link") /\ made' = made /\ "queue" \in Kinds /\ "link" \in Kinds
    BY <2>1 DEF RemoveAll, Kinds
  <2>3. cur'["link"] = 0 /\ cur'["queue"] = cur["queue"]
    BY <2>2, CloseFacts
  <2>4. made["link"] <= 1 => children' = {}
    BY <2>1, <2>2 DEF RemoveAll, Removing, Sorting, Held, TypeOK
  <2>5. /\ UNCHANGED <<conn, rpc, estClosed>>
        /\ ePc = "removeAll" /\ ePc' = "remove"
    BY <1>14 DEF EstRemoveAll
  <2>. QED BY <2>1, <2>2, <2>3, <2>4, <2>5 DEF Removing, Closers
<1>15. CASE EstRemove
  <2>1. Remove /\ estClosed /\ ePc # "none"
    BY <1>15 DEF EstRemove, Opening, Closers, Unpooled
  <2>2. CloseEntry("queue") /\ made' = made /\ "queue" \in Kinds /\ "link" \in Kinds
    BY <2>1 DEF Remove, Kinds
  <2>3. cur'["queue"] = 0 /\ cur'["link"] = cur["link"]
    BY <2>2, CloseFacts
  <2>4. children' = children
    BY <2>1 DEF Remove
  <2>5. /\ UNCHANGED <<conn, rpc, estClosed>>
        /\ ePc = "remove" /\ ePc' = "tell"
    BY <1>15 DEF EstRemove
  <2>. QED BY <2>1, <2>2, <2>3, <2>4, <2>5 DEF Removing, Closers
<1>16.
  ASSUME \/ UNCHANGED vars \/ DialFails \/ TrySendLink \/ AddNewProxy
         \/ TrySendQueue \/ GetWriter \/ RemoveProxy \/ TellClosed
         \/ WaiterGet
         \/ (\E k \in Kinds, g \in Objs, x \in Spawners : SendCheck(k, g, x))
         \/ (\E k \in Kinds, g \in Objs, x \in Spawners : SendStart(k, g, x))
         \/ (\E k \in Kinds, g \in Objs, x \in Spawners : SendReturn(k, g, x))
         \/ (\E k \in Kinds, g \in Objs, x \in Spawners : SendDone(k, g, x))
         \/ (\E k \in Kinds, g \in Objs, x \in Spawners : SendPanics(k, g, x))
  PROVE  Removing'
  <2>1. UNCHANGED <<conn, estClosed, cur, made, children, rpc>>
    BY <1>16, Zenon DEF DialFails, TrySendLink, Spawn, AddNewProxy, TrySendQueue,
      GetWriter, RemoveProxy, TellClosed, WaiterGet, SendCheck, SendStart,
      SendReturn, SendDone, SendPanics, vars
  <2>2. ePc \in {"mark", "removeAll", "remove"} => ePc' = ePc
    BY <1>16, ZenonT(30) DEF DialFails, TrySendLink, Spawn, AddNewProxy,
      TrySendQueue, GetWriter, RemoveProxy, TellClosed, WaiterGet, SendCheck,
      SendStart, SendReturn, SendDone, SendPanics, vars
  <2>. QED BY <2>1, <2>2 DEF Removing, Closers
<1>. QED BY <1>1, <1>2, <1>3, <1>4, <1>5, <1>6, <1>7, <1>8, <1>9, <1>10, <1>11,
      <1>12, <1>13, <1>14, <1>15, <1>16, Zenon
   DEF Next, ReaderStep, MasterStep, EstablishStep, SendStep

\* Steps that handle no Hi message.
LEMMA OwnersKept ==
  ASSUME TypeOK, Owners, counter' = counter,
         \A k \in Kinds : made'[k] = made[k] \/ (made'[k] \in Nat /\ made'[k] <= 1),
         \A c \in Chans : Has(inbox'[c], "hi") => Has(inbox[c], "hi"),
         \A c \in Chans : rpc'[c] = "hi" => rpc[c] = "hi"
  PROVE  Owners'
<1> SUFFICES ASSUME NEW k \in Kinds
             PROVE  \E own \in [Chans -> 0 .. N + 1] : Owned(k, own)'
  BY DEF Owners
<1>1. PICK own \in [Chans -> 0 .. N + 1] : Owned(k, own)
  BY DEF Owners
<1>2. \A g \in 2 .. made'[k] : \E c \in Chans : own[c] = g
  BY <1>1 DEF Owned
<1>3. Owned(k, own)'
  BY <1>1, <1>2 DEF Owned, Pending, HiLeft
<1>. QED BY <1>3

\* The Hi message of a websocket gets the entry of the hub.
LEMMA OwnersHeld ==
  ASSUME TypeOK, Held, NEW k \in Kinds, NEW c \in Chans, Pending(k, c), Hold(k),
         NEW own \in [Chans -> 0 .. N + 1], Owned(k, own), Entry(k) \in Objs
  PROVE  \E new \in [Chans -> 0 .. N + 1] :
           /\ \A g \in 2 .. made'[k] : \E d \in Chans : new[d] = g
           /\ \A d \in Chans \ {c} : new[d] = own[d]
           /\ new[c] = Entry(k) /\ own[c] = 0
<1> DEFINE new == [own EXCEPT ![c] = Entry(k)]
<1>1. own[c] = 0
  BY DEF Owned
<1>2. new \in [Chans -> 0 .. N + 1] /\ new[c] = Entry(k)
  BY DEF Objs
<1>3. \A d \in Chans \ {c} : new[d] = own[d]
  OBVIOUS
<1> HIDE DEF new
<1>4. ASSUME NEW g \in 2 .. made'[k] PROVE \E d \in Chans : new[d] = g
  <2>1. CASE g = Entry(k)
    BY <1>2, <2>1
  <2>2. CASE g # Entry(k)
    <3>1. made[k] \in 0 .. N + 1
      BY Zenon DEF TypeOK
    <3>2. g \in 2 .. made[k]
      BY <2>2, <3>1, HoldFacts
    <3>3. PICK d \in Chans : own[d] = g
      BY <3>2 DEF Owned
    <3>. QED BY <1>1, <1>3, <3>1, <3>2, <3>3
  <2>. QED BY <2>1, <2>2
<1>. QED BY <1>1, <1>2, <1>3, <1>4

\* A queue or link is made for the first message that asks for one.
LEMMA OwnersStep ==
  ASSUME TypeOK, Ordered, Opening, Held, Owners, [Next]_vars
  PROVE  Owners'
<1>1. ASSUME NEW c \in Chans, QueueAdd(c) PROVE Owners'
  <2>1. /\ Pending("queue", c) /\ "queue" \in Kinds /\ "link" \in Kinds
        /\ ~Has(inbox'[c], "hi") /\ Has(inbox[c], "hi")
        /\ \A d \in Chans \ {c} : inbox'[d] = inbox[d]
    BY <1>1, TakeFacts DEF QueueAdd, Pending, HiLeft, Kinds
  <2>2. /\ Hold("queue") /\ counter' = counter
        /\ \A d \in Chans \ {c} : rpc'[d] = rpc[d]
    BY <1>1, Zenon DEF QueueAdd, TypeOK
  <2>3. Entry("queue") \in Objs /\ made'["link"] = made["link"]
    BY <2>1, <2>2, EntryOfHi, HoldFacts
  <2>4. \E own \in [Chans -> 0 .. N + 1] : Owned("queue", own)'
    <3>1. PICK own \in [Chans -> 0 .. N + 1] : Owned("queue", own)
      BY <2>1 DEF Owners
    <3>2. PICK new \in [Chans -> 0 .. N + 1] :
            /\ \A g \in 2 .. made'["queue"] : \E d \in Chans : new[d] = g
            /\ \A d \in Chans \ {c} : new[d] = own[d]
      BY <2>1, <2>2, <2>3, <3>1, OwnersHeld
    <3>3. \A d \in Chans : Has(inbox'[d], "hi") => new[d] = 0
      BY <2>1, <3>1, <3>2 DEF Owned, Pending, HiLeft
    <3>4. Owned("queue", new)'
      BY <3>2, <3>3 DEF Owned, Pending, HiLeft
    <3>. QED BY <3>4
  <2>5. \E own \in [Chans -> 0 .. N + 1] : Owned("link", own)'
    <3>1. PICK own \in [Chans -> 0 .. N + 1] : Owned("link", own)
      BY <2>1 DEF Owners
    <3>2. Owned("link", own)'
      BY <2>1, <2>2, <2>3, <3>1 DEF Owned, Pending, HiLeft
    <3>. QED BY <3>2
  <2>. QED BY <2>4, <2>5 DEF Owners, Kinds
<1>2. ASSUME NEW c \in Chans, LinkAdd(c) PROVE Owners'
  <2>1. Pending("link", c) /\ "queue" \in Kinds /\ "link" \in Kinds
    BY <1>2 DEF LinkAdd, Pending, Kinds
  <2>2. Entry("link") \in Objs
    BY <2>1, EntryOfHi
  <2>3. /\ Hold("link") /\ inbox' = inbox /\ rpc'[c] = "idle"
        /\ \A d \in Chans \ {c} : rpc'[d] = rpc[d]
        /\ counter' = [counter EXCEPT ![Entry("link")] = @ + 1]
        /\ rpc[c] = "hi"
    BY <1>2 DEF LinkAdd, TypeOK
  <2>4. \E own \in [Chans -> 0 .. N + 1] : Owned("queue", own)'
    <3>1. PICK own \in [Chans -> 0 .. N + 1] : Owned("queue", own)
      BY <2>1, Zenon DEF Owners
    <3>2. made'["queue"] = made["queue"]
      BY <2>1, <2>3, HoldFacts
    <3>3. Owned("queue", own)'
      BY <2>3, <3>1, <3>2 DEF Owned, Pending, HiLeft
    <3>. QED BY <3>3
  <2>5. \E own \in [Chans -> 0 .. N + 1] : Owned("link", own)'
    <3>1. PICK own \in [Chans -> 0 .. N + 1] : Owned("link", own)
      BY <2>1 DEF Owners
    <3>2. PICK new \in [Chans -> 0 .. N + 1] :
            /\ \A g \in 2 .. made'["link"] : \E d \in Chans : new[d] = g
            /\ \A d \in Chans \ {c} : new[d] = own[d]
            /\ new[c] = Entry("link") /\ own[c] = 0
      BY <2>1, <2>2, <2>3, <3>1, OwnersHeld
    <3>3. \A d \in Chans : Has(inbox'[d], "hi") \/ rpc'[d] = "hi" => new[d] = 0
      <4>1. ~Has(inbox[c], "hi")
        BY <2>3 DEF Ordered, HiLeft
      <4>. QED BY <2>3, <3>1, <3>2, <4>1 DEF Owned, Pending, HiLeft
    <3>4. ASSUME NEW g \in Objs
          PROVE  counter'[g] = Cardinality({d \in Chans : new[d] = g})
      <4> DEFINE S == {d \in Chans : own[d] = g}
      <4>1. counter[g] = Cardinality(S) /\ S \in SUBSET Chans
        BY <3>1, Zenon DEF Owned
      <4>2. IsFiniteSet(S)
        BY <4>1, ChansFinite, FS_Subset
      <4>3. CASE g = Entry("link")
        <5>1. {d \in Chans : new[d] = g} = S \cup {c} /\ c \notin S
          BY <3>2, <4>3 DEF Objs
        <5>2. Cardinality(S \cup {c}) = Cardinality(S) + 1
          BY <4>2, <5>1, FS_AddElement, Zenon
        <5>. QED BY <2>3, <4>1, <4>3, <5>1, <5>2, Zenon DEF TypeOK
      <4>4. CASE g # Entry("link")
        <5>1. {d \in Chans : new[d] = g} = S
          BY <3>2, <4>4 DEF Objs
        <5>. QED BY <2>2, <2>3, <4>1, <4>4, <5>1, Zenon DEF TypeOK
      <4>. QED BY <4>3, <4>4
    <3>5. Owned("link", new)'
      BY <3>2, <3>3, <3>4, Zenon DEF Owned, Pending, HiLeft
    <3>. QED BY <3>5
  <2>. QED BY <2>4, <2>5 DEF Owners, Kinds
<1>3. CASE EstQueue
  <2>1. /\ ePc = "none"
        /\ \A c \in Chans : Has(inbox'[c], "hi") => Has(inbox[c], "hi")
    BY <1>3, TakeFacts DEF EstQueue, Ordered, EstLeft, Chans
  <2>2. Hold("queue") /\ "queue" \in Kinds /\ "link" \in Kinds
    BY <1>3 DEF EstQueue, SetSort, Kinds
  <2>3. made'["queue"] \in Nat /\ made'["queue"] <= 1 /\ made'["link"] = made["link"]
    BY <2>1, <2>2, EntryOfEst, HoldFacts
  <2>4. \A c \in Chans : rpc'[c] = "hi" => rpc[c] = "hi"
    BY <1>3 DEF EstQueue, TypeOK
  <2>. QED BY <1>3, <2>1, <2>3, <2>4, OwnersKept DEF EstQueue, Kinds
<1>4. CASE EstLink
  <2>1. /\ ePc = "none"
        /\ \A c \in Chans : Has(inbox'[c], "hi") => Has(inbox[c], "hi")
    BY <1>4 DEF EstLink, Ordered, EstLeft, Chans
  <2>2. Hold("link") /\ "queue" \in Kinds /\ "link" \in Kinds
    BY <1>4 DEF EstLink, SetSort, Kinds
  <2>3. made'["link"] \in Nat /\ made'["link"] <= 1 /\ made'["queue"] = made["queue"]
    BY <2>1, <2>2, EntryOfEst, HoldFacts
  <2>4. \A c \in Chans : rpc'[c] = "hi" => rpc[c] = "hi"
    BY <1>4 DEF EstLink, TypeOK
  <2>. QED BY <1>4, <2>1, <2>3, <2>4, OwnersKept DEF EstLink, Kinds
<1>5. CASE CloseProxyConn
  <2>1. \A c \in Chans : Has(inbox'[c], "hi") => Has(inbox[c], "hi")
    BY <1>5, TakeFacts DEF CloseProxyConn, Chans
  <2>2. \A c \in Chans : rpc'[c] = "hi" => rpc[c] = "hi"
    BY <1>5 DEF CloseProxyConn, TypeOK
  <2>. QED BY <1>5, <2>1, <2>2, OwnersKept DEF CloseProxyConn
<1>6. CASE HubClose
  <2>1. \A c \in Chans : Has(inbox'[c], "hi") => Has(inbox[c], "hi")
    BY <1>6, TakeFacts, SMTT(30) DEF HubClose, Chans
  <2>2. \A c \in Chans : rpc'[c] = "hi" => rpc[c] = "hi"
    BY <1>6 DEF HubClose, TypeOK
  <2>. QED BY <1>6, <2>1, <2>2, OwnersKept DEF HubClose
<1>7. CASE ReaderCheck
  <2>1. \A c \in Chans : rpc'[c] = "hi" => rpc[c] = "hi"
    BY <1>7 DEF ReaderCheck, ReaderCloseEnds, TypeOK
  <2>. QED BY <1>7, <2>1, OwnersKept DEF ReaderCheck
<1>8. CASE ReaderMark
  <2>1. \A c \in Chans : rpc'[c] = "hi" => rpc[c] = "hi"
    BY <1>8 DEF ReaderMark, TypeOK
  <2>. QED BY <1>8, <2>1, OwnersKept DEF ReaderMark
<1>9. CASE ReaderRemoveAll
  <2>1. \A c \in Chans : rpc'[c] = "hi" => rpc[c] = "hi"
    BY <1>9 DEF ReaderRemoveAll, TypeOK
  <2>. QED BY <1>9, <2>1, OwnersKept, Zenon DEF ReaderRemoveAll, RemoveAll
<1>10. CASE ReaderRemove
  <2>1. \A c \in Chans : rpc'[c] = "hi" => rpc[c] = "hi"
    BY <1>10 DEF ReaderRemove, ReaderCloseEnds, TypeOK
  <2>. QED BY <1>10, <2>1, OwnersKept DEF ReaderRemove, Remove
<1>11.
  ASSUME \/ UNCHANGED vars \/ DialFails \/ Dial \/ TrySendLink
         \/ AddNewProxy \/ TrySendQueue \/ GetWriter \/ RemoveProxy
         \/ EstClose \/ EstMark \/ EstRemoveAll \/ EstRemove \/ TellClosed
         \/ WaiterGet
         \/ (\E k \in Kinds, g \in Objs, x \in Spawners : SendCheck(k, g, x))
         \/ (\E k \in Kinds, g \in Objs, x \in Spawners : SendStart(k, g, x))
         \/ (\E k \in Kinds, g \in Objs, x \in Spawners : SendReturn(k, g, x))
         \/ (\E k \in Kinds, g \in Objs, x \in Spawners : SendDone(k, g, x))
         \/ (\E k \in Kinds, g \in Objs, x \in Spawners : SendPanics(k, g, x))
  PROVE  Owners'
  <2>1. UNCHANGED <<inbox, rpc, made, counter>>
    BY <1>11, Zenon DEF DialFails, Dial, TrySendLink, Spawn, AddNewProxy,
      TrySendQueue, GetWriter, RemoveProxy, EstClose, EstMark, EstRemoveAll,
      RemoveAll, CloseEntry, EstRemove, Remove, TellClosed, WaiterGet,
      SendCheck, SendStart, SendReturn, SendDone, SendPanics, vars
  <2>. QED BY <2>1, OwnersKept
<1>. QED BY <1>1, <1>2, <1>3, <1>4, <1>5, <1>6, <1>7, <1>8, <1>9, <1>10, <1>11, Zenon
   DEF Next, ReaderStep, MasterStep, EstablishStep, SendStep

\* establish finds its queue as long as nobody has closed the connection.
LEMMA NilStep ==
  ASSUME TypeOK, Opening, Held, Sorting, NilNeedsClose, [Next]_vars
  PROVE  NilNeedsClose'
<1>1. CASE ReaderMark
  BY <1>1 DEF ReaderMark, NilNeedsClose
<1>2. CASE GetWriter
  BY <1>2 DEF GetWriter, NilNeedsClose, Sorting, Held, TypeOK, Kinds
<1>3. CASE EstMark
  BY <1>3 DEF EstMark, NilNeedsClose
<1>4. ASSUME NEW k \in Kinds, NEW g \in Objs, NEW x \in Spawners, SendPanics(k, g, x)
      PROVE  NilNeedsClose'
  BY <1>4 DEF SendPanics, NilNeedsClose
<1>5.
  ASSUME \/ UNCHANGED vars \/ (\E c \in Chans : QueueAdd(c))
         \/ (\E c \in Chans : LinkAdd(c)) \/ EstQueue \/ EstLink
         \/ CloseProxyConn \/ HubClose \/ ReaderCheck \/ ReaderRemoveAll
         \/ ReaderRemove \/ DialFails \/ Dial \/ TrySendLink \/ AddNewProxy
         \/ TrySendQueue \/ RemoveProxy \/ EstClose \/ EstRemoveAll
         \/ EstRemove \/ TellClosed \/ WaiterGet
         \/ (\E k \in Kinds, g \in Objs, x \in Spawners : SendCheck(k, g, x))
         \/ (\E k \in Kinds, g \in Objs, x \in Spawners : SendStart(k, g, x))
         \/ (\E k \in Kinds, g \in Objs, x \in Spawners : SendReturn(k, g, x))
         \/ (\E k \in Kinds, g \in Objs, x \in Spawners : SendDone(k, g, x))
  PROVE  NilNeedsClose'
  <2>1. UNCHANGED <<crashed, estClosed>>
    BY <1>5, Zenon DEF QueueAdd, Take, Hold, Spawn, LinkAdd, LinksOf, EstQueue,
      SetSort, EstLink, CloseProxyConn, HubClose, ReaderCheck, ReaderCloseEnds,
      ReaderRemoveAll, RemoveAll, CloseEntry, ReaderRemove, Remove, DialFails,
      Dial, TrySendLink, AddNewProxy, TrySendQueue, RemoveProxy, EstClose,
      EstRemoveAll, EstRemove, TellClosed, WaiterGet, SendCheck, SendStart,
      SendReturn, SendDone, vars
  <2>. QED BY <2>1 DEF NilNeedsClose
<1>. QED BY <1>1, <1>2, <1>3, <1>4, <1>5
   DEF Next, ReaderStep, MasterStep, EstablishStep, SendStep

-----------------------------------------------------------------------------
(***************************************************************************)
(* The invariant holds, whatever the order of the Hi messages, Est, the    *)
(* dial and the messages that close the connection, and whatever fails.    *)
(***************************************************************************)
THEOREM ServerInvariant == Spec => []ServerInv
<1>1. ServerInv /\ [Next]_vars => ServerInv'
  BY TypeStep, OrderedStep, OpeningStep, HeldStep, SortingStep, FreshStep,
     LinkStartsStep, QueueStartsStep, RemovingStep, OwnersStep, NilStep DEF ServerInv
<1>. QED BY ServerInit, <1>1, PTL DEF Spec

(***************************************************************************)
(* No start is lost: when the connection and every Hi message are there    *)
(* link.Send is spawned, and queue.Send when establish waits for the queue *)
(* and it has its writers, for any number of websockets.                   *)
(***************************************************************************)
THEOREM Starts == Spec => []NoLostStart
<1>1. ASSUME ServerInv PROVE NoLostStart
  <2>1. \A g \in lConn : counter[g] = N => Spawned("link", g)
    BY <1>1 DEF ServerInv, LinkStarts
  <2>2. ASSUME writer # 0, writers[writer] = Chans PROVE Spawned("queue", writer)
    <3>1. writer \in Objs /\ 1 \in writers[writer]
      BY <1>1, <2>2 DEF ServerInv, TypeOK, Objs, Chans
    <3>2. writer = 1
      BY <1>1, <3>1 DEF ServerInv, QueueStarts
    <3>. QED BY <1>1, <2>2, <3>2 DEF ServerInv, QueueStarts
  <2>. QED BY <2>1, <2>2 DEF NoLostStart
<1>. QED BY ServerInvariant, <1>1, PTL

(***************************************************************************)
(* link.Send is spawned at most once for a link: the Hi message that       *)
(* completes the counter and TrySend never both find the link complete.    *)
(***************************************************************************)
THEOREM SpawnedOnce == Spec => []LinkSendOnce
<1>1. ASSUME ServerInv PROVE LinkSendOnce
  <2>1. ASSUME NEW g \in Objs PROVE \E x \in Spawners : send["link"][g][x] = "none"
    <3>1. CASE g = 1
      BY <1>1, <3>1 DEF ServerInv, LinkStarts, Spawners
    <3>2. CASE g # 1
      BY <1>1, <3>2 DEF ServerInv, LinkStarts, Spawned, Spawners
    <3>. QED BY <3>1, <3>2
  <2>. QED BY <2>1 DEF LinkSendOnce
<1>. QED BY ServerInvariant, <1>1, PTL

(***************************************************************************)
(* No buffer of a queue or link is closed twice, although close() looks at *)
(* a status that Send overwrites: what is closed has left its hub.         *)
(***************************************************************************)
THEOREM ClosedOnce == Spec => []NoDoubleClose
<1>1. ServerInv => NoDoubleClose
  BY DEF ServerInv, Fresh, NoDoubleClose
<1>. QED BY ServerInvariant, <1>1, PTL

(***************************************************************************)
(* When establish and the reader are through with a connection, and no Hi  *)
(* message came after they removed it, the hubs hold nothing of it.        *)
(***************************************************************************)
THEOREM AllReleased == Spec => []ReleasedInTime
<1>1. ASSUME ServerInv, ePc = "end", rpc[1] = "idle", conn = "closed", InTime
      PROVE  cur["queue"] = 0 /\ cur["link"] = 0 /\ children = {}
  <2>1. /\ made["queue"] = 1 /\ made["link"] = 1
        /\ cur["queue"] \in Nat /\ cur["link"] \in Nat
        /\ cur["queue"] <= made["queue"] /\ cur["link"] <= made["link"]
    BY <1>1 DEF ServerInv, TypeOK, Held, InTime, Kinds
  <2>2. cur["queue"] # 1 /\ cur["link"] # 1
    BY <1>1 DEF ServerInv, Removing, Closers
  <2>3. cur["queue"] = 0 /\ cur["link"] = 0
    BY <2>1, <2>2
  <2>. QED BY <1>1, <2>1, <2>3 DEF ServerInv, Removing
<1>2. ServerInv => ReleasedInTime
  BY <1>1 DEF ReleasedInTime
<1>. QED BY ServerInvariant, <1>2, PTL

(***************************************************************************)
(* establish finds its queue unless the reader of websocket 1 has closed   *)
(* the connection: Hi, Est and the Send goroutines never take it away.     *)
(***************************************************************************)
THEOREM QueueFound == Spec => []NilNeedsClose
<1>1. ServerInv => NilNeedsClose
  BY DEF ServerInv
<1>. QED BY ServerInvariant, <1>1, PTL
=============================================================================
