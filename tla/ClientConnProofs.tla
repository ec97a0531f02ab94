-------------------------- MODULE ClientConnProofs --------------------------
(***************************************************************************)
(* Proofs about what the client does for a connection, for every number of *)
(* websockets and any connections, addresses and loggers.                  *)
(*                                                                         *)
(*   ClientConn  transData and the reader share the work of remove without *)
(*               closing a buffer twice, and between them they take the    *)
(*               queue and the master link out of the hubs.                *)
(*   Records     the records count the live connections, and the table     *)
(*               fits the terminal.                                        *)
(*   Address     the target is read as it was sent, and told to be private *)
(*               if and only if it is.                                     *)
(***************************************************************************)
EXTENDS ClientConn, Records, Address, FiniteSetTheorems, SequenceTheorems, TLAPS

-----------------------------------------------------------------------------
(***************************************************************************)
(* Why the callers of remove do not get into each other's way.  A buffer   *)
(* is closed by the call that takes its object out of the hub, and nothing *)
(* puts an object in once remove may be called.  A caller that has passed  *)
(* the check, and finds the work done, changes nothing; a caller that has  *)
(* not passed it knows that another one is at work.                        *)
(***************************************************************************)

\* Before Establish the server cannot answer, so that nobody is in remove; the
\* reader enters it with the answer.
Early ==
  /\ pc \in {"prepare", "establish"} =>
       /\ answer = "none"
       /\ ~removed
       /\ \A x \in Callers : rm[x] = "idle"
       /\ \A k \in Kinds : closes[k] = 0
  /\ rm["reader"] # "idle" => answer = "taken"

\* transData is in remove only while it returns, and leaves it with the work
\* done, by itself or by the reader.
Returning ==
  /\ rm["trans"] # "idle" => pc = "removing"
  /\ pc \in {"removing", "end"} /\ rm["trans"] = "idle" => removed
  /\ pc = "prepare" => prepared < N
  /\ pc \notin {"prepare", "end"} => prepared > 0

\* The object in the hub has not been closed.
OpenInHub ==
  /\ queueIn => closes["queue"] = 0
  /\ 1 \in links => closes["link"] = 0
  /\ \A k \in Kinds : closes[k] <= 1

\* What "removed" promises is done, or a caller is about to do it.
Promised ==
  /\ \A x \in Callers : rm[x] \in {"queue", "links"} => removed
  /\ removed /\ queueIn => \E x \in Callers : rm[x] = "queue"
  /\ removed /\ 1 \in links => \E x \in Callers : rm[x] \in {"queue", "links"}

ReleaseInv == TypeOK /\ Early /\ Returning /\ OpenInHub /\ Promised

\* Init establishes the invariant.
LEMMA ReleaseInit == Init => ReleaseInv
<1> USE ClientAssumption DEF Init, Callers, Kinds
<1>1. ASSUME Init PROVE TypeOK
  <2>1. rm \in [Callers -> RemovePc] /\ send \in [Kinds -> SendPc]
    BY <1>1 DEF RemovePc, SendPc
  <2>2. status \in [Kinds -> Status] /\ closes \in [Kinds -> Nat]
    BY <1>1 DEF Status
  <2>3. prepared \in 0 .. N
    BY <1>1
  <2>. QED BY <1>1, <2>1, <2>2, <2>3, Zenon DEF TypeOK
<1>2. Init => Early /\ Returning /\ OpenInHub /\ Promised
  BY DEF Early, Returning, OpenInHub, Promised
<1>. QED BY <1>1, <1>2, Zenon DEF ReleaseInv

-----------------------------------------------------------------------------
(* One step at a time.                                                     *)

USE ClientAssumption DEF regVars, hubVars, copyVars, Chans, Callers, Kinds

\* Every step keeps the types; transData unregisters only what it prepared.
LEMMA TypeStep ==
  ASSUME TypeOK, Returning, [Next]_vars
  PROVE  TypeOK'
<1> USE DEF TypeOK, Returning, Status, SendPc, RemovePc
<1>1. CASE Prepare
  BY <1>1 DEF Prepare, AllPrepared
<1>2. CASE EstablishFails
  BY <1>2 DEF EstablishFails, Return
<1>3. CASE Establish
  BY <1>3 DEF Establish
<1>4. CASE GetQueue
  BY <1>4 DEF GetQueue, Return
<1>5. CASE SendQueue
  BY <1>5 DEF SendQueue
<1>6. CASE GetLink
  BY <1>6 DEF GetLink, Return
<1>7. CASE SendLink
  BY <1>7 DEF SendLink
<1>8. CASE Unregister
  BY <1>8 DEF Unregister, Cancel
<1>9. CASE OnClosed
  BY <1>9 DEF OnClosed
<1>10. CASE CopyEnds
  BY <1>10 DEF CopyEnds
<1>11. ASSUME NEW x \in Callers, RemoveCheck(x) PROVE TypeOK'
  BY <1>11 DEF RemoveCheck
<1>12. ASSUME NEW x \in Callers, RemoveMark(x) PROVE TypeOK'
  BY <1>12 DEF RemoveMark
<1>13. ASSUME NEW x \in Callers, RemoveQueue(x) PROVE TypeOK'
  <2>1. rm' \in [Callers -> RemovePc] /\ queueIn' \in BOOLEAN
    BY <1>13, Zenon DEF RemoveQueue
  <2>2. status' \in [Kinds -> Status] /\ closes' \in [Kinds -> Nat]
    BY <1>13 DEF RemoveQueue
  <2>. QED BY <1>13, <2>1, <2>2 DEF RemoveQueue
<1>14. ASSUME NEW x \in Callers, RemoveLinks(x) PROVE TypeOK'
  BY <1>14 DEF RemoveLinks, LinksLeft
<1>15. ASSUME NEW k \in Kinds, SendCheck(k) PROVE TypeOK'
  BY <1>15 DEF SendCheck
<1>16. ASSUME NEW k \in Kinds, SendStart(k) PROVE TypeOK'
  BY <1>16 DEF SendStart
<1>17. ASSUME NEW k \in Kinds, SendReturn(k) PROVE TypeOK'
  BY <1>17 DEF SendReturn
<1>18. ASSUME NEW k \in Kinds, SendDone(k) PROVE TypeOK'
  BY <1>18 DEF SendDone, Return
<1>19. CASE UNCHANGED vars
  BY <1>19 DEF vars
<1>. QED BY <1>1, <1>2, <1>3, <1>4, <1>5, <1>6, <1>7, <1>8, <1>9, <1>10, <1>11,
     <1>12, <1>13, <1>14, <1>15, <1>16, <1>17, <1>18, <1>19
   DEF Next, TransStep, RemoveStep, SendStep

\* Nobody enters remove before Establish.
LEMMA EarlyStep ==
  ASSUME TypeOK, Early, Returning, [Next]_vars
  PROVE  Early'
<1> USE DEF TypeOK, RemovePc, Early, Returning
<1>1. CASE Prepare
  BY <1>1 DEF Prepare, AllPrepared
<1>2. CASE EstablishFails
  BY <1>2 DEF EstablishFails, Return
<1>3. CASE Establish
  BY <1>3 DEF Establish
<1>4. CASE GetQueue
  BY <1>4 DEF GetQueue, Return
<1>5. CASE SendQueue
  BY <1>5 DEF SendQueue
<1>6. CASE GetLink
  BY <1>6 DEF GetLink, Return
<1>7. CASE SendLink
  BY <1>7 DEF SendLink
<1>8. CASE Unregister
  BY <1>8 DEF Unregister, Cancel
<1>9. CASE OnClosed
  BY <1>9 DEF OnClosed
<1>10. CASE CopyEnds
  BY <1>10 DEF CopyEnds
<1>11. ASSUME NEW x \in Callers, RemoveCheck(x) PROVE Early'
  BY <1>11 DEF RemoveCheck
<1>12. ASSUME NEW x \in Callers, RemoveMark(x) PROVE Early'
  BY <1>12 DEF RemoveMark
<1>13. ASSUME NEW x \in Callers, RemoveQueue(x) PROVE Early'
  BY <1>13 DEF RemoveQueue
<1>14. ASSUME NEW x \in Callers, RemoveLinks(x) PROVE Early'
  BY <1>14 DEF RemoveLinks, LinksLeft
<1>15. ASSUME NEW k \in Kinds, SendCheck(k) PROVE Early'
  BY <1>15 DEF SendCheck
<1>16. ASSUME NEW k \in Kinds, SendStart(k) PROVE Early'
  BY <1>16 DEF SendStart
<1>17. ASSUME NEW k \in Kinds, SendReturn(k) PROVE Early'
  BY <1>17 DEF SendReturn
<1>18. ASSUME NEW k \in Kinds, SendDone(k) PROVE Early'
  BY <1>18 DEF SendDone, Return
<1>19. CASE UNCHANGED vars
  BY <1>19 DEF vars
<1>. QED BY <1>1, <1>2, <1>3, <1>4, <1>5, <1>6, <1>7, <1>8, <1>9, <1>10, <1>11,
     <1>12, <1>13, <1>14, <1>15, <1>16, <1>17, <1>18, <1>19
   DEF Next, TransStep, RemoveStep, SendStep

\* transData leaves remove with the work done.
LEMMA ReturningStep ==
  ASSUME TypeOK, Early, Returning, Promised, [Next]_vars
  PROVE  Returning'
<1> USE DEF TypeOK, RemovePc, Early, Returning, Promised
<1>1. CASE Prepare
  BY <1>1 DEF Prepare, AllPrepared
<1>2. CASE EstablishFails
  BY <1>2 DEF EstablishFails, Return
<1>3. CASE Establish
  BY <1>3 DEF Establish
<1>4. CASE GetQueue
  BY <1>4 DEF GetQueue, Return
<1>5. CASE SendQueue
  BY <1>5 DEF SendQueue
<1>6. CASE GetLink
  BY <1>6 DEF GetLink, Return
<1>7. CASE SendLink
  BY <1>7 DEF SendLink
<1>8. CASE Unregister
  BY <1>8 DEF Unregister, Cancel
<1>9. CASE OnClosed
  BY <1>9 DEF OnClosed
<1>10. CASE CopyEnds
  BY <1>10 DEF CopyEnds
<1>11. ASSUME NEW x \in Callers, RemoveCheck(x) PROVE Returning'
  BY <1>11 DEF RemoveCheck
<1>12. ASSUME NEW x \in Callers, RemoveMark(x) PROVE Returning'
  BY <1>12 DEF RemoveMark
<1>13. ASSUME NEW x \in Callers, RemoveQueue(x) PROVE Returning'
  BY <1>13 DEF RemoveQueue
<1>14. ASSUME NEW x \in Callers, RemoveLinks(x) PROVE Returning'
  BY <1>14 DEF RemoveLinks, LinksLeft
<1>15. ASSUME NEW k \in Kinds, SendCheck(k) PROVE Returning'
  BY <1>15 DEF SendCheck
<1>16. ASSUME NEW k \in Kinds, SendStart(k) PROVE Returning'
  BY <1>16 DEF SendStart
<1>17. ASSUME NEW k \in Kinds, SendReturn(k) PROVE Returning'
  BY <1>17 DEF SendReturn
<1>18. ASSUME NEW k \in Kinds, SendDone(k) PROVE Returning'
  BY <1>18 DEF SendDone, Return
<1>19. CASE UNCHANGED vars
  BY <1>19 DEF vars
<1>. QED BY <1>1, <1>2, <1>3, <1>4, <1>5, <1>6, <1>7, <1>8, <1>9, <1>10, <1>11,
     <1>12, <1>13, <1>14, <1>15, <1>16, <1>17, <1>18, <1>19
   DEF Next, TransStep, RemoveStep, SendStep

\* The call that closes a buffer takes its object out of the hub.
LEMMA OpenInHubStep ==
  ASSUME TypeOK, Early, OpenInHub, [Next]_vars
  PROVE  OpenInHub'
<1> USE DEF TypeOK, RemovePc, Early, OpenInHub
<1>1. CASE Prepare
  BY <1>1 DEF Prepare, AllPrepared
<1>2. CASE EstablishFails
  BY <1>2 DEF EstablishFails, Return
<1>3. CASE Establish
  BY <1>3 DEF Establish
<1>4. CASE GetQueue
  BY <1>4 DEF GetQueue, Return
<1>5. CASE SendQueue
  BY <1>5 DEF SendQueue
<1>6. CASE GetLink
  BY <1>6 DEF GetLink, Return
<1>7. CASE SendLink
  BY <1>7 DEF SendLink
<1>8. CASE Unregister
  BY <1>8 DEF Unregister, Cancel
<1>9. CASE OnClosed
  BY <1>9 DEF OnClosed
<1>10. CASE CopyEnds
  BY <1>10 DEF CopyEnds
<1>11. ASSUME NEW x \in Callers, RemoveCheck(x) PROVE OpenInHub'
  BY <1>11 DEF RemoveCheck
<1>12. ASSUME NEW x \in Callers, RemoveMark(x) PROVE OpenInHub'
  BY <1>12 DEF RemoveMark
<1>13. ASSUME NEW x \in Callers, RemoveQueue(x) PROVE OpenInHub'
  BY <1>13 DEF RemoveQueue
<1>14. ASSUME NEW x \in Callers, RemoveLinks(x) PROVE OpenInHub'
  BY <1>14 DEF RemoveLinks, LinksLeft
<1>15. ASSUME NEW k \in Kinds, SendCheck(k) PROVE OpenInHub'
  BY <1>15 DEF SendCheck
<1>16. ASSUME NEW k \in Kinds, SendStart(k) PROVE OpenInHub'
  BY <1>16 DEF SendStart
<1>17. ASSUME NEW k \in Kinds, SendReturn(k) PROVE OpenInHub'
  BY <1>17 DEF SendReturn
<1>18. ASSUME NEW k \in Kinds, SendDone(k) PROVE OpenInHub'
  BY <1>18 DEF SendDone, Return
<1>19. CASE UNCHANGED vars
  BY <1>19 DEF vars
<1>. QED BY <1>1, <1>2, <1>3, <1>4, <1>5, <1>6, <1>7, <1>8, <1>9, <1>10, <1>11,
     <1>12, <1>13, <1>14, <1>15, <1>16, <1>17, <1>18, <1>19
   DEF Next, TransStep, RemoveStep, SendStep

\* A caller that sets "removed" takes out the queue, then the links.
LEMMA PromisedStep ==
  ASSUME TypeOK, Early, Returning, Promised, [Next]_vars
  PROVE  Promised'
<1> USE DEF TypeOK, RemovePc, Early, Returning, Promised
<1>1. CASE Prepare
  BY <1>1 DEF Prepare, AllPrepared
<1>2. CASE EstablishFails
  BY <1>2 DEF EstablishFails, Return
<1>3. CASE Establish
  BY <1>3 DEF Establish
<1>4. CASE GetQueue
  BY <1>4 DEF GetQueue, Return
<1>5. CASE SendQueue
  BY <1>5 DEF SendQueue
<1>6. CASE GetLink
  BY <1>6 DEF GetLink, Return
<1>7. CASE SendLink
  BY <1>7 DEF SendLink
<1>8. CASE Unregister
  BY <1>8 DEF Unregister, Cancel
<1>9. CASE OnClosed
  BY <1>9 DEF OnClosed
<1>10. CASE CopyEnds
  BY <1>10 DEF CopyEnds
<1>11. ASSUME NEW x \in Callers, RemoveCheck(x) PROVE Promised'
  BY <1>11 DEF RemoveCheck
<1>12. ASSUME NEW x \in Callers, RemoveMark(x) PROVE Promised'
  BY <1>12 DEF RemoveMark
<1>13. ASSUME NEW x \in Callers, RemoveQueue(x) PROVE Promised'
  BY <1>13 DEF RemoveQueue
<1>14. ASSUME NEW x \in Callers, RemoveLinks(x) PROVE Promised'
  BY <1>14 DEF RemoveLinks, LinksLeft
<1>15. ASSUME NEW k \in Kinds, SendCheck(k) PROVE Promised'
  BY <1>15 DEF SendCheck
<1>16. ASSUME NEW k \in Kinds, SendStart(k) PROVE Promised'
  BY <1>16 DEF SendStart
<1>17. ASSUME NEW k \in Kinds, SendReturn(k) PROVE Promised'
  BY <1>17 DEF SendReturn
<1>18. ASSUME NEW k \in Kinds, SendDone(k) PROVE Promised'
  BY <1>18 DEF SendDone, Return
<1>19. CASE UNCHANGED vars
  BY <1>19 DEF vars
<1>. QED BY <1>1, <1>2, <1>3, <1>4, <1>5, <1>6, <1>7, <1>8, <1>9, <1>10, <1>11,
     <1>12, <1>13, <1>14, <1>15, <1>16, <1>17, <1>18, <1>19, Zenon
   DEF Next, TransStep, RemoveStep, SendStep

-----------------------------------------------------------------------------
(***************************************************************************)
(* The invariant of remove holds in every state of transData and its       *)
(* goroutines, whoever calls remove first and wherever onClosed cuts in.   *)
(***************************************************************************)
THEOREM ReleaseInvariant == Spec => []ReleaseInv
<1>1. ReleaseInv /\ [Next]_vars => ReleaseInv'
  BY TypeStep, EarlyStep, ReturningStep, OpenInHubStep, PromisedStep DEF ReleaseInv
<1>. QED BY ReleaseInit, <1>1, PTL DEF Spec

(***************************************************************************)
(* Neither buffer is closed twice by the two callers of remove: a panic of *)
(* close(buffer) is ruled out for every number of websockets.              *)
(***************************************************************************)
THEOREM ClosedOnce == Spec => []NoDoubleClose
<1>1. ReleaseInv => NoDoubleClose
  BY DEF ReleaseInv, OpenInHub, NoDoubleClose
<1>. QED BY ReleaseInvariant, <1>1, PTL

(***************************************************************************)
(* When transData has returned and the reader is through, the queue and    *)
(* the master link have left their hubs.                                   *)
(***************************************************************************)
THEOREM Released == Spec => []MasterReleased
<1>1. ReleaseInv => MasterReleased
  BY DEF ReleaseInv, Returning, Promised, MasterReleased
<1>. QED BY ReleaseInvariant, <1>1, PTL

-----------------------------------------------------------------------------
(* Records.                                                                *)

\* The inductive invariant.
RecordsInv == RecTypeOK /\ CountsRight /\ NoBadSize

\* The connections of address a among the live ones.
LiveAt(a) == {x \in Live : AddrOf[x] = a}

(***************************************************************************)
(* The live connections, of all and of one address, are finitely many.     *)
(***************************************************************************)
LEMMA LiveFinite ==
  /\ IsFiniteSet(Live) /\ Cardinality(Live) \in Nat
  /\ \A a \in Addrs : IsFiniteSet(LiveAt(a)) /\ Cardinality(LiveAt(a)) \in Nat
<1>1. Live \subseteq Conns
  BY DEF Live
<1>2. \A a \in Addrs : LiveAt(a) \subseteq Conns
  BY DEF LiveAt, Live
<1>3. IsFiniteSet(Conns)
  BY RecordsAssumption
<1> QED
  BY <1>1, <1>2, <1>3, FS_Subset, FS_CardinalityType

(***************************************************************************)
(* A connection that becomes live adds one to its address and to the       *)
(* total (the branch of Update for a new connection).                      *)
(***************************************************************************)
LEMMA LiveGrows ==
  ASSUME NEW x \in Conns, x \notin Live, Live' = Live \union {x}
  PROVE  /\ Cardinality(Live') = Cardinality(Live) + 1
         /\ Cardinality(LiveAt(AddrOf[x])') = Cardinality(LiveAt(AddrOf[x])) + 1
         /\ \A a \in Addrs : a # AddrOf[x] => LiveAt(a)' = LiveAt(a)
<1>1. AddrOf[x] \in Addrs
  BY RecordsAssumption
<1>2. LiveAt(AddrOf[x])' = LiveAt(AddrOf[x]) \union {x}
  BY DEF LiveAt
<1>3. x \notin LiveAt(AddrOf[x])
  BY DEF LiveAt
<1>4. \A a \in Addrs : a # AddrOf[x] => LiveAt(a)' = LiveAt(a)
  BY DEF LiveAt
<1>5. Cardinality(Live \union {x}) = Cardinality(Live) + 1
  BY LiveFinite, FS_AddElement
<1>6. Cardinality(LiveAt(AddrOf[x]) \union {x}) = Cardinality(LiveAt(AddrOf[x])) + 1
  BY LiveFinite, <1>1, <1>3, FS_AddElement, Zenon
<1> QED
  BY <1>2, <1>4, <1>5, <1>6

(***************************************************************************)
(* A connection that is no longer live takes one off its address, which    *)
(* had it, and off the total (the other branch of Update).                 *)
(***************************************************************************)
LEMMA LiveShrinks ==
  ASSUME NEW x \in Conns, x \in Live, Live' = Live \ {x}
  PROVE  /\ Cardinality(Live') = Cardinality(Live) - 1
         /\ Cardinality(LiveAt(AddrOf[x])) > 0
         /\ Cardinality(LiveAt(AddrOf[x])') = Cardinality(LiveAt(AddrOf[x])) - 1
         /\ \A a \in Addrs : a # AddrOf[x] => LiveAt(a)' = LiveAt(a)
<1>1. AddrOf[x] \in Addrs
  BY RecordsAssumption
<1>2. LiveAt(AddrOf[x])' = LiveAt(AddrOf[x]) \ {x}
  BY DEF LiveAt
<1>3. x \in LiveAt(AddrOf[x])
  BY DEF LiveAt
<1>4. \A a \in Addrs : a # AddrOf[x] => LiveAt(a)' = LiveAt(a)
  BY DEF LiveAt
<1>5. Cardinality(Live \ {x}) = Cardinality(Live) - 1
  BY LiveFinite, FS_RemoveElement
<1>6. /\ IsFiniteSet(LiveAt(AddrOf[x]) \ {x})
      /\ Cardinality(LiveAt(AddrOf[x]) \ {x}) = Cardinality(LiveAt(AddrOf[x])) - 1
  BY LiveFinite, <1>1, <1>3, FS_RemoveElement
<1>7. Cardinality(LiveAt(AddrOf[x]) \ {x}) \in Nat
  BY <1>6, FS_CardinalityType
<1>8. Cardinality(LiveAt(AddrOf[x])) \in Nat
  BY LiveFinite, <1>1
<1>9. Cardinality(LiveAt(AddrOf[x])) > 0
  BY <1>6, <1>7, <1>8
<1> QED
  BY <1>2, <1>4, <1>5, <1>6, <1>9

(***************************************************************************)
(* The table has at least one line, and leaves a row free on a terminal of *)
(* two rows or more (the arithmetic of SetLogBuffer).                      *)
(***************************************************************************)
LEMMA TableLinesFit ==
  ASSUME NEW r \in Nat, NEW n \in Nat
  PROVE  /\ TableLines(r, n) \in Nat
         /\ r >= 2 => TableLines(r, n) < r
BY DEF TableLines

(***************************************************************************)
(* What Flush leaves on the terminal fits it.                              *)
(***************************************************************************)
LEMMA ShowFits ==
  ASSUME Show
  PROVE  rows' \in Rows /\ lineCount' \in Nat /\ output' = output /\ TableFits'
<1> DEFINE shown == {a \in Addrs : addresses[a] > 0}
<1>1. Cardinality(shown) \in Nat
  <2>1. shown \in SUBSET Addrs
    OBVIOUS
  <2>2. IsFiniteSet(Addrs)
    BY RecordsAssumption
  <2>3. IsFiniteSet(shown)
    BY <2>1, <2>2, FS_Subset
  <2> QED
    BY <2>3, FS_CardinalityType
<1>2. /\ rows' \in Rows /\ rows' \in Nat /\ output' = output
      /\ lineCount' = TableLines(rows', Cardinality(shown))
  BY RecordsAssumption DEF Show
<1> HIDE DEF shown
<1> QED
  BY <1>1, <1>2, TableLinesFit DEF TableFits

(***************************************************************************)
(* Every step of a connection or a logger keeps the types.                 *)
(***************************************************************************)
LEMMA RecTypeStep == RecTypeOK /\ [RecNext]_recState => RecTypeOK'
<1> SUFFICES ASSUME RecTypeOK, [RecNext]_recState PROVE RecTypeOK'
  OBVIOUS
<1> USE DEF RecTypeOK, ConnPc, LogPc
<1>1. ASSUME NEW x \in Conns, Lock(x) PROVE RecTypeOK'
  BY <1>1 DEF Lock, Procs, recVars, outVars
<1>2. ASSUME NEW x \in Conns, Add(x) PROVE RecTypeOK'
  <2>1. AddrOf[x] \in Addrs
    BY RecordsAssumption
  <2> QED
    BY <1>2, <2>1 DEF Add, Procs, muVars, outVars
<1>3. ASSUME NEW x \in Conns, Remove(x) PROVE RecTypeOK'
  <2>1. AddrOf[x] \in Addrs
    BY RecordsAssumption
  <2>2. addresses' \in [Addrs -> Nat]
    BY <1>3, <2>1 DEF Remove, Left
  <2>3. fatal' \in BOOLEAN
    BY <1>3, Zenon DEF Remove
  <2> QED
    BY <1>3, <2>2, <2>3 DEF Remove, Procs, muVars, outVars
<1>4. ASSUME NEW x \in Conns, OnChange(x) PROVE RecTypeOK'
  BY <1>4, ShowFits DEF OnChange, Procs, recVars
<1>5. ASSUME NEW x \in Conns, SizeError(x) PROVE RecTypeOK'
  BY <1>5 DEF SizeError, Procs, muVars, recVars, outVars
<1>6. ASSUME NEW x \in Conns, TraceChange(x) PROVE RecTypeOK'
  BY <1>6 DEF TraceChange, Procs, recVars, outVars
<1>7. ASSUME NEW l \in Loggers, Log(l) PROVE RecTypeOK'
  BY <1>7 DEF Log, Procs, recVars, outVars
<1>8. ASSUME NEW l \in Loggers, LogLock(l) PROVE RecTypeOK'
  BY <1>8 DEF LogLock, Procs, recVars, outVars
<1>9. ASSUME NEW l \in Loggers, LogWrite(l) PROVE RecTypeOK'
  <2>1. /\ rows' \in Rows /\ lineCount' \in Nat /\ output' = output
        /\ recMu' \in Procs \union {"free"}
    BY <1>9, ShowFits DEF LogWrite, outVars
  <2> QED
    BY <1>9, <2>1 DEF LogWrite, Procs, recVars
<1>10. ASSUME NEW l \in Loggers, LogSizeError(l) PROVE RecTypeOK'
  BY <1>10 DEF LogSizeError, Procs, muVars, recVars, outVars
<1>11. ASSUME NEW x \in Conns, LogError(x) PROVE RecTypeOK'
  BY <1>11 DEF LogError, Procs, recVars, outVars
<1>12. CASE UNCHANGED recState
  BY <1>12 DEF recState, muVars, recVars, outVars
<1> QED
  BY <1>1, <1>2, <1>3, <1>4, <1>5, <1>6, <1>7, <1>8, <1>9, <1>10, <1>11, <1>12
  DEF RecNext, ConnStep, LogStep

(***************************************************************************)
(* Every step keeps the records right: the steps of Update that count a    *)
(* connection make it live or end that, and no other step does either.     *)
(***************************************************************************)
LEMMA CountsStep ==
  RecTypeOK /\ CountsRight /\ NoBadSize /\ [RecNext]_recState => CountsRight' /\ NoBadSize'
<1> SUFFICES ASSUME RecTypeOK, CountsRight, NoBadSize, [RecNext]_recState
             PROVE  CountsRight' /\ NoBadSize'
  OBVIOUS
<1>0. /\ connSize = Cardinality(Live)
      /\ \A a \in Addrs : addresses[a] = Cardinality(LiveAt(a))
  BY DEF CountsRight, LiveAt
<1>a. ASSUME Live' = Live, UNCHANGED recVars PROVE CountsRight' /\ NoBadSize'
  BY <1>a DEF CountsRight, NoBadSize, recVars
<1>1. ASSUME NEW x \in Conns, Lock(x) PROVE CountsRight' /\ NoBadSize'
  <2>1. Live' = Live
    BY <1>1 DEF Lock, Live, RecTypeOK, Procs
  <2> QED
    BY <1>1, <1>a, <2>1 DEF Lock
<1>2. ASSUME NEW x \in Conns, Add(x) PROVE CountsRight' /\ NoBadSize'
  <2>1. x \notin Live /\ Live' = Live \union {x}
    BY <1>2 DEF Add, Live, RecTypeOK, Procs
  <2>2. AddrOf[x] \in Addrs
    BY RecordsAssumption
  <2>3. connSize' = Cardinality(Live')
    BY <1>0, <1>2, <2>1, LiveGrows DEF Add
  <2>4. \A a \in Addrs : addresses'[a] = Cardinality(LiveAt(a)')
    BY <1>0, <1>2, <2>1, <2>2, LiveGrows DEF Add, RecTypeOK
  <2>5. NoBadSize'
    BY <1>2 DEF Add, NoBadSize
  <2> QED
    BY <2>3, <2>4, <2>5 DEF CountsRight, LiveAt
<1>3. ASSUME NEW x \in Conns, Remove(x) PROVE CountsRight' /\ NoBadSize'
  <2>1. x \in Live /\ Live' = Live \ {x}
    BY <1>3 DEF Remove, Live, RecTypeOK, Procs
  <2>2. AddrOf[x] \in Addrs
    BY RecordsAssumption
  <2>3. connSize' = Cardinality(Live')
    BY <1>0, <1>3, <2>1, LiveShrinks DEF Remove
  <2>4. addresses[AddrOf[x]] > 0
    BY <1>0, <2>1, <2>2, LiveShrinks
  <2>5. addresses' = [addresses EXCEPT ![AddrOf[x]] = addresses[AddrOf[x]] - 1]
    BY <1>3, <2>4 DEF Remove, Left
  <2>6. \A a \in Addrs : addresses'[a] = Cardinality(LiveAt(a)')
    BY <1>0, <2>1, <2>2, <2>5, LiveShrinks DEF RecTypeOK
  <2>7. NoBadSize'
    BY <1>3, <2>4 DEF Remove, NoBadSize
  <2> QED
    BY <2>3, <2>6, <2>7 DEF CountsRight, LiveAt
<1>4. ASSUME NEW x \in Conns, OnChange(x) PROVE CountsRight' /\ NoBadSize'
  <2>1. Live' = Live
    BY <1>4 DEF OnChange, Live, RecTypeOK, Procs
  <2> QED
    BY <1>4, <1>a, <2>1 DEF OnChange
<1>5. ASSUME NEW x \in Conns, SizeError(x) PROVE CountsRight' /\ NoBadSize'
  <2>1. Live' = Live
    BY <1>5 DEF SizeError, Live, RecTypeOK, Procs
  <2> QED
    BY <1>5, <1>a, <2>1 DEF SizeError
<1>6. ASSUME NEW x \in Conns, TraceChange(x) PROVE CountsRight' /\ NoBadSize'
  <2>1. Live' = Live
    BY <1>6 DEF TraceChange, Live, RecTypeOK, Procs
  <2> QED
    BY <1>6, <1>a, <2>1 DEF TraceChange
<1>7. ASSUME NEW l \in Loggers, LogStep(l) PROVE CountsRight' /\ NoBadSize'
  <2>1. l \notin Conns
    BY RecordsAssumption
  <2>2. \A x \in Conns : at'[x] = at[x]
    BY <1>7, <2>1 DEF LogStep, Log, LogLock, LogWrite, LogSizeError, RecTypeOK, Procs
  <2>3. Live' = Live
    BY <2>2 DEF Live
  <2> QED
    BY <1>7, <1>a, <2>3 DEF LogStep, Log, LogLock, LogWrite, LogSizeError
<1>8. ASSUME NEW x \in Conns, LogError(x) PROVE CountsRight' /\ NoBadSize'
  BY <1>8, <1>a DEF LogError, Live
<1>9. CASE UNCHANGED recState
  BY <1>9, <1>a DEF recState, Live
<1> QED
  BY <1>1, <1>2, <1>3, <1>4, <1>5, <1>6, <1>7, <1>8, <1>9 DEF RecNext, ConnStep

(***************************************************************************)
(* The initial state: no connection is live, every count is zero.          *)
(***************************************************************************)
LEMMA RecordsStart == RecInit => RecordsInv
<1> SUFFICES ASSUME RecInit PROVE RecordsInv
  OBVIOUS
<1>1. RecTypeOK
  <2>1. at \in [Procs -> ConnPc \union LogPc]
    BY DEF RecInit, ConnPc, LogPc
  <2>2. fatal \in BOOLEAN
    BY Zenon DEF RecInit
  <2> QED
    BY <2>1, <2>2 DEF RecInit, RecTypeOK
<1>2. Live = {}
  BY DEF RecInit, Live, Procs
<1>3. CountsRight
  BY <1>2, FS_EmptySet DEF RecInit, CountsRight
<1> QED
  BY <1>1, <1>3 DEF RecInit, RecordsInv, NoBadSize

(***************************************************************************)
(* The records, the mutexes and the table are of their types in every      *)
(* state: Update never makes the count of an address negative.             *)
(***************************************************************************)
THEOREM RecordsTyped == RecSpec => []RecTypeOK
<1>1. RecInit => RecTypeOK
  BY RecordsStart DEF RecordsInv
<1> QED
  BY <1>1, RecTypeStep, PTL DEF RecSpec

(***************************************************************************)
(* ConnRecord: the counts on display are those of the live connections, in *)
(* every state, for any number of connections.                             *)
(***************************************************************************)
THEOREM RecordsCorrect == RecSpec => []CountsRight
<1>1. RecordsInv /\ [RecNext]_recState => RecordsInv'
  BY RecTypeStep, CountsStep DEF RecordsInv
<1>2. RecordsInv => CountsRight
  BY DEF RecordsInv
<1> QED
  BY RecordsStart, <1>1, <1>2, PTL DEF RecSpec

(***************************************************************************)
(* ConnRecord.Update never comes to logrus.Fatal("bad connection size").   *)
(***************************************************************************)
THEOREM NeverBadSize == RecSpec => []NoBadSize
<1>1. RecordsInv /\ [RecNext]_recState => RecordsInv'
  BY RecTypeStep, CountsStep DEF RecordsInv
<1>2. RecordsInv => NoBadSize
  BY DEF RecordsInv
<1> QED
  BY RecordsStart, <1>1, <1>2, PTL DEF RecSpec

(***************************************************************************)
(* ProgressLog: whatever the height of the terminal and the number of      *)
(* addresses, the table leaves a row free.                                 *)
(***************************************************************************)
THEOREM TableAlwaysFits == RecSpec => []TableFits
<1>1. RecInit => TableFits
  BY RecordsAssumption DEF RecInit, TableFits
<1>2. TableFits /\ [RecNext]_recState => TableFits'
  <2> SUFFICES ASSUME TableFits, [RecNext]_recState PROVE TableFits'
    OBVIOUS
  <2>1. Show \/ UNCHANGED outVars
    BY DEF RecNext, ConnStep, LogStep, Lock, Add, Remove, OnChange, SizeError,
           LogError, TraceChange, Log, LogLock, LogWrite, LogSizeError, recState
  <2>2. CASE UNCHANGED outVars
    BY <2>2 DEF TableFits, outVars
  <2> QED
    BY <2>1, <2>2, ShowFits
<1> QED
  BY <1>1, <1>2, PTL DEF RecSpec

-----------------------------------------------------------------------------
(* Address.                                                                *)

\* Comparing an address with the ends of a block, byte by byte from the left,
\* finds exactly the members of the network, for each of the three blocks.
LEMMA PrivateIp ==
  \A ip \in IPv4 : checkIpPrivite(ip) <=> ip = <<127, 0, 0, 1>> \/ InPrivateNet(ip)
<1> SUFFICES ASSUME NEW ip \in IPv4
             PROVE  (\E p \in priviteIps : NotAbove(p.ip1, ip) /\ NotAbove(ip, p.ip2))
                      <=> InPrivateNet(ip)
  BY DEF checkIpPrivite
<1>1. /\ ip[1] \in Byte /\ ip[2] \in Byte /\ ip[3] \in Byte /\ ip[4] \in Byte
  BY DEF IPv4
<1>2. ASSUME NEW x \in IPv4, NEW y \in IPv4
      PROVE  NotAbove(x, y) <=>
               \/ x[1] < y[1]
               \/ x[1] = y[1] /\ x[2] < y[2]
               \/ x[1] = y[1] /\ x[2] = y[2] /\ x[3] < y[3]
               \/ x[1] = y[1] /\ x[2] = y[2] /\ x[3] = y[3] /\ x[4] <= y[4]
  <2>1. x = y <=> x[1] = y[1] /\ x[2] = y[2] /\ x[3] = y[3] /\ x[4] = y[4]
    <3>1. 1 .. 4 = {1, 2, 3, 4}
      OBVIOUS
    <3>2. x = y <=> \A k \in 1 .. 4 : x[k] = y[k]
      BY DEF IPv4
    <3>. QED BY <3>1, <3>2
  <2>2. (\E k \in 1 .. 4 : x[k] < y[k] /\ \A j \in 1 .. k - 1 : x[j] = y[j]) <=>
          \/ x[1] < y[1]
          \/ x[1] = y[1] /\ x[2] < y[2]
          \/ x[1] = y[1] /\ x[2] = y[2] /\ x[3] < y[3]
          \/ x[1] = y[1] /\ x[2] = y[2] /\ x[3] = y[3] /\ x[4] < y[4]
    <3>1. 1 .. 4 = {1, 2, 3, 4} /\ 1 .. 1 - 1 = {} /\ 1 .. 2 - 1 = {1} /\ 1 .. 3 - 1 = {1, 2}
          /\ 1 .. 4 - 1 = {1, 2, 3}
      OBVIOUS
    <3>. QED BY <3>1
  <2>3. x[4] \in Int /\ y[4] \in Int
    BY DEF IPv4, Byte
  <2>. QED BY <2>1, <2>2, <2>3 DEF NotAbove
<1>3. \A a, b, c, d \in Byte : <<a, b, c, d>> \in IPv4
  BY DEF IPv4
<1>7. ASSUME NEW a \in Byte, NEW b \in Byte, NEW c \in Byte, NEW d \in Byte
      PROVE  /\ NotAbove(ip, <<a, b, c, d>>) <=>
                  \/ ip[1] < a
                  \/ ip[1] = a /\ ip[2] < b
                  \/ ip[1] = a /\ ip[2] = b /\ ip[3] < c
                  \/ ip[1] = a /\ ip[2] = b /\ ip[3] = c /\ ip[4] <= d
             /\ NotAbove(<<a, b, c, d>>, ip) <=>
                  \/ a < ip[1]
                  \/ a = ip[1] /\ b < ip[2]
                  \/ a = ip[1] /\ b = ip[2] /\ c < ip[3]
                  \/ a = ip[1] /\ b = ip[2] /\ c = ip[3] /\ d <= ip[4]
  <2>1. <<a, b, c, d>> \in IPv4
    BY <1>3
  <2>2. /\ <<a, b, c, d>>[1] = a /\ <<a, b, c, d>>[2] = b
        /\ <<a, b, c, d>>[3] = c /\ <<a, b, c, d>>[4] = d
    OBVIOUS
  <2>. QED BY <1>2, <2>1, <2>2
<1>4. NotAbove(<<10, 0, 0, 0>>, ip) /\ NotAbove(ip, <<10, 255, 255, 255>>) <=> ip[1] = 10
  BY <1>1, <1>7, SMTT(30) DEF Byte
<1>5. NotAbove(<<172, 16, 0, 0>>, ip) /\ NotAbove(ip, <<172, 31, 255, 255>>)
        <=> ip[1] = 172 /\ ip[2] \div 16 = 1
  <2>1. ip[2] \div 16 = 1 <=> 16 <= ip[2] /\ ip[2] <= 31
    BY <1>1 DEF Byte
  <2>2. NotAbove(<<172, 16, 0, 0>>, ip) <=> (172 < ip[1] \/ (ip[1] = 172 /\ 16 <= ip[2]))
    <3>1. 172 \in Byte /\ 16 \in Byte /\ 0 \in Byte
      BY DEF Byte
    <3>. QED BY <1>1, <1>7, <3>1 DEF Byte
  <2>3. NotAbove(ip, <<172, 31, 255, 255>>) <=> (ip[1] < 172 \/ (ip[1] = 172 /\ ip[2] <= 31))
    <3>1. 172 \in Byte /\ 31 \in Byte /\ 255 \in Byte
      BY DEF Byte
    <3>. QED BY <1>1, <1>7, <3>1 DEF Byte
  <2>. QED BY <1>1, <2>1, <2>2, <2>3 DEF Byte
<1>6. NotAbove(<<192, 168, 0, 0>>, ip) /\ NotAbove(ip, <<192, 168, 255, 255>>)
        <=> ip[1] = 192 /\ ip[2] = 168
  BY <1>1, <1>7, SMTT(30) DEF Byte
<1>. QED BY <1>4, <1>5, <1>6 DEF priviteIps, InPrivateNet

(***************************************************************************)
(* A host is visited by the client itself, and declined by the server, if  *)
(* and only if one of the addresses it resolves to is 127.0.0.1 or lies in *)
(* one of the three private networks; an IPv6 address never counts.        *)
(***************************************************************************)
THEOREM PrivateNets ==
  \A upIPs : checkAddrPrivite(upIPs) <=>
    \E ip \in upIPs \intersect IPv4 : ip = <<127, 0, 0, 1>> \/ InPrivateNet(ip)
<1>1. <<127, 0, 0, 1>> \in IPv4
  <2>1. 127 \in Byte /\ 0 \in Byte /\ 1 \in Byte
    BY DEF Byte
  <2>. QED BY <2>1 DEF IPv4
<1>2. \A ip : checkIpPrivite(ip) => ip \in IPv4
  BY <1>1, Zenon DEF checkIpPrivite
<1>. QED BY <1>2, PrivateIp, Zenon DEF checkAddrPrivite

\* The bytes of a request that is laid out as head, address and port.
LEMMA Laid ==
  ASSUME NEW h \in Seq(Int), NEW a \in Seq(Int), NEW p \in Int, NEW q \in Int,
         NEW r, r = h \o a \o <<p, q>>
  PROVE  /\ Len(r) = Len(h) + Len(a) + 2
         /\ \A i \in 1 .. Len(h) : r[i] = h[i]
         /\ \A i \in 1 .. Len(a) : r[Len(h) + i] = a[i]
         /\ r[Len(h) + Len(a) + 1] = p
         /\ r[Len(h) + Len(a) + 2] = q
OBVIOUS

(***************************************************************************)
(* ParseHeader reads from a complete request the address and the port that *)
(* were put in it, for each of the three types of address.                 *)
(***************************************************************************)
THEOREM RequestParsed ==
  \A atyp \in {1, 3, 4} : \A addr \in Addr(atyp) : \A port \in Port16 :
    ParseHeader(Request(atyp, addr, port)) = [err |-> "nil", host |-> addr, port |-> port]
<1> SUFFICES ASSUME NEW atyp \in {1, 3, 4}, NEW addr \in Addr(atyp), NEW port \in Port16
             PROVE  ParseHeader(Request(atyp, addr, port)) =
                      [err |-> "nil", host |-> addr, port |-> port]
  OBVIOUS
<1> DEFINE h == IF atyp = 3 THEN <<5, 1, 0, 3, Len(addr)>> ELSE <<5, 1, 0, atyp>>
           p == port \div 256
           q == port % 256
           r == h \o addr \o <<p, q>>
           b == Buffer(r)
<1>1. /\ addr \in Seq(Byte)
      /\ Len(addr) \in Nat /\ 1 <= Len(addr) /\ Len(addr) < 256
      /\ atyp = 1 => Len(addr) = 4
      /\ atyp = 4 => Len(addr) = 16
  <2>1. /\ addr \in Seq(Byte)
        /\ atyp = 1 => Len(addr) = 4
        /\ atyp = 4 => Len(addr) = 16
        /\ atyp = 3 => Len(addr) \in Byte \ {0}
    BY Zenon DEF Addr
  <2>2. Len(addr) \in Nat
    BY <2>1
  <2>3. Len(addr) \in Byte \ {0} => 1 <= Len(addr) /\ Len(addr) < 256
    BY <2>2 DEF Byte
  <2>4. atyp # 3 => Len(addr) = 4 \/ Len(addr) = 16
    BY <2>1, Zenon
  <2>5. 1 <= Len(addr) /\ Len(addr) < 256
    <3>1. CASE Len(addr) = 4
      BY <3>1
    <3>2. CASE Len(addr) = 16
      BY <3>2
    <3>3. CASE atyp = 3
      BY <2>1, <2>3, <3>3, Zenon
    <3>. QED BY <2>4, <3>1, <3>2, <3>3
  <2>. QED BY <2>1, <2>2, <2>5, Zenon
<1>2. /\ h \in Seq(Int) /\ h[4] = atyp
      /\ atyp = 3 => Len(h) = 5 /\ h[5] = Len(addr)
      /\ atyp # 3 => Len(h) = 4
  BY <1>1
<1>3. p \in Int /\ q \in Int /\ p * 256 + q = port
  BY DEF Port16
<1>4. addr \in Seq(Int)
  BY <1>1 DEF Byte
<1>5. Request(atyp, addr, port) = r
  BY DEF Request
<1> HIDE DEF h, p, q, r
<1>6. /\ Len(r) = Len(h) + Len(addr) + 2
      /\ \A i \in 1 .. Len(h) : r[i] = h[i]
      /\ \A i \in 1 .. Len(addr) : r[Len(h) + i] = addr[i]
      /\ r[Len(h) + Len(addr) + 1] = p
      /\ r[Len(h) + Len(addr) + 2] = q
  <2>1. h \in Seq(Int)
    BY <1>2
  <2>2. p \in Int /\ q \in Int
    BY <1>3
  <2>3. r = h \o addr \o <<p, q>>
    BY DEF r
  <2>. QED BY <1>4, <2>1, <2>2, <2>3, Laid, SMTT(30)
<1>7. Len(h) \in {4, 5}
  BY <1>2
<1>8. Len(r) \in Nat /\ 7 <= Len(r) /\ Len(r) <= 262
  <2>1. Len(r) = Len(h) + Len(addr) + 2
    BY <1>6
  <2>2. Len(addr) \in Nat /\ 1 <= Len(addr) /\ Len(addr) < 256
    BY <1>1
  <2>3. CASE Len(h) = 4
    BY <2>1, <2>2, <2>3
  <2>4. CASE Len(h) = 5
    BY <2>1, <2>2, <2>4
  <2>. QED BY <1>7, <2>3, <2>4
<1>9. ASSUME NEW i \in Nat, i < Len(r) PROVE b[i] = r[i + 1]
  <2>1. i \in 0 .. BufferSize - 1
    <3>1. BufferSize = 1024
      BY DEF BufferSize
    <3>. QED BY <1>8, <1>9, <3>1
  <2>. QED BY <1>9, <2>1 DEF Buffer
<1> HIDE DEF b
<1>10. AddrStart(b) = Len(h) /\ AddrLen(b) = Len(addr)
  <2>1. r[4] = h[4] /\ (atyp = 3 => r[5] = h[5])
    BY <1>2, <1>6, <1>7
  <2>2. b[3] = atyp
    <3>1. 3 \in Nat /\ 3 < Len(r) /\ 3 + 1 = 4
      BY <1>8
    <3>. QED BY <1>2, <1>9, <2>1, <3>1
  <2>3. atyp = 3 => b[4] = Len(addr)
    <3>1. 4 \in Nat /\ 4 < Len(r) /\ 4 + 1 = 5
      BY <1>8
    <3>. QED BY <1>2, <1>9, <2>1, <3>1
  <2>. QED BY <1>1, <1>2, <2>2, <2>3 DEF AddrStart, AddrLen
<1>11. ASSUME NEW j \in 1 .. Len(addr) PROVE b[Len(h) + j - 1] = addr[j]
  <2>1. /\ Len(h) + j - 1 \in Nat /\ Len(h) + j - 1 < Len(r)
        /\ (Len(h) + j - 1) + 1 = Len(h) + j
    BY <1>1, <1>6, <1>7
  <2>. QED BY <1>6, <1>9, <2>1
<1>12. Host(r) = addr
  <2>1. Host(r) = [j \in 1 .. Len(addr) |-> b[Len(h) + j - 1]]
    BY <1>10 DEF Host, b
  <2>2. addr = [j \in 1 .. Len(addr) |-> addr[j]]
    BY <1>1
  <2>. QED BY <1>11, <2>1, <2>2
<1>13. Port(r) = port
  <2>1. /\ Len(r) - 2 \in Nat /\ Len(r) - 2 < Len(r) /\ (Len(r) - 2) + 1 = Len(h) + Len(addr) + 1
        /\ Len(r) - 1 \in Nat /\ Len(r) - 1 < Len(r) /\ (Len(r) - 1) + 1 = Len(h) + Len(addr) + 2
    BY <1>1, <1>6, <1>7, <1>8
  <2>2. b[Len(r) - 2] = p /\ b[Len(r) - 1] = q
    BY <1>6, <1>9, <2>1
  <2>3. Port(r) = p * 256 + q
    BY <2>2 DEF Port, b
  <2>. QED BY <1>3, <2>3
<1>14. ~(Len(r) < 6)
  BY <1>8
<1>. QED BY <1>5, <1>12, <1>13, <1>14 DEF ParseHeader

(***************************************************************************)
(* Whatever ParseHeader has read, of six bytes or more, the address and    *)
(* the port lie within the buffer: neither ReadAtLeast nor the slice       *)
(* buffer[n-2:n] can fail.                                                 *)
(***************************************************************************)
THEOREM ReadsInBounds ==
  \A r \in Seq(Byte) : 6 <= Len(r) /\ Len(r) <= BufferSize =>
    /\ AddrStart(Buffer(r)) + AddrLen(Buffer(r)) <= BufferSize
    /\ Len(r) - 2 \in DOMAIN Buffer(r)
    /\ Port(r) \in Port16
<1> SUFFICES ASSUME NEW r \in Seq(Byte), 6 <= Len(r), Len(r) <= BufferSize
             PROVE  /\ AddrStart(Buffer(r)) + AddrLen(Buffer(r)) <= BufferSize
                    /\ Len(r) - 2 \in DOMAIN Buffer(r)
                    /\ Port(r) \in Port16
  OBVIOUS
<1> DEFINE b == Buffer(r)
<1>0. BufferSize = 1024
  BY DEF BufferSize
<1>1. ASSUME NEW i \in 0 .. BufferSize - 1 PROVE b[i] \in Byte
  <2>1. b[i] = IF i < Len(r) THEN r[i + 1] ELSE 0
    BY DEF Buffer
  <2>2. i < Len(r) => i + 1 \in 1 .. Len(r)
    BY <1>0
  <2>3. i < Len(r) => r[i + 1] \in Byte
    BY <2>2
  <2>4. 0 \in Byte
    BY DEF Byte
  <2>. QED BY <2>1, <2>3, <2>4
<1>2. DOMAIN b = 0 .. BufferSize - 1
  BY DEF Buffer
<1> HIDE DEF b
<1>3. AddrStart(b) + AddrLen(b) <= BufferSize
  <2>1. 4 \in 0 .. BufferSize - 1
    BY <1>0
  <2>2. b[4] \in Nat /\ b[4] < 256
    BY <1>1, <2>1 DEF Byte
  <2>. QED BY <1>0, <2>2 DEF AddrStart, AddrLen
<1>4. Len(r) - 2 \in 0 .. BufferSize - 1 /\ Len(r) - 1 \in 0 .. BufferSize - 1
  <2>1. Len(r) \in Nat
    OBVIOUS
  <2>2. BufferSize \in Nat
    BY <1>0
  <2>. QED BY <2>1, <2>2
<1>5. Port(r) \in Port16
  <2>1. b[Len(r) - 2] \in Byte /\ b[Len(r) - 1] \in Byte
    BY <1>1, <1>4
  <2>2. Port(r) = b[Len(r) - 2] * 256 + b[Len(r) - 1]
    BY DEF Port, b
  <2>. QED BY <2>1, <2>2, SMTT(30) DEF Byte, Port16
<1>. QED BY <1>2, <1>3, <1>4, <1>5 DEF b
=============================================================================
