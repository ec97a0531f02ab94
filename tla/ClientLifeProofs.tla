-------------------------- MODULE ClientLifeProofs --------------------------
(***************************************************************************)
(* Proofs about ClientLife, for every number of websockets and every set   *)
(* of connections: an interrupt does not cut off the connections that it   *)
(* waits for, and a client that has been told to stop accepts nothing; and *)
(* about BufferedWR, for any number of bytes: nothing is lost or reordered *)
(* between Write and Read, and no reader ends before its first byte.       *)
(***************************************************************************)
EXTENDS ClientLife, BufferedWR, SequenceTheorems, TLAPS

-----------------------------------------------------------------------------
(***************************************************************************)
(* Why an interrupt waits.  There is one run of the Once, and where it is  *)
(* says what has been closed: the websockets come last, behind the wait    *)
(* for the connections that wgClose counts.                                *)
(***************************************************************************)

\* The Once, and the function that it runs.
OneRun ==
  /\ once = "free" <=> closer = "none"
  /\ once = "done" <=> closer = "end"
  /\ \A t \in Tasks : task[t] = "done" => once = "done"
  /\ main = "exit" /\ interrupts < 2 => once = "done"

\* The websockets are closed last.
ClosedLast == \A c \in Chans : ws[c] = "closed" => closer \in {"websockets", "end"}

\* What the function waits for: connections that were active when Client.Close
\* was called, so that they do not become active once they are over.
Counting ==
  /\ closer \in {"none", "client"} \/ ~waits => counted = {}
  /\ \A x \in counted : conns[x] \notin {"new", "reply"}
  /\ closer \in {"beat", "websockets", "end"} => counted \intersect Active = {}
  /\ \A x \in counted : conns[x] = "cut" => \E c \in Chans : ws[c] = "lost"

WaitInv == TypeOK /\ OneRun /\ ClosedLast /\ Counting

(***************************************************************************)
(* Why nothing is accepted after stop: the loop of ListenAndServe goes     *)
(* back to Accept only if it finds stop open, and whoever is in Accept     *)
(* when stop is closed has a listener, which is closed next.               *)
(***************************************************************************)
Listening ==
  /\ main \in {"readers", "beat", "client"} => stop = "nil" /\ task[Listener] = "none"
  /\ task[Listener] \in {"check", "accept"} => tcpl # "nil"
  /\ stop = "yes" => closer \notin {"none", "client"}
  /\ stop = "yes" /\ closer # "listener" /\ task[Listener] = "accept" => tcpl = "closed"

\* Init establishes the invariants.
LEMMA LifeInit == Init => WaitInv /\ Listening
<1> USE LifeAssumption DEF Init, Tasks, Chans, Beat, Listener
<1>1. ASSUME Init PROVE TypeOK
  <2>1. task \in [Tasks -> {"none", "run", "listen", "check", "accept", "once", "closing",
                          "done"}]
    BY <1>1
  <2>2. ws \in [Chans -> {"up", "lost", "closed"}]
    BY <1>1
  <2>3. conns \in [Conns -> {"new", "reply", "active", "local", "half", "over", "cut"}]
    BY <1>1
  <2>4. interrupts \in 0 .. 2 /\ counted \subseteq Conns
    BY <1>1
  <2>5. waits \in BOOLEAN /\ closed \in BOOLEAN
    BY <1>1, Zenon
  <2> HIDE DEF Tasks, Chans
  <2>. QED BY <1>1, <2>1, <2>2, <2>3, <2>4, <2>5 DEF TypeOK
<1>2. Init => OneRun /\ ClosedLast /\ Counting /\ Listening
  BY Zenon DEF OneRun, ClosedLast, Counting, Listening, Active
<1>. QED BY <1>1, <1>2, Zenon DEF WaitInv

-----------------------------------------------------------------------------
(* One step at a time.                                                     *)

USE LifeAssumption DEF objVars, onceVars, sigVars, Tasks, Chans, Beat, Listener

\* Every step keeps the types.
LEMMA TypeStep ==
  ASSUME TypeOK, [Next]_vars
  PROVE  TypeOK'
<1> USE DEF TypeOK
<1>1. ASSUME NEW c \in Chans, StartReader(c) PROVE TypeOK'
  BY <1>1 DEF StartReader
<1>2. CASE StartBeat
  BY <1>2 DEF StartBeat
<1>3. CASE StartListener
  BY <1>3, ZenonT(30) DEF StartListener
<1>4. CASE Exit
  BY <1>4 DEF Exit
<1>5. ASSUME NEW c \in Chans, ReaderEnds(c) PROVE TypeOK'
  BY <1>5 DEF ReaderEnds
<1>6. CASE BeatEnds
  BY <1>6 DEF BeatEnds
<1>7. CASE Listen
  BY <1>7 DEF Listen
<1>8. CASE ListenFails
  BY <1>8 DEF ListenFails
<1>9. CASE ListenCheck
  BY <1>9 DEF ListenCheck, Stopped
<1>10. CASE AcceptFails
  BY <1>10 DEF AcceptFails
<1>11. ASSUME NEW t \in Tasks, TaskCloses(t) PROVE TypeOK'
  BY <1>11, ZenonT(30) DEF TaskCloses
<1>12. ASSUME NEW t \in Tasks, TaskEnds(t) PROVE TypeOK'
  BY <1>12 DEF TaskEnds
<1>13. CASE CloseStop
  BY <1>13 DEF CloseStop
<1>14. CASE CloseListener
  BY <1>14 DEF CloseListener
<1>15. CASE WaitActive
  BY <1>15 DEF WaitActive
<1>16. CASE CloseBeat
  BY <1>16 DEF CloseBeat
<1>17. ASSUME NEW c \in Chans, CloseWebsocket(c) PROVE TypeOK'
  BY <1>17 DEF CloseWebsocket
<1>18. CASE CloseEnds
  BY <1>18 DEF CloseEnds
<1>19. CASE Interrupt
  BY <1>19 DEF Interrupt
<1>20. CASE NotifyCheck
  BY <1>20 DEF NotifyCheck
<1>21. CASE NotifyCloses
  BY <1>21 DEF NotifyCloses
<1>22. CASE NotifyEnds
  BY <1>22 DEF NotifyEnds
<1>23. ASSUME NEW x \in Conns, Accept(x) PROVE TypeOK'
  BY <1>23 DEF Accept
<1>24. ASSUME NEW x \in Conns, Replied(x) PROVE TypeOK'
  BY <1>24 DEF Replied
<1>25. ASSUME NEW x \in Conns, LocalCopyEnds(x) PROVE TypeOK'
  BY <1>25 DEF LocalCopyEnds
<1>26. ASSUME NEW x \in Conns, LocalDialFails(x) PROVE TypeOK'
  BY <1>26 DEF LocalDialFails
<1>27. ASSUME NEW x \in Conns, ConnEnds(x) PROVE TypeOK'
  BY <1>27 DEF ConnEnds
<1>28. ASSUME NEW x \in Conns, ConnCut(x) PROVE TypeOK'
  BY <1>28 DEF ConnCut
<1>29. ASSUME NEW c \in Chans, Break(c) PROVE TypeOK'
  BY <1>29 DEF Break
<1>30. CASE UNCHANGED vars
  BY <1>30 DEF vars
<1>. QED BY <1>1, <1>2, <1>3, <1>4, <1>5, <1>6, <1>7, <1>8, <1>9, <1>10, <1>11,
      <1>12, <1>13, <1>14, <1>15, <1>16, <1>17, <1>18, <1>19, <1>20, <1>21,
      <1>22, <1>23, <1>24, <1>25, <1>26, <1>27, <1>28, <1>29, <1>30, Zenon
   DEF Next, StartStep, ListenerStep, TaskStep, CloserStep, NotifyStep

\* A task is done, and Wait returns, only when the function of the Once has
\* returned.
LEMMA OneRunStep ==
  ASSUME TypeOK, OneRun, [Next]_vars
  PROVE  OneRun'
<1> USE DEF TypeOK, OneRun
<1>1. ASSUME NEW c \in Chans, StartReader(c) PROVE OneRun'
  BY <1>1 DEF StartReader
<1>2. CASE StartBeat
  BY <1>2 DEF StartBeat
<1>3. CASE StartListener
  BY <1>3 DEF StartListener
<1>4. CASE Exit
  BY <1>4 DEF Exit
<1>5. ASSUME NEW c \in Chans, ReaderEnds(c) PROVE OneRun'
  BY <1>5 DEF ReaderEnds
<1>6. CASE BeatEnds
  BY <1>6 DEF BeatEnds
<1>7. CASE Listen
  BY <1>7 DEF Listen
<1>8. CASE ListenFails
  BY <1>8 DEF ListenFails
<1>9. CASE ListenCheck
  BY <1>9, Zenon DEF ListenCheck, Stopped
<1>10. CASE AcceptFails
  BY <1>10 DEF AcceptFails
<1>11. ASSUME NEW t \in Tasks, TaskCloses(t) PROVE OneRun'
  BY <1>11 DEF TaskCloses
<1>12. ASSUME NEW t \in Tasks, TaskEnds(t) PROVE OneRun'
  BY <1>12 DEF TaskEnds
<1>13. CASE CloseStop
  BY <1>13 DEF CloseStop
<1>14. CASE CloseListener
  BY <1>14 DEF CloseListener
<1>15. CASE WaitActive
  BY <1>15 DEF WaitActive
<1>16. CASE CloseBeat
  BY <1>16 DEF CloseBeat
<1>17. CASE CloseEnds
  BY <1>17 DEF CloseEnds
<1>18. CASE Interrupt
  BY <1>18 DEF Interrupt
<1>19. CASE NotifyCloses
  BY <1>19 DEF NotifyCloses
<1>20. ASSUME NEW x \in Conns, Accept(x) PROVE OneRun'
  BY <1>20 DEF Accept
<1>21.
  ASSUME \/ UNCHANGED vars \/ (\E c \in Chans : CloseWebsocket(c))
         \/ NotifyCheck \/ NotifyEnds \/ (\E x \in Conns : Replied(x))
         \/ (\E x \in Conns : LocalCopyEnds(x))
         \/ (\E x \in Conns : LocalDialFails(x))
         \/ (\E x \in Conns : ConnEnds(x)) \/ (\E x \in Conns : ConnCut(x))
         \/ (\E c \in Chans : Break(c))
  PROVE  OneRun'
  <2>1. UNCHANGED <<once, closer, task, main, interrupts>>
    BY <1>21, Zenon DEF CloseWebsocket, NotifyCheck, NotifyEnds, Replied,
      LocalCopyEnds, LocalDialFails, ConnEnds, ConnCut, Break, vars
  <2>. QED BY <2>1, Zenon
<1>. QED BY <1>1, <1>2, <1>3, <1>4, <1>5, <1>6, <1>7, <1>8, <1>9, <1>10, <1>11,
      <1>12, <1>13, <1>14, <1>15, <1>16, <1>17, <1>18, <1>19, <1>20, <1>21
   DEF Next, StartStep, ListenerStep, TaskStep, CloserStep, NotifyStep

\* A websocket is closed when the function has come to the websockets.
LEMMA ClosedLastStep ==
  ASSUME TypeOK, OneRun, ClosedLast, [Next]_vars
  PROVE  ClosedLast'
<1> USE DEF TypeOK, OneRun, ClosedLast
<1>1. ASSUME NEW t \in Tasks, TaskCloses(t) PROVE ClosedLast'
  BY <1>1 DEF TaskCloses
<1>2. CASE CloseStop
  BY <1>2 DEF CloseStop
<1>3. CASE CloseListener
  BY <1>3 DEF CloseListener
<1>4. CASE WaitActive
  BY <1>4 DEF WaitActive
<1>5. CASE CloseBeat
  BY <1>5 DEF CloseBeat
<1>6. ASSUME NEW c \in Chans, CloseWebsocket(c) PROVE ClosedLast'
  BY <1>6 DEF CloseWebsocket
<1>7. CASE CloseEnds
  BY <1>7 DEF CloseEnds
<1>8. CASE NotifyCloses
  BY <1>8 DEF NotifyCloses
<1>9. ASSUME NEW c \in Chans, Break(c) PROVE ClosedLast'
  BY <1>9 DEF Break
<1>10.
  ASSUME \/ UNCHANGED vars \/ (\E c \in Chans : StartReader(c)) \/ StartBeat
         \/ StartListener \/ Exit \/ (\E c \in Chans : ReaderEnds(c))
         \/ BeatEnds \/ Listen \/ ListenFails \/ ListenCheck \/ AcceptFails
         \/ (\E t \in Tasks : TaskEnds(t)) \/ Interrupt \/ NotifyCheck
         \/ NotifyEnds \/ (\E x \in Conns : Accept(x))
         \/ (\E x \in Conns : Replied(x))
         \/ (\E x \in Conns : LocalCopyEnds(x))
         \/ (\E x \in Conns : LocalDialFails(x))
         \/ (\E x \in Conns : ConnEnds(x)) \/ (\E x \in Conns : ConnCut(x))
  PROVE  ClosedLast'
  <2>1. UNCHANGED <<ws, closer>>
    BY <1>10, Zenon DEF StartReader, StartBeat, StartListener, Exit, ReaderEnds,
      BeatEnds, Listen, ListenFails, ListenCheck, Stopped, AcceptFails,
      TaskEnds, Interrupt, NotifyCheck, NotifyEnds, Accept, Replied,
      LocalCopyEnds, LocalDialFails, ConnEnds, ConnCut, vars
  <2>. QED BY <2>1, Zenon
<1>. QED BY <1>1, <1>2, <1>3, <1>4, <1>5, <1>6, <1>7, <1>8, <1>9, <1>10
   DEF Next, StartStep, ListenerStep, TaskStep, CloserStep, NotifyStep

\* The connections that are waited for end, or are cut off by a lost
\* websocket, before the function goes on.
LEMMA CountingStep ==
  ASSUME TypeOK, OneRun, ClosedLast, Counting, [Next]_vars
  PROVE  Counting'
<1> USE DEF TypeOK, OneRun, ClosedLast, Counting, Active
<1>1. ASSUME NEW t \in Tasks, TaskCloses(t) PROVE Counting'
  BY <1>1 DEF TaskCloses
<1>2. CASE CloseStop
  BY <1>2 DEF CloseStop
<1>3. CASE CloseListener
  BY <1>3 DEF CloseListener
<1>4. CASE WaitActive
  BY <1>4 DEF WaitActive
<1>5. CASE CloseBeat
  BY <1>5 DEF CloseBeat
<1>6. ASSUME NEW c \in Chans, CloseWebsocket(c) PROVE Counting'
  BY <1>6 DEF CloseWebsocket
<1>7. CASE CloseEnds
  BY <1>7, Zenon DEF CloseEnds
<1>8. CASE NotifyCloses
  BY <1>8, Zenon DEF NotifyCloses
<1>9. ASSUME NEW x \in Conns, Accept(x) PROVE Counting'
  BY <1>9 DEF Accept
<1>10. ASSUME NEW x \in Conns, Replied(x) PROVE Counting'
  BY <1>10 DEF Replied
<1>11. ASSUME NEW x \in Conns, LocalCopyEnds(x) PROVE Counting'
  BY <1>11 DEF LocalCopyEnds
<1>12. ASSUME NEW x \in Conns, LocalDialFails(x) PROVE Counting'
  BY <1>12 DEF LocalDialFails
<1>13. ASSUME NEW x \in Conns, ConnEnds(x) PROVE Counting'
  BY <1>13 DEF ConnEnds
<1>14. ASSUME NEW x \in Conns, ConnCut(x) PROVE Counting'
  BY <1>14 DEF ConnCut
<1>15. ASSUME NEW c \in Chans, Break(c) PROVE Counting'
  BY <1>15 DEF Break
<1>16.
  ASSUME \/ UNCHANGED vars \/ (\E c \in Chans : StartReader(c)) \/ StartBeat
         \/ StartListener \/ Exit \/ (\E c \in Chans : ReaderEnds(c))
         \/ BeatEnds \/ Listen \/ ListenFails \/ ListenCheck \/ AcceptFails
         \/ (\E t \in Tasks : TaskEnds(t)) \/ Interrupt \/ NotifyCheck
         \/ NotifyEnds
  PROVE  Counting'
  <2>1. UNCHANGED <<ws, closer, conns, counted, waits>>
    BY <1>16, Zenon DEF StartReader, StartBeat, StartListener, Exit, ReaderEnds,
      BeatEnds, Listen, ListenFails, ListenCheck, Stopped, AcceptFails,
      TaskEnds, Interrupt, NotifyCheck, NotifyEnds, vars
  <2>. QED BY <2>1, Zenon
<1>. QED BY <1>1, <1>2, <1>3, <1>4, <1>5, <1>6, <1>7, <1>8, <1>9, <1>10, <1>11,
      <1>12, <1>13, <1>14, <1>15, <1>16, Zenon
   DEF Next, StartStep, ListenerStep, TaskStep, CloserStep, NotifyStep

\* The loop of the listener enters Accept only while stop is open.
LEMMA ListeningStep ==
  ASSUME TypeOK, OneRun, Listening, [Next]_vars
  PROVE  Listening'
<1> USE DEF TypeOK, OneRun, Listening
<1>1. ASSUME NEW c \in Chans, StartReader(c) PROVE Listening'
  BY <1>1 DEF StartReader
<1>2. CASE StartBeat
  BY <1>2 DEF StartBeat
<1>3. CASE StartListener
  BY <1>3 DEF StartListener
<1>4. CASE Exit
  BY <1>4 DEF Exit
<1>5. ASSUME NEW c \in Chans, ReaderEnds(c) PROVE Listening'
  BY <1>5 DEF ReaderEnds
<1>6. CASE BeatEnds
  BY <1>6 DEF BeatEnds
<1>7. CASE Listen
  BY <1>7 DEF Listen
<1>8. CASE ListenFails
  BY <1>8 DEF ListenFails
<1>9. CASE ListenCheck
  BY <1>9 DEF ListenCheck, Stopped
<1>10. CASE AcceptFails
  BY <1>10 DEF AcceptFails
<1>11. ASSUME NEW t \in Tasks, TaskCloses(t) PROVE Listening'
  BY <1>11 DEF TaskCloses
<1>12. ASSUME NEW t \in Tasks, TaskEnds(t) PROVE Listening'
  BY <1>12 DEF TaskEnds
<1>13. CASE CloseStop
  BY <1>13 DEF CloseStop
<1>14. CASE CloseListener
  BY <1>14 DEF CloseListener
<1>15. CASE WaitActive
  BY <1>15 DEF WaitActive
<1>16. CASE CloseBeat
  BY <1>16 DEF CloseBeat
<1>17. CASE CloseEnds
  BY <1>17 DEF CloseEnds
<1>18. CASE Interrupt
  BY <1>18 DEF Interrupt
<1>19. CASE NotifyCloses
  BY <1>19 DEF NotifyCloses
<1>20. ASSUME NEW x \in Conns, Accept(x) PROVE Listening'
  BY <1>20 DEF Accept
<1>21.
  ASSUME \/ UNCHANGED vars \/ (\E c \in Chans : CloseWebsocket(c))
         \/ NotifyCheck \/ NotifyEnds \/ (\E x \in Conns : Replied(x))
         \/ (\E x \in Conns : LocalCopyEnds(x))
         \/ (\E x \in Conns : LocalDialFails(x))
         \/ (\E x \in Conns : ConnEnds(x)) \/ (\E x \in Conns : ConnCut(x))
         \/ (\E c \in Chans : Break(c))
  PROVE  Listening'
  <2>1. UNCHANGED <<main, task, stop, tcpl, closer>>
    BY <1>21 DEF CloseWebsocket, NotifyCheck, NotifyEnds, Replied,
      LocalCopyEnds, LocalDialFails, ConnEnds, ConnCut, Break, vars
  <2>. QED BY <2>1, Zenon
<1>. QED BY <1>1, <1>2, <1>3, <1>4, <1>5, <1>6, <1>7, <1>8, <1>9, <1>10, <1>11,
      <1>12, <1>13, <1>14, <1>15, <1>16, <1>17, <1>18, <1>19, <1>20, <1>21, Zenon
   DEF Next, StartStep, ListenerStep, TaskStep, CloserStep, NotifyStep

-----------------------------------------------------------------------------
(***************************************************************************)
(* The invariants hold whenever the tasks end, the Once runs and the       *)
(* interrupts come.                                                        *)
(***************************************************************************)
THEOREM LifeInvariant == Spec => [](WaitInv /\ Listening)
<1>1. WaitInv /\ Listening /\ [Next]_vars => WaitInv' /\ Listening'
  BY TypeStep, OneRunStep, ClosedLastStep, CountingStep, ListeningStep DEF WaitInv
<1>. QED BY LifeInit, <1>1, PTL DEF Spec

(***************************************************************************)
(* CTRL+C waits: a connection that Client.Close counts is cut off only if  *)
(* a websocket is lost, and the process does not end by itself before it,  *)
(* for any number of websockets and connections.                           *)
(***************************************************************************)
THEOREM Waits == Spec => []InterruptWaits
<1>1. WaitInv => InterruptWaits
  BY DEF WaitInv, OneRun, Counting, InterruptWaits
<1>. QED BY LifeInvariant, <1>1, PTL

(***************************************************************************)
(* Once Client.Close is through with the listener no step accepts a        *)
(* connection.                                                             *)
(***************************************************************************)
THEOREM AcceptsNothing == Spec => NoLateAccept
<1> DEFINE Refuses ==
      stop = "yes" /\ closer # "listener" =>
        \A x \in Conns : conns[x] = "new" => conns'[x] = "new"
<1>1. ASSUME WaitInv, Listening, [Next]_vars
      PROVE  Refuses
  <2> USE DEF WaitInv, TypeOK
  <2>1. ASSUME NEW x \in Conns, Accept(x) PROVE Refuses
    BY <1>1, <2>1 DEF Accept, Listening
  <2>2. ASSUME NEW x \in Conns, Replied(x) PROVE Refuses
    BY <1>1, <2>2 DEF Replied
  <2>3. ASSUME NEW x \in Conns, LocalCopyEnds(x) PROVE Refuses
    BY <1>1, <2>3 DEF LocalCopyEnds
  <2>4. ASSUME NEW x \in Conns, LocalDialFails(x) PROVE Refuses
    BY <1>1, <2>4 DEF LocalDialFails
  <2>5. ASSUME NEW x \in Conns, ConnEnds(x) PROVE Refuses
    BY <1>1, <2>5 DEF ConnEnds
  <2>6. ASSUME NEW x \in Conns, ConnCut(x) PROVE Refuses
    BY <1>1, <2>6 DEF ConnCut
  <2>7. CASE UNCHANGED conns
    BY <2>7
  <2>. QED BY <1>1, <2>1, <2>2, <2>3, <2>4, <2>5, <2>6, <2>7, Zenon
    DEF Next, StartStep, ListenerStep, TaskStep, CloserStep, NotifyStep, vars,
        StartReader,
        StartBeat, StartListener, Exit, ReaderEnds, BeatEnds, Listen,
        ListenFails, ListenCheck, AcceptFails, TaskCloses, TaskEnds, CloseStop,
        CloseListener, WaitActive, CloseBeat, CloseWebsocket, CloseEnds,
        Interrupt, NotifyCheck, NotifyCloses, NotifyEnds, Break
<1>. QED BY LifeInvariant, <1>1, PTL DEF Spec, NoLateAccept

-----------------------------------------------------------------------------
(* BufferedWR.                                                             *)

(***************************************************************************)
(* Why nothing is lost: the bytes that were read and the bytes in the      *)
(* buffer number on from each other.                                       *)
(***************************************************************************)
Numbered ==
  /\ Len(got) + Len(buffer) = written
  /\ \A i \in 1 .. Len(got) : got[i] = i
  /\ \A j \in 1 .. Len(buffer) : buffer[j] = Len(got) + j

\* Write holds the mutex until it has stored its byte.
Guarded ==
  /\ mu <=> wpc # "idle"
  /\ wpc # "idle" => written < MaxBytes

\* A reader that got nothing yet, and has a token or needs none, finds a byte:
\* the token was left for one that is in the buffer or about to be stored.
FirstByte ==
  ~done /\ got = << >> =>
    /\ token = 1 \/ rpc = "lock" => buffer # << >> \/ wpc = "store"
    /\ ~eof

BufferInv == BufTypeOK /\ Numbered /\ Guarded /\ FirstByte

-----------------------------------------------------------------------------
(* Sequences of bytes.                                                     *)

Bytes == 1 .. MaxBytes

\* What buffer.Write adds.
LEMMA AppendBytes ==
  ASSUME NEW S, NEW s \in Seq(S), NEW e \in S
  PROVE  /\ Append(s, e) \in Seq(S) /\ Append(s, e) # << >>
         /\ Len(s) \in Nat /\ Len(Append(s, e)) = Len(s) + 1
         /\ \A j \in 1 .. Len(s) : Append(s, e)[j] = s[j]
         /\ Append(s, e)[Len(s) + 1] = e
BY AppendProperties, LenProperties, EmptySeq

\* What buffer.Read moves from one sequence to the other.
LEMMA MoveBytes ==
  ASSUME NEW S, NEW g \in Seq(S), NEW b \in Seq(S), NEW n \in Nat, n >= 1, n <= Len(b)
  PROVE  LET h == g \o SubSeq(b, 1, n)
             r == SubSeq(b, n + 1, Len(b))
         IN  /\ h \in Seq(S) /\ r \in Seq(S)
             /\ Len(h) = Len(g) + n /\ Len(r) = Len(b) - n
             /\ \A i \in 1 .. Len(g) : h[i] = g[i]
             /\ \A i \in 1 .. n : h[Len(g) + i] = b[i]
             /\ \A i \in 1 .. Len(b) - n : r[i] = b[n + i]
<1> DEFINE m == SubSeq(b, 1, n)
           r == SubSeq(b, n + 1, Len(b))
<1>1. Len(g) \in Nat /\ Len(b) \in Nat /\ \A i \in 1 .. Len(b) : b[i] \in S
  BY LenProperties, ElementOfSeq
<1>2. m \in Seq(S) /\ Len(m) = n /\ \A i \in 1 .. n : m[i] = b[i]
  <2>1. \A i \in 1 .. n : b[i] \in S
    BY <1>1
  <2>2. /\ m \in Seq(S) /\ Len(m) = IF 1 <= n THEN n - 1 + 1 ELSE 0
        /\ \A i \in 1 .. n - 1 + 1 : m[i] = b[1 + i - 1]
    BY <2>1, SubSeqProperties
  <2>. QED BY <2>2
<1>3. r \in Seq(S) /\ Len(r) = Len(b) - n /\ \A i \in 1 .. Len(b) - n : r[i] = b[n + i]
  <2>1. \A i \in n + 1 .. Len(b) : b[i] \in S
    BY <1>1
  <2>2. /\ r \in Seq(S)
        /\ Len(r) = IF n + 1 <= Len(b) THEN Len(b) - (n + 1) + 1 ELSE 0
        /\ \A i \in 1 .. Len(b) - (n + 1) + 1 : r[i] = b[n + 1 + i - 1]
    BY <1>1, <2>1, SubSeqProperties
  <2>. QED BY <1>1, <2>2
<1> HIDE DEF m, r
<1>4. /\ g \o m \in Seq(S) /\ Len(g \o m) = Len(g) + n
      /\ \A i \in 1 .. Len(g) + n : (g \o m)[i] = IF i <= Len(g) THEN g[i] ELSE m[i - Len(g)]
  BY <1>2, ConcatProperties, ZenonT(30)
<1>5. \A i \in 1 .. n : (g \o m)[Len(g) + i] = b[i]
  BY <1>1, <1>2, <1>4
<1>6. \A i \in 1 .. Len(g) : (g \o m)[i] = g[i]
  BY <1>1, <1>4
<1>. QED BY <1>3, <1>4, <1>5, <1>6, Zenon DEF m, r

-----------------------------------------------------------------------------
(* One step at a time.                                                     *)

\* A new buffer is empty.
LEMMA BufferInit == BufInit => BufferInv
<1> USE BufferAssumption DEF BufInit
<1>1. BufInit => buffer \in Seq(1 .. MaxBytes) /\ got \in Seq(1 .. MaxBytes)
  OBVIOUS
<1>2. BufInit => off \in BOOLEAN /\ done \in BOOLEAN /\ mu \in BOOLEAN
  BY Zenon
<1>3. BufInit => torn \in BOOLEAN /\ eof \in BOOLEAN
  BY Zenon
<1>4. BufInit => Numbered /\ Guarded /\ FirstByte
  BY DEF Numbered, Guarded, FirstByte
<1>. QED BY <1>1, <1>2, <1>3, <1>4 DEF BufferInv, BufTypeOK

\* Write and Read hand the bytes on in order, and the token with them.
LEMMA BufferStep ==
  ASSUME BufferInv, [BufNext]_bufState
  PROVE  BufferInv'
<1> USE BufferAssumption
<1>a. BufTypeOK /\ Numbered /\ Guarded /\ FirstByte
  BY DEF BufferInv
<1>b. buffer \in Seq(Bytes) /\ got \in Seq(Bytes)
  BY <1>a DEF BufTypeOK, Bytes
<1>c. written \in Nat /\ written <= MaxBytes
  BY <1>a DEF BufTypeOK
<1>0. /\ Len(buffer) \in Nat /\ Len(got) \in Nat
      /\ (buffer = << >>) <=> (Len(buffer) = 0)
      /\ (got = << >>) <=> (Len(got) = 0)
  BY <1>b, LenProperties, EmptySeq
<1>1. CASE Close
  BY <1>a, <1>1 DEF Close, BufferInv, BufTypeOK, Numbered, Guarded, FirstByte
<1>2. CASE Write
  BY <1>a, <1>2 DEF Write, WriteNext, BufferInv, BufTypeOK, Numbered, Guarded, FirstByte
<1>3. CASE Notify
  BY <1>a, <1>3 DEF Notify, BufferInv, BufTypeOK, Numbered, Guarded, FirstByte
<1>4. CASE Store
  <2>1. /\ wpc' = "idle" /\ mu' = FALSE /\ written' = written + 1
        /\ buffer' = Append(buffer, written + 1)
        /\ UNCHANGED <<token, done, rpc, got, torn, eof>>
    BY <1>4 DEF Store, Stored
  <2>2. off' \in BOOLEAN
    BY <1>a, <1>4, Zenon DEF Store, BufTypeOK
  <2>3. written + 1 \in Bytes /\ written + 1 <= MaxBytes
    BY <1>a, <1>c, <1>4 DEF Store, Guarded, Bytes
  <2>8. buffer' \in Seq(Bytes) /\ buffer' # << >>
    BY <1>b, <2>1, <2>3, AppendBytes
  <2>4. /\ Len(buffer') = Len(buffer) + 1
        /\ \A j \in 1 .. Len(buffer) : buffer'[j] = buffer[j]
        /\ buffer'[Len(buffer) + 1] = written + 1
    BY <1>b, <2>1, <2>3, AppendBytes
  <2>5. Numbered'
    <3>1. /\ Len(got) + Len(buffer) = written
          /\ \A j \in 1 .. Len(buffer) : buffer[j] = Len(got) + j
      BY <1>a DEF Numbered
    <3>2. got' = got /\ Len(got') + Len(buffer') = written'
      BY <1>0, <1>c, <2>1, <2>4, <3>1
    <3>3. \A j \in 1 .. Len(buffer') : buffer'[j] = Len(got') + j
      <4>1. ASSUME NEW j \in 1 .. Len(buffer') PROVE buffer'[j] = Len(got) + j
        <5>1. CASE j \in 1 .. Len(buffer)
          BY <2>4, <3>1, <5>1
        <5>2. CASE j = Len(buffer) + 1
          <6>1. buffer'[j] = written + 1 /\ written = Len(got) + Len(buffer)
            BY <2>4, <3>1, <5>2
          <6>. QED BY <1>0, <5>2, <6>1
        <5>. QED BY <1>0, <2>4, <5>1, <5>2
      <4>. QED BY <3>2, <4>1
    <3>. QED BY <1>a, <3>2, <3>3 DEF Numbered
  <2>6. Guarded' /\ FirstByte'
    BY <1>a, <2>1, <2>8 DEF Guarded, FirstByte
  <2>7. BufTypeOK'
    <3>1. written' \in 0 .. MaxBytes
      BY <1>c, <2>1, <2>3
    <3>. QED BY <1>a, <2>1, <2>2, <2>8, <3>1, Zenon DEF BufTypeOK, Bytes
  <2>. QED BY <2>5, <2>6, <2>7 DEF BufferInv
<1>5. CASE Look
  <2>1. /\ UNCHANGED <<buffer, off, token, done, mu, wpc, written, got, eof>>
        /\ rpc' \in {"wait", "lock"}
        /\ rpc' = "lock" => buffer # << >>
        /\ torn' \in BOOLEAN
    BY <1>a, <1>5, Zenon DEF Look, BufTypeOK
  <2>2. Numbered' /\ Guarded' /\ FirstByte'
    BY <1>a, <2>1 DEF Numbered, Guarded, FirstByte
  <2>3. BufTypeOK'
    <3>1. rpc' \in {"idle", "wait", "lock"}
      BY <2>1
    <3>. QED BY <1>a, <2>1, <3>1, Zenon DEF BufTypeOK
  <2>. QED BY <2>2, <2>3 DEF BufferInv
<1>6. CASE Wait
  BY <1>a, <1>6 DEF Wait, BufferInv, BufTypeOK, Numbered, Guarded, FirstByte
<1>7. ASSUME NEW n \in 1 .. MaxBytes, Read(n) PROVE BufferInv'
  <2>1. /\ rpc = "lock" /\ ~mu /\ rpc' = "idle"
        /\ UNCHANGED <<token, done, mu, wpc, written, torn>>
        /\ eof' = (done \/ buffer = << >>)
    BY <1>7 DEF Read
  <2>2. CASE eof'
    <3>1. UNCHANGED <<buffer, off, got>>
      BY <1>7, <2>2 DEF Read
    <3>2. Numbered' /\ Guarded'
      BY <1>a, <2>1, <3>1 DEF Numbered, Guarded
    <3>3. FirstByte'
      BY <1>a, <2>1, <3>1, Zenon DEF FirstByte, Guarded
    <3>4. BufTypeOK'
      BY <1>a, <2>1, <3>1 DEF BufTypeOK
    <3>. QED BY <3>2, <3>3, <3>4 DEF BufferInv
  <2>3. CASE ~eof'
    <3>1. /\ n <= Len(buffer) /\ off' = TRUE
          /\ got' = got \o SubSeq(buffer, 1, n)
          /\ buffer' = SubSeq(buffer, n + 1, Len(buffer))
      BY <1>7, <2>3 DEF Read
    <3>8. n \in Nat /\ n >= 1
      OBVIOUS
    <3>9. got' \in Seq(Bytes) /\ buffer' \in Seq(Bytes)
      BY <1>b, <3>1, <3>8, MoveBytes
    <3>2. /\ Len(got') = Len(got) + n /\ Len(buffer') = Len(buffer) - n
          /\ \A i \in 1 .. Len(got) : got'[i] = got[i]
          /\ \A i \in 1 .. n : got'[Len(got) + i] = buffer[i]
          /\ \A i \in 1 .. Len(buffer) - n : buffer'[i] = buffer[n + i]
      BY <1>b, <3>1, <3>8, MoveBytes
    <3>3. \A i \in 1 .. Len(got') : got'[i] = i
      <4>. SUFFICES ASSUME NEW i \in 1 .. Len(got') PROVE got'[i] = i
        OBVIOUS
      <4>1. CASE i <= Len(got)
        <5>1. i \in 1 .. Len(got)
          BY <1>0, <3>2, <4>1
        <5>. QED BY <1>a, <3>2, <5>1 DEF Numbered
      <4>2. CASE i > Len(got)
        <5>1. i - Len(got) \in 1 .. n /\ i = Len(got) + (i - Len(got))
          BY <1>0, <3>2, <4>2
        <5>. QED BY <1>0, <1>a, <3>1, <3>2, <5>1 DEF Numbered
      <4>. QED BY <1>0, <3>2, <4>1, <4>2
    <3>4. Numbered'
      <4>1. \A j \in 1 .. Len(buffer') : buffer'[j] = Len(got') + j
        BY <1>0, <1>a, <3>1, <3>2 DEF Numbered
      <4>2. Len(got) + Len(buffer) = written /\ written' = written
        BY <1>a, <2>1 DEF Numbered
      <4>3. Len(got') + Len(buffer') = written'
        <5>1. Len(got') = Len(got) + n /\ Len(buffer') = Len(buffer) - n
          BY <3>2
        <5>. QED BY <1>0, <1>c, <3>8, <4>2, <5>1
      <4>. QED BY <3>3, <4>1, <4>3 DEF Numbered
    <3>5. got' # << >>
      BY <1>0, <3>2, EmptySeq
    <3>6. Guarded' /\ FirstByte'
      BY <1>a, <2>1, <3>5 DEF Guarded, FirstByte
    <3>7. BufTypeOK'
      BY <1>a, <2>1, <2>3, <3>1, <3>9, Zenon DEF BufTypeOK, Bytes
    <3>. QED BY <3>4, <3>6, <3>7 DEF BufferInv
  <2>. QED BY <2>2, <2>3
<1>8. CASE UNCHANGED bufState
  BY <1>a, <1>8 DEF bufState, BufferInv, BufTypeOK, Numbered, Guarded, FirstByte
<1>. QED BY <1>1, <1>2, <1>3, <1>4, <1>5, <1>6, <1>7, <1>8 DEF BufNext, WriterStep,
     ReaderStep

-----------------------------------------------------------------------------
(***************************************************************************)
(* What was read and what is in the buffer is what was written, in order,  *)
(* and a reader of an open buffer does not see io.EOF before its first     *)
(* byte, although it looks at the buffer without the mutex.                *)
(***************************************************************************)
THEOREM NoByteLost == BufSpec => []NothingLost
<1>1. ASSUME BufferInv PROVE NothingLost
  <2> USE DEF BufferInv, BufTypeOK
  <2> DEFINE all == [i \in 1 .. written |-> i]
  <2>1. /\ Len(got) \in Nat /\ Len(buffer) \in Nat /\ written \in Nat
        /\ (got = << >>) <=> (Len(got) = 0)
    BY <1>1, LenProperties, EmptySeq
  <2>2. /\ got \o buffer \in Seq(1 .. MaxBytes) /\ Len(got \o buffer) = written
        /\ \A i \in 1 .. written :
             (got \o buffer)[i] = IF i <= Len(got) THEN got[i] ELSE buffer[i - Len(got)]
    BY <1>1, ConcatProperties DEF Numbered
  <2>3. \A i \in 1 .. written : (got \o buffer)[i] = i
    BY <1>1, <2>1, <2>2 DEF Numbered
  <2>4. all \in Seq(1 .. written) /\ Len(all) = written /\ \A i \in 1 .. written : all[i] = i
    BY <2>1, IsASeq
  <2>5. all \in Seq(1 .. MaxBytes)
    BY <1>1, <2>1, BufferAssumption, IsASeq
  <2> HIDE DEF all
  <2>6. got \o buffer = all
    BY <2>2, <2>3, <2>4, <2>5, SeqEqual, Zenon
  <2>7. eof /\ ~done => Len(got) > 0
    BY <1>1, <2>1 DEF FirstByte
  <2>. QED BY <2>6, <2>7 DEF NothingLost, all
<1>. QED BY BufferInit, BufferStep, <1>1, PTL DEF BufSpec
=============================================================================
