----------------------------- MODULE ClientLife -----------------------------
(***************************************************************************)
(* The life of the client process: StartClient spawns its tasks (a reader  *)
(* of every websocket, the heartbeat, the listener for socks5              *)
(* connections), Wait waits for them, and whichever task ends first runs   *)
(* closeAll to end the others.  An interrupt runs NotifyClose, which waits *)
(* for the active connections first; closeAll and NotifyClose share a      *)
(* sync.Once.  A second interrupt ends the process.                        *)
(*                                                                         *)
(* What a connection does is module ClientConn; here it is accepted,       *)
(* active, and over.                                                       *)
(***************************************************************************)
EXTENDS Integers

CONSTANTS
  N,        \* websockets
  Conns,    \* connections that applications make
  Faults    \* which of LifeFaults may happen

(***************************************************************************)
(* break: a websocket breaks, or the server closes it.  early: it may do   *)
(* so while StartClient is still at work.  listen: the local address       *)
(* cannot be listened on.                                                  *)
(***************************************************************************)
LifeFaults == {"break", "early", "listen"}

ASSUME LifeAssumption == N \in Nat \ {0} /\ Faults \subseteq LifeFaults

Chans == 1 .. N

\* The tasks of the wait group: readers, heartbeat, listener.
Tasks == Chans \union {0, -1}
Beat == 0
Listener == -1

VARIABLES
  main,        \* where StartClient and Wait are
  task,        \* where the tasks are
  ws,          \* the websockets: "up", "lost" (it broke), "closed" (by the client)
  hbClosed,    \* hdl.hb: "nil", or whether it is closed
  stop,        \* hdl.cl: "nil", or whether it is closed
  tcpl,        \* the listener: "nil", "open", "closed"
  once,        \* the sync.Once: "free", "running", "done"
  closer,      \* where the function is that the Once runs
  waits,       \* that function waits for the active connections
  interrupts,  \* number of interrupts
  notify,      \* where NotifyClose is
  closed,      \* hdl.closed
  conns,       \* where the connections are
  counted      \* the active connections when Client.Close was called to wait
               \* (a history variable)

objVars == <<hbClosed, stop, tcpl>>
onceVars == <<once, closer, waits, counted>>
sigVars == <<interrupts, notify, closed>>
vars == <<main, task, ws, objVars, onceVars, sigVars, conns>>

Init ==
  /\ main = "readers"
  /\ task = [t \in Tasks |-> "none"]
  /\ ws = [c \in Chans |-> "up"]
  /\ hbClosed = "nil"
  /\ stop = "nil"
  /\ tcpl = "nil"
  /\ once = "free"
  /\ closer = "none"
  /\ waits = FALSE
  /\ interrupts = 0
  /\ notify = "none"
  /\ closed = TRUE
  /\ conns = [x \in Conns |-> "new"]
  /\ counted = {}

\* The process runs.
Up == main # "exit"

-----------------------------------------------------------------------------
(* StartClient and Wait.                                                   *)

\* The loop that spawns the readers.
StartReader(c) ==
  /\ main = "readers"
  /\ task[c] = "none"
  /\ \A d \in 1 .. c - 1 : task[d] # "none"
  /\ task' = [task EXCEPT ![c] = "run"]
  /\ main' = IF c = N THEN "beat" ELSE main
  /\ UNCHANGED <<ws, objVars, onceVars, sigVars, conns>>

\* hdl.hb is set, the heartbeat is spawned.
StartBeat ==
  /\ main = "beat"
  /\ main' = "client"
  /\ hbClosed' = "no"
  /\ task' = [task EXCEPT ![Beat] = "run"]
  /\ UNCHANGED <<ws, stop, tcpl, onceVars, sigVars, conns>>

\* hdl.cl is set, the listener is spawned, hdl.closed is cleared.
StartListener ==
  /\ main = "client"
  /\ main' = "wait"
  /\ stop' = "no"
  /\ task' = [task EXCEPT ![Listener] = "listen"]
  /\ closed' = FALSE
  /\ UNCHANGED <<ws, hbClosed, tcpl, onceVars, interrupts, notify, conns>>

\* hdl.wg.Wait returns.
Exit ==
  /\ main = "wait"
  /\ \A t \in Tasks : task[t] = "done"
  /\ main' = "exit"
  /\ UNCHANGED <<task, ws, objVars, onceVars, sigVars, conns>>

-----------------------------------------------------------------------------
(* The tasks.                                                              *)

\* ListenIncomeMsg returns: its websocket is gone, or closed.
ReaderEnds(c) ==
  /\ Up
  /\ task[c] = "run"
  /\ ws[c] # "up"
  /\ task' = [task EXCEPT ![c] = "once"]
  /\ UNCHANGED <<main, ws, objVars, onceVars, sigVars, conns>>

\* HeartBeat.Start returns: its context is cancelled, or the write to the last
\* websocket of a round fails (an error of another websocket is overwritten).
BeatEnds ==
  /\ Up
  /\ task[Beat] = "run"
  /\ hbClosed = "yes" \/ ws[N] # "up"
  /\ task' = [task EXCEPT ![Beat] = "once"]
  /\ UNCHANGED <<main, ws, objVars, onceVars, sigVars, conns>>

\* net.Listen.
Listen ==
  /\ Up
  /\ task[Listener] = "listen"
  /\ tcpl' = "open"
  /\ task' = [task EXCEPT ![Listener] = "check"]
  /\ UNCHANGED <<main, ws, hbClosed, stop, onceVars, sigVars, conns>>

ListenFails ==
  /\ Up
  /\ "listen" \in Faults
  /\ task[Listener] = "listen"
  /\ task' = [task EXCEPT ![Listener] = "once"]
  /\ UNCHANGED <<main, ws, objVars, onceVars, sigVars, conns>>

\* Mutant of Stopped: the loop does not look at stop.
StoppedNever == FALSE

\* The loop of ListenAndServe finds stop closed.
Stopped == stop = "yes"

ListenCheck ==
  /\ Up
  /\ task[Listener] = "check"
  /\ task' = [task EXCEPT ![Listener] = IF Stopped THEN "once" ELSE "accept"]
  /\ UNCHANGED <<main, ws, objVars, onceVars, sigVars, conns>>

\* tcpl.Accept returns a connection; its goroutine is spawned.
Accept(x) ==
  /\ Up
  /\ task[Listener] = "accept"
  /\ tcpl = "open"
  /\ conns[x] = "new"
  /\ conns' = [conns EXCEPT ![x] = "reply"]
  /\ task' = [task EXCEPT ![Listener] = "check"]
  /\ UNCHANGED <<main, ws, objVars, onceVars, sigVars>>

AcceptFails ==
  /\ Up
  /\ task[Listener] = "accept"
  /\ tcpl = "closed"
  /\ task' = [task EXCEPT ![Listener] = "once"]
  /\ UNCHANGED <<main, ws, objVars, onceVars, sigVars, conns>>

\* The deferred once.Do(closeAll) of a task: the first one runs closeAll ...
TaskCloses(t) ==
  /\ Up
  /\ task[t] = "once"
  /\ once = "free"
  /\ once' = "running"
  /\ closer' = "client"
  /\ waits' = FALSE
  /\ task' = [task EXCEPT ![t] = "closing"]
  /\ UNCHANGED <<main, ws, objVars, counted, sigVars, conns>>

\* ... the others return, but not before it has returned.
TaskEnds(t) ==
  /\ Up
  /\ task[t] \in {"once", "closing"}
  /\ once = "done"
  /\ task' = [task EXCEPT ![t] = "done"]
  /\ UNCHANGED <<main, ws, objVars, onceVars, sigVars, conns>>

-----------------------------------------------------------------------------
(* What the Once runs: closeAll, or the function of NotifyClose.           *)

\* Mutant of Active: wgClose counts nothing.
NoneActive == {}

\* The connections that wgClose counts.
Active == {x \in Conns : conns[x] \in {"active", "local", "half"}}

\* Client.Close, if there is a client, closes stop.  (A second call would
\* return at once; the Once sees to it that there is none.)
CloseStop ==
  /\ Up
  /\ once = "running"
  /\ closer = "client"
  /\ IF stop = "nil"
       THEN closer' = "beat" /\ UNCHANGED <<stop, counted>>
       ELSE /\ stop' = "yes"
            /\ closer' = "listener"
            /\ counted' = IF waits
                            THEN {x \in Conns : conns[x] \in {"active", "local", "half"}}
                            ELSE {}
  /\ UNCHANGED <<main, task, ws, hbClosed, tcpl, once, waits, sigVars, conns>>

\* Mutant of CloseListener: the listener is left as it is.
CloseListenerNot ==
  /\ Up
  /\ once = "running"
  /\ closer = "listener"
  /\ closer' = IF waits THEN "conns" ELSE "beat"
  /\ UNCHANGED <<main, task, ws, objVars, once, waits, counted, sigVars, conns>>

\* It closes the listener, if there is one.
CloseListener ==
  /\ Up
  /\ once = "running"
  /\ closer = "listener"
  /\ tcpl' = IF tcpl = "open" THEN "closed" ELSE tcpl
  /\ closer' = IF waits THEN "conns" ELSE "beat"
  /\ UNCHANGED <<main, task, ws, hbClosed, stop, once, waits, counted, sigVars, conns>>

\* wgClose.Wait, in Client.Close.
WaitActive ==
  /\ Up
  /\ once = "running"
  /\ closer = "conns"
  /\ Active = {}
  /\ closer' = "beat"
  /\ UNCHANGED <<main, task, ws, objVars, once, waits, counted, sigVars, conns>>

\* HeartBeat.Close, if there is one.
CloseBeat ==
  /\ Up
  /\ once = "running"
  /\ closer = "beat"
  /\ hbClosed' = IF hbClosed = "nil" THEN "nil" ELSE "yes"
  /\ closer' = "websockets"
  /\ UNCHANGED <<main, task, ws, stop, tcpl, once, waits, counted, sigVars, conns>>

\* Mutant of FirstUp: the last websocket is not closed.
FirstUpButLast(c) == c < N /\ \A d \in 1 .. c - 1 : ws[d] # "up"

\* The websocket that the loop over hdl.wsc is at.
FirstUp(c) == \A d \in 1 .. c - 1 : ws[d] # "up"

\* WebSocketClient.Close of the websockets, one after the other.
CloseWebsocket(c) ==
  /\ Up
  /\ once = "running"
  /\ closer = "websockets"
  /\ ws[c] = "up"
  /\ FirstUp(c)
  /\ ws' = [ws EXCEPT ![c] = "closed"]
  /\ UNCHANGED <<main, task, objVars, onceVars, sigVars, conns>>

CloseEnds ==
  /\ Up
  /\ once = "running"
  /\ closer = "websockets"
  /\ \A c \in Chans : ~FirstUp(c) \/ ws[c] # "up"
  /\ once' = "done"
  /\ closer' = "end"
  /\ UNCHANGED <<main, task, ws, objVars, waits, counted, sigVars, conns>>

-----------------------------------------------------------------------------
(* Interrupts.                                                             *)

\* The first one spawns NotifyClose, the second one is os.Exit.
Interrupt ==
  /\ main = "wait"
  /\ interrupts < 2
  /\ interrupts' = interrupts + 1
  /\ IF interrupts = 0
       THEN notify' = "check" /\ UNCHANGED main
       ELSE main' = "exit" /\ UNCHANGED notify
  /\ UNCHANGED <<task, ws, objVars, onceVars, closed, conns>>

\* NotifyClose looks at hdl.closed and sets it.
NotifyCheck ==
  /\ Up
  /\ notify = "check"
  /\ notify' = IF closed THEN "end" ELSE "once"
  /\ closed' = TRUE
  /\ UNCHANGED <<main, task, ws, objVars, onceVars, interrupts, conns>>

NotifyCloses ==
  /\ Up
  /\ notify = "once"
  /\ once = "free"
  /\ once' = "running"
  /\ closer' = "client"
  /\ waits' = TRUE
  /\ notify' = "end"
  /\ UNCHANGED <<main, task, ws, objVars, counted, interrupts, closed, conns>>

NotifyEnds ==
  /\ Up
  /\ notify = "once"
  /\ once = "done"
  /\ notify' = "end"
  /\ UNCHANGED <<main, task, ws, objVars, onceVars, interrupts, closed, conns>>

-----------------------------------------------------------------------------
(* Connections and websockets.                                             *)

\* Reply is through: from here on wgClose counts the connection.  Its target is
\* reached through the server (transData), or is private (localVisit).
Replied(x) ==
  /\ Up
  /\ conns[x] = "reply"
  /\ conns' \in {[conns EXCEPT ![x] = where] : where \in {"active", "local"}}
  /\ UNCHANGED <<main, task, ws, objVars, onceVars, sigVars>>

\* localVisit copies both ways without the websockets: one of its two
\* CopyBuffers returns, then the other (by the deadline of its read, if need be).
LocalCopyEnds(x) ==
  /\ Up
  /\ conns[x] \in {"local", "half"}
  /\ conns' = [conns EXCEPT ![x] = IF @ = "local" THEN "half" ELSE "over"]
  /\ UNCHANGED <<main, task, ws, objVars, onceVars, sigVars>>

\* It cannot dial the target.
LocalDialFails(x) ==
  /\ Up
  /\ conns[x] = "local"
  /\ conns' = [conns EXCEPT ![x] = "over"]
  /\ UNCHANGED <<main, task, ws, objVars, onceVars, sigVars>>

\* Reply fails, or the connection comes to its end.
ConnEnds(x) ==
  /\ Up
  /\ conns[x] \in {"reply", "active"}
  /\ conns' = [conns EXCEPT ![x] = "over"]
  /\ UNCHANGED <<main, task, ws, objVars, onceVars, sigVars>>

\* A connection fails because a websocket is down.
ConnCut(x) ==
  /\ Up
  /\ conns[x] = "active"
  /\ \E c \in Chans : ws[c] # "up"
  /\ conns' = [conns EXCEPT ![x] = "cut"]
  /\ UNCHANGED <<main, task, ws, objVars, onceVars, sigVars>>

Break(c) ==
  /\ Up
  /\ "break" \in Faults
  /\ main = "wait" \/ "early" \in Faults
  /\ ws[c] = "up"
  /\ ws' = [ws EXCEPT ![c] = "lost"]
  /\ UNCHANGED <<main, task, objVars, onceVars, sigVars, conns>>

-----------------------------------------------------------------------------
StartStep == (\E c \in Chans : StartReader(c)) \/ StartBeat \/ StartListener \/ Exit

ListenerStep == Listen \/ ListenFails \/ ListenCheck \/ AcceptFails

TaskStep(t) == TaskCloses(t) \/ TaskEnds(t)

CloserStep ==
  \/ CloseStop \/ CloseListener \/ WaitActive \/ CloseBeat
  \/ \E c \in Chans : CloseWebsocket(c)
  \/ CloseEnds

NotifyStep == NotifyCheck \/ NotifyCloses \/ NotifyEnds

Next ==
  \/ StartStep
  \/ \E c \in Chans : ReaderEnds(c) \/ Break(c)
  \/ BeatEnds
  \/ ListenerStep
  \/ \E t \in Tasks : TaskStep(t)
  \/ CloserStep
  \/ Interrupt
  \/ NotifyStep
  \/ \E x \in Conns :
       Accept(x) \/ Replied(x) \/ ConnEnds(x) \/ ConnCut(x) \/ LocalCopyEnds(x)
         \/ LocalDialFails(x)

Spec == Init /\ [][Next]_vars

(***************************************************************************)
(* The scheduler runs what is ready, the heartbeat ticks, and a connection *)
(* ends some time.  That is an assumption on the peers: the five-minute    *)
(* timers end a connection that is idle, but a write to a peer that does   *)
(* not read has no deadline.  Nobody has to connect or to press CTRL+C.    *)
(***************************************************************************)
Fairness ==
  /\ WF_vars(StartStep)
  /\ \A c \in Chans : WF_vars(ReaderEnds(c))
  /\ WF_vars(BeatEnds)
  /\ WF_vars(ListenerStep)
  /\ \A t \in Tasks : WF_vars(TaskStep(t))
  /\ WF_vars(CloserStep)
  /\ WF_vars(NotifyStep)
  /\ \A x \in Conns : WF_vars(ConnEnds(x) \/ ConnCut(x) \/ LocalCopyEnds(x))

FairSpec == Spec /\ Fairness

-----------------------------------------------------------------------------
TypeOK ==
  /\ main \in {"readers", "beat", "client", "wait", "exit"}
  /\ task \in [Tasks -> {"none", "run", "listen", "check", "accept", "once", "closing",
                         "done"}]
  /\ ws \in [Chans -> {"up", "lost", "closed"}]
  /\ hbClosed \in {"nil", "no", "yes"}
  /\ stop \in {"nil", "no", "yes"}
  /\ tcpl \in {"nil", "open", "closed"}
  /\ once \in {"free", "running", "done"}
  /\ closer \in {"none", "client", "listener", "conns", "beat", "websockets", "end"}
  /\ waits \in BOOLEAN
  /\ interrupts \in 0 .. 2
  /\ notify \in {"none", "check", "once", "end"}
  /\ closed \in BOOLEAN
  /\ conns \in [Conns -> {"new", "reply", "active", "local", "half", "over", "cut"}]
  /\ counted \subseteq Conns

(***************************************************************************)
(* "One of tasks error, exit immediately": when a task ends and the Once   *)
(* is still there to run closeAll, all tasks end and Wait returns.  (A     *)
(* task that ends while StartClient is at work may use the Once up before  *)
(* there is a heartbeat and a client to close.)                            *)
(***************************************************************************)
ErrorExits ==
  (main = "wait" /\ once = "free" /\ \E t \in Tasks : task[t] = "once") ~> (main = "exit")

(***************************************************************************)
(* "Press CTRL+C, it will wait active connection to finish": a connection  *)
(* that is active when Client.Close starts to wait is not cut off by the   *)
(* client: if no websocket is lost, none is closed before it is over, and  *)
(* the process does not end by itself before that, be the connection one   *)
(* through the server or a local visit.                                    *)
(***************************************************************************)
InterruptWaits ==
  /\ (\E x \in counted : conns[x] = "cut") => \E c \in Chans : ws[c] = "lost"
  /\ main = "exit" /\ interrupts < 2 => counted \intersect Active = {}

(***************************************************************************)
(* Once Client.Close is through with the listener no connection is         *)
(* accepted, also if Close came before net.Listen: ListenAndServe looks at *)
(* stop before every Accept.  The listener itself is another matter, see   *)
(* ListenerClosed and ListenerGone.                                        *)
(***************************************************************************)
NoLateAccept ==
  [][ stop = "yes" /\ closer # "listener" =>
        \A x \in Conns : conns[x] = "new" => conns'[x] = "new" ]_vars

(***************************************************************************)
(* "Close stops listening on the TCP address" (the comment of Close).      *)
(* This does not hold: when Close comes before net.Listen has returned it  *)
(* finds no listener to close, and ListenAndServe returns StoppedError     *)
(* without closing the one it has opened.                                  *)
(***************************************************************************)
ListenerClosed ==
  stop = "yes" /\ closer \notin {"client", "listener"} => tcpl # "open"

(***************************************************************************)
(* What does hold: after Client.Close the listener is closed in the end,   *)
(* or the process ends, and the listener with it.                          *)
(***************************************************************************)
ListenerGone == stop = "yes" ~> (tcpl = "closed" \/ main = "exit")

(***************************************************************************)
(* CTRL+C ends the client, however it meets with errors of the tasks, if   *)
(* the Once is still there or has found the client it has to close.  (If a *)
(* task used it up before, only the second CTRL+C ends the process.)       *)
(***************************************************************************)
InterruptExits ==
  (interrupts > 0 /\ (once = "free" \/ stop = "yes")) ~> (main = "exit")
=============================================================================
