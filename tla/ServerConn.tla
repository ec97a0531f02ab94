----------------------------- MODULE ServerConn -----------------------------
(***************************************************************************)
(* One proxied connection on the server: how the N + 1 messages that open  *)
(* it, each handled by the goroutine of its websocket, the goroutine that  *)
(* runs establishProxy, the two Send goroutines and the messages that end  *)
(* it share the queue hub, the link hub and the connection pool.           *)
(*                                                                         *)
(* What the Send loops do with the data is module Transfer; here a Send is *)
(* its guard, its status and its done channel.  A step of this module is   *)
(* what the code does under one lock of a hub, or one access to a field    *)
(* that no lock protects (status of a queue or link, status of             *)
(* DefaultProxyEst).                                                       *)
(*                                                                         *)
(* The websockets are named 1 .. N, 1 carries the master id.               *)
(***************************************************************************)
EXTENDS Integers, Sequences, FiniteSets

CONSTANTS
  N,        \* websockets of the client, the length of "sorted"
  Faults    \* which of ServerFaults may happen

(***************************************************************************)
(* dialFail: the address is private or the dial fails.  loseHi: SayID      *)
(* failed on a websocket, which the client ignores.  clientClose: the      *)
(* client sends a close message.  break: the master websocket breaks.      *)
(* silent: the target neither sends nor closes, the timers are far off.    *)
(***************************************************************************)
ServerFaults == {"dialFail", "loseHi", "clientClose", "break", "silent"}

ASSUME ServerAssumption == N \in Nat \ {0} /\ Faults \subseteq ServerFaults

Chans == 1 .. N

\* The queues and the links of the master id that the hubs make one after the
\* other: each is made for one of the N Hi messages or for the Est message.
Objs == 1 .. N + 1

\* Queues and links have the same life: made, spawned, closed, waited for.
Kinds == {"queue", "link"}

\* A Send goroutine is spawned by Add of a hub or by TrySend.
Spawners == {"add", "try"}

VARIABLES
  inbox,     \* messages that a websocket has yet to deliver
  rpc,       \* where the reader of a websocket is in its handler
  cur,       \* the queue and the master link in the hubs, 0 for none
  made,      \* number of queues and of master links made
  sorted,    \* those whose order is set
  status,    \* their status
  closes,    \* how often their buffer was closed
  send,      \* where their Send goroutines are
  over,      \* those whose done channel is closed
  writers,   \* queue.writers
  counter,   \* link.counter
  lConn,     \* the master links whose conn is set
  children,  \* the other links in the link hub
  ePc,       \* where establishProxy is
  writer,    \* the queue that establish waits for
  conn,      \* the connection to the target
  waitPc,    \* where the goroutine is that waits for the link
  waitLink,  \* the link that it waits for
  estClosed, \* DefaultProxyEst.status is "closed"
  pool,      \* the connection is in connPool of its Hub
  hubLock,   \* Hub.Close holds the mutex of connPool
  silent,    \* nothing comes from the target, nor from the client
  crashed    \* the panic that ended the server, if any

readVars == <<inbox, rpc>>
hubVars  == <<cur, made, sorted, status, closes, writers, counter, lConn, children>>
sendVars == <<send, over>>
estVars  == <<ePc, writer, conn, waitPc, waitLink>>
poolVars == <<estClosed, pool, hubLock>>
vars == <<readVars, hubVars, sendVars, estVars, poolVars, silent, crashed>>

Status == {"wait", "send", "done", "close"}
SendPc == {"none", "check", "set", "run", "done", "gone"}

\* The messages of websocket 1: Hi, Est and perhaps Close, or a part of them
\* and then the end of the websocket.
MasterInbox ==
  LET said == {<<"hi", "est">>} \union
              (IF "clientClose" \in Faults THEN {<<"hi", "est", "close">>} ELSE {})
  IN  said \union
      (IF "break" \in Faults
         THEN UNION {{Append(SubSeq(s, 1, i), "break") : i \in 0 .. Len(s)} : s \in said}
         ELSE {})

Inboxes(c) ==
  IF c = 1 THEN MasterInbox
  ELSE {<<"hi">>} \union (IF "loseHi" \in Faults THEN {<< >>} ELSE {})

Init ==
  /\ inbox \in [Chans -> UNION {Inboxes(c) : c \in Chans}]
  /\ \A c \in Chans : inbox[c] \in Inboxes(c)
  /\ rpc = [c \in Chans |-> "idle"]
  /\ cur = [k \in Kinds |-> 0]
  /\ made = [k \in Kinds |-> 0]
  /\ sorted = [k \in Kinds |-> {}]
  /\ status = [k \in Kinds |-> [g \in Objs |-> "wait"]]
  /\ closes = [k \in Kinds |-> [g \in Objs |-> 0]]
  /\ send = [k \in Kinds |-> [g \in Objs |-> [x \in Spawners |-> "none"]]]
  /\ over = [k \in Kinds |-> {}]
  /\ writers = [g \in Objs |-> {}]
  /\ counter = [g \in Objs |-> 0]
  /\ lConn = {}
  /\ children = {}
  /\ ePc = "none"
  /\ writer = 0
  /\ conn = "none"
  /\ waitPc = "none"
  /\ waitLink = 0
  /\ estClosed = FALSE
  /\ pool = FALSE
  /\ hubLock = FALSE
  /\ silent \in (IF "silent" \in Faults THEN BOOLEAN ELSE {FALSE})
  /\ crashed = "no"

-----------------------------------------------------------------------------
(* The hubs.                                                               *)

\* The server runs, the step does not end it.
Running == crashed = "no" /\ UNCHANGED <<silent, crashed>>

\* The entry of the master id: the one in the hub, or a new one.
Entry(k) == IF cur[k] = 0 THEN made[k] + 1 ELSE cur[k]

\* The hub holds that entry afterwards.
Hold(k) ==
  /\ cur' = [cur EXCEPT ![k] = Entry(k)]
  /\ made' = [made EXCEPT ![k] = IF cur[k] = 0 THEN @ + 1 ELSE @]

\* len(sorted) of an entry.
SortedLen(k, g) == IF g \in sorted[k] THEN N ELSE 0

\* trySend of the queue hub spawns Send as soon as every writer of "sorted"
\* is there.
QueueReady(g, w) == Cardinality(w) = SortedLen("queue", g)

\* Mutant of LinkReady: trySend does not wait for the connection.
LinkReadyUnconnected(g, conns, n) == n = SortedLen("link", g)

\* Mutant of LinkReady: trySend counts a Hi message too many.
LinkReadyLate(g, conns, n) == g \in conns /\ n > SortedLen("link", g)

\* trySend of the link hub waits for the connection, too, and counts the Hi
\* messages.
LinkReady(g, conns, n) == g \in conns /\ n = SortedLen("link", g)

\* "go q.Send()", when the condition of trySend holds.
Spawn(k, g, x, ready) ==
  send' = IF ready THEN [send EXCEPT ![k][g][x] = "check"] ELSE send

\* SetSort of a hub, for Est.
SetSort(k) ==
  /\ Hold(k)
  /\ sorted' = [sorted EXCEPT ![k] = @ \union {Entry(k)}]

-----------------------------------------------------------------------------
(* The readers: dispatchDataMessage for Hi, Est and Close, hub.Close for   *)
(* the end of the websocket.                                               *)

\* The reader of c takes a message of type m.
Take(c, m) ==
  /\ rpc[c] = "idle"
  /\ inbox[c] # << >>
  /\ Head(inbox[c]) = m
  /\ inbox' = [inbox EXCEPT ![c] = Tail(@)]

\* Hi: serverQueueHub.Add.
QueueAdd(c) ==
  /\ Running
  /\ Take(c, "hi")
  /\ rpc' = [rpc EXCEPT ![c] = "hi"]
  /\ Hold("queue")
  /\ LET g == Entry("queue")
         w == writers[g] \union {c}
     IN  /\ writers' = [writers EXCEPT ![g] = w]
         /\ Spawn("queue", g, "add", QueueReady(g, w))
  /\ UNCHANGED <<sorted, status, closes, counter, lConn, children, over, estVars,
                 poolVars>>

\* The link that Add makes for a websocket beside the master link.
LinksOf(c) == {c} \ {1}

\* Hi: serverLinkHub.Add.
LinkAdd(c) ==
  /\ Running
  /\ rpc[c] = "hi"
  /\ rpc' = [rpc EXCEPT ![c] = "idle"]
  /\ Hold("link")
  /\ children' = children \union LinksOf(c)
  /\ LET g == Entry("link")
     IN  /\ counter' = [counter EXCEPT ![g] = @ + 1]
         /\ Spawn("link", g, "add", LinkReady(g, lConn, counter[g] + 1))
  /\ UNCHANGED <<inbox, sorted, status, closes, writers, lConn, over, estVars,
                 poolVars>>

\* Est: serverQueueHub.SetSort.
EstQueue ==
  /\ Running
  /\ Take(1, "est")
  /\ rpc' = [rpc EXCEPT ![1] = "est"]
  /\ SetSort("queue")
  /\ UNCHANGED <<status, closes, writers, counter, lConn, children, sendVars,
                 estVars, poolVars>>

\* Est: serverLinkHub.SetSort, go establishProxy.
EstLink ==
  /\ Running
  /\ rpc[1] = "est"
  /\ rpc' = [rpc EXCEPT ![1] = "idle"]
  /\ SetSort("link")
  /\ ePc' = "dial"
  /\ UNCHANGED <<inbox, status, closes, writers, counter, lConn, children,
                 sendVars, writer, conn, waitPc, waitLink, poolVars>>

\* Mutant of CloseEntry: the entry is closed and stays in the hub.
CloseEntryKeeps(k) ==
  IF cur[k] = 0 THEN UNCHANGED <<cur, status, closes>>
  ELSE /\ status' = [status EXCEPT ![k][cur[k]] = "close"]
       /\ closes' = [closes EXCEPT ![k][cur[k]] =
                       IF status[k][cur[k]] = "close" THEN @ ELSE @ + 1]
       /\ UNCHANGED cur

\* Remove of a hub: the entry is closed and deleted.
CloseEntry(k) ==
  IF cur[k] = 0 THEN UNCHANGED <<cur, status, closes>>
  ELSE /\ status' = [status EXCEPT ![k][cur[k]] = "close"]
       /\ closes' = [closes EXCEPT ![k][cur[k]] =
                       IF status[k][cur[k]] = "close" THEN @ ELSE @ + 1]
       /\ cur' = [cur EXCEPT ![k] = 0]

\* Mutant of RemoveAll: the links of the other websockets stay.
RemoveAllMaster ==
  /\ CloseEntry("link")
  /\ UNCHANGED <<made, sorted, writers, counter, lConn, children>>

\* serverLinkHub.RemoveAll: the links of "sorted" go, too.
RemoveAll ==
  /\ CloseEntry("link")
  /\ children' = IF cur["link"] \in sorted["link"] THEN {} ELSE children
  /\ UNCHANGED <<made, sorted, writers, counter, lConn>>

\* Mutant of Remove: the queue is deleted from the hub and not closed.
RemoveUnclosed ==
  /\ cur' = [cur EXCEPT !["queue"] = 0]
  /\ UNCHANGED <<made, sorted, status, closes, writers, counter, lConn, children>>

\* serverQueueHub.Remove.
Remove ==
  /\ CloseEntry("queue")
  /\ UNCHANGED <<made, sorted, writers, counter, lConn, children>>

\* Close: CloseProxyConn finds the connection in the pool, or does nothing.
CloseProxyConn ==
  /\ Running
  /\ Take(1, "close")
  /\ rpc' = [rpc EXCEPT ![1] = IF pool THEN "check" ELSE "idle"]
  /\ UNCHANGED <<hubVars, sendVars, estVars, poolVars>>

\* The websocket is gone: Hub.Close takes the mutex and closes what is in the
\* pool.
HubClose ==
  /\ Running
  /\ Take(1, "break")
  /\ rpc' = [rpc EXCEPT ![1] = IF pool THEN "check" ELSE "idle"]
  /\ hubLock' = pool
  /\ UNCHANGED <<hubVars, sendVars, estVars, estClosed, pool>>

\* The reader is through with DefaultProxyEst.Close; Hub.Close deletes the
\* connection from the pool and gives the mutex back.
ReaderCloseEnds ==
  /\ rpc' = [rpc EXCEPT ![1] = "idle"]
  /\ pool' = (pool /\ ~hubLock)
  /\ hubLock' = FALSE

\* DefaultProxyEst.Close, called by the reader: the check of the status.
ReaderCheck ==
  /\ Running
  /\ rpc[1] = "check"
  /\ IF estClosed
       THEN ReaderCloseEnds
       ELSE rpc' = [rpc EXCEPT ![1] = "mark"] /\ UNCHANGED <<pool, hubLock>>
  /\ UNCHANGED <<inbox, hubVars, sendVars, estVars, estClosed>>

ReaderMark ==
  /\ Running
  /\ rpc[1] = "mark"
  /\ rpc' = [rpc EXCEPT ![1] = "removeAll"]
  /\ estClosed' = TRUE
  /\ UNCHANGED <<inbox, hubVars, sendVars, estVars, pool, hubLock>>

ReaderRemoveAll ==
  /\ Running
  /\ rpc[1] = "removeAll"
  /\ rpc' = [rpc EXCEPT ![1] = "remove"]
  /\ RemoveAll
  /\ UNCHANGED <<inbox, sendVars, estVars, poolVars>>

ReaderRemove ==
  /\ Running
  /\ rpc[1] = "remove"
  /\ ReaderCloseEnds
  /\ Remove
  /\ UNCHANGED <<inbox, sendVars, estVars, estClosed>>

-----------------------------------------------------------------------------
(* establishProxy and establish.                                           *)

\* Mutant of DialFails: establishProxy returns on an error, without tellClosed.
DialFailsUntold ==
  /\ Running
  /\ "dialFail" \in Faults
  /\ ePc = "dial"
  /\ ePc' = "untold"
  /\ UNCHANGED <<readVars, hubVars, sendVars, writer, conn, waitPc, waitLink,
                 poolVars>>

\* The private address or the failed dial: establish returns before it has
\* deferred anything.
DialFails ==
  /\ Running
  /\ "dialFail" \in Faults
  /\ ePc = "dial"
  /\ ePc' = "tell"
  /\ UNCHANGED <<readVars, hubVars, sendVars, writer, conn, waitPc, waitLink,
                 poolVars>>

Dial ==
  /\ Running
  /\ ePc = "dial"
  /\ ePc' = "tryLink"
  /\ conn' = "open"
  /\ UNCHANGED <<readVars, hubVars, sendVars, writer, waitPc, waitLink, poolVars>>

\* serverLinkHub.TrySend sets the connection; then the goroutine is spawned
\* that waits for the link.
TrySendLink ==
  /\ Running
  /\ ePc = "tryLink"
  /\ ePc' = "pool"
  /\ waitPc' = "get"
  /\ LET g == cur["link"]
     IN  IF g = 0 THEN UNCHANGED <<lConn, send>>
         ELSE /\ lConn' = lConn \union {g}
              /\ Spawn("link", g, "try", LinkReady(g, lConn', counter[g]))
  /\ UNCHANGED <<readVars, cur, made, sorted, status, closes, writers, counter,
                 children, over, writer, conn, waitLink, poolVars>>

AddNewProxy ==
  /\ Running
  /\ ePc = "pool"
  /\ ~hubLock
  /\ pool' = TRUE
  /\ ePc' = "tryQueue"
  /\ UNCHANGED <<readVars, hubVars, sendVars, writer, conn, waitPc, waitLink,
                 estClosed, hubLock>>

\* serverQueueHub.TrySend.
TrySendQueue ==
  /\ Running
  /\ ePc = "tryQueue"
  /\ ePc' = "get"
  /\ LET g == cur["queue"]
     IN  IF g = 0 THEN UNCHANGED send
         ELSE Spawn("queue", g, "try", QueueReady(g, writers[g]))
  /\ UNCHANGED <<readVars, hubVars, over, writer, conn, waitPc, waitLink,
                 poolVars>>

\* serverQueueHub.Get, CopyBuffer is spawned, and establish goes to
\* writer.Wait, which fails for a nil writer.
GetWriter ==
  /\ crashed = "no"
  /\ ePc = "get"
  /\ writer' = cur["queue"]
  /\ IF cur["queue"] = 0
       THEN crashed' = "nilWriter" /\ UNCHANGED ePc
       ELSE ePc' = "wait" /\ UNCHANGED crashed
  /\ UNCHANGED <<readVars, hubVars, sendVars, conn, waitPc, waitLink, poolVars,
                 silent>>

\* The deferred calls, last one first: hub.RemoveProxy ...
RemoveProxy ==
  /\ Running
  /\ ePc = "unpool"
  /\ ~hubLock
  /\ pool' = FALSE
  /\ ePc' = "close"
  /\ UNCHANGED <<readVars, hubVars, sendVars, writer, conn, waitPc, waitLink,
                 estClosed, hubLock>>

\* ... conn.Close and DefaultProxyEst.Close: the check of the status.
EstClose ==
  /\ Running
  /\ ePc = "close"
  /\ conn' = "closed"
  /\ ePc' = IF estClosed THEN "tell" ELSE "mark"
  /\ UNCHANGED <<readVars, hubVars, sendVars, writer, waitPc, waitLink, poolVars>>

EstMark ==
  /\ Running
  /\ ePc = "mark"
  /\ ePc' = "removeAll"
  /\ estClosed' = TRUE
  /\ UNCHANGED <<readVars, hubVars, sendVars, writer, conn, waitPc, waitLink, pool,
                 hubLock>>

EstRemoveAll ==
  /\ Running
  /\ ePc = "removeAll"
  /\ ePc' = "remove"
  /\ RemoveAll
  /\ UNCHANGED <<readVars, sendVars, writer, conn, waitPc, waitLink, poolVars>>

EstRemove ==
  /\ Running
  /\ ePc = "remove"
  /\ ePc' = "tell"
  /\ Remove
  /\ UNCHANGED <<readVars, sendVars, writer, conn, waitPc, waitLink, poolVars>>

\* hub.tellClosed.
TellClosed ==
  /\ Running
  /\ ePc = "tell"
  /\ ePc' = "end"
  /\ UNCHANGED <<readVars, hubVars, sendVars, writer, conn, waitPc, waitLink,
                 poolVars>>

\* The goroutine that waits for the link gets it, if it is still there.
WaiterGet ==
  /\ Running
  /\ waitPc = "get"
  /\ waitLink' = cur["link"]
  /\ waitPc' = IF cur["link"] = 0 THEN "end" ELSE "wait"
  /\ UNCHANGED <<readVars, hubVars, sendVars, ePc, writer, conn, poolVars>>

-----------------------------------------------------------------------------
(* The Send goroutines of queues and links.                                *)

\* The guard of Send reads the status ...
SendCheck(k, g, x) ==
  /\ Running
  /\ send[k][g][x] = "check"
  /\ send' = [send EXCEPT ![k][g][x] =
                IF status[k][g] \in {"send", "done"} THEN "gone" ELSE "set"]
  /\ UNCHANGED <<readVars, hubVars, over, estVars, poolVars>>

\* ... and later Send writes it.
SendStart(k, g, x) ==
  /\ Running
  /\ send[k][g][x] = "set"
  /\ send' = [send EXCEPT ![k][g][x] = "run"]
  /\ status' = [status EXCEPT ![k][g] = "send"]
  /\ UNCHANGED <<readVars, cur, made, sorted, closes, writers, counter, lConn,
                 children, over, estVars, poolVars>>

\* Mutant of SendReturn: the deferred function takes the queue from its hub.
SendReturnRemoves(k, g, x) ==
  /\ Running
  /\ send[k][g][x] = "run"
  /\ send' = [send EXCEPT ![k][g][x] = "done"]
  /\ status' = [status EXCEPT ![k][g] = "done"]
  /\ cur' = [cur EXCEPT ![k] = 0]
  /\ UNCHANGED <<readVars, made, sorted, closes, writers, counter, lConn,
                 children, over, estVars, poolVars>>

\* The loop of Send ends and the deferred function sets the status.
SendReturn(k, g, x) ==
  /\ Running
  /\ send[k][g][x] = "run"
  /\ send' = [send EXCEPT ![k][g][x] = "done"]
  /\ status' = [status EXCEPT ![k][g] = "done"]
  /\ UNCHANGED <<readVars, cur, made, sorted, closes, writers, counter, lConn,
                 children, over, estVars, poolVars>>

\* done is unbuffered: Send goes on when somebody waits, and closes it.
SendDone(k, g, x) ==
  /\ Running
  /\ send[k][g][x] = "done"
  /\ g \notin over[k]
  /\ \/ /\ k = "queue" /\ ePc = "wait" /\ writer = g
        /\ ePc' = "unpool"
        /\ UNCHANGED waitPc
     \/ /\ k = "link" /\ waitPc = "wait" /\ waitLink = g
        /\ waitPc' = "end"
        /\ UNCHANGED ePc
  /\ send' = [send EXCEPT ![k][g][x] = "gone"]
  /\ over' = [over EXCEPT ![k] = @ \union {g}]
  /\ UNCHANGED <<readVars, hubVars, writer, conn, waitLink, poolVars>>

\* A second Send on the same queue sends on the closed done: nothing recovers
\* that panic.
SendPanics(k, g, x) ==
  /\ send[k][g][x] = "done"
  /\ g \in over[k]
  /\ crashed = "no"
  /\ crashed' = "sendTwice"
  /\ UNCHANGED <<readVars, hubVars, sendVars, estVars, poolVars, silent>>

-----------------------------------------------------------------------------
ReaderStep(c) == QueueAdd(c) \/ LinkAdd(c)

MasterStep ==
  \/ EstQueue \/ EstLink \/ CloseProxyConn \/ HubClose
  \/ ReaderCheck \/ ReaderMark \/ ReaderRemoveAll \/ ReaderRemove

EstablishStep ==
  \/ DialFails \/ Dial \/ TrySendLink \/ AddNewProxy \/ TrySendQueue \/ GetWriter
  \/ RemoveProxy \/ EstClose \/ EstMark \/ EstRemoveAll \/ EstRemove \/ TellClosed

SendStep(k, g, x) ==
  \/ SendCheck(k, g, x) \/ SendStart(k, g, x) \/ SendReturn(k, g, x)
  \/ SendDone(k, g, x) \/ SendPanics(k, g, x)

Next ==
  \/ \E c \in Chans : ReaderStep(c)
  \/ MasterStep
  \/ EstablishStep
  \/ WaiterGet
  \/ \E k \in Kinds, g \in Objs, x \in Spawners : SendStep(k, g, x)

Spec == Init /\ [][Next]_vars

\* Send of a queue that was closed before Send set the status does not see
\* "close", it takes empty blocks for as long as the websockets accept them.
Flooding(k, g) == k = "queue" /\ closes[k][g] > 0 /\ status[k][g] = "send"

\* Send waits for a block that does not come.
Idle(k, g, x) == silent /\ send[k][g][x] = "run" /\ closes[k][g] = 0

(***************************************************************************)
(* The scheduler runs every goroutine that is ready, a dial returns within *)
(* eight seconds, and a Send that is not flooding returns: its buffer is   *)
(* closed, its source ends or its five-minute timer does it.               *)
(***************************************************************************)
Fairness ==
  /\ \A c \in Chans : WF_vars(ReaderStep(c))
  /\ WF_vars(MasterStep)
  /\ WF_vars(EstablishStep)
  /\ WF_vars(WaiterGet)
  /\ \A k \in Kinds, g \in Objs, x \in Spawners :
       WF_vars(SendStep(k, g, x) /\ ~Flooding(k, g) /\ ~Idle(k, g, x))

FairSpec == Spec /\ Fairness

-----------------------------------------------------------------------------
TypeOK ==
  /\ inbox \in [Chans -> Seq({"hi", "est", "close", "break"})]
  /\ rpc \in [Chans -> {"idle", "hi", "est", "check", "mark", "removeAll", "remove"}]
  /\ cur \in [Kinds -> 0 .. N + 1]
  /\ made \in [Kinds -> 0 .. N + 1]
  /\ sorted \in [Kinds -> SUBSET Objs]
  /\ status \in [Kinds -> [Objs -> Status]]
  /\ closes \in [Kinds -> [Objs -> Nat]]
  /\ send \in [Kinds -> [Objs -> [Spawners -> SendPc]]]
  /\ over \in [Kinds -> SUBSET Objs]
  /\ writers \in [Objs -> SUBSET Chans]
  /\ counter \in [Objs -> 0 .. N]
  /\ lConn \subseteq Objs
  /\ children \subseteq Chans \ {1}
  /\ ePc \in {"none", "dial", "tryLink", "pool", "tryQueue", "get", "wait",
              "unpool", "close", "mark", "removeAll", "remove", "tell", "end"}
  /\ writer \in 0 .. N + 1
  /\ conn \in {"none", "open", "closed"}
  /\ waitPc \in {"none", "get", "wait", "end"}
  /\ waitLink \in 0 .. N + 1
  /\ estClosed \in BOOLEAN
  /\ pool \in BOOLEAN
  /\ hubLock \in BOOLEAN
  /\ silent \in BOOLEAN
  /\ crashed \in {"no", "nilWriter", "sendTwice"}

Spawned(k, g) == \E x \in Spawners : send[k][g][x] # "none"

(***************************************************************************)
(* No start is lost: the Hi messages, Est and the dial complete in any     *)
(* order, and whichever comes last spawns Send (trySend in Add, TrySend).  *)
(***************************************************************************)
NoLostStart ==
  /\ \A g \in lConn : counter[g] = N => Spawned("link", g)
  /\ writer # 0 /\ writers[writer] = Chans => Spawned("queue", writer)

(***************************************************************************)
(* link.Send is spawned at most once for a link: its two writers of done,  *)
(* and its loop over the buffers, never run twice.                         *)
(***************************************************************************)
LinkSendOnce == \A g \in Objs : \E x \in Spawners : send["link"][g][x] = "none"

(***************************************************************************)
(* No buffer is closed twice (that would panic while the lock of the hub   *)
(* is held), although Send overwrites the "close" that close() looks at,   *)
(* and two goroutines may be in DefaultProxyEst.Close together.            *)
(***************************************************************************)
NoDoubleClose == \A k \in Kinds, g \in Objs : closes[k][g] <= 1

(***************************************************************************)
(* "If it is sending already, return": at most one Send of a queue runs.   *)
(***************************************************************************)
SingleSender ==
  \A g \in Objs : Cardinality({x \in Spawners : send["queue"][g][x] = "run"}) <= 1

(***************************************************************************)
(* A close message may come at any time: establish finds its queue.        *)
(***************************************************************************)
WriterFound == crashed # "nilWriter"

(***************************************************************************)
(* establish loses its queue, which is fatal to the server, only when the  *)
(* reader of websocket 1 closes the connection meanwhile: no order of Hi   *)
(* and Est messages and no end of a Send takes the queue from the hub.     *)
(***************************************************************************)
NilNeedsClose == crashed = "nilWriter" => estClosed

(***************************************************************************)
(* "establish is over, the connection has been released by the master":    *)
(* nothing of the connection is left in the hubs.                          *)
(***************************************************************************)
Released ==
  ePc = "end" /\ rpc[1] = "idle" =>
    cur["queue"] = 0 /\ cur["link"] = 0 /\ children = {}

\* No Hi message was handled after the queue and the links were removed: it
\* would have made others.
InTime == \A k \in Kinds : made[k] = 1

(***************************************************************************)
(* What the deferred Close of establish releases: nothing of a connection  *)
(* is left in the hubs when establish and the reader are through, if the   *)
(* dial succeeded and no Hi message came late.                             *)
(***************************************************************************)
ReleasedInTime ==
  ePc = "end" /\ rpc[1] = "idle" /\ conn = "closed" /\ InTime =>
    cur["queue"] = 0 /\ cur["link"] = 0 /\ children = {}

\* A Hi message has not come to the queue that establish waits for, and will
\* not come: the connection was closed before it ...
HiLate ==
  /\ writer # 0
  /\ writers[writer] # Chans
  /\ cur["queue"] # writer \/ made["queue"] > 1

\* ... or the client could not send it.
HiLost ==
  \E c \in Chans :
    inbox[c] = << >> /\ rpc[c] = "idle" /\ \A g \in Objs : c \notin writers[g]

\* What keeps establish at writer.Wait: a Hi message that was lost or came
\* after a close, or a Send that floods (see Transfer); or the server is gone.
Hangs == HiLate \/ HiLost \/ \E g \in Objs : Flooding("queue", g)

(***************************************************************************)
(* A connection request is answered: establishProxy tells the client that  *)
(* the connection is closed when the target is through, or not reachable,  *)
(* or the client closes.                                                   *)
(***************************************************************************)
EstablishEnds ==
  (ePc # "none" /\ ~silent) ~> (ePc = "end" \/ crashed # "no" \/ Hangs)

(***************************************************************************)
(* A close message, or the end of the websocket, that finds the connection *)
(* in the pool ends it even if the target is silent: closing the queue is  *)
(* enough to get establish past writer.Wait, without the timers.  (One     *)
(* that comes while the dial is in progress finds nothing in the pool.)    *)
(***************************************************************************)
CloseEnds ==
  (rpc[1] = "check") ~> (ePc = "end" \/ crashed # "no" \/ Hangs)
=============================================================================
