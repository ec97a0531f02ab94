----------------------------- MODULE ClientConn -----------------------------
(***************************************************************************)
(* One proxied connection on the client: transData, the goroutines that it *)
(* spawns (qq.Send, CopyBuffer, oo.Send), and the reader of the master     *)
(* websocket, which calls onClosed when the server says that the           *)
(* connection is closed.                                                   *)
(*                                                                         *)
(* What the two Send loops do with the data is module Transfer; here a     *)
(* Send is its guard, its status and its done channel.  The websockets are *)
(* named 1 .. N, 1 carries the master id.                                  *)
(***************************************************************************)
EXTENDS Integers

CONSTANTS
  N,        \* websockets of the client
  Faults    \* which of ClientFaults may happen

(***************************************************************************)
(* estFail: the Est message cannot be written, so that the server never    *)
(* answers.  writeFail: a write to a websocket fails.                      *)
(***************************************************************************)
ClientFaults == {"estFail", "writeFail"}

ASSUME ClientAssumption == N \in Nat \ {0} /\ Faults \subseteq ClientFaults

Chans == 1 .. N

\* The two callers of the closure remove: transData itself, when it returns,
\* and the reader of websocket 1, in onClosed.
Callers == {"trans", "reader"}

VARIABLES
  pc,        \* where transData is
  prepared,  \* number of websockets that transData has gone through
  proxies,   \* websockets whose proxy is registered
  alive,     \* websockets whose writer is not cancelled
  answer,    \* the close message of the server: "none", "sent", "taken"
  removed,   \* the variable status of transData is "removed"
  rm,        \* where the callers are in remove
  queueIn,   \* the queue is in the queue hub
  links,     \* the links in the link hub
  sorted,    \* of queue and master link, those whose order is set
  status,    \* their status
  closes,    \* how often their buffer was closed
  send,      \* where their Send goroutine is
  over,      \* those whose done is closed
  copy,      \* where CopyBuffer is: "none", "run", "end"
  conn       \* the connection to the application: "open", "closed"

regVars  == <<prepared, proxies, alive>>
hubVars  == <<queueIn, links, sorted, closes>>
copyVars == <<copy, conn>>
vars == <<pc, regVars, answer, removed, rm, hubVars, status, send, over, copyVars>>

Kinds == {"queue", "link"}
Status == {"wait", "send", "done", "close"}
SendPc == {"none", "check", "set", "run", "done", "gone"}
RemovePc == {"idle", "check", "mark", "queue", "links"}

Init ==
  /\ pc = "prepare"
  /\ prepared = 0
  /\ proxies = {}
  /\ alive = {}
  /\ answer = "none"
  /\ removed = FALSE
  /\ rm = [x \in Callers |-> "idle"]
  /\ queueIn = FALSE
  /\ links = {}
  /\ sorted = {}
  /\ status = [k \in Kinds |-> "wait"]
  /\ closes = [k \in Kinds |-> 0]
  /\ send = [k \in Kinds |-> "none"]
  /\ over = {}
  /\ copy = "none"
  /\ conn = "open"

-----------------------------------------------------------------------------
(* transData.                                                              *)

\* The loop over the websockets is through after round n.
AllPrepared(n) == n = N

\* A round of the loop over the websockets: NewProxy, SayID, a writer, and
\* Add of both hubs.  Add spawns nothing here: "sorted" is still empty and
\* the link has no conn.
Prepare ==
  /\ pc = "prepare"
  /\ prepared' = prepared + 1
  /\ proxies' = proxies \union {prepared'}
  /\ alive' = alive \union {prepared'}
  /\ queueIn' = TRUE
  /\ links' = links \union {prepared'}
  /\ pc' = IF AllPrepared(prepared') THEN "establish" ELSE "prepare"
  /\ UNCHANGED <<answer, removed, rm, sorted, closes, status, send, over, copyVars>>

\* transData returns: the deferred remove is the first that runs.
Return ==
  /\ pc' = "removing"
  /\ rm' = [rm EXCEPT !["trans"] = "check"]

\* Establish fails: transData returns.
EstablishFails ==
  /\ "estFail" \in Faults
  /\ pc = "establish"
  /\ Return
  /\ UNCHANGED <<regVars, answer, removed, hubVars, status, send, over, copyVars>>

\* Establish: from here on the server may answer with close.
Establish ==
  /\ pc = "establish"
  /\ pc' = "getQueue"
  /\ answer' = "sent"
  /\ UNCHANGED <<regVars, removed, rm, hubVars, status, send, over, copyVars>>

\* clientQueueHub.Get; transData gives up when onClosed was faster.
GetQueue ==
  /\ pc = "getQueue"
  /\ IF queueIn THEN pc' = "sendQueue" /\ UNCHANGED rm ELSE Return
  /\ UNCHANGED <<regVars, answer, removed, hubVars, status, send, over, copyVars>>

\* qq.SetSort, go qq.Send, go CopyBuffer.
SendQueue ==
  /\ pc = "sendQueue"
  /\ pc' = "getLink"
  /\ sorted' = sorted \union {"queue"}
  /\ send' = [send EXCEPT !["queue"] = "check"]
  /\ copy' = "run"
  /\ UNCHANGED <<regVars, answer, removed, rm, queueIn, links, closes, status, over,
                 conn>>

\* clientLinkHub.Get; transData gives up when onClosed was faster.
GetLink ==
  /\ pc = "getLink"
  /\ IF 1 \in links THEN pc' = "sendLink" /\ UNCHANGED rm ELSE Return
  /\ UNCHANGED <<regVars, answer, removed, hubVars, status, send, over, copyVars>>

\* oo.SetConn, oo.SetSort, go oo.Send; then oo.Wait.
SendLink ==
  /\ pc = "sendLink"
  /\ pc' = "wait"
  /\ sorted' = sorted \union {"link"}
  /\ send' = [send EXCEPT !["link"] = "check"]
  /\ UNCHANGED <<regVars, answer, removed, rm, queueIn, links, closes, status, over,
                 copyVars>>

-----------------------------------------------------------------------------
(* The closure remove; status is an unprotected variable.                  *)

RemoveCheck(x) ==
  /\ rm[x] = "check"
  /\ rm' = [rm EXCEPT ![x] = IF removed THEN "idle" ELSE "mark"]
  /\ UNCHANGED <<pc, regVars, answer, removed, hubVars, status, send, over, copyVars>>

RemoveMark(x) ==
  /\ rm[x] = "mark"
  /\ rm' = [rm EXCEPT ![x] = "queue"]
  /\ removed' = TRUE
  /\ UNCHANGED <<pc, regVars, answer, hubVars, status, send, over, copyVars>>

\* Mutant of RemoveQueue: Remove closes the queue without deleting it.
RemoveQueueKeeps(x) ==
  /\ rm[x] = "queue"
  /\ rm' = [rm EXCEPT ![x] = "links"]
  /\ status' = [status EXCEPT !["queue"] = "close"]
  /\ closes' = [closes EXCEPT !["queue"] = IF status["queue"] = "close" THEN @ ELSE @ + 1]
  /\ UNCHANGED <<pc, regVars, answer, removed, queueIn, links, sorted, send, over,
                 copyVars>>

\* clientQueueHub.Remove.
RemoveQueue(x) ==
  /\ rm[x] = "queue"
  /\ rm' = [rm EXCEPT ![x] = "links"]
  /\ queueIn' = FALSE
  /\ IF queueIn /\ status["queue"] # "close"
       THEN /\ status' = [status EXCEPT !["queue"] = "close"]
            /\ closes' = [closes EXCEPT !["queue"] = @ + 1]
       ELSE UNCHANGED <<status, closes>>
  /\ UNCHANGED <<pc, regVars, answer, removed, links, sorted, send, over, copyVars>>

\* The links that RemoveAll leaves in the hub: it finds the links of the other
\* websockets by "sorted" of the master link.
LinksLeft == IF 1 \in links /\ "link" \notin sorted THEN links \ {1} ELSE {}

\* Mutant of RemoveLinks: RemoveAll closes a link without deleting it.
RemoveLinksKeeps(x) ==
  /\ rm[x] = "links"
  /\ rm' = [rm EXCEPT ![x] = "idle"]
  /\ status' = [status EXCEPT !["link"] = "close"]
  /\ closes' = [closes EXCEPT !["link"] = IF status["link"] = "close" THEN @ ELSE @ + 1]
  /\ UNCHANGED <<pc, regVars, answer, removed, queueIn, links, sorted, send, over,
                 copyVars>>

\* clientLinkHub.RemoveAll.
RemoveLinks(x) ==
  /\ rm[x] = "links"
  /\ rm' = [rm EXCEPT ![x] = "idle"]
  /\ links' = IF 1 \in links THEN LinksLeft ELSE links
  /\ IF 1 \in links /\ status["link"] # "close"
       THEN /\ status' = [status EXCEPT !["link"] = "close"]
            /\ closes' = [closes EXCEPT !["link"] = @ + 1]
       ELSE UNCHANGED <<status, closes>>
  /\ UNCHANGED <<pc, regVars, answer, removed, queueIn, sorted, send, over, copyVars>>

\* The reader of websocket 1 takes the close message: onClosed, if the proxy
\* is still registered.
OnClosed ==
  /\ answer = "sent"
  /\ answer' = "taken"
  /\ rm' = IF 1 \in proxies THEN [rm EXCEPT !["reader"] = "check"] ELSE rm
  /\ UNCHANGED <<pc, regVars, removed, hubVars, status, send, over, copyVars>>

\* Mutant of Cancel: the writers are not cancelled.
CancelNone(c) == alive

\* CloseWsWriter of the writer of c.
Cancel(c) == alive \ {c}

\* The deferred calls after remove, for each websocket from the last to the
\* first: CloseWsWriter, RemoveProxy.  When they are through, the caller of
\* transData closes the connection.
Unregister ==
  /\ pc = "removing"
  /\ rm["trans"] = "idle"
  /\ alive' = Cancel(prepared)
  /\ proxies' = proxies \ {prepared}
  /\ prepared' = prepared - 1
  /\ pc' = IF prepared' = 0 THEN "end" ELSE pc
  /\ conn' = IF prepared' = 0 THEN "closed" ELSE conn
  /\ UNCHANGED <<answer, removed, rm, hubVars, status, send, over, copy>>

-----------------------------------------------------------------------------
(* The goroutines that transData spawns.                                   *)

\* The guard of Send reads the status ...
SendCheck(k) ==
  /\ send[k] = "check"
  /\ send' = [send EXCEPT ![k] = IF status[k] \in {"send", "done"} THEN "gone" ELSE "set"]
  /\ UNCHANGED <<pc, regVars, answer, removed, rm, hubVars, status, over, copyVars>>

\* ... and Send overwrites it.
SendStart(k) ==
  /\ send[k] = "set"
  /\ send' = [send EXCEPT ![k] = "run"]
  /\ status' = [status EXCEPT ![k] = "send"]
  /\ UNCHANGED <<pc, regVars, answer, removed, rm, hubVars, over, copyVars>>

\* The loop of a Send comes to an end by itself: the end of the data, a write
\* error or a timer.  It does not when the queue was closed before Send set
\* the status: then it takes empty blocks and writes them.
LoopEnds(k) ==
  \/ closes[k] = 0
  \/ k = "queue" /\ "writeFail" \in Faults

\* The loop of Send has to end: the queue is closed and says so, or a writer
\* that it uses is cancelled; the link is not in the hub.
LoopStops(k) ==
  \/ k = "queue" /\ closes[k] > 0 /\ (status[k] = "close" \/ alive # Chans)
  \/ k = "link" /\ 1 \notin links

\* The loop ends, and the deferred function sets the status.
SendReturn(k) ==
  /\ send[k] = "run"
  /\ LoopEnds(k) \/ LoopStops(k)
  /\ send' = [send EXCEPT ![k] = "done"]
  /\ status' = [status EXCEPT ![k] = "done"]
  /\ UNCHANGED <<pc, regVars, answer, removed, rm, hubVars, over, copyVars>>

\* done is unbuffered: Send goes on when transData waits.  Nobody waits for
\* the queue.
SendDone(k) ==
  /\ send[k] = "done"
  /\ k = "link"
  /\ pc = "wait"
  /\ send' = [send EXCEPT ![k] = "gone"]
  /\ over' = over \union {k}
  /\ Return
  /\ UNCHANGED <<regVars, answer, removed, hubVars, status, copyVars>>

\* CopyBuffer ends: the application or the connection is closed, or the write
\* to the queue fails.  (TellClose for the server is in ServerConn.)
CopyEnds ==
  /\ copy = "run"
  /\ copy' = "end"
  /\ UNCHANGED <<pc, regVars, answer, removed, rm, hubVars, status, send, over, conn>>

\* CopyBuffer has to end: its read fails, and its write to the queue does not
\* block, for the buffer is closed.
CopyStops == conn = "closed" /\ closes["queue"] > 0

-----------------------------------------------------------------------------
TransStep ==
  \/ Prepare \/ EstablishFails \/ Establish \/ GetQueue \/ SendQueue \/ GetLink
  \/ SendLink \/ Unregister

RemoveStep(x) == RemoveCheck(x) \/ RemoveMark(x) \/ RemoveQueue(x) \/ RemoveLinks(x)

SendStep(k) == SendCheck(k) \/ SendStart(k) \/ SendReturn(k) \/ SendDone(k)

Next ==
  \/ TransStep
  \/ \E x \in Callers : RemoveStep(x)
  \/ OnClosed
  \/ \E k \in Kinds : SendStep(k)
  \/ CopyEnds

Spec == Init /\ [][Next]_vars

(***************************************************************************)
(* The scheduler runs what is ready.  The server sends its close message   *)
(* when it likes, the application may keep the connection open, and a Send *)
(* is sure to return only when it has to (the five-minute timer is left    *)
(* out).                                                                   *)
(***************************************************************************)
Fairness ==
  /\ WF_vars(TransStep)
  /\ \A x \in Callers : WF_vars(RemoveStep(x))
  /\ \A k \in Kinds :
       /\ WF_vars(SendCheck(k) \/ SendStart(k) \/ SendDone(k))
       /\ WF_vars(SendReturn(k) /\ LoopStops(k))
  /\ WF_vars(CopyEnds /\ CopyStops)

FairSpec == Spec /\ Fairness

-----------------------------------------------------------------------------
TypeOK ==
  /\ pc \in {"prepare", "establish", "getQueue", "sendQueue", "getLink", "sendLink",
             "wait", "removing", "end"}
  /\ prepared \in 0 .. N
  /\ proxies \subseteq Chans
  /\ alive \subseteq Chans
  /\ answer \in {"none", "sent", "taken"}
  /\ removed \in BOOLEAN
  /\ rm \in [Callers -> RemovePc]
  /\ queueIn \in BOOLEAN
  /\ links \subseteq Chans
  /\ sorted \subseteq Kinds
  /\ status \in [Kinds -> Status]
  /\ closes \in [Kinds -> Nat]
  /\ send \in [Kinds -> SendPc]
  /\ over \subseteq Kinds
  /\ copy \in {"none", "run", "end"}
  /\ conn \in {"open", "closed"}

(***************************************************************************)
(* No buffer is closed twice, although transData and the reader may both   *)
(* pass the check of remove, and Send overwrites the status close() reads. *)
(***************************************************************************)
NoDoubleClose == \A k \in Kinds : closes[k] <= 1

(***************************************************************************)
(* Whatever onClosed overtakes, transData returns after it: oo.Wait is not *)
(* left waiting for a Send that never comes to done.                       *)
(***************************************************************************)
TransEnds == (answer = "taken") ~> (pc = "end")

(***************************************************************************)
(* When transData has returned the queue is no longer fed or served:       *)
(* CopyBuffer ends, and qq.Send leaves its loop even if it overwrote       *)
(* "close", because its writers are cancelled.                             *)
(***************************************************************************)
QueueStops ==
  (pc = "end") ~> (copy # "run" /\ send["queue"] \in {"none", "done", "gone"})

(***************************************************************************)
(* "Delete the data in the maps": the queue and the master link are out of *)
(* the hubs when transData has returned and the reader is through, however *)
(* the two share the work of remove.  (The links of the other websockets   *)
(* stay if remove came before SetSort of the master link.)                 *)
(***************************************************************************)
MasterReleased == pc = "end" /\ rm["reader"] = "idle" => ~queueIn /\ 1 \notin links
=============================================================================
