------------------------------ MODULE Startup ------------------------------
(***************************************************************************)
(* How a client gets on to the server, and how the server lets go of it:   *)
(* Run of the client command (PreRun, CreateServerConn, NegotiateVersion)  *)
(* against one ServeHTTP handler per websocket, with the hub collection    *)
(* that the status page counts.                                            *)
(*                                                                         *)
(* Version messages have no envelope: what a message is follows from who   *)
(* reads it.  Both sides exchange exactly one version on every websocket   *)
(* before the loops that dispatch messages start, and the client ignores   *)
(* errors of that exchange on all websockets but the first.                *)
(***************************************************************************)
EXTENDS Integers, Sequences, FiniteSets

CONSTANTS
  N,            \* bound: the largest --nums
  Nums,         \* the values --nums may have
  VersionCode,  \* wss.VersionCode of the client
  Servers,      \* the servers: records of comp and code, what they answer
  MaxMessages   \* bound: messages under way on a websocket in one direction

Chans == 1 .. N

ASSUME StartupAssumption ==
  /\ N \in Nat \ {0} /\ Nums \subseteq Int /\ \A n \in Nums : n <= N
  /\ VersionCode \in Nat
  /\ Servers \subseteq [comp : Nat, code : Nat]
  /\ MaxMessages \in Nat \ {0}

VARIABLES
  server,    \* the server: its CompVersion and VersionCode
  keyOK,     \* the key of the client is the server's, or the server wants none
  nums,      \* connectNum
  main,      \* where Run is
  at,        \* the websocket that its loops are at
  up,        \* the websockets: "none", "open", "closed"
  stuck,     \* the websockets that carry nothing any more although they are open
  c2s, s2c,  \* the messages under way: "version", or "message" for all others
  handler,   \* where ServeHTTP is
  hubs,      \* HubCollection.hubs
  served     \* history: the server has dispatched a message of the client

clientVars == <<nums, main, at>>
netVars == <<up, stuck>>
vars == <<server, keyOK, clientVars, netVars, c2s, s2c, handler, hubs, served>>

Init ==
  /\ server \in Servers
  /\ keyOK \in BOOLEAN
  /\ nums \in Nums
  /\ main = "preRun"
  /\ at = 1
  /\ up = [c \in Chans |-> "none"]
  /\ stuck = {}
  /\ c2s = [c \in Chans |-> << >>]
  /\ s2c = [c \in Chans |-> << >>]
  /\ handler = [c \in Chans |-> "none"]
  /\ hubs = {}
  /\ served = FALSE

-----------------------------------------------------------------------------
(* The client.                                                             *)

\* Run returns and the process ends: WSClose, or the system, closes what is open.
Leave ==
  /\ main' = "exit"
  /\ up' = [c \in Chans |-> IF up[c] = "open" THEN "closed" ELSE up[c]]

\* PreRun: the remote address and the headers are in order, or they are not.
PreRun ==
  /\ main = "preRun"
  /\ nums' = IF nums < 1 THEN 1 ELSE nums
  /\ main' \in {"dial", "exit"}
  /\ UNCHANGED <<server, keyOK, at, netVars, c2s, s2c, handler, hubs, served>>

\* websocket.Dial: ServeHTTP checks the key and accepts.
Dial ==
  /\ main = "dial"
  /\ keyOK
  /\ up' = [up EXCEPT ![at] = "open"]
  /\ handler' = [handler EXCEPT ![at] = "readVersion"]
  /\ IF at = nums THEN main' = "write" /\ at' = 1
                  ELSE at' = at + 1 /\ UNCHANGED main
  /\ UNCHANGED <<server, keyOK, nums, stuck, c2s, s2c, hubs, served>>

\* The server is not there, denies access (401), or answers too late: then
\* the client returns, and ServeHTTP may wait for a version.
DialFails ==
  /\ main = "dial"
  /\ \/ UNCHANGED handler
     \/ keyOK /\ handler' = [handler EXCEPT ![at] = "readVersion"]
  /\ main' = "exit"
  /\ up' = [c \in Chans |-> IF up[c] = "open" \/ c = at THEN "closed" ELSE up[c]]
  /\ UNCHANGED <<server, keyOK, nums, at, stuck, c2s, s2c, hubs, served>>

\* Mutant of AfterExchange: the version is exchanged on the first websocket only.
AfterFirstExchange == main' = "check" /\ UNCHANGED at

\* NegotiateVersion goes on to the next websocket, or to the version it got.
AfterExchange ==
  IF at < nums THEN main' = "write" /\ at' = at + 1
               ELSE main' = "check" /\ UNCHANGED at

\* ExchangeVersion: the write ...
WriteVersion ==
  /\ main = "write"
  /\ up[at] = "open"
  /\ c2s' = [c2s EXCEPT ![at] = Append(@, "version")]
  /\ main' = "read"
  /\ UNCHANGED <<server, keyOK, nums, at, netVars, s2c, handler, hubs, served>>

\* ... and the read.
ReadVersion ==
  /\ main = "read"
  /\ up[at] = "open" /\ at \notin stuck
  /\ s2c[at] # << >>
  /\ s2c' = [s2c EXCEPT ![at] = Tail(@)]
  /\ AfterExchange
  /\ UNCHANGED <<server, keyOK, nums, netVars, c2s, handler, hubs, served>>

\* Mutant of ExchangeFails: there is no one-minute context.
ExchangeFailsNoTimeout ==
  /\ main \in {"write", "read"}
  /\ up[at] = "closed"
  /\ IF at = 1 THEN Leave /\ UNCHANGED at ELSE AfterExchange /\ UNCHANGED up
  /\ UNCHANGED <<server, keyOK, nums, stuck, c2s, s2c, handler, hubs, served>>

\* The websocket is down, or the one-minute context of Run ends, which closes
\* the websocket.  Only the first websocket's error is looked at.
ExchangeFails ==
  /\ main \in {"write", "read"}
  /\ IF at = 1
       THEN Leave /\ UNCHANGED at
       ELSE /\ up' = [up EXCEPT ![at] = "closed"]
            /\ AfterExchange
  /\ UNCHANGED <<server, keyOK, nums, stuck, c2s, s2c, handler, hubs, served>>

\* Mutant of Compatible: a client that is newer than the server may stay.
CompatibleNewer == server.comp <= VersionCode

\* "compatible version is the lowest version for client", "newer client is not
\* allowed".
Compatible == server.comp <= VersionCode /\ VersionCode <= server.code

\* NegotiateVersion compares, StartClient starts the tasks.
CheckVersion ==
  /\ main = "check"
  /\ IF Compatible THEN main' = "run" /\ UNCHANGED up ELSE Leave
  /\ UNCHANGED <<server, keyOK, nums, at, stuck, c2s, s2c, handler, hubs, served>>

\* A heartbeat, or what a connection has to send.
ClientSend(c) ==
  /\ main = "run"
  /\ up[c] = "open"
  /\ Len(c2s[c]) < MaxMessages
  /\ c2s' = [c2s EXCEPT ![c] = Append(@, "message")]
  /\ UNCHANGED <<server, keyOK, clientVars, netVars, s2c, handler, hubs, served>>

\* ListenIncomeMsg.
ClientReceive(c) ==
  /\ main = "run"
  /\ up[c] = "open" /\ c \notin stuck
  /\ s2c[c] # << >>
  /\ s2c' = [s2c EXCEPT ![c] = Tail(@)]
  /\ UNCHANGED <<server, keyOK, clientVars, netVars, c2s, handler, hubs, served>>

\* Wait returns: a task ended because its websocket is down (a heartbeat on a
\* websocket that is stuck takes it down), or an interrupt came.  How is module
\* ClientLife.
ClientEnds ==
  /\ main = "run"
  /\ Leave
  /\ UNCHANGED <<server, keyOK, nums, at, stuck, c2s, s2c, handler, hubs, served>>

\* The process, or its machine, dies before it runs.
Crash ==
  /\ main \in {"dial", "write", "read", "check"}
  /\ Leave
  /\ UNCHANGED <<server, keyOK, nums, at, stuck, c2s, s2c, handler, hubs, served>>

-----------------------------------------------------------------------------
(* The server: ServeHTTP, once the websocket is accepted.                  *)

\* NegVersionServer reads the message that is there as a version ...
ReadClientVersion(c) ==
  /\ handler[c] = "readVersion"
  /\ c2s[c] # << >> /\ c \notin stuck
  /\ c2s' = [c2s EXCEPT ![c] = Tail(@)]
  /\ handler' = [handler EXCEPT ![c] = "sendVersion"]
  /\ UNCHANGED <<server, keyOK, clientVars, netVars, s2c, hubs, served>>

\* ... and answers with its own.
SendVersion(c) ==
  /\ handler[c] = "sendVersion"
  /\ up[c] = "open"
  /\ s2c' = [s2c EXCEPT ![c] = Append(@, "version")]
  /\ handler' = [handler EXCEPT ![c] = "newHub"]
  /\ UNCHANGED <<server, keyOK, clientVars, netVars, c2s, hubs, served>>

\* HubCollection.NewHub.
NewHub(c) ==
  /\ handler[c] = "newHub"
  /\ hubs' = hubs \union {c}
  /\ handler' = [handler EXCEPT ![c] = "serve"]
  /\ UNCHANGED <<server, keyOK, clientVars, netVars, c2s, s2c, served>>

\* The loop reads a message and dispatches it; an error of that is skipped.
Dispatch(c) ==
  /\ handler[c] = "serve"
  /\ c2s[c] # << >> /\ c \notin stuck
  /\ c2s' = [c2s EXCEPT ![c] = Tail(@)]
  /\ served' = TRUE
  /\ UNCHANGED <<server, keyOK, clientVars, netVars, s2c, handler, hubs>>

\* A hub writes to the client.
ServerSend(c) ==
  /\ handler[c] = "serve"
  /\ up[c] = "open"
  /\ Len(s2c[c]) < MaxMessages
  /\ s2c' = [s2c EXCEPT ![c] = Append(@, "message")]
  /\ UNCHANGED <<server, keyOK, clientVars, netVars, c2s, handler, hubs, served>>

\* Mutant of AfterLoss: an error of wc.Read is skipped, too.
AfterLossServe(pc) == IF pc = "serve" THEN "serve" ELSE "end"

\* A read or write error ends the negotiation, or the loop.  The loop would go
\* on after io.EOF itself; the websocket library wraps its errors, so that
\* wc.Read never returns that very value.
AfterLoss(pc) == IF pc = "serve" THEN "closeHub" ELSE "end"

\* The websocket is down (TCP keepalive finds out if nobody says so).
Lose(c) ==
  /\ handler[c] \in {"readVersion", "sendVersion", "serve"}
  /\ up[c] = "closed"
  /\ handler' = [handler EXCEPT ![c] = AfterLoss(@)]
  /\ UNCHANGED <<server, keyOK, clientVars, netVars, c2s, s2c, hubs, served>>

\* The deferred hub.Close (module ServerConn) ...
CloseHub(c) ==
  /\ handler[c] = "closeHub"
  /\ handler' = [handler EXCEPT ![c] = "removeHub"]
  /\ UNCHANGED <<server, keyOK, clientVars, netVars, c2s, s2c, hubs, served>>

\* ... HubCollection.RemoveProxy, and the close of the websocket.
RemoveHub(c) ==
  /\ handler[c] = "removeHub"
  /\ hubs' = hubs \ {c}
  /\ handler' = [handler EXCEPT ![c] = "end"]
  /\ UNCHANGED <<server, keyOK, clientVars, netVars, c2s, s2c, served>>

-----------------------------------------------------------------------------
(* The network.                                                            *)

Break(c) ==
  /\ up[c] = "open"
  /\ up' = [up EXCEPT ![c] = "closed"]
  /\ UNCHANGED <<server, keyOK, clientVars, stuck, c2s, s2c, handler, hubs, served>>

Stick(c) ==
  /\ up[c] = "open" /\ c \notin stuck
  /\ stuck' = stuck \union {c}
  /\ UNCHANGED <<server, keyOK, clientVars, up, c2s, s2c, handler, hubs, served>>

-----------------------------------------------------------------------------
StartStep ==
  \/ Dial \/ DialFails \/ WriteVersion \/ ReadVersion \/ ExchangeFails \/ CheckVersion

HandlerStep(c) ==
  \/ ReadClientVersion(c) \/ SendVersion(c) \/ NewHub(c) \/ Dispatch(c)
  \/ Lose(c) \/ CloseHub(c) \/ RemoveHub(c)

Next ==
  \/ PreRun \/ StartStep \/ ClientEnds \/ Crash
  \/ \E c \in Chans :
       ClientSend(c) \/ ClientReceive(c) \/ HandlerStep(c) \/ ServerSend(c)
         \/ Break(c) \/ Stick(c)

Spec == Init /\ [][Next]_vars

(***************************************************************************)
(* The scheduler runs the client's start and the handlers, the minute of   *)
(* the context of Run passes, a client one of whose websockets is down     *)
(* ends (ErrorExits of ClientLife).  Nothing makes a client leave a server *)
(* with which all is well, and the network may be stuck for ever.          *)
(***************************************************************************)
FairSpec ==
  /\ Spec
  /\ WF_vars(StartStep)
  /\ WF_vars(ClientEnds /\ \E c \in 1 .. nums : up[c] = "closed")
  /\ \A c \in Chans : WF_vars(HandlerStep(c))

-----------------------------------------------------------------------------
\* No version is among the messages of s.
VersionFree(s) == \A j \in 1 .. Len(s) : s[j] # "version"

(***************************************************************************)
(* "It is necessary to exchange once": the two sides agree on what is a    *)
(* version.  NegVersionServer reads nothing else, the loop of ServeHTTP    *)
(* and ListenIncomeMsg read none, whatever failed on the way.              *)
(***************************************************************************)
Aligned ==
  \A c \in Chans :
    /\ handler[c] = "readVersion" /\ c2s[c] # << >> => Head(c2s[c]) = "version"
    /\ handler[c] = "serve" => VersionFree(c2s[c])
    /\ main = "run" /\ up[c] = "open" => VersionFree(s2c[c])

(***************************************************************************)
(* The server counts a client before the client has compared the versions, *)
(* but it never dispatches a message of a client that it is not made for   *)
(* or that does not have the key.                                          *)
(***************************************************************************)
ServesCompatible ==
  /\ served => keyOK /\ server.comp <= VersionCode /\ VersionCode <= server.code
  /\ hubs # {} => keyOK

(***************************************************************************)
(* The client does not hang on its way to the server: it runs or returns,  *)
(* even if a websocket is stuck in the middle of the exchange.             *)
(***************************************************************************)
StartEnds == (main = "dial") ~> (main \in {"run", "exit"})

\* HubCollection.GetConnCount: what the status page shows as clients.
GetConnCount == Cardinality(hubs)

(***************************************************************************)
(* The status page forgets a client that is gone: whether it never ran,    *)
(* returned, crashed, or lost a websocket, all its hubs leave the          *)
(* collection.                                                             *)
(***************************************************************************)
HubsLeave ==
  (\E c \in Chans : handler[c] # "none" /\ up[c] = "closed") ~> (GetConnCount = 0)
=============================================================================
