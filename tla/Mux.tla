-------------------------------- MODULE Mux --------------------------------
(***************************************************************************)
(* Several proxied connections (sessions) that share the N websockets of a *)
(* client, in the direction from the client to the targets.                *)
(*                                                                         *)
(* Each session has its own queue.Send at the client, which writes its     *)
(* blocks one after the other to the websockets 1 .. N, 1 .. N and so on,  *)
(* and its own link.Send at the server, which collects them in that order. *)
(* What they share is the websockets and, at the server, the one goroutine *)
(* per websocket that reads it: link.Write blocks that goroutine while the *)
(* link of one session is full, and with it the blocks of all others.      *)
(*                                                                         *)
(* A websocket that is full holds up every write to it.  Blocks wait; the  *)
(* control messages (Hi, Establish, Close, heart beat) have a context of   *)
(* one minute, and a write whose context expires closes the websocket for  *)
(* all sessions.  A control message that gets through takes no room here.  *)
(*                                                                         *)
(* A block is <<s, k>>: session s, k-th block.  The reader of a websocket  *)
(* works on the head of its wire until it has stored or dropped it.  What  *)
(* one session does with its data, its end and its timers is Transfer.     *)
(***************************************************************************)
EXTENDS Integers, Sequences

CONSTANTS
  Sessions,   \* the proxied connections
  N,          \* websockets
  Cap,        \* capacity of a link's buffer (10 in the code)
  WireCap,    \* blocks that a websocket takes before a write to it blocks
  MaxBlocks,  \* bound: blocks of each session
  Ending      \* bound: sessions that may end at the client

ASSUME MuxAssumption ==
  /\ N \in Nat \ {0}
  /\ Cap \in Nat \ {0}
  /\ WireCap \in Nat \ {0}
  /\ MaxBlocks \in [Sessions -> Nat]
  /\ Ending \subseteq Sessions

Chans == 1 .. N

\* The websocket of the k-th block: the position in "sorted".
Turn(k) == ((k - 1) % N) + 1

VARIABLES
  snd,    \* a session at the client: "new" (not established), then its
          \* queue.Send: "read" (its buffer), "write", "over"
  sent,   \* blocks a session has written
  cut,    \* the writers cut[s] .. N of a session are cancelled
  down,   \* websockets that the client's library has closed
  wire,   \* blocks a websocket has taken and its reader has not stored
  link,   \* blocks in the buffer of a session's link of a websocket
  out,    \* link.Send of a session: "run", "stuck" (in the write to its
          \* target, which does not read), "done" (it has returned)
  recv,   \* blocks link.Send has taken for the target
  lost,   \* sessions that lost a block: link.Write gave up, or it was cut off
  gone    \* sessions that the server has removed from its link hub

vars == <<snd, sent, cut, down, wire, link, out, recv, lost, gone>>

TypeOK ==
  /\ snd \in [Sessions -> {"new", "read", "write", "over"}]
  /\ sent \in [Sessions -> Nat]
  /\ cut \in [Sessions -> 1 .. N + 1]
  /\ down \in SUBSET Chans
  /\ wire \in [Chans -> Seq(Sessions \X Nat)]
  /\ link \in [Sessions -> [Chans -> Seq(Nat)]]
  /\ out \in [Sessions -> {"run", "stuck", "done"}]
  /\ recv \in [Sessions -> Seq(Nat)]
  /\ lost \in SUBSET Sessions
  /\ gone \in SUBSET Sessions

Init ==
  /\ snd = [s \in Sessions |-> "new"]
  /\ sent = [s \in Sessions |-> 0]
  /\ cut = [s \in Sessions |-> N + 1]
  /\ down = {}
  /\ wire = [c \in Chans |-> << >>]
  /\ link = [s \in Sessions |-> [c \in Chans |-> << >>]]
  /\ out = [s \in Sessions |-> "run"]
  /\ recv = [s \in Sessions |-> << >>]
  /\ lost = {}
  /\ gone = {}

server == <<wire, link, out, recv, lost, gone>>

-----------------------------------------------------------------------------
(* The client: writes that expire.                                         *)

Clogged(c) == c \notin down /\ Len(wire[c]) >= WireCap

\* A control message to websocket c waits for a minute: the library closes
\* the websocket.
WriteExpires(c) == Clogged(c) /\ down' = down \union {c}

\* SayID of a new session, whose error transData ignores.
SayID(s, c) ==
  /\ snd[s] = "new"
  /\ WriteExpires(c)
  /\ UNCHANGED <<snd, sent, cut, server>>

\* Establish goes to websocket 1: queue.Send starts, or the write fails and
\* transData returns.
Establish(s) ==
  /\ snd[s] = "new"
  /\ \/ /\ 1 \notin down /\ ~Clogged(1)
        /\ snd' = [snd EXCEPT ![s] = "read"]
        /\ UNCHANGED down
     \/ /\ WriteExpires(1)
        /\ snd' = [snd EXCEPT ![s] = "over"]
     \/ /\ 1 \in down
        /\ snd' = [snd EXCEPT ![s] = "over"]
        /\ UNCHANGED down
  /\ UNCHANGED <<sent, cut, server>>

\* TellClose, when CopyBuffer of the session fails, on websocket 1.
TellClose(s) ==
  /\ snd[s] # "new"
  /\ WriteExpires(1)
  /\ UNCHANGED <<snd, sent, cut, server>>

\* The heart beat writes to all websockets with one context: when it expires
\* on c, the writes to later ones start with a context that has expired.
HeartBeat(c) ==
  /\ Clogged(c)
  /\ \E D \in SUBSET (c + 1 .. N) : down' = down \union {c} \union D
  /\ UNCHANGED <<snd, sent, cut, server>>

\* Mutant of CloseAll: the loss of one websocket leaves the others open.
CloseAllNever == FALSE /\ UNCHANGED vars

\* The reader of a closed websocket returns: closeAll closes the others.
CloseAll ==
  /\ down # {}
  /\ down # Chans
  /\ down' = Chans
  /\ UNCHANGED <<snd, sent, cut, server>>

-----------------------------------------------------------------------------
(* The client: blocks.                                                     *)

\* Mutant of Target: queue.Send does not go round, all blocks use one writer.
TargetFirst(s) == 1

\* The websocket of the block that queue.Send of s has in hand.
Target(s) == Turn(sent[s] + 1)

\* queue.Send has a block and calls Write of the writer whose turn it is: it
\* locks the writer and, unless the context is cancelled, starts the write.
StartWrite(s) ==
  /\ snd[s] = "read"
  /\ sent[s] < MaxBlocks[s]
  /\ snd' = [snd EXCEPT ![s] = IF Target(s) < cut[s] THEN "write" ELSE "over"]
  /\ UNCHANGED <<sent, cut, down, server>>

\* The websocket has taken the block: Write returns and unlocks the writer.
EndWrite(s) ==
  /\ snd[s] = "write"
  /\ Target(s) \notin down
  /\ Len(wire[Target(s)]) < WireCap
  /\ wire' = [wire EXCEPT ![Target(s)] = Append(@, <<s, sent[s] + 1>>)]
  /\ sent' = [sent EXCEPT ![s] = @ + 1]
  /\ snd' = [snd EXCEPT ![s] = "read"]
  /\ UNCHANGED <<cut, down, link, out, recv, lost, gone>>

\* The websocket is closed: Write fails and queue.Send returns.
FailWrite(s) ==
  /\ snd[s] = "write"
  /\ Target(s) \in down
  /\ snd' = [snd EXCEPT ![s] = "over"]
  /\ UNCHANGED <<sent, cut, down, server>>

\* transData is over, at any time: its deferred calls cancel the writers, the
\* last one first, each when no write holds its mutex.
CloseWsWriter(s) ==
  /\ s \in Ending
  /\ cut[s] > 1
  /\ snd[s] # "new"
  /\ ~(snd[s] = "write" /\ Target(s) = cut[s] - 1)
  /\ cut' = [cut EXCEPT ![s] = @ - 1]
  /\ UNCHANGED <<snd, sent, down, server>>

-----------------------------------------------------------------------------
(* The server.                                                             *)

client == <<snd, sent, cut, down>>

Owner(c) == Head(wire[c])[1]
Full(s, c) == Len(link[s][c]) >= Cap

\* link.Write of the block that the reader of c has in hand waits for room.
Blocked(c) == wire[c] # << >> /\ Owner(c) \notin gone /\ Full(Owner(c), c)

\* The link that link.Send reads next.
NextTurn(s) == Turn(Len(recv[s]) + 1)
NextLink(s) == link[s][NextTurn(s)]

\* link.Send of s can go on.
Flowing(s) == out[s] = "run" /\ NextLink(s) # << >>

\* dispatchDataMessage: the link of the block is found and has room.
Store(c) ==
  /\ wire[c] # << >>
  /\ Owner(c) \notin gone
  /\ ~Full(Owner(c), c)
  /\ link' = [link EXCEPT ![Owner(c)][c] = Append(@, Head(wire[c])[2])]
  /\ wire' = [wire EXCEPT ![c] = Tail(@)]
  /\ UNCHANGED <<client, out, recv, lost, gone>>

\* Mutant of Drop: link.Write of a removed session does not return, as if
\* close did not close the buffer.
DropNever(c) == FALSE /\ UNCHANGED vars

\* The link is not found, or is closed under link.Write, which recovers; or
\* it is the main one of a session whose link.Send has returned.
Drop(c) ==
  /\ wire[c] # << >>
  /\ Owner(c) \in gone \/ (c = 1 /\ out[Owner(c)] = "done")
  /\ wire' = [wire EXCEPT ![c] = Tail(@)]
  /\ UNCHANGED <<client, link, out, recv, lost, gone>>

\* Mutant of Expire: link.Write has no timer.
ExpireNever(c) == FALSE /\ UNCHANGED vars

\* link.Write times out: the block is dropped, the caller ignores the error.
Expire(c) ==
  /\ Blocked(c)
  /\ wire' = [wire EXCEPT ![c] = Tail(@)]
  /\ lost' = lost \union {Owner(c)}
  /\ UNCHANGED <<client, link, out, recv, gone>>

\* Read fails on a websocket that is closed: what it still held is cut off.
ReadError(c) ==
  /\ c \in down
  /\ wire[c] # << >>
  /\ ~Blocked(c)
  /\ wire' = [wire EXCEPT ![c] = << >>]
  /\ lost' = lost \union {wire[c][j][1] : j \in DOMAIN wire[c]}
  /\ UNCHANGED <<client, link, out, recv, gone>>

\* Mutant of Collect: link.Send takes a block from whichever link has one.
CollectAny(s) ==
  /\ out[s] = "run"
  /\ \E c \in Chans :
       /\ link[s][c] # << >>
       /\ recv' = [recv EXCEPT ![s] = Append(@, Head(link[s][c]))]
       /\ link' = [link EXCEPT ![s][c] = Tail(@)]
  /\ UNCHANGED <<client, wire, out, lost, gone>>

\* link.Send takes the next block in turn and writes it to the target, which
\* takes it, does not read (the write has no deadline) or is closed.
Collect(s) ==
  /\ Flowing(s)
  /\ recv' = [recv EXCEPT ![s] = Append(@, Head(NextLink(s)))]
  /\ link' = [link EXCEPT ![s][NextTurn(s)] = Tail(@)]
  /\ \E o \in {"run", "stuck", "done"} : out' = [out EXCEPT ![s] = o]
  /\ UNCHANGED <<client, wire, lost, gone>>

\* The write to a target ends after all.
Unstick(s) ==
  /\ out[s] = "stuck"
  /\ \E o \in {"run", "done"} : out' = [out EXCEPT ![s] = o]
  /\ UNCHANGED <<client, wire, link, recv, lost, gone>>

\* link.Send has waited for five minutes for the next block.
SendTimeout(s) ==
  /\ snd[s] # "new"
  /\ out[s] = "run"
  /\ NextLink(s) = << >>
  /\ out' = [out EXCEPT ![s] = "done"]
  /\ UNCHANGED <<client, wire, link, recv, lost, gone>>

\* The connection ends at the server, whatever the reason: its target, its
\* client, or Hub.Close once websocket 1 is lost.  Its links are closed, and
\* link.Send returns.
RemoveAll(s) ==
  /\ snd[s] # "new"
  /\ s \notin gone
  /\ gone' = gone \union {s}
  /\ link' = [link EXCEPT ![s] = [c \in Chans |-> << >>]]
  /\ out' = [out EXCEPT ![s] = "done"]
  /\ UNCHANGED <<client, wire, recv, lost>>

-----------------------------------------------------------------------------
SessionStep(s) ==
  \/ Establish(s)
  \/ TellClose(s)
  \/ StartWrite(s)
  \/ EndWrite(s)
  \/ FailWrite(s)
  \/ CloseWsWriter(s)
  \/ Collect(s)
  \/ Unstick(s)
  \/ SendTimeout(s)
  \/ RemoveAll(s)

ReaderStep(c) == Store(c) \/ Drop(c) \/ Expire(c) \/ ReadError(c)

Next ==
  \/ \E s \in Sessions : SessionStep(s)
  \/ \E s \in Sessions, c \in Chans : SayID(s, c)
  \/ \E c \in Chans : HeartBeat(c) \/ ReaderStep(c)
  \/ CloseAll

Spec == Init /\ [][Next]_vars

(***************************************************************************)
(* Goroutines that can run do, and the five-minute timer of a link.Write   *)
(* that is blocked does run out.  A session that began to cancel its       *)
(* writers goes on.  Whether a session starts or ends, a target reads, a   *)
(* link.Send times out or a one-minute write expires is left open.         *)
(***************************************************************************)
Fairness ==
  /\ \A s \in Sessions :
       /\ WF_vars(EndWrite(s) \/ FailWrite(s))
       /\ WF_vars(Collect(s))
       /\ WF_vars(cut[s] <= N /\ CloseWsWriter(s))
  /\ \A c \in Chans : WF_vars(ReaderStep(c))
  /\ WF_vars(CloseAll)

FairSpec == Spec /\ Fairness

-----------------------------------------------------------------------------
\* Sessions that may hold up a reader until its timer runs out.
Ill == {s \in Sessions : out[s] # "run"} \union lost

\* The reader of c waits for a session that is well and has to get its next
\* block from another reader first.
Waiting(c) == Blocked(c) /\ Owner(c) \notin Ill /\ NextLink(Owner(c)) = << >>

(***************************************************************************)
(* Readers never wait for one another in a circle, nor for a block that is *)
(* not there.  Reader 1 may wait for a session whose next block is on      *)
(* websocket 2, whose reader waits for a session whose next block ...; but *)
(* in any set of waiting readers one waits for a block on a websocket that *)
(* is not of the set, because every queue.Send writes its blocks in order. *)
(* So whenever a reader is held up there is a session to blame: its target *)
(* does not read, its link.Send is over or it lost a block.                *)
(***************************************************************************)
NoCircularWait ==
  \A C \in (SUBSET Chans) \ {{}} :
    (\A c \in C : Waiting(c))
      => \E c \in C : LET d == NextTurn(Owner(c)) IN d \notin C /\ wire[d] # << >>

(***************************************************************************)
(* A session gets its own blocks, in order and without a gap, whatever the *)
(* others do, unless one of its blocks was dropped.                        *)
(***************************************************************************)
OwnStream ==
  \A s \in Sessions \ lost : \A i \in DOMAIN recv[s] : recv[s][i] = i

(***************************************************************************)
(* A target that does not read cannot leave the other sessions in limbo:   *)
(* again and again all that queue.Send of a session has read is taken for  *)
(* its target and no write is held up, or the session is not served any    *)
(* more: it is removed, it lost a block (link.Write's timer, a websocket   *)
(* that closed), its own target does not read, its link.Send is over.      *)
(***************************************************************************)
SessionsFlow ==
  \A s \in Sessions :
    []<>(s \in Ill \/ (Len(recv[s]) = sent[s] /\ snd[s] # "write"))

(***************************************************************************)
(* The end of a session at the client is not held up for ever either: all  *)
(* its writers are cancelled, although each has to wait for a write that   *)
(* the target of another session may block.  (cut only goes down.)         *)
(***************************************************************************)
SessionEnds == \A s \in Sessions : []<>(cut[s] \in {1, N + 1})

(***************************************************************************)
(* One message that does not get through within a minute ends it for all:  *)
(* all websockets are closed, no queue.Send is left in a write, and the    *)
(* readers of the server get through what is left, behind targets that do  *)
(* not read too.  (A websocket in down stays there.)                       *)
(***************************************************************************)
LossEndsAll ==
  []<>(down # {} => /\ down = Chans
                    /\ \A s \in Sessions : snd[s] # "write"
                    /\ \A c \in Chans : wire[c] = << >>)
=============================================================================
