# Verification of wssocks

wssocks carries socks5 connections over `N` websockets in parallel. These TLA+
modules model the parts of it in which goroutines, channels and messages meet;
TLC checks small instances, and TLAPS proves every safety property that the
passing runs check for every number of websockets, every capacity and every length
of stream. `PROJECT.json` maps each definition to the lines it stands for and lists
the hazards of the code with the properties that watch them.

## 1. The system

| part | state | operations | where |
|---|---|---|---|
| pipe: one direction of one session | `queue.buffer`, `queue.status`, `link.buffer` of each websocket, `link.status`, positions in `sorted` | `CopyBuffer`, `queue.Write`/`Send`/`close`, `link.Write`/`Send`/`close`, the hubs' `Remove`/`RemoveAll` | `src/pipe/queue.go`, `link.go`, `func.go` |
| server, one session | the two hubs, counters of Hi messages, `connPool`, status and `done` of each Send | `dispatchDataMessage`, `establishProxy`/`establish`, `Add`/`TrySend`/`trySend`, `CloseProxyConn`, `Hub.Close` | `src/wss/proxy_server.go`, `hub.go`, `src/pipe/` |
| client, one session | proxies, writers, the two hubs, the local `status` of `transData` | `transData`, its closure `remove`, `onClosed`, the three goroutines it spawns | `src/wss/wssocks_client.go`, `websocket_client.go`, `proxy_client.go` |
| websocket writer | context, mutex | `Write`, `WriteEOF`, `CloseWsWriter` | `src/wss/concurrent_websocket.go` |
| sessions on shared websockets | what the websockets carry, which are closed, the links of each session, which writers are cancelled | Send of every session, the readers blocked in `link.Write`, `CloseWsWriter`, control messages that expire, `closeAll` | `src/pipe/`, `src/wss/proxy_server.go`, `concurrent_websocket.go`, `proxy_client.go`, `heart_beat.go` |
| client start, server handlers | where Run is, the handler of each websocket, the hub collection | `PreRun`, `CreateServerConn`, `NegotiateVersion`, `ExchangeVersion`; `ServeHTTP`, `NewHub`, `RemoveProxy` | `src/cmd/client/`, `src/client/client.go`, `src/wss/version.go`, `wssocks_server.go`, `hub_collection.go` |
| client process | tasks of the wait group, `sync.Once`, `hdl.closed`, `wgClose` | `StartClient`, `Wait`, `NotifyClose`, `ListenAndServe`, `localVisit`, `Client.Close`, heartbeat | `src/client/client.go`, `src/wss/heart_beat.go` |
| connection records | counts per address, two mutexes, the table on the terminal | `Update`, `OnChange`, `ProgressLog.Write`/`SetLogBuffer` | `src/wss/conn_records.go`, `src/wss/term_view/` |
| BufferedWR | buffer, mutex, token channel | `Write`, `Read`, `Close` | `src/wss/buffered_reader_writer.go` |
| addresses | none: pure functions | `ParseHeader`, `checkAddrPrivite`, `checkIpPrivite` | `src/wss/proxy_client_socks5.go`, `privite.go` |
| not modelled | status page, flags of the server command, plugins | | see section 7 |

How they interact. `transData` registers the session on every websocket, says Hi
on each and Est on one. The server's reader goroutine of each websocket puts its
Hi into the hubs; `establish` dials. Whoever completes the set last starts the
Send loops. From then on a block goes

    CopyBuffer -> queue.buffer -> queue.Send -> websocket 1..N
      -> reader of that websocket -> link.buffer 1..N -> link.Send -> connection

and nothing in a message says which block it is: both ends rely on the same
round robin. When the target is through the server sends a close message on
websocket 1, upon which the client removes the session.

What makes this hard: the turn of the two ends must agree through timeouts,
breaks and removal; Send of a queue is started from two places, with a status
that no lock protects; a closed Go channel yields zero values instead of an
error; `done` is a rendezvous; the close message shares no order with the data;
the Once that shuts the client down runs only once; logging takes mutexes that
its caller may hold; one full link stops a websocket for every session on it;
version messages carry no type, so that both ends must agree on when they come.

## 2. Modules

Each module has its state as variables, one action per step of a goroutine
between two points where another can be seen (a lock, a channel operation, an
unprotected read or write), `Next`, `Spec`, and, for liveness, `FairSpec`.
Data is abstract: a block is its position in the stream, `0` is the empty block
that a closed channel yields.

- **Stream**: what a direction of a session promises: the destination has
  received a prefix of what was read, and is half-closed only after all of it.
- **Transfer**: the pipeline above, for both directions. `CopyRead`, `CopyEnd`,
  `QueueCheck`, `QueuePut`, `QueuePutFails` are CopyBuffer and `queue.Write`;
  `Queue...` is `queue.Send`; `Receive`, `LinkPut`, `LinkPutFails` are the reader
  of a websocket in `link.Write`; `Link...` is `link.Send`; `Remove`, `RemoveAll`,
  `CloseWsWriter`, `Break` disturb it. The constant `Faults` selects which timers
  may expire and which disturbances may happen. `qSlot`, `qData`, `lSlot` are
  history variables.
- **Response**: Transfer from server to client, with `tellClosed` and the
  client's `onClosed`. It is shown to implement Transfer with the faults
  `remove` and `removeAll` (`PipeSpec`). It also has the read deadline that two
  goroutines of the server set on the connection to the target: `LoadLine` and
  `SetReadDeadline` are a turn of CopyBuffer, `ShortenLine` and `ShortenRead` the
  goroutine behind `link.Wait`.
- **Mux**: several sessions on the same websockets, from the client to the
  targets. A session is its two Send loops (`StartWrite`, `EndWrite`, `FailWrite`;
  `Collect`, `SendTimeout`) and its end at either side (`CloseWsWriter`, `RemoveAll`).
  The reader of a websocket works on the head of `wire` until it has stored or dropped
  it (`Store`, `Drop`, `Expire`), so a full link holds up everything behind that head.
  A write to a target can stick (`out`), and may get on later (`Unstick`). The control
  messages (`SayID`, `Establish`, `TellClose`, `HeartBeat`) take no room in `wire`;
  what matters of them is that each has a context of a minute, and one that cannot be
  written in that time makes the library close the websocket for all (`down`). Then
  `CloseAll` closes the others, writes fail, and the server's readers end
  (`ReadError`). A write is two steps because `CloseWsWriter` waits for one in
  progress.
- **Startup**: Run of the client up to the running tasks, against one `ServeHTTP`
  per websocket: dialing with the key, the exchange of versions on each websocket,
  the comparison, and the handler from the version to its deferred calls. A
  websocket can break, or stay open and carry nothing (`Stick`); the client can die
  at any point. `GetConnCount` is what the status page shows.
- **ServerConn**: one session on the server, from its Hi messages to the end of
  `establishProxy`. Queues and links are numbered objects because a late Hi makes
  new ones. What the loops of Send do with data is in Transfer; here a Send is its
  guard, its status and `done`. Data races on `status` are separate read and
  write steps. The fault `silent` is a target that neither sends nor closes: then
  only a close message ends the session.
- **ClientConn**: `transData`, the goroutines it spawns and the reader that calls
  `onClosed`; `remove` is run by both, with the unprotected `status` variable.
- **ClientLife**: the process: tasks, the Once, `closeAll` and `NotifyClose` step
  by step, interrupts, and connections that are in their handshake, active through
  the server, visiting a private address locally, over or cut off.
- **Records**: the records and the two mutexes (that of the records, that of
  logrus), on a terminal or not, with the count of lines of the table.
- **BufferedWR**: writer and reader with the unprotected `buffer.Len()`, which can
  see a stale or, while the bytes are moved, a torn length. In the repository only
  its test uses it.
- **Address**: `checkAddrPrivite` and the parsing of a socks5 request as operators,
  about which ClientConnProofs has theorems. Nothing in it changes state, and it is not
  model-checked.
- **MC...**: instances for TLC.
- **TransferSteps, TransferProofs** (Transfer and Response), **ServerConnSteps,
  ServerConnProofs** (ServerConn), **ClientConnProofs** (ClientConn, Records, Address),
  **ClientLifeProofs** (ClientLife, BufferedWR), **MuxProofs**, **StartupProofs**: the
  proofs. A module `...Steps` has the invariant's conjuncts and the lemmas that come
  first; the prover is slow on a module that has all of them. Records and BufferedWR
  name their specifications `RecSpec` and `BufSpec` (`RecInit`, `BufNext`, ...) so that
  a module of proofs can extend them along with another component.

An operator whose comment begins "Mutant of" is a wrong variant of the
definition after it; it is used by nothing and records which mistake a property
would notice.

## 3. Runs

All with `tlc -config <run>.cfg <module>`. The states are distinct ones.

| run | instance | checks | states |
|---|---|---|---|
| `transfer_order` (MCTransfer) | 2 websockets, capacity 1, 3 blocks, 5 slots, all faults but `linkWrite` | `InOrder`, `FinComplete`, `EmptyBounded`, `StreamSpec` | 3,067,866 |
| `transfer_live` (MCTransfer) | 2 websockets, capacity 1, 3 blocks, 6 slots, the session may be closed | `Delivered`, `EndDelivered`, `LinkStops` | 221,834 |
| `server_safe` (MCServerConn) | 3 websockets, all faults | `NoLostStart`, `LinkSendOnce`, `NoDoubleClose`, `ReleasedInTime`, `NilNeedsClose`, `EstablishEnds`, `CloseEnds` | 361,426 |
| `response_ends` (MCResponse) | 2 websockets, 4 blocks; breaks, failing writes, expired `link.Write` | `OneLongRead`, `ResponseEnds`, `PipeSpec` | 382,087 |
| `client_safe` (MCClientConn) | 3 websockets, all faults | `NoDoubleClose`, `MasterReleased`, `TransEnds`, `QueueStops` | 1,250 |
| `life_exit` (MCClientLife) | 2 websockets, 2 connections, all faults | `InterruptWaits`, `ErrorExits`, `InterruptExits`, `NoLateAccept`, `ListenerGone` | 478,962 |
| `records` (MCRecords) | 3 connections, 2 addresses, 2 other loggers | `CountsRight`, `TableFits`, `UpdateEnds` | 7,026 |
| `buffer` (BufferedWR) | 4 bytes | `NothingLost`, `WrittenIsRead` | 488 |
| `mux` (MCMux) | 2 sessions, 2 websockets, links and websockets of 1 block, 5 and 2 blocks; every target may stop reading, every control message may expire | `NoCircularWait`, `OwnStream`, `SessionsFlow`, `SessionEnds`, `LossEndsAll` | 514,330 |
| `startup` (MCStartup) | `--nums` 0 or 2, four servers around the client's version, 2 messages each way | `Aligned`, `ServesCompatible`, `StartEnds`, `HubsLeave` | 102,696 |

Deadlock is not checked: each model stands for one session, a few sessions or one
process, which come to an end and stop; that they do not stop too early is what the
liveness properties say.

Two runs end in a counterexample, which is what the code does where a comment in
it says otherwise:

- `server_twice` (`SingleSender`): `Add` of the last Hi and `TrySend` both spawn
  Send of the queue, and both pass the check at `src/pipe/queue.go:76`.
- `response_truncated` (`ResponseComplete`): the close message on websocket 1
  overtakes data on the others, and the client drops it
  (`src/wss/wssocks_client.go:229`).

Three more invariants do not hold; each gives its counterexample when it is added to
the run of its module (`server_safe.cfg`, and `life_exit.cfg` for the last), which
checks what is left of it instead:

- `WriterFound`: a close message between the registration of the connection and
  `Get` leaves `writer` nil at `src/wss/proxy_server.go:237`. `NilNeedsClose` says
  that nothing else does.
- `Released`: a failed dial leaves the queue and the links in the hubs
  (`src/wss/proxy_server.go:189`), although `:117` says they have been released.
  `ReleasedInTime` is about sessions that got their connection.
- `ListenerClosed` of ClientLife: "Close stops listening on the TCP address"
  (`src/wss/wssocks_client.go:314`). A Close that comes before `net.Listen` has
  returned finds no listener, and `ListenAndServe` then returns `StoppedError`
  (`:101`) without closing the one it has opened. Nothing is accepted from it
  (`NoLateAccept`), and it lasts until the process ends, which follows
  (`ListenerGone`).

### Properties that hold with an exception

Some properties state what holds and name the case in which it does not:

- `InOrder`, `FinComplete`, `StreamSpec` need that `link.Write` does not expire
  (`src/pipe/link.go:120`): its callers ignore the error, so the block is lost and
  the later ones move up.
- `EmptyBounded` is about a close under a running `queue.Send`. A close before
  Send sets its status (`src/pipe/queue.go:86`) is overwritten, and Send then takes
  empty blocks from the closed buffer until a websocket writer fails or is
  cancelled.
- `ReleasedInTime`, `EstablishEnds`: a Hi that is handled after the session was
  closed makes a queue and links nobody removes (`src/wss/proxy_server.go:85`),
  and if the close came before the last Hi, `establish` waits for a Send that was
  never spawned (`:166`, `:237`). A Hi that the client failed to send, and the
  panics of the runs above, are excepted as well.
- `CloseEnds` is about a close that finds the connection in `connPool`. One that is
  handled during the dial finds nothing (`src/wss/hub.go:67`) and is dropped; the
  session then ends by its data or its timers (`EstablishEnds`).
- `OneLongRead`: "let the read that is stuck now use the short timeout too"
  (`src/wss/proxy_server.go:209`) can miss: CopyBuffer may have loaded the long time
  before and set it after. The property says that this concerns one read at most.
- `OwnStream`, `SessionsFlow`: once a target stops reading, any session can lose a
  block to the five-minute timer of `link.Write`, or its websockets to the one-minute
  context of a control message (`src/wss/heart_beat.go:48`,
  `src/wss/websocket_client.go:79`), because the readers are held up for all. Such a
  session is excepted; `LossEndsAll` and `SessionEnds` say that it comes to its end.
- `ServesCompatible`: the server makes a hub, and counts it, before the client has
  compared versions (`src/client/client.go:157`); only dispatching is excluded.
  The count is one of websockets, not of clients (`src/wss/hub_collection.go:39`).
- `MasterReleased`: the links of the other websockets stay in the client's hub if
  `RemoveAll` came before `SetSort` (`src/pipe/link.go:187`). `QueueStops`: Send
  leaves its loop, but its goroutine then stays at `done`, from which nobody
  receives (`src/pipe/queue.go:81`).
- `ErrorExits`, `InterruptExits`: a task that ends during start-up may use the Once
  up before the heartbeat and the client exist (`src/client/client.go:186`); the
  process then runs until a second interrupt.
- `InterruptWaits` covers the connections that `wgClose` counts, not those in
  their handshake when `Wait` returns (`src/wss/wssocks_client.go:324`).
- `UpdateEnds`: an error of `GetSize` is logged under the mutex that the log needs
  (`src/wss/term_view/log.go:33`).
- `NothingLost`, `WrittenIsRead`: a stale token makes `Read` return `io.EOF` on an open
  buffer, though never before something was read; a torn length can make it wait
  with data in the buffer (`src/wss/buffered_reader_writer.go:54`).

## 4. Bounds

- `Cap = 1` (the code uses 10, and 1 when debugging) makes every channel full after
  one block, so each blocking case occurs within a few steps. With 2 websockets and 3
  blocks the round robin wraps on both sides. `MaxBlocks` bounds what the source
  yields, `MaxSlots` the blocks that `queue.Send` takes including the empty ones of a
  closed buffer; it exceeds `MaxBlocks` by at least a round, so that empty blocks
  meet data and end markers. The proofs remove these bounds for the safety
  properties.
- ServerConn and ClientConn with 3 websockets have a first, a middle and a last
  message in each order; a session has one Est and at most one close message.
- ClientLife: two connections, so that one can be in its handshake while another is
  active; at most two interrupts, because the second ends the process.
- Records: three connections on two addresses, so that an address is shared and
  leaves; heights of the terminal around the length of the table.
- BufferedWR: `MaxBytes = 4` lets the reader lag by more than the one token that
  the channel holds.

- Mux: two sessions and two websockets are the smallest circle of waiting readers.
  Links and websockets of 1 block fill within the 5 blocks of one session even when
  its target has taken one, so that the 2 blocks of the other, and the end of that
  other session (`Ending`), have to wait behind them.
- Startup: `--nums 0` counts as 1; two websockets have a first, whose errors count,
  and another, whose errors do not. The servers are older and newer, with and
  without support for the client.

No symmetry is used: websocket 1 is special, and most runs check liveness.

## 5. Fairness

Weak fairness stands for the Go scheduler: a goroutine that can run does. It is
given per goroutine, never to the environment: no fairness for the source of data
(`CopyRead`, `CopyEnd`), for breaks, interrupts, new connections, or timers, except
where stated:

- in Transfer the websockets deliver and the destination accepts writes, as long as
  they are up;
- in ClientConn a Send is sure to return only when it must (`LoopStops`), without
  its five-minute timer;
- in Response, too, the reader of a websocket goes on; where a link stays full that
  is its five-minute timer in `link.Write`, on which `ResponseEnds` relies
  (`WF_vars(ReaderStep(c))` of Transfer);
- in ClientLife a connection ends some time, and the heartbeat ticks. The first is an
  assumption on the peers: the five-minute timers end a connection that is idle, but a
  write to a peer that does not read has no deadline;
- in ServerConn the target or its timers end a Send that has been started, unless the
  target is silent, when only a close does;
- in Mux a reader that is blocked goes on by its five-minute timer if by nothing
  else, and `closeAll` follows the loss of a websocket. A write of a block ends when the
  websocket has room or is closed; two sessions that compete for the room of one
  websocket do not keep it from each other, because their blocks are finite. Nothing
  is assumed of the order of the timers: any of them may expire whenever what it waits
  for does not come. Whether a session starts or ends, whether a target reads again,
  whether a one-minute write expires is left open, but a session that has begun to
  cancel its writers goes on;
- in Startup the minute of the context of Run passes, and a client that lost a
  websocket ends (`ErrorExits` of ClientLife). Nothing makes a healthy client leave,
  and a websocket that is stuck may stay so for ever.

Strong fairness is assumed in Records only, for a goroutine that waits for one of the
two mutexes: `sync.Mutex` hands itself over to a goroutine that has waited for a
millisecond, so one that waits while others come and go gets it. Elsewhere a mutex is
held only over steps that are themselves fair.

## 6. Proofs

Checked by `tlapm`. Every invariant, action property and refinement that a passing run
checks is the statement of a theorem. The assumptions are those named in the modules
(`TransferAssumption`, `ServerAssumption`, `ClientAssumption`, `LifeAssumption`,
`MuxAssumption`, `StartupAssumption`, `RecordsAssumption`, `BufferAssumption`): positive
`N` and capacities, natural bounds, faults among those the module names, finite sets of
connections and addresses. Theorems about order have the further hypothesis
`"linkWrite" \notin Faults`, which section 3 explains. Each proof finds an inductive
invariant, shows with a lemma per conjunct that every action preserves it, and derives
the properties from it.

### Transfer

TransferSteps proves `TypeCorrect` (`Spec => []TypeOK`), for every set of faults.
TransferProofs proves, if `"linkWrite" \notin Faults`, `PipelineInvariant`
(`Spec => []PipelineInv`), `OrderKept` (`InOrder`), `NoTruncatingFin` (`FinComplete`) and
`ImplementsStream` (`Spec => StreamSpec`), a step simulation with the mapping
`sent <- blocks`, `ended <- copyPc = "done"`.

`InOrder` is not inductive: it says nothing of the blocks under way. The
strengthening gives every block that `queue.Send` takes a slot number and says

- `QueueInOrder`: the queue's buffer continues what has been taken;
- `MessagesFaithful`: a message of slot `s` is data `s`, or an empty block or an end
  marker that comes after all data;
- `Striped`: on each websocket, in the hand of its reader and in its link, the slots
  follow each other at distance `N`, the first one is the one `link.Send` expects
  there, and the last one is the one `queue.Send` dealt there last. An expired
  `link.Write` breaks exactly this;
- `LinkInOrder`: what was written is `1, 2, ...` up to the slots collected.

`EmptyBlocksBounded` (`EmptyBounded`) holds under all faults. Its invariant
`EmptySlots` bounds the empty blocks taken so far by the position in the round: Send
looks at its status at the top of a round only, so a close costs at most the rest of
one round, `N` blocks.

### Response

Also in TransferProofs. `ImplementsPipe` (`PipeSpec`) is a step simulation: with
`remove` and `removeAll` among the faults, `TellClosed` is a `Remove` of the queue,
`OnClosed` a `RemoveAll` of the links, and the steps of the deadline change nothing of
the transfer. `ResponseInOrder` carries `InOrder` and `FinComplete` over to a response
with its close message: the client may get less than all of it (`response_truncated`),
but what it gets is a prefix, and a half-close is never a truncation. `LongReadOnce`
(`OneLongRead`) rests on `DeadInv`: a long deadline that is set after the short one was
loaded before `d.Line` changed, and CopyBuffer holds one loaded value at a time.

### ServerConn

ServerConnProofs proves `Starts` (`NoLostStart`), `SpawnedOnce` (`LinkSendOnce`),
`ClosedOnce` (`NoDoubleClose`), `AllReleased` (`ReleasedInTime`) and `QueueFound`
(`NilNeedsClose`) for any number of websockets and all faults. None of them is inductive,
because a late Hi makes new queues and links under the same key, which could be taken
for those `establish` works with. The invariant `ServerInv` (`ServerInvariant`) rules
that out:

- `Ordered`, `Opening`, `Held`, `Sorting`: a websocket keeps its messages in order, and
  a connection that is not in `connPool` cannot be closed; so until then nothing leaves
  the hubs, and the Hi of websocket 1, Est and the dial all meet in the first queue and
  the first link;
- `LinkStarts`, `QueueStarts`: only these two get an order and a connection, and
  whichever of `Add` and `TrySend` sees the last part spawns Send. For the link
  the last part is either the connection or a Hi, so it is one of them; a queue waits
  for the Hi messages only, and `TrySend` after the last one spawns a second Send
  (`server_twice`);
- `Fresh`: what is in a hub has not been closed, so `close()` does not close twice
  although Send overwrites the status it looks at;
- `Removing`: who marks the connection as closed goes on to remove the first link,
  those of the other websockets, and the first queue;
- `Owners`: every queue or link beyond the first was made by a Hi of its own. A
  function from websockets to entries must exist; counting its values bounds the
  entries by `N + 1` and shows that no later link is ever complete.

### ClientConn, Records and Address

ClientConnProofs proves for ClientConn `ClosedOnce` (`NoDoubleClose`) and `Released`
(`MasterReleased`). In `ReleaseInv` (`ReleaseInvariant`), `Promised` says what the
unprotected `status` means: where it says removed, either the queue and the master link
have left the hubs or one of the two callers of `remove` is about to take them out.
`OpenInHub` says that an object in a hub is open, and `Early` that nobody is in `remove`
while `transData` still puts objects in.

For Records: `RecordsTyped`, `RecordsCorrect` (`CountsRight`: the counts are the numbers
of live connections), `NeverBadSize` (the fatal branch of `Update` is never taken) and
`TableAlwaysFits` (`TableFits`). The inductive invariant is
`RecTypeOK /\ CountsRight /\ NoBadSize`: that the address of an ending connection is
found rests on the counts, and the counts are cardinalities, so the step rests on how
adding and removing one connection changes that of a finite set.

For Address, three theorems about functions. `PrivateNets`: a host is visited
locally by the client, or declined by the server, exactly if one of its resolved
addresses is 127.0.0.1 or in 10/8, 172.16/12 or 192.168/16; the rest of 127/8 and
IPv6 never count. `RequestParsed`: ParseHeader finds the address and the port of every
complete request, for IPv4, names of any length, and IPv6. `ReadsInBounds`: for any six
or more bytes read, the positions it looks at lie in its buffer of 1024.

### ClientLife and BufferedWR

ClientLifeProofs proves `Waits` (`InterruptWaits`) and `AcceptsNothing`
(`NoLateAccept`, an action property). `WaitInv` says that the Once runs once, that
where its function is tells what has been closed, and that the websockets come after
the wait, so that nothing `wgClose` counts is active by then. `Listening` says that
whoever is in `Accept` when `stop` is closed has a listener, which is closed next
(`LifeInvariant` is both).

`NoByteLost` (`NothingLost`) is about BufferedWR. `BufferInv` numbers the bytes
(`Numbered`), says who holds the mutex (`Guarded`) and, in `FirstByte`, that a token
that comes before the first byte is read belongs to a byte that is in the buffer or about
to be stored: that is why a stale token can end a later `Read` and not the first.

### Mux

MuxProofs proves `NeverCircular` (`NoCircularWait`) and `StreamsStayApart`
(`OwnStream`), for any number of sessions and websockets, with every timer free to
expire. `NoCircularWait` is about any set of readers that wait for sessions which still
run and lost nothing: one of them waits for a block that is on a websocket outside the
set. With the set of all readers it says that they do not all wait.

The inductive invariant says, of every session that still runs and lost no block
(`Healthy`), that each block it wrote is at its target, in the link or on the websocket
of its turn, in order; and `Ranked`: the blocks can be ranked so that the rank grows
with each session's count and along each websocket. The rank is the time of the write,
which no variable records, so the invariant says that one exists. That no circle forms
follows: of the blocks at the heads of the websockets in the set take the one of least
rank (`LeastNat`, derived from the well-foundedness of inclusion on finite sets). Its
link is full, so `link.Send` waits for an older block of that session, which can only be
on the websocket of its turn; its rank is lower than that of every block in the set, so
that websocket is not in the set.

### Startup

StartupProofs proves `VersionsAligned` (`Aligned`) and `OnlyCompatibleServed`
(`ServesCompatible`) for any number of websockets and any versions. The inductive
invariant `Conversation` says, for each websocket that is open, how far its exchange is
from where Run is (`Silent`, `Asked`, `Spoken`), and what may be left on one that is
closed; `Admitted` says that a message under way means that the versions fit, because
the client sends none before it has compared them.

### Only model-checked

All liveness properties: fairness and ENABLED are beyond the prover. The two runs that
end in a counterexample need no proof, and `WriterFound`, `Released` and `ListenerClosed`
do not hold.

## 7. Not modelled

- `TimeoutClose` of the hubs: it has no caller.
- Values of time: a timer is a fault that may happen or not, apart from the two
  deadlines of Response, which are told apart.
- Several sessions in the direction from the server to the client: the client's reader
  is the same code with `clientLinkHub`, so Mux stands for it. The server's control
  message (`tellClosed`) has no deadline, so nothing expires there but `link.Write`.
- The loop of `ServeHTTP` after `io.EOF` (`src/wss/wssocks_server.go:61`): the websocket
  library wraps the errors of `Read`, so that this very value does not occur, and
  `AfterLoss` of Startup ends the loop on every error.
- Addresses as text: `ParseHeader` of Address yields the bytes of the host and the
  port, without `net.IP.String` and `JoinHostPort`, and `checkAddrPrivite` starts from
  the addresses that the lookup returned. The code looks up what stands before the
  first colon, which is not the address if that is IPv6 in brackets.
- The bytes of the two socks5 replies: nothing in the program depends on them.
- Frames that do not parse, JSON layouts, base64, HTTP and TLS.
- The status page beyond its count, its web application, the flags of the server
  command, plugins (nothing registers one) and the programs under `src/play`: they hold
  no state that other parts use.
