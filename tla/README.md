# Formal models of azure-webpubsub

TLA+ modules, TLC configurations and TLAPS proofs for the TypeScript code of
this repository that has to get concurrency right: the server side of the Web
PubSub tunnel, the Socket.IO extension built on it, the local tunnel tool and
the experimental synchronisation hosts.

All source paths below are relative to `src/`.

## 1. Inventory

The repository is a collection of packages around the Azure Web PubSub service.
The service itself is not in it, nor are the `@azure/web-pubsub-client`,
`engine.io` and `socket.io` libraries; they appear here as the environment.

| Component | State | Operations | Talks to |
|---|---|---|---|
| **Tunnel clients** `sdk/server-proxies/src/tunnels/TunnelConnection.ts`, `WebPubSubTunnelClient.ts` | `_stopped`, `clients`, per client `stopped` and the library's connection, the retry loop of each `startConnectionAsync` | `runAsync`, `stop`, handlers of Reconnect / Close / Rebalance, the library's `connected`, `disconnected`, `stopped` | the library's callbacks; the invocations below |
| **Tunnel invocations** `TunnelConnection.ts`, `utils.ts` | `_ackId`, `_ackMap`, `_keyMapping`, closures of `invokeAsync`, timers of `AckEntity.write` | `invokeAsync`, `processMessage(HttpResponse)`, readers | tunnel clients, the service |
| **Response bodies** `utils.ts` (`AckEntity`, `AsyncIterator`), `InprocessServerProxy.invoke` | `items`, `isClosed`, `resolveCurrent`, `errorToThrow`, queued readers | `add`, `error`, `close`, `next`, abort | invocations, `emitWithAck` |
| **Tunnel requests** `HttpServerProxy.ts`, `InprocessServerProxy.ts`, `TunnelMessageProtocol.ts` | the promise of one request | `sendHttpRequest`, `_getRequestHandler`, `readResponse`, framing | tunnel clients, a local HTTP server or Express |
| **EIO connections** `sdk/webpubsub-socketio-extension/src/EIO/` | `_clientConnections`, `_candidateSids`, pending connect responses, `clients` of Engine.IO | `handleConnect`, `handleUserEvent`, `onDisconnected`, `close`, connect timeout | service events, Engine.IO |
| **EIO transport** `web-pubsub-transport.ts`, `client-connection-context.ts` | `writable`, `_buffer`, `_opened`, the calls of `send` under way | `send`, `doClose`, packet batching, the context's `send`, `onAcceptEioConnection`, `onRefuseEioConnection`, `close` | EIO connections, the service |
| **SIO adapter** `SIO/components/web-pubsub-adapter.ts` | rooms and sids of the in-memory adapter, service groups, per-socket locks | `broadcast`, `broadcastWithAck`, `addAll`, `del`, `delAll`, `addSockets`, `delSockets`, `disconnectSockets` | the REST or tunnel service client |
| **awps-tunnel server** `tools/awps-tunnel/server/` | `DataHub` status, history, the embedded upstream, web views | reports, traffic log, start / stop of the upstream | `HttpServerProxy`, the web view, SQLite |
| **awps-tunnel web view** `tools/awps-tunnel/client/` | connection state and model of the page | connect, reconnect, apply updates | `DataHub` |
| **Yjs sync** `experimental/sdk/y-azure-webpubsub*` | documents, awareness, `synced`, socket | sync steps, awareness, start / stop | the service |
| **GraphQL adapter** `experimental/sdk/webpubsub-graphql-subscribe` | sockets per connection | connect, message, disconnect | `graphql-ws` |
| **Reliable sample clients** `samples/csharp/clientpubsub-reliable-subprotocol`, `samples/javascript/chatapp-reliable-subprotocol` | sequence ids, recovery tokens, unacknowledged sends | receive, ack, recover | the service |

What is hard in each, and what correctness means:

* **Tunnel clients.** Everything runs on one JavaScript thread but every
  `await` is a gap: `stop()` may run between a retry's delay and its next
  attempt, between the two halves of a Reconnect, or while a start is under way.
  Correct: nothing that can still carry traffic escapes `stop()`; a Reconnect
  never leaves the tunnel without a client.
* **Tunnel invocations.** Requests of one room must be executed in order although
  the service spreads a tunnel over several connections. The code pins a room to
  a client while requests of it are in flight, with a reference count. Correct:
  the count is exact, the pin holds, the order follows; every call is settled
  once; an ack entity is there while a message for it may come, and is left over
  only when a cut has taken its request or response away: then it stays for ever
  (the TODO at `utils.ts:19`), as does a caller that has got nothing yet.
* **Response bodies.** A producer fed by timers and a consumer in a `for await`.
  Correct: no lost wake-up, no item lost or reordered, and the end of the stream
  is reported only after every item. An abort queues a reader without a message.
* **EIO connections.** A connect event is answered by whichever comes first of
  Engine.IO's acceptance, refusal, an error or a timeout; the service keeps to the
  first answer. Correct: every event is answered, a connection that is let in is
  served, and one that is gone is forgotten.
* **EIO transport.** Packets offered while a send is in flight are buffered.
  Correct: packets reach the service once, in order, only after the connection was
  accepted, and the transport becomes writable again.
* **SIO adapter.** Room changes are a service call followed by a local change,
  under a per-socket lock in some operations and without one in others. Correct:
  rooms and service groups agree when nothing is in flight; filters select the
  sockets Socket.IO would select.
* **Acknowledged broadcasts.** The acknowledgements come back as the lines of a
  streamed response that is cut anywhere. Correct: each client's is handed over
  once, and the application is answered with all of them.
* **awps-tunnel.** Every record of a request is a statement of SQLite that takes
  effect and is answered at moments of its own, while the web view fetches the
  history and follows the changes. Correct: a response is kept and shown with the
  request it answers, and the view shows what the hub has. The embedded server is
  checked before an `await` and set after it.
* **Yjs sync.** Questions, answers and broadcasts cross, and a client may come
  back in the middle. Correct: a client that believes it is synced has all the
  host shows, the host learns all a client has, and the documents become equal.
* **GraphQL**, **samples**: state kept per socket or per recovery token, without
  concurrency of its own.

## 2. Plan

The order follows what the rest of the repository stands on: the tunnel carries
every call of the Socket.IO extension, the transport and the adapter carry every
message of a Socket.IO application.

| Step | Modules | State |
|---|---|---|
| 1 | `TunnelClients`, `TunnelConnection` (extends it), abstract `RoomOrder` | modelled, checked, proved |
| 2 | `ResponseBody`, abstract `ByteStream` | modelled, checked, proved |
| 3 | `PacketBatch`, `EioTransport` (extends it) | modelled, checked, proved |
| 4 | `RoomFilter`, `RoomAdapter` (extends it) | modelled, checked, proved |
| 5 | `TunnelRequests`, `EioConnections` (extends it) | modelled, checked, proved |
| 6 | `BroadcastAck` (extends `ResponseBody`) | modelled, checked, proved |
| 7 | `LocalTunnel` (extends `TunnelRequests`) | modelled, checked, proved |
| 8 | `YSync` | modelled, checked, proved |
| 9 | the reliable-subprotocol sample clients: sequence acknowledgements and recovery | next |

Composition goes by extension, so that the parts of a step stay one step:
`TunnelConnection` is `TunnelClients` with invocations, `EioTransport` uses
`PacketBatch`, `RoomAdapter` uses `RoomFilter`, `BroadcastAck` reads the body of
`ResponseBody`, and the requests of the service in `EioConnections` and in
`LocalTunnel` are those of `TunnelRequests`. `EioTransport` starts from the
acceptance that `EioConnections` is about. The abstract specifications are
`RoomOrder` and `ByteStream`.

## 3. The modules and the code

An action is the code between two `await`s: JavaScript runs one turn at a time,
so nothing happens inside an action and anything may happen between two. The
operators whose comment begins "Mutated form of" are not part of any
specification: each is a definition with a bug one could plausibly write, and
the property named for it must then fail. They show that the properties are
about this code.

### TunnelClients (`TunnelConnection.ts`, `WebPubSubTunnelClient.ts`)

`ended` is `_stopped`, `clients` the key set of the map, `stopped[c]` the flag of
a client, `starter[c]` the position of its `startConnectionAsync` loop, `forever`
the clients whose `shouldRetry` is always true, `restarts` the Reconnect handlers
between their two halves. `conn[c]` is what the library (external) does with the
connection. `Run`, `Stop`, `Wake`, `HandleReconnect` with `Restart`,
`HandleClose` and `HandleRebalance` are the code; `LibOpen`, `LibStartFails`,
`LibDown`, `LibReopen` and `LibStopped` are the library, whose last step runs
`tryEndLife`.

### TunnelConnection (`TunnelConnection.ts`)

Extends the former with `_ackId`, `_ackMap`, `_keyMapping` (a counter and a client
per key) and, per invocation, its key, client, place (`st`), request (`wire`),
answers (`reply`) and queued readers (`timers`, each of a message or of an abort).
`Invoke` is `invokeAsync` with
`getClient` and `lockClient`; `SendDone` and `SendFails` the two ends of
`sendAsync`; `HandleResponse` is `processMessage`, `RunReader` the reader of
`AckEntity.write`. `AbortFires` is the listener of `AckEntity`: it queues a reader
without data wherever the call is by then, also when `sendAsync` throws for the same
abort. `ReadMessage` is the reader given a message; `ReadAborted` the one given an
abort: it sets the error and throws at `data!.Content`, in a callback nobody guards,
so that the process ends (`alive`) unless the application listens for uncaught
errors. `Execute` is the service, which goes on without the process, `Cut` the loss
of a connection; `severed` is a history variable, the invocations a cut has taken a
request or an answer from. No caller in the repository passes a signal to
`invokeAsync`; the module allows one for the callers it is exported to.
The six random draws of `getRandomClient` are a choice of any client.

### RoomOrder

What the change log promises of rooms, without connections, keys or locks: a
request of a room is not performed while an earlier one is outstanding, unless
excused. `TunnelConnection` implements it with `performed`, `room` and
`position` read off the invocations; excused are requests that failed to their
caller, were cut off, or were given to a client that was told to stop.

### ResponseBody and ByteStream (`utils.ts`, `TunnelConnection.invokeAsync`, `InprocessServerProxy.ts`)

One response: `arrived` messages, the readers queued by `AckEntity.write`, the
`AsyncIterator` (`items`, `isClosed`, `failed`) and the caller's `for await`.
`CallNext` and `Resume` are `next` before and after its `await`. `ByteStream`
is the stream the caller believes in: each piece once, then the end; or an
error, if it aborted. `ReadAbort` is the reader of an abort, which may end the
process (`alive`) as in `TunnelConnection`.

### BroadcastAck (`SIO/components/web-pubsub-adapter.ts`, `InprocessServerProxy.invoke`)

`broadcastWithAck` as the caller of `ResponseBody`. A line of the response stands
for one client: the two bytes of a character and the newline, so that `bytesTo`,
the ends of the pieces, may fall inside a character, inside a line, or between
lines. `Decoded` is a `TextDecoder` without its stream option, `HandleChunk` is
`streamHandleResponse`, `CountClients` the end of the body, `TimesOut` the
timeout of Socket.IO. An answer with another status than 200 is, to the
application, no answer: it times out. What invokes it passes no abort signal, but
the body allows one, and the property holds with it.

### PacketBatch (`web-pubsub-transport.ts`)

`NextSend` is `_getPacketNumberForNextSend`: `Scan` is one round of its loop,
`Scanned` the recursive function of the rounds over the kinds of the packets, with
the fallback of the caller's `catch`.

### EioTransport (`web-pubsub-transport.ts`, `client-connection-context.ts`, `EIO/index.ts`)

The connection on both sides of `WebPubSubTransport.send`: Engine.IO's
`writeBuffer` (`pending`, external) and flags, the transport's `_buffer`,
`writable`, `_opened`, and every call of `send` under way (`phase`, `payload`).
`unit` and `duty` say what the running turn still has to do; `BetweenTurns` and
`Quiet` say when other callbacks may run. `Loop` is the loop of `send` up to its
next `await`. `CloseTransport` is `doClose`, `CloseContext` the context's `close`
called by the server's cleanup.

### TunnelRequests (`TunnelConnection.ts`, `InprocessServerProxy.ts`, `HttpServerProxy.ts`)

A request of the service: `on` its line, `stage` where it is, `answer` the first
answer of its handler, `cut` the lines that are gone. `Answered` is the promise
that only the first end of a response resolves; `Reply` the rest of
`processMessage`, which sends on the line the request came on. A client of the
tunnel that has reconnected is a new line. Which requests there are and who
answers them is left to the modules that extend it.

### EioConnections (`web-pubsub-connection-manager.ts`, `client-connection-context.ts`, `EIO/index.ts`)

`known` is `_clientConnections`, `candidates` `_candidateSids`, `clients` the map
of Engine.IO, `bound` and `responded` the transport and `connectResponded` of a
context, `timers` the timeouts of `handleConnect`. `Connect` and `Disconnected`
are the handlers of the events; `Refuse` and `MakeClient` what Engine.IO's
handshake (external) does, at any later moment, and `GoesOn` the rest of
`onConnect` after its `await`; `Accept`, `Timeout` and the end of a client answer
connect events. `peer` is the service's view: it sends the events of one
connection one after another. Promises that are resolved go on before the next
message or timer (`Quiet`), as JavaScript has it. Lines in `Weak` may be cut
before the server is closed.

### RoomFilter and RoomAdapter (`SIO/components/web-pubsub-adapter.ts`)

`RoomFilter` builds the OData text of `_buildODataFilter` as a sequence of
literals and evaluates it with OData's precedence (external); `Selected` is the
selection of Socket.IO's in-memory adapter. `RoomAdapter` keeps the rooms of a
namespace twice, in memory (`rooms`) and as groups (`groups`), and moves each
call of `addAll`, `del`, `delAll` through the queue of the socket's lock:
waiting, asked of the service, served, answered. `BulkAsk`, `BulkServe`,
`BulkAnswer`, `BulkFail` are `addSockets` and `delSockets`, which take no lock.
`want` and `spoiled` are history variables: the rooms had every call been done at
once, and the named causes that may separate the three.

### LocalTunnel (`tools/awps-tunnel/server/`, `tools/awps-tunnel/client/`)

`hub` holds the fields of `DataHub`, `rows` and `lastId` the SQLite table (an
AUTOINCREMENT id is never given again), `work[r]` and `clearing` where the
statements are: issued, in effect, answered, in any order between statements.
`Report` is a `Report...` operation; `Handle`, `Inserted`, `Added`, `Responds`,
`Updated`, `UpdateSeen` are `handleProxiedRequest` with `AddTraffic` and
`UpdateTraffic`, cut at its `await`s. The upstream server answers any time or
never (`httpInvoke` has no timeout). `Ask`, `ReadFields`, `Select`, `Fetched` are
the view's one call of `getCurrentModel`; it is not called again after a
reconnection. `StartUpstream`, `Started`, `StopUpstream` are the embedded server:
a stop during an awaited start closes nothing, and a URL without a port makes the
start throw (`StartThrows`). The process ends (`Die`) on an error event of `listen`
or of a statement that cannot be prepared, or a rejection nobody catches. What the hub emits is shown
when it is emitted, and what a view shows before its first model is replaced by
it. There is one view, and one clear at a time. `missed` and `mixed` are history
variables: the fields and items about which the code promises nothing, because
they changed while they were fetched, or crossed.

### YSync (`experimental/sdk/y-azure-webpubsub*`)

Yjs (external) is a set of updates: an update whose predecessors are missing is
kept and not shown (`Visible`). `sock` is the state of every WebSocket a client
makes, `ws`, `connected` and `synced` its `_ws`, `_wsConnected` and `_synced`,
`up` and `down` the messages on the way, which the service delivers in order per
connection and loses with it. `Start` and `Fetched` are the two halves of `start`,
`Open`, `Receive` and `Closed` the handlers of the socket; `HearsQuestion`,
`HearsUpdate` and `HearsPresence` those of the host, `Joins` and `Lost` the
service. `Open` sends what the code sends: its last message is the question again
under the name of an awareness message. `Stop` during the `await` of `start`
reaches no socket and has no effect. The repository has no code for the loss of
the host's connection, and the 30 seconds after which presence expires are left
out. `heard` and `raced` are history variables.

## 4. The runs

| Run | Shows | Bounds and why they are enough |
|---|---|---|
| `clients` | no live connection escapes the map; after `stop()` every live client has been told; clients retried forever are never forgotten; a Reconnect ends with an open connection or a stop | four clients: the first, the one a Reconnect starts while the former is still closing, one of a rebalance, one of a second `runAsync`; all faults on |
| `tunnel` | which ack entities there are, exactly; the key map counts exactly the invocations that hold a key on a running client, and never more on a stopped one; nothing is settled twice or before it was executed, whatever readers are queued; a request on the wire is answered unless its send fails, its client is cut or an abort ends the process; refinement of `RoomOrder` | two clients that drop, come back and are replaced, one key, two invocations, one of them with a response in two messages and a caller that may abort at any moment: each property relates at most two invocations and two clients. Failing starts are left to `clients`: to an invocation they are a client not yet open. That a release meets an entry now held for another running client takes three invocations, and is left to the theorem `KeysAreCounted` |
| `room_order` (violation) | the change log's promise fails when the service closes one of several connections | three invocations, two clients: the third meets a key its client has lost |
| `response_body` | `IInvBody` (nothing lost or reordered, no lost wake-up), every acknowledgement counts, the body ends unless its caller aborts, refinement of `ByteStream` | four messages: first, two in between (queued together or apart), last; two clients in every cut of their lines |
| `eio` | one call of `send` at a time while served; nothing lost, swapped, split, left waiting, or sent before the acceptance; a served connection was never refused; every packet up to the close reaches the service while it answers | seven packets: a binary sequence, one inside the next batch, the packets around them and two close packets; three calls: the one in flight and two that closing can start |
| `eio_order` (violation) | the close packet may overtake data | five packets, no faults |
| `connections` | what the service was told, what the manager knows and what Engine.IO has agree; an accepted connection is served; a known one is live; every connect event is answered | two connections, since ids could be swapped between two; two lines, one of them cut at any time |
| `room_filter_excepts` (violation) | an excluded room is reached when there are two rooms or more | |
| `rooms` | memory and service agree with the order of the calls; what the server shows is served; gone sockets leave nothing; every lock is given back | one socket, two rooms besides its own, three calls: sockets meet only in a bulk operation, which treats them one by one, and three calls are one in each place of the lock's queue |
| `rooms_early` (violation) | a room joined in a middleware is missing after the connection | |
| `ysync` | a synced client has, or will get, all the host shows; the host will know all a client has; a connected client holds its socket; presence survives the connections of others; documents become equal | two clients, five plans |
| `localtunnel` | a response is kept and shown with its request only; a view shows the fields and the history of the hub; the embedded server ends the process only in the two known ways; answers are recorded | two requests, one line, a history of one row (for the code's 50: the second request is already beyond it), eight plans |

The last two runs bound their environment with *plans*: an initial state chooses
how many edits, clears, stops, lost connections and the like the behaviour may
contain, each plan one difficulty or two that meet. All of them at once is beyond
a run; the plans are in the MC modules, and what is proved holds for any.

The invariants named `IInv...` are the inductive ones of section 6; checking them
is how they were found.

`CHECK_DEADLOCK FALSE` is set where the system really stops: a tunnel that was
stopped, a body read to its end, a closed connection, a full buffer, a socket
that is gone with its calls spent.

**Disagreements found** (details and lines in `PROJECT.json`):

* `room_order`: `getClient` forgets the key of a stopped client and returns that
  client all the same.
* `eio_order`: a comment of `InprocessServerProxy.ts` relies on `send` being
  queued, but `doClose` starts a call beside the one in flight.
* `room_filter_excepts`: `_buildODataFilter` writes no parentheses, so exceptions
  bind to the last room only.
* `rooms_early`: `addAll` looks the socket up where Socket.IO puts it only after
  the middlewares.

Three more were seen and are stated in the model instead of runs of their own:

* `send` sets `_opened` only after it has awaited the encoding of the open packet
  (`web-pubsub-transport.ts:74`). A close before that is taken for the first packet,
  and the connect event is answered with a refusal and then with success, where the
  comment at `web-pubsub-connection-manager.ts:100` has it accepted or refused. The
  service keeps to the refusal. `AcceptedFirst` says that such a connection is not
  served and nothing is posted for it.
* `data!.Content` (`TunnelConnection.ts:108`) asserts a message where the abort
  listener of `AckEntity` (`utils.ts:20`) passes none: the error is uncaught.
  `ReadAborted` and `ReadAbort` do what it does, and `SettledOnce`,
  `AckEntityLifetime` and `BodyEnds` are checked beside it.
* A join that overlaps `addSockets` or `delSockets` of the same server can leave
  memory and service apart for good (the cause `overlap`; the comment at
  `web-pubsub-adapter.ts:291` expects it of several servers only).

Some hazards really happen: the code does nothing against them, and a property can
only hold beside them. `InvocationSettles` leaves out a client that is cut (there is
no timeout; `AckEntityLifetime` says what stays behind), `AcceptedFirst` leaves out
the first answer once the whole server has been closed, and `spoiled`, `raced`,
`starting`, `missed`, `mixed` and `died` name the other cases. Where a property has
such an excuse it shows that nothing else leads there.

## 5. Fairness

* The event loop runs what is ready: weak fairness of continuations, timers and
  readers. JavaScript guarantees this as long as no callback blocks.
* A start that is tried for ever succeeds in the end: strong fairness of
  `LibOpen`. Without it no retry loop has anything to promise.
* In `EioConnections` that is `Timeout`, `GoesOn` and `Accept`, in `BroadcastAck`
  the reader and the caller; in `YSync`, `Fetched`, `Open`, `Receive`, `Hears`, and
  `Closed` for a socket that is closing; in `LocalTunnel` replies and the answers
  of SQLite (`Replies`, `ServerStep`).
* The service executes and answers what it has read, or reports a failure: weak
  fairness of `Execute`, `HandleResponse`, `Deliver`, and of the step of the call
  that holds a lock. A call that is never answered holds its lock for ever; the
  code has no timeout there.
* Nothing forces a response to arrive completely, a client to stay, the
  application to act, a caller to abort, Engine.IO's handshake to end, or the
  upstream server of the local tunnel to answer.

## 6. Proofs

Every theorem holds for all values of the constants, under the named assumptions
of the modules (`FaultsAssumption`, `TunnelAssumption`, `BodyAssumption`,
`AcksAssumption`, `TransportAssumption`, `RequestAssumption`, `ConnectionAssumption`,
`AdapterAssumption`, `LocalAssumption`, `SyncAssumption`), which TLC evaluates in the
runs.

* `TunnelClients_proofs!StopIsComplete`: `NoOrphan` and `StopReachesAll` are
  inductive with the types (`MapIsComplete` states the former); `ForeverIsForever`: with them so is `RetriesForever`
  (a loop that wakes after `stop()` ends, and its client has been told to stop).
* `TunnelConnection_proofs`: `IInv` joins to the types the places one invocation
  can be in (`Progress`), the readers (`ReadersMatch`), the exact counts and two
  facts about order. Affinity follows from the counts: a second invocation of a
  key finds a positive count, hence the mapped client. Order follows from
  `SameClient` (later requests of a key follow an outstanding one) and
  `ClientFifo`. `AnswersFindTheirEntity` is the exact content of the ack map: an
  entity leaves it only with its last message or the rejection of its call, and a
  cut leaves it there. `InvocationsSettleOnce` is an action property: a reader of a
  message belongs to a request that was executed and whose send has not failed
  (`ReadersMatch`), and one of an abort settles nothing.
  `TunnelKeepsRoomOrder` maps every step to a step of `RoomOrder` or
  a stutter.
* `ResponseBody_proofs`: `IInvBody` numbers the pieces: caller and iterator hold
  1..n, the queued readers the rest in order (`BodyInvariance`). `CallerIsWoken` and
  the refinement `BodyIsAStream` follow; `BroadcastsReadStreams` carries both over
  to `BroadcastAck`, each of whose steps is a step of the body or a stutter.
  `AcksAreCounted` is about what the adapter makes of it, for any number of lines
  and any cuts: `IInvAck` says, from the bytes handed over so far (`Handed`), that
  there is one response per line ended, in order, intact unless a cut tore its
  character, and that what is held is exactly what the line under way has of its
  character. `TextOf` is the arithmetic of one piece, `NextAcks` the step; the end
  of the body is the last byte, so nothing is held and every line is counted.
* `EioTransport_proofs`: `IInvEio` says that while the connection is served at
  most one call of `send` runs and `writable` tells so; `CallsTakeTurns` shows it
  inductive. `PacketsKeepTheirOrder` adds that the four places of a packet stay
  ascending and complete. `AcceptanceComesFirst` says of a connection not yet
  accepted that nothing is buffered or carried, that its first call has the open
  packet alone and that any other is a close, and that a turn that closes it has
  nothing left to write; that a served connection is accepted once or not answered
  (`Answered`); and that one refused first is closed and has nothing to send, unless
  the whole server was closed (`Refused`). `MessagesKeptWhole` and `LargestPartSent` are about the
  batches, for buffers of any length. What the loop of `PacketBatch` computes is
  shown by a minimal counterexample: a set of numbers has a least one (`LeastNat`,
  from the library's well-foundedness of finite subsets), so a first round at which
  a statement about the loop failed would follow one at which it held. With that,
  packets that make up whole messages (`Entire`) go in one call. `IInvWhole` says that
  every payload and the line of all that waits are whole, and that the buffer alone
  is torn only inside the turn that is writing the rest of a message (`TornInTurn`).
* `EioConnections_proofs`: `IInvConn` says per connection how far its events are
  (`Events`), that nothing is known of one that has not arrived (`Untouched`), and
  how answer, context, timer and Engine.IO's client fit (`Agreement`).
  `AnswersAgree` shows it inductive, for any number of connections and lines; that
  ids are not swapped (`SidsAreOwn`) holds since a connect event takes the id it
  has put into the queue, or a refusal takes it back, in the same turn. `AcceptedIsServed`, `KnownAreLive` and
  `ErrorsAreRefusals` follow.
* `RoomAdapter_proofs`: first the filters, for any rooms and exceptions:
  `NobodyIsMissed`, and `PlainSelectionsAreExact` for the selections without the
  precedence mistake. Then `IInvRooms`, which says per socket that the service is
  ahead of the memory by at most the call that holds the lock (`InStep`), and that
  doing what is queued leads to what was asked for (`Heading`, with lemmas on how a
  queue's outcome changes when a call is added or done). The invariant needs
  where each socket is (`Unregistered`, `Leaving`) and that an undisturbed bulk
  operation finds no call (`Undisturbed`). Bulk operations use the filter
  theorems; a socket the filter missed would be repaired by the `join` or `leave`
  that follows, one too many would not. `SafeAsIfAtOnce`, `SafeSeenIsServed` and
  `SafeGoneLeavesNothing` follow.
* `LocalTunnel_proofs`: `IInvLocal` says that ids are given once, in order and
  before the request is forwarded (`Progress`, `RecordedFirst`), and that the hub
  knows its server unless a start is awaited (`UpstreamKnown`). `ItemsAgree` shows
  it inductive; `ResponsesKeepToRequests`, `FieldsAreShown`, `ForwardedIsRecorded`,
  `ServerIsKnown` and the action property of `ServerStaysUp` follow.
  `HistoryIsShown` needs more (`HistInv`, inductive with the former), because a view
  shows what was emitted and the table has what took effect. While no changes have
  crossed: an item has a row, with the response of its row unless the update is
  still to be emitted (`Backed`); nothing is inserted while a clear is under way
  (`CrossInv`); and a row that is neither shown nor still to be added is older than
  all that are, and has been left out of a full history (`Beyond` in `ViewInv`). The
  items are not said to be in the order of their ids: insertions may be answered in
  another order than they took effect.
* `YSync_proofs`: `Discipline` says that a client not raced has one live socket,
  the one it holds, and that lines only grow where they may (`ConnectedHolds`);
  `Contents` that a question claims no more than its sender has, that what goes
  to the group is the host's, and that no message says somebody is gone
  (`PresenceKept`). `Promise` says that an answer on its way, with what follows it,
  completes the client it is for: whatever the host comes to show is broadcast in
  the step that integrates it, hence behind every earlier answer, and popping a
  line merges what it brings; `SyncedComplete` follows, and with it `SyncedIsTrue`: a
  synced client that was not started twice has, or will get, all the host shows.
  `HostLearns` needs that an
  init message is behind its join (`JoinFirst`), so that the socket is in the group
  when the host asks back.

Some of what is proved is no property of a run of its own, since an inductive
invariant that a run checks contains it or implies it: order per key and
affinity (`KeysPinTheirClient`, `RoomsAreOrdered`), `CallerIsWoken`, `SidsAreOwn`,
`ErrorsAreRefusals`, `ForwardedIsRecorded`, `ServerIsKnown`.

Only model-checked:

* liveness, which is out of the prover's reach: `InvocationSettles`,
  `ReconnectCompletes`, `BodyEnds`, `EverythingArrives`, `EveryCallEnds`,
  `ConnectAnswered`, `AnswersRecorded`, `Converges`. Every invariant and every action
  property of the runs that pass is proved, and so are both refinements.

## 7. What is not modelled

* External and modelled from its use: the Web PubSub client library, Engine.IO,
  Socket.IO, the service, the mutex (`async-mutex`, first in first out).
* Names and contents: a group stands for its room (`_getGroupName` is injective),
  a packet for its kind, a message for its number. Framing and text are left out.
* In `PacketBatch`, a `close` or `ping` inside an incomplete binary sequence would be
  batched with it; Socket.IO writes the packets of one message in one turn, so
  the buffers of the run never hold one.
* In `TunnelClients`, the abort signal of `startConnectionAsync`, and in
  `PacketBatch` the transport without `_sioMode`: nothing in the repository uses
  either.
* In `RoomAdapter`, one server and one namespace. What the service does with the
  groups of a connection after the DISCONNECT packet of `delAll` is not in the
  repository, so `groups` of a gone socket are left alone and no property reads
  them. `leaveAll` on a socket that stays is an internal call of Socket.IO and not
  an input.
* The mutex of a socket stays in `_roomOperationLock` when the socket is gone: a
  leak that changes no behaviour, as ids of sockets are not used twice.
* In `EioConnections`, the packets inside a user event; a tunnel always has its
  request handler.
* In `awps-tunnel`, the command line, the settings, tokens and URLs, the logs and
  the panels of the page. What the functions of those panels do with one another
  is rendering.
* Not planned, because they keep no state between calls or have no concurrency of
  their own: the framing of messages, negotiation, encoding and the service client
  of the Socket.IO extension, the GraphQL adapter, the protobuf client; and what is
  not a program of this system: the VS Code extension and admin UI, which call
  the management API, website, protocol descriptions and the other samples, which show
  how to call the packages (most of the repository's lines).
