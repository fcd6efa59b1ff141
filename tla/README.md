# Verification of https-proxy

https-proxy publishes applications that run behind a firewall. An *agent*
next to the application dials a public *gateway*, registers a uuid and keeps
the WebSocket open; the gateway hands every request for `/<uuid>/...` to that
connection as a numbered *stream* of frames, and the agent plays it against the
*upstream* application. Both ends are Go programs made of many goroutines that
share a few maps, channels and flags. The modules here model that core, TLC
checks it on small instances, and TLAPS proves the central invariants for
every value of the constants.

Source paths below are relative to the repository root.

## 1. Inventory

| component | source | state | operations |
|---|---|---|---|
| gateway stream table | `internal/gateway/agentconn.go`, `stream.go` | id counter (uint32), id -> stream map, each stream's receive queue, `closedCh`, `err` | `newStream`, `getStream`, `forgetStream`, `closeWithErr` of a connection; `deliver`, `recv`, `send`, `closeWithErr`, `resetWithErr`, `sendReset` of a stream |
| agent registry, heartbeat monitor | `internal/gateway/server.go` | `agentByUUID`, per connection: socket, `closedCh`, time of the last frame | `handleRegister`, `removeAgentIfMatch`, the watcher, the monitor, `readLoop` |
| HTTP relay | `server.go` (`handleClientHTTP`), `internal/agent/agent.go` (`handleStream`, `handleHTTP`) | where each goroutine is, both queues, frames in the tunnel, request context, trailers | one exchange: TReqStart, TReqData, TReqTrailer, TReqEnd; TResStart, TResData, TResTrailer, TResEnd; TRst |
| WebSocket relay | `server.go` (three handlers), `agent.go` (four handlers) | as above, with `closeOnce`, `closeDone` and the session's context | open, relay both ways, close, ping, reset |
| proxy mode negotiation | `internal/shared/proxymode.go`, `server.go`, `agent.go`, `pkg/clockbridge/remote_forward.go` | policy of the gateway, mode and kind of a connection, reported relay | registration, handshake header, choice of the handlers, check of TWsOpenOK |
| agent connection loop | `agent.go` (`Run`, `run`, `readLoop`) | attempt, status, read deadline, last pong, running handlers | dial, read, drain, back off, stop |
| heartbeat | `server.go` (`NewServerFromEnv`, monitor), `agentconn.go`, `agent.go` (`run`, `pingLoop`) | idle time, tickers, read deadline, settings | ping, pong, tick, evict, give up |
| tunnel connection | `agentconn.go` (`writeFrame`, `readLoop`), `agent.go` (`send`, `readLoop`, `pingLoop`, closing part of `Run`) | `writeMu` of each side, socket buffers, write errors | lock, write, read, fail, close |
| request and response heads | `internal/shared`, parts of `server.go`, `agent.go` | none | hop-by-hop, forwarding and trailer headers, query credentials, handshakes, URLs, close codes |
| command line client | `cmd/clockbridge-cli`, `pkg/clockbridge/remote_forward.go` | mode, token, context, exit status | start, look up, run, interrupt, exit |
| reverse proxy server | `internal/reverseproxy` | listener goroutine, `errCh` | start, fail, shut down |
| frame codec | `internal/proto` | none | encode, decode |
| configuration, routing, status | `server.go`, `cmd/gateway` | read once | `NewServerFromEnv`, `ServeHTTP`, `/status` |
| mock tools | `cmd/mockapp`, `cmd/mockclient` | none | - |

How they interact:

* A client's request runs `handleClient` on a goroutine of its own: it looks the
  connection up in the registry, opens a stream in that connection's table and
  runs one of the relay handlers. Handlers, the connection's `readLoop`, the
  client's cancellation and the disconnect all close streams, concurrently.
* Frames go through one WebSocket per agent, so they stay in order between the
  two `readLoop`s, but *which* stream object receives a frame depends on the maps
  of both sides at that time. The agent makes a stream of any frame with an
  unknown id; the gateway ignores unknown ids.
* `readLoop` never waits for a handler: a full queue resets the stream.
* The loss of a connection is seen independently by the gateway (its watcher and
  monitor free the uuid) and by the agent (its loop waits for its handlers, sleeps
  and dials again). The agent may be back before the gateway has cleaned up.

What is hard about it, and what makes each part correct:

* *Stream table.* Four parties close a stream; ids wrap; a stream may be opened
  while the connection is torn down. Right when no closed stream stays in the
  table, no open one is lost from it or orphaned by the teardown, and the handler
  sees the first error.
* *Registry.* Watcher, monitor and `handleRegister` of *different* connections of
  one uuid race. Right when a healthy connection keeps its uuid, a dead one loses
  it, and a uuid is never taken over.
* *HTTP relay.* Cancel, limit, time-outs, overflow, refusal, upstream failure and
  disconnect at any moment. Right when both bodies arrive without gaps, an end
  marker means what it says, and nothing is left behind on either side.
* *WebSocket relay.* Both directions close at once. Right when a close never
  overtakes a message and the end of one side reaches the other.
* *Mode negotiation.* Two programs choose a handler each, from different data.
  Right when they never disagree while data flows.
* *Connection loop.* Right when it always comes back, backs off when it should,
  and never has two connections' handlers mixed.
* *Heartbeat.* Two sides judge each other by their own clocks, with settings that
  can be changed on one side only. Right when no live connection is cut, a dead one
  is noticed in time, and the two judgements come in the right order.
* *Tunnel connection.* Both readers also write, under a mutex that is held over
  blocking writes. Right when nobody waits for ever and an error on one side ends
  the connection on both.
* *Heads.* Two hops strip, copy and add headers, differently on four paths, and the
  HTTP client of the standard library adds headers, decodes gzip and follows redirects.
  Right when each end sees the end-to-end headers, and credentials only where
  they belong.
* *Process.* Right when a caught signal ends it and the exit status says
  what happened.

PROJECT.json lists the individual hazards with their source lines.

## 2. Modules

| module | role |
|---|---|
| `StreamTable`, `StreamTable_MC`, `StreamTable_proofs` | the stream table of one connection |
| `AgentRegistry`, `AgentRegistry_MC`, `AgentRegistry_proofs` | the registry with the goroutines of every connection |
| `UuidLease` | what the registry promises, in four actions; `AgentRegistry` refines it |
| `HttpRelay`, `HttpRelay_MC`, `HttpRelay_proofs` | one HTTP request, composed of gateway, tunnel, agent and upstream |
| `WsRelay`, `WsRelay_MC`, `WsRelay_proofs` | one WebSocket session, composed in the same way |
| `ModeNegotiation` | the relay choice of both sides |
| `RequestHead`, `RequestHead_MC`, `RequestHead_proofs` | the heads of requests and answers; extends `ModeNegotiation`, of which it is shown to be an implementation; the proofs are about both |
| `AgentLoop`, `AgentLoop_MC` | `Agent.Run` |
| `ForwardCli`, `ForwardCli_MC`, `ForwardCli_proofs` | the process `clockbridge-cli`, composed of `main`, `AgentLoop` and the reverse proxy; the proofs are about the loop too |
| `Heartbeat`, `Heartbeat_MC`, `Heartbeat_proofs` | the heartbeat of one connection in discrete time |
| `Tunnel`, `Tunnel_MC` | the goroutines that share the socket of one connection |
| `FrameCodec`, `FrameCodec_proofs` | frames byte by byte |

A definition has the name of the Go function it models where there is one. An
operator placed just before a definition, with a name such as `InstallAlways`
before `Install` or `NextIdStuck` before `NextId`, is a faulty variant of it, used
only to see that a property notices the fault; PROJECT.json pairs them.

### StreamTable

`streams`, `nextStream`, and for each stream object `st`, `id`, `err`, `rx` are
the fields of `agentConn` and `stream`. A stream object is taken from a finite
pool and returned by `Release` once nothing refers to it, so ids and objects are
different things, as in Go. `st.closeWithErr` is two steps (closing `closedCh`
under `sync.Once`, then `forgetStream`), `agentConn.closeWithErr` is `ConnSignal`,
`ConnCollect`, one `ConnCloseStream` per stream, `ConnDone`, and `readLoop` holds
the object between `getStream` and `deliver`. The reset of an overflow is written
by its own goroutine (`rst`). `allocs`, `seq` and `overwritten` are history.

### AgentRegistry and UuidLease

Per connection: `handleRegister` (`hs`: upgrade, then the check under the lock,
then starting the loops), its socket, `readLoop`, the watcher (`watch`) and the
monitor (`hb`). The monitor's decision to evict and the three things it then
does (`removeAgentIfMatch`, `ws.Close`, `closeWithErr`) are separate steps. The
refinement maps `holder` to `agentByUUID` and `doomed` to the connections that are
closed or that the monitor has decided to evict. Time is reduced to `stale`, "idle
for longer than `heartbeatTimeout`".

### HttpRelay

Six goroutines: the handler (`gpc`), its cancellation watcher, both `readLoop`s,
`handleStream`/`handleHTTP` on the agent (`hpc`) and its body goroutine (`bpc`).
`send` looks at `closedCh` and writes in a later step (`pend`, `watch = "checked"`).
A body is the chunks 1..n, so that lost, repeated or reordered chunks show. The
agent's stream objects come from a pool: the request's own and the zombies late
frames make. `sc` is the scenario: the sizes of the bodies, whether there are
trailers, and the faults of the environment. The write to the body pipe
(`bpc = "write"`) ends when the upstream reads, when the request is over for the
transport, or when the upstream stops reading early (fault `stops`).

### WsRelay

The gateway's handler, the reader of the client, the context goroutine and
`readLoop`; the agent's `readLoop`, handler and upstream reader. The scenario `sc`
selects the handlers (framed, tcp or raw), the messages and the faults. The number
in a close frame tells whether it passes on the peer's close (`Relayed`) or was
made up locally (`Local`). As in `HttpRelay` a stream is closed in two steps
(`CloseGst` closes `closedCh`, `ForgetStream` takes it out of the table); in between
`deliver` may drop a frame and queue the next. `gSkip` and, on the agent, `aSkip`
are history: they say that this has happened. An upstream that closes its own
direction only (`uGone = "close"`) still gets what the handler writes to it.

### ModeNegotiation

Every register URL (missing, misspelt and valid values), target scheme and
policy; the handshake header may be lost; the gateway may restart with another
policy and agents register again; the dial of an upstream may fail. `GatewayRelay` and `AgentRelay` are the two
independent choices, `RelayAccepted` the check of TWsOpenOK.

### AgentLoop

`pc` is the place in `Run`; `Tick` is one time unit. `reconnectBackoff(n)` is the
set of waits that base delay and jitter of 0.8..1.2 allow, in fifths of a second
so that it stays integral. `heard` says whether `LastHeartbeatAt` is before or
after `connectedAt`, which is all the stability rule asks of it. `ponged`, `stood`,
`flaps` and `carried` are history: whether the connection had a pong of its own and
was old enough when it was lost, the failures in a row as README.md:235 counts them,
and those of them since a drain reset the backoff all the same.

### RequestHead

A head is a record of sets: names of headers, names that Connection lists, query
parameters that carry a credential, trailers, and where the Authorization header
came from. `req`, `start`, `up`, `answer` and `got` are the head at the client, in
TReqStart, of the last request an upstream got, of its answer and back at the client.
`hops`, `away` and `early` are what net/http's client keeps of the redirects it
followed, and the 1xx headers so far. That client is external and modelled by what it
does to heads in Go 1.26, which go.mod names: `RoundTrip` (User-Agent,
Accept-Encoding), `Decoded` (gzip), `Redirected` (headers of the body and, once
another host is involved, secrets are left out, a Referer is added). It follows 301,
302 and 303; a 307 or 308 is an ordinary answer, since the body is a pipe that cannot
be sent again. The functions of
`httpheaders.go` are operators on heads; which of them run in which order is
`HttpStart`, `WsStart`, `HttpRequest`, `FramedHandshake`, `RawHandshake` and so on,
one per handler. The canonical form of a name is kept apart from its spelling in
the table, since `TE` and `Te` behave differently.

### ForwardCli

`proc` is the place in `main` and what it calls; the agent runs while
`proc = "remote"`. A command line is what `main` tells apart of it, and `Commands`
the set of them a run looks at. A signal cancels the context that `AgentLoop` and
the reverse proxy share; one before `NotifyContext` kills.

### Heartbeat

One variable for each timer counts the time since it was set; `Tick` is one time
unit and may not happen while a ticker, a deadline or a message is due. `env` are
the three settings, chosen in Init; `Timeout(env)` is the clamp. `link = "lost"`
silently separates the sides.

### Tunnel

`pc` of each goroutine, the holder of each `writeMu`, the messages in each
direction, the sides whose writes fail from now on and the sides that have closed.
The gateway's reader answers pings, the agent's resets streams with a full queue.

### FrameCodec

`EncodeFrame` and `DecodeFrame` over sequences of bytes, with the uint32 fields as
`PutUint32` and `Uint32` of `encoding/binary` make them.

## 3. Runs

Passing runs:

| run | shows |
|---|---|
| `stream_table` | table, ids, stream limit and first error stay right while streams are opened, filled, overflowed, cancelled and closed, the connection goes down and the counter wraps |
| `registry` | a healthy connection stays registered and the registry implements the lease; a dead connection loses its uuid, goroutines end, a dialling agent gets the uuid back |
| `http` | both bodies arrive without gaps, TResEnd means that everything the agent read arrived, and a cut upload passes for complete only after a read error or a cancel, whatever fault strikes; the handler ends, and late frames and resets die out on both sides |
| `ws` | messages in order, no close before the messages it follows, for each pair of handlers and each fault; sessions end on both sides, and the upstream's end reaches the client |
| `request` | both ends relay the same way; agents built by `NewRemoteForward` are served; raw needs the policy; upstream and client get the right heads on all four paths; query credentials go where they belong |
| `cli` | the backoff follows the failures, nothing is left of an old connection, the agent notices silence; exit status and shutdown of the process are right, whatever a signal interrupts; the agent dials again after a loss and an interrupted process exits unless a handler never ends |
| `heartbeat` | a live connection is evicted only if timeout and hint are both set too short, and never given up; a silent one is evicted in time, and an agent that gives up finds its uuid free |
| `tunnel` | nobody holds a `writeMu` for ever, and a failed write or a shutdown ends the connection on both sides |

Runs that end in a counterexample, each a disagreement between the code and its
documentation (PROJECT.json quotes the lines):

| run | what the counterexample shows |
|---|---|
| `http_response_cut` | an upstream that fails in the middle of its response is ended with TResEnd, so the client takes the cut response for a whole one |
| `agent_loop_stuck` | `wg.Wait` may wait for ever for a handler that is blocked in a write without a deadline |
| `backoff_reset` | a connection of less than 30 s resets the backoff if it had a pong and its handlers took long to end, since its age is taken after `wg.Wait` |
| `query_token` | on a connection in transparent mode the token in the query of a WebSocket stays there and does not become a header |

The properties of the passing runs name these cases, and the following, as what they
are: an exception, stated in the property.

* `DiesOut` of `HttpRelay` has `LeftToUpstream`: after TReqEnd `handleHTTP` no longer
  reads its stream (`agent.go:611`), so a TRst for a client that has gone does not stop
  the upstream request, and the agent waits for the end of the response, or in a write
  of the body, as long as the upstream likes.
* `DiesOut` of `WsRelay` has `LeftByPing`: after a failed ping the handler may return
  and close the stream before the context goroutine (`server.go:785`) and the reader
  have told the agent, which then keeps its upstream session.
* `Ordered` and `CloseCarriesAll` have `gSkip` and `aSkip`: between the close of
  `closedCh` and `forgetStream` a frame may be dropped and the next one delivered. They
  also say that this happens only at an end that the session has been given up at.
* `BackoffSound` counts anew from a drain that took a connection past 30 s.
* `RetriesOnceDrained` and `InterruptEnds` have `AwaitsHandler`.
* `NoFalseAlarm` has `SetTooShort`: the agent's ping interval is fixed, so a hint below
  20 s makes the clamp accept timeouts at which live agents are evicted.
* `CutBodyIsCancelled` has `badBody`: a client body that fails to be read
  (`server.go:602`) is ended with TReqEnd like a complete one.
* `UpstreamHead` has `Te` on the framed WebSocket path, which only looks names up in
  the table of `httpheaders.go:15`, where `TE` is not canonical; `Del`, which the HTTP
  paths use, makes its argument canonical and removes it.
* `ClientHead` has the headers of 1xx answers, which `writeInterim` (`server.go:1284`)
  leaves in the header map of the final answer.

Further observations, which no run of its own records:

* The body goroutine may set trailers before `handleHTTP` replaces `req.Trailer`
  (`agent.go:632`): these trailers are lost, although README.md:10 promises them.
  `HttpRelay` has this interleaving (`Setup` wipes what `BodyFrame` set).
* Trailers that an upstream sends without having announced them are not passed on:
  the keys are taken from `resp.Trailer` before the body is read (`agent.go:674`).
* The tail of a response that waits in the queue may be dropped when the stream is
  closed (`stream.go:105`); the client then sees a cut response.
* Signals after the first are swallowed (`main.go:68`), so a process that is stuck in
  the drain of `agent_loop_stuck` can only be killed; and a look-up of
  `--register-ip` takes no notice of signals (`remote_forward.go:253`).
* Every path that begins with `/register` is routed to `handleRegister`
  (`server.go:342`), so an agent whose uuid begins so can register but is not reached.

### Bounds

* `stream_table`: 3 objects, ids 1..3, limit 2, queue of 1, 5 allocations. Five
  allocations of three ids make the counter wrap, skip 0 and meet a live id;
  limit 2 below 3 objects makes the limit bind; a queue of 1 makes overflow a
  matter of two frames. Objects are symmetric. `MaxAllocs` is a bound of the model
  only, at which the system stops: therefore `CHECK_DEADLOCK FALSE`.
* `registry`: 2 connection objects of one uuid, used again and again: one is the
  predecessor being cleaned up, or the rival that is refused. The safety
  properties and the refinement are proved for any number of both.
* HTTP and WebSocket runs: a run checks the union of a few scenarios (`sc`, chosen in
  Init), each with sizes and the faults that interact; all faults at once do not
  fit. Bodies and message streams have 0 to 2 elements, both queues 1 (the smallest
  that overflow), and there are two agent-side objects: the session's and one
  zombie; a third would need two zombies alive at once, which behave alike, as
  each only answers TRst. A late frame that would need a third object waits in the
  tunnel until one is free. At most one interim response is under way. Safety and
  liveness are checked on the same scenarios. `http_response_cut` has queues of 3, which
  its response does not fill, so that the failing upstream alone cuts it.
* `request`: modes, kinds, schemes and policies are finite and complete. Requests
  are two full ones (HTTP and WebSocket, with a header of every class that some
  rule treats differently) and variants of each that differ in trailers, in the
  credential parameters or in what Connection lists; header rules do not look at
  two headers at once, other than through Connection. `MaxRedirects = 2` (10 in the
  code): one redirect to the other host and one more after it, and one too many.
* `cli`: all command lines that differ in one or two respects from a good one; time
  in units of 10 s, of which all thresholds of the code (20, 30, 90 s) are multiples,
  `MaxAttempt = 7`, beyond which the backoff is constant (cap reached at 6), 2
  handlers. `agent_loop_stuck` and `backoff_reset` use the same timers.
* `heartbeat`: time in units of 1.25 s, of which all constants of the code are
  multiples; settings that are missing, zero, below the clamp, default and above;
  delays as long as the grace allows. The properties are proved for all values.
* `tunnel`: buffers of one message, one writing handler on each side beside the
  readers, the pinger and the closing goroutine: every cycle of waits goes through
  the two readers and one holder of each mutex.

In the relays and the loop the quiet end is a stuttering action (`Finished`), so
that an unexpected halt is reported as a deadlock in all runs but `stream_table`.

### Fairness

Weak fairness of steps that Go's scheduler or a timer takes by itself; strong
fairness only in `Tunnel`, as explained there:

* every runnable goroutine goes on: handlers, watchers, monitors, both
  `readLoop`s, closes, resets (`StreamTable` states no liveness: that a disconnect
  wakes a waiting handler is `HandlerEnds` of `HttpRelay`);
* in `AgentRegistry` time passes for a dead socket (so that the monitor's timer
  fires), and agents keep dialling; `UuidComesBack` and `DeadIsReleased` assume
  `HeartbeatOn = TRUE`: with the time-out set to 0 there is no monitor;
* in `HttpRelay` nothing is assumed of the upstream: it need not read its body nor end
  its response. The transport's `ResponseHeaderTimeout` ends `Do` once the request is
  written, a cancel ends what is in flight, and the gateway's timers fire in the
  scenarios with `timeout` (both are on by default). A write to the client returns;
* in `WsRelay` dials end, writes to the client and the upstream return and readers notice a closed socket; neither peer owes a
  message, a close or a break; in the scenarios with `timeout`, `wsOpenTimeout`
  fires if the opening is still waited for;
* in `AgentLoop` and `ForwardCli` time passes, dials and look-ups end, the loop goes
  on, the timer of `Shutdown` fires. Handlers need not end, and nothing is assumed of the connections of the
  reverse proxy, which may stay for ever;
* in `Tunnel` the holder of a mutex goes on (its write ends, by its deadline of 10 s or
  2 s if by nothing else), readers read what has arrived, the read deadline passes
  when no pong can come, and the monitor, which is on by default, evicts a lost peer. Strong fairness is
  assumed of `Lock` for readers, pinger and closer, which wait for a mutex that
  others take again and again: Go's `sync.Mutex` hands itself to a waiter of more
  than 1 ms. It is also assumed of the pinger's quitting, since `select` chooses
  among ready cases at random.

Clients, peers and the tunnel are never fair.

## 4. Proofs

Each `_proofs` module has `Init => IndInv`, `IndInv /\ [Next]_vars => IndInv'`, and
the theorems that follow. They hold for every value of the constants that meets
the named assumptions; TLC evaluates these on every run.

* `StreamTable_proofs` (from `ConstantsAssumption`: a pool without `None`, counter
  and bounds natural, at least one id and a queue of at least one frame). The table's correctness rests on ids, so
  the inductive invariant says which id the k-th last stream has, as a function
  of `nextStream` (`SeqArith`). From it follow that two streams less than a
  full turn of the counter apart have different ids (`IdsDistinct`), that an entry
  is only overwritten after a full turn (`OverwriteNeedsFullTurn`), and hence
  that `forgetStream`, which deletes by id, deletes the right entry: `NoStaleEntry`
  and `Reachable` need the ids, and `NoOrphan` needs `Reachable` so that the
  teardown finds every open stream. `Reachable` and `NoOrphan` are about a table
  in which no live entry has been overwritten; `OverwriteNeedsFullTurn` bounds
  from below when that can happen (2^32 - 1 streams in the code). `LimitRespected`
  is inductive by itself, given that the table is finite: `newStream` adds at most
  one entry, below the limit, and no other step adds any. `TableExact` and
  `IdsSound` are the conjunctions that the runs check. `FirstErrWins` is an action
  property, which needs only the types: every action that touches `st` or `err` of
  a stream that is no longer open is looked at. Theorems `TypeCorrect`,
  `IdsCorrect`, `TableCorrect`, `NoOrphanTheorem`, `FirstErrWinsTheorem`.
* `AgentRegistry_proofs` (from `RegistryAssumption`). `HealthyIsRegistered` is
  inductive with `EntryIsAccepted` and `NotStarted` (no goroutine of a connection
  that has not been accepted is running, so none can remove anything). The lemma
  `RemoveOwn` says that `removeAgentIfMatch` only takes out the caller's own
  entry; the step lemma `LeaseStep` shows that each action is a step of
  `UuidLease` or a stutter. Theorems `TypeCorrect`, `RegistryCorrect`,
  `RegistryImplementsLease`.
* `HttpRelay_proofs` (from `RelayAssumption`: queues of at least one frame, scenarios
  with bodies of any length and any set of faults). What is queued at the receiver
  followed by what is on the tunnel is one line of frames (`Feed` for the request,
  `ResFeed` for the response), in which each frame is one that the sender writes
  after the frame before it (`ReqOrder`, `ResOrder`). The invariant says this of the
  lines, relates the last frame of a line to where the sender is (`LastOK`,
  `ResLastOK`) and its first frame to what the receiver has taken (`HeadOK`,
  `ResHeadOK`). Overflow and disconnect cut a line off at its end and let nothing in
  behind the cut, since the queue's owner is closed or the tunnel is down; a reset may
  stand anywhere. The stream objects of the agent need `OneStart`, that TReqStart is in
  one place only, and `ObjectsOK`, since otherwise a zombie could be taken for the
  request. The response also needs that chunks never change places (`Ascending`),
  which keeps the client's bytes right after its handler has stopped listening.
  Theorems `Inductive`, `TypeCorrect`, `BodiesWholeTheorem`, `CutBodyTheorem`.
* `WsRelay_proofs` (from `WsAssumption`, which is alike). Again one line of frames in
  each direction (`ReqLine`, `ResLine`), now with two kinds of closes. One that passes
  on the peer's close is the last thing its reader writes (`ClosesLast`) and so stands
  behind the last message; one that a side made up may stand anywhere, and its receiver
  reads nothing behind it. `Follows` says which frame may follow which, and
  `OrderlyLonger` that a line without a close that was passed on stays orderly when the
  sender takes another message. `GatewayControl` and `AgentControl` tie the lines to the
  places of the goroutines; `Untouched`, `OneStart` and `ObjectsOK` are as above. A frame
  dropped in the closing window breaks a line, so the lines are claimed only until then
  (`ReqLines`, `ResLines`); what is left afterwards is that messages ascend through
  queue and tunnel (`ReqAscends`, `ResAscends`), from which the order follows, and
  `GivenUp`, which says that the window opens only at an end that was given up. The
  agent's upstream reader frees the id while the gateway may still be sending, so that
  later frames make new objects; that, too, is behind `uGone # "no"`.
  Theorems `Inductive`, `TypeCorrect`, `OrderedTheorem`, `CloseCarriesAllTheorem`.
* `ForwardCli_proofs` (from `LoopAssumption`, and `PowersAssumption`, that small
  powers of two are naturals, for want of a fact about `^` in the provers). For the
  loop, the invariant ties `attempt` to the number of failures in a row (`Counted`),
  which needs that a pong that counts is the connection's own (`PongIsOwn`) and that a
  connection that was stable when it was lost is so after its drain (`StoodIsOld`). `CliImplementsLoop` shows that the process runs the loop as
  `AgentLoop` has it: each of its steps is a step of the loop or leaves its variables
  alone; what is proved of the loop therefore holds in the process. `ExitSound` follows
  from `Phase`, which says for each place in `main` which of the loop, the listener and
  the exit status have been touched. Theorems `TypeCorrect`, `BackoffCorrect`,
  `NoLeftoversTheorem`, `CliImplementsLoop`, `ExitSoundTheorem`.
* `RequestHead_proofs` (from `HeadsAssumption`: the heads of the run are heads, with
  canonical names). For the negotiation, the invariant `Provenance` says where each
  field came from: what the gateway stored is the normalised URL and policy, what the
  agent has is the header or its default. With the lemmas `Decisions`, `BuildIsGood`
  and `Agreement` about the choices the theorems `TypeCorrect`, `RelaysAgreeTheorem`,
  `BuiltIsServedTheorem` and `RawIsAllowedTheorem` follow, and
  `HeadsImplementNegotiation` carries them over to `HeadSpec`. For the heads, `HeadInv`
  says that each head is made of the one before by the handlers of its mode, the last
  request by net/http from the first according to `hops` and `away`; the lemmas
  say what each function of `httpheaders.go` does to the fields of a head. Theorems
  `UpstreamHeadTheorem`, `QueryCredentialTheorem`, `ClientHeadTheorem`, for any set of
  requests and answers.
* `Heartbeat_proofs` (from `HeartbeatAssumption` and `NetworkAssumption`: a ping is
  answered before the next is due and long before the read deadline, and the least grace
  covers two delays). The invariant
  explains both idle times by the last ping while the sides hear each other
  (`InStep`: the ping before it was heard, so `idle` is within a ping interval and
  two delays, which a timeout or a hint that is long enough covers), bounds `idle` by what the last tick of the
  monitor saw (`Watched`), and keeps the agent's silence close to the gateway's after
  a loss (`Apart`), from which the order of eviction and read deadline follows. Theorems
  `TypeCorrect`, `NoFalseAlarmTheorem`, `SilentIsEvictedTheorem`,
  `NoSelfConflictTheorem`.
* `FrameCodec_proofs` (no assumptions beyond those in the theorems). `RoundTrip`:
  decoding undoes encoding for payloads below 2^32 bytes; `OnlyEncoded`: what is
  decoded is an encoding; `MessageFits`: a WebSocket message within the read limit
  fits into the limit of the tunnel. The lemmas are the arithmetic of four bytes in
  base 256.

The inductive invariants of the two relays were checked by TLC, on the scenarios of
`http` and `ws`, before they were proved.

With this every invariant and every action property that a run checks has a theorem,
and so have the lease that the registry implements and the composition of the loop and
of the negotiation. Only model-checked are the liveness properties (`HandlerEnds`,
`DiesOut` of both relays, `EndReachesClient`, `DeadIsReleased`, `GoroutinesEnd`,
`UuidComesBack`, `RetriesOnceDrained`, `SilenceIsNoticed`, `InterruptEnds`), among them both
properties of `Tunnel` (`WritersReturn`, `EndsOnBothSides`): liveness under fairness and
ENABLED are outside the prover's reach. The counterexamples are TLC's.

## 5. Abstractions

* In the relays, frame payloads are chunk numbers; headers are in `RequestHead`;
  status codes, URLs and log lines are left out. A TReqStart the agent refuses (tcp target, bad payload or method) is
  the fault `refuse`. The WebSocket TReqStart always comes from `MustJSON`, so a bad
  one is not modelled there.
* In the relays, writes to the tunnel do not block; `Tunnel` has `writeMu`, full
  buffers and the write deadlines, without the streams. The close handlers of
  gorilla/websocket write their control frame without `writeMu`, which the library
  allows; it is not modelled. Writes to an upstream block only in `AgentLoop`, as handlers that
  need not end.
* In `WsRelay` `send` is one step except in the reader of the client and in the
  context goroutine: `StreamTable` and `HttpRelay` have the finer interleaving, and
  here it would only add one more late frame.
* `recv` chooses freely between a queued frame and `closedCh`, as `select` does.
* `req.Trailer` is written by two goroutines without a lock; `HttpRelay` has both
  orders of the two assignments as outcomes.
* A setting in `Heartbeat` is a number of time units; overflow of a bare number of
  seconds (`server.go:188`) is left out.
* In `RequestHead` a header has a name and no value, other than Connection (the names
  it lists) and Authorization (its origin); Host is kept apart by net/http. Control
  characters in the subprotocol (`sanitizeWebSocketHeaderValue`) are left out, and so is
  an HTTP proxy that the agent's environment may name (`http.ProxyFromEnvironment`).
* In `ForwardCli` a signal between `NotifyContext` and a refusal that follows at once
  is left out; the status is the same.

## 6. Not modelled, and the plan

Not modelled: joining of URL paths (`urljoin.go`) and close codes (`wsclose.go`),
which are short conversions of strings and numbers; the split of a request's path,
the settings that are plain numbers and the `/status` report; what
`httputil.ReverseProxy` does with a request; the frp client behind `--frp`, which is
another program; the mock tools and scripts. The reasons are with each component in
PROJECT.json.

The order of work was: stream table (everything rests on it), registry with its
lease, HTTP relay, WebSocket relay, mode negotiation, connection loop; then
heartbeat, tunnel, heads, the process around the loop and the codec; in each, safety
first, then liveness, then proofs, in the same order and the relays last, whose
invariants describe the frames in queues and tunnel. Next:

1. The two halves of `HttpRelay_proofs` and `WsRelay_proofs` treat the actions that only
   move frames (`deliver`, `recv`, overflow, disconnect) in much the same way; lemmas
   about a line as such, independent of the frames in it, would shorten both.
2. A safety property of `Tunnel` worth its run, such as that who waits for a `writeMu`
   is never the one its holder waits for, and its proof, as the core of the liveness
   that TLC checks.
