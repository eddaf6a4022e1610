# RustProxy: TLA+ models, checks and proofs

RustProxy makes services behind NAT reachable: a *client* beside the local
service keeps a TLS control connection to a public *server*; the server listens
on public ports and forwards every external connection through a *work
connection* that the client opens on request. This directory models the parts
of the program whose correctness depends on the order in which concurrent tasks
take their steps, checks them with TLC on small instances, and proves their safety
with TLAPS for all instances.

Paths below are relative to `src/crates/`. `PROJECT.json` maps every definition
to the lines it models, lists the runs, the mutants that show each property can
fail, the findings, the hazards and the theorems.

## The system

| Part | State it keeps | Operations | Talks to |
|---|---|---|---|
| Session manager (`server/client_session.rs`) | `inner`: client id → sending end of a channel of 256; its RwLock | `register`, `unregister`, `send_to`, `connected_clients`; a handler task per control connection | dispatcher, listeners, API |
| Tunnel (`server/tunnel.rs`) | none | reads the first message within 10 s: `Auth` starts a handler, `NewWorkConnResp` goes to `register_work_conn` | session manager, listeners |
| Listeners (`server/proxy_listener.rs`) | `pending_work_conns`, `listeners`, `domain_routes`, `CONN_ID_COUNTER`; per UDP rule `sessions`, `session_senders` | start and stop listeners, handle streams and datagrams, hand over work connections | session manager, proxy manager |
| Bridges (`server/proxy_listener.rs`, `client/proxy_worker.rs`) | one select loop at each end | copy data in both directions, end on an empty Data frame | work connection |
| Proxy manager (`core/proxy_manager.rs`) | SQLite table `proxy_rules`; `runtime`: status, counters, bandwidth | add, update, remove, query, statistics | API, `main` |
| Web API (`web/api.rs`, `web/state.rs`) | login attempts, online list, callbacks | create, update and delete rules, login, queries | proxy manager, listeners and sessions through callbacks of `server/main.rs` |
| Client connector (`client/connector.rs`) | its table of rules (`ProxyWorkerManager`) | authenticate, heartbeat, handle messages, reconnect | server |
| Codec (`proto/frame.rs`, `proto/message.rs`) | none | frames to bytes and back | all connections |
| Panel, WebSocket push, configuration, TLS set-up, logging | little or none | | |

What is hard in it: every accepted connection, datagram, control connection and
API call is a tokio task of its own; tables are shared under RwLocks that are
sometimes held across an `await`; channels are bounded; state is read under one
locking and used under a later one; a user's request travels to another machine
and its answer comes back on a different connection, racing a 30 s timer; the
server may die at any moment and only the database survives; connection ids
start again at 1 after a restart.

## Modules

| Module | Models | Checked by |
|---|---|---|
| `Rendezvous` | the abstract promise to an external user | refined by `WorkConn` |
| `WorkConn` | the rendezvous of a user and a work connection | `MCWorkConn`, `WorkConnProofs` |
| `WorkConnProofs` | theorems about `WorkConn` | TLAPS |
| `ClientSessions` | the session map, its lock, its channels, the online list | `MCClientSessions`, `ClientSessionsProofs` |
| `ClientSessionsProofs` | theorems about `ClientSessions` | TLAPS |
| `RuleSync` | how rules get from the API to the clients | `MCRuleSync`, `RuleSyncProofs` |
| `RuleSyncProofs` | theorems about `RuleSync` | TLAPS |
| `ProxyRules` | database, runtime status, listeners, routes, API calls | `MCProxyRules`, `ProxyRulesProofs` |
| `ProxyRulesProofs` | theorems about `ProxyRules` | TLAPS |
| `UdpSessions` | the UDP sessions of one rule | `MCUdpSessions`, `UdpSessionsProofs` |
| `UdpSessionsProofs` | theorems about `UdpSessions` | TLAPS |
| `Tunnel` | the abstract promise to user and local service, less than a TCP connection | refined by `Bridge` |
| `Bridge` | the two loops of a bridged stream | `MCBridge`, `BridgeProofs` |
| `BridgeProofs` | theorems about `Bridge` | TLAPS |
| `MessageStream` | the abstract promise of a framed connection | refined by `FrameCodec` |
| `FrameCodec` | frames to bytes and back, under `Framed` | `MCFrameCodec`, `StreamProofs` |
| `ClientConnector` | control connections in time: authentication, heartbeat, reconnection | `MCClientConnector`, `ClientConnectorProofs` |
| `ClientConnectorProofs` | theorems about `ClientConnector` | TLAPS |
| `ConnStats` | the counters of one rule | `MCConnStats`, `StreamProofs` |
| `StreamProofs` | theorems about `FrameCodec` and `ConnStats`: what crosses a stream, and its counting | TLAPS |

The composition follows the code's own seams. `WorkConn` sees the control
session as a queue that is up, leaving or down, which is what `ClientSessions`
provides; `RuleSync` uses the same view for messages about rules; `UdpSessions`
and `Bridge` start where `WorkConn` hands a work connection over (`UdpSessions`
takes the rendezvous as a step that succeeds or fails); `ProxyRules` treats a
UDP session as something that holds the rule's socket. All of them take a framed
connection for what `MessageStream` promises, which `FrameCodec` is shown to
implement. `ClientConnector` says when a control session begins and ends, which the
others leave open; `ConnStats` is told of connections by the bridges and sessions. In every module an
action is what a task does between two points at which another task can
interfere: an `await` that can wait, or the release of a lock.

### WorkConn

`pc[c]` is the place of the handler of user connection `c`: the code of
`handle_stream_proxy_conn` (registers its oneshot, then asks) or of
`handle_udp_packet` (asks, then registers), told apart by `RegistersFirst`.
`pending` is `pending_work_conns`, `slot[c]` the content of `c`'s oneshot,
`queue` the requests on their way to the client, `work[c]` the work connection
opened on `c`'s request. A work connection is *named* by the user that asked for
it although the code knows its id only; that is what makes "got somebody else's"
expressible. The timer is three steps (fires, receiver dropped, entry removed),
so that `register_work_conn` can come between any two of them. `SessionLeaves`
and `SessionDown` separate a handler leaving its loop from the end of its
session, in which window `send_to` still returns true. `Restart` clears what
lives in memory, also the id counter, and leaves the client's tasks and their
open work connections alone.

### ClientSessions

Handlers go through `handle_client_with_auth`: register, read and set the online
list, push rules, loop, unregister, list again. `send_to` keeps the read lock
while it waits for room; `register` keeps the write lock while it pings the old
session. A channel is the number of messages in it. Tokio's RwLock, which is
fair (`WriterWaits`), and the closing of an mpsc channel are marked external in
the map. `crossed` is history: handlers that read and set the online list while
another was between the two.

### RuleSync

Settings are a client and a version. An API call writes the database, stops
and/or starts the listener and tells the client, each a step; a session is
registered first and pushed its rules later; requests for work connections use
the same queue.

A call is a future of its caller's HTTP connection, and is dropped at the await it has
reached when the caller disconnects (`Abandon`): the row stays written, and the rest is
not done. A notification that `notify_client` has handed to its own thread goes out all
the same. A query of a client's rules that fails yields none, and the session goes on
(`PushRules`). `disturbed[r]` says that calls on `r` overlapped, one was abandoned, or
the client could not be sent it on connecting. The code neither serialises calls nor
notices the other two, so the properties exempt such rules, until a later call has the
rule to itself or the client is sent it on connecting; `Untold` says which rules only the
push can tell the client of.

### ProxyRules

Endpoints are a port (with TCP or UDP) or a set of domains. `create_proxy`,
`update_proxy` and `delete_proxy` run as sequences of database statement,
runtime entry, stop, join, bind, insertion of the handle and final status, as
`api.rs` and the callbacks of `main.rs` order them. A write to the database may fail,
which ends the call. Binding fails when the port is taken or by itself. A caller that
disconnects drops the call wherever it waits (`Abandon`): a loop whose handle was not
yet in the map then runs on without one, a loop that had been aborted ends by itself. A UDP socket lives until the loop *and* the sessions that
hold it are gone. `Restart` is the whole startup: `load_from_db`,
`start_existing_listeners`, `register_existing_domain_routes`, each of which reads the
rules anew and takes a failed read for an empty table. `disturbed` records the rules
whose calls have overlapped or were abandoned, or which could not be read at the start;
`shared` the domains two rules have had at once. No property speaks of a disturbed rule
until a restart that can read it; with `WhenDisturbed = FALSE` no further call on it
begins, and calls disturb no second rule (`DisturbedBound`), which keeps the instance
small. The theorems are for `WhenDisturbed = TRUE` as well, which is the code.

### UdpSessions

One task per datagram. The two locks are represented by who holds them beyond a
step: a task in `send` reads `session_senders`, a task in `drop_sender` has
`sessions` for writing. A datagram's number doubles as the connection id of the
session it may open. Frames on the work connection are not bounded here.

### Bridge

Both loops are instances of the same `Step`: `stream.read` or a frame, then
`framed.send` or `write_all` to the end before the next select. The work
connection holds `Room` frames in each direction. A loop that leaves with
unread frames resets the connection, which may cost frames of its own.

A loop that ends drops its stream, and the operating system closes it as if the other
application had: with a FIN, which nobody can tell from `shutdown`, unless something the
application sent was left unread (`Dropped`). So an orderly end says nothing by itself.
`AnswerComplete` says to whom it does: an application that has not closed its own stream
and whose data has all been delivered sees the end only after everything the other sent,
if nothing broke (`broke`) and the local service was reached. A user that closes its
sending side first may lose any part of the answer and sees an orderly end all the same.

`Tunnel` is what the two applications may take all this for: each reads what the other
has sent, in order, until its stream ends, orderly or not. It has no loops, frames or
work connection, and names the four reasons for which an end may come early.

### FrameCodec

`encode` and `decode` work on real sequences of bytes, with fewer values of a byte
and shorter fields than the code's. Bytes travel in pieces cut anywhere
(`Arrive`). An end that the sender announces (`framed.close()`, which sends TLS's
`close_notify`) comes behind the last byte (`Close`, `ReadEof`); a stream that is dropped,
or a connection that is reset, may lose the last bytes under way, and its reader gets an
I/O error, inside a frame or between two (`Break`, `ReadFails`). `PollNext` is what `Framed` does with the result of `decode`, and is
external, as is the reading. A control message is its JSON text, and `Json` is the
set of texts serde accepts. `Values` are the values that fit a field, as
big-endian numbers, and `MessagesAssumption` says which messages the code is asked to
carry: ids and lengths fit their fields (a payload is under 4 GiB), a control message is
a text that parses, Ping and Pong carry nothing. The messages of the instance include a
Data message whose content is a header, one whose content looks like types, and one text over
the limit that `decode` has and `encode` has not (no caller of this program makes one that long).

### ClientConnector

Time is explicit: `Tick` lets one unit pass when nothing is due, counts timers
down and messages' ages up, and `busy` are the handlers that spend the unit in
`framed.send`, where they neither receive nor check. A network that lives delivers
within `Latency`; one that died takes everything and says nothing. Either process,
or its machine, may fail and start again. The client has one id, so that its connections
compete for one entry of the session map (`registered`): `ReceiveAuth` puts the new session
there in place of any other, `HandlerLeaves` empties it whoever's it is, and a handler
whose session is no longer in it finds its channel closed and ends (`ChannelClosed`).
`crowded` is history: the connections that were made while a handler of an older one was
still there. `NetworkAssumption` says under which
latency and stalling the heartbeat can tell a live client from a dead one; with the
code's numbers (10 s, 90 s) they may add up to 80 s.

### ConnStats

A chunk counts as 1. Every report spawns a task (`tasks`, `traffic`), and tasks run
in any order, or find the entry gone or a new one in its place. The history says
whose `+1` the entry has seen (`counted`), who reported before it was made
(`older`), whose `-1` came without its `+1` (`strays`) and which were swallowed by
`saturating_sub` (`swallowed`). Samples divide the chunks into those a bandwidth was
computed of (`shown`) and those before the first sample, or before one that no time had
passed since the last (`unshown`). No action's guard depends on the history. `StatsInit`, `StatsNext` and `StatsSpec`
have names of their own because `StreamProofs` extends this module and `FrameCodec`.

## Runs

| Run | Instance | Shows |
|---|---|---|
| `workconn` | 2 streams, 1 UDP source, 2 ids per incarnation, 1 restart | nobody gets another's work connection, nothing leaks in `pending`, waiters stay reachable, stream answers are not turned away, every connection is bridged or refused, and `Rendezvous` is implemented |
| `sessions` | client a connects twice, b once, 2 senders to a, capacity 1 | a channel in the map always has its receiver, the lock excludes, the online list is right unless the last two to set it crossed, every handler settles unless a full channel waits for the lock |
| `session_replaced` | same | **violation**: the old connection's cleanup removes the new session, and the server cuts off the client that has just reconnected |
| `rule_sync` | 1 rule, 2 clients (one connects), 2 versions, 2 calls, 1 user, queue of 3 | a settled rule that is not disturbed is known to its client or on its way; requests for it arrive behind it |
| `proxy_rules` | 2 rules, 1 port, 1 domain, 2 calls | status, listeners and routes of a rule agree with the database when its calls are over, whatever bind or write failed, unless it is disturbed |
| `port_released` | same | **violation**: the port of a stopped UDP rule is still bound |
| `udp` | 3 datagrams of 2 sources, 1 of them empty, channel of 1 | sources do not mix, no entry is left that nobody removes, tasks and sessions end, with one exception (below) |
| `udp_twice` | same | **violation**: one source gets two sessions |
| `bridge` | 3 chunks each way, room for 2 | data arrives in order, who waits for an answer gets all of it before the end, `Tunnel` is implemented, neither end outlives the other, data moves on unless both directions are full |
| `frames` | 6 messages to choose from, 3 sent, bytes of 16 values, header of 3, payload of at most 4 | `MessageStream` is implemented; no complete message is held back; an orderly end is seen only after everything, an error only when the connection broke or a message is too long |
| `heartbeat` | ping 1, check 3, timeout 6, authentication 2, latency 1, stalling 4, delays 1 to 3, 2 connections, 2 faults | a live connection ends by a fault only, or if it was made beside an older handler of the client; a dead session is over within timeout, check and stalling, and the client ends in a session again |
| `conn_stats` | 3 connections, 2 chunks each way, 2 entries | the counter is right up to the misplaced -1s; every chunk is counted once, and none is in two bandwidths |

### Why the bounds are enough

*workconn*: ids repeat only across restarts, so one restart and an id used on
either side give every confusion; a second stream gives the wrong recipient and
a UDP source the other order of registration.
*sessions*: a replacement needs two connections of one client, the list race
and the lock need a second client; with capacity 1 two senders fill a channel and
wait, which stands for 256 messages that a client does not read.
*rule_sync*: rules are independent of each other; two clients give the move of a
rule (the second need not connect for that), two calls give overlap, a queue of
3 holds an assignment, a close and a request in every order.
*proxy_rules*: two rules are enough to fight for a port or a domain; a second
port adds free choices but no conflict. One disturbed rule at a time
(`WhenDisturbed = FALSE`) is enough to see what it does to the other. UDP ports behave like TCP ports apart
from the sessions that hold the socket, so the instance uses UDP.
*udp*: two datagrams of a source open two sessions, a third meets their
remains, or comes from the other source and needs the lock. Channels of 1 are full
at once.
*bridge*: with three chunks and room for two, a direction can be full with one
more chunk in a loop's hand.

*frames*: three messages in a row give a frame between two others, all cut at
every byte; the field widths only scale. *heartbeat*: ping + latency + stalling is
exactly the timeout and twice the latency exactly the wait for authentication, so
that the edges are met; two faults give a failure during recovery from another,
and two connections an old session beside the new one. *conn_stats*: three
connections give one counted, one overtaken and one older than the entry at once.
For every safety property and every refinement, the proofs drop these bounds.

`sessions`, `udp`, `bridge`, `frames` and `conn_stats` say `CHECK_DEADLOCK FALSE`:
their connections, datagrams and messages are finite in number and the instance
comes to rest when all are over.

### Fairness

Handlers, senders and workers are tokio tasks, which run when they can: weak
fairness of their steps. Tokio's timers fire and its locks are fair: who waits for
the write lock gets it when the readers have gone, and who comes to read is sure of
the lock only when no writer waits (`~WriterWaits` in `ClientSessions`). Time passes
(`ClientConnector`). Nothing is assumed about when users, clients or failures come.
Five assumptions go beyond the scheduler and are stated where they are used: a
`framed.send` to a client ends with success or error (`ClientSessions`,
`UdpSessions`), `send_to` returns (`WorkConn`; `Stuck` below says when it does
not), applications read what is written to them (`Bridge`), a connection attempt
to a server that is there succeeds at last, and TCP gives up on a dead connection
(`ClientConnector`: the client never looks for the Pong, so this is all that tells
it). A work connection to a machine that vanishes silently is outside all of them:
it carries no heartbeat.

### Exceptions that properties name

The properties listed here do not hold of the code without exception. Each names the state in
which it fails, so that the run shows there is no other.

- `FullBeforeFirst` (`TasksEnd`, `SessionsEnd`): `handle_udp_packet` puts a new
  session's channel into the table, sends its own datagram into it, and only then
  spawns the worker that receives. If other datagrams of the source fill the
  channel in between, the task waits for ever, those that wait for room keep the
  read lock, and the rule opens no session any more. With the code's capacity it
  takes 256 datagrams in that window.
- `Stuck` (`HandlersSettle`): `send_to`, under the read lock, or `register`, under
  the write lock, waits for room in the channel of a handler that needs the lock
  itself before it receives again. Nobody registers or leaves any more.
- `BothFull` (`Forwards`): both loops of a bridge wait in `framed.send`, and neither
  receives.
- `broke`, `refused`, `eof` (`AnswerComplete`): a stream that ends because something
  broke, because nobody listens at the local address, or after its own application
  closed first looks complete to the application and need not be.
- `disturbed` (`InSync`, `SettledRequestsServed`, `StatusTrue`, `NothingLeftBehind`,
  `RouteTrue`): calls on the rule overlapped, one was abandoned because its caller
  disconnected (`src/crates/web/src/api.rs:488-513` and the like), or a query that failed
  was taken for an empty table (`src/crates/core/src/proxy_manager.rs:474` and `486`).
  Nothing in the code notices; the rule stays half changed.
- `shared` (`RouteTrue`): two rules have had the domain at once, and a stop of either
  removes the route.
- `crowded` (`NoFalseTimeout`): the connection was made while an older handler of the
  client was there, and that handler's cleanup or late registration takes its session out
  of the map (finding 1).
- `crossed` (`OnlineListCurrent`): a handler read the session map, another set the
  list from a newer reading, and the first then set it from its own.
- `strays` (`CountNear`): a `-1` that overtook its `+1`, or whose `+1` an entry since
  deleted had counted, makes the counter wrong by at most one.

## Proofs

`WorkConnProofs` proves, for any set of users, any bound on ids and any number of
restarts (assuming only that UDP sources are users, that `None` is not one, and
that the bounds are natural numbers):

- `Invariance`: `Spec => []IInv`;
- `TypeCorrect`, `ServedByOwn`, `PendingCorrect`, `WaitersReachable`, `StreamAnswers`: the safety
  properties of the run `workconn`, from `IInv`;
- `RefinesRendezvous`: `WorkConn` implements `Rendezvous`.

None of the safety properties is inductive alone. That `register_work_conn`
gives a handler its own work connection depends on ids being unique among the
handlers of an incarnation (`IdsSound`, from the counter), on the client being
asked once per user (`RequestsSound`, else two work connections would carry one
id), and on what a filled oneshot says about the state of the work connection in
it (`SlotsSound`, else one could be announced twice). `IInv` is the conjunction of
these with `TypeOK` and the five safety properties. There is one lemma per action,
one step per conjunct. The refinement maps `pc` to the status of `Rendezvous` and
`slot` to the partner of bridged connections; every action is a stutter or one
abstract step, and `Receive` needs `OwnWorkConn` and `WorkConnServesOne` to be
`Serve`.

`StreamProofs` proves about `FrameCodec`, for bytes of any number of values, headers and
ids of any width, any limits, any messages that satisfy `MessagesAssumption` and any cut
of the bytes:

- `Numbers`: `from_be_bytes` inverts `to_be_bytes` on every number that fits the field,
  by induction on the width. The library states induction for a predicate, which the
  provers cannot instantiate; `SetInduction` gets it from the well-founded order of the
  natural numbers for a *set* of them, and is proved here.
- `DecodeFrame`: given the first bytes of a frame, or the frame and anything behind it,
  `decode` waits, returns the message and exactly the rest, or refuses the length. The
  step from bytes to messages rests on it alone.
- `CodecInvariance`: `Spec => []CodecInv`. `Carried` says that buffer and connection
  together hold the frames of the messages still to come, from the first byte of the
  first on: all of them while nothing was lost, a part cut off at the end when bytes
  were lost with a broken connection. A piece that arrives moves bytes from one side to the other, a decoded message
  takes its frame off the front. `EofSound` is what the reader has been told about the
  end.
- `EndsWithCause`: `Spec => []EndsForCause`, from it.
- `ImplementsStream`: `FrameCodec` implements `MessageStream`. A message returned is the
  next one sent because its frame is what `Carried` has at the front.

`StreamProofs` proves about `ConnStats`, for any finite set of connections and any number of
chunks and entries:

- `CountCorrect`: `Spec => []CountNear`. `CountNear` speaks only of states in which
  every task has run. What leads there is said of every state by `CountInv`: which
  tasks a connection can have (`TasksSound`), what the history sets mean
  (`CountedSound`, `StraysSound`), and that `connections` and the strays balance the
  counted and the swallowed (`Balanced`), which is kept because a `-1` is swallowed
  only when the counter is 0, and then as many strays stand against it. When no task
  is left, the counted lie between the live connections and those with the strays.
- `TrafficCorrect`: `Spec => []TrafficAccounted`, inductive with its types.

`ClientSessionsProofs` proves, for any sets of clients, connections and senders and any
capacity: `TypeCorrect`, `ReceiversOutlive`, `LockExcludes` and `OnlineCorrect`. A
session in the map belongs to a handler of its client that has not unregistered
(`MapSound`); so does one that a registering handler has taken out and pings
(`PingSound`), and a waiting sender's is still the one in the map (`SendSound`), because
each holds the lock. For the online list, `ListSound` says of states in between: of two
handlers between reading and setting the list both are crossed, and what an uncrossed
one has read is the map unless another has changed it and has still to read it.

`BridgeProofs` proves, for any number of chunks and any room: `TypeCorrect`,
`DeliversInOrder` and `AnswersComplete`. `IInv` accounts for every chunk that a loop
has read: written at the far side, in hand there, on the wire, or in the sender's hand,
in this order (`OutSound`, `WireSound`, `SendSound`, `Accounted`). An empty frame is the
last on its wire, its sender is gone, and what precedes it is all that the application
sent or the local service was never reached. `StreamsSound` says that a stream is open
as long as its loop runs, so that nothing follows its end. `CausesSound` says why it
ends: unless something broke, a loop whose other end is gone has the empty frame coming
or some of what it sent is lost (`GoneSound`), a chunk being sent has not arrived
(`HandSound`), and so a stream that its application did not close ends complete or with
something of its own lost (`EndedSound`); from this `AnswersComplete`.
`ImplementsTunnel` (`Spec => TunnelSpec`) maps the applications' variables to those of
`Tunnel` as they are: reading, receiving and sending data are stutters, `WriteChunk` is
`Deliver`, `Fails` is `Break`, and leaving in any other way is `End`.

`UdpSessionsProofs` proves, for any sources, datagrams and capacity: `TypeCorrect`,
`SessionsSeparate`, `EntriesRemovable` and `SendersMatchWorkers`. The last two are part
of `IInv`; they need that the session a task has found is of its datagram's source, that
its sender cannot be removed while the task sends under the read lock, and that a
session found dead stays dead (`FoundSound`), that a worker starts with its sender in
the table (`WorkerSound`), and that channels and wires carry one source
(`CarriedSound`).

`RuleSyncProofs` proves, for any clients, rules, versions, calls and room: `TypeCorrect`,
`ClientsInSync` and `RequestsServed`. `InSync` speaks of live sessions and of rules that
are neither being changed nor disturbed.
`IInv` adds what a call under way that nothing disturbs will tell the client: what the
database holds (`CallSound`); what may be queued for a session that is registered but
has not been pushed its rules (`SettledSound`: nothing that contradicts them); and of
every request in the queue what the property says of the first (`RequestsSound`).

`ProxyRulesProofs` proves, for any rules, ports, domains and calls, also with calls that
go on when rules are disturbed: `TypeCorrect`, `StatusCorrect`, `NothingRemains` and
`RoutesCorrect`. `RuleSound` says at each step of create, update and delete how
database, runtime entry and listener of the rule relate. It would not survive the
steps of *other* rules without `HandleSound`, which follows each running loop to the one
place that has its handle (the map, the call that has just bound it, the call about to
abort it), and `LoopSound`, its converse for rules that are not disturbed. `RouteSound`,
`HeldSound` and `ReachSound` do the same for domains: `AddRoutes` overwrites what another
rule may have registered, and only domains marked as shared can be hit.

`ClientConnectorProofs` proves, for any number of connections and any times that satisfy
`TimesAssumption` and `NetworkAssumption`:

- `SilenceBounded`: `Spec => []DeadNoticed`. The time to the next check and the silence
  add up to at most timeout, period and what the handler spent in `framed.send`
  (`CheckSound`); `Tick` moves a unit from one to the other.
- `LiveKept`: `Spec => NoFalseTimeout`, an action property. On a live connection `IInv`
  follows the message that will end each wait: Auth (`FirstSound`: its age and the
  client's timer add up to the wait), AuthResp (`AuthSound`), then the pings
  (`LoopSound`: some ping under way is old enough to account for the silence, or the
  next is due in time). With `NetworkAssumption` no timer can win. A connection that is not crowded is alone
  with the entry of the session map (`AloneSound`), so that a step that ends it while it
  lives is one that counts a fault.

The assumptions on constants are those of the `ASSUME`s: messages are those of
`MessagesAssumption` (above), sizes are natural numbers,
capacities and periods positive, maps of the instance have their types, and `None`
differs from the values it stands beside (of rules, endpoints, settings and so on).
`NetworkAssumption` alone says something about the world; the code's constants satisfy
it for 80 s of latency and stalling.

Only model-checked are the liveness properties (`Settles`, `HandlersSettle`, `BothEnd`,
`Forwards`, `TasksEnd`, `SessionsEnd`, `Delivered`, `Reconnects`), since TLAPS here
proves neither fairness nor ENABLED. The other properties of the passing runs
(invariants, `NoFalseTimeout` and the three refinements) are all theorems.

## Findings

Each is a run that TLC refutes; `PROJECT.json` quotes the line of the repository it
contradicts.

1. `unregister` removes a session by client id: after a quick reconnect, the old
   handler's cleanup takes the new session out (`session_replaced`). The map held the
   only sender of the new session's channel, so its handler leaves its loop and the
   server closes the connection: the client is cut off and connects again about a second
   later. In `ClientConnector` this is `HandlerLeaves` followed by `ChannelClosed`;
   `Reconnects` holds all the same.
2. `stop_listener` promises that the port is free; for UDP it is not while sessions
   live, and an update of the rule on the same port then fails (`port_released`).
3. Two first datagrams of a UDP source open two sessions (`udp_twice`).

The exceptions above are weaknesses of the code as well. `Stuck` and `crossed` are at
odds with `src/CHANGELOG.md:9` (a client is shown online as soon as it has
authenticated); they are stated as exceptions, not as runs of their own, because
that shows that nothing else stands in the way.

## Not modelled

- Login and rate limiting: each attempt is a check and a record, two short critical
  sections, and neither code nor docs promise anything about concurrent attempts
  beyond what can be read off them; the rest are library calls.
- Parsing of Host and SNI (from one peek), PROXY protocol headers: pure functions of one buffer,
  better served by unit tests.
- TLS, certificates, configuration, logging, static files, the panel and the
  WebSocket push: I/O, library calls, or reads of state modelled elsewhere.

## Plan

Done, in order of importance: `WorkConn` with `Rendezvous` and the proofs,
`ClientSessions`, `RuleSync`, `ProxyRules`, `Bridge` with `Tunnel`, `UdpSessions`,
`FrameCodec` with `MessageStream`, `ClientConnector`, `ConnStats`, and for all of them
the proofs of every safety property and every refinement that a run checks. No further
model is planned.

What could still be added is an abstract promise of `ClientSessions`. The invariants
that are proved say what it keeps; a specification that hides lock and channels would
have to allow `session_replaced`, and is worth writing once that is mended.
