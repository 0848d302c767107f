# A TLA+ model of yggstack-ng

yggstack-ng runs a Yggdrasil node without a TUN device. Packets of the overlay
go to a user-space TCP/IP stack (smoltcp), and forwarders, proxies, a resolver
and ping sessions use that stack's sockets. The mobile crate wraps it all in an
engine that app threads start, stop and reconfigure. This directory models the
parts where tasks, threads, timers and packets interleave, checks them with TLC
on small instances, and proves every safety invariant the runs check, and the
refinement, with TLAPS for all sizes.

## 1. The system

| Part | State | Operations | Interacts with |
|---|---|---|---|
| Netstack (`netstack/mod.rs`) | `NetstackState` behind one mutex: `SocketSet`, `pending_connects`, `listeners` (pool, accept queue, accept wakers), `closing`, `wakers`, `closed` | `dial_tcp`, `listen_tcp`, `accept`, stream read, write, shutdown and drop, the poll loop, `shutdown` | every user of sockets; the reader task feeds it packets |
| Fragment reassembly (`netstack/frag.rs`) | slots by (source, destination, identification) | `feed`, `evict_expired` | called by the poll loop for every packet |
| Resolver (`resolver.rs`) | server list, sticky cursor (an atomic), outage mark (a mutex) | `resolve`, the exchange with one server, `resolve_with_failover` and `FailoverState` | concurrent lookups from the proxies; netstack sockets |
| Engine (`yggstack-mobile/src/mobile.rs`) | `state`, four mapping vectors, `listeners`, each with its own mutex | `start`, `stop`, `add_*`, `remove_*`, `clear_mappings` | spawns, stops and joins the tasks of all other parts; tells the app of peers that come and go |
| TCP and UDP forwarders (`forward/`) | per-listener tasks; UDP sessions map, reply listeners, eviction timer | bind, accept or receive, relay, stop | engine (stop channel, join), netstack, statistics |
| Ping (`ping.rs`, `start_ping`, `stop_ping`) | one session slot; probe loop | start, replace, stop, probe, report | netstack ICMP socket, app callback |
| SOCKS5 server, HTTP proxy, TCP relays (`socks.rs`, `http_proxy.rs`, `forward/tcp.rs`) | per connection: handshake, dialed leg, copy buffers; UDP associations | accept, handshake, dial, relay both ways, stop | engine (stop channel, join), resolver, netstack, statistics |
| Statistics (`stats.rs`) | per listener: active and total connections, bytes each way; the registry | `ConnGuard`, `counting_copy`, `entry`, `remove` | every forwarder and proxy |
| Mapping parser, port checks, config, command line | none that outlives a call | | |

What is hard here: handles into a set that reuses slots, used across critical
sections; futures dropped at any await; wake-ups that must not be lost;
shutdown racing with everything; broadcast stops sent before a task subscribes;
joins under a mutex; joins that give up and abort; lost, duplicated and
reordered packets. `PROJECT.json` lists each hazard with its line and the
properties that cover it.

## 2. Modules

Each module stands for one part; its header says what is abstracted.

* `Netstack.tla` - one action per critical section of the
  mutex, or per step between awaits. TCP states that no code tells apart are
  merged, data is "unread bytes are there", time is "this deadline has passed".
  A batch of packets moves up to `MaxBatch` sockets along the arcs of smoltcp's
  state machine (`Reach`, external). `RunPoll` is one whole turn:
  `process_connects`, `iface.poll`, `service_listeners`,
  `reap_closing_sockets`, wake-ups.
* `FragReassembler.tla` (with `MCFragReassembler`) - the buffer of a slot is the
  set of positions written.
* `SlotOwnership.tla` - what the netstack promises about a slot: who holds it
  and to whom it may pass, two variables and two actions. `Netstack` implements
  it (`SlotLifecycle`) under the mapping `OwnerOf`, which reads the owner of a
  slot off the netstack's tables.
* `Resolver.tla` - `resolve` for names that need no server, for names whose
  answer fits a datagram, is truncated or overflows the buffer, and for lists of
  no, one or more servers; datagram, retry and TCP with one server; the walk.
  Every access to the cursor or the mark is a step, because they are two
  separate shared objects. `ATTEMPT_TIMEOUT` and the datagram timeout are both
  10 seconds, so in a walk silence ends the attempt (`AfterSilence`). Opening a
  datagram socket and sending from it are taken to succeed. `steady` is history.
* `Engine.tla` - app threads calling the engine; each step is
  a critical section or a `block_on`. The four mapping vectors are handled
  alike and are one; a mapping is its statistics key; `Remote` keys listen in
  the netstack, where no address conflict is detected. The reply listeners of a
  `LocalUdp` key share the socket of its task: they may outlive it and keep its
  address (`held`, `SocketOutlives`) until the last is gone (`LetGo`), which
  nothing guarantees. A stop reaches a task only if it has subscribed. The guard of `if let Some(l) = listeners.lock()...remove(key)`
  lives through the body, so `remove_*` joins with the mutex held.
  The peer-events forwarder of a node is one record: control state, snapshot
  taken, count told to the app, events waiting. The core's event channel holds
  `EventCap` events and drops the oldest; `EventCap + 1` stands for a channel
  that lags.
* `UdpForward.tla` - one forwarder, local or remote (`kind`): main task,
  sessions, reply listeners, eviction timer; and the netstack under it, whose
  send buffers fill up (`full`), are emptied by polls, and stay full once it is
  down, which leaves the main task pending in `send_to` until the engine's join
  aborts it. A handle is 0 for `None` and for a task that has ended: aborting a
  finished task does nothing, and listener numbers are reused.
* `Relay.tla` - one listener of any of the four kinds and its connections. The
  bytes each side sends are numbered chunks, chunk 0 is the head the HTTP proxy
  rewrites. A write is two steps, begun and ended, since a relay can be cut
  between them. The stop channel is the set of receivers that hold the stop and
  the set of senders left: `recv()` also returns when the last one is gone. The
  stop comes from a call that joins the listener, and aborts it if it does not
  end, or from `clear_mappings`, which joins nobody (`sent`). The
  relay task of a UDP association is a state of its own (`rt`), because only the
  handler that spawned it can abort it.
* `Ping.tla` - the probe loop and the calls around it.
* `NetstackProofs.tla`, `NetstackLifecycleProofs.tla`, `FragReassemblerProofs.tla`,
  `ResolverProofs.tla`, `EngineProofs.tla`, `UdpForwardProofs.tla`,
  `RelayProofs.tla`, `PingProofs.tla` - theorems about the module each is named
  after (section 4).

In every module the operators commented "mutant" are deliberately wrong variants
of the definition below them. Substituting one for the other must break the
property `PROJECT.json` pairs them with, which shows that the property depends
on that piece of code.

## 3. Runs

Passing runs:

| Run | What it shows | Bounds |
|---|---|---|
| `netstack_safety` | no slot is used after its socket was removed or by two owners, each passes only between the holders `SlotOwnership` allows, pools stay topped up, and a sleeping read or write is released by `shutdown()`; with cancellation, dropped listeners and a port `listen()` rejects | 3 slots: the dial, the pool socket and one replacement, so that slots run out and are reused; 1 listener entry, pool of 1, one socket changed per batch |
| `netstack_live` | between `new()` and `shutdown()` dials end, dropped streams and half-open handshakes are reaped, queued connections are accepted | 2 slots, one dialer, one acceptor |
| `frag_reorder` | reassembly over an overlay that loses, delays and reorders: whole packets only, and all whose fragments arrived | three datagrams (3 fragments, 2 fragments, one past the buffer), one copy of each fragment |
| `failover_walk` | a lookup fails only if no server could have answered it all the while, over datagrams or, where the answer or a lone server needs it, over TCP | two lookups of any kind of name, 0 to 3 servers whose datagram service comes and goes at any time, and server 0's TCP service too |
| `engine_concurrent` | all calls from two threads: no entry outlives a `stop()`, every call returns | 1 local-udp mapping, 3 listener tasks alive at a time, 1 node alive or under construction, no callback; ids are reused, so the number of calls is unbounded |
| `engine_sequential` | one thread: the app knows its peers whenever the forwarder rests, and the forwarder is gone before its core is closed; after `stop()` nothing it joins is left and only a local-udp address may be in use; each configured mapping has a listener that was not told to stop, nothing else serves, and what serves is listed | 3 mappings, one local-tcp, one local-udp and one in the netstack; 3 tasks, 2 nodes, an event channel of 2, so that it lags |
| `udp_sessions` | no reply listener is lost, a forwarder that took its stop leaves none running, idle sessions are evicted, a stop ends the main task | 2 clients, 3 reply listeners alive at a time; both kinds, a netstack that goes down at any time |
| `relay_serve` | gauges and byte counters are exact, bytes are neither lost, repeated nor reordered, a response arrives whole, a stop the listener gets or a call joins ends every relay, and a UDP association ends with its control connection | all four kinds, two connections, of which the first sends two chunks up, so that one can come behind the head and one through the relay, and one down, half-closes and resets at any time, and the second only adds its handshake, relay and association |
| `ping_session` | each probe is reported once, and as answered only on its own reply; every session can be stopped, and one that `stop_ping` took is over when the call goes on | two threads, two sessions of two probes; sequence numbers do not wrap within a session |

The bounds give each race its two actors and each resource one element more than
its users need, so that exhaustion and reuse both happen. Identifiers are reused
wherever the code reuses or frees them. In `engine_concurrent` a third task id
keeps the calls from waiting for an id (a wait the code does not have), and one
node at a time leaves out two `start()` calls that overlap: see section 7.

Deadlock is checked except where the system may stop: in `FragReassembler` the
senders have nothing left to send, in `UdpForward` and `Relay` the listener has stopped,
and in `Ping` the node has.

Fairness. `WF` on the steps of a task stands for the runtime polling a ready
task and for timers firing. `SF` is used in three places. App threads waiting
for a mutex (`Engine`) get it in the end. A stop branch of a `tokio::select!`
(`UdpForward`) that is ready time after time is taken in the end, since
the branches are polled in random order. The eviction tick competes with the
main task for the sessions mutex, and tokio's mutex is fair. In `Relay` nothing
is assumed of a handshake or a dial, only that a relay offered the stop takes
it, that the engine drops its sender after the stop, that a join, where there is
one, ends, that an aborted task is dropped, and that a control connection at EOF is read. No fairness is assumed of
peers, servers, the overlay or the app.

Violation runs state a sentence of the repository's comments, and TLC refutes it
by what the code does. The finding of the same run in `PROJECT.json` has the
lines.

| Run | Property | What happens |
|---|---|---|
| `netstack_shutdown` | `InFlightReleased` | `accept()` pends after `shutdown()` with no waker; a dial that queues its command after `shutdown()` waits for an answer nobody gives |
| `frag_dup_hole` | `DeliveredWhole` | a duplicate fragment completes a packet with a hole |
| `failover_race` | `PrimaryPickedUp` | two racing lookups lose the outage mark while the cursor is on a fallback; the primary is not tried again |

`DeliveredWhole` is in both tables: it holds as long as nothing is duplicated and
fails otherwise, which is where the code's guarantee ends.

## 4. Proofs

Every invariant of the passing runs, and the refinement, is a theorem
`Spec => []Inv` for all values of the constants, from the assumptions named in
the module that declares them; five of them (two of the reassembler, three of the
engine) have further hypotheses, which are given below. Each proof module has an inductive invariant
`IInv`, which TLC checked on small instances before it was proved, one lemma per
action or group of alike actions, and `Inductive` (`Spec => []IInv`), from which
the theorems follow.

| Module | Theorem | Property |
|---|---|---|
| `NetstackProofs` | `TypeCorrect`, `NoStaleHandle`, `UniqueOwner` | `TypeOK`, `HandlesLive`, `OneOwner` |
| `NetstackLifecycleProofs` | `PoolAlwaysToppedUp`, `NoTrafficOnceClosed`, `NoStreamSleepsOnceClosed`, `ImplementsSlotOwnership` | `PoolToppedUp`, `ClosedNoTraffic`, `StreamsReleased`, `SlotLifecycle` |
| `FragReassemblerProofs` | `TypeCorrect`, `ReassemblyWhole`, `ReassemblyTotal` | `TypeOK`, `DeliveredWhole`, `ArrivedIsDelivered` |
| `ResolverProofs` | `TypeCorrect`, `SteadyServersAreFound` | `TypeOK`, `SteadyServerAnswers` |
| `EngineProofs` | `TypeCorrect`, `NoEntryBehindStop`, `PeersAreReported`; one app thread: `ConfiguredIsServed`, `NothingLeftOnceStopped`, `ServedStaysListed` | `TypeOK`, `EmptyWhenStopped`, `PeersReported`; `MappingsServed`, `QuietWhenStopped`, `ServedIsListed` |
| `UdpForwardProofs` | `TypeCorrect`, `ListenersReachable`, `StoppedReleasesAll` | `TypeOK`, `NoStrayListener`, `CleanupReleasesAll` |
| `RelayProofs` | `TypeCorrect`, `GaugeIsExact`, `TrafficIsCounted`, `StreamsInOrder`, `ResponsesWhole` | `TypeOK`, `GaugeExact`, `TrafficCounted`, `StreamInOrder`, `ResponseWhole` |
| `PingProofs` | `TypeCorrect`, `OnlyOwnReplies`, `ProbesAccounted`, `EverySessionReachable`, `TakenSessionsJoined` | `TypeOK`, `OkMeansAnswered`, `EachProbeReported`, `NoStraySession`, `TakenIsJoined` |

**Owners of slots** (any finite set of slots, any dialers, acceptors and ports,
any pool size). Neither `HandlesLive` nor `OneOwner` is inductive by itself.
A socket removed by one path must not be held by another, which needs
`OneOwner`; a new socket takes a free slot, and nobody holds that slot only
because of `HandlesLive`. In addition a dial whose command is in
`pending_connects` must still be waiting for it (`PendingQueued`): otherwise a
slot could go to a `TcpStream` while its command is still queued. `IInv` is the
conjunction of the four. The long lemma is `ServiceAndReapIInv`, for the poll
loop's pass over the listeners: what leaves a pool is either queued or removed,
and what enters it was free or has just been removed.

**Life cycle of the netstack.** The pool size compares cardinalities across a
poll: `service_listeners` takes out of a pool what it queues or removes and puts
in as many new sockets as are missing in LISTEN. `ClosedQuiet` strengthens
`ClosedNoTraffic`: the poll loop may run once more after `shutdown()`, so
sockets may still be in the states that abort and that one poll can produce, but
the accept queues are empty, no stream is open, and none has a waker registered.
`ImplementsSlotOwnership` goes action by action: in each of them the owner of a
slot changes only along the arcs of `SlotOwnership`, which follows from
`OneOwner` (the mapping `OwnerOf` is a function of the tables) and from there being no
pool past the end of the listeners vector (`NoStrayPool`).

**Reassembly.** `TypeCorrect` (nothing is written past the buffer) holds for any
fragments and any duplication. The other two have hypotheses. `WellCut`: the
fragments of a datagram do not overlap and none lies beyond the last one.
`Covered`, for delivery only: together they cover the datagram, or one of them
exceeds the buffer. `MaxCopies = 1`: nothing is duplicated, without which
`DeliveredWhole` is false (`frag_dup_hole`). The fragments of the run
`frag_reorder` satisfy all three. The invariant: a slot has counted each byte of
its buffer once (`Sound`), and holds all that was fed of a datagram to which
nothing happened (`Whole`).

**Failover.** The servers a walk has behind it have no service that lasted
(`WalkedAreLost`), stated by the distance from the walk's start modulo the
length of the list, so it holds for any list. A lookup that has gone on from
datagrams to TCP has seen its datagrams fail (`SmallIsLost`).

**Engine, any number of threads.** Entries in `listeners` belong to the node, or
to a call that will store one or drain them (`Owned`). This is inductive because
`add_*` keeps the state mutex from its look at the node to its entry
(`StateLocked`), so that no `stop()` takes the node in between. For
`PeersReported` each run has one call at a time that builds or closes it
(`OwnRun`), and a snapshot on its way to the app is right unless an event is
waiting (`ForwarderOK`).

**Engine, one app thread.** The last three theorems have the hypothesis
`Sequential`: one app thread, which adds no mapping twice and clears nothing. All
three conditions are needed (section 7: `mobile.rs:642`, `mobile.rs:741`,
`forward/tcp.rs:63`), and the run `engine_sequential` satisfies them. `ServedOK`
says how far each call has brought the entries of `listeners` to what is
configured. `SInv` says that a task that lives has the entry of its mapping or is
being joined, and that no two have one key (`TaskOK`), so the end of one never
unlists another; and that a proxy server belongs to the node or to a call that
builds or closes one (`ProxyOK`). `Entries` says that a task with an entry was
not told to stop and is one of the node, or of the one `start()` will store. An
entry does not mean that the task serves: its bind may be to come, or have
failed, and then the entry stays. `NothingLeftOnceStopped` is about what `stop()`
joins; the addresses of local-udp mappings are left out, because of the reply
listeners (section 7, `forward/udp.rs:38`).

**UDP forwarder.** These theorems rest on an assumption about time, made in `Age`:
a send takes less than the 30 seconds after which a session is stale, so the
eviction timer does not remove the session in hand between its lookup and the
storing of the handle. (If a send pended that long, the handle would be dropped
unaborted and its listener would run on.) With it, the session of the datagram in
hand stays in the map and fresh (`CurrentFresh`); a handle other than 0 is that of a running
listener of its own session (`HandlesRun`).

**Relays.** `GaugeExact` and `TrafficCounted` are inductive given what a
connection has not done yet in each state (`Untouched`, `Handled`,
`Associated`). `StreamInOrder` is proved position by position (`Ordered`): the
chunk at position `i` of what arrived, and of what waits, is known from the
lengths alone, so that a read appends the next number and a write moves one.

**Ping.** A probe is unreported exactly while it is in flight (`Counted`), no
session has two handles (`Handled`), and one whose handle was neither taken nor
dropped was not told to stop (`Untold`).

Only model-checked: the liveness properties (`DialEnds`, `ClosingReaped`,
`HalfOpenReaped`, `QueuedAccepted`, `CallReturns`, `IdleEvicted`,
`StopEndsMain`, `StopEndsRelays`, `AssocEnds`), since fairness and `ENABLED` are
out of the prover's reach; and the three violation runs, which are
counterexamples.

## 5. Not modelled

Mapping specifications, DNS messages, HTTP heads and SOCKS5 addresses as text:
pure parsing, reduced to what their users do with the result. Port checks are
one-shot probes that keep no state. Configuration, keys and the command line are
sequential. The engine's setters and getters copy a field under its mutex.
Build scripts and generated bindings are no code of this program. smoltcp, tokio
and the Yggdrasil core are external: they are modelled only through what this
code observes of them.

Datagram and ICMP sockets of the netstack are modelled where they are used
(`UdpForward`, `Relay`, `Resolver`, `Ping`), not in `Netstack`: they have one
owner from creation to drop and share nothing with the TCP tables but the waker
list and the end of the polls.

## 6. Plan

1. A composition of `Engine` and `UdpForward`, to derive rather than assume that
   the netstack is down when the forwarders are told to stop.
2. Action properties of the engine and of the relays, proved from the same
   invariants.

## 7. Other divergences the models show

The code differs from what a comment or a document says in these places too.
Each model has the code's behaviour; no run is kept for them. Paths are relative
to `crates/yggstack/src`, or to `crates/yggstack-mobile` for `mobile.rs` (in
its `src`), the UDL and `ANDROID_MIGRATION.md`.

| Where | The code | The text |
|---|---|---|
| `netstack/mod.rs:210` | a pool socket whose handshake completes and whose peer sends FIN in one batch is in CLOSE-WAIT without unread data, so it is never queued and is aborted as half-open later (`Moved`, `HalfOpen`) | :56-57 "every established socket moves to the accept queue" |
| `netstack/mod.rs:743` | `wait_connected` reports CLOSE-WAIT as ConnectionRefused (`RefusedStates`) | `mobile.rs:1037-1038` "a real answer proving nothing listens on that port" |
| `netstack/mod.rs:866` | `TcpListener` has no `Drop`: its entry and pool stay (`DropListener`) | `mobile.rs:799` "Stops its listener when the node is running" |
| `resolver.rs:275` | the outage mark keeps its first instant, so after one rest every lookup probes the failed primary (`MarkedDown`) | :13-14 "how long to stay on a fallback server before re-probing the preferred (first) one" |
| `forward/tcp.rs:63` | a stop sent before the task subscribed is lost, and `clear_mappings` joins nobody (`SendStop`, `ClearDrain`) | `mobile.rs:325-326` "a stop fired before the task first polls its own subscription is not lost" |
| `forward/tcp.rs:63` | so a listener that `clear_mappings` told to stop too early serves on, with its relays (`SendStop`, `ListenerAborted` of `Relay`; hence the condition `StopTakes`) | as above |
| `forward/udp.rs:38` | the reply listeners, which share the listening socket (:184), are aborted and not joined, and run on if the main task is aborted: the port may still be taken when `stop()` returns (`SocketOutlives`) | `mobile.rs:681-683` "so their listening sockets are closed before stop() returns", "an immediate restart can then rebind the same ports" |
| `mobile.rs:741` | adding a netstack mapping twice replaces the entry and orphans a task that survives `stop()` (`SpawnListeners`, with `MaxDup` 2) | `mobile.rs:681-682` "Stop and JOIN every per-mapping listener" |
| `stats.rs:91` | only the task removes its entry; an aborted one stays listed (`JoinAborts`) | :90 "used when a mapping is removed at runtime" |
| `mobile.rs:642` | two overlapping `start()` calls both succeed and one node is lost (`StartCheck`, `StartStore`, with `MaxRun` 2) | `ANDROID_MIGRATION.md:401` AlreadyRunning when "`start()` called while running" |
| `mobile.rs:754` | a mapping added between `start()`'s clone and its store is not served by that start (`StartClone`, `AddState`) | `mobile.rs:712-714` "While the node runs the listener starts immediately" |
| `forward/udp.rs:56` | the eviction timer subscribes on its first poll and holds a sender: it can miss the only stop (`Stop`) | :49 "The task exits when `stop_tx` fires or the sender is dropped" |
| `forward/udp.rs:169` | only the client's datagrams renew `last_active` (`Receive`) | :20 "evict sessions idle for longer than this" |
| `mobile.rs:979` | two `start_ping` calls at once run two sessions (`Take`, `StoreSession`) | `mobile.rs:211-213` "no callback event can race a newly started session" |
| `mobile.rs:995` | a session aborted by the join reports no end (`JoinAborts`) | UDL :170-171 "receives a final ... event" |
| `mobile.rs:754` | a mapping added while the node runs is served at once (`AddSpawn`) | `ANDROID_MIGRATION.md:337-338` says it has no effect until the next restart |
| `forward/udp.rs:147` | a stop sent before the first poll is missed, or the task pends in a send of a stopped netstack: the join aborts it without `abort_all_sessions`, and the reply listeners run on (`MainAborted`) | :31-32 "Used on stop so a restarted node can rebind cleanly" |
| `resolver.rs:115` | with two or more servers silence lasts as long as `ATTEMPT_TIMEOUT`, so neither the retry nor TCP follows it (`AfterSilence`) | :112-114 "if it times out we retry once ... before falling back to TCP" |
| `resolver.rs:374` | the response code is not looked at: a server that answers SERVFAIL ends the walk as if there were no record (`UdpResponse`) | :18-20 "an authoritative answer from a responsive server" |
| `http_proxy.rs:199` | a client that half-closes after its request ends the relay, and the response with it (`CopyOver`; hence the condition in `ResponseWhole`) | :6 "the client connection closes when the response completes" |
| `socks.rs:290` | one byte on the control connection ends a UDP association (`ControlEnds`) | :290 "blocks until EOF/error" |
