# Verification of lwproxy in TLA+

lwproxy lets Luanti clients that can only speak WebSocket or WebTransport take
part in games over UDP. It hands out addresses on a private network
(`fd00::/16`), lets clients bind UDP ports on them, carries datagrams between
bound ports and to and from the internet, and offers a DNS resolver and an HTTP
CONNECT proxy of its own. Paths below are relative to `src/src/`.

Contents: [the system](#the-system), [the modules](#the-modules),
[the runs](#the-runs), [fairness](#fairness), [the proofs](#the-proofs),
[findings](#findings), [what is not modelled](#what-is-not-modelled),
[the plan](#the-plan).

## The system

| component | state | operations | interacts with |
|---|---|---|---|
| private network, `service/net/network.rs` | `by_address` (passcode, `binds`, `touched`), `by_passcode`, `routes`, under one std `Mutex` | `assign` (expires first), `bind`, `unbind`, `deliver` | sessions through leases and relay channels; spawns translation tasks |
| translation task, `translate` | lazily opened IPv4 and IPv6 sockets, the egress channel | send, relay a reply, stop | egress channel from the lease, relay channel to the session, internet |
| leases, `service/lease.rs` | a boxed handler | `send`, `is_live`, `close` on drop | held by a session |
| client registry, `service/service.rs`, `client.rs` | `clients` by id, a global id counter, under one tokio `Mutex` | `new_client`, `remove_client`, `assign`, `bind`, `route` | every session |
| commands, `service/commands.rs` | none | `PING`, `NEWADDR`, `BIND`, `PROXY` | session's `relay_tx`, service |
| WebSocket session, `websocket/client.rs` | `relay_tx`, `lease`, the phase of its task | handshakes, messages, relay branch, teardown | client, service, lease |
| WebTransport session, `webtransport/client.rs` | the same, `cmdbuf`, `relay_udp`, a stream | streams, datagrams, commands split at newlines | client, service, lease |
| CONNECT proxy, `service/connectproxy.rs` | header buffer, TCP halves | header, connect, both directions, wake-up | lease channel, relay channel, remote |
| DNS proxy, `service/dnsproxy.rs` | the backlog in the lease's channel | query, lookup, encode | lease channel, relay channel, the system's resolver |
| frame codec and addresses, `net/packet.rs`, `net/code.rs` | none | `encode`, `decode`, `random_address`, passcodes | network |
| listeners and runners, `websocket/` and `webtransport/` `listener.rs`, `runner.rs` | a listening socket | accept, spawn a session, end at the first error | main, sessions |
| main, `main.rs`, `settings.rs` | settings loaded once, the certificate `SELFCERT` | start endpoints, join them, end with all tasks | listeners |

A session holds the receiver of its *relay* channel. It gives the sender
(`relay_tx`) away once, to the one lease it may ever have: to the network (in
`routes` and in the translation task) with `BIND`, to a service task with
`PROXY`. Who is gone is learned from channels only: the session from its relay
closing, a task from its own channel closing or a relay send that fails. On the
way out a session drops its relay receiver first, then waits for the service's
Mutex to be removed from the registry, and only then drops the lease, which
unbinds the port and closes the egress channel.

Behaviours that are hard, and where they are covered (what is proved, and not only
checked, is in [the proofs](#the-proofs)):

* **One fact kept three times.** That a port is bound is in `routes`, in the
  counter `binds` and in a live `BindHandler`; `expire` believes the counter and
  `unbind` believes the key. (`RoutesMatchHandlers`, `BindsCounted`,
  `HolderKeepsAddress`.)
* **One issue kept twice.** `by_address` and `by_passcode` must stay inverse
  through expiry and reissue. (`TablesAgree`.)
* **The window of a session's end.** It is over, its relay is closed, its port
  is still bound. Deliveries to it are dropped, a reconnecting client is
  refused. (`OnlyOwnTraffic`, `EndedReleases`, finding `refused`.)
* **The window of a BIND.** The port is bound before the client has read
  `BIND OK`: frames may be queued, the write may fail.
  (`BindOkComesFirst`, `LeasesAreHandlers`.)
* **Two channels and two ends in the CONNECT proxy.** Either side may be gone,
  at any time, with data still queued. (`DoneMeansAllRead`,
  `ImplementsPipe`, `SessionOverStopsTask`, `RemoteCloseReachesClient`,
  finding `queued`.)
* **A stream without message bounds.** Over WebTransport commands and data share
  a byte stream that is read in arbitrary pieces. (`CutsDoNotMatter`,
  `AllIsWorkedOff`, `StreamIsResponsesThenData`.)
* **Replies told apart by their order.** DNS queries queue up behind a slow
  lookup, some of them bad, and the session may end under them.
  (`NothingIsSkipped`, `EveryQueryIsAnswered`, `BacklogIsAbandoned`,
  `SessionOverEndsTask`, finding `dns_stream`.)
* **One address in four forms.** IPv4 or IPv6 on a socket, mapped in a frame, a
  key in the routes; a datagram and its reply cross them in opposite
  directions. (`EchoIsIdentity`, `NetworkIsClosed`, `OnlyFramesAreAccepted`.)
* **Some of many.** One endpoint of several cannot be started, or stops
  accepting, while others have clients. (`AllOrNothing`,
  `OneListenerCutsNobody`, `EndsWithItsListeners`.)

`PROJECT.json` lists every such place with its line under `hazards`, those that
nothing covers yet with the reason.

## The modules

| module | is | models |
|---|---|---|
| `AddressBook` | abstract specification | what the network promises: grants, claims, idleness |
| `Network` | specification, refines `AddressBook` | `network.rs` without the channels |
| `Links` | composition, `Net == INSTANCE Network` | sessions of both kinds with bound ports, the registry, commands, leases, delivery and translation over the network |
| `Pipe` | abstract specification | what a CONNECT link promises its two ends |
| `Connect` | specification, refines `Pipe` | one WebSocket session with a `PROXY` lease, the CONNECT task, the remote |
| `WebTransport` | specification | inside a WebTransport session: stream, command buffer, datagrams, relay branch |
| `DnsProxy` | specification | a session with the DNS lease, its task, backlog, lookups and replies |
| `DnsReply` | specification of one lookup, checked against a reference reader | `do_lookup` and the encoding of `handle_query` |
| `Frame` | operators | `packet.rs` and the addresses of `code.rs`, on bytes |
| `Datagrams` | specification over `Frame` | what send, deliver and `relay_reply` do to the bytes of a datagram |
| `Lifecycle` | specification | main, settings' certificates, listeners, accept loops, the end of the process |
| `NetworkProofs` | proofs | safety of `Network`; `Network` implements `AddressBook` |
| `LinksProofs` | proofs | safety of `Links`, any number of sessions; `Links` implements `Network` |
| `LifecycleProofs` | proofs | safety of `Lifecycle` |
| `ConnectProofs` | proofs | safety of `Connect`; `Connect` implements `Pipe` |
| `DnsProxyProofs` | proofs | safety of `DnsProxy` |
| `DnsReplyProofs` | proofs | safety of `DnsReply`; what is encoded is read back |
| `WebTransportProofs` | proofs | safety of `WebTransport` |
| `DatagramsProofs` | proofs | the codec of `Frame`; safety of `Datagrams` |
| `MCNetwork`, `MCLinks`, `MCConnect`, `MCWebTransport`, `MCDnsProxy`, `MCDnsReply`, `MCDatagrams`, `MCLifecycle` | instances for TLC | |

A session appears three times, each time with the rest abstracted: in `Links` as
one of several over the shared network, in `WebTransport` from the inside of its
select loop, and in `Connect` and `DnsProxy` as one end of a lease.

### Network

Every method of `Network` is one critical section of a std Mutex and so one
action: `Assign(address, passcode)` is `assign` with `expire` inside it,
`Bind`, and `Unbind(h)`, the drop of a lease. The random choice of `assign` is
any pair in neither table. `handlers` is the set of `BindHandler`s alive, as
records of their key and the relay they were made with; in the code they are in
sessions, here they stand for "somebody holds this". `bind`'s early returns are
`CanBind`, in their order; a refused `bind` changes nothing. `Unbind` keeps the
code's doubts (the route may be gone, the address may be gone, the subtraction
saturates): that they are idle is what the invariants show, not what the model
assumes. `Tick` is the clock.

### AddressBook

No counters, no time stamps on addresses in use, no index: an address is granted
with a passcode, ports are claimed on it, and it is `idle` from its grant or its
last release until its next claim. `Grant` forgets exactly what has been idle for
TTL. The mapping in `Network` is: `granted` is the passcode column of
`by_address`, `claims` is `handlers`, `idle` is the `touched` column restricted
to the addresses nobody holds a port of. That the counter says exactly that is
the content of the refinement.

### Links

Per session: `pc` (the phase of its task), `relay_tx`, `lease`, `queue` (its
relay channel), and the `answer` and `pending` lease of a command whose response
is being written. `pc` goes

    idle -> handshake -> open <-> replying -> ended -> removed -> gone

`WebTransport` is the set of the sessions of that kind; the others are
WebSockets. The kinds differ where the code does. A WebSocket session calls
`new_client` before any handshake, `Accept`; a WebTransport session only once its
request has been accepted, `AcceptRequest`, so what fails before leaves no trace.
A granted BIND is a WebTransport session's lease at once and a WebSocket
session's only after the response was written, so that a failed write drops it
from different places. Everything else is common. `End(s)` is the
return of `run_client`, which drops the relay receiver and not the lease;
`Remove` is `remove_client`; `Drop` is the end of the spawned task, where the
runner is dropped and its lease runs `unbind`. A command is answered in two
steps because the write awaits: in `replying` the result is not in
`self.lease` yet, and `ReplyFails` drops it there. Awaiting the service's Mutex
is not a step of its own: nothing of the command's decision is read before the
lock is held. Parsing is abstracted: a command that parses is its action, one
that does not is `Leave`, as are a WebSocket error, a close frame, a bad frame,
a datagram without a lease and a failed write.

`bound[s]` is the port of the session's translation task, `{}` when no task
runs; `egress` its channel; `sockets` the families it has opened. A datagram is
the pair of its ends: `SendToNetwork` is `deliver`, `SendToInternet` the egress
send, which fails the session if the task has returned, `TaskReply` is
`relay_reply`, which ends the task if the session has. An Option is a set of at
most one element.

### Connect

The bytes of each side are numbered, so order and completeness are statements
about sequences of numbers. The client cuts its bytes into messages as it likes;
byte `Header` completes the header. `buffer` is the header being assembled, then
what followed it, then the chunk inside `write_all`, which goes out byte by byte
as the remote takes it while the task does nothing else. `failed` is the moment
between `run` returning an error (its receiver is dropped, the lease is dead)
and the wake-up; then the task is `done` and the relay has no sender. A message
is the sequence of its bytes, so the wake-up is the empty one, as in the code.
`ClientSends` of nothing at all is left out: it is taken and has no effect.
Clean and failed ends of a session after PROXY are the same here, except that
`done` records that the client was sent the close frame.

### Pipe

What is left of a CONNECT link when its channels, its task and its failures are
taken away: the client gives, the remote takes what was given in its order, the
remote offers, the client is returned the success reply and then what was
offered in its order, and the session may end at any time, once. In the mapping
the bytes of the header are subtracted from what the client has sent, and the
end is that of the session: the task outlives it, and goes on delivering what it
had been given, as the code does.

### WebTransport

The client's stream is a sequence of symbols that is all sent from the start;
`ReadChunk(k)` is a read of any length. `BIND` and `PROXY` stand for a command
that succeeds, `PING` for the prefix of one that makes no lease (a refused BIND,
NEWADDR and PING itself): like the code's, it takes anything behind it. Any other
line is an error, as is one longer than `MaxLine`. `handle_data` awaits in its
loop, so it is several steps, with `phase` saying where it is: `parsing` at the
head of the loop, `responding` with the lease already set and the response not
written, `select` outside. While it is inside, the service may relay and end;
other branches of the `select!` may not run. `RelayStream` is inside `ReadChunk`
and `Respond`, the remainder included. The service is external: it has the shape
of `into_lease` of the two proxies, the receiver dropped first, then perhaps the
wake-up, then the sender; a bound port keeps its relay while its lease lives.
What a client sends as datagrams is not followed, only that `handle_datagram`
ignores it, passes it on or ends the session.

What of a session lies outside of `handle_session`, its registration, its end and
its lease over the network, is in `Links`.

The reference definition is `Commands` and `Data`, which read the whole stream at
once; the session's `executed` and `forwarded` are compared with them.

### DnsProxy

A query is two pieces of what the client writes, so that a read of a stream can
return a part of one, or more than one. `SessionSends(k)` passes on k pieces: a
whole query on a WebSocket, where the message is the query, anything on a
stream. The lease's channel is `transmit`; the task takes a chunk of it, refuses
it at once if it does not parse, and otherwise looks it up, which is a step that
may take any time and finds something or not. Which queries are bad is chosen at
the start; a chunk that is not one whole query may parse by accident, as text cut
in the middle may, but need not. A reply is the pair of what it is to and
whether it has records. `Answer` is the send on the relay: with nobody there the
task ends, its receiver goes with the backlog, and the wake-up is sent to nobody.

### DnsReply

One query: what the resolver returns comes one address at a time, `Keep` is the
test against those kept, `Selected` the two filters of the list (`Filtered`), one
behind the other, and the cut, `Encoded` the buffer: the count, then record after
record with its tag. The reader that the property uses is defined on its own: it
finds where each record ends from the tags alone. Octets are few and equal to the tags,
so that a reader that loses its place finds something that looks right.

### Frame and Datagrams

`Frame` has the widths of the code as constants: the base of a byte, the length of
an address, the prefix that marks a mapped address, the prefix of the network.
With the values of the code it is `packet.rs`; with those of `MCDatagrams` every
message can be enumerated. An encoding that may fail is an Option. `PutU16` and
`GetU16` are the buffer library's, with their width.

In `Datagrams` every client has its port and nobody leaves, which is what `Links`
varies; one client sends any bytes at all, and whoever gets a datagram out of
them, a client or somebody on the internet, sends the payload back. A socket's
read gives at most `MaxDatagram` bytes of a datagram, as a read into a buffer
does.

### Lifecycle

The settings are a sequence of serve blocks; main starts an endpoint for each in
turn, and each start may fail with an error or a panic, as the code at that
protocol can. `MainEnds` is main's return in whatever way and with it the end of
every task: nothing in the code waits for sessions. `done` counts the endpoints
started, then those joined. A listener accepts until accepting fails, and is over
for good then. `selfcert` is the `OnceLock`, named after the endpoint that first
asked. The task that `ProxyService::start` spawns does nothing and is joined
with `AllStarted`.

## The runs

| run | question | bounds |
|---|---|---|
| `network` | do the tables agree with each other and with the leases, and is it an address book? | 3 addresses, 3 passcodes, 2 relays, ports 0 to 2, TTL 2, clock to 4 |
| `links` | do sessions that bind, talk, fail and leave in any order keep leases, registry and tasks together, and give everything back? | a WebSocket and a WebTransport session, 1 address, 2 passcodes, ports 0 to 2, one socket family, channels of 1, TTL 1, clock to 2, no symmetry |
| `contention` | three sessions after two ports of one address: who gets the traffic? | a WebSocket and two WebTransport sessions, ports 1 and 2, 1 passcode, no internet, channels of 2, no expiry |
| `connect` | is the CONNECT link a faithful pipe, and does either end learn of the other's? | header of 2, 6 client bytes, 3 remote bytes |
| `webtransport` | does it matter where the stream is cut? | all streams of up to 6 symbols of 4 kinds, lines of at most 2, buffer of 3, 2 relayed messages |
| `dns` | one reply to each query, in turn, and a task that ends with its session? | 3 queries of 2 pieces, any of them bad, either transport |
| `dns_reply` | is a reply the best of what was found, and can it be read? | up to 6 addresses found, 2 of IPv4 and 4 of IPv6 with repetitions, 4 records |
| `datagrams` | what is accepted, where does it go, what comes back? | every message of up to 12 one-bit bytes, addresses of 3, 2 clients, 2 ports, reads of 2 |
| `lifecycle` | does the process keep what its settings say, to its end? | up to 3 endpoints of any protocol and certificate, 2 sessions |
| `refused` | (violation) does a refusal mean that the assignment is gone? | as `links`, one port, clock to 1 |
| `queued` | (violation) does what was relayed stay queued? | as `connect` |
| `dns_stream` | (violation) does every query get a reply, to it? | 2 queries |

Named bounds: `MaxTime` (clock), `MaxQueue` (length of the unbounded channels),
`ClientBytes`, `RemoteBytes`, `MaxScript`, `MaxRelay`, `Queries`, `MaxFound`,
`MaxRaw` (length of the message), `MaxServe`. Why they are enough: in `network`, with clock 4
and TTL 2 an address can be assigned, bound, released, expire and be issued
again, twice, with another passcode, and one tick short of expiry is reached;
two ports on one address make counters of 2; three addresses and passcodes let a
reissue cross with a live one. In `links`, two ports let both sessions hold a
port of the same address and send to each other, and one bound full channel in
each direction is every combination of what can be under way when a session
ends. `contention` adds the third party that two sessions cannot have: one
leaving, one taking its place, one sending, with a channel of 2 that holds
traffic from two sources. In `connect`, 6 bytes allow
a split header, a remainder, and two further chunks. In `webtransport`, six symbols are two commands with
their newlines and two symbols of data, which may spell a command; a line can be
too long, and a partial one can reach the buffer's limit exactly. In `dns`, three
queries are one looked up, one behind it and one not taken yet. In `dns_reply`,
more is found than is kept, of both families. In `datagrams`, a frame has 8
bytes of header, so 12 are payloads of up to 4, one more than its length field
can say and two more than a read takes; of the eight addresses two are mapped and
four the network's, one of these the proxy's and two given out. In `lifecycle`, three
endpoints have one in the middle, and two sessions can be at two of them. Addresses, passcodes,
relays and sessions are only compared for equality, so symmetry is used, except
in the run of a liveness property.

Deadlock is checked in `network` only: elsewhere the sessions, queries or messages
of the instance are used up and the system rests, or the process is over. That
nothing rests too early is `EndedReleases`, the two of `connect`, the two of
`dns`, `AllIsWorkedOff` and `EndsWithItsListeners`.

What each property is about is written above it. In short:

* `TablesAgree`, `RoutesMatchHandlers`, `BindsCounted`: the three ways
  `network.rs` knows things say the same. `HolderKeepsAddress`: no step of
  others takes a holder's address or passcode.
* `LeasesAreHandlers`: every bound port is held by exactly one session that will
  give it up. `LeaseIsRouted`: whoever was granted a port gets its traffic until
  it drops it. `SessionsRegistered`: `remove_client` never meets its panic.
  `LinkHasItsTask`: the egress send of an open session never fails.
  `RelayKeptForRetry`: a BIND can be tried again after a refusal.
  `OnlyOwnTraffic`: nothing for another port, or for an earlier holder, is on a
  session's relay. `BindOkComesFirst`: the response precedes the first frame.
  `EndedReleases`: an ended session gives back its port and loses its task.
* `ImplementsPipe`: order and no gaps either way, no empty message, nothing after
  the end. `DoneMeansAllRead`: a clean close is told only after everything the
  task read. `SessionOverStopsTask`, `RemoteCloseReachesClient`: either end
  learns of the other's, but for a write that the remote never takes.
* `CutsDoNotMatter`: however the stream is cut, no data are taken for a command
  and no command for data. `StreamIsResponsesThenData`: what the client reads is
  its responses, then relayed data, and on a bound link datagrams only.
  `AllIsWorkedOff`: nothing stays behind in the buffer. `TypeOK` of this module
  also says that a waiting session's buffer is below the limit.
* `NothingIsSkipped`: replies, the lookup and the backlog are together exactly
  what was taken for queries, in turn, and a bad one costs nothing but its
  records. `EveryQueryIsAnswered`: over a WebSocket. `BacklogIsAbandoned` and
  `SessionOverEndsTask`: nobody's queries are looked up for nobody, beyond one.
* `ReplyIsTheBest`: count, choice, order and end of a reply as a client reads it.
* `OnlyFramesAreAccepted`: exactly the encodings of frames, to the last byte.
  `EchoIsIdentity`: a datagram sent back comes back as it was sent, if it is
  not cut by a read. `NetworkIsClosed`: nothing for the network leaves it, and
  the proxy's own address is nobody's.
* `AllOrNothing`: all endpoints or none. `OneListenerCutsNobody`: what befalls an
  endpoint stays there. `CertificatesAreShared`: one self-signed certificate for
  all. `EndsWithItsListeners`: a process nobody can reach ends.

Some definitions are preceded by a variant with a mistake in it (say
`StaleByAge` before `Stale`). They are used by no specification; put in place of
the definition they make a property fail, and so show that it is not idle.

## Fairness

`Links!Fairness` has weak fairness for what waits for no client: a finished
session gets the service's Mutex (tokio's is first come, first served, and no
holder awaits anything inside but its own call) and its task runs to the end;
a translation task sends what is queued (a UDP send does not wait for a peer)
and notices that its channel is closed. `Connect!TaskFairness` is the same for
the CONNECT task: its select loop polls its branches in random order, a read
with data or an end returns, a connect succeeds or fails by the system's own
timeout. `ClientReads` assumes a client that takes what is written to it, and is
used for `RemoteCloseReachesClient`. No fairness is given to handshakes, to
responses being written, to commands, or to `TaskWrites`: a client may fall
silent and a remote may never read, and the code has no timeout for either. Both
liveness properties of `Connect` say "or is inside `write_all` for ever", which
is what the code can do.

`WebTransport!Fairness`: what has arrived is read (the `select!` polls its
branches in random order) and worked off, and responses are written, assuming a
client that reads them. None for the service or the relay branch.

`DnsProxy!Fairness`: the session reads what has come and writes what is relayed, to
a client that reads; an ended session gets the registry in its turn; the task
goes on, with a resolver that gives up by its own timeout if it does not answer.
The client need not ask or leave.

`Lifecycle!FairSpec`: main runs. Nothing is assumed of listeners and sessions, which
may stay for ever.

## The proofs

`NetworkProofs` proves for all addresses, passcodes, relays, ports and TTL:

    TypeCorrect, TablesStayInverse, OneHolderPerPort, BindsExact,
    HoldersKeepTheirAddress

from `NetworkAssumption` alone (ports, TTL and the clock's bound are natural
numbers; the sets need not be finite). The inductive invariant `IInv` is the
conjunction of the type invariant, `TablesAgree`, `RoutesMatchHandlers`,
`BindsCounted` and `RoutesFinite`. None is inductive alone: that expiry spares an
address with a route needs the counter to be exact (`HeldIsNotStale`); that the
counter is exact after `Unbind` needs the handler's route to be there; that it is
there needs that no other handler had the same key; and that an expired
address's passcode goes with it needs the tables to be inverse. `RoutesFinite`
gives the counter a cardinality to be equal to. There is one lemma per action and
one step per conjunct. The action property follows from `IInv` and
`HeldIsNotStale`.

It also proves `Spec => AB!Spec` from `IInv`: `StaleIsOverdue` turns
"counter zero and old" into "nobody holds it and idle for TTL", and then each
action maps to the action of the same kind.

`LinksProofs` proves, for any sets of sessions of either kind, addresses,
passcodes, ports and families, any TTL and channels of any length, from
`LinksAssumption` alone:

    TypeCorrect, NoLeakedPort, GrantedPortIsRouted, RegistryIntact,
    TaskOutlivesUse, RetryIsPossible, NoForeignTraffic, GrantComesFirst,
    SessionsUseNetwork

so every safety property of the runs `links` and `contention`. What a session
has is `Holds(s)`, its lease or the one in the answer being written. The
inductive invariant is, besides the type invariant and three of the
properties:

* `SessionOK(s)`, what the phase of a session says of its own state: a new lease
  waits only while `replying`; while the relay is open the task serves exactly
  what is held and `relay_tx` is there exactly when nothing is; when it is closed
  the queue is empty; an open session that holds a port has last written
  `BIND OK` or a frame. A step of another session leaves it alone (`Elsewhere`).
* `HandlersHeld`, which joins the sessions through the network: every handler
  is held by the session it names, and what is held is a handler. With
  `Net!RoutesMatchHandlers` a route leads to a session that still holds the port,
  which is what `OnlyOwnTraffic` needs when `SendToNetwork` puts a frame on
  somebody else's queue; and since a port has one holder, dropping a lease
  (`DropLeaseNet`) disturbs no other session (`HoldsDropped`).
* `RegistryOK`: an id is below the counter and not 0 once it is given, so
  `NewClient` gives one that nobody has.

`GrantComesFirst` is then short: a frame is written only from a queue that is not
empty, so with a port held, so after its `BIND OK`. `SessionsUseNetwork` is the
refinement `Spec => Net!Spec`: no session touches the tables but through
`Assign`, `Bind` and `Unbind`, so what `NetworkProofs` shows of `Network` is about
the network under these sessions too.

`LifecycleProofs` proves, for any number of endpoints and sessions and from
`LifecycleAssumption` alone:

    TypeCorrect, NoPartialStart, ListenersAreIndependent,
    OneSelfSignedCertificate

Its inductive invariant adds two parts. `Phases` is what each phase of main knows
of the listeners: while it starts them exactly the first `done` are there, so any
failure leaves the last one out (`NotStartedYet`), which is how
`OneListenerCutsNobody` tells a failed start from a later end; while it joins
them the first `done` are over, so it returns after all. `Certified` says what
each started endpoint got, which `CertificatesAreShared` compares in pairs.
`MainEndsInv` is common to all the ways main ends.

`ConnectProofs` proves, for a header of any length and any number of bytes in both
directions, and from `ConnectAssumption` alone:

    TypeCorrect, DoneIsTheTruth, LinkIsAPipe

`IInv` follows the bytes. `Upstream`: what was delivered, what the task holds in
`buffer` and what is on its channel are the bytes the client has sent, one after
the other; the chunks on the channel are described by where they were cut
(`Chunks`), so that nothing depends on how. `Downstream`: what was written to the
client and what is on the relay are the reply and then a message for each byte
the task has read, with the wake-up only at the end and only of a task that is
done; while the relay is open their number is exact. `Sessions` says that there is
no task before PROXY and no response without one. `DoneMeansAllRead` is not
inductive without the exact number: that nothing is missing has to be known before
the relay closes, when it still counts what is queued.
`LinkIsAPipe` maps each step to the step of `Pipe` it is, or to none: the header
and its reply are subtracted from the two sides, and a chunk is a step only when
its bytes are taken by the remote.

`DnsProxyProofs` proves, for any number of queries on either transport:

    TypeCorrect, RepliesAreInTurn, BacklogIsNotWorkedOff

`Chunks` is everything ever taken for a query: answered, looked up or waiting. Every
step but the session's own passing on of a chunk moves one from one of the three to
the next and leaves `Chunks` as it is; `Turns` says that they are the pieces
written, in their order, and whole ones on a WebSocket. `Lookups` ties the task's
phase to its query, which is what an answer needs to be an answer to something.
`BacklogIsAbandoned` follows from the shape of the task's steps.

`WebTransportProofs` proves, for streams of any length cut in any way, any limits
with `MaxLine < MaxBuffer`, and any number of relayed messages:

    TypeCorrect, AnyCutWillDo, OutputInOrder

`Lines` says that the first lines of the stream, as many as were executed, are
commands and what was executed, and that the lease is what the last one has
made; it finds the end of the n-th line by the number of newlines up to it, so
that taking the first line of the buffer is the step from n to n + 1
(`NextNewline`, `LineIsNext`). `Buffer` says where the rest is that was read: in the
command buffer as long as there is no lease or its response is being written,
forwarded after that. With the two, `CommandsBegin` turns what was executed into a
prefix of `Commands(script)`, which looks at the whole stream at once. `Channel`
says that what the service has relayed is written up to some message and on the
relay from there on, and that nothing of it is written while a response is: so
relayed data cannot overtake the response of the command that made the lease. The
session's end empties its buffers; what was written before stays right
(`WrittenIsRight`).

`DatagramsProofs` proves, for any width of a byte, length of an address and choice of
prefixes that `FrameAssumption` allows (the code's among them), any number of
clients and messages of any length:

    TypeCorrect, OnlyFrames, EchoComesBackWhole, Closed

It rests on lemmas about the codec: `DecodeEncoded` and `EncodedDecoded` (what
`packet()` makes is parsed to the frame it was made of, and what is parsed is
what `packet()` makes of the result, to the last byte), `ToFromIpv6` (an address
that is mapped for a frame is unmapped to itself), `NetworkNotMapped` and
`ProxyAddressIsNobodys`. The inductive invariant gives for every relay and egress
channel the messages that may be in it (`MayGet`, `MaySend`): the message itself
where it came from, and where it is addressed to the same as the sender's. They
are sets that the message under way determines, so any number of echoes keeps
to them. `FrameAssumption` asks that `random_address()` reserves more than the low
part of the proxy's address (`Reserved`, 256 in `code.rs:15`, and 1), which is what
keeps that address from being given out.

Where a proof needs the first of something (the first newline of the buffer, the
line that a number belongs to), it is taken as the least element of a set of
numbers (`Least`), from the well-foundedness of `<` in the library.

`DnsReplyProofs` proves, for addresses of any two different lengths, any octets,
any list from the resolver and any limit that fits the count
(`DnsReplyAssumption`, and nothing else):

    TypeCorrect, ReadBack, TheBestIsRead

`IInv` has, besides the types, that `addrs` is what was found, each address once and
what came first first (`KeptOf`), and that a reply is what is encoded of
`Selected`. The type invariant already needs the cut: a list of more than
`MAX_RECORDS` would have a count that is no octet. The proof has three parts.

* What `Selected` is: `Filtered` returns those of a list that pass, in their order
  (`LeftGrows`, `FilteredIs`), so the two filters give all that is accepted, once
  each and sorted by `Before` (`AllThatIsAccepted`); since they are as many as there
  are accepted addresses (`CountAccepted`), the cut leaves the best of them.
* What `Encoded` is: each record stands between the end of the one before and its
  own end, and nothing written later changes it (`FrontOfFront`, `Layout`).
* That the reader finds the same ends: the tag at the end of a record says how
  long the next one is, because the two families differ in length (`EndSteps`), and
  so it reads what was written and is left with what follows (`ReadBack`).

The filter, the encoder and the reader are recursive functions. That such a
function exists and what its values are is shown without an induction theorem: the
numbers up to the length for which it fails have no least one
(`NoFirstMeansNone`), so there are none.

Only model-checked: liveness, since neither fairness nor ENABLED is within reach of
the provers: `EndedReleases`, `SessionOverStopsTask`, `RemoteCloseReachesClient`,
`AllIsWorkedOff`, `EveryQueryIsAnswered`, `SessionOverEndsTask` and
`EndsWithItsListeners`. The properties of the three runs that expect a violation are
false.

## Findings

* `refused`: `network.rs:119` and `commands.rs:112` present a refused BIND as the
  way a client learns that its assignment is gone and must ask for a new address.
  `bind` (138) also refuses while the port is still routed to the client's own
  previous connection, between the end of that session (its TCP connection is
  already closed, `relay_rx` dropped) and the drop of its lease after
  `remove_client`. The assignment is alive, no open connection holds the port,
  and the answer is the same `BIND FAILED`. The run shows it in ten steps.
* `queued`: `connectproxy.rs:99` says that what was relayed before the remote
  closed stays queued for the client. If the client sends one more message
  before it has read it, `lease.send` fails because the task's receiver is gone,
  `handle_datagram` (`websocket/client.rs:183`) returns the error and the session
  ends with its relay unread.
* `dns_stream`: `dnsproxy.rs:86` says of `handle_query` that it answers one query.
  Over WebTransport its argument is what one read of the stream has returned
  (`webtransport/client.rs:187`), and nothing puts queries together or apart: one
  query in two reads is as a rule two bad ones with two empty replies, two queries in
  one read are one bad query with one reply, and since replies are told apart by
  their order alone the client is out of step from then on.

An observation without a run of its own: `network.rs:29` calls `MAX_DATAGRAM` the
"largest datagram relayed to or from the open internet", but it is the size of
the read buffer and nothing else. A larger payload goes out (`send`, 283), and of
a larger one that comes in its first 4096 bytes are relayed as if they were all
of it. `EchoIsIdentity` has it as its one exception.

## What is not modelled

* The syntax of commands, of queries and of the CONNECT header: each is a choice of
  what it means, or that it means nothing. The resolver and TLS are external.
* Reading and parsing the settings and certificate files, and the list of allowed
  hosts: input, a choice of accepted or not where it is used.
* What is in the listening sockets and how the libraries shake hands. `stop()` of
  the listeners is called by nobody and read by no loop. A connection whose
  `peer_addr()` fails panics in its task before `new_client` and leaves no trace.
* Whether what a WebTransport session wrote last still arrives when the session is
  dropped: the library's, and `src/` does not say.
* Contents of passcodes, and of addresses beyond `Frame`. That two random passcodes
  differ is `assign`'s own check; that they cannot be guessed is not a property
  of transitions.
* Limits the code does not have (relay channels, the CONNECT header) and
  timeouts it does not have (handshakes): listed as hazards.
* Restart of the proxy: nothing is persisted, so it is `Init`.

## The plan

Done: all modules above; for every value of the constants, every safety property of
their passing runs; that `Network` implements `AddressBook`, `Connect` implements
`Pipe` and `Links` implements `Network`. What is left, and why:

1. Liveness stays with TLC.
2. The hazards without a property are limits and timeouts the code does not have,
   and what a library does with what it was last given. A property of them could
   only say that they are missing. Should the code get them (a bound on the relay
   channel or on the CONNECT header, a timeout of a handshake), they are guards and
   actions of `Links` and `Connect`.
3. The syntax of commands, queries and the CONNECT header, and of the settings: pure
   functions of text, for which unit tests do more than a model of characters.
