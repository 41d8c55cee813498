------------------------------- MODULE Links -------------------------------
(***************************************************************************)
(* Sessions of both kinds with bound links, composed with the private      *)
(* network: websocket/client.rs, webtransport/client.rs, service/service.rs *)
(* and commands.rs, the translation task and the lease of net/network.rs.  *)
(*                                                                         *)
(* One session is one connection and one task.  Its task waits in a        *)
(* select loop for a message of the client or for its relay channel, and   *)
(* handles one at a time; a bound port adds a translation task with an     *)
(* egress channel of its own.  The service's async Mutex covers single     *)
(* calls only, so each call is part of the action that makes it.           *)
(*                                                                         *)
(* The two kinds differ in when a session is registered, in when a new     *)
(* lease is the session's, and in what a datagram without a lease does.    *)
(* How a WebTransport session cuts its stream into commands is in module   *)
(* WebTransport; here commands are what that gives.                        *)
(*                                                                         *)
(* An Option is a set of at most one element.                              *)
(***************************************************************************)
EXTENDS Integers, Sequences, FiniteSets

CONSTANTS
  Session,             \* the connections accepted
  WebTransport,        \* those of that kind, the others are WebSockets
  Address, Passcode, Port, TTL, MaxTime,    \* as in Network
  Family,              \* of the sockets of a translation task: v4, v6
  MaxQueue             \* bound on the unbounded channels

ASSUME LinksAssumption == /\ WebTransport \subseteq Session
                          /\ Port \subseteq Nat
                          /\ TTL \in Nat
                          /\ MaxTime \in Nat
                          /\ MaxQueue \in Nat \ {0}
                          /\ Family \cap (Address \X Port) = {}

VARIABLES
  by_address, by_passcode, routes, handlers, now,   \* the network's
  clients,    \* ProxyService::clients, the ids registered
  next_id,    \* CLIENT_ID_COUNTER
  id,         \* session -> ClientId, 0 before it has one
  pc,         \* where the task of the session is
  relay_tx,   \* does the session still hold its relay_tx?
  request,    \* the BIND being answered: passcode and port
  answer,     \* the response being written
  pending,    \* CommandResult::new_lease, while the response is written
  lease,      \* the lease of the runner
  queue,      \* the relay channel of the session
  wire,       \* what was last written to the client
  bound,      \* the port its translation task serves, {} without a task
  egress,     \* the channel of that task
  sockets     \* the families the task has opened a socket for

netVars     == <<by_address, by_passcode, routes, handlers, now>>
registry    == <<clients, next_id, id>>
commandVars == <<relay_tx, request, answer, pending, lease, wire>>
taskVars    == <<bound, egress, sockets>>
vars == <<netVars, registry, pc, commandVars, queue, taskVars>>

(* A session's relay channel is known by the session.                      *)
Net == INSTANCE Network WITH Relay <- Session

RouteKey == Net!RouteKey
Response == {"ADDR", "PONG", "BIND OK", "BIND FAILED"}

(* A frame on the relay channel: where its datagram came from, and, for    *)
(* the properties, the bound port it was for.                              *)
Frame == [from : RouteKey \cup Family, to : RouteKey]

Phase == {"idle", "handshake", "open", "replying", "ended", "removed", "gone"}

TypeOK ==
  /\ Net!TypeOK
  /\ clients \subseteq Nat /\ next_id \in Nat /\ id \in [Session -> Nat]
  /\ pc \in [Session -> Phase]
  /\ relay_tx \in [Session -> BOOLEAN]
  /\ request \in [Session -> SUBSET (Passcode \X Port)]
  /\ answer \in [Session -> SUBSET Response]
  /\ pending \in [Session -> SUBSET Net!Handler]
  /\ lease \in [Session -> SUBSET Net!Handler]
  /\ wire \in [Session -> Response \cup {"nothing", "frame"}]
  /\ queue \in [Session -> Seq(Frame)]
  /\ bound \in [Session -> SUBSET RouteKey]
  /\ egress \in [Session -> Seq(Family)]
  /\ sockets \in [Session -> SUBSET Family]
  /\ \A s \in Session : /\ \A g, h \in lease[s] \cup pending[s] : g = h
                        /\ \A j, k \in bound[s] : j = k

Init == /\ Net!Init
        /\ clients = {}
        /\ next_id = 1
        /\ id = [s \in Session |-> 0]
        /\ pc = [s \in Session |-> "idle"]
        /\ relay_tx = [s \in Session |-> FALSE]
        /\ request = [s \in Session |-> {}]
        /\ answer = [s \in Session |-> {}]
        /\ pending = [s \in Session |-> {}]
        /\ lease = [s \in Session |-> {}]
        /\ queue = [s \in Session |-> <<>>]
        /\ wire = [s \in Session |-> "nothing"]
        /\ bound = [s \in Session |-> {}]
        /\ egress = [s \in Session |-> <<>>]
        /\ sockets = [s \in Session |-> {}]

Goto(s, p) == pc' = [pc EXCEPT ![s] = p]

(* Some definitions are preceded by a variant of them with a mistake in    *)
(* it: the properties are tried on these as well.                          *)

(* Somebody keeps relay_rx when the session is over.                       *)
RelayKept(s) == pc[s] \notin {"idle", "handshake"}

(* relay_rx lives as long as run_client does.                              *)
RelayOpen(s) == pc[s] \in {"open", "replying"}

(* run_inner returns: relay_rx and the connection go; the lease does not.  *)
End(s) == Goto(s, "ended") /\ queue' = [queue EXCEPT ![s] = <<>>]

-----------------------------------------------------------------------------
(* The life of a session: run() and run_inner().                           *)

NewClient(s) == /\ id' = [id EXCEPT ![s] = next_id]
                /\ next_id' = next_id + 1
                /\ clients' = clients \cup {next_id}

(* A WebSocket session calls new_client() before any handshake.            *)
Accept(s) ==
  /\ s \notin WebTransport
  /\ pc[s] = "idle"
  /\ Goto(s, "handshake")
  /\ NewClient(s)
  /\ UNCHANGED <<netVars, commandVars, queue, taskVars>>

(* A WebTransport session calls it when the request has been accepted; one *)
(* whose request is not accepted leaves no trace.                          *)
AcceptRequest(s) ==
  /\ s \in WebTransport
  /\ pc[s] = "idle"
  /\ Goto(s, "open")
  /\ NewClient(s)
  /\ relay_tx' = [relay_tx EXCEPT ![s] = TRUE]
  /\ UNCHANGED <<netVars, request, answer, pending, lease, wire, queue, taskVars>>

(* TLS, where configured, and the WebSocket upgrade.                       *)
HandshakeOk(s) ==
  /\ pc[s] = "handshake"
  /\ Goto(s, "open")
  /\ relay_tx' = [relay_tx EXCEPT ![s] = TRUE]
  /\ UNCHANGED <<netVars, registry, request, answer, pending, lease, wire,
                 queue, taskVars>>

(* The task returns without remove_client().                               *)
HandshakeFailsUnnoticed(s) ==
  /\ pc[s] = "handshake"
  /\ Goto(s, "gone")
  /\ UNCHANGED <<netVars, registry, commandVars, queue, taskVars>>

HandshakeFails(s) ==
  /\ pc[s] = "handshake"
  /\ End(s)
  /\ UNCHANGED <<netVars, registry, commandVars, taskVars>>

(* A close frame, a transport error, a text that is no command or comes    *)
(* when there is a lease, a datagram that is no frame or, on a WebSocket,  *)
(* comes without a lease, a second stream, stream data on a bound link, a  *)
(* write of a relay frame or a pong that fails: run_client or              *)
(* handle_session return.                                                  *)
Leave(s) ==
  /\ pc[s] = "open"
  /\ End(s)
  /\ UNCHANGED <<netVars, registry, commandVars, taskVars>>

(* remove_client(), once the task gets the service.                        *)
Remove(s) ==
  /\ pc[s] = "ended"
  /\ id[s] \in clients
  /\ clients' = clients \ {id[s]}
  /\ Goto(s, "removed")
  /\ UNCHANGED <<netVars, next_id, id, commandVars, queue, taskVars>>

(* A lease without a Drop.                                                 *)
DropNothing(option) == UNCHANGED netVars

(* Dropping a lease runs close(), which is unbind().                       *)
DropLease(option) == IF option = {} THEN UNCHANGED netVars
                     ELSE \E h \in option : Net!Unbind(h)

(* The task is over and drops the runner, its lease with it.               *)
Drop(s) ==
  /\ pc[s] = "removed"
  /\ Goto(s, "gone")
  /\ DropLease(lease[s])
  /\ lease' = [lease EXCEPT ![s] = {}]
  /\ relay_tx' = [relay_tx EXCEPT ![s] = FALSE]
  /\ UNCHANGED <<registry, request, answer, pending, wire, queue, taskVars>>

-----------------------------------------------------------------------------
(* Commands, taken only when there is no lease.                            *)

TakesCommand(s) == pc[s] = "open" /\ lease[s] = {}

Respond(s, response, new_lease) ==
  /\ Goto(s, "replying")
  /\ answer' = [answer EXCEPT ![s] = {response}]
  /\ pending' = [pending EXCEPT ![s] = new_lease]

Ping(s) ==
  /\ TakesCommand(s)
  /\ Respond(s, "PONG", {})
  /\ UNCHANGED <<netVars, registry, relay_tx, request, lease, wire, queue, taskVars>>

NewAddr(s) ==
  /\ TakesCommand(s)
  /\ \E a \in Address, p \in Passcode : Net!Assign(a, p)
  /\ Respond(s, "ADDR", {})
  /\ UNCHANGED <<registry, relay_tx, request, lease, wire, queue, taskVars>>

(* BIND, granted: the relay is now the network's, and the port has a task; *)
(* or refused, for whatever reason, with always the same answer.  Without  *)
(* a relay to give it is an error that ends the session.  The lease is a   *)
(* WebTransport session's at once, and before the response is written.     *)
BindOk(s, p, n) ==
  /\ TakesCommand(s)
  /\ relay_tx[s]
  /\ Net!Bind(s, p, n)
  /\ relay_tx' = [relay_tx EXCEPT ![s] = FALSE]
  /\ request' = [request EXCEPT ![s] = {<<p, n>>}]
  /\ LET new == handlers' \ handlers
     IN  /\ bound' = [bound EXCEPT ![s] = {h.key : h \in new}]
         /\ Respond(s, "BIND OK", IF s \in WebTransport THEN {} ELSE new)
         /\ lease' = IF s \in WebTransport THEN [lease EXCEPT ![s] = new] ELSE lease
  /\ UNCHANGED <<registry, wire, queue, egress, sockets>>

(* Gives the relay away before it knows that the port is granted.          *)
BindFailsWithRelay(s, p, n) ==
  /\ TakesCommand(s)
  /\ ~Net!CanBind(p, n)
  /\ Respond(s, "BIND FAILED", {})
  /\ request' = [request EXCEPT ![s] = {<<p, n>>}]
  /\ relay_tx' = [relay_tx EXCEPT ![s] = FALSE]
  /\ UNCHANGED <<netVars, registry, lease, wire, queue, taskVars>>

BindFails(s, p, n) ==
  /\ TakesCommand(s)
  /\ IF relay_tx[s]
     THEN /\ ~Net!CanBind(p, n)
          /\ Respond(s, "BIND FAILED", {})
          /\ request' = [request EXCEPT ![s] = {<<p, n>>}]
          /\ UNCHANGED queue
     ELSE End(s) /\ UNCHANGED <<answer, pending, request>>
  /\ UNCHANGED <<netVars, registry, relay_tx, lease, wire, taskVars>>

(* The response is written, and only then the lease is a WebSocket's.      *)
Reply(s) ==
  /\ pc[s] = "replying"
  /\ Goto(s, "open")
  /\ \E r \in answer[s] : wire' = [wire EXCEPT ![s] = r]
  /\ lease' = [lease EXCEPT ![s] = @ \cup pending[s]]
  /\ pending' = [pending EXCEPT ![s] = {}]
  /\ answer' = [answer EXCEPT ![s] = {}]
  /\ request' = [request EXCEPT ![s] = {}]
  /\ UNCHANGED <<netVars, registry, relay_tx, queue, taskVars>>

(* The write fails: the result is dropped, a new lease in it at once, but  *)
(* a WebTransport session's lease goes with the runner.                    *)
ReplyFails(s) ==
  /\ pc[s] = "replying"
  /\ End(s)
  /\ DropLease(pending[s])
  /\ pending' = [pending EXCEPT ![s] = {}]
  /\ answer' = [answer EXCEPT ![s] = {}]
  /\ request' = [request EXCEPT ![s] = {}]
  /\ UNCHANGED <<registry, relay_tx, lease, wire, taskVars>>
-----------------------------------------------------------------------------
(* Datagrams of the client: handle_datagram() and BindHandler::send().     *)

Relayed(s, frame) == /\ Len(queue[s]) < MaxQueue
                     /\ queue' = [queue EXCEPT ![s] = Append(@, frame)]

(* To an address of the private network: deliver().  What has nowhere to   *)
(* go, or goes to a client on its way out, is dropped.                     *)
SendToNetwork(s, to) ==
  /\ pc[s] = "open"
  /\ \E h \in lease[s] :
       IF to \in DOMAIN routes /\ RelayOpen(routes[to])
       THEN Relayed(routes[to], [from |-> h.key, to |-> to])
       ELSE UNCHANGED queue
  /\ UNCHANGED <<netVars, registry, pc, commandVars, taskVars>>

(* To the internet, through the translation task; if that is not there    *)
(* any more the session fails.                                             *)
SendToInternet(s, family) ==
  /\ pc[s] = "open"
  /\ lease[s] # {}
  /\ IF bound[s] # {}
     THEN /\ Len(egress[s]) < MaxQueue
          /\ egress' = [egress EXCEPT ![s] = Append(@, family)]
          /\ UNCHANGED <<pc, queue>>
     ELSE End(s) /\ UNCHANGED egress
  /\ UNCHANGED <<netVars, registry, commandVars, bound, sockets>>

(* Relays while the response to BIND is still being written.               *)
WriteFrameEarly(s) ==
  /\ RelayOpen(s)
  /\ queue[s] # <<>>
  /\ queue' = [queue EXCEPT ![s] = Tail(@)]
  /\ wire' = [wire EXCEPT ![s] = "frame"]
  /\ UNCHANGED <<netVars, registry, pc, relay_tx, request, answer, pending,
                 lease, taskVars>>

(* The relay branch of the select loop.                                    *)
WriteFrame(s) ==
  /\ pc[s] = "open"
  /\ queue[s] # <<>>
  /\ queue' = [queue EXCEPT ![s] = Tail(@)]
  /\ wire' = [wire EXCEPT ![s] = "frame"]
  /\ UNCHANGED <<netVars, registry, pc, relay_tx, request, answer, pending,
                 lease, taskVars>>

-----------------------------------------------------------------------------
(* translate(): the task of one bound port.                                *)

(* A datagram goes out, through a socket opened for the first of its       *)
(* family; when the socket cannot be opened the datagram is dropped.       *)
TaskSend(s) ==
  /\ bound[s] # {}
  /\ egress[s] # <<>>
  /\ egress' = [egress EXCEPT ![s] = Tail(@)]
  /\ sockets' \in {sockets, [sockets EXCEPT ![s] = @ \cup {Head(egress[s])}]}
  /\ UNCHANGED <<netVars, registry, pc, commandVars, queue, bound>>

StopTask(s) == /\ bound' = [bound EXCEPT ![s] = {}]
               /\ egress' = [egress EXCEPT ![s] = <<>>]
               /\ sockets' = [sockets EXCEPT ![s] = {}]

(* Takes an empty channel for a closed one.                                *)
TaskStopsWhenIdle(s) ==
  /\ bound[s] # {}
  /\ egress[s] = <<>>
  /\ StopTask(s)
  /\ UNCHANGED <<netVars, registry, pc, commandVars, queue>>

(* The channel is empty and its sender went with the lease.                *)
TaskStops(s) ==
  /\ bound[s] # {}
  /\ egress[s] = <<>>
  /\ lease[s] \cup pending[s] = {}
  /\ StopTask(s)
  /\ UNCHANGED <<netVars, registry, pc, commandVars, queue>>

(* relay_reply(): a datagram from the internet for the client, or the end  *)
(* of the task when the client is gone, whatever is still to be sent.      *)
TaskReply(s, family) ==
  /\ family \in sockets[s]
  /\ \E k \in bound[s] :
       IF RelayOpen(s)
       THEN Relayed(s, [from |-> family, to |-> k]) /\ UNCHANGED taskVars
       ELSE StopTask(s) /\ UNCHANGED queue
  /\ UNCHANGED <<netVars, registry, pc, commandVars>>

Tick == /\ Net!Tick
        /\ UNCHANGED <<registry, pc, commandVars, queue, taskVars>>

SessionStep(s) ==
  \/ Accept(s) \/ AcceptRequest(s) \/ HandshakeOk(s) \/ HandshakeFails(s) \/ Leave(s)
  \/ Remove(s) \/ Drop(s)
  \/ Ping(s) \/ NewAddr(s) \/ Reply(s) \/ ReplyFails(s)
  \/ \E p \in Passcode, n \in Port : BindOk(s, p, n) \/ BindFails(s, p, n)
  \/ \E to \in RouteKey : SendToNetwork(s, to)
  \/ \E f \in Family : SendToInternet(s, f)
  \/ WriteFrame(s)

TaskStep(s) ==
  \/ TaskSend(s) \/ TaskStops(s)
  \/ \E f \in Family : TaskReply(s, f)

Next == \/ \E s \in Session : SessionStep(s) \/ TaskStep(s)
        \/ Tick

Spec == Init /\ [][Next]_vars

(* A session that is over gets the service's Mutex in its turn and drops   *)
(* what it holds, and a translation task that has something to do does it: *)
(* these wait for no client.  Nothing else is assumed: a client may never  *)
(* send, never read, never leave.                                          *)
Fairness == \A s \in Session :
              /\ WF_vars(Remove(s))
              /\ WF_vars(Drop(s))
              /\ WF_vars(TaskSend(s))
              /\ WF_vars(TaskStops(s))

FairSpec == Spec /\ Fairness

-----------------------------------------------------------------------------
(* The BindHandlers alive are the leases of the sessions, one each: no     *)
(* failure between granting a port and answering for it leaves the port    *)
(* bound with nobody to give it up, and no session loses one it holds.     *)
LeasesAreHandlers ==
  /\ \A h \in handlers : h \in lease[h.relay] \cup pending[h.relay]
  /\ \A s \in Session : lease[s] \cup pending[s] \subseteq handlers
  /\ \A s \in Session : pc[s] \in {"idle", "gone"} => lease[s] \cup pending[s] = {}

(* Whoever has been granted a port is the one its traffic goes to, from    *)
(* the grant to the drop, whoever else asks for the port or had it before. *)
LeaseIsRouted ==
  \A s \in Session : \A h \in lease[s] \cup pending[s] :
    h.key \in DOMAIN routes /\ routes[h.key] = s

(* The registry holds exactly the sessions between new_client() and        *)
(* remove_client(), under ids of their own: "Integrity error" never comes. *)
SessionsRegistered ==
  LET registered == {s \in Session : pc[s] \in Phase \ {"idle", "removed", "gone"}}
  IN  /\ clients = {id[s] : s \in registered}
      /\ \A s, t \in Session : id[s] = id[t] => s = t \/ id[s] = 0

(* While a session may send through its lease, the translation task of     *)
(* that very port is there to take it, so a datagram to the internet never *)
(* costs a client its connection.                                          *)
LinkHasItsTask ==
  \A s \in Session : pc[s] = "open" => bound[s] = {h.key : h \in lease[s]}

(* A session without a lease still has its relay to give: after any number *)
(* of refused BINDs it can try again, as commands.rs says.                 *)
RelayKeptForRetry ==
  \A s \in Session : pc[s] = "open" /\ lease[s] = {} => relay_tx[s]

(* Whatever is on a session's relay was for the port it holds: nothing     *)
(* addressed to another port, to an earlier holder of the port or, once    *)
(* the port is given up, to anyone.                                        *)
OnlyOwnTraffic ==
  \A s \in Session : \A i \in 1 .. Len(queue[s]) :
    queue[s][i].to \in {h.key : h \in lease[s] \cup pending[s]}

(* A client reads BIND OK before the first frame of the port it bound,     *)
(* although others can send to the port as soon as bind() returns.         *)
BindOkComesFirst ==
  [][\A s \in Session :
       wire'[s] = "frame" => wire[s] \in {"BIND OK", "frame"}]_vars

(* A session that ends gives back its port and loses its translation task, *)
(* even if there is still something for the task to send.                  *)
EndedReleases ==
  \A s \in Session :
    pc[s] = "ended" ~> (pc[s] = "gone" /\ bound[s] = {}
                         /\ \A h \in handlers : h.relay # s)

(* What network.rs and commands.rs say of a refused BIND: that is how a    *)
(* client finds out that its assignment is gone.  A refusal is also right  *)
(* for port 0, and for a port that a connection still alive holds.         *)
RefusalMeansAssignmentGone ==
  [][\A s \in Session :
       pc[s] = "open" /\ pc'[s] = "replying" /\ answer'[s] = {"BIND FAILED"} =>
         \A b \in request'[s] :
           \/ b[2] = 0
           \/ b[1] \notin DOMAIN by_passcode
           \/ \E h \in handlers :
                /\ h.key = <<by_passcode[b[1]], b[2]>>
                /\ RelayOpen(h.relay)]_vars
=============================================================================
