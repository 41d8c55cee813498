------------------------------ MODULE Connect ------------------------------
(***************************************************************************)
(* One WebSocket session that uses the CONNECT proxy: websocket/client.rs, *)
(* the PROXY command of service/commands.rs and the task and lease of      *)
(* service/connectproxy.rs.                                                *)
(*                                                                         *)
(*    client  <->  session  --- transmit -->  task  <->  remote (TCP)      *)
(*                          <--  relay  ----                               *)
(*                                                                         *)
(* Two unbounded channels join the session and the task, and each of the   *)
(* two learns that the other is gone from its channel only.  The bytes of  *)
(* the client are numbered from 1, the first Header of them the CONNECT    *)
(* header; those of the remote are numbered from 1 as well.                *)
(***************************************************************************)
EXTENDS Integers, SequencesExt

CONSTANTS
  Header,        \* bytes in the header, its \r\n\r\n being the last
  ClientBytes,   \* bound on what the client sends, the header included
  RemoteBytes    \* bound on what the remote sends

ASSUME ConnectAssumption == /\ Header \in Nat \ {0}
                            /\ ClientBytes \in Nat
                            /\ RemoteBytes \in Nat

VARIABLES
  session,    \* where the task of the session is
  relay_tx,   \* does the session still hold its relay_tx?
  task,       \* where the task of the CONNECT proxy is
  sent,       \* number of bytes the client has sent
  transmit,   \* the channel of the lease: chunks of client bytes
  buffer,     \* what the task is holding: a header, or a chunk to write
  delivered,  \* what the remote's TCP has taken
  arrived,    \* number of bytes the remote has sent
  inbound,    \* those not read by the task yet
  fin,        \* has the remote closed its side?
  relay,      \* the relay channel
  got,        \* what was written to the client
  done        \* was the client sent the close frame "Done"?

clientVars  == <<sent, got, done>>
remoteVars  == <<delivered, arrived, inbound, fin>>
channelVars == <<transmit, relay>>
vars == <<session, relay_tx, task, buffer, clientVars, remoteVars, channelVars>>

(* A message on the relay is the sequence of its bytes.                    *)
Success == <<0>>     \* the reply 200 Connection Established
WakeUp  == <<>>
Message == {Success, WakeUp} \cup {<<n>> : n \in 1 .. RemoteBytes}

TypeOK ==
  /\ session \in {"command", "replying", "open", "ended", "gone"}
  /\ relay_tx \in BOOLEAN
  /\ task \in {"none", "header", "connecting", "remainder", "relaying",
               "writing", "failed", "done"}
  /\ sent \in 0 .. ClientBytes /\ arrived \in 0 .. RemoteBytes
  /\ transmit \in Seq(Seq(1 .. ClientBytes))
  /\ buffer \in Seq(1 .. ClientBytes) /\ delivered \in Seq(1 .. ClientBytes)
  /\ inbound \in Seq(1 .. RemoteBytes)
  /\ relay \in Seq(Message) /\ got \in Seq(Message)
  /\ fin \in BOOLEAN /\ done \in BOOLEAN

Init == /\ session = "command"
        /\ relay_tx = TRUE
        /\ task = "none"
        /\ sent = 0 /\ transmit = <<>> /\ buffer = <<>> /\ delivered = <<>>
        /\ arrived = 0 /\ inbound = <<>> /\ fin = FALSE
        /\ relay = <<>> /\ got = <<>> /\ done = FALSE

(* Some definitions are preceded by a variant of them with a mistake in    *)
(* it: the properties are tried on these as well.                          *)

(* The receiver of transmit is dropped as soon as run() returns.           *)
Live == task \notin {"none", "failed", "done"}

(* relay_rx goes with run_client(), and the lease with the session's task. *)
RelayOpen == session \in {"command", "replying", "open"}
EndSession == session' = "ended" /\ relay' = <<>>

-----------------------------------------------------------------------------
(* The session.                                                            *)

(* PROXY to the CONNECT proxy takes the relay and starts its task; ...     *)
Proxy == /\ session = "command" /\ relay_tx
         /\ session' = "replying"
         /\ relay_tx' = FALSE
         /\ task' = "header"
         /\ UNCHANGED <<buffer, clientVars, remoteVars, channelVars>>

(* ... to anywhere but the proxy's services it ends the session.           *)
ProxyRefused == /\ session = "command"
                /\ EndSession
                /\ relay_tx' = FALSE
                /\ UNCHANGED <<task, buffer, clientVars, remoteVars, transmit>>

Reply == /\ session = "replying"
         /\ session' = "open"
         /\ UNCHANGED <<relay_tx, task, buffer, clientVars, remoteVars, channelVars>>

(* The response cannot be written: the new lease is dropped with it.       *)
ReplyFails == /\ session = "replying"
              /\ session' = "gone" /\ relay' = <<>>
              /\ UNCHANGED <<relay_tx, task, buffer, clientVars, remoteVars, transmit>>

(* A binary message of k bytes: the lease takes it, or the session ends.   *)
ClientSends(k) ==
  /\ session = "open"
  /\ sent + k <= ClientBytes
  /\ sent' = sent + k
  /\ IF Live
     THEN /\ transmit' = Append(transmit, [i \in 1 .. k |-> sent + i])
          /\ UNCHANGED <<session, relay>>
     ELSE EndSession /\ UNCHANGED transmit
  /\ UNCHANGED <<relay_tx, task, buffer, got, done, remoteVars>>

(* A close frame, an error, a command out of time, a write that fails.     *)
ClientLeaves == /\ session \in {"command", "open"}
                /\ EndSession
                /\ UNCHANGED <<relay_tx, task, buffer, clientVars, remoteVars, transmit>>

CloseDone == EndSession /\ done' = TRUE

(* Looks at the lease whatever the message.                                *)
SessionLooksAtLease ==
  /\ session = "open" /\ relay # <<>>
  /\ IF ~Live
     THEN CloseDone /\ UNCHANGED got
     ELSE /\ got' = Append(got, Head(relay))
          /\ relay' = Tail(relay)
          /\ UNCHANGED <<session, done>>
  /\ UNCHANGED <<relay_tx, task, buffer, sent, remoteVars, transmit>>

(* The relay branch of the select loop: a wake-up ends the session if it   *)
(* finds the lease dead, and is data like any other if it does not.        *)
SessionRelays ==
  /\ session = "open" /\ relay # <<>>
  /\ IF Len(Head(relay)) = 0 /\ ~Live
     THEN CloseDone /\ UNCHANGED got
     ELSE /\ got' = Append(got, Head(relay))
          /\ relay' = Tail(relay)
          /\ UNCHANGED <<session, done>>
  /\ UNCHANGED <<relay_tx, task, buffer, sent, remoteVars, transmit>>

(* The channel is empty and the task, its only sender, is over.            *)
SessionSeesRelayClosed ==
  /\ session = "open" /\ relay = <<>> /\ task = "done"
  /\ CloseDone
  /\ UNCHANGED <<relay_tx, task, buffer, sent, got, remoteVars, transmit>>

(* remove_client(), after which the runner is dropped, its lease with it.  *)
SessionDrops ==
  /\ session = "ended"
  /\ session' = "gone"
  /\ UNCHANGED <<relay_tx, task, buffer, clientVars, remoteVars, channelVars>>

-----------------------------------------------------------------------------
(* The task: run() and the end of into_lease().                            *)

(* Relays more of the read buffer than was read.                           *)
RelayTooMuch(m) == IF RelayOpen
                   THEN relay' = Append(relay, m \o <<0>>) ELSE UNCHANGED relay

Relay(m) == IF RelayOpen
            THEN relay' = Append(relay, m) ELSE UNCHANGED relay

(* A send on the relay that fails ends run() with an error.                *)
RelayThen(m, next) == /\ Relay(m)
                      /\ task' = IF RelayOpen THEN next ELSE "failed"

(* Off by one.                                                             *)
RemainderAndOne(buf) == SubSeq(buf, Header, Len(buf))

(* What the client sent beyond the header.                                 *)
Remainder(buf) == SubSeq(buf, Header + 1, Len(buf))

(* Bytes of the header are put together until all of it is there.          *)
TaskTakesHeader ==
  /\ task = "header" /\ transmit # <<>>
  /\ LET buf == buffer \o Head(transmit)
     IN  IF Header \in Range(buf)
         THEN \/ /\ task' = "connecting"       \* the remainder is kept
                 /\ buffer' = Remainder(buf)
              \/ /\ task' = "failed"           \* no CONNECT, or not allowed
                 /\ buffer' = <<>>
         ELSE buffer' = buf /\ UNCHANGED task
  /\ transmit' = Tail(transmit)
  /\ UNCHANGED <<session, relay_tx, clientVars, remoteVars, relay>>

(* TcpStream::connect(), and once the remainder is written the success     *)
(* reply and the first read.                                               *)
TaskConnects ==
  /\ task = "connecting"
  /\ IF buffer = <<>> THEN RelayThen(Success, "relaying")
                      ELSE task' = "remainder" /\ UNCHANGED relay
  /\ UNCHANGED <<session, relay_tx, buffer, clientVars, remoteVars, transmit>>

TaskTakesChunk ==
  /\ task = "relaying" /\ transmit # <<>>
  /\ task' = "writing"
  /\ buffer' = Head(transmit)
  /\ transmit' = Tail(transmit)
  /\ UNCHANGED <<session, relay_tx, clientVars, remoteVars, relay>>

(* write_all() makes progress as the remote takes it, and nothing else is  *)
(* done until it has finished.                                             *)
TaskWrites ==
  /\ task \in {"remainder", "writing"}
  /\ delivered' = Append(delivered, Head(buffer))
  /\ buffer' = Tail(buffer)
  /\ \/ Len(buffer) > 1 /\ UNCHANGED <<task, relay>>
     \/ Len(buffer) = 1 /\ task = "remainder" /\ RelayThen(Success, "relaying")
     \/ Len(buffer) = 1 /\ task = "writing" /\ task' = "relaying" /\ UNCHANGED relay
  /\ UNCHANGED <<session, relay_tx, clientVars, arrived, inbound, fin, transmit>>

TaskReads ==
  /\ task = "relaying" /\ inbound # <<>>
  /\ inbound' = Tail(inbound)
  /\ RelayThen(<<Head(inbound)>>, "relaying")
  /\ UNCHANGED <<session, relay_tx, buffer, clientVars, delivered, arrived, fin, transmit>>

(* Reads again.                                                            *)
TaskReadsOn == /\ task = "relaying" /\ inbound = <<>> /\ fin
               /\ UNCHANGED vars

(* Read of 0 bytes: run() returns Ok and the relay is dropped.             *)
TaskReadsEnd ==
  /\ task = "relaying" /\ inbound = <<>> /\ fin
  /\ task' = "done"
  /\ UNCHANGED <<session, relay_tx, buffer, clientVars, remoteVars, channelVars>>

(* The connect, a write or a read fails.                                   *)
TaskSocketFails ==
  /\ task \in {"connecting", "remainder", "relaying", "writing"}
  /\ task' = "failed"
  /\ UNCHANGED <<session, relay_tx, buffer, clientVars, remoteVars, channelVars>>

(* Sees it only once it is connected.                                      *)
TaskSeesClientGoneLate ==
  /\ task = "relaying" /\ transmit = <<>> /\ session = "gone"
  /\ task' = "failed"
  /\ UNCHANGED <<session, relay_tx, buffer, clientVars, remoteVars, channelVars>>

(* recv() returns None: the lease was dropped, and all it sent is taken.   *)
TaskSeesClientGone ==
  /\ task \in {"header", "relaying"} /\ transmit = <<>> /\ session = "gone"
  /\ task' = "failed"
  /\ UNCHANGED <<session, relay_tx, buffer, clientVars, remoteVars, channelVars>>

(* run() has returned an error and dropped its receiver: the session is    *)
(* woken up, then the relay is dropped.                                    *)
TaskWakesSession ==
  /\ task = "failed"
  /\ Relay(WakeUp)
  /\ task' = "done"
  /\ UNCHANGED <<session, relay_tx, buffer, clientVars, remoteVars, transmit>>

-----------------------------------------------------------------------------
(* The remote.                                                             *)
Connected == task \in {"remainder", "relaying", "writing"}

RemoteSends == /\ Connected /\ ~fin /\ arrived < RemoteBytes
               /\ arrived' = arrived + 1
               /\ inbound' = Append(inbound, arrived + 1)
               /\ UNCHANGED <<session, relay_tx, task, buffer, clientVars,
                              delivered, fin, channelVars>>

RemoteCloses == /\ Connected /\ ~fin
                /\ fin' = TRUE
                /\ UNCHANGED <<session, relay_tx, task, buffer, clientVars,
                               delivered, arrived, inbound, channelVars>>

SessionNext == \/ Proxy \/ ProxyRefused \/ Reply \/ ReplyFails
               \/ \E k \in 1 .. ClientBytes : ClientSends(k)
               \/ ClientLeaves \/ SessionRelays \/ SessionSeesRelayClosed
               \/ SessionDrops

TaskNext == \/ TaskTakesHeader \/ TaskConnects \/ TaskTakesChunk \/ TaskWrites
            \/ TaskReads \/ TaskReadsEnd \/ TaskSocketFails
            \/ TaskSeesClientGone \/ TaskWakesSession

Next == SessionNext \/ TaskNext \/ RemoteSends \/ RemoteCloses

Spec == Init /\ [][Next]_vars

(* What waits for nobody outside: a session that is over drops its lease,  *)
(* the task takes what its channel holds, a connect succeeds or fails, a   *)
(* read that has something returns it.  A write waits for the remote.      *)
TaskFairness == /\ WF_vars(SessionDrops)
                /\ WF_vars(TaskTakesHeader)
                /\ WF_vars(TaskTakesChunk)
                /\ WF_vars(TaskConnects \/ (task = "connecting" /\ TaskSocketFails))
                /\ WF_vars(TaskReads)
                /\ WF_vars(TaskReadsEnd)
                /\ WF_vars(TaskSeesClientGone)
                /\ WF_vars(TaskWakesSession)

(* A client that reads lets its session write.                             *)
ClientReads == WF_vars(SessionRelays) /\ WF_vars(SessionSeesRelayClosed)

FairSpec == Spec /\ TaskFairness /\ ClientReads

-----------------------------------------------------------------------------
(* A client that is told "Done" has been given every byte the task read    *)
(* from the remote, however the task ended.                                *)
DoneMeansAllRead ==
  done => Cardinality({i \in 1 .. Len(got) : got[i] \notin {Success, WakeUp}})
            = arrived - Len(inbound)

(* The link as its two ends see it, see Pipe.                              *)
Link == INSTANCE Pipe WITH
  up       <- IF ~RelayOpen THEN "over" ELSE IF got = <<>> THEN "new" ELSE "open",
  given    <- IF sent <= Header THEN 0 ELSE sent - Header,
  taken    <- [i \in DOMAIN delivered |-> delivered[i] - Header],
  offered  <- arrived,
  returned <- got

(* Seen from its ends, the link with its channels, its task and all that   *)
(* can fail in it is the simple pipe.  So the remote reads what followed   *)
(* the header, wherever the chunks were cut and whether it came before the *)
(* connection or after; and the client reads no empty message: the wake-up *)
(* is sent after the receiver is dropped, so it always finds a dead lease. *)
ImplementsPipe == Link!Spec

(* The task is inside write_all().                                         *)
Writing == task \in {"remainder", "writing"}

(* Once the session is over its task stops and lets the remote go, unless  *)
(* it waits forever for a remote that does not take what is written.       *)
SessionOverStopsTask ==
  session = "gone" ~> (task \in {"none", "done"} \/ []Writing)

(* Once the remote has closed, a client that reads is told so, with the    *)
(* same exception.                                                         *)
RemoteCloseReachesClient ==
  (fin /\ session = "open") ~> (session # "open" \/ []Writing)

(* What connectproxy.rs says of the remote closing the connection: what is *)
(* already relayed stays queued for the client.  So a client that sends    *)
(* something more, not knowing, does not lose it.                          *)
AlreadyRelayedStaysQueued ==
  [][task = "done" /\ fin /\ inbound = <<>> /\ sent' # sent => relay' = relay]_vars
=============================================================================
