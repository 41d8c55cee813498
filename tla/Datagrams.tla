----------------------------- MODULE Datagrams -----------------------------
(***************************************************************************)
(* What becomes of the bytes of a datagram: BindHandler::send(), deliver() *)
(* and relay_reply() of net/network.rs over the frames of packet.rs.       *)
(*                                                                         *)
(* A client sends one message, any bytes at all.  Whoever gets a datagram  *)
(* out of it, another client or somebody on the internet, sends the same   *)
(* payload back to where it came from.  Sessions, routes and tasks as such *)
(* are in Links; here every client has its port and nobody leaves.         *)
(***************************************************************************)
EXTENDS Frame, FiniteSets

CONSTANTS
  Client,       \* the clients with a bound port
  BoundPort,    \* the ports they may have bound
  MaxDatagram,  \* MAX_DATAGRAM
  MaxRaw        \* bound on the length of the message

ASSUME DatagramsAssumption == /\ BoundPort \subseteq U16 \ {0}
                              /\ MaxDatagram \in U16
                              /\ MaxRaw \in Nat

VARIABLES
  key,      \* client -> the address and port it has bound
  asker,    \* the client that has sent the message, {} before
  raw,      \* the message
  failed,   \* the clients whose session ended with an error
  relay,    \* client -> the messages on its relay channel
  egress    \* client -> what its translation task has to send

vars == <<key, asker, raw, failed, relay, egress>>

RouteKey == RandomAddress \X BoundPort

TypeOK ==
  /\ key \in [Client -> RouteKey]
  /\ asker \subseteq Client /\ Cardinality(asker) <= 1
  /\ raw \in Seq(Byte) /\ failed \subseteq Client
  /\ \A c \in Client :
       /\ relay[c] \in Seq(Seq(Byte))
       /\ \A i \in 1 .. Len(egress[c]) :
            egress[c][i].peer \in SocketAddr /\ egress[c][i].data \in Seq(Byte)

Init == /\ key \in [Client -> RouteKey]
        /\ \A c, d \in Client : key[c] = key[d] => c = d
        /\ asker = {} /\ raw = <<>> /\ failed = {}
        /\ relay = [c \in Client |-> <<>>]
        /\ egress = [c \in Client |-> <<>>]

(* The relays after what can be encoded was sent to those in `to`.         *)
Relayed(inbox, to, out) ==
  [d \in Client |-> IF d \in to /\ out # {}
                    THEN Append(inbox[d], CHOOSE bytes \in out : TRUE)
                    ELSE inbox[d]]

(* deliver(): a new header, with the key of the sender.  The payload fits  *)
(* or it is an error of the sender's; nobody at that key, and it is gone.  *)
Deliver(c, to, data, inbox) ==
  LET out == Encode([peer_ip |-> key[c][1], peer_port |-> key[c][2], data |-> data])
  IN  /\ failed' = IF out = {} THEN failed \cup {c} ELSE failed
      /\ relay' = Relayed(inbox, {d \in Client : key[d] = to}, out)
      /\ UNCHANGED egress

(* Only addresses in use are taken for those of the network.               *)
StaysInsideIfRouted(ip) == ~Is4(ip) /\ \E d \in Client : key[d][1] = ip

StaysInside(ip) == ~Is4(ip) /\ IsNetworkAddress(ip)

(* BindHandler::send(); inbox is the relays as it finds them.              *)
Send(c, bytes, inbox) ==
  \/ /\ Decode(bytes) = {}
     /\ failed' = failed \cup {c} /\ relay' = inbox
     /\ UNCHANGED egress
  \/ \E frame \in Decode(bytes) :
       LET peer == Peer(frame)
       IN  \/ /\ StaysInside(peer.ip)
              /\ Deliver(c, <<peer.ip, peer.port>>, frame.data, inbox)
           \/ /\ ~StaysInside(peer.ip)
              /\ egress' = [egress EXCEPT ![c] =
                   Append(@, [peer |-> peer, data |-> frame.data])]
              /\ relay' = inbox
              /\ UNCHANGED failed

ClientSends(c) ==
  /\ asker = {} /\ asker' = {c}
  /\ \E n \in 0 .. MaxRaw : \E bytes \in [1 .. n -> Byte] :
       raw' = bytes /\ Send(c, bytes, relay)
  /\ UNCHANGED key

(* A client answers a message of another's: the bytes it has received are  *)
(* already addressed to where they came from.                              *)
ClientEchoes(c) ==
  /\ relay[c] # <<>> /\ c \notin asker
  /\ Send(c, Head(relay[c]), [relay EXCEPT ![c] = Tail(@)])
  /\ UNCHANGED <<key, asker, raw>>

(* A read from a socket: what does not fit the buffer is cut off.          *)
Received(data) ==
  SubSeq(data, 1, IF Len(data) < MaxDatagram THEN Len(data) ELSE MaxDatagram)

(* relay_reply(), when a peer on the internet sends a payload back.  What  *)
(* does not fit a frame would be dropped.                                  *)
InternetEchoes(c) ==
  /\ egress[c] # <<>>
  /\ LET datagram == Head(egress[c])
     IN  relay' = Relayed(relay, {c}, Encode(ToPeer(datagram.peer, Received(datagram.data))))
  /\ egress' = [egress EXCEPT ![c] = Tail(@)]
  /\ UNCHANGED <<key, asker, raw, failed>>

Next == \E c \in Client : ClientSends(c) \/ ClientEchoes(c) \/ InternetEchoes(c)

Spec == Init /\ [][Next]_vars

-----------------------------------------------------------------------------
Frames == [peer_ip : Ipv6, peer_port : U16,
           data : UNION {[1 .. n -> Byte] : n \in 0 .. MaxRaw - HeaderLen}]
Encodings == {CHOOSE bytes \in Encode(frame) : TRUE :
                frame \in {f \in Frames : Encode(f) # {}}}

(* A session accepts exactly the bytes that are the encoding of a frame,   *)
(* to the last byte; and what another client was given by the proxy it may *)
(* hand back to the proxy as it is.                                        *)
OnlyFramesAreAccepted ==
  /\ failed \subseteq asker
  /\ asker # {} => (failed = {} <=> raw \in Encodings)

(* Over all the headers it is given on the way, a datagram that is sent    *)
(* back comes back to the client that sent it, and from the very address   *)
(* it was sent to: the client reads the bytes it wrote.  Only what is sent *)
(* from the internet and larger than MAX_DATAGRAM is not whole.            *)
EchoIsIdentity ==
  \A c \in asker : \A i \in 1 .. Len(relay[c]) :
    relay[c][i] # raw =>
      \E frame \in Decode(raw) : ~StaysInside(Peer(frame).ip) /\ Len(frame.data) > MaxDatagram

(* The private network is closed: nothing addressed to it goes out through *)
(* a socket, and none is given an IPv4-mapped address.  The proxy's own    *)
(* address in it is nobody's, whatever addresses are in use: a datagram    *)
(* sent to it reaches no client.                                           *)
NetworkIsClosed ==
  /\ \A c \in Client : \A i \in 1 .. Len(egress[c]) :
       LET ip == egress[c][i].peer.ip
       IN  Is4(ip) \/ (~IsNetworkAddress(ip) /\ ~IsMapped(ip))
  /\ \A frame \in Decode(raw) : frame.peer_ip = PROXY_ADDRESS =>
       \A c \in Client : relay[c] = <<>> /\ egress[c] = <<>>
=============================================================================
