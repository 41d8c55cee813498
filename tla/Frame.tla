------------------------------- MODULE Frame -------------------------------
(***************************************************************************)
(* One datagram on a bound link, net/packet.rs, and the addresses of       *)
(* net/code.rs, as sequences of bytes.  The widths are constants: the code *)
(* has bytes of base 256, addresses of 16 of them, IPv4-mapped addresses   *)
(* behind 12, private ones behind 2, and 8 random bytes in those.          *)
(*                                                                         *)
(* An Option or a Result is a set of at most one element.                  *)
(***************************************************************************)
EXTENDS Integers, Sequences

CONSTANTS
  Base,         \* a byte is less than this
  Magic,        \* MAGIC, its bytes
  AddressLen,   \* length of an IPv6 address
  Mapped,       \* what an IPv4-mapped address begins with, ::ffff:0:0/96
  Prefix,       \* what an address of the network begins with, PREFIX
  LowLen,       \* length of the random part of an address
  Reserved      \* RESERVED

Byte == 0 .. Base - 1
Ipv6 == [1 .. AddressLen -> Byte]
Ipv4 == [1 .. AddressLen - Len(Mapped) -> Byte]
U16  == 0 .. Base * Base - 1

ASSUME FrameAssumption ==
  /\ Base \in Nat \ {0, 1} /\ AddressLen \in Nat /\ Reserved \in Nat \ {0, 1}
  /\ Magic \in Seq(Byte)
  /\ Mapped \in Seq(Byte) /\ Len(Mapped) \in 1 .. AddressLen - 1
  /\ Prefix \in Seq(Byte) /\ Len(Prefix) \in 1 .. Len(Mapped)
  /\ SubSeq(Mapped, 1, Len(Prefix)) # Prefix
  /\ LowLen \in 0 .. AddressLen - Len(Prefix)

HeaderLen == Len(Magic) + AddressLen + 2 + 2    \* HEADER_LEN

Frame == [peer_ip : Ipv6, peer_port : U16, data : Seq(Byte)]

SocketAddr == [ip : Ipv4 \cup Ipv6, port : U16]

-----------------------------------------------------------------------------
(* Some definitions are preceded by a variant of them with a mistake in    *)
(* it: the properties are tried on these as well.                          *)

Is4(ip) == Len(ip) = AddressLen - Len(Mapped)

IsMapped(ip) == SubSeq(ip, 1, Len(Mapped)) = Mapped

(* The IPv4-compatible address, ::1.2.3.4.                                 *)
ToIpv6Compatible(ip) == IF Is4(ip) THEN [i \in 1 .. Len(Mapped) |-> 0] \o ip ELSE ip

(* to_peer() and peer(): IPv4 inside the address field and outside of it.  *)
ToIpv6(ip) == IF Is4(ip) THEN Mapped \o ip ELSE ip

FromIpv6(ip) == IF IsMapped(ip) THEN SubSeq(ip, Len(Mapped) + 1, AddressLen) ELSE ip

ToPeer(peer, data) ==
  [peer_ip |-> ToIpv6(peer.ip), peer_port |-> peer.port, data |-> data]

Peer(frame) == [ip |-> FromIpv6(frame.peer_ip), port |-> frame.peer_port]

(* Big endian.  Without the mask the low byte keeps the high one's part.   *)
PutU16Unmasked(n) == <<n \div Base, n>>
PutU16(n)         == <<n \div Base, n % Base>>

GetU16(bytes, i) == bytes[i] * Base + bytes[i + 1]

(* A payload whose length does not fit its field is an error.              *)
Encode(frame) ==
  IF Len(frame.data) \notin U16
  THEN {}
  ELSE {Magic \o frame.peer_ip \o PutU16(frame.peer_port)
          \o PutU16(Len(frame.data)) \o frame.data}

PortAt == Len(Magic) + AddressLen + 1

Decoded(raw) ==
  [peer_ip   |-> SubSeq(raw, Len(Magic) + 1, Len(Magic) + AddressLen),
   peer_port |-> GetU16(raw, PortAt),
   data      |-> SubSeq(raw, HeaderLen + 1, Len(raw))]

(* Takes a message that is longer than it says.                            *)
DecodeLonger(raw) ==
  IF /\ Len(raw) >= HeaderLen
     /\ SubSeq(raw, 1, Len(Magic)) = Magic
     /\ Len(raw) - HeaderLen >= GetU16(raw, PortAt + 2)
  THEN {Decoded(raw)}
  ELSE {}

Decode(raw) ==
  IF /\ Len(raw) >= HeaderLen
     /\ SubSeq(raw, 1, Len(Magic)) = Magic
     /\ Len(raw) - HeaderLen = GetU16(raw, PortAt + 2)
  THEN {Decoded(raw)}
  ELSE {}

-----------------------------------------------------------------------------
(* code.rs: the addresses of the private network.                          *)

IsNetworkAddress(ip) == SubSeq(ip, 1, Len(Prefix)) = Prefix

NetworkAddress(low) ==
  Prefix \o [i \in 1 .. AddressLen - Len(Prefix) - LowLen |-> 0] \o low

Low == [1 .. LowLen -> Byte]

(* The number that such bytes are, big endian.                             *)
LowValue(low) ==
  LET Value[n \in 0 .. LowLen] == IF n = 0 THEN 0 ELSE Value[n - 1] * Base + low[n]
  IN  Value[LowLen]

PROXY_ADDRESS == NetworkAddress([i \in 1 .. LowLen |-> IF i = LowLen THEN 1 ELSE 0])

(* What random_address() may return.                                       *)
RandomAddress == {NetworkAddress(low) : low \in {l \in Low : LowValue(l) >= Reserved}}
=============================================================================
