--------------------------- MODULE ConnectProofs ---------------------------
(***************************************************************************)
(* Proofs about the CONNECT proxy, for a header of any length and any      *)
(* number of bytes in both directions, cut into chunks in any way.         *)
(*                                                                         *)
(* IInv follows the bytes of each direction through the channels: what was *)
(* delivered, what the task holds and what is on transmit are the bytes    *)
(* the client has sent, one after the other, and what was written to the   *)
(* client and what is on the relay are the reply and the bytes the task    *)
(* has read, with nothing missing between them.                            *)
(***************************************************************************)
EXTENDS Connect, FiniteSetTheorems, SequenceTheorems, TLAPS

-----------------------------------------------------------------------------
(* The client's bytes.                                                     *)

(* The bytes from m + 1 to n, cut into chunks: f says where.               *)
CutAt(chunks, f) ==
  \A i \in 1 .. Len(chunks) : /\ f[i] < f[i + 1]
                              /\ Len(chunks[i]) = f[i + 1] - f[i]
                              /\ \A j \in 1 .. Len(chunks[i]) : chunks[i][j] = f[i] + j

Chunks(chunks, m, n) ==
  \E f \in [1 .. Len(chunks) + 1 -> 0 .. n] :
    f[1] = m /\ f[Len(chunks) + 1] = n /\ CutAt(chunks, f)

(* How many bytes the task has taken from the channel.                     *)
Position == IF task = "header" THEN Len(buffer)
            ELSE Header + Len(delivered) + Len(buffer)

Upstream ==
  /\ \A i \in 1 .. Len(delivered) : delivered[i] = Header + i
  /\ delivered # <<>> => Header + Len(delivered) <= sent
  /\ task = "header" => Len(buffer) < Header
  /\ task \in {"none", "header", "connecting"} => delivered = <<>>
  /\ task \in {"none", "relaying"} => buffer = <<>>
  /\ task \in {"remainder", "writing"} => buffer # <<>>
  /\ Live => /\ \A i \in 1 .. Len(buffer) : buffer[i] = Position - Len(buffer) + i
             /\ Chunks(transmit, Position, sent)

-----------------------------------------------------------------------------
(* The remote's bytes.                                                     *)

(* What a client reads that reads everything.                              *)
Expected(i) == IF i = 1 THEN Success ELSE <<i - 1>>

(* How many of the remote's bytes the task has read.                       *)
Read == arrived - Len(inbound)

(* How much of the relay is for the client, the wake-up aside.             *)
Queued == IF relay # <<>> /\ relay[Len(relay)] = WakeUp
          THEN Len(relay) - 1 ELSE Len(relay)

(* n messages are all there is: the reply and the bytes read, or nothing.  *)
IsAll(n) == n = Read + 1 \/ (n = 0 /\ Read = 0)

Downstream ==
  /\ Len(inbound) <= arrived
  /\ \A i \in 1 .. Len(inbound) : inbound[i] = Read + i
  /\ \A i \in 1 .. Len(got) : got[i] = Expected(i)
  /\ Len(got) <= Read + 1
  /\ \A i \in 1 .. Len(relay) :
       \/ relay[i] = Expected(Len(got) + i)
       \/ relay[i] = WakeUp /\ i = Len(relay) /\ task = "done"
  /\ ~RelayOpen => relay = <<>>
  /\ task \in {"none", "header", "connecting", "remainder"} =>
       Read = 0 /\ got = <<>> /\ relay = <<>>
  /\ RelayOpen /\ task \in {"relaying", "writing"} => Len(got) + Len(relay) = Read + 1
  /\ RelayOpen /\ task \in {"failed", "done"} => IsAll(Len(got) + Queued)
  /\ done => ~RelayOpen /\ task \in {"failed", "done"} /\ IsAll(Len(got))

Sessions ==
  /\ session = "command" => task = "none"
  /\ session \in {"replying", "open"} => task # "none"
  /\ task = "none" => sent = 0 /\ transmit = <<>> /\ arrived = 0

IInv == TypeOK /\ Sessions /\ Upstream /\ Downstream

-----------------------------------------------------------------------------
(* What is on transmit, as a lemma for each thing that happens to it.      *)

LEMMA NoChunks ==
  ASSUME NEW m \in Nat, NEW n \in Nat
  PROVE  Chunks(<<>>, m, n) <=> m = n
<1>1. ASSUME Chunks(<<>>, m, n) PROVE m = n
  BY <1>1 DEF Chunks
<1>2. ASSUME m = n PROVE Chunks(<<>>, m, n)
  <2>. DEFINE f == [i \in 1 .. 1 |-> m]
  <2>1. f \in [1 .. Len(<<>>) + 1 -> 0 .. n] /\ f[1] = m /\ CutAt(<<>>, f)
    BY <1>2 DEF CutAt
  <2>. QED  BY <1>2, <2>1 DEF Chunks
<1>. QED  BY <1>1, <1>2

LEMMA ChunkTypes ==
  ASSUME NEW chunks \in Seq(Seq(1 .. ClientBytes))
  PROVE  /\ chunks \in Seq(Seq(Nat))
         /\ chunks # <<>> => /\ Head(chunks) \in Seq(1 .. ClientBytes)
                             /\ Tail(chunks) \in Seq(Seq(1 .. ClientBytes))
<1>1. 1 .. ClientBytes \subseteq Nat
  BY ConnectAssumption
<1>2. ASSUME NEW c \in Seq(1 .. ClientBytes) PROVE c \in Seq(Nat)
  BY <1>1, SeqMonotonic
<1>3. chunks \in Seq(Seq(Nat))
  <2>1. Len(chunks) \in Nat /\ DOMAIN chunks = 1 .. Len(chunks)
    OBVIOUS
  <2>2. \A i \in 1 .. Len(chunks) : chunks[i] \in Seq(Nat)
    BY <1>2
  <2>. QED  BY <2>1, <2>2, IsASeq
<1>. QED  BY <1>3

(* The client sends some bytes more.                                       *)
LEMMA OneMoreChunk ==
  ASSUME NEW chunks \in Seq(Seq(Nat)), NEW m \in Nat, NEW n \in Nat, Chunks(chunks, m, n),
         NEW k \in Nat \ {0}, NEW c \in Seq(Nat), Len(c) = k,
         \A j \in 1 .. k : c[j] = n + j
  PROVE  Chunks(Append(chunks, c), m, n + k)
<1>. DEFINE new == Append(chunks, c)
            len == Len(chunks)
<1>1. PICK f \in [1 .. len + 1 -> 0 .. n] : f[1] = m /\ f[len + 1] = n /\ CutAt(chunks, f)
  BY DEF Chunks
<1>. DEFINE g == [i \in 1 .. len + 2 |-> IF i = len + 2 THEN n + k ELSE f[i]]
<1>2. /\ len \in Nat /\ Len(new) = len + 1 /\ new[len + 1] = c
      /\ \A i \in 1 .. len : new[i] = chunks[i]
  OBVIOUS
<1>. HIDE DEF new, len
<1>3. /\ \A i \in 1 .. len + 2 : i # len + 2 => f[i] \in 0 .. n
      /\ 1 # len + 2 /\ 1 \in 1 .. len + 2 /\ len + 1 \in 1 .. len + 2
  BY <1>1, <1>2
<1>4. g \in [1 .. Len(new) + 1 -> 0 .. n + k]
  <2>1. \A i \in 1 .. len + 2 : g[i] \in 0 .. n + k
    BY <1>3
  <2>. QED  BY <1>2, <2>1
<1>5. g[1] = m /\ g[Len(new) + 1] = n + k /\ g[len + 1] = n /\ g[len + 2] = n + k
  BY <1>1, <1>2, <1>3
<1>6. ASSUME NEW i \in 1 .. Len(new)
      PROVE  /\ g[i] < g[i + 1] /\ Len(new[i]) = g[i + 1] - g[i]
             /\ \A j \in 1 .. Len(new[i]) : new[i][j] = g[i] + j
  <2>1. CASE i = len + 1
    BY <1>2, <1>5, <2>1
  <2>2. CASE i # len + 1
    <3>1. i \in 1 .. len /\ g[i] = f[i] /\ g[i + 1] = f[i + 1] /\ new[i] = chunks[i]
      BY <1>2, <2>2
    <3>. QED  BY <1>1, <3>1 DEF CutAt, len
  <2>. QED  BY <2>1, <2>2
<1>. QED  BY <1>4, <1>5, <1>6 DEF Chunks, CutAt, new, len

(* The task takes a chunk.                                                 *)
LEMMA FirstChunk ==
  ASSUME NEW chunks \in Seq(Seq(Nat)), chunks # <<>>, NEW m \in Nat, NEW n \in Nat,
         Chunks(chunks, m, n)
  PROVE  LET c == Head(chunks)
         IN  /\ c \in Seq(Nat) /\ c # <<>> /\ m + Len(c) <= n
             /\ \A j \in 1 .. Len(c) : c[j] = m + j
             /\ Chunks(Tail(chunks), m + Len(c), n)
<1>. DEFINE len == Len(chunks)
            c   == Head(chunks)
<1>1. PICK f \in [1 .. len + 1 -> 0 .. n] : f[1] = m /\ f[len + 1] = n /\ CutAt(chunks, f)
  BY DEF Chunks
<1>2. /\ len \in Nat \ {0} /\ c = chunks[1] /\ c \in Seq(Nat)
      /\ Len(Tail(chunks)) = len - 1
      /\ \A i \in 1 .. len - 1 : Tail(chunks)[i] = chunks[i + 1]
  OBVIOUS
<1>. DEFINE g == [i \in 1 .. len |-> f[i + 1]]
<1>. HIDE DEF c, len
<1>3. /\ c # <<>> /\ f[2] = m + Len(c) /\ m + Len(c) <= n
      /\ \A j \in 1 .. Len(c) : c[j] = m + j
  <2>1. 1 \in 1 .. len /\ f[2] \in Nat /\ f[2] <= n
    BY <1>1, <1>2
  <2>2. /\ f[1] < f[1 + 1] /\ Len(chunks[1]) = f[1 + 1] - f[1]
        /\ \A j \in 1 .. Len(chunks[1]) : chunks[1][j] = f[1] + j
    BY <1>1, <2>1 DEF CutAt, len
  <2>3. m < f[2] /\ Len(c) = f[2] - m /\ \A j \in 1 .. Len(c) : c[j] = m + j
    BY <1>1, <1>2, <2>2
  <2>4. \A e \in Nat : m < e /\ Len(c) = e - m =>
               Len(c) \in Nat /\ Len(c) # 0 /\ e = m + Len(c)
    OBVIOUS
  <2>5. c # <<>>
    BY <2>1, <2>3, <2>4
  <2>. QED  BY <2>1, <2>3, <2>4, <2>5
<1>4. g \in [1 .. Len(Tail(chunks)) + 1 -> 0 .. n]
  BY <1>1, <1>2
<1>5. g[1] = m + Len(c) /\ g[Len(Tail(chunks)) + 1] = n
  BY <1>1, <1>2, <1>3
<1>6. CutAt(Tail(chunks), g)
  BY <1>1, <1>2 DEF CutAt, len
<1>. QED  BY <1>2, <1>3, <1>4, <1>5, <1>6 DEF Chunks, c, len

-----------------------------------------------------------------------------
(* What does not touch a direction leaves it as it is.                     *)

LEMMA UpstreamKept ==
  ASSUME Upstream, UNCHANGED <<task, sent, transmit, buffer, delivered>>
  PROVE  Upstream'
BY DEF Upstream, Position, Live

LEMMA DownstreamKept ==
  ASSUME Downstream, UNCHANGED <<session, task, arrived, inbound, relay, got, done>>
  PROVE  Downstream'
BY DEF Downstream, Read, RelayOpen, IsAll, Queued

(* The end of the session costs the client what is on the relay, and it is *)
(* told "Done" only if there is nothing.                                   *)
LEMMA DownstreamEnds ==
  ASSUME Downstream, session' \in {"ended", "gone"}, relay' = <<>>,
         UNCHANGED <<task, arrived, inbound, got>>,
         done' => done \/ (task \in {"failed", "done"} /\ IsAll(Len(got)))
  PROVE  Downstream'
BY DEF Downstream, Read, RelayOpen, IsAll

LEMMA MessageOK ==
  /\ Success \in Message /\ WakeUp \in Message /\ Success # WakeUp
  /\ \A n \in 1 .. RemoteBytes : <<n>> \in Message /\ <<n>> # WakeUp /\ <<n>> # Success
BY DEF Message, Success, WakeUp

-----------------------------------------------------------------------------
(* The session.                                                            *)

LEMMA ProxyInv == ASSUME IInv, Proxy PROVE IInv'
<1>1. TypeOK'
  BY DEF Proxy, IInv, TypeOK, clientVars, remoteVars, channelVars
<1>2. Sessions'
  BY DEF Proxy, IInv, Sessions
<1>3. Upstream'
  <2>1. sent = 0 /\ transmit = <<>> /\ buffer = <<>> /\ delivered = <<>> /\ task = "none"
    BY DEF Proxy, IInv, Sessions, Upstream
  <2>2. Chunks(<<>>, 0, 0)
    BY NoChunks
  <2>3. Chunks(transmit, Position, sent)'
    BY <2>1, <2>2 DEF Proxy, Position, clientVars, remoteVars, channelVars
  <2>. QED
    BY <2>1, <2>3, ConnectAssumption
       DEF Proxy, Upstream, Position, Live, clientVars, remoteVars, channelVars
<1>4. Downstream'
  <2>1. Read = 0 /\ got = <<>> /\ relay = <<>> /\ ~done
    BY DEF Proxy, IInv, Sessions, Downstream
  <2>2. /\ UNCHANGED <<got, relay, arrived, inbound, done>>
        /\ Read' = Read /\ task' = "header" /\ session' = "replying"
    BY DEF Proxy, Read, clientVars, remoteVars, channelVars
  <2>. QED  BY <2>1, <2>2 DEF IInv, Downstream, RelayOpen
<1>. QED  BY <1>1, <1>2, <1>3, <1>4 DEF IInv

LEMMA ProxyRefusedInv == ASSUME IInv, ProxyRefused PROVE IInv'
<1>1. TypeOK'
  <2>1. relay_tx' = FALSE /\ relay' = <<>>
    BY DEF ProxyRefused, EndSession
  <2>2. relay_tx' \in BOOLEAN
    BY <2>1
  <2>3. relay' \in Seq(Message) /\ session' = "ended"
    BY <2>1 DEF ProxyRefused, EndSession
  <2>. QED  BY <2>2, <2>3 DEF ProxyRefused, IInv, TypeOK, clientVars, remoteVars
<1>2. Sessions' /\ Upstream' /\ Downstream'
  BY UpstreamKept, DownstreamEnds
     DEF ProxyRefused, EndSession, IInv, Sessions, clientVars, remoteVars
<1>. QED  BY <1>1, <1>2 DEF IInv

LEMMA ReplyInv == ASSUME IInv, Reply PROVE IInv'
<1>1. TypeOK'
  BY DEF Reply, IInv, TypeOK, clientVars, remoteVars, channelVars
<1>2. Sessions' /\ Upstream'
  BY UpstreamKept DEF Reply, IInv, Sessions, clientVars, remoteVars, channelVars
<1>3. Downstream'
  BY DEF Reply, IInv, Downstream, Read, RelayOpen, IsAll, Queued,
         clientVars, remoteVars, channelVars
<1>. QED  BY <1>1, <1>2, <1>3 DEF IInv

LEMMA ReplyFailsInv == ASSUME IInv, ReplyFails PROVE IInv'
<1>1. TypeOK'
  BY DEF ReplyFails, IInv, TypeOK, clientVars, remoteVars
<1>2. Sessions' /\ Upstream' /\ Downstream'
  BY UpstreamKept, DownstreamEnds DEF ReplyFails, IInv, Sessions, clientVars, remoteVars
<1>. QED  BY <1>1, <1>2 DEF IInv

LEMMA ClientLeavesInv == ASSUME IInv, ClientLeaves PROVE IInv'
<1>1. TypeOK'
  BY DEF ClientLeaves, EndSession, IInv, TypeOK, clientVars, remoteVars
<1>2. Sessions' /\ Upstream' /\ Downstream'
  BY UpstreamKept, DownstreamEnds
     DEF ClientLeaves, EndSession, IInv, Sessions, clientVars, remoteVars
<1>. QED  BY <1>1, <1>2 DEF IInv

LEMMA SessionDropsInv == ASSUME IInv, SessionDrops PROVE IInv'
<1>1. TypeOK'
  BY DEF SessionDrops, IInv, TypeOK, clientVars, remoteVars, channelVars
<1>2. Sessions' /\ Upstream'
  BY UpstreamKept DEF SessionDrops, IInv, Sessions, clientVars, remoteVars, channelVars
<1>3. Downstream'
  BY DownstreamEnds DEF SessionDrops, IInv, Downstream, RelayOpen,
                        clientVars, remoteVars, channelVars
<1>. QED  BY <1>1, <1>2, <1>3 DEF IInv

LEMMA ClientSendsInv ==
  ASSUME IInv, NEW k \in 1 .. ClientBytes, ClientSends(k) PROVE IInv'
<1>. DEFINE c == [i \in 1 .. k |-> sent + i]
<1>1. /\ sent \in Nat /\ sent + k \in 0 .. ClientBytes /\ k \in Nat \ {0}
      /\ sent' = sent + k /\ task # "none" /\ session = "open"
      /\ transmit \in Seq(Seq(1 .. ClientBytes)) /\ transmit \in Seq(Seq(Nat))
      /\ UNCHANGED <<task, buffer, delivered>>
  BY ConnectAssumption DEF ClientSends, IInv, TypeOK, Sessions, remoteVars
<1>2. /\ c \in Seq(1 .. ClientBytes) /\ c \in Seq(Nat) /\ Len(c) = k
      /\ \A j \in 1 .. k : c[j] = sent + j
  BY <1>1, ConnectAssumption
<1>3. CASE Live
  <2>1. transmit' = Append(transmit, c) /\ UNCHANGED <<session, relay>>
    BY <1>3 DEF ClientSends
  <2>2. TypeOK'
    BY <1>1, <1>2, <2>1 DEF ClientSends, IInv, TypeOK, remoteVars
  <2>3. Upstream'
    <3>1. Position \in Nat
      BY ConnectAssumption DEF IInv, TypeOK, Position
    <3>2. Chunks(transmit', Position, sent')
      BY <1>1, <1>2, <1>3, <2>1, <3>1, OneMoreChunk DEF IInv, Upstream
    <3>. QED  BY <1>1, <1>3, <3>2, ConnectAssumption DEF IInv, TypeOK, Upstream, Position, Live
  <2>. QED
    BY <1>1, <2>1, <2>2, <2>3, DownstreamKept DEF ClientSends, IInv, Sessions, remoteVars
<1>4. CASE ~Live
  <2>1. EndSession /\ transmit' = transmit
    BY <1>4 DEF ClientSends
  <2>2. TypeOK'
    BY <1>1, <2>1 DEF ClientSends, EndSession, IInv, TypeOK, remoteVars
  <2>3. Upstream'
    BY <1>1, <1>4, <2>1, ConnectAssumption DEF IInv, TypeOK, Upstream, Live
  <2>. QED
    BY <1>1, <2>1, <2>2, <2>3, DownstreamEnds
       DEF ClientSends, EndSession, IInv, Sessions, remoteVars
<1>. QED  BY <1>3, <1>4

LEMMA SessionRelaysInv == ASSUME IInv, SessionRelays PROVE IInv'
<1>1. Sessions' /\ Upstream'
  BY UpstreamKept DEF SessionRelays, CloseDone, EndSession, IInv, Sessions, remoteVars
<1>2. /\ relay \in Seq(Message) /\ got \in Seq(Message) /\ relay # <<>>
      /\ Len(relay) \in Nat \ {0} /\ Len(got) \in Nat
      /\ Head(relay) = relay[1] /\ relay[1] \in Message
      /\ Tail(relay) \in Seq(Message) /\ Len(Tail(relay)) = Len(relay) - 1
      /\ \A i \in 1 .. Len(relay) - 1 : Tail(relay)[i] = relay[i + 1]
  BY DEF SessionRelays, IInv, TypeOK
<1>3. Read \in Nat /\ arrived \in Nat
  BY ConnectAssumption DEF IInv, TypeOK, Downstream, Read
<1>4. Len(Head(relay)) = 0 <=> relay[1] = WakeUp
  BY <1>2 DEF Message, Success, WakeUp
<1>7. \A i \in 1 .. Len(relay) :
        \/ relay[i] = Expected(Len(got) + i)
        \/ relay[i] = WakeUp /\ i = Len(relay) /\ task = "done"
  BY DEF IInv, Downstream
<1>8. 1 \in 1 .. Len(relay)
  BY <1>2
<1>5. CASE relay[1] = WakeUp
  <2>1. Expected(Len(got) + 1) # WakeUp
    BY <1>2, MessageOK DEF Expected, Success, WakeUp
  <2>2. Len(relay) = 1 /\ task = "done"
    BY <1>5, <1>7, <1>8, <2>1
  <2>3. CloseDone /\ got' = got
    BY <1>4, <1>5, <2>2 DEF SessionRelays, Live
  <2>4. IsAll(Len(got))
    BY <1>2, <1>5, <2>2 DEF IInv, Downstream, Queued, SessionRelays, RelayOpen
  <2>5. Downstream'
    BY <2>2, <2>3, <2>4, DownstreamEnds
       DEF SessionRelays, CloseDone, EndSession, IInv, remoteVars
  <2>6. TypeOK'
    BY <2>3 DEF SessionRelays, CloseDone, EndSession, IInv, TypeOK, remoteVars
  <2>. QED  BY <1>1, <2>5, <2>6 DEF IInv
<1>6. CASE relay[1] # WakeUp
  <2>1. /\ got' = Append(got, relay[1]) /\ relay' = Tail(relay)
        /\ UNCHANGED <<session, task, arrived, inbound, done>>
    BY <1>2, <1>4, <1>6 DEF SessionRelays, remoteVars
  <2>2. TypeOK'
    BY <1>2, <2>1 DEF SessionRelays, IInv, TypeOK, remoteVars
  <2>3. relay[1] = Expected(Len(got) + 1)
    BY <1>6, <1>7, <1>8
  <2>4. /\ Len(got') = Len(got) + 1 /\ Len(relay') = Len(relay) - 1
        /\ got'[Len(got) + 1] = relay[1]
        /\ \A i \in 1 .. Len(got) : got'[i] = got[i]
        /\ \A i \in 1 .. Len(relay) - 1 : relay'[i] = relay[i + 1]
    BY <1>2, <2>1
  <2>5. \A i \in 1 .. Len(got') : got'[i] = Expected(i)
    <3>1. \A i \in 1 .. Len(got) : got[i] = Expected(i)
      BY DEF IInv, Downstream
    <3>. QED  BY <1>2, <2>3, <2>4, <3>1
  <2>6. \A i \in 1 .. Len(relay') :
          \/ relay'[i] = Expected(Len(got') + i)
          \/ relay'[i] = WakeUp /\ i = Len(relay') /\ task = "done"
    <3>. SUFFICES ASSUME NEW i \in 1 .. Len(relay')
                  PROVE  \/ relay'[i] = Expected(Len(got') + i)
                         \/ relay'[i] = WakeUp /\ i = Len(relay') /\ task = "done"
      OBVIOUS
    <3>a. Len(relay) \in Nat /\ Len(relay') = Len(relay) - 1 /\ Len(got) \in Nat
          /\ Len(got') = Len(got) + 1
      BY <1>2, <2>4
    <3>b. i \in 1 .. Len(relay) - 1 /\ i + 1 \in 1 .. Len(relay)
          /\ (i + 1 = Len(relay) <=> i = Len(relay'))
      BY <3>a
    <3>c. Len(got') + i = Len(got) + (i + 1)
      BY <3>a
    <3>1. i + 1 \in 1 .. Len(relay) /\ relay'[i] = relay[i + 1]
          /\ Len(got') + i = Len(got) + (i + 1) /\ (i + 1 = Len(relay) <=> i = Len(relay'))
      BY <2>4, <3>b, <3>c
    <3>. QED  BY <1>7, <2>1, <3>1
  <2>7. Len(got') + Queued' = Len(got) + Queued
    <3>1. CASE Len(relay) = 1
      <4>1. relay' = <<>> /\ relay[Len(relay)] # WakeUp
        BY <1>2, <1>6, <2>1, <2>4, <3>1
      <4>2. Queued = 1 /\ Queued' = 0
        BY <1>2, <3>1, <4>1 DEF Queued
      <4>. QED  BY <1>2, <2>4, <4>2
    <3>2. CASE Len(relay) # 1
      <4>1. relay' # <<>> /\ relay'[Len(relay')] = relay[Len(relay)]
        BY <1>2, <2>1, <2>4, <3>2
      <4>2. Queued' = Queued - 1 /\ Queued \in Nat
        BY <1>2, <2>4, <4>1 DEF Queued
      <4>. QED  BY <1>2, <2>4, <4>2
    <3>. QED  BY <3>1, <3>2
  <2>8. /\ Len(got') + Len(relay') = Len(got) + Len(relay)
        /\ Read' = Read /\ (RelayOpen' <=> RelayOpen)
    BY <1>2, <2>1, <2>4 DEF Read, RelayOpen
  <2>9. Len(got') <= Read + 1
    <3>1. Queued \in Nat /\ Queued <= Len(relay) /\ (Queued = 0 => relay[Len(relay)] = WakeUp)
      BY <1>2 DEF Queued
    <3>2. RelayOpen /\ task \in {"relaying", "writing", "failed", "done"}
      BY <1>2 DEF SessionRelays, RelayOpen, IInv, TypeOK, Downstream
    <3>3. CASE task \in {"relaying", "writing"}
      <4>1. Len(got) + Len(relay) = Read + 1
        BY <3>2, <3>3 DEF IInv, Downstream
      <4>. QED  BY <1>2, <1>3, <2>4, <4>1
    <3>4. CASE task \in {"failed", "done"}
      <4>1. IsAll(Len(got) + Queued)
        BY <3>2, <3>4 DEF IInv, Downstream
      <4>2. Queued # 0
        BY <1>2, <1>6, <2>3, <3>1 DEF Queued
      <4>. QED  BY <1>2, <1>3, <2>4, <3>1, <4>1, <4>2 DEF IsAll
    <3>. QED  BY <3>2, <3>3, <3>4
  <2>10. Downstream'
    BY <1>2, <2>1, <2>5, <2>6, <2>7, <2>8, <2>9
       DEF IInv, Downstream, SessionRelays, RelayOpen, IsAll, Read
  <2>. QED  BY <1>1, <2>2, <2>10 DEF IInv
<1>. QED  BY <1>5, <1>6

LEMMA SessionSeesRelayClosedInv == ASSUME IInv, SessionSeesRelayClosed PROVE IInv'
<1>1. TypeOK' /\ Sessions' /\ Upstream'
  BY UpstreamKept DEF SessionSeesRelayClosed, CloseDone, EndSession, IInv, TypeOK,
                      Sessions, remoteVars
<1>2. IsAll(Len(got))
  BY DEF SessionSeesRelayClosed, IInv, TypeOK, Downstream, RelayOpen, Queued
<1>3. Downstream'
  BY <1>2, DownstreamEnds DEF SessionSeesRelayClosed, CloseDone, EndSession, IInv, remoteVars
<1>. QED  BY <1>1, <1>3 DEF IInv

-----------------------------------------------------------------------------
(* The task.                                                               *)

(* A task that fails leaves what it was doing where it is.                 *)
LEMMA UpstreamStops ==
  ASSUME Upstream, task # "none", task' \in {"failed", "done"},
         UNCHANGED <<sent, delivered>>
  PROVE  Upstream'
BY DEF Upstream, Live

(* A step of the task that only looks at the remote's side.                *)
LEMMA UpstreamSide ==
  ASSUME Upstream, task = "relaying", task' \in {"relaying", "failed", "done"},
         UNCHANGED <<sent, transmit, buffer, delivered>>
  PROVE  Upstream'
BY DEF Upstream, Position, Live

(* A step of the task that only looks at the client's side.                *)
LEMMA DownstreamSide ==
  ASSUME Downstream, UNCHANGED <<session, arrived, inbound, relay, got, done>>,
         \/ /\ task \in {"header", "connecting", "remainder"}
            /\ task' \in {"header", "connecting", "remainder"}
         \/ task \in {"relaying", "writing"} /\ task' \in {"relaying", "writing"}
  PROVE  Downstream'
BY DEF Downstream, Read, RelayOpen, IsAll, Queued

(* The task ends without a word.                                           *)
LEMMA DownstreamStops ==
  ASSUME Downstream, relay \in Seq(Message), got \in Seq(Message),
         UNCHANGED <<session, arrived, inbound, relay, got, done>>,
         task \notin {"none", "failed", "done"}, task' \in {"failed", "done"},
         task \in {"header", "connecting", "remainder", "relaying", "writing"}
  PROVE  Downstream'
<1>1. /\ Read' = Read /\ Queued' = Queued /\ (RelayOpen' <=> RelayOpen)
      /\ IsAll(Len(got) + Queued)' <=> IsAll(Len(got) + Queued)
  BY DEF Read, Queued, RelayOpen, IsAll
<1>2. RelayOpen => IsAll(Len(got) + Queued)
  <2>1. CASE task \in {"header", "connecting", "remainder"}
    BY <2>1 DEF Downstream, IsAll, Queued
  <2>2. CASE task \in {"relaying", "writing"}
    <3>1. \A i \in 1 .. Len(relay) : relay[i] = Expected(Len(got) + i)
      BY <2>2 DEF Downstream
    <3>2. Len(got) \in Nat /\ Len(relay) \in Nat
      OBVIOUS
    <3>3. \A i \in 1 .. Len(relay) : Expected(Len(got) + i) # WakeUp
      BY <3>2 DEF Expected, Success, WakeUp
    <3>4. Queued = Len(relay)
      BY <3>1, <3>2, <3>3 DEF Queued
    <3>. QED  BY <2>2, <3>4 DEF Downstream, IsAll
  <2>. QED  BY <2>1, <2>2
<1>3. /\ \A i \in 1 .. Len(relay) : relay[i] = Expected(Len(got) + i)
      /\ task # "none" /\ task \notin {"failed", "done"} /\ ~done
  BY DEF Downstream
<1>4. RelayOpen' /\ task' \in {"failed", "done"} => IsAll(Len(got) + Queued)'
  BY <1>1, <1>2
<1>5. /\ Len(inbound') <= arrived' /\ \A i \in 1 .. Len(inbound') : inbound'[i] = Read' + i
      /\ \A i \in 1 .. Len(got') : got'[i] = Expected(i)
      /\ Len(got') <= Read' + 1
      /\ ~RelayOpen' => relay' = <<>>
  BY <1>1 DEF Downstream
<1>6. \A i \in 1 .. Len(relay') : relay'[i] = Expected(Len(got') + i)
  BY <1>3
<1>7. ~done' /\ task' \notin {"none", "header", "connecting", "remainder", "relaying", "writing"}
  BY <1>3
<1>. QED  BY <1>4, <1>5, <1>6, <1>7 DEF Downstream

(* The reply: the first message of the relay.                              *)
LEMMA SuccessRelayed ==
  ASSUME Downstream, relay \in Seq(Message), got \in Seq(Message),
         task \in {"connecting", "remainder"}, RelayThen(Success, "relaying"),
         UNCHANGED <<session, arrived, inbound, got, done>>
  PROVE  Downstream' /\ relay' \in Seq(Message) /\ task' \in {"relaying", "failed"}
<1>1. Read = 0 /\ Read' = 0 /\ got = <<>> /\ relay = <<>> /\ ~done /\ (RelayOpen' <=> RelayOpen)
  BY DEF Downstream, Read, RelayOpen
<1>2. CASE RelayOpen
  <2>1. relay' = <<Success>> /\ task' = "relaying"
    BY <1>1, <1>2 DEF RelayThen, Relay
  <2>2. Success = Expected(1) /\ Success \in Message
    BY MessageOK DEF Expected
  <2>3. relay' \in Seq(Message) /\ Len(relay') = 1 /\ relay'[1] = Expected(1) /\ Len(got) = 0
    BY <1>1, <2>1, <2>2
  <2>. QED  BY <1>1, <1>2, <2>1, <2>3 DEF Downstream
<1>3. CASE ~RelayOpen
  BY <1>1, <1>3 DEF RelayThen, Relay, Downstream
<1>. QED  BY <1>2, <1>3

LEMMA TaskConnectsInv == ASSUME IInv, TaskConnects PROVE IInv'
<1>1. /\ relay \in Seq(Message) /\ got \in Seq(Message) /\ task = "connecting"
      /\ UNCHANGED <<session, relay_tx, buffer, clientVars, remoteVars, transmit>>
  BY DEF TaskConnects, IInv, TypeOK
<1>2. CASE buffer = <<>>
  <2>1. Downstream' /\ relay' \in Seq(Message) /\ task' \in {"relaying", "failed"}
    BY <1>1, <1>2, SuccessRelayed DEF TaskConnects, IInv, clientVars, remoteVars
  <2>2. Upstream'
    BY <1>1, <1>2, <2>1 DEF IInv, Upstream, Position, Live, clientVars, remoteVars
  <2>3. TypeOK' /\ Sessions'
    BY <1>1, <2>1 DEF IInv, TypeOK, Sessions, clientVars, remoteVars
  <2>. QED  BY <2>1, <2>2, <2>3 DEF IInv
<1>3. CASE buffer # <<>>
  <2>1. task' = "remainder" /\ relay' = relay
    BY <1>3 DEF TaskConnects
  <2>2. Upstream'
    BY <1>1, <1>3, <2>1 DEF IInv, Upstream, Position, Live, clientVars, remoteVars
  <2>3. TypeOK' /\ Sessions' /\ Downstream'
    BY <1>1, <2>1, DownstreamSide DEF IInv, TypeOK, Sessions, clientVars, remoteVars
  <2>. QED  BY <2>2, <2>3 DEF IInv
<1>. QED  BY <1>2, <1>3

LEMMA TaskTakesHeaderInv == ASSUME IInv, TaskTakesHeader PROVE IInv'
<1>. DEFINE c == Head(transmit)
            m == Len(buffer)
            k == Len(c)
<1>0. /\ transmit \in Seq(Seq(1 .. ClientBytes)) /\ transmit # <<>>
      /\ transmit' = Tail(transmit) /\ task = "header"
      /\ UNCHANGED <<session, relay_tx, sent, got, done, delivered, arrived, inbound, fin, relay>>
  BY DEF TaskTakesHeader, IInv, TypeOK, clientVars, remoteVars
<1>1. /\ transmit \in Seq(Seq(Nat)) /\ c \in Seq(1 .. ClientBytes)
      /\ Tail(transmit) \in Seq(Seq(1 .. ClientBytes))
  BY <1>0, ChunkTypes
<1>2. /\ m \in Nat /\ buffer \in Seq(1 .. ClientBytes) /\ m < Header
      /\ delivered = <<>> /\ Header \in Nat \ {0} /\ sent \in Nat
      /\ \A i \in 1 .. m : buffer[i] = i
      /\ Chunks(transmit, m, sent)
  BY <1>0, <1>1, ConnectAssumption DEF IInv, TypeOK, Upstream, Position, Live
<1>3. /\ c # <<>> /\ m + k <= sent /\ k \in Nat \ {0}
      /\ \A j \in 1 .. k : c[j] = m + j
      /\ Chunks(Tail(transmit), m + k, sent)
  BY <1>0, <1>1, <1>2, FirstChunk
<1>. DEFINE buf == buffer \o c
<1>4. /\ buf \in Seq(1 .. ClientBytes) /\ Len(buf) = m + k
      /\ \A i \in 1 .. m + k : buf[i] = i
  <2>1. /\ buf \in Seq(1 .. ClientBytes) /\ Len(buf) = m + k
        /\ \A i \in 1 .. m + k : buf[i] = IF i <= m THEN buffer[i] ELSE c[i - m]
    BY <1>1, <1>2
  <2>2. ASSUME NEW i \in 1 .. m + k PROVE buf[i] = i
    <3>1. CASE i <= m
      BY <1>2, <2>1, <3>1
    <3>2. CASE i > m
      <4>1. i - m \in 1 .. k /\ m + (i - m) = i /\ ~(i <= m)
        BY <1>2, <1>3, <3>2
      <4>2. c[i - m] = m + (i - m)
        BY <1>3, <4>1
      <4>. QED  BY <2>1, <4>1, <4>2
    <3>. QED  BY <1>2, <1>3, <3>1, <3>2
  <2>. QED  BY <2>1, <2>2
<1>. HIDE DEF buf, c, m, k
<1>5. Header \in Range(buf) <=> Header <= m + k
  <2>1. DOMAIN buf = 1 .. m + k
    BY <1>4
  <2>2. Range(buf) = {buf[i] : i \in DOMAIN buf}
    BY DEF Range
  <2>. QED  BY <1>2, <1>3, <1>4, <2>1, <2>2
<1>6. CASE ~(Header \in Range(buf))
  <2>1. buffer' = buf /\ task' = task
    BY <1>6 DEF TaskTakesHeader, buf, c
  <2>2. TypeOK' /\ Sessions' /\ Downstream'
    BY <1>0, <1>1, <1>4, <2>1, DownstreamKept DEF IInv, TypeOK, Sessions
  <2>3. /\ task' = "header" /\ delivered' = <<>> /\ m + k < Header /\ m + k \in Nat
        /\ Len(buffer') = m + k /\ Position' = m + k
    BY <1>0, <1>2, <1>3, <1>4, <1>5, <1>6, <2>1 DEF Position
  <2>4. \A i \in 1 .. Len(buffer') : buffer'[i] = Position' - Len(buffer') + i
    BY <1>4, <2>1, <2>3
  <2>5. Chunks(transmit, Position, sent)'
    BY <1>0, <1>3, <2>3
  <2>6. Upstream'
    BY <2>3, <2>4, <2>5 DEF Upstream
  <2>. QED  BY <2>2, <2>6 DEF IInv
<1>7. CASE Header \in Range(buf) /\ task' = "failed"
  <2>1. buffer' = <<>>
    BY <1>7 DEF TaskTakesHeader, buf, c
  <2>2. TypeOK' /\ Sessions' /\ Upstream'
    BY <1>0, <1>1, <1>7, <2>1, UpstreamStops DEF IInv, TypeOK, Sessions
  <2>3. Downstream'
    BY <1>0, <1>1, <1>7, DownstreamStops DEF IInv, TypeOK
  <2>. QED  BY <2>2, <2>3 DEF IInv
<1>8. CASE Header \in Range(buf) /\ task' = "connecting"
  <2>1. buffer' = SubSeq(buf, Header + 1, Len(buf))
    BY <1>8 DEF TaskTakesHeader, Remainder, buf, c
  <2>2. /\ buffer' \in Seq(1 .. ClientBytes) /\ Len(buffer') = m + k - Header
        /\ \A i \in 1 .. Len(buffer') : buffer'[i] = Header + i
    <3>1. /\ Header + 1 \in 1 .. m + k + 1 /\ m + k \in (Header + 1) - 1 .. m + k
          /\ m + k \in Nat /\ Header \in Nat /\ Header <= m + k
          /\ m + k - Header \in Nat /\ (m + k) - (Header + 1) + 1 = m + k - Header
      BY <1>2, <1>3, <1>5, <1>8
    <3>2. /\ buffer' \in Seq(1 .. ClientBytes) /\ Len(buffer') = (m + k) - (Header + 1) + 1
          /\ \A i \in 1 .. (m + k) - (Header + 1) + 1 : buffer'[i] = buf[(Header + 1) + i - 1]
      <4>1. /\ buffer' = SubSeq(buf, Header + 1, m + k) /\ Header + 1 \in Int /\ m + k \in Int
            /\ \A i \in Header + 1 .. m + k : i \in 1 .. m + k
        BY <1>4, <2>1, <3>1
      <4>2. \A i \in Header + 1 .. m + k : buf[i] \in 1 .. ClientBytes
        BY <1>4, <4>1, ElementOfSeq
      <4>3. /\ buffer' \in Seq(1 .. ClientBytes)
            /\ Len(buffer') = IF Header + 1 <= m + k THEN (m + k) - (Header + 1) + 1 ELSE 0
            /\ \A i \in 1 .. (m + k) - (Header + 1) + 1 : buffer'[i] = buf[(Header + 1) + i - 1]
        BY <4>1, <4>2, SubSeqProperties
      <4>. QED  BY <3>1, <4>3
    <3>3. \A i \in 1 .. m + k - Header :
             Header + i \in 1 .. m + k /\ (Header + 1) + i - 1 = Header + i
      BY <3>1
    <3>. QED  BY <1>4, <3>1, <3>2, <3>3
  <2>3. TypeOK' /\ Sessions' /\ Downstream'
    BY <1>0, <1>1, <1>8, <2>2, DownstreamSide DEF IInv, TypeOK, Sessions
  <2>4. Header + 0 + Len(buffer') = m + k /\ Len(delivered) = 0
    BY <1>2, <1>3, <2>2
  <2>5. Upstream'
    BY <1>0, <1>1, <1>2, <1>3, <1>8, <2>2, <2>4 DEF Upstream, Position, Live
  <2>. QED  BY <2>3, <2>5 DEF IInv
<1>. QED  BY <1>6, <1>7, <1>8 DEF TaskTakesHeader, buf, c

LEMMA TaskTakesChunkInv == ASSUME IInv, TaskTakesChunk PROVE IInv'
<1>. DEFINE c == Head(transmit)
            p == Header + Len(delivered)
<1>0. /\ transmit \in Seq(Seq(1 .. ClientBytes)) /\ transmit # <<>>
      /\ transmit' = Tail(transmit) /\ buffer' = c /\ task = "relaying" /\ task' = "writing"
      /\ UNCHANGED <<session, relay_tx, sent, got, done, delivered, arrived, inbound, fin, relay>>
  BY DEF TaskTakesChunk, IInv, TypeOK, clientVars, remoteVars
<1>1. /\ transmit \in Seq(Seq(Nat)) /\ c \in Seq(1 .. ClientBytes)
      /\ Tail(transmit) \in Seq(Seq(1 .. ClientBytes))
  BY <1>0, ChunkTypes
<1>2. /\ buffer = <<>> /\ p \in Nat /\ sent \in Nat /\ Len(buffer) = 0
  BY <1>0, <1>1, ConnectAssumption DEF IInv, TypeOK, Upstream
<1>3. Chunks(transmit, p, sent)
  BY <1>0, <1>1, <1>2 DEF IInv, Upstream, Position, Live
<1>4. /\ c # <<>> /\ p + Len(c) <= sent
      /\ \A j \in 1 .. Len(c) : c[j] = p + j
      /\ Chunks(Tail(transmit), p + Len(c), sent)
  BY <1>0, <1>1, <1>2, <1>3, FirstChunk
<1>5. TypeOK' /\ Sessions' /\ Downstream'
  BY <1>0, <1>1, DownstreamSide DEF IInv, TypeOK, Sessions
<1>6. Upstream'
  <2>. HIDE DEF c
  <2>1. p + Len(c) - Len(c) = p /\ Len(c) \in Nat
    BY <1>0, <1>1, <1>2
  <2>2. Position' = p + Len(c)
    BY <1>0, <1>2, <2>1 DEF Position
  <2>3. \A i \in 1 .. Len(buffer') : buffer'[i] = Position' - Len(buffer') + i
    <3>1. p \in Nat /\ Position' - Len(buffer') = p
      BY <1>0, <1>2, <2>1, <2>2
    <3>. QED  BY <1>0, <1>4, <3>1
  <2>4. Chunks(transmit, Position, sent)'
    BY <1>0, <1>4, <2>2
  <2>5. /\ \A i \in 1 .. Len(delivered') : delivered'[i] = Header + i
        /\ delivered' # <<>> => Header + Len(delivered') <= sent'
    BY <1>0 DEF IInv, Upstream
  <2>. QED
    BY <1>0, <1>4, <2>3, <2>4, <2>5 DEF Upstream
<1>. QED  BY <1>5, <1>6 DEF IInv

(* A byte of the buffer is the remote's now.                               *)
LEMMA OneByteDelivered ==
  ASSUME IInv, TaskWrites
  PROVE  /\ delivered' \in Seq(1 .. ClientBytes) /\ Len(delivered') = Len(delivered) + 1
         /\ \A i \in 1 .. Len(delivered') : delivered'[i] = Header + i
         /\ buffer' \in Seq(1 .. ClientBytes) /\ Len(buffer') = Len(buffer) - 1
         /\ \A i \in 1 .. Len(buffer') : buffer'[i] = Header + Len(delivered') + i
         /\ Header + Len(delivered') <= sent /\ Len(delivered) \in Nat
         /\ Len(buffer) \in Nat \ {0}
<1>1. /\ buffer \in Seq(1 .. ClientBytes) /\ delivered \in Seq(1 .. ClientBytes)
      /\ buffer # <<>> /\ delivered' = Append(delivered, Head(buffer)) /\ buffer' = Tail(buffer)
      /\ \A i \in 1 .. Len(delivered) : delivered[i] = Header + i
      /\ \A i \in 1 .. Len(buffer) : buffer[i] = Position - Len(buffer) + i
      /\ Position = Header + Len(delivered) + Len(buffer)
      /\ Chunks(transmit, Position, sent)
  BY DEF TaskWrites, IInv, TypeOK, Upstream, Position, Live
<1>2. /\ Len(delivered) \in Nat /\ Len(buffer) \in Nat \ {0} /\ Header \in Nat \ {0}
      /\ Head(buffer) = buffer[1] /\ buffer[1] \in 1 .. ClientBytes
      /\ Tail(buffer) \in Seq(1 .. ClientBytes) /\ Len(Tail(buffer)) = Len(buffer) - 1
      /\ \A i \in 1 .. Len(buffer) - 1 : Tail(buffer)[i] = buffer[i + 1]
  BY <1>1, ConnectAssumption
<1>3. \A i \in 1 .. Len(buffer) : buffer[i] = Header + Len(delivered) + i
  BY <1>1, <1>2
<1>4. Position <= sent
  BY <1>1 DEF Chunks
<1>5. /\ delivered' \in Seq(1 .. ClientBytes) /\ Len(delivered') = Len(delivered) + 1
      /\ \A i \in 1 .. Len(delivered) : delivered'[i] = delivered[i]
      /\ delivered'[Len(delivered) + 1] = buffer[1]
  BY <1>1, <1>2
<1>6. \A i \in 1 .. Len(delivered') : delivered'[i] = Header + i
  <2>1. Header + Len(delivered) + 1 = Header + (Len(delivered) + 1) /\ 1 \in 1 .. Len(buffer)
    BY <1>2
  <2>2. delivered'[Len(delivered) + 1] = Header + (Len(delivered) + 1)
    BY <1>3, <1>5, <2>1
  <2>3. \A i \in 1 .. Len(delivered) + 1 : i \in 1 .. Len(delivered) \/ i = Len(delivered) + 1
    BY <1>2
  <2>. QED  BY <1>1, <1>5, <2>2, <2>3
<1>7. ASSUME NEW i \in 1 .. Len(buffer') PROVE buffer'[i] = Header + Len(delivered') + i
  <2>1. i \in 1 .. Len(buffer) - 1 /\ i + 1 \in 1 .. Len(buffer)
    BY <1>1, <1>2
  <2>2. buffer'[i] = buffer[i + 1] /\ buffer[i + 1] = Header + Len(delivered) + (i + 1)
    BY <1>1, <1>2, <1>3, <2>1
  <2>3. Header + Len(delivered) + (i + 1) = Header + Len(delivered') + i
    BY <1>2, <1>5, <2>1
  <2>. QED  BY <2>2, <2>3
<1>8. Header + Len(delivered') <= sent
  <2>1. sent \in Nat
    BY DEF IInv, TypeOK
  <2>. QED  BY <1>1, <1>2, <1>4, <1>5, <2>1
<1>. QED  BY <1>1, <1>2, <1>5, <1>6, <1>7, <1>8

LEMMA TaskWritesInv == ASSUME IInv, TaskWrites PROVE IInv'
<1>1. /\ task \in {"remainder", "writing"} /\ relay \in Seq(Message) /\ got \in Seq(Message)
      /\ UNCHANGED <<session, relay_tx, sent, got, done, arrived, inbound, fin, transmit>>
  BY DEF TaskWrites, IInv, TypeOK, clientVars
<1>2. /\ delivered' \in Seq(1 .. ClientBytes) /\ Len(delivered') = Len(delivered) + 1
      /\ \A i \in 1 .. Len(delivered') : delivered'[i] = Header + i
      /\ buffer' \in Seq(1 .. ClientBytes) /\ Len(buffer') = Len(buffer) - 1
      /\ \A i \in 1 .. Len(buffer') : buffer'[i] = Header + Len(delivered') + i
      /\ Header + Len(delivered') <= sent /\ Len(delivered) \in Nat /\ Len(buffer) \in Nat \ {0}
  BY OneByteDelivered
<1>3. /\ task' \in {"remainder", "writing", "relaying", "failed"}
      /\ task' \in {"remainder", "writing"} => Len(buffer') # 0
      /\ task' = "relaying" => Len(buffer') = 0
      /\ relay' \in Seq(Message) /\ Downstream'
  <2>1. CASE Len(buffer) > 1 /\ UNCHANGED <<task, relay>>
    <3>1. Downstream' /\ task' = task /\ relay' = relay
      BY <1>1, <2>1, DownstreamKept DEF IInv
    <3>2. Len(buffer') # 0
      BY <1>2, <2>1
    <3>. QED  BY <1>1, <3>1, <3>2
  <2>2. CASE Len(buffer) = 1 /\ task = "remainder" /\ RelayThen(Success, "relaying")
    BY <1>1, <1>2, <2>2, SuccessRelayed DEF IInv
  <2>3. CASE Len(buffer) = 1 /\ task = "writing" /\ task' = "relaying" /\ UNCHANGED relay
    BY <1>1, <1>2, <2>3, DownstreamSide DEF IInv
  <2>. QED  BY <2>1, <2>2, <2>3 DEF TaskWrites
<1>4. Upstream'
  <2>1. Chunks(transmit, Header + Len(delivered) + Len(buffer), sent)
    BY <1>1 DEF IInv, Upstream, Position, Live
  <2>2. Header + Len(delivered') + Len(buffer') = Header + Len(delivered) + Len(buffer)
    BY <1>2, ConnectAssumption
  <2>3. task' # "header" /\ Position' = Header + Len(delivered') + Len(buffer')
    BY <1>3 DEF Position
  <2>4. Position' - Len(buffer') = Header + Len(delivered')
    BY <1>2, <2>3, ConnectAssumption
  <2>5. \A i \in 1 .. Len(buffer') : buffer'[i] = Position' - Len(buffer') + i
    BY <1>2, <2>4
  <2>6. Chunks(transmit, Position, sent)'
    BY <1>1, <2>1, <2>2, <2>3
  <2>7. task' = "relaying" => buffer' = <<>>
    BY <1>2, <1>3, EmptySeq
  <2>8. task' \in {"remainder", "writing"} => buffer' # <<>>
    BY <1>3
  <2>. QED  BY <1>1, <1>2, <1>3, <2>5, <2>6, <2>7, <2>8 DEF Upstream
<1>5. TypeOK' /\ Sessions'
  BY <1>1, <1>2, <1>3 DEF IInv, TypeOK, Sessions
<1>. QED  BY <1>3, <1>4, <1>5 DEF IInv

LEMMA TaskReadsInv == ASSUME IInv, TaskReads PROVE IInv'
<1>1. /\ task = "relaying" /\ inbound # <<>> /\ inbound' = Tail(inbound)
      /\ inbound \in Seq(1 .. RemoteBytes) /\ relay \in Seq(Message) /\ got \in Seq(Message)
      /\ arrived \in Nat
      /\ UNCHANGED <<session, relay_tx, sent, buffer, delivered, transmit, got, done, arrived, fin>>
  BY ConnectAssumption DEF TaskReads, IInv, TypeOK, clientVars
<1>2. /\ Len(inbound) \in Nat \ {0} /\ Head(inbound) \in 1 .. RemoteBytes
      /\ inbound' \in Seq(1 .. RemoteBytes) /\ Len(inbound') = Len(inbound) - 1
      /\ Head(inbound) = inbound[1]
      /\ \A i \in 1 .. Len(inbound) - 1 : inbound'[i] = inbound[i + 1]
      /\ Len(got) \in Nat /\ Len(relay) \in Nat
  <2>1. Len(inbound) \in Nat \ {0} /\ 1 \in 1 .. Len(inbound)
    BY <1>1
  <2>2. Head(inbound) = inbound[1] /\ Head(inbound) \in 1 .. RemoteBytes
    <3>1. Head(inbound) = inbound[1]
      OBVIOUS
    <3>2. inbound \in Seq(1 .. RemoteBytes)
      BY <1>1
    <3>3. inbound[1] \in 1 .. RemoteBytes
      BY <2>1, <3>2, ElementOfSeq
    <3>. QED  BY <3>1, <3>3
  <2>3. /\ inbound' \in Seq(1 .. RemoteBytes) /\ Len(inbound') = Len(inbound) - 1
        /\ \A i \in 1 .. Len(inbound) - 1 : inbound'[i] = inbound[i + 1]
    BY <1>1
  <2>. QED  BY <1>1, <2>1, <2>2, <2>3
<1>3. /\ Len(inbound) <= arrived /\ Len(got) <= Read + 1 /\ ~done
      /\ \A i \in 1 .. Len(inbound) : inbound[i] = Read + i
      /\ \A i \in 1 .. Len(got) : got[i] = Expected(i)
      /\ \A i \in 1 .. Len(relay) : relay[i] = Expected(Len(got) + i)
  BY <1>1 DEF IInv, Downstream
<1>4. Read \in Nat /\ Read' = Read + 1 /\ Head(inbound) = Read + 1
  <2>1. Read \in Nat /\ Read' = Read + 1
    BY <1>1, <1>2, <1>3 DEF Read
  <2>2. 1 \in 1 .. Len(inbound)
    BY <1>2
  <2>. QED  BY <1>2, <1>3, <2>1, <2>2
<1>5. Len(inbound') <= arrived' /\ Len(got') <= Read' + 1
  BY <1>1, <1>2, <1>3, <1>4
<1>6. ASSUME NEW i \in 1 .. Len(inbound') PROVE inbound'[i] = Read' + i
  <2>1. inbound'[i] = inbound[i + 1] /\ i + 1 \in 1 .. Len(inbound) /\ i \in Nat
    BY <1>2
  <2>2. Read + (i + 1) = Read' + i
    BY <1>4, <2>1
  <2>. QED  BY <1>3, <2>1, <2>2
<1>7. CASE RelayOpen
  <2>1. /\ relay' = Append(relay, <<Read + 1>>) /\ task' = "relaying" /\ RelayOpen'
        /\ Len(got) + Len(relay) = Read + 1
    BY <1>1, <1>4, <1>7 DEF TaskReads, RelayThen, Relay, RelayOpen, IInv, Downstream
  <2>2. <<Read + 1>> \in Message
    BY <1>2, <1>4, MessageOK
  <2>3. /\ relay' \in Seq(Message) /\ Len(relay') = Len(relay) + 1
        /\ \A i \in 1 .. Len(relay) : relay'[i] = relay[i]
        /\ relay'[Len(relay) + 1] = <<Read + 1>>
    BY <1>1, <2>1, <2>2
  <2>4. Expected(Len(got) + (Len(relay) + 1)) = <<Read + 1>>
    <3>1. /\ Len(got) + (Len(relay) + 1) # 1
          /\ Len(got) + (Len(relay) + 1) - 1 = Read + 1
      BY <1>2, <1>4, <2>1
    <3>. QED  BY <3>1 DEF Expected
  <2>5. \A i \in 1 .. Len(relay') : relay'[i] = Expected(Len(got) + i)
    <3>1. \A i \in 1 .. Len(relay') : i \in 1 .. Len(relay) \/ i = Len(relay) + 1
      BY <1>2, <2>3
    <3>. QED  BY <1>3, <2>3, <2>4, <3>1
  <2>6. Len(got') + Len(relay') = Read' + 1
    BY <1>1, <1>2, <1>4, <2>1, <2>3
  <2>7. Downstream'
    BY <1>1, <1>3, <1>5, <1>6, <2>1, <2>5, <2>6 DEF Downstream
  <2>8. Sessions' /\ Upstream'
    BY <1>1, <2>1, UpstreamSide DEF IInv, Sessions
  <2>9. TypeOK'
    BY <1>1, <1>2, <2>1, <2>3 DEF IInv, TypeOK
  <2>. QED  BY <2>7, <2>8, <2>9 DEF IInv
<1>8. CASE ~RelayOpen
  <2>1. relay' = <<>> /\ task' = "failed" /\ ~RelayOpen'
    BY <1>1, <1>8 DEF TaskReads, RelayThen, Relay, RelayOpen, IInv, Downstream
  <2>2. Downstream'
    BY <1>1, <1>3, <1>5, <1>6, <2>1 DEF Downstream
  <2>3. Sessions' /\ Upstream'
    BY <1>1, <2>1, UpstreamSide DEF IInv, Sessions
  <2>4. TypeOK'
    BY <1>1, <1>2, <2>1 DEF IInv, TypeOK
  <2>. QED  BY <2>2, <2>3, <2>4 DEF IInv
<1>. QED  BY <1>7, <1>8

LEMMA TaskStopsInv ==
  ASSUME IInv, task \notin {"none", "failed", "done"}, task' \in {"failed", "done"},
         UNCHANGED <<session, relay_tx, buffer, clientVars, remoteVars, channelVars>>
  PROVE  IInv'
<1>1. /\ relay \in Seq(Message) /\ got \in Seq(Message)
      /\ task \in {"header", "connecting", "remainder", "relaying", "writing"}
      /\ UNCHANGED <<session, relay_tx, sent, buffer, delivered, transmit, arrived, inbound,
                     fin, relay, got, done>>
  BY DEF IInv, TypeOK, clientVars, remoteVars, channelVars
<1>2. Upstream' /\ Downstream'
  BY <1>1, UpstreamStops, DownstreamStops DEF IInv
<1>3. TypeOK' /\ Sessions'
  BY <1>1 DEF IInv, TypeOK, Sessions
<1>. QED  BY <1>2, <1>3 DEF IInv

LEMMA TaskReadsEndInv == ASSUME IInv, TaskReadsEnd PROVE IInv'
BY TaskStopsInv DEF TaskReadsEnd

LEMMA TaskSocketFailsInv == ASSUME IInv, TaskSocketFails PROVE IInv'
BY TaskStopsInv DEF TaskSocketFails

LEMMA TaskSeesClientGoneInv == ASSUME IInv, TaskSeesClientGone PROVE IInv'
BY TaskStopsInv DEF TaskSeesClientGone

(* The wake-up comes after everything else.                                *)
LEMMA TaskWakesSessionInv == ASSUME IInv, TaskWakesSession PROVE IInv'
<1>1. /\ relay \in Seq(Message) /\ got \in Seq(Message) /\ task = "failed" /\ task' = "done"
      /\ Len(relay) \in Nat /\ Len(got) \in Nat
      /\ UNCHANGED <<session, relay_tx, sent, buffer, delivered, transmit, arrived, inbound,
                     fin, got, done>>
  BY DEF TaskWakesSession, IInv, TypeOK, clientVars, remoteVars
<1>2. Upstream' /\ Sessions'
  BY <1>1, UpstreamStops DEF IInv, Sessions
<1>3. /\ \A i \in 1 .. Len(relay) : relay[i] = Expected(Len(got) + i)
      /\ ~RelayOpen => relay = <<>>
      /\ RelayOpen => IsAll(Len(got) + Queued)
  BY <1>1 DEF IInv, Downstream
<1>4. Read' = Read /\ (RelayOpen' <=> RelayOpen)
  BY <1>1 DEF Read, RelayOpen
<1>5. CASE RelayOpen
  <2>1. relay' = Append(relay, WakeUp)
    BY <1>5 DEF TaskWakesSession, Relay
  <2>2. /\ relay' \in Seq(Message) /\ Len(relay') = Len(relay) + 1
        /\ \A i \in 1 .. Len(relay) : relay'[i] = relay[i]
        /\ relay'[Len(relay) + 1] = WakeUp
    BY <1>1, <2>1, MessageOK
  <2>3. Queued = Len(relay)
    <3>1. \A i \in 1 .. Len(relay) : Expected(Len(got) + i) # WakeUp
      BY <1>1 DEF Expected, Success, WakeUp
    <3>2. relay # <<>> => Len(relay) \in 1 .. Len(relay)
      BY <1>1
    <3>. QED  BY <1>3, <3>1, <3>2 DEF Queued
  <2>4. Queued' = Len(relay)
    BY <1>1, <2>2 DEF Queued
  <2>5. IsAll(Len(got) + Queued)'
    BY <1>1, <1>3, <1>4, <1>5, <2>3, <2>4 DEF IsAll
  <2>6. \A i \in 1 .. Len(relay') : \/ relay'[i] = Expected(Len(got) + i)
                                    \/ relay'[i] = WakeUp /\ i = Len(relay')
    <3>1. \A i \in 1 .. Len(relay') : i \in 1 .. Len(relay) \/ i = Len(relay) + 1
      BY <1>1, <2>2
    <3>. QED  BY <1>3, <2>2, <3>1
  <2>7. Downstream'
    <3>1. /\ Len(inbound') <= arrived' /\ \A i \in 1 .. Len(inbound') : inbound'[i] = Read' + i
          /\ \A i \in 1 .. Len(got') : got'[i] = Expected(i)
          /\ Len(got') <= Read' + 1
      BY <1>1, <1>4 DEF IInv, Downstream
    <3>2. ~done'
      BY <1>1, <1>5 DEF IInv, Downstream
    <3>. QED  BY <1>1, <1>4, <1>5, <2>5, <2>6, <3>1, <3>2 DEF Downstream
  <2>8. TypeOK'
    BY <1>1, <2>2 DEF IInv, TypeOK
  <2>. QED  BY <1>2, <2>7, <2>8 DEF IInv
<1>6. CASE ~RelayOpen
  <2>1. relay' = relay
    BY <1>6 DEF TaskWakesSession, Relay
  <2>2. Downstream'
    <3>1. done' => IsAll(Len(got))'
      BY <1>1, <1>4 DEF IInv, Downstream, IsAll
    <3>2. /\ Len(inbound') <= arrived' /\ \A i \in 1 .. Len(inbound') : inbound'[i] = Read' + i
          /\ \A i \in 1 .. Len(got') : got'[i] = Expected(i)
          /\ Len(got') <= Read' + 1 /\ relay' = <<>>
      BY <1>1, <1>3, <1>4, <1>6, <2>1 DEF IInv, Downstream
    <3>. QED  BY <1>1, <1>4, <1>6, <3>1, <3>2 DEF Downstream
  <2>3. TypeOK'
    BY <1>1, <2>1 DEF IInv, TypeOK
  <2>. QED  BY <1>2, <2>2, <2>3 DEF IInv
<1>. QED  BY <1>5, <1>6

-----------------------------------------------------------------------------
(* The remote.                                                             *)

LEMMA RemoteSendsInv == ASSUME IInv, RemoteSends PROVE IInv'
<1>1. /\ task \in {"remainder", "relaying", "writing"} /\ arrived' = arrived + 1
      /\ arrived \in 0 .. RemoteBytes /\ arrived < RemoteBytes
      /\ inbound \in Seq(1 .. RemoteBytes) /\ inbound' = Append(inbound, arrived + 1)
      /\ UNCHANGED <<session, relay_tx, task, sent, buffer, delivered, transmit, fin, relay, got, done>>
  BY DEF RemoteSends, Connected, IInv, TypeOK, clientVars, channelVars
<1>2. /\ arrived \in Nat /\ arrived' \in 0 .. RemoteBytes /\ arrived + 1 \in 1 .. RemoteBytes
      /\ Len(inbound) \in Nat
  BY <1>1, ConnectAssumption
<1>3. /\ inbound' \in Seq(1 .. RemoteBytes) /\ Len(inbound') = Len(inbound) + 1
      /\ \A i \in 1 .. Len(inbound) : inbound'[i] = inbound[i]
      /\ inbound'[Len(inbound) + 1] = arrived + 1
  BY <1>1, <1>2
<1>4. Read' = Read /\ Read + (Len(inbound) + 1) = arrived + 1
  BY <1>1, <1>2, <1>3 DEF Read
<1>5. \A i \in 1 .. Len(inbound') : inbound'[i] = Read' + i
  <2>1. \A i \in 1 .. Len(inbound') : i \in 1 .. Len(inbound) \/ i = Len(inbound) + 1
    BY <1>2, <1>3
  <2>. QED  BY <1>3, <1>4, <2>1 DEF IInv, Downstream
<1>6. Len(inbound') <= arrived'
  BY <1>1, <1>2, <1>3 DEF IInv, Downstream
<1>7. Downstream'
  BY <1>1, <1>4, <1>5, <1>6 DEF IInv, Downstream, RelayOpen
<1>8. Upstream' /\ Sessions' /\ TypeOK'
  BY <1>1, <1>2, <1>3, UpstreamKept DEF IInv, Sessions, TypeOK
<1>. QED  BY <1>7, <1>8 DEF IInv

LEMMA RemoteClosesInv == ASSUME IInv, RemoteCloses PROVE IInv'
<1>1. /\ fin' = TRUE
      /\ UNCHANGED <<session, relay_tx, task, sent, buffer, delivered, transmit, arrived, inbound,
                     relay, got, done>>
  BY DEF RemoteCloses, clientVars, channelVars
<1>2. Upstream' /\ Downstream' /\ Sessions'
  BY <1>1, UpstreamKept, DownstreamKept DEF IInv, Sessions
<1>3. TypeOK'
  BY <1>1 DEF IInv, TypeOK
<1>. QED  BY <1>2, <1>3 DEF IInv

-----------------------------------------------------------------------------
LEMMA InitInv == Init => IInv
<1>. SUFFICES ASSUME Init PROVE IInv
  OBVIOUS
<1>1. TypeOK /\ Sessions
  <2>1. relay_tx \in BOOLEAN /\ fin \in BOOLEAN /\ done \in BOOLEAN
    BY DEF Init
  <2>2. transmit \in Seq(Seq(1 .. ClientBytes)) /\ buffer \in Seq(1 .. ClientBytes)
    BY DEF Init
  <2>3. /\ delivered \in Seq(1 .. ClientBytes) /\ inbound \in Seq(1 .. RemoteBytes)
        /\ relay \in Seq(Message) /\ got \in Seq(Message)
    BY DEF Init
  <2>. QED  BY <2>1, <2>2, <2>3, ConnectAssumption DEF Init, TypeOK, Sessions
<1>2. Upstream
  BY DEF Init, Upstream, Live
<1>3. Downstream
  <2>1. ~done
    BY DEF Init
  <2>3. RelayOpen
    BY DEF Init, RelayOpen
  <2>4. Read = 0
    <3>1. arrived = 0 /\ Len(inbound) = 0
      BY DEF Init
    <3>. QED  BY <3>1 DEF Read
  <2>2. task = "none" /\ got = <<>> /\ relay = <<>> /\ inbound = <<>> /\ arrived = 0
    BY DEF Init
  <2>. QED  BY <2>1, <2>2, <2>3, <2>4 DEF Downstream
<1>. QED  BY <1>1, <1>2, <1>3 DEF IInv

LEMMA StutterInv == ASSUME IInv, UNCHANGED vars PROVE IInv'
<1>1. UNCHANGED <<session, relay_tx, task, sent, buffer, delivered, transmit, arrived, inbound,
                  fin, relay, got, done>>
  BY DEF vars, clientVars, remoteVars, channelVars
<1>2. Upstream' /\ Downstream' /\ Sessions' /\ TypeOK'
  BY <1>1, UpstreamKept, DownstreamKept DEF IInv, Sessions, TypeOK
<1>. QED  BY <1>2 DEF IInv

LEMMA StepInv == IInv /\ [Next]_vars => IInv'
<1>. SUFFICES ASSUME IInv, [Next]_vars PROVE IInv'
  OBVIOUS
<1>1. CASE SessionNext
  BY <1>1, ProxyInv, ProxyRefusedInv, ReplyInv, ReplyFailsInv, ClientSendsInv, ClientLeavesInv,
     SessionRelaysInv, SessionSeesRelayClosedInv, SessionDropsInv DEF SessionNext
<1>2. CASE TaskNext
  BY <1>2, TaskTakesHeaderInv, TaskConnectsInv, TaskTakesChunkInv, TaskWritesInv, TaskReadsInv,
     TaskReadsEndInv, TaskSocketFailsInv, TaskSeesClientGoneInv, TaskWakesSessionInv DEF TaskNext
<1>. QED  BY <1>1, <1>2, RemoteSendsInv, RemoteClosesInv, StutterInv DEF Next

LEMMA Invariant == Spec => []IInv
BY InitInv, StepInv, PTL DEF Spec

(* Every variable keeps to its type, however long the header and however   *)
(* much is sent.                                                           *)
THEOREM TypeCorrect == Spec => []TypeOK
<1>1. IInv => TypeOK
  BY DEF IInv
<1>. QED  BY <1>1, Invariant, PTL

(* What was written to the client, once it is told "Done", is all of what  *)
(* the task read: the reply, then a message for each byte.                 *)
LEMMA DoneCounts == IInv => DoneMeansAllRead
<1>. SUFFICES ASSUME IInv, done
              PROVE  Cardinality({i \in 1 .. Len(got) : got[i] \notin {Success, WakeUp}})
                       = arrived - Len(inbound)
  BY DEF DoneMeansAllRead
<1>. DEFINE Data == {i \in 1 .. Len(got) : got[i] \notin {Success, WakeUp}}
<1>1. /\ Len(got) \in Nat /\ Read \in Nat /\ IsAll(Len(got))
      /\ \A i \in 1 .. Len(got) : got[i] = Expected(i)
  BY ConnectAssumption DEF IInv, TypeOK, Downstream, Read
<1>2. Data = 2 .. Len(got)
  <2>1. ASSUME NEW i \in 1 .. Len(got) PROVE got[i] \notin {Success, WakeUp} <=> i # 1
    <3>1. got[i] = Expected(i) /\ i \in Nat \ {0}
      BY <1>1
    <3>2. i # 1 => i - 1 \in Nat \ {0} /\ Expected(i) = <<i - 1>>
      BY <3>1 DEF Expected
    <3>3. \A n \in Nat \ {0} : <<n>> # <<0>> /\ <<n>> # <<>>
      OBVIOUS
    <3>4. i = 1 => Expected(i) = Success
      BY DEF Expected
    <3>. QED  BY <3>1, <3>2, <3>3, <3>4 DEF Success, WakeUp
  <2>. QED  BY <1>1, <2>1
<1>3. Cardinality(2 .. Len(got)) = Read
  <2>1. Cardinality(2 .. Len(got)) = IF 2 > Len(got) THEN 0 ELSE Len(got) - 2 + 1
    BY <1>1, FS_Interval
  <2>. QED  BY <1>1, <2>1 DEF IsAll
<1>. QED  BY <1>2, <1>3 DEF Read

(* A client that is told "Done" has been given every byte the task read    *)
(* from the remote, however the task ended.                                *)
THEOREM DoneIsTheTruth == Spec => []DoneMeansAllRead
BY Invariant, DoneCounts, PTL

-----------------------------------------------------------------------------
(* The link is the simple pipe.                                            *)

LinkUp    == IF ~RelayOpen THEN "over" ELSE IF got = <<>> THEN "new" ELSE "open"
LinkGiven == IF sent <= Header THEN 0 ELSE sent - Header
LinkTaken == [i \in DOMAIN delivered |-> delivered[i] - Header]

LEMMA LinkStutters ==
  ASSUME LinkUp' = LinkUp, LinkGiven' = LinkGiven, UNCHANGED <<delivered, arrived, got>>
  PROVE  UNCHANGED Link!vars
BY DEF Link!vars, LinkUp, LinkGiven

LEMMA LinkEnds ==
  ASSUME RelayOpen, ~RelayOpen', LinkGiven' = LinkGiven, UNCHANGED <<delivered, arrived, got>>
  PROVE  Link!Next
BY DEF Link!Next, Link!End, LinkGiven

LEMMA LinkGives ==
  ASSUME RelayOpen, LinkUp' \in {LinkUp, "over"}, LinkGiven' > LinkGiven,
         UNCHANGED <<delivered, arrived, got>>
  PROVE  Link!Next
BY DEF Link!Next, Link!Give, LinkUp, LinkGiven

LEMMA ClientSendsLink ==
  ASSUME IInv, NEW k \in 1 .. ClientBytes, ClientSends(k)
  PROVE  [Link!Next]_(Link!vars)
<1>1. /\ sent \in Nat /\ k \in Nat \ {0} /\ sent' = sent + k /\ Header \in Nat
      /\ RelayOpen /\ UNCHANGED <<delivered, arrived, got>>
  BY ConnectAssumption DEF ClientSends, IInv, TypeOK, RelayOpen, remoteVars
<1>2. LinkGiven' = LinkGiven \/ LinkGiven' > LinkGiven
  BY <1>1 DEF LinkGiven
<1>3. LinkUp' = LinkUp \/ (LinkUp' = "over" /\ ~RelayOpen')
  BY <1>1 DEF ClientSends, EndSession, LinkUp, RelayOpen
<1>. QED  BY <1>1, <1>2, <1>3, LinkStutters, LinkEnds, LinkGives

LEMMA SessionRelaysLink ==
  ASSUME IInv, IInv', SessionRelays
  PROVE  [Link!Next]_(Link!vars)
<1>1. /\ got \in Seq(Message) /\ RelayOpen /\ arrived \in Nat /\ Len(got) \in Nat
      /\ UNCHANGED <<sent, delivered, arrived, inbound>> /\ LinkGiven' = LinkGiven
  BY ConnectAssumption DEF SessionRelays, IInv, TypeOK, RelayOpen, remoteVars, LinkGiven
<1>2. CASE CloseDone /\ got' = got
  BY <1>1, <1>2, LinkEnds DEF CloseDone, EndSession, RelayOpen
<1>3. CASE got' = Append(got, Head(relay)) /\ session' = session
  <2>1. /\ Len(got') = Len(got) + 1 /\ got'[Len(got) + 1] = Head(relay)
        /\ Len(got) + 1 \in 1 .. Len(got')
    BY <1>1, <1>3
  <2>2. /\ \A i \in 1 .. Len(got') : got'[i] = Expected(i)
        /\ Len(got') <= Read' + 1 /\ Read' <= arrived
    BY <1>1 DEF IInv, TypeOK, Downstream, Read
  <2>3. Head(relay) = Expected(Len(got) + 1) /\ Len(got) <= arrived
    <3>1. Read' \in Nat
      BY <1>1 DEF IInv, TypeOK, Downstream, Read
    <3>2. Head(relay) = Expected(Len(got) + 1)
      BY <2>1, <2>2
    <3>. QED  BY <1>1, <2>1, <2>2, <3>1, <3>2
  <2>4. RelayOpen' /\ got' # <<>> /\ LinkUp' = "open"
    BY <1>1, <1>3, <2>1 DEF RelayOpen, LinkUp
  <2>5. CASE got = <<>>
    <3>1. Head(relay) = Success /\ got' = <<Success>>
      BY <1>3, <2>3, <2>5 DEF Expected
    <3>2. LinkUp = "new"
      BY <1>1, <2>5 DEF LinkUp
    <3>. QED  BY <1>1, <2>4, <3>1, <3>2 DEF Link!Next, Link!Establish, LinkUp, LinkGiven
  <2>6. CASE got # <<>>
    <3>1. Head(relay) = <<Len(got)>>
      BY <1>1, <2>3, <2>6 DEF Expected
    <3>2. LinkUp = "open"
      BY <1>1, <2>6 DEF LinkUp
    <3>. QED  BY <1>1, <1>3, <2>3, <2>4, <3>1, <3>2 DEF Link!Next, Link!Return, LinkUp, LinkGiven
  <2>. QED  BY <2>5, <2>6
<1>. QED  BY <1>2, <1>3 DEF SessionRelays

LEMMA SessionLink ==
  ASSUME IInv, IInv', SessionNext
  PROVE  [Link!Next]_(Link!vars)
<1>1. CASE \E k \in 1 .. ClientBytes : ClientSends(k)
  BY <1>1, ClientSendsLink
<1>2. CASE SessionRelays
  BY <1>2, SessionRelaysLink
<1>3. CASE Proxy \/ Reply \/ SessionDrops
  BY <1>3, LinkStutters DEF Proxy, Reply, SessionDrops, RelayOpen, LinkUp, LinkGiven,
                            clientVars, remoteVars
<1>4. CASE ProxyRefused \/ ReplyFails \/ ClientLeaves \/ SessionSeesRelayClosed
  BY <1>4, LinkEnds DEF ProxyRefused, ReplyFails, ClientLeaves, SessionSeesRelayClosed, CloseDone,
                        EndSession, RelayOpen, LinkGiven, clientVars, remoteVars
<1>. QED  BY <1>1, <1>2, <1>3, <1>4 DEF SessionNext

LEMMA TaskWritesLink ==
  ASSUME IInv, TaskWrites
  PROVE  Link!Take
<1>. DEFINE n == Len(delivered)
            next == [i \in DOMAIN delivered' |-> delivered'[i] - Header]
<1>1. /\ delivered' \in Seq(1 .. ClientBytes) /\ Len(delivered') = n + 1
      /\ \A i \in 1 .. Len(delivered') : delivered'[i] = Header + i
      /\ Header + Len(delivered') <= sent /\ n \in Nat
  BY OneByteDelivered
<1>2. /\ \A i \in 1 .. n : delivered[i] = Header + i
      /\ delivered \in Seq(1 .. ClientBytes) /\ Header \in Nat /\ sent \in Nat
  BY ConnectAssumption DEF IInv, TypeOK, Upstream
<1>3. UNCHANGED <<session, sent, arrived, got>>
  BY DEF TaskWrites, clientVars
<1>4. /\ LinkTaken \in Seq(Nat) /\ Len(LinkTaken) = n
      /\ \A i \in 1 .. n : LinkTaken[i] = i
  <2>1. DOMAIN delivered = 1 .. n
    BY <1>2
  <2>2. \A i \in 1 .. n : delivered[i] - Header = i
    BY <1>1, <1>2
  <2>. QED  BY <1>1, <2>1, <2>2, IsASeq DEF LinkTaken
<1>5. /\ next \in Seq(Nat) /\ Len(next) = n + 1
      /\ \A i \in 1 .. n + 1 : next[i] = i
  <2>1. DOMAIN delivered' = 1 .. n + 1
    BY <1>1
  <2>2. \A i \in 1 .. n + 1 : delivered'[i] - Header = i
    BY <1>1, <1>2
  <2>. QED  BY <1>1, <2>1, <2>2, IsASeq
<1>. HIDE DEF next
<1>6. next = Append(LinkTaken, n + 1)
  <2>1. /\ Append(LinkTaken, n + 1) \in Seq(Nat) /\ Len(Append(LinkTaken, n + 1)) = n + 1
        /\ \A i \in 1 .. n + 1 : Append(LinkTaken, n + 1)[i] = i
    BY <1>1, <1>4
  <2>. QED  BY <1>5, <2>1, SeqEqual
<1>7. n < LinkGiven
  BY <1>1, <1>2 DEF LinkGiven
<1>. QED  BY <1>3, <1>4, <1>6, <1>7 DEF Link!Take, LinkTaken, LinkGiven, next, RelayOpen

LEMMA TaskLink ==
  ASSUME IInv, TaskNext
  PROVE  [Link!Next]_(Link!vars)
<1>1. CASE TaskWrites
  BY <1>1, TaskWritesLink DEF Link!Next
<1>2. CASE ~TaskWrites
  <2>1. UNCHANGED <<session, sent, delivered, arrived, got>>
    BY <1>2 DEF TaskNext, TaskTakesHeader, TaskConnects, TaskTakesChunk, TaskReads, TaskReadsEnd,
           TaskSocketFails, TaskSeesClientGone, TaskWakesSession, clientVars, remoteVars
  <2>. QED  BY <2>1, LinkStutters DEF LinkUp, LinkGiven, RelayOpen
<1>. QED  BY <1>1, <1>2

LEMMA LinkInit == Init => Link!Init
<1>. SUFFICES ASSUME Init PROVE Link!Init
  OBVIOUS
<1>1. RelayOpen /\ got = <<>> /\ sent = 0 /\ arrived = 0 /\ delivered = <<>>
  BY DEF Init, RelayOpen
<1>2. LinkGiven = 0
  BY <1>1, ConnectAssumption DEF LinkGiven
<1>3. LinkTaken = <<>>
  <2>1. DOMAIN delivered = 1 .. 0
    BY <1>1
  <2>2. LinkTaken \in Seq(Nat) /\ Len(LinkTaken) = 0
    BY <2>1, IsASeq DEF LinkTaken
  <2>. QED  BY <2>2, EmptySeq
<1>. QED  BY <1>1, <1>2, <1>3 DEF Link!Init, LinkGiven, LinkTaken

LEMMA LinkStep == IInv /\ IInv' /\ [Next]_vars => [Link!Next]_(Link!vars)
<1>. SUFFICES ASSUME IInv, IInv', [Next]_vars PROVE [Link!Next]_(Link!vars)
  OBVIOUS
<1>1. CASE RemoteSends
  BY <1>1 DEF RemoteSends, Link!Next, Link!Offer, RelayOpen, clientVars
<1>2. CASE RemoteCloses \/ UNCHANGED vars
  <2>1. UNCHANGED <<session, sent, delivered, arrived, got>>
    BY <1>2 DEF RemoteCloses, vars, clientVars, remoteVars
  <2>. QED  BY <2>1, LinkStutters DEF LinkUp, LinkGiven, RelayOpen
<1>. QED  BY <1>1, <1>2, SessionLink, TaskLink DEF Next

(* Seen from its two ends, the link is the simple pipe: the remote takes   *)
(* what followed the header in its order, wherever the chunks were cut,    *)
(* and the client reads the reply and then the remote's bytes, in theirs.  *)
THEOREM LinkIsAPipe == Spec => ImplementsPipe
<1>1. Spec => Link!Spec
  BY LinkInit, LinkStep, Invariant, PTL DEF Spec, Link!Spec
<1>. QED  BY <1>1 DEF ImplementsPipe
=============================================================================
