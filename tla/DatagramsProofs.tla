--------------------------- MODULE DatagramsProofs ---------------------------
(***************************************************************************)
(* Proofs about frames, and about what becomes of a datagram, for bytes of *)
(* any base, addresses and prefixes of any length, any number of clients   *)
(* and messages of any length.                                             *)
(***************************************************************************)
EXTENDS Datagrams, FiniteSetTheorems, WellFoundedInduction, SequenceTheorems, TLAPS

-----------------------------------------------------------------------------
(* Numbers and sequences.                                                  *)

LEMMA Least ==
  ASSUME NEW T \in SUBSET Nat, T # {}
  PROVE  \E x \in T : \A y \in T : x <= y
<1>. DEFINE R == OpToRel(<, Nat)
<1>1. IsWellFoundedOn(R, Nat)
  BY NatLessThanWellFounded
<1>2. PICK x \in T : \A y \in T : ~(<<y, x>> \in R)
  <2>. HIDE DEF R
  <2>. QED  BY <1>1, WFMin, Zenon
<1>3. \A y \in T : ~(y < x)
  BY <1>2 DEF OpToRel
<1>. QED  BY <1>3

(* Induction up to N, said with the set of the counterexamples.            *)
LEMMA NoFirstMeansNone ==
  ASSUME NEW N \in Nat, NEW T \in SUBSET (0 .. N), \A m \in T : m # 0 /\ m - 1 \in T
  PROVE  T = {}
<1>1. SUFFICES ASSUME T # {} PROVE FALSE
  OBVIOUS
<1>2. PICK m \in T : \A y \in T : m <= y
  BY <1>1, Least
<1>3. m \in Nat /\ m <= m - 1
  BY <1>2
<1>. QED  BY <1>3

LEMMA Widths ==
  /\ Base \in Nat /\ Base > 1 /\ Base * Base \in Nat /\ AddressLen \in Nat
  /\ Len(Magic) \in Nat /\ HeaderLen = Len(Magic) + AddressLen + 4 /\ HeaderLen \in Nat
  /\ Len(Mapped) \in Nat /\ Len(Mapped) >= 1 /\ Len(Mapped) < AddressLen
  /\ Len(Prefix) \in Nat /\ Len(Prefix) >= 1 /\ Len(Prefix) <= Len(Mapped)
BY FrameAssumption DEF HeaderLen

LEMMA MulMono == ASSUME NEW a \in Nat, NEW b \in Nat, NEW c \in Nat, a <= b PROVE a * c <= b * c
OBVIOUS

LEMMA HighLow ==
  ASSUME NEW n \in U16
  PROVE  n \div Base \in Byte /\ n % Base \in Byte /\ (n \div Base) * Base + (n % Base) = n
<1>1. n \in Nat /\ Base \in Nat /\ Base > 0 /\ n < Base * Base /\ Base*Base \in Nat
  BY Widths DEF U16
<1>a. n % Base \in 0 .. Base - 1
  BY <1>1
<1>b. n \div Base \in Int
  BY <1>1
<1>3. (n \div Base) * Base + (n % Base) = n
  <2>1. n % Base = n - Base * (n \div Base)
    BY <1>1
  <2>. QED BY <2>1, <1>1, <1>a, <1>b
<1>c. n \div Base >= 0
  BY <1>1
<1>2. n % Base \in 0 .. Base - 1 /\ n \div Base \in Nat
  BY <1>a, <1>b, <1>c
<1>4. n \div Base < Base
  <2>1. SUFFICES ASSUME n \div Base >= Base PROVE FALSE
    BY <1>1, <1>2
  <2>2. Base * Base <= (n \div Base) * Base
    BY <1>1, <1>2, <2>1, MulMono
  <2>. QED BY <1>1, <1>2, <1>3, <2>2
<1>. QED BY <1>1, <1>2, <1>3, <1>4 DEF Byte

LEMMA Join ==
  ASSUME NEW a \in Byte, NEW b \in Byte
  PROVE  /\ a * Base + b \in U16 /\ (a * Base + b) \div Base = a /\ (a * Base + b) % Base = b
<1>1. a \in Nat /\ b \in Nat /\ Base \in Nat /\ a + 1 <= Base /\ b < Base /\ Base > 0
  BY Widths DEF Byte
<1>2. (a + 1) * Base <= Base * Base
  BY <1>1, MulMono
<1>3. (a + 1) * Base = a * Base + Base /\ a * Base \in Nat /\ Base * Base \in Nat
  BY <1>1
<1>4. a * Base + b \in U16
  BY <1>1, <1>2, <1>3 DEF U16
<1>5. (a * Base + b) \div Base = a
  BY <1>1, <1>3
<1>6. (a * Base + b) % Base = b
  BY <1>1, <1>3
<1>. QED BY <1>4, <1>5, <1>6

LEMMA ConcatParts ==
  ASSUME NEW S, NEW s \in Seq(S), NEW t \in Seq(S)
  PROVE  /\ s \o t \in Seq(S) /\ Len(s \o t) = Len(s) + Len(t)
         /\ Len(s) \in Nat /\ Len(t) \in Nat
         /\ \A i \in 1 .. Len(s) : (s \o t)[i] = s[i]
         /\ \A i \in 1 .. Len(t) : (s \o t)[Len(s) + i] = t[i]
<1>1. Len(s) \in Nat /\ Len(t) \in Nat
  OBVIOUS
<1>2. /\ s \o t \in Seq(S) /\ Len(s \o t) = Len(s) + Len(t)
      /\ \A i \in 1 .. Len(s) + Len(t) :
           (s \o t)[i] = IF i <= Len(s) THEN s[i] ELSE t[i - Len(s)]
  BY ConcatProperties
<1>3. \A i \in 1 .. Len(s) : (s \o t)[i] = s[i]
  BY <1>1, <1>2
<1>4. ASSUME NEW i \in 1 .. Len(t) PROVE (s \o t)[Len(s) + i] = t[i]
  <2>1. Len(s) + i \in 1 .. Len(s) + Len(t) /\ ~(Len(s) + i <= Len(s)) /\ Len(s) + i - Len(s) = i
    BY <1>1
  <2>. QED  BY <1>2, <2>1
<1>. QED  BY <1>1, <1>2, <1>3, <1>4

(* A part of a sequence, by its place and length.                          *)
LEMMA PartOf ==
  ASSUME NEW S, NEW s \in Seq(S), NEW at \in Nat, NEW n \in Nat, at + n <= Len(s)
  PROVE  /\ SubSeq(s, at + 1, at + n) \in Seq(S)
         /\ Len(SubSeq(s, at + 1, at + n)) = n
         /\ \A i \in 1 .. n : SubSeq(s, at + 1, at + n)[i] = s[at + i]
<1>1. /\ at + 1 \in Int /\ at + n \in Int /\ Len(s) \in Nat
      /\ \A i \in at + 1 .. at + n : i \in 1 .. Len(s)
  OBVIOUS
<1>2. \A i \in at + 1 .. at + n : s[i] \in S
  BY <1>1, ElementOfSeq
<1>3. /\ SubSeq(s, at + 1, at + n) \in Seq(S)
      /\ Len(SubSeq(s, at + 1, at + n)) =
           IF at + 1 <= at + n THEN at + n - (at + 1) + 1 ELSE 0
      /\ \A i \in 1 .. at + n - (at + 1) + 1 :
           SubSeq(s, at + 1, at + n)[i] = s[at + 1 + i - 1]
  BY <1>1, <1>2, SubSeqProperties
<1>4. (IF at + 1 <= at + n THEN at + n - (at + 1) + 1 ELSE 0) = n
  OBVIOUS
<1>5. \A i \in 1 .. n : at + 1 + i - 1 = at + i /\ i \in 1 .. at + n - (at + 1) + 1
  OBVIOUS
<1>. QED  BY <1>3, <1>4, <1>5

-----------------------------------------------------------------------------
(* Frames.                                                                 *)

(* The bytes of a frame whose payload fits.                                *)
Encoded(frame) ==
  Magic \o frame.peer_ip \o PutU16(frame.peer_port) \o PutU16(Len(frame.data)) \o frame.data

Fits(frame) == frame \in Frame /\ Len(frame.data) \in U16

LEMMA PutU16Type ==
  ASSUME NEW n \in U16
  PROVE  /\ PutU16(n) \in Seq(Byte) /\ Len(PutU16(n)) = 2
         /\ PutU16(n)[1] = n \div Base /\ PutU16(n)[2] = n % Base
BY HighLow DEF PutU16

(* Where each field of a frame is among its bytes.                         *)
LEMMA EncodedFields ==
  ASSUME NEW frame, Fits(frame)
  PROVE  LET bytes == Encoded(frame)
             n     == Len(frame.data)
         IN  /\ bytes \in Seq(Byte) /\ Len(bytes) = HeaderLen + n /\ n \in Nat
             /\ \A i \in 1 .. Len(Magic) : bytes[i] = Magic[i]
             /\ \A i \in 1 .. AddressLen : bytes[Len(Magic) + i] = frame.peer_ip[i]
             /\ bytes[PortAt] = frame.peer_port \div Base
             /\ bytes[PortAt + 1] = frame.peer_port % Base
             /\ bytes[PortAt + 2] = n \div Base
             /\ bytes[PortAt + 3] = n % Base
             /\ \A i \in 1 .. n : bytes[HeaderLen + i] = frame.data[i]
<1>. DEFINE m  == Len(Magic)
            a  == Magic \o frame.peer_ip
            b  == a \o PutU16(frame.peer_port)
            c  == b \o PutU16(Len(frame.data))
            d  == c \o frame.data
<1>1. /\ frame.peer_ip \in [1 .. AddressLen -> Byte] /\ frame.peer_port \in U16
      /\ frame.data \in Seq(Byte) /\ Len(frame.data) \in U16
  BY DEF Fits, Frame, Ipv6
<1>2. frame.peer_ip \in Seq(Byte) /\ Len(frame.peer_ip) = AddressLen /\ Magic \in Seq(Byte)
  <2>. DEFINE ip == frame.peer_ip
  <2>1. ip \in [1 .. AddressLen -> Byte] /\ AddressLen \in Nat
    BY <1>1, Widths
  <2>2. Magic \in Seq(Byte)
    BY FrameAssumption
  <2>. HIDE DEF ip
  <2>3. ip \in Seq(Byte) /\ Len(ip) = AddressLen
    BY <2>1
  <2>. QED  BY <2>2, <2>3 DEF ip
<1>2a. frame.peer_ip \in Seq(Byte) /\ Magic \in Seq(Byte)
  BY <1>2
<1>3. m \in Nat /\ AddressLen \in Nat /\ Len(frame.data) \in Nat
  BY <1>1, Widths
<1>4. /\ a \in Seq(Byte) /\ Len(a) = m + AddressLen
      /\ \A i \in 1 .. m : a[i] = Magic[i]
      /\ \A i \in 1 .. AddressLen : a[m + i] = frame.peer_ip[i]
  <2>. DEFINE ip == frame.peer_ip
  <2>0. ip \in Seq(Byte) /\ Magic \in Seq(Byte) /\ a = Magic \o ip
    BY <1>2a
  <2>. HIDE DEF ip, a
  <2>1. /\ a \in Seq(Byte) /\ Len(a) = Len(Magic) + Len(ip)
        /\ \A i \in 1 .. Len(Magic) : a[i] = Magic[i]
    BY <2>0, ConcatParts, Zenon
  <2>2. \A i \in 1 .. Len(ip) : a[Len(Magic) + i] = ip[i]
    BY <2>0, ConcatParts
  <2>. QED  BY <1>2, <2>1, <2>2 DEF ip
<1>. HIDE DEF a
<1>5. /\ b \in Seq(Byte) /\ Len(b) = m + AddressLen + 2
      /\ \A i \in 1 .. m + AddressLen : b[i] = a[i]
      /\ b[m + AddressLen + 1] = frame.peer_port \div Base
      /\ b[m + AddressLen + 2] = frame.peer_port % Base
  <2>1. /\ PutU16(frame.peer_port) \in Seq(Byte) /\ Len(PutU16(frame.peer_port)) = 2
        /\ PutU16(frame.peer_port)[1] = frame.peer_port \div Base
        /\ PutU16(frame.peer_port)[2] = frame.peer_port % Base
    BY <1>1, PutU16Type
  <2>. DEFINE port == PutU16(frame.peer_port)
  <2>a. a \in Seq(Byte) /\ port \in Seq(Byte) /\ b = a \o port
    BY <1>4, <2>1
  <2>. HIDE DEF port, b
  <2>2. /\ b \in Seq(Byte) /\ Len(b) = Len(a) + Len(port)
        /\ \A i \in 1 .. Len(a) : b[i] = a[i]
    BY <2>a, ConcatParts, Zenon
  <2>3. \A i \in 1 .. Len(port) : b[Len(a) + i] = port[i]
    BY <2>a, ConcatParts
  <2>4. 1 \in 1 .. 2 /\ 2 \in 1 .. 2
    OBVIOUS
  <2>. QED  BY <1>4, <2>1, <2>2, <2>3, <2>4 DEF port
<1>. HIDE DEF b
<1>6. /\ c \in Seq(Byte) /\ Len(c) = m + AddressLen + 2 + 2
      /\ \A i \in 1 .. m + AddressLen + 2 : c[i] = b[i]
      /\ c[m + AddressLen + 2 + 1] = Len(frame.data) \div Base
      /\ c[m + AddressLen + 2 + 2] = Len(frame.data) % Base
  <2>1. /\ PutU16(Len(frame.data)) \in Seq(Byte) /\ Len(PutU16(Len(frame.data))) = 2
        /\ PutU16(Len(frame.data))[1] = Len(frame.data) \div Base
        /\ PutU16(Len(frame.data))[2] = Len(frame.data) % Base
    BY <1>1, PutU16Type
  <2>. DEFINE len == PutU16(Len(frame.data))
  <2>a. b \in Seq(Byte) /\ len \in Seq(Byte) /\ c = b \o len
    BY <1>5, <2>1
  <2>. HIDE DEF len, c
  <2>2. /\ c \in Seq(Byte) /\ Len(c) = Len(b) + Len(len)
        /\ \A i \in 1 .. Len(b) : c[i] = b[i]
    BY <2>a, ConcatParts, Zenon
  <2>3. \A i \in 1 .. Len(len) : c[Len(b) + i] = len[i]
    BY <2>a, ConcatParts
  <2>4. 1 \in 1 .. 2 /\ 2 \in 1 .. 2
    OBVIOUS
  <2>. QED  BY <1>5, <2>1, <2>2, <2>3, <2>4 DEF len
<1>. HIDE DEF c
<1>7. /\ d \in Seq(Byte) /\ Len(d) = HeaderLen + Len(frame.data)
      /\ \A i \in 1 .. HeaderLen : d[i] = c[i]
      /\ \A i \in 1 .. Len(frame.data) : d[HeaderLen + i] = frame.data[i]
  <2>1. Len(c) = HeaderLen
    BY <1>6 DEF HeaderLen
  <2>. DEFINE data == frame.data
  <2>a. c \in Seq(Byte) /\ data \in Seq(Byte) /\ d = c \o data
    BY <1>1, <1>6
  <2>. HIDE DEF data, d
  <2>2. /\ d \in Seq(Byte) /\ Len(d) = Len(c) + Len(data)
        /\ \A i \in 1 .. Len(c) : d[i] = c[i]
    BY <2>a, ConcatParts, Zenon
  <2>3. \A i \in 1 .. Len(data) : d[Len(c) + i] = data[i]
    BY <2>a, ConcatParts
  <2>. QED  BY <2>1, <2>2, <2>3 DEF data
<1>. HIDE DEF d
<1>8. /\ \A i \in 1 .. m : d[i] = Magic[i]
      /\ \A i \in 1 .. AddressLen : d[m + i] = frame.peer_ip[i]
      /\ d[PortAt] = frame.peer_port \div Base /\ d[PortAt + 1] = frame.peer_port % Base
      /\ d[PortAt + 2] = Len(frame.data) \div Base /\ d[PortAt + 3] = Len(frame.data) % Base
  <2>1. /\ HeaderLen = m + AddressLen + 4 /\ PortAt = m + AddressLen + 1
        /\ PortAt + 1 = m + AddressLen + 2 /\ PortAt + 2 = m + AddressLen + 2 + 1
        /\ PortAt + 3 = m + AddressLen + 2 + 2
    BY <1>3 DEF HeaderLen, PortAt
  <2>2. \A i \in 1 .. m + AddressLen : d[i] = a[i]
    <3>1. \A i \in 1 .. m + AddressLen : i \in 1 .. m + AddressLen + 2 /\ i \in 1 .. HeaderLen
      BY <1>3, <2>1
    <3>2. \A i \in 1 .. m + AddressLen : d[i] = c[i] /\ c[i] = b[i] /\ b[i] = a[i]
      BY <1>5, <1>6, <1>7, <3>1
    <3>. QED  BY <3>2
  <2>3. \A i \in 1 .. AddressLen : m + i \in 1 .. m + AddressLen
    BY <1>3
  <2>4. /\ m + AddressLen + 1 \in 1 .. m + AddressLen + 2
        /\ m + AddressLen + 2 \in 1 .. m + AddressLen + 2
        /\ \A i \in 1 .. m + AddressLen + 2 : i \in 1 .. HeaderLen
        /\ m + AddressLen + 2 + 1 \in 1 .. HeaderLen /\ m + AddressLen + 2 + 2 \in 1 .. HeaderLen
    BY <1>3, <2>1
  <2>5. \A i \in 1 .. m : d[i] = Magic[i]
    <3>1. \A i \in 1 .. m : i \in 1 .. m + AddressLen
      BY <1>3
    <3>. QED  BY <1>4, <2>2, <3>1
  <2>6. \A i \in 1 .. AddressLen : d[m + i] = frame.peer_ip[i]
    BY <1>4, <2>2, <2>3
  <2>7. d[PortAt] = frame.peer_port \div Base /\ d[PortAt + 1] = frame.peer_port % Base
    BY <1>5, <1>6, <1>7, <2>1, <2>4
  <2>8. d[PortAt + 2] = Len(frame.data) \div Base /\ d[PortAt + 3] = Len(frame.data) % Base
    BY <1>6, <1>7, <2>1, <2>4
  <2>. QED  BY <2>5, <2>6, <2>7, <2>8
<1>9. d = Encoded(frame)
  BY DEF Encoded, a, b, c, d
<1>. QED  BY <1>3, <1>7, <1>8, <1>9

LEMMA EncodeFits ==
  ASSUME NEW frame, Fits(frame)
  PROVE  Encode(frame) = {Encoded(frame)}
BY DEF Fits, Encode, Encoded

(* What is encoded is decoded to what it was.                              *)
LEMMA DecodeEncoded ==
  ASSUME NEW frame, Fits(frame)
  PROVE  Decode(Encoded(frame)) = {frame}
<1>. DEFINE bytes == Encoded(frame)
            n     == Len(frame.data)
<1>1. /\ bytes \in Seq(Byte) /\ Len(bytes) = HeaderLen + n /\ n \in Nat
      /\ \A i \in 1 .. Len(Magic) : bytes[i] = Magic[i]
      /\ \A i \in 1 .. AddressLen : bytes[Len(Magic) + i] = frame.peer_ip[i]
      /\ bytes[PortAt] = frame.peer_port \div Base
      /\ bytes[PortAt + 1] = frame.peer_port % Base
      /\ bytes[PortAt + 2] = n \div Base
      /\ bytes[PortAt + 3] = n % Base
      /\ \A i \in 1 .. n : bytes[HeaderLen + i] = frame.data[i]
  BY EncodedFields
<1>2. /\ frame.peer_ip \in [1 .. AddressLen -> Byte] /\ frame.peer_port \in U16
      /\ frame.data \in Seq(Byte) /\ n \in U16
      /\ frame = [peer_ip |-> frame.peer_ip, peer_port |-> frame.peer_port, data |-> frame.data]
  BY DEF Fits, Frame, Ipv6
<1>3. /\ frame.peer_ip \in Seq(Byte) /\ Len(frame.peer_ip) = AddressLen /\ Magic \in Seq(Byte)
      /\ Len(Magic) \in Nat /\ AddressLen \in Nat /\ HeaderLen \in Nat
      /\ HeaderLen = Len(Magic) + AddressLen + 4
  <2>1. /\ Len(Magic) \in Nat /\ AddressLen \in Nat /\ HeaderLen \in Nat
        /\ HeaderLen = Len(Magic) + AddressLen + 4
    BY Widths
  <2>2. Magic \in Seq(Byte)
    BY FrameAssumption
  <2>3. frame.peer_ip \in Seq(Byte) /\ Len(frame.peer_ip) = AddressLen
    BY <1>2, <2>1
  <2>. QED  BY <2>1, <2>2, <2>3
<1>. HIDE DEF bytes, n
<1>4. SubSeq(bytes, 1, Len(Magic)) = Magic
  <2>1. /\ SubSeq(bytes, 0 + 1, 0 + Len(Magic)) \in Seq(Byte)
        /\ Len(SubSeq(bytes, 0 + 1, 0 + Len(Magic))) = Len(Magic)
        /\ \A i \in 1 .. Len(Magic) : SubSeq(bytes, 0 + 1, 0 + Len(Magic))[i] = bytes[0 + i]
    BY <1>1, <1>3, PartOf
  <2>2. 0 + 1 = 1 /\ 0 + Len(Magic) = Len(Magic) /\ \A i \in 1 .. Len(Magic) : 0 + i = i
    BY <1>3
  <2>. QED  BY <1>1, <1>3, <2>1, <2>2, SeqEqual
<1>5. SubSeq(bytes, Len(Magic) + 1, Len(Magic) + AddressLen) = frame.peer_ip
  <2>. DEFINE ip == SubSeq(bytes, Len(Magic) + 1, Len(Magic) + AddressLen)
  <2>1. /\ ip \in Seq(Byte) /\ Len(ip) = AddressLen
        /\ \A i \in 1 .. AddressLen : ip[i] = bytes[Len(Magic) + i]
    BY <1>1, <1>3, PartOf
  <2>. HIDE DEF ip
  <2>2. \A i \in 1 .. Len(ip) : ip[i] = frame.peer_ip[i]
    BY <1>1, <2>1
  <2>3. ip = frame.peer_ip
    BY <1>3, <2>1, <2>2, SeqEqual
  <2>. QED  BY <2>3 DEF ip
<1>6. SubSeq(bytes, HeaderLen + 1, Len(bytes)) = frame.data
  <2>. DEFINE data == SubSeq(bytes, HeaderLen + 1, HeaderLen + n)
  <2>1. /\ data \in Seq(Byte) /\ Len(data) = n
        /\ \A i \in 1 .. n : data[i] = bytes[HeaderLen + i]
    BY <1>1, <1>3, PartOf
  <2>. HIDE DEF data
  <2>2. \A i \in 1 .. Len(data) : data[i] = frame.data[i]
    BY <1>1, <2>1
  <2>3. data = frame.data
    BY <1>2, <2>1, <2>2, SeqEqual DEF n
  <2>. QED  BY <1>1, <2>3 DEF data
<1>7. GetU16(bytes, PortAt) = frame.peer_port /\ GetU16(bytes, PortAt + 2) = n
  <2>1. PortAt + 2 + 1 = PortAt + 3
    BY <1>3 DEF PortAt
  <2>. QED  BY <1>1, <1>2, <2>1, HighLow DEF GetU16
<1>8. Decoded(bytes) = frame
  BY <1>2, <1>5, <1>6, <1>7 DEF Decoded
<1>9. Len(bytes) >= HeaderLen /\ Len(bytes) - HeaderLen = n
  BY <1>1, <1>3
<1>10. Decode(bytes) = {frame}
  BY <1>4, <1>7, <1>8, <1>9 DEF Decode
<1>. QED  BY <1>10 DEF bytes

(* What is decoded is the encoding of what it is decoded to, to the last   *)
(* byte.                                                                   *)
LEMMA EncodedDecoded ==
  ASSUME NEW bytes \in Seq(Byte), Decode(bytes) # {}
  PROVE  /\ Decode(bytes) = {Decoded(bytes)} /\ Fits(Decoded(bytes))
         /\ Encoded(Decoded(bytes)) = bytes
         /\ Len(bytes) = HeaderLen + Len(Decoded(bytes).data)
<1>. DEFINE frame == Decoded(bytes)
            n     == Len(bytes) - HeaderLen
<1>1. /\ Len(bytes) >= HeaderLen /\ SubSeq(bytes, 1, Len(Magic)) = Magic
      /\ n = GetU16(bytes, PortAt + 2) /\ Decode(bytes) = {frame}
  BY DEF Decode
<1>2. /\ Len(Magic) \in Nat /\ AddressLen \in Nat /\ HeaderLen \in Nat /\ Len(bytes) \in Nat
      /\ HeaderLen = Len(Magic) + AddressLen + 4 /\ PortAt = Len(Magic) + AddressLen + 1
  BY Widths DEF PortAt
<1>3. n \in Nat /\ Len(bytes) = HeaderLen + n
  BY <1>1, <1>2
<1>4. /\ frame.peer_ip = SubSeq(bytes, Len(Magic) + 1, Len(Magic) + AddressLen)
      /\ frame.peer_port = GetU16(bytes, PortAt)
      /\ frame.data = SubSeq(bytes, HeaderLen + 1, HeaderLen + n)
      /\ frame = [peer_ip |-> frame.peer_ip, peer_port |-> frame.peer_port, data |-> frame.data]
  BY <1>3 DEF Decoded
<1>. HIDE DEF frame, n
<1>5. /\ frame.peer_ip \in Seq(Byte) /\ Len(frame.peer_ip) = AddressLen
      /\ \A i \in 1 .. AddressLen : frame.peer_ip[i] = bytes[Len(Magic) + i]
  <2>. DEFINE ip == SubSeq(bytes, Len(Magic) + 1, Len(Magic) + AddressLen)
  <2>1. Len(Magic) + AddressLen <= Len(bytes)
    BY <1>2, <1>3
  <2>2. /\ ip \in Seq(Byte) /\ Len(ip) = AddressLen
        /\ \A i \in 1 .. AddressLen : ip[i] = bytes[Len(Magic) + i]
    BY <1>2, <2>1, PartOf
  <2>3. frame.peer_ip = ip
    BY <1>4
  <2>. HIDE DEF ip
  <2>. QED  BY <2>2, <2>3
<1>6. /\ frame.data \in Seq(Byte) /\ Len(frame.data) = n
      /\ \A i \in 1 .. n : frame.data[i] = bytes[HeaderLen + i]
  <2>. DEFINE data == SubSeq(bytes, HeaderLen + 1, HeaderLen + n)
  <2>1. HeaderLen + n <= Len(bytes)
    BY <1>2, <1>3
  <2>2. /\ data \in Seq(Byte) /\ Len(data) = n
        /\ \A i \in 1 .. n : data[i] = bytes[HeaderLen + i]
    BY <1>2, <1>3, <2>1, PartOf
  <2>3. frame.data = data
    BY <1>4
  <2>. HIDE DEF data
  <2>. QED  BY <2>2, <2>3
<1>7. \A i \in 1 .. Len(Magic) : Magic[i] = bytes[i]
  <2>1. \A i \in 1 .. Len(Magic) : SubSeq(bytes, 0 + 1, 0 + Len(Magic))[i] = bytes[0 + i]
    BY <1>2, <1>3, PartOf
  <2>2. 0 + 1 = 1 /\ 0 + Len(Magic) = Len(Magic) /\ \A i \in 1 .. Len(Magic) : 0 + i = i
    BY <1>2
  <2>. QED  BY <1>1, <2>1, <2>2
<1>8. /\ bytes[PortAt] \in Byte /\ bytes[PortAt + 1] \in Byte
      /\ bytes[PortAt + 2] \in Byte /\ bytes[PortAt + 3] \in Byte
  <2>1. /\ PortAt \in 1 .. Len(bytes) /\ PortAt + 1 \in 1 .. Len(bytes)
        /\ PortAt + 2 \in 1 .. Len(bytes) /\ PortAt + 3 \in 1 .. Len(bytes)
    BY <1>2, <1>3
  <2>. QED  BY <2>1, ElementOfSeq
<1>9. /\ frame.peer_port \in U16 /\ n \in U16
      /\ frame.peer_port \div Base = bytes[PortAt] /\ frame.peer_port % Base = bytes[PortAt + 1]
      /\ n \div Base = bytes[PortAt + 2] /\ n % Base = bytes[PortAt + 3]
  <2>1. PortAt + 2 + 1 = PortAt + 3
    BY <1>2
  <2>2. /\ frame.peer_port = bytes[PortAt] * Base + bytes[PortAt + 1]
        /\ n = bytes[PortAt + 2] * Base + bytes[PortAt + 3]
    BY <1>1, <1>4, <2>1 DEF GetU16
  <2>. QED  BY <1>8, <2>2, Join
<1>10. Fits(frame)
  <2>1. frame.peer_ip \in Ipv6
    BY <1>5 DEF Ipv6
  <2>. QED  BY <1>4, <1>6, <1>9, <2>1 DEF Fits, Frame
<1>11. Encoded(frame) = bytes
  <2>. DEFINE again == Encoded(frame)
  <2>1. /\ again \in Seq(Byte) /\ Len(again) = HeaderLen + n
        /\ \A i \in 1 .. Len(Magic) : again[i] = Magic[i]
        /\ \A i \in 1 .. AddressLen : again[Len(Magic) + i] = frame.peer_ip[i]
        /\ again[PortAt] = frame.peer_port \div Base
        /\ again[PortAt + 1] = frame.peer_port % Base
        /\ again[PortAt + 2] = n \div Base
        /\ again[PortAt + 3] = n % Base
        /\ \A i \in 1 .. n : again[HeaderLen + i] = frame.data[i]
    BY <1>6, <1>10, EncodedFields
  <2>. HIDE DEF again
  <2>2. ASSUME NEW i \in 1 .. HeaderLen + n PROVE again[i] = bytes[i]
    <3>1. CASE i \in 1 .. Len(Magic)
      BY <1>7, <2>1, <3>1
    <3>2. CASE i - Len(Magic) \in 1 .. AddressLen
      <4>1. Len(Magic) + (i - Len(Magic)) = i
        BY <1>2
      <4>2. again[Len(Magic) + (i - Len(Magic))] = bytes[Len(Magic) + (i - Len(Magic))]
        BY <1>5, <2>1, <3>2
      <4>. QED  BY <4>1, <4>2
    <3>3. CASE i - HeaderLen \in 1 .. n
      <4>1. HeaderLen + (i - HeaderLen) = i
        BY <1>2
      <4>2. again[HeaderLen + (i - HeaderLen)] = bytes[HeaderLen + (i - HeaderLen)]
        BY <1>6, <2>1, <3>3
      <4>. QED  BY <4>1, <4>2
    <3>4. CASE i \in {PortAt, PortAt + 1, PortAt + 2, PortAt + 3}
      BY <1>9, <2>1, <3>4
    <3>. QED  BY <1>2, <1>3, <3>1, <3>2, <3>3, <3>4
  <2>3. again = bytes
    BY <1>3, <2>1, <2>2, SeqEqual
  <2>. QED  BY <2>3 DEF again
<1>. QED  BY <1>1, <1>3, <1>6, <1>10, <1>11 DEF frame

-----------------------------------------------------------------------------
(* Addresses.                                                              *)

LEMMA Ipv6Sequence ==
  ASSUME NEW x \in Ipv6
  PROVE  x \in Seq(Byte) /\ Len(x) = AddressLen
BY Widths DEF Ipv6

(* What to_peer() does to an address, peer() undoes, and back.             *)
LEMMA ToFromIpv6 ==
  ASSUME NEW x \in Ipv6
  PROVE  FromIpv6(x) \in Ipv4 \cup Ipv6 /\ ToIpv6(FromIpv6(x)) = x
<1>1. /\ x \in Seq(Byte) /\ Len(x) = AddressLen /\ AddressLen \in Nat
      /\ Mapped \in Seq(Byte) /\ Len(Mapped) \in Nat /\ Len(Mapped) >= 1
      /\ Len(Mapped) < AddressLen
  BY Widths, FrameAssumption, Ipv6Sequence
<1>2. CASE ~IsMapped(x)
  <2>1. FromIpv6(x) = x /\ ~Is4(x)
    BY <1>1, <1>2 DEF FromIpv6, Is4
  <2>. QED  BY <2>1 DEF ToIpv6
<1>3. CASE IsMapped(x)
  <2>. DEFINE l == Len(Mapped)
              n == AddressLen - Len(Mapped)
              y == SubSeq(x, l + 1, l + n)
  <2>1. l \in Nat /\ n \in Nat /\ l + n = AddressLen /\ l + n <= Len(x) /\ l <= Len(x)
    BY <1>1
  <2>2. FromIpv6(x) = y
    BY <1>3, <2>1 DEF FromIpv6
  <2>3. y \in Seq(Byte) /\ Len(y) = n /\ \A i \in 1 .. n : y[i] = x[l + i]
    <3>. HIDE DEF l, n
    <3>. QED  BY <1>1, <2>1, PartOf
  <2>4. \A i \in 1 .. l : x[i] = Mapped[i]
    <3>. DEFINE m == SubSeq(x, 0 + 1, 0 + l)
    <3>1. \A i \in 1 .. l : m[i] = x[0 + i]
      <4>. HIDE DEF l
      <4>. QED  BY <1>1, <2>1, PartOf
    <3>2. 0 + 1 = 1 /\ 0 + l = l /\ \A i \in 1 .. l : 0 + i = i
      BY <2>1
    <3>3. m = Mapped
      BY <1>3, <3>2 DEF IsMapped
    <3>. HIDE DEF m, l
    <3>. QED  BY <3>1, <3>2, <3>3
  <2>. HIDE DEF y
  <2>5. y \in Ipv4
    <3>1. y \in [1 .. Len(y) -> Byte]
      BY <2>3
    <3>. QED  BY <2>3, <3>1 DEF Ipv4
  <2>6. ToIpv6(y) = Mapped \o y
    BY <2>3 DEF ToIpv6, Is4
  <2>7. Mapped \o y = x
    <3>. DEFINE z == Mapped \o y
    <3>1. /\ z \in Seq(Byte) /\ Len(z) = l + Len(y)
          /\ \A i \in 1 .. l : z[i] = Mapped[i]
      <4>1. Mapped \in Seq(Byte) /\ y \in Seq(Byte)
        BY <1>1, <2>3
      <4>2. /\ z \in Seq(Byte) /\ Len(z) = Len(Mapped) + Len(y)
            /\ \A i \in 1 .. Len(Mapped) : z[i] = Mapped[i]
        <5>. HIDE DEF l, n
        <5>. QED  BY <4>1, ConcatParts, Zenon
      <4>. QED  BY <4>2
    <3>2. \A i \in 1 .. Len(y) : z[l + i] = y[i]
      BY <1>1, <2>3, ConcatParts
    <3>. HIDE DEF z
    <3>3. ASSUME NEW i \in 1 .. Len(z) PROVE z[i] = x[i]
      <4>. HIDE DEF l, n
      <4>1. CASE i <= l
        BY <2>1, <2>4, <3>1, <4>1
      <4>2. CASE ~(i <= l)
        <5>1. i - l \in 1 .. n /\ l + (i - l) = i
          BY <2>1, <2>3, <3>1, <4>2
        <5>2. z[l + (i - l)] = x[l + (i - l)]
          BY <2>3, <3>2, <5>1
        <5>. QED  BY <5>1, <5>2
      <4>. QED  BY <4>1, <4>2
    <3>4. Len(z) = Len(x)
      BY <1>1, <2>1, <2>3, <3>1
    <3>5. z = x
      BY <1>1, <3>1, <3>3, <3>4, SeqEqual
    <3>. QED  BY <3>5 DEF z
  <2>. QED  BY <2>2, <2>5, <2>6, <2>7
<1>. QED  BY <1>2, <1>3

(* An address of the network is not an IPv4-mapped one.                    *)
LEMMA NetworkNotMapped ==
  ASSUME NEW x \in Ipv6, IsNetworkAddress(x)
  PROVE  ~IsMapped(x) /\ FromIpv6(x) = x /\ StaysInside(x)
<1>1. /\ x \in Seq(Byte) /\ Len(x) = AddressLen /\ AddressLen \in Nat
      /\ Mapped \in Seq(Byte) /\ Len(Mapped) \in Nat /\ Len(Mapped) >= 1
      /\ Len(Mapped) < AddressLen /\ Len(Prefix) \in Nat /\ Len(Prefix) <= Len(Mapped)
      /\ SubSeq(Mapped, 1, Len(Prefix)) # Prefix
  BY Widths, FrameAssumption, Ipv6Sequence
<1>2. ASSUME IsMapped(x) PROVE FALSE
  <2>. DEFINE p == Len(Prefix)
              l == Len(Mapped)
              y == SubSeq(x, 0 + 1, 0 + l)
              u == SubSeq(x, 0 + 1, 0 + p)
              v == SubSeq(y, 0 + 1, 0 + p)
  <2>1. p \in Nat /\ l \in Nat /\ 0 \in Nat /\ 0 + l <= Len(x) /\ 0 + p <= Len(x)
    BY <1>1
  <2>2. 0 + 1 = 1 /\ 0 + l = l /\ 0 + p = p
    BY <2>1
  <2>3. y = Mapped
    BY <1>2, <2>2 DEF IsMapped
  <2>4. u = Prefix
    BY <2>2 DEF IsNetworkAddress
  <2>5. v # Prefix
    BY <1>1, <2>2, <2>3
  <2>. HIDE DEF p, l
  <2>6. y \in Seq(Byte) /\ Len(y) = l /\ \A i \in 1 .. l : y[i] = x[0 + i]
    BY <1>1, <2>1, PartOf
  <2>7. u \in Seq(Byte) /\ Len(u) = p /\ \A i \in 1 .. p : u[i] = x[0 + i]
    BY <1>1, <2>1, PartOf
  <2>. HIDE DEF y, u
  <2>8. 0 + p <= Len(y)
    BY <1>1, <2>1, <2>6 DEF p, l
  <2>9. v \in Seq(Byte) /\ Len(v) = p /\ \A i \in 1 .. p : v[i] = y[0 + i]
    BY <2>1, <2>6, <2>8, PartOf
  <2>. HIDE DEF v
  <2>10. \A i \in 1 .. p : 0 + i = i /\ i \in 1 .. l
    BY <1>1, <2>1 DEF p, l
  <2>11. \A i \in 1 .. Len(u) : u[i] = v[i]
    BY <2>6, <2>7, <2>9, <2>10
  <2>12. u = v
    BY <2>7, <2>9, <2>11, SeqEqual
  <2>. QED  BY <2>4, <2>5, <2>12
<1>3. FromIpv6(x) = x /\ ~Is4(x)
  BY <1>1, <1>2 DEF FromIpv6, Is4
<1>. QED  BY <1>2, <1>3 DEF StaysInside

Zeros == [i \in 1 .. AddressLen - Len(Prefix) - LowLen |-> 0]

(* Where the parts of an address of the network are.                       *)
LEMMA NetworkAddressParts ==
  ASSUME NEW low \in Low
  PROVE  /\ NetworkAddress(low) \in Ipv6 /\ IsNetworkAddress(NetworkAddress(low))
         /\ \A i \in 1 .. LowLen : NetworkAddress(low)[AddressLen - LowLen + i] = low[i]
<1>. DEFINE p == Len(Prefix)
            n == AddressLen - Len(Prefix) - LowLen
            a == Prefix \o Zeros
            x == a \o low
<1>1. /\ AddressLen \in Nat /\ p \in Nat /\ p >= 1 /\ n \in Nat /\ LowLen \in Nat
      /\ p + n + LowLen = AddressLen /\ Prefix \in Seq(Byte) /\ Base > 1 /\ Base \in Nat
  <2>1. LowLen \in 0 .. AddressLen - Len(Prefix) /\ Prefix \in Seq(Byte)
    BY FrameAssumption
  <2>. QED  BY <2>1, Widths
<1>2. Zeros \in [1 .. n -> Byte]
  BY <1>1 DEF Byte, Zeros
<1>3. Zeros \in Seq(Byte) /\ Len(Zeros) = n
  <2>. HIDE DEF n
  <2>. QED  BY <1>1, <1>2
<1>4. low \in Seq(Byte) /\ Len(low) = LowLen
  BY <1>1 DEF Low
<1>5. /\ a \in Seq(Byte) /\ Len(a) = p + n /\ \A i \in 1 .. p : a[i] = Prefix[i]
  <2>1. /\ a \in Seq(Byte) /\ Len(a) = Len(Prefix) + Len(Zeros)
        /\ \A i \in 1 .. Len(Prefix) : a[i] = Prefix[i]
    BY <1>1, <1>3, ConcatParts, Zenon
  <2>. QED  BY <1>3, <2>1
<1>. HIDE DEF a
<1>6. /\ x \in Seq(Byte) /\ Len(x) = p + n + LowLen
      /\ \A i \in 1 .. p + n : x[i] = a[i]
  <2>1. /\ x \in Seq(Byte) /\ Len(x) = Len(a) + Len(low)
        /\ \A i \in 1 .. Len(a) : x[i] = a[i]
    BY <1>4, <1>5, ConcatParts, Zenon
  <2>. QED  BY <1>4, <1>5, <2>1
<1>7. \A i \in 1 .. LowLen : x[p + n + i] = low[i]
  <2>1. \A i \in 1 .. Len(low) : x[Len(a) + i] = low[i]
    BY <1>4, <1>5, ConcatParts
  <2>. QED  BY <1>4, <1>5, <2>1
<1>8. x = NetworkAddress(low)
  BY DEF NetworkAddress, Zeros, a
<1>. HIDE DEF x
<1>9. x \in Ipv6
  <2>1. Len(x) = AddressLen
    BY <1>1, <1>6
  <2>2. x \in [1 .. Len(x) -> Byte]
    BY <1>6
  <2>. QED  BY <2>1, <2>2 DEF Ipv6
<1>10. SubSeq(x, 1, p) = Prefix
  <2>. DEFINE u == SubSeq(x, 0 + 1, 0 + p)
  <2>1. p \in Nat /\ 0 \in Nat /\ 0 + p <= Len(x)
    BY <1>1, <1>6
  <2>2. u \in Seq(Byte) /\ Len(u) = p /\ \A i \in 1 .. p : u[i] = x[0 + i]
    <3>. HIDE DEF p
    <3>. QED  BY <1>6, <2>1, PartOf
  <2>3. 0 + 1 = 1 /\ 0 + p = p /\ \A i \in 1 .. p : 0 + i = i /\ i \in 1 .. p + n
    BY <1>1
  <2>4. u = SubSeq(x, 1, p)
    BY <2>3
  <2>. HIDE DEF u
  <2>5. \A i \in 1 .. Len(u) : u[i] = Prefix[i]
    BY <1>5, <1>6, <2>2, <2>3
  <2>6. u = Prefix
    BY <1>1, <2>2, <2>5, SeqEqual
  <2>. QED  BY <2>4, <2>6
<1>11. IsNetworkAddress(x)
  BY <1>10 DEF IsNetworkAddress
<1>12. p + n = AddressLen - LowLen
  BY <1>1
<1>. QED  BY <1>7, <1>8, <1>9, <1>11, <1>12

LEMMA RandomAddressIsOurs ==
  ASSUME NEW x \in RandomAddress
  PROVE  x \in Ipv6 /\ IsNetworkAddress(x)
BY NetworkAddressParts DEF RandomAddress

(* The proxy's own address is never given out: its number is 1.            *)
ProxyLow == [i \in 1 .. LowLen |-> IF i = LowLen THEN 1 ELSE 0]

LEMMA ProxyLowValue == LowValue(ProxyLow) \in {0, 1}
<1>. DEFINE Values(v) == v = [n \in 0 .. LowLen |->
                                IF n = 0 THEN 0 ELSE v[n - 1] * Base + ProxyLow[n]]
            g == [n \in 0 .. LowLen |-> IF n = LowLen /\ n # 0 THEN 1 ELSE 0]
            h == CHOOSE v : Values(v)
<1>1. LowLen \in Nat /\ Base \in Nat
  <2>1. LowLen \in 0 .. AddressLen - Len(Prefix)
    BY FrameAssumption
  <2>. QED  BY <2>1, Widths
<1>2. Values(g)
  <2>1. ASSUME NEW n \in 0 .. LowLen
        PROVE  g[n] = IF n = 0 THEN 0 ELSE g[n - 1] * Base + ProxyLow[n]
    BY <1>1, <2>1 DEF ProxyLow
  <2>. QED  BY <2>1
<1>3. LowValue(ProxyLow) = h[LowLen]
  BY DEF LowValue
<1>4. Values(h)
  <2>. HIDE DEF Values
  <2>. QED  BY <1>2
<1>5. \A n \in 0 .. LowLen : h[n] = IF n = 0 THEN 0 ELSE h[n - 1] * Base + ProxyLow[n]
  <2>. HIDE DEF h
  <2>. QED  BY <1>4
<1>6. \A n \in 0 .. LowLen : g[n] = IF n = 0 THEN 0 ELSE g[n - 1] * Base + ProxyLow[n]
  <2>. HIDE DEF g
  <2>. QED  BY <1>2
<1>. HIDE DEF h, Values
<1>. DEFINE T == {n \in 0 .. LowLen : h[n] # g[n]}
<1>7. ASSUME NEW n \in T PROVE n # 0 /\ n - 1 \in T
  <2>. HIDE DEF g
  <2>. QED  BY <1>1, <1>5, <1>6, <1>7
<1>8. T = {}
  <2>1. T \in SUBSET (0 .. LowLen)
    OBVIOUS
  <2>. HIDE DEF T
  <2>. QED  BY <1>1, <1>7, <2>1, NoFirstMeansNone
<1>9. h[LowLen] = g[LowLen]
  <2>1. LowLen \in 0 .. LowLen
    BY <1>1
  <2>. HIDE DEF g
  <2>. QED  BY <1>8, <2>1
<1>10. g[LowLen] \in {0, 1}
  BY <1>1
<1>. QED  BY <1>3, <1>9, <1>10

LEMMA ProxyAddressIsNobodys ==
  PROXY_ADDRESS \in Ipv6 /\ IsNetworkAddress(PROXY_ADDRESS) /\ PROXY_ADDRESS \notin RandomAddress
<1>1. LowLen \in Nat /\ Base \in Nat /\ Base > 1 /\ Reserved \in Nat /\ Reserved > 1
  <2>1. LowLen \in 0 .. AddressLen - Len(Prefix) /\ Reserved \in Nat \ {0, 1}
    BY FrameAssumption
  <2>. QED  BY <2>1, Widths
<1>2. ProxyLow \in Low
  BY <1>1 DEF ProxyLow, Low, Byte
<1>3. PROXY_ADDRESS = NetworkAddress(ProxyLow)
  BY DEF PROXY_ADDRESS, ProxyLow
<1>4. ASSUME NEW low \in Low, LowValue(low) >= Reserved, NetworkAddress(low) = PROXY_ADDRESS
      PROVE  FALSE
  <2>1. \A i \in 1 .. LowLen : low[i] = ProxyLow[i]
    BY <1>2, <1>3, <1>4, NetworkAddressParts
  <2>2. low \in [1 .. LowLen -> Byte] /\ ProxyLow \in [1 .. LowLen -> Byte]
    BY <1>2 DEF Low
  <2>3. low = ProxyLow
    <3>. DEFINE D == 1 .. LowLen
    <3>1. low \in [D -> Byte] /\ ProxyLow \in [D -> Byte] /\ \A i \in D : low[i] = ProxyLow[i]
      BY <2>1, <2>2
    <3>. DEFINE q == ProxyLow
    <3>2. q \in [D -> Byte] /\ \A i \in D : low[i] = q[i]
      BY <3>1
    <3>. HIDE DEF D, q
    <3>3. low \in [D -> Byte]
      BY <3>1
    <3>4. low = [i \in D |-> low[i]] 
      BY <3>3
    <3>5. q = [i \in D |-> q[i]]
      BY <3>2
    <3>6. [i \in D |-> low[i]] = [i \in D |-> q[i]]
      BY <3>2
    <3>7. low = q
      BY <3>4, <3>5, <3>6
    <3>. QED  BY <3>7 DEF q
  <2>. QED  BY <1>1, <1>4, <2>3, ProxyLowValue
<1>. QED  BY <1>2, <1>3, <1>4, NetworkAddressParts DEF RandomAddress

-----------------------------------------------------------------------------
(* The inductive invariant.                                                *)

Shape ==
  /\ key \in [Client -> RouteKey] /\ \A c, d \in Client : key[c] = key[d] => c = d
  /\ asker = {} \/ \E c \in Client : asker = {c}
  /\ raw \in Seq(Byte) /\ Len(raw) <= MaxRaw
  /\ failed = IF Decode(raw) = {} THEN asker ELSE {}
  /\ relay \in [Client -> Seq(Seq(Byte))]
  /\ egress \in [Client -> Seq([peer : SocketAddr, data : Seq(Byte)])]

(* Where the message is addressed to, and whether that is outside.         *)
Addressee == <<Decoded(raw).peer_ip, Decoded(raw).peer_port>>

Outside == ~StaysInside(Peer(Decoded(raw)).ip)

(* A datagram as c's.                                                      *)
From(c, data) == [peer_ip |-> key[c][1], peer_port |-> key[c][2], data |-> data]

UnderWay == asker # {} /\ Decode(raw) # {}

(* What a relay may hold: the message itself where it came from, and where *)
(* it is addressed to, the datagram as the sender's.                       *)
MayGet(c) ==
  {bytes \in Seq(Byte) :
     /\ Outside \/ \E d \in Client : key[d] = Addressee
     /\ c \in asker => bytes = raw \/ (Outside /\ Len(Decoded(raw).data) > MaxDatagram)
     /\ c \notin asker => /\ ~Outside /\ key[c] = Addressee
                          /\ \A a \in asker : bytes = Encoded(From(a, Decoded(raw).data))}

(* And what goes out through a socket is the sender's.                     *)
MaySend(c) ==
  {datagram \in [peer : SocketAddr, data : Seq(Byte)] :
     /\ c \in asker /\ Outside
     /\ datagram = [peer |-> Peer(Decoded(raw)), data |-> Decoded(raw).data]}

Way ==
  /\ ~UnderWay => \A c \in Client : relay[c] = <<>> /\ egress[c] = <<>>
  /\ UnderWay  => \A c \in Client : relay[c] \in Seq(MayGet(c)) /\ egress[c] \in Seq(MaySend(c))

IInv == Shape /\ Way

-----------------------------------------------------------------------------
(* What the procedures of a session do.                                    *)

LEMMA TheOnlyOne == \A e : (CHOOSE bytes \in {e} : TRUE) = e
OBVIOUS

LEMMA KeyParts ==
  ASSUME key \in [Client -> RouteKey], NEW c \in Client
  PROVE  /\ key[c][1] \in Ipv6 /\ IsNetworkAddress(key[c][1]) /\ key[c][1] \in RandomAddress
         /\ key[c][2] \in U16 /\ key[c] = <<key[c][1], key[c][2]>>
<1>1. key[c] \in RandomAddress \X BoundPort
  BY DEF RouteKey
<1>2. key[c][1] \in RandomAddress /\ key[c][2] \in BoundPort /\ key[c] = <<key[c][1], key[c][2]>>
  BY <1>1
<1>3. BoundPort \subseteq U16
  BY DatagramsAssumption
<1>. QED  BY <1>2, <1>3, RandomAddressIsOurs

(* An address that is inside is the one that is in the frame.              *)
LEMMA InsideAddress ==
  ASSUME NEW x \in Ipv6, StaysInside(FromIpv6(x))
  PROVE  FromIpv6(x) = x /\ IsNetworkAddress(x)
<1>1. ToIpv6(FromIpv6(x)) = x
  BY ToFromIpv6
<1>2. ~Is4(FromIpv6(x)) /\ IsNetworkAddress(FromIpv6(x))
  BY DEF StaysInside
<1>3. ToIpv6(FromIpv6(x)) = FromIpv6(x)
  BY <1>2 DEF ToIpv6
<1>. QED  BY <1>1, <1>2, <1>3

LEMMA FromFits ==
  ASSUME key \in [Client -> RouteKey], NEW c \in Client, NEW data \in Seq(Byte), Len(data) \in U16
  PROVE  Fits(From(c, data))
BY KeyParts DEF From, Fits, Frame

LEMMA Delivering ==
  ASSUME key \in [Client -> RouteKey], NEW c \in Client,
         NEW data \in Seq(Byte), Len(data) \in U16,
         NEW to \in Ipv6 \X U16, NEW inbox \in [Client -> Seq(Seq(Byte))],
         Deliver(c, to, data, inbox)
  PROVE  /\ failed' = failed /\ egress' = egress
         /\ relay' \in [Client -> Seq(Seq(Byte))]
         /\ \A d \in Client :
              /\ key[d] = to => relay'[d] = Append(inbox[d], Encoded(From(c, data)))
              /\ key[d] # to => relay'[d] = inbox[d]
<1>. DEFINE e == Encoded(From(c, data))
            D == {d \in Client : key[d] = to}
<1>1. Fits(From(c, data))
  BY FromFits
<1>2. Encode(From(c, data)) = {e} /\ e \in Seq(Byte)
  BY <1>1, EncodeFits, EncodedFields
<1>3. /\ failed' = failed /\ egress' = egress
      /\ relay' = [d \in Client |-> IF d \in D THEN Append(inbox[d], e) ELSE inbox[d]]
  <2>. DEFINE out == Encode(From(c, data))
              h   == CHOOSE bytes \in out : TRUE
  <2>1. /\ failed' = IF out = {} THEN failed \cup {c} ELSE failed
        /\ relay' = Relayed(inbox, D, out) /\ egress' = egress
    BY DEF Deliver, From
  <2>2. out # {} /\ h = e
    <3>. HIDE DEF out, e
    <3>. QED  BY <1>2, TheOnlyOne DEF out
  <2>3. relay' = [d \in Client |-> IF d \in D /\ out # {} THEN Append(inbox[d], h) ELSE inbox[d]]
    BY <2>1 DEF Relayed
  <2>. HIDE DEF out, D, h, e
  <2>. QED  BY <2>1, <2>2, <2>3
<1>4. ASSUME NEW d \in Client
      PROVE  inbox[d] \in Seq(Seq(Byte)) /\ Append(inbox[d], e) \in Seq(Seq(Byte))
  <2>. DEFINE b == Seq(Byte)
  <2>1. inbox[d] \in Seq(b) /\ e \in b
    BY <1>2
  <2>. HIDE DEF b
  <2>2. Append(inbox[d], e) \in Seq(b)
    BY <2>1
  <2>. QED  BY <2>1, <2>2 DEF b
<1>. HIDE DEF e
<1>5. /\ relay' \in [Client -> Seq(Seq(Byte))]
      /\ \A d \in Client : relay'[d] = IF key[d] = to THEN Append(inbox[d], e) ELSE inbox[d]
  BY <1>3, <1>4
<1>. QED  BY <1>3, <1>5 DEF e

(* A frame and its peer.                                                   *)
LEMMA PeerParts ==
  ASSUME NEW frame, Fits(frame)
  PROVE  /\ Peer(frame) \in SocketAddr
         /\ \A data : ToPeer(Peer(frame), data)
                        = [peer_ip |-> frame.peer_ip, peer_port |-> frame.peer_port, data |-> data]
         /\ Peer(frame).ip = FromIpv6(frame.peer_ip) /\ Peer(frame).port = frame.peer_port
         /\ frame.peer_ip \in Ipv6 /\ frame.peer_port \in U16
         /\ frame.data \in Seq(Byte) /\ Len(frame.data) \in U16
         /\ frame = [peer_ip |-> frame.peer_ip, peer_port |-> frame.peer_port,
                     data |-> frame.data]
<1>1. /\ frame.peer_ip \in Ipv6 /\ frame.peer_port \in U16
      /\ frame.data \in Seq(Byte) /\ Len(frame.data) \in U16
      /\ frame = [peer_ip |-> frame.peer_ip, peer_port |-> frame.peer_port,
                  data |-> frame.data]
  BY DEF Fits, Frame
<1>2. Peer(frame).ip = FromIpv6(frame.peer_ip) /\ Peer(frame).port = frame.peer_port
  BY DEF Peer
<1>3. Peer(frame) \in SocketAddr
  BY <1>1, ToFromIpv6 DEF Peer, SocketAddr
<1>4. ToIpv6(Peer(frame).ip) = frame.peer_ip
  BY <1>1, <1>2, ToFromIpv6
<1>5. \A data : ToPeer(Peer(frame), data)
                  = [peer_ip |-> frame.peer_ip, peer_port |-> frame.peer_port, data |-> data]
  BY <1>2, <1>4 DEF ToPeer
<1>. QED  BY <1>1, <1>2, <1>3, <1>5

(* What is cut off is what does not fit the buffer.                        *)
LEMMA ReceivedFits ==
  ASSUME NEW data \in Seq(Byte), Len(data) \in U16
  PROVE  /\ Received(data) \in Seq(Byte) /\ Len(Received(data)) \in U16
         /\ Len(data) <= MaxDatagram => Received(data) = data
<1>. DEFINE n == IF Len(data) < MaxDatagram THEN Len(data) ELSE MaxDatagram
            u == SubSeq(data, 0 + 1, 0 + n)
<1>1. MaxDatagram \in U16 /\ U16 \subseteq Nat
  BY DatagramsAssumption DEF U16
<1>2. n \in U16 /\ n \in Nat /\ n <= Len(data) /\ Len(data) \in Nat
  BY <1>1
<1>3. Len(data) <= MaxDatagram => n = Len(data)
  BY <1>1
<1>4. Received(data) = u
  BY <1>2 DEF Received
<1>. HIDE DEF n
<1>5. u \in Seq(Byte) /\ Len(u) = n /\ \A i \in 1 .. n : u[i] = data[0 + i]
  <2>1. 0 + n <= Len(data) /\ 0 \in Nat
    BY <1>2
  <2>. QED  BY <1>2, <2>1, PartOf
<1>. HIDE DEF u
<1>6. ASSUME Len(data) <= MaxDatagram PROVE u = data
  <2>1. \A i \in 1 .. Len(u) : u[i] = data[i]
    BY <1>2, <1>5
  <2>. QED  BY <1>3, <1>5, <1>6, <2>1, SeqEqual
<1>. QED  BY <1>2, <1>4, <1>5, <1>6
LEMMA AppendIn == ASSUME NEW S, NEW s \in Seq(S), NEW e \in S PROVE Append(s, e) \in Seq(S)
OBVIOUS

LEMMA HeadTailIn ==
  ASSUME NEW S, NEW s \in Seq(S), s # <<>>
  PROVE  Head(s) \in S /\ Tail(s) \in Seq(S)
BY HeadTailProperties, ElementOfSeq

LEMMA NoElementNoSequence ==
  ASSUME NEW S, NEW s \in Seq(S), \A i \in 1 .. Len(s) : FALSE
  PROVE  s = <<>>
<1>1. Len(s) \in Nat /\ ~(Len(s) >= 1)
  OBVIOUS
<1>2. Len(s) = 0
  BY <1>1
<1>. QED  BY <1>2, EmptySeq

LEMMA EmptyIn == ASSUME NEW S PROVE <<>> \in Seq(S)
OBVIOUS

-----------------------------------------------------------------------------
(* Every action preserves the invariant.                                   *)

LEMMA NoFrameInNothing == Decode(<<>>) = {}
BY Widths DEF Decode

LEMMA InitIInv == ASSUME Init PROVE IInv
<1>1. /\ key \in [Client -> RouteKey] /\ \A c, d \in Client : key[c] = key[d] => c = d
      /\ asker = {} /\ raw = <<>> /\ failed = {}
      /\ relay = [c \in Client |-> <<>>] /\ egress = [c \in Client |-> <<>>]
  BY DEF Init
<1>2. relay \in [Client -> Seq(Seq(Byte))]
  BY <1>1
<1>3. egress \in [Client -> Seq([peer : SocketAddr, data : Seq(Byte)])]
  BY <1>1
<1>4. raw \in Seq(Byte) /\ Len(raw) <= MaxRaw
  BY <1>1, DatagramsAssumption
<1>5. Shape
  BY <1>1, <1>2, <1>3, <1>4 DEF Shape
<1>6. Way
  BY <1>1 DEF Way, UnderWay
<1>. QED  BY <1>5, <1>6 DEF IInv

(* The message of the first client to send one.                            *)
LEMMA ClientSendsIInv ==
  ASSUME IInv, NEW c \in Client, ClientSends(c)
  PROVE  IInv'
<1>1. /\ key \in [Client -> RouteKey] /\ \A e, d \in Client : key[e] = key[d] => e = d
      /\ failed = IF Decode(raw) = {} THEN asker ELSE {}
      /\ relay \in [Client -> Seq(Seq(Byte))]
      /\ egress \in [Client -> Seq([peer : SocketAddr, data : Seq(Byte)])]
  BY DEF IInv, Shape
<1>2. asker = {} /\ asker' = {c} /\ key' = key
  BY DEF ClientSends
<1>3. PICK n \in 0 .. MaxRaw : \E bytes \in [1 .. n -> Byte] : raw' = bytes /\ Send(c, bytes, relay)
  BY DEF ClientSends
<1>4. raw' \in [1 .. n -> Byte] /\ Send(c, raw', relay)
  BY <1>3
<1>5. raw' \in Seq(Byte) /\ Len(raw') <= MaxRaw
  <2>1. n \in Nat /\ n <= MaxRaw
    BY DatagramsAssumption
  <2>. QED  BY <1>4, <2>1
<1>6. failed = {} /\ \A d \in Client : relay[d] = <<>> /\ egress[d] = <<>>
  BY <1>1, <1>2 DEF IInv, Way, UnderWay
<1>7. SUFFICES /\ failed' = IF Decode(raw') = {} THEN asker' ELSE {}
               /\ relay' \in [Client -> Seq(Seq(Byte))]
               /\ egress' \in [Client -> Seq([peer : SocketAddr, data : Seq(Byte)])]
               /\ ~UnderWay' => \A d \in Client : relay'[d] = <<>> /\ egress'[d] = <<>>
               /\ UnderWay'  => \A d \in Client : relay'[d] \in Seq(MayGet(d)') /\ egress'[d] \in Seq(MaySend(d)')
  BY <1>1, <1>2, <1>5 DEF IInv, Shape, Way
<1>8. CASE Decode(raw') = {}
  <2>1. failed' = failed \cup {c} /\ relay' = relay /\ egress' = egress
    BY <1>4, <1>8 DEF Send
  <2>2. ~UnderWay'
    BY <1>8 DEF UnderWay
  <2>. QED  BY <1>1, <1>2, <1>6, <1>8, <2>1, <2>2
<1>9. CASE Decode(raw') # {}
  <2>. DEFINE F == Decoded(raw')
  <2>1. Decode(raw') = {F} /\ Fits(F) /\ Encoded(F) = raw'
    BY <1>5, <1>9, EncodedDecoded
  <2>2. UnderWay'
    BY <1>2, <1>9 DEF UnderWay
  <2>3. /\ Peer(F) \in SocketAddr /\ Peer(F).ip = FromIpv6(F.peer_ip) /\ Peer(F).port = F.peer_port
        /\ F.peer_ip \in Ipv6 /\ F.peer_port \in U16 /\ F.data \in Seq(Byte) /\ Len(F.data) \in U16
        /\ F = [peer_ip |-> F.peer_ip, peer_port |-> F.peer_port, data |-> F.data]
    BY <2>1, PeerParts
  <2>4. Outside' = ~StaysInside(Peer(F).ip) /\ Addressee' = <<F.peer_ip, F.peer_port>>
    BY DEF Outside, Addressee
  <2>. HIDE DEF F
  <2>5. \/ StaysInside(Peer(F).ip) /\ Deliver(c, <<Peer(F).ip, Peer(F).port>>, F.data, relay)
        \/ /\ ~StaysInside(Peer(F).ip)
           /\ egress' = [egress EXCEPT ![c] = Append(@, [peer |-> Peer(F), data |-> F.data])]
           /\ relay' = relay /\ failed' = failed
    BY <1>4, <2>1 DEF Send
  <2>6. CASE StaysInside(Peer(F).ip)
    <3>1. Deliver(c, Addressee', F.data, relay)
      BY <2>3, <2>4, <2>5, <2>6, InsideAddress
    <3>2. /\ failed' = failed /\ egress' = egress
          /\ relay' \in [Client -> Seq(Seq(Byte))]
          /\ \A d \in Client :
               relay'[d] = IF key[d] = Addressee' THEN Append(relay[d], Encoded(From(c, F.data))) ELSE relay[d]
      <4>. DEFINE to == Addressee'
                  data == F.data
      <4>1. /\ data \in Seq(Byte) /\ Len(data) \in U16 /\ Deliver(c, to, data, relay)
            /\ key \in [Client -> RouteKey] /\ relay \in [Client -> Seq(Seq(Byte))]
            /\ to \in Ipv6 \X U16
        BY <1>1, <2>3, <2>4, <3>1
      <4>. HIDE DEF to, data
      <4>2. /\ failed' = failed /\ egress' = egress
            /\ relay' \in [Client -> Seq(Seq(Byte))]
            /\ \A d \in Client :
                 /\ key[d] = to => relay'[d] = Append(relay[d], Encoded(From(c, data)))
                 /\ key[d] # to => relay'[d] = relay[d]
        BY <4>1, Delivering
      <4>. QED  BY <4>2 DEF to, data
    <3>3. Fits(From(c, F.data)) /\ Encoded(From(c, F.data)) \in Seq(Byte)
      BY <1>1, <2>3, FromFits, EncodedFields
    <3>4. ASSUME NEW d \in Client PROVE relay'[d] \in Seq(MayGet(d)')
      <4>1. CASE key[d] # Addressee'
        BY <1>6, <3>2, <4>1, EmptyIn
      <4>2. CASE key[d] = Addressee'
        <5>1. ~Outside'
          BY <2>4, <2>6
        <5>2. d = c => Encoded(From(c, F.data)) = raw'
          <6>1. SUFFICES ASSUME d = c PROVE From(c, F.data) = F
            BY <2>1
          <6>2. key[c][1] = F.peer_ip /\ key[c][2] = F.peer_port
            BY <2>4, <4>2, <6>1
          <6>. QED  BY <2>3, <6>2 DEF From
        <5>3. From(c, F.data) = From(c, Decoded(raw).data)'
          BY <1>2 DEF From, F
        <5>4. Encoded(From(c, F.data)) \in MayGet(d)'
          <6>1. key'[d] = Addressee'
            BY <1>2, <4>2
          <6>2. d \in asker' => d = c
            BY <1>2
          <6>3. \A a \in asker' : Encoded(From(c, F.data)) = Encoded(From(a, Decoded(raw).data)')
            BY <1>2, <5>3
          <6>. QED  BY <3>3, <5>1, <5>2, <6>1, <6>2, <6>3 DEF MayGet
        <5>5. relay'[d] = Append(<<>>, Encoded(From(c, F.data)))
          BY <1>6, <3>2, <4>2
        <5>. QED  BY <5>4, <5>5, EmptyIn, AppendIn
      <4>. QED  BY <4>1, <4>2
    <3>5. ASSUME NEW d \in Client PROVE egress'[d] \in Seq(MaySend(d)')
      BY <1>6, <3>2, EmptyIn
    <3>. QED  BY <1>1, <1>6, <1>9, <2>2, <3>2, <3>4, <3>5
  <2>7. CASE ~StaysInside(Peer(F).ip)
    <3>. DEFINE out == [peer |-> Peer(F), data |-> F.data]
                Datagram == [peer : SocketAddr, data : Seq(Byte)]
    <3>1. /\ egress' = [egress EXCEPT ![c] = Append(@, out)]
          /\ relay' = relay /\ failed' = failed
      BY <2>5, <2>7
    <3>2. out \in Datagram
      BY <2>3
    <3>3. out \in MaySend(c)'
      BY <1>2, <2>4, <2>7, <3>2 DEF MaySend, F
    <3>. HIDE DEF out, Datagram
    <3>4. egress' \in [Client -> Seq(Datagram)]
      <4>1. egress[c] \in Seq(Datagram) /\ egress \in [Client -> Seq(Datagram)]
        BY <1>1 DEF Datagram
      <4>2. Append(egress[c], out) \in Seq(Datagram)
        BY <3>2, <4>1, AppendIn
      <4>. QED  BY <3>1, <4>1, <4>2
    <3>5. ASSUME NEW d \in Client PROVE relay'[d] \in Seq(MayGet(d)')
      BY <1>6, <3>1, EmptyIn
    <3>6. ASSUME NEW d \in Client PROVE egress'[d] \in Seq(MaySend(d)')
      <4>1. CASE d # c
        <5>1. egress'[d] = <<>>
          BY <1>1, <1>6, <3>1, <4>1
        <5>. QED  BY <5>1, EmptyIn
      <4>2. CASE d = c
        <5>1. egress'[d] = Append(<<>>, out)
          BY <1>1, <1>6, <3>1, <4>2
        <5>. QED  BY <3>3, <4>2, <5>1, EmptyIn, AppendIn
      <4>. QED  BY <4>1, <4>2
    <3>. QED  BY <1>1, <1>6, <1>9, <2>2, <3>1, <3>4, <3>5, <3>6 DEF Datagram
  <2>. QED  BY <2>6, <2>7
<1>. QED  BY <1>8, <1>9

(* What is unchanged when neither the message nor its sender is.           *)
LEMMA SameMessage ==
  ASSUME UNCHANGED <<key, asker, raw>>
  PROVE  /\ UnderWay' = UnderWay
         /\ \A c : MayGet(c)' = MayGet(c) /\ MaySend(c)' = MaySend(c)
BY DEF UnderWay, MayGet, MaySend, Outside, Addressee, From, StaysInside, Is4, IsNetworkAddress, Peer, FromIpv6, IsMapped, Decode, Decoded

(* A client other than the sender gives back what it got.                  *)
LEMMA ClientEchoesIInv ==
  ASSUME IInv, NEW c \in Client, ClientEchoes(c)
  PROVE  IInv'
<1>1. /\ key \in [Client -> RouteKey] /\ \A e, d \in Client : key[e] = key[d] => e = d
      /\ asker = {} \/ \E a \in Client : asker = {a}
      /\ raw \in Seq(Byte) /\ Len(raw) <= MaxRaw
      /\ failed = IF Decode(raw) = {} THEN asker ELSE {}
      /\ relay \in [Client -> Seq(Seq(Byte))]
      /\ egress \in [Client -> Seq([peer : SocketAddr, data : Seq(Byte)])]
  BY DEF IInv, Shape
<1>2. /\ relay[c] # <<>> /\ c \notin asker /\ UNCHANGED <<key, asker, raw>>
      /\ Send(c, Head(relay[c]), [relay EXCEPT ![c] = Tail(@)])
  BY DEF ClientEchoes
<1>3. UnderWay /\ \A d \in Client : relay[d] \in Seq(MayGet(d)) /\ egress[d] \in Seq(MaySend(d))
  BY <1>2 DEF IInv, Way
<1>4. PICK a \in Client : asker = {a}
  BY <1>1, <1>3 DEF UnderWay
<1>. DEFINE F     == Decoded(raw)
            inbox == [relay EXCEPT ![c] = Tail(@)]
<1>5. Decode(raw) = {F} /\ Fits(F) /\ Encoded(F) = raw
  BY <1>1, <1>3, EncodedDecoded DEF UnderWay
<1>6. /\ F.peer_ip \in Ipv6 /\ F.peer_port \in U16 /\ F.data \in Seq(Byte) /\ Len(F.data) \in U16
      /\ F = [peer_ip |-> F.peer_ip, peer_port |-> F.peer_port, data |-> F.data]
  BY <1>5, PeerParts
<1>7. Head(relay[c]) \in MayGet(c) /\ Tail(relay[c]) \in Seq(MayGet(c))
  BY <1>2, <1>3, HeadTailIn
<1>8. /\ ~Outside /\ key[c] = Addressee /\ Head(relay[c]) = Encoded(From(a, F.data))
  BY <1>2, <1>4, <1>7 DEF MayGet
<1>9. /\ inbox \in [Client -> Seq(Seq(Byte))]
      /\ \A d \in Client : inbox[d] \in Seq(MayGet(d))
  <2>1. Tail(relay[c]) \in Seq(Seq(Byte))
    <3>. DEFINE b == Seq(Byte)
    <3>1. relay[c] \in Seq(b)
      BY <1>1
    <3>. HIDE DEF b
    <3>2. Tail(relay[c]) \in Seq(b)
      BY <1>2, <3>1, HeadTailIn
    <3>. QED  BY <3>2 DEF b
  <2>2. inbox \in [Client -> Seq(Seq(Byte))]
    BY <1>1, <2>1
  <2>3. ASSUME NEW d \in Client PROVE inbox[d] \in Seq(MayGet(d))
    <3>1. CASE d = c
      BY <1>1, <1>7, <3>1
    <3>2. CASE d # c
      BY <1>1, <1>3, <3>2
    <3>. QED  BY <3>1, <3>2
  <2>. QED  BY <2>2, <2>3
<1>. DEFINE G == From(a, F.data)
<1>10. Fits(G) /\ G.peer_ip = key[a][1] /\ G.peer_port = key[a][2] /\ G.data = F.data
  <2>1. Fits(G)
    BY <1>1, <1>6, FromFits
  <2>. QED  BY <2>1 DEF From
<1>11. Decode(Head(relay[c])) = {G}
  BY <1>8, <1>10, DecodeEncoded
<1>12. /\ Peer(G).ip = key[a][1] /\ Peer(G).port = key[a][2] /\ StaysInside(Peer(G).ip)
       /\ key[a] = <<key[a][1], key[a][2]>> /\ key[a] \in Ipv6 \X U16
  <2>1. /\ key[a][1] \in Ipv6 /\ IsNetworkAddress(key[a][1]) /\ key[a][2] \in U16
        /\ key[a] = <<key[a][1], key[a][2]>>
    BY <1>1, KeyParts
  <2>2. FromIpv6(key[a][1]) = key[a][1] /\ StaysInside(key[a][1])
    BY <2>1, NetworkNotMapped
  <2>3. Peer(G).ip = FromIpv6(G.peer_ip) /\ Peer(G).port = G.peer_port
    BY <1>10, PeerParts
  <2>4. <<key[a][1], key[a][2]>> \in Ipv6 \X U16
    BY <2>1
  <2>. HIDE DEF G
  <2>. QED  BY <1>10, <2>1, <2>2, <2>3, <2>4
<1>13. Deliver(c, key[a], F.data, inbox)
  <2>. HIDE DEF G, inbox
  <2>1. Send(c, Head(relay[c]), inbox)
    BY <1>2 DEF inbox
  <2>2. Deliver(c, <<Peer(G).ip, Peer(G).port>>, G.data, inbox)
    BY <1>11, <1>12, <2>1 DEF Send
  <2>. QED  BY <1>10, <1>12, <2>2
<1>. HIDE DEF inbox, F, G
<1>14. /\ failed' = failed /\ egress' = egress
       /\ relay' \in [Client -> Seq(Seq(Byte))]
       /\ \A d \in Client :
            /\ key[d] = key[a] => relay'[d] = Append(inbox[d], Encoded(From(c, F.data)))
            /\ key[d] # key[a] => relay'[d] = inbox[d]
  <2>1. key[a] \in Ipv6 \X U16 /\ Deliver(c, key[a], F.data, inbox)
    BY <1>12, <1>13
  <2>2. F.data \in Seq(Byte) /\ Len(F.data) \in U16
    BY <1>6
  <2>3. key \in [Client -> RouteKey] /\ inbox \in [Client -> Seq(Seq(Byte))]
    BY <1>1, <1>9
  <2>. QED  BY <2>1, <2>2, <2>3, Delivering
<1>15. From(c, F.data) = F
  <2>1. key[c][1] = F.peer_ip /\ key[c][2] = F.peer_port
    BY <1>8 DEF Addressee, F
  <2>. QED  BY <1>6, <2>1 DEF From
<1>16. raw \in MayGet(a)
  <2>1. \E d \in Client : key[d] = Addressee
    BY <1>8
  <2>. QED  BY <1>1, <1>4, <2>1 DEF MayGet
<1>17. ASSUME NEW d \in Client PROVE relay'[d] \in Seq(MayGet(d))
  <2>1. CASE d = a
    <3>1. relay'[a] = Append(inbox[a], raw)
      BY <1>5, <1>14, <1>15 DEF F
    <3>2. inbox[a] \in Seq(MayGet(a))
      BY <1>9
    <3>. QED  BY <1>16, <2>1, <3>1, <3>2, AppendIn
  <2>2. CASE d # a
    <3>1. relay'[d] = inbox[d]
      BY <1>1, <1>14, <2>2
    <3>. QED  BY <1>9, <3>1
  <2>. QED  BY <2>1, <2>2
<1>18. UnderWay' /\ \A d \in Client : MayGet(d)' = MayGet(d) /\ MaySend(d)' = MaySend(d)
  BY <1>2, <1>3, SameMessage
<1>19. Way'
  BY <1>3, <1>14, <1>17, <1>18 DEF Way
<1>20. Shape'
  <2>1. failed' = IF Decode(raw') = {} THEN asker' ELSE {}
    BY <1>1, <1>2, <1>14
  <2>. QED  BY <1>1, <1>2, <1>14, <2>1 DEF Shape
<1>. QED  BY <1>19, <1>20 DEF IInv

(* Somebody on the internet gives back what it got.                        *)
LEMMA InternetEchoesIInv ==
  ASSUME IInv, NEW c \in Client, InternetEchoes(c)
  PROVE  IInv'
<1>. DEFINE Datagram == [peer : SocketAddr, data : Seq(Byte)]
            F == Decoded(raw)
<1>1. /\ key \in [Client -> RouteKey] /\ \A e, d \in Client : key[e] = key[d] => e = d
      /\ asker = {} \/ \E a \in Client : asker = {a}
      /\ raw \in Seq(Byte) /\ Len(raw) <= MaxRaw
      /\ failed = IF Decode(raw) = {} THEN asker ELSE {}
      /\ relay \in [Client -> Seq(Seq(Byte))]
      /\ egress \in [Client -> Seq(Datagram)]
  BY DEF IInv, Shape
<1>2. /\ egress[c] # <<>> /\ UNCHANGED <<key, asker, raw, failed>>
      /\ egress' = [egress EXCEPT ![c] = Tail(@)]
      /\ relay' = Relayed(relay, {c}, Encode(ToPeer(Head(egress[c]).peer, Received(Head(egress[c]).data))))
  BY DEF InternetEchoes
<1>3. UnderWay /\ \A d \in Client : relay[d] \in Seq(MayGet(d)) /\ egress[d] \in Seq(MaySend(d))
  BY <1>2 DEF IInv, Way
<1>4. Decode(raw) = {F} /\ Fits(F) /\ Encoded(F) = raw
  BY <1>1, <1>3, EncodedDecoded DEF UnderWay
<1>5. /\ F.peer_ip \in Ipv6 /\ F.peer_port \in U16 /\ F.data \in Seq(Byte) /\ Len(F.data) \in U16
      /\ F = [peer_ip |-> F.peer_ip, peer_port |-> F.peer_port, data |-> F.data]
  BY <1>4, PeerParts
<1>6. /\ Head(egress[c]) \in MaySend(c) /\ Tail(egress[c]) \in Seq(MaySend(c))
      /\ Tail(egress[c]) \in Seq(Datagram)
  <2>. HIDE DEF Datagram
  <2>1. egress[c] \in Seq(Datagram) /\ egress[c] \in Seq(MaySend(c))
    BY <1>1, <1>3
  <2>. QED  BY <1>2, <2>1, HeadTailIn
<1>7. c \in asker /\ Outside /\ Head(egress[c]) = [peer |-> Peer(F), data |-> F.data]
  BY <1>6 DEF MaySend
<1>. DEFINE G == [peer_ip |-> F.peer_ip, peer_port |-> F.peer_port, data |-> Received(F.data)]
            e == Encoded(G)
            out == Encode(G)
            h == CHOOSE bytes \in out : TRUE
<1>8. Received(F.data) \in Seq(Byte) /\ Len(Received(F.data)) \in U16
      /\ (Len(F.data) <= MaxDatagram => Received(F.data) = F.data)
  BY <1>5, ReceivedFits
<1>9. Fits(G)
  BY <1>5, <1>8 DEF Fits, Frame
<1>10. out = {e} /\ e \in Seq(Byte)
  <2>. HIDE DEF G
  <2>. QED  BY <1>9, EncodeFits, EncodedFields
<1>11. e = raw \/ Len(F.data) > MaxDatagram
  <2>1. Len(F.data) <= MaxDatagram => G = F
    BY <1>5, <1>8
  <2>2. MaxDatagram \in Nat /\ Len(F.data) \in Nat
    BY <1>5, DatagramsAssumption DEF U16
  <2>. HIDE DEF G, F
  <2>. QED  BY <1>4, <2>1, <2>2 DEF F
<1>12. relay' = Relayed(relay, {c}, out)
  <2>1. ToPeer(Peer(F), Received(F.data)) = G
    BY <1>4, PeerParts
  <2>. QED  BY <1>2, <1>7, <2>1
<1>13. out # {} /\ h = e
  <2>. HIDE DEF out, e
  <2>. QED  BY <1>10, TheOnlyOne DEF out
<1>14. relay' = [d \in Client |-> IF d \in {c} /\ out # {} THEN Append(relay[d], h) ELSE relay[d]]
  BY <1>12 DEF Relayed
<1>. HIDE DEF out, h, e, G, Datagram
<1>15. relay' = [d \in Client |-> IF d = c THEN Append(relay[d], e) ELSE relay[d]]
  BY <1>13, <1>14
<1>16. e \in MayGet(c)
  BY <1>7, <1>10, <1>11 DEF MayGet
<1>17. relay' \in [Client -> Seq(Seq(Byte))]
  <2>. DEFINE b == Seq(Byte)
  <2>1. relay[c] \in Seq(b) /\ e \in b
    BY <1>1, <1>10
  <2>. HIDE DEF b
  <2>2. Append(relay[c], e) \in Seq(b)
    BY <2>1, AppendIn
  <2>. QED  BY <1>1, <1>15, <2>2 DEF b
<1>18. egress' \in [Client -> Seq(Datagram)]
  BY <1>1, <1>2, <1>6
<1>19. ASSUME NEW d \in Client
       PROVE  relay'[d] \in Seq(MayGet(d)) /\ egress'[d] \in Seq(MaySend(d))
  <2>1. CASE d = c
    <3>1. relay'[c] = Append(relay[c], e) /\ egress'[c] = Tail(egress[c])
      BY <1>1, <1>2, <1>15
    <3>2. relay[c] \in Seq(MayGet(c))
      BY <1>3
    <3>. QED  BY <1>6, <1>16, <2>1, <3>1, <3>2, AppendIn
  <2>2. CASE d # c
    BY <1>1, <1>2, <1>3, <1>15, <2>2
  <2>. QED  BY <2>1, <2>2
<1>20. UnderWay' /\ \A d \in Client : MayGet(d)' = MayGet(d) /\ MaySend(d)' = MaySend(d)
  BY <1>2, <1>3, SameMessage
<1>21. Way'
  BY <1>19, <1>20 DEF Way
<1>22. Shape'
  BY <1>1, <1>2, <1>17, <1>18 DEF Shape, Datagram
<1>. QED  BY <1>21, <1>22 DEF IInv

THEOREM Invariant == Spec => []IInv
<1>1. Init => IInv
  BY InitIInv
<1>2. IInv /\ [Next]_vars => IInv'
  <2>1. ASSUME IInv, UNCHANGED vars PROVE IInv'
    <3>1. UNCHANGED <<key, asker, raw, failed, relay, egress>>
      BY <2>1 DEF vars
    <3>2. /\ UnderWay' = UnderWay
          /\ \A d \in Client : MayGet(d)' = MayGet(d) /\ MaySend(d)' = MaySend(d)
      BY <3>1, SameMessage
    <3>3. Way'
      BY <2>1, <3>1, <3>2 DEF IInv, Way
    <3>4. Shape'
      BY <2>1, <3>1 DEF IInv, Shape
    <3>. QED  BY <3>3, <3>4 DEF IInv
  <2>. QED  BY <2>1, ClientSendsIInv, ClientEchoesIInv, InternetEchoesIInv DEF Next
<1>. QED  BY <1>1, <1>2, PTL DEF Spec
-----------------------------------------------------------------------------
(* The theorems.                                                           *)

(* The variables have their types: whatever reaches a relay is bytes, and  *)
(* whatever is to leave has an address that a socket can take, over all    *)
(* the parsing and the addressing anew of send(), deliver() and            *)
(* relay_reply().                                                          *)
THEOREM TypeCorrect == Spec => []TypeOK
<1>1. ASSUME IInv PROVE TypeOK
  <2>1. /\ key \in [Client -> RouteKey] /\ raw \in Seq(Byte)
        /\ asker = {} \/ \E c \in Client : asker = {c}
        /\ failed = IF Decode(raw) = {} THEN asker ELSE {}
        /\ relay \in [Client -> Seq(Seq(Byte))]
        /\ egress \in [Client -> Seq([peer : SocketAddr, data : Seq(Byte)])]
    BY <1>1 DEF IInv, Shape
  <2>2. asker \subseteq Client /\ failed \subseteq Client
    BY <2>1
  <2>3. Cardinality(asker) <= 1
    <3>1. Cardinality({}) = 0
      BY FS_EmptySet
    <3>2. \A a \in Client : Cardinality({a}) = 1
      BY FS_Singleton
    <3>3. Cardinality(asker) = 0 \/ Cardinality(asker) = 1
      BY <2>1, <3>1, <3>2, Zenon
    <3>. QED  BY <3>3
  <2>4. ASSUME NEW c \in Client, NEW i \in 1 .. Len(egress[c])
        PROVE  egress[c][i].peer \in SocketAddr /\ egress[c][i].data \in Seq(Byte)
    <3>. DEFINE Datagram == [peer : SocketAddr, data : Seq(Byte)]
    <3>1. egress[c] \in Seq(Datagram)
      BY <2>1
    <3>2. egress[c][i] \in Datagram
      <4>. HIDE DEF Datagram
      <4>. QED  BY <3>1, ElementOfSeq
    <3>. QED  BY <3>2
  <2>. QED  BY <2>1, <2>2, <2>3, <2>4 DEF TypeOK
<1>. QED  BY <1>1, Invariant, PTL

(* UdpPacket::parse() takes exactly the bytes that packet() makes of some  *)
(* frame, whatever the bytes are, so a session ends with an error for all  *)
(* others and only then, and no client's session ends for what another one *)
(* has sent it through the proxy.                                          *)
THEOREM OnlyFrames == Spec => []OnlyFramesAreAccepted
<1>1. ASSUME IInv PROVE OnlyFramesAreAccepted
  <2>1. /\ raw \in Seq(Byte) /\ Len(raw) <= MaxRaw
        /\ failed = IF Decode(raw) = {} THEN asker ELSE {}
    BY <1>1 DEF IInv, Shape
  <2>2. ASSUME Decode(raw) # {} PROVE raw \in Encodings
    <3>. DEFINE F == Decoded(raw)
                n == Len(F.data)
    <3>1. Fits(F) /\ Encoded(F) = raw /\ Len(raw) = HeaderLen + n
      BY <2>1, <2>2, EncodedDecoded
    <3>2. /\ F.peer_ip \in Ipv6 /\ F.peer_port \in U16 /\ F.data \in Seq(Byte)
          /\ F = [peer_ip |-> F.peer_ip, peer_port |-> F.peer_port, data |-> F.data]
      BY <3>1, PeerParts
    <3>3. n \in 0 .. MaxRaw - HeaderLen
      <4>1. n \in Nat /\ HeaderLen \in Nat /\ MaxRaw \in Nat
        BY <3>2, Widths, DatagramsAssumption
      <4>. HIDE DEF n
      <4>. QED  BY <2>1, <3>1, <4>1
    <3>4. F.data \in [1 .. n -> Byte]
      <4>. HIDE DEF F
      <4>. QED  BY <3>2
    <3>. HIDE DEF F, n
    <3>5. F \in Frames
      BY <3>2, <3>3, <3>4 DEF Frames
    <3>6. Encode(F) = {raw}
      BY <3>1, EncodeFits
    <3>7. Encode(F) # {} /\ (CHOOSE bytes \in Encode(F) : TRUE) = raw
      BY <3>6, TheOnlyOne
    <3>. QED  BY <3>5, <3>7 DEF Encodings
  <2>3. ASSUME raw \in Encodings PROVE Decode(raw) # {}
    <3>1. PICK f \in Frames : Encode(f) # {} /\ raw = CHOOSE bytes \in Encode(f) : TRUE
      BY <2>3 DEF Encodings
    <3>2. Len(f.data) \in U16
      BY <3>1 DEF Encode
    <3>3. f \in Frame
      <4>1. PICK n \in 0 .. MaxRaw - HeaderLen : f.data \in [1 .. n -> Byte]
        BY DEF Frames
      <4>2. n \in Nat
        BY Widths, DatagramsAssumption
      <4>3. f.data \in Seq(Byte)
        BY <4>1, <4>2
      <4>. QED  BY <4>3 DEF Frames, Frame
    <3>4. Fits(f)
      BY <3>2, <3>3 DEF Fits
    <3>5. raw = Encoded(f)
      <4>1. Encode(f) = {Encoded(f)}
        BY <3>4, EncodeFits
      <4>. QED  BY <3>1, <4>1, TheOnlyOne
    <3>. QED  BY <3>4, <3>5, DecodeEncoded
  <2>. QED  BY <2>1, <2>2, <2>3 DEF OnlyFramesAreAccepted
<1>. QED  BY <1>1, Invariant, PTL

(* What is under way, one by one.                                          *)
LEMMA Each ==
  ASSUME IInv, NEW c \in Client
  PROVE  /\ \A i \in 1 .. Len(relay[c]) : UnderWay /\ relay[c][i] \in MayGet(c)
         /\ \A i \in 1 .. Len(egress[c]) : UnderWay /\ egress[c][i] \in MaySend(c)
         /\ relay[c] \in Seq(Seq(Byte)) /\ egress[c] \in Seq([peer : SocketAddr, data : Seq(Byte)])
<1>1. CASE ~UnderWay
  <2>1. relay[c] = <<>> /\ egress[c] = <<>>
    BY <1>1 DEF IInv, Way
  <2>2. \A i \in 1 .. Len(<<>>) : FALSE
    OBVIOUS
  <2>. QED  BY <2>1, <2>2 DEF IInv, Shape
<1>2. CASE UnderWay
  <2>1. relay[c] \in Seq(MayGet(c)) /\ egress[c] \in Seq(MaySend(c))
    BY <1>2 DEF IInv, Way
  <2>. QED  BY <1>2, <2>1, ElementOfSeq DEF IInv, Shape
<1>. QED  BY <1>1, <1>2

(* A datagram that is sent back comes back as it was sent, through two or  *)
(* more headers made anew: deliver() puts the key of the sender where      *)
(* send() has read the addressee, and relay_reply() the peer.              *)
THEOREM EchoComesBackWhole == Spec => []EchoIsIdentity
<1>1. ASSUME IInv PROVE EchoIsIdentity
  <2>1. SUFFICES ASSUME NEW c \in asker, NEW i \in 1 .. Len(relay[c]), relay[c][i] # raw
                 PROVE  \E frame \in Decode(raw) :
                          ~StaysInside(Peer(frame).ip) /\ Len(frame.data) > MaxDatagram
    BY DEF EchoIsIdentity
  <2>2. c \in Client /\ raw \in Seq(Byte)
    BY <1>1 DEF IInv, Shape
  <2>3. UnderWay /\ relay[c][i] \in MayGet(c)
    BY <1>1, <2>2, Each
  <2>4. Outside /\ Len(Decoded(raw).data) > MaxDatagram
    BY <2>1, <2>3 DEF MayGet
  <2>5. Decode(raw) = {Decoded(raw)}
    BY <2>2, <2>3, EncodedDecoded DEF UnderWay
  <2>. QED  BY <2>4, <2>5 DEF Outside
<1>. QED  BY <1>1, Invariant, PTL

(* No IPv4-mapped address and none of the network is sent to through a     *)
(* socket, and nothing sent to the proxy's own address, which              *)
(* random_address() gives to nobody, reaches a client.                     *)
THEOREM Closed == Spec => []NetworkIsClosed
<1>1. ASSUME IInv PROVE NetworkIsClosed
  <2>1. raw \in Seq(Byte) /\ key \in [Client -> RouteKey]
    BY <1>1 DEF IInv, Shape
  <2>2. ASSUME Decode(raw) # {}
        PROVE  /\ Decode(raw) = {Decoded(raw)} /\ Decoded(raw).peer_ip \in Ipv6
               /\ Peer(Decoded(raw)).ip = FromIpv6(Decoded(raw).peer_ip)
    BY <2>1, <2>2, EncodedDecoded, PeerParts
  <2>3. ASSUME NEW c \in Client, NEW i \in 1 .. Len(egress[c])
        PROVE  LET ip == egress[c][i].peer.ip
               IN  Is4(ip) \/ (~IsNetworkAddress(ip) /\ ~IsMapped(ip))
    <3>. DEFINE ip == egress[c][i].peer.ip
                x  == Decoded(raw).peer_ip
    <3>1. UnderWay /\ egress[c][i] \in MaySend(c)
      BY <1>1, Each
    <3>2. Outside /\ egress[c][i] = [peer |-> Peer(Decoded(raw)), data |-> Decoded(raw).data]
      BY <3>1 DEF MaySend
    <3>3. Decode(raw) # {}
      BY <3>1 DEF UnderWay
    <3>4. ip = FromIpv6(x) /\ x \in Ipv6 /\ ~StaysInside(ip)
      BY <2>2, <3>2, <3>3 DEF Outside
    <3>. HIDE DEF ip, x
    <3>5. Is4(ip) \/ ~IsNetworkAddress(ip)
      BY <3>4 DEF StaysInside
    <3>6. IsMapped(x) => Is4(ip)
      <4>1. SUFFICES ASSUME IsMapped(x) PROVE Is4(ip)
        OBVIOUS
      <4>2. CASE ip \in Ipv4
        <5>1. AddressLen - Len(Mapped) \in Nat
          BY Widths
        <5>. QED  BY <4>2, <5>1 DEF Is4, Ipv4
      <4>3. CASE ip \in Ipv6 /\ ~Is4(ip)
        <5>1. ip = x
          BY <3>4, <4>3, ToFromIpv6 DEF ToIpv6
        <5>2. ip = SubSeq(x, Len(Mapped) + 1, AddressLen)
          BY <3>4, <4>1 DEF FromIpv6
        <5>3. /\ Len(Mapped) \in Nat /\ AddressLen \in Nat /\ Len(Mapped) >= 1
              /\ Len(Mapped) < AddressLen /\ x \in Seq(Byte) /\ Len(x) = AddressLen
          BY <3>4, Widths, Ipv6Sequence
        <5>. DEFINE n == AddressLen - Len(Mapped)
        <5>4. n \in Nat /\ Len(Mapped) + n = AddressLen /\ Len(Mapped) + n <= Len(x)
          BY <5>3
        <5>. HIDE DEF n
        <5>5. Len(SubSeq(x, Len(Mapped) + 1, Len(Mapped) + n)) = n
          BY <5>3, <5>4, PartOf
        <5>. QED  BY <4>3, <5>2, <5>4, <5>5 DEF Is4, n
      <4>. QED  BY <3>4, <4>2, <4>3, ToFromIpv6
    <3>7. ~IsMapped(x) => ip = x
      BY <3>4 DEF FromIpv6
    <3>8. Is4(ip) \/ (~IsNetworkAddress(ip) /\ ~IsMapped(ip))
      BY <3>5, <3>6, <3>7
    <3>. QED  BY <3>8 DEF ip
  <2>4. ASSUME NEW frame \in Decode(raw), frame.peer_ip = PROXY_ADDRESS, NEW c \in Client
        PROVE  relay[c] = <<>> /\ egress[c] = <<>>
    <3>1. /\ Decoded(raw).peer_ip = PROXY_ADDRESS
          /\ Peer(Decoded(raw)).ip = FromIpv6(PROXY_ADDRESS)
      BY <2>2, <2>4
    <3>2. ~Outside
      BY <3>1, ProxyAddressIsNobodys, NetworkNotMapped DEF Outside
    <3>3. ASSUME NEW d \in Client PROVE key[d] # Addressee
      <4>1. key[d][1] \in RandomAddress
        BY <2>1, KeyParts
      <4>. QED  BY <3>1, <4>1, ProxyAddressIsNobodys DEF Addressee
    <3>4. MayGet(c) = {} /\ MaySend(c) = {}
      BY <3>2, <3>3 DEF MayGet, MaySend
    <3>5. /\ \A i \in 1 .. Len(relay[c]) : FALSE
          /\ \A i \in 1 .. Len(egress[c]) : FALSE
      BY <1>1, <3>4, Each
    <3>6. relay[c] \in Seq(Seq(Byte)) /\ egress[c] \in Seq([peer : SocketAddr, data : Seq(Byte)])
      BY <1>1, Each
    <3>. QED  BY <3>5, <3>6, NoElementNoSequence
  <2>. QED  BY <2>3, <2>4 DEF NetworkIsClosed
<1>. QED  BY <1>1, Invariant, PTL
=============================================================================
