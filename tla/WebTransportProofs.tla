------------------------- MODULE WebTransportProofs -------------------------
(***************************************************************************)
(* Proofs about the WebTransport session, for streams of any length, cut   *)
(* in any way, and any number of relayed messages.                         *)
(*                                                                         *)
(* IInv says which part of the stream is where: the first lines, as many   *)
(* as were executed, are the commands, what was read behind them is in the *)
(* command buffer or was forwarded, and what the service has relayed is    *)
(* written up to some message and in the channel from there on.            *)
(***************************************************************************)
EXTENDS WebTransport, FiniteSetTheorems, WellFoundedInduction, SequenceTheorems, TLAPS

-----------------------------------------------------------------------------
(* Sequences.                                                              *)

LEMMA Least ==
  ASSUME NEW T \in SUBSET Nat, T # {}
  PROVE  \E x \in T : \A y \in T : x <= y
<1>. DEFINE R == OpToRel(<, Nat)
<1>1. IsWellFoundedOn(R, Nat)
  BY NatLessThanWellFounded
<1>2. PICK x \in T : \A y \in T : ~(<<y, x>> \in R)
  <2>. HIDE DEF R
  <2>. QED  BY <1>1, WFMin, Zenon
<1>3. \A y \in T : ~(y < x)
  BY <1>2 DEF OpToRel
<1>. QED  BY <1>3

LEMMA Part ==
  ASSUME NEW S, NEW s \in Seq(S), NEW at \in Nat, NEW to \in Nat, at <= to, to <= Len(s)
  PROVE  /\ SubSeq(s, at + 1, to) \in Seq(S)
         /\ Len(SubSeq(s, at + 1, to)) = to - at
         /\ \A i \in 1 .. to - at : SubSeq(s, at + 1, to)[i] = s[at + i]
<1>1. /\ at + 1 \in Int /\ to \in Int /\ Len(s) \in Nat
      /\ \A i \in at + 1 .. to : i \in 1 .. Len(s)
  OBVIOUS
<1>2. \A i \in at + 1 .. to : s[i] \in S
  BY <1>1, ElementOfSeq
<1>3. /\ SubSeq(s, at + 1, to) \in Seq(S)
      /\ Len(SubSeq(s, at + 1, to)) = IF at + 1 <= to THEN to - (at + 1) + 1 ELSE 0
      /\ \A i \in 1 .. to - (at + 1) + 1 : SubSeq(s, at + 1, to)[i] = s[at + 1 + i - 1]
  BY <1>1, <1>2, SubSeqProperties
<1>4. (IF at + 1 <= to THEN to - (at + 1) + 1 ELSE 0) = to - at
  OBVIOUS
<1>5. \A i \in 1 .. to - at : at + 1 + i - 1 = at + i /\ i \in 1 .. to - (at + 1) + 1
  OBVIOUS
<1>. QED  BY <1>3, <1>4, <1>5

LEMMA FirstPart ==
  ASSUME NEW S, NEW s \in Seq(S), NEW to \in Nat, to <= Len(s)
  PROVE  /\ SubSeq(s, 1, to) \in Seq(S) /\ Len(SubSeq(s, 1, to)) = to
         /\ \A i \in 1 .. to : SubSeq(s, 1, to)[i] = s[i]
<1>1. PICK at \in Nat : at = 0 /\ at + 1 = 1 /\ to - at = to /\ at <= to
  OBVIOUS
<1>2. /\ SubSeq(s, at + 1, to) \in Seq(S) /\ Len(SubSeq(s, at + 1, to)) = to - at
      /\ \A i \in 1 .. to - at : SubSeq(s, at + 1, to)[i] = s[at + i]
  BY <1>1, Part
<1>3. \A i \in 1 .. to : at + i = i
  BY <1>1
<1>. QED  BY <1>1, <1>2, <1>3

(* A part of a part.                                                       *)
LEMMA PartOfPart ==
  ASSUME NEW S, NEW s \in Seq(S), NEW at \in Nat, NEW to \in Nat, at <= to, to <= Len(s),
         NEW c \in Nat, NEW d \in Nat, c <= d, d <= to - at
  PROVE  SubSeq(SubSeq(s, at + 1, to), c + 1, d) = SubSeq(s, at + c + 1, at + d)
<1>. DEFINE u == SubSeq(s, at + 1, to)
            v == SubSeq(u, c + 1, d)
            w == SubSeq(s, at + c + 1, at + d)
<1>1. u \in Seq(S) /\ Len(u) = to - at /\ \A i \in 1 .. to - at : u[i] = s[at + i]
  BY Part
<1>. HIDE DEF u
<1>2. v \in Seq(S) /\ Len(v) = d - c /\ \A i \in 1 .. d - c : v[i] = u[c + i]
  BY <1>1, Part
<1>3. at + c \in Nat /\ at + d \in Nat /\ at + c <= at + d /\ at + d <= Len(s)
      /\ at + d - (at + c) = d - c
  OBVIOUS
<1>4. w \in Seq(S) /\ Len(w) = d - c /\ \A i \in 1 .. d - c : w[i] = s[at + c + i]
  <2>1. /\ w \in Seq(S) /\ Len(w) = at + d - (at + c)
        /\ \A i \in 1 .. at + d - (at + c) : w[i] = s[at + c + i]
    BY <1>3, Part
  <2>. HIDE DEF w
  <2>. QED  BY <1>3, <2>1
<1>. HIDE DEF v, w
<1>5. \A i \in 1 .. d - c : v[i] = w[i]
  <2>1. \A i \in 1 .. d - c : c + i \in 1 .. to - at /\ at + (c + i) = at + c + i
    OBVIOUS
  <2>. QED  BY <1>1, <1>2, <1>4, <2>1
<1>6. v = w
  BY <1>2, <1>4, <1>5, SeqEqual
<1>. QED  BY <1>6 DEF u, v, w

LEMMA FirstOfPart ==
  ASSUME NEW S, NEW s \in Seq(S), NEW at \in Nat, NEW to \in Nat, at <= to, to <= Len(s),
         NEW d \in Nat, d <= to - at
  PROVE  SubSeq(SubSeq(s, at + 1, to), 1, d) = SubSeq(s, at + 1, at + d)
<1>1. PICK c \in Nat : c = 0 /\ c <= d /\ c + 1 = 1 /\ at + c + 1 = at + 1
  OBVIOUS
<1>2. SubSeq(SubSeq(s, at + 1, to), c + 1, d) = SubSeq(s, at + c + 1, at + d)
  BY <1>1, PartOfPart
<1>. QED  BY <1>1, <1>2

LEMMA RestOfPart ==
  ASSUME NEW S, NEW s \in Seq(S), NEW at \in Nat, NEW to \in Nat, at <= to, to <= Len(s),
         NEW u \in Seq(S), u = SubSeq(s, at + 1, to), NEW c \in Nat, c <= Len(u)
  PROVE  SubSeq(u, c + 1, Len(u)) = SubSeq(s, at + c + 1, to)
<1>1. Len(u) = to - at
  BY Part
<1>2. PICK d \in Nat : d = Len(u) /\ c <= d /\ d <= to - at /\ at + d = to
  BY <1>1
<1>3. SubSeq(SubSeq(s, at + 1, to), c + 1, d) = SubSeq(s, at + c + 1, at + d)
  BY <1>2, PartOfPart
<1>. QED  BY <1>2, <1>3

(* Two parts that adjoin.                                                  *)
LEMMA PartsJoin ==
  ASSUME NEW S, NEW s \in Seq(S), NEW a \in Nat, NEW b \in Nat, NEW c \in Nat,
         a <= b, b <= c, c <= Len(s)
  PROVE  SubSeq(s, a + 1, b) \o SubSeq(s, b + 1, c) = SubSeq(s, a + 1, c)
<1>1. a + 1 \in 1 .. Len(s) + 1 /\ b \in a + 1 - 1 .. Len(s) /\ c \in b .. Len(s)
  OBVIOUS
<1>. QED  BY <1>1, ConcatAdjacentSubSeq

LEMMA NoPart == ASSUME NEW s, NEW a \in Nat PROVE SubSeq(s, a + 1, a) = <<>>
BY SubSeqEmpty

LEMMA PrefixIs ==
  ASSUME NEW S, NEW s \in Seq(S), NEW t \in Seq(S), Len(s) <= Len(t),
         \A i \in 1 .. Len(s) : s[i] = t[i]
  PROVE  IsPrefix(s, t)
<1>. DEFINE n == Len(s)
            u == SubSeq(s, 0 + 1, n)
            v == SubSeq(t, 0 + 1, n)
<1>1. n \in Nat /\ n <= Len(t) /\ n - 0 = n /\ 0 + 1 = 1 /\ Len(s) = n
  OBVIOUS
<1>2. u \in Seq(S) /\ Len(u) = n /\ \A i \in 1 .. n : u[i] = s[0 + i]
  <2>1. /\ u \in Seq(S) /\ Len(u) = n - 0 /\ \A i \in 1 .. n - 0 : u[i] = s[0 + i]
    BY <1>1, Part
  <2>. QED  BY <1>1, <2>1
<1>3. v \in Seq(S) /\ Len(v) = n /\ \A i \in 1 .. n : v[i] = t[0 + i]
  <2>1. /\ v \in Seq(S) /\ Len(v) = n - 0 /\ \A i \in 1 .. n - 0 : v[i] = t[0 + i]
    <3>. HIDE DEF n
    <3>. QED  BY <1>1, Part
  <2>. QED  BY <1>1, <2>1
<1>4. u = SubSeq(s, 1, Len(s)) /\ v = SubSeq(t, 1, Len(s))
  BY <1>1
<1>. HIDE DEF u, v
<1>5. \A i \in 1 .. Len(u) : u[i] = v[i]
  <2>1. \A i \in 1 .. n : 0 + i = i
    OBVIOUS
  <2>. QED  BY <1>2, <1>3, <2>1
<1>6. u = v
  BY <1>2, <1>3, <1>5, SeqEqual
<1>. QED  BY <1>1, <1>4, <1>6 DEF IsPrefix

LEMMA EmptyIsPrefix == ASSUME NEW S, NEW t \in Seq(S) PROVE IsPrefix(<<>>, t)
<1>. DEFINE e == <<>>
<1>1. e \in Seq(S) /\ Len(e) = 0
  OBVIOUS
<1>. HIDE DEF e
<1>2. Len(e) <= Len(t) /\ \A i \in 1 .. Len(e) : e[i] = t[i]
  BY <1>1
<1>3. IsPrefix(e, t)
  BY <1>1, <1>2, PrefixIs
<1>. QED  BY <1>3 DEF e

LEMMA PrefixOfConcat ==
  ASSUME NEW S, NEW s \in Seq(S), NEW t \in Seq(S)
  PROVE  IsPrefix(s, s \o t)
<1>1. /\ s \o t \in Seq(S) /\ Len(s \o t) = Len(s) + Len(t) /\ Len(s) \in Nat /\ Len(t) \in Nat
      /\ \A i \in 1 .. Len(s) + Len(t) : (s \o t)[i] = IF i <= Len(s) THEN s[i] ELSE t[i - Len(s)]
  BY ConcatProperties, LenProperties
<1>2. \A i \in 1 .. Len(s) : s[i] = (s \o t)[i]
  BY <1>1
<1>. DEFINE u == s \o t
<1>3. u \in Seq(S) /\ Len(s) <= Len(u) /\ \A i \in 1 .. Len(s) : s[i] = u[i]
  BY <1>1, <1>2
<1>. HIDE DEF u
<1>4. IsPrefix(s, u)
  BY <1>3, PrefixIs
<1>. QED  BY <1>4 DEF u

-----------------------------------------------------------------------------
(* The meaning of a stream.                                                *)

LEMMA Distinct ==
  /\ Newline \notin {PING, BIND, PROXY} /\ PING \notin {BIND, PROXY} /\ BIND # PROXY
  /\ MaxScript \in Nat /\ MaxRelay \in Nat /\ MaxLine \in Nat /\ MaxBuffer \in Nat
  /\ MaxLine < MaxBuffer
BY WebTransportAssumption

LEMMA NewlinesFinite ==
  ASSUME NEW s \in Seq(Symbol)
  PROVE  /\ IsFiniteSet(Newlines(s)) /\ Newlines(s) \subseteq 1 .. Len(s)
         /\ \A p : IsFiniteSet(NewlinesTo(s, p)) /\ NewlinesTo(s, p) \subseteq Newlines(s)
<1>1. Newlines(s) \subseteq 1 .. Len(s) /\ Len(s) \in Nat
  BY DEF Newlines
<1>2. IsFiniteSet(1 .. Len(s))
  BY <1>1, FS_Interval
<1>3. IsFiniteSet(Newlines(s))
  BY <1>1, <1>2, FS_Subset
<1>4. ASSUME NEW p PROVE IsFiniteSet(NewlinesTo(s, p)) /\ NewlinesTo(s, p) \subseteq Newlines(s)
  <2>1. NewlinesTo(s, p) \subseteq Newlines(s)
    BY DEF NewlinesTo
  <2>. QED  BY <1>3, <2>1, FS_Subset
<1>. QED  BY <1>1, <1>3, <1>4

(* A newline is known by how many there are up to it.                      *)
LEMMA NewlineByNumber ==
  ASSUME NEW s \in Seq(Symbol), NEW p \in Newlines(s), NEW q \in Newlines(s),
         Cardinality(NewlinesTo(s, p)) = Cardinality(NewlinesTo(s, q))
  PROVE  p = q
<1>1. ASSUME NEW a \in Newlines(s), NEW b \in Newlines(s), a < b,
             Cardinality(NewlinesTo(s, a)) = Cardinality(NewlinesTo(s, b))
      PROVE  FALSE
  <2>1. a \in Int /\ b \in Int /\ \A x \in Newlines(s) : x \in Int
    BY NewlinesFinite
  <2>2. NewlinesTo(s, a) \subseteq NewlinesTo(s, b)
    <3>1. \A x \in Newlines(s) : x <= a => x <= b
      BY <1>1, <2>1
    <3>. QED  BY <3>1, Zenon DEF NewlinesTo
  <2>3. NewlinesTo(s, a) = NewlinesTo(s, b)
    BY <1>1, <2>2, NewlinesFinite, FS_Subset
  <2>4. b \in NewlinesTo(s, b) /\ b \notin NewlinesTo(s, a)
    BY <1>1, <2>1 DEF NewlinesTo
  <2>. QED  BY <2>3, <2>4
<1>2. p \in Int /\ q \in Int
  BY NewlinesFinite
<1>3. p < q \/ q < p \/ p = q
  BY <1>2
<1>. QED  BY <1>1, <1>3

LEMMA EndIs ==
  ASSUME NEW s \in Seq(Symbol), NEW p \in Newlines(s), NEW n \in Nat \ {0},
         Cardinality(NewlinesTo(s, p)) = n
  PROVE  EndOf(s, n) = p
<1>. DEFINE e == CHOOSE q \in Newlines(s) : Cardinality(NewlinesTo(s, q)) = n
<1>1. e \in Newlines(s) /\ Cardinality(NewlinesTo(s, e)) = n
  OBVIOUS
<1>2. EndOf(s, n) = e
  BY DEF EndOf
<1>. HIDE DEF e
<1>. QED  BY <1>1, <1>2, NewlineByNumber

(* The next newline behind a place has the next number.                    *)
LEMMA NextNewline ==
  ASSUME NEW s \in Seq(Symbol), NEW at \in 0 .. Len(s), NEW p \in Newlines(s), at < p,
         \A q \in Newlines(s) : q <= at \/ p <= q
  PROVE  Cardinality(NewlinesTo(s, p)) = Cardinality(NewlinesTo(s, at)) + 1
<1>1. p \in Int /\ at \in Int /\ \A x \in Newlines(s) : x \in Int
  BY NewlinesFinite
<1>2. NewlinesTo(s, p) = NewlinesTo(s, at) \cup {p} /\ p \notin NewlinesTo(s, at)
  <2>1. \A x \in Newlines(s) : x <= p <=> x <= at \/ x = p
    BY <1>1
  <2>2. ~(p <= at)
    BY <1>1
  <2>. QED  BY <2>1, <2>2, Zenon DEF NewlinesTo
<1>. QED  BY <1>2, NewlinesFinite, FS_AddElement

(* Every line has an end.                                                  *)
LEMMA EndExists ==
  ASSUME NEW s \in Seq(Symbol), NEW n \in 1 .. Cardinality(Newlines(s))
  PROVE  EndOf(s, n) \in Newlines(s) /\ EndOf(s, n) \in 1 .. Len(s)
<1>. DEFINE count(k) == Cardinality(NewlinesTo(s, k))
            enough   == {k \in 0 .. Len(s) : count(k) >= n}
<1>1. Len(s) \in Nat /\ Cardinality(Newlines(s)) \in Nat /\ n \in Nat /\ n >= 1
  BY NewlinesFinite, FS_CardinalityType
<1>2. \A k : count(k) \in Nat
  BY NewlinesFinite, FS_CardinalityType
<1>3. NewlinesTo(s, Len(s)) = Newlines(s)
  <2>1. \A p \in Newlines(s) : p <= Len(s)
    BY <1>1, NewlinesFinite
  <2>. QED  BY <2>1 DEF NewlinesTo
<1>4. Len(s) \in enough
  BY <1>1, <1>3
<1>5. PICK k \in enough : \A m \in enough : k <= m
  <2>1. enough \in SUBSET Nat /\ enough # {}
    BY <1>1, <1>4
  <2>. HIDE DEF enough
  <2>. QED  BY <2>1, Least
<1>6. k \in 0 .. Len(s) /\ k \in Nat /\ count(k) >= n
  BY <1>1
<1>7. k # 0
  <2>1. \A p \in Newlines(s) : ~(p <= 0)
    BY <1>1, NewlinesFinite
  <2>2. NewlinesTo(s, 0) = {}
    BY <2>1 DEF NewlinesTo
  <2>3. count(0) = 0
    BY <2>2, FS_EmptySet
  <2>. QED  BY <1>1, <1>6, <2>3
<1>8. k - 1 \in 0 .. Len(s) /\ ~(k - 1 \in enough)
  BY <1>1, <1>5, <1>6, <1>7
<1>9. count(k - 1) < n
  BY <1>1, <1>2, <1>8
<1>. HIDE DEF enough
<1>10. k \in Newlines(s)
  <2>1. SUFFICES ASSUME k \notin Newlines(s) PROVE FALSE
    OBVIOUS
  <2>2. \A p \in Newlines(s) : p <= k <=> p <= k - 1
    BY <1>6, <2>1, NewlinesFinite
  <2>3. NewlinesTo(s, k) = NewlinesTo(s, k - 1)
    BY <2>2 DEF NewlinesTo
  <2>. QED  BY <1>1, <1>2, <1>6, <1>9, <2>3
<1>11. count(k) = count(k - 1) + 1
  <2>1. \A q \in Newlines(s) : q <= k - 1 \/ k <= q
    BY <1>6, NewlinesFinite
  <2>2. k - 1 < k
    BY <1>6
  <2>. QED  BY <1>8, <1>10, <2>1, <2>2, NextNewline
<1>12. count(k) = n
  BY <1>1, <1>2, <1>6, <1>9, <1>11
<1>13. EndOf(s, n) = k
  BY <1>1, <1>10, <1>12, EndIs
<1>. QED  BY <1>6, <1>7, <1>10, <1>13

(* What lines that are all commands, and make no lease but for the last,   *)
(* say of the commands of the stream.                                      *)
LEMMA CommandsBegin ==
  ASSUME NEW s \in Seq(Symbol), NEW n \in Nat, n <= Cardinality(Newlines(s)),
         \A i \in 1 .. n : IsCommand(LineAt(s, i)) /\ (i < n => ~MakesLease(LineAt(s, i)))
  PROVE  /\ Cardinality(CommandLines(s)) \in Nat /\ n <= Cardinality(CommandLines(s))
         /\ n # 0 /\ MakesLease(LineAt(s, n)) => Cardinality(CommandLines(s)) = n
<1>. DEFINE N == Cardinality(Newlines(s))
<1>1. N \in Nat
  BY NewlinesFinite, FS_CardinalityType
<1>2. CommandLines(s) \subseteq 1 .. N /\ IsFiniteSet(1 .. N)
  BY <1>1, FS_Interval DEF CommandLines
<1>3. IsFiniteSet(CommandLines(s)) /\ Cardinality(CommandLines(s)) \in Nat
  BY <1>2, FS_Subset, FS_CardinalityType
<1>4. 1 .. n \subseteq CommandLines(s)
  <2>1. SUFFICES ASSUME NEW i \in 1 .. n PROVE i \in CommandLines(s)
    OBVIOUS
  <2>2. i \in 1 .. N
    BY <1>1
  <2>3. ASSUME NEW j \in 1 .. i - 1 PROVE j \in 1 .. n /\ j < n
    OBVIOUS
  <2>. QED  BY <2>2, <2>3 DEF CommandLines
<1>5. Cardinality(1 .. n) = n
  BY FS_Interval
<1>6. n <= Cardinality(CommandLines(s))
  BY <1>3, <1>4, <1>5, FS_Subset
<1>7. ASSUME n # 0, MakesLease(LineAt(s, n)) PROVE CommandLines(s) \subseteq 1 .. n
  <2>1. SUFFICES ASSUME NEW i \in CommandLines(s), i \notin 1 .. n PROVE FALSE
    OBVIOUS
  <2>2. i \in 1 .. N /\ \A j \in 1 .. i - 1 : ~MakesLease(LineAt(s, j))
    BY DEF CommandLines
  <2>3. n \in 1 .. i - 1
    BY <1>1, <1>7, <2>1, <2>2
  <2>. QED  BY <1>7, <2>2, <2>3
<1>. QED  BY <1>3, <1>4, <1>5, <1>6, <1>7

-----------------------------------------------------------------------------
(* The command at the front of the buffer.                                 *)

LEMMA FirstNewline ==
  ASSUME cmdbuf \in Seq(Symbol), HasLine
  PROVE  /\ LineEnd \in 1 .. Len(cmdbuf) /\ cmdbuf[LineEnd] = Newline
         /\ \A j \in 1 .. LineEnd - 1 : cmdbuf[j] # Newline
<1>. DEFINE ends == {i \in 1 .. Len(cmdbuf) : cmdbuf[i] = Newline}
            first(i) == cmdbuf[i] = Newline /\ \A j \in 1 .. i - 1 : cmdbuf[j] # Newline
            e == CHOOSE i \in 1 .. Len(cmdbuf) : first(i)
<1>1. ends \in SUBSET Nat /\ ends # {}
  BY DEF HasLine
<1>2. PICK i \in ends : \A m \in ends : i <= m
  <2>. HIDE DEF ends
  <2>. QED  BY <1>1, Least
<1>3. \A j \in 1 .. i - 1 : j \in 1 .. Len(cmdbuf) /\ ~(i <= j)
  BY <1>2
<1>4. i \in 1 .. Len(cmdbuf) /\ first(i)
  BY <1>2, <1>3
<1>5. e \in 1 .. Len(cmdbuf) /\ first(e)
  <2>. HIDE DEF first
  <2>. QED  BY <1>4
<1>6. LineEnd = e
  BY DEF LineEnd
<1>. HIDE DEF e
<1>. QED  BY <1>5, <1>6

(* A command makes a lease unless it is a PING.                            *)
LEMMA LeaseMakers ==
  ASSUME NEW line \in Line, IsCommand(line)
  PROVE  /\ line # <<>>
         /\ Head(line) \in {PING, BIND, PROXY}
         /\ Head(line) = PING => ~MakesLease(line)
         /\ Head(line) = BIND => line = <<BIND>>
         /\ Head(line) = PROXY => line = <<PROXY>>
<1>1. /\ line \in Seq(Symbol \ {Newline}) /\ Len(line) >= 1 /\ Len(line) \in Nat
      /\ Head(line) = PING \/ Tail(line) = <<>>
  <2>1. line \in Seq(Symbol \ {Newline})
    BY DEF Line
  <2>2. Len(line) \in 1 .. MaxLine /\ (Head(line) = PING \/ Tail(line) = <<>>)
    BY DEF IsCommand
  <2>. QED  BY <2>1, <2>2, LenProperties
<1>2. line # <<>> /\ Head(line) = line[1] /\ 1 \in 1 .. Len(line)
  BY <1>1
<1>3. Head(line) \in {PING, BIND, PROXY}
  BY <1>1, <1>2, ElementOfSeq DEF Symbol
<1>4. ASSUME Head(line) # PING PROVE line = <<Head(line)>>
  <2>1. Tail(line) = <<>> /\ Len(Tail(line)) = Len(line) - 1
    BY <1>1, <1>2, <1>4, HeadTailProperties
  <2>2. Len(line) = 1
    <3>. DEFINE t == Tail(line)
    <3>1. t = <<>> /\ Len(t) = Len(line) - 1
      BY <2>1
    <3>. HIDE DEF t
    <3>2. Len(t) = 0
      BY <3>1
    <3>. QED  BY <1>1, <3>1, <3>2
  <2>3. <<Head(line)>> \in Seq(Symbol \ {Newline}) /\ Len(<<Head(line)>>) = 1
    BY <1>1, <1>2, ElementOfSeq
  <2>. QED  BY <1>1, <1>2, <2>2, <2>3, SeqEqual
<1>5. Head(<<BIND>>) = BIND /\ Head(<<PROXY>>) = PROXY
  OBVIOUS
<1>6. Head(line) = PING => ~MakesLease(line)
  BY <1>5, Distinct DEF MakesLease
<1>. QED  BY <1>2, <1>3, <1>4, <1>6, Distinct

-----------------------------------------------------------------------------
(* The inductive invariant.                                                *)

(* A command has been executed when there is a response to write, there is *)
(* no lease while commands are looked for, and nothing happens to the      *)
(* relay channel before there is one.                                      *)
Phases ==
  /\ phase = "responding" => executed # <<>>
  /\ phase = "parsing" => lease = "none"
  /\ session = "ended" => phase = "select" /\ cmdbuf = <<>> /\ relay = <<>>
  /\ lease = "none" => relayed = 0 /\ relay_tx = "session" /\ relay = <<>>

(* The first lines of the stream, as many as were executed, are commands   *)
(* and what was executed, and the lease is what the last one has made.     *)
Count == Len(executed)

Lines ==
  /\ EndOf(script, Count) \in 0 .. pos
  /\ Cardinality(NewlinesTo(script, EndOf(script, Count))) = Count
  /\ \A i \in 1 .. Count : /\ executed[i] = LineAt(script, i) /\ IsCommand(executed[i])
                           /\ i < Count => ~MakesLease(executed[i])
  /\ lease = "none" /\ Count # 0 => ~MakesLease(executed[Count])
  /\ lease = "udp"    => Count # 0 /\ executed[Count] = <<BIND>>
  /\ lease = "stream" => Count # 0 /\ executed[Count] = <<PROXY>>

(* What is behind them is in the buffer, or it is data.                    *)
Rest(p) == SubSeq(script, EndOf(script, Count) + 1, p)

Buffer ==
  session = "open" =>
    IF lease = "none" \/ phase = "responding"
    THEN cmdbuf = Rest(pos) /\ forwarded = <<>>
    ELSE cmdbuf = <<>> /\ forwarded = IF lease = "stream" THEN Rest(pos) ELSE <<>>

Forwarded ==
  \/ forwarded = <<>>
  \/ lease = "stream" /\ \E p \in EndOf(script, Count) .. pos : forwarded = Rest(p)

(* Of what the service has relayed the first w are written, and the others *)
(* are in the relay channel, with only the wake-up of a service that is    *)
(* gone behind them.                                                       *)
UpTo(n) == [i \in 1 .. n |-> <<i>>]

Answered == IF phase = "responding" THEN Front(executed) ELSE executed

Written(w) ==
  /\ \/ Len(relay) = relayed - w
     \/ /\ Len(relay) = relayed - w + 1 /\ relay_tx = "dropped"
        /\ relay[Len(relay)] = WakeUp
  /\ \A i \in 1 .. relayed - w : relay[i] = <<w + i>>
  /\ phase = "responding" => w = 0
  /\ datagrams = IF lease = "udp" THEN UpTo(w) ELSE <<>>
  /\ stream = Answered \o (IF lease = "stream" THEN UpTo(w) ELSE <<>>)

Channel ==
  IF session = "open"
  THEN \E w \in 0 .. relayed : Written(w)
  ELSE StreamIsResponsesThenData

IInv == TypeOK /\ Phases /\ Lines /\ Buffer /\ Forwarded /\ Channel

-----------------------------------------------------------------------------
(* What is on the stream.                                                  *)

Text == Line \cup Message

LEMMA UpToType ==
  ASSUME NEW w \in Nat, w <= MaxRelay
  PROVE  /\ UpTo(w) \in Seq(Message) /\ UpTo(w) \in Seq(Text) /\ Len(UpTo(w)) = w
         /\ \A i \in 1 .. w : UpTo(w)[i] = <<i>>
<1>1. \A i \in 1 .. w : <<i>> \in Message
  BY Distinct DEF Message
<1>2. UpTo(w) \in Seq(Message) /\ Len(UpTo(w)) = w /\ \A i \in 1 .. w : UpTo(w)[i] = <<i>>
  BY <1>1 DEF UpTo
<1>3. Message \subseteq Text
  BY DEF Text
<1>. QED  BY <1>2, <1>3, SeqMonotonic

LEMMA UpToNext ==
  ASSUME NEW w \in Nat, w + 1 <= MaxRelay
  PROVE  UpTo(w + 1) = Append(UpTo(w), <<w + 1>>)
<1>. DEFINE a == UpTo(w)
            b == UpTo(w + 1)
            c == Append(a, <<w + 1>>)
<1>1. /\ a \in Seq(Message) /\ Len(a) = w /\ \A i \in 1 .. w : a[i] = <<i>>
      /\ b \in Seq(Message) /\ Len(b) = w + 1 /\ \A i \in 1 .. w + 1 : b[i] = <<i>>
  BY UpToType, Distinct
<1>2. <<w + 1>> \in Message
  BY Distinct DEF Message
<1>. HIDE DEF a, b
<1>3. /\ c \in Seq(Message) /\ Len(c) = w + 1 /\ c[w + 1] = <<w + 1>>
      /\ \A i \in 1 .. w : c[i] = a[i]
  BY <1>1, <1>2, AppendProperties
<1>. HIDE DEF c
<1>4. ASSUME NEW i \in 1 .. w + 1 PROVE b[i] = c[i]
  <2>1. b[i] = <<i>>
    BY <1>1
  <2>2. CASE i = w + 1
    BY <1>3, <2>1, <2>2
  <2>3. CASE i # w + 1
    <3>1. i \in 1 .. w
      BY <2>3
    <3>. QED  BY <1>1, <1>3, <2>1, <3>1
  <2>. QED  BY <2>2, <2>3
<1>5. b = c
  BY <1>1, <1>3, <1>4, SeqEqual
<1>. QED  BY <1>5 DEF a, b, c

LEMMA FrontOf ==
  ASSUME NEW S, NEW s \in Seq(S), s # <<>>
  PROVE  /\ Front(s) \in Seq(S) /\ Len(Front(s)) = Len(s) - 1 /\ Last(s) \in S
         /\ \A i \in 1 .. Len(s) - 1 : Front(s)[i] = s[i]
         /\ Append(Front(s), Last(s)) = s
<1>. DEFINE n == Len(s) - 1
            f == SubSeq(s, 0 + 1, n)
            g == Append(f, s[n + 1])
<1>1. n \in Nat /\ n <= Len(s) /\ 0 <= n /\ n - 0 = n /\ n + 1 = Len(s) /\ 0 + 1 = 1
  BY EmptySeq
<1>2. s[n + 1] \in S
  BY <1>1, ElementOfSeq
<1>3. f \in Seq(S) /\ Len(f) = n /\ \A i \in 1 .. n : f[i] = s[i]
  <2>1. f \in Seq(S) /\ Len(f) = n - 0 /\ \A i \in 1 .. n - 0 : f[i] = s[0 + i]
    <3>. HIDE DEF n
    <3>. QED  BY <1>1, Part
  <2>2. \A i \in 1 .. n : 0 + i = i
    OBVIOUS
  <2>. QED  BY <1>1, <2>1, <2>2
<1>4. f = Front(s) /\ s[n + 1] = Last(s)
  BY <1>1 DEF Front, Last
<1>. HIDE DEF f
<1>5. g \in Seq(S) /\ Len(g) = n + 1 /\ g[n + 1] = s[n + 1] /\ \A i \in 1 .. n : g[i] = f[i]
  <2>. HIDE DEF n
  <2>. QED  BY <1>1, <1>2, <1>3, AppendProperties
<1>. HIDE DEF g
<1>6. \A i \in 1 .. Len(g) : g[i] = s[i]
  BY <1>1, <1>3, <1>5
<1>7. g = s
  BY <1>1, <1>5, <1>6, SeqEqual
<1>. QED  BY <1>1, <1>2, <1>3, <1>4, <1>7 DEF g

LEMMA WrittenIsRight ==
  ASSUME TypeOK, Phases, NEW w \in 0 .. relayed, Written(w)
  PROVE  StreamIsResponsesThenData
<1>. DEFINE m == UpTo(MaxRelay)
            e == executed \o m
<1>1. /\ executed \in Seq(Line) /\ w \in Nat /\ w <= MaxRelay /\ MaxRelay \in Nat
      /\ phase = "responding" => executed # <<>> /\ w = 0
      /\ datagrams = IF lease = "udp" THEN UpTo(w) ELSE <<>>
      /\ stream = Answered \o (IF lease = "stream" THEN UpTo(w) ELSE <<>>)
  BY Distinct DEF TypeOK, Phases, Written
<1>2. executed \in Seq(Text)
  BY <1>1, SeqMonotonic DEF Text
<1>3. m \in Seq(Message) /\ m \in Seq(Text) /\ Len(m) = MaxRelay
      /\ \A i \in 1 .. MaxRelay : m[i] = <<i>>
  BY <1>1, UpToType
<1>4. /\ UpTo(w) \in Seq(Message) /\ UpTo(w) \in Seq(Text) /\ Len(UpTo(w)) = w
      /\ \A i \in 1 .. w : UpTo(w)[i] = <<i>>
  BY <1>1, UpToType
<1>. HIDE DEF m
<1>5. IsPrefix(<<>>, m)
  BY <1>3, EmptyIsPrefix
<1>6. IsPrefix(UpTo(w), m)
  <2>. DEFINE u == UpTo(w)
  <2>1. u \in Seq(Message) /\ Len(u) = w /\ \A i \in 1 .. w : u[i] = <<i>>
    BY <1>4
  <2>. HIDE DEF u
  <2>2. \A i \in 1 .. Len(u) : u[i] = m[i]
    <3>1. \A i \in 1 .. w : i \in 1 .. MaxRelay
      BY <1>1
    <3>. QED  BY <1>3, <2>1, <3>1
  <2>3. IsPrefix(u, m)
    BY <1>1, <1>3, <2>1, <2>2, PrefixIs
  <2>. QED  BY <2>3 DEF u
<1>7. IsPrefix(datagrams, m) /\ (lease = "stream" => datagrams = <<>>)
  BY <1>1, <1>5, <1>6
<1>8. /\ Answered \in Seq(Text) /\ Len(Answered) <= Len(executed) /\ Len(Answered) \in Nat
      /\ Len(executed) \in Nat /\ \A i \in 1 .. Len(Answered) : Answered[i] = executed[i]
      /\ phase # "responding" => Answered = executed
  <2>1. CASE phase = "responding"
    <3>. DEFINE f == Front(executed)
    <3>1. executed # <<>>
      BY <1>1, <2>1
    <3>2. f \in Seq(Text) /\ Len(f) = Len(executed) - 1
          /\ \A i \in 1 .. Len(executed) - 1 : f[i] = executed[i]
      BY <1>2, <3>1, FrontOf
    <3>3. Answered = f
      BY <2>1 DEF Answered
    <3>4. Len(executed) \in Nat
      BY <1>2, LenProperties
    <3>. HIDE DEF f
    <3>. QED  BY <2>1, <3>2, <3>3, <3>4
  <2>2. CASE phase # "responding"
    BY <1>2, <2>2, LenProperties DEF Answered
  <2>. QED  BY <2>1, <2>2
<1>9. IsPrefix(Answered, executed)
  BY <1>2, <1>8, PrefixIs
<1>10. /\ e \in Seq(Text) /\ Len(e) = Len(executed) + MaxRelay
       /\ \A i \in 1 .. Len(executed) : e[i] = executed[i]
       /\ \A i \in Len(executed) + 1 .. Len(executed) + MaxRelay : e[i] = m[i - Len(executed)]
  <2>1. /\ e \in Seq(Text) /\ Len(e) = Len(executed) + Len(m)
        /\ \A i \in 1 .. Len(executed) + Len(m) :
             e[i] = IF i <= Len(executed) THEN executed[i] ELSE m[i - Len(executed)]
    BY <1>2, <1>3, ConcatProperties
  <2>. HIDE DEF e
  <2>. QED  BY <1>1, <1>3, <1>8, <2>1
<1>. HIDE DEF e
<1>11. CASE lease # "stream"
  <2>1. stream = Answered
    BY <1>1, <1>8, <1>11, ConcatEmptySeq
  <2>. QED  BY <1>7, <1>9, <1>11, <2>1 DEF StreamIsResponsesThenData, m, UpTo
<1>12. CASE lease = "stream"
  <2>1. stream = Answered \o UpTo(w)
    BY <1>1, <1>12
  <2>2. /\ stream \in Seq(Text) /\ Len(stream) = Len(Answered) + w
        /\ \A i \in 1 .. Len(Answered) + w :
             stream[i] = IF i <= Len(Answered) THEN Answered[i] ELSE UpTo(w)[i - Len(Answered)]
    <3>. DEFINE u == UpTo(w)
    <3>1. stream = Answered \o u /\ u \in Seq(Text) /\ Len(u) = w /\ Answered \in Seq(Text)
      BY <1>4, <1>8, <2>1
    <3>. HIDE DEF u
    <3>2. /\ stream \in Seq(Text) /\ Len(stream) = Len(Answered) + w
          /\ \A i \in 1 .. Len(Answered) + w :
               stream[i] = IF i <= Len(Answered) THEN Answered[i] ELSE u[i - Len(Answered)]
      <4>. DEFINE a == Answered
      <4>1. a \in Seq(Text) /\ stream = a \o u
        BY <3>1
      <4>. HIDE DEF a
      <4>2. /\ a \o u \in Seq(Text) /\ Len(a \o u) = Len(a) + Len(u)
            /\ \A i \in 1 .. Len(a) + Len(u) :
                 (a \o u)[i] = IF i <= Len(a) THEN a[i] ELSE u[i - Len(a)]
        BY <3>1, <4>1, ConcatProperties
      <4>3. /\ stream \in Seq(Text) /\ Len(stream) = Len(a) + w
            /\ \A i \in 1 .. Len(a) + w :
                 stream[i] = IF i <= Len(a) THEN a[i] ELSE u[i - Len(a)]
        BY <3>1, <4>1, <4>2
      <4>. QED  BY <4>3 DEF a
    <3>. QED  BY <3>2 DEF u
  <2>3. Len(stream) <= Len(e) /\ Len(stream) \in Nat
    BY <1>1, <1>8, <1>10, <2>2
  <2>4. ASSUME NEW i \in 1 .. Len(stream) PROVE stream[i] = e[i]
    <3>1. CASE i <= Len(Answered)
      BY <1>8, <1>10, <2>2, <3>1
    <3>2. CASE ~(i <= Len(Answered))
      <4>1. Answered = executed
        BY <1>1, <1>8, <2>2, <3>2
      <4>. DEFINE j == i - Len(executed)
      <4>2. j \in 1 .. w /\ j \in 1 .. MaxRelay /\ i \in Len(executed) + 1 .. Len(executed) + MaxRelay
        BY <1>1, <1>8, <2>2, <3>2, <4>1
      <4>3. stream[i] = UpTo(w)[j] /\ e[i] = m[j]
        BY <1>10, <2>2, <3>2, <4>1, <4>2
      <4>. HIDE DEF j
      <4>. QED  BY <1>3, <1>4, <4>2, <4>3
    <3>. QED  BY <3>1, <3>2
  <2>5. IsPrefix(stream, e)
    BY <1>10, <2>2, <2>3, <2>4, PrefixIs
  <2>. QED  BY <1>7, <1>12, <2>5 DEF StreamIsResponsesThenData, e, m, UpTo
<1>. QED  BY <1>11, <1>12

LEMMA OutputsAreRight == ASSUME IInv PROVE StreamIsResponsesThenData
BY WrittenIsRight DEF IInv, Channel

-----------------------------------------------------------------------------
(* It holds initially and every step preserves it.                         *)

LEMMA InitIInv == Init => IInv
<1>. SUFFICES ASSUME Init PROVE IInv
  OBVIOUS
<1>1. /\ session = "open" /\ phase = "select" /\ send = FALSE /\ recv = "none" /\ pos = 0
      /\ cmdbuf = <<>> /\ lease = "none" /\ relay_tx = "session" /\ live = FALSE
      /\ relay = <<>> /\ relayed = 0 /\ executed = <<>> /\ forwarded = <<>>
      /\ stream = <<>> /\ datagrams = <<>>
  BY DEF Init
<1>2. script \in Seq(Symbol) /\ Len(script) <= MaxScript
  <2>1. PICK n \in 0 .. MaxScript : script \in [1 .. n -> Symbol]
    BY DEF Init
  <2>. QED  BY <2>1, Distinct
<1>3. TypeOK
  <2>1. /\ 0 \in 0 .. Len(script) /\ 0 \in 0 .. MaxRelay
        /\ <<>> \in Seq(Symbol) /\ Len(<<>>) < MaxBuffer
        /\ <<>> \in Seq(Message \cup {WakeUp}) /\ <<>> \in Seq(Line)
        /\ <<>> \in Seq(Line \cup Message) /\ <<>> \in Seq(Message)
    BY <1>2, Distinct
  <2>. QED  BY <1>1, <1>2, <2>1 DEF TypeOK
<1>4. Phases
  BY <1>1 DEF Phases
<1>5. Count = 0 /\ EndOf(script, Count) = 0
  BY <1>1 DEF Count, EndOf
<1>6. Lines
  <2>1. NewlinesTo(script, 0) = {}
    <3>1. \A p \in Newlines(script) : ~(p <= 0)
      BY <1>2, NewlinesFinite
    <3>. QED  BY <3>1 DEF NewlinesTo
  <2>2. Cardinality(NewlinesTo(script, 0)) = 0
    BY <2>1, FS_EmptySet
  <2>. QED  BY <1>1, <1>5, <2>2 DEF Lines
<1>7. Buffer
  <2>1. Rest(0) = <<>>
    BY <1>5, NoPart DEF Rest
  <2>. QED  BY <1>1, <2>1 DEF Buffer
<1>8. Forwarded
  BY <1>1 DEF Forwarded
<1>9. Channel
  <2>1. Answered = <<>> /\ <<>> \o <<>> = <<>> /\ 0 \in 0 .. relayed
    BY <1>1 DEF Answered
  <2>2. Written(0)
    BY <1>1, <2>1 DEF Written
  <2>. QED  BY <1>1, <2>1, <2>2 DEF Channel
<1>. QED  BY <1>3, <1>4, <1>6, <1>7, <1>8, <1>9 DEF IInv

(* As long as no command is executed, Lines stays.                         *)
LEMMA LinesStay ==
  ASSUME TypeOK, Lines, UNCHANGED <<script, executed, lease>>, pos' \in Nat, pos <= pos'
  PROVE  Lines'
<1>1. Count' = Count /\ EndOf(script, Count)' = EndOf(script, Count)
  BY DEF Count, EndOf
<1>2. EndOf(script, Count) \in 0 .. pos /\ pos \in Nat
  BY DEF Lines, TypeOK
<1>3. EndOf(script, Count)' \in 0 .. pos'
  BY <1>1, <1>2
<1>. QED  BY <1>1, <1>3 DEF Lines

LEMMA ForwardedStays ==
  ASSUME TypeOK, Lines, Forwarded, UNCHANGED <<script, executed, lease, forwarded>>,
         pos' \in Nat, pos <= pos'
  PROVE  Forwarded'
<1>1. Count' = Count /\ EndOf(script, Count)' = EndOf(script, Count)
  BY DEF Count, EndOf
<1>2. EndOf(script, Count) \in 0 .. pos /\ pos \in Nat
  BY DEF Lines, TypeOK
<1>3. CASE forwarded = <<>>
  BY <1>3 DEF Forwarded
<1>4. CASE forwarded # <<>>
  <2>1. lease = "stream"
    BY <1>4 DEF Forwarded
  <2>2. PICK p \in EndOf(script, Count) .. pos : forwarded = Rest(p)
    BY <1>4 DEF Forwarded
  <2>3. p \in EndOf(script, Count) .. pos' /\ Rest(p)' = Rest(p)
    BY <1>1, <1>2 DEF Rest
  <2>. QED  BY <1>1, <2>1, <2>2, <2>3 DEF Forwarded
<1>. QED  BY <1>3, <1>4

(* The session ends.                                                       *)
LEMMA EndIInv ==
  ASSUME IInv, TypeOK', End, UNCHANGED <<script, executed, lease, forwarded, relayed>>,
         pos <= pos', lease = "none" => UNCHANGED relay_tx, StreamIsResponsesThenData'
  PROVE  IInv'
<1>1. pos' \in Nat
  BY DEF TypeOK
<1>2. session' = "ended" /\ phase' = "select" /\ cmdbuf' = <<>> /\ relay' = <<>>
  BY DEF End
<1>3. Phases'
  BY <1>2 DEF IInv, Phases
<1>4. Lines' /\ Forwarded'
  BY <1>1, LinesStay, ForwardedStays DEF IInv
<1>5. Buffer'
  BY <1>2 DEF Buffer
<1>6. Channel'
  BY <1>2 DEF Channel
<1>. QED  BY <1>3, <1>4, <1>5, <1>6 DEF IInv

(* Nothing happens to the stream or the relay channel.                     *)
LEMMA QuietIInv ==
  ASSUME IInv, TypeOK',
         UNCHANGED <<script, pos, outputs, session, phase, cmdbuf, lease, relay>>,
         UNCHANGED <<relay_tx, relayed>>
  PROVE  IInv'
<1>1. pos' \in Nat /\ pos <= pos'
  BY DEF TypeOK
<1>2. Phases'
  BY DEF IInv, Phases, outputs
<1>3. Lines' /\ Forwarded'
  BY <1>1, LinesStay, ForwardedStays DEF IInv, outputs
<1>4. Count' = Count /\ EndOf(script, Count)' = EndOf(script, Count)
  BY DEF Count, EndOf, outputs
<1>5. Buffer'
  BY <1>4 DEF IInv, Buffer, Rest, outputs
<1>6. Channel'
  <2>1. Answered' = Answered
    BY DEF Answered, outputs
  <2>2. \A w : Written(w)' <=> Written(w)
    BY <2>1 DEF Written, outputs
  <2>3. StreamIsResponsesThenData' <=> StreamIsResponsesThenData
    BY DEF StreamIsResponsesThenData, outputs
  <2>4. session' = session /\ relayed' = relayed
    OBVIOUS
  <2>. QED  BY <2>2, <2>3, <2>4 DEF Channel, IInv
<1>. QED  BY <1>2, <1>3, <1>5, <1>6 DEF IInv

(* The session ends, and nothing else happens to what it has done.         *)
LEMMA EndsQuietly ==
  ASSUME IInv, End, UNCHANGED <<script, outputs, lease, service, send, recv>>,
         pos <= pos', pos' \in 0 .. Len(script)
  PROVE  IInv'
<1>1. TypeOK'
  <2>1. TypeOK /\ <<>> \in Seq(Symbol) /\ Len(<<>>) < MaxBuffer
        /\ <<>> \in Seq(Message \cup {WakeUp})
    BY Distinct DEF IInv
  <2>. QED  BY <2>1 DEF TypeOK, End, outputs, service
<1>2. StreamIsResponsesThenData'
  <2>1. StreamIsResponsesThenData' <=> StreamIsResponsesThenData
    BY DEF StreamIsResponsesThenData, outputs
  <2>. QED  BY <2>1, OutputsAreRight
<1>. QED  BY <1>1, <1>2, EndIInv DEF outputs, service

LEMMA PosStays == ASSUME IInv, UNCHANGED <<script, pos>>
                  PROVE  pos <= pos' /\ pos' \in 0 .. Len(script)
BY DEF IInv, TypeOK

LEMMA OpenStreamKeeps == ASSUME IInv, OpenStream PROVE IInv'
<1>1. UNCHANGED <<script, pos, outputs, service, lease>>
  BY DEF OpenStream
<1>2. CASE send \/ recv # "none"
  <2>1. End /\ UNCHANGED <<send, recv>>
    BY <1>2 DEF OpenStream
  <2>. QED  BY <1>1, <2>1, PosStays, EndsQuietly
<1>3. CASE ~(send \/ recv # "none")
  <2>1. send' = TRUE /\ recv' = "open" /\ UNCHANGED <<session, phase, cmdbuf, relay>>
    BY <1>3 DEF OpenStream
  <2>2. TypeOK'
    BY <1>1, <2>1 DEF IInv, TypeOK, outputs, service
  <2>. QED  BY <1>1, <2>1, <2>2, QuietIInv DEF service
<1>. QED  BY <1>2, <1>3

LEMMA LeaveKeeps == ASSUME IInv, Leave \/ RelayClosed PROVE IInv'
BY PosStays, EndsQuietly DEF Leave, RelayClosed, inputs

LEMMA StreamFinishedKeeps == ASSUME IInv, StreamFinished PROVE IInv'
<1>1. TypeOK'
  BY DEF IInv, TypeOK, StreamFinished, outputs, service
<1>. QED  BY <1>1, QuietIInv DEF StreamFinished, service

LEMMA DatagramKeeps == ASSUME IInv, Datagram PROVE IInv'
<1>1. UNCHANGED <<inputs, outputs, service, lease>>
  BY DEF Datagram
<1>2. CASE End
  BY <1>1, <1>2, PosStays, EndsQuietly DEF inputs
<1>3. CASE UNCHANGED <<session, phase, cmdbuf, relay>>
  <2>1. TypeOK'
    BY <1>1, <1>3 DEF IInv, TypeOK, inputs, outputs, service
  <2>. QED  BY <1>1, <1>3, <2>1, QuietIInv DEF inputs, service
<1>. QED  BY <1>2, <1>3 DEF Datagram

LEMMA ServiceEndsKeeps == ASSUME IInv, ServiceEnds PROVE IInv'
<1>1. TypeOK'
  BY DEF IInv, TypeOK, ServiceEnds, inputs, outputs
<1>. QED  BY <1>1, QuietIInv DEF ServiceEnds, inputs

LEMMA StutterKeeps == ASSUME IInv, UNCHANGED vars PROVE IInv'
<1>1. TypeOK'
  BY DEF IInv, TypeOK, vars, inputs, outputs, service
<1>. QED  BY <1>1, QuietIInv DEF vars, inputs, service

(* An open session without a new response: what was written to the stream  *)
(* and the relay channel stay.                                             *)
LEMMA ChannelStays ==
  ASSUME TypeOK, Channel, session = "open", session' = "open",
         UNCHANGED <<executed, stream, datagrams, relay, relay_tx, relayed, lease>>,
         phase # "responding", phase' # "responding"
  PROVE  Channel'
<1>1. Answered' = Answered
  BY DEF Answered
<1>2. \A w : Written(w)' <=> Written(w)
  BY <1>1 DEF Written
<1>. QED  BY <1>2 DEF Channel

LEMMA WaitForRestKeeps == ASSUME IInv, WaitForRest PROVE IInv'
<1>1. UNCHANGED <<inputs, outputs, service, lease>> /\ session = "open" /\ phase = "parsing"
  BY DEF WaitForRest
<1>2. CASE TooLong
  BY <1>1, <1>2, PosStays, EndsQuietly DEF WaitForRest, inputs
<1>3. CASE ~TooLong
  <2>1. phase' = "select" /\ UNCHANGED <<session, cmdbuf, relay>>
    BY <1>3 DEF WaitForRest
  <2>2. Len(cmdbuf) < MaxBuffer
    <3>1. Len(cmdbuf) \in Nat /\ ~(Len(cmdbuf) >= MaxBuffer)
      BY <1>3, LenProperties DEF TooLong, IInv, TypeOK
    <3>. QED  BY <3>1, Distinct
  <2>3. TypeOK'
    BY <1>1, <2>1, <2>2 DEF IInv, TypeOK, inputs, outputs, service
  <2>4. Phases'
    BY <1>1, <2>1 DEF IInv, Phases, outputs, service
  <2>5. Lines' /\ Forwarded'
    BY <1>1, PosStays, LinesStay, ForwardedStays DEF IInv, TypeOK, inputs, outputs
  <2>6. Buffer'
    <3>1. Count' = Count /\ EndOf(script, Count)' = EndOf(script, Count)
      BY <1>1 DEF Count, EndOf, inputs, outputs
    <3>2. lease = "none"
      BY <1>1 DEF IInv, Phases
    <3>. QED  BY <1>1, <2>1, <3>1, <3>2 DEF IInv, Buffer, Rest, inputs, outputs
  <2>7. Channel'
    BY <1>1, <2>1, ChannelStays DEF IInv, outputs, service
  <2>. QED  BY <2>3, <2>4, <2>5, <2>6, <2>7 DEF IInv
<1>. QED  BY <1>2, <1>3

(* A read from the client's stream.                                        *)
LEMMA ReadChunkKeeps == ASSUME IInv, NEW k \in 1 .. MaxScript, ReadChunk(k) PROVE IInv'
<1>. DEFINE data == SubSeq(script, pos + 1, pos + k)
            at   == EndOf(script, Count)
<1>1. /\ session = "open" /\ phase = "select" /\ pos' = pos + k /\ pos + k <= Len(script)
      /\ UNCHANGED <<script, send, recv, executed, stream, datagrams, service, lease>>
  BY DEF ReadChunk, Selects
<1>2. /\ script \in Seq(Symbol) /\ Len(script) \in Nat /\ pos \in Nat /\ pos + k \in Nat
      /\ pos <= pos + k /\ pos' \in 0 .. Len(script)
      /\ at \in Nat /\ at <= pos
  BY <1>1, LenProperties, Distinct DEF IInv, TypeOK, Lines
<1>3. data \in Seq(Symbol)
  BY <1>1, <1>2, Part
<1>4. Rest(pos) \o data = Rest(pos + k)
  BY <1>1, <1>2, PartsJoin DEF Rest
<1>5. Count' = Count /\ at' = at
  BY <1>1 DEF Count, EndOf
<1>6. Lines'
  BY <1>1, <1>2, LinesStay DEF IInv
<1>7. CASE lease = "none"
  <2>1. cmdbuf' = cmdbuf \o data /\ phase' = "parsing" /\ UNCHANGED <<forwarded, session, relay>>
    BY <1>7 DEF ReadChunk
  <2>2. cmdbuf' \in Seq(Symbol)
    BY <1>3, <2>1, ConcatProperties DEF IInv, TypeOK
  <2>3. TypeOK'
    BY <1>1, <1>2, <2>1, <2>2 DEF IInv, TypeOK, service
  <2>4. Phases'
    BY <1>1, <1>7, <2>1 DEF IInv, Phases, service
  <2>5. cmdbuf = Rest(pos) /\ forwarded = <<>>
    BY <1>1, <1>7 DEF IInv, Buffer
  <2>6. cmdbuf' = Rest(pos + k)
    BY <1>4, <2>1, <2>5
  <2>7. Buffer' /\ Forwarded'
    BY <1>1, <1>5, <1>7, <2>1, <2>5, <2>6 DEF Buffer, Forwarded, Rest
  <2>8. Channel'
    BY <1>1, <2>1, ChannelStays DEF IInv, service
  <2>. QED  BY <1>6, <2>3, <2>4, <2>7, <2>8 DEF IInv
<1>8. CASE lease # "none"
  <2>1. RelayStream(data)
    BY <1>8 DEF ReadChunk
  <2>2. CASE data # <<>> /\ (lease = "udp" \/ ~live)
    <3>1. End /\ UNCHANGED forwarded
      BY <2>1, <2>2 DEF RelayStream
    <3>. QED  BY <1>1, <1>2, <3>1, EndsQuietly DEF outputs
  <2>3. CASE ~(data # <<>> /\ (lease = "udp" \/ ~live))
    <3>1. UNCHANGED <<session, phase, cmdbuf, relay>>
      BY <2>1, <2>3 DEF RelayStream
    <3>2. forwarded' = forwarded \o data /\ (lease = "udp" => forwarded' = forwarded)
      <4>1. forwarded \in Seq(Symbol)
        BY DEF IInv, TypeOK
      <4>2. CASE data = <<>>
        <5>1. forwarded' = forwarded
          BY <2>1, <4>2 DEF RelayStream
        <5>2. forwarded \o <<>> = forwarded
          BY <4>1, ConcatEmptySeq
        <5>. QED  BY <4>2, <5>1, <5>2
      <4>3. CASE data # <<>>
        BY <2>1, <2>3, <4>3 DEF RelayStream
      <4>. QED  BY <4>2, <4>3
    <3>3. forwarded' \in Seq(Symbol)
      BY <1>3, <3>2, ConcatProperties DEF IInv, TypeOK
    <3>4. TypeOK'
      BY <1>1, <1>2, <3>1, <3>3 DEF IInv, TypeOK, service
    <3>5. Phases'
      BY <1>1, <3>1 DEF IInv, Phases, service
    <3>6. cmdbuf = <<>> /\ forwarded = IF lease = "stream" THEN Rest(pos) ELSE <<>>
      BY <1>1, <1>8 DEF IInv, Buffer
    <3>7. forwarded' = IF lease = "stream" THEN Rest(pos + k) ELSE <<>>
      <4>1. lease \in {"udp", "stream"}
        BY <1>8 DEF IInv, TypeOK
      <4>. QED  BY <1>4, <3>2, <3>6, <4>1
    <3>8. Buffer'
      BY <1>1, <1>5, <1>8, <3>1, <3>6, <3>7 DEF Buffer, Rest
    <3>9. Forwarded'
      <4>1. PICK p \in at .. pos' : p = pos + k
        BY <1>1, <1>2
      <4>2. Rest(p)' = Rest(p) /\ (EndOf(script, Count) .. pos)' = at .. pos'
        BY <1>1, <1>5 DEF Rest
      <4>3. forwarded' = <<>> \/ (lease' = "stream" /\ forwarded' = Rest(p)')
        BY <1>1, <3>7, <4>1, <4>2
      <4>. QED  BY <4>1, <4>2, <4>3 DEF Forwarded
    <3>10. Channel'
      BY <1>1, <3>1, ChannelStays DEF IInv, service
    <3>. QED  BY <1>6, <3>4, <3>5, <3>8, <3>9, <3>10 DEF IInv
  <2>. QED  BY <2>2, <2>3
<1>. QED  BY <1>7, <1>8

LEMMA UpToZero == UpTo(0) = <<>>
<1>. DEFINE u == UpTo(0)
<1>1. u \in Seq(Message) /\ Len(u) = 0
  BY UpToType, Distinct
<1>. HIDE DEF u
<1>2. u = <<>>
  BY <1>1, EmptySeq
<1>. QED  BY <1>2 DEF u

(* With the response the stream holds all the responses and nothing else.  *)
LEMMA Responded ==
  ASSUME IInv, session = "open", phase = "responding"
  PROVE  /\ executed \in Seq(Line) /\ executed # <<>> /\ Last(executed) \in Line
         /\ Append(stream, Last(executed)) = executed
         /\ Written(0) /\ datagrams = <<>>
<1>1. executed \in Seq(Line) /\ executed # <<>>
  BY DEF IInv, TypeOK, Phases
<1>2. /\ Front(executed) \in Seq(Line) /\ Last(executed) \in Line
      /\ Append(Front(executed), Last(executed)) = executed
  BY <1>1, FrontOf
<1>3. Written(0)
  <2>1. PICK w \in 0 .. relayed : Written(w)
    BY DEF IInv, Channel
  <2>2. w = 0
    BY <2>1 DEF Written
  <2>. QED  BY <2>1, <2>2
<1>4. datagrams = <<>> /\ stream = Answered \o <<>> /\ Answered = Front(executed)
  BY <1>3, UpToZero DEF Written, Answered
<1>5. stream = Front(executed)
  BY <1>2, <1>4, ConcatEmptySeq
<1>. QED  BY <1>1, <1>2, <1>3, <1>4, <1>5

LEMMA OnlyResponses ==
  ASSUME executed' \in Seq(Line), stream' = executed', datagrams' = <<>>
  PROVE  StreamIsResponsesThenData'
<1>. DEFINE m == UpTo(MaxRelay)
<1>1. m \in Seq(Message) /\ m \in Seq(Text) /\ executed' \in Seq(Text)
  <2>1. m \in Seq(Message) /\ m \in Seq(Text)
    BY UpToType, Distinct
  <2>2. executed' \in Seq(Text)
    BY SeqMonotonic DEF Text
  <2>. QED  BY <2>1, <2>2
<1>. HIDE DEF m
<1>2. IsPrefix(<<>>, m)
  BY <1>1, EmptyIsPrefix
<1>3. IsPrefix(executed', executed' \o m)
  BY <1>1, PrefixOfConcat
<1>4. IsPrefix(executed', executed')
  <2>1. Len(executed') <= Len(executed')
    BY LenProperties
  <2>. QED  BY <1>1, <2>1, PrefixIs
<1>. QED  BY <1>2, <1>3, <1>4 DEF StreamIsResponsesThenData, m, UpTo

LEMMA RespondKeeps == ASSUME IInv, Respond PROVE IInv'
<1>1. /\ session = "open" /\ phase = "responding" /\ stream' = Append(stream, Last(executed))
      /\ UNCHANGED <<inputs, executed, datagrams, service, lease>>
  BY DEF Respond
<1>2. /\ executed \in Seq(Line) /\ executed # <<>> /\ stream' = executed
      /\ Written(0) /\ datagrams = <<>>
  BY <1>1, Responded
<1>3. stream' \in Seq(Line \cup Message)
  BY <1>2, SeqMonotonic
<1>4. pos <= pos' /\ pos' \in 0 .. Len(script)
  BY <1>1, PosStays DEF inputs
<1>5. Lines'
  BY <1>1, <1>4, LinesStay DEF IInv, inputs
<1>6. Count' = Count /\ EndOf(script, Count)' = EndOf(script, Count)
  BY <1>1 DEF Count, EndOf, inputs
<1>7. cmdbuf = Rest(pos) /\ forwarded = <<>> /\ cmdbuf \in Seq(Symbol)
  BY <1>1 DEF IInv, Buffer, TypeOK
<1>8. ASSUME UNCHANGED <<session, relay>>, phase' # "responding" PROVE Channel'
  <2>1. Answered' = executed
    BY <1>1, <1>8 DEF Answered
  <2>2. executed = executed \o <<>>
    BY <1>2, ConcatEmptySeq
  <2>3. Written(0)'
    BY <1>1, <1>2, <1>8, <2>1, <2>2, UpToZero DEF Written, service
  <2>4. 0 \in 0 .. relayed'
    BY <1>1 DEF IInv, TypeOK, service
  <2>. QED  BY <1>1, <1>8, <2>3, <2>4 DEF Channel
<1>9. CASE lease = "none"
  <2>1. phase' = "parsing" /\ UNCHANGED <<session, cmdbuf, relay, forwarded>>
    BY <1>9 DEF Respond
  <2>2. TypeOK'
    BY <1>1, <1>3, <2>1 DEF IInv, TypeOK, inputs, service
  <2>3. Phases'
    BY <1>1, <1>9, <2>1 DEF IInv, Phases, service
  <2>4. Buffer' /\ Forwarded'
    BY <1>1, <1>6, <1>7, <1>9, <2>1 DEF Buffer, Forwarded, Rest, inputs
  <2>5. Channel'
    BY <1>8, <2>1
  <2>. QED  BY <1>5, <2>2, <2>3, <2>4, <2>5 DEF IInv
<1>10. CASE lease # "none" /\ cmdbuf # <<>> /\ (lease = "udp" \/ ~live)
  <2>1. End /\ UNCHANGED forwarded
    BY <1>10 DEF Respond
  <2>2. TypeOK'
    <3>1. TypeOK /\ <<>> \in Seq(Symbol) /\ Len(<<>>) < MaxBuffer
          /\ <<>> \in Seq(Message \cup {WakeUp})
      BY Distinct DEF IInv
    <3>. QED  BY <1>1, <1>3, <2>1, <3>1 DEF TypeOK, End, inputs, service
  <2>3. StreamIsResponsesThenData'
    <3>1. executed' \in Seq(Line) /\ stream' = executed' /\ datagrams' = <<>>
      BY <1>1, <1>2
    <3>. QED  BY <3>1, OnlyResponses
  <2>. QED  BY <1>1, <1>4, <2>1, <2>2, <2>3, EndIInv DEF inputs, service
<1>11. CASE lease # "none" /\ ~(cmdbuf # <<>> /\ (lease = "udp" \/ ~live))
  <2>1. /\ forwarded' = forwarded \o cmdbuf /\ cmdbuf' = <<>> /\ phase' = "select"
        /\ UNCHANGED <<session, relay>>
    BY <1>11 DEF Respond
  <2>2. forwarded' = cmdbuf
    BY <1>7, <2>1, ConcatEmptySeq
  <2>3. TypeOK'
    <3>1. <<>> \in Seq(Symbol) /\ Len(<<>>) < MaxBuffer
      BY Distinct
    <3>. QED  BY <1>1, <1>3, <1>7, <2>1, <2>2, <3>1 DEF IInv, TypeOK, inputs, service
  <2>4. Phases'
    BY <1>1, <1>11, <2>1 DEF IInv, Phases, service
  <2>5. forwarded' = IF lease = "stream" THEN Rest(pos) ELSE <<>>
    <3>1. lease \in {"udp", "stream"}
      BY <1>11 DEF IInv, TypeOK
    <3>. QED  BY <1>7, <1>11, <2>2, <3>1
  <2>6. Buffer'
    BY <1>1, <1>6, <1>11, <2>1, <2>5 DEF Buffer, Rest, inputs
  <2>7. Forwarded'
    <3>1. PICK p \in EndOf(script, Count) .. pos : p = pos
      BY DEF IInv, Lines, TypeOK
    <3>2. Rest(p)' = Rest(p) /\ (EndOf(script, Count) .. pos)' = EndOf(script, Count) .. pos
      BY <1>1, <1>6 DEF Rest, inputs
    <3>3. forwarded' = <<>> \/ (lease' = "stream" /\ forwarded' = Rest(p)')
      BY <1>1, <2>5, <3>1, <3>2
    <3>. QED  BY <3>2, <3>3 DEF Forwarded
  <2>8. Channel'
    BY <1>8, <2>1
  <2>. QED  BY <1>5, <2>3, <2>4, <2>6, <2>7, <2>8 DEF IInv
<1>. QED  BY <1>9, <1>10, <1>11

(* Nothing happens to the commands and the data.                           *)
LEMMA InputStays ==
  ASSUME IInv, UNCHANGED <<script, pos, executed, forwarded, lease, session, phase, cmdbuf>>
  PROVE  Lines' /\ Forwarded' /\ Buffer'
<1>1. pos' \in Nat /\ pos <= pos'
  BY DEF IInv, TypeOK
<1>2. Lines' /\ Forwarded'
  BY <1>1, LinesStay, ForwardedStays DEF IInv
<1>3. Count' = Count /\ EndOf(script, Count)' = EndOf(script, Count)
  BY DEF Count, EndOf
<1>4. Buffer'
  BY <1>3 DEF IInv, Buffer, Rest
<1>. QED  BY <1>2, <1>4

LEMMA ServiceRelaysKeeps == ASSUME IInv, ServiceRelays PROVE IInv'
<1>. DEFINE m == <<relayed + 1>>
<1>1. /\ session = "open" /\ relay_tx = "service" /\ relayed < MaxRelay
      /\ relayed' = relayed + 1 /\ relay' = Append(relay, m)
      /\ UNCHANGED <<inputs, outputs, relay_tx, live, session, phase, cmdbuf, lease>>
  BY DEF ServiceRelays
<1>2. relayed \in Nat /\ relay \in Seq(Message \cup {WakeUp}) /\ m \in Message
      /\ relayed' \in 0 .. MaxRelay
  BY <1>1, Distinct DEF IInv, TypeOK, Message
<1>. HIDE DEF m
<1>3. /\ relay' \in Seq(Message \cup {WakeUp}) /\ Len(relay') = Len(relay) + 1
      /\ Len(relay) \in Nat /\ relay'[Len(relay) + 1] = m
      /\ \A i \in 1 .. Len(relay) : relay'[i] = relay[i]
  BY <1>1, <1>2, AppendProperties, LenProperties
<1>4. TypeOK'
  BY <1>1, <1>2, <1>3 DEF IInv, TypeOK, inputs, outputs
<1>5. Phases'
  BY <1>1 DEF IInv, Phases, outputs
<1>6. PICK w \in 0 .. relayed : Written(w)
  BY <1>1 DEF IInv, Channel
<1>7. Len(relay) = relayed - w
  BY <1>1, <1>6 DEF Written
<1>8. Len(relay') = relayed' - w /\ \A i \in 1 .. relayed' - w : relay'[i] = <<w + i>>
  <2>1. Len(relay') = relayed' - w
    BY <1>1, <1>2, <1>3, <1>6, <1>7
  <2>2. ASSUME NEW i \in 1 .. relayed' - w PROVE relay'[i] = <<w + i>>
    <3>1. CASE i = relayed' - w
      <4>1. i = Len(relay) + 1 /\ w + i = relayed + 1
        BY <1>1, <1>2, <1>6, <1>7, <3>1
      <4>. QED  BY <1>3, <4>1 DEF m
    <3>2. CASE i # relayed' - w
      <4>1. i \in 1 .. relayed - w /\ i \in 1 .. Len(relay)
        BY <1>1, <1>2, <1>6, <1>7, <3>2
      <4>2. relay[i] = <<w + i>>
        BY <1>6, <4>1 DEF Written
      <4>. QED  BY <1>3, <4>1, <4>2
    <3>. QED  BY <3>1, <3>2
  <2>. QED  BY <2>1, <2>2
<1>9. Channel'
  <2>1. Answered' = Answered
    BY <1>1 DEF Answered, outputs
  <2>2. /\ phase = "responding" => w = 0
        /\ datagrams = IF lease = "udp" THEN UpTo(w) ELSE <<>>
        /\ stream = Answered \o (IF lease = "stream" THEN UpTo(w) ELSE <<>>)
    BY <1>6 DEF Written
  <2>3. Written(w)'
    BY <1>1, <1>8, <2>1, <2>2 DEF Written, outputs
  <2>4. w \in 0 .. relayed'
    BY <1>1, <1>2, <1>6
  <2>. QED  BY <1>1, <2>3, <2>4 DEF Channel
<1>10. Lines' /\ Forwarded' /\ Buffer'
  BY <1>1, InputStays DEF inputs, outputs
<1>. QED  BY <1>4, <1>5, <1>9, <1>10 DEF IInv

LEMMA ServiceDropsRelayKeeps == ASSUME IInv, ServiceDropsRelay PROVE IInv'
<1>1. /\ session = "open" /\ relay_tx = "service" /\ relay_tx' = "dropped"
      /\ relay' = relay \/ relay' = Append(relay, WakeUp)
      /\ UNCHANGED <<inputs, outputs, live, relayed, session, phase, cmdbuf, lease>>
  BY DEF ServiceDropsRelay
<1>2. relayed \in Nat /\ relay \in Seq(Message \cup {WakeUp}) /\ WakeUp \in Message \cup {WakeUp}
  BY DEF IInv, TypeOK
<1>3. /\ relay' \in Seq(Message \cup {WakeUp}) /\ Len(relay) \in Nat
      /\ \/ Len(relay') = Len(relay)
         \/ Len(relay') = Len(relay) + 1 /\ relay'[Len(relay) + 1] = WakeUp
      /\ \A i \in 1 .. Len(relay) : relay'[i] = relay[i]
  <2>. QED  BY <1>1, <1>2, AppendProperties, LenProperties
<1>4. TypeOK'
  BY <1>1, <1>3 DEF IInv, TypeOK, inputs, outputs
<1>5. Phases'
  BY <1>1 DEF IInv, Phases, outputs
<1>6. PICK w \in 0 .. relayed : Written(w)
  BY <1>1 DEF IInv, Channel
<1>7. Len(relay) = relayed - w
  BY <1>1, <1>6 DEF Written
<1>8. /\ \/ Len(relay') = relayed' - w
         \/ Len(relay') = relayed' - w + 1 /\ relay'[Len(relay')] = WakeUp
      /\ \A i \in 1 .. relayed' - w : relay'[i] = <<w + i>>
  <2>1. \A i \in 1 .. relayed - w : relay[i] = <<w + i>>
    BY <1>6 DEF Written
  <2>. QED  BY <1>1, <1>3, <1>7, <2>1
<1>9. Channel'
  <2>1. Answered' = Answered
    BY <1>1 DEF Answered, outputs
  <2>2. /\ phase = "responding" => w = 0
        /\ datagrams = IF lease = "udp" THEN UpTo(w) ELSE <<>>
        /\ stream = Answered \o (IF lease = "stream" THEN UpTo(w) ELSE <<>>)
    BY <1>6 DEF Written
  <2>3. Written(w)'
    BY <1>1, <1>8, <2>1, <2>2 DEF Written, outputs
  <2>. QED  BY <1>1, <1>6, <2>3 DEF Channel
<1>10. Lines' /\ Forwarded' /\ Buffer'
  BY <1>1, InputStays DEF inputs, outputs
<1>. QED  BY <1>4, <1>5, <1>9, <1>10 DEF IInv

(* The session takes from the relay channel what it writes next.           *)
LEMMA RelayRecvKeeps == ASSUME IInv, RelayRecv PROVE IInv'
<1>. DEFINE m == Head(relay)
<1>1. /\ session = "open" /\ phase = "select" /\ relay # <<>>
      /\ UNCHANGED <<inputs, executed, forwarded, service, lease>>
  BY DEF RelayRecv, Selects
<1>2. relayed \in Nat /\ relay \in Seq(Message \cup {WakeUp}) /\ lease \in {"none", "udp", "stream"}
  BY DEF IInv, TypeOK
<1>3. /\ Len(relay) \in Nat /\ Len(relay) >= 1 /\ m = relay[1] /\ m \in Message \cup {WakeUp}
      /\ Tail(relay) \in Seq(Message \cup {WakeUp}) /\ Len(Tail(relay)) = Len(relay) - 1
      /\ \A i \in 1 .. Len(relay) - 1 : Tail(relay)[i] = relay[i + 1]
  <2>1. Len(relay) \in Nat /\ Len(relay) # 0
    BY <1>1, <1>2, EmptySeq, LenProperties
  <2>2. /\ m = relay[1] /\ m \in Message \cup {WakeUp}
        /\ Tail(relay) \in Seq(Message \cup {WakeUp}) /\ Len(Tail(relay)) = Len(relay) - 1
        /\ \A i \in 1 .. Len(Tail(relay)) : Tail(relay)[i] = relay[i + 1]
    BY <1>1, <1>2, HeadTailProperties
  <2>. QED  BY <2>1, <2>2
<1>4. PICK w \in 0 .. relayed : Written(w)
  BY <1>1 DEF IInv, Channel
<1>5. /\ \/ Len(relay) = relayed - w
         \/ /\ Len(relay) = relayed - w + 1 /\ relay_tx = "dropped"
            /\ relay[Len(relay)] = WakeUp
      /\ \A i \in 1 .. relayed - w : relay[i] = <<w + i>>
      /\ datagrams = IF lease = "udp" THEN UpTo(w) ELSE <<>>
      /\ stream = executed \o (IF lease = "stream" THEN UpTo(w) ELSE <<>>)
  BY <1>1, <1>4 DEF Written, Answered
<1>6. UNCHANGED <<session, phase, cmdbuf>> => Lines' /\ Forwarded' /\ Buffer'
  BY <1>1, InputStays DEF inputs
<1>. HIDE DEF m
<1>7. CASE w = relayed
  <2>1. m = WakeUp /\ Len(relay) = 1
    BY <1>3, <1>4, <1>5, <1>7
  <2>2. UNCHANGED <<stream, datagrams>>
    BY <2>1 DEF RelayRecv, m
  <2>3. CASE ~live
    <3>1. End
      BY <2>1, <2>3 DEF RelayRecv, m
    <3>. QED  BY <1>1, <2>2, <3>1, PosStays, EndsQuietly DEF inputs, outputs
  <2>4. CASE live
    <3>1. relay' = Tail(relay) /\ UNCHANGED <<session, phase, cmdbuf>>
      BY <2>1, <2>4 DEF RelayRecv, m
    <3>2. Len(relay') = relayed' - w /\ \A i \in 1 .. relayed' - w : relay'[i] = <<w + i>>
      BY <1>1, <1>2, <1>3, <1>7, <2>1, <3>1 DEF service
    <3>3. TypeOK'
      BY <1>1, <1>3, <2>2, <3>1 DEF IInv, TypeOK, inputs, service
    <3>4. Phases'
      <4>1. lease # "none"
        BY <1>1 DEF IInv, Phases
      <4>. QED  BY <1>1, <3>1, <4>1 DEF IInv, Phases, service
    <3>5. Written(w)'
      BY <1>1, <1>5, <2>2, <3>1, <3>2 DEF Written, Answered
    <3>6. Channel'
      BY <1>1, <1>4, <3>1, <3>5 DEF Channel, service
    <3>. QED  BY <1>6, <3>1, <3>3, <3>4, <3>6 DEF IInv
  <2>. QED  BY <2>3, <2>4
<1>8. CASE w # relayed
  <2>. DEFINE u == UpTo(w)
              v == UpTo(w + 1)
  <2>1. w \in Nat /\ w + 1 \in 0 .. relayed /\ w + 1 <= MaxRelay
    BY <1>2, <1>4, <1>8, Distinct DEF IInv, TypeOK
  <2>2. m = <<w + 1>> /\ m \in Message /\ m # WakeUp
    <3>1. 1 \in 1 .. relayed - w
      BY <1>2, <2>1
    <3>2. m = <<w + 1>>
      BY <1>3, <1>5, <3>1
    <3>3. <<w + 1>> \in Message /\ <<w + 1>> # WakeUp
      BY <2>1 DEF Message, WakeUp
    <3>. QED  BY <3>2, <3>3
  <2>3. Write(m) /\ relay' = Tail(relay) /\ UNCHANGED <<session, phase, cmdbuf>>
    BY <2>2 DEF RelayRecv, m
  <2>4. lease # "none"
    BY <1>1 DEF IInv, Phases
  <2>5. v = Append(u, m) /\ u \in Seq(Message) /\ u \in Seq(Text) /\ v \in Seq(Message)
    <3>1. w \in Nat /\ w + 1 \in Nat /\ w <= MaxRelay /\ w + 1 <= MaxRelay
      BY <2>1, Distinct
    <3>2. v = Append(u, <<w + 1>>)
      BY <3>1, UpToNext
    <3>3. u \in Seq(Message) /\ u \in Seq(Text)
      BY <3>1, UpToType
    <3>4. v \in Seq(Message)
      <4>. DEFINE n == w + 1
      <4>1. UpTo(n) \in Seq(Message)
        <5>1. n \in Nat /\ n <= MaxRelay
          BY <3>1
        <5>. HIDE DEF n
        <5>. QED  BY <5>1, UpToType
      <4>. QED  BY <4>1
    <3>. QED  BY <2>2, <3>2, <3>3, <3>4
  <2>6. executed \in Seq(Line) /\ executed \in Seq(Text) /\ m \in Text
    BY <2>2, SeqMonotonic DEF IInv, TypeOK, Text
  <2>. HIDE DEF u, v
  <2>7. /\ datagrams' = IF lease = "udp" THEN v ELSE <<>>
        /\ stream' = executed \o (IF lease = "stream" THEN v ELSE <<>>)
    <3>1. CASE lease = "udp"
      <4>1. datagrams = u /\ stream = executed \o <<>>
        BY <1>5, <3>1 DEF u
      <4>2. datagrams' = Append(datagrams, m) /\ stream' = stream
        BY <2>3, <3>1 DEF Write
      <4>. QED  BY <2>5, <3>1, <4>1, <4>2
    <3>2. CASE lease = "stream"
      <4>1. datagrams = <<>> /\ stream = executed \o u
        BY <1>5, <3>2 DEF u
      <4>2. datagrams' = datagrams /\ stream' = Append(stream, m)
        BY <2>3, <3>2 DEF Write
      <4>3. Append(executed \o u, m) = executed \o Append(u, m)
        <5>1. executed \o u \in Seq(Text) /\ <<m>> \in Seq(Text)
          BY <2>5, <2>6, ConcatProperties
        <5>2. Append(executed \o u, m) = (executed \o u) \o <<m>>
          BY <2>6, <5>1, AppendIsConcat
        <5>3. Append(u, m) = u \o <<m>>
          BY <2>5, <2>6, AppendIsConcat
        <5>4. (executed \o u) \o <<m>> = executed \o (u \o <<m>>)
          BY <2>5, <2>6, <5>1, ConcatAssociative
        <5>. QED  BY <5>2, <5>3, <5>4
      <4>. QED  BY <2>5, <3>2, <4>1, <4>2, <4>3
    <3>. QED  BY <1>2, <2>4, <3>1, <3>2
  <2>8. /\ \/ Len(relay') = relayed' - (w + 1)
           \/ /\ Len(relay') = relayed' - (w + 1) + 1 /\ relay_tx' = "dropped"
              /\ relay'[Len(relay')] = WakeUp
        /\ \A i \in 1 .. relayed' - (w + 1) : relay'[i] = <<w + 1 + i>>
    <3>1. relayed' = relayed /\ relay_tx' = relay_tx
      BY <1>1 DEF service
    <3>2. Len(relay') = Len(relay) - 1 /\ \A i \in 1 .. Len(relay) - 1 : relay'[i] = relay[i + 1]
      BY <1>3, <2>3
    <3>3. ASSUME NEW i \in 1 .. relayed - (w + 1) PROVE relay'[i] = <<w + 1 + i>>
      <4>1. i + 1 \in 1 .. relayed - w /\ i \in 1 .. Len(relay) - 1 /\ w + (i + 1) = w + 1 + i
        <5>1. Len(relay) = relayed - w \/ Len(relay) = relayed - w + 1
          BY <1>5
        <5>2. relayed \in Nat /\ Len(relay) \in Nat /\ w \in Nat
          BY <1>2, <1>3, <2>1
        <5>. QED  BY <5>1, <5>2
      <4>2. relay[i + 1] = <<w + (i + 1)>>
        BY <1>5, <4>1
      <4>. QED  BY <3>2, <4>1, <4>2
    <3>4. CASE Len(relay) = relayed - w
      BY <1>2, <2>1, <3>1, <3>2, <3>3, <3>4
    <3>5. CASE Len(relay) = relayed - w + 1 /\ relay_tx = "dropped" /\ relay[Len(relay)] = WakeUp
      <4>1. Len(relay) - 1 \in 1 .. Len(relay) - 1 /\ Len(relay) - 1 + 1 = Len(relay)
        BY <1>2, <1>3, <2>1, <3>5
      <4>2. relay'[Len(relay')] = WakeUp
        BY <3>2, <3>5, <4>1
      <4>3. Len(relay') = relayed' - (w + 1) + 1
        BY <1>2, <2>1, <3>1, <3>2, <3>5
      <4>. QED  BY <3>1, <3>3, <3>5, <4>2, <4>3
    <3>. QED  BY <1>5, <3>4, <3>5
  <2>9. TypeOK'
    <3>1. datagrams' \in Seq(Message) /\ stream' \in Seq(Line \cup Message)
      <4>1. <<>> \in Seq(Message) /\ <<>> \in Seq(Text) /\ v \in Seq(Text)
        BY <2>5, SeqMonotonic DEF Text
      <4>2. stream' \in Seq(Text)
        BY <2>6, <2>7, <4>1, ConcatProperties
      <4>. QED  BY <2>5, <2>7, <4>1, <4>2 DEF Text
    <3>. QED  BY <1>1, <1>3, <2>3, <3>1 DEF IInv, TypeOK, inputs, service
  <2>10. Phases'
    BY <1>1, <2>3, <2>4 DEF IInv, Phases, service
  <2>11. PICK n \in 0 .. relayed : n = w + 1
    BY <2>1
  <2>12. Written(n)'
    <3>1. v = UpTo(n)
      BY <2>11 DEF v
    <3>2. Answered' = executed
      BY <1>1, <2>3 DEF Answered
    <3>. QED  BY <1>1, <2>3, <2>7, <2>8, <2>11, <3>1, <3>2 DEF Written
  <2>13. Channel'
    BY <1>1, <2>3, <2>11, <2>12 DEF Channel, service
  <2>. QED  BY <1>6, <2>3, <2>9, <2>10, <2>13 DEF IInv
<1>. QED  BY <1>7, <1>8

LEMMA FrontOfAppend ==
  ASSUME NEW S, NEW s \in Seq(S), NEW x \in S
  PROVE  Front(Append(s, x)) = s
<1>. DEFINE t == Append(s, x)
            f == Front(t)
<1>1. /\ t \in Seq(S) /\ t # <<>> /\ Len(t) = Len(s) + 1 /\ Len(s) \in Nat
      /\ \A i \in 1 .. Len(s) : t[i] = s[i]
  BY AppendProperties, LenProperties
<1>. HIDE DEF t
<1>2. f \in Seq(S) /\ Len(f) = Len(t) - 1 /\ \A i \in 1 .. Len(t) - 1 : f[i] = t[i]
  BY <1>1, FrontOf
<1>. HIDE DEF f
<1>3. Len(f) = Len(s) /\ \A i \in 1 .. Len(f) : f[i] = s[i]
  BY <1>1, <1>2
<1>4. f = s
  BY <1>2, <1>3, SeqEqual
<1>. QED  BY <1>4 DEF f, t

(* The line at the front of the buffer is the next line of the stream.     *)
LEMMA LineIsNext ==
  ASSUME IInv, session = "open", phase = "parsing", HasLine
  PROVE  \E at \in Nat, n \in Nat, e \in Nat :
           /\ at = EndOf(script, Count) /\ n = Count /\ e = LineEnd
           /\ SubSeq(cmdbuf, 1, e - 1) = LineAt(script, n + 1)
           /\ LineAt(script, n + 1) \in Line
           /\ AfterLine = SubSeq(script, at + e + 1, pos) /\ AfterLine \in Seq(Symbol)
           /\ EndOf(script, n + 1) = at + e /\ at + e <= pos
           /\ Cardinality(NewlinesTo(script, at + e)) = n + 1
<1>a. PICK at \in Nat : at = EndOf(script, Count) /\ at <= pos
  BY DEF IInv, Lines, TypeOK
<1>b. PICK n \in Nat : n = Count
  BY LenProperties DEF IInv, TypeOK, Count
<1>. DEFINE e    == LineEnd
            p    == at + e
            line == SubSeq(cmdbuf, 1, e - 1)
<1>1. /\ script \in Seq(Symbol) /\ Len(script) \in Nat /\ pos \in Nat /\ pos <= Len(script)
      /\ cmdbuf \in Seq(Symbol) /\ at <= pos
  BY <1>a, LenProperties DEF IInv, TypeOK
<1>2. cmdbuf = SubSeq(script, at + 1, pos)
  BY <1>a DEF IInv, Phases, Buffer, Rest
<1>3. Len(cmdbuf) = pos - at /\ \A i \in 1 .. pos - at : cmdbuf[i] = script[at + i]
  BY <1>1, <1>2, Part
<1>4. e \in 1 .. pos - at /\ cmdbuf[e] = Newline /\ \A j \in 1 .. e - 1 : cmdbuf[j] # Newline
  BY <1>1, <1>3, FirstNewline
<1>. HIDE DEF e
<1>5. /\ e \in Nat /\ e - 1 \in Nat /\ pos - at \in Nat /\ p \in 1 .. Len(script) /\ p <= pos
      /\ at < p /\ at \in 0 .. Len(script) /\ p - 1 = at + (e - 1) /\ at + (pos - at) = pos
  BY <1>1, <1>4
<1>6. p \in Newlines(script)
  BY <1>3, <1>4, <1>5 DEF Newlines
<1>7. ASSUME NEW q \in Newlines(script) PROVE q <= at \/ p <= q
  <2>1. SUFFICES ASSUME ~(q <= at), ~(p <= q) PROVE FALSE
    OBVIOUS
  <2>2. q \in Int /\ script[q] = Newline
    BY <1>1, NewlinesFinite DEF Newlines
  <2>3. q - at \in 1 .. e - 1 /\ q - at \in 1 .. pos - at /\ at + (q - at) = q
    BY <1>4, <1>5, <2>1, <2>2
  <2>. QED  BY <1>3, <1>4, <2>2, <2>3
<1>. HIDE DEF p
<1>8. Cardinality(NewlinesTo(script, p)) = n + 1
  <2>1. Cardinality(NewlinesTo(script, p)) = Cardinality(NewlinesTo(script, at)) + 1
    BY <1>1, <1>5, <1>6, <1>7, NextNewline
  <2>2. Cardinality(NewlinesTo(script, at)) = n
    BY <1>a, <1>b DEF IInv, Lines
  <2>. QED  BY <2>1, <2>2
<1>9. EndOf(script, n + 1) = p
  <2>. DEFINE k == n + 1
  <2>1. k \in Nat \ {0} /\ Cardinality(NewlinesTo(script, p)) = k
    BY <1>8
  <2>. HIDE DEF k
  <2>2. EndOf(script, k) = p
    BY <1>1, <1>6, <2>1, EndIs
  <2>. QED  BY <2>2 DEF k
<1>10. line = SubSeq(script, at + 1, at + (e - 1))
  <2>. DEFINE d == e - 1
  <2>1. d \in Nat /\ d <= pos - at
    BY <1>4, <1>5
  <2>. HIDE DEF d
  <2>2. SubSeq(SubSeq(script, at + 1, pos), 1, d) = SubSeq(script, at + 1, at + d)
    BY <1>1, <2>1, FirstOfPart
  <2>. QED  BY <1>2, <2>2 DEF d
<1>11. LineAt(script, n + 1) = SubSeq(script, at + 1, at + (e - 1))
  <2>. DEFINE k == n + 1
  <2>1. EndOf(script, k - 1) = at /\ EndOf(script, k) - 1 = at + (e - 1)
    <3>1. k - 1 = n
      OBVIOUS
    <3>2. EndOf(script, k) = p
      BY <1>9
    <3>3. p - 1 = at + (e - 1)
      BY <1>5
    <3>. HIDE DEF k
    <3>. QED  BY <1>a, <1>b, <3>1, <3>2, <3>3
  <2>. HIDE DEF k
  <2>2. LineAt(script, k) = SubSeq(script, at + 1, at + (e - 1))
    BY <2>1 DEF LineAt
  <2>. QED  BY <2>2 DEF k
<1>12. AfterLine = SubSeq(script, p + 1, pos)
  <2>1. e <= Len(cmdbuf) /\ AfterLine = SubSeq(cmdbuf, e + 1, Len(cmdbuf))
    BY <1>3, <1>4 DEF AfterLine, e
  <2>2. SubSeq(cmdbuf, e + 1, Len(cmdbuf)) = SubSeq(script, at + e + 1, pos)
    BY <1>1, <1>2, <1>5, <2>1, RestOfPart
  <2>. QED  BY <2>1, <2>2 DEF p
<1>13. AfterLine \in Seq(Symbol)
  <2>1. p \in Nat /\ p <= pos
    BY <1>5
  <2>. QED  BY <1>1, <1>12, <2>1, Part
<1>14. line \in Line
  <2>. DEFINE l == line
  <2>1. /\ l \in Seq(Symbol) /\ Len(l) = e - 1 /\ \A i \in 1 .. e - 1 : l[i] = cmdbuf[i]
    <3>. DEFINE d == e - 1
    <3>1. d \in Nat /\ d <= Len(cmdbuf)
      BY <1>3, <1>4, <1>5
    <3>. HIDE DEF d
    <3>2. /\ SubSeq(cmdbuf, 1, d) \in Seq(Symbol) /\ Len(SubSeq(cmdbuf, 1, d)) = d
          /\ \A i \in 1 .. d : SubSeq(cmdbuf, 1, d)[i] = cmdbuf[i]
      BY <1>1, <3>1, FirstPart
    <3>. QED  BY <3>2 DEF d
  <2>. HIDE DEF l
  <2>2. \A i \in 1 .. Len(l) : l[i] \in Symbol \ {Newline}
    BY <1>4, <2>1, ElementOfSeq
  <2>3. l \in Seq(Symbol \ {Newline})
    BY <1>5, <2>1, <2>2, SeqDef
  <2>. QED  BY <2>3 DEF Line, l
<1>. QED  BY <1>a, <1>b, <1>5, <1>8, <1>9, <1>10, <1>11, <1>12, <1>13, <1>14 DEF p, e

LEMMA ExecuteLineKeeps == ASSUME IInv, ExecuteLine PROVE IInv'
<1>. DEFINE line == SubSeq(cmdbuf, 1, LineEnd - 1)
<1>1. /\ session = "open" /\ phase = "parsing" /\ HasLine
      /\ UNCHANGED <<inputs, forwarded, stream, datagrams, relayed>>
  BY DEF ExecuteLine
<1>2. lease = "none" /\ relayed = 0 /\ relay_tx = "session" /\ relay = <<>> /\ forwarded = <<>>
  BY <1>1 DEF IInv, Phases, Buffer
<1>3. PICK at \in Nat, n \in Nat, e \in Nat :
           /\ at = EndOf(script, Count) /\ n = Count /\ e = LineEnd
           /\ SubSeq(cmdbuf, 1, e - 1) = LineAt(script, n + 1)
           /\ LineAt(script, n + 1) \in Line
           /\ AfterLine = SubSeq(script, at + e + 1, pos) /\ AfterLine \in Seq(Symbol)
           /\ EndOf(script, n + 1) = at + e /\ at + e <= pos
           /\ Cardinality(NewlinesTo(script, at + e)) = n + 1
  BY <1>1, LineIsNext
<1>4. n = Count /\ line = LineAt(script, n + 1) /\ line \in Line
  BY <1>3
<1>. HIDE DEF line
<1>7. CASE ~IsCommand(line)
  <2>1. End /\ UNCHANGED <<executed, lease, live, relay_tx>>
    BY <1>7 DEF ExecuteLine, line
  <2>. QED  BY <1>1, <2>1, PosStays, EndsQuietly DEF inputs, outputs, service
<1>8. CASE IsCommand(line)
  <2>1. /\ executed' = Append(executed, line) /\ cmdbuf' = AfterLine /\ phase' = "responding"
        /\ UNCHANGED <<session, relay>>
        /\ IF Head(line) = PING
           THEN UNCHANGED <<lease, live, relay_tx>>
           ELSE /\ lease' = IF Head(line) = BIND THEN "udp" ELSE "stream"
                /\ live' = TRUE /\ relay_tx' = "service"
    BY <1>8 DEF ExecuteLine, line
  <2>3. /\ executed' \in Seq(Line) /\ executed' # <<>> /\ Len(executed') = n + 1
        /\ executed'[n + 1] = line /\ \A i \in 1 .. n : executed'[i] = executed[i]
        /\ Front(executed') = executed
    <3>1. executed \in Seq(Line) /\ Len(executed) = n
      BY <1>4 DEF IInv, TypeOK, Count
    <3>. QED  BY <1>4, <2>1, <3>1, AppendProperties, FrontOfAppend
  <2>4. /\ lease' = "none"   => ~MakesLease(line) /\ relay_tx' = relay_tx
        /\ lease' = "udp"    => line = <<BIND>>
        /\ lease' = "stream" => line = <<PROXY>>
        /\ lease' \in {"none", "udp", "stream"}
        /\ relay_tx' \in {"session", "service"} /\ live' \in BOOLEAN
    BY <1>2, <1>4, <1>8, <2>1, LeaseMakers DEF IInv, TypeOK
  <2>5. TypeOK'
    BY <1>1, <1>3, <2>1, <2>3, <2>4 DEF IInv, TypeOK, inputs
  <2>6. Phases'
    BY <1>1, <1>2, <2>1, <2>3, <2>4 DEF Phases
  <2>7. Count' = n + 1 /\ EndOf(script, Count)' = at + e
    <3>1. Count' = n + 1
      BY <2>3 DEF Count
    <3>2. script' = script
      BY <1>1 DEF inputs
    <3>. QED  BY <1>3, <3>1, <3>2 DEF EndOf
  <2>8. /\ \A i \in 1 .. n : /\ executed[i] = LineAt(script, i) /\ IsCommand(executed[i])
                             /\ ~MakesLease(executed[i])
    <3>1. ASSUME NEW i \in 1 .. n
          PROVE  /\ executed[i] = LineAt(script, i) /\ IsCommand(executed[i])
                 /\ ~MakesLease(executed[i])
      BY <1>2, <1>4 DEF IInv, Lines
    <3>. QED  BY <3>1
  <2>9. Lines'
    <3>1. script' = script /\ pos' = pos
      BY <1>1 DEF inputs
    <3>2. at + e \in 0 .. pos'
      <4>1. pos' \in Int /\ at + e <= pos'
        <5>1. pos \in Int
          BY DEF IInv, TypeOK
        <5>. QED  BY <1>3, <3>1, <5>1
      <4>. QED  BY <4>1
    <3>3. ASSUME NEW i \in 1 .. n + 1
          PROVE  /\ executed'[i] = LineAt(script, i) /\ IsCommand(executed'[i])
                 /\ i < n + 1 => ~MakesLease(executed'[i])
      <4>1. CASE i = n + 1
        BY <1>4, <1>8, <2>3, <4>1
      <4>2. CASE i # n + 1
        <5>1. i \in 1 .. n
          BY <4>2
        <5>. QED  BY <2>3, <2>8, <5>1
      <4>. QED  BY <4>1, <4>2
    <3>4. n + 1 # 0
      OBVIOUS
    <3>. QED  BY <1>3, <2>3, <2>4, <2>7, <3>1, <3>2, <3>3, <3>4 DEF Lines
  <2>10. Buffer'
    <3>1. Rest(pos)' = SubSeq(script, at + e + 1, pos)
      BY <1>1, <2>7 DEF Rest, inputs
    <3>. QED  BY <1>1, <1>2, <1>3, <2>1, <3>1 DEF Buffer
  <2>11. Forwarded'
    BY <1>1, <1>2 DEF Forwarded
  <2>12. Channel'
    <3>1. PICK w \in 0 .. relayed : Written(w)
      BY <1>1 DEF IInv, Channel
    <3>2. stream = executed \o <<>> /\ datagrams = <<>>
      BY <1>1, <1>2, <3>1 DEF Written, Answered
    <3>3. Answered' = executed
      BY <2>1, <2>3 DEF Answered
    <3>4. relayed' = 0 /\ relay' = <<>> /\ Len(<<>>) = 0 /\ stream' = stream /\ datagrams' = <<>>
      BY <1>1, <1>2, <2>1, <3>2
    <3>5. Written(0)'
      <4>1. \A i \in 1 .. 0 - 0 : relay'[i] = <<0 + i>>
        OBVIOUS
      <4>2. Len(relay') = relayed' - 0 /\ relayed' - 0 = 0 - 0
        BY <3>4
      <4>3. /\ datagrams' = IF lease' = "udp" THEN UpTo(0) ELSE <<>>
            /\ stream' = Answered' \o (IF lease' = "stream" THEN UpTo(0) ELSE <<>>)
        BY <3>2, <3>3, <3>4, UpToZero
      <4>. QED  BY <4>1, <4>2, <4>3 DEF Written
    <3>. QED  BY <1>1, <2>1, <3>4, <3>5 DEF Channel
  <2>. QED  BY <2>5, <2>6, <2>9, <2>10, <2>11, <2>12 DEF IInv
<1>. QED  BY <1>7, <1>8

LEMMA StepIInv == IInv /\ [Next]_vars => IInv'
<1>. SUFFICES ASSUME IInv, [Next]_vars PROVE IInv'
  OBVIOUS
<1>1. CASE OpenStream
  BY <1>1, OpenStreamKeeps
<1>2. CASE Leave \/ RelayClosed
  BY <1>2, LeaveKeeps
<1>3. CASE StreamFinished
  BY <1>3, StreamFinishedKeeps
<1>4. CASE \E k \in 1 .. MaxScript : ReadChunk(k)
  BY <1>4, ReadChunkKeeps
<1>5. CASE ExecuteLine
  BY <1>5, ExecuteLineKeeps
<1>6. CASE WaitForRest
  BY <1>6, WaitForRestKeeps
<1>7. CASE Respond
  BY <1>7, RespondKeeps
<1>8. CASE Datagram
  BY <1>8, DatagramKeeps
<1>9. CASE RelayRecv
  BY <1>9, RelayRecvKeeps
<1>10. CASE ServiceRelays
  BY <1>10, ServiceRelaysKeeps
<1>11. CASE ServiceEnds
  BY <1>11, ServiceEndsKeeps
<1>12. CASE ServiceDropsRelay
  BY <1>12, ServiceDropsRelayKeeps
<1>13. CASE UNCHANGED vars
  BY <1>13, StutterKeeps
<1>. QED
  BY <1>1, <1>2, <1>3, <1>4, <1>5, <1>6, <1>7, <1>8, <1>9, <1>10, <1>11, <1>12, <1>13 DEF Next

-----------------------------------------------------------------------------
(* What was executed and forwarded is how the meaning of the stream begins.*)

LEMMA CommandsType ==
  ASSUME NEW s \in Seq(Symbol)
  PROVE  /\ Cardinality(CommandLines(s)) \in 0 .. Cardinality(Newlines(s))
         /\ Len(Commands(s)) = Cardinality(CommandLines(s))
         /\ \A i \in 1 .. Cardinality(CommandLines(s)) : Commands(s)[i] = LineAt(s, i)
<1>. DEFINE N == Cardinality(Newlines(s))
            M == Cardinality(CommandLines(s))
<1>1. N \in Nat
  BY NewlinesFinite, FS_CardinalityType
<1>2. CommandLines(s) \subseteq 1 .. N /\ IsFiniteSet(1 .. N)
  BY <1>1, FS_Interval DEF CommandLines
<1>3. Cardinality(1 .. N) = N
  <2>. HIDE DEF N
  <2>1. 1 \in Int /\ N \in Int
    BY <1>1
  <2>2. Cardinality(1 .. N) = IF 1 > N THEN 0 ELSE N - 1 + 1
    BY <2>1, FS_Interval
  <2>. QED  BY <1>1, <2>2
<1>4. M \in Nat /\ M <= Cardinality(1 .. N)
  BY <1>2, FS_Subset, FS_CardinalityType
<1>5. M \in 0 .. N
  BY <1>1, <1>3, <1>4
<1>6. Commands(s) = [i \in 1 .. M |-> LineAt(s, i)]
  BY DEF Commands
<1>. HIDE DEF M
<1>7. Len(Commands(s)) = M /\ \A i \in 1 .. M : Commands(s)[i] = LineAt(s, i)
  BY <1>4, <1>6
<1>. QED  BY <1>5, <1>7 DEF M

LEMMA DataType == ASSUME NEW s \in Seq(Symbol) PROVE Data(s) \in Seq(Symbol)
<1>. DEFINE n == Len(Commands(s))
<1>1. CASE Commands(s) # <<>> /\ Last(Commands(s)) = <<PROXY>>
  <2>1. n # 0
    <3>1. Commands(s) \in Seq({LineAt(s, i) : i \in Nat})
      <4>1. PICK M \in Nat : Commands(s) = [i \in 1 .. M |-> LineAt(s, i)]
        BY CommandsType DEF Commands
      <4>2. \A i \in 1 .. M : LineAt(s, i) \in {LineAt(s, j) : j \in Nat}
        OBVIOUS
      <4>. QED  BY <4>1, <4>2
    <3>. QED  BY <1>1, <3>1, EmptySeq
  <2>2. n \in 1 .. Cardinality(Newlines(s))
    BY <2>1, CommandsType
  <2>3. EndOf(s, n) \in 1 .. Len(s)
    <3>. HIDE DEF n
    <3>. QED  BY <2>2, EndExists
  <2>4. Data(s) = SubSeq(s, EndOf(s, n) + 1, Len(s))
    BY <1>1 DEF Data
  <2>5. PICK at \in Nat : at = EndOf(s, n) /\ at <= Len(s)
    BY <2>3
  <2>6. Len(s) \in Nat /\ Len(s) <= Len(s)
    BY LenProperties
  <2>7. SubSeq(s, at + 1, Len(s)) \in Seq(Symbol)
    BY <2>5, <2>6, Part
  <2>. QED  BY <2>4, <2>5, <2>7
<1>2. CASE ~(Commands(s) # <<>> /\ Last(Commands(s)) = <<PROXY>>)
  BY <1>2 DEF Data
<1>. QED  BY <1>1, <1>2

LEMMA ExecutedBegins ==
  ASSUME IInv
  PROVE  /\ IsPrefix(executed, Commands(script))
         /\ Count # 0 /\ MakesLease(executed[Count]) => Len(Commands(script)) = Count
<1>. DEFINE n == Len(executed)
            M == Cardinality(CommandLines(script))
            S == Line \cup {LineAt(script, i) : i \in Nat}
<1>1. script \in Seq(Symbol) /\ executed \in Seq(Line) /\ n \in Nat /\ Count = n
  BY LenProperties DEF IInv, TypeOK, Count
<1>2. n <= Cardinality(Newlines(script))
  <2>1. n = Cardinality(NewlinesTo(script, EndOf(script, Count)))
    BY <1>1 DEF IInv, Lines
  <2>2. IsFiniteSet(Newlines(script))
        /\ NewlinesTo(script, EndOf(script, Count)) \subseteq Newlines(script)
    BY <1>1, NewlinesFinite
  <2>. QED  BY <2>1, <2>2, FS_Subset
<1>3. ASSUME NEW i \in 1 .. n
      PROVE  /\ executed[i] = LineAt(script, i)
             /\ IsCommand(LineAt(script, i)) /\ (i < n => ~MakesLease(LineAt(script, i)))
  BY <1>1 DEF IInv, Lines
<1>. HIDE DEF n
<1>4. M \in Nat /\ n <= M /\ (n # 0 /\ MakesLease(LineAt(script, n)) => M = n)
  BY <1>1, <1>2, <1>3, CommandsBegin
<1>5. /\ Len(Commands(script)) = M
      /\ \A i \in 1 .. M : Commands(script)[i] = LineAt(script, i)
  BY <1>1, CommandsType
<1>6. Commands(script) \in Seq(S)
  <2>1. Commands(script) = [i \in 1 .. M |-> LineAt(script, i)]
    BY DEF Commands
  <2>2. \A i \in 1 .. M : LineAt(script, i) \in S
    BY <1>4
  <2>. HIDE DEF M, S
  <2>. QED  BY <1>4, <2>1, <2>2
<1>7. executed \in Seq(S)
  BY <1>1, SeqMonotonic
<1>. HIDE DEF M, S
<1>8. Len(executed) <= Len(Commands(script))
      /\ \A i \in 1 .. Len(executed) : executed[i] = Commands(script)[i]
  BY <1>3, <1>4, <1>5 DEF n
<1>9. IsPrefix(executed, Commands(script))
  BY <1>6, <1>7, <1>8, PrefixIs
<1>10. n # 0 => executed[n] = LineAt(script, n)
  BY <1>1, <1>3
<1>. QED  BY <1>1, <1>4, <1>5, <1>9, <1>10

LEMMA InputsAreRight == ASSUME IInv PROVE CutsDoNotMatter
<1>1. script \in Seq(Symbol) /\ Len(script) \in Nat /\ pos \in Nat /\ pos <= Len(script)
  BY LenProperties DEF IInv, TypeOK
<1>2. Data(script) \in Seq(Symbol)
  BY <1>1, DataType
<1>3. CASE forwarded = <<>>
  <2>1. IsPrefix(<<>>, Data(script))
    BY <1>2, EmptyIsPrefix
  <2>. QED  BY <1>3, <2>1, ExecutedBegins DEF CutsDoNotMatter
<1>4. CASE forwarded # <<>>
  <2>1. lease = "stream" /\ Count # 0 /\ executed[Count] = <<PROXY>> /\ Count \in Nat
    BY <1>4, LenProperties DEF IInv, TypeOK, Forwarded, Lines, Count
  <2>2. PICK at \in Nat, p \in Nat : /\ at = EndOf(script, Count)
                                     /\ at <= p /\ p <= pos /\ forwarded = Rest(p)
    BY <1>1, <1>4 DEF IInv, Forwarded, Lines
  <2>3. Len(Commands(script)) = Count
    BY <2>1, ExecutedBegins DEF MakesLease
  <2>4. Commands(script) # <<>> /\ Last(Commands(script)) = <<PROXY>>
    <3>1. PICK n \in Nat : n = Count
      BY <2>1
    <3>2. Commands(script)[n] = LineAt(script, n) /\ executed[n] = LineAt(script, n)
      <4>1. n \in 1 .. n
        BY <2>1, <3>1
      <4>2. Commands(script)[n] = LineAt(script, n)
        BY <1>1, <2>3, <3>1, <4>1, CommandsType
      <4>3. executed[n] = LineAt(script, n)
        BY <3>1, <4>1 DEF IInv, Lines
      <4>. QED  BY <4>2, <4>3
    <3>3. Len(Commands(script)) = n /\ n # 0 /\ Commands(script)[n] = <<PROXY>>
      BY <2>1, <2>3, <3>1, <3>2
    <3>4. Len(<<>>) = 0
      OBVIOUS
    <3>5. Commands(script) # <<>>
      BY <3>3, <3>4, Zenon
    <3>6. Last(Commands(script)) = Commands(script)[Len(Commands(script))]
      BY DEF Last
    <3>7. Last(Commands(script)) = <<PROXY>>
      BY <3>3, <3>6, Zenon
    <3>. QED  BY <3>5, <3>7
  <2>5. Data(script) = SubSeq(script, at + 1, Len(script))
    BY <2>2, <2>3, <2>4 DEF Data
  <2>6. forwarded = SubSeq(script, at + 1, p)
    BY <2>2 DEF Rest
  <2>. DEFINE r == SubSeq(script, p + 1, Len(script))
  <2>7. forwarded \o r = Data(script)
    <3>1. p <= Len(script)
      BY <1>1, <2>2
    <3>2. Len(script) <= Len(script) /\ at <= p
      BY <1>1, <2>2
    <3>3. SubSeq(script, at + 1, p) \o r = SubSeq(script, at + 1, Len(script))
      BY <1>1, <3>1, <3>2, PartsJoin
    <3>. QED  BY <2>5, <2>6, <3>3
  <2>8. r \in Seq(Symbol) /\ forwarded \in Seq(Symbol)
    <3>1. p <= Len(script) /\ Len(script) <= Len(script)
      BY <1>1, <2>2
    <3>2. r \in Seq(Symbol)
      BY <1>1, <3>1, Part
    <3>. QED  BY <3>2 DEF IInv, TypeOK
  <2>. HIDE DEF r
  <2>9. IsPrefix(forwarded, forwarded \o r)
    BY <2>8, PrefixOfConcat
  <2>. QED  BY <2>7, <2>9, ExecutedBegins DEF CutsDoNotMatter
<1>. QED  BY <1>3, <1>4

-----------------------------------------------------------------------------
(* The inductive invariant holds in every state.                           *)
THEOREM Invariant == Spec => []IInv
BY InitIInv, StepIInv, PTL DEF Spec

(* Type correctness; with it the command buffer is bounded whenever the    *)
(* session waits for more of the stream.                                   *)
THEOREM TypeCorrect == Spec => []TypeOK
<1>1. IInv => TypeOK
  BY DEF IInv
<1>. QED  BY <1>1, Invariant, PTL

(* For every stream and every way to cut it into reads: handle_data()      *)
(* executes its commands and forwards its data, in order.                  *)
THEOREM AnyCutWillDo == Spec => []CutsDoNotMatter
<1>1. IInv => CutsDoNotMatter
  BY InputsAreRight
<1>. QED  BY <1>1, Invariant, PTL

(* The client reads the responses to its commands and then what the        *)
(* service has relayed, in order, without gaps and only where it belongs.  *)
THEOREM OutputInOrder == Spec => []StreamIsResponsesThenData
<1>1. IInv => StreamIsResponsesThenData
  BY OutputsAreRight
<1>. QED  BY <1>1, Invariant, PTL
=============================================================================
