--------------------------- MODULE DnsReplyProofs ---------------------------
(***************************************************************************)
(* Proofs about the reply to one query, for addresses of any two lengths,  *)
(* whatever the resolver returns.                                          *)
(***************************************************************************)
EXTENDS DnsReply, FiniteSetTheorems, WellFoundedInduction, SequenceTheorems, TLAPS

-----------------------------------------------------------------------------
(* Numbers and sequences.                                                  *)

LEMMA Least ==
  ASSUME NEW T \in SUBSET Nat, T # {}
  PROVE  \E x \in T : \A y \in T : x <= y
<1>. DEFINE R == OpToRel(<, Nat)
<1>1. IsWellFoundedOn(R, Nat)
  BY NatLessThanWellFounded
<1>2. PICK x \in T : \A y \in T : ~(<<y, x>> \in R)
  <2>. HIDE DEF R
  <2>. QED  BY <1>1, WFMin, Zenon
<1>3. \A y \in T : ~(y < x)
  BY <1>2 DEF OpToRel
<1>. QED  BY <1>3

(* Induction up to N, said with the set of the counterexamples.            *)
LEMMA NoFirstMeansNone ==
  ASSUME NEW N \in Nat, NEW T \in SUBSET (0 .. N), \A m \in T : m # 0 /\ m - 1 \in T
  PROVE  T = {}
<1>1. SUFFICES ASSUME T # {} PROVE FALSE
  OBVIOUS
<1>2. PICK m \in T : \A y \in T : m <= y
  BY <1>1, Least
<1>3. m \in Nat /\ m <= m - 1
  BY <1>2
<1>. QED  BY <1>3

(* A filter of a list, step by step.                                       *)
LEMMA FilteredSteps ==
  ASSUME NEW S, NEW list \in Seq(S), NEW keep
  PROVE  \E left :
           /\ left = [n \in 0 .. Len(list) |->
                        IF n = 0 THEN <<>>
                        ELSE IF list[n] \in keep THEN Append(left[n - 1], list[n])
                        ELSE left[n - 1]]
           /\ Filtered(list, keep) = left[Len(list)]
<1>. DEFINE Step(f, N) == [n \in 0 .. N |->
                        IF n = 0 THEN <<>>
                        ELSE IF list[n] \in keep THEN Append(f[n - 1], list[n])
                        ELSE f[n - 1]]
            T == {N \in 0 .. Len(list) : ~ \E f : f = Step(f, N)}
<1>1. ASSUME NEW N \in T PROVE N # 0 /\ N - 1 \in T
  <2>1. CASE N = 0
    <3>1. [n \in {0} |-> <<>>] = Step([n \in {0} |-> <<>>], 0)
      OBVIOUS
    <3>. QED  BY <2>1, <3>1
  <2>2. CASE N # 0
    <3>. SUFFICES ASSUME N - 1 \notin T PROVE FALSE
      BY <2>2
    <3>. N - 1 \in 0 .. Len(list)
      BY <2>2
    <3>1. PICK f : f = Step(f, N - 1)
      <4>. HIDE DEF Step
      <4>. QED  OBVIOUS
    <3>. DEFINE g == [n \in 0 .. N |-> IF n = N
                        THEN IF list[n] \in keep THEN Append(f[n - 1], list[n]) ELSE f[n - 1]
                        ELSE f[n]]
    <3>2. \A n \in 0 .. N : n # N => g[n] = f[n]
      OBVIOUS
    <3>3. \A n \in 0 .. N - 1 : f[n] = IF n = 0 THEN <<>>
                        ELSE IF list[n] \in keep THEN Append(f[n - 1], list[n])
                        ELSE f[n - 1]
      BY <3>1
    <3>4. \A n \in 0 .. N : g[n] = IF n = 0 THEN <<>>
                        ELSE IF list[n] \in keep THEN Append(g[n - 1], list[n])
                        ELSE g[n - 1]
      BY <2>2, <3>2, <3>3
    <3>5. g = Step(g, N)
      <4>1. g = [n \in 0 .. N |-> g[n]]
        OBVIOUS
      <4>. HIDE DEF g
      <4>. QED  BY <3>4, <4>1
    <3>. HIDE DEF g
    <3>6. N \notin T
      <4>. HIDE DEF Step
      <4>. QED  BY <3>5
    <3>. QED  BY <3>6
  <2>. QED  BY <2>1, <2>2
<1>2. T = {}
  <2>. HIDE DEF T
  <2>1. T \in SUBSET (0 .. Len(list))
    BY DEF T
  <2>2. Len(list) \in Nat
    OBVIOUS
  <2>. QED  BY <1>1, <2>1, <2>2, NoFirstMeansNone
<1>3. \E f : f = Step(f, Len(list))
  <2>1. Len(list) \in 0 .. Len(list)
    OBVIOUS
  <2>. HIDE DEF Step
  <2>. QED  BY <1>2, <2>1
<1>4. Filtered(list, keep) = (CHOOSE f : f = Step(f, Len(list)))[Len(list)]
  BY DEF Filtered
<1>. QED  BY <1>3, <1>4

(* The bytes of a list, record by record.                                  *)
LEMMA EncodedSteps ==
  ASSUME NEW S, NEW list \in Seq(S)
  PROVE  \E buffer :
           /\ buffer = [n \in 0 .. Len(list) |->
                        IF n = 0 THEN <<Len(list)>>
                        ELSE buffer[n - 1] \o Record(list[n])]
           /\ Encoded(list) = buffer[Len(list)]
<1>. DEFINE Step(f, N) == [n \in 0 .. N |->
                        IF n = 0 THEN <<Len(list)>>
                        ELSE f[n - 1] \o Record(list[n])]
            T == {N \in 0 .. Len(list) : ~ \E f : f = Step(f, N)}
<1>1. ASSUME NEW N \in T PROVE N # 0 /\ N - 1 \in T
  <2>1. CASE N = 0
    <3>1. [n \in {0} |-> <<Len(list)>>] = Step([n \in {0} |-> <<Len(list)>>], 0)
      OBVIOUS
    <3>. QED  BY <2>1, <3>1
  <2>2. CASE N # 0
    <3>. SUFFICES ASSUME N - 1 \notin T PROVE FALSE
      BY <2>2
    <3>. N - 1 \in 0 .. Len(list)
      BY <2>2
    <3>1. PICK f : f = Step(f, N - 1)
      <4>. HIDE DEF Step
      <4>. QED  OBVIOUS
    <3>. DEFINE g == [n \in 0 .. N |-> IF n = N
                        THEN f[n - 1] \o Record(list[n])
                        ELSE f[n]]
    <3>2. \A n \in 0 .. N : n # N => g[n] = f[n]
      OBVIOUS
    <3>3. \A n \in 0 .. N - 1 : f[n] = IF n = 0 THEN <<Len(list)>>
                        ELSE f[n - 1] \o Record(list[n])
      BY <3>1
    <3>4. \A n \in 0 .. N : g[n] = IF n = 0 THEN <<Len(list)>>
                        ELSE g[n - 1] \o Record(list[n])
      BY <2>2, <3>2, <3>3
    <3>5. g = Step(g, N)
      <4>1. g = [n \in 0 .. N |-> g[n]]
        OBVIOUS
      <4>. HIDE DEF g
      <4>. QED  BY <3>4, <4>1
    <3>. HIDE DEF g
    <3>6. N \notin T
      <4>. HIDE DEF Step
      <4>. QED  BY <3>5
    <3>. QED  BY <3>6
  <2>. QED  BY <2>1, <2>2
<1>2. T = {}
  <2>. HIDE DEF T
  <2>1. T \in SUBSET (0 .. Len(list))
    BY DEF T
  <2>2. Len(list) \in Nat
    OBVIOUS
  <2>. QED  BY <1>1, <2>1, <2>2, NoFirstMeansNone
<1>3. \E f : f = Step(f, Len(list))
  <2>1. Len(list) \in 0 .. Len(list)
    OBVIOUS
  <2>. HIDE DEF Step
  <2>. QED  BY <1>2, <2>1
<1>4. Encoded(list) = (CHOOSE f : f = Step(f, Len(list)))[Len(list)]
  BY DEF Encoded
<1>. QED  BY <1>3, <1>4

(* What has come of the first n of a list.                                 *)
LeftOf(f, list, n, keep) ==
  /\ \A i \in 1 .. Len(f) : f[i] \in keep /\ \E p \in 1 .. n : list[p] = f[i]
  /\ \A p \in 1 .. n : list[p] \in keep => \E i \in 1 .. Len(f) : f[i] = list[p]
  /\ \A i, j \in 1 .. Len(f) : i < j =>
       \E p, q \in 1 .. n : p < q /\ list[p] = f[i] /\ list[q] = f[j]

(* One more, that is kept.                                                 *)
LEMMA LeftGrows ==
  ASSUME NEW S, NEW list \in Seq(S), NEW keep, NEW n \in 1 .. Len(list), list[n] \in keep,
         NEW f \in Seq(S), LeftOf(f, list, n - 1, keep)
  PROVE  LeftOf(Append(f, list[n]), list, n, keep)
<1>. DEFINE g == Append(f, list[n])
            N == Len(f)
<1>1. /\ N \in Nat /\ Len(g) = N + 1 /\ g[N + 1] = list[n]
      /\ \A i \in 1 .. N : g[i] = f[i]
  BY list[n] \in S
<1>2. /\ \A i \in 1 .. N : f[i] \in keep /\ \E p \in 1 .. n - 1 : list[p] = f[i]
      /\ \A p \in 1 .. n - 1 : list[p] \in keep => \E i \in 1 .. N : f[i] = list[p]
      /\ \A i, j \in 1 .. N : i < j =>
           \E p, q \in 1 .. n - 1 : p < q /\ list[p] = f[i] /\ list[q] = f[j]
  BY DEF LeftOf
<1>3. n \in Nat /\ 1 <= n
  OBVIOUS
<1>. HIDE DEF g, N
<1>4. ASSUME NEW i \in 1 .. N + 1 PROVE g[i] \in keep /\ \E p \in 1 .. n : list[p] = g[i]
  <2>1. CASE i = N + 1
    <3>1. n \in 1 .. n
      BY <1>3
    <3>. QED  BY <1>1, <2>1, <3>1
  <2>2. CASE i # N + 1
    <3>1. i \in 1 .. N
      BY <1>1, <2>2
    <3>2. PICK p \in 1 .. n - 1 : f[i] \in keep /\ list[p] = f[i]
      BY <1>2, <3>1
    <3>3. p \in 1 .. n
      BY <1>3
    <3>. QED  BY <1>1, <3>1, <3>2, <3>3
  <2>. QED  BY <2>1, <2>2
<1>5. ASSUME NEW p \in 1 .. n, list[p] \in keep PROVE \E i \in 1 .. N + 1 : g[i] = list[p]
  <2>0. N + 1 \in 1 .. N + 1
    BY <1>1
  <2>1. CASE p = n
    BY <1>1, <2>0, <2>1
  <2>2. CASE p # n
    <3>1. p \in 1 .. n - 1
      BY <1>3, <2>2
    <3>2. PICK i \in 1 .. N : f[i] = list[p]
      BY <1>2, <1>5, <3>1
    <3>3. i \in 1 .. N + 1
      BY <1>1
    <3>. QED  BY <1>1, <3>2, <3>3
  <2>. QED  BY <2>1, <2>2
<1>6. ASSUME NEW i \in 1 .. Len(g), NEW j \in 1 .. Len(g), i < j
      PROVE  \E p, q \in 1 .. n : p < q /\ list[p] = g[i] /\ list[q] = g[j]
  <2>0. i \in 1 .. N /\ j \in 1 .. N + 1 /\ g[i] = f[i]
    BY <1>1, <1>6
  <2>1. CASE j = N + 1
    <3>1. PICK p \in 1 .. n - 1 : list[p] = f[i]
      BY <1>2, <2>0
    <3>2. p \in 1 .. n /\ p < n /\ n \in 1 .. n
      BY <1>3
    <3>. QED  BY <1>1, <2>0, <2>1, <3>1, <3>2
  <2>2. CASE j # N + 1
    <3>1. j \in 1 .. N /\ g[j] = f[j]
      BY <1>1, <2>0, <2>2
    <3>2. PICK p \in 1 .. n - 1, q \in 1 .. n - 1 : p < q /\ list[p] = f[i] /\ list[q] = f[j]
      BY <1>2, <1>6, <2>0, <3>1
    <3>3. p \in 1 .. n /\ q \in 1 .. n
      BY <1>3
    <3>. QED  BY <2>0, <3>1, <3>2, <3>3
  <2>. QED  BY <2>1, <2>2
<1>7. LeftOf(g, list, n, keep)
  <2>1. Len(g) = N + 1
    BY <1>1
  <2>2. \A i \in 1 .. Len(g) : g[i] \in keep /\ \E p \in 1 .. n : list[p] = g[i]
    BY <1>4, <2>1
  <2>3. \A p \in 1 .. n : list[p] \in keep => \E i \in 1 .. Len(g) : g[i] = list[p]
    BY <1>5, <2>1
  <2>4. \A i, j \in 1 .. Len(g) : i < j =>
          \E p, q \in 1 .. n : p < q /\ list[p] = g[i] /\ list[q] = g[j]
    BY <1>6, Zenon
  <2>. QED  BY <2>2, <2>3, <2>4, Zenon DEF LeftOf
<1>. QED  BY <1>7 DEF g

(* A filter keeps what it should, all of it, and in order.                 *)
LEMMA FilteredIs ==
  ASSUME NEW S, NEW list \in Seq(S), NEW keep
  PROVE  Filtered(list, keep) \in Seq(S) /\ LeftOf(Filtered(list, keep), list, Len(list), keep)
<1>1. PICK left :
        /\ left = [n \in 0 .. Len(list) |->
                     IF n = 0 THEN <<>>
                     ELSE IF list[n] \in keep THEN Append(left[n - 1], list[n])
                     ELSE left[n - 1]]
        /\ Filtered(list, keep) = left[Len(list)]
  BY FilteredSteps
<1>. DEFINE Good(n) == left[n] \in Seq(S) /\ LeftOf(left[n], list, n, keep)
            T == {n \in 0 .. Len(list) : ~ Good(n)}
<1>2. /\ Len(list) \in Nat
      /\ left[0] = <<>>
      /\ \A n \in 1 .. Len(list) :
           left[n] = IF list[n] \in keep THEN Append(left[n - 1], list[n]) ELSE left[n - 1]
  <2>1. Len(list) \in Nat /\ 0 \in 0 .. Len(list)
    OBVIOUS
  <2>2. ASSUME NEW n \in 1 .. Len(list)
        PROVE  left[n] = IF list[n] \in keep THEN Append(left[n - 1], list[n]) ELSE left[n - 1]
    <3>1. n \in 0 .. Len(list) /\ n # 0
      OBVIOUS
    <3>. QED  BY <1>1, <3>1
  <2>3. left[0] = <<>>
    BY <1>1, <2>1
  <2>. QED  BY <2>1, <2>2, <2>3
<1>3. ASSUME NEW n \in T PROVE n # 0 /\ n - 1 \in T
  <2>1. n # 0
    <3>1. <<>> \in Seq(S) /\ LeftOf(<<>>, list, 0, keep)
      BY DEF LeftOf
    <3>. QED  BY <1>2, <3>1
  <2>2. SUFFICES ASSUME Good(n - 1), NEW f, f = left[n - 1] PROVE Good(n)
    BY <2>1
  <2>3. n \in 1 .. Len(list) /\ list[n] \in S
    BY <2>1
  <2>4. f \in Seq(S) /\ LeftOf(f, list, n - 1, keep)
    BY <2>2
  <2>5. CASE list[n] \in keep
    <3>1. left[n] = Append(f, list[n])
      BY <1>2, <2>2, <2>3, <2>5
    <3>2. LeftOf(Append(f, list[n]), list, n, keep)
      BY <2>3, <2>4, <2>5, LeftGrows
    <3>. QED  BY <2>3, <2>4, <3>1, <3>2
  <2>6. CASE list[n] \notin keep
    <3>1. left[n] = f
      BY <1>2, <2>2, <2>3, <2>6
    <3>2. LeftOf(f, list, n, keep)
      BY <2>3, <2>4, <2>6 DEF LeftOf
    <3>. QED  BY <2>4, <3>1, <3>2
  <2>. QED  BY <2>5, <2>6
<1>4. T = {}
  <2>1. T \in SUBSET (0 .. Len(list))
    OBVIOUS
  <2>. HIDE DEF T
  <2>. QED  BY <1>2, <1>3, <2>1, NoFirstMeansNone
<1>5. Good(Len(list))
  BY <1>2, <1>4
<1>. QED  BY <1>1, <1>5

-----------------------------------------------------------------------------
(* The bytes of a reply, written and read.                                 *)

LEMMA OneBefore ==
  ASSUME NEW S, NEW list \in Seq(S), NEW n \in 0 .. Len(list), n # 0
  PROVE  n - 1 \in 0 .. Len(list) /\ n \in 1 .. Len(list) /\ list[n] \in S
OBVIOUS

LEMMA FunctionIsSeq ==
  ASSUME NEW n \in Nat, NEW S, NEW f \in [1 .. n -> S]
  PROVE  f \in Seq(S) /\ Len(f) = n
OBVIOUS

LEMMA IpIs ==
  ASSUME NEW ip \in IpAddr
  PROVE  /\ ip \in Seq(0 .. 255)
         /\ Len(ip) = IF Is4(ip) THEN V4Len ELSE V6Len
         /\ Is4(ip) <=> ~ Is6(ip)
<1>1. CASE ip \in V4
  <2>1. ip \in [1 .. V4Len -> 0 .. 255]
    BY <1>1, DnsReplyAssumption DEF V4
  <2>2. ip \in Seq(0 .. 255) /\ Len(ip) = V4Len
    BY <2>1, DnsReplyAssumption, FunctionIsSeq
  <2>. QED  BY <2>2, DnsReplyAssumption DEF Is4, Is6
<1>2. CASE ip \in V6
  <2>1. ip \in [1 .. V6Len -> 0 .. 255]
    BY <1>2, DnsReplyAssumption DEF V6
  <2>2. ip \in Seq(0 .. 255) /\ Len(ip) = V6Len
    BY <2>1, DnsReplyAssumption, FunctionIsSeq
  <2>. QED  BY <2>2, DnsReplyAssumption DEF Is4, Is6
<1>. QED  BY <1>1, <1>2 DEF IpAddr

LEMMA RecordIs ==
  ASSUME NEW ip \in IpAddr
  PROVE  /\ Record(ip) \in Seq(0 .. 255)
         /\ Len(ip) \in Nat
         /\ Len(Record(ip)) = Len(ip) + 1
         /\ Record(ip)[1] = IF Is4(ip) THEN TAG_IPV4 ELSE TAG_IPV6
         /\ \A k \in 1 .. Len(ip) : Record(ip)[k + 1] = ip[k]
<1>1. PICK tag \in 0 .. 255 : tag = IF Is4(ip) THEN TAG_IPV4 ELSE TAG_IPV6
  BY DEF TAG_IPV4, TAG_IPV6
<1>2. ip \in Seq(0 .. 255)
  BY IpIs
<1>3. Record(ip) = <<tag>> \o ip
  BY <1>1 DEF Record
<1>. QED  BY <1>1, <1>2, <1>3

(* What has been written never changes: a reply grows at its end.          *)
LEMMA EncodedIs ==
  ASSUME NEW list \in Seq(IpAddr), NEW B \in SUBSET Nat, 0 .. 255 \subseteq B, Len(list) \in B
  PROVE  \E buffer :
           /\ \A n \in 0 .. Len(list) : buffer[n] \in Seq(B)
           /\ buffer[0] = <<Len(list)>>
           /\ \A n \in 1 .. Len(list) : buffer[n] = buffer[n - 1] \o Record(list[n])
           /\ Encoded(list) = buffer[Len(list)]
<1>1. PICK buffer :
        /\ buffer = [n \in 0 .. Len(list) |->
                       IF n = 0 THEN <<Len(list)>> ELSE buffer[n - 1] \o Record(list[n])]
        /\ Encoded(list) = buffer[Len(list)]
  BY EncodedSteps
<1>2. /\ Len(list) \in Nat
      /\ buffer[0] = <<Len(list)>>
      /\ \A n \in 1 .. Len(list) : buffer[n] = buffer[n - 1] \o Record(list[n])
  <2>1. Len(list) \in Nat /\ 0 \in 0 .. Len(list)
    OBVIOUS
  <2>2. ASSUME NEW n \in 1 .. Len(list) PROVE buffer[n] = buffer[n - 1] \o Record(list[n])
    <3>1. n \in 0 .. Len(list) /\ n # 0
      OBVIOUS
    <3>. QED  BY <1>1, <3>1
  <2>3. buffer[0] = <<Len(list)>>
    BY <1>1, <2>1
  <2>. QED  BY <2>1, <2>2, <2>3
<1>. DEFINE T == {n \in 0 .. Len(list) : buffer[n] \notin Seq(B)}
<1>. HIDE DEF T
<1>3. ASSUME NEW n \in T PROVE n # 0 /\ n - 1 \in T
  <2>0. n \in 0 .. Len(list) /\ Len(list) \in Nat /\ buffer[n] \notin Seq(B)
    BY DEF T
  <2>1. n # 0
    <3>1. buffer[0] \in Seq(B)
      BY <1>2
    <3>. QED  BY <2>0, <3>1
  <2>2. SUFFICES ASSUME NEW f \in Seq(B), f = buffer[n - 1] PROVE buffer[n] \in Seq(B)
    <3>1. n - 1 \in 0 .. Len(list)
      BY <2>0, <2>1, OneBefore, Zenon
    <3>2. n - 1 \notin T => buffer[n - 1] \in Seq(B)
      BY <3>1 DEF T
    <3>. HIDE DEF T
    <3>. QED  BY <2>0, <2>1, <2>2, <3>2
  <2>3. n \in 1 .. Len(list) /\ list[n] \in IpAddr
    BY <2>0, <2>1, OneBefore, Zenon
  <2>4. PICK r : r = Record(list[n])
    OBVIOUS
  <2>5. r \in Seq(0 .. 255)
    BY <2>3, <2>4, RecordIs
  <2>6. r \in Seq(B)
    BY <2>5, SeqMonotonic
  <2>7. buffer[n] = f \o r
    BY <1>2, <2>2, <2>3, <2>4
  <2>. QED  BY <2>6, <2>7
<1>4. T = {}
  <2>1. T \in SUBSET (0 .. Len(list))
    BY DEF T
  <2>. QED  BY <1>2, <1>3, <2>1, NoFirstMeansNone
<1>5. \A n \in 0 .. Len(list) : buffer[n] \in Seq(B)
  BY <1>4 DEF T
<1>. QED  BY <1>1, <1>2, <1>5

(* s stands at the front of t.                                             *)
FrontOf(s, t) == Len(s) <= Len(t) /\ \A k \in 1 .. Len(s) : t[k] = s[k]

LEMMA ConcatFront ==
  ASSUME NEW S, NEW s \in Seq(S), NEW t \in Seq(S)
  PROVE  FrontOf(s, s \o t)
BY DEF FrontOf

LEMMA FrontOfFront ==
  ASSUME NEW S, NEW s \in Seq(S), NEW t \in Seq(S), NEW u \in Seq(S), FrontOf(s, t), FrontOf(t, u)
  PROVE  FrontOf(s, u)
BY DEF FrontOf

LEMMA PartIs ==
  ASSUME NEW S, NEW s \in Seq(S), NEW t \in Seq(S), NEW a \in Nat,
         a + Len(t) <= Len(s), \A k \in 1 .. Len(t) : s[a + k] = t[k]
  PROVE  SubSeq(s, a + 1, a + Len(t)) = t
<1>. DEFINE p == SubSeq(s, a + 1, a + Len(t))
<1>1. Len(t) \in Nat
  OBVIOUS
<1>2. p \in Seq(S) /\ Len(p) = Len(t)
  BY <1>1
<1>3. \A k \in 1 .. Len(t) : p[k] = s[a + k]
  BY <1>1
<1>. HIDE DEF p
<1>4. p = t
  BY <1>2, <1>3, SeqEqual
<1>. QED  BY <1>4 DEF p

LEMMA RecordOfNat == ASSUME NEW ip \in IpAddr PROVE Record(ip) \in Seq(Nat)
<1>1. Record(ip) \in Seq(0 .. 255) /\ 0 .. 255 \subseteq Nat
  BY RecordIs
<1>. QED  BY <1>1, SeqMonotonic

LEMMA RecordAtEnd ==
  ASSUME NEW f \in Seq(Nat), NEW ip \in IpAddr, NEW bytes \in Seq(Nat),
         FrontOf(f \o Record(ip), bytes)
  PROVE  /\ Len(f \o Record(ip)) = Len(f) + 1 + Len(ip)
         /\ Len(f) + 1 + Len(ip) <= Len(bytes)
         /\ bytes[Len(f) + 1] = IF Is4(ip) THEN TAG_IPV4 ELSE TAG_IPV6
         /\ \A k \in 1 .. Len(ip) : bytes[Len(f) + 1 + k] = ip[k]
<1>1. PICK r \in Seq(Nat) : r = Record(ip)
  BY RecordOfNat
<1>2. /\ Len(ip) \in Nat /\ Len(r) = Len(ip) + 1
      /\ r[1] = IF Is4(ip) THEN TAG_IPV4 ELSE TAG_IPV6
      /\ \A k \in 1 .. Len(ip) : r[k + 1] = ip[k]
  BY <1>1, RecordIs
<1>3. Len(f \o r) = Len(f) + Len(r) /\ \A k \in 1 .. Len(r) : (f \o r)[Len(f) + k] = r[k]
  OBVIOUS
<1>4. Len(f) \in Nat /\ Len(r) \in Nat
  OBVIOUS
<1>5. Len(f \o r) <= Len(bytes) /\ \A k \in 1 .. Len(f \o r) : bytes[k] = (f \o r)[k]
  BY <1>1 DEF FrontOf
<1>6. ASSUME NEW k \in 1 .. Len(r) PROVE bytes[Len(f) + k] = r[k]
  <2>1. Len(f) + k \in 1 .. Len(f \o r)
    BY <1>3, <1>4
  <2>. QED  BY <1>3, <1>5, <2>1
<1>7. bytes[Len(f) + 1] = r[1]
  BY <1>2, <1>6
<1>8. ASSUME NEW k \in 1 .. Len(ip) PROVE bytes[Len(f) + 1 + k] = ip[k]
  <2>1. k + 1 \in 1 .. Len(r) /\ Len(f) + (k + 1) = Len(f) + 1 + k
    BY <1>2, <1>4
  <2>2. bytes[Len(f) + (k + 1)] = r[k + 1]
    BY <1>6, <2>1
  <2>. QED  BY <1>2, <2>1, <2>2
<1>. QED  BY <1>1, <1>2, <1>3, <1>4, <1>5, <1>7, <1>8

(* Where the records of a reply stand, whatever comes behind it.           *)
LEMMA Layout ==
  ASSUME NEW list \in Seq(IpAddr), NEW next \in Seq(Nat)
  PROVE  \E at \in [0 .. Len(list) -> Nat] :
           LET bytes == Encoded(list) \o next
           IN  /\ bytes \in Seq(Nat) /\ bytes # <<>> /\ Head(bytes) = Len(list)
               /\ at[0] = 1 /\ at[Len(list)] = Len(Encoded(list))
               /\ \A n \in 1 .. Len(list) :
                    /\ at[n] = at[n - 1] + 1 + Len(list[n])
                    /\ at[n] <= Len(bytes)
                    /\ bytes[at[n - 1] + 1] = IF Is4(list[n]) THEN TAG_IPV4 ELSE TAG_IPV6
                    /\ \A k \in 1 .. Len(list[n]) : bytes[at[n - 1] + 1 + k] = list[n][k]
<1>. DEFINE N == Len(list)
            bytes == Encoded(list) \o next
<1>0. N \in Nat
  OBVIOUS
<1>1. PICK buffer :
        /\ \A n \in 0 .. N : buffer[n] \in Seq(Nat)
        /\ buffer[0] = <<N>>
        /\ \A n \in 1 .. N : buffer[n] = buffer[n - 1] \o Record(list[n])
        /\ Encoded(list) = buffer[N]
  <2>1. Nat \in SUBSET Nat /\ 0 .. 255 \subseteq Nat /\ Len(list) \in Nat
    OBVIOUS
  <2>. QED  BY <2>1, EncodedIs, Zenon
<1>2. bytes \in Seq(Nat) /\ FrontOf(buffer[N], bytes)
  <2>1. Encoded(list) \in Seq(Nat)
    BY <1>0, <1>1
  <2>. QED  BY <1>1, <2>1, ConcatFront
<1>. HIDE DEF N, bytes
<1>3. \A n \in 1 .. N : buffer[n - 1] \in Seq(Nat) /\ buffer[n] \in Seq(Nat)
  BY <1>0, <1>1
<1>4. \A n \in 1 .. N : list[n] \in IpAddr
  BY DEF N
<1>5. \A n \in 1 .. N : FrontOf(buffer[n - 1], buffer[n])
  <2>1. ASSUME NEW n \in 1 .. N PROVE FrontOf(buffer[n - 1], buffer[n])
    <3>1. Record(list[n]) \in Seq(Nat)
      BY <1>4, RecordOfNat
    <3>2. FrontOf(buffer[n - 1], buffer[n - 1] \o Record(list[n]))
      BY <1>3, <3>1, ConcatFront
    <3>. QED  BY <1>1, <3>2
  <2>. QED  BY <2>1
<1>6. \A n \in 0 .. N : FrontOf(buffer[n], bytes)
  <2>. DEFINE T == {m \in 0 .. N : ~ FrontOf(buffer[N - m], bytes)}
  <2>1. ASSUME NEW m \in T PROVE m # 0 /\ m - 1 \in T
    <3>1. m # 0
      BY <1>0, <1>2
    <3>2. PICK n \in 1 .. N : n = N - (m - 1) /\ n - 1 = N - m
      BY <1>0, <3>1
    <3>3. FrontOf(buffer[n], bytes) => FrontOf(buffer[n - 1], bytes)
      BY <1>2, <1>3, <1>5, FrontOfFront
    <3>4. m - 1 \in 0 .. N
      BY <1>0, <3>1
    <3>. QED  BY <3>1, <3>2, <3>3, <3>4
  <2>2. T \in SUBSET (0 .. N)
    OBVIOUS
  <2>. HIDE DEF T
  <2>3. T = {}
    BY <1>0, <2>1, <2>2, NoFirstMeansNone
  <2>4. ASSUME NEW n \in 0 .. N PROVE FrontOf(buffer[n], bytes)
    <3>1. PICK m \in 0 .. N : n = N - m
      BY <1>0, N - n \in 0 .. N
    <3>. QED  BY <2>3, <3>1 DEF T
  <2>. QED  BY <2>4
<1>. DEFINE at == [n \in 0 .. N |-> Len(buffer[n])]
<1>7. at \in [0 .. N -> Nat] /\ \A n \in 0 .. N : at[n] = Len(buffer[n])
  BY <1>1
<1>8. bytes # <<>> /\ Head(bytes) = N
  <2>0. 0 \in 0 .. N
    BY <1>0
  <2>1. FrontOf(<<N>>, bytes)
    BY <1>1, <1>6, <2>0
  <2>2. 1 <= Len(bytes) /\ bytes[1] = N
    BY <1>0, <2>1 DEF FrontOf
  <2>. QED  BY <1>2, <2>2
<1>9. at[0] = 1 /\ at[N] = Len(Encoded(list))
  <2>1. 0 \in 0 .. N /\ N \in 0 .. N
    BY <1>0
  <2>2. at[0] = Len(<<N>>) /\ at[N] = Len(Encoded(list))
    BY <1>1, <1>7, <2>1
  <2>. QED  BY <2>2
<1>10. ASSUME NEW n \in 1 .. N
       PROVE  /\ at[n] = at[n - 1] + 1 + Len(list[n])
              /\ at[n] <= Len(bytes)
              /\ bytes[at[n - 1] + 1] = IF Is4(list[n]) THEN TAG_IPV4 ELSE TAG_IPV6
              /\ \A k \in 1 .. Len(list[n]) : bytes[at[n - 1] + 1 + k] = list[n][k]
  <2>1. PICK f \in Seq(Nat) : f = buffer[n - 1]
    BY <1>3
  <2>2. list[n] \in IpAddr /\ n \in 0 .. N /\ n - 1 \in 0 .. N
    BY <1>0, <1>4
  <2>3. buffer[n] = f \o Record(list[n])
    BY <1>1, <2>1
  <2>4. FrontOf(f \o Record(list[n]), bytes)
    BY <1>6, <2>2, <2>3
  <2>5. /\ Len(f \o Record(list[n])) = Len(f) + 1 + Len(list[n])
        /\ Len(f) + 1 + Len(list[n]) <= Len(bytes)
        /\ bytes[Len(f) + 1] = IF Is4(list[n]) THEN TAG_IPV4 ELSE TAG_IPV6
        /\ \A k \in 1 .. Len(list[n]) : bytes[Len(f) + 1 + k] = list[n][k]
    BY <1>2, <2>2, <2>4, RecordAtEnd
  <2>6. at[n - 1] = Len(f) /\ at[n] = Len(f \o Record(list[n]))
    BY <1>7, <2>1, <2>2, <2>3
  <2>. HIDE DEF at
  <2>. QED  BY <2>5, <2>6
<1>. HIDE DEF at
<1>. QED  BY <1>2, <1>7, <1>8, <1>9, <1>10 DEF N, bytes

(* Where a record ends, as the reader has it.                              *)
LEMMA EndSteps ==
  ASSUME NEW bytes \in Seq(Nat), Head(bytes) \in Nat,
         NEW at \in [0 .. Head(bytes) -> Nat], at[0] = 1,
         \A n \in 1 .. Head(bytes) :
           at[n] = at[n - 1] + 1 + (IF bytes[at[n - 1] + 1] = TAG_IPV4 THEN V4Len ELSE V6Len)
  PROVE  ReadReply(bytes) =
           [records |-> [n \in 1 .. Head(bytes) |-> SubSeq(bytes, at[n - 1] + 2, at[n])],
            rest    |-> SubSeq(bytes, at[Head(bytes)] + 1, Len(bytes))]
<1>. DEFINE N == Head(bytes)
            Step(f) == [n \in 0 .. N |->
                 IF n = 0 THEN 1
                 ELSE f[n - 1] + 1 + (IF bytes[f[n - 1] + 1] = TAG_IPV4 THEN V4Len ELSE V6Len)]
            end == CHOOSE f : f = Step(f)
<1>1. at = Step(at)
  <2>1. \A n \in 0 .. N : at[n] = Step(at)[n]
    OBVIOUS
  <2>2. Step(at) = [n \in 0 .. N |-> Step(at)[n]] /\ at = [n \in 0 .. N |-> at[n]]
    OBVIOUS
  <2>. HIDE DEF Step
  <2>. QED  BY <2>1, <2>2
<1>2. end = Step(end)
  <2>. HIDE DEF Step
  <2>. QED  BY <1>1
<1>3. ReadReply(bytes) = [records |-> [n \in 1 .. N |-> SubSeq(bytes, end[n - 1] + 2, end[n])],
                           rest    |-> SubSeq(bytes, end[N] + 1, Len(bytes))]
  BY DEF ReadReply
<1>. HIDE DEF end, N
<1>3a. /\ N \in Nat /\ at \in [0 .. N -> Nat] /\ at[0] = 1
       /\ \A n \in 1 .. N :
            at[n] = at[n - 1] + 1 + (IF bytes[at[n - 1] + 1] = TAG_IPV4 THEN V4Len ELSE V6Len)
  BY DEF N
<1>4. /\ end[0] = 1
      /\ \A n \in 1 .. N :
           end[n] = end[n - 1] + 1 + (IF bytes[end[n - 1] + 1] = TAG_IPV4 THEN V4Len ELSE V6Len)
  <2>1. ASSUME NEW n \in 0 .. N
        PROVE  end[n] = IF n = 0 THEN 1
                 ELSE end[n - 1] + 1 + (IF bytes[end[n - 1] + 1] = TAG_IPV4 THEN V4Len ELSE V6Len)
    BY <1>2
  <2>2. 0 \in 0 .. N /\ \A n \in 1 .. N : n \in 0 .. N /\ n # 0
    BY <1>3a
  <2>. QED  BY <2>1, <2>2
<1>. DEFINE T == {n \in 0 .. N : end[n] # at[n]}
<1>. HIDE DEF Step
<1>5. ASSUME NEW n \in T PROVE n # 0 /\ n - 1 \in T
  <2>1. n \in 0 .. N /\ end[n] # at[n]
    OBVIOUS
  <2>2. n # 0
    BY <1>3a, <1>4, <2>1
  <2>3. n \in 1 .. N /\ n - 1 \in 0 .. N
    BY <1>3a, <2>1, <2>2
  <2>4. end[n - 1] # at[n - 1]
    BY <1>3a, <1>4, <2>1, <2>3
  <2>. QED  BY <2>2, <2>3, <2>4
<1>6. T = {}
  <2>1. T \in SUBSET (0 .. N)
    OBVIOUS
  <2>. HIDE DEF T
  <2>. QED  BY <1>3a, <1>5, <2>1, NoFirstMeansNone
<1>7. \A n \in 0 .. N : end[n] = at[n]
  BY <1>6
<1>8. \A n \in 1 .. N : end[n] = at[n] /\ end[n - 1] = at[n - 1]
  <2>1. \A n \in 1 .. N : n \in 0 .. N /\ n - 1 \in 0 .. N
    BY <1>3a
  <2>. QED  BY <1>7, <2>1
<1>9. end[N] = at[N]
  BY <1>3a, <1>7
<1>10. [n \in 1 .. N |-> SubSeq(bytes, end[n - 1] + 2, end[n])] =
         [n \in 1 .. N |-> SubSeq(bytes, at[n - 1] + 2, at[n])]
  BY <1>8
<1>. QED  BY <1>3, <1>9, <1>10 DEF N

(* A client that knows only the tags reads from a reply of encode() the    *)
(* addresses that were written, whatever octets they hold, and is left     *)
(* with exactly what comes behind it.                                      *)
THEOREM ReadBack ==
  ASSUME NEW list \in Seq(IpAddr), NEW next \in Seq(Nat)
  PROVE  /\ ReadReply(Encoded(list) \o next).records = list
         /\ ReadReply(Encoded(list) \o next).rest = next
<1>. DEFINE N == Len(list)
            front == Encoded(list)
            bytes == front \o next
<1>1. N \in Nat /\ list = [n \in 1 .. N |-> list[n]] /\ \A n \in 1 .. N : list[n] \in IpAddr
  OBVIOUS
<1>2. front \in Seq(Nat)
  <2>1. Nat \in SUBSET Nat /\ 0 .. 255 \subseteq Nat /\ Len(list) \in Nat
    OBVIOUS
  <2>2. \E buffer : (\A n \in 0 .. Len(list) : buffer[n] \in Seq(Nat)) /\ Encoded(list) = buffer[Len(list)]
    BY <2>1, EncodedIs
  <2>3. Len(list) \in 0 .. Len(list)
    OBVIOUS
  <2>. QED  BY <2>2, <2>3
<1>4. PICK at \in [0 .. N -> Nat] :
        /\ bytes \in Seq(Nat) /\ bytes # <<>> /\ Head(bytes) = N
        /\ at[0] = 1 /\ at[N] = Len(front)
        /\ \A n \in 1 .. N :
             /\ at[n] = at[n - 1] + 1 + Len(list[n])
             /\ at[n] <= Len(bytes)
             /\ bytes[at[n - 1] + 1] = IF Is4(list[n]) THEN TAG_IPV4 ELSE TAG_IPV6
             /\ \A k \in 1 .. Len(list[n]) : bytes[at[n - 1] + 1 + k] = list[n][k]
  BY Layout
<1>4a. /\ Len(bytes) = Len(front) + Len(next) /\ Len(front) \in Nat
       /\ \A k \in 1 .. Len(next) : bytes[Len(front) + k] = next[k]
  <2>. HIDE DEF front
  <2>. QED  BY <1>2
<1>. HIDE DEF N, front, bytes
<1>5. \A n \in 1 .. N : n - 1 \in 0 .. N /\ at[n - 1] \in Nat
  <2>1. \A n \in 1 .. N : n - 1 \in 0 .. N
    BY <1>1
  <2>. QED  BY <2>1
<1>6. ASSUME NEW n \in 1 .. N
      PROVE  at[n] = at[n - 1] + 1 + (IF bytes[at[n - 1] + 1] = TAG_IPV4 THEN V4Len ELSE V6Len)
  <2>1. Len(list[n]) = IF Is4(list[n]) THEN V4Len ELSE V6Len
    BY <1>1, IpIs
  <2>2. (bytes[at[n - 1] + 1] = TAG_IPV4) <=> Is4(list[n])
    <3>1. bytes[at[n - 1] + 1] = IF Is4(list[n]) THEN TAG_IPV4 ELSE TAG_IPV6
      BY <1>4
    <3>. QED  BY <3>1 DEF TAG_IPV4, TAG_IPV6
  <2>. QED  BY <1>4, <2>1, <2>2
<1>7. ReadReply(bytes) = [records |-> [n \in 1 .. N |-> SubSeq(bytes, at[n - 1] + 2, at[n])],
                           rest    |-> SubSeq(bytes, at[N] + 1, Len(bytes))]
  <2>1. Head(bytes) = N /\ bytes \in Seq(Nat) /\ at[0] = 1
    BY <1>4
  <2>. QED  BY <1>1, <1>6, <2>1, EndSteps
<1>8. ASSUME NEW n \in 1 .. N PROVE SubSeq(bytes, at[n - 1] + 2, at[n]) = list[n]
  <2>1. PICK a \in Nat : a = at[n - 1] + 1
    BY <1>5
  <2>2. list[n] \in Seq(Nat)
    <3>1. list[n] \in Seq(0 .. 255) /\ 0 .. 255 \subseteq Nat
      BY <1>1, IpIs
    <3>. QED  BY <3>1, SeqMonotonic
  <2>3. at[n] = a + Len(list[n]) /\ at[n] <= Len(bytes)
    BY <1>4, <2>1
  <2>4. \A k \in 1 .. Len(list[n]) : bytes[a + k] = list[n][k]
    BY <1>4, <2>1
  <2>5. SubSeq(bytes, a + 1, a + Len(list[n])) = list[n]
    BY <2>2, <2>3, <2>4, PartIs
  <2>6. a + 1 = at[n - 1] + 2
    BY <1>5, <2>1
  <2>. QED  BY <2>3, <2>5, <2>6
<1>9. ReadReply(bytes).records = list
  <2>1. [n \in 1 .. N |-> SubSeq(bytes, at[n - 1] + 2, at[n])] = [n \in 1 .. N |-> list[n]]
    BY <1>8
  <2>. QED  BY <1>1, <1>7, <2>1
<1>10. ReadReply(bytes).rest = next
  <2>1. PICK a \in Nat : a = Len(front)
    BY <1>4a
  <2>2. Len(bytes) = a + Len(next) /\ \A k \in 1 .. Len(next) : bytes[a + k] = next[k]
    BY <1>4a, <2>1
  <2>3. SubSeq(bytes, a + 1, a + Len(next)) = next
    <3>1. bytes \in Seq(Nat)
      BY <1>4
    <3>2. a + Len(next) <= Len(bytes)
      BY <2>2, <3>1
    <3>. QED  BY <2>2, <3>1, <3>2, PartIs
  <2>4. at[N] = a
    BY <1>4, <2>1
  <2>. QED  BY <1>7, <2>2, <2>3, <2>4
<1>. QED  BY <1>9, <1>10 DEF front, bytes

-----------------------------------------------------------------------------
(* The invariant.                                                          *)

(* Of what is in list, kept has each once, and what came first first.      *)
KeptOf(list, kept) ==
  /\ \A i \in 1 .. Len(kept) : \E p \in 1 .. Len(list) : list[p] = kept[i]
  /\ \A p \in 1 .. Len(list) : \E i \in 1 .. Len(kept) : kept[i] = list[p]
  /\ \A i, j \in 1 .. Len(kept) : i < j =>
       \E p \in 1 .. Len(list) : list[p] = kept[i] /\ \A q \in 1 .. p : list[q] # kept[j]

IInv == /\ TypeOK
        /\ KeptOf(found, addrs)
        /\ reply # <<>> => reply = Encoded(Selected)

(* No more than MAX_RECORDS of anything: as many as the count has room for.*)
LEMMA TakeIs ==
  ASSUME NEW S, NEW list \in Seq(S)
  PROVE  /\ Take(list) \in Seq(S)
         /\ Len(Take(list)) = IF Len(list) < MaxRecords THEN Len(list) ELSE MaxRecords
         /\ \A i \in 1 .. Len(Take(list)) : i \in 1 .. Len(list) /\ Take(list)[i] = list[i]
<1>1. PICK n \in Nat : n = IF Len(list) < MaxRecords THEN Len(list) ELSE MaxRecords
  BY DnsReplyAssumption
<1>2. n <= Len(list) /\ Len(list) \in Nat
  BY <1>1, DnsReplyAssumption
<1>3. /\ SubSeq(list, 1, n) \in Seq(S) /\ Len(SubSeq(list, 1, n)) = n
      /\ \A i \in 1 .. n : i \in 1 .. Len(list) /\ SubSeq(list, 1, n)[i] = list[i]
  BY <1>2
<1>4. Take(list) = SubSeq(list, 1, n)
  BY <1>1 DEF Take
<1>. QED  BY <1>1, <1>3, <1>4

LEMMA Bounded ==
  ASSUME NEW n \in Nat, NEW m \in 0 .. 255
  PROVE  (IF n < m THEN n ELSE m) \in 0 .. 255
OBVIOUS

LEMMA SelectedFits ==
  ASSUME addrs \in Seq(IpAddr)
  PROVE  Selected \in Seq(IpAddr) /\ Len(Selected) \in 0 .. 255
<1>1. Filtered(addrs, Accepted6) \in Seq(IpAddr) /\ Filtered(addrs, Accepted4) \in Seq(IpAddr)
  BY FilteredIs
<1>2. PICK all \in Seq(IpAddr) : all = Filtered(addrs, Accepted6) \o Filtered(addrs, Accepted4)
  <2>1. Filtered(addrs, Accepted6) \o Filtered(addrs, Accepted4) \in Seq(IpAddr)
    BY <1>1, ConcatProperties
  <2>. QED  BY <2>1
<1>3. Selected = Take(all)
  BY <1>2 DEF Selected
<1>4. Take(all) \in Seq(IpAddr) /\ Len(Take(all)) \in 0 .. 255
  <2>1. Take(all) \in Seq(IpAddr)
    BY TakeIs
  <2>2. Len(Take(all)) = IF Len(all) < MaxRecords THEN Len(all) ELSE MaxRecords
    BY TakeIs
  <2>3. Len(all) \in Nat
    OBVIOUS
  <2>4. PICK n \in Nat : n = Len(all)
    BY <2>3
  <2>5. MaxRecords \in 0 .. 255
    BY DnsReplyAssumption
  <2>6. (IF n < MaxRecords THEN n ELSE MaxRecords) \in 0 .. 255
    BY <2>4, <2>5, Bounded
  <2>7. Len(Take(all)) \in 0 .. 255
    BY <2>2, <2>4, <2>6, Zenon
  <2>. QED  BY <2>1, <2>7
<1>. QED  BY <1>3, <1>4

LEMMA EncodedFits ==
  ASSUME NEW list \in Seq(IpAddr), NEW B \in SUBSET Nat, 0 .. 255 \subseteq B, Len(list) \in B
  PROVE  Encoded(list) \in Seq(B)
<1>1. \E buffer : (\A n \in 0 .. Len(list) : buffer[n] \in Seq(B)) /\ Encoded(list) = buffer[Len(list)]
  BY EncodedIs
<1>2. Len(list) \in 0 .. Len(list)
  OBVIOUS
<1>. QED  BY <1>1, <1>2

(* What is selected depends on the filter and the addresses alone.         *)
LEMMA SelectedStays ==
  ASSUME UNCHANGED <<filter, addrs>>
  PROVE  Selected' = Selected
<1>1. Accepted6' = Accepted6 /\ Accepted4' = Accepted4
  BY DEF Accepted6, Accepted4, Accepts
<1>. QED  BY <1>1 DEF Selected

LEMMA InitIInv == Init => IInv
<1>1. <<>> \in Seq(IpAddr) /\ <<>> \in Seq(0 .. 255) /\ Len(<<>>) = 0 /\ IsInjective(<<>>)
  BY DEF IsInjective
<1>2. KeptOf(<<>>, <<>>)
  BY <1>1 DEF KeptOf
<1>. QED  BY <1>1, <1>2, DnsReplyAssumption DEF Init, IInv, TypeOK

(* What has been found before changes nothing.                             *)
LEMMA KeptAgain ==
  ASSUME NEW list \in Seq(IpAddr), NEW kept \in Seq(IpAddr), NEW ip \in IpAddr,
         ip \in Range(kept), KeptOf(list, kept)
  PROVE  KeptOf(Append(list, ip), kept)
<1>1. PICK N \in Nat, M \in Nat, more \in Seq(IpAddr), all \in Seq(IpAddr) :
        N = Len(list) /\ M = Len(kept) /\ more = Append(list, ip) /\ all = kept
  <2>1. Len(list) \in Nat /\ Len(kept) \in Nat /\ Append(list, ip) \in Seq(IpAddr)
    BY AppendProperties
  <2>. QED  BY <2>1, Zenon
<1>2. Len(more) = N + 1 /\ more[N + 1] = ip /\ \A p \in 1 .. N : more[p] = list[p]
  BY <1>1
<1>3. /\ \A i \in 1 .. M : \E p \in 1 .. N : list[p] = all[i]
      /\ \A p \in 1 .. N : \E i \in 1 .. M : all[i] = list[p]
      /\ \A i, j \in 1 .. M : i < j =>
           \E p \in 1 .. N : list[p] = all[i] /\ \A q \in 1 .. p : list[q] # all[j]
  BY <1>1 DEF KeptOf
<1>4. \A p \in 1 .. N : p \in 1 .. N + 1 /\ \A q \in 1 .. p : q \in 1 .. N
  OBVIOUS
<1>5. PICK k \in 1 .. M : all[k] = ip
  BY <1>1 DEF Range
<1>6. ASSUME NEW i \in 1 .. M PROVE \E p \in 1 .. N + 1 : more[p] = all[i]
  BY <1>2, <1>3, <1>4
<1>7. ASSUME NEW p \in 1 .. N + 1 PROVE \E i \in 1 .. M : all[i] = more[p]
  <2>1. p = N + 1 \/ p \in 1 .. N
    OBVIOUS
  <2>2. CASE p = N + 1
    BY <1>2, <1>5, <2>2
  <2>3. CASE p \in 1 .. N
    <3>1. PICK i \in 1 .. M : all[i] = list[p]
      BY <1>3, <2>3
    <3>2. more[p] = list[p]
      BY <1>2, <2>3
    <3>. QED  BY <3>1, <3>2
  <2>. QED  BY <2>1, <2>2, <2>3
<1>8. ASSUME NEW i \in 1 .. M, NEW j \in 1 .. M, i < j
      PROVE  \E p \in 1 .. N + 1 : more[p] = all[i] /\ \A q \in 1 .. p : more[q] # all[j]
  <2>1. PICK p \in 1 .. N : list[p] = all[i] /\ \A q \in 1 .. p : list[q] # all[j]
    BY <1>3, <1>8
  <2>2. p \in 1 .. N + 1 /\ more[p] = list[p] /\ \A q \in 1 .. p : more[q] = list[q]
    BY <1>2, <1>4
  <2>. QED  BY <2>1, <2>2
<1>9. Len(more) = N + 1 /\ Len(all) = M
  BY <1>1, <1>2
<1>10. KeptOf(more, all)
  BY <1>6, <1>7, <1>8, <1>9 DEF KeptOf
<1>. QED  BY <1>1, <1>10

(* What is new goes behind all the others.                                 *)
LEMMA KeptNew ==
  ASSUME NEW list \in Seq(IpAddr), NEW kept \in Seq(IpAddr), NEW ip \in IpAddr,
         ip \notin Range(kept), IsInjective(kept), KeptOf(list, kept)
  PROVE  KeptOf(Append(list, ip), Append(kept, ip)) /\ IsInjective(Append(kept, ip))
<1>1. PICK N \in Nat, M \in Nat, more \in Seq(IpAddr), all \in Seq(IpAddr) :
        N = Len(list) /\ M = Len(kept) /\ more = Append(list, ip) /\ all = Append(kept, ip)
  <2>1. /\ Len(list) \in Nat /\ Len(kept) \in Nat
        /\ Append(list, ip) \in Seq(IpAddr) /\ Append(kept, ip) \in Seq(IpAddr)
    BY AppendProperties
  <2>. QED  BY <2>1, Zenon
<1>2. Len(more) = N + 1 /\ more[N + 1] = ip /\ \A p \in 1 .. N : more[p] = list[p]
  BY <1>1
<1>3. Len(all) = M + 1 /\ all[M + 1] = ip /\ \A i \in 1 .. M : all[i] = kept[i]
  BY <1>1
<1>4. /\ \A i \in 1 .. M : \E p \in 1 .. N : list[p] = kept[i]
      /\ \A p \in 1 .. N : \E i \in 1 .. M : kept[i] = list[p]
      /\ \A i, j \in 1 .. M : i < j =>
           \E p \in 1 .. N : list[p] = kept[i] /\ \A q \in 1 .. p : list[q] # kept[j]
  BY <1>1 DEF KeptOf
<1>5. \A p \in 1 .. N : p \in 1 .. N + 1 /\ \A q \in 1 .. p : q \in 1 .. N
  OBVIOUS
<1>6. \A i \in 1 .. M : kept[i] # ip
  BY <1>1 DEF Range
<1>7. \A p \in 1 .. N : list[p] # ip
  BY <1>4, <1>6
<1>8. /\ N + 1 \in 1 .. N + 1 /\ M + 1 \in 1 .. M + 1
      /\ \A i \in 1 .. M : i \in 1 .. M + 1
      /\ \A i \in 1 .. M + 1 : i = M + 1 \/ i \in 1 .. M
      /\ \A p \in 1 .. N + 1 : p = N + 1 \/ p \in 1 .. N
  OBVIOUS
<1>9. ASSUME NEW i \in 1 .. M + 1 PROVE \E p \in 1 .. N + 1 : more[p] = all[i]
  <2>1. CASE i = M + 1
    BY <1>2, <1>3, <1>8, <2>1
  <2>2. CASE i \in 1 .. M
    BY <1>2, <1>3, <1>4, <1>5, <2>2
  <2>. QED  BY <1>8, <2>1, <2>2
<1>10. ASSUME NEW p \in 1 .. N + 1 PROVE \E i \in 1 .. M + 1 : all[i] = more[p]
  <2>1. CASE p = N + 1
    BY <1>2, <1>3, <1>8, <2>1
  <2>2. CASE p \in 1 .. N
    <3>1. PICK i \in 1 .. M : kept[i] = list[p]
      BY <1>4, <2>2
    <3>. QED  BY <1>2, <1>3, <1>8, <2>2, <3>1
  <2>. QED  BY <1>8, <2>1, <2>2
<1>11. ASSUME NEW i \in 1 .. M + 1, NEW j \in 1 .. M + 1, i < j
       PROVE  \E p \in 1 .. N + 1 : more[p] = all[i] /\ \A q \in 1 .. p : more[q] # all[j]
  <2>1. i \in 1 .. M
    BY <1>11
  <2>2. CASE j = M + 1
    <3>1. PICK p \in 1 .. N : list[p] = kept[i]
      BY <1>4, <2>1
    <3>2. p \in 1 .. N + 1 /\ more[p] = all[i] /\ all[j] = ip
      BY <1>2, <1>3, <1>5, <2>1, <2>2, <3>1
    <3>3. \A q \in 1 .. p : more[q] # ip
      BY <1>2, <1>5, <1>7
    <3>. QED  BY <3>2, <3>3
  <2>3. CASE j \in 1 .. M
    <3>1. PICK p \in 1 .. N : list[p] = kept[i] /\ \A q \in 1 .. p : list[q] # kept[j]
      BY <1>4, <1>11, <2>1, <2>3
    <3>2. p \in 1 .. N + 1 /\ more[p] = all[i] /\ all[j] = kept[j]
      BY <1>2, <1>3, <1>5, <2>1, <2>3, <3>1
    <3>3. \A q \in 1 .. p : more[q] = list[q]
      BY <1>2, <1>5
    <3>. QED  BY <3>1, <3>2, <3>3
  <2>. QED  BY <1>8, <2>2, <2>3
<1>12. KeptOf(more, all)
  BY <1>2, <1>3, <1>9, <1>10, <1>11 DEF KeptOf
<1>13. IsInjective(all)
  <2>1. DOMAIN all = 1 .. M + 1 /\ DOMAIN kept = 1 .. M
    BY <1>1, <1>3
  <2>2. ASSUME NEW i \in 1 .. M + 1, NEW j \in 1 .. M + 1, all[i] = all[j] PROVE i = j
    <3>1. CASE i \in 1 .. M /\ j \in 1 .. M
      BY <1>3, <2>1, <2>2, <3>1 DEF IsInjective
    <3>2. CASE i = M + 1 \/ j = M + 1
      BY <1>3, <1>6, <1>8, <2>2, <3>2
    <3>. QED  BY <1>8, <3>1, <3>2
  <2>. QED  BY <2>1, <2>2 DEF IsInjective
<1>. QED  BY <1>1, <1>12, <1>13

(* One more of what the resolver returns.                                  *)
LEMMA TakeFoundIInv ==
  ASSUME IInv, NEW ip \in IpAddr, TakeFound(ip)
  PROVE  IInv'
<1>1. /\ found \in Seq(IpAddr) /\ addrs \in Seq(IpAddr) /\ IsInjective(addrs)
      /\ filter \in {"A", "AAAA", "ANY"} /\ Len(found) < MaxFound /\ MaxFound \in Nat
      /\ found' = Append(found, ip) /\ addrs' = Keep(ip)
      /\ filter' = filter /\ reply' = reply /\ reply = <<>> /\ KeptOf(found, addrs)
  BY DnsReplyAssumption DEF IInv, TypeOK, TakeFound
<1>2. found' \in Seq(IpAddr) /\ Len(found') <= MaxFound
  BY <1>1
<1>3. addrs' \in Seq(IpAddr) /\ IsInjective(addrs') /\ KeptOf(found', addrs')
  <2>1. CASE ip \in Range(addrs)
    <3>1. addrs' = addrs
      BY <1>1, <2>1 DEF Keep
    <3>. QED  BY <1>1, <2>1, <3>1, KeptAgain
  <2>2. CASE ip \notin Range(addrs)
    <3>1. addrs' = Append(addrs, ip)
      BY <1>1, <2>2 DEF Keep
    <3>2. Append(addrs, ip) \in Seq(IpAddr)
      BY <1>1
    <3>. QED  BY <1>1, <2>2, <3>1, <3>2, KeptNew
  <2>. QED  BY <2>1, <2>2
<1>4. reply' \in Seq(0 .. 255)
  BY <1>1 DEF IInv, TypeOK
<1>5. TypeOK'
  BY <1>1, <1>2, <1>3, <1>4 DEF TypeOK
<1>. QED  BY <1>1, <1>3, <1>5 DEF IInv

LEMMA EncodeIInv ==
  ASSUME IInv, Encode
  PROVE  IInv'
<1>1. UNCHANGED <<filter, addrs>> /\ found' = found /\ reply' = Encoded(Selected)
  BY DEF Encode
<1>2. Selected' = Selected
  BY <1>1, SelectedStays
<1>3. KeptOf(found', addrs')
  BY <1>1 DEF IInv
<1>4. reply' \in Seq(0 .. 255)
  <2>1. Selected \in Seq(IpAddr) /\ Len(Selected) \in 0 .. 255
    BY SelectedFits DEF IInv, TypeOK
  <2>2. 0 .. 255 \in SUBSET Nat
    OBVIOUS
  <2>. QED  BY <1>1, <2>1, <2>2, EncodedFits
<1>5. TypeOK'
  BY <1>1, <1>4 DEF IInv, TypeOK
<1>. QED  BY <1>1, <1>2, <1>3, <1>5 DEF IInv

(* Nothing the resolver returns or does not return breaks the invariant.   *)
THEOREM Invariance == Spec => []IInv
<1>1. Init => IInv
  BY InitIInv
<1>2. IInv /\ [Next]_vars => IInv'
  <2>. SUFFICES ASSUME IInv, [Next]_vars PROVE IInv'
    OBVIOUS
  <2>1. ASSUME NEW ip \in IpAddr, TakeFound(ip) PROVE IInv'
    BY <2>1, TakeFoundIInv
  <2>2. CASE Encode
    BY <2>2, EncodeIInv
  <2>3. CASE UNCHANGED vars
    <3>1. UNCHANGED <<filter, addrs>> /\ found' = found /\ reply' = reply
      BY <2>3 DEF vars
    <3>2. Selected' = Selected
      BY <3>1, SelectedStays
    <3>3. TypeOK' /\ KeptOf(found', addrs')
      BY <3>1 DEF IInv, TypeOK
    <3>. QED  BY <3>1, <3>2, <3>3 DEF IInv
  <2>. QED  BY <2>1, <2>2, <2>3 DEF Next
<1>. QED  BY <1>1, <1>2, PTL DEF Spec

(* Addresses are kept once each, and every octet of a reply is an octet:   *)
(* the count too, for the list has been cut to MAX_RECORDS before.         *)
THEOREM TypeCorrect == Spec => []TypeOK
<1>1. IInv => TypeOK
  BY DEF IInv
<1>. QED  BY <1>1, Invariance, PTL

-----------------------------------------------------------------------------
(* The best that has been found.                                           *)

LEMMA FirstIs ==
  ASSUME found \in Seq(IpAddr), NEW p \in 1 .. Len(found)
  PROVE  /\ First(found[p]) \in 1 .. Len(found)
         /\ found[First(found[p])] = found[p]
         /\ \A j \in 1 .. First(found[p]) - 1 : found[j] # found[p]
<1>. DEFINE T == {i \in 1 .. Len(found) : found[i] = found[p]}
<1>1. T \in SUBSET Nat /\ T # {}
  OBVIOUS
<1>2. PICK i \in T : \A j \in T : i <= j
  <2>. HIDE DEF T
  <2>. QED  BY <1>1, Least
<1>3. i \in DOMAIN found /\ found[i] = found[p]
  OBVIOUS
<1>4. \A j \in 1 .. i - 1 : found[j] # found[p]
  BY <1>2
<1>5. \E k \in DOMAIN found : found[k] = found[p] /\ \A j \in 1 .. k - 1 : found[j] # found[p]
  BY <1>3, <1>4
<1>6. /\ First(found[p]) \in DOMAIN found
      /\ found[First(found[p])] = found[p]
      /\ \A j \in 1 .. First(found[p]) - 1 : found[j] # found[p]
  BY <1>5, Zenon DEF First
<1>7. DOMAIN found = 1 .. Len(found)
  OBVIOUS
<1>. QED  BY <1>6, <1>7, Zenon

(* The addresses stand in the order the resolver named them in first.      *)
LEMMA FirstsRise ==
  ASSUME IInv, NEW i \in 1 .. Len(addrs), NEW j \in 1 .. Len(addrs), i < j
  PROVE  First(addrs[i]) < First(addrs[j])
<1>1. found \in Seq(IpAddr)
  BY DEF IInv, TypeOK
<1>2. PICK p \in 1 .. Len(found) : found[p] = addrs[i] /\ \A q \in 1 .. p : found[q] # addrs[j]
  BY DEF IInv, KeptOf
<1>3. PICK r \in 1 .. Len(found) : found[r] = addrs[j]
  BY DEF IInv, KeptOf
<1>4. /\ First(addrs[i]) \in 1 .. Len(found)
      /\ \A k \in 1 .. First(addrs[i]) - 1 : found[k] # addrs[i]
  BY <1>1, <1>2, FirstIs
<1>5. First(addrs[j]) \in 1 .. Len(found) /\ found[First(addrs[j])] = addrs[j]
  BY <1>1, <1>3, FirstIs
<1>6. PICK a \in 1 .. Len(found), b \in 1 .. Len(found) : a = First(addrs[i]) /\ b = First(addrs[j])
  BY <1>4, <1>5
<1>7. a <= p
  BY <1>2, <1>4, <1>6
<1>8. p < b
  BY <1>2, <1>5, <1>6
<1>. QED  BY <1>6, <1>7, <1>8

(* A filter of the addresses has what has been found of that kind.         *)
LEMMA PartOfFound ==
  ASSUME IInv, NEW keep
  PROVE  \E f \in Seq(IpAddr) :
           /\ f = Filtered(addrs, keep)
           /\ \A i \in 1 .. Len(f) : f[i] \in keep \cap Range(found)
           /\ \A ip \in keep \cap Range(found) : \E i \in 1 .. Len(f) : f[i] = ip
           /\ \A i, j \in 1 .. Len(f) : i < j => First(f[i]) < First(f[j])
<1>1. addrs \in Seq(IpAddr) /\ found \in Seq(IpAddr) /\ KeptOf(found, addrs)
  BY DEF IInv, TypeOK
<1>2. PICK f \in Seq(IpAddr) : f = Filtered(addrs, keep) /\ LeftOf(f, addrs, Len(addrs), keep)
  BY <1>1, FilteredIs
<1>3. Range(found) = {found[p] : p \in 1 .. Len(found)}
  BY <1>1 DEF Range
<1>4. \A i \in 1 .. Len(addrs) : addrs[i] \in Range(found)
  BY <1>1, <1>3 DEF KeptOf
<1>5. \A ip \in Range(found) : \E i \in 1 .. Len(addrs) : addrs[i] = ip
  BY <1>1, <1>3 DEF KeptOf
<1>6. \A i \in 1 .. Len(f) : f[i] \in keep \cap Range(found)
  BY <1>2, <1>4 DEF LeftOf
<1>7. \A ip \in keep \cap Range(found) : \E i \in 1 .. Len(f) : f[i] = ip
  BY <1>2, <1>5 DEF LeftOf
<1>8. ASSUME NEW i \in 1 .. Len(f), NEW j \in 1 .. Len(f), i < j PROVE First(f[i]) < First(f[j])
  <2>1. PICK p \in 1 .. Len(addrs), q \in 1 .. Len(addrs) : p < q /\ addrs[p] = f[i] /\ addrs[q] = f[j]
    BY <1>2, <1>8 DEF LeftOf
  <2>2. First(addrs[p]) < First(addrs[q])
    BY <2>1, FirstsRise
  <2>. QED  BY <2>1, <2>2
<1>. QED  BY <1>2, <1>6, <1>7, <1>8

(* Before the cut: all that a client accepts, the better before the worse. *)
LEMMA AllThatIsAccepted ==
  ASSUME IInv
  PROVE  \E all \in Seq(IpAddr) :
           /\ Selected = Take(all)
           /\ \A i \in 1 .. Len(all) : all[i] \in Accepted
           /\ \A ip \in Accepted : \E i \in 1 .. Len(all) : all[i] = ip
           /\ \A i, j \in 1 .. Len(all) : i < j => Before(all[i], all[j])
<1>1. PICK s \in Seq(IpAddr) :
        /\ s = Filtered(addrs, Accepted6)
        /\ \A i \in 1 .. Len(s) : s[i] \in Accepted6 \cap Range(found)
        /\ \A ip \in Accepted6 \cap Range(found) : \E i \in 1 .. Len(s) : s[i] = ip
        /\ \A i, j \in 1 .. Len(s) : i < j => First(s[i]) < First(s[j])
  BY PartOfFound
<1>2. PICK t \in Seq(IpAddr) :
        /\ t = Filtered(addrs, Accepted4)
        /\ \A i \in 1 .. Len(t) : t[i] \in Accepted4 \cap Range(found)
        /\ \A ip \in Accepted4 \cap Range(found) : \E i \in 1 .. Len(t) : t[i] = ip
        /\ \A i, j \in 1 .. Len(t) : i < j => First(t[i]) < First(t[j])
  BY PartOfFound
<1>3. PICK all \in Seq(IpAddr) : all = s \o t
  <2>1. s \o t \in Seq(IpAddr)
    BY ConcatProperties
  <2>. QED  BY <2>1
<1>4. PICK N \in Nat, M \in Nat : N = Len(s) /\ M = Len(t)
  <2>1. Len(s) \in Nat /\ Len(t) \in Nat
    OBVIOUS
  <2>. QED  BY <2>1
<1>5. /\ Len(all) = N + M
      /\ \A i \in 1 .. N : all[i] = s[i]
      /\ \A i \in 1 .. M : all[N + i] = t[i]
  BY <1>3, <1>4
<1>6. Selected = Take(all)
  BY <1>1, <1>2, <1>3 DEF Selected
<1>7. Range(found) \subseteq IpAddr
  BY DEF IInv, TypeOK, Range
<1>8. /\ Accepted6 \cap Range(found) = {ip \in Accepted : Is6(ip)}
      /\ Accepted4 \cap Range(found) = {ip \in Accepted : Is4(ip)}
  BY <1>7 DEF Accepted6, Accepted4, Accepted
<1>9. \A ip \in Accepted : Is4(ip) <=> ~ Is6(ip)
  BY <1>7, IpIs DEF Accepted
<1>10. ASSUME NEW i \in 1 .. N + M
       PROVE  i \in 1 .. N \/ \E k \in 1 .. M : i = N + k
  <2>1. CASE i <= N
    BY <2>1
  <2>2. CASE i > N
    <3>1. i - N \in 1 .. M /\ i = N + (i - N)
      BY <2>2
    <3>. QED  BY <3>1
  <2>. QED  BY <2>1, <2>2
<1>11. /\ \A i \in 1 .. N : s[i] \in Accepted /\ Is6(s[i])
       /\ \A i \in 1 .. M : t[i] \in Accepted /\ Is4(t[i])
  BY <1>1, <1>2, <1>4, <1>8
<1>12. \A i \in 1 .. Len(all) : all[i] \in Accepted
  <2>1. ASSUME NEW i \in 1 .. N + M PROVE all[i] \in Accepted
    <3>1. CASE i \in 1 .. N
      BY <1>5, <1>11, <3>1
    <3>2. CASE i \notin 1 .. N
      <4>1. PICK k \in 1 .. M : i = N + k
        BY <1>10, <3>2
      <4>. QED  BY <1>5, <1>11, <4>1
    <3>. QED  BY <3>1, <3>2
  <2>. QED  BY <1>5, <2>1
<1>13. ASSUME NEW ip \in Accepted PROVE \E i \in 1 .. Len(all) : all[i] = ip
  <2>1. CASE Is6(ip)
    <3>1. PICK i \in 1 .. N : s[i] = ip
      BY <1>1, <1>4, <1>8, <2>1
    <3>2. i \in 1 .. N + M
      OBVIOUS
    <3>. QED  BY <1>5, <3>1, <3>2
  <2>2. CASE Is4(ip)
    <3>1. PICK i \in 1 .. M : t[i] = ip
      BY <1>2, <1>4, <1>8, <2>2
    <3>2. N + i \in 1 .. N + M
      OBVIOUS
    <3>. QED  BY <1>5, <3>1, <3>2
  <2>. QED  BY <1>9, <2>1, <2>2
<1>14. ASSUME NEW i \in 1 .. N + M, NEW j \in 1 .. N + M, i < j PROVE Before(all[i], all[j])
  <2>1. CASE j \in 1 .. N
    <3>1. i \in 1 .. N
      BY <1>14, <2>1
    <3>2. First(s[i]) < First(s[j])
      BY <1>1, <1>4, <1>14, <2>1, <3>1
    <3>3. Len(s[i]) = Len(s[j])
      BY <1>11, <2>1, <3>1 DEF Is6
    <3>. QED  BY <1>5, <2>1, <3>1, <3>2, <3>3 DEF Before
  <2>2. CASE j \notin 1 .. N
    <3>1. PICK k \in 1 .. M : j = N + k
      BY <1>10, <2>2
    <3>2. CASE i \in 1 .. N
      BY <1>5, <1>11, <3>1, <3>2 DEF Before
    <3>3. CASE i \notin 1 .. N
      <4>1. PICK l \in 1 .. M : i = N + l
        BY <1>10, <3>3
      <4>2. l < k
        BY <1>14, <3>1, <4>1
      <4>3. First(t[l]) < First(t[k])
        BY <1>2, <1>4, <4>2
      <4>4. Len(t[l]) = Len(t[k])
        BY <1>11 DEF Is4
      <4>. QED  BY <1>5, <3>1, <4>1, <4>3, <4>4 DEF Before
    <3>. QED  BY <3>2, <3>3
  <2>. QED  BY <2>1, <2>2
<1>15. \A i, j \in 1 .. Len(all) : i < j => Before(all[i], all[j])
  BY <1>5, <1>14
<1>. QED  BY <1>6, <1>12, <1>13, <1>15

LEMMA NotBeforeItself == ASSUME NEW ip \in IpAddr, First(ip) \in Nat PROVE ~ Before(ip, ip)
BY IpIs DEF Before

(* As many as have been found of those a client accepts.                   *)
LEMMA CountAccepted ==
  ASSUME NEW all \in Seq(IpAddr),
         \A i \in 1 .. Len(all) : all[i] \in Accepted,
         \A ip \in Accepted : \E i \in 1 .. Len(all) : all[i] = ip,
         \A i, j \in 1 .. Len(all) : i < j => all[i] # all[j]
  PROVE  Cardinality(Accepted) = Len(all)
<1>1. Len(all) \in Nat /\ DOMAIN all = 1 .. Len(all)
  OBVIOUS
<1>2. all \in [1 .. Len(all) -> Accepted]
  BY <1>1
<1>3. IsInjective(all)
  <2>1. ASSUME NEW i \in 1 .. Len(all), NEW j \in 1 .. Len(all), all[i] = all[j] PROVE i = j
    <3>1. ~ (i < j) /\ ~ (j < i)
      BY <2>1
    <3>. QED  BY <3>1
  <2>. QED  BY <1>1, <2>1 DEF IsInjective
<1>4. all \in Bijection(1 .. Len(all), Accepted)
  BY <1>2, <1>3, Zenon DEF Bijection, Injection, Surjection
<1>5. ExistsBijection(1 .. Len(all), Accepted)
  BY <1>4 DEF ExistsBijection
<1>. QED  BY <1>1, <1>5, FS_CountingElements

(* The records read are the first of all that is accepted, in the order of *)
(* Before, and there are as many of those as there are accepted addresses. *)
LEMMA InvariantIsTheBest == IInv => ReplyIsTheBest
<1>. SUFFICES ASSUME IInv, reply # <<>> PROVE ReplyIsTheBest
  BY DEF ReplyIsTheBest
<1>1. PICK all \in Seq(IpAddr) :
        /\ Selected = Take(all)
        /\ \A i \in 1 .. Len(all) : all[i] \in Accepted
        /\ \A ip \in Accepted : \E i \in 1 .. Len(all) : all[i] = ip
        /\ \A i, j \in 1 .. Len(all) : i < j => Before(all[i], all[j])
  BY AllThatIsAccepted
<1>2. PICK records \in Seq(IpAddr) : records = Selected
  BY SelectedFits DEF IInv, TypeOK
<1>3. PICK next \in Seq(Nat) : next = Encoded(addrs)
  <2>1. addrs \in Seq(IpAddr) /\ Nat \in SUBSET Nat /\ 0 .. 255 \subseteq Nat
    BY DEF IInv, TypeOK
  <2>2. Len(addrs) \in Nat
    BY <2>1
  <2>3. Encoded(addrs) \in Seq(Nat)
    BY <2>1, <2>2, EncodedFits
  <2>. QED  BY <2>3
<1>4. ReadReply(reply \o next).records = records /\ ReadReply(reply \o next).rest = next
  <2>1. reply = Encoded(records)
    BY <1>2 DEF IInv
  <2>. QED  BY <2>1, ReadBack
<1>5. \A i, j \in 1 .. Len(all) : i < j => all[i] # all[j]
  <2>1. ASSUME NEW i \in 1 .. Len(all), NEW j \in 1 .. Len(all), i < j PROVE all[i] # all[j]
    <3>1. PICK p \in 1 .. Len(found) : found[p] = all[i]
      <4>1. all[i] \in Range(found)
        BY <1>1 DEF Accepted
      <4>2. DOMAIN found = 1 .. Len(found)
        BY DEF IInv, TypeOK
      <4>. QED  BY <4>1, <4>2 DEF Range
    <3>2. First(all[i]) \in Nat
      BY <3>1, FirstIs DEF IInv, TypeOK
    <3>3. all[i] \in IpAddr /\ Before(all[i], all[j])
      BY <1>1, <2>1
    <3>. QED  BY <3>2, <3>3, NotBeforeItself
  <2>. QED  BY <2>1
<1>6. Cardinality(Accepted) = Len(all)
  BY <1>1, <1>5, CountAccepted
<1>7. PICK N \in Nat, K \in Nat : N = Len(all) /\ K = Len(records)
  <2>1. Len(all) \in Nat /\ Len(records) \in Nat
    OBVIOUS
  <2>. QED  BY <2>1
<1>8. K = IF N < MaxRecords THEN N ELSE MaxRecords
  BY <1>1, <1>2, <1>7, TakeIs
<1>9. \A i \in 1 .. K : i \in 1 .. N /\ records[i] = all[i]
  BY <1>1, <1>2, <1>7, TakeIs
<1>10. Len(records) = Min({MaxRecords, Cardinality(Accepted)})
  <2>1. MaxRecords \in Nat
    BY DnsReplyAssumption
  <2>2. K \in {MaxRecords, N} /\ \A y \in {MaxRecords, N} : K <= y
    BY <1>8, <2>1
  <2>3. \A x \in {MaxRecords, N} : (\A y \in {MaxRecords, N} : x <= y) => x = K
    BY <2>1, <2>2
  <2>4. Min({MaxRecords, N}) = K
    BY <2>2, <2>3 DEF Min
  <2>. QED  BY <1>6, <1>7, <2>4
<1>11. DOMAIN records = 1 .. K
  BY <1>7
<1>12. Range(records) \subseteq Accepted
  BY <1>1, <1>7, <1>9, <1>11 DEF Range
<1>13. ASSUME NEW i \in DOMAIN records, NEW ip \in Accepted \ Range(SubSeq(records, 1, i))
       PROVE  Before(records[i], ip)
  <2>1. i \in 1 .. K /\ i \in 1 .. N /\ records[i] = all[i]
    BY <1>9, <1>11
  <2>2. PICK j \in 1 .. N : all[j] = ip
    BY <1>1, <1>7
  <2>3. CASE i < j
    BY <1>1, <1>7, <2>1, <2>2, <2>3
  <2>4. CASE ~ (i < j)
    <3>1. j \in 1 .. i /\ j \in 1 .. K
      BY <2>1, <2>4
    <3>2. records[j] = ip
      BY <1>9, <2>2, <3>1
    <3>3. /\ DOMAIN SubSeq(records, 1, i) = 1 .. i
          /\ SubSeq(records, 1, i)[j] = records[j]
      BY <1>7, <2>1, <3>1
    <3>4. ip \in Range(SubSeq(records, 1, i))
      BY <3>1, <3>2, <3>3 DEF Range
    <3>. QED  BY <3>4
  <2>. QED  BY <2>3, <2>4
<1>. QED  BY <1>3, <1>4, <1>10, <1>12, <1>13 DEF ReplyIsTheBest

(* Whatever the resolver returns to do_lookup(), and in whatever order, a  *)
(* client reads from the reply the best it accepts of it, each address     *)
(* once, the better before the worse, and exactly to the end of the reply. *)
THEOREM TheBestIsRead == Spec => []ReplyIsTheBest
BY Invariance, InvariantIsTheBest, PTL
=============================================================================
