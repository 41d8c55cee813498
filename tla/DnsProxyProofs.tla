--------------------------- MODULE DnsProxyProofs ---------------------------
(***************************************************************************)
(* Proofs about the DNS proxy, for any number of queries, cut in any way   *)
(* when they come on a stream.                                             *)
(*                                                                         *)
(* Chunks is all that was ever taken for a query: what is answered, what   *)
(* is looked up and what waits.  Only the session makes it grow, at its    *)
(* end; every other step moves a chunk from one of the three to the next   *)
(* and leaves Chunks as it is.                                             *)
(***************************************************************************)
EXTENDS DnsProxy, SequenceTheorems, TLAPS

Replied(all) == [i \in 1 .. Len(all) |-> all[i].to]
Asked        == IF query = {} THEN <<>> ELSE <<query>>
Chunks       == Replied(got \o relay) \o Asked \o transmit

(* They are the pieces from 1 to n, in their order.                        *)
InTurn(chunks, n) ==
  /\ \A i, j \in 1 .. Len(chunks) : i < j => \A a \in chunks[i], b \in chunks[j] : a < b
  /\ UNION {chunks[i] : i \in 1 .. Len(chunks)} = 1 .. n

(* The client writes whole queries, wherever they are cut later.           *)
WholeQueries == \E n \in 0 .. Queries : written = 2 * n

(* The task: there is a query as long as it is looked up, and the task     *)
(* fails only for a session that is over.                                  *)
Lookups ==
  /\ task = "lookup" <=> query # {}
  /\ query # {} => MayParse(query)
  /\ session = "open" => task # "ended"

Turns ==
  session = "open" =>
    /\ InTurn(Chunks, taken)
    /\ transport = "message" =>
         /\ taken = 2 * Len(Chunks)
         /\ \A n \in 1 .. Len(Chunks) : Chunks[n] = Whole(n)
         /\ \A n \in bad \cap 1 .. Len(got \o relay) : (got \o relay)[n].records = "none"

IInv == TypeOK /\ WholeQueries /\ Lookups /\ Turns

-----------------------------------------------------------------------------
(* What happens to the chunks.                                             *)

LEMMA InTurnGrows ==
  ASSUME NEW chunks \in Seq(SUBSET Nat), NEW n \in Nat, NEW k \in Nat \ {0}, InTurn(chunks, n)
  PROVE  InTurn(Append(chunks, n + 1 .. n + k), n + k)
<1>. DEFINE new == Append(chunks, n + 1 .. n + k)
            len == Len(chunks)
<1>1. /\ len \in Nat /\ Len(new) = len + 1 /\ new[len + 1] = n + 1 .. n + k
      /\ \A i \in 1 .. len : new[i] = chunks[i]
  OBVIOUS
<1>. HIDE DEF new
<1>2. \A i \in 1 .. len : chunks[i] \subseteq 1 .. n
  BY DEF InTurn
<1>3. ASSUME NEW i \in 1 .. len + 1, NEW j \in 1 .. len + 1, i < j,
             NEW a \in new[i], NEW b \in new[j]
      PROVE  a < b
  <2>1. i \in 1 .. len /\ new[i] = chunks[i] /\ a \in 1 .. n
    BY <1>1, <1>2, <1>3
  <2>2. CASE j \in 1 .. len
    BY <1>1, <1>3, <2>1, <2>2 DEF InTurn
  <2>3. CASE j = len + 1
    BY <1>1, <1>3, <2>1, <2>3
  <2>. QED  BY <1>1, <2>2, <2>3
<1>4. UNION {new[i] : i \in 1 .. len + 1} = 1 .. n + k
  <2>1. ASSUME NEW a \in UNION {new[i] : i \in 1 .. len + 1} PROVE a \in 1 .. n + k
    <3>1. PICK i \in 1 .. len + 1 : a \in new[i]
      OBVIOUS
    <3>2. CASE i \in 1 .. len
      BY <1>1, <1>2, <3>1, <3>2
    <3>3. CASE i = len + 1
      BY <1>1, <3>1, <3>3
    <3>. QED  BY <1>1, <3>2, <3>3
  <2>2. ASSUME NEW a \in 1 .. n + k PROVE \E i \in 1 .. len + 1 : a \in new[i]
    <3>1. CASE a \in 1 .. n
      <4>1. a \in UNION {chunks[i] : i \in 1 .. len}
        BY <3>1 DEF InTurn
      <4>2. PICK i \in 1 .. len : a \in chunks[i]
        BY <4>1
      <4>. QED  BY <1>1, <4>2
    <3>2. CASE a \in n + 1 .. n + k
      BY <1>1, <3>2
    <3>. QED  BY <3>1, <3>2
  <2>. QED  BY <2>1, <2>2
<1>. QED  BY <1>1, <1>3, <1>4 DEF InTurn, new

LEMMA RepliedType ==
  ASSUME NEW all \in Seq(Reply)
  PROVE  /\ Replied(all) \in Seq(Chunk) /\ Len(Replied(all)) = Len(all)
         /\ \A i \in 1 .. Len(all) : Replied(all)[i] = all[i].to
<1>1. ASSUME NEW i \in 1 .. Len(all) PROVE all[i].to \in Chunk
  <2>1. all[i] \in Reply
    BY ElementOfSeq
  <2>. QED  BY <2>1 DEF Reply
<1>. QED  BY <1>1 DEF Replied

(* A chunk goes from the lookup, or from the backlog, to the replies.      *)
LEMMA RepliedGrows ==
  ASSUME NEW all \in Seq(Reply), NEW reply \in Reply
  PROVE  Replied(Append(all, reply)) = Replied(all) \o <<reply.to>>
<1>. DEFINE new == Append(all, reply)
<1>1. /\ new \in Seq(Reply) /\ Len(new) = Len(all) + 1 /\ new[Len(all) + 1] = reply
      /\ \A i \in 1 .. Len(all) : new[i] = all[i]
      /\ Len(all) \in Nat /\ reply.to \in Chunk
  BY DEF Reply
<1>. HIDE DEF new
<1>2. /\ Replied(new) \in Seq(Chunk) /\ Len(Replied(new)) = Len(all) + 1
      /\ \A i \in 1 .. Len(all) + 1 : Replied(new)[i] = new[i].to
  BY <1>1, RepliedType
<1>3. /\ Append(Replied(all), reply.to) \in Seq(Chunk)
      /\ Len(Append(Replied(all), reply.to)) = Len(all) + 1
      /\ \A i \in 1 .. Len(all) : Append(Replied(all), reply.to)[i] = all[i].to
      /\ Append(Replied(all), reply.to)[Len(all) + 1] = reply.to
  BY <1>1, RepliedType
<1>4. \A i \in 1 .. Len(all) + 1 : Replied(new)[i] = Append(Replied(all), reply.to)[i]
  BY <1>1, <1>2, <1>3
<1>5. Replied(new) = Append(Replied(all), reply.to)
  BY <1>2, <1>3, <1>4, SeqEqual
<1>. QED  BY <1>1, <1>5, RepliedType, AppendIsConcat DEF new

LEMMA HeadMoves ==
  ASSUME NEW S, NEW s \in Seq(S), s # <<>>
  PROVE  s = <<Head(s)>> \o Tail(s) /\ Head(s) \in S /\ Tail(s) \in Seq(S)
<1>1. /\ Len(s) \in Nat \ {0} /\ Head(s) = s[1] /\ Head(s) \in S /\ Tail(s) \in Seq(S)
      /\ Len(Tail(s)) = Len(s) - 1
      /\ \A i \in 1 .. Len(s) - 1 : Tail(s)[i] = s[i + 1]
  OBVIOUS
<1>2. /\ <<Head(s)>> \in Seq(S) /\ Len(<<Head(s)>>) = 1 /\ <<Head(s)>>[1] = s[1]
  BY <1>1
<1>3. /\ <<Head(s)>> \o Tail(s) \in Seq(S)
      /\ Len(<<Head(s)>> \o Tail(s)) = Len(s)
      /\ \A i \in 1 .. Len(s) : (<<Head(s)>> \o Tail(s))[i] = s[i]
  <2>1. /\ <<Head(s)>> \o Tail(s) \in Seq(S)
        /\ Len(<<Head(s)>> \o Tail(s)) = 1 + (Len(s) - 1)
        /\ \A i \in 1 .. 1 + (Len(s) - 1) :
             (<<Head(s)>> \o Tail(s))[i] = IF i <= 1 THEN <<Head(s)>>[i] ELSE Tail(s)[i - 1]
    BY <1>1, <1>2, ConcatProperties
  <2>. QED  BY <1>1, <1>2, <2>1
<1>. QED  BY <1>1, <1>3, SeqEqual

LEMMA Types ==
  ASSUME TypeOK
  PROVE  /\ got \o relay \in Seq(Reply) /\ Len(got \o relay) = Len(got) + Len(relay)
         /\ Replied(got \o relay) \in Seq(Chunk) /\ Asked \in Seq(Chunk)
         /\ Chunks \in Seq(Chunk) /\ taken \in Nat /\ Queries \in Nat
<1>1. got \o relay \in Seq(Reply) /\ Len(got \o relay) = Len(got) + Len(relay)
  BY DEF TypeOK
<1>2. Replied(got \o relay) \in Seq(Chunk)
  BY <1>1, RepliedType
<1>3. Asked \in Seq(Chunk)
  <2>1. query # {} => query \in Chunk
    BY DEF TypeOK, Chunk
  <2>. QED  BY <2>1 DEF Asked
<1>4. Chunks \in Seq(Chunk)
  BY <1>2, <1>3 DEF TypeOK, Chunks
<1>5. taken \in Nat /\ Queries \in Nat
  BY DnsProxyAssumption DEF TypeOK
<1>. QED  BY <1>1, <1>2, <1>3, <1>4, <1>5

(* Whatever leaves the chunks and the records alone.                       *)
LEMMA TurnsKept ==
  ASSUME Turns, session' = session \/ session' # "open", Chunks' = Chunks,
         (got \o relay)' = got \o relay, UNCHANGED <<transport, bad, taken>>
  PROVE  Turns'
BY DEF Turns

-----------------------------------------------------------------------------
(* The client and the session.                                             *)

LEMMA ClientAsksInv == ASSUME IInv, ClientAsks PROVE IInv'
<1>1. /\ written' = written + 2 /\ written < 2 * Queries /\ written \in 0 .. 2 * Queries
      /\ UNCHANGED <<transport, bad, taken, session, transmit, relay, task, query, got>>
  BY DEF ClientAsks, IInv, TypeOK, channels
<1>2. WholeQueries' /\ written' \in 0 .. 2 * Queries
  <2>1. PICK n \in 0 .. Queries : written = 2 * n
    BY DEF IInv, WholeQueries
  <2>2. n + 1 \in 0 .. Queries /\ written' = 2 * (n + 1)
    BY <1>1, <2>1, DnsProxyAssumption
  <2>. QED  BY <2>2, DnsProxyAssumption DEF WholeQueries
<1>3. taken' \in 0 .. written'
  BY <1>1 DEF IInv, TypeOK
<1>4. TypeOK'
  BY <1>1, <1>2, <1>3 DEF IInv, TypeOK
<1>5. Lookups' /\ Turns'
  BY <1>1 DEF IInv, Lookups, Turns, Chunks, Asked, MayParse
<1>. QED  BY <1>2, <1>4, <1>5 DEF IInv

(* The session ends, or is over already.                                   *)
LEMMA OverInv ==
  ASSUME IInv, session' \in {"ended", "gone"}, relay' \in {relay, <<>>},
         UNCHANGED <<transport, client, transmit, task, query, got>>,
         taken' \in 0 .. written
  PROVE  IInv'
<1>1. UNCHANGED <<bad, written>>
  BY DEF client
<1>2. TypeOK' /\ WholeQueries'
  <2>1. relay' \in Seq(Reply)
    <3>1. relay \in Seq(Reply) /\ <<>> \in Seq(Reply)
      BY DEF IInv, TypeOK
    <3>. QED  BY <3>1
  <2>. QED  BY <1>1, <2>1 DEF IInv, TypeOK, WholeQueries
<1>3. Lookups' /\ Turns'
  BY <1>1 DEF IInv, Lookups, Turns, MayParse
<1>. QED  BY <1>2, <1>3 DEF IInv

LEMMA LeaveInv == ASSUME IInv, Leave PROVE IInv'
BY OverInv DEF Leave, EndSession, IInv, TypeOK, client

LEMMA SessionDropsInv == ASSUME IInv, SessionDrops PROVE IInv'
BY OverInv DEF SessionDrops, IInv, TypeOK, client, channels

LEMMA SessionSendsInv ==
  ASSUME IInv, NEW k \in Piece, SessionSends(k) PROVE IInv'
<1>. DEFINE chunk == taken + 1 .. taken + k
<1>1. /\ taken \in Nat /\ k \in Nat \ {0} /\ taken' = taken + k /\ taken + k <= written
      /\ written \in 0 .. 2 * Queries /\ taken + k \in 0 .. written
      /\ transport = "message" => k = 2
      /\ session = "open" /\ task # "ended"
      /\ UNCHANGED <<transport, bad, written, task, query, got>>
  BY DnsProxyAssumption DEF SessionSends, Piece, IInv, TypeOK, Lookups, client
<1>2. transmit' = Append(transmit, chunk) /\ UNCHANGED <<session, relay>>
  BY <1>1 DEF SessionSends, Enqueue
<1>3. chunk \in Chunk /\ chunk \in SUBSET Nat
  <2>1. chunk \subseteq Piece
    BY <1>1, DnsProxyAssumption DEF Piece
  <2>2. taken + 1 \in chunk
    BY <1>1
  <2>. QED  BY <1>1, <2>1, <2>2 DEF Chunk
<1>. HIDE DEF chunk
<1>4. TypeOK' /\ WholeQueries'
  BY <1>1, <1>2, <1>3 DEF IInv, TypeOK, WholeQueries
<1>5. Lookups'
  BY <1>1, <1>2 DEF IInv, Lookups, MayParse
<1>6. Chunks \in Seq(Chunk) /\ Chunks' = Append(Chunks, chunk)
  <2>. DEFINE before == Replied(got \o relay) \o Asked
  <2>1. before \in Seq(Chunk) /\ transmit \in Seq(Chunk) /\ Chunks \in Seq(Chunk)
    BY Types DEF IInv, TypeOK
  <2>2. Chunks' = before \o (transmit \o <<chunk>>)
    BY <1>1, <1>2, <1>3, <2>1, AppendIsConcat DEF Chunks, Asked
  <2>3. <<chunk>> \in Seq(Chunk)
    BY <1>3
  <2>. HIDE DEF before
  <2>4. (before \o transmit) \o <<chunk>> = before \o (transmit \o <<chunk>>)
    BY <2>1, <2>3, ConcatAssociative
  <2>5. Chunks = before \o transmit
    BY DEF Chunks, before
  <2>. QED  BY <1>3, <2>1, <2>2, <2>4, <2>5, AppendIsConcat
<1>7. Turns'
  <2>1. InTurn(Chunks, taken)'
    <3>1. Chunks \in Seq(SUBSET Nat)
      BY <1>6, SeqMonotonic DEF Chunk, Piece
    <3>2. InTurn(Chunks, taken)
      BY <1>1 DEF IInv, Turns
    <3>3. InTurn(Append(Chunks, chunk), taken + k)
      BY <1>1, <3>1, <3>2, InTurnGrows DEF chunk
    <3>. QED  BY <1>1, <1>6, <3>3
  <2>2. ASSUME transport = "message"
        PROVE  taken' = 2 * Len(Chunks') /\ \A n \in 1 .. Len(Chunks') : Chunks'[n] = Whole(n)
    <3>1. taken = 2 * Len(Chunks) /\ \A n \in 1 .. Len(Chunks) : Chunks[n] = Whole(n)
      BY <1>1, <2>2 DEF IInv, Turns
    <3>2. /\ Len(Chunks) \in Nat /\ Len(Chunks') = Len(Chunks) + 1
          /\ Chunks'[Len(Chunks) + 1] = chunk
          /\ \A n \in 1 .. Len(Chunks) : Chunks'[n] = Chunks[n]
      BY <1>3, <1>6
    <3>3. chunk = Whole(Len(Chunks) + 1)
      BY <1>1, <2>2, <3>1, <3>2 DEF chunk, Whole
    <3>. QED  BY <1>1, <2>2, <3>1, <3>2, <3>3
  <2>. QED  BY <1>1, <1>2, <2>1, <2>2 DEF IInv, Turns
<1>. QED  BY <1>4, <1>5, <1>7 DEF IInv

LEMMA SessionRelaysInv == ASSUME IInv, SessionRelays PROVE IInv'
<1>1. /\ got \in Seq(Reply) /\ relay \in Seq(Reply) /\ relay # <<>>
      /\ got' = Append(got, Head(relay)) /\ relay' = Tail(relay)
      /\ UNCHANGED <<transport, bad, written, taken, session, transmit, task, query>>
  BY DEF SessionRelays, IInv, TypeOK, client
<1>2. /\ Head(relay) \in Reply /\ Tail(relay) \in Seq(Reply) /\ <<Head(relay)>> \in Seq(Reply)
      /\ relay = <<Head(relay)>> \o Tail(relay)
  BY <1>1, HeadMoves
<1>3. got' \o relay' = got \o relay
  <2>1. got' = got \o <<Head(relay)>>
    BY <1>1, <1>2, AppendIsConcat
  <2>2. (got \o <<Head(relay)>>) \o Tail(relay) = got \o (<<Head(relay)>> \o Tail(relay))
    BY <1>1, <1>2, ConcatAssociative
  <2>. QED  BY <1>1, <1>2, <2>1, <2>2
<1>4. Chunks' = Chunks
  BY <1>1, <1>3 DEF Chunks, Asked
<1>5. TypeOK' /\ WholeQueries'
  BY <1>1, <1>2 DEF IInv, TypeOK, WholeQueries
<1>6. Lookups' /\ Turns'
  BY <1>1, <1>3, <1>4, TurnsKept DEF IInv, Lookups, MayParse
<1>. QED  BY <1>5, <1>6 DEF IInv

-----------------------------------------------------------------------------
(* The task.                                                               *)

(* A chunk is answered, whether it was looked up or refused.               *)
LEMMA AnswerInv ==
  ASSUME IInv, NEW reply \in Reply, NEW rest \in Seq(Chunk), Answer(reply, rest),
         Chunks = Replied(got \o relay) \o <<reply.to>> \o rest,
         \A n \in bad : reply.to = Whole(n) => reply.records = "none",
         UNCHANGED <<transport, client, taken, session, got>>
  PROVE  IInv'
<1>1. /\ UNCHANGED <<transport, bad, written, taken, session, got>> /\ query' = {}
      /\ got \in Seq(Reply) /\ relay \in Seq(Reply)
  BY DEF Answer, IInv, TypeOK, client
<1>2. CASE session # "open"
  <2>1. task' = "ended" /\ transmit' = <<>> /\ relay' = relay
    BY <1>2 DEF Answer, EndTask
  <2>2. TypeOK' /\ WholeQueries'
    BY <1>1, <2>1 DEF IInv, TypeOK, WholeQueries
  <2>3. Lookups' /\ Turns'
    BY <1>1, <1>2, <2>1 DEF Lookups, Turns
  <2>. QED  BY <2>2, <2>3 DEF IInv
<1>3. CASE session = "open"
  <2>. DEFINE all == got \o relay
  <2>1. task' = "waiting" /\ transmit' = rest /\ relay' = Append(relay, reply)
    BY <1>3 DEF Answer
  <2>2. TypeOK' /\ WholeQueries'
    BY <1>1, <2>1 DEF IInv, TypeOK, WholeQueries
  <2>3. all \in Seq(Reply) /\ Replied(all) \in Seq(Chunk)
    BY Types DEF IInv
  <2>4. got' \o relay' = Append(all, reply)
    <3>1. relay' = relay \o <<reply>> /\ Append(all, reply) = all \o <<reply>>
      BY <1>1, <2>1, <2>3, AppendIsConcat
    <3>2. (got \o relay) \o <<reply>> = got \o (relay \o <<reply>>)
      BY <1>1, ConcatAssociative
    <3>. QED  BY <1>1, <3>1, <3>2
  <2>. HIDE DEF all
  <2>5. Chunks' = Chunks
    <3>1. reply.to \in Chunk
      BY DEF Reply
    <3>2. Replied(Append(all, reply)) = Replied(all) \o <<reply.to>>
      BY <2>3, RepliedGrows
    <3>3. Replied(all) \o <<reply.to>> \in Seq(Chunk)
      BY <2>3, <3>1
    <3>4. Chunks' = Replied(Append(all, reply)) \o <<>> \o rest
      BY <1>1, <2>1, <2>4 DEF Chunks, Asked
    <3>5. Chunks' = Replied(all) \o <<reply.to>> \o rest
      BY <3>2, <3>3, <3>4, ConcatEmptySeq
    <3>. QED  BY <3>5 DEF all
  <2>6. ASSUME transport = "message", NEW n \in bad \cap 1 .. Len(got' \o relay')
        PROVE  (got' \o relay')[n].records = "none"
    <3>1. /\ Len(all) \in Nat /\ Len(got' \o relay') = Len(all) + 1
          /\ \A i \in 1 .. Len(all) : (got' \o relay')[i] = all[i]
          /\ (got' \o relay')[Len(all) + 1] = reply
      BY <2>3, <2>4
    <3>2. CASE n \in 1 .. Len(all)
      <4>1. all[n].records = "none"
        BY <1>3, <2>6, <3>2 DEF IInv, Turns, all
      <4>. QED  BY <3>1, <3>2, <4>1
    <3>3. CASE n = Len(all) + 1
      <4>. DEFINE before == Replied(all) \o <<reply.to>>
      <4>1. /\ Len(Replied(all)) = Len(all) /\ reply.to \in Chunk
            /\ <<reply.to>> \in Seq(Chunk)
        <5>1. Len(Replied(all)) = Len(all)
          BY <2>3, RepliedType
        <5>2. reply.to \in Chunk
          BY DEF Reply
        <5>. QED  BY <5>1, <5>2
      <4>2. before \in Seq(Chunk) /\ Len(before) = n /\ before[n] = reply.to
        BY <2>3, <3>1, <3>3, <4>1
      <4>3. Chunks = before \o rest /\ n \in Nat \ {0}
        BY <3>1, <3>3 DEF all
      <4>. HIDE DEF before
      <4>4. n \in 1 .. Len(Chunks) /\ Chunks[n] = reply.to
        BY <4>2, <4>3
      <4>5. Chunks[n] = Whole(n)
        BY <1>3, <2>6, <4>4 DEF IInv, Turns
      <4>6. reply.records = "none"
        BY <4>4, <4>5
      <4>. QED  BY <3>1, <3>3, <4>6
    <3>. QED  BY <3>1, <3>2, <3>3
  <2>7. Lookups'
    BY <1>1, <2>1 DEF Lookups
  <2>8. Turns'
    BY <1>1, <1>3, <2>5, <2>6 DEF IInv, Turns
  <2>. QED  BY <2>2, <2>7, <2>8 DEF IInv
<1>. QED  BY <1>2, <1>3

LEMMA TaskTakesQueryInv == ASSUME IInv, TaskTakesQuery PROVE IInv'
<1>. DEFINE chunk == Head(transmit)
            rest  == Tail(transmit)
<1>1. /\ task = "waiting" /\ transmit \in Seq(Chunk) /\ transmit # <<>> /\ query = {}
      /\ UNCHANGED <<transport, client, taken, session, got>>
      /\ UNCHANGED <<bad, written>>
  BY DEF TaskTakesQuery, IInv, TypeOK, Lookups, client
<1>2. chunk \in Chunk /\ rest \in Seq(Chunk) /\ transmit = <<chunk>> \o rest
  BY <1>1, HeadMoves
<1>3. CASE MayParse(chunk) /\ query' = chunk /\ task' = "lookup" /\ transmit' = rest
           /\ UNCHANGED relay
  <2>1. TypeOK' /\ WholeQueries'
    BY <1>1, <1>2, <1>3 DEF IInv, TypeOK, WholeQueries, Chunk
  <2>2. Lookups'
    BY <1>1, <1>2, <1>3 DEF IInv, Lookups, Chunk, MayParse
  <2>3. Chunks' = Chunks
    <3>1. Chunks' = Replied(got \o relay) \o <<chunk>> \o rest
      BY <1>1, <1>2, <1>3 DEF Chunks, Asked, Chunk
    <3>2. Chunks = Replied(got \o relay) \o <<>> \o transmit
      BY <1>1 DEF Chunks, Asked
    <3>3. Replied(got \o relay) \in Seq(Chunk) /\ <<chunk>> \in Seq(Chunk)
      BY <1>2, Types DEF IInv
    <3>4. Chunks = Replied(got \o relay) \o (<<chunk>> \o rest)
      BY <1>2, <3>2, <3>3, ConcatEmptySeq
    <3>. QED  BY <1>2, <3>1, <3>3, <3>4, ConcatAssociative
  <2>4. Turns'
    BY <1>1, <1>3, <2>3, TurnsKept DEF IInv
  <2>. QED  BY <2>1, <2>2, <2>4 DEF IInv
<1>4. CASE MayBeBad(chunk) /\ Refuse(chunk, rest)
  <2>. DEFINE reply == [to |-> chunk, records |-> "none"]
  <2>1. /\ reply \in Reply /\ reply.to = chunk /\ reply.records = "none"
        /\ Answer(reply, rest)
    BY <1>2, <1>4 DEF Reply, Refuse
  <2>2. Chunks = Replied(got \o relay) \o <<chunk>> \o rest
    <3>1. Chunks = Replied(got \o relay) \o <<>> \o transmit
      BY <1>1 DEF Chunks, Asked
    <3>2. Replied(got \o relay) \in Seq(Chunk) /\ <<chunk>> \in Seq(Chunk)
      BY <1>2, Types DEF IInv
    <3>3. Chunks = Replied(got \o relay) \o (<<chunk>> \o rest)
      BY <1>2, <3>1, <3>2, ConcatEmptySeq
    <3>. QED  BY <1>2, <3>2, <3>3, ConcatAssociative
  <2>. HIDE DEF reply
  <2>. QED  BY <1>1, <1>2, <2>1, <2>2, AnswerInv
<1>. QED  BY <1>3, <1>4 DEF TaskTakesQuery

LEMMA LookupReturnsInv == ASSUME IInv, LookupReturns PROVE IInv'
<1>1. /\ task = "lookup" /\ query # {} /\ query \in Chunk /\ transmit \in Seq(Chunk)
      /\ MayParse(query) /\ bad \subseteq 1 .. Queries
      /\ UNCHANGED <<transport, client, taken, session, got>>
  BY DEF LookupReturns, IInv, TypeOK, Lookups, Chunk
<1>2. PICK records \in {"some", "none"} : Answer([to |-> query, records |-> records], transmit)
  BY DEF LookupReturns
<1>. DEFINE reply == [to |-> query, records |-> records]
<1>3. reply \in Reply /\ reply.to = query /\ Answer(reply, transmit)
  BY <1>1, <1>2 DEF Reply
<1>4. Chunks = Replied(got \o relay) \o <<query>> \o transmit
  BY <1>1 DEF Chunks, Asked
<1>5. \A n \in bad : query # Whole(n)
  BY <1>1 DEF MayParse
<1>. HIDE DEF reply
<1>. QED  BY <1>1, <1>3, <1>4, <1>5, AnswerInv

LEMMA TaskSeesLeaseGoneInv == ASSUME IInv, TaskSeesLeaseGone PROVE IInv'
<1>1. /\ session = "gone" /\ task' = "ended" /\ transmit' = <<>> /\ query = {}
      /\ UNCHANGED <<transport, bad, written, taken, session, relay, query, got>>
  BY DEF TaskSeesLeaseGone, EndTask, client, IInv, Lookups
<1>2. TypeOK' /\ WholeQueries'
  BY <1>1 DEF IInv, TypeOK, WholeQueries
<1>3. Lookups' /\ Turns'
  BY <1>1 DEF Lookups, Turns
<1>. QED  BY <1>2, <1>3 DEF IInv

-----------------------------------------------------------------------------
LEMMA InitInv == Init => IInv
<1>. SUFFICES ASSUME Init PROVE IInv
  OBVIOUS
<1>1. /\ got = <<>> /\ relay = <<>> /\ transmit = <<>> /\ query = {} /\ task = "waiting"
      /\ taken = 0 /\ written = 0 /\ session = "open"
      /\ bad \subseteq 1 .. Queries /\ transport \in {"message", "stream"}
  BY DEF Init
<1>2. TypeOK
  BY <1>1, DnsProxyAssumption DEF TypeOK
<1>3. Lookups /\ WholeQueries
  BY <1>1, DnsProxyAssumption DEF Lookups, WholeQueries
<1>4. Chunks = <<>> /\ got \o relay = <<>>
  <2>1. got \o relay \in Seq(Reply) /\ Len(got \o relay) = 0
    BY <1>1
  <2>2. got \o relay = <<>>
    BY <2>1, EmptySeq
  <2>3. Replied(got \o relay) \in Seq(Chunk) /\ Len(Replied(got \o relay)) = 0
    BY <2>1, RepliedType
  <2>4. Replied(got \o relay) = <<>> /\ Asked = <<>>
    BY <1>1, <2>3, EmptySeq DEF Asked
  <2>5. <<>> \o <<>> \o <<>> = <<>>
    OBVIOUS
  <2>. QED  BY <1>1, <2>2, <2>4, <2>5 DEF Chunks
<1>5. Turns
  <2>1. InTurn(<<>>, 0)
    BY DEF InTurn
  <2>. QED  BY <1>1, <1>4, <2>1 DEF Turns
<1>. QED  BY <1>2, <1>3, <1>5 DEF IInv

LEMMA StepInv == IInv /\ [Next]_vars => IInv'
<1>. SUFFICES ASSUME IInv, [Next]_vars PROVE IInv'
  OBVIOUS
<1>1. CASE UNCHANGED vars
  BY <1>1 DEF vars, client, channels, IInv, TypeOK, WholeQueries, Lookups, MayParse, Turns, Chunks, Asked
<1>. QED
  BY <1>1, ClientAsksInv, LeaveInv, SessionSendsInv, SessionRelaysInv, SessionDropsInv,
     TaskTakesQueryInv, LookupReturnsInv, TaskSeesLeaseGoneInv DEF Next, SessionNext, TaskNext

LEMMA Invariant == Spec => []IInv
BY InitInv, StepInv, PTL DEF Spec

(* Every variable keeps to its type: above all, no empty reply is queued,  *)
(* which a client would take for a reply without even a count.             *)
THEOREM TypeCorrect == Spec => []TypeOK
<1>1. IInv => TypeOK
  BY DEF IInv
<1>. QED  BY <1>1, Invariant, PTL

(* Nothing that was taken for a query is answered twice, skipped or        *)
(* answered out of turn.                                                   *)
THEOREM RepliesAreInTurn == Spec => []NothingIsSkipped
<1>1. ASSUME IInv PROVE NothingIsSkipped
  <2>. SUFFICES ASSUME session = "open" PROVE NothingIsSkipped
    BY DEF NothingIsSkipped
  <2>1. /\ task # "ended"
        /\ \A i, j \in 1 .. Len(Chunks) : i < j =>
             \A a \in Chunks[i], b \in Chunks[j] : a < b
        /\ UNION {Chunks[i] : i \in 1 .. Len(Chunks)} = 1 .. taken
        /\ transport = "message" =>
             /\ \A n \in 1 .. Len(Chunks) : Chunks[n] = Whole(n)
             /\ \A n \in bad \cap 1 .. Len(got \o relay) : (got \o relay)[n].records = "none"
    BY <1>1 DEF IInv, Lookups, Turns, InTurn
  <2>. QED  BY <2>1, Zenon DEF Replied, Chunks, Asked, NothingIsSkipped
<1>. QED  BY <1>1, Invariant, PTL

(* For a session that is over the task starts a lookup at most, and the    *)
(* first answer nobody reads ends it.                                      *)
THEOREM BacklogIsNotWorkedOff == Spec => BacklogIsAbandoned
<1>. DEFINE Abandons == session # "open" /\ <<task, transmit>>' # <<task, transmit>> =>
                          task' = "ended" \/ (task = "waiting" /\ task' = "lookup")
<1>1. ASSUME [Next]_vars PROVE [Abandons]_vars
  BY <1>1 DEF Next, SessionNext, TaskNext, ClientAsks, Leave, SessionSends, SessionRelays,
     SessionDrops, TaskTakesQuery, LookupReturns, TaskSeesLeaseGone, Refuse, Answer, EndTask,
     EndSession, vars, channels
<1>. QED  BY <1>1, PTL DEF Spec, BacklogIsAbandoned
=============================================================================
