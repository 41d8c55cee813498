------------------------------ MODULE DnsProxy ------------------------------
(***************************************************************************)
(* A session with the lease of the DNS proxy, service/dnsproxy.rs: the     *)
(* queries of the client, the session that passes them on, the task that   *)
(* looks them up one at a time, and the replies on the relay channel.      *)
(*                                                                         *)
(* Query n is the pieces 2n - 1 and 2n of what the client writes.  On a    *)
(* WebSocket a query is a binary message; on a WebTransport stream the     *)
(* session takes whatever a read returns for one.  The lookup is the       *)
(* system's resolver: external, slow and able to fail.                     *)
(***************************************************************************)
EXTENDS Integers, Sequences, FiniteSets

CONSTANT Queries      \* bound on the queries the client sends

ASSUME DnsProxyAssumption == Queries \in Nat \ {0}

VARIABLES
  transport,   \* "message" or "stream"
  bad,         \* the queries that are none: no hostname, no type, trailing data
  written,     \* pieces written by the client
  taken,       \* pieces the session has taken
  session,     \* "open", "ended" without its relay_rx, "gone" with its lease
  transmit,    \* the channel of the lease
  task,        \* "waiting", "lookup" or "ended"
  query,       \* the query that is looked up
  relay,       \* the relay channel
  got          \* the replies the client was sent

client   == <<bad, written>>
channels == <<transmit, relay>>
vars == <<transport, client, taken, session, channels, task, query, got>>

Piece == 1 .. 2 * Queries
Whole(n) == {2 * n - 1, 2 * n}

(* What is taken for a query, and the reply to it: with a list of records, *)
(* or with none.                                                           *)
Chunk == (SUBSET Piece) \ {{}}
Reply == [to : Chunk, records : {"some", "none"}]
WakeUp == [to |-> {}, records |-> "none"]   \* the empty message

(* Everything has its type, and no wake-up is among the replies: an empty  *)
(* one would be written to the client as a reply without even a count.     *)
TypeOK ==
  /\ transport \in {"message", "stream"} /\ bad \subseteq 1 .. Queries
  /\ written \in 0 .. 2 * Queries /\ taken \in 0 .. written
  /\ session \in {"open", "ended", "gone"} /\ task \in {"waiting", "lookup", "ended"}
  /\ transmit \in Seq(Chunk) /\ query \in SUBSET Piece
  /\ relay \in Seq(Reply) /\ got \in Seq(Reply)

Init == /\ transport \in {"message", "stream"}
        /\ bad \in SUBSET (1 .. Queries)
        /\ written = 0 /\ taken = 0
        /\ session = "open"
        /\ transmit = <<>> /\ relay = <<>>
        /\ task = "waiting" /\ query = {}
        /\ got = <<>>

(* Some definitions are preceded by a variant of them with a mistake in    *)
(* it: the properties are tried on these as well.                          *)

-----------------------------------------------------------------------------
(* The client, and the session with the lease.                             *)

ClientAsks ==
  /\ session = "open" /\ written < 2 * Queries
  /\ written' = written + 2
  /\ UNCHANGED <<transport, bad, taken, session, channels, task, query, got>>

(* The session is over: relay_rx goes, the lease waits for the registry.   *)
EndSession == session' = "ended" /\ relay' = <<>>

Leave == /\ session = "open"
         /\ EndSession
         /\ UNCHANGED <<transport, client, taken, transmit, task, query, got>>

(* Keeps only the latest query.                                            *)
EnqueueLatest(chunk) == transmit' = <<chunk>>
Enqueue(chunk)       == transmit' = Append(transmit, chunk)

(* DNSProxyLease::send(), of a message or of what a read has returned; it  *)
(* fails when the task is gone, and the session with it.                   *)
SessionSends(k) ==
  /\ session = "open"
  /\ taken + k <= written
  /\ transport = "message" => k = 2
  /\ taken' = taken + k
  /\ IF task = "ended"
     THEN EndSession /\ UNCHANGED transmit
     ELSE Enqueue(taken + 1 .. taken + k) /\ UNCHANGED <<session, relay>>
  /\ UNCHANGED <<transport, client, task, query, got>>

(* The relay branch of the session's select loop.                          *)
SessionRelays ==
  /\ session = "open" /\ relay # <<>>
  /\ got' = Append(got, Head(relay))
  /\ relay' = Tail(relay)
  /\ UNCHANGED <<transport, client, taken, session, transmit, task, query>>

(* The runner is dropped, the lease with it, and transmit with the lease.  *)
SessionDrops ==
  /\ session = "ended"
  /\ session' = "gone"
  /\ UNCHANGED <<transport, client, taken, channels, task, query, got>>

-----------------------------------------------------------------------------
(* The task: run(), handle_query() and what into_lease() spawns.           *)

EndTask == task' = "ended" /\ transmit' = <<>>

(* Goes on with the next query although nobody reads the answers.          *)
AnswerAnyway(reply, rest) ==
  /\ query' = {} /\ task' = "waiting" /\ transmit' = rest
  /\ relay' = IF session = "open" THEN Append(relay, reply) ELSE relay

(* relay_tx.send(): when the session is over the task fails, its receiver  *)
(* is dropped and the wake-up is sent to nobody.                           *)
Answer(reply, rest) ==
  /\ query' = {}
  /\ IF session = "open"
     THEN task' = "waiting" /\ transmit' = rest /\ relay' = Append(relay, reply)
     ELSE EndTask /\ UNCHANGED relay

(* A bad query is an error of the task, which wakes the session up.        *)
RefuseAndEnd(chunk, rest) ==
  /\ EndTask
  /\ relay' = IF session = "open" THEN Append(relay, WakeUp) ELSE relay
  /\ UNCHANGED query

(* A bad query is dropped.                                                 *)
RefuseSilently(chunk, rest) == transmit' = rest /\ UNCHANGED <<task, query, relay>>

(* A bad query is answered as well.                                        *)
Refuse(chunk, rest) == Answer([to |-> chunk, records |-> "none"], rest)

(* parse_query(): a chunk that is not one whole query is bad as a rule, but *)
(* may pass for a query after another name or of another type.             *)
MayParse(chunk)  == \A n \in 1 .. Queries : chunk = Whole(n) => n \notin bad
MayBeBad(chunk)  == \A n \in 1 .. Queries : chunk = Whole(n) => n \in bad

TaskTakesQuery ==
  /\ task = "waiting" /\ transmit # <<>>
  /\ LET chunk == Head(transmit)
         rest  == Tail(transmit)
     IN  \/ /\ MayParse(chunk)
            /\ query' = chunk /\ task' = "lookup" /\ transmit' = rest
            /\ UNCHANGED relay
         \/ MayBeBad(chunk) /\ Refuse(chunk, rest)
  /\ UNCHANGED <<transport, client, taken, session, got>>

(* do_lookup() returns, with addresses or without.                         *)
LookupReturns ==
  /\ task = "lookup"
  /\ \E records \in {"some", "none"} :
       Answer([to |-> query, records |-> records], transmit)
  /\ UNCHANGED <<transport, client, taken, session, got>>

(* Takes a closed channel for an empty one.                                *)
TaskWaitsOn ==
  /\ task = "waiting" /\ transmit = <<>> /\ session = "gone"
  /\ UNCHANGED vars

(* The lease was dropped and the channel is empty.                         *)
TaskSeesLeaseGone ==
  /\ task = "waiting" /\ transmit = <<>> /\ session = "gone"
  /\ EndTask
  /\ UNCHANGED <<transport, client, taken, session, relay, query, got>>

SessionNext == \/ \E k \in Piece : SessionSends(k)
               \/ SessionRelays \/ SessionDrops

TaskNext == TaskTakesQuery \/ LookupReturns \/ TaskSeesLeaseGone

Next == ClientAsks \/ Leave \/ SessionNext \/ TaskNext

Spec == Init /\ [][Next]_vars

(* The session reads what has come and writes what is relayed, with a      *)
(* client that reads; the registry is free in turn; and the resolver gives *)
(* up by its own timeout if nothing else.                                  *)
Fairness == /\ WF_vars(\E k \in Piece : SessionSends(k))
            /\ WF_vars(SessionRelays)
            /\ WF_vars(SessionDrops)
            /\ WF_vars(TaskNext)

FairSpec == Spec /\ Fairness

-----------------------------------------------------------------------------
(* Nothing that was taken for a query is answered twice, skipped or        *)
(* answered out of turn, whatever became of those before it: replies, the  *)
(* lookup and the backlog are together what has been taken.  So on a       *)
(* WebSocket the n-th reply is to the n-th query, and one that is none gets *)
(* no records and does not cost the client its connection.                 *)
NothingIsSkipped ==
  session = "open" =>
    LET all     == got \o relay
        replied == [i \in 1 .. Len(all) |-> all[i].to]
        chunks  == replied \o (IF query = {} THEN <<>> ELSE <<query>>) \o transmit
    IN  /\ task # "ended"
        /\ \A i, j \in 1 .. Len(chunks) : i < j =>
             \A a \in chunks[i], b \in chunks[j] : a < b
        /\ UNION {chunks[i] : i \in 1 .. Len(chunks)} = 1 .. taken
        /\ transport = "message" =>
             /\ \A n \in 1 .. Len(chunks) : chunks[n] = Whole(n)
             /\ \A n \in bad \cap 1 .. Len(all) : all[n].records = "none"

(* Whoever waits for a reply gets one, as long as the session is open.     *)
EveryQueryIsAnswered ==
  \A n \in 1 .. Queries :
    (transport = "message" /\ written >= 2 * n)
      ~> (Len(got) >= n \/ session # "open")

(* A backlog of queries is not worked off for a session that is over: the  *)
(* first answer nobody reads ends the task.                                *)
BacklogIsAbandoned ==
  [][session # "open" /\ <<task, transmit>>' # <<task, transmit>> =>
       task' = "ended" \/ (task = "waiting" /\ task' = "lookup")]_vars

(* And the task does end, with or without a backlog or a lookup under way. *)
SessionOverEndsTask == session = "ended" ~> task = "ended"

(* What dnsproxy.rs says of every query: it gets a reply, and the reply is *)
(* to that query.                                                          *)
AnswersOneQuery == \A n \in 1 .. Len(got) : got[n].to = Whole(n)
=============================================================================
