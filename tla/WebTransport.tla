---------------------------- MODULE WebTransport ----------------------------
(***************************************************************************)
(* The session of a WebTransport client, webtransport/client.rs: commands  *)
(* and stream data on one bidirectional stream, cut into reads at any      *)
(* place, datagrams beside it, and the relay channel.                      *)
(*                                                                         *)
(* The client's stream is a sequence of words and newlines, all of it on   *)
(* its way from the start; BIND and PROXY stand for the bytes of a command *)
(* that succeeds, PING for the prefix of one without a lease.  Data are    *)
(* words and newlines as well, and must not be taken for commands.         *)
(* The service behind the lease is external: it relays numbered messages   *)
(* and, when the lease is a stream, may end with or without an error.      *)
(***************************************************************************)
EXTENDS Integers, SequencesExt

CONSTANTS
  Newline, PING, BIND, PROXY,   \* what the client's stream consists of
  MaxScript,    \* bound on the length of the client's stream
  MaxLine,      \* length of the longest command, 255 in the code
  MaxBuffer,    \* MAX_COMMAND_SIZE, of a command without its end
  MaxRelay      \* bound on what the service relays

ASSUME WebTransportAssumption ==
  /\ Newline \notin {PING, BIND, PROXY} /\ PING \notin {BIND, PROXY} /\ BIND # PROXY
  /\ MaxScript \in Nat /\ MaxRelay \in Nat
  /\ MaxLine \in Nat /\ MaxBuffer \in Nat /\ MaxLine < MaxBuffer

VARIABLES
  script,     \* the client's stream
  session,    \* "open", until handle_session returns
  phase,      \* what it is doing: "select", "parsing" or "responding"
  send,       \* does it have the sending half of a stream?
  recv,       \* the receiving half: "none", "open", "closed"
  pos,        \* how much of the script it has read
  cmdbuf,     \* bytes of commands not complete yet
  lease,      \* "none", or the kind of the lease: "udp", "stream"
  relay_tx,   \* who holds it: "session", "service", "dropped"
  live,       \* is_live() of the lease
  relay,      \* the relay channel
  relayed,    \* number of messages the service has sent on it
  executed,   \* the commands given to the CommandProcessor
  forwarded,  \* the stream data given to the lease
  stream,     \* what was written to the client's stream
  datagrams   \* what was sent to the client as datagrams

inputs  == <<script, send, recv, pos>>
outputs == <<executed, forwarded, stream, datagrams>>
service == <<relay_tx, live, relayed>>
vars == <<inputs, outputs, service, session, phase, cmdbuf, lease, relay>>

Symbol == {Newline, PING, BIND, PROXY}
Line   == Seq(Symbol \ {Newline})
WakeUp == <<>>                      \* an empty message
Message == {<<n>> : n \in 1 .. MaxRelay}

(* Everything has its type, and the command buffer is bounded whenever the *)
(* session waits, as handle_data promises.                                 *)
TypeOK ==
  /\ script \in Seq(Symbol) /\ Len(script) <= MaxScript
  /\ session \in {"open", "ended"}
  /\ phase \in {"select", "parsing", "responding"}
  /\ send \in BOOLEAN /\ recv \in {"none", "open", "closed"}
  /\ pos \in 0 .. Len(script)
  /\ cmdbuf \in Seq(Symbol) /\ (phase = "select" => Len(cmdbuf) < MaxBuffer)
  /\ lease \in {"none", "udp", "stream"}
  /\ relay_tx \in {"session", "service", "dropped"} /\ live \in BOOLEAN
  /\ relay \in Seq(Message \cup {WakeUp}) /\ relayed \in 0 .. MaxRelay
  /\ executed \in Seq(Line) /\ forwarded \in Seq(Symbol)
  /\ stream \in Seq(Line \cup Message) /\ datagrams \in Seq(Message)

Init == /\ \E n \in 0 .. MaxScript : script \in [1 .. n -> Symbol]
        /\ session = "open" /\ phase = "select"
        /\ send = FALSE /\ recv = "none" /\ pos = 0
        /\ cmdbuf = <<>> /\ lease = "none"
        /\ relay_tx = "session" /\ live = FALSE
        /\ relay = <<>> /\ relayed = 0
        /\ executed = <<>> /\ forwarded = <<>>
        /\ stream = <<>> /\ datagrams = <<>>

(* handle_session returns with an error, as it always does in the end.     *)
End == session' = "ended" /\ phase' = "select" /\ cmdbuf' = <<>> /\ relay' = <<>>

Selects == session = "open" /\ phase = "select"

-----------------------------------------------------------------------------
(* Some definitions are preceded by a variant of them with a mistake in    *)
(* it: the properties are tried on these as well.                          *)

(* The stream of the client: exactly one, and no unidirectional one.       *)
OpenStream ==
  /\ Selects
  /\ IF send \/ recv # "none"
     THEN End /\ UNCHANGED <<send, recv>>
     ELSE /\ send' = TRUE /\ recv' = "open"
          /\ UNCHANGED <<session, phase, cmdbuf, relay>>
  /\ UNCHANGED <<script, pos, outputs, service, lease>>

(* A unidirectional stream, the connection gone, a write to the stream     *)
(* that fails, or a relayed datagram too large for the connection.         *)
Leave == /\ session = "open" /\ phase # "parsing"
         /\ End
         /\ UNCHANGED <<inputs, outputs, service, lease>>

(* The client has finished its side: the stream is not polled any more.    *)
StreamFinished ==
  /\ Selects /\ recv = "open" /\ pos = Len(script)
  /\ recv' = "closed"
  /\ UNCHANGED <<script, send, pos, outputs, service, session, phase, cmdbuf, lease, relay>>

(* relay_stream(): a bound link has no stream data, and a dead lease       *)
(* refuses it; nothing at all is always right.                             *)
RelayStream(data) ==
  IF data = <<>>
  THEN UNCHANGED <<forwarded, session, phase, cmdbuf, relay>>
  ELSE IF lease = "udp" \/ ~live
       THEN End /\ UNCHANGED forwarded
       ELSE /\ forwarded' = forwarded \o data
            /\ UNCHANGED <<session, phase, cmdbuf, relay>>

(* handle_data(), up to its loop.                                          *)
ReadChunk(k) ==
  LET data == SubSeq(script, pos + 1, pos + k)
  IN  /\ Selects /\ recv = "open" /\ pos + k <= Len(script)
      /\ pos' = pos + k
      /\ IF lease # "none"
         THEN RelayStream(data)
         ELSE /\ cmdbuf' = cmdbuf \o data
              /\ phase' = "parsing"
              /\ UNCHANGED <<forwarded, session, relay>>
      /\ UNCHANGED <<script, send, recv, executed, stream, datagrams, service, lease>>

HasLine == \E i \in 1 .. Len(cmdbuf) : cmdbuf[i] = Newline
LineEnd == CHOOSE i \in 1 .. Len(cmdbuf) :
             cmdbuf[i] = Newline /\ \A j \in 1 .. i - 1 : cmdbuf[j] # Newline

(* Keeps the newline of the command it has taken.                          *)
AfterLineKept == SubSeq(cmdbuf, LineEnd, Len(cmdbuf))
AfterLine     == SubSeq(cmdbuf, LineEnd + 1, Len(cmdbuf))

(* PING takes anything behind it, the others stand for themselves.         *)
IsCommand(line) ==
  Len(line) \in 1 .. MaxLine /\ (Head(line) = PING \/ Tail(line) = <<>>)

(* One command: the CommandProcessor, and the lease if there is a new one. *)
(* A line that is no command, the empty one among them, is an error.       *)
ExecuteLine ==
  /\ session = "open" /\ phase = "parsing" /\ HasLine
  /\ LET line == SubSeq(cmdbuf, 1, LineEnd - 1)
     IN  IF IsCommand(line)
         THEN /\ executed' = Append(executed, line)
              /\ cmdbuf' = AfterLine
              /\ phase' = "responding"
              /\ IF Head(line) = PING
                 THEN UNCHANGED <<lease, live, relay_tx>>
                 ELSE /\ lease' = IF Head(line) = BIND THEN "udp" ELSE "stream"
                      /\ live' = TRUE /\ relay_tx' = "service"
              /\ UNCHANGED <<session, relay>>
         ELSE End /\ UNCHANGED <<executed, lease, live, relay_tx>>
  /\ UNCHANGED <<inputs, forwarded, stream, datagrams, relayed>>

(* One byte late.                                                          *)
TooLongLate == Len(cmdbuf) > MaxBuffer
TooLong     == Len(cmdbuf) >= MaxBuffer

(* The rest of a command is still to come, if it is not too long already.  *)
WaitForRest ==
  /\ session = "open" /\ phase = "parsing" /\ ~HasLine
  /\ IF TooLong
     THEN End
     ELSE phase' = "select" /\ UNCHANGED <<session, cmdbuf, relay>>
  /\ UNCHANGED <<inputs, outputs, service, lease>>

(* Waits for the client after every command.                               *)
RespondAndWait ==
  /\ session = "open" /\ phase = "responding"
  /\ stream' = Append(stream, Last(executed))
  /\ phase' = "select"
  /\ UNCHANGED <<inputs, executed, forwarded, datagrams, service, session, cmdbuf,
                 lease, relay>>

(* The response is written.  Without a lease the loop looks for the next   *)
(* command; with one whatever is left is data.                             *)
Respond ==
  /\ session = "open" /\ phase = "responding"
  /\ stream' = Append(stream, Last(executed))
  /\ IF lease = "none"
     THEN phase' = "parsing" /\ UNCHANGED <<session, cmdbuf, relay, forwarded>>
     ELSE IF cmdbuf # <<>> /\ (lease = "udp" \/ ~live)
          THEN End /\ UNCHANGED forwarded
          ELSE /\ forwarded' = forwarded \o cmdbuf
               /\ cmdbuf' = <<>>
               /\ phase' = "select"
               /\ UNCHANGED <<session, relay>>
  /\ UNCHANGED <<inputs, executed, datagrams, service, lease>>

(* handle_datagram(): dropped without a lease, an error on a stream lease  *)
(* and, on a bound link, the lease's; a bad frame is an error there too.   *)
Datagram ==
  /\ Selects
  /\ \/ lease # "none" /\ End
     \/ lease # "stream" /\ UNCHANGED <<session, phase, cmdbuf, relay>>
  /\ UNCHANGED <<inputs, outputs, service, lease>>

-----------------------------------------------------------------------------
(* handle_relay().                                                         *)

(* Writes to the stream what a bound link should send as datagrams.        *)
WriteToStream(m) == stream' = Append(stream, m) /\ UNCHANGED datagrams

Write(m) == IF lease = "udp"
            THEN datagrams' = Append(datagrams, m) /\ UNCHANGED stream
            ELSE stream' = Append(stream, m) /\ UNCHANGED datagrams

RelayRecv ==
  /\ Selects /\ relay # <<>>
  /\ IF Head(relay) = WakeUp
     THEN /\ IF live THEN relay' = Tail(relay) /\ UNCHANGED <<session, phase, cmdbuf>>
                     ELSE End
          /\ UNCHANGED <<stream, datagrams>>
     ELSE /\ Write(Head(relay))
          /\ relay' = Tail(relay)
          /\ UNCHANGED <<session, phase, cmdbuf>>
  /\ UNCHANGED <<inputs, executed, forwarded, service, lease>>

RelayClosed ==
  /\ Selects /\ relay = <<>> /\ relay_tx = "dropped"
  /\ End
  /\ UNCHANGED <<inputs, outputs, service, lease>>

(* The service: a bound port lives as long as its lease, a task may end.   *)
ServiceRelays ==
  /\ session = "open" /\ relay_tx = "service" /\ live /\ relayed < MaxRelay
  /\ relayed' = relayed + 1
  /\ relay' = Append(relay, <<relayed + 1>>)
  /\ UNCHANGED <<inputs, outputs, relay_tx, live, session, phase, cmdbuf, lease>>

(* The task of a stream lease returns: its receiver is gone first,         *)
(* its sender after the wake-up that follows an error.                     *)
ServiceEnds ==
  /\ session = "open" /\ relay_tx = "service" /\ lease = "stream" /\ live
  /\ live' = FALSE
  /\ UNCHANGED <<inputs, outputs, relay_tx, relayed, session, phase, cmdbuf, lease, relay>>

ServiceDropsRelay ==
  /\ session = "open" /\ relay_tx = "service" /\ ~live
  /\ relay_tx' = "dropped"
  /\ relay' \in {relay, Append(relay, WakeUp)}
  /\ UNCHANGED <<inputs, outputs, live, relayed, session, phase, cmdbuf, lease>>

Next == \/ OpenStream \/ Leave \/ StreamFinished
        \/ \E k \in 1 .. MaxScript : ReadChunk(k)
        \/ ExecuteLine \/ WaitForRest \/ Respond
        \/ Datagram
        \/ RelayRecv  \/ RelayClosed
        \/ ServiceRelays \/ ServiceEnds \/ ServiceDropsRelay

Spec == Init /\ [][Next]_vars

(* What has arrived is read, and what is read is worked off while the      *)
(* client reads its responses.                                             *)
Fairness == /\ WF_vars(\E k \in 1 .. MaxScript : ReadChunk(k))
            /\ WF_vars(ExecuteLine \/ WaitForRest)
            /\ WF_vars(Respond)

FairSpec == Spec /\ Fairness

-----------------------------------------------------------------------------
(* The meaning of a stream, without reads and buffers: its lines up to the *)
(* first that is no command or that makes a lease are the commands, and    *)
(* what follows a line that makes a lease is data.                         *)
Newlines(s)      == {p \in 1 .. Len(s) : s[p] = Newline}
NewlinesTo(s, p) == {q \in Newlines(s) : q <= p}

(* The end of the i-th line, and the line.                                 *)
EndOf(s, i)  == IF i = 0
                THEN 0
                ELSE CHOOSE p \in Newlines(s) : Cardinality(NewlinesTo(s, p)) = i
LineAt(s, i) == SubSeq(s, EndOf(s, i - 1) + 1, EndOf(s, i) - 1)

MakesLease(line) == line \in {<<BIND>>, <<PROXY>>}

CommandLines(s) ==
  {i \in 1 .. Cardinality(Newlines(s)) :
     /\ IsCommand(LineAt(s, i))
     /\ \A j \in 1 .. i - 1 : IsCommand(LineAt(s, j)) /\ ~MakesLease(LineAt(s, j))}

Commands(s) == [i \in 1 .. Cardinality(CommandLines(s)) |-> LineAt(s, i)]

Data(s) ==
  IF Commands(s) # <<>> /\ Last(Commands(s)) = <<PROXY>>
  THEN SubSeq(s, EndOf(s, Len(Commands(s))) + 1, Len(s))
  ELSE <<>>

(* Wherever the stream is cut, the session executes the commands in it and *)
(* forwards its data, in order: it never takes data for a command, nor a   *)
(* command for data, and joins what was cut.                               *)
CutsDoNotMatter ==
  IsPrefix(executed, Commands(script)) /\ IsPrefix(forwarded, Data(script))

(* The client reads on its stream the responses to its commands and then,  *)
(* on a stream lease only, what the service relays; on a bound link        *)
(* everything relayed is a datagram.  Either way in order and without gaps.*)
StreamIsResponsesThenData ==
  LET messages == [i \in 1 .. MaxRelay |-> <<i>>]
  IN  /\ IsPrefix(datagrams, messages)
      /\ IF lease = "stream"
         THEN IsPrefix(stream, executed \o messages) /\ datagrams = <<>>
         ELSE IsPrefix(stream, executed)

(* No command and no data stay behind in the buffer: an open session works *)
(* off all that has been sent to it, also when one read held several       *)
(* commands, or the command that makes the lease and the first data.       *)
AllIsWorkedOff ==
  send ~> (session = "ended" \/ (executed = Commands(script) /\ forwarded = Data(script)))
=============================================================================
