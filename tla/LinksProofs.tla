---------------------------- MODULE LinksProofs ----------------------------
(***************************************************************************)
(* Proofs about sessions with bound links, for any sets of sessions of     *)
(* either kind, addresses, passcodes, ports and families, any TTL and      *)
(* channels of any length.                                                 *)
(*                                                                         *)
(* A fact of two parties is never inductive alone: that a port is given up *)
(* by who holds it needs that nobody else holds it, that traffic reaches   *)
(* its port needs that the route's owner still holds it.  IInv says for    *)
(* each session what its phase knows of its relay, lease, queue and task,  *)
(* and joins the sessions through the handlers and the registry.           *)
(***************************************************************************)
EXTENDS Links, SequenceTheorems, TLAPS

NetOK == Net!TypeOK /\ Net!RoutesMatchHandlers

Holds(s) == lease[s] \cup pending[s]

(* What a session knows by where its task is.                              *)
SessionOK(s) ==
  /\ \A h \in Holds(s) : h.relay = s
  /\ pc[s] # "replying" => pending[s] = {}
  /\ pending[s] # {} => lease[s] = {}
  /\ pc[s] \in {"idle", "handshake", "gone"} => lease[s] = {}
  /\ pc[s] \in {"idle", "handshake"} => bound[s] = {}
  /\ RelayOpen(s) => /\ bound[s] = {h.key : h \in Holds(s)}
                     /\ relay_tx[s] <=> Holds(s) = {}
  /\ ~RelayOpen(s) => queue[s] = <<>>
  /\ pc[s] = "replying" /\ Holds(s) # {} => answer[s] = {"BIND OK"}
  /\ pc[s] = "open" /\ Holds(s) # {} => wire[s] \in {"BIND OK", "frame"}

HandlersHeld ==
  /\ \A h \in handlers : h \in Holds(h.relay)
  /\ \A s \in Session : Holds(s) \subseteq handlers

Registered(s) == pc[s] \in Phase \ {"idle", "removed", "gone"}

RegistryOK ==
  /\ SessionsRegistered
  /\ next_id > 0
  /\ \A s \in Session : id[s] < next_id /\ (pc[s] # "idle" => id[s] # 0)

IInv == /\ TypeOK
        /\ Net!RoutesMatchHandlers
        /\ HandlersHeld
        /\ \A s \in Session : SessionOK(s)
        /\ OnlyOwnTraffic
        /\ RegistryOK

-----------------------------------------------------------------------------
(* What the steps of the network do, as far as the sessions are concerned. *)

(* assign() has nothing to do with what is bound.                          *)
LEMMA AssignNet ==
  ASSUME NetOK, NEW a \in Address, NEW p \in Passcode, Net!Assign(a, p)
  PROVE  NetOK' /\ UNCHANGED <<routes, handlers>>
<1>. DEFINE keptA == DOMAIN by_address \ Net!Stale
            keptP == DOMAIN by_passcode \ Net!StalePasscodes
            entry == [passcode |-> p, binds |-> 0, touched |-> now]
<1>1. entry \in Net!Assignment
  BY DEF NetOK, Net!TypeOK, Net!Assignment
<1>2. Net!IsMap(by_address', Address, Net!Assignment)
  <2>1. by_address' = [x \in keptA \cup {a} |-> IF x = a THEN entry ELSE by_address[x]]
    BY DEF Net!Assign, Net!Insert, Net!Restrict
  <2>. QED  BY <1>1, <2>1 DEF NetOK, Net!TypeOK, Net!IsMap
<1>3. Net!IsMap(by_passcode', Passcode, Address)
  <2>1. by_passcode' = [x \in keptP \cup {p} |-> IF x = p THEN a ELSE by_passcode[x]]
    BY DEF Net!Assign, Net!Insert, Net!Restrict
  <2>. QED  BY <2>1 DEF NetOK, Net!TypeOK, Net!IsMap
<1>. QED
  BY <1>2, <1>3 DEF Net!Assign, NetOK, Net!TypeOK, Net!RoutesMatchHandlers

(* bind() makes one handler, new and the session's.                        *)
LEMMA BindNet ==
  ASSUME NetOK, NEW s \in Session, NEW p \in Passcode, NEW n \in Port, Net!Bind(s, p, n)
  PROVE  /\ NetOK'
         /\ \E h \in Net!Handler : /\ h.relay = s /\ h \notin handlers
                                   /\ handlers' = handlers \cup {h}
<1>. DEFINE a   == by_passcode[p]
            key == <<a, n>>
            h   == [key |-> key, relay |-> s]
<1>1. a \in Address /\ a \in DOMAIN by_address /\ key \notin DOMAIN routes /\ key \in RouteKey
  BY DEF Net!Bind, Net!CanBind, NetOK, Net!TypeOK, Net!IsMap, RouteKey, Net!RouteKey
<1>2. h \in Net!Handler /\ h.relay = s /\ h.key = key
  BY <1>1 DEF Net!Handler, RouteKey
<1>3. h \notin handlers
  BY <1>1, <1>2 DEF NetOK, Net!RoutesMatchHandlers
<1>4. handlers' = handlers \cup {h}
  BY DEF Net!Bind
<1>5. routes' = [k \in DOMAIN routes \cup {key} |-> IF k = key THEN s ELSE routes[k]]
  BY DEF Net!Bind, Net!Insert
<1>6. Net!TypeOK'
  <2>1. Net!IsMap(by_address', Address, Net!Assignment)
    BY <1>1, LinksAssumption DEF Net!Bind, NetOK, Net!TypeOK, Net!IsMap, Net!Assignment
  <2>2. Net!IsMap(routes', Net!RouteKey, Session)
    BY <1>1, <1>5 DEF NetOK, Net!TypeOK, Net!IsMap, RouteKey
  <2>. QED  BY <1>2, <1>4, <2>1, <2>2 DEF Net!Bind, NetOK, Net!TypeOK
<1>7. Net!RoutesMatchHandlers'
  BY <1>1, <1>2, <1>4, <1>5 DEF NetOK, Net!RoutesMatchHandlers
<1>. QED  BY <1>2, <1>3, <1>4, <1>6, <1>7 DEF NetOK

(* The drop of a lease removes its handler, and the route of no other.     *)
LEMMA DropLeaseNet ==
  ASSUME NetOK, NEW option \in SUBSET handlers,
         \A g, h \in option : g = h, DropLease(option)
  PROVE  NetOK' /\ handlers' = handlers \ option
<1>1. CASE option = {}
  BY <1>1 DEF DropLease, netVars, NetOK, Net!TypeOK, Net!RoutesMatchHandlers,
              Net!IsMap
<1>2. CASE option # {}
  <2>1. PICK h \in option : Net!Unbind(h)
    BY <1>2 DEF DropLease
  <2>2. option = {h} /\ h \in handlers /\ h \in Net!Handler
    BY <2>1 DEF NetOK, Net!TypeOK
  <2>3. handlers' = handlers \ {h}
    BY <2>1 DEF Net!Unbind
  <2>4. routes' = [k \in DOMAIN routes \ {h.key} |-> routes[k]]
    BY <2>1 DEF Net!Unbind, Net!Restrict
  <2>5. \A g \in handlers : g.key = h.key => g = h
    BY <2>2 DEF NetOK, Net!TypeOK, Net!Handler, Net!RoutesMatchHandlers
  <2>6. Net!TypeOK'
    <3>1. Net!IsMap(by_address', Address, Net!Assignment)
      BY <2>1, <2>2 DEF Net!Unbind, Net!SaturatingSub, NetOK, Net!TypeOK, Net!IsMap,
                        Net!Assignment
    <3>2. Net!IsMap(routes', Net!RouteKey, Session)
      BY <2>4 DEF NetOK, Net!TypeOK, Net!IsMap
    <3>. QED  BY <2>1, <2>3, <3>1, <3>2 DEF Net!Unbind, NetOK, Net!TypeOK
  <2>7. Net!RoutesMatchHandlers'
    BY <2>2, <2>3, <2>4, <2>5 DEF NetOK, Net!RoutesMatchHandlers, Net!Handler, Net!TypeOK
  <2>. QED  BY <2>2, <2>3, <2>6, <2>7 DEF NetOK
<1>. QED  BY <1>1, <1>2

-----------------------------------------------------------------------------
(* What the parts of IInv need of a step.                                  *)

(* A step of others is nothing to a session whose own state it leaves.     *)
LEMMA Elsewhere ==
  ASSUME NEW t \in Session, SessionOK(t),
         pc'[t] = pc[t], relay_tx'[t] = relay_tx[t], answer'[t] = answer[t],
         pending'[t] = pending[t], lease'[t] = lease[t], queue'[t] = queue[t],
         wire'[t] = wire[t], bound'[t] = bound[t]
  PROVE  SessionOK(t)'
BY DEF SessionOK, Holds, RelayOpen

(* All that a session on its way out has left is its lease.                *)
LEMMA OnItsWayOut ==
  ASSUME NEW s \in Session, \A h \in Holds(s)' : h.relay = s,
         pc'[s] \in {"ended", "removed", "gone"}, pending'[s] = {}, queue'[s] = <<>>,
         pc'[s] = "gone" => lease'[s] = {}
  PROVE  SessionOK(s)'
BY DEF SessionOK, RelayOpen

(* A session stays registered as long as it stays between new_client() and *)
(* remove_client().                                                        *)
LEMMA StaysRegistered ==
  ASSUME TypeOK, RegistryOK, UNCHANGED registry, NEW s \in Session, NEW q \in Phase,
         Goto(s, q), Registered(s), q \notin {"idle", "removed", "gone"}
  PROVE  RegistryOK'
<1>1. \A t \in Session : Registered(t)' <=> Registered(t)
  BY DEF Goto, TypeOK, Registered
<1>2. clients' = clients /\ next_id' = next_id /\ id' = id
  BY DEF registry
<1>3. SessionsRegistered'
  BY <1>1, <1>2 DEF RegistryOK, SessionsRegistered, Registered
<1>4. \A t \in Session : pc'[t] # "idle" => id[t] # 0
  BY DEF Goto, TypeOK, RegistryOK, Registered
<1>. QED  BY <1>2, <1>3, <1>4 DEF RegistryOK

(* A step that neither grants nor drops keeps what joins the sessions.     *)
LEMMA HoldsKept ==
  ASSUME IInv, UNCHANGED <<routes, handlers>>, \A t \in Session : Holds(t)' = Holds(t),
         TypeOK', \A t \in Session : SessionOK(t)', RegistryOK',
         \A t \in Session : \A i \in 1 .. Len(queue'[t]) :
           queue'[t][i].to \in {h.key : h \in Holds(t)}
  PROVE  IInv'
<1>1. Net!RoutesMatchHandlers'
  BY DEF IInv, Net!RoutesMatchHandlers
<1>2. HandlersHeld'
  <2>1. \A h \in handlers : h.relay \in Session
    BY DEF IInv, TypeOK, Net!TypeOK, Net!Handler
  <2>. QED  BY <2>1 DEF IInv, HandlersHeld
<1>3. OnlyOwnTraffic'
  BY DEF OnlyOwnTraffic, Holds
<1>. QED  BY <1>1, <1>2, <1>3 DEF IInv

(* A step that drops some of what one session holds, and its queue.        *)
LEMMA HoldsDropped ==
  ASSUME IInv, NEW s \in Session, NEW option \in SUBSET Holds(s),
         NetOK', handlers' = handlers \ option, Holds(s)' = Holds(s) \ option,
         queue'[s] = <<>>,
         \A t \in Session \ {s} : Holds(t)' = Holds(t) /\ queue'[t] = queue[t],
         TypeOK', \A t \in Session : SessionOK(t)', RegistryOK'
  PROVE  IInv'
<1>1. \A t \in Session : \A h \in Holds(t) : h.relay = t
  BY DEF IInv, SessionOK
<1>2. HandlersHeld'
  <2>1. \A h \in handlers : h.relay \in Session /\ h \in Holds(h.relay)
    BY DEF IInv, HandlersHeld, TypeOK, Net!TypeOK, Net!Handler
  <2>2. \A h \in handlers' : h \in Holds(h.relay)'
    BY <2>1
  <2>3. \A t \in Session : Holds(t)' \subseteq handlers'
    BY <1>1 DEF IInv, HandlersHeld
  <2>. QED  BY <2>2, <2>3 DEF HandlersHeld
<1>3. OnlyOwnTraffic'
  <2>. SUFFICES ASSUME NEW t \in Session, NEW i \in 1 .. Len(queue'[t])
                PROVE  queue'[t][i].to \in {h.key : h \in Holds(t)'}
    BY DEF OnlyOwnTraffic, Holds
  <2>1. t # s
    OBVIOUS
  <2>. QED  BY <2>1 DEF IInv, OnlyOwnTraffic, Holds
<1>. QED  BY <1>2, <1>3 DEF IInv, NetOK

(* new_client() gives an id that nobody has had.                           *)
LEMMA NewClientRegisters ==
  ASSUME TypeOK, RegistryOK, NEW s \in Session, pc[s] = "idle", NewClient(s),
         NEW q \in {"handshake", "open"}, Goto(s, q)
  PROVE  RegistryOK'
<1>1. /\ id' = [id EXCEPT ![s] = next_id] /\ next_id' = next_id + 1
      /\ clients' = clients \cup {next_id}
      /\ next_id \in Nat /\ next_id > 0 /\ id \in [Session -> Nat]
  BY DEF NewClient, TypeOK, RegistryOK
<1>2. \A t \in Session : /\ Registered(t)' <=> Registered(t) \/ t = s
                         /\ t # s => id'[t] = id[t] /\ pc'[t] = pc[t]
  BY <1>1 DEF Goto, TypeOK, Registered, Phase
<1>3. id'[s] = next_id /\ pc'[s] = q /\ ~Registered(s)
  BY <1>1 DEF Goto, TypeOK, Registered, Phase
<1>4. clients' = {id'[t] : t \in {u \in Session : Registered(u)'}}
  <2>1. clients = {id[t] : t \in {u \in Session : Registered(u)}}
    BY DEF RegistryOK, SessionsRegistered, Registered
  <2>. QED  BY <1>1, <1>2, <1>3, <2>1
<1>5. \A t, u \in Session : id'[t] = id'[u] => t = u \/ id'[t] = 0
  BY <1>1, <1>2, <1>3 DEF RegistryOK, SessionsRegistered
<1>6. \A t \in Session : id'[t] < next_id' /\ (pc'[t] # "idle" => id'[t] # 0)
  BY <1>1, <1>2, <1>3 DEF RegistryOK
<1>7. SessionsRegistered'
  BY <1>4, <1>5 DEF SessionsRegistered, Registered
<1>. QED  BY <1>1, <1>6, <1>7 DEF RegistryOK

-----------------------------------------------------------------------------
(* The life of a session.                                                  *)

LEMMA AcceptInv == ASSUME IInv, NEW s \in Session, Accept(s) PROVE IInv'
<1>1. TypeOK'
  BY DEF IInv, TypeOK, Accept, NewClient, Goto, Phase, netVars, commandVars, taskVars,
         Net!TypeOK
<1>2. RegistryOK'
  BY NewClientRegisters DEF IInv, Accept
<1>3. ASSUME NEW t \in Session PROVE SessionOK(t)'
  <2>1. CASE t = s
    BY <2>1 DEF IInv, TypeOK, Accept, Goto, SessionOK, Holds, RelayOpen, netVars,
                commandVars, taskVars
  <2>2. CASE t # s
    BY <2>2, Elsewhere DEF IInv, TypeOK, Accept, Goto, commandVars, taskVars
  <2>. QED  BY <2>1, <2>2
<1>4. queue' = queue
  BY DEF Accept
<1>. QED
  BY <1>1, <1>2, <1>3, <1>4, HoldsKept DEF Accept, commandVars, netVars, IInv, OnlyOwnTraffic, Holds

LEMMA AcceptRequestInv == ASSUME IInv, NEW s \in Session, AcceptRequest(s) PROVE IInv'
<1>1. TypeOK'
  BY DEF IInv, TypeOK, AcceptRequest, NewClient, Goto, Phase, netVars, taskVars, Net!TypeOK
<1>2. RegistryOK'
  BY NewClientRegisters DEF IInv, AcceptRequest
<1>3. ASSUME NEW t \in Session PROVE SessionOK(t)'
  <2>1. CASE t = s
    <3>1. Holds(s) = {} /\ bound[s] = {} /\ queue[s] = <<>>
      BY DEF IInv, AcceptRequest, SessionOK, Holds, RelayOpen
    <3>2. pc'[s] = "open" /\ relay_tx'[s] = TRUE /\ Holds(s)' = {}
      BY <3>1 DEF IInv, TypeOK, AcceptRequest, Goto, Holds
    <3>. QED  BY <2>1, <3>1, <3>2 DEF AcceptRequest, SessionOK, Holds, RelayOpen, taskVars
  <2>2. CASE t # s
    BY <2>2, Elsewhere DEF IInv, TypeOK, AcceptRequest, Goto, taskVars
  <2>. QED  BY <2>1, <2>2
<1>. QED
  BY <1>1, <1>2, <1>3, HoldsKept DEF AcceptRequest, netVars, IInv, OnlyOwnTraffic, Holds

LEMMA HandshakeOkInv == ASSUME IInv, NEW s \in Session, HandshakeOk(s) PROVE IInv'
<1>1. TypeOK'
  BY DEF IInv, TypeOK, HandshakeOk, Goto, Phase, netVars, registry, taskVars, Net!TypeOK
<1>2. RegistryOK'
  BY StaysRegistered DEF IInv, HandshakeOk, Registered, Phase
<1>3. ASSUME NEW t \in Session PROVE SessionOK(t)'
  <2>1. CASE t = s
    <3>1. Holds(s) = {} /\ bound[s] = {} /\ queue[s] = <<>>
      BY DEF IInv, HandshakeOk, SessionOK, Holds, RelayOpen
    <3>2. pc'[s] = "open" /\ relay_tx'[s] = TRUE /\ Holds(s)' = {}
      BY <3>1 DEF IInv, TypeOK, HandshakeOk, Goto, Holds
    <3>. QED  BY <2>1, <3>1, <3>2 DEF HandshakeOk, SessionOK, Holds, RelayOpen, taskVars
  <2>2. CASE t # s
    BY <2>2, Elsewhere DEF IInv, TypeOK, HandshakeOk, Goto, taskVars
  <2>. QED  BY <2>1, <2>2
<1>. QED
  BY <1>1, <1>2, <1>3, HoldsKept DEF HandshakeOk, netVars, IInv, OnlyOwnTraffic, Holds

(* The end of a session that has nothing but perhaps a lease.              *)
LEMMA EndInv ==
  ASSUME IInv, NEW s \in Session, pc[s] \in {"handshake", "open"}, End(s),
         UNCHANGED <<netVars, registry, commandVars, taskVars>>
  PROVE  IInv'
<1>1. TypeOK'
  BY DEF IInv, TypeOK, End, Goto, Phase, netVars, registry, commandVars, taskVars, Net!TypeOK
<1>2. RegistryOK'
  BY StaysRegistered DEF IInv, End, Registered, Phase
<1>3. ASSUME NEW t \in Session PROVE SessionOK(t)'
  <2>1. CASE t = s
    <3>1. pending[s] = {} /\ \A h \in Holds(s) : h.relay = s
      BY DEF IInv, SessionOK
    <3>2. pc'[s] = "ended" /\ queue'[s] = <<>> /\ pending'[s] = {} /\ Holds(s)' = Holds(s)
      BY <3>1 DEF IInv, TypeOK, End, Goto, Holds, commandVars
    <3>. QED  BY <2>1, <3>1, <3>2, OnItsWayOut
  <2>2. CASE t # s
    BY <2>2, Elsewhere DEF IInv, TypeOK, End, Goto, commandVars, taskVars
  <2>. QED  BY <2>1, <2>2
<1>4. \A t \in Session : Holds(t)' = Holds(t)
  BY DEF commandVars, Holds
<1>5. ASSUME NEW t \in Session, NEW i \in 1 .. Len(queue'[t])
      PROVE  queue'[t][i].to \in {h.key : h \in Holds(t)}
  BY DEF End, IInv, TypeOK, OnlyOwnTraffic, Holds
<1>. QED  BY <1>1, <1>2, <1>3, <1>4, <1>5, HoldsKept DEF netVars

LEMMA HandshakeFailsInv == ASSUME IInv, NEW s \in Session, HandshakeFails(s) PROVE IInv'
BY EndInv DEF HandshakeFails

LEMMA LeaveInv == ASSUME IInv, NEW s \in Session, Leave(s) PROVE IInv'
BY EndInv DEF Leave

(* remove_client() takes the one id that is the session's.                 *)
LEMMA RemoveInv == ASSUME IInv, NEW s \in Session, Remove(s) PROVE IInv'
<1>1. TypeOK'
  BY DEF IInv, TypeOK, Remove, Goto, Phase, netVars, commandVars, taskVars, Net!TypeOK
<1>2. RegistryOK'
  <2>1. /\ id' = id /\ next_id' = next_id /\ clients' = clients \ {id[s]}
        /\ id[s] # 0
    BY DEF Remove, IInv, RegistryOK
  <2>2. \A t \in Session : /\ Registered(t)' <=> Registered(t) /\ t # s
                           /\ pc'[t] # "idle" => pc[t] # "idle"
    BY DEF Remove, Goto, IInv, TypeOK, Registered, Phase
  <2>3. clients' = {id[t] : t \in {u \in Session : Registered(u)'}}
    <3>1. clients = {id[t] : t \in {u \in Session : Registered(u)}}
      BY DEF IInv, RegistryOK, SessionsRegistered, Registered
    <3>2. \A t \in Session : id[t] = id[s] => t = s
      BY <2>1 DEF IInv, RegistryOK, SessionsRegistered
    <3>. QED  BY <2>1, <2>2, <3>1, <3>2
  <2>4. SessionsRegistered'
    BY <2>1, <2>3 DEF IInv, RegistryOK, SessionsRegistered, Registered
  <2>. QED  BY <2>1, <2>2, <2>4 DEF IInv, RegistryOK
<1>3. ASSUME NEW t \in Session PROVE SessionOK(t)'
  <2>1. CASE t = s
    <3>1. pending[s] = {} /\ queue[s] = <<>> /\ \A h \in Holds(s) : h.relay = s
      BY DEF IInv, SessionOK, Remove, RelayOpen
    <3>2. pc'[s] = "removed" /\ queue' = queue /\ pending' = pending /\ Holds(s)' = Holds(s)
      BY DEF IInv, TypeOK, Remove, Goto, Holds, commandVars
    <3>. QED  BY <2>1, <3>1, <3>2, OnItsWayOut
  <2>2. CASE t # s
    BY <2>2, Elsewhere DEF IInv, TypeOK, Remove, Goto, commandVars, taskVars
  <2>. QED  BY <2>1, <2>2
<1>. QED
  BY <1>1, <1>2, <1>3, HoldsKept DEF Remove, netVars, commandVars, IInv, OnlyOwnTraffic, Holds

(* The task is over: what it holds is given up, and nobody else's.         *)
LEMMA DropInv == ASSUME IInv, NEW s \in Session, Drop(s) PROVE IInv'
<1>1. /\ pending[s] = {} /\ queue[s] = <<>> /\ Holds(s) = lease[s]
      /\ lease[s] \subseteq handlers /\ \A g, h \in lease[s] : g = h
  <2>1. pending[s] = {} /\ queue[s] = <<>>
    BY DEF IInv, SessionOK, Drop, RelayOpen
  <2>. QED  BY <2>1 DEF IInv, HandlersHeld, TypeOK, Holds
<1>2. NetOK' /\ handlers' = handlers \ lease[s]
  BY <1>1, DropLeaseNet DEF Drop, IInv, TypeOK, NetOK
<1>3. TypeOK'
  BY <1>2 DEF IInv, TypeOK, Drop, Goto, Phase, registry, taskVars, NetOK
<1>4. RegistryOK'
  <2>1. UNCHANGED registry /\ \A t \in Session : /\ Registered(t)' <=> Registered(t)
                                                 /\ pc'[t] # "idle" => pc[t] # "idle"
    BY DEF Drop, Goto, IInv, TypeOK, Registered, Phase
  <2>. QED  BY <2>1 DEF IInv, RegistryOK, SessionsRegistered, Registered, registry
<1>5. ASSUME NEW t \in Session PROVE SessionOK(t)'
  <2>1. CASE t = s
    <3>1. /\ pc'[s] = "gone" /\ queue' = queue /\ pending' = pending
          /\ lease'[s] = {} /\ Holds(s)' = {}
      BY <1>1 DEF IInv, TypeOK, Drop, Goto, Holds
    <3>. QED  BY <1>1, <2>1, <3>1, OnItsWayOut
  <2>2. CASE t # s
    BY <2>2, Elsewhere DEF IInv, TypeOK, Drop, Goto, taskVars
  <2>. QED  BY <2>1, <2>2
<1>6. Holds(s)' = Holds(s) \ lease[s] /\ \A t \in Session \ {s} : Holds(t)' = Holds(t)
  BY <1>1 DEF IInv, TypeOK, Drop, Holds
<1>7. queue' = queue
  BY DEF Drop
<1>. QED  BY <1>1, <1>2, <1>3, <1>4, <1>5, <1>6, <1>7, HoldsDropped DEF Holds

-----------------------------------------------------------------------------
(* Commands.                                                               *)

(* A response without a new lease.                                         *)
LEMMA RespondInv ==
  ASSUME IInv, NEW s \in Session, TakesCommand(s), NetOK', UNCHANGED <<routes, handlers>>,
         NEW r \in Response, Respond(s, r, {}),
         request' \in [Session -> SUBSET (Passcode \X Port)],
         UNCHANGED <<registry, relay_tx, lease, wire, queue, taskVars>>
  PROVE  IInv'
<1>1. pc[s] = "open" /\ lease[s] = {} /\ pending[s] = {} /\ Holds(s) = {}
  BY DEF TakesCommand, IInv, SessionOK, Holds
<1>2. pending' = pending
  BY <1>1 DEF Respond, IInv, TypeOK
<1>3. TypeOK'
  <2>1. answer' \in [Session -> SUBSET Response] /\ pc' \in [Session -> Phase]
    BY DEF IInv, TypeOK, Respond, Goto, Phase
  <2>. QED  BY <1>2, <2>1 DEF IInv, TypeOK, registry, taskVars, NetOK
<1>4. RegistryOK'
  BY <1>1, StaysRegistered DEF IInv, Respond, Registered, Phase
<1>5. ASSUME NEW t \in Session PROVE SessionOK(t)'
  <2>1. CASE t = s
    <3>1. pc'[s] = "replying" /\ Holds(s)' = {}
      BY <1>1, <1>2 DEF IInv, TypeOK, Respond, Goto, Holds
    <3>2. bound'[s] = {h.key : h \in Holds(s)} /\ relay_tx'[s]
      BY <1>1 DEF IInv, SessionOK, RelayOpen, taskVars
    <3>. QED  BY <1>1, <2>1, <3>1, <3>2 DEF SessionOK, RelayOpen
  <2>2. CASE t # s
    BY <1>2, <2>2, Elsewhere DEF IInv, TypeOK, Respond, Goto, taskVars
  <2>. QED  BY <2>1, <2>2
<1>. QED
  BY <1>2, <1>3, <1>4, <1>5, HoldsKept DEF IInv, OnlyOwnTraffic, Holds

LEMMA PingInv == ASSUME IInv, NEW s \in Session, Ping(s) PROVE IInv'
<1>1. NetOK' /\ UNCHANGED <<routes, handlers>>
  BY DEF Ping, netVars, IInv, TypeOK, NetOK, Net!TypeOK, Net!RoutesMatchHandlers, Net!IsMap
<1>2. request' \in [Session -> SUBSET (Passcode \X Port)] /\ "PONG" \in Response
  BY DEF Ping, IInv, TypeOK, Response
<1>. QED  BY <1>1, <1>2, RespondInv DEF Ping

LEMMA NewAddrInv == ASSUME IInv, NEW s \in Session, NewAddr(s) PROVE IInv'
<1>1. NetOK' /\ UNCHANGED <<routes, handlers>>
  BY AssignNet DEF NewAddr, IInv, TypeOK, NetOK
<1>2. request' \in [Session -> SUBSET (Passcode \X Port)] /\ "ADDR" \in Response
  BY DEF NewAddr, IInv, TypeOK, Response
<1>. QED  BY <1>1, <1>2, RespondInv DEF NewAddr

LEMMA BindFailsInv ==
  ASSUME IInv, NEW s \in Session, NEW p \in Passcode, NEW n \in Port, BindFails(s, p, n)
  PROVE  IInv'
<1>1. CASE relay_tx[s]
  <2>1. NetOK' /\ UNCHANGED <<routes, handlers>>
    BY DEF BindFails, netVars, IInv, TypeOK, NetOK, Net!TypeOK, Net!RoutesMatchHandlers,
           Net!IsMap
  <2>2. request' \in [Session -> SUBSET (Passcode \X Port)] /\ "BIND FAILED" \in Response
    <3>1. {<<p, n>>} \in SUBSET (Passcode \X Port)
      OBVIOUS
    <3>2. request' = [request EXCEPT ![s] = {<<p, n>>}]
      BY <1>1 DEF BindFails
    <3>3. request \in [Session -> SUBSET (Passcode \X Port)]
      BY DEF IInv, TypeOK
    <3>. QED  BY <3>1, <3>2, <3>3 DEF Response
  <2>. QED  BY <1>1, <2>1, <2>2, RespondInv DEF BindFails
<1>2. CASE ~relay_tx[s]
  BY <1>2, EndInv DEF BindFails, TakesCommand, commandVars
<1>. QED  BY <1>1, <1>2

(* The one step that gives a session something to hold: the port, the task *)
(* and the relay go together.                                              *)
LEMMA BindOkInv ==
  ASSUME IInv, NEW s \in Session, NEW p \in Passcode, NEW n \in Port, BindOk(s, p, n)
  PROVE  IInv'
<1>1. pc[s] = "open" /\ lease[s] = {} /\ pending[s] = {} /\ Holds(s) = {}
  BY DEF BindOk, TakesCommand, IInv, SessionOK, Holds
<1>2. NetOK'
  BY BindNet DEF BindOk, IInv, TypeOK, NetOK
<1>3. PICK h \in Net!Handler : /\ h.relay = s /\ h \notin handlers
                               /\ handlers' = handlers \cup {h}
  BY BindNet DEF BindOk, IInv, TypeOK, NetOK
<1>4. handlers' \ handlers = {h} /\ h.key \in RouteKey
  BY <1>3 DEF Net!Handler, RouteKey, Net!RouteKey
<1>5. /\ bound' = [bound EXCEPT ![s] = {h.key}]
      /\ pc' = [pc EXCEPT ![s] = "replying"]
      /\ answer' = [answer EXCEPT ![s] = {"BIND OK"}]
      /\ relay_tx' = [relay_tx EXCEPT ![s] = FALSE]
      /\ request' = [request EXCEPT ![s] = {<<p, n>>}]
  <2>1. {g.key : g \in {h}} = {h.key}
    OBVIOUS
  <2>. QED  BY <1>4, <2>1 DEF BindOk, Respond, Goto
<1>6. /\ pending' \in [Session -> SUBSET Net!Handler]
      /\ lease' \in [Session -> SUBSET Net!Handler]
      /\ Holds(s)' = {h} /\ (lease'[s] = {} \/ pending'[s] = {})
      /\ \A t \in Session \ {s} : lease'[t] = lease[t] /\ pending'[t] = pending[t]
  <2>1. CASE s \in WebTransport
    <3>1. lease' = [lease EXCEPT ![s] = {h}] /\ pending' = [pending EXCEPT ![s] = {}]
      BY <1>4, <2>1 DEF BindOk, Respond
    <3>. QED  BY <1>1, <3>1 DEF IInv, TypeOK, Holds
  <2>2. CASE s \notin WebTransport
    <3>1. lease' = lease /\ pending' = [pending EXCEPT ![s] = {h}]
      BY <1>4, <2>2 DEF BindOk, Respond
    <3>. QED  BY <1>1, <3>1 DEF IInv, TypeOK, Holds
  <2>. QED  BY <2>1, <2>2
<1>7. UNCHANGED <<registry, wire, queue, egress, sockets>>
  BY DEF BindOk
<1>8. TypeOK'
  <2>1. ASSUME NEW t \in Session
        PROVE  /\ \A f, g \in lease'[t] \cup pending'[t] : f = g
               /\ \A j, k \in bound'[t] : j = k
    <3>1. CASE t = s
      <4>1. lease'[s] \cup pending'[s] = {h}
        BY <1>6 DEF Holds
      <4>2. DOMAIN bound = Session
        BY DEF IInv, TypeOK
      <4>3. bound'[s] = {h.key}
        BY <1>5, <4>2
      <4>. QED  BY <3>1, <4>1, <4>3
    <3>2. CASE t # s
      BY <1>5, <1>6, <3>2 DEF IInv, TypeOK
    <3>. QED  BY <3>1, <3>2
  <2>2. answer' \in [Session -> SUBSET Response] /\ pc' \in [Session -> Phase]
    BY <1>5 DEF IInv, TypeOK, Response, Phase
  <2>3. /\ bound' \in [Session -> SUBSET RouteKey]
        /\ relay_tx' \in [Session -> BOOLEAN]
    <3>1. {h.key} \in SUBSET RouteKey
      BY <1>4
    <3>. QED  BY <1>5, <3>1 DEF IInv, TypeOK
  <2>4. request' \in [Session -> SUBSET (Passcode \X Port)]
    <3>1. {<<p, n>>} \in SUBSET (Passcode \X Port)
      OBVIOUS
    <3>2. request \in [Session -> SUBSET (Passcode \X Port)]
      BY DEF IInv, TypeOK
    <3>. QED  BY <1>5, <3>1, <3>2
  <2>. QED  BY <1>2, <1>6, <1>7, <2>1, <2>2, <2>3, <2>4 DEF IInv, TypeOK, registry, NetOK
<1>9. RegistryOK'
  BY <1>1, <1>7, StaysRegistered DEF BindOk, Respond, IInv, Registered, Phase
<1>10. \A t \in Session \ {s} : Holds(t)' = Holds(t)
  BY <1>6 DEF Holds
<1>11. HandlersHeld'
  <2>1. \A g \in handlers : g.relay \in Session /\ g \in Holds(g.relay)
    BY DEF IInv, HandlersHeld, TypeOK, Net!TypeOK, Net!Handler
  <2>2. \A g \in handlers' : g \in Holds(g.relay)'
    BY <1>1, <1>3, <1>6, <1>10, <2>1
  <2>3. \A t \in Session : Holds(t)' \subseteq handlers'
    BY <1>3, <1>6, <1>10 DEF IInv, HandlersHeld
  <2>. QED  BY <2>2, <2>3 DEF HandlersHeld
<1>12. ASSUME NEW t \in Session PROVE SessionOK(t)'
  <2>1. CASE t = s
    <3>1. {g.key : g \in Holds(s)'} = {h.key}
      BY <1>6
    <3>2. /\ pc'[s] = "replying" /\ answer'[s] = {"BIND OK"} /\ ~relay_tx'[s]
          /\ bound'[s] = {h.key}
      BY <1>5 DEF IInv, TypeOK
    <3>. QED  BY <1>3, <1>6, <2>1, <3>1, <3>2 DEF SessionOK, RelayOpen
  <2>2. CASE t # s
    <3>1. /\ pc'[t] = pc[t] /\ relay_tx'[t] = relay_tx[t] /\ answer'[t] = answer[t]
          /\ bound'[t] = bound[t]
      BY <1>5, <2>2 DEF IInv, TypeOK
    <3>2. pending'[t] = pending[t] /\ lease'[t] = lease[t]
      BY <1>6, <2>2
    <3>. QED  BY <1>7, <3>1, <3>2, Elsewhere DEF IInv
  <2>. QED  BY <2>1, <2>2
<1>13. OnlyOwnTraffic'
  <2>. SUFFICES ASSUME NEW t \in Session, NEW i \in 1 .. Len(queue[t])
                PROVE  queue[t][i].to \in {g.key : g \in Holds(t)'}
    BY <1>7 DEF OnlyOwnTraffic, Holds
  <2>1. queue[t][i].to \in {g.key : g \in Holds(t)}
    BY DEF IInv, OnlyOwnTraffic, Holds
  <2>. QED  BY <1>1, <1>10, <2>1
<1>. QED  BY <1>2, <1>8, <1>9, <1>11, <1>12, <1>13 DEF IInv, NetOK

(* What was pending is the lease, and the session holds what it held.      *)
LEMMA ReplyInv == ASSUME IInv, NEW s \in Session, Reply(s) PROVE IInv'
<1>. PICK r \in answer[s] : wire' = [wire EXCEPT ![s] = r]
  BY DEF Reply
<1>1. /\ pc' = [pc EXCEPT ![s] = "open"]
      /\ lease' = [lease EXCEPT ![s] = @ \cup pending[s]]
      /\ pending' = [pending EXCEPT ![s] = {}]
      /\ answer' = [answer EXCEPT ![s] = {}]
      /\ request' = [request EXCEPT ![s] = {}]
  BY DEF Reply, Goto
<1>2. \A t \in Session : Holds(t)' = Holds(t)
  BY <1>1 DEF IInv, TypeOK, Holds
<1>3. r \in Response
  BY DEF IInv, TypeOK
<1>4. TypeOK'
  <2>1. \A t \in Session : \A g, h \in lease'[t] \cup pending'[t] : g = h
    BY <1>2 DEF IInv, TypeOK, Holds
  <2>2. /\ pc' \in [Session -> Phase]
        /\ lease' \in [Session -> SUBSET Net!Handler]
        /\ pending' \in [Session -> SUBSET Net!Handler]
        /\ answer' \in [Session -> SUBSET Response]
        /\ request' \in [Session -> SUBSET (Passcode \X Port)]
        /\ wire' \in [Session -> Response \cup {"nothing", "frame"}]
    BY <1>1, <1>3 DEF IInv, TypeOK, Phase
  <2>. QED
    BY <2>1, <2>2 DEF Reply, netVars, registry, taskVars, IInv, TypeOK, Net!TypeOK, Net!IsMap
<1>5. RegistryOK'
  BY StaysRegistered DEF IInv, Reply, Registered, Phase
<1>6. ASSUME NEW t \in Session PROVE SessionOK(t)'
  <2>1. CASE t = s
    <3>1. /\ pc'[s] = "open" /\ pending'[s] = {} /\ wire'[s] = r
          /\ relay_tx' = relay_tx /\ bound' = bound
      BY <1>1 DEF IInv, TypeOK, Reply, taskVars
    <3>2. Holds(s) # {} => r = "BIND OK"
      BY DEF IInv, SessionOK, Reply
    <3>3. /\ \A h \in Holds(s) : h.relay = s
          /\ bound[s] = {h.key : h \in Holds(s)}
          /\ relay_tx[s] <=> Holds(s) = {}
      BY DEF IInv, SessionOK, Reply, RelayOpen
    <3>. QED  BY <1>2, <2>1, <3>1, <3>2, <3>3 DEF SessionOK, RelayOpen
  <2>2. CASE t # s
    BY <1>1, <2>2, Elsewhere DEF IInv, TypeOK, Reply, taskVars
  <2>. QED  BY <2>1, <2>2
<1>7. UNCHANGED <<routes, handlers, queue>>
  BY DEF Reply, netVars
<1>. QED  BY <1>2, <1>4, <1>5, <1>6, <1>7, HoldsKept DEF IInv, OnlyOwnTraffic, Holds

(* The response is not written: what is only pending is dropped.           *)
LEMMA ReplyFailsInv == ASSUME IInv, NEW s \in Session, ReplyFails(s) PROVE IInv'
<1>1. /\ pc' = [pc EXCEPT ![s] = "ended"] /\ queue' = [queue EXCEPT ![s] = <<>>]
      /\ pending' = [pending EXCEPT ![s] = {}] /\ lease' = lease
      /\ answer' = [answer EXCEPT ![s] = {}]
      /\ request' = [request EXCEPT ![s] = {}]
  BY DEF ReplyFails, End, Goto
<1>2. /\ pending[s] \subseteq handlers /\ \A g, h \in pending[s] : g = h
      /\ lease[s] = {} \/ pending[s] = {}
  <2>1. pending[s] \subseteq Holds(s) /\ Holds(s) \subseteq handlers
    BY DEF IInv, HandlersHeld, Holds
  <2>. QED  BY <2>1 DEF IInv, TypeOK, SessionOK
<1>3. NetOK' /\ handlers' = handlers \ pending[s]
  BY <1>2, DropLeaseNet DEF ReplyFails, IInv, TypeOK, NetOK
<1>4. /\ Holds(s)' = Holds(s) \ pending[s] /\ pending'[s] = {}
      /\ queue'[s] = <<>> /\ pc'[s] = "ended"
      /\ \A t \in Session \ {s} : Holds(t)' = Holds(t) /\ queue'[t] = queue[t]
  BY <1>1, <1>2 DEF IInv, TypeOK, Holds
<1>5. TypeOK'
  <2>1. \A t \in Session : \A g, h \in lease'[t] \cup pending'[t] : g = h
    BY <1>4 DEF IInv, TypeOK, Holds
  <2>2. /\ pc' \in [Session -> Phase]
        /\ queue' \in [Session -> Seq(Frame)]
        /\ pending' \in [Session -> SUBSET Net!Handler]
        /\ answer' \in [Session -> SUBSET Response]
        /\ request' \in [Session -> SUBSET (Passcode \X Port)]
    BY <1>1 DEF IInv, TypeOK, Phase
  <2>. QED
    BY <1>1, <1>3, <2>1, <2>2 DEF ReplyFails, registry, taskVars, IInv, TypeOK, NetOK
<1>6. RegistryOK'
  BY StaysRegistered DEF IInv, ReplyFails, End, Registered, Phase
<1>7. ASSUME NEW t \in Session PROVE SessionOK(t)'
  <2>1. CASE t = s
    <3>1. \A h \in Holds(s) : h.relay = s
      BY DEF IInv, SessionOK
    <3>. QED  BY <1>4, <2>1, <3>1, OnItsWayOut
  <2>2. CASE t # s
    BY <1>1, <2>2, Elsewhere DEF IInv, TypeOK, ReplyFails, taskVars
  <2>. QED  BY <2>1, <2>2
<1>8. pending[s] \in SUBSET Holds(s)
  BY DEF Holds
<1>. QED  BY <1>3, <1>4, <1>5, <1>6, <1>7, <1>8, HoldsDropped

-----------------------------------------------------------------------------
(* Datagrams and the translation task.                                     *)

(* A frame is for who is to get it if that is where its port is held.      *)
LEMMA RelayedOK ==
  ASSUME IInv, NEW s \in Session, NEW f \in Frame, Relayed(s, f), RelayOpen(s),
         f.to \in {h.key : h \in Holds(s)},
         UNCHANGED <<netVars, registry, pc, commandVars, taskVars>>
  PROVE  IInv'
<1>1. /\ queue' = [queue EXCEPT ![s] = Append(@, f)]
      /\ queue \in [Session -> Seq(Frame)]
  BY DEF Relayed, IInv, TypeOK
<1>2. TypeOK'
  <2>1. queue' \in [Session -> Seq(Frame)]
    BY <1>1
  <2>. QED
    BY <2>1 DEF IInv, TypeOK, netVars, registry, commandVars, taskVars, Net!TypeOK, Net!IsMap
<1>3. \A t \in Session : Holds(t)' = Holds(t)
  BY DEF commandVars, Holds
<1>4. ASSUME NEW t \in Session PROVE SessionOK(t)'
  <2>1. CASE t = s
    <3>1. SessionOK(s)
      BY DEF IInv
    <3>. QED  BY <2>1, <3>1 DEF SessionOK, Holds, RelayOpen, commandVars, taskVars
  <2>2. CASE t # s
    BY <1>1, <2>2, Elsewhere DEF IInv, commandVars, taskVars
  <2>. QED  BY <2>1, <2>2
<1>5. RegistryOK'
  BY DEF IInv, RegistryOK, SessionsRegistered, registry
<1>6. ASSUME NEW t \in Session, NEW i \in 1 .. Len(queue'[t])
      PROVE  queue'[t][i].to \in {h.key : h \in Holds(t)}
  <2>1. \A j \in 1 .. Len(queue[t]) : queue[t][j].to \in {h.key : h \in Holds(t)}
    BY DEF IInv, OnlyOwnTraffic, Holds
  <2>2. CASE t # s
    BY <1>1, <2>1, <2>2
  <2>3. CASE t = s
    <3>1. queue[s] \in Seq(Frame) /\ queue'[s] = Append(queue[s], f)
      BY <1>1
    <3>2. i \in 1 .. Len(queue[s]) + 1
      BY <2>3, <3>1
    <3>3. CASE i = Len(queue[s]) + 1
      BY <2>3, <3>1, <3>3
    <3>4. CASE i # Len(queue[s]) + 1
      BY <2>1, <2>3, <3>1, <3>2, <3>4
    <3>. QED  BY <3>3, <3>4
  <2>. QED  BY <2>2, <2>3
<1>. QED  BY <1>2, <1>3, <1>4, <1>5, <1>6, HoldsKept DEF netVars

(* A step that changes nothing but the task's own channel and sockets.     *)
LEMMA TaskOnly ==
  ASSUME IInv, UNCHANGED <<netVars, registry, pc, commandVars, queue, bound>>,
         egress' \in [Session -> Seq(Family)], sockets' \in [Session -> SUBSET Family]
  PROVE  IInv'
<1>1. TypeOK'
  BY DEF IInv, TypeOK, netVars, registry, commandVars, Net!TypeOK, Net!IsMap
<1>2. \A t \in Session : SessionOK(t)'
  BY Elsewhere DEF IInv, commandVars
<1>3. RegistryOK'
  BY DEF IInv, RegistryOK, SessionsRegistered, registry
<1>. QED
  BY <1>1, <1>2, <1>3, HoldsKept DEF netVars, commandVars, IInv, OnlyOwnTraffic, Holds

LEMMA SendToNetworkInv ==
  ASSUME IInv, NEW s \in Session, NEW to \in RouteKey, SendToNetwork(s, to)
  PROVE  IInv'
<1>. PICK h \in lease[s] :
       IF to \in DOMAIN routes /\ RelayOpen(routes[to])
       THEN Relayed(routes[to], [from |-> h.key, to |-> to])
       ELSE UNCHANGED queue
  BY DEF SendToNetwork
<1>1. UNCHANGED <<netVars, registry, pc, commandVars, taskVars>>
  BY DEF SendToNetwork
<1>2. CASE to \in DOMAIN routes /\ RelayOpen(routes[to])
  <2>. DEFINE r == routes[to]
  <2>1. r \in Session /\ [key |-> to, relay |-> r] \in Holds(r)
    <3>1. r \in Session
      BY <1>2 DEF IInv, TypeOK, Net!TypeOK, Net!IsMap
    <3>2. [key |-> to, relay |-> r] \in handlers
      BY <1>2 DEF IInv, Net!RoutesMatchHandlers
    <3>. QED  BY <3>1, <3>2 DEF IInv, HandlersHeld
  <2>2. [from |-> h.key, to |-> to] \in Frame
    BY DEF IInv, TypeOK, Net!Handler, Frame, RouteKey
  <2>3. to \in {g.key : g \in Holds(r)}
    BY <2>1
  <2>. QED  BY <1>1, <1>2, <2>1, <2>2, <2>3, RelayedOK
<1>3. CASE ~(to \in DOMAIN routes /\ RelayOpen(routes[to]))
  BY <1>1, <1>3, TaskOnly DEF taskVars, IInv, TypeOK
<1>. QED  BY <1>2, <1>3

(* The task of an open session with a lease is there, so a datagram to the *)
(* internet does not end it; if it did, the rest would hold as well.       *)
LEMMA SendToInternetInv ==
  ASSUME IInv, NEW s \in Session, NEW f \in Family, SendToInternet(s, f)
  PROVE  IInv'
<1>1. CASE bound[s] # {}
  <2>1. egress' = [egress EXCEPT ![s] = Append(@, f)] /\ egress \in [Session -> Seq(Family)]
    BY <1>1 DEF SendToInternet, IInv, TypeOK
  <2>2. egress' \in [Session -> Seq(Family)]
    BY <2>1
  <2>. QED  BY <1>1, <2>2, TaskOnly DEF SendToInternet, IInv, TypeOK
<1>2. CASE bound[s] = {}
  BY <1>2, EndInv DEF SendToInternet, taskVars
<1>. QED  BY <1>1, <1>2

LEMMA WriteFrameInv == ASSUME IInv, NEW s \in Session, WriteFrame(s) PROVE IInv'
<1>1. /\ queue' = [queue EXCEPT ![s] = Tail(@)] /\ wire' = [wire EXCEPT ![s] = "frame"]
      /\ queue \in [Session -> Seq(Frame)] /\ queue[s] # <<>>
  BY DEF WriteFrame, IInv, TypeOK
<1>2. TypeOK'
  <2>1. queue' \in [Session -> Seq(Frame)]
    BY <1>1
  <2>2. wire' \in [Session -> Response \cup {"nothing", "frame"}]
    BY <1>1 DEF IInv, TypeOK
  <2>. QED
    BY <2>1, <2>2 DEF WriteFrame, IInv, TypeOK, netVars, registry, taskVars, Net!TypeOK,
                      Net!IsMap
<1>3. \A t \in Session : Holds(t)' = Holds(t)
  BY DEF WriteFrame, Holds
<1>4. ASSUME NEW t \in Session PROVE SessionOK(t)'
  <2>1. CASE t = s
    <3>1. SessionOK(s) /\ wire'[s] = "frame" /\ pc[s] = "open"
      BY <1>1 DEF IInv, TypeOK, WriteFrame
    <3>. QED  BY <2>1, <3>1 DEF WriteFrame, SessionOK, Holds, RelayOpen, taskVars
  <2>2. CASE t # s
    BY <1>1, <2>2, Elsewhere DEF IInv, TypeOK, WriteFrame, taskVars
  <2>. QED  BY <2>1, <2>2
<1>5. RegistryOK'
  BY DEF WriteFrame, IInv, RegistryOK, SessionsRegistered, registry
<1>6. ASSUME NEW t \in Session, NEW i \in 1 .. Len(queue'[t])
      PROVE  queue'[t][i].to \in {h.key : h \in Holds(t)}
  <2>1. \A j \in 1 .. Len(queue[t]) : queue[t][j].to \in {h.key : h \in Holds(t)}
    BY DEF IInv, OnlyOwnTraffic, Holds
  <2>2. CASE t # s
    BY <1>1, <2>1, <2>2
  <2>3. CASE t = s
    <3>1. queue[s] \in Seq(Frame) /\ queue[s] # <<>> /\ queue'[s] = Tail(queue[s])
      BY <1>1
    <3>2. i + 1 \in 1 .. Len(queue[s]) /\ queue'[s][i] = queue[s][i + 1]
      BY <2>3, <3>1
    <3>. QED  BY <2>1, <2>3, <3>2
  <2>. QED  BY <2>2, <2>3
<1>. QED  BY <1>2, <1>3, <1>4, <1>5, <1>6, HoldsKept DEF WriteFrame, netVars

LEMMA TaskSendInv == ASSUME IInv, NEW s \in Session, TaskSend(s) PROVE IInv'
<1>1. /\ egress \in [Session -> Seq(Family)] /\ egress[s] # <<>>
      /\ egress' = [egress EXCEPT ![s] = Tail(@)]
  BY DEF TaskSend, IInv, TypeOK
<1>2. egress' \in [Session -> Seq(Family)] /\ Head(egress[s]) \in Family
  BY <1>1
<1>3. sockets' \in [Session -> SUBSET Family]
  <2>1. sockets \in [Session -> SUBSET Family]
    BY DEF IInv, TypeOK
  <2>2. sockets' = sockets \/ sockets' = [sockets EXCEPT ![s] = @ \cup {Head(egress[s])}]
    BY DEF TaskSend
  <2>. QED  BY <1>2, <2>1, <2>2
<1>. QED  BY <1>2, <1>3, TaskOnly DEF TaskSend

(* The task goes only when the session has nothing to send through it.     *)
LEMMA StopTaskInv ==
  ASSUME IInv, NEW s \in Session, StopTask(s), ~RelayOpen(s) \/ Holds(s) = {},
         UNCHANGED <<netVars, registry, pc, commandVars, queue>>
  PROVE  IInv'
<1>1. /\ bound' = [bound EXCEPT ![s] = {}] /\ egress' = [egress EXCEPT ![s] = <<>>]
      /\ sockets' = [sockets EXCEPT ![s] = {}]
  BY DEF StopTask
<1>2. TypeOK'
  <2>1. /\ bound' \in [Session -> SUBSET RouteKey]
        /\ egress' \in [Session -> Seq(Family)]
        /\ sockets' \in [Session -> SUBSET Family]
    BY <1>1 DEF IInv, TypeOK
  <2>2. \A t \in Session : \A j, k \in bound'[t] : j = k
    BY <1>1 DEF IInv, TypeOK
  <2>. QED
    BY <2>1, <2>2 DEF IInv, TypeOK, netVars, registry, commandVars, Net!TypeOK, Net!IsMap
<1>3. \A t \in Session : Holds(t)' = Holds(t)
  BY DEF commandVars, Holds
<1>4. ASSUME NEW t \in Session PROVE SessionOK(t)'
  <2>1. CASE t = s
    <3>1. SessionOK(s) /\ bound'[s] = {}
      BY <1>1 DEF IInv, TypeOK
    <3>2. Holds(s) = {} => {h.key : h \in Holds(s)} = {}
      OBVIOUS
    <3>. QED  BY <2>1, <3>1, <3>2 DEF SessionOK, Holds, RelayOpen, commandVars
  <2>2. CASE t # s
    BY <1>1, <2>2, Elsewhere DEF IInv, TypeOK, commandVars
  <2>. QED  BY <2>1, <2>2
<1>5. RegistryOK'
  BY DEF IInv, RegistryOK, SessionsRegistered, registry
<1>. QED
  BY <1>2, <1>3, <1>4, <1>5, HoldsKept DEF netVars, IInv, OnlyOwnTraffic, Holds

LEMMA TaskStopsInv == ASSUME IInv, NEW s \in Session, TaskStops(s) PROVE IInv'
BY StopTaskInv DEF TaskStops, Holds

LEMMA TaskReplyInv ==
  ASSUME IInv, NEW s \in Session, NEW f \in Family, TaskReply(s, f) PROVE IInv'
<1>. PICK k \in bound[s] :
       IF RelayOpen(s)
       THEN Relayed(s, [from |-> f, to |-> k]) /\ UNCHANGED taskVars
       ELSE StopTask(s) /\ UNCHANGED queue
  BY DEF TaskReply
<1>1. UNCHANGED <<netVars, registry, pc, commandVars>>
  BY DEF TaskReply
<1>2. CASE RelayOpen(s)
  <2>1. k \in {h.key : h \in Holds(s)}
    BY <1>2 DEF IInv, SessionOK
  <2>2. [from |-> f, to |-> k] \in Frame
    BY DEF IInv, TypeOK, Frame
  <2>. QED  BY <1>1, <1>2, <2>1, <2>2, RelayedOK
<1>3. CASE ~RelayOpen(s)
  BY <1>1, <1>3, StopTaskInv
<1>. QED  BY <1>2, <1>3

LEMMA TickInv == ASSUME IInv, Tick PROVE IInv'
<1>1. NetOK' /\ UNCHANGED <<routes, handlers>>
  BY DEF Tick, Net!Tick, Net!tables, IInv, TypeOK, NetOK, Net!TypeOK, Net!IsMap,
         Net!RoutesMatchHandlers
<1>2. TypeOK'
  BY <1>1 DEF Tick, IInv, TypeOK, registry, commandVars, taskVars, NetOK
<1>3. \A t \in Session : SessionOK(t)'
  BY Elsewhere DEF Tick, IInv, commandVars, taskVars
<1>4. RegistryOK'
  BY DEF Tick, IInv, RegistryOK, SessionsRegistered, registry
<1>. QED
  BY <1>1, <1>2, <1>3, <1>4, HoldsKept DEF Tick, commandVars, IInv, OnlyOwnTraffic, Holds

-----------------------------------------------------------------------------
(* Nobody has connected.                                                   *)
LEMMA InitInv == Init => IInv
<1>. SUFFICES ASSUME Init PROVE IInv
  OBVIOUS
<1>1. TypeOK /\ Net!RoutesMatchHandlers
  BY DEF Init, Net!Init, TypeOK, Net!TypeOK, Net!IsMap, Net!RoutesMatchHandlers, Phase
<1>2. \A s \in Session : Holds(s) = {}
  BY DEF Init, Holds
<1>3. HandlersHeld /\ \A s \in Session : SessionOK(s)
  BY <1>2 DEF Init, Net!Init, HandlersHeld, SessionOK, RelayOpen
<1>4. OnlyOwnTraffic
  BY DEF Init, OnlyOwnTraffic
<1>5. RegistryOK
  BY DEF Init, RegistryOK, SessionsRegistered
<1>. QED  BY <1>1, <1>3, <1>4, <1>5 DEF IInv

LEMMA StutterInv == ASSUME IInv, UNCHANGED vars PROVE IInv'
<1>1. UNCHANGED <<netVars, registry, pc, commandVars, queue, bound>>
  BY DEF vars, taskVars
<1>2. egress' = egress /\ sockets' = sockets
  BY DEF vars, taskVars
<1>. QED  BY <1>1, <1>2, TaskOnly DEF IInv, TypeOK

LEMMA StepInv == ASSUME IInv, [Next]_vars PROVE IInv'
<1>1. ASSUME NEW s \in Session, SessionStep(s) PROVE IInv'
  BY <1>1, AcceptInv, AcceptRequestInv, HandshakeOkInv, HandshakeFailsInv, LeaveInv,
     RemoveInv, DropInv, PingInv, NewAddrInv, ReplyInv, ReplyFailsInv, BindOkInv,
     BindFailsInv, SendToNetworkInv, SendToInternetInv, WriteFrameInv DEF SessionStep
<1>2. ASSUME NEW s \in Session, TaskStep(s) PROVE IInv'
  BY <1>2, TaskSendInv, TaskStopsInv, TaskReplyInv DEF TaskStep
<1>. QED  BY <1>1, <1>2, TickInv, StutterInv DEF Next

LEMMA Invariant == Spec => []IInv
<1>1. IInv /\ [Next]_vars => IInv'
  BY StepInv
<1>. QED  BY InitInv, <1>1, PTL DEF Spec

-----------------------------------------------------------------------------
(* Sessions of both kinds and the network stay in the states the code has, *)
(* a session never with two leases or two translation tasks.               *)
THEOREM TypeCorrect == Spec => []TypeOK
<1>1. IInv => TypeOK
  BY DEF IInv
<1>. QED  BY <1>1, Invariant, PTL

(* The leases of the sessions are the BindHandlers alive, through failed   *)
(* writes, refusals and ends of sessions of both kinds: a grant whose      *)
(* answer cannot be written does not leave the port bound.                 *)
THEOREM NoLeakedPort == Spec => []LeasesAreHandlers
<1>1. IInv => LeasesAreHandlers
  <2>1. IInv => \A s \in Session : pc[s] \in {"idle", "gone"} => Holds(s) = {}
    BY DEF IInv, SessionOK, Holds
  <2>. QED  BY <2>1 DEF IInv, HandlersHeld, LeasesAreHandlers, Holds
<1>. QED  BY <1>1, Invariant, PTL

(* What is sent to a port that has been granted goes to who holds it.      *)
THEOREM GrantedPortIsRouted == Spec => []LeaseIsRouted
<1>1. IInv => LeaseIsRouted
  <2>1. IInv => \A s \in Session : \A h \in Holds(s) : h \in handlers /\ h.relay = s
    BY DEF IInv, SessionOK, HandlersHeld
  <2>. QED  BY <2>1 DEF IInv, Net!RoutesMatchHandlers, LeaseIsRouted, Holds
<1>. QED  BY <1>1, Invariant, PTL

(* remove_client() always finds the id it is called with.                  *)
THEOREM RegistryIntact == Spec => []SessionsRegistered
<1>1. IInv => SessionsRegistered
  BY DEF IInv, RegistryOK
<1>. QED  BY <1>1, Invariant, PTL

(* A client that may send to the internet never finds its task gone.       *)
THEOREM TaskOutlivesUse == Spec => []LinkHasItsTask
<1>1. IInv => LinkHasItsTask
  BY DEF IInv, SessionOK, RelayOpen, Holds, LinkHasItsTask
<1>. QED  BY <1>1, Invariant, PTL

(* A BIND that was refused can be tried again.                             *)
THEOREM RetryIsPossible == Spec => []RelayKeptForRetry
<1>1. IInv => RelayKeptForRetry
  BY DEF IInv, SessionOK, RelayOpen, Holds, RelayKeptForRetry
<1>. QED  BY <1>1, Invariant, PTL

(* No datagram reaches a client for a port that it does not hold.          *)
THEOREM NoForeignTraffic == Spec => []OnlyOwnTraffic
<1>1. IInv => OnlyOwnTraffic
  BY DEF IInv
<1>. QED  BY <1>1, Invariant, PTL

-----------------------------------------------------------------------------
(* Only the relay branch of the select loop writes a frame, and it does so *)
(* with something on the relay, so with a port that has been answered for. *)
LEMMA FramesAfterBindOk ==
  ASSUME IInv, Next, NEW s \in Session, wire'[s] = "frame"
  PROVE  wire[s] \in {"BIND OK", "frame"}
<1>1. CASE wire'[s] = wire[s]
  BY <1>1
<1>2. ASSUME NEW t \in Session, WriteFrame(t), wire'[s] # wire[s]
      PROVE  wire[s] \in {"BIND OK", "frame"}
  <2>1. t = s /\ pc[s] = "open" /\ queue[s] \in Seq(Frame) /\ queue[s] # <<>>
    BY <1>2 DEF WriteFrame, IInv, TypeOK
  <2>2. 1 \in 1 .. Len(queue[s])
    BY <2>1
  <2>3. Holds(s) # {}
    BY <2>2 DEF IInv, OnlyOwnTraffic, Holds
  <2>. QED  BY <2>1, <2>3 DEF IInv, SessionOK
<1>3. ASSUME NEW t \in Session, Reply(t), wire'[s] # wire[s]
      PROVE  wire[s] \in {"BIND OK", "frame"}
  <2>1. answer[t] \subseteq Response /\ "frame" \notin Response
    BY DEF IInv, TypeOK, Response
  <2>2. PICK r \in answer[t] : wire' = [wire EXCEPT ![t] = r]
    BY <1>3 DEF Reply
  <2>3. wire \in [Session -> Response \cup {"nothing", "frame"}]
    BY DEF IInv, TypeOK
  <2>4. wire'[s] = wire[s] \/ wire'[s] = r
    BY <2>2, <2>3
  <2>. QED  BY <1>3, <2>1, <2>4
<1>4. ASSUME NEW t \in Session, SessionStep(t), ~WriteFrame(t), ~Reply(t)
      PROVE  wire' = wire
  BY <1>4 DEF SessionStep, Accept, AcceptRequest, HandshakeOk, HandshakeFails, Leave,
     Remove, Drop, Ping, NewAddr, ReplyFails, BindOk, BindFails, SendToNetwork,
     SendToInternet, commandVars
<1>5. ASSUME NEW t \in Session, TaskStep(t) PROVE wire' = wire
  BY <1>5 DEF TaskStep, TaskSend, TaskStops, TaskReply, commandVars
<1>6. Tick => wire' = wire
  BY DEF Tick, commandVars
<1>. QED  BY <1>1, <1>2, <1>3, <1>4, <1>5, <1>6 DEF Next

(* A client is told that it has its port before anything arrives on it.    *)
THEOREM GrantComesFirst == Spec => BindOkComesFirst
<1>1. IInv /\ [Next]_vars =>
        [\A s \in Session : wire'[s] = "frame" => wire[s] \in {"BIND OK", "frame"}]_vars
  BY FramesAfterBindOk
<1>. QED  BY <1>1, Invariant, PTL DEF Spec, BindOkComesFirst

-----------------------------------------------------------------------------
LEMMA DropIsUnbind ==
  ASSUME NEW option, DropLease(option) PROVE [Net!Next]_(Net!vars)
<1>1. CASE option = {}
  BY <1>1 DEF DropLease, netVars, Net!vars
<1>2. CASE option # {}
  <2>1. PICK h \in option : Net!Unbind(h)
    BY <1>2 DEF DropLease
  <2>. QED  BY <2>1 DEF Net!Next, Net!Unbind
<1>. QED  BY <1>1, <1>2

LEMMA StepIsNetwork == [Next]_vars => [Net!Next]_(Net!vars)
<1>1. ASSUME UNCHANGED netVars PROVE [Net!Next]_(Net!vars)
  BY <1>1 DEF netVars, Net!vars
<1>2. ASSUME NEW s \in Session, SessionStep(s) PROVE [Net!Next]_(Net!vars)
  <2>1. CASE NewAddr(s)
    BY <2>1 DEF NewAddr, Net!Next
  <2>2. ASSUME NEW p \in Passcode, NEW n \in Port, BindOk(s, p, n)
        PROVE  [Net!Next]_(Net!vars)
    BY <2>2 DEF BindOk, Net!Next
  <2>3. CASE Drop(s)
    BY <2>3, DropIsUnbind DEF Drop
  <2>4. CASE ReplyFails(s)
    BY <2>4, DropIsUnbind DEF ReplyFails
  <2>5. CASE \/ Accept(s) \/ AcceptRequest(s) \/ HandshakeOk(s) \/ HandshakeFails(s)
             \/ Leave(s) \/ Remove(s) \/ Ping(s) \/ Reply(s) \/ WriteFrame(s)
             \/ \E p \in Passcode, n \in Port : BindFails(s, p, n)
             \/ \E to \in RouteKey : SendToNetwork(s, to)
             \/ \E f \in Family : SendToInternet(s, f)
    BY <1>1, <2>5 DEF Accept, AcceptRequest, HandshakeOk, HandshakeFails, Leave, Remove,
       Ping, Reply, WriteFrame, BindFails, SendToNetwork, SendToInternet
  <2>. QED  BY <1>2, <2>1, <2>2, <2>3, <2>4, <2>5 DEF SessionStep
<1>3. ASSUME NEW s \in Session, TaskStep(s) PROVE [Net!Next]_(Net!vars)
  BY <1>1, <1>3 DEF TaskStep, TaskSend, TaskStops, TaskReply
<1>4. Tick => [Net!Next]_(Net!vars)
  BY DEF Tick, Net!Next
<1>5. UNCHANGED vars => UNCHANGED netVars
  BY DEF vars
<1>. QED  BY <1>1, <1>2, <1>3, <1>4, <1>5 DEF Next

(* All that the sessions do to the network, they do through assign(),      *)
(* bind() and the drop of a lease: what is proved of Network, that it      *)
(* implements the address book included, is true under the sessions.       *)
THEOREM SessionsUseNetwork == Spec => Net!Spec
<1>1. Init => Net!Init
  BY DEF Init
<1>. QED  BY <1>1, StepIsNetwork, PTL DEF Spec, Net!Spec
=============================================================================
