--------------------------- MODULE NetworkProofs ---------------------------
(***************************************************************************)
(* Proofs about the private network, for any sets of addresses, passcodes, *)
(* ports and relays and any TTL.                                           *)
(*                                                                         *)
(* The invariant is inductive only as a whole: that expiry spares the      *)
(* addresses in use needs the counters, the counters need every unbind to  *)
(* find its route, and that needs routes and handlers to match.            *)
(***************************************************************************)
EXTENDS Network, FiniteSetTheorems, TLAPS

(* Only finitely many ports are bound at any time.                         *)
RoutesFinite == IsFiniteSet(DOMAIN routes)

IInv == /\ TypeOK
        /\ TablesAgree
        /\ RoutesMatchHandlers
        /\ RoutesFinite
        /\ BindsCounted

-----------------------------------------------------------------------------
(* An address with a route on it is never stale.                           *)
LEMMA HeldIsNotStale ==
  ASSUME IInv, NEW k \in DOMAIN routes
  PROVE  k[1] \notin Stale
<1>1. RoutesOn(k[1]) # {}
  BY DEF RoutesOn
<1>2. IsFiniteSet(RoutesOn(k[1]))
  <2>1. RoutesOn(k[1]) \in SUBSET DOMAIN routes
    BY DEF RoutesOn
  <2>. QED  BY <2>1, FS_Subset DEF IInv, RoutesFinite
<1>3. Cardinality(RoutesOn(k[1])) # 0
  BY <1>1, <1>2, FS_EmptySet
<1>. QED
  BY <1>3 DEF IInv, BindsCounted, Stale

-----------------------------------------------------------------------------
(* With empty tables there is nothing to agree on.                         *)
LEMMA InitInv == Init => IInv
<1>. SUFFICES ASSUME Init PROVE IInv
  OBVIOUS
<1>1. TypeOK /\ TablesAgree /\ RoutesMatchHandlers /\ BindsCounted
  BY DEF Init, TypeOK, IsMap, TablesAgree, RoutesMatchHandlers, BindsCounted
<1>2. RoutesFinite
  BY FS_EmptySet DEF Init, RoutesFinite
<1>. QED  BY <1>1, <1>2 DEF IInv

(* assign() forgets only stale addresses, none of which has a route, and   *)
(* takes an address and a passcode that are in neither table.              *)
LEMMA AssignInv ==
  ASSUME IInv, NEW a \in Address, NEW p \in Passcode, Assign(a, p)
  PROVE  IInv'
<1>. DEFINE keptA == DOMAIN by_address \ Stale
            keptP == DOMAIN by_passcode \ StalePasscodes
            entry == [passcode |-> p, binds |-> 0, touched |-> now]
<1>. USE DEF IInv
<1>1. entry \in Assignment
  BY DEF TypeOK, Assignment
<1>2. /\ IsMap(by_address', Address, Assignment)
      /\ DOMAIN by_address' = keptA \cup {a}
      /\ by_address'[a] = entry
      /\ \A x \in keptA : x # a /\ by_address'[x] = by_address[x]
  <2>1. /\ a \notin keptA
        /\ by_address' = [x \in keptA \cup {a} |->
                           IF x = a THEN entry ELSE by_address[x]]
    BY DEF Assign, Insert, Restrict
  <2>. QED  BY <1>1, <2>1 DEF TypeOK, IsMap
<1>3. /\ IsMap(by_passcode', Passcode, Address)
      /\ DOMAIN by_passcode' = keptP \cup {p}
      /\ by_passcode'[p] = a
      /\ \A x \in keptP : x # p /\ by_passcode'[x] = by_passcode[x]
  <2>1. /\ p \notin keptP
        /\ by_passcode' = [x \in keptP \cup {p} |->
                            IF x = p THEN a ELSE by_passcode[x]]
    BY DEF Assign, Insert, Restrict
  <2>. QED  BY <2>1 DEF TypeOK, IsMap
<1>4. UNCHANGED <<routes, handlers, now>>
  BY DEF Assign
<1>5. TypeOK'
  BY <1>2, <1>3, <1>4 DEF TypeOK
<1>6. TablesAgree'
  <2>1. ASSUME NEW x \in DOMAIN by_address'
        PROVE  /\ by_address'[x].passcode \in DOMAIN by_passcode'
               /\ by_passcode'[by_address'[x].passcode] = x
    <3>1. CASE x = a
      BY <3>1, <1>2, <1>3
    <3>2. CASE x \in keptA
      <4>1. by_address[x].passcode \notin StalePasscodes
        BY <3>2 DEF StalePasscodes, Stale, TablesAgree
      <4>2. by_address[x].passcode \in keptP
        BY <3>2, <4>1 DEF TablesAgree
      <4>. QED  BY <3>2, <4>2, <1>2, <1>3 DEF TablesAgree
    <3>. QED  BY <3>1, <3>2, <1>2
  <2>2. ASSUME NEW x \in DOMAIN by_passcode'
        PROVE  /\ by_passcode'[x] \in DOMAIN by_address'
               /\ by_address'[by_passcode'[x]].passcode = x
    <3>1. CASE x = p
      BY <3>1, <1>2, <1>3
    <3>2. CASE x \in keptP
      <4>1. by_passcode[x] \in keptA
        BY <3>2 DEF StalePasscodes, TablesAgree
      <4>. QED  BY <3>2, <4>1, <1>2, <1>3 DEF TablesAgree
    <3>. QED  BY <3>1, <3>2, <1>3
  <2>. QED  BY <2>1, <2>2 DEF TablesAgree
<1>7. RoutesMatchHandlers' /\ RoutesFinite'
  BY <1>4 DEF RoutesMatchHandlers, RoutesFinite
<1>8. BindsCounted'
  <2>1. \A k \in DOMAIN routes : k[1] \in keptA
    BY HeldIsNotStale DEF BindsCounted
  <2>2. \A x : RoutesOn(x)' = RoutesOn(x)
    BY <1>4 DEF RoutesOn
  <2>3. RoutesOn(a) = {}
    BY <2>1, <1>2 DEF RoutesOn
  <2>4. Cardinality(RoutesOn(a)) = 0
    BY <2>3, FS_EmptySet
  <2>. QED  BY <2>1, <2>2, <2>4, <1>2, <1>4 DEF BindsCounted
<1>. QED  BY <1>5, <1>6, <1>7, <1>8

(* bind() adds one route and counts it, on an address that stays put.      *)
LEMMA BindInv ==
  ASSUME IInv, NEW r \in Relay, NEW p \in Passcode, NEW n \in Port,
         Bind(r, p, n)
  PROVE  IInv'
<1>. DEFINE a   == by_passcode[p]
            key == <<a, n>>
            h   == [key |-> key, relay |-> r]
<1>. USE DEF IInv
<1>1. /\ p \in DOMAIN by_passcode
      /\ a \in DOMAIN by_address
      /\ key \in RouteKey
      /\ key \notin DOMAIN routes
  BY DEF Bind, CanBind, TypeOK, IsMap, RouteKey
<1>2. /\ DOMAIN by_address' = DOMAIN by_address
      /\ by_address'[a] = [passcode |-> by_address[a].passcode,
                           binds |-> by_address[a].binds + 1,
                           touched |-> now]
      /\ \A x \in DOMAIN by_address : x # a => by_address'[x] = by_address[x]
  <2>1. by_address[a] \in Assignment
    BY <1>1 DEF TypeOK, IsMap
  <2>. QED  BY <1>1, <2>1 DEF Bind, Assignment
<1>3. /\ DOMAIN routes' = DOMAIN routes \cup {key}
      /\ routes'[key] = r
      /\ \A k \in DOMAIN routes : routes'[k] = routes[k]
      /\ IsMap(routes', RouteKey, Relay)
  <2>1. routes' = [k \in DOMAIN routes \cup {key} |->
                     IF k = key THEN r ELSE routes[k]]
    BY DEF Bind, Insert
  <2>. QED  BY <1>1, <2>1 DEF TypeOK, IsMap
<1>4. handlers' = handlers \cup {h} /\ UNCHANGED <<by_passcode, now>>
  BY DEF Bind
<1>5. TypeOK'
  <2>1. IsMap(by_address', Address, Assignment)
    <3>1. by_address'[a] \in Assignment
      BY <1>1, <1>2 DEF TypeOK, IsMap, Assignment
    <3>2. \A x \in DOMAIN by_address : by_address'[x] \in Assignment
      BY <1>2, <3>1 DEF TypeOK, IsMap
    <3>3. by_address' = [x \in DOMAIN by_address |-> by_address'[x]]
      BY <1>1 DEF Bind, TypeOK, IsMap
    <3>. QED  BY <1>2, <3>2, <3>3 DEF TypeOK, IsMap
  <2>2. h \in Handler
    BY <1>1 DEF Handler
  <2>. QED  BY <2>1, <2>2, <1>3, <1>4 DEF TypeOK
<1>6. TablesAgree'
  BY <1>1, <1>2, <1>4 DEF TablesAgree
<1>7. RoutesMatchHandlers'
  <2>1. \A g \in handlers : g.key \in DOMAIN routes' /\ routes'[g.key] = g.relay
    BY <1>3 DEF RoutesMatchHandlers
  <2>2. h.key \in DOMAIN routes' /\ routes'[h.key] = h.relay
    BY <1>3
  <2>3. \A k \in DOMAIN routes' : [key |-> k, relay |-> routes'[k]] \in handlers'
    BY <1>3, <1>4 DEF RoutesMatchHandlers
  <2>. QED  BY <2>1, <2>2, <2>3, <1>4 DEF RoutesMatchHandlers
<1>8. RoutesFinite'
  BY <1>3, FS_AddElement DEF RoutesFinite
<1>9. BindsCounted'
  <2>1. \A k \in DOMAIN routes' : k[1] \in DOMAIN by_address'
    BY <1>1, <1>2, <1>3 DEF BindsCounted
  <2>2. ASSUME NEW x \in DOMAIN by_address
        PROVE  by_address'[x].binds = Cardinality(RoutesOn(x)')
    <3>1. IsFiniteSet(RoutesOn(x))
      <4>1. RoutesOn(x) \in SUBSET DOMAIN routes
        BY DEF RoutesOn
      <4>. QED  BY <4>1, FS_Subset DEF RoutesFinite
    <3>2. CASE x = a
      <4>1. RoutesOn(x)' = RoutesOn(x) \cup {key} /\ key \notin RoutesOn(x)
        BY <3>2, <1>1, <1>3 DEF RoutesOn
      <4>2. Cardinality(RoutesOn(x)') = Cardinality(RoutesOn(x)) + 1
        BY <3>1, <4>1, FS_AddElement
      <4>. QED  BY <3>2, <4>2, <1>2 DEF BindsCounted
    <3>3. CASE x # a
      <4>1. RoutesOn(x)' = RoutesOn(x)
        BY <3>3, <1>3 DEF RoutesOn
      <4>. QED  BY <3>3, <4>1, <1>2 DEF BindsCounted
    <3>. QED  BY <3>2, <3>3
  <2>. QED  BY <2>1, <2>2, <1>2 DEF BindsCounted
<1>. QED  BY <1>5, <1>6, <1>7, <1>8, <1>9

(* unbind() finds the route of its handler, takes it away and uncounts it. *)
LEMMA UnbindInv ==
  ASSUME IInv, NEW h \in handlers, Unbind(h)
  PROVE  IInv'
<1>. DEFINE key == h.key
            a   == key[1]
<1>. USE DEF IInv
<1>1. /\ key \in DOMAIN routes
      /\ routes[key] = h.relay
      /\ a \in DOMAIN by_address
  BY DEF RoutesMatchHandlers, BindsCounted
<1>2. /\ \A x : IsFiniteSet(RoutesOn(x))
      /\ Cardinality(RoutesOn(a)) \in Nat \ {0}
  <2>1. \A x : RoutesOn(x) \in SUBSET DOMAIN routes
    BY DEF RoutesOn
  <2>2. \A x : IsFiniteSet(RoutesOn(x))
    BY <2>1, FS_Subset DEF RoutesFinite
  <2>3. RoutesOn(a) # {}
    BY <1>1 DEF RoutesOn
  <2>. QED  BY <2>2, <2>3, FS_EmptySet, FS_CardinalityType
<1>3. by_address[a].binds \in Nat \ {0}
  BY <1>1, <1>2 DEF BindsCounted
<1>4. /\ DOMAIN by_address' = DOMAIN by_address
      /\ by_address'[a] = [passcode |-> by_address[a].passcode,
                           binds |-> by_address[a].binds - 1,
                           touched |-> now]
      /\ \A x \in DOMAIN by_address : x # a => by_address'[x] = by_address[x]
  <2>1. by_address[a] \in Assignment
    BY <1>1 DEF TypeOK, IsMap
  <2>2. by_address' = [by_address EXCEPT
                         ![a].binds = SaturatingSub(@, 1), ![a].touched = now]
    BY <1>1 DEF Unbind
  <2>3. SaturatingSub(by_address[a].binds, 1) = by_address[a].binds - 1
    BY <1>3 DEF SaturatingSub
  <2>. QED  BY <1>1, <2>1, <2>2, <2>3 DEF Assignment
<1>5. /\ DOMAIN routes' = DOMAIN routes \ {key}
      /\ \A k \in DOMAIN routes \ {key} : routes'[k] = routes[k]
      /\ IsMap(routes', RouteKey, Relay)
  BY DEF Unbind, Restrict, TypeOK, IsMap
<1>6. handlers' = handlers \ {h} /\ UNCHANGED <<by_passcode, now>>
  BY DEF Unbind
<1>7. TypeOK'
  <2>1. by_address'[a] \in Assignment
    BY <1>1, <1>3, <1>4 DEF TypeOK, IsMap, Assignment
  <2>2. \A x \in DOMAIN by_address : by_address'[x] \in Assignment
    BY <1>4, <2>1 DEF TypeOK, IsMap
  <2>3. by_address' = [x \in DOMAIN by_address |-> by_address'[x]]
    BY <1>1 DEF Unbind, TypeOK, IsMap
  <2>4. IsMap(by_address', Address, Assignment)
    BY <1>4, <2>2, <2>3 DEF TypeOK, IsMap
  <2>. QED  BY <2>4, <1>5, <1>6 DEF TypeOK
<1>8. TablesAgree'
  BY <1>1, <1>4, <1>6 DEF TablesAgree
<1>9. RoutesMatchHandlers'
  <2>1. ASSUME NEW g \in handlers, g # h
        PROVE  g.key \in DOMAIN routes' /\ routes'[g.key] = g.relay
    <3>1. g.key \in DOMAIN routes /\ routes[g.key] = g.relay
      BY DEF RoutesMatchHandlers
    <3>2. g.key # key
      BY <3>1, <1>1, <2>1 DEF TypeOK, Handler
    <3>. QED  BY <3>1, <3>2, <1>5
  <2>2. ASSUME NEW k \in DOMAIN routes'
        PROVE  [key |-> k, relay |-> routes'[k]] \in handlers'
    BY <1>5, <1>6 DEF RoutesMatchHandlers
  <2>. QED  BY <2>1, <2>2, <1>6 DEF RoutesMatchHandlers
<1>10. RoutesFinite'
  BY <1>5, FS_RemoveElement DEF RoutesFinite
<1>11. BindsCounted'
  <2>1. \A k \in DOMAIN routes' : k[1] \in DOMAIN by_address'
    BY <1>4, <1>5 DEF BindsCounted
  <2>2. ASSUME NEW x \in DOMAIN by_address
        PROVE  by_address'[x].binds = Cardinality(RoutesOn(x)')
    <3>1. CASE x = a
      <4>1. RoutesOn(x)' = RoutesOn(x) \ {key} /\ key \in RoutesOn(x)
        BY <3>1, <1>1, <1>5 DEF RoutesOn
      <4>2. Cardinality(RoutesOn(x)') = Cardinality(RoutesOn(x)) - 1
        BY <1>2, <4>1, FS_RemoveElement
      <4>. QED  BY <3>1, <4>2, <1>4 DEF BindsCounted
    <3>2. CASE x # a
      <4>1. RoutesOn(x)' = RoutesOn(x)
        BY <3>2, <1>5 DEF RoutesOn
      <4>. QED  BY <3>2, <4>1, <1>4 DEF BindsCounted
    <3>. QED  BY <3>1, <3>2
  <2>. QED  BY <2>1, <2>2, <1>4 DEF BindsCounted
<1>. QED  BY <1>7, <1>8, <1>9, <1>10, <1>11

(* The clock touches no table.                                             *)
LEMMA TickInv ==
  ASSUME IInv, Tick
  PROVE  IInv'
BY DEF IInv, Tick, tables, TypeOK, TablesAgree, RoutesMatchHandlers,
       RoutesFinite, BindsCounted, RoutesOn

(* Nor does a stuttering step.                                             *)
LEMMA StutterInv ==
  ASSUME IInv, UNCHANGED vars
  PROVE  IInv'
BY DEF IInv, vars, TypeOK, TablesAgree, RoutesMatchHandlers,
       RoutesFinite, BindsCounted, RoutesOn

(* Every step keeps the invariant.                                         *)
LEMMA StepInv == IInv /\ [Next]_vars => IInv'
BY AssignInv, BindInv, UnbindInv, TickInv, StutterInv DEF Next

(* The inductive invariant holds in every state of every behaviour.        *)
THEOREM Invariance == Spec => []IInv
BY InitInv, StepInv, PTL DEF Spec

(* The state of network.rs keeps its types: the tables map addresses,      *)
(* passcodes and ports of this network, and no counter goes below zero.    *)
THEOREM TypeCorrect == Spec => []TypeOK
<1>1. IInv => TypeOK
  BY DEF IInv
<1>. QED  BY <1>1, Invariance, PTL

(* by_address and by_passcode are inverse: assign() and expire() always    *)
(* touch both, and bind() never fails with "Assignment is missing".        *)
THEOREM TablesStayInverse == Spec => []TablesAgree
<1>1. IInv => TablesAgree
  BY DEF IInv
<1>. QED  BY <1>1, Invariance, PTL

(* A port is bound by one live lease, and unbind() by key alone never      *)
(* takes away the port of somebody else.                                   *)
THEOREM OneHolderPerPort == Spec => []RoutesMatchHandlers
<1>1. IInv => RoutesMatchHandlers
  BY DEF IInv
<1>. QED  BY <1>1, Invariance, PTL

(* The counter that keeps an address from expiring is exact.               *)
THEOREM BindsExact == Spec => []BindsCounted
<1>1. IInv => BindsCounted
  BY DEF IInv
<1>. QED  BY <1>1, Invariance, PTL

-----------------------------------------------------------------------------
(* The step of HolderKeepsAddress, for one handler.                        *)
LEMMA HolderStep ==
  ASSUME IInv, IInv', [Next]_vars, NEW h \in handlers \cap handlers'
  PROVE  LET a == h.key[1]
         IN  /\ a \in DOMAIN by_address'
             /\ by_address'[a].passcode = by_address[a].passcode
             /\ by_passcode'[by_address[a].passcode] = a
<1>. DEFINE a == h.key[1]
<1>1. /\ h.key \in DOMAIN routes
      /\ a \in DOMAIN by_address
      /\ a \in DOMAIN by_address'
      /\ a \notin Stale
  BY HeldIsNotStale DEF IInv, RoutesMatchHandlers, BindsCounted
<1>2. by_address'[a].passcode = by_address[a].passcode
  <2>1. ASSUME NEW x \in Address, NEW p \in Passcode, Assign(x, p)
        PROVE  by_address'[a] = by_address[a]
    BY <1>1, <2>1 DEF Assign, Insert, Restrict
  <2>2. ASSUME NEW r \in Relay, NEW p \in Passcode, NEW n \in Port,
               Bind(r, p, n)
        PROVE  by_address'[a].passcode = by_address[a].passcode
    BY <1>1, <2>2 DEF Bind, IInv, TypeOK, IsMap, Assignment
  <2>3. ASSUME NEW g \in handlers, Unbind(g)
        PROVE  by_address'[a].passcode = by_address[a].passcode
    BY <1>1, <2>3 DEF Unbind, IInv, TypeOK, IsMap, Assignment
  <2>4. CASE Tick \/ UNCHANGED vars
    BY <2>4 DEF Tick, tables, vars
  <2>. QED  BY <2>1, <2>2, <2>3, <2>4 DEF Next
<1>3. by_passcode'[by_address'[a].passcode] = a
  BY <1>1 DEF IInv, TablesAgree
<1>. QED  BY <1>1, <1>2, <1>3

(* Whoever holds a port keeps the address and the passcode that opens it,  *)
(* whatever is assigned, bound, released or expired around it.             *)
THEOREM HoldersKeepTheirAddress == Spec => HolderKeepsAddress
<1>. DEFINE Keeps == \A h \in handlers \cap handlers' :
                       LET a == h.key[1]
                       IN  /\ a \in DOMAIN by_address'
                           /\ by_address'[a].passcode = by_address[a].passcode
                           /\ by_passcode'[by_address[a].passcode] = a
<1>1. IInv /\ IInv' /\ [Next]_vars => [Keeps]_vars
  BY HolderStep
<1>. QED  BY <1>1, Invariance, PTL DEF Spec, HolderKeepsAddress

-----------------------------------------------------------------------------
(***************************************************************************)
(* The network implements the address book, for any constants: each step   *)
(* on the tables and counters of network.rs is the step of the same kind   *)
(* on grants and claims.                                                   *)
(***************************************************************************)

(* The refinement mapping, named.                                          *)
Granted == [a \in DOMAIN by_address |-> by_address[a].passcode]
Idle    == [a \in DOMAIN by_address \ Held |-> by_address[a].touched]

(* A counter of zero and no handler on the address are the same thing.     *)
LEMMA HeldIffBound ==
  ASSUME IInv, NEW a \in DOMAIN by_address
  PROVE  (by_address[a].binds = 0) <=> (a \notin Held)
<1>1. IsFiniteSet(RoutesOn(a))
  <2>1. RoutesOn(a) \in SUBSET DOMAIN routes
    BY DEF RoutesOn
  <2>. QED  BY <2>1, FS_Subset DEF IInv, RoutesFinite
<1>2. (by_address[a].binds = 0) <=> (RoutesOn(a) = {})
  BY <1>1, FS_EmptySet DEF IInv, BindsCounted
<1>3. (RoutesOn(a) = {}) <=> (a \notin Held)
  <2>1. ASSUME NEW k \in RoutesOn(a) PROVE a \in Held
    <3>1. k[1] = a /\ [key |-> k, relay |-> routes[k]] \in handlers
      BY DEF RoutesOn, IInv, RoutesMatchHandlers
    <3>. QED  BY <3>1 DEF Held
  <2>2. ASSUME NEW h \in handlers, h.key[1] = a PROVE h.key \in RoutesOn(a)
    BY <2>2 DEF RoutesOn, IInv, RoutesMatchHandlers
  <2>. QED  BY <2>1, <2>2 DEF Held
<1>. QED  BY <1>2, <1>3

(* expire() forgets exactly what the address book calls overdue.           *)
LEMMA StaleIsOverdue ==
  ASSUME IInv
  PROVE  AB!Overdue = Stale
<1>1. AB!Overdue = {a \in DOMAIN by_address \ Held :
                      now - by_address[a].touched >= TTL}
  BY DEF AB!Overdue
<1>2. \A a \in DOMAIN by_address : (by_address[a].binds = 0) <=> (a \notin Held)
  BY HeldIffBound
<1>. QED  BY <1>1, <1>2 DEF Stale

(* The empty network is the empty address book.                            *)
LEMMA InitMaps == Init => AB!Init
BY DEF Init, AB!Init, Held

(* assign() is a grant: what it expires is what is overdue.                *)
LEMMA AssignMaps ==
  ASSUME IInv, NEW a \in Address, NEW p \in Passcode, Assign(a, p)
  PROVE  AB!Grant(a, p)
<1>. DEFINE kept  == DOMAIN by_address \ Stale
            entry == [passcode |-> p, binds |-> 0, touched |-> now]
<1>1. AB!Overdue = Stale
  BY StaleIsOverdue
<1>2. /\ a \notin kept
      /\ by_address' = [x \in kept \cup {a} |->
                         IF x = a THEN entry ELSE by_address[x]]
      /\ UNCHANGED <<routes, handlers, now>>
  BY DEF Assign, Insert, Restrict
<1>3. \A x \in kept : by_address[x].passcode # p
  <2>1. ASSUME NEW x \in kept
        PROVE  by_address[x].passcode \in DOMAIN by_passcode \ StalePasscodes
    BY DEF StalePasscodes, Stale, IInv, TablesAgree
  <2>. QED  BY <2>1 DEF Assign, Restrict
<1>4. Held' = Held /\ Held \cap Stale = {} /\ a \notin Held
  <2>1. \A h \in handlers : h.key[1] \in kept
    BY HeldIsNotStale DEF IInv, RoutesMatchHandlers, BindsCounted
  <2>. QED  BY <1>2, <2>1 DEF Held
<1>5. Granted' = [x \in kept \cup {a} |-> IF x = a THEN p ELSE Granted[x]]
  BY <1>2 DEF Granted
<1>6. Idle' = [x \in ((DOMAIN by_address \ Held) \ Stale) \cup {a} |->
                IF x = a THEN now ELSE Idle[x]]
  <2>1. (DOMAIN by_address \ Held)' = ((DOMAIN by_address \ Held) \ Stale) \cup {a}
    BY <1>2, <1>4
  <2>. QED  BY <1>2, <2>1 DEF Idle
<1>. QED  BY <1>1, <1>2, <1>3, <1>5, <1>6 DEF AB!Grant, Granted, Idle

(* bind() is a claim by whoever knows the passcode.                        *)
LEMMA BindMaps ==
  ASSUME IInv, NEW r \in Relay, NEW p \in Passcode, NEW n \in Port,
         Bind(r, p, n)
  PROVE  AB!Claim(r, p, n)
<1>. DEFINE a == by_passcode[p]
            h == [key |-> <<a, n>>, relay |-> r]
<1>1. /\ n # 0
      /\ a \in DOMAIN by_address
      /\ by_address[a].passcode = p
      /\ <<a, n>> \notin DOMAIN routes
      /\ handlers' = handlers \cup {h}
      /\ now' = now
  BY DEF Bind, CanBind, IInv, TablesAgree
<1>2. \A c \in handlers : c.key # <<a, n>>
  BY <1>1 DEF IInv, RoutesMatchHandlers
<1>3. /\ DOMAIN by_address' = DOMAIN by_address
      /\ \A x \in DOMAIN by_address :
           /\ by_address'[x].passcode = by_address[x].passcode
           /\ x # a => by_address'[x].touched = by_address[x].touched
  <2>1. by_address[a] \in Assignment
    BY <1>1 DEF IInv, TypeOK, IsMap
  <2>. QED  BY <1>1, <2>1 DEF Bind, Assignment
<1>4. Granted' = Granted
  BY <1>3 DEF Granted
<1>5. Held' = Held \cup {a}
  <2>1. h.key[1] = a /\ h \in handlers'
    BY <1>1
  <2>2. Held \subseteq Held' /\ a \in Held'
    BY <1>1, <2>1 DEF Held
  <2>3. ASSUME NEW x \in Held' PROVE x \in Held \cup {a}
    <3>1. PICK g \in handlers' : g.key[1] = x
      BY DEF Held
    <3>. QED  BY <1>1, <2>1, <3>1 DEF Held
  <2>. QED  BY <2>2, <2>3
<1>6. Idle' = [x \in (DOMAIN by_address \ Held) \ {a} |-> Idle[x]]
  <2>1. (DOMAIN by_address \ Held)' = (DOMAIN by_address \ Held) \ {a}
    BY <1>3, <1>5
  <2>. QED  BY <1>3, <2>1 DEF Idle
<1>7. Idle' = Restrict(Idle, DOMAIN Idle \ {a})
  BY <1>6 DEF Restrict, Idle
<1>8. Granted[a] = p /\ a \in DOMAIN Granted
  BY <1>1 DEF Granted
<1>. QED  BY <1>1, <1>2, <1>4, <1>7, <1>8 DEF AB!Claim, AB!Restrict, Restrict, Granted, Idle

(* The drop of a lease is the release of its claim.                        *)
LEMMA UnbindMaps ==
  ASSUME IInv, NEW h \in handlers, Unbind(h)
  PROVE  AB!Release(h)
<1>. DEFINE a == h.key[1]
<1>1. /\ h.key \in DOMAIN routes
      /\ a \in DOMAIN by_address
      /\ a \in Held
      /\ handlers' = handlers \ {h}
      /\ now' = now
  BY DEF Unbind, IInv, RoutesMatchHandlers, BindsCounted, Held
<1>2. /\ DOMAIN by_address' = DOMAIN by_address
      /\ by_address'[a].touched = now
      /\ \A x \in DOMAIN by_address :
           /\ by_address'[x].passcode = by_address[x].passcode
           /\ x # a => by_address'[x].touched = by_address[x].touched
  <2>1. by_address[a] \in Assignment
    BY <1>1 DEF IInv, TypeOK, IsMap
  <2>. QED  BY <1>1, <2>1 DEF Unbind, Assignment
<1>3. Granted' = Granted
  BY <1>2 DEF Granted
<1>4. CASE AB!ClaimsOn(a) = {h}
  <2>1. Held' = Held \ {a}
    BY <1>1, <1>4 DEF Held, AB!ClaimsOn
  <2>2. (DOMAIN by_address \ Held)' = (DOMAIN by_address \ Held) \cup {a}
    BY <1>1, <1>2, <2>1
  <2>3. Idle' = [x \in (DOMAIN by_address \ Held) \cup {a} |->
                   IF x = a THEN now ELSE Idle[x]]
    BY <1>2, <1>1, <2>2 DEF Idle
  <2>. QED  BY <1>1, <1>3, <1>4, <2>3 DEF AB!Release, Granted, Idle
<1>5. CASE AB!ClaimsOn(a) # {h}
  <2>1. PICK g \in handlers : g # h /\ g.key[1] = a
    BY <1>5 DEF AB!ClaimsOn
  <2>2. Held' = Held
    BY <1>1, <2>1 DEF Held
  <2>3. Idle' = Idle
    BY <1>1, <1>2, <2>2 DEF Idle
  <2>. QED  BY <1>1, <1>3, <1>5, <2>3 DEF AB!Release, Granted, Idle
<1>. QED  BY <1>4, <1>5

(* Every step of the network is a step of the address book, or none.       *)
LEMMA StepMaps == IInv /\ [Next]_vars => [AB!Next]_(AB!vars)
<1>. SUFFICES ASSUME IInv, [Next]_vars PROVE [AB!Next]_(AB!vars)
  OBVIOUS
<1>1. CASE Next
  <2>1. CASE Tick
    BY <2>1 DEF Tick, tables, AB!Next, AB!Tick, Held
  <2>. QED
    BY <1>1, <2>1, AssignMaps, BindMaps, UnbindMaps DEF Next, AB!Next
<1>2. CASE UNCHANGED vars
  BY <1>2 DEF vars, AB!vars, Held
<1>. QED  BY <1>1, <1>2

(* network.rs keeps the promises of the address book: what it decides from *)
(* its counter, its time stamps and its passcode index is what the grants  *)
(* and the claims themselves would decide.                                 *)
THEOREM NetworkImplementsAddressBook == Spec => ImplementsAddressBook
<1>1. Init => AB!Init
  BY InitMaps
<1>2. IInv /\ [Next]_vars => [AB!Next]_(AB!vars)
  BY StepMaps
<1>. QED  BY <1>1, <1>2, Invariance, PTL DEF Spec, ImplementsAddressBook, AB!Spec
=============================================================================
