------------------------------ MODULE Network ------------------------------
(***************************************************************************)
(* The private network of the proxy, service/net/network.rs: who holds     *)
(* which address, which ports are bound on it, and where the datagrams     *)
(* sent to a bound port go.                                                *)
(*                                                                         *)
(* Every method of Network takes the one std Mutex around NetworkState for *)
(* its whole critical section and awaits nothing inside it, so each is one *)
(* action here.  A BindHandler is what bind() returns inside a ProxyLease; *)
(* dropping it calls unbind() with the key it was made for.                *)
(***************************************************************************)
EXTENDS Integers, FiniteSets, Functions

CONSTANTS
  Address,   \* the addresses random_address() can return
  Passcode,  \* the passcodes Passcode::new() can return
  Port,      \* u16 port numbers, 0 among them
  Relay,     \* the relay channels of the sessions
  TTL,       \* ASSIGNMENT_TTL, in ticks of the clock
  MaxTime    \* bound on the clock

ASSUME NetworkAssumption == /\ Port \subseteq Nat
                            /\ TTL \in Nat
                            /\ MaxTime \in Nat

VARIABLES
  by_address,   \* Address -> [passcode, binds, touched]
  by_passcode,  \* Passcode -> Address
  routes,       \* <<address, port>> -> the relay of whoever bound it
  handlers,     \* the BindHandlers alive: [key, relay]
  now           \* Instant::now()

tables == <<by_address, by_passcode, routes>>
vars   == <<by_address, by_passcode, routes, handlers, now>>

RouteKey   == Address \X Port
Assignment == [passcode : Passcode, binds : Nat, touched : Nat]
Handler    == [key : RouteKey, relay : Relay]

(* HashMap: the partial functions, and insertion of one entry.             *)
IsMap(f, S, T)  == DOMAIN f \subseteq S /\ f \in [DOMAIN f -> T]
Insert(f, k, v) == [x \in DOMAIN f \cup {k} |-> IF x = k THEN v ELSE f[x]]

TypeOK == /\ IsMap(by_address, Address, Assignment)
          /\ IsMap(by_passcode, Passcode, Address)
          /\ IsMap(routes, RouteKey, Relay)
          /\ handlers \in SUBSET Handler
          /\ now \in Nat

Init == /\ by_address = [a \in {} |-> {}]
        /\ by_passcode = [p \in {} |-> {}]
        /\ routes = [k \in {} |-> {}]
        /\ handlers = {}
        /\ now = 0

-----------------------------------------------------------------------------
(* Some definitions are preceded by a variant of them with a mistake in    *)
(* it: the properties are tried on these as well.                          *)

(* Forgets addresses by their age alone.                                   *)
StaleByAge == {a \in DOMAIN by_address : now - by_address[a].touched >= TTL}

(* Forgets one tick too late.                                              *)
StaleLate == {a \in DOMAIN by_address :
                /\ by_address[a].binds = 0
                /\ now - by_address[a].touched > TTL}

(* expire(): nothing bound, and untouched for ASSIGNMENT_TTL.              *)
Stale == {a \in DOMAIN by_address :
            /\ by_address[a].binds = 0
            /\ now - by_address[a].touched >= TTL}

(* Forgets the addresses and not their passcodes.                          *)
NoPasscodes == {}

StalePasscodes == {by_address[a].passcode : a \in Stale}

(* assign(): expire, then the first random pair that is in neither table.  *)
Assign(address, passcode) ==
  LET addresses == Restrict(by_address, DOMAIN by_address \ Stale)
      passcodes == Restrict(by_passcode, DOMAIN by_passcode \ StalePasscodes)
  IN  /\ address \notin DOMAIN addresses
      /\ passcode \notin DOMAIN passcodes
      /\ by_address' = Insert(addresses, address,
                         [passcode |-> passcode, binds |-> 0, touched |-> now])
      /\ by_passcode' = Insert(passcodes, passcode, address)
      /\ UNCHANGED <<routes, handlers, now>>

(* Takes over a port that is bound.                                        *)
CanTakeOver(passcode, port) ==
  /\ port # 0
  /\ passcode \in DOMAIN by_passcode
  /\ by_passcode[passcode] \in DOMAIN by_address

(* The conditions under which bind() succeeds, in the order of its ensures.*)
CanBind(passcode, port) ==
  /\ port # 0
  /\ passcode \in DOMAIN by_passcode
  /\ <<by_passcode[passcode], port>> \notin DOMAIN routes
  /\ by_passcode[passcode] \in DOMAIN by_address

(* bind(), when it succeeds; when it does not it changes nothing.          *)
Bind(relay, passcode, port) ==
  LET address == by_passcode[passcode]
      key     == <<address, port>>
  IN  /\ CanBind(passcode, port)
      /\ by_address' = [by_address EXCEPT
                          ![address].binds = @ + 1,
                          ![address].touched = now]
      /\ routes' = Insert(routes, key, relay)
      /\ handlers' = handlers \cup {[key |-> key, relay |-> relay]}
      /\ UNCHANGED <<by_passcode, now>>

(* Does not count down; subtracts the wrong way around.                    *)
NoSub(m, n)      == m
SwappedSub(m, n) == n - m

(* usize::saturating_sub.                                                  *)
SaturatingSub(m, n) == IF m < n THEN 0 ELSE m - n

(* BindHandler::close(), run by the drop of the lease: unbind(key).        *)
Unbind(h) ==
  LET address == h.key[1]
  IN  /\ h \in handlers
      /\ handlers' = handlers \ {h}
      /\ routes' = Restrict(routes, DOMAIN routes \ {h.key})
      /\ by_address' =
           IF h.key \in DOMAIN routes /\ address \in DOMAIN by_address
           THEN [by_address EXCEPT
                   ![address].binds = SaturatingSub(@, 1),
                   ![address].touched = now]
           ELSE by_address
      /\ UNCHANGED <<by_passcode, now>>

Tick == /\ now < MaxTime
        /\ now' = now + 1
        /\ UNCHANGED <<tables, handlers>>

Next == \/ \E a \in Address, p \in Passcode : Assign(a, p)
        \/ \E r \in Relay, p \in Passcode, n \in Port : Bind(r, p, n)
        \/ \E h \in handlers : Unbind(h)
        \/ Tick

Spec == Init /\ [][Next]_vars

-----------------------------------------------------------------------------
(* The passcode index and the address table are inverse to each other, so  *)
(* a passcode opens the one address it was issued with, bind() never meets *)
(* its "Assignment is missing", and expire() leaves no passcode behind     *)
(* that would open an address handed out again.                            *)
TablesAgree ==
  /\ \A a \in DOMAIN by_address :
       /\ by_address[a].passcode \in DOMAIN by_passcode
       /\ by_passcode[by_address[a].passcode] = a
  /\ \A p \in DOMAIN by_passcode :
       /\ by_passcode[p] \in DOMAIN by_address
       /\ by_address[by_passcode[p]].passcode = p

(* unbind() removes a route by key alone, without asking whose it is: that *)
(* is right only because every live BindHandler owns the route under its   *)
(* key and every route belongs to a live BindHandler.                      *)
RoutesMatchHandlers ==
  /\ \A h \in handlers : h.key \in DOMAIN routes /\ routes[h.key] = h.relay
  /\ \A k \in DOMAIN routes : [key |-> k, relay |-> routes[k]] \in handlers

RoutesOn(a) == {k \in DOMAIN routes : k[1] = a}

(* binds is the number of routes on the address, so an address is held     *)
(* against expiry exactly while something is bound on it; a route on a     *)
(* forgotten address does not exist.                                       *)
BindsCounted ==
  /\ \A k \in DOMAIN routes : k[1] \in DOMAIN by_address
  /\ \A a \in DOMAIN by_address :
       by_address[a].binds = Cardinality(RoutesOn(a))

(* A client holding a port keeps its address and passcode for as long as   *)
(* it holds the port, whatever else is assigned, bound or expired.         *)
HolderKeepsAddress ==
  [][\A h \in handlers \cap handlers' :
       LET a == h.key[1]
       IN  /\ a \in DOMAIN by_address'
           /\ by_address'[a].passcode = by_address[a].passcode
           /\ by_passcode'[by_address[a].passcode] = a]_vars

-----------------------------------------------------------------------------
(* The network implements the address book: what network.rs decides from a *)
(* counter, a time stamp and an index is what the claims themselves say.   *)
Held == {h.key[1] : h \in handlers}

AB == INSTANCE AddressBook WITH
        granted <- [a \in DOMAIN by_address |-> by_address[a].passcode],
        claims  <- handlers,
        idle    <- [a \in DOMAIN by_address \ Held |-> by_address[a].touched]

ImplementsAddressBook == AB!Spec
=============================================================================
