---------------------------- MODULE AddressBook ----------------------------
(***************************************************************************)
(* What the private network promises its clients about addresses and       *)
(* ports, said without the tables and counters network.rs keeps:           *)
(*                                                                         *)
(*   - an address is granted together with a passcode nobody else has;     *)
(*   - a port of an address has at most one claim, made with the passcode  *)
(*     of that address;                                                    *)
(*   - an address with a claim on it stays granted, with its passcode;     *)
(*   - an address nothing is claimed on is forgotten once it has been      *)
(*     idle for TTL, at the next grant: not earlier and not later.         *)
(***************************************************************************)
EXTENDS Integers, Functions

CONSTANTS Address, Passcode, Port, Relay,
          TTL,      \* how long an idle address stays granted
          MaxTime   \* bound on the clock

VARIABLES granted,  \* Address -> Passcode, where granted
          claims,   \* the claims on ports: [key, relay]
          idle,     \* granted address without a claim -> idle since
          now

vars == <<granted, claims, idle, now>>

RouteKey == Address \X Port
Claims   == [key : RouteKey, relay : Relay]

ClaimsOn(a) == {c \in claims : c.key[1] = a}

Init == /\ granted = [a \in {} |-> {}]
        /\ claims = {}
        /\ idle = [a \in {} |-> 0]
        /\ now = 0

Overdue == {a \in DOMAIN idle : now - idle[a] >= TTL}

(* A fresh address and a fresh passcode; what is overdue is forgotten.     *)
Grant(address, passcode) ==
  LET kept == DOMAIN granted \ Overdue
  IN  /\ address \notin kept
      /\ \A a \in kept : granted[a] # passcode
      /\ granted' = [a \in kept \cup {address} |->
                       IF a = address THEN passcode ELSE granted[a]]
      /\ idle' = [a \in (DOMAIN idle \ Overdue) \cup {address} |->
                    IF a = address THEN now ELSE idle[a]]
      /\ UNCHANGED <<claims, now>>

(* A claim on a free port of the address granted with the passcode.        *)
Claim(relay, passcode, port) ==
  \E address \in DOMAIN granted :
    /\ granted[address] = passcode
    /\ port # 0
    /\ \A c \in claims : c.key # <<address, port>>
    /\ claims' = claims \cup {[key |-> <<address, port>>, relay |-> relay]}
    /\ idle' = Restrict(idle, DOMAIN idle \ {address})
    /\ UNCHANGED <<granted, now>>

(* A claim is given up; the last one leaves its address idle from now on.  *)
Release(c) ==
  LET address == c.key[1]
  IN  /\ c \in claims
      /\ claims' = claims \ {c}
      /\ idle' = IF ClaimsOn(address) = {c}
                 THEN [a \in DOMAIN idle \cup {address} |->
                         IF a = address THEN now ELSE idle[a]]
                 ELSE idle
      /\ UNCHANGED <<granted, now>>

Tick == /\ now < MaxTime
        /\ now' = now + 1
        /\ UNCHANGED <<granted, claims, idle>>

Next == \/ \E a \in Address, p \in Passcode : Grant(a, p)
        \/ \E r \in Relay, p \in Passcode, n \in Port : Claim(r, p, n)
        \/ \E c \in claims : Release(c)
        \/ Tick

Spec == Init /\ [][Next]_vars
=============================================================================
