----------------------------- MODULE Lifecycle -----------------------------
(***************************************************************************)
(* The process: main.rs, which starts an endpoint for each serve block of  *)
(* the settings in turn and then waits for all of them, the listeners and  *)
(* runners of both protocols, which accept sessions until accepting fails, *)
(* and the sessions, of which only matters here that they are tasks that   *)
(* nobody joins: the runtime drops them when main ends.                    *)
(*                                                                         *)
(* An Option is a set of at most one element.                              *)
(***************************************************************************)
EXTENDS Naturals, Sequences, FiniteSets

CONSTANTS
  Session,   \* the sessions that may be accepted
  MaxServe   \* bound on the number of serve blocks

ASSUME LifecycleAssumption == MaxServe \in Nat

Endpoint == 1 .. MaxServe

FromFiles == 0   \* the certificate of tls_cert and tls_key

(* A serve block.  tls_self asks for the process's own certificate, and    *)
(* means nothing to "ws".  Any other protocol is "other".                  *)
ServeConfig == [protocol : {"ws", "wss", "wt", "other"}, tls_self : BOOLEAN]

VARIABLES
  serve,     \* the serve blocks of the settings file
  main,      \* what main() is doing, or how it has ended
  done,      \* how many endpoints it has started, or joined
  selfcert,  \* SELFCERT, named after the endpoint that has made it
  cert,      \* endpoint -> its certificate, {} in the clear
  listener,  \* endpoint -> what its runner is doing
  home,      \* session -> the endpoint that has accepted it, {} before
  fate       \* session -> what has become of it

vars == <<serve, main, done, selfcert, cert, listener, home, fate>>

Ended == {"ok", "error", "panicked"}

TypeOK ==
  /\ serve \in UNION {[1 .. n -> ServeConfig] : n \in 0 .. MaxServe}
  /\ main \in {"loading", "starting", "joining"} \cup Ended
  /\ done \in 0 .. Len(serve)
  /\ selfcert \subseteq Endpoint /\ Cardinality(selfcert) <= 1
  /\ cert \in [Endpoint -> SUBSET (Endpoint \cup {FromFiles})]
  /\ listener \in [Endpoint -> {"none", "accepting", "over", "cut"}]
  /\ home \in [Session -> SUBSET Endpoint]
  /\ fate \in [Session -> {"new", "open", "over", "cut"}]

Init ==
  /\ serve \in UNION {[1 .. n -> ServeConfig] : n \in 0 .. MaxServe}
  /\ main = "loading" /\ done = 0 /\ selfcert = {}
  /\ cert = [i \in Endpoint |-> {}]
  /\ listener = [i \in Endpoint |-> "none"]
  /\ home = [s \in Session |-> {}]
  /\ fate = [s \in Session |-> "new"]

-----------------------------------------------------------------------------
(* Some definitions are preceded by a variant of them with a mistake in    *)
(* it: the properties are tried on these as well.                          *)

(* main() returns or unwinds, and the runtime drops every task there is.   *)
MainEnds(how) ==
  /\ main' = how
  /\ listener' = [i \in Endpoint |-> IF listener[i] = "accepting" THEN "cut" ELSE listener[i]]
  /\ fate' = [s \in Session |-> IF fate[s] = "open" THEN "cut" ELSE fate[s]]
  /\ UNCHANGED <<serve, done, selfcert, cert, home>>

(* Settings::load().  A file that cannot be read, or does not make sense,  *)
(* is an error, and so is one without a serve block.                       *)
LoadFails == main = "loading" /\ MainEnds("error")

Load ==
  /\ main = "loading"
  /\ \/ serve = <<>> /\ MainEnds("error")
     \/ /\ serve # <<>> /\ main' = "starting"
        /\ UNCHANGED <<serve, done, selfcert, cert, listener, home, fate>>

Starting(i) == main = "starting" /\ done < Len(serve) /\ i = done + 1

Secure(i) == serve[i].protocol \in {"wss", "wt"}

(* Makes a certificate for every endpoint that asks for one.               *)
SelfCertEach(i) ==
  IF serve[i].tls_self /\ Secure(i) THEN selfcert \cup {i} ELSE selfcert

(* SELFCERT.get_or_init().                                                 *)
SelfCert(i) ==
  IF serve[i].tls_self /\ Secure(i) /\ selfcert = {} THEN {i} ELSE selfcert

(* read_certs().                                                           *)
ReadCerts(i) ==
  IF ~Secure(i) THEN {} ELSE IF serve[i].tls_self THEN SelfCert(i) ELSE {FromFiles}

(* The listener has its address, and the task of its runner is spawned.    *)
StartEndpoint(i) ==
  /\ Starting(i) /\ serve[i].protocol # "other"
  /\ selfcert' = SelfCert(i)
  /\ cert' = [cert EXCEPT ![i] = ReadCerts(i)]
  /\ listener' = [listener EXCEPT ![i] = "accepting"]
  /\ done' = done + 1
  /\ UNCHANGED <<serve, main, home, fate>>

(* Leaves the endpoint out.                                                *)
StartSkips(i) ==
  /\ Starting(i) /\ done' = done + 1
  /\ UNCHANGED <<serve, main, selfcert, cert, listener, home, fate>>

(* No certificate, or the address cannot be bound: main() returns it.      *)
StartFails(i) ==
  /\ Starting(i) /\ serve[i].protocol # "other"
  /\ MainEnds("error")

(* An unknown protocol, or a self-signed certificate that cannot be made.  *)
StartPanics(i) ==
  /\ Starting(i)
  /\ \/ serve[i].protocol = "other"
     \/ Secure(i) /\ serve[i].tls_self /\ selfcert = {}
  /\ MainEnds("panicked")

(* All are up.  The task of the service itself has nothing to do and is    *)
(* joined first.                                                           *)
AllStarted ==
  /\ main = "starting" /\ done = Len(serve)
  /\ main' = "joining" /\ done' = 0
  /\ UNCHANGED <<serve, selfcert, cert, listener, home, fate>>

(* Takes the first listener that ends for all of them.                     *)
JoinsAny(i) == \E j \in 1 .. Len(serve) : listener[j] = "over"

(* Waits for the sessions of the listener too.                             *)
JoinsSessions(i) == /\ listener[i] = "over"
                    /\ \A s \in Session : home[s] = {i} => fate[s] # "open"

Joins(i) == listener[i] = "over"

Join(i) ==
  /\ main = "joining" /\ done < Len(serve) /\ i = done + 1
  /\ Joins(i)
  /\ done' = done + 1
  /\ UNCHANGED <<serve, main, selfcert, cert, listener, home, fate>>

Finish == main = "joining" /\ done = Len(serve) /\ MainEnds("ok")

-----------------------------------------------------------------------------
(* run_inner() of the runners: a task for each session that is accepted.   *)
Accept(i, s) ==
  /\ listener[i] = "accepting" /\ fate[s] = "new"
  /\ home' = [home EXCEPT ![s] = {i}]
  /\ fate' = [fate EXCEPT ![s] = "open"]
  /\ UNCHANGED <<serve, main, done, selfcert, cert, listener>>

(* The first error of accept() ends the loop, whatever it is.              *)
AcceptFails(i) ==
  /\ listener[i] = "accepting"
  /\ listener' = [listener EXCEPT ![i] = "over"]
  /\ UNCHANGED <<serve, main, done, selfcert, cert, home, fate>>

SessionEnds(s) ==
  /\ fate[s] = "open"
  /\ fate' = [fate EXCEPT ![s] = "over"]
  /\ UNCHANGED <<serve, main, done, selfcert, cert, listener, home>>

MainNext == \/ LoadFails \/ Load \/ AllStarted \/ Finish
            \/ \E i \in Endpoint : \/ StartEndpoint(i) \/ StartFails(i)
                                   \/ StartPanics(i) \/ Join(i)

Next == \/ MainNext
        \/ \E i \in Endpoint : AcceptFails(i) \/ \E s \in Session : Accept(i, s)
        \/ \E s \in Session : SessionEnds(s)

Spec == Init /\ [][Next]_vars

(* main() runs.  A listener may accept for ever, a session may stay.       *)
FairSpec == Spec /\ WF_vars(MainNext)

-----------------------------------------------------------------------------
(* Either every endpoint of the settings is up, or the process is not:     *)
(* main() does not settle for a part of them.                              *)
AllOrNothing ==
  main \in {"joining", "ok"} => \A i \in 1 .. Len(serve) : listener[i] # "none"

(* Once every endpoint is up, nothing that befalls one of them cuts off    *)
(* the clients of another: sessions are cut by a start that fails later    *)
(* on, or when nothing accepts any more.                                   *)
OneListenerCutsNobody ==
  \A s \in Session : fate[s] = "cut" =>
    IF main = "ok" THEN \A i \in 1 .. Len(serve) : listener[i] = "over"
                   ELSE listener[Len(serve)] = "none"

(* A secure endpoint does not accept anybody without a certificate, and    *)
(* all that are self-signed show the same one, whenever they were started. *)
CertificatesAreShared ==
  \A i, j \in 1 .. Len(serve) :
    /\ listener[i] = "accepting" => (Secure(i) <=> cert[i] # {})
    /\ /\ {i, j} \subseteq {k \in 1 .. Len(serve) : Secure(k) /\ serve[k].tls_self}
       /\ {listener[i], listener[j]} \cap {"none"} = {}
       => cert[i] = cert[j]

(* The process does not linger as one that no client can reach: when the   *)
(* last listener has ended it ends, with sessions or without.              *)
EndsWithItsListeners ==
  (main = "joining" /\ \A i \in 1 .. Len(serve) : listener[i] = "over") ~> main = "ok"
=============================================================================
