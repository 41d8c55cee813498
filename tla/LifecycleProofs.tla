-------------------------- MODULE LifecycleProofs --------------------------
(***************************************************************************)
(* Proofs about the process, for any number of endpoints and sessions.     *)
(*                                                                         *)
(* What each phase of main() knows of the listeners is what makes the      *)
(* invariants inductive: while it starts them, exactly the first `done`    *)
(* are there, so a start that fails leaves the last one out; while it      *)
(* joins them, the first `done` are over, so main() returns after all.     *)
(***************************************************************************)
EXTENDS Lifecycle, FiniteSetTheorems, TLAPS

Phases ==
  /\ main = "loading" => /\ \A i \in Endpoint : listener[i] = "none"
                         /\ \A s \in Session : fate[s] = "new"
                         /\ done = 0
  /\ main = "starting" => \A i \in Endpoint : i <= done <=> listener[i] # "none"
  /\ main = "joining"  => \A i \in 1 .. done : listener[i] = "over"
  /\ main \in {"starting", "joining"} => serve # <<>>
  /\ main \notin Ended => \A s \in Session : fate[s] # "cut"
  /\ \A s \in Session : fate[s] = "cut" => serve # <<>>

(* Every endpoint that has been started got the certificate it should.     *)
Certified ==
  \A i \in 1 .. Len(serve) : listener[i] # "none" =>
    IF Secure(i) /\ serve[i].tls_self
    THEN selfcert # {} /\ cert[i] = selfcert
    ELSE cert[i] = IF Secure(i) THEN {FromFiles} ELSE {}

IInv == /\ TypeOK
        /\ Phases
        /\ AllOrNothing
        /\ OneListenerCutsNobody
        /\ Certified

-----------------------------------------------------------------------------
(* The endpoints of the settings are endpoints.                            *)
LEMMA ServeLength ==
  ASSUME TypeOK
  PROVE  /\ Len(serve) \in 0 .. MaxServe
         /\ serve = <<>> <=> Len(serve) = 0
         /\ 1 .. Len(serve) \subseteq Endpoint
<1>1. PICK n \in 0 .. MaxServe : serve \in [1 .. n -> ServeConfig]
  BY DEF TypeOK
<1>2. serve \in Seq(ServeConfig) /\ Len(serve) = n
  BY <1>1, LifecycleAssumption
<1>. QED  BY <1>1, <1>2, LifecycleAssumption DEF Endpoint

(* Nothing has been started.                                               *)
LEMMA InitInv == Init => IInv
<1>. SUFFICES ASSUME Init PROVE IInv
  OBVIOUS
<1>1. 0 \in 0 .. Len(serve)
  <2>1. PICK n \in 0 .. MaxServe : serve \in [1 .. n -> ServeConfig]
    BY DEF Init
  <2>2. serve \in Seq(ServeConfig) /\ Len(serve) = n
    BY <2>1, LifecycleAssumption
  <2>. QED  BY <2>2
<1>2. TypeOK
  BY <1>1, FS_EmptySet DEF Init, TypeOK
<1>3. \A i \in 1 .. Len(serve) : listener[i] = "none"
  BY <1>2, ServeLength DEF Init
<1>. QED
  BY <1>2, <1>3 DEF Init, IInv, Phases, AllOrNothing, OneListenerCutsNobody,
                    Certified, Ended

(* The end of main() keeps what IInv says of listeners and sessions, if it *)
(* is an end that OneListenerCutsNobody allows.                            *)
LEMMA MainEndsInv ==
  ASSUME IInv, NEW how \in Ended, MainEnds(how),
         how = "ok" => \A i \in 1 .. Len(serve) : listener[i] = "over",
         how # "ok" => \/ \A s \in Session : fate[s] = "new"
                       \/ serve # <<>> /\ listener[Len(serve)] = "none",
         how = "ok" => serve # <<>>
  PROVE  IInv'
<1>1. TypeOK'
  BY DEF IInv, TypeOK, MainEnds, Ended
<1>2. /\ Len(serve) \in 0 .. MaxServe /\ (serve = <<>> <=> Len(serve) = 0)
      /\ 1 .. Len(serve) \subseteq Endpoint
  BY ServeLength DEF IInv
<1>3. \A i \in 1 .. Len(serve) : /\ listener[i] = "none" <=> listener'[i] = "none"
                                 /\ listener[i] = "over" => listener'[i] = "over"
  BY <1>2 DEF MainEnds
<1>4. Phases'
  BY <1>2 DEF IInv, Phases, TypeOK, MainEnds, Ended
<1>5. AllOrNothing'
  BY <1>2, <1>3 DEF MainEnds, AllOrNothing, Ended
<1>6. OneListenerCutsNobody'
  <2>1. CASE how = "ok"
    BY <2>1, <1>3 DEF MainEnds, OneListenerCutsNobody
  <2>2. CASE how # "ok" /\ \A s \in Session : fate[s] = "new"
    BY <2>2 DEF MainEnds, OneListenerCutsNobody
  <2>3. CASE how # "ok" /\ serve # <<>> /\ listener[Len(serve)] = "none"
    <3>1. Len(serve) \in 1 .. Len(serve)
      BY <2>3, <1>2, LifecycleAssumption
    <3>. QED  BY <2>3, <3>1, <1>3 DEF MainEnds, OneListenerCutsNobody
  <2>. QED  BY <2>1, <2>2, <2>3
<1>7. Certified'
  BY <1>3 DEF IInv, Certified, MainEnds, Secure
<1>. QED  BY <1>1, <1>4, <1>5, <1>6, <1>7 DEF IInv

(* main() makes up its mind about the settings.                            *)
LEMMA LoadInv == ASSUME IInv, Load \/ LoadFails PROVE IInv'
<1>1. main = "loading" /\ \A s \in Session : fate[s] = "new"
  BY DEF IInv, Phases, Load, LoadFails
<1>2. CASE MainEnds("error")
  BY <1>1, <1>2, MainEndsInv DEF Ended
<1>3. CASE /\ serve # <<>> /\ main' = "starting"
           /\ UNCHANGED <<serve, done, selfcert, cert, listener, home, fate>>
  <2>1. TypeOK'
    BY <1>3 DEF IInv, TypeOK
  <2>2. Phases'
    BY <1>1, <1>3 DEF IInv, TypeOK, Phases, Ended, Endpoint
  <2>3. AllOrNothing' /\ OneListenerCutsNobody' /\ Certified'
    BY <1>1, <1>3 DEF IInv, AllOrNothing, OneListenerCutsNobody, Certified, Secure
  <2>. QED  BY <2>1, <2>2, <2>3 DEF IInv
<1>. QED  BY <1>2, <1>3 DEF Load, LoadFails

(* What is next to be started is not there yet, nor is anything after it.  *)
LEMMA NotStartedYet ==
  ASSUME IInv, NEW i, Starting(i)
  PROVE  /\ i \in 1 .. Len(serve) /\ i = done + 1
         /\ listener[i] = "none" /\ listener[Len(serve)] = "none"
         /\ Len(serve) \in 1 .. Len(serve) /\ serve # <<>>
<1>1. /\ Len(serve) \in 0 .. MaxServe /\ (serve = <<>> <=> Len(serve) = 0)
      /\ 1 .. Len(serve) \subseteq Endpoint
  BY ServeLength DEF IInv
<1>2. done \in Nat /\ done < Len(serve) /\ i = done + 1
  BY <1>1 DEF Starting, IInv, TypeOK
<1>3. i \in 1 .. Len(serve) /\ Len(serve) \in 1 .. Len(serve)
  BY <1>1, <1>2, LifecycleAssumption
<1>4. \A j \in Endpoint : j <= done <=> listener[j] # "none"
  BY DEF Starting, IInv, Phases
<1>5. ~(i <= done) /\ ~(Len(serve) <= done)
  BY <1>1, <1>2, LifecycleAssumption
<1>. QED  BY <1>1, <1>2, <1>3, <1>4, <1>5

(* An endpoint is started: nobody else's certificate changes, and the one  *)
(* it gets is the shared one if it is to be.                               *)
LEMMA StartEndpointInv ==
  ASSUME IInv, NEW i \in Endpoint, StartEndpoint(i) PROVE IInv'
<1>1. /\ Len(serve) \in 0 .. MaxServe /\ (serve = <<>> <=> Len(serve) = 0)
      /\ 1 .. Len(serve) \subseteq Endpoint
  BY ServeLength DEF IInv
<1>2. Starting(i) /\ main = "starting"
  BY DEF StartEndpoint, Starting
<1>3. /\ i \in 1 .. Len(serve) /\ i = done + 1 /\ listener[i] = "none"
      /\ done \in Nat /\ serve # <<>>
  BY <1>2, NotStartedYet DEF IInv, TypeOK
<1>4. SelfCert(i) \subseteq Endpoint /\ Cardinality(SelfCert(i)) <= 1
  <2>1. Cardinality({i}) = 1
    BY FS_Singleton
  <2>2. SelfCert(i) \in {selfcert, {i}}
    BY DEF SelfCert
  <2>3. selfcert \subseteq Endpoint /\ Cardinality(selfcert) <= 1
    BY DEF IInv, TypeOK
  <2>. QED  BY <2>1, <2>2, <2>3
<1>5. TypeOK'
  <2>1. ReadCerts(i) \subseteq Endpoint \cup {FromFiles}
    <3>1. Secure(i) \in BOOLEAN
      BY DEF Secure
    <3>2. PICK n \in 0 .. MaxServe : serve \in [1 .. n -> ServeConfig]
      BY DEF IInv, TypeOK
    <3>3. serve[i].tls_self \in BOOLEAN
      BY <1>3, <3>2, LifecycleAssumption DEF ServeConfig
    <3>. QED  BY <1>4, <3>1, <3>3 DEF ReadCerts
  <2>2. done' \in 0 .. Len(serve)
    BY <1>1, <1>2, <1>3 DEF StartEndpoint
  <2>. QED  BY <1>4, <2>1, <2>2 DEF StartEndpoint, IInv, TypeOK
<1>6. Phases'
  <2>1. \A j \in Endpoint : j <= done' <=> listener'[j] # "none"
    <3>. TAKE j \in Endpoint
    <3>1. j \in Nat /\ (j <= done <=> listener[j] # "none")
      BY <1>2, LifecycleAssumption DEF IInv, Phases, Endpoint
    <3>2. CASE j = i
      BY <1>3, <3>2 DEF StartEndpoint, IInv, TypeOK
    <3>3. CASE j # i
      BY <1>3, <3>1, <3>3 DEF StartEndpoint, IInv, TypeOK
    <3>. QED  BY <3>2, <3>3
  <2>. QED  BY <1>2, <1>3, <2>1 DEF StartEndpoint, IInv, Phases, Ended
<1>7. AllOrNothing' /\ OneListenerCutsNobody'
  BY <1>2 DEF StartEndpoint, IInv, Phases, Ended, AllOrNothing, OneListenerCutsNobody
<1>8. Certified'
  <2>. SUFFICES ASSUME NEW j \in 1 .. Len(serve), listener'[j] # "none"
                PROVE  IF Secure(j) /\ serve[j].tls_self
                       THEN selfcert' # {} /\ cert'[j] = selfcert'
                       ELSE cert'[j] = IF Secure(j) THEN {FromFiles} ELSE {}
    BY DEF Certified, Secure, StartEndpoint
  <2>1. CASE j = i
    <3>1. cert'[j] = ReadCerts(i) /\ selfcert' = SelfCert(i)
      BY <1>1, <2>1 DEF StartEndpoint, IInv, TypeOK
    <3>. QED  BY <2>1, <3>1 DEF ReadCerts, SelfCert
  <2>2. CASE j # i
    <3>1. cert'[j] = cert[j] /\ listener[j] # "none"
      BY <1>1, <2>2 DEF StartEndpoint, IInv, TypeOK
    <3>2. selfcert # {} => selfcert' = selfcert
      BY DEF StartEndpoint, SelfCert
    <3>. QED  BY <3>1, <3>2 DEF IInv, Certified
  <2>. QED  BY <2>1, <2>2
<1>. QED  BY <1>5, <1>6, <1>7, <1>8 DEF IInv

(* Any end of main() while it starts leaves the last endpoint out.         *)
LEMMA StartEndsInv ==
  ASSUME IInv, NEW i \in Endpoint, StartFails(i) \/ StartPanics(i) PROVE IInv'
<1>1. Starting(i)
  BY DEF StartFails, StartPanics
<1>2. serve # <<>> /\ listener[Len(serve)] = "none"
  BY <1>1, NotStartedYet
<1>3. CASE MainEnds("error")
  BY <1>2, <1>3, MainEndsInv DEF Ended
<1>4. CASE MainEnds("panicked")
  BY <1>2, <1>4, MainEndsInv DEF Ended
<1>. QED  BY <1>3, <1>4 DEF StartFails, StartPanics

(* main() turns from starting to joining, with nothing left out.           *)
LEMMA AllStartedInv == ASSUME IInv, AllStarted PROVE IInv'
<1>1. /\ Len(serve) \in 0 .. MaxServe /\ 1 .. Len(serve) \subseteq Endpoint
  BY ServeLength DEF IInv
<1>2. \A i \in 1 .. Len(serve) : listener[i] # "none"
  BY <1>1, LifecycleAssumption DEF AllStarted, IInv, Phases
<1>3. TypeOK'
  BY <1>1 DEF AllStarted, IInv, TypeOK
<1>4. Phases'
  BY DEF AllStarted, IInv, Phases, Ended
<1>5. AllOrNothing' /\ OneListenerCutsNobody' /\ Certified'
  BY <1>2 DEF AllStarted, IInv, Phases, Ended, AllOrNothing,
              OneListenerCutsNobody, Certified, Secure
<1>. QED  BY <1>3, <1>4, <1>5 DEF IInv

(* Only what is over is joined.                                            *)
LEMMA JoinInv == ASSUME IInv, NEW i \in Endpoint, Join(i) PROVE IInv'
<1>1. done \in Nat /\ Len(serve) \in Nat /\ done < Len(serve) /\ done' = done + 1
  BY ServeLength DEF Join, IInv, TypeOK
<1>2. TypeOK'
  BY <1>1 DEF Join, IInv, TypeOK
<1>3. \A j \in 1 .. done' : listener'[j] = "over"
  <2>. TAKE j \in 1 .. done'
  <2>1. CASE j = i
    BY <2>1 DEF Join, Joins
  <2>2. CASE j # i
    BY <1>1, <2>2 DEF Join, IInv, Phases
  <2>. QED  BY <2>1, <2>2
<1>4. Phases'
  BY <1>3 DEF Join, IInv, Phases, Ended
<1>5. AllOrNothing' /\ OneListenerCutsNobody' /\ Certified'
  BY DEF Join, IInv, AllOrNothing, OneListenerCutsNobody, Certified, Secure
<1>. QED  BY <1>2, <1>4, <1>5 DEF IInv

(* main() returns when all are joined, and so over.                        *)
LEMMA FinishInv == ASSUME IInv, Finish PROVE IInv'
<1>1. \A i \in 1 .. Len(serve) : listener[i] = "over"
  BY DEF Finish, IInv, Phases
<1>2. serve # <<>> /\ MainEnds("ok")
  BY DEF Finish, IInv, Phases
<1>. QED  BY <1>1, <1>2, MainEndsInv DEF Ended

(* Listeners and sessions go about their business.                         *)
LEMMA AcceptInv ==
  ASSUME IInv, NEW i \in Endpoint, NEW s \in Session, Accept(i, s) PROVE IInv'
<1>1. main # "loading"
  BY DEF Accept, IInv, Phases
<1>2. TypeOK'
  BY DEF Accept, IInv, TypeOK
<1>3. Phases'
  BY <1>1 DEF Accept, IInv, TypeOK, Phases, Ended
<1>4. AllOrNothing' /\ OneListenerCutsNobody' /\ Certified'
  BY DEF Accept, IInv, TypeOK, AllOrNothing, OneListenerCutsNobody, Certified, Secure
<1>. QED  BY <1>2, <1>3, <1>4 DEF IInv

LEMMA AcceptFailsInv == ASSUME IInv, NEW i \in Endpoint, AcceptFails(i) PROVE IInv'
<1>1. /\ Len(serve) \in 0 .. MaxServe /\ (serve = <<>> <=> Len(serve) = 0)
      /\ 1 .. Len(serve) \subseteq Endpoint
  BY ServeLength DEF IInv
<1>2. main # "loading"
  BY DEF AcceptFails, IInv, Phases
<1>3. \A j \in Endpoint : /\ listener[j] = "none" <=> listener'[j] = "none"
                          /\ listener[j] = "over" => listener'[j] = "over"
  BY DEF AcceptFails, IInv, TypeOK
<1>4. TypeOK'
  BY DEF AcceptFails, IInv, TypeOK
<1>5. Phases'
  <2>1. 1 .. done \subseteq Endpoint
    BY <1>1, LifecycleAssumption DEF IInv, TypeOK, Endpoint
  <2>. QED  BY <1>2, <1>3, <2>1 DEF AcceptFails, IInv, Phases, Ended
<1>6. AllOrNothing' /\ Certified'
  BY <1>1, <1>3 DEF AcceptFails, IInv, AllOrNothing, Certified, Secure
<1>7. OneListenerCutsNobody'
  <2>. SUFFICES ASSUME NEW s \in Session, fate[s] = "cut"
                PROVE  IF main = "ok" THEN \A j \in 1 .. Len(serve) : listener'[j] = "over"
                                      ELSE listener'[Len(serve)] = "none"
    BY DEF AcceptFails, OneListenerCutsNobody
  <2>1. Len(serve) \in 1 .. Len(serve)
    BY <1>1, LifecycleAssumption DEF IInv, Phases
  <2>. QED  BY <1>1, <1>3, <2>1 DEF IInv, OneListenerCutsNobody
<1>. QED  BY <1>4, <1>5, <1>6, <1>7 DEF IInv

LEMMA SessionEndsInv == ASSUME IInv, NEW s \in Session, SessionEnds(s) PROVE IInv'
<1>1. main # "loading"
  BY DEF SessionEnds, IInv, Phases
<1>2. TypeOK'
  BY DEF SessionEnds, IInv, TypeOK
<1>3. Phases'
  BY <1>1 DEF SessionEnds, IInv, TypeOK, Phases, Ended
<1>4. AllOrNothing' /\ OneListenerCutsNobody' /\ Certified'
  BY DEF SessionEnds, IInv, TypeOK, AllOrNothing, OneListenerCutsNobody, Certified, Secure
<1>. QED  BY <1>2, <1>3, <1>4 DEF IInv

LEMMA StepInv == ASSUME IInv, [Next]_vars PROVE IInv'
<1>1. CASE UNCHANGED vars
  BY <1>1 DEF vars, IInv, TypeOK, Phases, AllOrNothing, OneListenerCutsNobody,
              Certified, Secure
<1>2. ASSUME MainNext PROVE IInv'
  BY <1>2, LoadInv, AllStartedInv, FinishInv, StartEndpointInv, StartEndsInv, JoinInv
     DEF MainNext
<1>3. ASSUME NEW i \in Endpoint, AcceptFails(i) \/ \E s \in Session : Accept(i, s)
      PROVE  IInv'
  BY <1>3, AcceptFailsInv, AcceptInv
<1>4. ASSUME NEW s \in Session, SessionEnds(s) PROVE IInv'
  BY <1>4, SessionEndsInv
<1>. QED  BY <1>1, <1>2, <1>3, <1>4 DEF Next

LEMMA Invariant == Spec => []IInv
<1>1. IInv /\ [Next]_vars => IInv'
  BY StepInv
<1>. QED  BY InitInv, <1>1, PTL DEF Spec

-----------------------------------------------------------------------------
(* The process is in a state main.rs, the runners and settings.rs know,    *)
(* and there is never more than one self-signed certificate.               *)
THEOREM TypeCorrect == Spec => []TypeOK
<1>1. IInv => TypeOK
  BY DEF IInv
<1>. QED  BY <1>1, Invariant, PTL

(* main() does not serve a part of the settings, for any number of them.   *)
THEOREM NoPartialStart == Spec => []AllOrNothing
<1>1. IInv => AllOrNothing
  BY DEF IInv
<1>. QED  BY <1>1, Invariant, PTL

(* Sessions are cut by a start that fails or by the end of every listener. *)
THEOREM ListenersAreIndependent == Spec => []OneListenerCutsNobody
<1>1. IInv => OneListenerCutsNobody
  BY DEF IInv
<1>. QED  BY <1>1, Invariant, PTL

(* SELFCERT is made once and shown by all that ask for it.                 *)
THEOREM OneSelfSignedCertificate == Spec => []CertificatesAreShared
<1>1. IInv => CertificatesAreShared
  <2>. SUFFICES ASSUME IInv PROVE CertificatesAreShared
    OBVIOUS
  <2>1. \A i \in 1 .. Len(serve) : listener[i] = "accepting" =>
          (Secure(i) <=> cert[i] # {})
    BY DEF IInv, Certified
  <2>2. \A i \in 1 .. Len(serve) :
          listener[i] # "none" /\ Secure(i) /\ serve[i].tls_self => cert[i] = selfcert
    BY DEF IInv, Certified
  <2>. QED  BY <2>1, <2>2 DEF CertificatesAreShared
<1>. QED  BY <1>1, Invariant, PTL
=============================================================================
