------------------------------ MODULE MCLinks ------------------------------
(* A small instance of Links for TLC.                                      *)
EXTENDS Links, TLC

(* Sessions of one kind, addresses and passcodes are only compared for     *)
(* equality.                                                               *)
Symmetry == {f \in Permutations(Session) : {f[s] : s \in WebTransport} = WebTransport}
              \cup Permutations(Address) \cup Permutations(Passcode)
=============================================================================
