----------------------------- MODULE MCNetwork -----------------------------
(* A small instance of Network for TLC.                                    *)
EXTENDS Network, TLC

(* Addresses, passcodes and relays are only ever compared for equality.    *)
Symmetry == Permutations(Address) \cup Permutations(Passcode)
              \cup Permutations(Relay)
=============================================================================
