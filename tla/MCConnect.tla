----------------------------- MODULE MCConnect -----------------------------
(* A small instance of Connect for TLC.                                    *)
EXTENDS Connect
=============================================================================
