-------------------------- MODULE MCWebTransport --------------------------
(* A small instance of WebTransport for TLC.                               *)
EXTENDS WebTransport
=============================================================================
