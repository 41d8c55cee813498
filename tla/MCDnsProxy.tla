----------------------------- MODULE MCDnsProxy -----------------------------
(* A small instance of DnsProxy for TLC.                                   *)
EXTENDS DnsProxy
=============================================================================
