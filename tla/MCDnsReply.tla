----------------------------- MODULE MCDnsReply -----------------------------
(* A small instance of DnsReply for TLC.                                   *)
EXTENDS DnsReply
=============================================================================
