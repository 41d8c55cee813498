---------------------------- MODULE MCDatagrams ----------------------------
(* Bytes of one bit and addresses of three: ::ffff:0:0/96 is 01x, the      *)
(* network is 1xx, its proxy 101, and only 110 and 111 are given out.      *)
EXTENDS Datagrams

MCMagic  == <<1>>
MCMapped == <<0, 1>>
MCPrefix == <<1>>
=============================================================================
