-------------------------- MODULE MCProxyExchange --------------------------
(* ProxyExchange for TLC: a client that takes gzip only, one that prefers  *)
(* Brotli.                                                                 *)
EXTENDS ProxyExchange

MCAccepts == {[gzip |-> 1000], [br |-> 1000, gzip |-> 500]}
=============================================================================
