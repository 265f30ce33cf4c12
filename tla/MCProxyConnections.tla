------------------------- MODULE MCProxyConnections -------------------------
(* Instances of ProxyConnections for TLC: a few devices and connections.   *)
EXTENDS ProxyConnections, TLC
=============================================================================
