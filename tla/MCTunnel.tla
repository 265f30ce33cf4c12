------------------------------ MODULE MCTunnel ------------------------------
(* Instances of Tunnel for TLC: the number of starts and stops.            *)
EXTENDS Tunnel, TLC
=============================================================================
