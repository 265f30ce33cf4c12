--------------------------- MODULE TunnelService ---------------------------
(***************************************************************************)
(* What the users of the tunnel see of it, the panel and the runtime: a    *)
(* state and, while it is online, an address.  No binary, download, child, *)
(* timer or generation.  Module Tunnel implements this specification.      *)
(***************************************************************************)
EXTENDS Naturals

CONSTANT Urls  \* the addresses a tunnel may get, by their numbers: a set of positive naturals

VARIABLES
  state,  \* "off", "starting", "online" or "error"
  url     \* the published address, by its number (0: none)

vars == <<state, url>>

Init == state = "off" /\ url = 0

Start ==
  /\ state \in {"off", "error"}
  /\ state' = "starting"
  /\ url' = 0

Connect ==
  /\ state = "starting"
  /\ state' = "online"
  /\ url' \in Urls

(* The binary is missing, the tunnel comes up too late, or the child ends. *)
Fail ==
  /\ state \in {"starting", "online"}
  /\ state' = "error"
  /\ url' = 0

Stop ==
  /\ state' = "off"
  /\ url' = 0

Next == Start \/ Connect \/ Fail \/ Stop

(* A start ends, one way or another. *)
Settle == state = "starting" /\ (Connect \/ Fail \/ Stop)

Spec == Init /\ [][Next]_vars /\ WF_vars(Settle)
=============================================================================
