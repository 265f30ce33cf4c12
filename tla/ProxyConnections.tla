-------------------------- MODULE ProxyConnections --------------------------
(***************************************************************************)
(* The proxied connections of one listener of src/proxy.ts: which of them  *)
(* belong to a device (sessionConnections), their leases, the one second   *)
(* expiry timer, and the closing of a device's connections when it is      *)
(* revoked or signs out; with the part of the session store and of         *)
(* mutateSession they depend on.                                           *)
(*                                                                         *)
(* A connection is a proxied HTTP exchange or an upgraded socket.          *)
(* Destroying one is immediate, its close event comes later: in between it *)
(* is "closing".  A Set of connections is a number; a connection keeps the *)
(* Set it was put in, as its release closure does.  A credential is the    *)
(* device with the number of its secret, as in module SessionStore.        *)
(***************************************************************************)
EXTENDS Naturals, FiniteSets

CONSTANTS
  Devices,     \* sessions of the store
  Conns,       \* connections at one time
  MaxSecrets,  \* bound: secrets minted per device
  MaxFailures  \* bound: state writes that fail (after one, all do)

ASSUME ConnectionsAssumption ==
  /\ IsFiniteSet(Devices) /\ IsFiniteSet(Conns)
  /\ MaxSecrets \in Nat \ {0} /\ MaxFailures \in 0..1

VARIABLES
  sessions,  \* each device: 0 if it has no active session, else its secret
  minted,    \* secrets minted for each device
  revoking,  \* the device a mutateSession revokes while its save is awaited
  before,    \* previousSessions of that mutateSession; Nothing if there is none
  failures,  \* failed writes so far
  conns,     \* the connections
  registry,  \* sessionConnections: the Set of each device (0: none)
  closed,    \* close() ran
  cut        \* devices whose revocation or logout was acknowledged (observation only)

vars == <<sessions, minted, revoking, before, failures, conns, registry, closed, cut>>
storeVars == <<sessions, minted, revoking, before, failures, cut>>

Nobody == "nobody"

Sets == 1..(Cardinality(Conns) + 1)

NoConn == [phase |-> "free", device |-> Nobody, secret |-> 0, set |-> 0,
           lease |-> FALSE]

Nothing == [d \in Devices |-> 0]

Init ==
  /\ sessions = [d \in Devices |-> 1] /\ minted = [d \in Devices |-> 1]
  /\ revoking = Nobody /\ before = Nothing /\ failures = 0
  /\ conns = [c \in Conns |-> NoConn]
  /\ registry = [d \in Devices |-> 0]
  /\ closed = FALSE /\ cut = {}

---------------------------------------------------------------------------
(* Helpers *)

Live(c) == conns[c].phase = "live"

(* isActive for the cookie of a connection *)
CookieActive(c) == sessions[conns[c].device] = conns[c].secret

(* The test of a lease; the variant asks for the device only. *)
LeaseOfDevice(c) == sessions[conns[c].device] # 0
LeaseValid(c) == CookieActive(c)

(* The members of a Set; a free connection is in none. *)
Members(s) == {c \in Conns : conns[c].set = s}

FreeSet == CHOOSE s \in Sets : \A c \in Conns : conns[c].set # s

(* The Set a new connection of d goes into; always a new one, by mistake. *)
AnotherSet(d) == FreeSet
SetOf(d) == IF registry[d] # 0 THEN registry[d] ELSE FreeSet

Destroyed(conn) == [conn EXCEPT !.phase = "closing", !.lease = FALSE]

(* closeSessionConnections for the devices D, in the connections map: each *)
(* Set leaves the registry whole, its members are destroyed.               *)
DestroyedOf(map, D) ==
  [c \in Conns |->
     IF \E d \in D : registry[d] # 0 /\ map[c].set = registry[d]
       THEN Destroyed(map[c]) ELSE map[c]]
Unregistered(D) == [d \in Devices |-> IF d \in D THEN 0 ELSE registry[d]]

CloseSession(d) ==
  /\ conns' = DestroyedOf(conns, {d})
  /\ registry' = Unregistered({d})

---------------------------------------------------------------------------
(* Connections *)

(* validate, trackActivity and trackSession, in one step *)
Accept(c, d) ==
  /\ conns[c].phase = "free" /\ ~closed
  /\ sessions[d] # 0
  /\ conns' = [conns EXCEPT ![c] =
       [phase |-> "live", device |-> d, secret |-> sessions[d],
        set |-> SetOf(d), lease |-> TRUE]]
  /\ registry' = [registry EXCEPT ![d] = IF @ = 0 THEN SetOf(d) ELSE @]
  /\ UNCHANGED <<storeVars, closed>>

(* The closure of trackSession: it empties the Set it was made with, and   *)
(* drops whatever Set the device has when that one is empty.               *)
Release(c, conn) ==
  LET rest == Members(conns[c].set) \ {c}
  IN /\ conns' = [conns EXCEPT ![c] = conn]
     /\ registry' = IF rest = {} THEN [registry EXCEPT ![conns[c].device] = 0] ELSE registry
     /\ UNCHANGED <<storeVars, closed>>

(* An exchange ends well: finish and close come together. *)
Finish(c) == Live(c) /\ Release(c, NoConn)

CloseEvent(c) == conns[c].phase = "closing" /\ Release(c, NoConn)

(* Either peer fails, leaves or takes too long; or activity() rejects a    *)
(* chunk of data.                                                          *)
Breaks(c) ==
  /\ Live(c)
  /\ conns' = [conns EXCEPT ![c].phase = "closing"]
  /\ UNCHANGED <<storeVars, registry, closed>>

(* Devices that have a Set but no active session *)
Inactive == {d \in Devices : registry[d] # 0 /\ sessions[d] = 0}

(* The expiry timer: first the leases, then the devices. *)
ExpiryTimer ==
  LET ended == {c \in Conns : conns[c].lease /\ ~LeaseValid(c)}
      unleased == [c \in Conns |-> IF c \in ended THEN Destroyed(conns[c]) ELSE conns[c]]
  IN /\ ~closed
     /\ \E d \in Devices : registry[d] # 0
     /\ ended # {} \/ Inactive # {}
     /\ conns' = DestroyedOf(unleased, Inactive)
     /\ registry' = Unregistered(Inactive)
     /\ UNCHANGED <<storeVars, closed>>

(* close(), which the gate keeps out of a mutateSession *)
Close ==
  /\ ~closed /\ revoking = Nobody
  /\ closed' = TRUE
  /\ registry' = [d \in Devices |-> 0]
  /\ conns' = [c \in Conns |-> IF Live(c) THEN Destroyed(conns[c])
                               ELSE [conns[c] EXCEPT !.lease = FALSE]]
  /\ UNCHANGED storeVars

---------------------------------------------------------------------------
(* Devices *)

(* A device's time is over, in the snapshot as well. *)
Expire(d) ==
  /\ sessions[d] # 0
  /\ sessions' = [sessions EXCEPT ![d] = 0]
  /\ before' = [before EXCEPT ![d] = 0]
  /\ UNCHANGED <<minted, revoking, failures, cut, conns, registry, closed>>

Reissue(d) ==
  /\ sessions[d] # 0 /\ minted[d] < MaxSecrets
  /\ minted' = [minted EXCEPT ![d] = @ + 1]
  /\ sessions' = [sessions EXCEPT ![d] = minted[d] + 1]
  /\ UNCHANGED <<revoking, before, failures, cut, conns, registry, closed>>

(* The sign-out of the device itself *)
Logout(d) ==
  /\ sessions[d] # 0 /\ ~closed
  /\ sessions' = [sessions EXCEPT ![d] = 0]
  /\ CloseSession(d)
  /\ cut' = cut \cup {d}
  /\ UNCHANGED <<minted, revoking, before, failures, closed>>

(* mutateSession: the record goes, then the save is awaited, then the      *)
(* connections go, or the records come back.  Every write fails after one  *)
(* has.                                                                    *)
RevokeBegin(d) ==
  /\ revoking = Nobody /\ sessions[d] # 0 /\ failures = 0
  /\ revoking' = d /\ before' = sessions
  /\ sessions' = [sessions EXCEPT ![d] = 0]
  /\ UNCHANGED <<minted, failures, cut, conns, registry, closed>>

RevokeSaved ==
  /\ revoking # Nobody
  /\ CloseSession(revoking)
  /\ cut' = cut \cup {revoking}
  /\ revoking' = Nobody /\ before' = Nothing
  /\ UNCHANGED <<sessions, minted, failures, closed>>

RevokeFails ==
  /\ revoking # Nobody /\ failures < MaxFailures
  /\ failures' = failures + 1
  /\ sessions' = before
  /\ revoking' = Nobody /\ before' = Nothing
  /\ UNCHANGED <<minted, cut, conns, registry, closed>>

Next ==
  \/ ExpiryTimer \/ Close \/ RevokeSaved \/ RevokeFails
  \/ \E c \in Conns : Finish(c) \/ CloseEvent(c) \/ Breaks(c)
  \/ \E c \in Conns, d \in Devices : Accept(c, d)
  \/ \E d \in Devices : Expire(d) \/ Reissue(d) \/ Logout(d) \/ RevokeBegin(d)

(* The interval fires; nothing else is taken for granted. *)
Fairness == WF_vars(ExpiryTimer)

Spec == Init /\ [][Next]_vars /\ Fairness

---------------------------------------------------------------------------
(* Properties *)

(* As long as every write of the state file succeeded: when a revocation   *)
(* or a sign-out is acknowledged no connection of the device is left,      *)
(* however it was opened, and none comes later.                            *)
CutClosesStreams ==
  failures = 0 => \A c \in Conns : Live(c) => conns[c].device \notin cut

(* "revoked or expired quiet streams close both peers", under the same     *)
(* condition: a connection whose credential no longer works ends although  *)
(* no byte ever flows on it.                                               *)
QuietStreamsClose ==
  \A c \in Conns : (Live(c) /\ ~CookieActive(c)) ~> (~Live(c) \/ failures > 0)

(* "Revoking a device closes its active proxied HTTP streams and upgraded  *)
(* WebSocket connections", without that condition.                         *)
RevokedHasNoStream == \A c \in Conns : Live(c) => conns[c].device \notin cut
=============================================================================
