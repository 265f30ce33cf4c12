--------------------------- MODULE SessionStore ---------------------------
(***************************************************************************)
(* The per-device session store of src/sessions.ts.                        *)
(*                                                                         *)
(* Every operation of the store is synchronous, so one operation is one    *)
(* action.  A device is an id; its credential is the pair <<id, g>>, where *)
(* g numbers the secrets minted for that id (login mints 1, each reissue   *)
(* the next).  The Map from ids to records is a total function with        *)
(* records of status "absent" for the ids that are not in it.  A record's  *)
(* field "object" tells JavaScript object identities apart: hydrate builds *)
(* new objects, and an id is logged in once, so <<id, hydration>> names an *)
(* object.  Labels and IP addresses are left out: no property depends on   *)
(* them.  Date.now is taken to be monotonic.                               *)
(***************************************************************************)
EXTENDS Naturals, FiniteSets

CONSTANTS
  Ids,              \* the session ids that may ever be drawn
  MaxSessions,      \* options.maxSessions
  MaxAge,           \* options.maxAgeSeconds, in ticks
  Idle,             \* options.idleSeconds, in ticks; 0 = disabled
  Modes,            \* the values options.approvalRequired may have
  NotifyEvery,      \* the 1000 ms throttle of trackActivity, in ticks
  MaxTime,          \* bound: ticks of the clock
  MaxSecrets,       \* bound: secrets minted per id
  MaxHydrations,    \* bound: calls of hydrate
  MaxLeases         \* bound: activity callbacks held at once

ASSUME StoreAssumption ==
  /\ IsFiniteSet(Ids)
  /\ MaxSessions \in Nat \ {0}
  /\ MaxAge \in Nat
  /\ Idle \in Nat
  /\ Modes \subseteq BOOLEAN
  /\ NotifyEvery \in Nat
  /\ MaxTime \in Nat
  /\ MaxSecrets \in Nat \ {0}
  /\ MaxHydrations \in Nat
  /\ MaxLeases \in Nat

VARIABLES
  approvalRequired, \* options.approvalRequired, fixed when the store is created
  now,        \* Date.now()
  sessions,   \* the Map
  secrets,    \* how many secrets were minted for each id (0: never drawn)
  leases,     \* callbacks returned by trackActivity and still referenced
  hydration,  \* how many times hydrate ran
  saved,      \* what the last serialize() returned and the host kept
  dirty       \* onChange fired since then

vars == <<approvalRequired, now, sessions, secrets, leases, hydration, saved, dirty>>

Status == {"absent", "active", "pending", "rejected"}

Session == [status : Status, secret : Nat, createdAt : Nat,
            lastSeenAt : Nat, object : Nat]

Lease == [id : Ids, secret : Nat, object : Nat, notifyFrom : Nat]

Absent == [status |-> "absent", secret |-> 0, createdAt |-> 0,
           lastSeenAt |-> 0, object |-> 0]

TypeOK ==
  /\ approvalRequired \in BOOLEAN
  /\ now \in Nat
  /\ sessions \in [Ids -> Session]
  /\ secrets \in [Ids -> Nat]
  /\ leases \subseteq Lease
  /\ hydration \in Nat
  /\ saved \in [Ids -> Session]
  /\ dirty \in BOOLEAN

---------------------------------------------------------------------------
(* Helpers of the store *)

Window == IF Idle > 0 THEN Idle ELSE MaxAge

Expired(s) == now > s.createdAt + MaxAge \/ now > s.lastSeenAt + Window

(* The status login gives, and a misspelt variant of it. *)
WrongStatus == "approved"
LoginStatus == IF approvalRequired THEN "pending" ELSE "active"

(* changed(): onChange, wired to the host's scheduleSave, and not wired. *)
Unwired == dirty
Changed == TRUE

Held(store) == {id \in Ids : store[id].status # "absent"}

Live(store) == {id \in Ids : store[id].status \in {"active", "pending"}}

(* sweep, and a mutation that starts without it *)
Unswept == sessions
Swept == [id \in Ids |-> IF Expired(sessions[id]) THEN Absent ELSE sessions[id]]

(* publicShape and the rejected filter of serialize: what reaches the file. *)
Persisted(store) ==
  [id \in Ids |-> IF id \in Live(store)
                    THEN [store[id] EXCEPT !.object = 0] ELSE Absent]

(* find: the record a cookie opens, if its secret is the record's secret. *)
Matches(id, g) == sessions[id].status # "absent" /\ sessions[id].secret = g

(* isActive *)
CookieActive(id, g) ==
  Matches(id, g) /\ sessions[id].status = "active" /\ ~Expired(sessions[id])

(* How many entries evictOldest, called until the size is at the cap,      *)
(* removes; the variant has the loop's bound off by one.                   *)
SurplusOffByOne(store) ==
  IF Cardinality(Held(store)) > MaxSessions THEN Cardinality(Held(store)) - MaxSessions ELSE 0
Surplus(store) ==
  IF ~approvalRequired /\ Cardinality(Held(store)) + 1 > MaxSessions
    THEN Cardinality(Held(store)) + 1 - MaxSessions ELSE 0

(* Which entries that may be: the stalest. *)
Evictions(store) ==
  {E \in SUBSET Held(store) :
     /\ Cardinality(E) = Surplus(store)
     /\ \A e \in E, k \in Held(store) \ E :
          store[e].lastSeenAt <= store[k].lastSeenAt}

(* approvalRequired's hard bound on admission *)
AdmissionOpen == Cardinality(Live(Swept)) < MaxSessions

(* approve acts on pending records only; or on everything not yet active. *)
ApprovableInactive(s) == s.status \in {"pending", "rejected"}
Approvable(s) == s.status = "pending"

(* The first three conditions of the callback trackActivity returns; the   *)
(* variant looks the id up again.                                          *)
LeaseHoldsById(l) == sessions[l.id].secret = l.secret /\ sessions[l.id].status = "active"
LeaseHolds(l) ==
  /\ sessions[l.id].object = l.object
  /\ sessions[l.id].secret = l.secret
  /\ sessions[l.id].status = "active"

(* The 1000 ms throttle of a stream's notifications; only the first one.   *)
NotifyOnce(l) == l.notifyFrom = 0
NotifyDue(l) == now >= l.notifyFrom

---------------------------------------------------------------------------
(* The store after load(): hydrated from a file that earlier runs wrote,   *)
(* in either mode and at any time before, then saved.                      *)
Loaded ==
  {s \in [status : {"active", "pending"}, secret : {1}, createdAt : 0..now,
          lastSeenAt : 0..now, object : {1}] : s.createdAt <= s.lastSeenAt /\ ~Expired(s)}

Init ==
  /\ approvalRequired \in Modes
  /\ now \in 0..MaxAge
  /\ sessions \in [Ids -> {Absent} \cup Loaded]
  /\ Cardinality(Held(sessions)) <= MaxSessions
  /\ secrets = [id \in Ids |-> IF id \in Held(sessions) THEN 1 ELSE 0]
  /\ leases = {}
  /\ hydration = 1
  /\ saved = Persisted(sessions)
  /\ dirty = FALSE

Tick ==
  /\ now < MaxTime
  /\ now' = now + 1
  /\ UNCHANGED <<approvalRequired, sessions, secrets, leases, hydration, saved, dirty>>

(* login throws SessionCapacityError: only the sweep is left behind. *)
LoginRefused ==
  /\ approvalRequired
  /\ ~AdmissionOpen
  /\ sessions' = Swept
  /\ UNCHANGED <<approvalRequired, now, secrets, leases, hydration, saved, dirty>>

Login(id) ==
  /\ secrets[id] = 0
  /\ ~approvalRequired \/ AdmissionOpen
  /\ \E E \in Evictions(Swept) :
       sessions' = [i \in Ids |->
         IF i = id THEN [status |-> LoginStatus, secret |-> 1, createdAt |-> now,
                         lastSeenAt |-> now, object |-> hydration]
         ELSE IF i \in E THEN Absent ELSE Swept[i]]
  /\ secrets' = [secrets EXCEPT ![id] = 1]
  /\ dirty' = Changed
  /\ UNCHANGED <<approvalRequired, now, leases, hydration, saved>>

(* reissue: an unknown, expired or rejected id only leaves the sweep. *)
Reissue(id) ==
  \/ /\ id \in Live(Swept)
     /\ secrets[id] < MaxSecrets
     /\ secrets' = [secrets EXCEPT ![id] = @ + 1]
     /\ sessions' = [Swept EXCEPT ![id].secret = secrets[id] + 1,
                                  ![id].lastSeenAt = now]
     /\ dirty' = Changed
     /\ UNCHANGED <<approvalRequired, now, leases, hydration, saved>>
  \/ /\ id \notin Live(Swept)
     /\ sessions' = Swept
     /\ UNCHANGED <<approvalRequired, now, secrets, leases, hydration, saved, dirty>>

(* validate: an expired record is dropped, an active one is touched. *)
Validate(id, g) ==
  /\ Matches(id, g)
  /\ \/ /\ Expired(sessions[id])
        /\ sessions' = [sessions EXCEPT ![id] = Absent]
        /\ dirty' = Changed
     \/ /\ CookieActive(id, g)
        /\ sessions' = [sessions EXCEPT ![id].lastSeenAt = now]
        /\ dirty' = Changed
  /\ UNCHANGED <<approvalRequired, now, secrets, leases, hydration, saved>>

TrackActivity(id, g) ==
  /\ CookieActive(id, g)
  /\ Cardinality(leases) < MaxLeases
  /\ leases' = leases \cup {[id |-> id, secret |-> g, notifyFrom |-> 0,
                             object |-> sessions[id].object]}
  /\ UNCHANGED <<approvalRequired, now, sessions, secrets, hydration, saved, dirty>>

(* One call of the callback; a lease that no longer holds answers false    *)
(* and changes nothing.                                                    *)
LeaseActivity(l) ==
  /\ LeaseHolds(l)
  /\ \/ /\ Expired(sessions[l.id])
        /\ sessions' = [sessions EXCEPT ![l.id] = Absent]
        /\ dirty' = Changed
        /\ UNCHANGED leases
     \/ /\ ~Expired(sessions[l.id])
        /\ sessions' = [sessions EXCEPT ![l.id].lastSeenAt = now]
        /\ IF NotifyDue(l)
             THEN /\ leases' = (leases \ {l}) \cup
                                 {[l EXCEPT !.notifyFrom = now + NotifyEvery]}
                  /\ dirty' = Changed
             ELSE UNCHANGED <<leases, dirty>>
  /\ UNCHANGED <<approvalRequired, now, secrets, hydration, saved>>

(* The stream behind a callback ended and dropped it. *)
LeaseEnd(l) ==
  /\ leases' = leases \ {l}
  /\ UNCHANGED <<approvalRequired, now, sessions, secrets, hydration, saved, dirty>>

(* pending, the wait page's status lookup *)
PendingLookup(id, g) ==
  /\ Matches(id, g)
  /\ Expired(sessions[id])
  /\ sessions' = [sessions EXCEPT ![id] = Absent]
  /\ dirty' = Changed
  /\ UNCHANGED <<approvalRequired, now, secrets, leases, hydration, saved>>

List ==
  /\ sessions' = Swept
  /\ UNCHANGED <<approvalRequired, now, secrets, leases, hydration, saved, dirty>>

(* The owner's revoke, approve and rename come through mutateSession,      *)
(* which calls serialize, and so sweeps, in the same synchronous step.     *)
Revoke(id) ==
  /\ id \in Held(Swept)
  /\ sessions' = [Swept EXCEPT ![id] =
       IF @.status = "pending"
         THEN [@ EXCEPT !.status = "rejected", !.lastSeenAt = now]
         ELSE Absent]
  /\ dirty' = Changed
  /\ UNCHANGED <<approvalRequired, now, secrets, leases, hydration, saved>>

Approve(id) ==
  /\ Approvable(Swept[id])
  /\ sessions' = [Swept EXCEPT ![id].status = "active", ![id].lastSeenAt = now]
  /\ dirty' = Changed
  /\ UNCHANGED <<approvalRequired, now, secrets, leases, hydration, saved>>

(* rename: only the label changes, so only the notification shows here. *)
Rename(id) ==
  /\ id \in Held(Swept)
  /\ sessions' = Swept
  /\ dirty' = Changed
  /\ UNCHANGED <<approvalRequired, now, secrets, leases, hydration, saved>>

(* A device's own sign-out, validate and then revoke, and its own rename,  *)
(* where the form's body is awaited between the two.  Neither sweeps.      *)
SignOut(id, g) ==
  /\ CookieActive(id, g)
  /\ sessions' = [sessions EXCEPT ![id] = Absent]
  /\ dirty' = Changed
  /\ UNCHANGED <<approvalRequired, now, secrets, leases, hydration, saved>>

SelfRename(id) ==
  /\ id \in Held(sessions)
  /\ dirty' = Changed
  /\ UNCHANGED <<approvalRequired, now, sessions, secrets, leases, hydration, saved>>

(* clear, called by a token rotation *)
Clear ==
  /\ Held(sessions) # {}
  /\ sessions' = [id \in Ids |-> Absent]
  /\ dirty' = Changed
  /\ UNCHANGED <<approvalRequired, now, secrets, leases, hydration, saved>>

Serialize ==
  /\ sessions' = Swept
  /\ saved' = Persisted(Swept)
  /\ dirty' = FALSE
  /\ UNCHANGED <<approvalRequired, now, secrets, leases, hydration>>

(* hydrate: at most maxSessions of the saved records, each a new object.   *)
Hydrate ==
  /\ hydration < MaxHydrations
  /\ \E K \in SUBSET Held(saved) :
       /\ \/ K = Held(saved) /\ Cardinality(K) <= MaxSessions
          \/ Cardinality(K) = MaxSessions
       /\ sessions' = [id \in Ids |->
            IF id \in K THEN [saved[id] EXCEPT !.object = hydration + 1]
            ELSE Absent]
  /\ hydration' = hydration + 1
  /\ dirty' = FALSE
  /\ UNCHANGED <<approvalRequired, now, secrets, leases, saved>>

Next ==
  \/ Tick \/ LoginRefused \/ List \/ Clear \/ Serialize \/ Hydrate
  \/ \E id \in Ids :
       Login(id) \/ Reissue(id) \/ Revoke(id) \/ Approve(id) \/ Rename(id) \/ SelfRename(id)
  \/ \E id \in Ids : \E g \in 1..secrets[id] :
       Validate(id, g) \/ TrackActivity(id, g) \/ PendingLookup(id, g) \/ SignOut(id, g)
  \/ \E l \in leases : LeaseActivity(l) \/ LeaseEnd(l)

Spec == Init /\ [][Next]_vars

---------------------------------------------------------------------------
(* Properties *)

(* The cap: in normal mode the Map never exceeds maxSessions; in approval  *)
(* mode the devices that are not rejected never do.                        *)
Capacity ==
  Cardinality(IF approvalRequired THEN Live(sessions) ELSE Held(sessions)) <= MaxSessions

(* Whatever changes a credential tells the host: when onChange has not     *)
(* fired since the last serialize, every device that can still sign in is  *)
(* in the saved copy with the same secret and status, and the saved copy   *)
(* holds no unexpired device that the store has dropped.                   *)
CleanMeansSaved ==
  ~dirty =>
    /\ \A id \in Live(sessions) :
         ~Expired(sessions[id]) =>
            /\ saved[id].status = sessions[id].status
            /\ saved[id].secret = sessions[id].secret
    /\ \A id \in Held(saved) : ~Expired(saved[id]) => id \in Live(sessions)

(* The throttled notification of streams keeps the saved activity time     *)
(* less than one throttle period behind the one in memory.                 *)
ActivityLagBounded ==
  ~dirty =>
    \A id \in Live(sessions) :
      ~Expired(sessions[id]) =>
        \/ sessions[id].lastSeenAt = saved[id].lastSeenAt
        \/ sessions[id].lastSeenAt < saved[id].lastSeenAt + NotifyEvery

(* The store implements the registry of module DeviceRegistry: whatever    *)
(* the order of approvals, retries, touches, sweeps and evictions, a       *)
(* credential that ended never works again unless hydrate brings back a    *)
(* saved copy in which it was good, a device never has two good ones, and  *)
(* nothing works before it was approved.                                   *)
Shown(status) ==
  CASE status = "pending" -> "waiting" [] status = "active" -> "working" [] OTHER -> "ended"

CredentialState(id, g) ==
  IF g > secrets[id] THEN "none"
  ELSE IF ~Matches(id, g) \/ Expired(sessions[id]) THEN "ended"
  ELSE Shown(sessions[id].status)

KeptState(id, g) ==
  IF saved[id].secret = g /\ ~Expired(saved[id]) THEN Shown(saved[id].status) ELSE "ended"

Registry == INSTANCE DeviceRegistry WITH
  Secrets <- 1..MaxSecrets,
  credential <- [id \in Ids |-> [g \in 1..MaxSecrets |-> CredentialState(id, g)]],
  kept <- [id \in Ids |-> [g \in 1..MaxSecrets |-> KeptState(id, g)]]

ImplementsRegistry == Registry!Spec

(* "Neither rotation nor hydration can reuse an old callback": a reissue   *)
(* ends the leases of the device, and a lease that would answer false      *)
(* never answers true again.                                               *)
LeaseAnswers(l) == LeaseHolds(l) /\ ~Expired(sessions[l.id])

LeaseFinality ==
  [][\A l \in leases :
       ~LeaseAnswers(l) \/ secrets'[l.id] > secrets[l.id] => ~LeaseAnswers(l)']_vars

(* A device that has expired stays expired or leaves the store, whatever   *)
(* the owner, its streams or a hydration do next.                          *)
ExpiryIsFinal ==
  [][\A id \in Held(sessions) :
       Expired(sessions[id]) =>
         sessions'[id].status = "absent" \/ Expired(sessions[id])']_vars
=============================================================================
