--------------------------- MODULE LoginTracker ---------------------------
(***************************************************************************)
(* The per-address attempt tracker of src/proxy.ts (createLoginTracker)    *)
(* under the two gates that use one each: the login form (handleLogin,     *)
(* which reserves an attempt and settles it only after the body and the    *)
(* delay) and the WebSocket upgrade (check, then fail in the same step; a  *)
(* success arrives with the upstream's 101).                               *)
(*                                                                         *)
(* An address is what effectiveRemoteAddress returns: through a tunnel the *)
(* socket peer is Loopback, and the forwarded address is used only while   *)
(* the trust probe, evaluated at every call, says so.                      *)
(***************************************************************************)
EXTENDS Naturals, FiniteSets

CONSTANTS
  Ips,           \* client addresses
  Loopback,      \* the address a tunnelled request has without trust
  Handlers,      \* requests in flight at once
  MaxAttempts,   \* spec.loginMaxAttempts / upgradeMaxAttempts
  Lockout,       \* lockoutMs, in ticks
  MaxHold,       \* requestTimeoutMs, the check interval and the delay: no request lives longer
  MaxTracked,    \* MAX_TRACKED_LOGIN_IPS
  MaxTime        \* bound: ticks of the clock

ASSUME TrackerAssumption ==
  /\ IsFiniteSet(Ips) /\ Loopback \in Ips
  /\ IsFiniteSet(Handlers)
  /\ MaxAttempts \in Nat \ {0}
  /\ Lockout \in Nat \ {0}
  /\ MaxHold \in Nat \ {0}
  /\ MaxTracked \in Nat \ {0}
  /\ MaxTime \in Nat

VARIABLES
  gate,      \* which gate this tracker guards: "login" or "upgrade"; never changes
  now,       \* Date.now()
  buckets,   \* the Map; a bucket that is not held is not in it
  handlers,  \* handleLogin activations past reserve, upgrades awaiting the upstream
  trusted,   \* what the trust probe answers
  steady,    \* trust has not changed so far (observation; bounds TrustChanges)
  forgiven,  \* addresses whose login bucket a success or prune has dropped (observation only)
  lifted     \* the last step was a success (observation only)

vars == <<gate, now, buckets, handlers, trusted, steady, forgiven, lifted>>

Bucket == [held : BOOLEAN, failures : Nat, inFlight : Nat,
           firstFailure : Nat, lockedUntil : Nat]

NoBucket == [held |-> FALSE, failures |-> 0, inFlight |-> 0,
             firstFailure |-> 0, lockedUntil |-> 0]

(* lockedUntil 0 stands for undefined: a lock always ends after time 0. *)
FreshBucket == [NoBucket EXCEPT !.held = TRUE, !.firstFailure = now]

NoRequest == [busy |-> FALSE, source |-> Loopback, remote |-> Loopback, since |-> 0]

TypeOK ==
  /\ gate \in {"login", "upgrade"}
  /\ now \in 0..MaxTime
  /\ buckets \in [Ips -> Bucket]
  /\ handlers \in [Handlers -> [busy : BOOLEAN, source : Ips, remote : Ips, since : Nat]]
  /\ trusted \in BOOLEAN
  /\ steady \in BOOLEAN /\ forgiven \subseteq Ips
  /\ lifted \in BOOLEAN

---------------------------------------------------------------------------
(* effectiveRemoteAddress for a request that came from src by the tunnel *)
Effective(src) == IF trusted THEN src ELSE Loopback

Stale(b) == now > b.firstFailure + Lockout

Locked(b) == b.held /\ b.lockedUntil > now

(* The bucket reserve works on *)
ReserveBucket(ip) ==
  IF ~buckets[ip].held \/ Stale(buckets[ip]) THEN FreshBucket ELSE buckets[ip]

(* The attempts reserve counts; the variant lets one more pass ('>' for     *)
(* '>=').                                                                  *)
OneTooFew(b) == IF b.failures + b.inFlight > 0 THEN b.failures + b.inFlight - 1 ELSE 0
Counted(b) == b.failures + b.inFlight

(* fail settles one reservation, never below none; the variant settles     *)
(* none.                                                                   *)
NotReleased(n) == n
Released(n) == IF n > 0 THEN n - 1 ELSE 0

FailedBucket(ip) ==
  IF ~buckets[ip].held \/ Stale(buckets[ip])
    THEN [FreshBucket EXCEPT !.failures = 1]
    ELSE [buckets[ip] EXCEPT !.failures = @ + 1,
            !.inFlight = Released(@),
            !.lockedUntil = IF buckets[ip].failures + 1 >= MaxAttempts
                              THEN now + Lockout ELSE @]

Tracked(map) == {ip \in Ips : map[ip].held}

(* prune: past the cap the expired buckets go, then one with the oldest    *)
(* first failure.                                                          *)
Pruned(map) ==
  LET expired == {ip \in Tracked(map) :
                    \/ map[ip].lockedUntil # 0 /\ map[ip].lockedUntil <= now
                    \/ Stale(map[ip])}
      swept == [ip \in Ips |-> IF ip \in expired THEN NoBucket ELSE map[ip]]
  IN IF Cardinality(Tracked(map)) <= MaxTracked THEN {map}
     ELSE IF Cardinality(Tracked(swept)) <= MaxTracked THEN {swept}
     ELSE {[swept EXCEPT ![ip] = NoBucket] :
             ip \in {i \in Tracked(swept) :
                       \A j \in Tracked(swept) :
                         swept[i].firstFailure <= swept[j].firstFailure}}

Init ==
  /\ gate \in {"login", "upgrade"}
  /\ now = 0
  /\ buckets = [ip \in Ips |-> NoBucket]
  /\ handlers = [h \in Handlers |-> NoRequest]
  /\ trusted \in BOOLEAN
  /\ steady = TRUE /\ forgiven = {}
  /\ lifted = FALSE

(* Time passes; the server's request timeout ends what has lasted MaxHold. *)
Tick ==
  /\ now < MaxTime
  /\ \A h \in Handlers : handlers[h].busy => now < handlers[h].since + MaxHold
  /\ now' = now + 1
  /\ lifted' = FALSE
  /\ UNCHANGED <<gate, buckets, handlers, trusted, steady, forgiven>>

(* The quick tunnel reaches or leaves its online state (with trust         *)
(* configured, the probe never changes).  Bound: it does so once.          *)
TrustChanges ==
  /\ steady
  /\ trusted' = ~trusted
  /\ steady' = FALSE
  /\ lifted' = FALSE
  /\ UNCHANGED <<gate, now, buckets, handlers, forgiven>>

---------------------------------------------------------------------------
(* The login form *)

(* reserve answers a waiting time: the request is refused with 429. *)
LoginDenied(src) ==
  LET ip == Effective(src)
      b == ReserveBucket(ip)
  IN /\ \/ Locked(b) /\ UNCHANGED buckets
        \/ /\ ~Locked(b) /\ Counted(b) >= MaxAttempts
           /\ buckets' = [buckets EXCEPT ![ip] = [b EXCEPT !.lockedUntil = now + Lockout]]
     /\ lifted' = FALSE
     /\ UNCHANGED <<gate, now, handlers, trusted, steady, forgiven>>

LoginReserve(h, src) ==
  LET ip == Effective(src)
      b == ReserveBucket(ip)
  IN /\ ~handlers[h].busy
     /\ ~Locked(b) /\ Counted(b) < MaxAttempts
     /\ buckets' = [buckets EXCEPT ![ip] = [b EXCEPT !.inFlight = @ + 1]]
     /\ handlers' = [handlers EXCEPT ![h] =
          [busy |-> TRUE, source |-> src, remote |-> ip, since |-> now]]
     /\ lifted' = FALSE
     /\ UNCHANGED <<gate, now, trusted, steady, forgiven>>

Settle(h) == handlers' = [handlers EXCEPT ![h] = NoRequest]

(* A wrong token or invite: fail, then prune. *)
LoginFails(h) ==
  LET ip == handlers[h].remote
  IN /\ handlers[h].busy
     /\ buckets' \in Pruned([buckets EXCEPT ![ip] = FailedBucket(ip)])
     /\ forgiven' = forgiven \cup {j \in Tracked(buckets) \cup {ip} : ~buckets'[j].held}
     /\ Settle(h)
     /\ lifted' = FALSE
     /\ UNCHANGED <<gate, now, trusted, steady>>

LoginSucceeds(h) ==
  /\ handlers[h].busy
  /\ buckets' = [buckets EXCEPT ![handlers[h].remote] = NoBucket]
  /\ Settle(h)
  /\ forgiven' = forgiven \cup {handlers[h].remote}
  /\ lifted' = TRUE
  /\ UNCHANGED <<gate, now, trusted, steady>>

(* The body was cut off or too large: the catch clause charges the address *)
(* the request has now, and does not prune.                                *)
AbortAddress(h) == Effective(handlers[h].source)

LoginAborts(h) ==
  LET ip == AbortAddress(h)
  IN /\ handlers[h].busy
     /\ buckets' = [buckets EXCEPT ![ip] = FailedBucket(ip)]
     /\ Settle(h)
     /\ lifted' = FALSE
     /\ UNCHANGED <<gate, now, trusted, steady, forgiven>>

LoginGate ==
  /\ gate = "login"
  /\ \/ \E src \in Ips : LoginDenied(src)
     \/ \E h \in Handlers, src \in Ips : LoginReserve(h, src)
     \/ \E h \in Handlers : LoginFails(h) \/ LoginSucceeds(h) \/ LoginAborts(h)

---------------------------------------------------------------------------
(* The upgrade gate *)

(* check: a lock that has ended takes its bucket along; or nothing does. *)
NeverLocked(ip) == FALSE
CheckLocks(ip) == Locked(buckets[ip])

CheckedBuckets(ip) ==
  IF buckets[ip].held /\ buckets[ip].lockedUntil # 0
    THEN [buckets EXCEPT ![ip] = NoBucket] ELSE buckets

UpgradeDenied(src) ==
  /\ CheckLocks(Effective(src))
  /\ lifted' = FALSE
  /\ UNCHANGED <<gate, now, buckets, handlers, trusted, steady, forgiven>>

(* No valid session, or a control path. *)
UpgradeFails(src) ==
  LET ip == Effective(src)
      after == CheckedBuckets(ip)
      failed == IF after[ip].held THEN FailedBucket(ip)
                ELSE [FreshBucket EXCEPT !.failures = 1]
  IN /\ ~CheckLocks(ip)
     /\ buckets' \in Pruned([after EXCEPT ![ip] = failed])
     /\ lifted' = FALSE
     /\ UNCHANGED <<gate, now, handlers, trusted, steady, forgiven>>

(* An authenticated upgrade goes upstream and keeps its address. *)
UpgradeForwarded(h, src) ==
  LET ip == Effective(src)
  IN /\ ~handlers[h].busy
     /\ ~CheckLocks(ip)
     /\ buckets' = CheckedBuckets(ip)
     /\ handlers' = [handlers EXCEPT ![h] =
          [busy |-> TRUE, source |-> src, remote |-> ip, since |-> now]]
     /\ lifted' = FALSE
     /\ UNCHANGED <<gate, now, trusted, steady, forgiven>>

UpgradeOpens(h) ==
  /\ handlers[h].busy
  /\ buckets' = [buckets EXCEPT ![handlers[h].remote] = NoBucket]
  /\ Settle(h)
  /\ lifted' = TRUE
  /\ UNCHANGED <<gate, now, trusted, steady, forgiven>>

(* The upstream refused, timed out or the client left. *)
UpgradeEnds(h) ==
  /\ handlers[h].busy
  /\ Settle(h)
  /\ lifted' = FALSE
  /\ UNCHANGED <<gate, now, buckets, trusted, steady, forgiven>>

UpgradeGate ==
  /\ gate = "upgrade"
  /\ \/ \E src \in Ips : UpgradeDenied(src) \/ UpgradeFails(src)
     \/ \E h \in Handlers, src \in Ips : UpgradeForwarded(h, src)
     \/ \E h \in Handlers : UpgradeOpens(h) \/ UpgradeEnds(h)

Next == Tick \/ TrustChanges \/ LoginGate \/ UpgradeGate

Spec == Init /\ [][Next]_vars

---------------------------------------------------------------------------
(* Properties *)

Outstanding(ip) == {h \in Handlers : handlers[h].busy /\ handlers[h].remote = ip}

(* The earlier windows a request may outlast: MaxHold / (Lockout + 1),     *)
(* rounded up.                                                             *)
Windows == (MaxHold + Lockout) \div (Lockout + 1)

(* "This bounds total guessing capacity per source address"                *)
(* (proxy.ts:174): a request held back across the end of its window is     *)
(* charged to a later one, so a bucket counts the allowed failures of its  *)
(* own window and those of every window a request may outlast, and no      *)
(* more.  Exempt are the addresses whose count a success or the memory cap *)
(* has dropped (forgiven), and what comes after a change of trust, which   *)
(* charges an attempt to another address (steady).                         *)
GuessesBounded ==
  steady =>
    \A ip \in Ips \ forgiven : buckets[ip].failures <= (1 + Windows) * MaxAttempts

(* As long as trust does not change (steady), a reservation is some        *)
(* running handler's, so an address without requests in flight is not      *)
(* refused for attempts nobody is making; not even an eviction or a new    *)
(* window between a request and its end leaves one behind.  A change of    *)
(* trust while a body is read does: the catch clause charges the address   *)
(* the request has by then (proxy.ts:760).                                 *)
NoLeakedReservation ==
  steady =>
    \A ip \in Ips : buckets[ip].inFlight <= Cardinality(Outstanding(ip))

(* A lock stays until its end, unless a success of that address lifts it   *)
(* or the arrival of another address makes the memory cap evict it.        *)
LockKept ==
  \A ip \in Ips :
    /\ Locked(buckets[ip])
    /\ ~lifted'
    /\ Tracked(buckets)' \subseteq Tracked(buckets)
    => /\ buckets'[ip].held
       /\ buckets'[ip].lockedUntil >= buckets[ip].lockedUntil

(* "WebSocket upgrade rate limiting: repeated failed upgrades are locked   *)
(* out": the upgrade gate keeps its locks.                                 *)
UpgradeLockKept == [][gate = "upgrade" => LockKept]_vars

(* "Lockout duration for a remote IP that exceeded loginMaxAttempts": the  *)
(* login gate keeps its locks for that duration too.                       *)
LoginLockKept == [][gate = "login" => LockKept]_vars
===========================================================================
