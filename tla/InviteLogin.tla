---------------------------- MODULE InviteLogin ----------------------------
(***************************************************************************)
(* Signing in with a one-time invite: the invite store of src/invites.ts,  *)
(* the invite path of handleLogin in src/proxy.ts, and the session store   *)
(* (module SessionStore, whose actions this module composes).              *)
(*                                                                         *)
(* A client is its address.  Codes are numbered in the order of issue, the *)
(* order of the Map.  A request waits for its body and its delay, then all *)
(* of consume, login or reissue, and bindSession happens in one step.  The *)
(* redirect may be lost; a browser that submits again no longer takes the  *)
(* answer of its earlier request.  The attempt tracker is module           *)
(* LoginTracker.                                                           *)
(***************************************************************************)
EXTENDS SessionStore

CONSTANTS
  Clients,    \* client addresses
  Handlers,   \* requests in flight at once
  MaxCodes,   \* bound: codes issued
  MaxTries,   \* bound: requests of one client
  TTL,        \* ttlMs, in ticks
  Grace,      \* retryGraceMs, in ticks
  MaxPending  \* maxPending

(* undefined, for a session and for an address *)
NoId == "none"
Nobody == "nobody"

ASSUME InviteAssumption ==
  /\ IsFiniteSet(Clients) /\ IsFiniteSet(Handlers)
  /\ NoId \notin Ids /\ Nobody \notin Clients
  /\ MaxCodes \in Nat /\ MaxTries \in Nat /\ TTL \in Nat /\ Grace \in Nat /\ MaxPending \in Nat

VARIABLES
  codes,      \* the Map of invite entries; an entry not held is not in it
  issued,     \* how many codes were issued
  cleared,    \* how many of them a rotation cleared (observation only)
  requests,   \* login requests that wait
  cookies,    \* the cookie each client's browser holds: id and secret, or none
  newest,     \* the number of each client's latest request
  missed,     \* clients that were sent a cookie their browser did not keep, and none
              \* that it kept since then (observation only)
  minted      \* the devices each code signed in (observation only)

inviteVars == <<codes, issued, cleared, requests, cookies, newest, missed, minted>>
allVars == <<vars, inviteVars>>

Codes == 1..MaxCodes

Entry == [held : BOOLEAN, expiresAt : Nat, used : BOOLEAN, usedAt : Nat,
          usedIp : Clients \cup {Nobody}, session : Ids \cup {NoId}]

NoEntry == [held |-> FALSE, expiresAt |-> 0, used |-> FALSE, usedAt |-> 0,
            usedIp |-> Nobody, session |-> NoId]

NoRequest == [busy |-> FALSE, ip |-> Nobody, code |-> 0, nr |-> 0]

NoCookie == [id |-> NoId, secret |-> 0, code |-> 0]

InviteTypeOK ==
  /\ codes \in [Codes -> Entry]
  /\ issued \in 0..MaxCodes /\ cleared \in 0..issued
  /\ requests \in [Handlers -> [busy : BOOLEAN, ip : Clients \cup {Nobody},
                                code : 0..MaxCodes, nr : Nat]]
  /\ cookies \in [Clients -> [id : Ids \cup {NoId}, secret : Nat, code : 0..MaxCodes]]
  /\ newest \in [Clients -> Nat] /\ missed \subseteq Clients
  /\ minted \in [Codes -> SUBSET Ids]

InviteInit ==
  /\ Init /\ now = 0 /\ sessions = [id \in Ids |-> Absent]
  /\ codes = [c \in Codes |-> NoEntry]
  /\ issued = 0 /\ cleared = 0
  /\ requests = [h \in Handlers |-> NoRequest]
  /\ cookies = [ip \in Clients |-> NoCookie]
  /\ newest = [ip \in Clients |-> 0] /\ missed = {}
  /\ minted = [c \in Codes |-> {}]

---------------------------------------------------------------------------
(* The invite store *)

HeldCodes(map) == {c \in Codes : map[c].held}

(* prune: the expired codes go, then the oldest ones above the limit.      *)
OldestFirst(S) == {c \in S : MaxPending + Cardinality({d \in S : d < c}) < Cardinality(S)}

PrunedCodes ==
  LET live == {c \in HeldCodes(codes) : codes[c].expiresAt > now}
  IN [c \in Codes |-> IF c \in live \ OldestFirst(live) THEN codes[c] ELSE NoEntry]

Issue ==
  /\ issued < MaxCodes
  /\ issued' = issued + 1
  /\ codes' = [PrunedCodes EXCEPT ![issued + 1] =
                 [NoEntry EXCEPT !.held = TRUE, !.expiresAt = now + TTL]]
  /\ UNCHANGED <<vars, cleared, requests, cookies, newest, missed, minted>>

(* rotateToken: the devices and the invites go together; keeping the       *)
(* invites is the variant.                                                 *)
CodesKept == codes
CodesAfterRotation == [c \in Codes |-> NoEntry]

Rotate ==
  /\ sessions' = [id \in Ids |-> Absent]
  /\ dirty' = TRUE
  /\ codes' = CodesAfterRotation
  /\ cleared' = issued
  /\ UNCHANGED <<approvalRequired, now, secrets, leases, hydration, saved>>
  /\ UNCHANGED <<issued, requests, cookies, newest, missed, minted>>

(* consume: whether a code is new, and whether a repetition is a retry;    *)
(* the variant lets any client retry.                                      *)
Valid(c) == codes[c].held /\ codes[c].expiresAt > now
Fresh(c) == Valid(c) /\ ~codes[c].used
RetryByAnyone(c, ip) == Valid(c) /\ codes[c].used /\ now <= codes[c].usedAt + Grace
Retry(c, ip) ==
  /\ Valid(c) /\ codes[c].used
  /\ codes[c].usedIp = ip
  /\ now <= codes[c].usedAt + Grace

(* The entry of a code that ip used; the variant does not mark it. *)
Unmarked(e, ip) == [e EXCEPT !.usedIp = ip]
Marked(e, ip) == [e EXCEPT !.used = TRUE, !.usedAt = now, !.usedIp = ip]

---------------------------------------------------------------------------
(* The login form *)

Submit(h, ip, c) ==
  /\ ~requests[h].busy
  /\ newest[ip] < MaxTries
  /\ newest' = [newest EXCEPT ![ip] = @ + 1]
  /\ requests' = [requests EXCEPT ![h] =
       [busy |-> TRUE, ip |-> ip, code |-> c, nr |-> newest[ip] + 1]]
  /\ UNCHANGED <<vars, codes, issued, cleared, cookies, missed, minted>>

(* h answers: its client takes a cookie if this answers its latest request *)
(* and arrives.                                                            *)
Answer(h, cookie) ==
  LET ip == requests[h].ip
      latest == requests[h].nr = newest[ip]
  IN /\ requests[h].busy
     /\ requests' = [requests EXCEPT ![h] = NoRequest]
     /\ \/ /\ cookie # NoCookie /\ latest
           /\ cookies' = [cookies EXCEPT ![ip] = cookie]
           /\ missed' = missed \ {ip}
        \/ /\ UNCHANGED cookies
           /\ missed' = IF cookie # NoCookie THEN missed \cup {ip} ELSE missed
     /\ UNCHANGED <<issued, cleared, newest>>

(* An unknown, expired or used code: 401, and the code is forgotten. *)
RedeemRejected(h) ==
  LET c == requests[h].code IN
  /\ Answer(h, NoCookie)
  /\ ~Fresh(c) /\ ~Retry(c, requests[h].ip)
  /\ codes' = [codes EXCEPT ![c] = NoEntry]
  /\ UNCHANGED <<vars, minted>>

(* The first use: a new device, bound to the code. *)
RedeemFirst(h, id) ==
  LET c == requests[h].code IN
  /\ requests[h].busy /\ Fresh(c)
  /\ Login(id)
  /\ codes' = [codes EXCEPT ![c] = [Marked(@, requests[h].ip) EXCEPT !.session = id]]
  /\ minted' = [minted EXCEPT ![c] = @ \cup {id}]
  /\ Answer(h, [id |-> id, secret |-> 1, code |-> c])

(* The first use while no device is admitted: 429, and the code is used.   *)
RedeemFull(h) ==
  LET c == requests[h].code IN
  /\ requests[h].busy /\ Fresh(c)
  /\ LoginRefused
  /\ codes' = [codes EXCEPT ![c] = Marked(@, requests[h].ip)]
  /\ Answer(h, NoCookie)
  /\ UNCHANGED minted

(* A retry within the grace: a new secret for the same device, or 401.     *)
RedeemAgain(h) ==
  LET c == requests[h].code
      id == codes[c].session
  IN /\ requests[h].busy /\ Retry(c, requests[h].ip)
     /\ \/ id = NoId /\ UNCHANGED vars /\ Answer(h, NoCookie)
        \/ /\ id # NoId
           /\ Reissue(id)
           /\ Answer(h, IF id \in Live(Swept)
                          THEN [id |-> id, secret |-> secrets[id] + 1, code |-> c]
                          ELSE NoCookie)
     /\ UNCHANGED <<codes, minted>>

InviteNext ==
  \/ Tick /\ UNCHANGED inviteVars
  \/ Issue \/ Rotate
  \/ \E id \in Ids : Revoke(id) /\ UNCHANGED inviteVars
  \/ \E h \in Handlers, ip \in Clients, c \in 1..issued : Submit(h, ip, c)
  \/ \E h \in Handlers : RedeemRejected(h) \/ RedeemFull(h) \/ RedeemAgain(h)
  \/ \E h \in Handlers, id \in Ids : RedeemFirst(h, id)

InviteSpec == InviteInit /\ [][InviteNext]_allVars

---------------------------------------------------------------------------
(* Properties *)

(* "Each code is single-use": whatever the retries and their overlap, a    *)
(* code signs in one device at most.                                       *)
OneDevicePerCode == \A c \in Codes : Cardinality(minted[c]) <= 1

(* "rotating the token clears every outstanding invite": a code of before  *)
(* a rotation signs nobody in, not even in a request that was waiting when *)
(* the rotation came, and no retry of it revives a device.                 *)
RotationEndsInvites ==
  [][\A c \in 1..cleared : minted'[c] = minted[c]
       /\ \A id \in minted[c] : secrets'[id] = secrets[id]]_allVars

(* The cookie a client holds works for as long as its device exists, until *)
(* one of its own requests is answered with a newer cookie that its        *)
(* browser does not keep: no request of anybody else, no repetition that   *)
(* is refused, no full store and no new device replaces the secret.  Not   *)
(* promised is that an older request of its own, answered last, leaves the *)
(* cookie alone: it does not. (proxy.ts:723)                               *)
LatestCookieWorks ==
  \A ip \in Clients \ missed :
    cookies[ip] # NoCookie =>
      \/ Matches(cookies[ip].id, cookies[ip].secret)
      \/ sessions[cookies[ip].id].status = "absent"
=============================================================================
