# A TLA+ model of dsh-full-remote

dsh-full-remote puts an authenticating HTTP/WebSocket proxy in front of the DeepSeek++ host page, so
that a phone can drive it: devices sign in with a token or a one-time invite, each gets a session of
its own, the owner approves, renames and revokes devices, rotates the token, moves the listener,
and may publish it through a cloudflared quick tunnel. Everything below refers to `src/src/`.

The project holds ten models that TLC runs, the abstract specifications of two of them, the decisions
`ContentCoding` that one of them uses, five modules that are proved about and not run (two of them small
state machines), and eight proof modules:

| Module | Models | Checked by | Proofs |
|---|---|---|---|
| `SessionStore` | `sessions.ts` | `session_store` | `SessionStoreProofs` |
| `DeviceRegistry` | what the host may rely on of it: the life of credentials | `ImplementsRegistry` in `session_store` | `SessionStoreProofs` |
| `LoginTracker` | the attempt tracker of `proxy.ts` under both of its users | `login_gates`, `login_lockout` | `LoginTrackerProofs` |
| `InviteLogin` | `invites.ts` and the invite path of `handleLogin`, composed with `SessionStore` | `invite_retry` | `SessionStoreProofs` |
| `Runtime` | `index.ts`, `persist.ts`, `control-routes.ts` | `runtime_ops`, `runtime_logout` | `RuntimeProofs` |
| `Tunnel` | `tunnel.ts` | `tunnel_runs`, `tunnel_stale` | `TunnelProofs` |
| `TunnelService` | what the panel and the runtime see of it | `ImplementsService` in `tunnel_runs`; its steps are the tunnel of `Panel` | `TunnelProofs` |
| `ProxyConnections` | connection registry, leases and expiry timer of `proxy.ts` | `connections_lost`, `exchange_close` | `ProxyExchangeProofs` |
| `ProxyExchange` | one proxied exchange of `proxy.ts` and `static-cache.ts`, on top of `ProxyConnections`, with the coding of `ContentCoding` | `exchange_close` | `ProxyExchangeProofs` |
| `ContentCoding` | `proxy-compress.ts` and its use in `proxy.ts` | through `exchange_close` | `DecisionProofs` |
| `StaticFreshness` | the freshness arithmetic of `static-cache.ts` and the Age of a hit | not run | `DecisionProofs` |
| `Addresses` | `cidr.ts`, the validation of its list, and the choice of a client's address in `proxy-headers.ts` | not run | `DecisionProofs` |
| `Forwarding` | the headers that `proxy-headers.ts` passes on, for requests, upgrades and answers, on top of `Addresses` | not run | `DecisionProofs` |
| `AuditLog` | the queue of `audit.ts` with its rotation, failures and a crash | not run | `DecisionProofs` |
| `BrowsePin` | `directory-picker.ts` and the disposal in `apply()` | not run | `DecisionProofs` |
| `CockpitConnection` | `client/cockpit-connection.ts` | `overlay_answers` | `OverlayProofs` |
| `InteractionOverlay` | `client/pending-source.ts`, `use-interaction-submission.ts` and the cards of `RemoteCockpit.tsx`, on top of `CockpitConnection` | `overlay_answers` | `OverlayProofs` |
| `Panel` | `client/RemoteSection.tsx`, `client/DevicesSection.tsx`, `client/visibility-polling.ts` in front of the control routes | `panel` | `PanelProofs` |

## 1. Inventory

Everything runs in one Node process (and one browser page for the client side): there is no
preemption, so a handler is atomic between two `await`s, callbacks or timers, and every difficulty
comes from what happens *between* them. What the code promises lies in the comments, `SECURITY.md`,
`README.md`, the panel's texts and the tests; the properties quote them.

* **Session store** (`sessions.ts`). State: the Map of sessions (secret digest, creation and activity
  time, status), the callbacks `trackActivity` gave out. Operations: `login`, `reissue`, `validate`,
  `trackActivity`, `pending`, `isActive`, `list`, `revoke`, `approve`, `rename`, `clear`,
  `serialize`, `hydrate`. Used by the proxy (cookies, streams), the runtime (control operations,
  saves). Hard: callbacks that outlive a reissue or a hydration; limits met by expired, pending and
  rejected records at once; throttled change notifications. Correct: no refused credential works
  again, the limits hold, what changed reaches the file.
* **Invite store** (`invites.ts`). State: codes with expiry, first use, bound session. Operations:
  `issue`, `consume`, `bindSession`, `clear`, the pruning. Hard: lost answers, repeated and
  overlapping requests, a rotation in between. Correct: one device per code, a retry gives the same
  device a working cookie.
* **Attempt tracker** (`proxy.ts`). State: a bucket per address (failures, requests in flight,
  window, lock). Operations: `check`, `reserve`, `release`/`fail`, `success`, `prune`. Used by the login form
  with reservations and by the upgrade path without. Hard: requests that are held back across the end of
  a window; the address itself depends on whether the tunnel is trusted. Correct: attempts are
  bounded, nobody is refused for attempts nobody makes, locks last.
* **Proxied connections** (`proxy.ts`). State: the Set of connections per session, the leases, the
  expiry timer. Operations: accept, end, error, expiry tick, `closeSessionConnections`, `close`.
  Hard: destruction is immediate but the close event is late; a quiet stream moves no byte that could be
  refused. Correct: a revoked or signed-out device has no connection.
* **One proxied exchange** (`proxy.ts`, `proxy-headers.ts`, `proxy-compress.ts`, `http-util.ts`). State: how far
  request and answer are, the first-byte timer, the capture. Operations: accept, body end, headers,
  chunk, end, refusal, loss, timeout. Hard: finish, close and error come alone or together, the answer
  may begin before the request has ended. Correct: a capture is given back once, the timer never cuts
  an answer or an upload short.
* **Content coding** (`proxy-compress.ts`). No state: what a client accepts, which answers may be encoded,
  what their headers say afterwards. Hard: a coding named twice, wildcards, an identity that is preferred,
  validators and lengths of a body that changed. Correct: a refused coding is never used, caches are told.
* **Static response cache** (`static-cache.ts`). State: captured responses per session, sizes.
  Operations: `get`, `put`, `deleteSession`, `clear`. Hard: a capture that ends after its session
  did; freshness spent while a body is captured; clocks that differ; eviction by size. Correct: nothing of a cut device
  is kept, nothing is kept longer than the upstream allowed, a hit is what its client would have got.
* **Runtime** (`index.ts`). State: settings (enabled, token, address), the store, the listener, the tunnel,
  `statePersistenceBlocked`, `disposed`, `lastFailure`, the save timer and the exclusive gate. Operations: `start`, `stop`, `rotateToken`,
  `setListen`, `mutateSession` (revoke, approve, rename), tunnel start and stop, `scheduleSave`, `load`,
  `restore`, `dispose`. Hard: every operation awaits a teardown, a bind or a write while login and
  logout handlers go on; writes fail, with roll back; the process may end anywhere. Correct: what is
  acknowledged survives, what is rolled back leaves nothing behind.
* **State file** (`persist.ts`). Temporary file and rename; missing, malformed and valid files.
* **Control routes** (`control-routes.ts`). One operation each, under the gate.
* **Tunnel** (`tunnel.ts`). State: published state and address, generation, child, connect timer,
  download controller, cached binary. Operations: `start`, `stop`; asynchronous: binary resolution,
  download, spawn, output, exit, timers. Hard: everything of an older start goes on after a stop.
  Correct: one process, a real address, no start that hangs.
* **Audit log** (`audit.ts`). State: the file, one older generation, a queue of writes. Operations: `record`,
  the reads, `flush`. Hard: each write is five awaits that may fail one by one, with a rotation in the middle.
  Correct: the order of events, and what a rotation may drop.
* **Address rules and client addresses** (`cidr.ts`, `hosts.ts`, `proxy-headers.ts`). No state. Hard: masks at 0, 16, 32
  and 128 bits, headers a client may write itself. Correct: an entry admits its prefix and nothing else, a header never
  makes a client look local.
* **Headers passed on** (`proxy-headers.ts`). No state: what of a request reaches the backend, what of an answer the client.
  Hard: a Connection header may nominate any name, also those the proxy sets. Correct: what a client would forge is
  stripped, the proxy's cookie stays, the proxy's own headers are always there.
* **Directory picker pin** (`directory-picker.ts`). State: the entries created in the host's loader. Operations: pin,
  undo, unpin. Hard: any of its calls rejects, and the disposal comes while it runs.
* **Page bootstrap, self-check, pages, QR code, configuration**: text, two probes, constants.
* **Cockpit connection** (`client/cockpit-connection.ts`). State: snapshot, flight, budget, trailing
  timer. Operations: connection and visibility edges, the user's refresh, the time limit, disposal. Hard: a refresh that never settles. Correct:
  one at a time, no burst, no edge forgotten.
* **Interaction overlay** (`client/pending-source.ts`, `client/use-interaction-submission.ts`,
  `client/RemoteCockpit.tsx`, `client/InteractionOverlay.tsx`). State: the source's copy of the host's registry,
  what React rendered of it, the visited cards, the lock, notice and timer of each card. Operations: a
  notification, a render, opening a card, answering, the acknowledgement, the 10 s timer, the refresh
  after a reconnect. Hard: four views of what is pending that change at different times. Correct: one
  attempt per card, no answer to what is no longer asked, nobody left without a result.
* **Panel** (`client/RemoteSection.tsx`, `client/DevicesSection.tsx`, `client/visibility-polling.ts`, `client/index.ts`).
  State: the status and the device list on the screen, the epoch of the list, one button's work, two polls. Operations:
  ticks, answers, failures, clicks, hiding and showing the page. Hard: answers overtake each other and the owner's own
  operations; a poll may be lost, hidden or disposed of. Correct: no stale list, a live tunnel is followed.
* **Views, texts** (`client/`): rendering.

Interactions: the runtime owns store, invites, tunnel and listener and calls all of them under one
exclusive gate; the listener's handlers call store, invites and tracker *outside* the gate; the store
calls back the runtime (`onChange` → `scheduleSave`), which saves under the gate; revocations call
into the listener's connection registry; connections hold callbacks of the store; the tunnel depends
on the listener, and the tracker's view of an address on the tunnel. `PROJECT.json` lists each
component with its status, and each hazard at the line where it bites.

## 2. The models

### SessionStore
Each operation of the store is synchronous and so one action. `sessions` is the Map as a total
function; a credential is the pair of an id and the number of the secret (`login` mints 1, each
`reissue` the next); field `object` tells JavaScript object identities apart, which is what the
callback of `trackActivity` compares. `saved` is what the last `serialize` returned, `dirty` whether
`onChange` fired since. The owner's operations sweep expired records in the same step; a device's own
sign-out and rename (`SignOut`, `SelfRename`) do not. A run starts from whatever a state file may bring back
(`Loaded`): active and pending devices of any age. `Hydrate` may come at any time with what was saved, as in the rollbacks of
`index.ts`. Insertion order decides which of several records with the same activity time is evicted;
the model leaves that choice open (`Evictions`), and also which records of an oversized file survive.
Properties: the cap (`Capacity`); nothing that changes a credential goes unannounced
(`CleanMeansSaved`) and streams announce their activity in time (`ActivityLagBounded`); a
lease and an expiry that ended have ended for good (`LeaseFinality`, `ExpiryIsFinal`); and the whole store
implements `DeviceRegistry` (`ImplementsRegistry`).

### DeviceRegistry
The abstract specification of the store: a device's credentials are `none` yet, `waiting`, `working` or `ended`, and
only move forward, except that the host may restore the copy it kept. The refinement mapping reads a
credential off the records: it is ended when its record is gone, carries another secret, was rejected or has
expired. So a refused, replaced or expired credential never works again unless a hydration brings back a copy from the time it was good,
a reissue leaves exactly one live credential that is as good as the one before, and approval needs a
credential that waits. A renewed device gets its first unused credential, which need not be the one after the credential it had:
a hydration may have brought back an older one meanwhile.

### LoginTracker
One module, two gates (`gate` is chosen in `Init`): the login form reserves before it awaits body and
delay and settles after it; the upgrade path checks, fails, or forwards and clears the address when
the upstream answers. `trusted` is what decides whether the forwarded address counts. `steady` and
`forgiven` are observations: whether trust has not changed so far, and which addresses lost their bucket to a
success or to the memory cap. `MaxHold` bounds how long a request may take to settle.

`GuessesBounded` holds for every `MaxHold`; its bound depends on it. A request that is held back across the end of its window
is charged to a later one, so a bucket counts at most the attempts of its own window and of each earlier one that a request may
outlast (`Windows`): with the shipped limits, `requestTimeoutMs` and `loginLockoutMs` of 300 s with the delay of a failed
login and the coarse checking of Node's timeouts on top, `Windows` is 2 and the bound is *three* times the configured attempts; with
`requestTimeoutMs` at the 24 h that `config-validation.ts:50` allows it is 289 times. The run takes the case of the shipped limits, in
which the third attempt of an address lands in the third window. The bound and `NoLeakedReservation` are stated for as long as
trust does not change. A change while a body is read does leak a reservation: the catch clause charges the
address that the request has by then (`proxy.ts:760`), and the first one keeps it until its window ends.

### InviteLogin
Extends `SessionStore` and composes its actions: a request waits, then consume, login or reissue and
bind happen in one step, as in the code, which does not await between them. Answers get lost; clients
submit again; requests overlap. `cookies` is what the browsers hold. `missed` collects clients that were sent a cookie
which their browser did not keep, because the answer was lost or was not that of their latest request: such an answer
renews the secret, and the cookie they hold is dead (`proxy.ts:723`). `LatestCookieWorks` is about all others. It does not leave
out overlapping requests as such, only those that did replace the secret, and it says that nothing else does: no other client, no
refused repetition, no full store.

### Runtime
`op` is the exclusive operation that runs, with the await it is at (`pc`: `tunnel`, `close`, `start`,
`write`; `refused` is a blocked save that throws without an await) and its locals (what it will roll back to, what it writes).
`save()` takes its snapshot when it is called, so `op.write` is fixed then, while logins and logouts
go on during the write. `stage` says whether the operation is on its own path, after its start,
undoing, or rolling back an address. `Throw` has one disjunct per catch clause. The listener keeps the token it was
started with, and a login handler the token of its listener. `Crash` is possible everywhere; a write in progress has or has not been renamed.
`Boot` is `createRuntime`, `load` and `restore`. The tunnel is summarised by three states (its error
state counts as off); `start` failures of every kind are one: the address is in `taken`. `cut`,
`signedOut` and `stopped` are observations of what was acknowledged.

### Tunnel
Each start or stop is a generation; runs, downloads, children and timers are named by the generation
that made them, so that the model can say which of them touches what. `ImplementsService`: through all of that, the
published state and address behave like `TunnelService` (`off`, `starting`, `online` with an address, `error`), including that a
start ends one way or another. `stopping` is the await inside
`stop`; the gate of the runtime keeps starts and stops from overlapping, so `Start` and `StopBegin`
require `stopping = "no"`. Each write, `chmod` and rename of a download may fail; two runs share the temporary
files (`tmp`), so the rename that comes second fails. `OnlyCurrentMoves` goes by actor: no step of the run, the
download timer or the child of an overtaken start moves what the current one shows. `procs` is the operating system's view of the children.

### ProxyConnections
A connection is `live`, `closing` (destroyed, close event due) or free. `registry` is the Map of
Sets; a connection remembers its Set as its release closure does. The session store is reduced to the
current secret of each device; `mutateSession` is two steps around its awaited save. A failed write
blocks all later ones, hence `MaxFailures` is at most 1.

### ProxyExchange
Extends `ProxyConnections`: every action of an exchange is one of a connection with what the exchange
keeps added. A request is for a static asset or for something else, from a client that accepts some
codings; the coding of its answer is chosen by `ContentCoding`. A body is its length in chunks; which
headers allow caching, and for how long, is a choice of `Headers`. The cache is a set of entries
with their places in the Map's insertion order, oldest first, keyed by session, asset and what the client accepts; a hit takes the last place. `Put` follows the early
returns of `put` in their order: no time left removes the entry, an oversized one leaves it.
`Remains` says what of a destroyed connection's exchange still matters until its close event: the
capture. An entry remembers `freshUntil`, an observation. Properties: nothing of a cut device is in the
cache, not even from an exchange that was running (`CutIsForgotten`); the counter of captures is right
however an exchange ends (`CapturesCounted`);
freshness runs from the headers (`CachedIsFresh`); a hit is in a coding that its client accepts
(`HitIsAcceptable`).

### ContentCoding, StaticFreshness, Addresses, Forwarding
Operators only, translated for proofs. Weights are thousandths, times milliseconds, an address is its bits; header
fields and address texts are reduced to what the decisions tell apart of them. Their theorems are in section 5. In
`Addresses` the mask of a v4 rule is written with the shift taken modulo 32, as JavaScript does, and the v6
comparison hextet by hextet. In `Forwarding` headers are a function from the names a message has to values; what a
Connection header nominates is a set beside them.

### AuditLog
A state machine: `record` joins the queue, each write runs through `mkdir`, `stat`, `rm`, `rename`, `appendFile`, every one of
which may fail (the event is given up and the queue goes on), and the process may end anywhere, which loses the
queue. An append that does not end leaves a torn line (`torn`); the next line is glued to it and lost. An event is
its number in the order of `record`.

### BrowsePin
A state machine of the two creates, the undo after a failed one, and the clean-up of the effect: it waits for the
pinning, removes in reverse order, and only then disposes of the runtime. The host's loader may reject any call, or
have no `remove`.

### CockpitConnection
Times are ages that stop at the limits they are compared with. The microtask of a flight is a step of
its own. `calls` counts callbacks that have not settled, `owed` an edge that came too early.

### InteractionOverlay
Extends `CockpitConnection`: its refresh, when it succeeds, also makes the source collect. `published` is the
registry of the host, which changes at any time; `waits` the source's copy; `items`, `visited` and
`offline` what is on the screen; `card` a mounted card with the state of `useInteractionSubmission`,
where `locked` is the ref and `busy` the state as rendered. A click happens on what is on the screen:
`Submit` is `run`, then the guard of `InteractionOverlay.tsx`, then the fence of the source, up to
the call of the host; `Settles` is its acknowledgement or failure. An answer, a rejection and a
dismissal differ in text only and are one operation. `Resize` crosses the breakpoint in either direction and unmounts
all cards, as `InteractionOverlay.tsx:95-102` does; a card's lock goes with it, so that a request which is still pending may be answered
again: `OneAttempt` is a promise of a mounted card. Properties: `OneAttempt`, `AnswersArePending`,
`AttemptIsReported`; those of the connection (`OneRefresh`, `EdgeServed`) are checked in the composition.

### Panel
One mounted page in front of an abstract server: the tunnel of the server takes the steps of `TunnelService`,
the device list is a version. `lists` and `statuses` are requests on their way, in two stages (not yet served, answer on its
way back), so that answers overtake each other and the operations. A request carries the epoch it was sent in. `op` is the one button's work that may run
(`busyKind`); `Serve` has what each control route does to the server. The answer to a tunnel start is read
later than it is served, in a gate entry of its own (`TunnelStartRead`), so it may already show the tunnel online or failed. `followed` is the tunnel
state the effect of the tunnel poll was last run for; a disposed poll's answer is dropped with it. Properties: no late answer brings
back a list from before an acknowledged change (`ListIsCurrent`); the list on a visible page catches up
(`ListConverges`); a tunnel shown as live does not stay wrong (`TunnelFollowed`). The last is stated from when no status and no start of a tunnel is on
its way, because a status carries no epoch: the mount's answer (`RemoteSection.tsx:104-107`) or a poll's, read before a start and arriving after it, shows the tunnel off,
the effect then drops the tunnel poll, and the panel stays wrong until a button is pressed or the page is opened again.

## 3. The runs

All runs set `CHECK_DEADLOCK FALSE`: clocks, counters and numbers of operations are bounded, and an idle system
waits for nothing in particular.

| Run | Instance | Shows |
|---|---|---|
| `session_store` | both modes, 2 devices, cap 1, age 2, idle 1, throttle 2, time 3, 3 secrets, 2 hydrations, 1 lease; any file of such devices to begin with; 671 k states | the store in both modes, as an implementation of `DeviceRegistry` |
| `login_gates` | 2 addresses, 3 requests, 1 attempt, lockout 2, requests of up to 6 ticks, memory cap 1, time 6; 1.4 M states | both gates |
| `login_lockout` | 1 address, 2 attempts, time 6 | **violated**: a lock of the login gate does not last |
| `invite_retry` | 2 clients, 2 devices (room for 1), 3 codes, 2 tries each; 995 k states | invites |
| `runtime_ops` | 1 device, 2 addresses, 2 operations, 1 failing write, 1 crash; 258 k states | operations, failures and crashes |
| `runtime_logout` | 1 device, 2 operations, 1 failing write | **violated**: a sign-out is undone by a rollback |
| `tunnel_runs` | 5 starts and stops; 460 k states | the tunnel, as an implementation of `TunnelService` |
| `tunnel_stale` | 3 starts and stops | **violated**: a stale timer aborts a new download |
| `exchange_close` | 1 device, 2 connections, 1 asset that is encoded, clients that accept different codings, 2 secrets, 1 failing write, cache of 2 entries and 2 units, 1 capture, lifetime 1, time 1; 286 k states | connections end with their devices, and what they captured with them; hits are acceptable |
| `connections_lost` | 1 device, 2 connections, 1 failing write | **violated**: a connection survives a sign-out |
| `overlay_answers` | 1 request, budget 2, limit 3, patience 4; 29 k states | the recovery refresh and the answers |
| `panel` | 2 tunnel addresses, 2 inputs (clicks, changes, failures, hidings); 600 k states | the panel's list and the tunnel it follows |

`AuditLog`, `StaticFreshness`, `Addresses`, `Forwarding` and `BrowsePin` have no run: what matters of them is proved for all values of
their constants and inputs. Small instances of the two state machines were checked by hand before their proofs.

Why the bounds are enough. *Store*: the second device is the one that does not fit, so every login of
it meets the cap: it evicts the other in normal mode, and is refused in approval mode unless the other was rejected.
The clock goes one beyond the age: idle and absolute limit both expire records, activity
renews them, and expired ones are still there when they should not count. Three secrets and two hydrations
are what an old callback can be stale against, and a renewal after a hydration skips one; one callback is followed at a time because
callbacks do not influence each other except through the record. Three devices and a cap of two were checked by
hand in each mode, without the refinement. *Tracker*: three requests held
over three windows are the shortest way to reach the bound of the shipped limits; two
addresses exceed the memory cap of one. *Invites*: two tries are a first use and its retry, a third code
exceeds the limit of one pending code by two, and one place in the store makes the second device a
refusal. *Runtime*: two operations after the boot, of which the first may leave a partial state
(blocked, rolled back, crashed) and the second acts on it; larger instances (two devices, three
operations) were checked for the safety properties by hand. *Tunnel*: five generations are start,
stop, start, stop, start: a current run with two stale ones. *Connections*: two connections are an old
Set and a new one. One device with three connections, and two devices with three and no failing write,
were checked by hand for `ProxyConnections`; its device-to-device mix-ups are what the mutants
`AnotherSet` and `LeaseOfDevice` make. *Exchanges*: one asset is two representations for clients that
accept different codings; two entries of two units each exceed the limit of two units; one capture for two connections makes the counter bite; a lifetime of one tick
is all spent when the body ends a tick after the headers.
*Overlay*: the limit is longer than the budget and the patience longer than the limit, as in the code (5 s,
8 s and 10 s). One request that comes and goes is what each copy can be stale about; two requests
with shorter times (1.6 M states) were checked by hand for the safety properties. *Panel*: two tunnel addresses tell the address of before a restart
from that after it; the polls, answers,
operations of a button and steps of the tunnel are not bounded; what is bounded together is what starts trouble. Two
inputs are a change (or a click) and a loss or a hiding of the page on top of it, and a poll sent before either.
Devices, addresses and request slots are interchangeable and declared symmetric where the run has only
safety properties.

Each property of a passing run also has a mutant in `PROJECT.json`: a variant of a definition, kept next to the original in the
module ("the variant ..."), with which the same run finds the property violated.

### What the violated runs show
1. `login_lockout`: `reserve` starts a new bucket when the window of the old one is over, and the lock goes
   with the old one. A lock set late in a window ends with the window, although `config.ts:39` promises a lockout
   of a fixed duration. Upgrade locks last (`UpgradeLockKept`): `check` drops a
   bucket only when a lock ends.
2. `runtime_logout`: `rotateToken` and `mutateSession` snapshot the devices before they await; when
   the write fails they hydrate that snapshot, and a device that signed out in between is back.
3. `tunnel_stale`: the 60 s timer of a download aborts `downloadAbort`, a variable all starts share;
   after a stop and a new start it holds the new download.
4. `connections_lost`: the release closure of an old connection deletes its session's registry entry when its *own* Set is empty, even if the entry is
   a newer Set. After a revocation whose write failed (the device is back) a late close event so
   unregisters the device's new connections, and the next sign-out closes none of them.

`CutClosesStreams` and `QuietStreamsClose` therefore hold under the condition that no write failed.

## 4. Fairness

Safety needs none, and the store, the tracker and the invites have no liveness property: nothing in
them happens by itself. Elsewhere the specifications assume only what the platform gives:

* `Runtime`: awaited work ends (weak fairness of `Step`), an armed timer fires (`TimerFires`), and
  the gate is first come first served, so that a save waiting at it is not overtaken for ever by operations
  (`SF` of `SaveBegin`: it is disabled whenever another operation runs). Nothing makes a login finish, a tunnel come up or an owner act.
* `Tunnel`: an await of a run settles (the download has its own time limit), the connect timer fires, and the
  bounded wait of `stop` ends. cloudflared is never assumed to print an address, nor to exit.
* `ProxyConnections` and `ProxyExchange`: the one-second interval fires, nothing else. No stream is assumed to end
  or to move data, no write to return.
* `CockpitConnection`: time passes, timers fire, microtasks run. `refresh()` may never settle.
* `InteractionOverlay`: the same, and React renders. Time passes under strong fairness because a due timer
  stops the clock until it has fired. The host never has to acknowledge anything.
* `Panel`: intervals tick, React renders, and a poll's request is served and answered. That assumes an
  answer or an error for every poll: `fetch` has no time limit in the code, and a request that hung for ever would stop its poll.
  Requests fail as often as the inputs allow. Neither clicks nor the tunnel have fairness.
* `TunnelService` has the fairness its users rely on (`Settle`); `ImplementsService` derives it from that of `Tunnel`.

## 5. Proofs

Every safety invariant and action property of the passing runs is a theorem, for every value of the constants that the
`...Assumption` of its module allows and without a bound on the length of a behaviour; TLC had checked each property and each
inductive invariant on the run's instance before. A theorem about a property is named after it (`OneTunnelHolds` proves `OneTunnel`). The
arguments have one shape: an invariant that is inductive, a lemma per action that it is kept, and the property from it, or from a single step
that starts in it.

**`SessionStoreProofs`**, of `SessionStore`, `DeviceRegistry` and `InviteLogin` (`StoreAssumption`, `InviteAssumption`: finite sets of
ids, clients and codes, a positive cap, natural limits):

* `TypeCorrect` and `CapacityHolds`. `TypeOK` is inductive, and `Capacity` is relative to it. The lemmas are about
  counting: the counted set is finite (`CountedFinite`), one more record adds at most one (`AddOne`),
  a store with fewer counted ids is no larger (`CapacityShrinks`). In normal mode the
  evicted set has exactly the surplus (`LoginFits`); in approval mode
  admission is open only below the cap (`LoginAdmitted`); a hydration takes at most the cap (`HydrateFits`).
* `CleanMeansSavedHolds`, `ActivityLagBoundedHolds`, `ExpiryIsFinalHolds`, `LeaseFinalityHolds`, from `StoreInv`. None of the four is
  inductive: a hydration replaces the store by the copy, so what the copy knows must be good too. `SavedInv` says that a
  device in both is the same one and that the copy is not ahead; `RecordInv` that records carry secrets that were handed out, so a new
  secret is no old one; `LeaseInv` that a lease that still matches its record was notified in time; `CleanInv` what both
  hold as long as nothing was announced; `RoomInv` that the copy fits the cap, without which a hydration could drop a
  device that the clean copy still has.
* `StoreImplementsRegistry`: the store implements `DeviceRegistry` (`ImplementsRegistry`, which has no fairness, entirely). Every step
  maps to a step or a stutter of the registry. Attempting it showed that the registry's `Renew` was too narrow: it demanded the
  credential after the present one, which is not what follows a hydration; `Renew` now takes the first unused one, and the run has a third
  secret so that TLC meets the case as well.
* `OneDevicePerCodeHolds`, `LatestCookieWorksHolds`, `RotationEndsInvitesHolds`, from `InviteInv` on top of the store's invariant
  (`InviteState`). `CodeInv` ties an entry of the invite store to the device its code signed in, `MintInv` keeps the devices of two codes
  apart, and `CookieInv` follows a cookie to the code it came with, which nobody else may use again, and says that it works unless
  its client missed a newer one: without them a retry could renew the device of another client.

**`LoginTrackerProofs`** (`TrackerAssumption`): `NoLeakedReservationHolds`, `UpgradeLockKeptHolds`, and `GuessesBoundedHolds`,
without a hypothesis about `MaxHold`. `TrackerInv` says which requests
count against an address and since when a bucket counts. `GuessesBounded` is far from inductive: `GuessInv` adds that what is
in flight was reserved in this window or an earlier one, that of the requests reserved up to `j` windows before the present one
there are at most what `j` windows allow (`Older`, `Quota`), and that failures and requests in flight together stay within the bound. For the upgrade gate `UpgradeInv` says that an
address that is not locked has fewer failures than allowed (or a first one, which never locks), and that the cap is kept.

**`RuntimeProofs`** (`RuntimeAssumption`): the seven safety properties of `runtime_ops`, from `RuntimeInv`: which operation may wait at which await,
with persistence open or blocked (`GateInv`); what is known of the listener there (`BoundInv`); that a write under way carries the current
settings, and the devices unless another save is due (`DiskInv`); what an acknowledged stop leaves (`StopInv`); and that devices an acknowledged
operation removed are not in memory, in the file, in the write under way or in what a failed save would bring back (`DeviceInv`).
The properties speak of the moments between operations, or of acknowledged ones; the invariant has to carry them across
every await, crash and rollback.

**`TunnelProofs`** (`TunnelAssumption`, any number of generations): `OneTunnelHolds`, `OnlineIsRealHolds`, `OnlyCurrentMovesHolds`, and
`TunnelImplementsService`: initial states and steps are those of `TunnelService` (`Spec => Service!Init /\ [][Service!Next]_...`; its
liveness is left to the run). `TunnelInv` says that a current run on its way means "starting" and no child (`RunInv`), that a
child comes after its run and the handle's is the current one (`ChildInv`), that generations to come have done nothing (`FutureInv`), and
that a current child that was signalled left an error (`SignalInv`).

**`ProxyExchangeProofs`** (`ConnectionsAssumption`, `ExchangeAssumption`):

* `CutClosesStreamsHolds`, from `ConnInv`: as long as no write failed, a connection is in the Set its device has, or
  it is closing and its device has no Set and will not get one (`SetInv`). This is what the stale release
  closure of `connections_lost` breaks after a failed write.
* `ExchangeImplementsConnections`: every step of an exchange is one of `ProxyConnections`, hence `ExchangeClosesStreams`, the
  same property of the composition that the run checks.
* `CapturesAreCounted`, from `CaptureInv`: a held capture belongs to an exchange that is not over and was answered
  (`HolderInv`), so a freed connection cannot hold one.
* `CutIsForgottenHolds`, `CachedIsFreshHolds`, `HitIsAcceptableHolds`, from `CacheInv`: what a running exchange may still put
  into the cache is sound (`ExchangesSound`), and so is every entry (`EntriesSound`).

**`OverlayProofs`** (`OverlayAssumption`): every step of the overlay is one of `CockpitConnection` (`OverlayImplementsConnection`); from it and
`FlightInv` (a flight that is calling is the callback that runs, also after a disposal) `OneRefreshHolds`; from `CardInv` (what
a card sent is what its lock knows of) `OneAttemptHolds`; `AnswersArePendingHolds` is about single steps.

**`PanelProofs`** (`PanelAssumption`): `PanelTypes`, which includes that the intervals that run are those of what can be seen, and
`ListIsCurrentHolds`, from `PanelInv`: a list that was read since the last acknowledged change carries its epoch and has it.

**`DecisionProofs`**, of the modules without a run:

* `ContentCoding`: a coding that any declaration refuses is never chosen (`RefusalWins`); the choice is accepted and
  none is preferred to it (`ChosenIsBest`); the two entry points agree (`EntryPointsAgree`); answers that depend on
  the client say so in Vary (`VariantsAreDeclared`); an encoded answer has no length, strong etag or digest of the body
  before, except a Repr-Digest, which the code leaves there (`OnlyReprDigestIsStale`).
* `StaticFreshness`, for any clocks, metadata and delivery times: a hit is within five minutes of the headers (`HitIsRecent`) and, without a
  max-age, before every Expires that was sent (`HitBeforeExpires`); its Age is within every max-age that was sent, or one second above when upstream sent no
  Date (`AgeWithinMaxAge`), and honest (`AgeIsHonest`). Fields are sequences, so a field sent twice is among the inputs: the code accepts a max-age
  that is repeated with the same value, and no second Age, Date or Expires.
* `Addresses`: an entry admits exactly its prefix, for each length (`EntryAdmitsItsPrefix`, from `MaskKeepsPrefix` for the
  32-bit shift and `HextetsMatch` for the hextets); an accepted list is kept whole (`AllowListIsKept`); what an edge appended
  to X-Forwarded-For decides (`EdgeDecides`); no header makes a client local (`LoopbackIsThePeer`).
* `Forwarding`: the only cookie the backend gets is the one the host
  obtained for it (`ProxyCookieStays`); the forwarding fields of `SPOOFABLE_FORWARDING` reach it only as the address and the scheme the proxy reads
  from them, which it does for a loopback peer (a tunnelled client) only, while CF-Connecting-IP and True-Client-IP, which are not among those fields, pass as
  they were sent (`StrippedIsUnseen`); a nomination removes nothing the proxy sets
  (`NominationIsHarmless`); answers carry neither cookies nor hop-by-hop headers, except the handshake's two
  (`AnswersAreClean`).
* `BrowsePin`: a disposal that reached the runtime has left nothing pinned unless the loader refused
  (`UnloadedLeavesNothing`), and nothing is pinned afterwards (`PinEndsWithDisposal`); `PinInv` says that what is in the
  loader is what dispose knows of, what the pinning is still at, or what was refused.
* `AuditLog`, assuming a positive size and positive lines: the two generations are in order (`LogInOrder`), a rotation drops only what is older than
  all of a full file (`RecentEventsRetained`), a full file does not grow (`FullFileStays`). `AuditInv` ties
  the stage of a write to what `stat` found, and keeps the event being written ahead of all the file has.

Only model-checked are the liveness properties, which are out of the prover's reach: `OperationEnds`, `ChangesReachDisk`, `QuietStreamsClose`,
`EdgeServed`, `AttemptIsReported`, `ListConverges`, `TunnelFollowed`, and that every start of a tunnel settles (the liveness part of `ImplementsService`).
Two definitions have the form they have because of the provers, with the same states: the cache is a function from entries to places rather
than a sequence (`SelectSeq` takes an operator), and `InteractionOverlay` avoids an `@` inside an `EXCEPT` of `@`, which tlapm misreads.

## 6. Not modelled, and why

* Labels, addresses shown, cookie text, the text of audit lines, HTML, QR code, and the rewriting of headers other than in `ContentCoding` and `Forwarding`: data that
  no property tells apart. `Date.now` is taken to be monotonic.
* How an address or a header field is written. (A CIDR text that ends in `/` has the prefix 0, as `Number('')` is.)
* In `AuditLog` an error of `stat` other than a missing file is taken to come back at the append, as for
  a directory that cannot be read; the code takes the size for 0 then. The export reads only the current file. Events
  recorded after `flush` was called are not waited for.
* Redirects and page texts. `Runtime` leaves out
  approve, rename and session touches: they do not change which devices exist; `SessionStore` has
  them all, and there a rollback is `Hydrate`.
* `InviteLogin` leaves out the attempt tracker (it may only refuse more), `LoginTracker` the outcome
  of a login.
* In `ProxyConnections` and `ProxyExchange` an exchange that ends well emits `finish` and `close` in one step. The
  connect timer, the body limit and a refused upstream are one action (`Refused`) while the answer has not begun and
  `Lost` afterwards; the two lengths of the first-byte timer are not told apart. Backpressure is left out.
* `Panel` leaves out what is only displayed (token, invite, self-check, audit lines, toasts), and that the page may be
  unmounted; React renders before the next trip over the network. Met while modelling, and not a property: opening the panel on a
  tunnel that is online announces it as if it had just connected (`prevTunnelRef` starts undefined), `stop` keeps the invite of
  a tunnel address that is gone although the comment at `RemoteSection.tsx:200` speaks of clearing it, and a status that
  comes late, the mount's or a poll's, may replace a newer one; when it shows the tunnel off nothing polls after it (see `Panel` above).
* In `InteractionOverlay` the drafts of a question, focus and layout are left out, and so is the list of
  sessions next to the requests.
* A listener whose `close()` itself fails; the file system's own failures other than a write that
  throws; two processes on one state file.
* The components marked `not_modelled` in `PROJECT.json`: text, rendering, read-only probes and constants.

## 7. Plan

Done, in this order (most important first): `SessionStore` and its first proofs, `LoginTracker`,
`InviteLogin`, `Runtime`, `Tunnel`, `ProxyConnections`, `ProxyExchange`, `CockpitConnection`, `InteractionOverlay`; then the refinements to
`DeviceRegistry` and `TunnelService`, `Panel`, `ContentCoding`, `StaticFreshness`, `Addresses`, `Forwarding`, `AuditLog`, `BrowsePin` and the proofs about them.

To come, modelling: an unmount of the panel; a crash between a client and the host in `InteractionOverlay`; the drafts of
a question.

Proved so far: every safety invariant and every action property of the passing runs, the whole refinement of
`DeviceRegistry`, and the safety parts of the others.

To come, proofs:
1. The cache keeps its limits: never more entries than `MaxEntries`, the bytes counted are those of its entries and within
   `MaxBytes`. It needs an invariant that the places of the entries are the numbers from 1 on, without the induction that counting
   them would take (`LowestIsLeast` shows a way around it).
2. `Panel`: what a click may send to the server follows from what the panel shows.
3. Type invariants of the whole state for the connections and the overlay, of which `ConnShape` and `CardInv` state a part.
