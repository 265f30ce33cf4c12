------------------------------ MODULE Runtime ------------------------------
(***************************************************************************)
(* The runtime of src/index.ts: its exclusive operations (start, stop,     *)
(* rotateToken, setListen, revoke, tunnel start and stop, dispose, restore *)
(* and the debounced save), the state file of src/persist.ts, the listener *)
(* and the crash of the process.                                           *)
(*                                                                         *)
(* writeGate runs one exclusive operation at a time; "op" is the one that  *)
(* runs, with its place between two awaits (pc) and its locals.  The login *)
(* and logout handlers of a listener and the save timer are not gated:     *)
(* they run at any await.  A device is a session that may come to exist,   *)
(* a token a number, an address a host and port.                           *)
(***************************************************************************)
EXTENDS Naturals, FiniteSets

CONSTANTS
  Devices,      \* the sessions that may be logged in, each once
  Addresses,    \* listen addresses
  Default,      \* the address of the configuration
  AutoRestore,  \* config.autoRestore
  MaxOps,       \* bound: operations asked for by the owner
  MaxFailures,  \* bound: writes of the state file that fail
  MaxCrashes    \* bound: crashes of the process

ASSUME RuntimeAssumption ==
  /\ Default \in Addresses
  /\ AutoRestore \in BOOLEAN
  /\ MaxOps \in Nat /\ MaxFailures \in Nat /\ MaxCrashes \in Nat

VARIABLES
  up,        \* the process runs
  mem,       \* state: enabled, accessToken, listen
  sessions,  \* the devices of sessionStore
  blocked,   \* statePersistenceBlocked
  disposed,
  bound,     \* the listener, with the token and address of its spec
  failure,   \* lastFailure
  tunnel,    \* the tunnel's state ("off" stands for "error" too)
  timer,     \* saveTimer is armed
  queued,    \* the timer fired and its save waits at the gate
  op,        \* the exclusive operation that runs
  disk,      \* the state file
  logins,    \* the token of the listener whose login handler serves a device (0: none)
  used,      \* devices that logged in at some time
  tokens,    \* tokens minted so far
  taken,     \* addresses start would fail on now
  budget,    \* what is left of the three bounds
  cut,       \* devices an acknowledged revoke or rotation removed (observation only)
  signedOut, \* devices that signed out (observation only)
  stopped    \* a stop was acknowledged, no start asked for since (observation only)

durable == <<disk, used, tokens, cut, signedOut>>
volatile == <<mem, sessions, blocked, disposed, bound, failure, tunnel, timer, queued, logins>>
vars == <<up, op, volatile, durable, taken, budget, stopped>>

Settings == [enabled : BOOLEAN, token : Nat, listen : Addresses]

File == [status : {"missing", "malformed", "valid"}, enabled : BOOLEAN, token : Nat,
         listen : Addresses, sessions : SUBSET Devices]

Listener == [on : BOOLEAN, token : Nat, listen : Addresses]

NoListener == [on |-> FALSE, token |-> 0, listen |-> Default]

NoOp == [kind |-> "none", pc |-> "none", stage |-> "own", target |-> {},
         restart |-> FALSE, tunnelWas |-> FALSE, prevToken |-> 0,
         prevListen |-> Default, prevSessions |-> {},
         write |-> [status |-> "missing", enabled |-> FALSE, token |-> 0,
                    listen |-> Default, sessions |-> {}]]

Kinds == {"none", "restore", "start", "stop", "rotate", "listen", "revoke",
          "tunnel-stop", "save", "dispose"}

Gate == [kind : Kinds, stage : {"own", "started", "undo", "rollback"},
         pc : {"none", "tunnel", "close", "start", "write", "refused"},
         target : SUBSET Devices, restart : BOOLEAN, tunnelWas : BOOLEAN,
         prevToken : Nat, prevListen : Addresses, prevSessions : SUBSET Devices,
         write : File]

TypeOK ==
  /\ up \in BOOLEAN /\ mem \in Settings /\ sessions \subseteq Devices
  /\ blocked \in BOOLEAN /\ disposed \in BOOLEAN
  /\ bound \in Listener
  /\ failure \in {"none", "disposed", "state-invalid", "start-failed", "rotate-save-failed"}
  /\ tunnel \in {"off", "starting", "online"}
  /\ timer \in BOOLEAN /\ queued \in BOOLEAN
  /\ op \in Gate
  /\ disk \in File
  /\ logins \in [Devices -> Nat] /\ used \subseteq Devices /\ tokens \in Nat
  /\ taken \subseteq Addresses
  /\ budget \in [ops : Nat, failures : Nat, crashes : Nat]
  /\ cut \subseteq Devices /\ signedOut \subseteq Devices /\ stopped \in BOOLEAN

---------------------------------------------------------------------------
(* Helpers *)

Idle == up /\ op.kind = "none"

(* Handlers run at a real await only: nothing runs between a refused save  *)
(* and the catch clause behind it.                                         *)
Awaiting == up /\ op.pc # "refused"

(* What save() serializes *)
Snapshot(m, s) == [status |-> "valid", enabled |-> m.enabled, token |-> m.token,
                   listen |-> m.listen, sessions |-> s]

(* save({ required: true }) in operation o: the snapshot is taken at once, *)
(* the write is awaited; while persistence is blocked it throws.  The      *)
(* variant writes although the file was malformed.                         *)
SaveAnyway(o, m, s) == [o EXCEPT !.pc = "write", !.write = Snapshot(m, s)]
Save(o, m, s) ==
  IF blocked THEN [o EXCEPT !.pc = "refused"]
  ELSE [o EXCEPT !.pc = "write", !.write = Snapshot(m, s)]

(* load(): the settings and devices a file gives; one without a usable     *)
(* token gets a new token and no devices.                                  *)
Usable(f) == f.status = "valid" /\ f.token > 0
Loaded(f) == IF Usable(f) THEN f.sessions ELSE {}

Settled(f) ==
  [enabled |-> f.status = "valid" /\ f.enabled,
   token   |-> IF Usable(f) THEN f.token ELSE tokens + 1,
   listen  |-> IF f.status = "valid" THEN f.listen ELSE Default]

Init ==
  /\ up = FALSE
  /\ disk \in {f \in [status : {"missing", "malformed", "valid"}, enabled : BOOLEAN,
                      token : {0, 1}, listen : {Default}, sessions : SUBSET Devices] :
                 f.status # "valid" => f = [NoOp.write EXCEPT !.status = f.status]}
  /\ mem = [enabled |-> FALSE, token |-> 0, listen |-> Default]
  /\ sessions = {} /\ blocked = FALSE /\ disposed = FALSE
  /\ bound = NoListener /\ failure = "none" /\ tunnel = "off"
  /\ timer = FALSE /\ queued = FALSE
  /\ op = NoOp
  /\ logins = [d \in Devices |-> 0]
  /\ used = disk.sessions /\ tokens = 1
  /\ taken = {}
  /\ budget = [ops |-> MaxOps, failures |-> MaxFailures, crashes |-> MaxCrashes]
  /\ cut = {} /\ signedOut = {} /\ stopped = FALSE

---------------------------------------------------------------------------
(* The process starts: createRuntime, load and its own save, restore.      *)
Boot ==
  /\ ~up
  /\ up' = TRUE
  /\ mem' = Settled(disk)
  /\ tokens' = IF Usable(disk) THEN tokens ELSE tokens + 1
  /\ sessions' = Loaded(disk)
  /\ blocked' = (disk.status = "malformed")
  /\ op' = IF disk.status = "malformed" THEN NoOp
           ELSE [NoOp EXCEPT !.kind = "restore", !.pc = "write",
                             !.write = Snapshot(Settled(disk), Loaded(disk))]
  /\ disposed' = FALSE /\ failure' = "none" /\ timer' = FALSE /\ queued' = FALSE
  /\ UNCHANGED <<bound, tunnel, disk, logins, used, taken, budget, cut, signedOut, stopped>>

(* The process dies.  A write in progress has or has not been renamed.     *)
Crash ==
  /\ up
  /\ budget.crashes > 0
  /\ budget' = [budget EXCEPT !.crashes = @ - 1]
  /\ up' = FALSE
  /\ disk' \in {disk} \cup (IF op.pc = "write" THEN {op.write} ELSE {})
  /\ bound' = NoListener /\ tunnel' = "off" /\ op' = NoOp
  /\ sessions' = {} /\ timer' = FALSE /\ queued' = FALSE
  /\ logins' = [d \in Devices |-> 0]
  /\ UNCHANGED <<mem, blocked, disposed, failure, used, tokens, taken, cut, signedOut, stopped>>

---------------------------------------------------------------------------
(* The first, synchronous part of each operation *)

Asked ==
  /\ Idle
  /\ budget.ops > 0
  /\ budget' = [budget EXCEPT !.ops = @ - 1]
  /\ UNCHANGED <<up, durable, taken, disposed, blocked, bound, tunnel, queued, logins>>

StartBegin ==
  /\ Asked
  /\ stopped' = FALSE
  /\ failure' = IF ~disposed /\ bound.on THEN "none" ELSE failure
  /\ op' = IF ~disposed /\ bound.on THEN NoOp
           ELSE [NoOp EXCEPT !.kind = "start", !.pc = "start"]
  /\ UNCHANGED <<mem, sessions, timer>>

StopBegin ==
  /\ Asked
  /\ op' = [NoOp EXCEPT !.kind = "stop", !.pc = "tunnel"]
  /\ UNCHANGED <<mem, sessions, failure, stopped, timer>>

(* Rotation goes straight to its teardown; waiting for the gate that it    *)
(* holds itself is the variant.                                            *)
NestedGate == "none"
RotateEntry == "tunnel"

RotateBegin ==
  /\ Asked
  /\ op' = [NoOp EXCEPT !.kind = "rotate", !.pc = RotateEntry, !.restart = bound.on,
                        !.tunnelWas = (tunnel = "online"),
                        !.prevToken = mem.token, !.prevSessions = sessions]
  /\ UNCHANGED <<mem, sessions, failure, stopped, timer>>

(* An invalid or unchanged address changes nothing. *)
ListenBegin(a) ==
  /\ Asked
  /\ a # mem.listen
  /\ mem' = [mem EXCEPT !.listen = a]
  /\ failure' = "none"
  /\ op' = Save([NoOp EXCEPT !.kind = "listen", !.restart = bound.on,
                             !.tunnelWas = (tunnel = "online"),
                             !.prevListen = mem.listen], mem', sessions)
  /\ UNCHANGED <<sessions, stopped, timer>>

(* mutateSession; approve and rename change no membership. *)
RevokeBegin(d) ==
  /\ Asked
  /\ d \in sessions
  /\ sessions' = sessions \ {d}
  /\ op' = Save([NoOp EXCEPT !.kind = "revoke", !.target = {d},
                             !.prevSessions = sessions], mem, sessions')
  /\ timer' = TRUE
  /\ UNCHANGED <<mem, failure, stopped>>

TunnelStopBegin ==
  /\ Asked
  /\ op' = [NoOp EXCEPT !.kind = "tunnel-stop", !.pc = "tunnel"]
  /\ UNCHANGED <<mem, sessions, failure, stopped, timer>>

(* startTunnel never awaits: the whole operation is one step. *)
TunnelStart ==
  /\ Idle /\ budget.ops > 0
  /\ ~disposed /\ bound.on /\ tunnel = "off"
  /\ budget' = [budget EXCEPT !.ops = @ - 1]
  /\ tunnel' = "starting"
  /\ UNCHANGED <<up, op, mem, sessions, blocked, disposed, bound, failure, timer, queued,
                 logins, durable, taken, stopped>>

(* The save of scheduleSave runs; onChange marks what it covers. *)
SaveBegin ==
  /\ Idle /\ queued
  /\ queued' = FALSE
  /\ op' = Save([NoOp EXCEPT !.kind = "save"], mem, sessions)
  /\ UNCHANGED <<up, mem, sessions, blocked, disposed, bound, failure, tunnel, timer,
                 logins, durable, taken, budget, stopped>>

DisposeBegin ==
  /\ Idle /\ ~disposed /\ budget.ops > 0
  /\ budget' = [budget EXCEPT !.ops = @ - 1]
  /\ disposed' = TRUE
  /\ timer' = FALSE
  /\ op' = [NoOp EXCEPT !.kind = "dispose", !.pc = "tunnel"]
  /\ UNCHANGED <<up, mem, sessions, blocked, bound, failure, tunnel, queued, logins,
                 durable, taken, stopped>>

---------------------------------------------------------------------------
(* teardown *)

(* What is left of the tunnel, of the listener, of the persisted wish to   *)
(* run and of the devices; each with a variant that forgets to act.        *)
TunnelLeft == tunnel
TunnelDown == "off"

ListenerLeft == bound
ListenerDown == NoListener

StillEnabled(m) == m
Disabled(m) == [m EXCEPT !.enabled = FALSE]

Uncleared == sessions
Cleared == {}

TunnelStopped ==
  /\ op.pc = "tunnel"
  /\ tunnel' = TunnelDown
  /\ op' = IF op.kind = "tunnel-stop" THEN NoOp ELSE [op EXCEPT !.pc = "close"]
  /\ UNCHANGED <<up, mem, sessions, blocked, disposed, bound, failure, timer, queued,
                 logins, durable, taken, budget, stopped>>

Closed ==
  /\ op.pc = "close"
  /\ bound' = ListenerDown
  /\ UNCHANGED <<up, blocked, disposed, tunnel, queued, logins, disk, used, taken, budget,
                 cut, signedOut, stopped>>

(* closeBound, and what the operation does up to its next await *)
ListenerClosed ==
  /\ Closed
  /\ \/ /\ op.kind = "stop"
        /\ mem' = Disabled(mem)
        /\ failure' = "none"
        /\ op' = Save(op, mem', sessions)
        /\ UNCHANGED <<sessions, tokens, timer>>
     \/ /\ op.kind = "rotate" /\ op.stage = "own"
        /\ mem' = [mem EXCEPT !.token = tokens + 1]
        /\ tokens' = tokens + 1
        /\ sessions' = Cleared
        /\ timer' = (timer \/ sessions # {})
        /\ op' = Save(op, mem', sessions')
        /\ UNCHANGED failure
     \/ /\ op.kind = "listen" /\ op.stage = "own"
        /\ op' = IF op.restart THEN [op EXCEPT !.pc = "start"] ELSE NoOp
        /\ UNCHANGED <<mem, sessions, failure, tokens, timer>>
     \/ /\ op.kind = "dispose"
        /\ op' = Save(op, mem, sessions)
        /\ UNCHANGED <<mem, sessions, failure, tokens, timer>>
     \/ /\ op.stage = "undo"
        /\ op' = NoOp
        /\ UNCHANGED <<mem, sessions, failure, tokens, timer>>

---------------------------------------------------------------------------
(* start, on its own or inside another operation *)

(* The address setListen goes back to, and staying on the one that failed. *)
FailedAddress == mem.listen
Fallback == op.prevListen

(* start answers without a listener; setListen then goes back to the       *)
(* address before, once.                                                   *)
Refuse(reason) ==
  /\ failure' = reason
  /\ IF op.kind = "listen" /\ op.stage = "own"
       THEN /\ mem' = [mem EXCEPT !.listen = Fallback]
            /\ op' = Save([op EXCEPT !.stage = "rollback"], mem', sessions)
       ELSE /\ op' = NoOp
            /\ UNCHANGED mem
  /\ UNCHANGED <<up, sessions, blocked, disposed, bound, tunnel, timer, queued, logins,
                 durable, taken, budget, stopped>>

StartRefused ==
  /\ op.pc = "start"
  /\ \/ disposed /\ Refuse("disposed")
     \/ ~disposed /\ blocked /\ Refuse("state-invalid")

(* self-loop, TLS files, the backend's authentication or listen() itself *)
StartFails ==
  /\ op.pc = "start" /\ ~disposed /\ ~blocked
  /\ mem.listen \in taken
  /\ Refuse("start-failed")

Started ==
  /\ op.pc = "start" /\ ~disposed /\ ~blocked
  /\ mem.listen \notin taken
  /\ bound' = [on |-> TRUE, token |-> mem.token, listen |-> mem.listen]
  /\ failure' = "none"
  /\ mem' = [mem EXCEPT !.enabled = TRUE]
  /\ op' = Save([op EXCEPT !.stage = IF op.stage = "rollback" THEN "rollback" ELSE "started"],
                mem', sessions)
  /\ UNCHANGED <<up, sessions, blocked, disposed, tunnel, timer, queued, logins, durable,
                 taken, budget, stopped>>

---------------------------------------------------------------------------
(* The end of a save *)

(* restartTunnelIfLive *)
TunnelAfter == IF op.tunnelWas /\ bound.on /\ ~disposed THEN "starting" ELSE tunnel

(* The operation's save returned. *)
Continue ==
  /\ \/ /\ op.kind \in {"start", "stop", "revoke", "save", "dispose"}
        /\ op' = NoOp
        /\ UNCHANGED tunnel
     \/ /\ op.kind = "restore"
        /\ op' = IF op.stage = "own" /\ AutoRestore /\ mem.enabled
                   THEN [op EXCEPT !.pc = "start"] ELSE NoOp
        /\ UNCHANGED tunnel
     \/ /\ op.kind = "rotate"
        /\ op' = IF op.stage = "own" /\ op.restart THEN [op EXCEPT !.pc = "start"] ELSE NoOp
        /\ tunnel' = IF op.stage = "own" THEN tunnel ELSE TunnelAfter
     \/ /\ op.kind = "listen"
        /\ op' = IF op.stage = "own" THEN [op EXCEPT !.pc = "tunnel"]
                 ELSE IF ~bound.on THEN [op EXCEPT !.pc = "start"] ELSE NoOp
        /\ tunnel' = IF bound.on /\ op.stage # "own" THEN TunnelAfter ELSE tunnel
  /\ UNCHANGED <<mem, sessions, failure>>

(* A required save threw; the other saves only answer false. *)
Throw ==
  \/ /\ op.kind \in {"save", "dispose"} \/ (op.kind = "restore" /\ op.stage = "own")
     /\ Continue
  \/ /\ op.stage = "started" \/ (op.stage = "rollback" /\ bound.on)
     /\ mem' = [mem EXCEPT !.enabled = FALSE]
     /\ op' = [op EXCEPT !.stage = "undo", !.pc = "tunnel"]
     /\ UNCHANGED <<sessions, failure, tunnel>>
  \/ /\ op.kind = "rotate" /\ op.stage = "own"
     /\ mem' = [mem EXCEPT !.token = op.prevToken]
     /\ sessions' = op.prevSessions
     /\ failure' = "rotate-save-failed"
     /\ op' = NoOp
     /\ UNCHANGED tunnel
  \/ /\ op.kind = "listen" /\ op.stage = "own"
     /\ mem' = [mem EXCEPT !.listen = op.prevListen]
     /\ op' = NoOp
     /\ UNCHANGED <<sessions, failure, tunnel>>
  \/ /\ op.kind = "revoke"
     /\ sessions' = op.prevSessions
     /\ op' = NoOp
     /\ UNCHANGED <<mem, failure, tunnel>>
  \/ /\ (op.kind = "stop" /\ op.stage = "own") \/ (op.stage = "rollback" /\ ~bound.on)
     /\ op' = NoOp
     /\ UNCHANGED <<mem, sessions, failure, tunnel>>

WriteOk ==
  /\ op.pc = "write"
  /\ disk' = op.write
  /\ cut' = cut \cup (IF op.kind = "rotate" /\ op.stage = "own" THEN op.prevSessions
                      ELSE op.target)
  /\ stopped' = (stopped \/ op.kind = "stop")
  /\ Continue
  /\ UNCHANGED <<up, blocked, disposed, bound, timer, queued, logins, used, tokens, taken,
                 budget, signedOut>>

(* The write fails: later saves are refused; the variant tries again.      *)
StillOpen == blocked
BlockedAfterFailure == TRUE

WriteFails ==
  /\ op.pc = "write"
  /\ budget.failures > 0
  /\ budget' = [budget EXCEPT !.failures = @ - 1]
  /\ blocked' = BlockedAfterFailure
  /\ Throw
  /\ UNCHANGED <<up, disposed, bound, timer, queued, logins, durable, taken, stopped>>

SaveRefused ==
  /\ op.pc = "refused"
  /\ Throw
  /\ UNCHANGED <<up, blocked, disposed, bound, timer, queued, logins, durable, taken, budget,
                 stopped>>

---------------------------------------------------------------------------
(* What no gate orders *)

Ungated ==
  /\ Awaiting
  /\ UNCHANGED <<up, op, mem, blocked, disposed, bound, failure, disk, tokens, taken, budget,
                 cut, stopped>>

(* scheduleSave, and not calling it *)
Unscheduled == timer
Scheduled == TRUE

(* A login handler has read a request and waits for body and delay; it     *)
(* holds the spec, and so the token, of its listener.                      *)
LoginArrives(d) ==
  /\ Ungated
  /\ bound.on /\ d \notin used /\ logins[d] = 0
  /\ logins' = [logins EXCEPT ![d] = bound.token]
  /\ UNCHANGED <<sessions, tunnel, timer, queued, used, signedOut>>

(* Its delay is over, whether or not the listener is still there. *)
LoginFinishes(d) ==
  /\ Ungated
  /\ logins[d] > 0
  /\ sessions' = sessions \cup {d}
  /\ used' = used \cup {d}
  /\ logins' = [logins EXCEPT ![d] = 0]
  /\ timer' = Scheduled
  /\ UNCHANGED <<tunnel, queued, signedOut>>

Logout(d) ==
  /\ Ungated
  /\ bound.on /\ d \in sessions
  /\ sessions' = sessions \ {d}
  /\ signedOut' = signedOut \cup {d}
  /\ timer' = Scheduled
  /\ UNCHANGED <<tunnel, queued, used, logins>>

TimerFires ==
  /\ Ungated
  /\ timer
  /\ timer' = FALSE /\ queued' = TRUE
  /\ UNCHANGED <<sessions, tunnel, used, logins, signedOut>>

(* cloudflared comes online or exits by itself *)
TunnelMoves ==
  /\ Ungated
  /\ \/ tunnel = "starting" /\ op.pc # "tunnel" /\ tunnel' \in {"online", "off"}
     \/ tunnel = "online" /\ op.pc # "tunnel" /\ tunnel' = "off"
  /\ UNCHANGED <<sessions, timer, queued, used, logins, signedOut>>

(* An address becomes free or busy between two operations. *)
AddressChanges(a) ==
  /\ Idle
  /\ budget.ops > 0
  /\ taken' = IF a \in taken THEN taken \ {a} ELSE taken \cup {a}
  /\ UNCHANGED <<up, op, volatile, durable, budget, stopped>>

---------------------------------------------------------------------------
Operation ==
  \/ StartBegin \/ StopBegin \/ RotateBegin \/ TunnelStopBegin \/ TunnelStart
  \/ DisposeBegin
  \/ \E a \in Addresses : ListenBegin(a)
  \/ \E d \in Devices : RevokeBegin(d)

Step ==
  \/ TunnelStopped \/ ListenerClosed \/ StartRefused \/ StartFails \/ Started
  \/ WriteOk \/ WriteFails \/ SaveRefused

Next ==
  \/ Boot \/ Crash \/ Operation \/ SaveBegin \/ Step \/ TimerFires \/ TunnelMoves
  \/ \E d \in Devices : LoginArrives(d) \/ LoginFinishes(d) \/ Logout(d)
  \/ \E a \in Addresses : AddressChanges(a)

(* Awaited work ends, timers fire, and the gate is first come first served. *)
Fairness == WF_vars(Step) /\ WF_vars(TimerFires) /\ SF_vars(SaveBegin)

Spec == Init /\ [][Next]_vars /\ Fairness

---------------------------------------------------------------------------
(* Properties *)

(* Between two operations the file holds what memory holds: after any      *)
(* outcome of start, stop, rotation and address change, rollbacks included,*)
(* a restart would come back to the same settings, and to the same devices *)
(* unless a save of them is still due.                                     *)
DurableWhenIdle ==
  Idle /\ ~blocked =>
    /\ disk.status = "valid"
    /\ [enabled |-> disk.enabled, token |-> disk.token, listen |-> disk.listen] = mem
    /\ ~timer /\ ~queued => disk.sessions = sessions

(* No listener ever accepts a token that a restart would forget, nor one   *)
(* that is not the current token; between operations it listens on the     *)
(* current address, and after a dispose there is none.                     *)
ListenerCurrent ==
  bound.on =>
    /\ bound.token = mem.token /\ bound.token = disk.token
    /\ Idle => bound.listen = mem.listen /\ ~disposed

(* cloudflared never forwards to a listener that is gone: the tunnel is    *)
(* torn down first, in every operation and on every error path.            *)
TunnelNeedsListener == tunnel # "off" => bound.on

(* "Do not overwrite a malformed/unreadable existing state file            *)
(* automatically": no operation, timer or dispose ever replaces it.        *)
MalformedKept == [][disk.status = "malformed" => disk' = disk]_vars

(* After an acknowledged stop nothing but a start brings the listener up   *)
(* again: not a rotation, an address change, a crash and its restore.      *)
StopIsFinal == stopped => ~bound.on

(* A device whose revocation, or a rotation that removed it, was           *)
(* acknowledged never comes back, not after a crash and not by the         *)
(* rollback of a later operation.                                          *)
CutIsFinal == cut \cap (sessions \cup disk.sessions) = {}

(* "when the new bind fails, the previous address is restored so the user  *)
(* never loses an already working entry": a running proxy leaves a change  *)
(* of address without a listener only if the state file could not be       *)
(* written, the plugin was disposed or the previous address fails as well; *)
(* and a tunnel that was online is started again with it.                  *)
EntryKept ==
  [][op.kind = "listen" /\ op.restart /\ op'.kind = "none" /\ up' /\ ~blocked' /\ ~disposed
       => /\ bound'.on \/ op.prevListen \in taken
          /\ bound'.on /\ op.tunnelWas => tunnel' # "off"]_vars

(* The gate is never held for ever: every operation ends, unless the       *)
(* process does.                                                           *)
OperationEnds == op.kind # "none" ~> op.kind = "none"

(* Devices that signed in or out reach the file, unless its writes are     *)
(* refused, the process ends or the plugin is disposed.                    *)
ChangesReachDisk ==
  (up /\ sessions # disk.sessions) ~>
    (~up \/ blocked \/ disposed \/ sessions = disk.sessions)

(* "Signing out revokes this device's session immediately; the next visit  *)
(* needs a fresh login": the session of a device that signed out is gone   *)
(* for good.                                                               *)
LogoutIsFinal == signedOut \cap sessions = {}
=============================================================================
