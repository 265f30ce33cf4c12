--------------------------- MODULE RuntimeProofs ---------------------------
(***************************************************************************)
(* Theorems about Runtime, for any number of operations, failed writes and *)
(* crashes, and any devices and addresses.                                 *)
(***************************************************************************)
EXTENDS Runtime, TLAPS

(* Where each operation may wait, and what a place says of the gate: a     *)
(* write is under way only while persistence is open, a save is refused    *)
(* and a start undone only when it is not.                                 *)
GateInv ==
  /\ ~up \/ op.kind = "none" => op = NoOp
  /\ op.kind # "none" => op.pc # "none"
  /\ op.pc = "write" => ~blocked
  /\ op.pc = "refused" => blocked /\ op.stage \in {"own", "rollback"}
  /\ op.pc = "start" => /\ op.kind \in {"restore", "start", "rotate", "listen"}
                        /\ op.stage \in {"own", "rollback"}
  /\ op.pc \in {"tunnel", "close"} =>
       \/ op.stage = "own" /\ op.kind \in {"stop", "rotate", "listen", "dispose", "tunnel-stop"}
       \/ op.stage = "undo" /\ blocked
  /\ op.kind = "restore" => op.pc # "refused"
  /\ op.stage = "started" => /\ op.kind \in {"restore", "start", "rotate", "listen"}
                             /\ op.pc = "write"
  /\ op.stage = "undo" => /\ op.kind \in {"restore", "start", "rotate", "listen"}
                          /\ op.pc \in {"tunnel", "close"}
  /\ op.stage = "rollback" => /\ op.kind = "listen" /\ op.restart
                              /\ op.prevListen = mem.listen
                              /\ op.pc \in {"write", "refused", "start"}
  /\ op.kind = "listen" /\ op.pc = "start" => op.restart
  /\ op.kind = "start" /\ op.stage = "own" => op.pc = "start"
  /\ op.kind = "tunnel-stop" => op.pc = "tunnel" /\ op.stage = "own"

(* The listener: closed only behind the tunnel, never there before a start *)
(* and always there behind one; while an address change has not closed it  *)
(* it listens on the address before.                                       *)
BoundInv ==
  /\ ~up => ~bound.on
  /\ TunnelNeedsListener
  /\ op.pc = "close" => tunnel = "off"
  /\ op.pc = "start" => ~bound.on
  /\ op.pc \in {"write", "refused"} /\ op.stage = "own"
     /\ op.kind \in {"restore", "stop", "rotate", "dispose"} => ~bound.on
  /\ op.stage = "started" => bound.on
  /\ bound.on => /\ bound.token = mem.token /\ bound.token = disk.token
                 /\ disposed => op.kind = "dispose"
                 /\ bound.listen = IF op.kind = "listen" /\ op.stage = "own"
                                     THEN op.prevListen ELSE mem.listen

(* What the file holds: a write carries the current settings, and the      *)
(* devices unless a save of them is due; away from writes, and as long as  *)
(* persistence is open, the file holds the settings.                       *)
Same(f) == /\ f.status = "valid"
           /\ f.enabled = mem.enabled /\ f.token = mem.token /\ f.listen = mem.listen

DiskInv ==
  /\ disk.status = "malformed" /\ up => blocked
  /\ op.pc = "write" => Same(op.write) /\ (~timer /\ ~queued => op.write.sessions = sessions)
  /\ up /\ ~blocked /\ op.pc # "write" =>
       /\ Same(disk)
       /\ op.kind # "dispose" /\ ~timer /\ ~queued => disk.sessions = sessions

(* An acknowledged stop: nothing wants the listener back. *)
StopInv ==
  /\ op.kind = "stop" /\ op.pc = "write" => ~mem.enabled
  /\ stopped => /\ ~bound.on /\ ~disk.enabled /\ ~mem.enabled
                /\ op.kind # "start" /\ op.pc # "start" /\ ~op.restart

(* Devices come to exist once, and those that an acknowledged operation    *)
(* removed are nowhere: not in memory, the file or a write under way, nor  *)
(* in what a failed save would bring back.                                 *)
DeviceInv ==
  /\ sessions \cup disk.sessions \cup op.write.sessions \cup op.target \cup op.prevSessions
       \subseteq used
  /\ cut \subseteq used
  /\ \A d \in Devices : logins[d] > 0 => d \notin used
  /\ cut \cap (sessions \cup disk.sessions) = {}
  /\ op.pc = "write" => cut \cap op.write.sessions = {}
  /\ op.target # {} => op.kind = "revoke"
  /\ op.kind = "revoke" =>
       /\ op.pc \in {"write", "refused"}
       /\ op.target \cap sessions = {} /\ (op.pc = "write" => op.target \cap op.write.sessions = {})
  /\ op.kind = "rotate" /\ op.stage = "own" /\ op.pc \in {"write", "refused"} =>
       /\ op.prevSessions \cap sessions = {}
       /\ op.pc = "write" => op.prevSessions \cap op.write.sessions = {}
  /\ op.kind = "revoke" \/ (op.kind = "rotate" /\ op.stage = "own" /\ op.pc # "start") =>
       cut \cap op.prevSessions = {}

RuntimeInv == GateInv /\ BoundInv /\ DiskInv /\ StopInv /\ DeviceInv

---------------------------------------------------------------------------
(* Types *)
LEMMA SaveType ==
  ASSUME TypeOK, NEW o \in Gate, NEW m \in Settings, NEW s \in SUBSET Devices
  PROVE  Save(o, m, s) \in Gate
  BY DEF Save, Snapshot, Gate, Settings, File

(* What is read from the state file is of the right type.                  *)
LEMMA SettledType ==
  ASSUME TypeOK
  PROVE  Settled(disk) \in Settings /\ Loaded(disk) \in SUBSET Devices
  BY RuntimeAssumption DEF RuntimeAssumption, TypeOK, Settled, Loaded, Usable, Settings, File

(* The idle gate is a state of the gate.                                   *)
LEMMA NoOpType == NoOp \in Gate
  BY RuntimeAssumption DEF RuntimeAssumption, NoOp, Gate, Kinds, File

(* The type invariant holds at the start.                                  *)
LEMMA TypeInit == ASSUME Init PROVE TypeOK
<1> USE RuntimeAssumption DEF RuntimeAssumption
<1>1. disk \in File
  <2>1. [NoOp.write EXCEPT !.status = "malformed"] \in File
        /\ [NoOp.write EXCEPT !.status = "missing"] \in File
    BY DEF NoOp, File
  <2> QED BY <2>1 DEF Init, File
<1>2. mem \in Settings /\ bound \in Listener BY DEF Init, Settings, Listener, NoListener
<1>3. op \in Gate BY NoOpType DEF Init
<1>4. budget \in [ops : Nat, failures : Nat, crashes : Nat] BY DEF Init
<1>5. used \subseteq Devices BY <1>1 DEF Init, File
<1>6. logins \in [Devices -> Nat] BY DEF Init
<1> QED BY <1>1, <1>2, <1>3, <1>4, <1>5, <1>6 DEF Init, TypeOK

(* An operation that is refused keeps the types.                           *)
LEMMA RefuseType ==
  ASSUME TypeOK, NEW r \in {"disposed", "state-invalid", "start-failed"}, Refuse(r)
  PROVE  TypeOK'
<1>1. CASE op.kind = "listen" /\ op.stage = "own"
  <2>1. [op EXCEPT !.stage = "rollback"] \in Gate BY DEF TypeOK, Gate
  <2>2. mem' \in Settings BY <1>1 DEF Refuse, Fallback, TypeOK, Settings, Gate
  <2>3. op' \in Gate BY <1>1, <2>1, <2>2, SaveType DEF Refuse, TypeOK
  <2> QED BY <2>2, <2>3 DEF Refuse, TypeOK, volatile, durable
<1>2. CASE ~(op.kind = "listen" /\ op.stage = "own")
  BY <1>2, NoOpType DEF Refuse, TypeOK, durable
<1> QED BY <1>1, <1>2

(* The end of an operation, and the start of its second half, keep the     *)
(* types.                                                                  *)
LEMMA ContinueType ==
  ASSUME TypeOK, Continue
  PROVE  op' \in Gate /\ tunnel' \in {"off", "starting", "online"}
         /\ UNCHANGED <<mem, sessions, failure>>
  BY NoOpType DEF Continue, TunnelAfter, TypeOK, Gate

(* An operation that throws, and what it takes back, keep the types.       *)
LEMMA ThrowType ==
  ASSUME TypeOK, Throw
  PROVE  /\ op' \in Gate /\ tunnel' \in {"off", "starting", "online"}
         /\ mem' \in Settings /\ sessions' \subseteq Devices
         /\ failure' \in {"none", "disposed", "state-invalid", "start-failed", "rotate-save-failed"}
<1>1. CASE Continue BY <1>1, ContinueType DEF TypeOK
<1>2. CASE ~Continue
  <2>1. \/ mem' = mem
        \/ mem' \in {[mem EXCEPT !.enabled = FALSE], [mem EXCEPT !.token = op.prevToken],
                     [mem EXCEPT !.listen = op.prevListen]}
    BY <1>2 DEF Throw
  <2>2. mem' \in Settings BY <2>1 DEF TypeOK, Gate, Settings
  <2>3. op' \in {NoOp, [op EXCEPT !.stage = "undo", !.pc = "tunnel"]} BY <1>2 DEF Throw
  <2>4. op' \in Gate BY <2>3, NoOpType DEF TypeOK, Gate
  <2>5. sessions' \in {sessions, op.prevSessions} /\ tunnel' = tunnel
        /\ failure' \in {failure, "rotate-save-failed"}
    BY <1>2 DEF Throw
  <2> QED BY <2>2, <2>4, <2>5 DEF TypeOK, Gate
<1> QED BY <1>1, <1>2

(* Every step of an operation and of what no gate orders keeps the types. *)
LEMMA TypeStep ==
  ASSUME TypeOK, [Next]_vars
  PROVE  TypeOK'
<1> USE NoOpType DEF TypeOK, durable, volatile
<1>1. CASE Boot
  <2>1. mem' \in Settings /\ sessions' \subseteq Devices BY <1>1, SettledType DEF Boot
  <2>2. Snapshot(Settled(disk), Loaded(disk)) \in File
    BY SettledType DEF Snapshot, File, Settings
  <2>3. op' \in Gate BY <1>1, <2>2 DEF Boot, Gate, Kinds
  <2>4. blocked' \in BOOLEAN /\ tokens' \in Nat BY <1>1 DEF Boot
  <2> QED BY <1>1, <2>1, <2>3, <2>4 DEF Boot
<1>2. CASE Crash
  <2>1. disk' \in File BY <1>2 DEF Crash, Gate
  <2>2. bound' \in Listener
    BY <1>2, RuntimeAssumption DEF Crash, NoListener, Listener, RuntimeAssumption
  <2>3. op' \in Gate /\ logins' \in [Devices -> Nat] BY <1>2 DEF Crash
  <2>4. budget' \in [ops : Nat, failures : Nat, crashes : Nat] BY <1>2 DEF Crash
  <2> QED BY <1>2, <2>1, <2>2, <2>3, <2>4 DEF Crash
<1>3. CASE StartBegin
  <2>1. op' \in Gate BY <1>3 DEF StartBegin, Gate, Kinds
  <2>2. budget' \in [ops : Nat, failures : Nat, crashes : Nat] BY <1>3 DEF StartBegin, Asked
  <2> QED BY <1>3, <2>1, <2>2 DEF StartBegin, Asked
<1>4. CASE StopBegin
  <2>1. op' \in Gate BY <1>4 DEF StopBegin, Gate, Kinds
  <2> QED BY <1>4, <2>1 DEF StopBegin, Asked
<1>5. CASE RotateBegin
  <2>1. op' \in Gate BY <1>5 DEF RotateBegin, RotateEntry, Gate, Kinds, Settings, Listener
  <2> QED BY <1>5, <2>1 DEF RotateBegin, Asked
<1>6. CASE TunnelStopBegin
  <2>1. op' \in Gate BY <1>6 DEF TunnelStopBegin, Gate, Kinds
  <2> QED BY <1>6, <2>1 DEF TunnelStopBegin, Asked
<1>7. CASE TunnelStart BY <1>7 DEF TunnelStart
<1>8. CASE DisposeBegin
  <2>1. op' \in Gate BY <1>8 DEF DisposeBegin, Gate, Kinds
  <2>2. budget' \in [ops : Nat, failures : Nat, crashes : Nat] BY <1>8 DEF DisposeBegin
  <2> QED BY <1>8, <2>1, <2>2 DEF DisposeBegin
<1>9. ASSUME NEW a \in Addresses, ListenBegin(a) PROVE TypeOK'
  <2>1. mem' \in Settings BY <1>9 DEF ListenBegin, Settings
  <2>2. [NoOp EXCEPT !.kind = "listen", !.restart = bound.on, !.tunnelWas = (tunnel = "online"),
                     !.prevListen = mem.listen] \in Gate
    BY DEF Gate, Kinds, Settings, Listener
  <2>3. op' \in Gate BY <1>9, <2>1, <2>2, SaveType DEF ListenBegin
  <2> QED BY <1>9, <2>1, <2>3 DEF ListenBegin, Asked
<1>10. ASSUME NEW d \in Devices, RevokeBegin(d) PROVE TypeOK'
  <2>1. [NoOp EXCEPT !.kind = "revoke", !.target = {d}, !.prevSessions = sessions] \in Gate
    BY DEF Gate, Kinds
  <2>2. op' \in Gate BY <1>10, <2>1, SaveType DEF RevokeBegin
  <2> QED BY <1>10, <2>2 DEF RevokeBegin, Asked
<1>11. CASE SaveBegin
  <2>1. [NoOp EXCEPT !.kind = "save"] \in Gate BY DEF Gate, Kinds
  <2>2. op' \in Gate BY <1>11, <2>1, SaveType DEF SaveBegin
  <2> QED BY <1>11, <2>2 DEF SaveBegin
<1>12. CASE TunnelStopped BY <1>12 DEF TunnelStopped, TunnelDown, Gate
<1>13. CASE ListenerClosed
  <2>1. /\ mem' \in {mem, [mem EXCEPT !.enabled = FALSE], [mem EXCEPT !.token = tokens + 1]}
        /\ sessions' \in {sessions, {}} /\ tokens' \in {tokens, tokens + 1}
        /\ timer' \in BOOLEAN /\ failure' \in {"none", failure}
    BY <1>13 DEF ListenerClosed, Disabled, Cleared
  <2>2. op' \in {Save(op, mem', sessions'), [op EXCEPT !.pc = "start"], NoOp}
    BY <1>13 DEF ListenerClosed
  <2>3. sessions' \subseteq Devices /\ tokens' \in Nat BY <2>1
  <2>6. mem' \in Settings
    <3>1. [mem EXCEPT !.enabled = FALSE] \in Settings BY DEF Settings
    <3>2. [mem EXCEPT !.token = tokens + 1] \in Settings BY DEF Settings
    <3> QED BY <2>1, <3>1, <3>2
  <2>5. op' \in Gate BY <2>2, <2>3, <2>6, SaveType DEF Gate
  <2>4. bound' \in Listener
    BY <1>13, RuntimeAssumption
    DEF ListenerClosed, Closed, ListenerDown, NoListener, Listener, RuntimeAssumption
  <2> QED BY <1>13, <2>1, <2>3, <2>4, <2>5, <2>6 DEF ListenerClosed, Closed
<1>14. CASE StartRefused BY <1>14, RefuseType DEF StartRefused
<1>15. CASE StartFails BY <1>15, RefuseType DEF StartFails
<1>16. CASE Started
  <2>1. mem' \in Settings /\ bound' \in Listener BY <1>16 DEF Started, Settings, Listener
  <2>2. [op EXCEPT !.stage = IF op.stage = "rollback" THEN "rollback" ELSE "started"] \in Gate
    BY DEF Gate
  <2>3. op' \in Gate BY <1>16, <2>1, <2>2, SaveType DEF Started
  <2> QED BY <1>16, <2>1, <2>3 DEF Started
<1>17. CASE WriteOk BY <1>17, ContinueType DEF WriteOk, Gate
<1>18. CASE WriteFails BY <1>18, ThrowType DEF WriteFails, BlockedAfterFailure
<1>19. CASE SaveRefused BY <1>19, ThrowType DEF SaveRefused
<1>20. CASE TimerFires BY <1>20 DEF TimerFires, Ungated
<1>21. CASE TunnelMoves BY <1>21 DEF TunnelMoves, Ungated
<1>22. ASSUME NEW d \in Devices, LoginArrives(d) \/ LoginFinishes(d) \/ Logout(d) PROVE TypeOK'
  <2>1. logins' \in {logins, [logins EXCEPT ![d] = bound.token], [logins EXCEPT ![d] = 0]}
        /\ sessions' \in {sessions, sessions \cup {d}, sessions \ {d}} /\ timer' \in {timer, TRUE}
        /\ used' \in {used, used \cup {d}} /\ signedOut' \in {signedOut, signedOut \cup {d}}
    BY <1>22 DEF LoginArrives, LoginFinishes, Logout, Ungated, Scheduled
  <2>2. logins' \in [Devices -> Nat] BY <2>1 DEF Listener
  <2>3. sessions' \subseteq Devices /\ used' \subseteq Devices /\ signedOut' \subseteq Devices
        /\ timer' \in BOOLEAN /\ tunnel' = tunnel /\ queued' = queued
        /\ UNCHANGED <<up, op, mem, blocked, disposed, bound, failure, disk, tokens, taken,
                      budget, cut, stopped>>
    BY <1>22, <2>1 DEF LoginArrives, LoginFinishes, Logout, Ungated
  <2> QED BY <2>2, <2>3
<1>23. ASSUME NEW a \in Addresses, AddressChanges(a) PROVE TypeOK'
  BY <1>23 DEF AddressChanges
<1>24. CASE UNCHANGED vars BY <1>24 DEF vars
<1> QED BY <1>1, <1>2, <1>3, <1>4, <1>5, <1>6, <1>7, <1>8, <1>9, <1>10, <1>11, <1>12, <1>13,
  <1>14, <1>15, <1>16, <1>17, <1>18, <1>19, <1>20, <1>21, <1>22, <1>23, <1>24
  DEF Next, Operation, Step

---------------------------------------------------------------------------

(* What save() leaves of an operation: its locals, and a write of what it  *)
(* was given unless persistence is blocked.                                *)
SavedFrom(p, o, m, s) ==
  /\ p.kind = o.kind /\ p.stage = o.stage /\ p.target = o.target /\ p.restart = o.restart
  /\ p.prevListen = o.prevListen /\ p.prevSessions = o.prevSessions
  /\ \/ blocked /\ p.pc = "refused" /\ p.write = o.write
     \/ /\ ~blocked /\ p.pc = "write"
        /\ p.write.status = "valid" /\ p.write.enabled = m.enabled /\ p.write.token = m.token
        /\ p.write.listen = m.listen /\ p.write.sessions = s

(* What a save writes, and what it remembers, are the values it was given. *)
LEMMA SaveFields ==
  ASSUME NEW o \in Gate, NEW m, NEW s
  PROVE  SavedFrom(Save(o, m, s), o, m, s)
  BY DEF Save, Snapshot, SavedFrom, Gate

(* A save that throws leaves persistence blocked; each operation then puts *)
(* back what it had changed.                                               *)
LEMMA ThrowStep ==
  ASSUME TypeOK, RuntimeInv, Throw, blocked', op.pc \in {"write", "refused"},
         op.pc = "refused" => blocked,
         UNCHANGED <<up, disposed, bound, timer, queued, logins, durable, stopped>>
  PROVE  RuntimeInv'
<1> USE DEF TypeOK, RuntimeInv, GateInv, BoundInv, DiskInv, StopInv, DeviceInv,
            TunnelNeedsListener, Same, NoOp, Settings, File, Listener, Gate, durable
<1>1. CASE /\ op.kind \in {"save", "dispose", "restore", "stop"} \/ op.stage = "rollback"
           /\ op' = NoOp /\ UNCHANGED <<mem, sessions, tunnel>>
  BY <1>1
<1>2. CASE /\ op.kind = "restore" /\ op.stage = "own" /\ mem.enabled
           /\ op' = [op EXCEPT !.pc = "start"] /\ UNCHANGED <<mem, sessions, tunnel>>
  BY <1>2
<1>3. CASE /\ op.stage = "started" \/ (op.stage = "rollback" /\ bound.on)
           /\ mem' = [mem EXCEPT !.enabled = FALSE]
           /\ op' = [op EXCEPT !.stage = "undo", !.pc = "tunnel"]
           /\ UNCHANGED <<sessions, tunnel>>
  BY <1>3
<1>4. CASE /\ op.kind = "rotate" /\ op.stage = "own"
           /\ mem' = [mem EXCEPT !.token = op.prevToken]
           /\ sessions' = op.prevSessions /\ op' = NoOp /\ UNCHANGED tunnel
  BY <1>4
<1>5. CASE /\ op.kind = "listen" /\ op.stage = "own"
           /\ mem' = [mem EXCEPT !.listen = op.prevListen]
           /\ op' = NoOp /\ UNCHANGED <<sessions, tunnel>>
  BY <1>5
<1>6. CASE /\ op.kind = "revoke" /\ sessions' = op.prevSessions /\ op' = NoOp
           /\ UNCHANGED <<mem, tunnel>>
  BY <1>6
<1> QED BY <1>1, <1>2, <1>3, <1>4, <1>5, <1>6 DEF Throw, Continue

(* The write succeeded, and the file holds what it carried. *)
LEMMA WriteOkStep ==
  ASSUME TypeOK, RuntimeInv, WriteOk
  PROVE  RuntimeInv'
<1> USE DEF TypeOK, RuntimeInv, GateInv, BoundInv, DiskInv, StopInv, DeviceInv,
            TunnelNeedsListener, Same, NoOp, Settings, File, Listener, Gate
<1>1. /\ op.pc = "write" /\ disk' = op.write /\ stopped' = (stopped \/ op.kind = "stop")
      /\ cut' = cut \cup (IF op.kind = "rotate" /\ op.stage = "own" THEN op.prevSessions
                          ELSE op.target)
      /\ UNCHANGED <<mem, sessions, up, blocked, disposed, bound, timer, queued, logins, used>>
  BY DEF WriteOk, Continue
<1>2. CASE /\ op.kind # "listen" /\ ~(op.stage = "own" /\ op.kind = "rotate" /\ op.restart)
           /\ op' = NoOp /\ tunnel' = tunnel
  BY <1>1, <1>2
<1>3. CASE op.kind \in {"rotate", "listen"} /\ op.stage # "own" /\ op' = NoOp /\ bound.on
  BY <1>1, <1>3
<1>4. CASE /\ op.kind \in {"restore", "rotate"} /\ op.stage = "own"
           /\ op.kind = "restore" => mem.enabled
           /\ op.kind = "rotate" => op.restart
           /\ op' = [op EXCEPT !.pc = "start"] /\ UNCHANGED tunnel
  BY <1>1, <1>4
<1>5. CASE /\ op.kind = "listen" /\ op.stage = "own"
           /\ op' = [op EXCEPT !.pc = "tunnel"] /\ UNCHANGED tunnel
  BY <1>1, <1>5
<1>6. CASE /\ op.kind = "listen" /\ op.stage # "own" /\ ~bound.on
           /\ op' = [op EXCEPT !.pc = "start"] /\ UNCHANGED tunnel
  BY <1>1, <1>6
<1> QED BY <1>1, <1>2, <1>3, <1>4, <1>5, <1>6 DEF WriteOk, Continue, TunnelAfter

(* start answers without a listener. *)
LEMMA RefuseStep ==
  ASSUME TypeOK, RuntimeInv, op.pc = "start", NEW r, Refuse(r)
  PROVE  RuntimeInv'
<1> USE DEF TypeOK, RuntimeInv, GateInv, BoundInv, DiskInv, StopInv, DeviceInv,
            TunnelNeedsListener, Same, NoOp, Settings, File, Listener, Gate, durable
<1>1. UNCHANGED <<up, sessions, blocked, disposed, bound, tunnel, timer, queued, logins, durable,
                 stopped>>
  BY DEF Refuse
<1>2. CASE op.kind = "listen" /\ op.stage = "own"
  <2>1. mem' = [mem EXCEPT !.listen = op.prevListen] /\ mem' \in Settings
    BY <1>2 DEF Refuse, Fallback
  <2>2. [op EXCEPT !.stage = "rollback"] \in Gate OBVIOUS
  <2>3. SavedFrom(op', [op EXCEPT !.stage = "rollback"], mem', sessions)
    BY <1>2, <2>2, SaveFields DEF Refuse
  <2> QED BY <1>1, <1>2, <2>1, <2>3 DEF SavedFrom
<1>3. CASE op' = NoOp /\ UNCHANGED mem
  BY <1>1, <1>3
<1> QED BY <1>2, <1>3 DEF Refuse

(* The listener is up, and the file has to say so. *)
LEMMA StartedStep ==
  ASSUME TypeOK, RuntimeInv, Started
  PROVE  RuntimeInv'
<1> USE DEF TypeOK, RuntimeInv, GateInv, BoundInv, DiskInv, StopInv, DeviceInv,
            TunnelNeedsListener, Same, NoOp, Settings, File, Listener, Gate, durable
<1> DEFINE o == [op EXCEPT !.stage = IF op.stage = "rollback" THEN "rollback" ELSE "started"]
<1>1. /\ op.pc = "start" /\ ~disposed /\ ~blocked
      /\ bound' = [on |-> TRUE, token |-> mem.token, listen |-> mem.listen]
      /\ mem' = [mem EXCEPT !.enabled = TRUE]
      /\ op' = Save(o, mem', sessions)
      /\ UNCHANGED <<up, sessions, blocked, disposed, tunnel, timer, queued, logins, durable,
                    stopped>>
  BY DEF Started
<1>2. o \in Gate /\ mem' \in Settings BY <1>1
<1>3. SavedFrom(op', o, mem', sessions) BY <1>1, <1>2, SaveFields
<1>4. /\ op'.kind = op.kind /\ op'.target = op.target /\ op'.restart = op.restart
      /\ op'.stage = IF op.stage = "rollback" THEN "rollback" ELSE "started"
      /\ op'.prevListen = op.prevListen /\ op'.prevSessions = op.prevSessions
      /\ op'.pc = "write" /\ op'.write.sessions = sessions
      /\ op'.write.status = "valid" /\ op'.write.enabled = mem'.enabled
      /\ op'.write.token = mem'.token /\ op'.write.listen = mem'.listen
  BY <1>1, <1>3 DEF SavedFrom
<1>5. /\ op.kind \in {"restore", "start", "rotate", "listen"} /\ op.stage \in {"own", "rollback"}
      /\ up /\ op.kind # "none" /\ ~stopped /\ disk.token = mem.token
      /\ op.stage = "rollback" => op.prevListen = mem.listen
  BY <1>1
<1>6. /\ mem'.token = mem.token /\ mem'.listen = mem.listen /\ mem'.enabled
      /\ bound'.on /\ bound'.token = mem.token /\ bound'.listen = mem.listen
      /\ UNCHANGED <<up, sessions, blocked, disposed, tunnel, timer, queued, logins, disk,
                    used, cut,
                    stopped>>
  BY <1>1
<1>7. GateInv' BY <1>1, <1>4, <1>5, <1>6
<1>8. BoundInv' BY <1>1, <1>4, <1>5, <1>6
<1> QED BY <1>4, <1>5, <1>6, <1>7, <1>8

(* The listener is down: what each operation does next. *)
LEMMA ClosedStep ==
  ASSUME TypeOK, RuntimeInv, ListenerClosed
  PROVE  RuntimeInv'
<1> USE DEF TypeOK, RuntimeInv, GateInv, BoundInv, DiskInv, StopInv, DeviceInv,
            TunnelNeedsListener, Same, NoOp, Settings, File, Listener, Gate
<1>1. /\ op.pc = "close" /\ ~bound'.on
      /\ UNCHANGED <<up, blocked, disposed, tunnel, queued, logins, disk, used, cut, stopped>>
  BY DEF ListenerClosed, Closed, ListenerDown, NoListener
<1>2. CASE op.kind = "stop"
  <2>1. mem' = [mem EXCEPT !.enabled = FALSE] /\ mem' \in Settings /\ UNCHANGED <<sessions, timer>>
    BY <1>2 DEF ListenerClosed, Disabled
  <2>2. SavedFrom(op', op, mem', sessions) BY <1>2, <1>1, SaveFields DEF ListenerClosed
  <2>3. op.stage = "own" /\ up BY <1>1, <1>2
  <2>4. op'.kind = "stop" /\ op'.stage = "own" /\ op'.pc \in {"write", "refused"}
    BY <1>2, <2>2, <2>3 DEF SavedFrom
  <2>5. GateInv' BY <1>1, <2>2, <2>3, <2>4 DEF SavedFrom
  <2> QED BY <1>1, <1>2, <2>1, <2>2, <2>5 DEF SavedFrom
<1>3. CASE op.kind = "rotate" /\ op.stage = "own"
  <2>1. /\ mem' = [mem EXCEPT !.token = tokens + 1] /\ mem' \in Settings
        /\ sessions' = {} /\ timer' = (timer \/ sessions # {})
    BY <1>3 DEF ListenerClosed, Cleared
  <2>2. SavedFrom(op', op, mem', sessions') BY <1>3, <1>1, SaveFields DEF ListenerClosed
  <2> QED BY <1>1, <1>3, <2>1, <2>2 DEF SavedFrom
<1>4. CASE op.kind = "listen" /\ op.stage = "own"
  <2>1. op' \in {NoOp, [op EXCEPT !.pc = "start"]} /\ (op' # NoOp => op.restart)
        /\ UNCHANGED <<mem, sessions, timer>>
    BY <1>4 DEF ListenerClosed
  <2> QED BY <1>1, <1>4, <2>1
<1>5. CASE op.kind = "dispose"
  <2>1. SavedFrom(op', op, mem, sessions) /\ UNCHANGED <<mem, sessions, timer>>
    BY <1>5, <1>1, SaveFields DEF ListenerClosed
  <2> QED BY <1>1, <1>5, <2>1 DEF SavedFrom
<1>6. CASE op.stage = "undo" /\ op' = NoOp /\ UNCHANGED <<mem, sessions, timer>>
  BY <1>1, <1>6
<1> QED BY <1>2, <1>3, <1>4, <1>5, <1>6 DEF ListenerClosed

(* Every step keeps the invariant.                                         *)
LEMMA RuntimeStep ==
  ASSUME TypeOK, RuntimeInv, [Next]_vars
  PROVE  RuntimeInv'
<1> USE DEF TypeOK, RuntimeInv, GateInv, BoundInv, DiskInv, StopInv, DeviceInv,
            TunnelNeedsListener, Same, NoOp,
        Settings, File, Listener, Gate, durable, volatile
<1>1. CASE Boot
  <2> USE <1>1 DEF Boot, Settled, Loaded, Usable, Snapshot
  <2>1. GateInv' OBVIOUS
  <2>2. BoundInv' OBVIOUS
  <2>3. DiskInv' OBVIOUS
  <2>4. StopInv' OBVIOUS
  <2>5. DeviceInv' OBVIOUS
  <2> QED BY <2>1, <2>2, <2>3, <2>4, <2>5
<1>2. CASE Crash
  <2>1. disk' = disk \/ (op.pc = "write" /\ disk' = op.write) BY <1>2 DEF Crash
  <2>2. /\ ~up' /\ op' = NoOp /\ ~bound'.on /\ tunnel' = "off" /\ sessions' = {}
        /\ \A d \in Devices : logins'[d] = 0
        /\ UNCHANGED <<mem, used, cut, stopped>>
    BY <1>2 DEF Crash, NoListener
  <2> QED BY <2>1, <2>2
<1>3. CASE StartBegin BY <1>3 DEF StartBegin, Asked, Idle
<1>4. CASE StopBegin BY <1>4 DEF StopBegin, Asked, Idle
<1>5. CASE RotateBegin BY <1>5 DEF RotateBegin, Asked, Idle, RotateEntry
<1>6. CASE TunnelStopBegin BY <1>6 DEF TunnelStopBegin, Asked, Idle
<1>7. CASE TunnelStart BY <1>7 DEF TunnelStart, Idle
<1>8. CASE DisposeBegin BY <1>8 DEF DisposeBegin, Idle
<1>9. ASSUME NEW a \in Addresses, ListenBegin(a) PROVE RuntimeInv'
  BY <1>9 DEF ListenBegin, Asked, Idle, Save, Snapshot
<1>10. ASSUME NEW d \in Devices, RevokeBegin(d) PROVE RuntimeInv'
  BY <1>10 DEF RevokeBegin, Asked, Idle, Save, Snapshot
<1>11. CASE SaveBegin BY <1>11 DEF SaveBegin, Idle, Save, Snapshot
<1>12. CASE TunnelStopped BY <1>12 DEF TunnelStopped, TunnelDown
<1>13. CASE ListenerClosed BY <1>13, ClosedStep
<1>14. CASE StartRefused BY <1>14, RefuseStep DEF StartRefused
<1>15. CASE StartFails BY <1>15, RefuseStep DEF StartFails
<1>16. CASE Started BY <1>16, StartedStep
<1>17. CASE WriteOk BY <1>17, WriteOkStep
<1>18. CASE WriteFails
  <2>1. blocked' BY <1>18 DEF WriteFails, BlockedAfterFailure
  <2> QED BY <1>18, <2>1, ThrowStep DEF WriteFails
<1>19. CASE SaveRefused BY <1>19, ThrowStep DEF SaveRefused
<1>20. CASE TimerFires BY <1>20 DEF TimerFires, Ungated, Awaiting
<1>21. CASE TunnelMoves BY <1>21 DEF TunnelMoves, Ungated, Awaiting
<1>22. ASSUME NEW d \in Devices, LoginArrives(d) PROVE RuntimeInv'
  BY <1>22 DEF LoginArrives, Ungated, Awaiting
<1>23. ASSUME NEW d \in Devices, LoginFinishes(d) PROVE RuntimeInv'
  BY <1>23 DEF LoginFinishes, Ungated, Awaiting, Scheduled
<1>24. ASSUME NEW d \in Devices, Logout(d) PROVE RuntimeInv'
  BY <1>24 DEF Logout, Ungated, Awaiting, Scheduled
<1>25. ASSUME NEW a \in Addresses, AddressChanges(a) PROVE RuntimeInv' BY <1>25 DEF AddressChanges
<1>26. CASE UNCHANGED vars BY <1>26 DEF vars
<1> QED BY <1>1, <1>2, <1>3, <1>4, <1>5, <1>6, <1>7, <1>8, <1>9, <1>10, <1>11, <1>12, <1>13,
           <1>14, <1>15,
  <1>16, <1>17, <1>18, <1>19, <1>20, <1>21, <1>22, <1>23, <1>24, <1>25, <1>26
  DEF Next, Operation, Step

(* The invariant holds at the start.                                       *)
LEMMA RuntimeInit == ASSUME Init PROVE RuntimeInv
  BY DEF Init, RuntimeInv, GateInv, BoundInv, DiskInv, StopInv, DeviceInv, TunnelNeedsListener,
         NoOp, NoListener

(* The invariant of the runtime holds in every state.                      *)
LEMMA RuntimeInvariant == Spec => [](TypeOK /\ RuntimeInv)
<1>1. Init => TypeOK /\ RuntimeInv BY TypeInit, RuntimeInit
<1>2. TypeOK /\ RuntimeInv /\ [Next]_vars => TypeOK' /\ RuntimeInv' BY TypeStep, RuntimeStep
<1> QED BY <1>1, <1>2, PTL DEF Spec

---------------------------------------------------------------------------
(* cloudflared is torn down before the listener it forwards to, in every   *)
(* operation and on every error path. (index.ts:266)                       *)
THEOREM TunnelNeedsListenerHolds == Spec => []TunnelNeedsListener
<1>1. RuntimeInv => TunnelNeedsListener BY DEF RuntimeInv, BoundInv
<1> QED BY <1>1, RuntimeInvariant, PTL

(* The listener accepts the current token only, which the file holds, and  *)
(* between operations listens on the current address. (index.ts:296)       *)
THEOREM ListenerCurrentHolds == Spec => []ListenerCurrent
<1>1. TypeOK /\ RuntimeInv => ListenerCurrent
  BY DEF RuntimeInv, BoundInv, GateInv, ListenerCurrent, Idle, TypeOK, Listener
<1> QED BY <1>1, RuntimeInvariant, PTL

(* Between operations the file holds what memory holds, after any failure  *)
(* and rollback that left persistence open. (index.ts:197)                 *)
THEOREM DurableWhenIdleHolds == Spec => []DurableWhenIdle
<1>1. TypeOK /\ RuntimeInv => DurableWhenIdle
  <2> SUFFICES ASSUME TypeOK, RuntimeInv, Idle, ~blocked
               PROVE  /\ disk.status = "valid"
                      /\ [enabled |-> disk.enabled, token |-> disk.token,
                          listen |-> disk.listen] = mem
                      /\ ~timer /\ ~queued => disk.sessions = sessions
    BY DEF DurableWhenIdle
  <2>1. op.pc # "write" /\ op.kind # "dispose" /\ up
    BY DEF Idle, RuntimeInv, GateInv, NoOp
  <2>2. Same(disk) /\ (~timer /\ ~queued => disk.sessions = sessions)
    BY <2>1 DEF RuntimeInv, DiskInv
  <2> QED BY <2>2 DEF Same, TypeOK, Settings
<1> QED BY <1>1, RuntimeInvariant, PTL

(* After an acknowledged stop only a start brings the listener back, not a *)
(* rotation, an address change or a restart. (index.ts:281)                *)
THEOREM StopIsFinalHolds == Spec => []StopIsFinal
<1>1. RuntimeInv => StopIsFinal BY DEF RuntimeInv, StopInv, StopIsFinal
<1> QED BY <1>1, RuntimeInvariant, PTL

(* A device that an acknowledged revocation or rotation removed is in      *)
(* neither memory nor file ever after. (index.ts:395, 545)                 *)
THEOREM CutIsFinalHolds == Spec => []CutIsFinal
<1>1. RuntimeInv => CutIsFinal BY DEF RuntimeInv, DeviceInv, CutIsFinal
<1> QED BY <1>1, RuntimeInvariant, PTL

(* A malformed state file is never replaced. (index.ts:165, 197)           *)
THEOREM MalformedKeptHolds == Spec => MalformedKept
<1>1. ASSUME TypeOK, RuntimeInv, Next, disk.status = "malformed" PROVE disk' = disk
  <2>1. op.pc # "write" BY <1>1 DEF RuntimeInv, GateInv, DiskInv, NoOp
  <2> QED BY <1>1, <2>1 DEF Next, Operation, Step, Boot, Crash, StartBegin, StopBegin, RotateBegin,
        TunnelStopBegin, TunnelStart, DisposeBegin, ListenBegin, RevokeBegin, Asked, SaveBegin,
        TunnelStopped, ListenerClosed, Closed, StartRefused, StartFails, Refuse, Started, WriteOk,
        WriteFails, SaveRefused, TimerFires, TunnelMoves, LoginArrives, LoginFinishes, Logout,
        Ungated, AddressChanges, durable
<1>2. TypeOK /\ RuntimeInv /\ [Next]_vars => [disk.status = "malformed" => disk' = disk]_vars
  BY <1>1
<1> QED BY <1>2, RuntimeInvariant, PTL DEF Spec, MalformedKept

(* An address change that ends without the listener it found has failed on *)
(* the previous address too, and a tunnel that was online is started again *)
(* with the listener. (index.ts:458)                                       *)
THEOREM EntryKeptHolds == Spec => EntryKept
<1> DEFINE Kept ==
      op.kind = "listen" /\ op.restart /\ op'.kind = "none" /\ up' /\ ~blocked' /\ ~disposed
        => /\ bound'.on \/ op.prevListen \in taken
           /\ bound'.on /\ op.tunnelWas => tunnel' # "off"
<1>1. ASSUME TypeOK, RuntimeInv, Next, op.kind = "listen", op.restart, op'.kind = "none", up',
             ~blocked', ~disposed
      PROVE  /\ bound'.on \/ op.prevListen \in taken
             /\ bound'.on /\ op.tunnelWas => tunnel' # "off"
  <2> USE DEF RuntimeInv, GateInv, BoundInv
  <2>1. up /\ op \in Gate BY <1>1 DEF NoOp, TypeOK
  <2>2. CASE WriteOk
    BY <1>1, <2>1, <2>2 DEF WriteOk, Continue, TunnelAfter, Gate
  <2>3. CASE StartFails
    BY <1>1, <2>1, <2>3 DEF StartFails, Refuse, Save, Gate
  <2>4. CASE StartRefused
    BY <1>1, <2>1, <2>4 DEF StartRefused, Refuse, Save, Gate
  <2>5. CASE TunnelStopped BY <1>1, <2>1, <2>5 DEF TunnelStopped, Gate
  <2>6. CASE ListenerClosed BY <1>1, <2>1, <2>6 DEF ListenerClosed, Closed, Gate
  <2>7. CASE Started BY <1>1, <2>1, <2>7 DEF Started, ListenerDown, Save, Gate
  <2>8. CASE WriteFails \/ SaveRefused
    BY <1>1, <2>1, <2>8 DEF WriteFails, BlockedAfterFailure, SaveRefused
  <2>9. op.kind # "none" /\ op'.kind # op.kind BY <1>1
  <2>10. ~(Boot \/ Crash \/ Operation \/ SaveBegin \/ \E a \in Addresses : AddressChanges(a))
    BY <1>1, <2>1, <2>9 DEF Boot, Crash, Operation, StartBegin, StopBegin, RotateBegin,
      TunnelStopBegin, TunnelStart, DisposeBegin, ListenBegin, RevokeBegin, Asked, Idle, SaveBegin,
      AddressChanges
  <2>11. ~(\/ TimerFires \/ TunnelMoves
           \/ \E d \in Devices : LoginArrives(d) \/ LoginFinishes(d) \/ Logout(d))
    BY <2>9 DEF TimerFires, TunnelMoves, LoginArrives, LoginFinishes, Logout, Ungated
  <2> QED BY <1>1, <2>2, <2>3, <2>4, <2>5, <2>6, <2>7, <2>8, <2>10, <2>11 DEF Next, Step
<1>2. TypeOK /\ RuntimeInv /\ [Next]_vars => [Kept]_vars BY <1>1
<1> QED BY <1>2, RuntimeInvariant, PTL DEF Spec, EntryKept
=============================================================================
