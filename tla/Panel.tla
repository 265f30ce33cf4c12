------------------------------- MODULE Panel -------------------------------
(***************************************************************************)
(* The settings panel of src/client/RemoteSection.tsx: one mounted page,   *)
(* its two polls (src/client/visibility-polling.ts), its buttons, and the  *)
(* control API behind it (src/control-routes.ts), whose reads see every    *)
(* exclusive operation done or not begun.                                  *)
(*                                                                         *)
(* The device list is a version; a status is what the panel reads of it:   *)
(* whether the proxy runs, and the tunnel's state and address.  What the   *)
(* panel only displays (invite, token, self-check, audit lines, toasts     *)
(* about anything but a tunnel that broke) is left out.                    *)
(***************************************************************************)
EXTENDS Naturals

CONSTANTS
  MaxAddress,  \* bound: the addresses a tunnel may get
  MaxInputs    \* bound: clicks, changes of the device list that the panel did not ask for,
               \* requests that fail, and times the page is hidden, together

ASSUME PanelAssumption == MaxAddress \in Nat /\ MaxInputs \in Nat

VARIABLES
  running, tunnel, address, version,  \* the server: proxy, tunnel, device list
  visible,    \* the document's visibilityState
  timers,     \* polls whose interval runs
  lists,      \* requests for the device list on their way
  statuses,   \* requests for the status on their way, the buttons' apart
  op,         \* the button's work that runs (busyKind)
  shown,      \* status
  followed,   \* the tunnel state the tunnel effect was last run for
  shownList,  \* sessions, by version (0: none came yet)
  epoch,      \* sessionsEpoch
  acked,      \* the list version of the last change acknowledged to the panel (observation only)
  budget      \* what is left of MaxInputs

server == <<running, tunnel, address, version>>
page == <<visible, timers, lists, statuses, op, shown, followed, shownList, epoch,
          acked>>
vars == <<server, page, budget>>

Addresses == 1..MaxAddress
Server == INSTANCE TunnelService WITH Urls <- Addresses, state <- tunnel, url <- address

Live == {"starting", "online"}
TunnelStates == Live \cup {"off", "error"}
Requests == {"start", "stop", "listen", "rotateToken", "startThenTunnel", "startTunnel",
             "stopTunnel", "device"}
Status == [running : BOOLEAN, tunnel : TunnelStates, address : 0..MaxAddress]
Unknown == [running |-> FALSE, tunnel |-> "unknown", address |-> 0]
Statuses == Status \cup {Unknown}

TypeOK ==
  /\ running \in BOOLEAN /\ tunnel \in TunnelStates /\ address \in 0..MaxAddress
  /\ version \in Nat
  /\ visible \in BOOLEAN
  /\ timers = IF visible THEN {"sessions"} \cup (IF followed \in Live THEN {"tunnel"} ELSE {})
              ELSE {}
  /\ \A r \in lists : r \in [by : {"poll", "refresh"}, epoch : 0..epoch,
                             stage : {"sent", "read"}, got : 0..version]
  /\ \A r \in statuses : r \in [by : {"mount", "poll"}, stage : {"sent", "read"}, got : Statuses]
  /\ op \in [request : Requests \cup {"none"}, got : Statuses, made : 0..version,
             stage : {"none", "sent", "served", "read", "refreshing"}]
  /\ shown \in Statuses /\ followed \in TunnelStates \cup {"unknown"}
  /\ shownList \in 0..version /\ epoch \in Nat /\ acked \in 0..version
  /\ budget \in 0..MaxInputs

---------------------------------------------------------------------------
(* Helpers *)

(* "made" is the list version an operation made (0: none) *)
NoOp == [request |-> "none", got |-> Unknown, made |-> 0, stage |-> "none"]

(* snapshot() *)
Snapshot == [running |-> running, tunnel |-> tunnel, address |-> address]

ListRequest(by) == [by |-> by, epoch |-> epoch, stage |-> "sent", got |-> 0]
StatusRequest(by) == [by |-> by, stage |-> "sent", got |-> Unknown]

(* React commits and runs the tunnel effect before anything takes a trip   *)
(* over the network; only an answer that is there already may come first.  *)
Rendered == followed = shown.tunnel

By(requests, by) == {r \in requests : r.by = by}

(* poll(): nothing while a request is in flight. *)
Polled(requests, request) ==
  IF By(requests, "poll") = {} THEN requests \cup {request} ELSE requests

Spend == budget > 0 /\ budget' = budget - 1

(* The page is mounted.  A tunnel that is online or broken by then is one  *)
(* step of the server away.                                                *)
Init ==
  /\ running \in BOOLEAN
  /\ tunnel \in IF running THEN {"off", "starting"} ELSE {"off"}
  /\ address = 0
  /\ version = 1
  /\ visible \in BOOLEAN
  /\ timers = IF visible THEN {"sessions"} ELSE {}
  /\ epoch = 0
  /\ lists = IF visible THEN {ListRequest("poll")} ELSE {}
  /\ statuses = {StatusRequest("mount")}
  /\ op = NoOp
  /\ shown = Unknown /\ followed = "unknown"
  /\ shownList = 0 /\ acked = 0
  /\ budget = MaxInputs

---------------------------------------------------------------------------
(* The server, apart from the panel's requests *)

TunnelConnects ==
  /\ Rendered
  /\ Server!Connect
  /\ UNCHANGED <<running, version, page, budget>>

TunnelBreaks ==
  /\ Rendered
  /\ Server!Fail
  /\ UNCHANGED <<running, version, page, budget>>

(* A device logs in, signs out, is evicted or expires. *)
ListChanges ==
  /\ Rendered
  /\ Spend
  /\ version' = version + 1
  /\ UNCHANGED <<running, tunnel, address, page>>

---------------------------------------------------------------------------
(* The server and the operation the panel asked for.                       *)

(* teardown() *)
TornDown == running' = FALSE /\ Server!Stop

(* A restart of the listener by rotateToken or setListen takes a live      *)
(* tunnel down and up again; the listener may fail to come up.             *)
Restart ==
  IF running
  THEN /\ running' \in BOOLEAN
       /\ tunnel' = IF tunnel \in Live /\ running' THEN "starting" ELSE "off"
       /\ address' = 0
  ELSE TornDown

Unmoved == UNCHANGED <<running, tunnel, address>>

Serve ==
  \/ /\ op.request \in {"start", "startThenTunnel"}
     /\ running' \in {TRUE, running}
     /\ UNCHANGED <<tunnel, address, version>>
  \/ op.request = "stop" /\ TornDown /\ UNCHANGED version
  \/ op.request = "listen" /\ (Restart \/ Unmoved) /\ UNCHANGED version
  \/ op.request = "rotateToken" /\ Restart /\ version' = version + 1
  \/ /\ op.request = "startTunnel" /\ running
     /\ Server!Start \/ (tunnel \in Live /\ UNCHANGED <<tunnel, address>>)
     /\ UNCHANGED <<running, version>>
  \/ op.request = "stopTunnel" /\ Server!Stop /\ UNCHANGED <<running, version>>
  \/ op.request = "device" /\ Unmoved /\ version' \in {version, version + 1}

(* The answer is a snapshot taken with the operation; the start of a       *)
(* tunnel takes its own later, as a read.                                  *)
OpServed ==
  /\ Rendered
  /\ op.stage = "sent"
  /\ Serve
  /\ op' = [op EXCEPT !.stage = IF op.request = "startTunnel" THEN "served" ELSE "read",
                      !.got = IF op.request \in {"device", "startTunnel"} THEN Unknown
                              ELSE Snapshot',
                      !.made = IF version' = version THEN 0 ELSE version']
  /\ UNCHANGED <<visible, timers, lists, statuses, shown, followed, shownList, epoch, acked,
                 budget>>

TunnelStartRead ==
  /\ Rendered
  /\ op.stage = "served"
  /\ op' = [op EXCEPT !.stage = "read", !.got = Snapshot]
  /\ UNCHANGED <<server, visible, timers, lists, statuses, shown, followed, shownList, epoch,
                 acked, budget>>

(* A refusal, an error half way through or a lost answer: withBusy shows a *)
(* toast and the page keeps what it has.                                   *)
Refused == op.stage = "sent" /\ op.request = "startTunnel" /\ ~running

OpFails ==
  /\ Rendered
  /\ op.stage \in {"sent", "served", "read"}
  /\ Spend \/ (Refused /\ UNCHANGED budget)
  /\ \/ Unmoved
     \/ op.stage = "sent" /\ op.request \in {"stop", "listen", "rotateToken"} /\ TornDown
  /\ op' = NoOp
  /\ UNCHANGED <<version, visible, timers, lists, statuses, shown, followed, shownList,
                 epoch, acked>>

---------------------------------------------------------------------------
(* The buttons.  A click runs the effects of the last render first.        *)

ProxyOffered ==
  IF shown = Unknown THEN {} ELSE IF shown.running THEN {"stop"} ELSE {"start"}

(* The one-click tunnel brings a proxy up that is not known to run. *)
TunnelOffered ==
  IF shown.tunnel \in Live THEN {"stopTunnel"}
  ELSE IF shown.running THEN {"startTunnel"} ELSE {"startThenTunnel"}

(* Every device of the list has its buttons. *)
DeviceOffered == IF shownList > 0 THEN {"device"} ELSE {}

Offered == ProxyOffered \cup TunnelOffered \cup DeviceOffered \cup {"listen", "rotateToken"}

Sent(request) == [NoOp EXCEPT !.request = request, !.stage = "sent"]

Click ==
  /\ op.stage = "none" /\ visible /\ Rendered
  /\ Spend
  /\ \E request \in Offered : op' = Sent(request)
  /\ UNCHANGED <<server, visible, timers, lists, statuses, shown, followed, shownList,
                 epoch, acked>>

(* run(intent), applyListen: applyResult *)
ResultApplied ==
  /\ op.stage = "read" /\ op.request \in {"start", "stop", "listen"}
  /\ shown' = op.got
  /\ op' = NoOp
  /\ UNCHANGED <<server, visible, timers, lists, statuses, followed, shownList, epoch,
                 acked, budget>>

(* startTunnel brings the proxy up first when it is not running. *)
ProxyThenTunnel ==
  /\ op.stage = "read" /\ op.request = "startThenTunnel"
  /\ shown' = op.got
  /\ op' = IF op.got.running THEN Sent("startTunnel") ELSE NoOp
  /\ UNCHANGED <<server, visible, timers, lists, statuses, followed, shownList, epoch,
                 acked, budget>>

(* startTunnel, stopTunnel: applyTunnelStatus *)
TunnelApplied ==
  /\ op.stage = "read" /\ op.request \in {"startTunnel", "stopTunnel"}
  /\ shown' = op.got
  /\ op' = NoOp
  /\ UNCHANGED <<server, visible, timers, lists, statuses, followed, shownList, epoch,
                 acked, budget>>

(* sessionsEpoch.current += 1; the refresh carries the new epoch.          *)
Acknowledged ==
  /\ acked' = op.made
  /\ epoch' = epoch + 1
  /\ lists' = lists \cup {[ListRequest("refresh") EXCEPT !.epoch = epoch + 1]}

(* rotate(): the list is cleared, which is what the rotation left of it,   *)
(* and asked for again without waiting for the answer.                     *)
RotationApplied ==
  /\ op.stage = "read" /\ op.request = "rotateToken"
  /\ Acknowledged
  /\ shownList' = op.made
  /\ shown' = op.got
  /\ op' = NoOp
  /\ UNCHANGED <<server, visible, timers, statuses, followed, budget>>

(* mutateDevice, afterDeviceMutation: busy until the list came back; a     *)
(* device that is gone gets a toast.                                       *)
DeviceApplied ==
  /\ op.stage = "read" /\ op.request = "device"
  /\ IF op.made > 0
     THEN Acknowledged /\ op' = [op EXCEPT !.stage = "refreshing"]
     ELSE op' = NoOp /\ UNCHANGED <<acked, epoch, lists>>
  /\ UNCHANGED <<server, visible, timers, statuses, shown, followed, shownList, budget>>

---------------------------------------------------------------------------
(* The polls *)

(* An interval's tick; one whose request is in flight does nothing. *)
SessionsTick ==
  /\ Rendered
  /\ "sessions" \in timers /\ By(lists, "poll") = {}
  /\ lists' = lists \cup {ListRequest("poll")}
  /\ UNCHANGED <<server, visible, timers, statuses, op, shown, followed, shownList, epoch,
                 acked, budget>>

TunnelTick ==
  /\ Rendered
  /\ "tunnel" \in timers /\ By(statuses, "poll") = {}
  /\ statuses' = statuses \cup {StatusRequest("poll")}
  /\ UNCHANGED <<server, visible, timers, lists, op, shown, followed, shownList, epoch,
                 acked, budget>>

ListRead(r) ==
  /\ Rendered
  /\ r.stage = "sent"
  /\ lists' = (lists \ {r}) \cup {[r EXCEPT !.stage = "read", !.got = version]}
  /\ UNCHANGED <<server, visible, timers, statuses, op, shown, followed, shownList, epoch,
                 acked, budget>>

(* The refresh a device action waits for ends the action. *)
OpAfter(r) ==
  IF op.stage = "refreshing" /\ r.by = "refresh" /\ r.epoch = epoch THEN NoOp ELSE op

(* applySessions(list, epoch): a list asked for before the last change     *)
(* this panel made is dropped; the variant takes every list.               *)
AnyList(r) == TRUE
OfEpoch(r) == r.epoch = epoch

ListAnswered(r) ==
  /\ r.stage = "read"
  /\ lists' = lists \ {r}
  /\ shownList' = IF OfEpoch(r) THEN r.got ELSE shownList
  /\ op' = OpAfter(r)
  /\ UNCHANGED <<server, visible, timers, statuses, shown, followed, epoch, acked,
                 budget>>

(* A failed poll waits for the next tick: its finally clause releases the  *)
(* flight, which the variant leaves to the answer.                         *)
Held(requests, r) == (requests \ {r}) \cup {[r EXCEPT !.stage = "over"]}
Released(requests, r) == requests \ {r}

ListFails(r) ==
  /\ Rendered
  /\ Spend
  /\ lists' = Released(lists, r)
  /\ op' = OpAfter(r)
  /\ UNCHANGED <<server, visible, timers, statuses, shown, followed, shownList, epoch,
                 acked>>

StatusRead(r) ==
  /\ Rendered
  /\ r.stage = "sent"
  /\ statuses' = (statuses \ {r}) \cup {[r EXCEPT !.stage = "read", !.got = Snapshot]}
  /\ UNCHANGED <<server, visible, timers, lists, op, shown, followed, shownList, epoch,
                 acked, budget>>

(* The status the page asks for when it is mounted *)
MountAnswered(r) ==
  /\ r.by = "mount" /\ r.stage = "read"
  /\ statuses' = statuses \ {r}
  /\ shown' = r.got
  /\ UNCHANGED <<server, visible, timers, lists, op, followed, shownList, epoch, acked,
                 budget>>

(* applyTunnelStatus *)
TunnelPolled(r) ==
  /\ r.by = "poll" /\ r.stage = "read"
  /\ statuses' = statuses \ {r}
  /\ shown' = r.got
  /\ UNCHANGED <<server, visible, timers, lists, op, followed, shownList, epoch, acked,
                 budget>>

StatusFails(r) ==
  /\ Rendered
  /\ Spend
  /\ statuses' = Released(statuses, r)
  /\ UNCHANGED <<server, visible, timers, lists, op, shown, followed, shownList, epoch,
                 acked>>

(* React runs the tunnel effect again when the state it shows changed: the *)
(* old poll is disposed with its answer, a new one follows a live tunnel.  *)
Render ==
  /\ ~Rendered
  /\ followed' = shown.tunnel
  /\ statuses' = By(statuses, "mount")
  /\ timers' = (timers \ {"tunnel"})
               \cup (IF visible /\ shown.tunnel \in Live THEN {"tunnel"} ELSE {})
  /\ UNCHANGED <<server, visible, lists, op, shown, shownList, epoch, acked, budget>>

Hide ==
  /\ Rendered
  /\ visible /\ Spend
  /\ visible' = FALSE
  /\ timers' = {}
  /\ UNCHANGED <<server, lists, statuses, op, shown, followed, shownList, epoch, acked>>

(* The visible edge starts the intervals again and polls once; the variant *)
(* only polls.                                                             *)
PolledOnce == {}
Resumed == {"sessions"} \cup (IF followed \in Live THEN {"tunnel"} ELSE {})

Show ==
  /\ Rendered
  /\ ~visible
  /\ visible' = TRUE
  /\ timers' = Resumed
  /\ lists' = Polled(lists, ListRequest("poll"))
  /\ statuses' = IF followed \in Live THEN Polled(statuses, StatusRequest("poll")) ELSE statuses
  /\ UNCHANGED <<server, op, shown, followed, shownList, epoch, acked, budget>>

---------------------------------------------------------------------------
Poll ==
  \/ \E r \in lists : ListRead(r) \/ ListAnswered(r) \/ ListFails(r)
  \/ \E r \in statuses : StatusRead(r) \/ MountAnswered(r) \/ TunnelPolled(r) \/ StatusFails(r)

Next ==
  \/ TunnelConnects \/ TunnelBreaks \/ ListChanges
  \/ Click \/ OpServed \/ TunnelStartRead \/ OpFails
  \/ ResultApplied \/ ProxyThenTunnel \/ TunnelApplied \/ RotationApplied \/ DeviceApplied
  \/ SessionsTick \/ TunnelTick \/ Poll
  \/ Render \/ Hide \/ Show

(* An interval ticks, a request is answered, React renders. *)
Fairness ==
  /\ WF_vars(SessionsTick) /\ WF_vars(TunnelTick) /\ WF_vars(Render)
  /\ WF_vars(\E r \in By(lists, "poll") : ListRead(r) \/ ListAnswered(r))
  /\ WF_vars(\E r \in By(statuses, "poll") : StatusRead(r) \/ TunnelPolled(r))

Spec == Init /\ [][Next]_vars /\ Fairness

---------------------------------------------------------------------------
(* Safety *)

(* Once the panel knows that a device was kicked, approved or renamed, or  *)
(* the token rotated, no late answer brings an older list back.            *)
(* (sessionsEpoch, RemoteSection.tsx:85)                                   *)
ListIsCurrent == [][shownList' # shownList => shownList' >= acked']_vars

---------------------------------------------------------------------------
(* Liveness *)

(* While the page can be seen, the list it shows catches up with the       *)
(* server's, whatever was lost, hidden or dropped by its epoch on the way. *)
(* (RemoteSection.tsx:118, visibility-polling.ts:37)                       *)
ListConverges == (visible /\ shownList # version) ~> (~visible \/ shownList = version)

(* A tunnel that the panel shows as live does not stay wrong while the     *)
(* page can be seen: the panel learns of its address, or that it is down   *)
(* when it is; it may not stop following one that runs.  Promised from     *)
(* when no status and no start of a tunnel is on its way: a status carries *)
(* no epoch, and one that comes late, the mount's or a poll's that was     *)
(* read before the start, overwrites a live tunnel by "off" or "error",    *)
(* and nothing polls after it. (RemoteSection.tsx:143)                     *)
TunnelFollowed ==
  LET right == shown.tunnel = tunnel /\ shown.address = address
      bothDown == shown.tunnel \notin Live /\ tunnel \notin Live
      quiet == statuses = {} /\ op.request \notin {"startThenTunnel", "startTunnel"}
  IN  (visible /\ quiet /\ shown.tunnel \in Live /\ ~right)
        ~> (~visible \/ right \/ bothDown)
=============================================================================
