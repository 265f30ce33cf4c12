---------------------------- MODULE PanelProofs ----------------------------
(***************************************************************************)
(* Theorems about Panel, for any number of tunnel addresses and of inputs. *)
(***************************************************************************)
EXTENDS Panel, TLAPS

---------------------------------------------------------------------------
(* The inductive invariant, by the variables its parts are about *)

ServerOK ==
  /\ running \in BOOLEAN /\ tunnel \in TunnelStates /\ address \in 0..MaxAddress
  /\ version \in Nat

TimersOf(v, f) ==
  IF v THEN {"sessions"} \cup (IF f \in Live THEN {"tunnel"} ELSE {}) ELSE {}

PageOK ==
  /\ visible \in BOOLEAN
  /\ timers = TimersOf(visible, followed)
  /\ shown \in Statuses /\ followed \in TunnelStates \cup {"unknown"}
  /\ budget \in 0..MaxInputs

(* A list that was read since the last change the panel knows of has it:   *)
(* what is older carries an older epoch.                                   *)
ListOK(r) ==
  /\ r \in [by : {"poll", "refresh"}, epoch : 0..epoch, stage : {"sent", "read"}, got : 0..version]
  /\ r.stage = "read" /\ r.epoch = epoch => r.got >= acked

ListsOK ==
  /\ epoch \in Nat /\ shownList \in 0..version /\ acked \in 0..version
  /\ \A r \in lists : ListOK(r)

StatusRequests == [by : {"mount", "poll"}, stage : {"sent", "read"}, got : Statuses]

Ops(v) == [request : Requests \cup {"none"}, got : Statuses, made : 0..v,
           stage : {"none", "sent", "served", "read", "refreshing"}]

PanelInv ==
  /\ ServerOK /\ PageOK /\ ListsOK
  /\ statuses \subseteq StatusRequests
  /\ op \in Ops(version)

(* The invariant is the type invariant of Panel and what is said of lists. *)
LEMMA InvHasTypes == PanelInv => TypeOK
BY DEF PanelInv, ServerOK, PageOK, ListsOK, ListOK, StatusRequests, Ops, TimersOf, TypeOK

---------------------------------------------------------------------------
(* Frames: what a step does not touch stays in order *)

(* Lists are in order when the server's version grows under them.          *)
LEMMA ListsStay ==
  ASSUME ListsOK, version \in Nat, version' \in Nat, version' >= version,
         UNCHANGED <<shownList, epoch, acked>>, lists' \subseteq lists
  PROVE  ListsOK'
<1>1. ASSUME NEW r \in lists' PROVE ListOK(r)'
  <2>1. ListOK(r) BY <1>1 DEF ListsOK
  <2>2. 0..version \subseteq 0..version' BY DEF ListsOK
  <2> QED BY <2>1, <2>2 DEF ListOK
<1> QED BY <1>1 DEF ListsOK

(* A new request for the list carries the epoch of now.                    *)
LEMMA RequestOK ==
  ASSUME epoch \in Nat, version \in Nat, NEW by \in {"poll", "refresh"}
  PROVE  ListOK(ListRequest(by))
BY DEF ListOK, ListRequest

(* An operation stays in order when the version grows.                     *)
LEMMA OpsGrow ==
  ASSUME version \in Nat, version' \in Nat, version' >= version, op \in Ops(version)
  PROVE  op \in Ops(version')
<1>1. 0..version \subseteq 0..version' OBVIOUS
<1> QED BY <1>1 DEF Ops

(* No operation, and one just sent, are operations of any version.         *)
LEMMA FreshOp ==
  ASSUME NEW v \in Nat, NEW request \in Requests
  PROVE  NoOp \in Ops(v) /\ Sent(request) \in Ops(v)
<1>1. Unknown \in Statuses BY DEF Statuses
<1>2. NoOp \in Ops(v) BY <1>1 DEF NoOp, Ops
<1> QED BY <1>1, <1>2 DEF Sent, NoOp, Ops

(* What a read finds of the server is a status.                            *)
LEMMA SnapshotOK == ServerOK => Snapshot \in Statuses
BY DEF ServerOK, Snapshot, Statuses, Status

(* Every outcome of an operation leaves the server in order, and its list  *)
(* as it was or one version on.                                            *)
LEMMA ServeOK ==
  ASSUME PanelInv, Serve
  PROVE  ServerOK' /\ version' \in {version, version + 1}
<1> DEFINE Moved == running' \in BOOLEAN /\ tunnel' \in TunnelStates /\ address' \in 0..MaxAddress
<1>1. 0 \in 0..MaxAddress BY PanelAssumption DEF PanelAssumption
<1>2. TornDown => Moved BY <1>1 DEF TornDown, Server!Stop, TunnelStates
<1>3. Restart => Moved BY <1>1, <1>2 DEF Restart, TunnelStates, Live
<1>4. Server!Start => tunnel' \in TunnelStates /\ address' \in 0..MaxAddress
  BY <1>1 DEF Server!Start, TunnelStates, Live
<1>5. Server!Stop => tunnel' \in TunnelStates /\ address' \in 0..MaxAddress
  BY <1>1 DEF Server!Stop, TunnelStates
<1>6. running \in BOOLEAN /\ tunnel \in TunnelStates /\ address \in 0..MaxAddress /\ version \in Nat
  BY DEF PanelInv, ServerOK
<1>7. Unmoved => Moved BY <1>6 DEF Unmoved
<1>8. Moved /\ version' \in {version, version + 1}
  <2> HIDE DEF Moved
  <2>1. CASE TornDown /\ UNCHANGED version BY <1>2, <2>1
  <2>2. CASE (Restart \/ Unmoved) /\ version' \in {version, version + 1} BY <1>3, <1>7, <2>2
  <2>3. CASE Unmoved /\ version' \in {version, version + 1} BY <1>7, <2>3
  <2>4. CASE /\ running' \in {TRUE, running}
             /\ UNCHANGED <<tunnel, address, version>>
    BY <1>6, <2>4 DEF Moved
  <2>5. CASE /\ Server!Start \/ (tunnel \in Live /\ UNCHANGED <<tunnel, address>>)
             /\ UNCHANGED <<running, version>>
    BY <1>4, <1>6, <2>5 DEF Moved
  <2>6. CASE Server!Stop /\ UNCHANGED <<running, version>>
    BY <1>5, <1>6, <2>6 DEF Moved
  <2> QED BY <2>1, <2>2, <2>3, <2>4, <2>5, <2>6 DEF Serve
<1> QED BY <1>6, <1>8 DEF ServerOK

---------------------------------------------------------------------------
(* Steps *)

(* What a page without a mark on the server leaves of the invariant.       *)
LEMMA ServerStays == ServerOK /\ UNCHANGED server => ServerOK'
BY DEF ServerOK, server

(* A list's answer, its loss and the refresh it may end leave a legal      *)
(* operation.                                                              *)
LEMMA OpAfterOK ==
  ASSUME NEW r, version \in Nat, op \in Ops(version)
  PROVE  OpAfter(r) \in Ops(version)
BY FreshOp DEF OpAfter, Requests

(* The change the panel was told of begins a new epoch: every list on its  *)
(* way is older than it, and the refresh is not read yet.                  *)
LEMMA AcknowledgedOK ==
  ASSUME PanelInv, Acknowledged, UNCHANGED version, shownList' \in 0..version
  PROVE  ListsOK'
<1>1. version \in Nat /\ epoch \in Nat /\ op.made \in 0..version
  BY DEF PanelInv, ServerOK, ListsOK, Ops
<1>2. acked' = op.made /\ epoch' = epoch + 1 BY DEF Acknowledged
<1>3. ASSUME NEW r \in lists PROVE ListOK(r)'
  <2>1. ListOK(r) BY DEF PanelInv, ListsOK
  <2>2. 0..epoch \subseteq 0..epoch' /\ \A e \in 0..epoch : e # epoch' BY <1>1, <1>2
  <2>3. r.epoch \in 0..epoch BY <2>1 DEF ListOK
  <2> QED BY <2>1, <2>2, <2>3 DEF ListOK
<1>4. PICK new : new = [ListRequest("refresh") EXCEPT !.epoch = epoch + 1] OBVIOUS
<1>5. ListOK(new)'
  <2>1. new = [by |-> "refresh", epoch |-> epoch + 1, stage |-> "sent", got |-> 0]
    BY <1>4 DEF ListRequest
  <2>2. epoch + 1 \in 0..(epoch + 1) /\ 0 \in 0..version BY <1>1
  <2> QED BY <1>2, <2>1, <2>2 DEF ListOK
<1>6. lists' = lists \cup {new} BY <1>4 DEF Acknowledged
<1>7. \A r \in lists' : ListOK(r)' BY <1>3, <1>5, <1>6
<1>8. epoch' \in Nat /\ acked' \in 0..version /\ version' = version BY <1>1, <1>2
<1> QED BY <1>7, <1>8 DEF ListsOK

(* What is left of the inputs stays within their bound. *)
LEMMA BudgetOK ==
  ASSUME PanelInv, Spend \/ UNCHANGED budget
  PROVE  budget' \in 0..MaxInputs
BY PanelAssumption DEF PanelAssumption, Spend, PanelInv, PageOK

(* The server's own steps touch nothing of the page. *)
LEMMA ServerStep ==
  ASSUME PanelInv, TunnelConnects \/ TunnelBreaks \/ ListChanges
  PROVE  PanelInv'
<1>1. UNCHANGED page /\ budget' \in 0..MaxInputs
  BY BudgetOK DEF TunnelConnects, TunnelBreaks, ListChanges
<1>2. ServerOK' /\ version' >= version /\ version \in Nat
  <2>1. CASE TunnelConnects
    BY <2>1 DEF TunnelConnects, Server!Connect, Addresses, PanelInv, ServerOK, TunnelStates, Live
  <2>2. CASE TunnelBreaks
    BY <2>2, PanelAssumption DEF PanelAssumption, TunnelBreaks, Server!Fail, PanelInv, ServerOK,
       TunnelStates, Live
  <2>3. CASE ListChanges BY <2>3 DEF ListChanges, PanelInv, ServerOK
  <2> QED BY <2>1, <2>2, <2>3
<1>3. PageOK' BY <1>1 DEF PanelInv, PageOK, page
<1>4. ListsOK' BY <1>1, <1>2, ListsStay DEF PanelInv, ServerOK, page
<1>5. op' \in Ops(version') BY <1>1, <1>2, OpsGrow DEF PanelInv, ServerOK, page
<1> QED BY <1>1, <1>2, <1>3, <1>4, <1>5 DEF PanelInv, page

(* The operation's work on the server, and its failure.                    *)
LEMMA OpStep ==
  ASSUME PanelInv, OpServed \/ TunnelStartRead \/ OpFails
  PROVE  PanelInv'
<1>1. /\ UNCHANGED <<visible, timers, lists, statuses, shown, followed, shownList, epoch, acked>>
      /\ budget' \in 0..MaxInputs
  BY BudgetOK DEF OpServed, TunnelStartRead, OpFails, PanelInv, PageOK
<1>2. ServerOK' /\ version' >= version /\ version \in Nat
  <2>1. CASE OpServed BY <2>1, ServeOK DEF OpServed, PanelInv, ServerOK
  <2>2. CASE OpFails
    <3>1. 0 \in 0..MaxAddress BY PanelAssumption DEF PanelAssumption
    <3>2. UNCHANGED version /\ (Unmoved \/ TornDown) BY <2>2 DEF OpFails
    <3>3. CASE Unmoved BY <3>2, <3>3 DEF Unmoved, PanelInv, ServerOK
    <3>4. CASE TornDown
      <4>1. running' \in BOOLEAN /\ tunnel' \in TunnelStates /\ address' \in 0..MaxAddress
        BY <3>1, <3>4 DEF TornDown, Server!Stop, TunnelStates
      <4>2. version \in Nat /\ version' = version BY <3>2 DEF PanelInv, ServerOK
      <4> QED BY <4>1, <4>2 DEF ServerOK
    <3> QED BY <3>2, <3>3, <3>4
  <2>3. CASE TunnelStartRead
    BY <2>3, ServerStays DEF TunnelStartRead, server, PanelInv, ServerOK
  <2> QED BY <2>1, <2>2, <2>3
<1>3. PageOK' BY <1>1 DEF PanelInv, PageOK
<1>4. ListsOK' BY <1>1, <1>2, ListsStay DEF PanelInv, ServerOK
<1>5. op' \in Ops(version')
  <2>1. CASE OpServed
    <3>1. op \in Ops(version') BY <1>2, OpsGrow DEF PanelInv, ServerOK
    <3>2. PICK got : got = IF op.request \in {"device", "startTunnel"} THEN Unknown
                           ELSE Snapshot'
      OBVIOUS
    <3>3. PICK made : made = IF version' = version THEN 0 ELSE version' OBVIOUS
    <3>4. Snapshot' \in Statuses BY <1>2 DEF ServerOK, Snapshot, Statuses, Status
    <3>5. got \in Statuses /\ made \in 0..version'
      BY <1>2, <3>2, <3>3, <3>4 DEF Statuses, ServerOK
    <3>6. PICK stage \in {"served", "read"} :
            op' = [op EXCEPT !.stage = stage, !.got = got, !.made = made]
      BY <2>1, <3>2, <3>3 DEF OpServed
    <3> QED BY <3>1, <3>5, <3>6 DEF Ops
  <2>2. CASE OpFails BY <2>2, <1>2, FreshOp DEF OpFails, Requests, ServerOK
  <2>3. CASE TunnelStartRead
    <3>1. PICK got : got = Snapshot OBVIOUS
    <3>2. got \in Statuses BY <3>1, SnapshotOK DEF PanelInv
    <3>3. op' = [op EXCEPT !.stage = "read", !.got = got] BY <2>3, <3>1 DEF TunnelStartRead
    <3>4. op \in Ops(version) /\ version' = version
      BY <2>3 DEF TunnelStartRead, server, PanelInv
    <3> QED BY <3>2, <3>3, <3>4 DEF Ops
  <2> QED BY <2>1, <2>2, <2>3
<1> QED BY <1>1, <1>2, <1>3, <1>4, <1>5 DEF PanelInv

(* What the panel does with a click and with the answer to it.             *)
LEMMA ButtonStep ==
  ASSUME PanelInv,
         Click \/ ResultApplied \/ ProxyThenTunnel \/ TunnelApplied \/ RotationApplied
           \/ DeviceApplied
  PROVE  PanelInv'
<1>1. /\ UNCHANGED server /\ UNCHANGED <<visible, timers, statuses, followed>>
      /\ budget' \in 0..MaxInputs
  BY BudgetOK DEF Click, ResultApplied, ProxyThenTunnel, TunnelApplied, RotationApplied,
     DeviceApplied
<1>2. ServerOK' /\ version' = version /\ version \in Nat
  BY <1>1, ServerStays DEF PanelInv, ServerOK, server
<1>3. op \in Ops(version) BY DEF PanelInv
<1>4. PageOK'
  <2>1. op.got \in Statuses BY <1>3 DEF Ops
  <2>2. shown' \in Statuses
    BY <2>1 DEF Click, ResultApplied, ProxyThenTunnel, TunnelApplied, RotationApplied,
       DeviceApplied, PanelInv, PageOK
  <2> QED BY <1>1, <2>2 DEF PanelInv, PageOK
<1>5. ListsOK'
  <2>1. CASE Acknowledged /\ shownList' \in 0..version BY <1>2, <2>1, AcknowledgedOK
  <2>2. CASE UNCHANGED <<lists, shownList, epoch, acked>>
    BY <1>2, <2>2, ListsStay DEF PanelInv
  <2>3. op.made \in 0..version /\ shownList \in 0..version
    BY <1>3 DEF Ops, PanelInv, ListsOK
  <2> QED
    BY <2>1, <2>2, <2>3 DEF Click, ResultApplied, ProxyThenTunnel, TunnelApplied,
       RotationApplied, DeviceApplied
<1>6. op' \in Ops(version)
  <2>1. CASE Click
    <3>1. Offered \subseteq Requests
      BY DEF Offered, ProxyOffered, TunnelOffered, DeviceOffered, Requests
    <3> QED BY <1>2, <2>1, <3>1, FreshOp DEF Click
  <2>2. CASE DeviceApplied
    <3>1. [op EXCEPT !.stage = "refreshing"] \in Ops(version) BY <1>3 DEF Ops
    <3> QED BY <1>2, <2>2, <3>1, FreshOp DEF DeviceApplied, Requests
  <2>3. CASE ~ (Click \/ DeviceApplied)
    BY <1>2, <2>3, FreshOp DEF ResultApplied, ProxyThenTunnel, TunnelApplied, RotationApplied,
       Requests
  <2> QED BY <2>1, <2>2, <2>3
<1> QED BY <1>1, <1>2, <1>4, <1>5, <1>6 DEF PanelInv

(* A request of a poll or of a refresh that is sent, read, answered or     *)
(* lost.                                                                   *)
LEMMA ListStep ==
  ASSUME PanelInv,
         SessionsTick \/ \E r \in lists : ListRead(r) \/ ListAnswered(r) \/ ListFails(r)
  PROVE  PanelInv'
<1>1. /\ UNCHANGED server /\ UNCHANGED <<visible, timers, statuses, shown, followed>>
      /\ UNCHANGED <<epoch, acked>> /\ budget' \in 0..MaxInputs
  BY BudgetOK DEF SessionsTick, ListRead, ListAnswered, ListFails
<1>2. ServerOK' /\ version' = version /\ version \in Nat
  BY <1>1, ServerStays DEF PanelInv, ServerOK, server
<1>3. PageOK' BY <1>1 DEF PanelInv, PageOK
<1>4. epoch \in Nat /\ acked \in 0..version /\ shownList \in 0..version
  BY DEF PanelInv, ListsOK
<1>5. \A r \in lists : ListOK(r) BY DEF PanelInv, ListsOK
<1>6. ASSUME NEW r, ListOK(r) PROVE ListOK(r)' BY <1>1, <1>2, <1>6 DEF ListOK
<1>7. ListsOK'
  <2>1. \A r \in lists' : ListOK(r)
    <3>1. CASE SessionsTick
      <4>1. ListOK(ListRequest("poll")) BY <1>2, <1>4, RequestOK
      <4> QED BY <1>5, <3>1, <4>1 DEF SessionsTick
    <3>2. ASSUME NEW r \in lists, ListRead(r) PROVE \A q \in lists' : ListOK(q)
      <4>1. ListOK(r) BY <1>5
      <4>2. PICK read : read = [r EXCEPT !.stage = "read", !.got = version] OBVIOUS
      <4>3. ListOK(read)
        <5>1. version \in 0..version /\ version >= acked BY <1>2, <1>4
        <5>2. read.got = version /\ read.epoch = r.epoch BY <4>1, <4>2 DEF ListOK
        <5>3. read \in [by : {"poll", "refresh"}, epoch : 0..epoch, stage : {"sent", "read"},
                        got : 0..version]
          BY <4>1, <4>2, <5>1 DEF ListOK
        <5> QED BY <5>1, <5>2, <5>3 DEF ListOK
      <4>4. lists' = (lists \ {r}) \cup {read} BY <3>2, <4>2 DEF ListRead
      <4> QED BY <1>5, <4>3, <4>4
    <3>3. ASSUME NEW r \in lists, ListAnswered(r) \/ ListFails(r) PROVE \A q \in lists' : ListOK(q)
      BY <1>5, <3>3 DEF ListAnswered, ListFails, Released
    <3> QED BY <3>1, <3>2, <3>3
  <2>2. shownList' \in 0..version
    <3>1. ASSUME NEW r \in lists, ListAnswered(r) PROVE shownList' \in 0..version
      <4>1. r.got \in 0..version BY <1>5 DEF ListOK
      <4> QED BY <1>4, <3>1, <4>1 DEF ListAnswered
    <3> QED BY <1>4, <3>1 DEF SessionsTick, ListRead, ListFails
  <2>3. \A r \in lists' : ListOK(r)' BY <2>1, <1>6
  <2> QED BY <1>1, <1>2, <1>4, <2>2, <2>3 DEF ListsOK
<1>8. op' \in Ops(version)
  BY <1>2, OpAfterOK DEF SessionsTick, ListRead, ListAnswered, ListFails, PanelInv
<1> QED BY <1>1, <1>2, <1>3, <1>7, <1>8 DEF PanelInv

(* A request for the status that is sent, read, answered or lost.          *)
LEMMA StatusStep ==
  ASSUME PanelInv,
         TunnelTick \/ \E r \in statuses :
                         StatusRead(r) \/ MountAnswered(r) \/ TunnelPolled(r) \/ StatusFails(r)
  PROVE  PanelInv'
<1>1. /\ UNCHANGED server /\ UNCHANGED <<visible, timers, lists, op, followed>>
      /\ UNCHANGED <<shownList, epoch, acked>> /\ budget' \in 0..MaxInputs
  BY BudgetOK DEF TunnelTick, StatusRead, MountAnswered, TunnelPolled, StatusFails
<1>2. ServerOK' /\ version' = version /\ version \in Nat
  BY <1>1, ServerStays DEF PanelInv, ServerOK, server
<1>3. ListsOK' BY <1>1, <1>2, ListsStay DEF PanelInv
<1>4. statuses \subseteq StatusRequests BY DEF PanelInv
<1>5. shown' \in Statuses
  BY <1>4 DEF TunnelTick, StatusRead, MountAnswered, TunnelPolled, StatusFails, PanelInv, PageOK,
     StatusRequests
<1>6. PageOK' BY <1>1, <1>5 DEF PanelInv, PageOK
<1>7. statuses' \subseteq StatusRequests
  <2>1. CASE TunnelTick
    <3>1. StatusRequest("poll") \in StatusRequests
      BY DEF StatusRequest, StatusRequests, Statuses
    <3> QED BY <1>4, <2>1, <3>1 DEF TunnelTick
  <2>2. ASSUME NEW r \in statuses, StatusRead(r) PROVE statuses' \subseteq StatusRequests
    <3>1. PICK got : got = Snapshot OBVIOUS
    <3>2. got \in Statuses BY <3>1, SnapshotOK DEF PanelInv
    <3>3. [r EXCEPT !.stage = "read", !.got = got] \in StatusRequests
      BY <1>4, <3>2 DEF StatusRequests
    <3> QED BY <1>4, <2>2, <3>1, <3>3 DEF StatusRead
  <2>3. ASSUME NEW r \in statuses, MountAnswered(r) \/ TunnelPolled(r) \/ StatusFails(r)
        PROVE  statuses' \subseteq StatusRequests
    BY <1>4, <2>3 DEF MountAnswered, TunnelPolled, StatusFails, Released
  <2> QED BY <2>1, <2>2, <2>3
<1>8. op' \in Ops(version') BY <1>1, <1>2 DEF PanelInv
<1> QED BY <1>2, <1>3, <1>6, <1>7, <1>8 DEF PanelInv

(* Rendering and the edges of visibility: the intervals are those of what  *)
(* can be seen.                                                            *)
LEMMA PageStep ==
  ASSUME PanelInv, Render \/ Hide \/ Show
  PROVE  PanelInv'
<1>1. /\ UNCHANGED server /\ UNCHANGED <<op, shown, shownList, epoch, acked>>
      /\ budget' \in 0..MaxInputs
  BY BudgetOK DEF Render, Hide, Show
<1>2. ServerOK' /\ version' = version /\ version \in Nat
  BY <1>1, ServerStays DEF PanelInv, ServerOK, server
<1>3. op' \in Ops(version') BY <1>1, <1>2 DEF PanelInv
<1>4. visible' \in BOOLEAN /\ followed' \in TunnelStates \cup {"unknown"}
  <2>1. shown.tunnel \in TunnelStates \cup {"unknown"}
    BY DEF PanelInv, PageOK, Statuses, Status, Unknown
  <2>2. visible \in BOOLEAN /\ followed \in TunnelStates \cup {"unknown"} BY DEF PanelInv, PageOK
  <2>3. visible' \in BOOLEAN BY <2>2 DEF Render, Hide, Show
  <2>4. followed' \in TunnelStates \cup {"unknown"} BY <2>1, <2>2 DEF Render, Hide, Show
  <2> QED BY <2>3, <2>4
<1>5. timers' = TimersOf(visible', followed')
  BY DEF Render, Hide, Show, PanelInv, PageOK, TimersOf, Resumed
<1>6. PageOK' BY <1>1, <1>4, <1>5 DEF PanelInv, PageOK
<1>7. statuses' \subseteq StatusRequests
  <2>1. StatusRequest("poll") \in StatusRequests
    BY DEF StatusRequest, StatusRequests, Statuses
  <2> QED BY <2>1 DEF Render, Hide, Show, By, Polled, PanelInv
<1>8. ListsOK'
  <2>1. ListOK(ListRequest("poll")) BY <1>2, RequestOK DEF PanelInv, ListsOK
  <2>2. \A r \in lists' : ListOK(r)
    BY <2>1 DEF Render, Hide, Show, Polled, PanelInv, ListsOK
  <2>3. ASSUME NEW r, ListOK(r) PROVE ListOK(r)' BY <1>1, <1>2, <2>3 DEF ListOK
  <2>4. \A r \in lists' : ListOK(r)' BY <2>2, <2>3
  <2> QED BY <1>1, <1>2, <2>4 DEF PanelInv, ListsOK
<1> QED BY <1>2, <1>3, <1>6, <1>7, <1>8 DEF PanelInv

(* Every step of the server and of the page keeps the invariant.           *)
LEMMA PanelAlways == Spec => []PanelInv
<1>1. Init => PanelInv
  <2> SUFFICES ASSUME Init PROVE PanelInv OBVIOUS
  <2>1. ServerOK
    BY PanelAssumption DEF PanelAssumption, Init, ServerOK, TunnelStates, Live
  <2>2. budget \in 0..MaxInputs BY PanelAssumption DEF PanelAssumption, Init
  <2>3. PageOK BY <2>2 DEF Init, PageOK, TimersOf, Statuses, Unknown, Live
  <2>4. ListOK(ListRequest("poll")) BY RequestOK DEF Init
  <2>5. ListsOK BY <2>4 DEF Init, ListsOK
  <2>6. statuses \subseteq StatusRequests
    BY DEF Init, StatusRequest, StatusRequests, Statuses
  <2>7. op \in Ops(version) BY FreshOp DEF Init, Requests
  <2> QED BY <2>1, <2>3, <2>5, <2>6, <2>7 DEF PanelInv
<1>2. PanelInv /\ [Next]_vars => PanelInv'
  <2> SUFFICES ASSUME PanelInv, [Next]_vars PROVE PanelInv' OBVIOUS
  <2>1. CASE UNCHANGED vars
    BY <2>1, ListsStay
       DEF vars, server, page, PanelInv, ServerOK, PageOK
  <2> QED BY <2>1, ServerStep, OpStep, ButtonStep, ListStep, StatusStep, PageStep DEF Next, Poll
<1> QED BY <1>1, <1>2, PTL DEF Spec

---------------------------------------------------------------------------
(* What the panel shows *)

(* Every state of the panel and of the server behind it has the right      *)
(* type; the intervals that run are those of what can be seen.             *)
THEOREM PanelTypes == Spec => []TypeOK
BY PanelAlways, InvHasTypes, PTL

(* No late answer brings back a list from before a change the panel knows  *)
(* of, however many polls and refreshes overlap. (sessionsEpoch,           *)
(* RemoteSection.tsx:85)                                                   *)
THEOREM ListIsCurrentHolds == Spec => ListIsCurrent
<1> DEFINE Newer == shownList' # shownList => shownList' >= acked'
<1>1. PanelInv /\ [Next]_vars => [Newer]_vars
  <2> SUFFICES ASSUME PanelInv, Next, shownList' # shownList PROVE shownList' >= acked' OBVIOUS
  <2>1. CASE RotationApplied
    <3>1. shownList' = op.made /\ acked' = op.made BY <2>1 DEF RotationApplied, Acknowledged
    <3>2. op.made \in Nat BY DEF PanelInv, ServerOK, Ops
    <3> QED BY <3>1, <3>2
  <2>2. ASSUME NEW r \in lists, ListAnswered(r) PROVE shownList' >= acked'
    <3>1. ListOK(r) BY DEF PanelInv, ListsOK
    <3> QED BY <2>2, <3>1 DEF ListAnswered, OfEpoch, ListOK
  <2> QED
    BY <2>1, <2>2 DEF Next, Poll, TunnelConnects, TunnelBreaks, ListChanges, Click, OpServed,
       TunnelStartRead, OpFails, ResultApplied, ProxyThenTunnel, TunnelApplied, DeviceApplied,
       SessionsTick, TunnelTick, ListRead, ListFails, StatusRead, MountAnswered, TunnelPolled,
       StatusFails, Render, Hide, Show, page
<1> QED BY <1>1, PanelAlways, PTL DEF Spec, ListIsCurrent
=============================================================================
