---------------------------- MODULE TunnelProofs ----------------------------
(***************************************************************************)
(* Theorems about Tunnel, for any number of starts and stops.              *)
(***************************************************************************)
EXTENDS Tunnel, TLAPS

(* A run that is on its way to a child *)
Underway(g) == runs[g] \notin {"none", "done"}

(* What has not begun, or never will: the generations to come, and the one *)
(* of a stop that waits, which has no run.                                 *)
FutureInv ==
  \A g \in Gens : g > generation \/ (g = generation /\ stopping = "yes") =>
    runs[g] = "none" /\ procs[g] = "none"

(* As long as the current run is on its way the tunnel shows "starting"    *)
(* and there is no child.                                                  *)
RunInv ==
  \A g \in Gens : g = generation /\ Underway(g) => state = "starting" /\ child = 0

(* A child comes after its run; the handle's is the current one.           *)
ChildInv ==
  /\ \A g \in Gens : procs[g] # "none" => runs[g] = "done"
  /\ \A g \in Gens : g \in {child, victim, connectTimer} => runs[g] = "done"
  /\ child # 0 => child = generation
  /\ victim # 0 => victim < generation

(* The timer is the current child's, and runs while it connects.           *)
TimerInv == connectTimer # 0 => connectTimer = generation /\ state = "starting"

(* The current child was told to end because it connected too late.        *)
SignalInv ==
  \A g \in Gens : g = generation /\ procs[g] = "signalled" => state = "error"

TunnelInv ==
  /\ FutureInv /\ RunInv /\ ChildInv /\ TimerInv /\ SignalInv
  /\ OneTunnel /\ OnlineIsReal

---------------------------------------------------------------------------
(* The types are kept by every operation and every step of a run. *)
LEMMA TypeInit == ASSUME Init PROVE TypeOK
<1>1. 0 \in 0..MaxGen BY TunnelAssumption DEF TunnelAssumption
<1> QED BY <1>1 DEF Init, TypeOK

(* A failed run keeps the types.                                           *)
LEMMA FailedType ==
  ASSUME TypeOK, NEW g \in Gens, Failed(g)
  PROVE  /\ runs' \in [Gens -> {"none", "resolving", "fetching", "verified", "written",
                               "renamed", "ready", "done"}]
         /\ state' \in {"off", "starting", "online", "error"} /\ url' \in 0..MaxGen
  BY TunnelAssumption DEF TypeOK, Failed, Fail, UrlAfterFailure, TunnelAssumption

(* Every step keeps the types.                                             *)
LEMMA TypeStep ==
  ASSUME TypeOK, [Next]_vars
  PROVE  TypeOK'
<1> USE TunnelAssumption DEF TunnelAssumption
<1>1. CASE Start BY <1>1 DEF Start, TypeOK, Gens
<1>2. CASE StopBegin BY <1>2 DEF StopBegin, TypeOK, Gens, Signalled
<1>3. CASE StopEnds BY <1>3 DEF StopEnds, TypeOK, Gens, Killed
<1>4. CASE ConnectTimeout
  BY <1>4 DEF ConnectTimeout, TypeOK, Gens, Fail, UrlAfterFailure, Signalled
<1>5. ASSUME NEW g \in Gens, Progress(g) PROVE TypeOK'
  <2>1. CASE ResolveFound(g) BY <2>1 DEF ResolveFound, TypeOK
  <2>2. CASE ResolveFails(g) BY <2>2, FailedType DEF ResolveFails, TypeOK
  <2>3. CASE DownloadBegins(g) BY <2>3 DEF DownloadBegins, TypeOK, Gens
  <2>4. CASE FetchFails(g) BY <2>4, FailedType DEF FetchFails, TypeOK
  <2>5. CASE FetchOk(g) BY <2>5 DEF FetchOk, TypeOK
  <2>6. CASE FileWritten(g) BY <2>6, FailedType DEF FileWritten, TypeOK
  <2>7. CASE BinaryRenamed(g) BY <2>7, FailedType DEF BinaryRenamed, TypeOK
  <2>8. CASE DigestRenamed(g) BY <2>8, FailedType DEF DigestRenamed, TypeOK
  <2>9. CASE RunStale(g) BY <2>9 DEF RunStale, TypeOK
  <2>10. CASE SpawnThrows(g) BY <2>10 DEF SpawnThrows, TypeOK, Fail, UrlAfterFailure
  <2>11. CASE Spawn(g) BY <2>11 DEF Spawn, TypeOK, Gens, Armed
  <2> QED BY <1>5, <2>1, <2>2, <2>3, <2>4, <2>5, <2>6, <2>7, <2>8, <2>9, <2>10, <2>11 DEF Progress
<1>6. ASSUME NEW g \in Gens, Deadline(g) PROVE TypeOK'
  BY <1>6 DEF Deadline, TypeOK, Gens
<1>7. ASSUME NEW g \in Gens, UrlSeen(g) PROVE TypeOK'
  BY <1>7 DEF UrlSeen, TypeOK, Gens
<1>8. ASSUME NEW g \in Gens, ChildEnds(g) PROVE TypeOK'
  BY <1>8 DEF ChildEnds, TypeOK, Gens, Fail, UrlAfterFailure
<1>9. CASE UNCHANGED vars BY <1>9 DEF vars, TypeOK
<1> QED BY <1>1, <1>2, <1>3, <1>4, <1>5, <1>6, <1>7, <1>8, <1>9 DEF Next

---------------------------------------------------------------------------

(* The invariant holds at the start.                                       *)
LEMMA TunnelInit == ASSUME Init PROVE TunnelInv
  BY TunnelAssumption
  DEF Init, TunnelInv, FutureInv, RunInv, ChildInv, TimerInv, SignalInv, OneTunnel, OnlineIsReal,
      Underway, Gens, TunnelAssumption

(* A run that makes progress and neither fails nor spawns disturbs nothing *)
(* but its own stage.                                                      *)
LEMMA RunMoves ==
  ASSUME TypeOK, TunnelInv, NEW g \in Gens, Underway(g),
         NEW s \in {"fetching", "verified", "written", "renamed", "ready"},
         runs' = [runs EXCEPT ![g] = s],
         UNCHANGED <<state, url, generation, child, connectTimer, stopping, victim, procs>>
  PROVE  TunnelInv'
  BY DEF TypeOK, TunnelInv, FutureInv, RunInv, ChildInv, TimerInv, SignalInv, OneTunnel,
         OnlineIsReal, Underway, Gens

(* A run that ends without a child: it was overtaken, or it fails. *)
LEMMA RunEnds ==
  ASSUME TypeOK, TunnelInv, NEW g \in Gens, Underway(g),
         runs' = [runs EXCEPT ![g] = "done"],
         \/ UNCHANGED <<state, url>>
         \/ g = generation /\ Fail,
         UNCHANGED <<generation, child, connectTimer, stopping, victim, procs>>
  PROVE  TunnelInv'
  BY DEF TypeOK, TunnelInv, FutureInv, RunInv, ChildInv, TimerInv, SignalInv, OneTunnel,
         OnlineIsReal, Underway, Gens, Fail, UrlAfterFailure

(* Every step keeps it.                                                    *)
LEMMA TunnelStep ==
  ASSUME TypeOK, TunnelInv, [Next]_vars
  PROVE  TunnelInv'
<1> USE TunnelAssumption
    DEF TunnelAssumption, TypeOK, TunnelInv, FutureInv, RunInv, ChildInv, TimerInv, SignalInv,
        OneTunnel, OnlineIsReal, Gens
<1>1. CASE Start BY <1>1 DEF Start, Underway
<1>2. CASE StopBegin BY <1>2 DEF StopBegin, Signalled, Underway
<1>3. CASE StopEnds BY <1>3 DEF StopEnds, Killed, Underway
<1>4. CASE ConnectTimeout
  BY <1>4 DEF ConnectTimeout, Current, Fail, UrlAfterFailure, Signalled, Underway
<1>5. ASSUME NEW g \in Gens, Progress(g) PROVE TunnelInv'
  <2>1. CASE ResolveFound(g) BY <2>1, RunMoves DEF ResolveFound, Underway
  <2>2. CASE ResolveFails(g) BY <2>2, RunEnds DEF ResolveFails, Failed, Underway
  <2>3. CASE DownloadBegins(g) BY <2>3, RunMoves DEF DownloadBegins, Underway
  <2>4. CASE FetchFails(g) BY <2>4, RunEnds DEF FetchFails, Failed, Underway
  <2>5. CASE FetchOk(g) BY <2>5, RunMoves DEF FetchOk, Underway
  <2>6. CASE FileWritten(g) BY <2>6, RunMoves, RunEnds DEF FileWritten, Failed, Underway
  <2>7. CASE BinaryRenamed(g) BY <2>7, RunMoves, RunEnds DEF BinaryRenamed, Failed, Underway
  <2>8. CASE DigestRenamed(g) BY <2>8, RunMoves, RunEnds DEF DigestRenamed, Failed, Underway
  <2>9. CASE RunStale(g) BY <2>9, RunEnds DEF RunStale, Underway
  <2>10. CASE SpawnThrows(g) BY <2>10, RunEnds DEF SpawnThrows, Current, Underway
  <2>11. CASE Spawn(g) BY <2>11 DEF Spawn, Current, Armed, Underway
  <2> QED BY <1>5, <2>1, <2>2, <2>3, <2>4, <2>5, <2>6, <2>7, <2>8, <2>9, <2>10, <2>11 DEF Progress
<1>6. ASSUME NEW g \in Gens, Deadline(g) PROVE TunnelInv'
  BY <1>6 DEF Deadline, Underway
<1>7. ASSUME NEW g \in Gens, UrlSeen(g) PROVE TunnelInv'
  BY <1>7 DEF UrlSeen, Running, Current, Underway
<1>8. ASSUME NEW g \in Gens, ChildEnds(g) PROVE TunnelInv'
  BY <1>8 DEF ChildEnds, OwnChild, Running, Fail, UrlAfterFailure, Underway
<1>9. CASE UNCHANGED vars BY <1>9 DEF vars, Underway
<1> QED BY <1>1, <1>2, <1>3, <1>4, <1>5, <1>6, <1>7, <1>8, <1>9 DEF Next

(* The invariant of the tunnel holds in every state.                       *)
LEMMA TunnelInvariant == Spec => [](TypeOK /\ TunnelInv)
<1>1. Init => TypeOK /\ TunnelInv BY TypeInit, TunnelInit
<1>2. TypeOK /\ TunnelInv /\ [Next]_vars => TypeOK' /\ TunnelInv' BY TypeStep, TunnelStep
<1> QED BY <1>1, <1>2, PTL DEF Spec

(* Whatever the starts, stops, downloads and children, at most one         *)
(* cloudflared runs that was not told to end, it is the handle's, and none *)
(* is left when the tunnel shows "off" or "error". (tunnel.ts:296, 360)    *)
THEOREM OneTunnelHolds == Spec => []OneTunnel
<1>1. TunnelInv => OneTunnel BY DEF TunnelInv
<1> QED BY <1>1, TunnelInvariant, PTL

(* An address is published only while the tunnel is online, and it is that *)
(* of the current child. (tunnel.ts:266)                                   *)
THEOREM OnlineIsRealHolds == Spec => []OnlineIsReal
<1>1. TunnelInv => OnlineIsReal BY DEF TunnelInv
<1> QED BY <1>1, TunnelInvariant, PTL

---------------------------------------------------------------------------
(* What an overtaken start still does, late steps of its run, its          *)
(* download's timer, lines and the exit of its child, leaves the state,    *)
(* the address, the child and the timer of the current one alone           *)
(* (tunnel.ts:166, the tests of run, spawnTunnel and its callbacks).       *)
THEOREM OnlyCurrentMovesHolds == Spec => OnlyCurrentMoves
<1>1. ASSUME TunnelInv, NEW g \in Gens \ {generation}, Work(g)
      PROVE  UNCHANGED <<state, url, child, connectTimer>>
  <2>1. CASE Progress(g)
    <3>1. ASSUME Failed(g) PROVE UNCHANGED <<state, url>> BY <3>1 DEF Failed
    <3>2. CASE Spawn(g) \/ SpawnThrows(g) BY <3>2 DEF Spawn, SpawnThrows, Current
    <3>3. CASE ~(Spawn(g) \/ SpawnThrows(g))
      BY <2>1, <3>1, <3>3 DEF Progress, ResolveFound, ResolveFails, DownloadBegins, FetchFails,
        FetchOk, FileWritten, BinaryRenamed, DigestRenamed, RunStale
    <3> QED BY <3>2, <3>3
  <2>2. CASE Deadline(g) BY <2>2 DEF Deadline
  <2>3. CASE UrlSeen(g) BY <2>3 DEF UrlSeen, Current
  <2>4. CASE ChildEnds(g)
    <3>1. ~OwnChild(g) BY <1>1 DEF OwnChild, TunnelInv, ChildInv, Gens
    <3> QED BY <2>4, <3>1 DEF ChildEnds
  <2>5. CASE connectTimer = g /\ ConnectTimeout BY <1>1, <2>5 DEF TunnelInv, TimerInv, Gens
  <2> QED BY <1>1, <2>1, <2>2, <2>3, <2>4, <2>5 DEF Work
<1>2. TunnelInv => [\A g \in Gens \ {generation} :
                     Work(g) => UNCHANGED <<state, url, child, connectTimer>>]_vars
  BY <1>1
<1> QED BY <1>2, TunnelInvariant, PTL DEF Spec, OnlyCurrentMoves

---------------------------------------------------------------------------
(* How a run that gives up looks to the service: a failure if it is the    *)
(* current one, nothing otherwise.                                         *)
LEMMA FailureIsService ==
  ASSUME TypeOK, TunnelInv, NEW g \in Gens, Underway(g), Failed(g)
  PROVE  Service!Fail \/ UNCHANGED <<state, url>>
  BY DEF Failed, Fail, UrlAfterFailure, Service!Fail, TunnelInv, RunInv

(* Every step of the tunnel is a step of the service or changes nothing    *)
(* the panel sees.                                                         *)
LEMMA StepIsService ==
  ASSUME TypeOK, TunnelInv, Next
  PROVE  Service!Next \/ UNCHANGED <<state, url>>
<1> USE DEF Service!Next
<1>1. CASE Start BY <1>1 DEF Start, Service!Start
<1>2. CASE StopBegin BY <1>2 DEF StopBegin
<1>3. CASE StopEnds BY <1>3 DEF StopEnds, Service!Stop
<1>4. CASE ConnectTimeout
  BY <1>4 DEF ConnectTimeout, Current, Fail, UrlAfterFailure, Service!Fail
<1>5. ASSUME NEW g \in Gens, Progress(g) PROVE Service!Next \/ UNCHANGED <<state, url>>
  <2>1. CASE ResolveFails(g) BY <2>1, FailureIsService DEF ResolveFails, Underway
  <2>2. CASE FetchFails(g) BY <2>2, FailureIsService DEF FetchFails, Underway
  <2>3. CASE BinaryRenamed(g) BY <2>3, FailureIsService DEF BinaryRenamed, Underway
  <2>4. CASE SpawnThrows(g)
    BY <2>4 DEF SpawnThrows, Current, Fail, UrlAfterFailure, Service!Fail
  <2>5. CASE FileWritten(g) BY <2>5, FailureIsService DEF FileWritten, Underway
  <2>6. CASE DigestRenamed(g) BY <2>6, FailureIsService DEF DigestRenamed, Underway
  <2>7. CASE \/ ResolveFound(g) \/ DownloadBegins(g) \/ FetchOk(g) \/ RunStale(g) \/ Spawn(g)
    BY <2>7 DEF ResolveFound, DownloadBegins, FetchOk, RunStale, Spawn
  <2> QED BY <1>5, <2>1, <2>2, <2>3, <2>4, <2>5, <2>6, <2>7 DEF Progress
<1>6. ASSUME NEW g \in Gens, Deadline(g) PROVE UNCHANGED <<state, url>> BY <1>6 DEF Deadline
<1>7. ASSUME NEW g \in Gens, UrlSeen(g) PROVE Service!Connect
  BY <1>7 DEF UrlSeen, Current, Service!Connect
<1>8. ASSUME NEW g \in Gens, ChildEnds(g) PROVE Service!Fail \/ UNCHANGED <<state, url>>
  BY <1>8 DEF ChildEnds, Fail, UrlAfterFailure, Service!Fail
<1> QED BY <1>1, <1>2, <1>3, <1>4, <1>5, <1>6, <1>7, <1>8 DEF Next

(* To its users the handle is the service of TunnelService: it reaches     *)
(* "online" from "starting" only and with an address, fails from           *)
(* "starting" and "online" only, and loses the address with the state.     *)
(* (tunnel.ts:180-380; that every start settles is left to TLC.)           *)
THEOREM TunnelImplementsService ==
  Spec => Service!Init /\ [][Service!Next]_(Service!vars)
<1>1. Init => Service!Init BY DEF Init, Service!Init
<1>2. TypeOK /\ TunnelInv /\ [Next]_vars => [Service!Next]_(Service!vars)
  BY StepIsService DEF vars, Service!vars
<1> QED BY <1>1, <1>2, TunnelInvariant, PTL DEF Spec
=============================================================================
