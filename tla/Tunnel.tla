------------------------------- MODULE Tunnel -------------------------------
(***************************************************************************)
(* The cloudflared quick tunnel of src/tunnel.ts: start, stop, the run     *)
(* that finds or downloads the binary, and the child process.              *)
(*                                                                         *)
(* start and stop are called under the runtime's exclusive gate, so they   *)
(* never overlap; a run, its download and its child overlap everything.    *)
(* Each start or stop is a generation; runs, downloads and children are    *)
(* named by the generation that made them.  The pinned release has one     *)
(* content, so the cached binary is "there" or not, and so is its digest.  *)
(***************************************************************************)
EXTENDS Naturals, FiniteSets

CONSTANT MaxGen   \* bound: calls of start and stop together

ASSUME TunnelAssumption == MaxGen \in Nat

VARIABLES
  state,        \* "off", "starting", "online" or "error"
  url,          \* the generation whose address is published (0: none)
  generation,
  child,        \* the child of the handle (0: undefined)
  connectTimer, \* the generation whose 45 s timer is armed (0: none)
  controller,   \* the generation whose download downloadAbort belongs to (0: undefined)
  stopping,     \* stop() waits: "no", or "yes"
  victim,       \* the child that stop signalled (0: there was none)
  runs,         \* the stage of each generation's run
  aborted,      \* downloads whose controller was aborted
  deadlines,    \* downloads whose 60 s timer is armed
  procs,        \* the operating system's view of each child
  tmp,          \* which of the two temporary download files exist
  cached        \* which of the cached binary and its digest exist

vars == <<state, url, generation, child, connectTimer, controller, stopping, victim,
          runs, aborted, deadlines, procs, tmp, cached>>

Gens == 1..MaxGen

TypeOK ==
  /\ state \in {"off", "starting", "online", "error"}
  /\ url \in 0..MaxGen /\ generation \in 0..MaxGen /\ child \in 0..MaxGen
  /\ connectTimer \in 0..MaxGen /\ controller \in 0..MaxGen
  /\ stopping \in {"no", "yes"} /\ victim \in 0..MaxGen
  /\ runs \in [Gens -> {"none", "resolving", "fetching", "verified", "written",
                        "renamed", "ready", "done"}]
  /\ aborted \subseteq Gens /\ deadlines \subseteq Gens
  /\ procs \in [Gens -> {"none", "alive", "signalled", "killed", "gone"}]
  /\ tmp \subseteq {"binary", "digest"}
  /\ cached \subseteq {"binary", "digest"}

---------------------------------------------------------------------------
(* Helpers *)

(* "stale async work notices": the test of every continuation of a run,    *)
(* and a test that only looks at the state.                                *)
CurrentByState(g) == state = "starting"
Current(g) == g = generation /\ state = "starting"

(* fail(token); the variant leaves the address in place. *)
UrlKept == url
UrlAfterFailure == 0
Fail == state' = "error" /\ url' = UrlAfterFailure

(* A run that could not get a binary *)
Failed(g) ==
  /\ runs' = [runs EXCEPT ![g] = "done"]
  /\ IF g = generation THEN Fail ELSE UNCHANGED <<state, url>>

Init ==
  /\ state = "off" /\ url = 0 /\ generation = 0 /\ child = 0
  /\ connectTimer = 0 /\ controller = 0
  /\ stopping = "no" /\ victim = 0
  /\ runs = [g \in Gens |-> "none"]
  /\ aborted = {} /\ deadlines = {}
  /\ procs = [g \in Gens |-> "none"]
  /\ tmp = {}
  /\ cached \in SUBSET {"binary", "digest"}

---------------------------------------------------------------------------
(* start; in state starting or online it changes nothing *)
Start ==
  /\ stopping = "no"
  /\ state \in {"off", "error"}
  /\ generation < MaxGen
  /\ generation' = generation + 1
  /\ state' = "starting"
  /\ url' = 0
  /\ runs' = [runs EXCEPT ![generation + 1] = "resolving"]
  /\ UNCHANGED <<child, connectTimer, controller, stopping, victim, aborted, deadlines,
                 procs, tmp, cached>>

(* resolveBinary: a binary is found, is missing for good, or is downloaded *)
ResolveFound(g) ==
  /\ runs[g] = "resolving"
  /\ runs' = [runs EXCEPT ![g] = "ready"]
  /\ UNCHANGED <<state, url, generation, child, connectTimer, controller, stopping, victim,
                 aborted, deadlines, procs, tmp, cached>>

ResolveFails(g) ==
  /\ runs[g] = "resolving"
  /\ Failed(g)
  /\ UNCHANGED <<generation, child, connectTimer, controller, stopping, victim, aborted,
                 deadlines, procs, tmp, cached>>

DownloadBegins(g) ==
  /\ runs[g] = "resolving"
  /\ cached # {"binary", "digest"}
  /\ runs' = [runs EXCEPT ![g] = "fetching"]
  /\ controller' = g
  /\ deadlines' = deadlines \cup {g}
  /\ UNCHANGED <<state, url, generation, child, connectTimer, stopping, victim, aborted,
                 procs, tmp, cached>>

(* The 60 s timer aborts whatever download downloadAbort belongs to.  A    *)
(* download that was aborted itself has cleared its timer by then.         *)
Deadline(g) ==
  /\ g \in deadlines \ aborted
  /\ deadlines' = deadlines \ {g}
  /\ aborted' = aborted \cup ({controller} \ {0})
  /\ UNCHANGED <<state, url, generation, child, connectTimer, controller, stopping, victim,
                 runs, procs, tmp, cached>>

(* Network, status, size, integrity or abort *)
FetchFails(g) ==
  /\ runs[g] = "fetching"
  /\ Failed(g)
  /\ deadlines' = deadlines \ {g}
  /\ UNCHANGED <<generation, child, connectTimer, controller, stopping, victim, aborted,
                 procs, tmp, cached>>

FetchOk(g) ==
  /\ runs[g] = "fetching" /\ g \notin aborted
  /\ runs' = [runs EXCEPT ![g] = "verified"]
  /\ deadlines' = deadlines \ {g}
  /\ UNCHANGED <<state, url, generation, child, connectTimer, controller, stopping, victim,
                 aborted, procs, tmp, cached>>

(* mkdir and the two writeFile: any of them may reject, with what came     *)
(* before it done.                                                         *)
FileWritten(g) ==
  /\ runs[g] = "verified"
  /\ \/ /\ runs' = [runs EXCEPT ![g] = "written"]
        /\ tmp' = {"binary", "digest"}
        /\ UNCHANGED <<state, url>>
     \/ /\ Failed(g)
        /\ tmp' \in {tmp, tmp \cup {"binary"}, {"binary", "digest"}}
  /\ UNCHANGED <<generation, child, connectTimer, controller, stopping, victim, aborted,
                 deadlines, procs, cached>>

(* chmod and rename of the binary, then rename of the digest: each needs   *)
(* its file, which another run may have renamed, and may reject anyway.    *)
BinaryRenamed(g) ==
  /\ runs[g] = "written"
  /\ \/ /\ "binary" \in tmp
        /\ runs' = [runs EXCEPT ![g] = "renamed"]
        /\ tmp' = tmp \ {"binary"}
        /\ cached' = cached \cup {"binary"}
        /\ UNCHANGED <<state, url>>
     \/ /\ Failed(g)
        /\ UNCHANGED <<tmp, cached>>
  /\ UNCHANGED <<generation, child, connectTimer, controller, stopping, victim, aborted,
                 deadlines, procs>>

DigestRenamed(g) ==
  /\ runs[g] = "renamed"
  /\ \/ /\ "digest" \in tmp
        /\ runs' = [runs EXCEPT ![g] = "ready"]
        /\ tmp' = tmp \ {"digest"}
        /\ cached' = cached \cup {"digest"}
        /\ UNCHANGED <<state, url>>
     \/ /\ Failed(g)
        /\ UNCHANGED <<tmp, cached>>
  /\ UNCHANGED <<generation, child, connectTimer, controller, stopping, victim, aborted,
                 deadlines, procs>>

(* The rest of run, and spawnTunnel *)
RunStale(g) ==
  /\ runs[g] = "ready" /\ ~Current(g)
  /\ runs' = [runs EXCEPT ![g] = "done"]
  /\ UNCHANGED <<state, url, generation, child, connectTimer, controller, stopping, victim,
                 aborted, deadlines, procs, tmp, cached>>

SpawnThrows(g) ==
  /\ runs[g] = "ready" /\ Current(g)
  /\ runs' = [runs EXCEPT ![g] = "done"]
  /\ Fail
  /\ UNCHANGED <<generation, child, connectTimer, controller, stopping, victim, aborted,
                 deadlines, procs, tmp, cached>>

(* The 45 s timer that a spawn arms; forgetting it is the variant. *)
Unarmed(g) == connectTimer
Armed(g) == g

Spawn(g) ==
  /\ runs[g] = "ready" /\ Current(g)
  /\ runs' = [runs EXCEPT ![g] = "done"]
  /\ child' = g
  /\ procs' = [procs EXCEPT ![g] = "alive"]
  /\ connectTimer' = Armed(g)
  /\ UNCHANGED <<state, url, generation, controller, stopping, victim, aborted, deadlines,
                 tmp, cached>>

---------------------------------------------------------------------------
(* The child *)

Running(g) == procs[g] \in {"alive", "signalled"}

(* onData finds the address in the output. *)
UrlSeen(g) ==
  /\ Running(g) /\ Current(g)
  /\ connectTimer' = 0
  /\ state' = "online"
  /\ url' = g
  /\ UNCHANGED <<generation, child, controller, stopping, victim, runs, aborted, deadlines,
                 procs, tmp, cached>>

(* exit and error events act only for the child the handle still has; the  *)
(* variant acts for any.                                                   *)
AnyChild(g) == TRUE
OwnChild(g) == child = g

ChildEnds(g) ==
  /\ Running(g) \/ procs[g] = "killed"
  /\ procs' = [procs EXCEPT ![g] = "gone"]
  /\ IF OwnChild(g)
       THEN /\ child' = 0
            /\ connectTimer' = 0
            /\ IF g = generation /\ state \in {"starting", "online"}
                 THEN Fail ELSE UNCHANGED <<state, url>>
       ELSE UNCHANGED <<child, connectTimer, state, url>>
  /\ UNCHANGED <<generation, controller, stopping, victim, runs, aborted, deadlines, tmp,
                 cached>>

(* The signal a child gets that connects too late; none is the variant. *)
Unsignalled(g) == procs
Signalled(g) == [procs EXCEPT ![g] = IF @ = "alive" THEN "signalled" ELSE @]

ConnectTimeout ==
  LET g == connectTimer IN
  /\ g # 0
  /\ connectTimer' = 0
  /\ IF Current(g)
       THEN /\ Fail
            /\ child' = IF child = g THEN 0 ELSE child
            /\ procs' = IF child = g THEN Signalled(g) ELSE procs
       ELSE UNCHANGED <<state, url, child, procs>>
  /\ UNCHANGED <<generation, controller, stopping, victim, runs, aborted, deadlines, tmp,
                 cached>>

---------------------------------------------------------------------------
(* stop *)
StopBegin ==
  /\ stopping = "no"
  /\ generation < MaxGen
  /\ generation' = generation + 1
  /\ connectTimer' = 0
  /\ aborted' = aborted \cup ({controller} \ {0})
  /\ controller' = 0
  /\ child' = 0
  /\ victim' = child
  /\ procs' = IF child = 0 THEN procs ELSE Signalled(child)
  /\ stopping' = "yes"
  /\ UNCHANGED <<state, url, runs, deadlines, tmp, cached>>

(* The child exited, or the 3 s of grace are over and it gets SIGKILL. *)
Killed == [procs EXCEPT ![victim] = IF @ = "gone" THEN @ ELSE "killed"]

StopEnds ==
  /\ stopping = "yes"
  /\ stopping' = "no"
  /\ victim' = 0
  /\ procs' = IF victim = 0 THEN procs ELSE Killed
  /\ state' = "off"
  /\ url' = 0
  /\ UNCHANGED <<generation, child, connectTimer, controller, runs, aborted, deadlines, tmp,
                 cached>>

Progress(g) ==
  \/ ResolveFound(g) \/ ResolveFails(g) \/ DownloadBegins(g) \/ FetchFails(g) \/ FetchOk(g)
  \/ FileWritten(g) \/ BinaryRenamed(g) \/ DigestRenamed(g)
  \/ RunStale(g) \/ SpawnThrows(g) \/ Spawn(g)

Next ==
  \/ Start \/ StopBegin \/ StopEnds \/ ConnectTimeout
  \/ \E g \in Gens : Progress(g) \/ Deadline(g) \/ UrlSeen(g) \/ ChildEnds(g)

(* Every await of a run settles (fetch has time limits of its own), timers *)
(* fire and a killed process dies.                                         *)
Fairness ==
  /\ \A g \in Gens : WF_vars(Progress(g))
  /\ WF_vars(ConnectTimeout)
  /\ WF_vars(StopEnds)

Spec == Init /\ [][Next]_vars /\ Fairness

---------------------------------------------------------------------------
(* Properties *)

(* At most one cloudflared runs that was not told to end, and it is the    *)
(* one the handle would stop; once the tunnel shows "off" or "error" there *)
(* is none, and no run that a stop overtook starts one.                    *)
OneTunnel ==
  /\ \A g \in Gens : procs[g] = "alive" => child = g
  /\ state \in {"off", "error"} => child = 0

(* The published address is that of the current child, which nobody told   *)
(* to end, as long as no stop is under way.                                *)
OnlineIsReal ==
  /\ state = "online" /\ stopping = "no" => url = generation /\ child = url
  /\ url # 0 => state = "online"

(* What the run, the download, the child and the timer of a start do *)
Work(g) ==
  \/ Progress(g) \/ Deadline(g) \/ UrlSeen(g) \/ ChildEnds(g)
  \/ connectTimer = g /\ ConnectTimeout

(* Work of an earlier start, a late step of its run, a line its child      *)
(* prints, that child's exit or a timer, never publishes, fails or ends    *)
(* what a later start shows, nor takes its child or its timer away.        *)
OnlyCurrentMoves ==
  [][\A g \in Gens \ {generation} :
       Work(g) => UNCHANGED <<state, url, child, connectTimer>>]_vars

(* The handle implements module TunnelService: whatever earlier starts    *)
(* still do, it moves from off or error to starting only, from starting to *)
(* online with an address, and loses the address with that state; and a    *)
(* start is never left hanging, however the download and the child behave. *)
Service == INSTANCE TunnelService WITH Urls <- Gens

ImplementsService == Service!Spec

(* "Bumped by stop()/start(); stale async work notices and bows out": the  *)
(* timer and the files of an earlier download leave the download of the    *)
(* current start alone.                                                    *)
StaleWorkBowsOut ==
  [][\A g \in Gens \ {generation} :
       runs'[g] # runs[g] \/ (g \in deadlines /\ g \notin deadlines') =>
         /\ generation \in aborted' => generation \in aborted
         /\ generation \in Gens /\ runs[generation] = "written" => tmp' = tmp]_vars
=============================================================================
