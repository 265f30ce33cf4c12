------------------------- MODULE InteractionOverlay -------------------------
(***************************************************************************)
(* Answering the host's questions and approvals from the phone: the source *)
(* that copies the host's registry (src/client/pending-source.ts), the     *)
(* cockpit that shows its items and keeps the visited ones mounted         *)
(* (RemoteCockpit.tsx, InteractionOverlay.tsx), and the one attempt a      *)
(* mounted card has (use-interaction-submission.ts); on top of the         *)
(* connection and its recovery refresh, module CockpitConnection.          *)
(*                                                                         *)
(* There are four copies of what is pending: the registry, the source's    *)
(* (as of its last collect), what React last rendered, and the host's own  *)
(* opinion, which is whatever an answer meets.  A wait is a request of the *)
(* host by its key; one that a more urgent request hides may come back.    *)
(***************************************************************************)
EXTENDS CockpitConnection

CONSTANTS
  Waits,     \* requests of the host
  Patience   \* the 10 s after which an attempt is uncertain, in ticks

ASSUME OverlayAssumption == Patience \in Nat \ {0}

VARIABLES
  wide,       \* the viewport is wider than 720 px, where the overlay is not shown
  published,  \* the registry, uiSession.sessionStatus
  waits,      \* the source's waits and items
  items,      \* the items that are on the screen
  visited,    \* items whose card was opened
  offline,    \* the fieldset is disabled on the screen
  card        \* the mounted cards with the state of useInteractionSubmission

overlayVars == <<wide, published, waits, items, visited, offline, card>>
allVars == <<vars, overlayVars>>

(* busy is locked as far as React has rendered it; age is that of the      *)
(* timer that rendering armed; sent counts the operations of this mounted  *)
(* card that reached the host (observation only).                          *)
NoCard == [mounted |-> FALSE, locked |-> FALSE, busy |-> FALSE, age |-> 0,
           attempt |-> "none", notice |-> "none", sent |-> 0]

OverlayInit ==
  /\ Init
  /\ wide \in BOOLEAN
  /\ published \in SUBSET Waits /\ waits = published
  /\ items = (IF wide THEN {} ELSE waits) /\ visited = {}
  /\ offline = (channel # "connected")
  /\ card = [w \in Waits |-> NoCard]

---------------------------------------------------------------------------
(* The registry and the screen *)

(* collect; what projectInteraction shows of a request is its key here.    *)
Collect == waits' = published

Published == /\ published' \in SUBSET Waits \ {published}
             /\ UNCHANGED <<vars, wide, waits, items, visited, offline, card>>

(* The source hears of it. *)
Notified == /\ ~disposed /\ Collect
            /\ UNCHANGED <<vars, wide, published, items, visited, offline, card>>

(* React renders the source's items; what is no longer among them loses    *)
(* its card and its place among the visited.                               *)
Show(opened) ==
  /\ ~disposed /\ ~wide
  /\ items' = waits /\ visited' = opened \cap waits
  /\ offline' = (channel # "connected")
  /\ card' = [w \in Waits |->
       IF w \in visited' THEN [card[w] EXCEPT !.mounted = TRUE, !.busy = card[w].locked]
                         ELSE NoCard]
  /\ UNCHANGED <<vars, wide, published, waits>>

Render == Show(visited)
Choose(w) == w \in items /\ Show(visited \cup {w})

(* A resize across 720 px takes the cockpit off the screen, every card and *)
(* what it knew of its attempt included; one back is shown by a Render.    *)
Resize ==
  /\ ~disposed
  /\ wide' = ~wide
  /\ items' = {} /\ visited' = {}
  /\ card' = [w \in Waits |-> NoCard]
  /\ UNCHANGED <<vars, published, waits, offline>>

---------------------------------------------------------------------------
(* One attempt *)

(* What keeps a second attempt out: the lock, or what is on the screen. *)
Shown(w) == card[w].busy
Fenced(w) == card[w].locked

(* The waits an answer is looked up in: collected now, or earlier. *)
AsNotified == waits
Current == published

(* run: the connection's guard, then the source's fence, then the host.    *)
(* Whatever stops it on the way leaves the card locked and uncertain.      *)
Submit(w) ==
  /\ card[w].mounted /\ ~card[w].busy /\ ~offline
  /\ ~Fenced(w)
  /\ waits' = IF channel = "connected" THEN Current ELSE waits
  /\ card' = [card EXCEPT ![w] =
       IF channel = "connected" /\ w \in waits'
         THEN [card[w] EXCEPT !.locked = TRUE, !.attempt = "pending", !.sent = @ + 1]
         ELSE [card[w] EXCEPT !.locked = TRUE, !.attempt = "settled", !.notice = "uncertain"]]
  /\ UNCHANGED <<vars, wide, published, items, visited, offline>>

(* The host's acknowledgement, which an uncertain card ignores; or its     *)
(* failure.  An answer to a card that is gone is nobody's.                 *)
Settles(w) ==
  /\ card[w].attempt = "pending"
  /\ \E notice \in {"confirming", "uncertain"} :
       card' = [card EXCEPT ![w].attempt = "settled",
                            ![w].notice = IF @ = "uncertain" THEN @ ELSE notice]
  /\ UNCHANGED <<vars, wide, published, waits, items, visited, offline>>

(* The 10 s timer goes on after the acknowledgement; or ends with it. *)
WhilePending(w) == card[w].attempt = "pending"
Ticking(w) == card[w].busy

Due(w) == Ticking(w) /\ card[w].age = Patience

Uncertain(w) ==
  /\ Due(w)
  /\ card' = [card EXCEPT ![w].age = Patience + 1, ![w].notice = "uncertain"]
  /\ UNCHANGED <<vars, wide, published, waits, items, visited, offline>>

---------------------------------------------------------------------------
(* The connection *)

(* sessions.refresh() and then the source's refresh, unless it failed *)
Refreshed ==
  /\ Settle
  /\ \E ok \in BOOLEAN :
       /\ flight = "calling" /\ ~TimedOut => failed' = ~ok
       /\ waits' = IF ok /\ ~disposed THEN published ELSE waits
  /\ UNCHANGED <<wide, published, items, visited, offline, card>>

TimePasses ==
  /\ Tick /\ \A w \in Waits : ~Due(w)
  /\ card' = [w \in Waits |-> IF Ticking(w) /\ card[w].age < Patience
                                THEN [card[w] EXCEPT !.age = @ + 1] ELSE card[w]]
  /\ UNCHANGED <<wide, published, waits, items, visited, offline>>

(* The scope ends: the connection, the source and the slot go. *)
ScopeEnds ==
  /\ Dispose
  /\ waits' = {} /\ items' = {} /\ visited' = {}
  /\ card' = [w \in Waits |-> NoCard]
  /\ UNCHANGED <<wide, published, offline>>

ConnectionStep ==
  /\ \/ UserRefresh \/ ChannelMoves \/ Visible \/ Hidden
     \/ TimerFires \/ FlightStarts \/ TimeLimit
  /\ UNCHANGED overlayVars

OverlayNext ==
  \/ Published \/ Notified \/ Render \/ Resize \/ Refreshed \/ TimePasses \/ ScopeEnds
  \/ ConnectionStep
  \/ \E w \in Waits : Choose(w) \/ Submit(w) \/ Settles(w) \/ Uncertain(w)

(* Time passes whatever else happens, due timers fire, microtasks run and  *)
(* React renders.  Neither the host nor a refresh has to answer.           *)
OverlayFairness ==
  /\ SF_allVars(TimePasses)
  /\ WF_allVars(ConnectionStep /\ TimerFires) /\ WF_allVars(ConnectionStep /\ FlightStarts)
  /\ WF_allVars(ConnectionStep /\ TimeLimit)
  /\ WF_allVars(Render)
  /\ \A w \in Waits : WF_allVars(Uncertain(w))

OverlaySpec == OverlayInit /\ [][OverlayNext]_allVars /\ OverlayFairness

---------------------------------------------------------------------------
(* Properties *)

(* "One attempt per mounted pending card": however fast the clicks follow  *)
(* each other, whatever was rendered in between and whatever the first one *)
(* met, at most one operation reaches the host.                            *)
OneAttempt == \A w \in Waits : card[w].sent <= 1

(* "Fence stale device UI against the latest local registry; never         *)
(* replay": an operation reaches the host only for a request that the      *)
(* registry holds at that moment, over a connection that is up, even if    *)
(* neither the source nor the screen knows of the change yet.              *)
AnswersArePending ==
  [][\A w \in Waits :
       card'[w].sent > card[w].sent => w \in published /\ channel = "connected"]_allVars

(* Nobody is left waiting: an attempt the host neither confirms by         *)
(* removing the request nor refuses is reported as uncertain, also if it   *)
(* was acknowledged.                                                       *)
AttemptIsReported ==
  \A w \in Waits :
    card[w].locked ~> (card[w].notice = "uncertain" \/ ~card[w].mounted)
=============================================================================
