---------------------------- MODULE OverlayProofs ----------------------------
(***************************************************************************)
(* Theorems about CockpitConnection and InteractionOverlay, for any        *)
(* requests of the host and any time limits.                               *)
(***************************************************************************)
EXTENDS InteractionOverlay, TLAPS

---------------------------------------------------------------------------
(* The recovery refresh *)

(* A flight that is calling is the callback that runs; after the disposal  *)
(* one may still run, but no timer and no flight is left to start another. *)
FlightInv ==
  /\ calls \in {0, 1}
  /\ flight \in {"none", "starting", "calling"}
  /\ ~disposed => (calls = 1 <=> flight = "calling")
  /\ disposed => flight = "none" /\ ~timer

(* An edge either waits or requests the only flight. *)
LEMMA RecoverKeeps ==
  ASSUME FlightInv, ~disposed, Recover, UNCHANGED <<disposed, calls>>
  PROVE  FlightInv'
  BY DEF FlightInv, Recover, Request, NoRequest, Trailing

(* Every step keeps what is known of the flight.                           *)
LEMMA FlightStep == FlightInv /\ [Next]_vars => FlightInv'
<1> SUFFICES ASSUME FlightInv, [Next]_vars PROVE FlightInv' OBVIOUS
<1>1. CASE UserRefresh BY <1>1 DEF FlightInv, UserRefresh, Request, NoRequest
<1>2. CASE ChannelMoves
  <2>1. CASE Recover BY <1>2, <2>1, RecoverKeeps DEF ChannelMoves
  <2>2. CASE NoRequest /\ UNCHANGED timer
    BY <1>2, <2>2 DEF ChannelMoves, NoRequest, FlightInv
  <2> QED BY <1>2, <2>1, <2>2 DEF ChannelMoves
<1>3. CASE Visible BY <1>3, RecoverKeeps DEF Visible
<1>4. CASE Hidden BY <1>4 DEF FlightInv, Hidden, NoRequest
<1>5. CASE TimerFires BY <1>5 DEF FlightInv, TimerFires, Request, NoRequest
<1>6. CASE FlightStarts BY <1>6 DEF FlightInv, FlightStarts, display
<1>7. CASE TimeLimit BY <1>7 DEF FlightInv, TimeLimit, FlightKept
<1>8. CASE Settle BY <1>8 DEF FlightInv, Settle
<1>9. CASE Dispose
  <2>1. disposed' /\ ~timer' /\ flight' = "none" /\ calls' = calls BY <1>9 DEF Dispose
  <2> QED BY <2>1 DEF FlightInv
<1>10. CASE Tick BY <1>10 DEF FlightInv, Tick, display
<1>11. CASE UNCHANGED vars BY <1>11 DEF FlightInv, vars, display
<1> QED
  BY <1>1, <1>2, <1>3, <1>4, <1>5, <1>6, <1>7, <1>8, <1>9, <1>10, <1>11 DEF Next

(* The cockpit starts without a flight.                                    *)
LEMMA FlightStart == Init => FlightInv
<1> SUFFICES ASSUME Init PROVE FlightInv OBVIOUS
<1>1. ~disposed /\ flight = "none" /\ calls = 0 BY DEF Init
<1> QED BY <1>1 DEF FlightInv

(* The overlay moves its connection only as CockpitConnection allows. *)
LEMMA OverlayMoves == [OverlayNext]_allVars => [Next]_vars
<1>1. CASE Published \/ Notified \/ Render \/ Resize
  BY <1>1 DEF Published, Notified, Render, Resize, Show
<1>2. CASE Refreshed BY <1>2 DEF Refreshed, Next
<1>3. CASE TimePasses BY <1>3 DEF TimePasses, Next
<1>4. CASE ScopeEnds BY <1>4 DEF ScopeEnds, Next
<1>5. CASE ConnectionStep BY <1>5 DEF ConnectionStep, Next
<1>6. ASSUME NEW w \in Waits, Choose(w) \/ Submit(w) \/ Settles(w) \/ Uncertain(w)
      PROVE  UNCHANGED vars
  BY <1>6 DEF Choose, Show, Submit, Settles, Uncertain
<1>7. CASE UNCHANGED allVars BY <1>7 DEF allVars
<1> QED BY <1>1, <1>2, <1>3, <1>4, <1>5, <1>6, <1>7 DEF OverlayNext

(* Answers, cards and renderings do nothing to the connection that its own *)
(* specification does not allow (cockpit-connection.ts).                   *)
THEOREM OverlayImplementsConnection == OverlaySpec => Init /\ [][Next]_vars
<1>1. OverlayInit => Init BY DEF OverlayInit
<1> QED BY <1>1, OverlayMoves, PTL DEF OverlaySpec

(* "retains single-flight ownership until the original operation settles": *)
(* one callback at a time, whatever the edges, limits, users and the       *)
(* disposal do (cockpit-connection.ts).                                    *)
THEOREM OneRefreshHolds == OverlaySpec => []OneRefresh
<1>1. FlightInv => OneRefresh BY DEF FlightInv, OneRefresh
<1> QED BY <1>1, FlightStart, FlightStep, OverlayImplementsConnection, PTL

---------------------------------------------------------------------------
(* The attempts *)

CardRecord ==
  [mounted : BOOLEAN, locked : BOOLEAN, busy : BOOLEAN, age : Nat,
   attempt : {"none", "pending", "settled"}, notice : {"none", "confirming", "uncertain"},
   sent : Nat]

(* What a card sent is what its lock knows of. *)
CardInv ==
  /\ card \in [Waits -> CardRecord]
  /\ \A w \in Waits : card[w].sent = 0 \/ (card[w].locked /\ card[w].sent = 1)

(* Rendering drops a card or keeps its lock. *)
LEMMA ShowKeeps ==
  ASSUME CardInv, NEW opened, Show(opened)
  PROVE  CardInv' /\ \A w \in Waits : card'[w].sent <= card[w].sent
<1>1. ASSUME NEW w \in Waits
      PROVE  /\ card'[w] \in CardRecord /\ card'[w].sent <= card[w].sent
             /\ card'[w].sent = 0 \/ (card'[w].locked /\ card'[w].sent = 1)
  <2>1. PICK r \in CardRecord : r = card[w] /\ (r.sent = 0 \/ (r.locked /\ r.sent = 1))
    BY DEF CardInv
  <2>2. CASE card'[w] = [r EXCEPT !.mounted = TRUE, !.busy = r.locked]
    <3>1. PICK b \in BOOLEAN : b = r.locked BY <2>1 DEF CardRecord
    <3>2. PICK d : d = [r EXCEPT !.mounted = TRUE, !.busy = b] OBVIOUS
    <3>3. d \in CardRecord /\ d.sent = r.sent /\ d.locked = r.locked
      BY <2>1, <3>2 DEF CardRecord
    <3>4. r.sent <= r.sent BY <2>1 DEF CardRecord
    <3> QED BY <2>1, <2>2, <3>1, <3>2, <3>3, <3>4
  <2>3. CASE card'[w] = NoCard
    <3>1. NoCard \in CardRecord /\ NoCard.sent = 0 BY DEF CardRecord, NoCard
    <3>2. 0 <= r.sent BY <2>1 DEF CardRecord
    <3> QED BY <2>1, <2>3, <3>1, <3>2
  <2> QED BY <2>1, <2>2, <2>3 DEF Show
<1>2. card' \in [Waits -> CardRecord]
  <2>1. card' = [w \in Waits |-> card'[w]] BY DEF Show
  <2> QED BY <1>1, <2>1
<1> QED BY <1>1, <1>2 DEF CardInv

(* Only Submit sends, through a lock that was open, and for a request that *)
(* the registry holds.                                                     *)
LEMMA SubmitKeeps ==
  ASSUME CardInv, NEW w \in Waits, Submit(w)
  PROVE  /\ CardInv'
         /\ \A v \in Waits : card'[v].sent > card[v].sent =>
              v \in published /\ channel = "connected"
<1>1. PICK r \in CardRecord : r = card[w] /\ ~r.locked /\ r.sent = 0
  BY DEF CardInv, Submit, Fenced
<1>2. channel = "connected" => waits' = published BY DEF Submit, Current
<1>3. /\ DOMAIN card = Waits
      /\ \A v \in Waits : card[v] \in CardRecord
  BY DEF CardInv
<1>4. PICK d : /\ card' = [card EXCEPT ![w] = d]
               /\ d \in CardRecord /\ d.locked
               /\ d.sent = 0 \/ (d.sent = 1 /\ channel = "connected" /\ w \in published)
  <2>1. CASE channel = "connected" /\ w \in waits'
    <3>1. PICK d : d = [r EXCEPT !.locked = TRUE, !.attempt = "pending", !.sent = r.sent + 1]
      OBVIOUS
    <3>2. card' = [card EXCEPT ![w] = d]
      <4>1. card' = [card EXCEPT ![w] =
              [card[w] EXCEPT !.locked = TRUE, !.attempt = "pending", !.sent = @ + 1]]
        BY <2>1 DEF Submit
      <4> QED BY <1>1, <3>1, <4>1
    <3>3. d = [r EXCEPT !.locked = TRUE, !.attempt = "pending", !.sent = 1] BY <1>1, <3>1
    <3>4. d \in CardRecord /\ d.locked /\ d.sent = 1 BY <1>1, <3>3 DEF CardRecord
    <3> QED BY <1>2, <2>1, <3>2, <3>4
  <2>2. CASE ~(channel = "connected" /\ w \in waits')
    <3>1. PICK d : d = [r EXCEPT !.locked = TRUE, !.attempt = "settled", !.notice = "uncertain"]
      OBVIOUS
    <3>2. card' = [card EXCEPT ![w] = d] BY <1>1, <1>3, <2>2, <3>1 DEF Submit
    <3>3. d \in CardRecord /\ d.locked /\ d.sent = 0 BY <1>1, <3>1 DEF CardRecord
    <3> QED BY <3>2, <3>3
  <2> QED BY <2>1, <2>2
<1>5. \A v \in Waits : card[v].sent \in Nat BY DEF CardInv, CardRecord
<1>6. /\ card' \in [Waits -> CardRecord]
      /\ card'[w] = d /\ \A v \in Waits : v # w => card'[v] = card[v]
  BY <1>3, <1>4
<1> QED BY <1>4, <1>5, <1>6 DEF CardInv

(* Acknowledgements, timers and time change neither the lock nor the count *)
(* of what was sent.                                                       *)
LEMMA CardsAge ==
  ASSUME CardInv, card' \in [Waits -> CardRecord],
         \A w \in Waits : card'[w].locked = card[w].locked /\ card'[w].sent = card[w].sent
  PROVE  CardInv' /\ \A w \in Waits : card'[w].sent <= card[w].sent
<1>1. \A w \in Waits : card[w].sent \in Nat BY DEF CardInv, CardRecord
<1> QED BY <1>1 DEF CardInv

(* Every step keeps what is known of the cards, and sends only what the    *)
(* registry holds.                                                         *)
LEMMA CardStep ==
  ASSUME CardInv, [OverlayNext]_allVars
  PROVE  /\ CardInv'
         /\ \A w \in Waits : card'[w].sent > card[w].sent =>
              w \in published /\ channel = "connected"
<1>1. ASSUME card' \in [Waits -> CardRecord], \A w \in Waits : card'[w].sent <= card[w].sent
      PROVE  \A w \in Waits : ~(card'[w].sent > card[w].sent)
  <2>1. \A w \in Waits : card'[w].sent \in Nat /\ card[w].sent \in Nat
    BY <1>1 DEF CardInv, CardRecord
  <2> QED BY <1>1, <2>1
<1>2. ASSUME UNCHANGED card PROVE CardInv' /\ \A w \in Waits : card'[w].sent <= card[w].sent
  BY <1>2, CardsAge DEF CardInv
<1>3. CASE Published \/ Notified \/ Refreshed \/ ConnectionStep \/ UNCHANGED allVars
  <2>1. UNCHANGED card
    BY <1>3 DEF Published, Notified, Refreshed, ConnectionStep, overlayVars, allVars
  <2> QED BY <1>1, <1>2, <2>1 DEF CardInv
<1>4. CASE Render BY <1>1, <1>4, ShowKeeps DEF Render, CardInv
<1>5. CASE TimePasses
  <2>1. ASSUME NEW w \in Waits
        PROVE  /\ card'[w] \in CardRecord
               /\ card'[w].locked = card[w].locked /\ card'[w].sent = card[w].sent
    <3>1. PICK r \in CardRecord : r = card[w] BY DEF CardInv
    <3>2. card'[w] = [r EXCEPT !.age = r.age + 1] \/ card'[w] = r
      BY <1>5, <3>1 DEF TimePasses
    <3> QED BY <3>1, <3>2 DEF CardRecord
  <2>2. card' = [w \in Waits |-> card'[w]] BY <1>5 DEF TimePasses
  <2>3. card' \in [Waits -> CardRecord] BY <2>1, <2>2
  <2> QED BY <1>1, <2>1, <2>3, CardsAge
<1>6. CASE ScopeEnds \/ Resize
  <2>1. NoCard \in CardRecord /\ NoCard.sent = 0 BY DEF NoCard, CardRecord
  <2>2. card' = [w \in Waits |-> NoCard] BY <1>6 DEF ScopeEnds, Resize
  <2>3. \A w \in Waits : card'[w].sent <= card[w].sent
    BY <2>1, <2>2 DEF CardInv, CardRecord
  <2> QED BY <1>1, <2>1, <2>2, <2>3 DEF CardInv
<1>7. ASSUME NEW w \in Waits, Choose(w)
      PROVE  CardInv' /\ \A v \in Waits : ~(card'[v].sent > card[v].sent)
  BY <1>1, <1>7, ShowKeeps DEF Choose, CardInv
<1>8. ASSUME NEW w \in Waits, Settles(w)
      PROVE  CardInv' /\ \A v \in Waits : ~(card'[v].sent > card[v].sent)
  <2>1. PICK r \in CardRecord : r = card[w] BY DEF CardInv
  <2>2. PICK n \in {"confirming", "uncertain"} :
          card' = [card EXCEPT ![w] = [r EXCEPT !.attempt = "settled", !.notice = n]]
    <3>1. PICK k \in {"confirming", "uncertain"} :
            card' = [card EXCEPT ![w].attempt = "settled",
                                 ![w].notice = IF @ = "uncertain" THEN @ ELSE k]
      BY <1>8 DEF Settles
    <3>2. CASE r.notice = "uncertain"
      BY <2>1, <3>1, <3>2 DEF CardInv
    <3>3. CASE r.notice # "uncertain"
      BY <2>1, <3>1, <3>3 DEF CardInv
    <3> QED BY <3>2, <3>3
  <2>3. /\ card' \in [Waits -> CardRecord]
        /\ \A v \in Waits : card'[v].locked = card[v].locked /\ card'[v].sent = card[v].sent
    BY <2>1, <2>2 DEF CardInv, CardRecord
  <2> QED BY <1>1, <2>3, CardsAge
<1>9. ASSUME NEW w \in Waits, Uncertain(w)
      PROVE  CardInv' /\ \A v \in Waits : ~(card'[v].sent > card[v].sent)
  <2>1. PICK r \in CardRecord, n \in Nat : r = card[w] /\ n = Patience + 1
    BY OverlayAssumption DEF CardInv, OverlayAssumption
  <2>2. card' = [card EXCEPT ![w] = [r EXCEPT !.age = n, !.notice = "uncertain"]]
    BY <1>9, <2>1 DEF Uncertain, CardInv
  <2>3. /\ card' \in [Waits -> CardRecord]
        /\ \A v \in Waits : card'[v].locked = card[v].locked /\ card'[v].sent = card[v].sent
    BY <2>1, <2>2 DEF CardInv, CardRecord
  <2> QED BY <1>1, <2>3, CardsAge
<1>10. ASSUME NEW w \in Waits, Submit(w)
       PROVE  CardInv' /\ \A v \in Waits : card'[v].sent > card[v].sent =>
                            v \in published /\ channel = "connected"
  BY <1>10, SubmitKeeps
<1> QED
  BY <1>3, <1>4, <1>5, <1>6, <1>7, <1>8, <1>9, <1>10 DEF OverlayNext

(* What the cards' records and counts keep in every state: an operation    *)
(* that was sent is one that the lock knows of.                            *)
LEMMA CardsAlways == OverlaySpec => []CardInv
<1>1. OverlayInit => CardInv BY DEF OverlayInit, CardInv, CardRecord, NoCard
<1>2. CardInv /\ [OverlayNext]_allVars => CardInv' BY CardStep
<1> QED BY <1>1, <1>2, PTL DEF OverlaySpec

(* "One attempt per mounted pending card": however fast the clicks follow  *)
(* each other and whatever was rendered in between, at most one operation  *)
(* of a mounted card reaches the host (use-interaction-submission.ts).     *)
THEOREM OneAttemptHolds == OverlaySpec => []OneAttempt
<1>1. CardInv => OneAttempt BY DEF CardInv, OneAttempt
<1> QED BY <1>1, CardsAlways, PTL

(* "Fence stale device UI against the latest local registry; never         *)
(* replay": what reaches the host is for a request the registry holds at   *)
(* that moment, over a connection that is up (pending-source.ts).          *)
THEOREM AnswersArePendingHolds == OverlaySpec => AnswersArePending
<1>1. CardInv /\ [OverlayNext]_allVars =>
        [\A w \in Waits : card'[w].sent > card[w].sent =>
                            w \in published /\ channel = "connected"]_allVars
  BY CardStep
<1> QED BY <1>1, CardsAlways, PTL DEF OverlaySpec, AnswersArePending
=============================================================================
