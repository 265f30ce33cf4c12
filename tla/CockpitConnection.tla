------------------------- MODULE CockpitConnection -------------------------
(***************************************************************************)
(* The recovery refresh of the phone cockpit, src/client/                  *)
(* cockpit-connection.ts: one flight at a time, a time limit that ends the *)
(* busy display but not the flight, a budget for automatic refreshes with  *)
(* one trailing timer, and the edges (connected, visible) that ask for one.*)
(*                                                                         *)
(* Times are ages that stop counting at the limit they are compared with.  *)
(* The document changes its visibility in a task of its own, never between *)
(* a request and the microtask that carries it out.                        *)
(***************************************************************************)
EXTENDS Naturals

CONSTANTS
  Budget,  \* RECOVERY_REFRESH_INTERVAL_MS, in ticks
  Timeout  \* REFRESH_TIMEOUT_MS, in ticks

ASSUME CockpitAssumption == Budget \in Nat \ {0} /\ Timeout \in Nat \ {0}

VARIABLES
  channel,   \* snapshot.state, which follows the handle's
  page,      \* document.visibilityState
  flight,    \* "none", "starting" (its microtask is pending) or "calling"
  automatic, \* the flight's argument
  limit,     \* age of the flight's timer; Timeout + 1: it fired (timedOut)
  busy,      \* snapshot.refreshing
  failed,    \* snapshot.refreshFailed
  since,     \* age of lastRefreshAt
  timer,     \* recoveryTimer is armed
  disposed,
  calls,     \* callbacks refresh() that have not settled (observation only)
  owed       \* a recovery edge has not been followed by a refresh (observation only)

display == <<channel, busy, failed>>
vars == <<display, page, flight, automatic, limit, since, timer, disposed, calls, owed>>

Init ==
  /\ channel \in {"connected", "connecting", "disconnected"}
  /\ page \in {"visible", "hidden"}
  /\ flight = "none" /\ automatic = FALSE /\ limit = 0
  /\ busy = FALSE /\ failed = FALSE
  /\ since = Budget /\ timer = FALSE /\ disposed = FALSE
  /\ calls = 0 /\ owed = FALSE

TimedOut == limit = Timeout + 1

---------------------------------------------------------------------------
(* requestRefresh without a flight *)
Request(auto) ==
  /\ timer' = FALSE
  /\ flight' = "starting" /\ automatic' = auto /\ limit' = 0
  /\ since' = 0
  /\ busy' = TRUE /\ failed' = FALSE
  /\ owed' = FALSE

NoRequest == UNCHANGED <<flight, automatic, limit, since, busy, failed>>

(* requestRecoveryRefresh: now, or once the budget allows it *)
BudgetOpen == since >= Budget

(* Whether the trailing timer is armed for an edge that came too early; or *)
(* is forgotten.                                                           *)
Untimed == timer
Trailing == TRUE

Recover ==
  IF page' = "hidden" \/ flight # "none"
    THEN /\ NoRequest
         /\ timer' = timer
         /\ owed' = owed
  ELSE IF BudgetOpen THEN Request(TRUE)
  ELSE /\ NoRequest
       /\ timer' = Trailing
       /\ owed' = TRUE

---------------------------------------------------------------------------
(* The user's refresh shares a flight. *)
UserRefresh ==
  /\ ~disposed
  /\ IF flight = "none" THEN Request(FALSE) ELSE timer' = FALSE /\ NoRequest /\ UNCHANGED owed
  /\ UNCHANGED <<channel, page, disposed, calls>>

(* observeConnection *)
ChannelMoves ==
  /\ ~disposed
  /\ \E c \in {"connected", "connecting", "disconnected"} \ {channel} :
       /\ channel' = c
       /\ IF c = "connected" THEN UNCHANGED page /\ Recover
          ELSE UNCHANGED <<page, timer, owed>> /\ NoRequest
  /\ UNCHANGED <<disposed, calls>>

(* observeVisibility *)
Visible ==
  /\ ~disposed /\ flight # "starting"
  /\ page = "hidden" /\ page' = "visible"
  /\ Recover
  /\ UNCHANGED <<channel, disposed, calls>>

Hidden ==
  /\ ~disposed /\ flight # "starting"
  /\ page = "visible" /\ page' = "hidden"
  /\ timer' = FALSE
  /\ owed' = FALSE
  /\ NoRequest
  /\ UNCHANGED <<channel, disposed, calls>>

(* recoveryTimer fires when the budget is open again. *)
TimerFires ==
  /\ timer /\ since >= Budget
  /\ UNCHANGED page
  /\ IF flight = "none" THEN Request(TRUE) ELSE timer' = FALSE /\ NoRequest /\ UNCHANGED owed
  /\ UNCHANGED <<channel, disposed, calls>>

(* The microtask calls refresh(), unless the cockpit was disposed. *)
FlightStarts ==
  /\ flight = "starting"
  /\ flight' = "calling"
  /\ calls' = calls + 1
  /\ UNCHANGED <<display, page, automatic, limit, since, timer, disposed, owed>>

(* The time limit: only the display gives up, or the flight as well. *)
FlightReleased == "none"
FlightKept == flight

TimeLimit ==
  /\ flight # "none" /\ limit = Timeout
  /\ limit' = Timeout + 1
  /\ busy' = FALSE /\ failed' = TRUE
  /\ flight' = FlightKept
  /\ UNCHANGED <<channel, page, automatic, since, timer, disposed, calls, owed>>

(* refresh() settles; a late answer publishes nothing. *)
Settle ==
  /\ calls > 0
  /\ calls' = calls - 1
  /\ IF flight = "calling"
       THEN /\ flight' = "none" /\ automatic' = FALSE /\ limit' = 0
            /\ \/ TimedOut /\ UNCHANGED <<busy, failed>>
               \/ ~TimedOut /\ busy' = FALSE /\ failed' \in BOOLEAN
       ELSE UNCHANGED <<flight, automatic, limit, busy, failed>>
  /\ UNCHANGED <<channel, page, since, timer, disposed, owed>>

Dispose ==
  /\ ~disposed
  /\ disposed' = TRUE
  /\ timer' = FALSE /\ owed' = FALSE
  /\ flight' = "none" /\ automatic' = FALSE /\ limit' = 0
  /\ UNCHANGED <<display, page, since, calls>>

(* Time passes; a timer that is due fires first. *)
Tick ==
  /\ ~(timer /\ since >= Budget) /\ flight # "starting"
  /\ ~(flight # "none" /\ limit = Timeout)
  /\ since' = IF since < Budget THEN since + 1 ELSE since
  /\ limit' = IF flight # "none" /\ limit < Timeout THEN limit + 1 ELSE limit
  /\ UNCHANGED <<display, page, flight, automatic, timer, disposed, calls, owed>>

Next ==
  \/ UserRefresh \/ ChannelMoves \/ Visible \/ Hidden \/ TimerFires \/ FlightStarts
  \/ TimeLimit \/ Settle \/ Dispose \/ Tick

(* Timers fire and microtasks run; nothing says that refresh() settles. *)
Fairness == WF_vars(Tick) /\ WF_vars(TimerFires) /\ WF_vars(FlightStarts) /\ WF_vars(TimeLimit)

Spec == Init /\ [][Next]_vars /\ Fairness

---------------------------------------------------------------------------
(* Properties *)

(* "retains single-flight ownership until the original operation settles": *)
(* whatever the edges, the time limits and the user's own refreshes, one   *)
(* callback runs at a time.                                                *)
OneRefresh == calls <= 1

(* "one trailing merged refresh": an edge of a visible page that came too  *)
(* early for the budget is followed by a refresh, unless the page goes     *)
(* away first.                                                             *)
EdgeServed == owed ~> ~owed
=============================================================================
