----------------------------- MODULE TradeDesk ------------------------------
(***************************************************************************)
(* One browser tab that trades with real money: the mode and the broker     *)
(* connection it believes in (TradingModeContext), the interlock that arms  *)
(* real orders for a session of the browser, and the order ticket of the    *)
(* Trade page.  What the tab knows of the broker comes from requests whose  *)
(* answers are old when they arrive.  Dialogs cover the page, so one is     *)
(* open at a time.  The mode saved by setMode is lower-case, which sync()   *)
(* never adopts: it is left out.                                            *)
(***************************************************************************)
EXTENDS Naturals

CONSTANT MaxReloads

VARIABLES
  session,    \* whether the backend has a broker session
  page,       \* "trade" or "other", a page with the broker banner
  mode, linked, armed,   \* the shared context; armed outlives a reload
  dialog,     \* the one that is open: for LIVE, for arming, for an order
  placing,    \* liveLoading of the Trade page
  inflight,   \* order requests that the open page waits for
  asks,       \* status requests under way and what the server has said
  reloads
vars == <<session, page, mode, linked, armed, dialog, placing, inflight, asks, reloads>>
context == <<mode, linked, armed>>
ticket == <<dialog, placing, inflight>>

Asks == {"sync", "poll", "drop"}

TypeOK ==
  /\ {session, linked, armed, placing} \subseteq BOOLEAN
  /\ page \in {"trade", "other"} /\ mode \in {"PAPER", "LIVE"}
  /\ dialog \in {"none", "live", "arm", "order"}
  /\ inflight \in 0..2 /\ reloads \in 0..MaxReloads
  /\ asks \in [Asks -> {"idle", "clearing", "sent", "up", "down", "unknown"}]

Fresh == [k \in Asks |-> IF k = "sync" THEN "sent" ELSE "idle"]

Init ==
  /\ session \in BOOLEAN /\ page = "trade"
  /\ mode = "PAPER" /\ linked = FALSE /\ armed = FALSE
  /\ dialog = "none" /\ placing = FALSE /\ inflight = 0
  /\ asks = Fresh /\ reloads = 0

-----------------------------------------------------------------------------
(* What the tab learns of the broker.                                      *)

\* Links from anywhere, logouts elsewhere, the expiry of the token.
SessionChanges == session' = ~session /\ UNCHANGED <<page, context, ticket, asks, reloads>>

\* The card's interval and its refresh button.
Poll ==
  /\ page = "trade" /\ asks["poll"] = "idle"
  /\ asks' = [asks EXCEPT !["poll"] = "sent"]
  /\ UNCHANGED <<session, page, context, ticket, reloads>>

\* The Disconnect buttons of the card and of the banner.
Disconnect ==
  /\ dialog = "none" /\ asks["drop"] = "idle" /\ (page = "other" => linked)
  /\ asks' = [asks EXCEPT !["drop"] = "clearing"]
  /\ UNCHANGED <<session, page, context, ticket, reloads>>

\* The logout; the card asks for the status next, the banner takes it as said.
Cleared ==
  /\ asks["drop"] = "clearing" /\ session' = FALSE
  /\ asks' = [asks EXCEPT !["drop"] = IF page = "trade" THEN "sent" ELSE "down"]
  /\ UNCHANGED <<page, context, ticket, reloads>>

Answer(k) ==
  /\ asks[k] = "sent"
  /\ asks' = [asks EXCEPT ![k] = IF session THEN "up" ELSE "down"]
  /\ UNCHANGED <<session, page, context, ticket, reloads>>

\* A cold start, a refusal of the rate limit, a broken connection.
Fails(k) ==
  /\ asks[k] \in {"sent", "clearing"}
  /\ asks' = [asks EXCEPT ![k] = IF asks[k] = "sent" THEN "unknown" ELSE "idle"]
  /\ UNCHANGED <<session, page, context, ticket, reloads>>

Synced ==
  /\ asks["sync"] \in {"up", "down", "unknown"}
  /\ linked' = IF asks["sync"] = "unknown" THEN linked ELSE asks["sync"] = "up"
  /\ asks' = [asks EXCEPT !["sync"] = "idle"]
  /\ UNCHANGED <<session, page, mode, armed, ticket, reloads>>

ReportBroker(said) ==
  IF said = "unknown" THEN UNCHANGED context
  ELSE /\ linked' = (said = "up")
       /\ IF said = "up" THEN UNCHANGED <<mode, armed>> ELSE mode' = "PAPER" /\ armed' = FALSE

\* The card and the banner report; the banner also asks again (refresh).
Reported(k) ==
  /\ k # "sync" /\ asks[k] \in {"up", "down", "unknown"}
  /\ ReportBroker(asks[k])
  /\ asks' = [asks EXCEPT ![k] = "idle",
       !["sync"] = IF page = "other" /\ @ = "idle" THEN "sent" ELSE @]
  /\ UNCHANGED <<session, page, ticket, reloads>>

-----------------------------------------------------------------------------
(* What the user does.                                                     *)

CanGoLive == mode = "PAPER" /\ linked
CanArm == page = "trade" /\ mode = "LIVE" /\ ~armed /\ linked
\* A complete order of the panel, which takes the page of an armed LIVE tab.
CanReview == page = "trade" /\ mode = "LIVE" /\ armed /\ linked

Show(d) ==
  /\ dialog = "none"
  /\ (d = "live" /\ CanGoLive) \/ (d = "arm" /\ CanArm) \/ (d = "order" /\ CanReview)
  /\ dialog' = d
  /\ UNCHANGED <<session, page, context, placing, inflight, asks, reloads>>

\* Mutant: closing the ticket also forgets the request that is under way.
CloseAndForget ==
  /\ dialog # "none" /\ dialog' = "none" /\ placing' = FALSE
  /\ UNCHANGED <<session, page, context, inflight, asks, reloads>>

\* The cross of the ticket works while its request is under way.
Close ==
  /\ dialog # "none" /\ dialog' = "none"
  /\ UNCHANGED <<session, page, context, placing, inflight, asks, reloads>>

GoLive ==
  /\ dialog = "live" /\ dialog' = "none"
  /\ mode' = IF linked THEN "LIVE" ELSE mode
  /\ UNCHANGED <<session, page, linked, armed, placing, inflight, asks, reloads>>

Arm ==
  /\ dialog = "arm" /\ dialog' = "none" /\ armed' = TRUE
  /\ UNCHANGED <<session, page, mode, linked, placing, inflight, asks, reloads>>

GoPaper ==
  /\ dialog = "none" /\ mode = "LIVE" /\ mode' = "PAPER" /\ armed' = FALSE
  /\ UNCHANGED <<session, page, linked, ticket, asks, reloads>>

Confirm ==
  /\ dialog = "order" /\ ~placing /\ inflight < 2
  /\ placing' = TRUE /\ inflight' = inflight + 1
  /\ UNCHANGED <<session, page, context, dialog, asks, reloads>>

\* An order that was placed closes whatever ticket is open; a refusal leaves it.
OrderAnswered ==
  /\ inflight > 0 /\ inflight' = inflight - 1 /\ placing' = FALSE
  /\ dialog' \in IF dialog = "order" THEN {"none", "order"} ELSE {dialog}
  /\ UNCHANGED <<session, page, context, asks, reloads>>

\* The page that is left takes its dialogs and its tickets with it.
Turn ==
  /\ page' = IF page = "trade" THEN "other" ELSE "trade"
  /\ dialog' = "none" /\ placing' = FALSE /\ inflight' = 0
  /\ UNCHANGED <<session, context, asks, reloads>>

Reload ==
  /\ reloads < MaxReloads /\ reloads' = reloads + 1
  /\ mode' = "PAPER" /\ linked' = FALSE
  /\ dialog' = "none" /\ placing' = FALSE /\ inflight' = 0 /\ asks' = Fresh
  /\ UNCHANGED <<session, page, armed>>

Next ==
  \/ SessionChanges \/ Poll \/ Disconnect \/ Cleared \/ Synced
  \/ \E k \in Asks : Answer(k) \/ Fails(k) \/ Reported(k)
  \/ \E d \in {"live", "arm", "order"} : Show(d)
  \/ Close \/ GoLive \/ Arm \/ GoPaper \/ Confirm \/ OrderAnswered \/ Turn \/ Reload

Spec == Init /\ [][Next]_vars

-----------------------------------------------------------------------------
(* Properties.                                                             *)

\* However tickets are closed and opened again, a page waits for one order request at
\* most: the button that sends an order stays disabled until the last one is answered.
OneOrderAtATime == inflight <= 1

\* The tab leaves LIVE only when the user says so, reloads, or the server has said that
\* the broker is not connected - never because a status request failed.
LeavesLiveForAReason ==
  [][mode = "LIVE" /\ mode' = "PAPER" =>
       GoPaper \/ Reload \/ \E k \in {"poll", "drop"} : asks[k] = "down" /\ Reported(k)]_vars

\* Whoever leaves LIVE has to arm again, unless it was by a reload.
LeavingDisarms == [][mode = "LIVE" /\ mode' = "PAPER" => ~armed' \/ Reload]_vars

\* When the broker stays away and the Trade page stays open, the tab ends in PAPER,
\* disarmed and aware of it, whatever late answers and open dialogs it still had.
DropEndsLive ==
  <>[](~session /\ page = "trade") => <>[](mode = "PAPER" /\ ~linked /\ ~armed)
=============================================================================
