----------------------------- MODULE MCBrowsers -----------------------------
(***************************************************************************)
(* One run for what browsers drive: the prices that tabs are fed with, the  *)
(* paper portfolio they poll, which is re-based for corporate actions as it *)
(* is read, the desk that trades for real, and being signed in.  They share *)
(* no state: `part` says which of them moves; the others rest in one        *)
(* initial state.                                                           *)
(***************************************************************************)
EXTENDS WalkForward

CONSTANTS t1, t2, s1, k1, k2, k3, bonus1, bonus2, None

MCTotals == 0..60
MCNeed == [g \in 1..2 |-> IF g = 1 THEN 2 ELSE 7]

\* A 1:1 bonus on day 1, then one of 1:2 on day 2.
MCEx(a) == IF a = bonus1 THEN 1 ELSE 2
MCNum(a) == IF a = bonus1 THEN 1 ELSE 2
MCDen(a) == IF a = bonus1 THEN 2 ELSE 3

VARIABLES
  part,
  views, current, timer, loose, status, sock, subs, polls, counts, mishaps,
  day, rows, table, cache, flags, reader, fails, disturbed,
  stored, valid, given, tab, calls, visits,
  session, page, mode, linked, armed, dialog, placing, inflight, asks, reloads

Feed == INSTANCE ClientFeed WITH
  Tabs <- {t1, t2}, Symbols <- {s1}, Sockets <- {k1, k2, k3}, MaxViews <- 2, MaxQueue <- 1,
  MaxMishaps <- 2
Rebase == INSTANCE CorpActions WITH
  Actions <- {bonus1, bonus2}, Readers <- {t1, t2}, Ex <- MCEx, Num <- MCNum, Den <- MCDen,
  Qtys <- {2}, MaxRows <- 2, MaxDay <- 1, MaxFails <- 0
Sign == INSTANCE SignIn WITH Tabs <- {t1, t2}, MaxTokens <- 2, MaxReloads <- 1, reloads <- visits
Desk == INSTANCE TradeDesk WITH MaxReloads <- 1

ASSUME BrowsersAssumption == Feed!FeedAssumption

feedVars == <<views, current, timer, loose, status, sock, subs, polls, counts, mishaps>>
rebaseVars == <<day, rows, table, cache, flags, reader, fails, disturbed>>
signVars == <<stored, valid, given, tab, calls, visits>>
deskVars == <<session, page, mode, linked, armed, dialog, placing, inflight, asks, reloads>>
all == <<part, vars, feedVars, rebaseVars, signVars, deskVars>>

AllInit ==
  /\ part \in {"feed", "actions", "sign", "desk", "windows"}
  /\ Init /\ (part = "windows" \/ (total = 0 /\ tenths = 7 /\ wanted = 1))
  /\ Feed!Init /\ (current[t1] = k1 /\ current[t2] = k2)
  /\ Rebase!Init /\ Sign!Init
  /\ session \in IF part = "desk" THEN BOOLEAN ELSE {FALSE}
  /\ Desk!Init

\* Bound: readings overlap only while the second action is not known.
OneOrTheOther == reader'[t2].at = "idle" \/ bonus2 \notin table'

AllNext ==
  /\ UNCHANGED part
  /\ \/ part = "feed" /\ Feed!Next /\ UNCHANGED <<vars, rebaseVars, signVars, deskVars>>
     \/ part = "actions" /\ Rebase!Next /\ OneOrTheOther
        /\ UNCHANGED <<vars, feedVars, signVars, deskVars>>
     \/ part = "sign" /\ Sign!Next /\ UNCHANGED <<vars, feedVars, rebaseVars, deskVars>>
     \/ part = "desk" /\ Desk!Next /\ UNCHANGED <<vars, feedVars, rebaseVars, signVars>>
     \/ part = "windows" /\ Next /\ UNCHANGED <<feedVars, rebaseVars, signVars, deskVars>>

\* The fairness of each part's own FairSpec, for the part that moves.  Since only one part
\* moves, a fair action of one can share its formula with one of another.
FeedDoes(A) == part = "feed" /\ A /\ UNCHANGED <<part, vars, rebaseVars, signVars, deskVars>>
RebaseDoes(A) ==
  part = "actions" /\ A /\ OneOrTheOther /\ UNCHANGED <<part, vars, feedVars, signVars, deskVars>>
SignDoes(A) == part = "sign" /\ A /\ UNCHANGED <<part, vars, feedVars, rebaseVars, deskVars>>
DeskDoes(A) == part = "desk" /\ A /\ UNCHANGED <<part, vars, feedVars, rebaseVars, signVars>>

Fairness ==
  /\ \A t \in {t1, t2} :
       /\ WF_all(FeedDoes(Feed!TimerFires(t)) \/ SignDoes(Sign!Call(t))
                \/ RebaseDoes(Rebase!Begin(t)))
       /\ WF_all(FeedDoes(Feed!LooseFires(t)) \/ SignDoes(Sign!Unauthorized(t))
                \/ RebaseDoes(Rebase!Step(t)))
  /\ WF_all(FeedDoes(Feed!Opens(k1)) \/ SignDoes(Sign!Enter(t1)) \/ DeskDoes(Desk!Poll))
  /\ WF_all(FeedDoes(Feed!Opens(k2)) \/ SignDoes(Sign!Enter(t2)) \/ DeskDoes(Desk!Synced))
  /\ WF_all(FeedDoes(Feed!Opens(k3)) \/ DeskDoes(Desk!Answer("sync") \/ Desk!Fails("sync"))
            \/ RebaseDoes(Rebase!Expire))
  /\ WF_all(FeedDoes(Feed!Receives(k1)) \/ DeskDoes(Desk!Reported("poll")))
  /\ SF_deskVars(part = "desk" /\ Desk!Answer("poll"))
  /\ \A k \in {k2, k3} : WF_feedVars(part = "feed" /\ Feed!Receives(k))
  /\ \A k \in {k1, k2, k3} :
       /\ WF_feedVars(part = "feed" /\ Feed!ServerNotices(k)) /\ WF_feedVars(part = "feed" /\ Feed!Recycle(k))
       /\ WF_feedVars(part = "feed" /\ sock[k].server = "gone" /\ Feed!ClientNotices(k))

AllSpec == AllInit /\ [][AllNext]_all /\ Fairness

\* ClientFeed: subscriptions are counted and polled for, and a view is served.
SubscriptionsServed ==
  /\ [](Feed!TypeOK /\ Feed!CountsCover /\ Feed!PollsMatch)
  /\ part = "feed" => Feed!ViewsServed


\* SignIn: the browser keeps the newest token or none, and no tab shows for ever an
\* application whose token is gone.
SignInRight ==
  /\ [](part = "sign" => Sign!TypeOK /\ Sign!NewestIsStored)
  /\ part = "sign" => Sign!NoGhostSession

\* TradeDesk: one order under way at a time, LIVE is left for a reason, and ends when the
\* broker stays away.
DeskRight ==
  /\ [](part = "desk" => Desk!TypeOK /\ Desk!OneOrderAtATime)
  /\ Desk!LeavesLiveForAReason /\ Desk!LeavingDisarms
  /\ part = "desk" => Desk!DropEndsLive
=============================================================================
