------------------------------ MODULE ClientFeed ------------------------------
(***************************************************************************)
(* Live prices between browser and backend.  A tab (WSContext) counts the   *)
(* components that watch a symbol, keeps one socket and reconnects it; the  *)
(* server (liveDataFeed) keeps the sockets watching each symbol and a poll  *)
(* timer per symbol, and tells the REST poller (upstoxRestFeed), which      *)
(* counts subscribers again and forgets the price of a symbol without one.  *)
(*                                                                          *)
(* Messages of one socket arrive in order; what is under way when it breaks *)
(* is lost.  The two ends of a broken socket notice at different times.     *)
(***************************************************************************)
EXTENDS FiniteSets, Integers, Sequences

CONSTANTS
  Tabs,
  Symbols,
  Sockets,      \* sockets that may exist at the same time
  MaxViews,     \* bound: components of one tab watching one symbol
  MaxQueue,     \* bound: messages under way on a socket when a component sends one
  MaxMishaps,   \* bound: breaks, restarts and clicks on "reconnect"
  None

FeedAssumption ==
  /\ MaxViews \in Nat \ {0} /\ MaxQueue \in Nat \ {0} /\ MaxMishaps \in Nat
  /\ IsFiniteSet(Sockets) /\ None \notin Sockets

VARIABLES
  views,     \* subsRef: components watching each symbol
  current,   \* wsRef
  timer,     \* timerRef: a reconnect is due
  loose,     \* reconnects due that timerRef does not name
  status,    \* what the tab shows
  sock,      \* the sockets: their two ends and the messages between them
  subs,      \* subscriptions: sockets watching each symbol
  polls,     \* pollIntervals: symbols with a timer
  counts,    \* _subs of the REST poller
  mishaps    \* breaks, restarts and clicks so far

vars == <<views, current, timer, loose, status, sock, subs, polls, counts, mishaps>>
tab == <<views, current, timer, loose, status>>
server == <<subs, polls, counts>>

Free == [tab |-> None, client |-> "none", server |-> "none", handled |-> FALSE, queue |-> <<>>]
Unused == {k \in Sockets : sock[k] = Free}
Open(k) == sock[k].client = "open" /\ sock[k].server = "open"

Messages == [kind : {"SUBSCRIBE", "UNSUBSCRIBE"}, symbols : SUBSET Symbols]

TypeOK ==
  /\ views \in [Tabs -> [Symbols -> 0..MaxViews]]
  /\ current \in [Tabs -> Sockets \cup {None}]
  /\ timer \in [Tabs -> BOOLEAN] /\ loose \in [Tabs -> 0..2 * MaxMishaps]
  /\ status \in [Tabs -> {"connecting", "connected", "disconnected"}]
  /\ \A k \in Sockets :
       /\ sock[k].tab \in Tabs \cup {None} /\ sock[k].handled \in BOOLEAN
       /\ sock[k].client \in {"none", "connecting", "open", "gone"}
       /\ sock[k].server \in {"none", "open", "gone"}
       /\ sock[k].queue \in Seq(Messages)
  /\ subs \in [Symbols -> SUBSET Sockets] /\ polls \subseteq Symbols
  /\ counts \in [Symbols -> Nat] /\ mishaps \in 0..MaxMishaps

Connecting(t) ==
  [Free EXCEPT !.tab = t, !.client = "connecting", !.handled = TRUE]

\* Every tab has just been opened and connects.
Init ==
  /\ views = [t \in Tabs |-> [s \in Symbols |-> 0]]
  /\ current \in [Tabs -> Sockets] /\ \A t, u \in Tabs : current[t] = current[u] => t = u
  /\ timer = [t \in Tabs |-> FALSE] /\ loose = [t \in Tabs |-> 0]
  /\ status = [t \in Tabs |-> "connecting"]
  /\ sock = [k \in Sockets |-> IF \E t \in Tabs : current[t] = k
                                THEN Connecting(CHOOSE t \in Tabs : current[t] = k) ELSE Free]
  /\ subs = [s \in Symbols |-> {}] /\ polls = {} /\ counts = [s \in Symbols |-> 0]
  /\ mishaps = 0

------------------------------------------------------------------------------
(* The tab: components *)

\* sendJSON: only the current socket is used, and only when it is open.
Send(t, kind, s) ==
  LET k == current[t]
  IN sock' = IF k /= None /\ sock[k].client = "open"
               THEN [sock EXCEPT ![k].queue =
                       Append(@, [kind |-> kind, symbols |-> {s}])]
               ELSE sock

RoomToSend(t) == current[t] /= None => Len(sock[current[t]].queue) < MaxQueue

\* A component begins to watch s; only the first one tells the server.
Watch(t, s) ==
  /\ views[t][s] < MaxViews /\ RoomToSend(t)
  /\ views' = [views EXCEPT ![t][s] = @ + 1]
  /\ IF views[t][s] = 0 THEN Send(t, "SUBSCRIBE", s) ELSE UNCHANGED sock
  /\ UNCHANGED <<current, timer, loose, status, server, mishaps>>

\* Only the last component that leaves tells the server.
Unwatch(t, s) ==
  /\ views[t][s] > 0 /\ RoomToSend(t)
  /\ views' = [views EXCEPT ![t][s] = @ - 1]
  /\ IF views[t][s] = 1 THEN Send(t, "UNSUBSCRIBE", s) ELSE UNCHANGED sock
  /\ UNCHANGED <<current, timer, loose, status, server, mishaps>>

------------------------------------------------------------------------------
(* The tab: its socket *)

\* connect(): nothing happens while the current socket is open; one that is
\* still connecting is replaced and stays.
Connect(t) ==
  IF current[t] /= None /\ sock[current[t]].client = "open"
    THEN UNCHANGED <<current, status, sock>>
    ELSE \E k \in Unused :
           /\ current' = [current EXCEPT ![t] = k]
           /\ status' = [status EXCEPT ![t] = "connecting"]
           /\ sock' = [sock EXCEPT ![k] = Connecting(t)]

TimerFires(t) ==
  /\ timer[t]
  /\ timer' = [timer EXCEPT ![t] = FALSE]
  /\ Connect(t)
  /\ UNCHANGED <<views, loose, server, mishaps>>

LooseFires(t) ==
  /\ loose[t] > 0
  /\ loose' = [loose EXCEPT ![t] = @ - 1]
  /\ Connect(t)
  /\ UNCHANGED <<views, timer, server, mishaps>>

Watched(t) == {s \in Symbols : views[t][s] > 0}

Resubscribe(t) ==
  IF Watched(t) = {} THEN <<>> ELSE <<[kind |-> "SUBSCRIBE", symbols |-> Watched(t)]>>

\* The handshake is done: onopen, and 'connection' at the server.
Opens(k) ==
  /\ sock[k].client = "connecting"
  /\ LET t == sock[k].tab
     IN /\ status' = [status EXCEPT ![t] = "connected"]
        /\ timer' = [timer EXCEPT ![t] = FALSE]
        /\ sock' = [sock EXCEPT ![k].client = "open", ![k].server = "open",
                                ![k].queue = Resubscribe(t)]
  /\ UNCHANGED <<views, current, loose, server, mishaps>>

\* The tab notices that a socket is closed, or its handshake fails: onclose
\* sets timerRef, and a timeout it named before stays due.
OnClose(t) ==
  /\ status' = [status EXCEPT ![t] = "disconnected"]
  /\ timer' = [timer EXCEPT ![t] = TRUE]
  /\ loose' = [loose EXCEPT ![t] = IF timer[t] THEN @ + 1 ELSE @]

Closed(k) ==
  [sock EXCEPT ![k].client = "gone", ![k].queue = <<>>,
               ![k].server = IF @ = "none" THEN "gone" ELSE @]

ClientNotices(k) ==
  /\ sock[k].client \in {"connecting", "open"}
  /\ \/ sock[k].server = "gone" /\ UNCHANGED mishaps
     \/ sock[k].server /= "gone" /\ mishaps < MaxMishaps /\ mishaps' = mishaps + 1
  /\ sock' = Closed(k)
  /\ IF sock[k].handled THEN OnClose(sock[k].tab) ELSE UNCHANGED <<status, timer, loose>>
  /\ UNCHANGED <<views, current, server>>

\* reconnect(), offered while the status is not "connected".
Reconnect(t) ==
  /\ status[t] /= "connected" /\ mishaps < MaxMishaps
  /\ mishaps' = mishaps + 1
  /\ sock' = IF current[t] = None THEN sock
             ELSE [Closed(current[t]) EXCEPT ![current[t]].handled = FALSE]
  /\ loose' = [loose EXCEPT ![t] = @ + 1]
  /\ UNCHANGED <<views, current, timer, status, server>>

------------------------------------------------------------------------------
(* The server *)

\* stopPolling for the symbols nobody watches any more.
Polling(newSubs) == {s \in Symbols : newSubs[s] /= {}}

CountDown(n) == IF n <= 1 THEN 0 ELSE n - 1

Subscribe(k, S) ==
  /\ subs' = [s \in Symbols |-> IF s \in S THEN subs[s] \cup {k} ELSE subs[s]]
  /\ counts' = [s \in Symbols |-> IF s \in S THEN counts[s] + 1 ELSE counts[s]]

Unsubscribe(k, S) ==
  /\ subs' = [s \in Symbols |-> IF s \in S THEN subs[s] \ {k} ELSE subs[s]]
  /\ counts' = [s \in Symbols |-> IF s \in S THEN CountDown(counts[s]) ELSE counts[s]]

\* handleMessage
Receives(k) ==
  /\ Open(k) /\ sock[k].queue /= <<>>
  /\ LET m == Head(sock[k].queue)
     IN IF m.kind = "SUBSCRIBE" THEN Subscribe(k, m.symbols) ELSE Unsubscribe(k, m.symbols)
  /\ polls' = Polling(subs')
  /\ sock' = [sock EXCEPT ![k].queue = Tail(@)]
  /\ UNCHANGED <<tab, mishaps>>

\* Mutant: every symbol is given back, watched or not.
ForgetAndGiveBack(k) ==
  /\ subs' = [s \in Symbols |-> subs[s] \ {k}]
  /\ polls' = Polling(subs')
  /\ counts' = [s \in Symbols |-> CountDown(counts[s])]

\* The handler of 'close' takes the socket out of every subscription and stops
\* the polls that leaves without one; it does not tell the REST poller.
Forget(k) ==
  /\ subs' = [s \in Symbols |-> subs[s] \ {k}]
  /\ polls' = Polling(subs')
  /\ UNCHANGED counts

ServerNotices(k) ==
  /\ sock[k].client = "gone" /\ sock[k].server = "open"
  /\ Forget(k)
  /\ sock' = [sock EXCEPT ![k].server = "gone"]
  /\ UNCHANGED <<tab, mishaps>>

Restart ==
  /\ mishaps < MaxMishaps /\ mishaps' = mishaps + 1
  /\ sock' = [k \in Sockets |->
                [sock[k] EXCEPT !.server = IF @ = "open" THEN "gone" ELSE @, !.queue = <<>>]]
  /\ subs' = [s \in Symbols |-> {}] /\ polls' = {} /\ counts' = [s \in Symbols |-> 0]
  /\ UNCHANGED tab

\* A socket both ends have given up, and no reference names, can be reused.
Recycle(k) ==
  /\ sock[k].client = "gone" /\ sock[k].server = "gone"
  /\ sock' = [sock EXCEPT ![k] = Free]
  /\ current' = [t \in Tabs |-> IF current[t] = k THEN None ELSE current[t]]
  /\ UNCHANGED <<views, timer, loose, status, server, mishaps>>

------------------------------------------------------------------------------
TabStep(t) ==
  \/ \E s \in Symbols : Watch(t, s) \/ Unwatch(t, s)
  \/ TimerFires(t) \/ LooseFires(t) \/ Reconnect(t)

SocketStep(k) == Opens(k) \/ ClientNotices(k) \/ Receives(k) \/ ServerNotices(k) \/ Recycle(k)

Next == (\E t \in Tabs : TabStep(t)) \/ (\E k \in Sockets : SocketStep(k)) \/ Restart

Spec == Init /\ [][Next]_vars

\* Timeouts fire, handshakes and messages get through unless the socket breaks,
\* and each end notices in the end that the other is gone.
FairSpec ==
  /\ Spec
  /\ \A t \in Tabs : WF_vars(TimerFires(t)) /\ WF_vars(LooseFires(t))
  /\ \A k \in Sockets :
       /\ WF_vars(Opens(k)) /\ WF_vars(Receives(k)) /\ WF_vars(ServerNotices(k))
       /\ WF_vars(Recycle(k)) /\ WF_vars(sock[k].server = "gone" /\ ClientNotices(k))

------------------------------------------------------------------------------
\* The REST poller counts a symbol at least as often as sockets watch it, so it
\* never stops asking for, or forgets the price of, a symbol somebody watches,
\* although a reconnected socket subscribes again and a closed one is never
\* given back (liveDataFeed.js's subscribe, unsubscribe and 'close' handler).
CountsCover == \A s \in Symbols : Cardinality(subs[s]) <= counts[s]

\* A poll timer runs for exactly the symbols that a socket alive at the server
\* watches: none is left behind by a tab that has gone, whichever way it went.
PollsMatch == polls = {s \in Symbols : \E k \in subs[s] : sock[k].server = "open"}

\* The tab's own socket is closed and nothing will open another, while one it
\* has lost sight of is open: two connects overlapped, the later one failed,
\* and the earlier one cancelled the timeout that failure had set.
Stranded(t) ==
  /\ (IF current[t] = None THEN TRUE ELSE sock[current[t]].client = "gone")
  /\ ~timer[t] /\ loose[t] = 0
  /\ \E k \in Sockets : sock[k].tab = t /\ sock[k].client = "open"

Served(t, s) == \E k \in subs[s] : sock[k].tab = t /\ Open(k)

\* A component that stays on the screen gets its prices again after any number
\* of breaks, restarts and reconnects (WSContext's onopen: "Critical after a
\* reconnect"), unless its tab is stranded.
ViewsServed ==
  \A t \in Tabs, s \in Symbols :
    (<>[](views[t][s] > 0 /\ ~Stranded(t))) => <>[]Served(t, s)
=============================================================================
