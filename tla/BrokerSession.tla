---------------------------- MODULE BrokerSession ----------------------------
(***************************************************************************)
(* The one Upstox session of the backend: the token in memory with its      *)
(* expiry and its owner (upstoxAuth), the three rows of system_flags that   *)
(* bring it back after a restart, the requests that link, paste, check and  *)
(* drop it, and the REST price poller that runs on it (upstoxRestFeed).     *)
(*                                                                          *)
(* Every value of a session comes from the link that set it, so a token, an *)
(* expiry and an owner are each the number of a link.  The upserts and the  *)
(* DELETE of the rows are started and not awaited: they travel on different *)
(* connections of the pool and land in any order.                           *)
(***************************************************************************)
EXTENDS FiniteSets, Integers

CONSTANTS
  Callers,     \* callback and broker-status requests in flight at the same time
  Users,
  LastLink,    \* bound: tokens Upstox issues
  MaxDeletes,  \* bound: DELETEs on their way when a request that may start one begins
  MayMeet,     \* a write of the rows may begin while others are on their way
  MayFail,     \* queries and calls to Upstox may fail, the process may restart
  Nobody       \* the user of a link that has not happened

ASSUME SessionAssumption ==
  /\ LastLink \in Nat /\ MaxDeletes \in Nat /\ MayMeet \in BOOLEAN /\ MayFail \in BOOLEAN
  /\ Users /= {} /\ Nobody \notin Users

VARIABLES
  session,    \* _token: the links whose token, expiry and owner it holds
  rows,       \* the rows upstox.token_enc, token_expires and token_owner
  puts,       \* upserts on their way, as <<row, link>>
  deletes,    \* DELETEs of the three rows on their way
  feed,       \* the poller: its timer, and the token of the request in flight
  call,       \* the running requests
  linker,     \* who obtained the token of each link
  dead,       \* tokens Upstox no longer accepts
  lapsed,     \* links whose expiry has passed; 0 is the end of the day
  disturbed   \* history: a write failed, met another one or did not outlive a restart

vars == <<session, rows, puts, deletes, feed, call, linker, dead, lapsed, disturbed>>

stored == <<rows, puts, deletes, disturbed>>
upstox == <<linker, dead, lapsed>>

Flags == {"token", "expires", "owner"}
None  == 0
Links == 1..LastLink
Issued == {n \in Links : linker[n] /= Nobody}

NoSession  == [f \in Flags |-> None]
Session(n) == [f \in Flags |-> n]
Dropped(s) == [s EXCEPT !["token"] = None]

Stopped == [timer |-> FALSE, poll |-> None]
Idle == [pc |-> "idle", user |-> Nobody, token |-> None]

Become(x, c) == call' = [call EXCEPT ![x] = c]
Return(x) == Become(x, Idle)

------------------------------------------------------------------------------
(* upstoxAuth *)

\* isAuthenticated(); getAccessToken() forgets a token whose expiry has passed.
Authenticated(s) == s["token"] /= None /\ s["expires"] \notin lapsed
Checked == IF Authenticated(session) THEN session ELSE Dropped(session)

\* isOwnedBy() does not look at the expiry.
OwnedBy(s, u) == s["token"] /= None /\ s["owner"] /= None /\ linker[s["owner"]] = u

\* A write begins: what it may meet on its way.
Quiet == puts = {} /\ deletes = 0

\* Mutant: the owner is kept in memory only.
UpsertsWithoutOwner(n) == {"token", "expires"} \X {n}

\* _persist(): one upsert per row.
Upserts(n) == Flags \X {n}

\* Mutant: a session that has an owner keeps it.
LinkedSameOwner(n) ==
  [Session(n) EXCEPT !["owner"] = IF session["owner"] = None THEN n ELSE session["owner"]]

\* What setAccessToken() puts into _token.
Linked(n) == Session(n)

\* setAccessToken()
SetAccessToken(n, u) ==
  /\ MayMeet \/ Quiet
  /\ session' = Linked(n)
  /\ linker' = [linker EXCEPT ![n] = u]
  /\ puts' = puts \cup Upserts(n)
  /\ disturbed' = (disturbed \/ ~Quiet)
  /\ UNCHANGED <<rows, deletes, dead, lapsed>>

\* Mutant: the literal of clearToken() has no owner.
ClearedWithoutOwner == [f \in Flags \ {"owner"} |-> None]

\* What clearToken() leaves in _token.
Cleared == NoSession

\* clearToken()
ClearToken ==
  /\ MayMeet \/ Quiet
  /\ session' = Cleared
  /\ deletes' = deletes + 1
  /\ disturbed' = (disturbed \/ ~Quiet)
  /\ UNCHANGED <<rows, puts, upstox>>

\* A request that reads the token and changes nothing else of the session.
ReadToken == session' = Checked /\ UNCHANGED <<stored, upstox>>

\* Links are numbered in the order in which Upstox answers.
NextLink(n) == n \in Links \ Issued /\ \A m \in Links \ Issued : n <= m

------------------------------------------------------------------------------
(* The rows of system_flags *)

PutLands ==
  \E p \in puts :
    /\ rows' = [rows EXCEPT ![p[1]] = p[2]]
    /\ puts' = puts \ {p}
    /\ UNCHANGED <<session, deletes, feed, call, upstox, disturbed>>

DeleteLands ==
  /\ deletes > 0
  /\ rows' = NoSession
  /\ deletes' = deletes - 1
  /\ UNCHANGED <<session, puts, feed, call, upstox, disturbed>>

\* A rejected query is logged and forgotten.
WriteFails ==
  /\ MayFail
  /\ \/ \E p \in puts : puts' = puts \ {p} /\ UNCHANGED deletes
     \/ deletes > 0 /\ deletes' = deletes - 1 /\ UNCHANGED puts
  /\ disturbed' = TRUE
  /\ UNCHANGED <<session, rows, feed, call, upstox>>

------------------------------------------------------------------------------
(* upstoxRestFeed *)

\* Mutant: a poll in flight counts as a poller that runs.
RunningUnlessPolling(f, s) ==
  IF f.timer \/ f.poll /= None \/ ~Authenticated(s) THEN f
  ELSE [timer |-> TRUE, poll |-> s["token"]]

\* ensureRunning() starts the timer and a first poll.
Running(f, s) ==
  IF f.timer \/ ~Authenticated(s) THEN f
  ELSE [timer |-> TRUE, poll |-> IF f.poll = None THEN s["token"] ELSE f.poll]

\* The timer fires: one request at a time, and none without a token.
Poll ==
  /\ feed.timer /\ feed.poll = None
  /\ ReadToken
  /\ feed' = [feed EXCEPT !.poll = IF Authenticated(session) THEN session["token"] ELSE None]
  /\ UNCHANGED call

\* 401 or 403: the session is cleared, whichever it is by now, and the poller stops.
PollRejected ==
  /\ feed.poll \in dead
  /\ ClearToken
  /\ feed' = Stopped
  /\ UNCHANGED call

\* Prices, or an error that is not about the token; for a dead one such an
\* error only puts the rejection off to the next poll.
PollAnswered ==
  /\ feed.poll \in Issued \ dead
  /\ feed' = [feed EXCEPT !.poll = None]
  /\ UNCHANGED <<session, stored, call, upstox>>

\* A client subscribes to a symbol.
Watch ==
  /\ ReadToken
  /\ feed' = Running(feed, session)
  /\ UNCHANGED call

------------------------------------------------------------------------------
(* The requests *)

\* callback(): the signed state names the user; the code goes to Upstox.
Link(x, u) ==
  /\ call[x].pc = "idle"
  /\ Cardinality({y \in Callers : call[y].pc = "exchange"}) < Cardinality(Links \ Issued)
  /\ Become(x, [Idle EXCEPT !.pc = "exchange", !.user = u])
  /\ UNCHANGED <<session, stored, feed, upstox>>

\* The new token replaces the session, whoever owned it; the socket connects.
Exchanged(x) ==
  /\ call[x].pc = "exchange"
  /\ \E n \in Links :
       /\ NextLink(n)
       /\ SetAccessToken(n, call[x].user)
  /\ Become(x, [Idle EXCEPT !.pc = "connect"])
  /\ UNCHANGED feed

ExchangeFails(x) ==
  /\ MayFail
  /\ call[x].pc = "exchange"
  /\ Return(x)
  /\ UNCHANGED <<session, stored, feed, upstox>>

\* connect() has returned, timed out or failed.
Connected(x) ==
  /\ call[x].pc = "connect"
  /\ ReadToken
  /\ feed' = Running(feed, session)
  /\ Return(x)

\* setToken(): refused while another user has a session.
Paste(u) ==
  /\ Cardinality({y \in Callers : call[y].pc = "exchange"}) < Cardinality(Links \ Issued)
  /\ \/ /\ Authenticated(session) /\ ~OwnedBy(session, u)
        /\ ReadToken
     \/ /\ ~(Authenticated(session) /\ ~OwnedBy(session, u))
        /\ \E n \in Links : NextLink(n) /\ SetAccessToken(n, u)
  /\ UNCHANGED <<feed, call>>

\* logout(): refused for a session of another user; the poller goes on idle.
Logout(u) ==
  /\ deletes < MaxDeletes
  /\ \/ /\ Authenticated(session) /\ ~OwnedBy(session, u)
        /\ ReadToken
     \/ /\ ~(Authenticated(session) /\ ~OwnedBy(session, u))
        /\ ClearToken
  /\ UNCHANGED <<feed, call>>

\* brokerDisconnect(), behind requireBrokerOwner.
Disconnect(u) ==
  /\ deletes < MaxDeletes
  /\ \/ /\ ~(Authenticated(session) /\ OwnedBy(session, u))
        /\ ReadToken
        /\ UNCHANGED feed
     \/ /\ Authenticated(session) /\ OwnedBy(session, u)
        /\ ClearToken
        /\ feed' = [feed EXCEPT !.timer = FALSE]
  /\ UNCHANGED call

\* getBrokerStatus(): asks for profile and funds if the session is the user's,
\* whether or not it has lapsed.
Status(x, u) ==
  /\ call[x].pc = "idle"
  /\ deletes < MaxDeletes
  /\ ReadToken
  /\ IF OwnedBy(session, u) THEN Become(x, [Idle EXCEPT !.pc = "ask"])
     ELSE UNCHANGED call
  /\ UNCHANGED feed

\* The lookup in broker_accounts is back: the token is the session's of now.
Ask(x) ==
  /\ call[x].pc = "ask"
  /\ ReadToken
  /\ IF Authenticated(session)
     THEN Become(x, [Idle EXCEPT !.pc = "answer", !.token = session["token"]])
     ELSE Return(x)
  /\ UNCHANGED feed

StatusRejected(x) ==
  /\ call[x].pc = "answer"
  /\ call[x].token \in dead
  /\ ClearToken
  /\ Return(x)
  /\ UNCHANGED feed

\* Profile and funds, or an error that is not about the token.
StatusAnswered(x) ==
  /\ \/ call[x].pc = "answer" /\ call[x].token \notin dead
     \/ call[x].pc \in {"ask", "answer"} /\ MayFail
  /\ Return(x)
  /\ UNCHANGED <<session, stored, feed, upstox>>

------------------------------------------------------------------------------
(* Upstox, the clock and the process *)

\* A token is revoked, replaced by a newer login or past 3:30.
Die ==
  /\ \E n \in Issued \ dead : dead' = dead \cup {n}
  /\ UNCHANGED <<session, stored, feed, call, linker, lapsed>>

\* The expiry of the session or of the rows passes.
Lapse ==
  /\ \E n \in {session["expires"], rows["expires"]} \ lapsed :
       /\ n /= None \/ session["token"] /= None
       /\ lapsed' = lapsed \cup {n}
  /\ UNCHANGED <<session, stored, feed, call, linker, dead>>

\* What loadPersistedToken() makes of the rows; without an expiry the token is
\* given until the end of the day.
Expired(r) == r["expires"] /= None /\ r["expires"] \in lapsed
Reload(r) == IF r["token"] = None \/ Expired(r) THEN NoSession ELSE r

\* The process ends with its writes on their way and starts again; the poller
\* starts with the session, before requests are accepted.
Restart ==
  /\ MayFail
  /\ call' = [x \in Callers |-> Idle]
  /\ puts' = {}
  /\ \/ /\ session' = Reload(rows)
        /\ deletes' = IF rows["token"] /= None /\ Expired(rows) THEN 1 ELSE 0
        /\ lapsed' = IF rows["expires"] = None THEN lapsed \ {None} ELSE lapsed
        /\ feed' = IF session'["token"] = None THEN Stopped
                   ELSE [timer |-> TRUE, poll |-> session'["token"]]
        /\ disturbed' = (disturbed \/ ~Quiet)
     \/ /\ session' = NoSession
        /\ deletes' = 0
        /\ feed' = Stopped
        /\ disturbed' = TRUE
        /\ UNCHANGED lapsed
  /\ UNCHANGED <<rows, linker, dead>>

------------------------------------------------------------------------------
Init ==
  /\ session = NoSession /\ rows = NoSession
  /\ puts = {} /\ deletes = 0
  /\ feed = Stopped
  /\ call = [x \in Callers |-> Idle]
  /\ linker = [n \in Links |-> Nobody]
  /\ dead = {} /\ lapsed = {}
  /\ disturbed = FALSE

Next ==
  \/ PutLands \/ DeleteLands \/ WriteFails
  \/ Poll \/ PollRejected \/ PollAnswered \/ Watch
  \/ \E x \in Callers :
       \/ \E u \in Users : Link(x, u) \/ Status(x, u)
       \/ Exchanged(x) \/ ExchangeFails(x) \/ Connected(x)
       \/ Ask(x) \/ StatusRejected(x) \/ StatusAnswered(x)
  \/ \E u \in Users : Paste(u) \/ Logout(u) \/ Disconnect(u)
  \/ Die \/ Lapse \/ Restart

Spec == Init /\ [][Next]_vars

\* Queries end, the interval timer fires, every call to Upstox ends within its
\* timeout, and Upstox rejects a dead token in the end.
FairSpec ==
  /\ Spec
  /\ WF_vars(PutLands) /\ WF_vars(DeleteLands)
  /\ WF_vars(Poll) /\ WF_vars(PollAnswered) /\ WF_vars(PollRejected)
  /\ \A x \in Callers : WF_vars(Connected(x))

------------------------------------------------------------------------------
(* Properties *)

CallType == [pc : {"idle", "exchange", "connect", "ask", "answer"},
             user : Users \cup {Nobody}, token : 0..LastLink]
FeedType == [timer : BOOLEAN, poll : 0..LastLink]

\* What the variables hold.
TypeOK ==
  /\ session \in [Flags -> 0..LastLink]
  /\ rows \in [Flags -> 0..LastLink]
  /\ puts \subseteq Flags \X Links
  /\ deletes \in Nat
  /\ feed \in FeedType
  /\ call \in [Callers -> CallType]
  /\ linker \in [Links -> Users \cup {Nobody}]
  /\ dead \subseteq Links
  /\ lapsed \subseteq 0..LastLink
  /\ disturbed \in BOOLEAN

\* "Restore a persisted token into memory at boot": when the writes have landed,
\* a restart brings back the session in memory and no other, as long as no write
\* failed or was overtaken (_persist, _clearPersisted, loadPersistedToken).
RestartRestores ==
  ~disturbed /\ Quiet =>
    Reload(rows) = IF Authenticated(session) THEN session ELSE NoSession

\* The token, the expiry and the owner are of one link, and the owner of the
\* session is the user who linked it ("WHO connected this broker account"), as
\* long as no write of the rows failed or was overtaken.
OwnerIsLinker ==
  ~disturbed /\ session["token"] /= None =>
    session = Session(session["token"]) /\ linker[session["token"]] \in Users

\* A token that Upstox no longer accepts does not stay the session while the
\* poller runs or the callback that linked it is about to start it.
DeadTokenDropped ==
  \A n \in Links :
    (/\ n \in dead /\ session["token"] = n
     /\ feed.timer \/ \E x \in Callers : call[x].pc = "connect")
      ~> session["token"] /= n

\* A rejection clears the session it is about: "The stored token is dead. Clear
\* it so the UI shows a clean Connect state and the next login starts fresh".
OnlyRejectedCleared ==
  [][/\ PollRejected => session["token"] \in {None, feed.poll}
     /\ \A x \in Callers : StatusRejected(x) => session["token"] \in {None, call[x].token}]_vars
=============================================================================
