----------------------------- MODULE BrokerSocket -----------------------------
(***************************************************************************)
(* The socket to Upstox's market data (upstoxWS.js): connect() exchanges    *)
(* the token for an address and only then opens a socket; a socket that     *)
(* closes schedules a reconnect; disconnect() ends it.  Requests, start-up  *)
(* and timeouts call connect() in any order, each across its own awaits.    *)
(***************************************************************************)
EXTENDS FiniteSets, Integers

CONSTANTS
  Sockets,        \* sockets that may exist at the same time
  MaxCalls,       \* bound: requests to authorize in flight when one is sent
  MaxReconnects,  \* MAX_RECONNECTS
  MaxBreaks,      \* bound: sockets that break
  MaxRequests,    \* bound: requests of users
  None

SocketAssumption ==
  /\ MaxCalls \in Nat \ {0} /\ MaxReconnects \in Nat /\ MaxBreaks \in Nat
  /\ MaxRequests \in Nat /\ None \notin Sockets

VARIABLES
  token,       \* upstoxAuth has a token
  ws,          \* _ws
  connected,   \* _connected
  destroyed,   \* _destroyed
  attempts,    \* _reconnectCount
  timer,       \* _reconnectTimer is due
  loose,       \* reconnects due that _reconnectTimer does not name
  calls,       \* requests to authorize in flight
  socket,      \* the sockets and whether their handlers are attached
  ping,        \* _pingTimer
  givenUp,     \* history: the last attempt to reconnect has failed or was not made
  breaks,
  requests

vars == <<token, ws, connected, destroyed, attempts, timer, loose, calls, socket, ping,
          givenUp, breaks, requests>>

Free == [phase |-> "none", attached |-> FALSE]
Unused == {k \in Sockets : socket[k] = Free}
IsOpen(k) == socket[k].phase = "open"
Feeding == {k \in Sockets : IsOpen(k) /\ socket[k].attached}

TypeOK ==
  /\ token \in BOOLEAN /\ connected \in BOOLEAN /\ destroyed \in BOOLEAN
  /\ timer \in BOOLEAN /\ ping \in BOOLEAN /\ givenUp \in BOOLEAN
  /\ ws \in Sockets \cup {None}
  /\ socket \in [Sockets -> [phase : {"none", "connecting", "open"}, attached : BOOLEAN]]
  /\ attempts \in 0..MaxReconnects /\ loose \in 0..MaxBreaks /\ calls \in 0..MaxCalls
  /\ breaks \in 0..MaxBreaks /\ requests \in 0..MaxRequests

Init ==
  /\ token \in BOOLEAN /\ ws = None /\ connected = FALSE /\ destroyed = FALSE
  /\ attempts = 0 /\ timer = FALSE /\ loose = 0 /\ calls = 0 /\ ping = FALSE
  /\ socket = [k \in Sockets |-> Free]
  /\ givenUp = TRUE /\ breaks = 0 /\ requests = 0

------------------------------------------------------------------------------
(* connect() *)

\* Up to its await: nothing while connected, an error without a token.
Connect(hasToken, up) ==
  IF up \/ ~hasToken
    THEN /\ UNCHANGED <<destroyed, calls>>
         /\ givenUp' = (givenUp \/ ~up)
    ELSE /\ calls < MaxCalls
         /\ destroyed' = FALSE /\ calls' = calls + 1 /\ givenUp' = FALSE

Up == connected /\ ws /= None /\ IsOpen(ws)

Authorized ==
  /\ calls > 0
  /\ \E k \in Unused :
       /\ ws' = k
       /\ socket' = [socket EXCEPT ![k] = [phase |-> "connecting", attached |-> TRUE]]
  /\ calls' = calls - 1
  /\ UNCHANGED <<token, connected, destroyed, attempts, timer, loose, ping, givenUp, breaks,
                 requests>>

\* The error is logged; nothing tries again.
AuthorizeFails ==
  /\ calls > 0
  /\ calls' = calls - 1
  /\ givenUp' = TRUE
  /\ UNCHANGED <<token, ws, connected, destroyed, attempts, timer, loose, socket, ping, breaks,
                 requests>>

Opens(k) ==
  /\ socket[k].phase = "connecting"
  /\ socket' = [socket EXCEPT ![k].phase = "open"]
  /\ IF socket[k].attached
       THEN connected' = TRUE /\ attempts' = 0 /\ ping' = TRUE
       ELSE UNCHANGED <<connected, attempts, ping>>
  /\ UNCHANGED <<token, ws, destroyed, timer, loose, calls, givenUp, breaks, requests>>

------------------------------------------------------------------------------
(* Reconnecting *)

\* _scheduleReconnect(): a timeout that _reconnectTimer named before stays due.
ScheduleReconnect ==
  IF destroyed \/ attempts >= MaxReconnects \/ ~token
    THEN /\ givenUp' = TRUE
         /\ UNCHANGED <<attempts, timer, loose>>
    ELSE /\ attempts' = attempts + 1
         /\ timer' = TRUE
         /\ loose' = IF timer THEN loose + 1 ELSE loose
         /\ UNCHANGED givenUp

\* Whichever socket has closed, the feed counts as down.
Down(k) == connected' = FALSE

\* A socket closes or its handshake fails; its handler reconnects.
Closes(k) ==
  /\ socket[k].phase \in {"connecting", "open"} /\ breaks < MaxBreaks
  /\ breaks' = breaks + 1
  /\ socket' = [socket EXCEPT ![k] = Free]
  /\ IF socket[k].attached
       THEN Down(k) /\ ping' = FALSE /\ ScheduleReconnect
       ELSE UNCHANGED <<connected, ping, attempts, timer, loose, givenUp>>
  /\ ws' = IF ws = k THEN None ELSE ws
  /\ UNCHANGED <<token, destroyed, calls, requests>>

\* Mutant: the timeout forgets to connect.
TimerForgets(hasToken, up) == UNCHANGED <<destroyed, calls, givenUp>>

Retry(hasToken, up) == Connect(hasToken, up)

TimerFires ==
  /\ \/ timer /\ timer' = FALSE /\ UNCHANGED loose
     \/ loose > 0 /\ loose' = loose - 1 /\ UNCHANGED timer
  /\ Retry(token, Up)
  /\ UNCHANGED <<token, ws, connected, attempts, socket, ping, breaks, requests>>

------------------------------------------------------------------------------
(* The requests that use it *)

\* disconnect() takes the handlers off the current socket and closes it.
DropSocket ==
  /\ timer' = FALSE /\ ping' = FALSE /\ connected' = FALSE /\ ws' = None
  /\ socket' = IF ws = None THEN socket ELSE [socket EXCEPT ![ws] = Free]

Asked == requests < MaxRequests /\ requests' = requests + 1

\* Logout, disconnect and a rejected session; the token goes too.
Disconnect ==
  /\ Asked
  /\ DropSocket
  /\ destroyed' = TRUE /\ token' = FALSE /\ givenUp' = TRUE
  /\ UNCHANGED <<attempts, loose, calls, breaks>>

\* The session ends at its expiry or by a rejected poll; nobody disconnects.
TokenGoes ==
  /\ Asked
  /\ token' = FALSE
  /\ UNCHANGED <<ws, connected, destroyed, attempts, timer, loose, calls, socket, ping, givenUp,
                 breaks>>

\* A link, a pasted token, or the start of the process with a stored one.
LinkOrPaste ==
  /\ Asked
  /\ token' = TRUE
  /\ Connect(TRUE, Up)
  /\ UNCHANGED <<ws, connected, attempts, timer, loose, socket, ping, breaks>>

\* brokerReconnect() disconnects and connects with the same token.
BrokerReconnect ==
  /\ Asked /\ token /\ calls < MaxCalls
  /\ DropSocket
  /\ destroyed' = FALSE /\ calls' = calls + 1 /\ givenUp' = FALSE
  /\ UNCHANGED <<token, attempts, loose, breaks>>

------------------------------------------------------------------------------
Next ==
  \/ Authorized \/ AuthorizeFails \/ TimerFires
  \/ \E k \in Sockets : Opens(k) \/ Closes(k)
  \/ Disconnect \/ TokenGoes \/ LinkOrPaste \/ BrokerReconnect

Spec == Init /\ [][Next]_vars

\* Timeouts fire; a request to authorize and a handshake end.
Fairness ==
  /\ WF_vars(TimerFires) /\ WF_vars(Authorized \/ AuthorizeFails)
  /\ \A k \in Sockets : WF_vars(Opens(k))

FairSpec == Spec /\ Fairness

------------------------------------------------------------------------------
\* "connected" is what keeps a second connect() out and what the status shows:
\* when it is set some socket is open and its prices are taken, however the
\* connects, breaks and disconnects overlapped.
StatusTruthful == connected => Feeding /= {} /\ ping

\* The feed comes back: while there is a token and nobody disconnects, it is
\* connected in the end, unless the reconnects are used up or one of them was
\* refused an address, after which none is made.
FeedReturns == <>[](token /\ ~destroyed /\ ~givenUp) => <>[]connected

\* "set on explicit disconnect - stop reconnecting": after disconnect() no
\* socket is opened and none feeds prices.
DestroyedIsQuiet == destroyed => Feeding = {}
=============================================================================
