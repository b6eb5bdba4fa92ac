------------------------- MODULE BrokerSessionProofs -------------------------
(***************************************************************************)
(* Theorems about BrokerSession for every number of requests, users and     *)
(* links.                                                                   *)
(*                                                                          *)
(* RestartRestores speaks of the rows when all writes have landed.  What    *)
(* carries it is that until then every row either holds the session's link  *)
(* already or has the upsert of that link on its way (Held), or the DELETE  *)
(* that follows a cleared session has not landed (Clearing).                *)
(***************************************************************************)
EXTENDS BrokerSession, TLAPS

Held ==
  LET n == session["expires"]
  IN  /\ deletes = 0
      /\ session["owner"] = n /\ session["token"] \in {n, None}
      /\ n \in Issued \cup {None}
      /\ session["token"] = None => n = None \/ n \in lapsed
      /\ puts \subseteq Flags \X {n}
      /\ \A f \in Flags : <<f, n>> \in puts \/ rows[f] = n

Clearing == deletes = 1 /\ puts = {} /\ session = NoSession

Settling == ~disturbed => Held \/ Clearing

\* The user who started a link is known when Upstox answers.
Named(c) == c.pc = "exchange" => c.user \in Users

Calls == call \in [Callers -> CallType] /\ \A x \in Callers : Named(call[x])

IInv == TypeOK /\ Settling /\ Calls

------------------------------------------------------------------------------
(* Facts about the operators *)

LEMMA Ranges == None \in 0..LastLink /\ Links \subseteq 0..LastLink /\ LastLink \in Nat
BY SessionAssumption DEF None, Links

LEMMA FlagNames == "token" \in Flags /\ "expires" \in Flags /\ "owner" \in Flags
BY DEF Flags

LEMMA SessionTypes ==
  /\ NoSession \in [Flags -> 0..LastLink]
  /\ \A n \in Links : Session(n) \in [Flags -> 0..LastLink]
BY Ranges DEF NoSession, Session

LEMMA IdleType == Idle \in CallType /\ Named(Idle)
BY Ranges DEF Idle, CallType, Named

LEMMA StoppedType == Stopped \in FeedType
BY Ranges DEF Stopped, FeedType

LEMMA BecomeStep ==
  ASSUME Calls, NEW x \in Callers, NEW c \in CallType, Named(c), Become(x, c)
  PROVE  Calls'
BY DEF Calls, Become, Named

LEMMA ReturnStep ==
  ASSUME Calls, NEW x \in Callers, Return(x)
  PROVE  Calls'
BY IdleType, BecomeStep DEF Return

LEMMA CallsStay ==
  ASSUME Calls, UNCHANGED call
  PROVE  Calls'
BY DEF Calls

LEMMA CheckedType ==
  ASSUME TypeOK
  PROVE  Checked \in [Flags -> 0..LastLink]
BY Ranges DEF TypeOK, Checked, Dropped

LEMMA RunningType ==
  ASSUME TypeOK, NEW s \in [Flags -> 0..LastLink]
  PROVE  Running(feed, s) \in FeedType
BY FlagNames DEF TypeOK, Running, FeedType

------------------------------------------------------------------------------
(* What the helpers of upstoxAuth preserve *)

\* Nothing of the session or its writes changes, and expiries only pass.
LEMMA SteadyStep ==
  ASSUME IInv, UNCHANGED <<session, stored, linker>>, lapsed \subseteq lapsed'
  PROVE  Settling'
BY DEF IInv, Settling, Held, Clearing, stored, Issued

LEMMA ReadTokenStep ==
  ASSUME IInv, ReadToken
  PROVE  /\ Settling'
         /\ session' \in [Flags -> 0..LastLink]
         /\ UNCHANGED <<rows, puts, deletes, disturbed, linker, dead, lapsed>>
<1>1. session' = Checked /\ UNCHANGED <<rows, puts, deletes, disturbed, linker, dead, lapsed>>
  BY DEF ReadToken, stored, upstox
<1>2. session' \in [Flags -> 0..LastLink]
  BY <1>1, CheckedType DEF IInv
<1>3. ASSUME Held
      PROVE  Held'
  <2>1. CASE Authenticated(session)
    BY <1>1, <1>3, <2>1 DEF Held, Checked, Issued
  <2>2. CASE ~Authenticated(session)
    <3>1. session' = [session EXCEPT !["token"] = None]
      BY <1>1, <2>2 DEF Checked, Dropped
    <3>2. /\ session'["token"] = None /\ session'["owner"] = session["owner"]
          /\ session'["expires"] = session["expires"]
      BY <3>1, FlagNames DEF IInv, TypeOK
    <3>3. session["expires"] = None \/ session["expires"] \in lapsed
      BY <1>3, <2>2 DEF Held, Authenticated
    <3> QED
      BY <1>1, <1>3, <3>2, <3>3 DEF Held, Issued
  <2> QED
    BY <2>1, <2>2
<1>4. ASSUME Clearing
      PROVE  Clearing'
  <2>1. session = NoSession
    BY <1>4 DEF Clearing
  <2>2. Checked = NoSession
    BY <2>1, FlagNames DEF Checked, Authenticated, Dropped, NoSession
  <2> QED
    BY <1>1, <1>4, <2>2 DEF Clearing
<1> QED
  BY <1>1, <1>2, <1>3, <1>4 DEF IInv, Settling

LEMMA SetAccessTokenStep ==
  ASSUME IInv, NEW n \in Links, NEW u \in Users, SetAccessToken(n, u)
  PROVE  /\ Settling'
         /\ session' \in [Flags -> 0..LastLink]
         /\ puts' \subseteq Flags \X Links
         /\ linker' \in [Links -> Users \cup {Nobody}]
         /\ disturbed' \in BOOLEAN
         /\ UNCHANGED <<rows, deletes, dead, lapsed>>
<1>1. /\ session' = Session(n)
      /\ linker' = [linker EXCEPT ![n] = u]
      /\ puts' = puts \cup (Flags \X {n})
      /\ disturbed' = (disturbed \/ ~Quiet)
      /\ UNCHANGED <<rows, deletes, dead, lapsed>>
  BY DEF SetAccessToken, Linked, Upserts
<1>2. TypeOK
  BY DEF IInv
<1>3. ASSUME ~disturbed'
      PROVE  Held'
  <2>1. puts' = Flags \X {n} /\ deletes' = 0
    BY <1>1, <1>3 DEF Quiet
  <2>2. session'["expires"] = n /\ session'["owner"] = n /\ session'["token"] = n
    BY <1>1, FlagNames DEF Session
  <2>3. linker'[n] \in Users
    BY <1>1, <1>2 DEF TypeOK
  <2>4. n /= None
    BY SessionAssumption DEF Links, None
  <2>5. n \in Issued'
    BY <2>3, SessionAssumption DEF Issued
  <2> QED
    BY <2>1, <2>2, <2>4, <2>5 DEF Held
<1>4. session' \in [Flags -> 0..LastLink]
  BY <1>1, SessionTypes
<1>5. puts' \subseteq Flags \X Links
  BY <1>1, <1>2 DEF TypeOK
<1>6. linker' \in [Links -> Users \cup {Nobody}]
  BY <1>1, <1>2 DEF TypeOK
<1>7. disturbed' \in BOOLEAN
  BY <1>1, <1>2 DEF TypeOK
<1> QED
  BY <1>1, <1>3, <1>4, <1>5, <1>6, <1>7 DEF Settling

LEMMA ClearTokenStep ==
  ASSUME IInv, ClearToken
  PROVE  /\ Settling'
         /\ session' \in [Flags -> 0..LastLink]
         /\ deletes' \in Nat
         /\ disturbed' \in BOOLEAN
         /\ UNCHANGED <<rows, puts, linker, dead, lapsed>>
<1>1. /\ session' = NoSession
      /\ deletes' = deletes + 1
      /\ disturbed' = (disturbed \/ ~Quiet)
      /\ UNCHANGED <<rows, puts, linker, dead, lapsed>>
  BY DEF ClearToken, Cleared, upstox
<1>2. ASSUME ~disturbed'
      PROVE  Clearing'
  <2>1. Quiet
    BY <1>1, <1>2
  <2> QED
    BY <1>1, <2>1 DEF Quiet, Clearing
<1>3. deletes' \in Nat /\ disturbed' \in BOOLEAN
  BY <1>1 DEF IInv, TypeOK
<1> QED
  BY <1>1, <1>2, <1>3, SessionTypes DEF Settling

------------------------------------------------------------------------------
(* The rows *)

LEMMA PutLandsStep ==
  ASSUME IInv, PutLands
  PROVE  IInv'
<1>1. PICK p \in puts :
        /\ rows' = [rows EXCEPT ![p[1]] = p[2]]
        /\ puts' = puts \ {p}
        /\ UNCHANGED <<session, deletes, feed, call, linker, dead, lapsed, disturbed>>
  BY DEF PutLands, upstox
<1>2. TypeOK /\ p \in Flags \X Links
  BY DEF IInv, TypeOK
<1>3. TypeOK'
  BY <1>1, <1>2, Ranges DEF TypeOK
<1>4. ASSUME Held
      PROVE  Held'
  <2> DEFINE n == session["expires"]
  <2>1. p = <<p[1], n>> /\ p[1] \in Flags /\ p[2] = n
    BY <1>2, <1>4 DEF Held
  <2>2. ASSUME NEW f \in Flags
        PROVE  <<f, n>> \in puts' \/ rows'[f] = n
    <3>1. CASE f = p[1]
      BY <1>1, <1>2, <2>1, <3>1 DEF TypeOK
    <3>2. CASE f /= p[1]
      <4>1. rows'[f] = rows[f]
        BY <1>1, <1>2, <3>2 DEF TypeOK
      <4>2. <<f, n>> /= p
        BY <2>1, <3>2
      <4> QED
        BY <1>1, <1>4, <4>1, <4>2 DEF Held
    <3> QED
      BY <3>1, <3>2
  <2>3. session'["expires"] = n /\ Issued' = Issued
    BY <1>1 DEF Issued
  <2>4. puts' \subseteq Flags \X {n}
    BY <1>1, <1>4 DEF Held
  <2> QED
    BY <1>1, <1>4, <2>2, <2>3, <2>4 DEF Held
<1>5. ~Clearing
  BY <1>1 DEF Clearing
<1> QED
  BY <1>1, <1>3, <1>4, <1>5, CallsStay DEF IInv, Settling

LEMMA DeleteLandsStep ==
  ASSUME IInv, DeleteLands
  PROVE  IInv'
<1>1. /\ deletes > 0 /\ rows' = NoSession /\ deletes' = deletes - 1
      /\ UNCHANGED <<session, puts, feed, call, linker, dead, lapsed, disturbed>>
  BY DEF DeleteLands, upstox
<1>2. TypeOK'
  BY <1>1, SessionTypes DEF IInv, TypeOK
<1>3. ~Held
  BY <1>1 DEF Held
<1>4. ASSUME Clearing
      PROVE  Held'
  <2>1. session' = NoSession /\ puts' = {} /\ deletes' = 0
    BY <1>1, <1>4 DEF Clearing
  <2>2. /\ session'["expires"] = None /\ session'["owner"] = None /\ session'["token"] = None
        /\ \A f \in Flags : rows'[f] = None
    BY <1>1, <2>1, FlagNames DEF NoSession
  <2> QED
    BY <2>1, <2>2 DEF Held
<1> QED
  BY <1>1, <1>2, <1>3, <1>4, CallsStay DEF IInv, Settling

LEMMA WriteFailsStep ==
  ASSUME IInv, WriteFails
  PROVE  IInv'
<1>1. /\ \/ puts' \subseteq puts /\ UNCHANGED deletes
         \/ deletes > 0 /\ deletes' = deletes - 1 /\ UNCHANGED puts
      /\ disturbed' = TRUE
      /\ UNCHANGED <<session, rows, feed, call, linker, dead, lapsed>>
  BY DEF WriteFails, upstox
<1> QED
  BY <1>1, CallsStay DEF IInv, TypeOK, Settling

------------------------------------------------------------------------------
(* The poller *)

LEMMA PollStep ==
  ASSUME IInv, Poll
  PROVE  IInv'
<1>1. ReadToken /\ UNCHANGED call
      /\ feed' = [feed EXCEPT !.poll = IF Authenticated(session) THEN session["token"] ELSE None]
  BY DEF Poll
<1>2. (IF Authenticated(session) THEN session["token"] ELSE None) \in 0..LastLink
  BY FlagNames, Ranges DEF IInv, TypeOK
<1>3. feed' \in FeedType
  BY <1>1, <1>2 DEF IInv, TypeOK, FeedType
<1> QED
  BY <1>1, <1>3, ReadTokenStep, CallsStay DEF IInv, TypeOK

LEMMA PollRejectedStep ==
  ASSUME IInv, PollRejected
  PROVE  IInv'
<1>1. ClearToken /\ feed' = Stopped /\ UNCHANGED call
  BY DEF PollRejected
<1> QED
  BY <1>1, ClearTokenStep, StoppedType, CallsStay DEF IInv, TypeOK

LEMMA PollAnsweredStep ==
  ASSUME IInv, PollAnswered
  PROVE  IInv'
<1>1. /\ feed' = [feed EXCEPT !.poll = None]
      /\ UNCHANGED <<session, stored, call, linker, dead, lapsed>>
  BY DEF PollAnswered, upstox
<1>2. feed' \in FeedType
  BY <1>1, Ranges DEF IInv, TypeOK, FeedType
<1>3. Settling'
  BY <1>1, SteadyStep
<1> QED
  BY <1>1, <1>2, <1>3, CallsStay DEF IInv, TypeOK, stored

LEMMA WatchStep ==
  ASSUME IInv, Watch
  PROVE  IInv'
<1>1. ReadToken /\ feed' = Running(feed, session) /\ UNCHANGED call
  BY DEF Watch
<1>2. feed' \in FeedType
  BY <1>1, RunningType DEF IInv, TypeOK
<1> QED
  BY <1>1, <1>2, ReadTokenStep, CallsStay DEF IInv, TypeOK

------------------------------------------------------------------------------
(* The requests *)

LEMMA LinkStep ==
  ASSUME IInv, NEW x \in Callers, NEW u \in Users, Link(x, u)
  PROVE  IInv'
<1> DEFINE c == [Idle EXCEPT !.pc = "exchange", !.user = u]
<1>1. Become(x, c) /\ UNCHANGED <<session, stored, feed, linker, dead, lapsed>>
  BY DEF Link, upstox
<1>2. c \in CallType /\ Named(c)
  BY Ranges DEF Idle, CallType, Named
<1> HIDE DEF c
<1>3. Calls'
  BY <1>1, <1>2, BecomeStep DEF IInv
<1>4. Settling'
  BY <1>1, SteadyStep
<1> QED
  BY <1>1, <1>3, <1>4 DEF IInv, TypeOK, stored, Calls

LEMMA ExchangedStep ==
  ASSUME IInv, NEW x \in Callers, Exchanged(x)
  PROVE  IInv'
<1> DEFINE c == [Idle EXCEPT !.pc = "connect"]
<1>1. call[x].user \in Users
  BY DEF IInv, Calls, Named, Exchanged
<1>2. PICK n \in Links : SetAccessToken(n, call[x].user)
  BY DEF Exchanged
<1>3. Become(x, c) /\ UNCHANGED feed
  BY DEF Exchanged
<1>4. c \in CallType /\ Named(c)
  BY Ranges DEF Idle, CallType, Named
<1> HIDE DEF c
<1>5. Calls'
  BY <1>3, <1>4, BecomeStep DEF IInv
<1> QED
  BY <1>1, <1>2, <1>3, <1>5, SetAccessTokenStep DEF IInv, TypeOK, Calls

\* A call ends, or its answer leaves the session alone.
LEMMA ReturnOnlyStep ==
  ASSUME IInv, NEW x \in Callers, ExchangeFails(x) \/ StatusAnswered(x)
  PROVE  IInv'
<1>1. Return(x) /\ UNCHANGED <<session, stored, feed, linker, dead, lapsed>>
  BY DEF ExchangeFails, StatusAnswered, upstox
<1>2. Calls'
  BY <1>1, ReturnStep DEF IInv
<1>3. Settling'
  BY <1>1, SteadyStep
<1> QED
  BY <1>1, <1>2, <1>3 DEF IInv, TypeOK, stored, Calls

LEMMA ConnectedStep ==
  ASSUME IInv, NEW x \in Callers, Connected(x)
  PROVE  IInv'
<1>1. ReadToken /\ feed' = Running(feed, session) /\ Return(x)
  BY DEF Connected
<1>2. feed' \in FeedType
  BY <1>1, RunningType DEF IInv, TypeOK
<1>3. Calls'
  BY <1>1, ReturnStep DEF IInv
<1> QED
  BY <1>1, <1>2, <1>3, ReadTokenStep DEF IInv, TypeOK, Calls

LEMMA PasteStep ==
  ASSUME IInv, NEW u \in Users, Paste(u)
  PROVE  IInv'
<1>1. UNCHANGED <<feed, call>>
  BY DEF Paste
<1>2. CASE ReadToken
  BY <1>1, <1>2, ReadTokenStep, CallsStay DEF IInv, TypeOK
<1>3. ASSUME NEW n \in Links, SetAccessToken(n, u)
      PROVE  IInv'
  BY <1>1, <1>3, SetAccessTokenStep, CallsStay DEF IInv, TypeOK
<1> QED
  BY <1>2, <1>3 DEF Paste

LEMMA LogoutStep ==
  ASSUME IInv, NEW u \in Users, Logout(u)
  PROVE  IInv'
<1>1. UNCHANGED <<feed, call>>
  BY DEF Logout
<1>2. CASE ReadToken
  BY <1>1, <1>2, ReadTokenStep, CallsStay DEF IInv, TypeOK
<1>3. CASE ClearToken
  BY <1>1, <1>3, ClearTokenStep, CallsStay DEF IInv, TypeOK
<1> QED
  BY <1>2, <1>3 DEF Logout

LEMMA DisconnectStep ==
  ASSUME IInv, NEW u \in Users, Disconnect(u)
  PROVE  IInv'
<1>1. UNCHANGED call
  BY DEF Disconnect
<1>2. CASE ReadToken /\ UNCHANGED feed
  BY <1>1, <1>2, ReadTokenStep, CallsStay DEF IInv, TypeOK
<1>3. CASE ClearToken /\ feed' = [feed EXCEPT !.timer = FALSE]
  <2>1. feed' \in FeedType
    BY <1>3 DEF IInv, TypeOK, FeedType
  <2> QED
    BY <1>1, <1>3, <2>1, ClearTokenStep, CallsStay DEF IInv, TypeOK
<1> QED
  BY <1>2, <1>3 DEF Disconnect

LEMMA StatusStep ==
  ASSUME IInv, NEW x \in Callers, NEW u \in Users, Status(x, u)
  PROVE  IInv'
<1> DEFINE c == [Idle EXCEPT !.pc = "ask"]
<1>1. ReadToken /\ UNCHANGED feed /\ (Become(x, c) \/ UNCHANGED call)
  BY DEF Status
<1>2. c \in CallType /\ Named(c)
  BY Ranges DEF Idle, CallType, Named
<1> HIDE DEF c
<1>3. Calls'
  BY <1>1, <1>2, BecomeStep, CallsStay DEF IInv
<1> QED
  BY <1>1, <1>3, ReadTokenStep DEF IInv, TypeOK, Calls

LEMMA AskStep ==
  ASSUME IInv, NEW x \in Callers, Ask(x)
  PROVE  IInv'
<1> DEFINE c == [Idle EXCEPT !.pc = "answer", !.token = session["token"]]
<1>1. ReadToken /\ UNCHANGED feed /\ (Become(x, c) \/ Return(x))
  BY DEF Ask
<1>2. session["token"] \in 0..LastLink
  BY FlagNames DEF IInv, TypeOK
<1>3. c \in CallType /\ Named(c)
  BY <1>2, Ranges DEF Idle, CallType, Named
<1> HIDE DEF c
<1>4. Calls'
  BY <1>1, <1>3, BecomeStep, ReturnStep DEF IInv
<1> QED
  BY <1>1, <1>4, ReadTokenStep DEF IInv, TypeOK, Calls

LEMMA StatusRejectedStep ==
  ASSUME IInv, NEW x \in Callers, StatusRejected(x)
  PROVE  IInv'
<1>1. ClearToken /\ Return(x) /\ UNCHANGED feed
  BY DEF StatusRejected
<1>2. Calls'
  BY <1>1, ReturnStep DEF IInv
<1> QED
  BY <1>1, <1>2, ClearTokenStep DEF IInv, TypeOK, Calls

------------------------------------------------------------------------------
(* Upstox, the clock and the process *)

LEMMA DieStep ==
  ASSUME IInv, Die
  PROVE  IInv'
<1>1. PICK n \in Issued \ dead :
        dead' = dead \cup {n} /\ UNCHANGED <<session, stored, feed, call, linker, lapsed>>
  BY DEF Die
<1>2. Settling'
  BY <1>1, SteadyStep
<1> QED
  BY <1>1, <1>2, CallsStay DEF IInv, TypeOK, stored, Issued

LEMMA LapseStep ==
  ASSUME IInv, Lapse
  PROVE  IInv'
<1>1. PICK n \in {session["expires"], rows["expires"]} :
        lapsed' = lapsed \cup {n} /\ UNCHANGED <<session, stored, feed, call, linker, dead>>
  BY DEF Lapse
<1>2. n \in 0..LastLink
  BY <1>1, FlagNames DEF IInv, TypeOK
<1>3. Settling'
  BY <1>1, SteadyStep
<1> QED
  BY <1>1, <1>2, <1>3, CallsStay DEF IInv, TypeOK, stored

\* When all writes have landed, the rows are those of the session's link.
LEMMA LandedRows ==
  ASSUME TypeOK, Held, puts = {}
  PROVE  rows = Session(session["expires"])
<1>1. \A f \in Flags : rows[f] = session["expires"]
  BY DEF Held
<1> QED
  BY <1>1 DEF TypeOK, Session

LEMMA ReloadType ==
  ASSUME TypeOK
  PROVE  Reload(rows) \in [Flags -> 0..LastLink]
BY SessionTypes DEF TypeOK, Reload

LEMMA RestartStep ==
  ASSUME IInv, Restart
  PROVE  IInv'
<1>1. /\ call' = [x \in Callers |-> Idle] /\ puts' = {}
      /\ UNCHANGED <<rows, linker, dead>>
  BY DEF Restart
<1>2. Calls'
  BY <1>1, IdleType DEF Calls
<1>3. CASE /\ session' = NoSession /\ deletes' = 0 /\ feed' = Stopped
           /\ disturbed' = TRUE /\ UNCHANGED lapsed
  BY <1>1, <1>2, <1>3, SessionTypes, StoppedType DEF IInv, TypeOK, Settling, Calls
<1>4. CASE /\ session' = Reload(rows)
           /\ deletes' = IF rows["token"] /= None /\ Expired(rows) THEN 1 ELSE 0
           /\ lapsed' = IF rows["expires"] = None THEN lapsed \ {None} ELSE lapsed
           /\ feed' = IF session'["token"] = None THEN Stopped
                      ELSE [timer |-> TRUE, poll |-> session'["token"]]
           /\ disturbed' = (disturbed \/ ~Quiet)
  <2>1. session' \in [Flags -> 0..LastLink]
    BY <1>4, ReloadType DEF IInv
  <2>2. feed' \in FeedType
    <3>1. session'["token"] \in 0..LastLink
      BY <2>1, FlagNames
    <3> QED
      BY <1>4, <3>1, StoppedType DEF FeedType
  <2>3. deletes' \in Nat /\ lapsed' \subseteq 0..LastLink /\ disturbed' \in BOOLEAN
    BY <1>4 DEF IInv, TypeOK
  <2>4. TypeOK'
    BY <1>1, <1>2, <2>1, <2>2, <2>3 DEF IInv, TypeOK, Calls
  <2>5. ASSUME ~disturbed'
        PROVE  Held' \/ Clearing'
    <3> DEFINE n == session["expires"]
    <3>1. ~disturbed /\ Quiet
      BY <1>4, <2>5
    <3>2. Held
      BY <3>1 DEF IInv, Settling, Clearing, Quiet
    <3>3. rows = Session(n)
      BY <3>1, <3>2, LandedRows DEF IInv, Quiet
    <3>4. rows["token"] = n /\ rows["expires"] = n /\ rows["owner"] = n
      BY <3>3, FlagNames DEF Session
    <3>5. n \in Issued \cup {None} /\ Issued' = Issued
      BY <1>1, <3>2 DEF Held, Issued
    <3> HIDE DEF n
    <3>6. CASE n /= None /\ n \in lapsed
      <4>1. session' = NoSession /\ deletes' = 1
        BY <1>4, <3>4, <3>6 DEF Reload, Expired
      <4> QED
        BY <1>1, <4>1 DEF Clearing
    <3>7. CASE ~(n /= None /\ n \in lapsed)
      <4>1. deletes' = 0
        BY <1>4, <3>4, <3>7 DEF Expired
      <4>2. \A f \in Flags : rows'[f] = n
        BY <1>1, <3>3 DEF Session
      <4>3. session'["token"] = n /\ session'["expires"] = n /\ session'["owner"] = n
        <5>1. CASE n = None
          BY <1>4, <3>4, <5>1, FlagNames DEF Reload, NoSession
        <5>2. CASE n /= None
          BY <1>4, <3>4, <3>7, <5>2 DEF Reload, Expired
        <5> QED
          BY <5>1, <5>2
      <4>4. session'["token"] = None => n = None
        BY <4>3
      <4> QED
        BY <1>1, <3>5, <4>1, <4>2, <4>3, <4>4 DEF Held
    <3> QED
      BY <3>6, <3>7
  <2> QED
    BY <1>2, <2>4, <2>5 DEF IInv, Settling
<1> QED
  BY <1>3, <1>4 DEF Restart

------------------------------------------------------------------------------
(* The invariant and what follows from it *)

LEMMA InitIInv == Init => IInv
<1> SUFFICES ASSUME Init
             PROVE  IInv
  OBVIOUS
<1>1. TypeOK
  BY SessionTypes, StoppedType, IdleType DEF Init, TypeOK
<1>2. Calls
  BY IdleType DEF Init, Calls
<1>3. Held
  BY FlagNames DEF Init, Held, NoSession
<1> QED
  BY <1>1, <1>2, <1>3 DEF IInv, Settling

LEMMA StepIInv == IInv /\ [Next]_vars => IInv'
<1> SUFFICES ASSUME IInv, [Next]_vars
             PROVE  IInv'
  OBVIOUS
<1>1. CASE PutLands \/ DeleteLands \/ WriteFails
  BY <1>1, PutLandsStep, DeleteLandsStep, WriteFailsStep
<1>2. CASE Poll \/ PollRejected \/ PollAnswered \/ Watch
  BY <1>2, PollStep, PollRejectedStep, PollAnsweredStep, WatchStep
<1>3. ASSUME NEW x \in Callers, NEW u \in Users, Link(x, u) \/ Status(x, u)
      PROVE  IInv'
  BY <1>3, LinkStep, StatusStep
<1>4. ASSUME NEW x \in Callers, Exchanged(x) \/ ExchangeFails(x) \/ Connected(x)
      PROVE  IInv'
  BY <1>4, ExchangedStep, ReturnOnlyStep, ConnectedStep
<1>5. ASSUME NEW x \in Callers, Ask(x) \/ StatusRejected(x) \/ StatusAnswered(x)
      PROVE  IInv'
  BY <1>5, AskStep, StatusRejectedStep, ReturnOnlyStep
<1>6. ASSUME NEW u \in Users, Paste(u) \/ Logout(u) \/ Disconnect(u)
      PROVE  IInv'
  BY <1>6, PasteStep, LogoutStep, DisconnectStep
<1>7. CASE Die \/ Lapse \/ Restart
  BY <1>7, DieStep, LapseStep, RestartStep
<1>8. CASE UNCHANGED vars
  <2>1. UNCHANGED <<session, stored, feed, call, linker, dead, lapsed>>
    BY <1>8 DEF vars, stored
  <2>2. Settling'
    BY <2>1, SteadyStep
  <2> QED
    BY <2>1, <2>2, CallsStay DEF IInv, TypeOK, stored
<1> QED
  BY <1>1, <1>2, <1>3, <1>4, <1>5, <1>6, <1>7, <1>8 DEF Next

LEMMA Invariance == Spec => []IInv
BY InitIInv, StepIInv, PTL DEF Spec

\* The session, its rows, the writes on their way and the calls keep their types.
THEOREM TypeCorrect == Spec => []TypeOK
<1>1. IInv => TypeOK
  BY DEF IInv
<1> QED
  BY <1>1, Invariance, PTL

\* A restart brings back the session that is in memory, once the writes that no
\* other overtook have landed (upstoxAuth.js:73-115).
THEOREM SessionRestored == Spec => []RestartRestores
<1>1. IInv => RestartRestores
  <2> SUFFICES ASSUME IInv, ~disturbed, Quiet
               PROVE  Reload(rows) = IF Authenticated(session) THEN session ELSE NoSession
    BY DEF RestartRestores
  <2> DEFINE n == session["expires"]
  <2>1. Held
    BY DEF IInv, Settling, Clearing, Quiet
  <2>2. rows = Session(n)
    BY <2>1, LandedRows DEF IInv, Quiet
  <2>3. rows["token"] = n /\ rows["expires"] = n
    BY <2>2, FlagNames DEF Session
  <2>4. CASE Authenticated(session)
    <3>1. session["token"] = n /\ session["owner"] = n /\ n /= None /\ n \notin lapsed
      BY <2>1, <2>4 DEF Held, Authenticated
    <3>2. \A f \in Flags : session[f] = n
      BY <3>1 DEF Flags
    <3>3. session = Session(n)
      BY <3>2 DEF IInv, TypeOK, Session
    <3>4. Reload(rows) = rows
      BY <2>3, <3>1 DEF Reload, Expired
    <3> QED
      BY <2>2, <2>4, <3>3, <3>4
  <2>5. CASE ~Authenticated(session)
    <3>1. n = None \/ n \in lapsed
      BY <2>1, <2>5 DEF Held, Authenticated
    <3>2. Reload(rows) = NoSession
      BY <2>3, <3>1 DEF Reload, Expired
    <3> QED
      BY <2>5, <3>2
  <2> QED
    BY <2>4, <2>5
<1> QED
  BY <1>1, Invariance, PTL

\* The owner of the session is the user who linked its token, as long as no write
\* of the rows failed or was overtaken (upstoxAuth.js:48-52 and 159-171).
THEOREM OwnerLinked == Spec => []OwnerIsLinker
<1>1. IInv => OwnerIsLinker
  <2> SUFFICES ASSUME IInv, ~disturbed, session["token"] /= None
               PROVE  session = Session(session["token"]) /\ linker[session["token"]] \in Users
    BY DEF OwnerIsLinker
  <2> DEFINE n == session["token"]
  <2>1. Held
    BY FlagNames DEF IInv, Settling, Clearing, NoSession
  <2>2. n \in Issued /\ session["expires"] = n /\ session["owner"] = n
    BY <2>1 DEF Held
  <2>3. \A f \in Flags : session[f] = n
    BY <2>2 DEF Flags
  <2>4. session = Session(n)
    BY <2>3 DEF IInv, TypeOK, Session
  <2>5. linker[n] \in Users
    BY <2>2 DEF IInv, TypeOK, Issued
  <2> QED
    BY <2>4, <2>5
<1> QED
  BY <1>1, Invariance, PTL
=============================================================================
